-------------------------- MODULE UdpServers_proofs --------------------------
(***************************************************************************)
(* Theorems about two event loops, for every number of sockets and         *)
(* requests.  That of timerwheel_server.c strands no request and its log   *)
(* is exact; a turn of that of timerwheel_roundrobin_server.c serves each  *)
(* socket, strands nothing while sockets hold few requests, and counts its *)
(* visits in the log; and both implement the safety part of the echo       *)
(* service.                                                                *)
(***************************************************************************)
EXTENDS UdpDrainServer, EpollSockets_proofs

(* The part of the type invariant that the proofs rest on.                 *)
LoopTypes ==
  /\ SocketsOK
  /\ pc \in {"wait", "recv", "send", "log"}
  /\ todo \subseteq Sockets /\ cur \in Sockets
  /\ pc \in {"recv", "send"} => cur \in todo
  /\ pc \in {"wait", "log"} => todo = {}
  /\ req_perloop_counter \in Nat
  /\ fdreq_tracking_array \in [Sockets -> Int]
  /\ taken \in [Sockets -> Nat]

(* A socket with requests has an edge to come or is on the loop's list.    *)
Noticed == \A f \in Sockets : sock[f] # << >> => armed[f] \/ f \in todo

LEMMA InitLoop == Init => LoopTypes /\ Noticed
<1> SUFFICES ASSUME Init PROVE LoopTypes /\ Noticed
  OBVIOUS
<1>1. SocketsOK
  BY SocketsAssumption DEF Init, InitSockets, SocketsOK
<1>2. fdreq_tracking_array \in [Sockets -> Int]
  BY DrainAssumption DEF Init
<1>3. Noticed
  BY DEF Init, InitSockets, Noticed
<1> QED BY <1>1, <1>2, <1>3, SocketsInNat DEF Init, LoopTypes

LEMMA NextLoop == LoopTypes /\ Noticed /\ [Next]_vars => LoopTypes' /\ Noticed'
<1> SUFFICES ASSUME LoopTypes, Noticed, [Next]_vars PROVE LoopTypes' /\ Noticed'
  OBVIOUS
<1> USE DEF LoopTypes, Noticed, SocketsOK
<1>1. CASE EpollWait
  BY <1>1 DEF EpollWait, Readable, Report, counters
<1>2. CASE Receive
  <2>1. Head(sock[cur]) \in Requests /\ Tail(sock[cur]) \in Seq(Requests)
    BY <1>2 DEF Receive
  <2> QED BY <1>2, <2>1 DEF Receive, TakeFirst, counters
<1>3. CASE Send
  <2>1. CASE ReplyTo(request)
    <3>1. replies' \in [Requests -> Nat]
      BY <2>1, CountUp DEF ReplyTo
    <3> QED BY <1>3, <3>1 DEF Send
  <2>2. CASE UNCHANGED replies
    BY <1>3, <2>2 DEF Send
  <2> QED BY <1>3, <2>1, <2>2 DEF Send
<1>4. CASE Drained
  <2>1. /\ pc = "recv" /\ sock[cur] = << >> /\ todo' = todo \ {cur}
        /\ UNCHANGED <<arrived, sock, armed, replies, taken>>
        /\ req_perloop_counter' = 0
    BY <1>4 DEF Drained, NextSocket, StaysEmpty, kernel
  <2>2. fdreq_tracking_array' \in [Sockets -> Int]
    BY <1>4 DEF Drained
  <2>3. /\ pc' \in {"recv", "log"} /\ cur' \in Sockets
        /\ pc' = "recv" => cur' \in todo'
        /\ pc' = "log" => todo' = {}
    BY <1>4 DEF Drained, NextSocket
  <2>4. Noticed'
    BY <2>1
  <2> QED BY <2>1, <2>2, <2>3, <2>4
<1>5. CASE EndTurn
  BY <1>5 DEF EndTurn, Cleared, kernel
<1>6. CASE Clients
  <2>1. PICK f \in Sockets : Arrive(f) /\ UNCHANGED <<server, counters, taken>>
    BY <1>6 DEF Clients
  <2>2. arrived'[f] \in 1 .. MaxRequests /\ arrived' \in [Sockets -> 0 .. MaxRequests]
    BY <2>1, SocketsAssumption DEF Arrive
  <2>3. <<f, arrived'[f]>> \in Requests
    BY <2>2 DEF Requests
  <2>4. sock' \in [Sockets -> Seq(Requests)]
    BY <2>1, <2>3 DEF Arrive
  <2>5. Noticed'
    BY <2>1 DEF Arrive, server
  <2> QED BY <2>1, <2>2, <2>4, <2>5 DEF Arrive, server, counters
<1>7. CASE Idle \/ UNCHANGED vars
  BY <1>7 DEF Idle, vars, kernel, server, counters
<1> QED BY <1>1, <1>2, <1>3, <1>4, <1>5, <1>6, <1>7 DEF Next, Server

(* Whenever the loop waits, an edge is to come for every socket that has   *)
(* requests in it, however arrivals fall between the receives.             *)
THEOREM NothingStranded == Spec => []NoStranded
<1>1. LoopTypes /\ Noticed => NoStranded
  BY DEF LoopTypes, Noticed, NoStranded
<1> QED BY <1>1, InitLoop, NextLoop, PTL DEF Spec
-----------------------------------------------------------------------------
(* The bookkeeping of a turn.  Of the sockets still on the list only the   *)
(* current one has given requests, as many as req_perloop_counter says and *)
(* one more while it is answered; those taken off the list have theirs in  *)
(* the array, and a socket on the list that gave none has some to give.    *)
Booked ==
  /\ pc \in {"recv", "send"} => \A f \in todo : f # cur => taken[f] = 0
  /\ pc = "recv" => taken[cur] = req_perloop_counter
  /\ pc = "send" => taken[cur] = req_perloop_counter + 1
  /\ log # NoLine => \A f \in Sockets \ todo :
        fdreq_tracking_array[f] = IF pc = "wait" THEN 0 ELSE taken[f]
  /\ \A f \in todo : taken[f] = 0 => sock[f] # << >>
  /\ pc = "log" => \E f \in Sockets : taken[f] > 0

LEMMA InitBooked == Init => Booked
BY DEF Init, Booked

LEMMA NextBooked == LoopTypes /\ Booked /\ [Next]_vars => Booked'
<1> SUFFICES ASSUME LoopTypes, Booked, [Next]_vars PROVE Booked'
  OBVIOUS
<1> USE DEF LoopTypes, Booked
<1>1. CASE EpollWait
  BY <1>1 DEF EpollWait, Readable, counters
<1>2. CASE Receive
  <2>1. /\ pc = "recv" /\ pc' = "send"
        /\ taken' = [taken EXCEPT ![cur] = @ + 1]
        /\ \A f \in Sockets : f # cur => sock'[f] = sock[f]
        /\ UNCHANGED <<todo, cur, req_perloop_counter, fdreq_tracking_array, log>>
    BY <1>2 DEF Receive, TakeFirst, counters, SocketsOK
  <2>2. taken'[cur] = req_perloop_counter + 1 /\ taken'[cur] # 0
    BY <2>1
  <2>3. \A f \in Sockets : f # cur => taken'[f] = taken[f]
    BY <2>1
  <2> QED BY <2>1, <2>2, <2>3
<1>3. CASE Send
  BY <1>3 DEF Send
<1>4. CASE Drained
  <2>1. /\ pc = "recv" /\ sock[cur] = << >> /\ todo' = todo \ {cur}
        /\ pc' \in {"recv", "log"}
        /\ pc' = "recv" => cur' \in todo'
        /\ req_perloop_counter' = 0
        /\ fdreq_tracking_array' = [fdreq_tracking_array EXCEPT ![cur] = req_perloop_counter]
        /\ UNCHANGED <<sock, taken, log>>
    BY <1>4 DEF Drained, NextSocket, StaysEmpty, kernel
  <2>2. \A f \in todo' : taken'[f] = 0 /\ sock'[f] # << >>
    BY <2>1
  <2>3. log' # NoLine => \A f \in Sockets \ todo' : fdreq_tracking_array'[f] = taken'[f]
    BY <2>1
  <2>4. taken[cur] > 0
    BY <2>1
  <2> QED BY <2>1, <2>2, <2>3, <2>4
<1>5. CASE EndTurn
  BY <1>5 DEF EndTurn, Cleared, kernel
<1>6. CASE Clients
  <2>1. PICK f \in Sockets : Arrive(f) /\ UNCHANGED <<server, counters, taken>>
    BY <1>6 DEF Clients
  <2>2. \A g \in Sockets : sock[g] # << >> => sock'[g] # << >>
    BY <2>1 DEF Arrive, SocketsOK
  <2> QED BY <2>1, <2>2 DEF server, counters
<1>7. CASE Idle \/ UNCHANGED vars
  BY <1>7 DEF Idle, vars, kernel, server, counters
<1> QED BY <1>1, <1>2, <1>3, <1>4, <1>5, <1>6, <1>7 DEF Next, Server

(* The line written at the end of a turn is what the turn received.        *)
LEMMA LineIsExact ==
  ASSUME LoopTypes, Booked, log # NoLine, EndTurn
  PROVE  log' = LogLine(taken)
<1>1. fdreq_tracking_array = taken
  BY DEF EndTurn, LoopTypes, Booked
<1>2. LogLine(taken).non_zero_fd > 0
  <2> DEFINE N == {f \in Sockets : taken[f] > 0}
  <2>1. IsFiniteSet(N)
    <3>1. IsFiniteSet(Sockets)
      BY FS_Interval, SocketsAssumption DEF Sockets
    <3> QED BY <3>1, FS_Subset
  <2>2. N # {}
    BY DEF EndTurn, Booked
  <2>3. Cardinality(N) > 0
    BY <2>1, <2>2, FS_EmptySet, FS_CardinalityType
  <2> QED BY <2>3 DEF LogLine
<1> QED BY <1>1, <1>2 DEF EndTurn

(* Every line of the log but the first gives the number of requests that   *)
(* the turn received and of the sockets they came from.                    *)
THEOREM LogIsExact == Spec => LogAccounts
<1>1. LoopTypes /\ Booked /\ [Next]_vars
      => [log # NoLine /\ pc = "log" /\ pc' = "wait" => log' = LogLine(taken)]_vars
  <2> SUFFICES ASSUME LoopTypes, Booked, Next,
                      log # NoLine, pc = "log", pc' = "wait"
               PROVE  log' = LogLine(taken)
    BY DEF vars
  <2>1. EndTurn
    BY DEF Next, Server, EpollWait, Receive, Send, Drained, Clients, Idle, server, vars
  <2> QED BY <2>1, LineIsExact
<1>2. Init /\ [][Next]_vars => [](LoopTypes /\ Noticed /\ Booked)
  BY InitLoop, NextLoop, InitBooked, NextBooked, PTL
<1> QED BY <1>1, <1>2, PTL DEF Spec, LogAccounts
-----------------------------------------------------------------------------
(* The buffers are in order; the request being answered is the last that   *)
(* left its buffer; and none of those that have not been answered has had  *)
(* a reply.                                                                *)
InOrder ==
  /\ Ordered
  /\ pc = "send" => Gone(cur) > 0 /\ request = <<cur, Gone(cur)>>
  /\ \A f \in Sockets, n \in 1 .. MaxRequests :
        n > Gone(f) \/ (pc = "send" /\ f = cur /\ n = Gone(cur)) => replies[<<f, n>>] = 0

LEMMA InitInOrder == Init => InOrder
BY InitOrdered DEF Init, InitSockets, InOrder, Gone, Requests

LEMMA NextInOrder == LoopTypes /\ InOrder /\ [Next]_vars => InOrder'
<1> SUFFICES ASSUME LoopTypes, InOrder, [Next]_vars PROVE InOrder'
  OBVIOUS
<1>0. SocketsOK /\ Ordered /\ cur \in Sockets /\ \A f \in Sockets : Gone(f) \in Nat
  BY GoneType DEF LoopTypes, InOrder
<1>1. CASE Receive
  <2>1. /\ pc = "recv" /\ pc' = "send" /\ sock[cur] # << >> /\ TakeFirst(cur)
        /\ request' = Head(sock[cur]) /\ UNCHANGED <<arrived, replies, cur>>
    BY <1>1 DEF Receive
  <2>2. /\ Ordered' /\ Head(sock[cur]) = <<cur, Gone(cur) + 1>>
        /\ Gone(cur)' = Gone(cur) + 1
        /\ \A f \in Sockets : f # cur => Gone(f)' = Gone(f)
    BY <1>0, <2>1, TakeOrdered
  <2>3. Gone(cur)' = arrived'[cur'] - Len(sock'[cur'])
    BY <2>1 DEF Gone
  <2>4. ASSUME NEW f \in Sockets, NEW n \in 1 .. MaxRequests,
               n > Gone(f)' \/ (f = cur /\ n = Gone(cur)')
        PROVE  replies'[<<f, n>>] = 0
    <3>1. n > Gone(f)
      <4>1. CASE f = cur
        <5>1. Gone(f)' = Gone(f) + 1
          BY <2>1, <2>2, <4>1 DEF Gone
        <5>2. n > Gone(f)' \/ n = Gone(f)'
          BY <2>1, <2>4, <4>1 DEF Gone
        <5> QED BY <1>0, <5>1, <5>2
      <4>2. CASE f # cur
        BY <1>0, <2>2, <2>4, <4>2 DEF Gone
      <4> QED BY <4>1, <4>2
    <3> QED BY <2>1, <3>1 DEF InOrder
  <2> QED BY <1>0, <2>1, <2>2, <2>3, <2>4 DEF InOrder, Gone
<1>2. CASE Clients
  <2>1. PICK g \in Sockets : Arrive(g) /\ UNCHANGED <<server, counters, taken>>
    BY <1>2 DEF Clients
  <2>2. Ordered' /\ \A f \in Sockets : Gone(f)' = Gone(f)
    BY <1>0, <2>1, ArriveOrdered
  <2>3. UNCHANGED <<pc, cur, request, replies>>
    BY <2>1 DEF Arrive, server
  <2>4. Gone(cur)' = Gone(cur)
    BY <1>0, <2>2, <2>3 DEF Gone
  <2> QED BY <2>2, <2>3, <2>4 DEF InOrder
<1>3. CASE Send
  <2>1. UNCHANGED <<arrived, sock, cur>> /\ pc = "send" /\ pc' = "recv"
    BY <1>3 DEF Send
  <2>2. request = <<cur, Gone(cur)>>
    BY <2>1 DEF InOrder
  <2>3. Ordered' /\ \A f \in Sockets : Gone(f)' = Gone(f)
    BY <1>0, <2>1 DEF Gone, Ordered
  <2>4. ASSUME NEW f \in Sockets, NEW n \in 1 .. MaxRequests, n > Gone(f)
        PROVE  replies'[<<f, n>>] = 0
    <3>1. <<f, n>> # request
      BY <1>0, <2>2, <2>4
    <3>2. replies'[<<f, n>>] = replies[<<f, n>>]
      BY <1>0, <1>3, <3>1 DEF Send, ReplyTo, SocketsOK, Requests
    <3> QED BY <3>2, <2>4 DEF InOrder
  <2> QED BY <2>1, <2>3, <2>4 DEF InOrder
<1>4. CASE EpollWait \/ Drained \/ EndTurn \/ Idle \/ UNCHANGED vars
  <2>1. /\ UNCHANGED <<arrived, sock, replies>>
        /\ \/ pc # "send" /\ pc' # "send"
           \/ UNCHANGED <<pc, cur, request>>
    BY <1>4 DEF EpollWait, Drained, NextSocket, EndTurn, Idle, vars, kernel, server
  <2> QED BY <2>1 DEF InOrder, Gone, Ordered
<1> QED BY <1>1, <1>2, <1>3, <1>4 DEF Next, Server
-----------------------------------------------------------------------------
(* The requests that the server has received or can receive.               *)
Waiting == InSockets \cup (IF pc = "send" THEN {request} ELSE {})

(* A reply, or a refused one, takes the request out of those waiting.      *)
LEMMA SendAnswers ==
  ASSUME LoopTypes, InOrder, Send
  PROVE  /\ request \in Requests /\ request \in Waiting
         /\ Waiting' = Waiting \ {request}
<1>1. pc = "send" /\ pc' = "recv" /\ UNCHANGED <<sock, arrived>>
  BY DEF Send
<1>2. request = <<cur, Gone(cur)>> /\ Gone(cur) > 0
  BY <1>1 DEF InOrder
<1>3. SocketsOK /\ Ordered /\ cur \in Sockets /\ MaxRequests \in Nat
  BY SocketsAssumption DEF LoopTypes, InOrder
<1>4. Gone(cur) \in 1 .. MaxRequests
  BY <1>2, <1>3, GoneType
<1>5. request \in Requests
  BY <1>2, <1>3, <1>4 DEF Requests
<1>6. request \notin InSockets
  BY <1>2, <1>3, GoneNotHeld
<1>7. InSockets' = InSockets
  BY <1>1 DEF InSockets
<1> QED BY <1>1, <1>5, <1>6, <1>7 DEF Waiting

(* An arrival is a request that has not been seen before.                  *)
LEMMA ArriveAccepts ==
  ASSUME LoopTypes, InOrder, NEW g \in Sockets, Arrive(g), UNCHANGED server
  PROVE  \E r \in Requests : /\ r \notin Waiting /\ replies[r] = 0
                             /\ Waiting' = Waiting \cup {r}
<1> DEFINE r == <<g, arrived[g] + 1>>
<1>1. /\ SocketsOK /\ Ordered /\ cur \in Sockets /\ MaxRequests \in Nat
      /\ \A f \in Sockets : arrived[f] \in Nat /\ Gone(f) \in Nat /\ Gone(f) <= arrived[f]
  BY GoneType, SocketsAssumption DEF LoopTypes, InOrder
<1>2. r \in Requests /\ arrived[g] + 1 <= MaxRequests
  BY <1>1, ArriveOrdered
<1>3. r \notin InSockets /\ InSockets' = InSockets \cup {r}
  BY <1>1, ArriveInSockets
<1>4. pc = "send" => request # r
  BY <1>1 DEF InOrder
<1>5. replies[r] = 0
  <2>1. arrived[g] + 1 \in 1 .. MaxRequests /\ arrived[g] + 1 > Gone(g)
    BY <1>1, <1>2
  <2> QED BY <2>1 DEF InOrder
<1>6. pc' = pc /\ request' = request
  BY DEF server
<1>7. r \notin Waiting /\ Waiting' = Waiting \cup {r}
  BY <1>3, <1>4, <1>6 DEF Waiting
<1> QED BY <1>2, <1>5, <1>7

(* The server implements the echo service, as far as safety goes: nothing  *)
(* is answered that did not arrive, nothing twice, and what arrived and    *)
(* was not answered, or refused, is still there.                           *)
THEOREM ImplementsEcho == Spec => Echo!Spec
<1>1. Init => Echo!Init
  BY DEF Init, InitSockets, Echo!Init, InSockets
<1>2. LoopTypes /\ InOrder /\ [Next]_vars /\ LoopTypes' => [Echo!Next]_(Echo!vars)
  <2> SUFFICES ASSUME LoopTypes, InOrder, [Next]_vars, LoopTypes'
               PROVE  [Echo!Next]_(Echo!vars)
    OBVIOUS
  <2>1. Echo!vars = <<Waiting, replies>>
    BY DEF Echo!vars, Waiting
  <2>2. CASE Receive
    <3>1. InSockets = InSockets' \cup {Head(sock[cur])}
      BY <2>2, TakeInSockets DEF Receive, LoopTypes, InOrder
    <3>2. Waiting' = Waiting /\ UNCHANGED replies
      BY <2>2, <3>1 DEF Receive, Waiting
    <3> QED BY <2>1, <3>2 DEF Waiting, Echo!vars
  <2>3. CASE Send
    <3>1. /\ request \in Requests /\ request \in Waiting
          /\ Waiting' = Waiting \ {request}
      BY <2>3, SendAnswers
    <3>2. CASE ReplyTo(request)
      <4>1. Echo!Answer(request)
        BY <3>1, <3>2 DEF Echo!Answer, ReplyTo, Waiting
      <4> QED BY <3>1, <4>1 DEF Echo!Next
    <3>3. CASE request \in Refused /\ UNCHANGED replies
      <4>1. Echo!Forget(request)
        BY <3>1, <3>3 DEF Echo!Forget, Waiting
      <4> QED BY <3>1, <4>1 DEF Echo!Next
    <3> QED BY <2>3, <3>2, <3>3 DEF Send
  <2>4. CASE Clients
    <3>1. PICK g \in Sockets : Arrive(g) /\ UNCHANGED <<server, counters, taken>>
      BY <2>4 DEF Clients
    <3>2. PICK r \in Requests : /\ r \notin Waiting /\ replies[r] = 0
                               /\ Waiting' = Waiting \cup {r}
      BY <3>1, ArriveAccepts
    <3>3. Echo!Accept(r)
      BY <3>1, <3>2 DEF Echo!Accept, Arrive, Waiting
    <3> QED BY <3>3 DEF Echo!Next
  <2>5. CASE EpollWait \/ Drained \/ EndTurn \/ Idle \/ UNCHANGED vars
    <3>1. /\ UNCHANGED <<sock, replies>>
          /\ \/ pc # "send" /\ pc' # "send"
             \/ UNCHANGED <<pc, request>>
      BY <2>5 DEF EpollWait, Drained, NextSocket, EndTurn, Idle, vars, kernel, server
    <3>2. Waiting' = Waiting
      BY <3>1 DEF Waiting, InSockets
    <3> QED BY <3>1, <3>2 DEF Echo!vars, Waiting
  <2> QED BY <2>2, <2>3, <2>4, <2>5 DEF Next, Server
<1>3. Init /\ [][Next]_vars => [](LoopTypes /\ Noticed /\ InOrder)
  BY InitLoop, NextLoop, InitInOrder, NextInOrder, PTL
<1> QED BY <1>1, <1>2, <1>3, PTL DEF Spec, Echo!Spec
-----------------------------------------------------------------------------
(* The round-robin server.  Where its variables have the names of those of *)
(* the draining server they are the ones declared above; the others are    *)
(* declared here.  todo, cur and the counters of the draining server play  *)
(* no part from here on.                                                   *)
VARIABLES events, j, num_empty_fd, ready_fd_array

RR == INSTANCE RoundRobinServer

Places == DOMAIN events

(* The part of the type invariant that the proofs rest on: also, epoll     *)
(* reports a socket once.                                                  *)
RoundTypes ==
  /\ SocketsOK
  /\ pc \in {"wait", "recv", "send", "log"}
  /\ events \in Seq(Sockets)
  /\ \A k, l \in Places : events[k] = events[l] => k = l
  /\ pc \in {"recv", "send"} => j \in Places
  /\ num_empty_fd \in Nat
  /\ ready_fd_array \in [Sockets -> {0, 1}]
  /\ taken \in [Sockets -> Nat]

IsReady(k) == ready_fd_array[events[k]] = 1

(* In pass p, after the first n of its visits: a socket that is still      *)
(* ready gave a request in each pass.  No visit in the first two passes is *)
(* in vain, since epoll reports no empty socket; and in the third each     *)
(* visit is, at most, and not that of a socket that is ready.              *)
Pass(p, n) ==
  /\ \A k \in Places : IsReady(k) => taken[events[k]] >= IF k <= n THEN p ELSE p - 1
  /\ p = 1 => \A k \in Places : IsReady(k) /\ (k > n => sock[events[k]] # << >>)
  /\ p = 2 => \A k \in Places : k > n => IsReady(k)
  /\ p <= 2 => num_empty_fd = 0
  /\ p = 3 => /\ num_empty_fd <= n
              /\ (\E k \in Places : k <= n /\ IsReady(k)) => num_empty_fd < n

(* Visits of this pass; passes after the fourth are like the fourth.       *)
Visited == IF pc = "send" THEN j ELSE j - 1

InPass == pc \in {"recv", "send"} => \E p \in 1 .. 4, n \in Nat : n = Visited /\ Pass(p, n)

RoundInv == RoundTypes /\ InPass /\ RR!ServesFour

(* What the actions do to the loop.                                        *)
Onward ==
  \/ j < Len(events) /\ j' = j + 1 /\ pc' = "recv"
  \/ /\ j = Len(events) /\ j' = 1
     /\ pc' = IF num_empty_fd' < Len(events) THEN "recv" ELSE "log"

(* epoll_wait puts each socket that it reports in one place.               *)
LEMMA OrdersDistinct ==
  ASSUME NEW S \in SUBSET Sockets, S # {}, NEW s \in RR!Orders(S)
  PROVE  /\ s \in Seq(Sockets) /\ 1 \in DOMAIN s
         /\ \A k \in DOMAIN s : s[k] \in S
         /\ \A k, l \in DOMAIN s : s[k] = s[l] => k = l
<1> DEFINE n == Cardinality(S)
<1>1. IsFiniteSet(Sockets)
  BY SocketsAssumption, FS_Interval DEF Sockets
<1>2. IsFiniteSet(S) /\ n \in Nat /\ n # 0
  BY <1>1, FS_Subset, FS_CardinalityType, FS_EmptySet
<1>3. s \in [1 .. n -> S] /\ \A f \in S : \E k \in DOMAIN s : s[k] = f
  <2>1. RR!Cardinality(S) = Cardinality(S)
    BY DEF RR!Cardinality, Cardinality
  <2> QED BY <2>1 DEF RR!Orders
<1>4. IsFiniteSet(1 .. n) /\ Cardinality(1 .. n) = n
  BY <1>2, FS_Interval
<1>5. s \in Surjection(1 .. n, S)
  BY <1>3 DEF Surjection
<1>6. s \in Injection(1 .. n, S)
  BY <1>4, <1>5, FS_SurjSameCardinalityImpliesInj
<1>7. \A k, l \in DOMAIN s : s[k] = s[l] => k = l
  BY <1>3, <1>6 DEF Injection, IsInjective
<1>8. s \in Seq(Sockets)
  BY <1>2, <1>3
<1> QED BY <1>2, <1>3, <1>7, <1>8

(* The actions in terms of the sockets of this module, as far as the       *)
(* proofs go.                                                              *)
Reports ==
  /\ pc = "wait" /\ Readable # {} /\ events' \in RR!Orders(Readable)
  /\ pc' = "recv" /\ j' = 1 /\ num_empty_fd' = 0
  /\ armed' = [f \in Sockets |-> FALSE]
  /\ ready_fd_array' \in [Sockets -> {0, 1}]
  /\ \A f \in Readable : ready_fd_array'[f] = 1
  /\ taken' = [f \in Sockets |-> 0]
  /\ UNCHANGED <<arrived, sock, replies, request>>

Receives ==
  /\ pc = "recv" /\ pc' = "send" /\ IsReady(j) /\ sock[events[j]] # << >>
  /\ request' = Head(sock[events[j]]) /\ TakeFirst(events[j])
  /\ taken' = [taken EXCEPT ![events[j]] = @ + 1]
  /\ UNCHANGED <<arrived, armed, replies, events, j, num_empty_fd, ready_fd_array>>

Sends ==
  /\ pc = "send" /\ Onward
  /\ \/ ReplyTo(request)
     \/ request \in Refused /\ UNCHANGED replies
  /\ UNCHANGED <<arrived, sock, armed, events, num_empty_fd, ready_fd_array, request, taken>>

Drains ==
  /\ pc = "recv" /\ IsReady(j) /\ sock[events[j]] = << >> /\ Onward
  /\ ready_fd_array' = [ready_fd_array EXCEPT ![events[j]] = 0]
  /\ UNCHANGED <<arrived, sock, armed, replies, events, num_empty_fd, request, taken>>

Skips ==
  /\ pc = "recv" /\ ~IsReady(j) /\ Onward
  /\ num_empty_fd' = num_empty_fd + 1
  /\ UNCHANGED <<arrived, sock, armed, replies, events, ready_fd_array, request, taken>>

LoopRests ==
  UNCHANGED <<events, j, num_empty_fd, ready_fd_array, request, taken, replies>>

(* And to the numbers of visits and the log.                               *)
SameTally == UNCHANGED <<fdreq_tracking_array, log>>

Tallies ==
  /\ fdreq_tracking_array' = [fdreq_tracking_array EXCEPT ![events[j]] = @ + 1]
  /\ UNCHANGED log

WritesLine ==
  /\ log' = IF RR!LogLine(fdreq_tracking_array).non_zero_fd > 0
            THEN RR!LogLine(fdreq_tracking_array) ELSE log
  /\ fdreq_tracking_array' = [f \in Sockets |-> 0]

(* Every step is one of these, an arrival, the end of a turn or a stutter. *)
LEMMA RoundSteps ==
  ASSUME RoundTypes, [RR!Next]_(RR!vars)
  PROVE  \/ Reports /\ SameTally
         \/ Receives /\ SameTally
         \/ Sends /\ Tallies
         \/ Drains /\ Tallies
         \/ Skips /\ SameTally
         \/ LoopRests /\ UNCHANGED pc /\ (\E f \in Sockets : Arrive(f)) /\ SameTally
         \/ /\ LoopRests /\ pc = "log" /\ pc' = "wait" /\ UNCHANGED <<arrived, sock, armed>>
            /\ WritesLine
         \/ LoopRests /\ UNCHANGED <<pc, arrived, sock, armed>> /\ SameTally
<1>1. RR!Sockets = Sockets /\ RR!Readable = Readable
  BY DEF RR!Sockets, Sockets, RR!Readable, Readable
<1>2. ASSUME NEW e, RR!Advance(e), pc \in {"recv", "send"}
      PROVE  Onward /\ num_empty_fd' = e
  <2>1. j \in 1 .. Len(events) /\ Len(events) \in Nat
    BY <1>2 DEF RoundTypes, Places
  <2>2. j < Len(events) \/ j = Len(events)
    BY <2>1
  <2> QED BY <1>2, <2>1, <2>2 DEF RR!Advance, RR!More, Onward
<1>3. ASSUME RR!EpollWait PROVE Reports /\ SameTally
  BY <1>1, <1>3 DEF RR!EpollWait, RR!Report, RR!ReadyFlags, RoundTypes, Readable, Reports, SameTally
<1>4. ASSUME RR!Receive PROVE Receives /\ SameTally
  BY <1>4 DEF RR!Receive, RR!Visiting, RR!TakeFirst, TakeFirst, IsReady, Receives, SameTally
<1>5. ASSUME RR!Send PROVE Sends /\ Tallies
  <2>1. pc = "send" /\ RR!Advance(num_empty_fd)
    BY <1>5 DEF RR!Send
  <2>2. Onward /\ num_empty_fd' = num_empty_fd
    BY <1>2, <2>1
  <2> QED BY <1>5, <2>1, <2>2 DEF RR!Send, RR!ReplyTo, ReplyTo, Sends,
                                   RR!Tracked, Tallies
<1>6. ASSUME RR!Drained PROVE Drains /\ Tallies
  <2>1. pc = "recv" /\ RR!Advance(num_empty_fd)
    BY <1>6 DEF RR!Drained, RR!Visiting
  <2>2. Onward /\ num_empty_fd' = num_empty_fd
    BY <1>2, <2>1
  <2> QED BY <1>6, <2>1, <2>2 DEF RR!Drained, RR!Visiting, IsReady, RR!kernel, Drains,
                                   RR!Tracked, Tallies
<1>7. ASSUME RR!SkipDrained PROVE Skips /\ SameTally
  <2>1. pc = "recv" /\ RR!Advance(num_empty_fd + 1)
    BY <1>7 DEF RR!SkipDrained
  <2>2. Onward /\ num_empty_fd' = num_empty_fd + 1
    BY <1>2, <2>1
  <2>3. ~IsReady(j)
    BY <1>7 DEF RR!SkipDrained, IsReady
  <2> QED BY <1>7, <2>1, <2>2, <2>3 DEF RR!SkipDrained, RR!kernel, Skips, SameTally
<1>8. ASSUME RR!EndTurn
      PROVE  /\ LoopRests /\ pc = "log" /\ pc' = "wait" /\ UNCHANGED <<arrived, sock, armed>>
             /\ WritesLine
  BY <1>1, <1>8 DEF RR!EndTurn, RR!kernel, LoopRests, WritesLine
<1>9. ASSUME RR!Clients
      PROVE  LoopRests /\ UNCHANGED pc /\ (\E f \in Sockets : Arrive(f)) /\ SameTally
  BY <1>1, <1>9 DEF RR!Clients, RR!Arrive, Arrive, RR!server, LoopRests, SameTally
<1>10. ASSUME RR!Idle \/ UNCHANGED RR!vars
       PROVE  LoopRests /\ UNCHANGED <<pc, arrived, sock, armed>> /\ SameTally
  BY <1>10 DEF RR!Idle, RR!vars, RR!kernel, RR!server, LoopRests, SameTally
<1> QED BY <1>3, <1>4, <1>5, <1>6, <1>7, <1>8, <1>9, <1>10 DEF RR!Next, RR!Server

(* At first there is no turn.                                              *)
LEMMA InitRound == RR!Init => RoundInv
<1> SUFFICES ASSUME RR!Init PROVE RoundInv
  OBVIOUS
<1>1. InitSockets
  BY DEF RR!Init, RR!InitSockets, InitSockets, RR!Sockets, Sockets, RR!Requests, Requests
<1>2. RoundTypes
  BY <1>1, InitSocketsOK DEF RR!Init, RR!Sockets, Sockets, RoundTypes, Places
<1> QED BY <1>2 DEF RoundInv, InPass, RR!ServesFour, RR!Init

(* Each action keeps the types, and epoll_wait the places apart.           *)
LEMMA NextRoundTypes == ASSUME RoundTypes, [RR!Next]_(RR!vars) PROVE RoundTypes'
<1>0. /\ events \in Seq(Sockets) /\ Len(events) \in Nat /\ Places = 1 .. Len(events)
      /\ \A k \in Places : events[k] \in Sockets
  BY DEF RoundTypes, Places
<1>1. ASSUME Onward, UNCHANGED events, pc \in {"recv", "send"}
      PROVE  pc' \in {"recv", "log"} /\ j' \in Places
  <2>1. j \in 1 .. Len(events)
    BY <1>0, <1>1 DEF RoundTypes
  <2> QED BY <1>0, <1>1, <2>1 DEF Onward
<1>2. CASE Reports
  <2>1. /\ events' \in Seq(Sockets) /\ 1 \in DOMAIN events'
        /\ \A k, l \in DOMAIN events' : events'[k] = events'[l] => k = l
    BY <1>2, OrdersDistinct DEF Reports, Readable
  <2> QED BY <1>2, <2>1 DEF Reports, RoundTypes, SocketsOK, Places
<1>3. CASE Receives
  <2>1. events[j] \in Sockets
    BY <1>0, <1>3 DEF Receives, RoundTypes
  <2>2. sock' \in [Sockets -> Seq(Requests)]
    <3>1. Tail(sock[events[j]]) \in Seq(Requests)
      BY <1>3, <2>1 DEF Receives, RoundTypes, SocketsOK
    <3> QED BY <1>3, <2>1, <3>1 DEF Receives, TakeFirst, RoundTypes, SocketsOK
  <2>3. taken' \in [Sockets -> Nat]
    BY <1>3, CountUp DEF Receives, RoundTypes
  <2> QED BY <1>3, <2>2, <2>3 DEF Receives, RoundTypes, SocketsOK, Places
<1>4. CASE Sends
  <2>1. replies' \in [Requests -> Nat]
    BY <1>4, CountUp DEF Sends, ReplyTo, RoundTypes, SocketsOK
  <2> QED BY <1>1, <1>4, <2>1 DEF Sends, RoundTypes, SocketsOK, Places
<1>5. CASE Drains
  BY <1>1, <1>5 DEF Drains, RoundTypes, SocketsOK, Places
<1>6. CASE Skips
  BY <1>1, <1>6 DEF Skips, RoundTypes, SocketsOK, Places
<1>7. ASSUME NEW f \in Sockets, Arrive(f), LoopRests, UNCHANGED pc PROVE RoundTypes'
  <2>1. <<f, arrived[f] + 1>> \in Requests /\ arrived[f] + 1 \in 0 .. MaxRequests
    BY <1>7, SocketsAssumption DEF Arrive, RoundTypes, SocketsOK, Requests
  <2>2. Append(sock[f], <<f, arrived[f] + 1>>) \in Seq(Requests)
    BY <2>1, SeqSteps DEF RoundTypes, SocketsOK
  <2>3. SocketsOK'
    BY <1>7, <2>1, <2>2 DEF Arrive, RoundTypes, SocketsOK, LoopRests
  <2> QED BY <1>7, <2>3 DEF LoopRests, RoundTypes, Places
<1>8. CASE LoopRests /\ pc = "log" /\ pc' = "wait" /\ UNCHANGED <<arrived, sock, armed>>
  BY <1>8 DEF LoopRests, RoundTypes, SocketsOK, Places
<1>9. CASE LoopRests /\ UNCHANGED <<pc, arrived, sock, armed>>
  BY <1>9 DEF LoopRests, RoundTypes, SocketsOK, Places
<1> QED BY <1>2, <1>3, <1>4, <1>5, <1>6, <1>7, <1>8, <1>9, RoundSteps

(* After a pass comes the next one, or the end of a turn that has served   *)
(* each socket.                                                            *)
LEMMA OnwardServes ==
  ASSUME RoundTypes', pc \in {"recv", "send"}, j \in Places, UNCHANGED events, Onward,
         NEW p \in 1 .. 4, NEW m \in Nat, m = j, Pass(p, m)'
  PROVE  InPass' /\ RR!ServesFour'
<1> DEFINE n == Len(events)
           given(k) == taken'[events[k]]
           ready(k) == ready_fd_array'[events[k]] = 1
<1>1. /\ j \in 1 .. n /\ n \in Nat /\ Places = 1 .. n /\ Places' = 1 .. n
      /\ num_empty_fd' \in Nat
      /\ \A k \in 1 .. n : given(k) \in Nat /\ ready_fd_array'[events[k]] \in {0, 1}
  BY DEF RoundTypes, Places
<1>2. /\ \A k \in 1 .. n : ready(k) => given(k) >= IF k <= m THEN p ELSE p - 1
      /\ p = 1 => \A k \in 1 .. n : ready(k) /\ (k > m => sock'[events[k]] # << >>)
      /\ p = 2 => \A k \in 1 .. n : k > m => ready(k)
      /\ p <= 2 => num_empty_fd' = 0
      /\ p = 3 => /\ num_empty_fd' <= m
                  /\ (\E k \in 1 .. n : k <= m /\ ready(k)) => num_empty_fd' < m
  BY <1>1 DEF Pass, IsReady
<1>3. CASE j < n /\ j' = j + 1 /\ pc' = "recv"
  <2>1. Visited' = m
    BY <1>1, <1>3 DEF Visited
  <2> QED BY <1>3, <2>1 DEF InPass, RR!ServesFour
<1>4. CASE j = n /\ j' = 1 /\ num_empty_fd' < n /\ pc' = "recv"
  <2>1. Visited' = 0
    BY <1>4 DEF Visited
  <2>2. PICK q \in 1 .. 4 : q = IF p = 4 THEN 4 ELSE p + 1
    OBVIOUS
  <2>3. Pass(q, 0)'
    <3>1. \A k \in 1 .. n : ready(k) => given(k) >= IF k <= 0 THEN q ELSE q - 1
      <4>1. \A k \in 1 .. n : ready(k) => given(k) >= p
        BY <1>1, <1>2, <1>4
      <4> HIDE DEF given, ready
      <4> QED BY <1>1, <2>2, <4>1
    <3>2. q # 1 /\ (q = 2 => p = 1) /\ (q = 3 => p = 2)
      BY <2>2
    <3> QED BY <1>1, <1>2, <3>1, <3>2 DEF Pass, IsReady
  <2> QED BY <1>4, <2>1, <2>3 DEF InPass, RR!ServesFour
<1>5. CASE j = n /\ j' = 1 /\ ~(num_empty_fd' < n) /\ pc' = "log"
  <2>1. ASSUME NEW k \in 1 .. n PROVE ready_fd_array'[events[k]] = 0 \/ given(k) >= 4
    <3>1. p = 3 \/ p = 4
      BY <1>1, <1>2, <1>5
    <3>2. CASE p = 3
      <4>1. ~ready(k)
        BY <1>1, <1>2, <1>5, <3>2
      <4> QED BY <1>1, <4>1
    <3>3. CASE p = 4
      BY <1>1, <1>2, <1>5, <3>3
    <3> QED BY <3>1, <3>2, <3>3
  <2> QED BY <1>1, <1>5, <2>1 DEF InPass, RR!ServesFour, Places
<1> QED BY <1>1, <1>3, <1>4, <1>5 DEF Onward

(* Each visit leaves the loop in the same pass, one visit further, or at   *)
(* its end.                                                                *)
LEMMA NextRound == RoundInv /\ [RR!Next]_(RR!vars) => RoundInv'
<1> SUFFICES ASSUME RoundInv, [RR!Next]_(RR!vars) PROVE InPass' /\ RR!ServesFour'
  BY NextRoundTypes DEF RoundInv
<1>0. /\ RoundTypes /\ RoundTypes'
      /\ events \in Seq(Sockets) /\ Len(events) \in Nat /\ Places = 1 .. Len(events)
      /\ \A k \in Places : /\ events[k] \in Sockets
                           /\ taken[events[k]] \in Nat
                           /\ ready_fd_array[events[k]] \in {0, 1}
      /\ \A k, l \in Places : events[k] = events[l] => k = l
  BY NextRoundTypes DEF RoundInv, RoundTypes, Places
<1>1. ASSUME pc = "recv"
      PROVE  /\ j \in 1 .. Len(events) /\ j \in Places /\ j \in Nat
             /\ \E p \in 1 .. 4, m \in Nat : m = j - 1 /\ Pass(p, m)
  <2>1. j \in Places
    BY <1>0, <1>1 DEF RoundTypes
  <2>2. Visited = j - 1
    BY <1>1 DEF Visited
  <2>3. \E p \in 1 .. 4, m \in Nat : m = Visited /\ Pass(p, m)
    BY <1>1 DEF RoundInv, InPass
  <2> QED BY <1>0, <2>1, <2>2, <2>3
<1>2. CASE Reports
  <2>1. /\ 1 \in DOMAIN events' /\ events' \in Seq(Sockets)
        /\ \A k \in DOMAIN events' : events'[k] \in Readable
    BY <1>2, OrdersDistinct DEF Reports, Readable
  <2>2. \A k \in DOMAIN events' : /\ ready_fd_array'[events'[k]] = 1
                                  /\ sock'[events'[k]] # << >>
                                  /\ taken'[events'[k]] = 0
                                  /\ k \in Nat /\ k > 0
    BY <1>2, <2>1 DEF Reports, Readable
  <2>3. Pass(1, 0)'
    BY <1>2, <2>2 DEF Pass, IsReady, Places, Reports
  <2>4. Visited' = 0 /\ pc' = "recv"
    BY <1>2 DEF Reports, Visited
  <2> QED BY <2>3, <2>4 DEF InPass, RR!ServesFour
<1>3. CASE Receives
  <2>1. pc = "recv" /\ IsReady(j) /\ pc' = "send" /\ UNCHANGED <<events, j, num_empty_fd, ready_fd_array>>
    BY <1>3 DEF Receives
  <2>2. PICK p \in 1 .. 4, m \in Nat : m = j - 1 /\ Pass(p, m)
    BY <1>1, <2>1
  <2>3. \A k \in Places : taken'[events[k]] = IF k = j THEN taken[events[j]] + 1 ELSE taken[events[k]]
    BY <1>0, <1>1, <1>3, <2>1 DEF Receives, RoundTypes
  <2>4. \A k \in Places : k # j => sock'[events[k]] = sock[events[k]]
    BY <1>0, <1>1, <1>3, <2>1 DEF Receives, TakeFirst, RoundTypes, SocketsOK
  <2>5. Pass(p, m + 1)'
    <3>1. \A k \in Places : IsReady(k) => taken'[events[k]] >= IF k <= m + 1 THEN p ELSE p - 1
      <4>1. \A k \in Places : IsReady(k) => taken[events[k]] >= IF k <= m THEN p ELSE p - 1
        BY <2>2 DEF Pass
      <4>2. ASSUME NEW k \in Places, IsReady(k)
            PROVE  taken'[events[k]] >= IF k <= m + 1 THEN p ELSE p - 1
        <5>1. CASE k = j
          <6>1. taken[events[j]] >= p - 1 /\ taken[events[j]] \in Nat
            BY <1>0, <1>1, <2>1, <2>2, <4>1
          <6> QED BY <1>1, <2>1, <2>2, <2>3, <5>1, <6>1
        <5>2. CASE k # j
          <6>1. taken'[events[k]] = taken[events[k]] /\ taken[events[k]] \in Nat
            BY <1>0, <2>3, <5>2
          <6>2. k <= m + 1 <=> k <= m
            BY <1>0, <1>1, <2>1, <2>2, <5>2
          <6> QED BY <4>1, <4>2, <6>1, <6>2
        <5> QED BY <5>1, <5>2
      <4> QED BY <4>2
    <3>2. p = 1 => \A k \in Places : k > m + 1 => sock'[events[k]] # << >>
      <4>1. p = 1 => \A k \in Places : k > m => sock[events[k]] # << >>
        BY <2>2 DEF Pass
      <4>2. \A k \in Places : k > m + 1 => k > m /\ k # j
        BY <1>0, <1>1, <2>1, <2>2
      <4> QED BY <2>4, <4>1, <4>2
    <3>3. p = 3 => num_empty_fd < m + 1
      BY <1>0, <2>2 DEF Pass, RoundTypes
    <3> QED BY <1>0, <2>1, <2>2, <3>1, <3>2, <3>3 DEF Pass, IsReady, Places, RoundTypes
  <2>6. m + 1 \in Nat /\ Visited' = m + 1
    BY <1>1, <2>1, <2>2 DEF Visited
  <2> QED BY <2>1, <2>5, <2>6 DEF InPass, RR!ServesFour
<1>4. CASE Sends
  <2>1. pc = "send" /\ Onward /\ UNCHANGED <<sock, events, num_empty_fd, ready_fd_array, taken>>
    BY <1>4 DEF Sends
  <2>2. PICK p \in 1 .. 4, m \in Nat : m = j /\ Pass(p, m)
    BY <2>1 DEF RoundInv, InPass, Visited
  <2>3. Pass(p, m)'
    BY <2>1, <2>2 DEF Pass, IsReady, Places
  <2>4. j \in Places
    BY <1>0, <2>1 DEF RoundTypes
  <2> QED BY <1>0, <2>1, <2>2, <2>3, <2>4, OnwardServes
<1>5. CASE Drains
  <2>1. /\ pc = "recv" /\ IsReady(j) /\ sock[events[j]] = << >> /\ Onward
        /\ ready_fd_array' = [ready_fd_array EXCEPT ![events[j]] = 0]
        /\ UNCHANGED <<sock, events, num_empty_fd, taken>>
    BY <1>5 DEF Drains
  <2>2. PICK p \in 1 .. 4, m \in Nat : m = j - 1 /\ Pass(p, m)
    BY <1>1, <2>1
  <2>3. p # 1
    BY <1>0, <1>1, <2>1, <2>2 DEF Pass
  <2>4. \A k \in Places : ready_fd_array'[events[k]] = IF k = j THEN 0 ELSE ready_fd_array[events[k]]
    BY <1>0, <1>1, <2>1 DEF RoundTypes
  <2>5. Pass(p, m + 1)'
    <3>1. \A k \in Places : ready_fd_array'[events[k]] = 1 => k # j /\ IsReady(k)
      BY <2>4 DEF IsReady
    <3>2. \A k \in Places : IsReady(k) /\ k # j => taken[events[k]] >= IF k <= m + 1 THEN p ELSE p - 1
      BY <1>0, <1>1, <2>1, <2>2 DEF Pass
    <3>3. p = 2 => \A k \in Places : k > m + 1 => ready_fd_array'[events[k]] = 1
      BY <1>0, <1>1, <2>1, <2>2, <2>4 DEF Pass, IsReady
    <3>4. p = 3 => /\ num_empty_fd <= m + 1
                   /\ (\E k \in Places : k <= m + 1 /\ k # j /\ IsReady(k)) => num_empty_fd < m + 1
      BY <1>0, <1>1, <2>1, <2>2 DEF Pass, RoundTypes
    <3> QED BY <1>0, <2>1, <2>2, <2>3, <3>1, <3>2, <3>3, <3>4 DEF Pass, IsReady, Places
  <2>6. m + 1 \in Nat /\ m + 1 = j /\ j \in Places
    BY <1>1, <2>1, <2>2
  <2> QED BY <1>0, <2>1, <2>5, <2>6, OnwardServes
<1>6. CASE Skips
  <2>1. /\ pc = "recv" /\ ~IsReady(j) /\ Onward /\ num_empty_fd' = num_empty_fd + 1
        /\ UNCHANGED <<sock, events, ready_fd_array, taken>>
    BY <1>6 DEF Skips
  <2>2. PICK p \in 1 .. 4, m \in Nat : m = j - 1 /\ Pass(p, m)
    BY <1>1, <2>1
  <2>3. p # 1 /\ p # 2
    BY <1>0, <1>1, <2>1, <2>2 DEF Pass
  <2>4. Pass(p, m + 1)'
    <3>1. \A k \in Places : IsReady(k) => k # j
      BY <2>1
    <3>2. \A k \in Places : IsReady(k) => taken[events[k]] >= IF k <= m + 1 THEN p ELSE p - 1
      BY <1>0, <1>1, <2>1, <2>2, <3>1 DEF Pass
    <3>3. p = 3 => /\ num_empty_fd + 1 <= m + 1
                   /\ (\E k \in Places : k <= m + 1 /\ IsReady(k)) => num_empty_fd + 1 < m + 1
      BY <1>0, <1>1, <2>1, <2>2, <3>1 DEF Pass, RoundTypes
    <3> QED BY <1>0, <2>1, <2>2, <2>3, <3>2, <3>3 DEF Pass, IsReady, Places
  <2>5. m + 1 \in Nat /\ m + 1 = j /\ j \in Places
    BY <1>1, <2>1, <2>2
  <2> QED BY <1>0, <2>1, <2>4, <2>5, OnwardServes
<1>7. ASSUME NEW f \in Sockets, Arrive(f), LoopRests, UNCHANGED pc PROVE InPass' /\ RR!ServesFour'
  <2>1. \A g \in Sockets : sock[g] # << >> => sock'[g] # << >>
    <3>1. <<f, arrived'[f]>> \in Requests
      BY <1>0, <1>7, SocketsAssumption DEF Arrive, RoundTypes, SocketsOK, Requests
    <3>2. Append(sock[f], <<f, arrived'[f]>>) # << >>
      <4>1. sock[f] \in Seq(Requests)
        BY <1>0 DEF RoundTypes, SocketsOK
      <4> QED BY <3>1, <4>1, SeqSteps
    <3> QED BY <1>0, <1>7, <3>2 DEF Arrive, RoundTypes, SocketsOK
  <2>2. ASSUME NEW p \in 1 .. 4, NEW m \in Nat, Pass(p, m) PROVE Pass(p, m)'
    BY <1>0, <1>7, <2>1, <2>2 DEF Pass, IsReady, Places, LoopRests
  <2>3. Visited' = Visited
    BY <1>7 DEF Visited, LoopRests
  <2> QED BY <1>7, <2>2, <2>3 DEF LoopRests, RoundInv, InPass, RR!ServesFour
<1>8. CASE LoopRests /\ pc = "log" /\ pc' = "wait" /\ UNCHANGED <<arrived, sock, armed>>
  BY <1>8 DEF InPass, RR!ServesFour
<1>9. CASE LoopRests /\ UNCHANGED <<pc, arrived, sock, armed>>
  <2>1. ASSUME NEW p \in 1 .. 4, NEW m \in Nat, Pass(p, m) PROVE Pass(p, m)'
    BY <1>9, <2>1 DEF Pass, IsReady, Places, LoopRests
  <2>2. Visited' = Visited
    BY <1>9 DEF Visited, LoopRests
  <2> QED BY <1>9, <2>1, <2>2 DEF LoopRests, RoundInv, InPass, RR!ServesFour
<1> QED BY <1>0, <1>2, <1>3, <1>4, <1>5, <1>6, <1>7, <1>8, <1>9, RoundSteps

(* Though a drained socket counts again in every pass, a turn of the       *)
(* round-robin server does not end before each socket reported was found   *)
(* empty or gave four requests (ServesFour).                               *)
THEOREM ServesFourEach == RR!Spec => []RR!ServesFour
<1>1. RoundInv => RR!ServesFour
  BY DEF RoundInv
<1> QED BY <1>1, InitRound, NextRound, PTL DEF RR!Spec
-----------------------------------------------------------------------------
(* No socket holds more requests than a turn takes from it for certain.    *)
HoldFew == \A f \in Sockets : Len(sock[f]) <= 4

(* Nothing arrived since epoll reported a socket that has no edge to come: *)
(* what it holds and what it gave in this turn were there then.            *)
Kept ==
  \A f \in Sockets : sock[f] # << >> /\ ~armed[f] =>
    /\ pc # "wait" /\ ready_fd_array[f] = 1
    /\ \E k \in Places : events[k] = f
    /\ Len(sock[f]) + taken[f] <= 4

(* Each of the sockets that epoll_wait reports has a place.                *)
LEMMA OrdersCover ==
  ASSUME NEW S \in SUBSET Sockets, NEW s \in RR!Orders(S)
  PROVE  \A f \in S : \E k \in DOMAIN s : s[k] = f
BY DEF RR!Orders

(* All of a socket's requests are there when it is reported, fewer remain  *)
(* after each receive, and none when the turn ends.                        *)
LEMMA NextKept ==
  RoundInv /\ HoldFew /\ Kept /\ [RR!Next]_(RR!vars) => Kept'
<1> SUFFICES ASSUME RoundInv, HoldFew, Kept, [RR!Next]_(RR!vars) PROVE Kept'
  OBVIOUS
<1>0. /\ RoundTypes /\ RR!ServesFour
      /\ \A k \in Places : events[k] \in Sockets
      /\ \A f \in Sockets : /\ sock[f] \in Seq(Requests) /\ Len(sock[f]) \in Nat
                            /\ (Len(sock[f]) = 0 => sock[f] = << >>)
                            /\ taken[f] \in Nat
  <2>1. RoundTypes /\ RR!ServesFour
    BY DEF RoundInv
  <2>2. \A f \in Sockets : sock[f] \in Seq(Requests) /\ taken[f] \in Nat
    BY <2>1 DEF RoundTypes, SocketsOK
  <2>3. \A s \in Seq(Requests) : Len(s) \in Nat /\ (Len(s) = 0 => s = << >>)
    OBVIOUS
  <2>4. \A k \in Places : events[k] \in Sockets
    BY <2>1 DEF RoundTypes, Places
  <2> QED BY <2>1, <2>2, <2>3, <2>4
<1>1. CASE Reports
  <2>1. \A f \in Sockets : sock[f] # << >> => f \in Readable
    BY <1>1 DEF Reports, Kept, Readable
  <2>2. \A f \in Readable : \E k \in DOMAIN events' : events'[k] = f
    BY <1>1, OrdersCover DEF Reports, Readable
  <2>3. /\ pc' # "wait" /\ sock' = sock
        /\ \A f \in Readable : ready_fd_array'[f] = 1
        /\ \A f \in Sockets : taken'[f] = 0
    BY <1>1 DEF Reports
  <2>4. \A f \in Sockets : Len(sock[f]) + 0 <= 4
    BY <1>0 DEF HoldFew
  <2> QED BY <2>1, <2>2, <2>3, <2>4 DEF Kept, Places
<1>2. CASE Receives
  <2>1. PICK c \in Sockets : c = events[j]
    BY <1>0, <1>2 DEF Receives, RoundTypes
  <2>2. /\ pc' # "wait" /\ sock[c] # << >> /\ sock' = [sock EXCEPT ![c] = Tail(@)]
        /\ taken' = [taken EXCEPT ![c] = @ + 1]
        /\ UNCHANGED <<armed, events, ready_fd_array>>
    BY <1>2, <2>1 DEF Receives, TakeFirst
  <2>3. /\ Len(sock'[c]) = Len(sock[c]) - 1 /\ taken'[c] = taken[c] + 1
        /\ \A f \in Sockets : f # c => sock'[f] = sock[f] /\ taken'[f] = taken[f]
    BY <1>0, <2>2 DEF RoundTypes, SocketsOK
  <2>4. ASSUME NEW f \in Sockets, sock'[f] # << >>, ~armed'[f]
        PROVE  /\ ready_fd_array'[f] = 1 /\ \E k \in Places' : events'[k] = f
               /\ Len(sock'[f]) + taken'[f] <= 4
    <3>1. sock[f] # << >> /\ ~armed[f]
      BY <2>2, <2>3, <2>4
    <3>2. /\ ready_fd_array[f] = 1 /\ \E k \in Places : events[k] = f
          /\ Len(sock[f]) + taken[f] <= 4
      BY <3>1 DEF Kept
    <3>3. Len(sock'[f]) + taken'[f] = Len(sock[f]) + taken[f]
      <4>1. Len(sock[f]) \in Nat /\ taken[f] \in Nat
        BY <1>0
      <4>2. CASE f = c
        BY <2>3, <4>1, <4>2
      <4>3. CASE f # c
        BY <2>3, <4>3
      <4> QED BY <4>2, <4>3
    <3> QED BY <2>2, <3>2, <3>3 DEF Places
  <2> QED BY <2>2, <2>4 DEF Kept
<1>3. CASE Sends
  BY <1>3 DEF Sends, Onward, Kept, Places
<1>4. CASE Drains
  <2>1. PICK c \in Sockets : c = events[j]
    BY <1>0, <1>4 DEF Drains, RoundTypes
  <2>2. /\ pc' # "wait" /\ sock[c] = << >>
        /\ ready_fd_array' = [ready_fd_array EXCEPT ![c] = 0]
        /\ UNCHANGED <<sock, armed, events, taken>>
    BY <1>4, <2>1 DEF Drains, Onward
  <2>3. \A f \in Sockets : f # c => ready_fd_array'[f] = ready_fd_array[f]
    BY <2>2 DEF RoundInv, RoundTypes
  <2> QED BY <2>2, <2>3 DEF Kept, Places
<1>5. CASE Skips
  BY <1>5 DEF Skips, Onward, Kept, Places
<1>6. ASSUME NEW g \in Sockets, Arrive(g), LoopRests, UNCHANGED pc PROVE Kept'
  <2>1. /\ armed'[g]
        /\ \A f \in Sockets : f # g => sock'[f] = sock[f] /\ armed'[f] = armed[f]
    BY <1>0, <1>6 DEF Arrive, RoundTypes, SocketsOK
  <2> QED BY <1>6, <2>1 DEF LoopRests, Kept, Places
<1>7. CASE LoopRests /\ pc = "log" /\ pc' = "wait" /\ UNCHANGED <<arrived, sock, armed>>
  <2>1. ASSUME NEW f \in Sockets, sock[f] # << >>, ~armed[f] PROVE FALSE
    <3>1. /\ ready_fd_array[f] = 1 /\ Len(sock[f]) + taken[f] <= 4
          /\ \E k \in Places : events[k] = f
      BY <2>1 DEF Kept
    <3>2. ready_fd_array[f] = 0 \/ taken[f] >= 4
      BY <1>0, <1>7, <3>1 DEF RR!ServesFour, Places
    <3> QED BY <1>0, <2>1, <3>1, <3>2
  <2> QED BY <1>7, <2>1 DEF Kept
<1>8. CASE LoopRests /\ UNCHANGED <<pc, arrived, sock, armed>>
  BY <1>8 DEF LoopRests, Kept, Places
<1> QED BY <1>0, <1>1, <1>2, <1>3, <1>4, <1>5, <1>6, <1>7, <1>8, RoundSteps

(* In a run in which no socket ever holds more than four requests, the     *)
(* round-robin server, too, strands none: when its loop waits, an edge is  *)
(* to come for every socket that has something to read (NoStranded).       *)
THEOREM RoundStrandsNothing == RR!Spec /\ []HoldFew => []NoStranded
<1>1. RR!Init => Kept
  BY DEF RR!Init, RR!InitSockets, RR!Sockets, Sockets, Kept
<1>2. Kept => NoStranded
  BY DEF Kept, NoStranded
<1> QED BY <1>1, <1>2, InitRound, NextRound, NextKept, PTL DEF RR!Spec
-----------------------------------------------------------------------------
(* What the round-robin server writes down.  The visit that finds a socket *)
(* empty is counted like one that receives a request; a socket has one     *)
(* such visit in a turn, since it is skipped from then on.                 *)
FoundEmpty(f) == ready_fd_array[f] = 0 /\ \E k \in Places : events[k] = f

Visits == [f \in Sockets |-> taken[f] + IF FoundEmpty(f) THEN 1 ELSE 0]

InHand(f) == pc = "send" /\ f = events[j]

(* The array has the visits of the turn, but for the one under way, once   *)
(* it has been cleared; and a turn has some socket to visit.               *)
Tallied ==
  /\ fdreq_tracking_array \in [Sockets -> Int]
  /\ pc # "wait" => 1 \in Places
  /\ log # RR!NoLine => \A f \in Sockets :
       fdreq_tracking_array[f] =
         IF pc = "wait" THEN 0 ELSE Visits[f] - IF InHand(f) THEN 1 ELSE 0

(* Each visit is added to the array when it ends.                          *)
LEMMA NextTallied ==
  RoundTypes /\ Tallied /\ [RR!Next]_(RR!vars) => Tallied'
<1> SUFFICES ASSUME RoundTypes, Tallied, [RR!Next]_(RR!vars) PROVE Tallied'
  OBVIOUS
<1> DEFINE fd == fdreq_tracking_array
           empties(f) == IF FoundEmpty(f) THEN 1 ELSE 0
           hand(f) == IF InHand(f) THEN 1 ELSE 0
<1>0. /\ fd \in [Sockets -> Int]
      /\ \A f \in Sockets : taken[f] \in Nat /\ ready_fd_array[f] \in {0, 1}
      /\ \A f \in Sockets : Visits[f] = taken[f] + empties(f)
      /\ \A f \in Sockets : Visits'[f] = taken'[f] + empties(f)'
      /\ \A k \in Places : events[k] \in Sockets
  BY DEF RoundTypes, Tallied, Visits, Places
<1>1. ASSUME pc = "recv" \/ pc = "send", NEW c \in Sockets, c = events[j], UNCHANGED taken,
             Onward, UNCHANGED events, Tallies,
             \A f \in Sockets : f # c => empties(f)' = empties(f),
             empties(c)' = empties(c) + 1 - hand(c)
      PROVE  Tallied'
  <2>1. /\ fd' \in [Sockets -> Int] /\ fd'[c] = fd[c] + 1
        /\ \A f \in Sockets : f # c => fd'[f] = fd[f]
    BY <1>0, <1>1 DEF Tallies
  <2>2. pc' \in {"recv", "log"} /\ \A f \in Sockets : hand(f)' = 0 /\ (f # c => hand(f) = 0)
    BY <1>1 DEF Onward, InHand
  <2>3. ASSUME log # RR!NoLine, NEW f \in Sockets PROVE fd'[f] = Visits'[f]
    <3>1. fd[f] = taken[f] + empties(f) - hand(f)
      BY <1>0, <1>1, <2>3 DEF Tallied
    <3>2. CASE f = c
      BY <1>0, <1>1, <2>1, <3>1, <3>2
    <3>3. CASE f # c
      BY <1>0, <1>1, <2>1, <2>2, <3>1, <3>3
    <3> QED BY <3>2, <3>3
  <2>4. Visits' \in [Sockets -> Int]
    BY <1>0, <1>1 DEF Visits
  <2>5. \A f \in Sockets : log # RR!NoLine => fd'[f] = Visits'[f] - hand(f)'
    BY <2>2, <2>3, <2>4
  <2> QED BY <1>1, <2>1, <2>2, <2>5 DEF Tallied, Tallies, Places
<1>2. CASE Reports /\ SameTally
  <2>1. /\ pc = "wait" /\ pc' = "recv" /\ \A f \in Sockets : taken'[f] = 0
        /\ UNCHANGED <<fd, log>>
    BY <1>2 DEF Reports, SameTally
  <2>2. /\ 1 \in DOMAIN events' /\ \A k \in DOMAIN events' : ready_fd_array'[events'[k]] = 1
    BY <1>2, OrdersDistinct DEF Reports, Readable
  <2>3. \A f \in Sockets : empties(f)' = 0 /\ hand(f)' = 0
    BY <2>1, <2>2 DEF FoundEmpty, InHand, Places
  <2>4. \A f \in Sockets : log # RR!NoLine => fd'[f] = Visits'[f] - hand(f)'
    BY <1>0, <2>1, <2>3 DEF Tallied
  <2> QED BY <1>0, <2>1, <2>2, <2>4 DEF Tallied, Places
<1>3. CASE Receives /\ SameTally
  <2>1. PICK c \in Sockets : c = events[j]
    BY <1>0, <1>3 DEF Receives, RoundTypes
  <2>2. /\ pc = "recv" /\ pc' = "send" /\ taken' = [taken EXCEPT ![c] = @ + 1]
        /\ UNCHANGED <<events, j, ready_fd_array, fd, log>>
    BY <1>3, <2>1 DEF Receives, SameTally
  <2>3. \A f \in Sockets : /\ empties(f)' = empties(f) /\ hand(f) = 0
                           /\ hand(f)' = IF f = c THEN 1 ELSE 0
                           /\ taken'[f] = IF f = c THEN taken[f] + 1 ELSE taken[f]
    BY <1>0, <2>1, <2>2 DEF FoundEmpty, InHand, Places, RoundTypes
  <2>4. ASSUME log # RR!NoLine, NEW f \in Sockets PROVE fd'[f] = Visits'[f] - hand(f)'
    <3>1. fd[f] = taken[f] + empties(f) - hand(f)
      BY <1>0, <2>2, <2>4 DEF Tallied
    <3> QED BY <1>0, <2>2, <2>3, <3>1
  <2> QED BY <1>0, <2>2, <2>4 DEF Tallied, Places
<1>4. CASE Sends /\ Tallies
  <2>1. PICK c \in Sockets : c = events[j]
    BY <1>0, <1>4 DEF Sends, RoundTypes
  <2>2. \A f \in Sockets : empties(f)' = empties(f)
    BY <1>4 DEF Sends, FoundEmpty, Places
  <2>3. hand(c) = 1
    BY <1>4, <2>1 DEF Sends, InHand
  <2> QED BY <1>1, <1>4, <2>1, <2>2, <2>3 DEF Sends
<1>5. CASE Drains /\ Tallies
  <2>1. PICK c \in Sockets : c = events[j] /\ j \in Places
    BY <1>0, <1>5 DEF Drains, RoundTypes
  <2>2. /\ pc = "recv" /\ ready_fd_array[c] = 1 /\ UNCHANGED events
        /\ ready_fd_array' = [ready_fd_array EXCEPT ![c] = 0]
    BY <1>5, <2>1 DEF Drains, IsReady
  <2>3. /\ ready_fd_array'[c] = 0
        /\ \A f \in Sockets : f # c => ready_fd_array'[f] = ready_fd_array[f]
    BY <2>2 DEF RoundTypes
  <2>4. /\ \A f \in Sockets : f # c => empties(f)' = empties(f)
        /\ empties(c) = 0 /\ empties(c)' = 1 /\ hand(c) = 0
    BY <2>1, <2>2, <2>3 DEF FoundEmpty, InHand, Places
  <2> QED BY <1>1, <1>5, <2>1, <2>4 DEF Drains
<1>6. CASE Skips /\ SameTally
  <2>1. /\ pc = "recv" /\ pc' \in {"recv", "log"}
        /\ UNCHANGED <<events, ready_fd_array, taken, fd, log>>
    BY <1>6 DEF Skips, Onward, SameTally
  <2>2. /\ \A f \in Sockets : Visits'[f] = Visits[f] /\ hand(f) = 0 /\ hand(f)' = 0
    BY <2>1 DEF Visits, FoundEmpty, InHand, Places
  <2> QED BY <2>1, <2>2 DEF Tallied, Places
<1>7. CASE LoopRests /\ UNCHANGED pc /\ SameTally
  BY <1>7 DEF LoopRests, SameTally, Tallied, Visits, FoundEmpty, InHand, Places
<1>8. CASE LoopRests /\ pc' = "wait" /\ WritesLine
  BY <1>8 DEF WritesLine, Tallied
<1> QED BY <1>2, <1>3, <1>4, <1>5, <1>6, <1>7, <1>8, RoundSteps

(* When the turn ends the array has its visits, of which there are some.   *)
LEMMA LineIsVisits ==
  ASSUME RoundInv, Tallied, log # RR!NoLine, pc = "log", WritesLine
  PROVE  log' = RR!LogLine(Visits)
<1>1. fdreq_tracking_array = Visits
  <2>1. \A f \in Sockets : Visits[f] \in Int
    BY DEF RoundInv, RoundTypes, Visits
  <2>2. \A f \in Sockets : fdreq_tracking_array[f] = Visits[f] - 0
    BY DEF Tallied, InHand
  <2>3. \A f \in Sockets : fdreq_tracking_array[f] = Visits[f]
    BY <2>1, <2>2
  <2> QED BY <2>3 DEF Tallied, Visits
<1>2. RR!LogLine(Visits).non_zero_fd > 0
  <2> DEFINE N == {f \in RR!Sockets : Visits[f] > 0}
  <2>1. RR!Sockets = Sockets /\ RR!Cardinality(N) = Cardinality(N)
    BY DEF RR!Sockets, Sockets, RR!Cardinality, Cardinality
  <2>2. IsFiniteSet(N)
    <3>1. IsFiniteSet(Sockets)
      BY FS_Interval, SocketsAssumption DEF Sockets
    <3> QED BY <2>1, <3>1, FS_Subset
  <2>3. N # {}
    <3>1. 1 \in Places /\ events[1] \in Sockets
      BY DEF Tallied, RoundInv, RoundTypes, Places
    <3>2. ready_fd_array[events[1]] = 0 \/ taken[events[1]] >= 4
      BY <3>1 DEF RoundInv, RR!ServesFour, Places
    <3>3. Visits[events[1]] > 0
      BY <3>1, <3>2 DEF Visits, FoundEmpty, RoundInv, RoundTypes
    <3> QED BY <2>1, <3>1, <3>3
  <2>4. Cardinality(N) > 0
    BY <2>2, <2>3, FS_EmptySet, FS_CardinalityType
  <2> QED BY <2>1, <2>4 DEF RR!LogLine
<1> QED BY <1>1, <1>2 DEF WritesLine

(* Every line of the round-robin server's log but the first gives what the *)
(* turn received and one more for each socket that was found empty.        *)
THEOREM RoundLogCountsVisits ==
  RR!Spec => [][log # RR!NoLine /\ pc = "log" /\ pc' = "wait"
                  => log' = RR!LogLine(Visits)]_(RR!vars)
<1>1. RoundInv /\ Tallied /\ [RR!Next]_(RR!vars)
        => [log # RR!NoLine /\ pc = "log" /\ pc' = "wait"
              => log' = RR!LogLine(Visits)]_(RR!vars)
  <2> SUFFICES ASSUME RoundInv, Tallied, [RR!Next]_(RR!vars),
                      log # RR!NoLine, pc = "log", pc' = "wait"
               PROVE  log' = RR!LogLine(Visits)
    OBVIOUS
  <2>1. WritesLine
    BY RoundSteps DEF RoundInv, Reports, Receives, Sends, Drains, Skips
  <2> QED BY <2>1, LineIsVisits
<1>2. RR!Init => Tallied
  BY DrainAssumption DEF RR!Init, RR!Sockets, Sockets, Tallied
<1>3. RoundInv => RoundTypes
  BY DEF RoundInv
<1> QED BY <1>1, <1>2, <1>3, InitRound, NextRound, NextTallied, PTL DEF RR!Spec
-----------------------------------------------------------------------------
(* The request being answered is the last that left the buffer of the      *)
(* socket that is visited; and none of those that have not been answered   *)
(* has had a reply.                                                        *)
InRoundOrder ==
  /\ Ordered
  /\ pc = "send" => Gone(events[j]) > 0 /\ request = <<events[j], Gone(events[j])>>
  /\ \A f \in Sockets, n \in 1 .. MaxRequests :
        n > Gone(f) \/ (pc = "send" /\ f = events[j] /\ n = Gone(f)) => replies[<<f, n>>] = 0

(* No request has come yet.                                                *)
LEMMA InitRoundOrder == RR!Init => InRoundOrder
<1> SUFFICES ASSUME RR!Init PROVE InRoundOrder
  OBVIOUS
<1>1. InitSockets
  BY DEF RR!Init, RR!InitSockets, InitSockets, RR!Sockets, Sockets, RR!Requests, Requests
<1> QED BY <1>1, InitOrdered DEF RR!Init, InitSockets, InRoundOrder, Gone, Requests

(* A request leaves its buffer in its turn and is answered once.           *)
LEMMA NextRoundOrder ==
  RoundTypes /\ InRoundOrder /\ [RR!Next]_(RR!vars) => InRoundOrder'
<1> SUFFICES ASSUME RoundTypes, InRoundOrder, [RR!Next]_(RR!vars) PROVE InRoundOrder'
  OBVIOUS
<1>0. /\ SocketsOK /\ Ordered /\ \A f \in Sockets : Gone(f) \in Nat
      /\ pc \in {"recv", "send"} => events[j] \in Sockets
  BY GoneType DEF RoundTypes, InRoundOrder, Places
<1>1. CASE Receives
  <2>1. PICK c \in Sockets : c = events[j]
    BY <1>0, <1>1 DEF Receives
  <2>2. /\ pc = "recv" /\ pc' = "send" /\ sock[c] # << >> /\ TakeFirst(c)
        /\ request' = Head(sock[c]) /\ c = events'[j'] /\ UNCHANGED <<arrived, replies>>
    BY <1>1, <2>1 DEF Receives
  <2>3. /\ Ordered' /\ Head(sock[c]) = <<c, Gone(c) + 1>> /\ Gone(c)' = Gone(c) + 1
        /\ \A f \in Sockets : f # c => Gone(f)' = Gone(f)
    BY <1>0, <2>2, TakeOrdered
  <2>4. Gone(events[j])' = Gone(c)'
    BY <2>2 DEF Gone
  <2>5. ASSUME NEW f \in Sockets, NEW n \in 1 .. MaxRequests,
               n > Gone(f)' \/ (f = c /\ n = Gone(f)')
        PROVE  replies'[<<f, n>>] = 0
    <3>1. n > Gone(f)
      <4>1. CASE f = c
        BY <1>0, <2>3, <2>5, <4>1
      <4>2. CASE f # c
        BY <2>3, <2>5, <4>2
      <4> QED BY <4>1, <4>2
    <3> QED BY <2>2, <3>1 DEF InRoundOrder
  <2> QED BY <1>0, <2>2, <2>3, <2>4, <2>5 DEF InRoundOrder
<1>2. ASSUME NEW g \in Sockets, Arrive(g), LoopRests, UNCHANGED pc PROVE InRoundOrder'
  <2>1. Ordered' /\ \A f \in Sockets : Gone(f)' = Gone(f)
    BY <1>0, <1>2, ArriveOrdered
  <2>2. UNCHANGED <<pc, events, j, request, replies>>
    BY <1>2 DEF LoopRests
  <2>3. pc = "send" => Gone(events[j])' = Gone(events[j])
    BY <1>0, <2>1, <2>2 DEF Gone
  <2> QED BY <2>1, <2>2, <2>3 DEF InRoundOrder
<1>3. CASE Sends
  <2>1. UNCHANGED <<arrived, sock, events>> /\ pc = "send" /\ pc' \in {"recv", "log"}
    BY <1>3 DEF Sends, Onward
  <2>2. events[j] \in Sockets /\ request = <<events[j], Gone(events[j])>>
    BY <1>0, <2>1 DEF InRoundOrder
  <2>3. Ordered' /\ \A f \in Sockets : Gone(f)' = Gone(f)
    BY <1>0, <2>1 DEF Gone, Ordered
  <2>4. ASSUME NEW f \in Sockets, NEW n \in 1 .. MaxRequests, n > Gone(f)
        PROVE  replies'[<<f, n>>] = 0
    <3>1. <<f, n>> # request
      BY <1>0, <2>2, <2>4
    <3>2. replies'[<<f, n>>] = replies[<<f, n>>]
      BY <1>0, <1>3, <3>1 DEF Sends, ReplyTo, SocketsOK, Requests
    <3> QED BY <3>2, <2>4 DEF InRoundOrder
  <2> QED BY <2>1, <2>3, <2>4 DEF InRoundOrder
<1>4. ASSUME \/ Reports \/ Drains \/ Skips
             \/ LoopRests /\ pc = "log" /\ pc' = "wait" /\ UNCHANGED <<arrived, sock, armed>>
             \/ LoopRests /\ UNCHANGED <<pc, arrived, sock, armed>>
      PROVE  InRoundOrder'
  <2>1. /\ UNCHANGED <<arrived, sock, replies>>
        /\ \/ pc # "send" /\ pc' # "send"
           \/ UNCHANGED <<pc, events, j, request>>
    BY <1>4 DEF Reports, Drains, Skips, LoopRests, Onward
  <2> QED BY <2>1 DEF InRoundOrder, Gone, Ordered
<1> QED BY <1>1, <1>2, <1>3, <1>4, RoundSteps
-----------------------------------------------------------------------------
(* Of the requests that the round-robin server has received or can         *)
(* receive, a reply, or a refused one, takes away the one in hand.         *)
LEMMA RoundSendAnswers ==
  ASSUME RoundTypes, InRoundOrder, Sends
  PROVE  /\ request \in Requests /\ request \in Waiting
         /\ Waiting' = Waiting \ {request}
<1>1. pc = "send" /\ pc' # "send" /\ UNCHANGED <<sock, arrived>>
  BY DEF Sends, Onward
<1>2. PICK c \in Sockets : c = events[j]
  BY <1>1 DEF RoundTypes, Places
<1>3. request = <<c, Gone(c)>> /\ Gone(c) > 0
  BY <1>1, <1>2 DEF InRoundOrder
<1>4. SocketsOK /\ Ordered /\ MaxRequests \in Nat
  BY SocketsAssumption DEF RoundTypes, InRoundOrder
<1>5. Gone(c) \in 1 .. MaxRequests
  BY <1>3, <1>4, GoneType
<1>6. request \in Requests
  BY <1>3, <1>5 DEF Requests
<1>7. request \notin InSockets
  BY <1>3, <1>4, GoneNotHeld
<1>8. InSockets' = InSockets
  BY <1>1 DEF InSockets
<1> QED BY <1>1, <1>6, <1>7, <1>8 DEF Waiting

(* An arrival is a request that has not been seen before.                  *)
LEMMA RoundArriveAccepts ==
  ASSUME RoundTypes, InRoundOrder, NEW g \in Sockets, Arrive(g), UNCHANGED <<pc, request>>
  PROVE  \E r \in Requests : /\ r \notin Waiting /\ replies[r] = 0
                             /\ Waiting' = Waiting \cup {r}
<1> DEFINE r == <<g, arrived[g] + 1>>
<1>1. /\ SocketsOK /\ Ordered /\ MaxRequests \in Nat
      /\ \A f \in Sockets : arrived[f] \in Nat /\ Gone(f) \in Nat /\ Gone(f) <= arrived[f]
  BY GoneType, SocketsAssumption DEF RoundTypes, InRoundOrder
<1>2. r \in Requests /\ arrived[g] + 1 <= MaxRequests
  BY <1>1, ArriveOrdered
<1>3. r \notin InSockets /\ InSockets' = InSockets \cup {r}
  BY <1>1, ArriveInSockets
<1>4. pc = "send" => request # r
  <2>1. ASSUME pc = "send" PROVE \E c \in Sockets : request = <<c, Gone(c)>>
    BY <2>1 DEF RoundTypes, InRoundOrder, Places
  <2> QED BY <1>1, <2>1
<1>5. replies[r] = 0
  <2>1. arrived[g] + 1 \in 1 .. MaxRequests /\ arrived[g] + 1 > Gone(g)
    BY <1>1, <1>2
  <2> QED BY <2>1 DEF InRoundOrder
<1>6. r \notin Waiting /\ Waiting' = Waiting \cup {r}
  BY <1>3, <1>4 DEF Waiting
<1> QED BY <1>2, <1>5, <1>6

(* The round-robin server implements the echo service, as far as safety    *)
(* goes, whatever a turn leaves in the sockets.                            *)
THEOREM RoundImplementsEcho == RR!Spec => RR!Echo!Spec
<1>1. RR!InSockets = InSockets /\ RR!Requests = Requests
  BY DEF RR!InSockets, InSockets, RR!Requests, Requests, RR!Sockets, Sockets
<1>2. RR!Init => RR!Echo!Init
  BY DEF RR!Init, RR!InitSockets, RR!Echo!Init, RR!InSockets
<1>3. RoundTypes /\ InRoundOrder /\ [RR!Next]_(RR!vars) /\ RoundTypes'
        => [RR!Echo!Next]_(RR!Echo!vars)
  <2> SUFFICES ASSUME RoundTypes, InRoundOrder, [RR!Next]_(RR!vars), RoundTypes'
               PROVE  [RR!Echo!Next]_(RR!Echo!vars)
    OBVIOUS
  <2>1. RR!Echo!vars = <<Waiting, replies>> /\ RR!Echo!vars' = <<Waiting', replies'>>
    BY DEF RR!Echo!vars, Waiting, RR!InSockets, InSockets, RR!Sockets, Sockets
  <2>2. CASE Receives
    <3>1. PICK c \in Sockets : c = events[j]
      BY <2>2 DEF Receives, RoundTypes, Places
    <3>2. /\ pc = "recv" /\ pc' = "send" /\ sock[c] # << >> /\ TakeFirst(c)
          /\ request' = Head(sock[c]) /\ UNCHANGED <<arrived, replies>>
      BY <2>2, <3>1 DEF Receives
    <3>3. InSockets = InSockets' \cup {Head(sock[c])}
      BY <3>2, TakeInSockets DEF RoundTypes, InRoundOrder
    <3>4. Waiting' = Waiting /\ UNCHANGED replies
      BY <3>2, <3>3 DEF Waiting
    <3> QED BY <2>1, <3>4
  <2>3. CASE Sends
    <3>1. /\ request \in Requests /\ request \in Waiting
          /\ Waiting' = Waiting \ {request}
      BY <2>3, RoundSendAnswers
    <3>2. CASE ReplyTo(request)
      <4>1. RR!Echo!Answer(request)
        BY <1>1, <2>1, <3>1, <3>2 DEF RR!Echo!Answer, ReplyTo, RR!Echo!vars
      <4> QED BY <1>1, <3>1, <4>1 DEF RR!Echo!Next
    <3>3. CASE request \in Refused /\ UNCHANGED replies
      <4>1. RR!Echo!Forget(request)
        BY <1>1, <2>1, <3>1, <3>3 DEF RR!Echo!Forget, RR!Echo!vars
      <4> QED BY <1>1, <3>1, <4>1 DEF RR!Echo!Next
    <3> QED BY <2>3, <3>2, <3>3 DEF Sends
  <2>4. ASSUME NEW g \in Sockets, Arrive(g), LoopRests, UNCHANGED pc
        PROVE  RR!Echo!Next
    <3>1. PICK r \in Requests : /\ r \notin Waiting /\ replies[r] = 0
                               /\ Waiting' = Waiting \cup {r}
      BY <2>4, RoundArriveAccepts DEF LoopRests
    <3>2. RR!Echo!Accept(r)
      BY <2>1, <2>4, <3>1 DEF RR!Echo!Accept, LoopRests, RR!Echo!vars
    <3> QED BY <1>1, <3>2 DEF RR!Echo!Next
  <2>5. ASSUME \/ Reports \/ Drains \/ Skips
               \/ LoopRests /\ pc = "log" /\ pc' = "wait" /\ UNCHANGED <<arrived, sock, armed>>
               \/ LoopRests /\ UNCHANGED <<pc, arrived, sock, armed>>
        PROVE  UNCHANGED RR!Echo!vars
    <3>1. /\ UNCHANGED <<sock, replies>>
          /\ \/ pc # "send" /\ pc' # "send"
             \/ UNCHANGED <<pc, request>>
      BY <2>5 DEF Reports, Drains, Skips, LoopRests, Onward
    <3>2. Waiting' = Waiting
      BY <3>1 DEF Waiting, InSockets
    <3> QED BY <2>1, <3>1, <3>2
  <2> QED BY <2>2, <2>3, <2>4, <2>5, RoundSteps
<1>4. RR!Init /\ [][RR!Next]_(RR!vars) => [](RoundTypes /\ InRoundOrder)
  <2>1. RR!Init => RoundTypes
    BY InitRound DEF RoundInv
  <2>2. RoundTypes /\ [RR!Next]_(RR!vars) => RoundTypes'
    BY NextRoundTypes
  <2> QED BY <2>1, <2>2, InitRoundOrder, NextRoundOrder, PTL
<1> QED BY <1>2, <1>3, <1>4, PTL DEF RR!Spec, RR!Echo!Spec
=============================================================================

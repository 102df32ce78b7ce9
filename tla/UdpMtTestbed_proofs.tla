------------------------- MODULE UdpMtTestbed_proofs -------------------------
(***************************************************************************)
(* Theorems about the multi-threaded UDP client and the one-shot server,   *)
(* for every number of threads, connections, samples and losses.           *)
(***************************************************************************)
EXTENDS UdpMtTestbed, EpollSockets_proofs

(* What the server's steps keep: types, buffers in order, and the request  *)
(* in hand is the last that left its buffer.                               *)
ServerInv ==
  /\ ServerOK
  /\ Ordered
  /\ pc = "send" => Gone(cur) > 0 /\ request = <<cur, Gone(cur)>>

(* All that can happen to the server in a step of the system.              *)
ServerStep ==
  \/ EpollWait \/ Receive \/ SendReply \/ SendFails
  \/ \E g \in Sockets : Arrive(g) /\ UNCHANGED server
  \/ UNCHANGED <<kernel, server>>

(* It holds of a server that has just started.                              *)
LEMMA InitServerInv == InitServer => ServerInv
<1> SUFFICES ASSUME InitServer PROVE ServerInv
  OBVIOUS
<1>1. SocketsOK /\ Ordered
  BY InitSocketsOK, InitOrdered DEF InitServer
<1> QED BY <1>1, SocketsInNat DEF InitServer, ServerInv, ServerOK

(* After a reply or a failure the server has the next event, or waits.     *)
LEMMA NextEventIs ==
  ASSUME ServerOK, pc = "send", NextEvent
  PROVE  /\ todo' = todo \ {cur} /\ cur' \in Sockets
         /\ pc' \in {"wait", "recv"}
         /\ pc' = "wait" <=> todo' = {}
         /\ pc' = "recv" => cur' \in todo'
BY DEF ServerOK, NextEvent

(* And it is kept, whatever client and network do.                         *)
LEMMA NextServerInv == ServerInv /\ ServerStep => ServerInv'
<1> SUFFICES ASSUME ServerInv, ServerStep PROVE ServerInv'
  OBVIOUS
<1>0. SocketsOK /\ Ordered /\ ServerOK /\ cur \in Sockets
  BY DEF ServerInv, ServerOK
<1>1. CASE EpollWait
  <2>1. /\ pc' = "recv" /\ todo' \subseteq Sockets /\ cur' \in todo' /\ todo' # {}
        /\ UNCHANGED <<arrived, sock, replies, request>>
        /\ armed' \in [Sockets -> BOOLEAN]
    BY <1>1 DEF EpollWait, Readable, Report
  <2> QED BY <1>0, <2>1 DEF ServerInv, ServerOK, SocketsOK, Ordered, Gone
<1>2. CASE Receive
  <2>1. /\ pc = "recv" /\ pc' = "send" /\ sock[cur] # << >> /\ TakeFirst(cur)
        /\ request' = Head(sock[cur])
        /\ UNCHANGED <<arrived, armed, replies, todo, cur>>
    BY <1>2 DEF Receive
  <2>2. /\ Ordered' /\ sock' \in [Sockets -> Seq(Requests)]
        /\ request' = <<cur, Gone(cur) + 1>> /\ request' \in Requests
        /\ Gone(cur)' = Gone(cur) + 1 /\ Gone(cur) \in Nat
    BY <1>0, <2>1, TakeOrdered, GoneType
  <2>3. Gone(cur)' = arrived'[cur'] - Len(sock'[cur'])
    BY <2>1 DEF Gone
  <2>4. SocketsOK'
    BY <1>0, <2>1, <2>2 DEF SocketsOK
  <2> QED BY <1>0, <2>1, <2>2, <2>3, <2>4 DEF ServerInv, ServerOK, Gone
<1>3. CASE SendReply \/ SendFails
  <2>1. /\ pc = "send" /\ NextEvent
        /\ UNCHANGED <<arrived, sock, armed, request>>
        /\ ReplyTo(request) \/ UNCHANGED replies
    BY <1>3 DEF SendReply, SendFails, kernel
  <2>2. replies' \in [Requests -> Nat]
    <3>1. replies \in [Requests -> Nat]
      BY <1>0 DEF SocketsOK
    <3>2. [replies EXCEPT ![request] = @ + 1] \in [Requests -> Nat]
      BY <3>1, CountUp
    <3> QED BY <2>1, <3>1, <3>2 DEF ReplyTo
  <2>3. SocketsOK' /\ Ordered'
    BY <1>0, <2>1, <2>2 DEF SocketsOK, Ordered, Gone
  <2>4. /\ todo' = todo \ {cur} /\ cur' \in Sockets
        /\ pc' \in {"wait", "recv"}
        /\ pc' = "wait" <=> todo' = {}
        /\ pc' = "recv" => cur' \in todo'
    BY <1>0, <2>1, NextEventIs
  <2> QED BY <1>0, <2>1, <2>3, <2>4 DEF ServerInv, ServerOK
<1>4. CASE \E g \in Sockets : Arrive(g) /\ UNCHANGED server
  <2>1. PICK g \in Sockets : Arrive(g) /\ UNCHANGED server
    BY <1>4
  <2>2. Ordered' /\ SocketsOK' /\ \A f \in Sockets : Gone(f)' = Gone(f)
    BY <1>0, <2>1, ArriveOrdered
  <2>3. UNCHANGED <<pc, todo, cur, request>>
    BY <2>1 DEF server
  <2>4. Gone(cur)' = Gone(cur)
    BY <1>0, <2>2, <2>3 DEF Gone
  <2> QED BY <1>0, <2>2, <2>3, <2>4 DEF ServerInv, ServerOK
<1>5. CASE UNCHANGED <<kernel, server>>
  BY <1>5 DEF ServerInv, ServerOK, SocketsOK, Ordered, Gone, kernel, server
<1> QED BY <1>1, <1>2, <1>3, <1>4, <1>5 DEF ServerStep

(* The requests that the server has, in a socket or in its hands.          *)
Waiting == InSockets \cup (IF pc = "send" THEN {request} ELSE {})

(* A request joins them when it arrives and leaves them with its reply.    *)
LEMMA WaitingSteps ==
  ASSUME ServerInv, ServerInv'
  PROVE  /\ EpollWait \/ Receive \/ UNCHANGED <<kernel, server>> => Waiting' = Waiting
         /\ SendReply \/ SendFails => request \in Waiting /\ Waiting' = Waiting \ {request}
         /\ \A g \in Sockets :
              Arrive(g) /\ UNCHANGED server =>
                /\ <<g, arrived[g] + 1>> \in Requests \ Waiting
                /\ Waiting' = Waiting \cup {<<g, arrived[g] + 1>>}
<1>0. /\ SocketsOK /\ Ordered /\ SocketsOK' /\ cur \in Sockets
      /\ \A f \in Sockets : arrived[f] \in Nat /\ Gone(f) \in Nat /\ Gone(f) <= arrived[f]
  BY GoneType DEF ServerInv, ServerOK
<1>1. ASSUME EpollWait \/ UNCHANGED <<kernel, server>> PROVE Waiting' = Waiting
  <2>1. /\ UNCHANGED sock
        /\ \/ pc # "send" /\ pc' # "send"
           \/ UNCHANGED <<pc, request>>
    BY <1>1 DEF EpollWait, kernel, server
  <2> QED BY <2>1 DEF Waiting, InSockets
<1>2. ASSUME Receive PROVE Waiting' = Waiting
  <2>1. InSockets = InSockets' \cup {Head(sock[cur])}
    BY <1>0, <1>2, TakeInSockets DEF Receive
  <2> QED BY <1>2, <2>1 DEF Receive, Waiting
<1>3. ASSUME SendReply \/ SendFails
      PROVE  request \in Waiting /\ Waiting' = Waiting \ {request}
  <2>1. pc = "send" /\ pc' # "send" /\ UNCHANGED sock /\ request = <<cur, Gone(cur)>>
    BY <1>3 DEF SendReply, SendFails, NextEvent, kernel, ServerInv
  <2>2. request \notin InSockets /\ InSockets' = InSockets
    BY <1>0, <2>1, GoneNotHeld DEF InSockets
  <2> QED BY <2>1, <2>2 DEF Waiting
<1>4. ASSUME NEW g \in Sockets, Arrive(g), UNCHANGED server
      PROVE  /\ <<g, arrived[g] + 1>> \in Requests \ Waiting
             /\ Waiting' = Waiting \cup {<<g, arrived[g] + 1>>}
  <2> DEFINE r == <<g, arrived[g] + 1>>
  <2>1. r \in Requests /\ r \notin InSockets /\ InSockets' = InSockets \cup {r}
    BY <1>0, <1>4, ArriveOrdered, ArriveInSockets
  <2>2. pc = "send" => request # r
    BY <1>0 DEF ServerInv
  <2>3. UNCHANGED <<pc, request>>
    BY <1>4 DEF server
  <2> QED BY <2>1, <2>2, <2>3 DEF Waiting
<1> QED BY <1>1, <1>2, <1>3, <1>4
-----------------------------------------------------------------------------
USE ThreadsAssumption, TestbedAssumption

LEMMA ProductStep ==
  ASSUME NEW a \in Nat, NEW b \in Nat, NEW c \in Nat \ {0}, a <= b
  PROVE  /\ a * c \in Nat /\ b * c \in Nat /\ a * c <= b * c
         /\ (b + 1) * c = b * c + c /\ (b + 1) * c \in Nat \ {0}
OBVIOUS

(* The sockets of the load threads come before those of the latency        *)
(* threads, and only the latter have the port CL.                          *)
LEMMA SocketsAre ==
  /\ NumConns \in Nat \ {0} /\ CL \in Sockets /\ CL = NumConns + 1
  /\ LatencyThreads = (NumConns + 1) .. (NumConns + num_threads_closedloop)
  /\ 1 .. NumConns \subseteq ClientSockets /\ LatencyThreads \subseteq ClientSockets
  /\ Nobody \notin ClientSockets /\ ClientSockets \subseteq Nat
  /\ \A s \in 1 .. NumConns : s \notin LatencyThreads
  /\ \A s \in ClientSockets : /\ PortOf(s) \in Sockets
                              /\ PortOf(s) = CL <=> s \in LatencyThreads
<1>1. NumConns \in Nat \ {0}
  <2>1. (num_threads_openloop - 1 + 1) * conn_perthread \in Nat \ {0}
    BY ProductStep
  <2> QED BY <2>1 DEF NumConns
<1> QED BY <1>1, SocketsAssumption
        DEF CL, Sockets, LatencyThreads, ClientSockets, Nobody, PortOf

LEMMA ConnIs ==
  ASSUME NEW t \in LoadThreads, NEW c \in 1 .. conn_perthread
  PROVE  /\ ConnOf(t, c) \in 1 .. NumConns /\ ConnOf(t, c) \in ClientSockets
         /\ ConnOf(t, c) \notin LatencyThreads
<1> DEFINE a == t - 1
           b == num_threads_openloop - 1
<1>1. a \in Nat /\ b \in Nat /\ a <= b /\ b + 1 = num_threads_openloop
  BY DEF LoadThreads
<1>2. /\ a * conn_perthread \in Nat /\ a * conn_perthread <= b * conn_perthread
      /\ (b + 1) * conn_perthread = b * conn_perthread + conn_perthread
      /\ b * conn_perthread \in Nat
  BY <1>1, ProductStep
<1>3. ConnOf(t, c) = a * conn_perthread + c
  BY DEF ConnOf
<1>4. NumConns = (b + 1) * conn_perthread
  BY DEF NumConns
<1> HIDE DEF a, b
<1>5. ConnOf(t, c) \in 1 .. NumConns
  BY <1>2, <1>3, <1>4
<1> QED BY <1>5, SocketsAre

(* What a step of a client's thread is, for everybody else.                *)
LEMMA MainType == ASSUME ClientOK, Main PROVE ClientOK'
<1> USE DEF ClientOK
<1>1. CASE CreateLoad
  BY <1>1 DEF CreateLoad, latency, mailbox
<1>2. CASE ClearFlag
  BY <1>2 DEF ClearFlag, load, latency, mailbox
<1>3. CASE CreateLatency
  BY <1>3 DEF CreateLatency, load, mailbox
<1>4. CASE Join
  BY <1>4 DEF Join, load, latency, mailbox
<1> QED BY <1>1, <1>2, <1>3, <1>4 DEF Main

LEMMA LoadType ==
  ASSUME ClientOK, NEW t \in LoadThreads, SendRequest(t) \/ LoadActs(t)
  PROVE  ClientOK'
<1> USE DEF ClientOK
<1>1. CASE SendRequest(t)
  <2>1. send_conn_id[t] % conn_perthread \in 0 .. (conn_perthread - 1)
    OBVIOUS
  <2> QED BY <1>1, <2>1 DEF SendRequest, control, latency, mailbox
<1>2. CASE PassBarrier(t)
  BY <1>2 DEF PassBarrier, control, latency, mailbox
<1>3. CASE Due(t) \/ LoadEnds(t)
  BY <1>3 DEF Due, LoadEnds, control, latency, mailbox
<1>4. CASE Poll(t)
  <2>1. Reported(t) \subseteq 1 .. NumConns
    BY ConnIs DEF Reported, ConnList
  <2>2. events' \in [LoadThreads -> SUBSET (1 .. NumConns)] /\ edge' \in [ClientSockets -> BOOLEAN]
    BY <1>4, <2>1 DEF Poll
  <2> QED BY <1>4, <2>2 DEF Poll, control, latency
<1>5. CASE ReceiveReply(t)
  <2>1. PICK s \in events[t] :
          /\ inbox[s] > 0
          /\ inbox' = [inbox EXCEPT ![s] = @ - 1]
          /\ events' = [events EXCEPT ![t] = @ \ {s}]
          /\ lpc' = [lpc EXCEPT ![t] = IF events[t] = {s} THEN "loop" ELSE "recv"]
    BY <1>5 DEF ReceiveReply
  <2>2. inbox' \in [ClientSockets -> Nat] /\ events' \in [LoadThreads -> SUBSET (1 .. NumConns)]
    <3>1. s \in ClientSockets /\ inbox[s] \in Nat /\ inbox[s] - 1 \in Nat
      <4>1. events[t] \subseteq 1 .. NumConns
        OBVIOUS
      <4>2. s \in ClientSockets
        BY <4>1, SocketsAre
      <4>3. inbox[s] \in Nat
        BY <4>2
      <4> QED BY <2>1, <4>2, <4>3
    <3> QED BY <2>1, <3>1
  <2>3. completed_req' \in [LoadThreads -> Nat]
    BY <1>5 DEF ReceiveReply
  <2> QED BY <1>5, <2>1, <2>2, <2>3 DEF ReceiveReply, control, latency
<1> QED BY <1>1, <1>2, <1>3, <1>4, <1>5 DEF LoadActs

LEMMA LatencyType ==
  ASSUME ClientOK, NEW k \in LatencyThreads,
         LatencySends(k) \/ LatencyReceives(k) \/ LatencyEnds(k)
  PROVE  ClientOK'
<1> USE DEF ClientOK
<1>1. CASE LatencySends(k)
  BY <1>1 DEF LatencySends, control, load, mailbox
<1>2. CASE LatencyReceives(k)
  <2>1. inbox' \in [ClientSockets -> Nat]
    BY <1>2, SocketsAre DEF LatencyReceives
  <2>2. num_req' \in [LatencyThreads -> 0 .. Samples]
    BY <1>2 DEF LatencyReceives
  <2> QED BY <1>2, <2>1, <2>2 DEF LatencyReceives, control, load
<1>3. CASE LatencyEnds(k)
  BY <1>3 DEF LatencyEnds, load, mailbox
<1> QED BY <1>1, <1>2, <1>3
-----------------------------------------------------------------------------
(* A step of main, a thread or the network that reaches the server does so *)
(* by an arrival alone.                                                    *)
LEMMA StepOfServer == [Next]_vars => ServerStep
<1> SUFFICES ASSUME [Next]_vars PROVE ServerStep
  OBVIOUS
<1>1. CASE MainActs \/ UNCHANGED vars
  BY <1>1 DEF MainActs, vars, ServerStep
<1>2. ASSUME NEW t \in LoadThreads, LoadThread(t) PROVE ServerStep
  BY <1>2 DEF LoadThread, ServerStep
<1>3. ASSUME NEW k \in LatencyThreads, LatencyThread(k) PROVE ServerStep
  BY <1>3 DEF LatencyThread, ServerStep
<1>4. CASE Server
  BY <1>4 DEF Server, ServerListens, ServerReplies, ServerFails, ServerStep
<1>5. ASSUME NEW s \in ClientSockets, RequestArrives(s) \/ ReplyArrives(s) \/ Lose(s)
      PROVE  ServerStep
  BY <1>5, SocketsAre DEF RequestArrives, ReplyArrives, Lose, ServerStep
<1> QED BY <1>1, <1>2, <1>3, <1>4, <1>5 DEF Next

(* The requests the server has are those whose sender is on record.        *)
FromIs ==
  \A r \in Requests :
    IF r \in Waiting THEN from[r] \in ClientSockets /\ PortOf(from[r]) = r[1]
    ELSE from[r] = Nobody

TypeInv == ServerInv /\ ClientOK /\ NetworkOK /\ FromIs

LEMMA InitTypeInv == Init => TypeInv
<1> SUFFICES ASSUME Init PROVE TypeInv
  OBVIOUS
<1>1. ServerInv
  BY InitServerInv DEF Init
<1>2. ClientOK
  <2>1. /\ main = "load" /\ closed_loop_done = FALSE
        /\ lpc \in [LoadThreads -> {"none"}] /\ send_conn_id \in [LoadThreads -> 1 .. conn_perthread]
        /\ sent_req \in [LoadThreads -> Nat] /\ completed_req \in [LoadThreads -> Nat]
        /\ events \in [LoadThreads -> SUBSET (1 .. NumConns)]
    BY DEF Init, InitClient
  <2>2. /\ mpc \in [LatencyThreads -> {"none"}] /\ num_req \in [LatencyThreads -> 0 .. Samples]
        /\ inbox \in [ClientSockets -> Nat] /\ edge \in [ClientSockets -> BOOLEAN]
    BY DEF Init, InitClient
  <2> QED BY <2>1, <2>2 DEF ClientOK
<1>3. NetworkOK
  BY DEF Init, NetworkOK
<1>4. Waiting = {}
  BY DEF Init, InitServer, InitSockets, Waiting, InSockets
<1>5. FromIs
  BY <1>4 DEF Init, FromIs
<1> QED BY <1>1, <1>2, <1>3, <1>5 DEF TypeInv

LEMMA NextTypeInv == TypeInv /\ [Next]_vars => TypeInv'
<1> SUFFICES ASSUME TypeInv, [Next]_vars PROVE TypeInv'
  OBVIOUS
<1>0. ServerInv /\ ServerInv' /\ ClientOK /\ NetworkOK /\ FromIs
  BY StepOfServer, NextServerInv DEF TypeInv
<1>1. ASSUME UNCHANGED <<kernel, server>> PROVE Waiting' = Waiting
  BY <1>0, <1>1, WaitingSteps
<1>2. CASE MainActs
  <2>1. ClientOK'
    BY <1>0, <1>2, MainType DEF MainActs
  <2>2. NetworkOK' /\ FromIs'
    BY <1>0, <1>1, <1>2 DEF MainActs, network, NetworkOK, FromIs
  <2> QED BY <1>0, <2>1, <2>2 DEF TypeInv
<1>3. ASSUME NEW t \in LoadThreads, LoadThread(t) PROVE TypeInv'
  <2>1. ClientOK'
    BY <1>0, <1>3, LoadType DEF LoadThread
  <2>2. UNCHANGED <<kernel, server, from, down, losses, bereft>>
    BY <1>3 DEF LoadThread, network
  <2>3. up' \in [ClientSockets -> Nat]
    <3>1. ConnOf(t, send_conn_id[t]) \in ClientSockets
      BY <1>0, ConnIs DEF ClientOK
    <3>2. up \in [ClientSockets -> Nat]
      BY <1>0 DEF NetworkOK
    <3> QED BY <1>3, <3>1, <3>2 DEF LoadThread, network
  <2>4. NetworkOK' /\ FromIs'
    BY <1>0, <1>1, <2>2, <2>3 DEF NetworkOK, FromIs
  <2> QED BY <1>0, <2>1, <2>4 DEF TypeInv
<1>4. ASSUME NEW k \in LatencyThreads, LatencyThread(k) PROVE TypeInv'
  <2>1. ClientOK'
    BY <1>0, <1>4, LatencyType DEF LatencyThread
  <2>2. UNCHANGED <<kernel, server, from, down, losses, bereft>>
    BY <1>4 DEF LatencyThread, network
  <2>3. up' \in [ClientSockets -> Nat]
    <3>1. up \in [ClientSockets -> Nat] /\ k \in ClientSockets
      BY <1>0, SocketsAre DEF NetworkOK
    <3>2. up' = up \/ up' = [up EXCEPT ![k] = @ + 1]
      BY <1>4 DEF LatencyThread, network
    <3> QED BY <3>1, <3>2
  <2>4. NetworkOK' /\ FromIs'
    BY <1>0, <1>1, <2>2, <2>3 DEF NetworkOK, FromIs
  <2> QED BY <1>0, <2>1, <2>4 DEF TypeInv
<1>5. CASE Server
  <2>1. ClientOK'
    BY <1>0, <1>5 DEF Server, ServerListens, ServerReplies, ServerFails, client, control, load,
                      latency, mailbox, ClientOK
  <2>2. CASE ServerListens
    <3>1. Waiting' = Waiting
      BY <1>0, <2>2, WaitingSteps DEF ServerListens
    <3>2. NetworkOK' /\ FromIs'
      BY <1>0, <2>2, <3>1 DEF ServerListens, network, NetworkOK, FromIs
    <3> QED BY <1>0, <2>1, <3>2 DEF TypeInv
  <2>3. CASE ServerReplies \/ ServerFails
    <3>1. request \in Waiting /\ Waiting' = Waiting \ {request} /\ request \in Requests
      <4>1. pc = "send" /\ (SendReply \/ SendFails)
        BY <2>3 DEF ServerReplies, ServerFails, SendReply, SendFails
      <4> QED BY <1>0, <4>1, WaitingSteps DEF ServerInv, ServerOK
    <3>2. /\ from' = [from EXCEPT ![request] = Nobody] /\ UNCHANGED <<up, losses>>
          /\ down' = down \/ down' = [down EXCEPT ![from[request]] = @ + 1]
          /\ bereft' \subseteq LatencyThreads
      BY <1>0, <2>3 DEF ServerReplies, ServerFails, NetworkOK
    <3>3. NetworkOK' /\ FromIs'
      BY <1>0, <3>1, <3>2 DEF NetworkOK, FromIs
    <3> QED BY <1>0, <2>1, <3>3 DEF TypeInv
  <2> QED BY <1>5, <2>2, <2>3 DEF Server
<1>6. ASSUME NEW s \in ClientSockets, RequestArrives(s) PROVE TypeInv'
  <2> DEFINE r == <<PortOf(s), arrived[PortOf(s)] + 1>>
  <2>1. /\ Arrive(PortOf(s)) /\ from' = [from EXCEPT ![r] = s]
        /\ up' = [up EXCEPT ![s] = @ - 1] /\ up[s] > 0
        /\ UNCHANGED <<server, client, down, losses, bereft>>
    BY <1>6 DEF RequestArrives
  <2>2. PortOf(s) \in Sockets
    BY SocketsAre
  <2>3. r \in Requests \ Waiting /\ Waiting' = Waiting \cup {r}
    BY <1>0, <2>1, <2>2, WaitingSteps
  <2>4. ClientOK'
    BY <1>0, <2>1 DEF client, control, load, latency, mailbox, ClientOK
  <2>5. r[1] = PortOf(s)
    OBVIOUS
  <2> HIDE DEF r
  <2>6. NetworkOK'
    BY <1>0, <2>1, <2>3 DEF NetworkOK
  <2>7. FromIs'
    BY <1>0, <2>1, <2>3, <2>5 DEF FromIs, NetworkOK
  <2> QED BY <1>0, <2>4, <2>6, <2>7 DEF TypeInv
<1>7. ASSUME NEW s \in ClientSockets, ReplyArrives(s) PROVE TypeInv'
  <2>1. /\ down' = [down EXCEPT ![s] = @ - 1] /\ down[s] > 0 /\ Comes(s)
        /\ UNCHANGED <<kernel, server, up, from, losses, bereft>>
    BY <1>7 DEF ReplyArrives
  <2>2. NetworkOK' /\ FromIs'
    BY <1>0, <1>1, <2>1 DEF NetworkOK, FromIs
  <2>3. ClientOK'
    BY <1>0, <2>1 DEF Comes, control, load, latency, ClientOK
  <2> QED BY <1>0, <2>2, <2>3 DEF TypeInv
<1>8. ASSUME NEW s \in ClientSockets, Lose(s) PROVE TypeInv'
  <2>1. /\ losses < MaxLoss /\ losses' = losses + 1 /\ bereft' \subseteq LatencyThreads
        /\ \/ up[s] > 0 /\ up' = [up EXCEPT ![s] = @ - 1] /\ UNCHANGED down
           \/ down[s] > 0 /\ down' = [down EXCEPT ![s] = @ - 1] /\ UNCHANGED up
        /\ UNCHANGED <<kernel, server, client, from>>
    BY <1>0, <1>8 DEF Lose, NetworkOK
  <2>2. NetworkOK' /\ FromIs'
    BY <1>0, <1>1, <2>1 DEF NetworkOK, FromIs
  <2>3. ClientOK'
    BY <1>0, <2>1 DEF client, control, load, latency, mailbox, ClientOK
  <2> QED BY <1>0, <2>2, <2>3 DEF TypeInv
<1>9. CASE UNCHANGED vars
  BY <1>0, <1>1, <1>9 DEF vars, client, control, load, latency, mailbox, network,
                          TypeInv, ClientOK, NetworkOK, FromIs
<1> QED BY <1>2, <1>3, <1>4, <1>5, <1>6, <1>7, <1>8, <1>9 DEF Next

LEMMA TypeInvHolds == Spec => []TypeInv
BY InitTypeInv, NextTypeInv, PTL DEF Spec

(* Client, server and network keep their types.                            *)
THEOREM TypeCorrect == Spec => []TypeOK
<1>1. TypeInv => TypeOK
  BY DEF TypeInv, ServerInv, TypeOK
<1> QED BY <1>1, TypeInvHolds, PTL
-----------------------------------------------------------------------------
(* The datagrams and replies of a latency thread, in every place they can  *)
(* be.                                                                     *)
AtNo(k) == Cardinality(AtServer(k))
Waits(k) == mpc[k] = "recv" /\ k \notin bereft
OneEach(k) == up[k] + AtNo(k) + down[k] + inbox[k] = IF Waits(k) THEN 1 ELSE 0

(* A thread that has lost a datagram waits, and nothing of it is left.     *)
SampleInv == \A k \in LatencyThreads : OneEach(k) /\ (k \in bereft => mpc[k] = "recv")

LEMMA RequestsFinite == IsFiniteSet(Requests)
<1>1. IsFiniteSet(Sockets) /\ IsFiniteSet(1 .. MaxRequests)
  BY SocketsAssumption, FS_Interval DEF Sockets
<1> QED BY <1>1, FS_Product DEF Requests

LEMMA AtServerFinite == \A k : IsFiniteSet(AtServer(k)) /\ AtNo(k) \in Nat
<1> TAKE k
<1>1. AtServer(k) \in SUBSET Requests
  BY DEF AtServer
<1>2. IsFiniteSet(AtServer(k))
  BY <1>1, RequestsFinite, FS_Subset
<1> QED BY <1>2, FS_CardinalityType DEF AtNo

(* A thread has one request more at the server when it arrives, and one    *)
(* less when it is answered or given up.                                   *)
LEMMA AtServerSteps ==
  ASSUME NetworkOK, NEW r \in Requests, NEW s \in ClientSockets
  PROVE  /\ from[r] = Nobody /\ from' = [from EXCEPT ![r] = s] =>
              \A k \in ClientSockets : AtNo(k)' = IF k = s THEN AtNo(k) + 1 ELSE AtNo(k)
         /\ from[r] = s /\ from' = [from EXCEPT ![r] = Nobody] =>
              \A k \in ClientSockets : AtNo(k)' = IF k = s THEN AtNo(k) - 1 ELSE AtNo(k)
         /\ UNCHANGED from => \A k \in ClientSockets : AtNo(k)' = AtNo(k)
<1>0. from \in [Requests -> ClientSockets \cup {Nobody}] /\ Nobody \notin ClientSockets
  BY SocketsAre DEF NetworkOK
<1>1. ASSUME from[r] = Nobody, from' = [from EXCEPT ![r] = s], NEW k \in ClientSockets
      PROVE  AtNo(k)' = IF k = s THEN AtNo(k) + 1 ELSE AtNo(k)
  <2>1. AtServer(k)' = IF k = s THEN AtServer(k) \cup {r} ELSE AtServer(k)
    BY <1>0, <1>1 DEF AtServer
  <2>2. r \notin AtServer(k)
    BY <1>0, <1>1 DEF AtServer
  <2> QED BY <2>1, <2>2, AtServerFinite, FS_AddElement DEF AtNo
<1>2. ASSUME from[r] = s, from' = [from EXCEPT ![r] = Nobody], NEW k \in ClientSockets
      PROVE  AtNo(k)' = IF k = s THEN AtNo(k) - 1 ELSE AtNo(k)
  <2>1. AtServer(k)' = IF k = s THEN AtServer(k) \ {r} ELSE AtServer(k)
    BY <1>0, <1>2 DEF AtServer
  <2>2. k = s => r \in AtServer(k)
    BY <1>2 DEF AtServer
  <2> QED BY <2>1, <2>2, AtServerFinite, FS_RemoveElement DEF AtNo
<1>3. ASSUME UNCHANGED from, NEW k \in ClientSockets PROVE AtNo(k)' = AtNo(k)
  BY <1>3 DEF AtServer, AtNo
<1> QED BY <1>1, <1>2, <1>3

(* A count that is at least one, of four that add up to one or none.       *)
LEMMA AtLeastOne ==
  ASSUME NEW a \in Nat, NEW b \in Nat, NEW c \in Nat, NEW d \in Nat, NEW w \in BOOLEAN,
         a + b + c + d = (IF w THEN 1 ELSE 0), a > 0 \/ b > 0 \/ c > 0 \/ d > 0
  PROVE  /\ w /\ a + b + c + d = 1
         /\ a > 0 => a - 1 + b + c + d = 0
         /\ b > 0 => a + (b - 1) + c + d = 0
         /\ c > 0 => a + b + (c - 1) + d = 0
         /\ d > 0 => a + b + c + (d - 1) = 0
OBVIOUS

LEMMA OneMore ==
  ASSUME NEW a \in Nat, NEW b \in Nat, NEW c \in Nat, NEW d \in Nat, a + b + c + d = 0
  PROVE  (a + 1) + b + c + d = 1
OBVIOUS

LEMMA NextSampleInv == TypeInv /\ TypeInv' /\ SampleInv /\ [Next]_vars => SampleInv'
<1> SUFFICES ASSUME TypeInv, TypeInv', SampleInv, [Next]_vars, NEW k \in LatencyThreads
             PROVE  OneEach(k)' /\ (k \in bereft' => mpc'[k] = "recv")
  BY DEF SampleInv
<1>0. /\ ServerInv /\ ServerInv' /\ ClientOK /\ ClientOK' /\ NetworkOK /\ NetworkOK' /\ FromIs
      /\ k \in ClientSockets /\ k \notin 1 .. NumConns /\ bereft \subseteq LatencyThreads
      /\ up[k] \in Nat /\ down[k] \in Nat /\ inbox[k] \in Nat /\ AtNo(k) \in Nat
      /\ OneEach(k) /\ (k \in bereft => mpc[k] = "recv")
      /\ mpc \in [LatencyThreads -> {"none", "send", "recv", "done"}]
  BY SocketsAre, AtServerFinite DEF TypeInv, ClientOK, NetworkOK, SampleInv
<1> DEFINE Same == /\ up'[k] = up[k] /\ down'[k] = down[k] /\ inbox'[k] = inbox[k]
                   /\ (mpc'[k] = "recv" <=> mpc[k] = "recv") /\ (k \in bereft' <=> k \in bereft)
<1>1. ASSUME Same, AtNo(k)' = AtNo(k) PROVE OneEach(k)' /\ (k \in bereft' => mpc'[k] = "recv")
  BY <1>0, <1>1 DEF OneEach, Waits
<1>2. UNCHANGED from => AtNo(k)' = AtNo(k)
  BY DEF AtNo, AtServer
<1>3. CASE MainActs
  <2>1. UNCHANGED <<inbox, network>> /\ (mpc'[k] = "recv" <=> mpc[k] = "recv")
    BY <1>0, <1>3 DEF MainActs, Main, CreateLoad, ClearFlag, CreateLatency, Join, latency, mailbox
  <2> QED BY <1>1, <1>2, <2>1 DEF network
<1>4. ASSUME NEW t \in LoadThreads, LoadThread(t)
      PROVE  OneEach(k)' /\ (k \in bereft' => mpc'[k] = "recv")
  <2>1. CASE SendRequest(t) /\ up' = [up EXCEPT ![ConnOf(t, send_conn_id[t])] = @ + 1]
    <3>1. ConnOf(t, send_conn_id[t]) # k
      BY <1>0, ConnIs DEF ClientOK
    <3> QED BY <1>0, <1>1, <1>2, <1>4, <2>1, <3>1
            DEF LoadThread, SendRequest, LoadActs, latency, mailbox, network, NetworkOK
  <2>2. CASE LoadActs(t) /\ UNCHANGED network
    <3>1. UNCHANGED mpc /\ inbox'[k] = inbox[k]
      <4>1. CASE ReceiveReply(t)
        <5>1. PICK s \in events[t] : inbox' = [inbox EXCEPT ![s] = @ - 1]
          BY <4>1 DEF ReceiveReply
        <5>2. events[t] \subseteq 1 .. NumConns
          BY <1>0 DEF ClientOK
        <5>3. s # k
          BY <1>0, <5>2
        <5> QED BY <1>0, <4>1, <5>1, <5>3 DEF ReceiveReply, latency, ClientOK
      <4> QED BY <2>2, <4>1 DEF LoadActs, PassBarrier, Due, Poll, LoadEnds, latency, mailbox
    <3> QED BY <1>1, <1>2, <2>2, <3>1 DEF network
  <2> QED BY <1>4, <2>1, <2>2 DEF LoadThread
<1>5. ASSUME NEW j \in LatencyThreads, LatencyThread(j)
      PROVE  OneEach(k)' /\ (k \in bereft' => mpc'[k] = "recv")
  <2>0. UNCHANGED <<from, down, bereft>> /\ AtNo(k)' = AtNo(k)
    BY <1>2, <1>5 DEF LatencyThread, network
  <2>1. CASE j # k
    <3>1. Same
      BY <1>0, <1>5, <2>0, <2>1
         DEF LatencyThread, LatencySends, LatencyReceives, LatencyEnds, mailbox, network,
             ClientOK, NetworkOK
    <3> QED BY <1>1, <2>0, <3>1
  <2>2. CASE j = k /\ LatencySends(k) /\ up' = [up EXCEPT ![k] = @ + 1]
    <3>1. mpc[k] = "send" /\ mpc'[k] = "recv" /\ up'[k] = up[k] + 1 /\ UNCHANGED inbox
      BY <1>0, <2>2 DEF LatencySends, mailbox, NetworkOK
    <3>2. k \notin bereft /\ up[k] + AtNo(k) + down[k] + inbox[k] = 0
      BY <1>0, <3>1 DEF OneEach, Waits
    <3>3. up'[k] + AtNo(k)' + down'[k] + inbox'[k] = 1
      <4>1. /\ up'[k] = up[k] + 1 /\ AtNo(k)' = AtNo(k)
            /\ down'[k] = down[k] /\ inbox'[k] = inbox[k]
        BY <2>0, <3>1
      <4>2. up[k] \in Nat /\ AtNo(k) \in Nat /\ down[k] \in Nat /\ inbox[k] \in Nat
        BY <1>0
      <4>3. (up[k] + 1) + AtNo(k) + down[k] + inbox[k] = 1
        BY <3>2, <4>2, OneMore
      <4> QED BY <4>1, <4>3
    <3>4. Waits(k)' /\ k \notin bereft'
      BY <2>0, <3>1, <3>2 DEF Waits
    <3> QED BY <3>3, <3>4 DEF OneEach
  <2>3. CASE j = k /\ LatencyReceives(k) /\ UNCHANGED network
    <3>1. /\ mpc[k] = "recv" /\ mpc'[k] = "send" /\ inbox[k] > 0 /\ inbox'[k] = inbox[k] - 1
          /\ UNCHANGED up
      BY <1>0, <2>3 DEF LatencyReceives, network, ClientOK
    <3>2. k \notin bereft /\ up[k] + AtNo(k) + down[k] + inbox[k] = 1
      BY <1>0, <3>1 DEF OneEach, Waits
    <3> QED BY <1>0, <2>0, <3>1, <3>2 DEF OneEach, Waits
  <2>4. CASE j = k /\ LatencyEnds(k) /\ UNCHANGED network
    BY <1>0, <1>1, <2>0, <2>4 DEF LatencyEnds, mailbox, network
  <2> QED BY <1>5, <2>1, <2>2, <2>3, <2>4 DEF LatencyThread
<1>6. CASE Server
  <2>0. UNCHANGED <<mpc, inbox, up>>
    BY <1>6 DEF Server, ServerListens, ServerReplies, ServerFails, client, latency, mailbox, network
  <2>1. CASE ServerListens
    BY <1>1, <1>2, <2>0, <2>1 DEF ServerListens, network
  <2>2. CASE ServerReplies \/ ServerFails
    <3>1. request \in Requests /\ from[request] \in ClientSockets
      <4>1. pc = "send" /\ (SendReply \/ SendFails)
        BY <2>2 DEF ServerReplies, ServerFails, SendReply, SendFails
      <4>2. request \in Requests /\ request \in Waiting
        BY <1>0, <4>1, WaitingSteps DEF ServerInv, ServerOK
      <4> QED BY <1>0, <4>2 DEF FromIs
    <3> DEFINE s == from[request]
    <3>2. AtNo(k)' = IF k = s THEN AtNo(k) - 1 ELSE AtNo(k)
      BY <1>0, <2>2, <3>1, AtServerSteps DEF ServerReplies, ServerFails
    <3>3. CASE k # s
      <4>1. Same
        BY <1>0, <2>0, <2>2, <3>1, <3>3 DEF ServerReplies, ServerFails, NetworkOK
      <4> QED BY <1>1, <3>2, <3>3, <4>1
    <3>4. CASE k = s
      <4>1. AtNo(k) > 0
        <5>1. request \in AtServer(k)
          BY <3>1, <3>4 DEF AtServer
        <5>2. Cardinality(AtServer(k)) # 0
          BY <5>1, AtServerFinite, FS_EmptySet
        <5> QED BY <1>0, <5>2 DEF AtNo
      <4>2. Waits(k) /\ up[k] + AtNo(k) + down[k] + inbox[k] = 1
        BY <1>0, <4>1, AtLeastOne DEF OneEach, Waits
      <4>3. \/ down'[k] = down[k] + 1 /\ bereft' = bereft
            \/ down' = down /\ k \in bereft'
        BY <1>0, <2>2, <3>1, <3>4 DEF ServerReplies, ServerFails, NetworkOK
      <4> QED BY <1>0, <2>0, <3>2, <3>4, <4>2, <4>3 DEF OneEach, Waits
    <3> QED BY <3>3, <3>4
  <2> QED BY <1>6, <2>1, <2>2 DEF Server
<1>7. ASSUME NEW s \in ClientSockets, RequestArrives(s)
      PROVE  OneEach(k)' /\ (k \in bereft' => mpc'[k] = "recv")
  <2> DEFINE r == <<PortOf(s), arrived[PortOf(s)] + 1>>
  <2>1. /\ Arrive(PortOf(s)) /\ from' = [from EXCEPT ![r] = s]
        /\ up' = [up EXCEPT ![s] = @ - 1] /\ up[s] > 0
        /\ UNCHANGED <<server, down, bereft, mpc, inbox>>
    BY <1>7 DEF RequestArrives, client, latency, mailbox
  <2>2. r \in Requests \ Waiting
    BY <1>0, <2>1, SocketsAre, WaitingSteps
  <2>3. from[r] = Nobody
    BY <1>0, <2>2 DEF FromIs
  <2> HIDE DEF r
  <2>4. AtNo(k)' = IF k = s THEN AtNo(k) + 1 ELSE AtNo(k)
    BY <1>0, <2>1, <2>2, <2>3, AtServerSteps
  <2>5. CASE k # s
    BY <1>0, <1>1, <2>1, <2>4, <2>5 DEF NetworkOK
  <2>6. CASE k = s
    <3>1. up'[k] = up[k] - 1
      BY <1>0, <2>1, <2>6 DEF NetworkOK
    <3> QED BY <1>0, <2>1, <2>4, <2>6, <3>1 DEF OneEach, Waits
  <2> QED BY <2>5, <2>6
<1>8. ASSUME NEW s \in ClientSockets, ReplyArrives(s)
      PROVE  OneEach(k)' /\ (k \in bereft' => mpc'[k] = "recv")
  <2>1. /\ down' = [down EXCEPT ![s] = @ - 1] /\ down[s] > 0
        /\ inbox' = [inbox EXCEPT ![s] = @ + 1]
        /\ UNCHANGED <<up, from, bereft, mpc>>
    BY <1>8 DEF ReplyArrives, Comes, latency
  <2>2. CASE k # s
    BY <1>0, <1>1, <1>2, <2>1, <2>2 DEF NetworkOK, ClientOK
  <2>3. CASE k = s
    <3>1. down'[k] = down[k] - 1 /\ inbox'[k] = inbox[k] + 1
      BY <1>0, <2>1, <2>3 DEF NetworkOK, ClientOK
    <3> QED BY <1>0, <1>2, <2>1, <3>1 DEF OneEach, Waits
  <2> QED BY <2>2, <2>3
<1>9. ASSUME NEW s \in ClientSockets, Lose(s)
      PROVE  OneEach(k)' /\ (k \in bereft' => mpc'[k] = "recv")
  <2>1. /\ \/ up[s] > 0 /\ up' = [up EXCEPT ![s] = @ - 1] /\ UNCHANGED down
           \/ down[s] > 0 /\ down' = [down EXCEPT ![s] = @ - 1] /\ UNCHANGED up
        /\ bereft' = bereft \cup ({s} \cap LatencyThreads)
        /\ UNCHANGED <<inbox, from, mpc>>
    BY <1>9 DEF Lose, client, latency, mailbox
  <2>2. CASE k # s
    BY <1>0, <1>1, <1>2, <2>1, <2>2 DEF NetworkOK
  <2>3. CASE k = s
    <3>1. /\ up[k] > 0 \/ down[k] > 0
          /\ \/ up[k] > 0 /\ up'[k] = up[k] - 1 /\ down'[k] = down[k]
             \/ down[k] > 0 /\ down'[k] = down[k] - 1 /\ up'[k] = up[k]
      BY <1>0, <2>1, <2>3 DEF NetworkOK
    <3>2. Waits(k) /\ up[k] + AtNo(k) + down[k] + inbox[k] = 1
      BY <1>0, <3>1, AtLeastOne DEF OneEach, Waits
    <3>3. k \in bereft'
      BY <2>1, <2>3
    <3> QED BY <1>0, <1>2, <2>1, <3>1, <3>2, <3>3 DEF OneEach, Waits
  <2> QED BY <2>2, <2>3
<1>10. CASE UNCHANGED vars
  BY <1>1, <1>2, <1>10 DEF vars, client, latency, mailbox, network
<1> QED BY <1>3, <1>4, <1>5, <1>6, <1>7, <1>8, <1>9, <1>10 DEF Next

LEMMA InitSampleInv == Init => SampleInv
<1> SUFFICES ASSUME Init, NEW k \in LatencyThreads PROVE OneEach(k) /\ k \notin bereft
  BY DEF SampleInv
<1>1. AtServer(k) = {}
  BY SocketsAre DEF Init, AtServer, Nobody
<1>2. AtNo(k) = 0
  BY <1>1, FS_EmptySet DEF AtNo
<1>3. up[k] = 0 /\ down[k] = 0 /\ inbox[k] = 0 /\ mpc[k] = "none" /\ bereft = {}
  BY SocketsAre DEF Init, InitClient
<1> QED BY <1>2, <1>3 DEF OneEach, Waits

LEMMA SampleInvHolds == Spec => []SampleInv
BY InitSampleInv, NextSampleInv, TypeInvHolds, PTL DEF Spec

(* Each sample of a latency thread is the time of its own request.         *)
THEOREM SamplesAreOwn == Spec => []SamplesOwn
<1>1. SampleInv => SamplesOwn
  BY DEF SampleInv, OneEach, Waits, AtNo, SamplesOwn
<1> QED BY <1>1, SampleInvHolds, PTL
-----------------------------------------------------------------------------
(* The requests in the shared socket come from different latency threads,  *)
(* and the one in hand from yet another.                                   *)
QueueInv ==
  /\ Len(sock[CL]) \in Nat /\ Len(sock[CL]) <= num_threads_closedloop
  /\ pc = "send" /\ cur = CL => Len(sock[CL]) < num_threads_closedloop

LEMMA ThreadsCount ==
  IsFiniteSet(LatencyThreads) /\ Cardinality(LatencyThreads) = num_threads_closedloop
<1> DEFINE a == NumConns + 1
           b == NumConns + num_threads_closedloop
<1>1. a \in Int /\ b \in Int /\ ~(a > b) /\ b - a + 1 = num_threads_closedloop
  BY SocketsAre
<1>2. LatencyThreads = a .. b
  BY SocketsAre
<1> HIDE DEF a, b
<1> QED BY <1>1, <1>2, FS_Interval

LEMMA IntervalCount ==
  ASSUME NEW n \in Nat PROVE IsFiniteSet(1 .. n) /\ Cardinality(1 .. n) = n
BY FS_Interval

LEMMA QueueOfThreads == ASSUME TypeInv, SampleInv PROVE QueueInv
<1> DEFINE n == Len(sock[CL])
           mine == IF pc = "send" /\ cur = CL THEN {from[request]} ELSE {}
           H == [i \in 1 .. n |-> from[sock[CL][i]]]
<1>0. /\ ServerInv /\ ServerOK /\ SocketsOK /\ Ordered /\ FromIs /\ n \in Nat /\ CL \in Sockets
      /\ NetworkOK
  BY SocketsAre, LenInNat DEF TypeInv, ServerInv, ServerOK
<1>1. ASSUME NEW r \in Waiting, r[1] = CL
      PROVE  r \in Requests /\ from[r] \in LatencyThreads /\ r \in AtServer(from[r])
  <2>1. r \in Requests
    <3>1. CASE r \in InSockets
      BY <1>0, <3>1 DEF SocketsOK, InSockets
    <3>2. CASE pc = "send" /\ r = request
      BY <1>0, <3>2 DEF ServerOK
    <3> QED BY <3>1, <3>2 DEF Waiting
  <2>2. from[r] \in ClientSockets /\ PortOf(from[r]) = CL
    BY <1>0, <1>1, <2>1 DEF FromIs
  <2> QED BY <2>1, <2>2, SocketsAre DEF AtServer
<1>2. ASSUME NEW r \in Requests, NEW q \in Requests, from[r] = from[q], from[r] \in LatencyThreads
      PROVE  r = q
  <2> DEFINE k == from[r]
  <2>1. AtNo(k) <= 1
    <3>1. /\ up[k] \in Nat /\ AtNo(k) \in Nat /\ down[k] \in Nat /\ inbox[k] \in Nat
          /\ up[k] + AtNo(k) + down[k] + inbox[k] \in {0, 1}
      BY <1>0, <1>2, SocketsAre, AtServerFinite
         DEF TypeInv, ClientOK, NetworkOK, SampleInv, OneEach
    <3> HIDE DEF k
    <3> QED BY <3>1
  <2>2. r \in AtServer(k) /\ q \in AtServer(k)
    BY <1>2 DEF AtServer
  <2>3. Cardinality(AtServer(k)) = 0 \/ Cardinality(AtServer(k)) = 1
    BY <2>1, AtServerFinite DEF AtNo
  <2>4. AtServer(k) = {} \/ \E x : AtServer(k) = {x}
    BY <2>3, AtServerFinite, FS_EmptySet, FS_Singleton
  <2> QED BY <2>2, <2>4
<1>3. ASSUME NEW i \in 1 .. n
      PROVE  /\ sock[CL][i] = <<CL, Gone(CL) + i>> /\ sock[CL][i] \in Waiting
             /\ sock[CL][i] \in Requests /\ from[sock[CL][i]] \in LatencyThreads
  <2>1. sock[CL][i] = <<CL, Gone(CL) + i>>
    BY <1>0 DEF Ordered
  <2>2. sock[CL][i] \in Waiting
    BY <1>0 DEF Waiting, InSockets
  <2> QED BY <1>1, <2>1, <2>2
<1>4. Gone(CL) \in Nat
  BY <1>0, GoneType
<1>5. pc = "send" /\ cur = CL => /\ request \in Waiting /\ request[1] = CL
                                /\ request = <<CL, Gone(CL)>>
  BY <1>0 DEF ServerInv, Waiting
<1>6. H \in [1 .. n -> LatencyThreads \ mine]
  <2>1. ASSUME NEW i \in 1 .. n PROVE H[i] \in LatencyThreads \ mine
    <3>1. CASE pc = "send" /\ cur = CL
      <4>1. request # sock[CL][i]
        BY <1>3, <1>4, <1>5, <3>1
      <4>2. request \in Requests /\ from[request] \in LatencyThreads
        BY <1>1, <1>5, <3>1
      <4> QED BY <1>2, <1>3, <4>1, <4>2
    <3> QED BY <1>3, <3>1
  <2> HIDE DEF mine
  <2> QED BY <2>1
<1>7. ASSUME NEW i \in 1 .. n, NEW j \in 1 .. n, H[i] = H[j] PROVE i = j
  <2>1. sock[CL][i] = sock[CL][j]
    BY <1>2, <1>3, <1>7
  <2>2. Gone(CL) + i = Gone(CL) + j
    BY <1>3, <2>1
  <2> QED BY <1>4, <2>2
<1>8. /\ IsFiniteSet(LatencyThreads) /\ Cardinality(LatencyThreads) = num_threads_closedloop
      /\ IsFiniteSet(1 .. n) /\ Cardinality(1 .. n) = n
  BY <1>0, ThreadsCount, IntervalCount
<1>9. /\ IsFiniteSet(LatencyThreads \ mine) /\ Cardinality(LatencyThreads \ mine) \in Nat
      /\ Cardinality(LatencyThreads \ mine)
           = IF pc = "send" /\ cur = CL THEN num_threads_closedloop - 1
             ELSE num_threads_closedloop
  <2>1. CASE pc = "send" /\ cur = CL
    BY <1>1, <1>5, <1>8, <2>1, FS_RemoveElement, FS_CardinalityType
  <2>2. CASE ~(pc = "send" /\ cur = CL)
    <3>1. LatencyThreads \ mine = LatencyThreads
      BY <2>2
    <3> QED BY <1>8, <2>2, <3>1, FS_CardinalityType
  <2> QED BY <2>1, <2>2
<1>10. n <= Cardinality(LatencyThreads \ mine)
  <2> HIDE DEF mine, H, n
  <2>1. SUFFICES ASSUME Cardinality(LatencyThreads \ mine) < Cardinality(1 .. n) PROVE FALSE
    BY <1>0, <1>8, <1>9
  <2>2. \E i, j \in 1 .. n : i # j /\ H[i] = H[j]
    BY <1>6, <1>8, <1>9, <2>1, FS_PigeonHole
  <2> QED BY <1>7, <2>2
<1> HIDE DEF mine, H
<1> QED BY <1>0, <1>9, <1>10 DEF QueueInv

(* An arrival arms the socket, and the edge is forgotten only when the     *)
(* socket is in todo, where it stays until one request is read.            *)
LEMMA NextSharedSocket ==
  ASSUME TypeInv, TypeInv', QueueInv, QueueInv', SharedSocketLeaves, [Next]_vars
  PROVE  SharedSocketLeaves'
<1>0. /\ ServerInv /\ ServerOK /\ SocketsOK /\ Ordered /\ CL \in Sockets /\ cur \in Sockets
      /\ armed \in [Sockets -> BOOLEAN] /\ ServerStep
  BY SocketsAre, StepOfServer DEF TypeInv, ServerInv, ServerOK, SocketsOK
<1>1. CL \in ToBeRead <=> sock[CL] # << >> /\ (armed[CL] \/ (CL \in todo /\ ~(pc = "send" /\ cur = CL)))
  BY <1>0 DEF ToBeRead
<1>2. (CL \in ToBeRead)' <=> sock'[CL] # << >>
                             /\ (armed'[CL] \/ (CL \in todo' /\ ~(pc' = "send" /\ cur' = CL)))
  BY <1>0 DEF ToBeRead
<1>3. UNCHANGED sock => Len(sock'[CL]) = Len(sock[CL])
  OBVIOUS
<1>4. CASE EpollWait
  BY <1>0, <1>1, <1>2, <1>3, <1>4 DEF EpollWait, Readable, ServerOK, SharedSocketLeaves
<1>5. CASE Receive
  <2>1. CASE cur = CL
    <3>1. pc' = "send" /\ cur' = CL
      BY <1>5, <2>1 DEF Receive
    <3> QED BY <3>1 DEF QueueInv, SharedSocketLeaves
  <2>2. CASE cur # CL
    <3>1. sock'[CL] = sock[CL]
      BY <1>0, <1>5, <2>2, TakeOrdered DEF Receive
    <3> QED BY <1>1, <1>2, <1>5, <2>2, <3>1 DEF Receive, SharedSocketLeaves
  <2> QED BY <2>1, <2>2
<1>6. CASE SendReply \/ SendFails
  <2>1. pc = "send" /\ NextEvent /\ UNCHANGED <<sock, armed>>
    BY <1>6 DEF SendReply, SendFails, kernel
  <2>2. todo' = todo \ {cur} /\ pc' # "send"
    BY <1>0, <2>1, NextEventIs
  <2>3. CASE cur = CL
    BY <2>1, <2>3, <1>3 DEF QueueInv, SharedSocketLeaves
  <2>4. CASE cur # CL
    BY <1>1, <1>2, <1>3, <2>1, <2>2, <2>4 DEF SharedSocketLeaves
  <2> QED BY <2>3, <2>4
<1>7. CASE \E g \in Sockets : Arrive(g) /\ UNCHANGED server
  <2>1. PICK g \in Sockets : Arrive(g) /\ UNCHANGED server
    BY <1>7
  <2>2. /\ \A f \in Sockets : f # g => sock'[f] = sock[f]
        /\ Len(sock'[g]) = Len(sock[g]) + 1 /\ Len(sock[g]) \in Nat
    BY <1>0, <2>1, ArriveOrdered
  <2>3. armed' = [armed EXCEPT ![g] = TRUE] /\ UNCHANGED <<pc, todo, cur>>
    BY <2>1 DEF Arrive, server
  <2>4. CASE g = CL
    <3>1. sock'[CL] # << >>
      BY <2>2, <2>4
    <3> QED BY <1>0, <1>2, <2>3, <2>4, <3>1 DEF SharedSocketLeaves
  <2>5. CASE g # CL
    BY <1>0, <1>1, <1>2, <2>2, <2>3, <2>5 DEF SharedSocketLeaves
  <2> QED BY <2>4, <2>5
<1>8. CASE UNCHANGED <<kernel, server>>
  BY <1>1, <1>2, <1>3, <1>8 DEF kernel, server, SharedSocketLeaves
<1> QED BY <1>0, <1>4, <1>5, <1>6, <1>7, <1>8 DEF ServerStep

LEMMA InitSharedSocket == Init => SharedSocketLeaves
<1> SUFFICES ASSUME Init PROVE Len(sock[CL]) < num_threads_closedloop
  BY DEF SharedSocketLeaves
<1>1. sock[CL] = << >>
  BY SocketsAre DEF Init, InitServer, InitSockets
<1> QED BY <1>1

(* The shared socket is left with fewer requests than there are latency    *)
(* threads: not all of them can be waiting for what nobody will read.      *)
THEOREM SharedSocketIsRead == Spec => []SharedSocketLeaves
BY InitSharedSocket, NextSharedSocket, QueueOfThreads, TypeInvHolds, SampleInvHolds, PTL DEF Spec
-----------------------------------------------------------------------------
(* The flag is cleared before the first latency thread is there, so that   *)
(* it stays when one of them has set it.                                   *)
DoneInv ==
  /\ main \in {"load", "clear"} => \A k \in LatencyThreads : mpc[k] = "none"
  /\ \A k \in LatencyThreads : mpc[k] = "done" => closed_loop_done

LEMMA NextDoneInv == TypeInv /\ DoneInv /\ [Next]_vars => DoneInv'
<1> SUFFICES ASSUME TypeInv, DoneInv, [Next]_vars PROVE DoneInv'
  OBVIOUS
<1>0. mpc \in [LatencyThreads -> {"none", "send", "recv", "done"}]
  BY DEF TypeInv, ClientOK
<1>1. CASE UNCHANGED <<main, mpc, closed_loop_done>>
  BY <1>1 DEF DoneInv
<1>2. CASE MainActs
  <2>1. CASE CreateLoad \/ ClearFlag \/ Join
    BY <2>1 DEF CreateLoad, ClearFlag, Join, latency, DoneInv
  <2>2. CASE CreateLatency
    <3>1. UNCHANGED closed_loop_done /\ main' \notin {"load", "clear"}
      BY <2>2 DEF CreateLatency
    <3>2. \A k \in LatencyThreads : mpc'[k] = "done" => mpc[k] = "done"
      BY <1>0, <2>2 DEF CreateLatency
    <3> QED BY <3>1, <3>2 DEF DoneInv
  <2> QED BY <1>2, <2>1, <2>2 DEF MainActs, Main
<1>3. ASSUME NEW t \in LoadThreads, LoadThread(t) PROVE DoneInv'
  BY <1>1, <1>3 DEF LoadThread, SendRequest, LoadActs, PassBarrier, Due, Poll, ReceiveReply,
                    LoadEnds, control, latency
<1>4. ASSUME NEW k \in LatencyThreads, LatencyThread(k) PROVE DoneInv'
  <2>1. UNCHANGED main /\ mpc[k] # "none"
    BY <1>4 DEF LatencyThread, LatencySends, LatencyReceives, LatencyEnds, control
  <2>2. main \notin {"load", "clear"}
    BY <2>1 DEF DoneInv
  <2>3. CASE LatencySends(k) \/ LatencyReceives(k)
    <3>1. /\ UNCHANGED closed_loop_done
          /\ \A j \in LatencyThreads : mpc'[j] = "done" => mpc[j] = "done"
      BY <1>0, <2>3 DEF LatencySends, LatencyReceives, control
    <3> QED BY <2>1, <2>2, <3>1 DEF DoneInv
  <2>4. CASE LatencyEnds(k)
    BY <2>1, <2>2, <2>4 DEF LatencyEnds, DoneInv
  <2> QED BY <1>4, <2>3, <2>4 DEF LatencyThread
<1>5. CASE Server
  BY <1>1, <1>5 DEF Server, ServerListens, ServerReplies, ServerFails, client, control, latency
<1>6. ASSUME NEW s \in ClientSockets, RequestArrives(s) \/ ReplyArrives(s) \/ Lose(s) PROVE DoneInv'
  BY <1>1, <1>6 DEF RequestArrives, ReplyArrives, Lose, Comes, client, control, latency
<1>7. CASE UNCHANGED vars
  BY <1>1, <1>7 DEF vars, client, control, latency
<1> QED BY <1>2, <1>3, <1>4, <1>5, <1>6, <1>7 DEF Next

LEMMA InitDoneInv == Init => DoneInv
BY DEF Init, InitClient, DoneInv

(* When all latency threads wait and nothing is on the way, the requests   *)
(* of all of them are in the shared socket.                                *)
LEMMA AllInQueue ==
  ASSUME TypeInv, SampleInv, ~(pc = "send" /\ cur = CL),
         \A k \in LatencyThreads :
           Waits(k) /\ up[k] = 0 /\ down[k] = 0 /\ inbox[k] = 0
  PROVE  num_threads_closedloop <= Len(sock[CL])
<1> DEFINE n == Len(sock[CL])
           G == [k \in LatencyThreads |-> CHOOSE i \in 1 .. n : from[sock[CL][i]] = k]
<1>0. /\ ServerInv /\ ServerOK /\ SocketsOK /\ Ordered /\ FromIs /\ n \in Nat /\ CL \in Sockets
  BY SocketsAre, LenInNat DEF TypeInv, ServerInv, ServerOK
<1>1. ASSUME NEW k \in LatencyThreads PROVE \E i \in 1 .. n : from[sock[CL][i]] = k
  <2>1. AtServer(k) # {}
    <3>1. AtNo(k) = 1
      <4>1. AtNo(k) \in Nat /\ 0 + AtNo(k) + 0 + 0 = 1
        BY AtServerFinite DEF SampleInv, OneEach
      <4> QED BY <4>1
    <3> QED BY <3>1, FS_EmptySet DEF AtNo
  <2>2. PICK r \in Requests : from[r] = k
    BY <2>1 DEF AtServer
  <2>3. r \in Waiting /\ r[1] = CL
    BY <1>0, <2>2, SocketsAre DEF FromIs
  <2>4. r \in InSockets
    BY <1>0, <2>3 DEF Waiting, ServerOK
  <2>5. PICK f \in Sockets : \E i \in 1 .. Len(sock[f]) : r = sock[f][i]
    BY <2>4 DEF InSockets
  <2>6. f = CL
    BY <1>0, <2>3, <2>5 DEF Ordered
  <2> QED BY <2>2, <2>5, <2>6
<1>2. G \in [LatencyThreads -> 1 .. n] /\ \A k \in LatencyThreads : from[sock[CL][G[k]]] = k
  BY <1>1
<1>3. /\ IsFiniteSet(LatencyThreads) /\ Cardinality(LatencyThreads) = num_threads_closedloop
      /\ IsFiniteSet(1 .. n) /\ Cardinality(1 .. n) = n
  BY <1>0, ThreadsCount, IntervalCount
<1> HIDE DEF G, n
<1>4. SUFFICES ASSUME Cardinality(1 .. n) < Cardinality(LatencyThreads) PROVE FALSE
  BY <1>0, <1>3 DEF n
<1> DEFINE I == 1 .. n
<1>5. /\ G \in [LatencyThreads -> I] /\ IsFiniteSet(LatencyThreads) /\ IsFiniteSet(I)
      /\ Cardinality(I) < Cardinality(LatencyThreads)
  BY <1>2, <1>3, <1>4
<1> HIDE DEF I
<1>6. \E j, k \in LatencyThreads : j # k /\ G[j] = G[k]
  BY <1>5, FS_PigeonHole
<1> QED BY <1>2, <1>6

(* If nothing is lost, the run can come to a stop only after a latency     *)
(* thread has taken all its samples, so that the load ends.                *)
THEOREM StallsAreLate == Spec => []StallsLate
<1>1. TypeInv /\ SampleInv /\ SharedSocketLeaves /\ DoneInv => StallsLate
  <2> SUFFICES ASSUME TypeInv, SampleInv, SharedSocketLeaves, DoneInv,
                      Stalled, bereft = {}, ~closed_loop_done
               PROVE  FALSE
    BY DEF StallsLate
  <2>1. \A k \in LatencyThreads : Waits(k) /\ up[k] = 0 /\ down[k] = 0 /\ inbox[k] = 0
    BY DEF Stalled, DoneInv, Waits
  <2>2. CL \notin ToBeRead /\ ~(pc = "send" /\ cur = CL)
    BY DEF Stalled
  <2>3. num_threads_closedloop <= Len(sock[CL]) /\ Len(sock[CL]) < num_threads_closedloop
    BY <2>1, <2>2, AllInQueue DEF SharedSocketLeaves
  <2> QED BY <2>3, QueueOfThreads DEF QueueInv
<1> QED BY <1>1, InitDoneInv, NextDoneInv, TypeInvHolds, SampleInvHolds, SharedSocketIsRead, PTL
        DEF Spec
=============================================================================

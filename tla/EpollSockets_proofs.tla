------------------------ MODULE EpollSockets_proofs ------------------------
(***************************************************************************)
(* Lemmas about the receive buffers of a server's sockets, for the proofs  *)
(* about the servers.                                                      *)
(***************************************************************************)
EXTENDS EpollSockets, FiniteSetTheorems, TLAPS

(* Appending to and taking from a sequence of requests gives one.          *)
LEMMA SeqSteps ==
  ASSUME NEW S, NEW s \in Seq(S), NEW x \in S
  PROVE  /\ Append(s, x) \in Seq(S) /\ Append(s, x) # << >>
         /\ s # << >> => Tail(s) \in Seq(S) /\ Head(s) \in S
OBVIOUS

(* A buffer after an arrival and after a receive.                          *)
LEMMA QueueSteps ==
  ASSUME NEW S, NEW s \in Seq(S), NEW x \in S
  PROVE  /\ Len(s) \in Nat
         /\ Len(Append(s, x)) = Len(s) + 1
         /\ Append(s, x)[Len(s) + 1] = x
         /\ \A k \in 1 .. Len(s) : Append(s, x)[k] = s[k]
         /\ s # << >> => /\ Len(s) > 0
                         /\ Head(s) = s[1]
                         /\ Len(Tail(s)) = Len(s) - 1
                         /\ \A k \in 1 .. Len(s) - 1 : Tail(s)[k] = s[k + 1]
OBVIOUS

(* Counting up one element of a function to Nat.                           *)
LEMMA CountUp ==
  ASSUME NEW S, NEW g \in [S -> Nat], NEW r
  PROVE  [g EXCEPT ![r] = @ + 1] \in [S -> Nat]
<1> DEFINE h == [g EXCEPT ![r] = @ + 1]
<1>1. ASSUME NEW x \in S PROVE h[x] \in Nat
  <2>1. CASE x = r
    <3>1. h[x] = g[x] + 1
      BY <2>1
    <3> QED BY <3>1
  <2>2. CASE x # r
    BY <2>2
  <2> QED BY <2>1, <2>2
<1>2. h = [x \in S |-> h[x]]
  OBVIOUS
<1> QED BY <1>1, <1>2

LEMMA SocketsInNat == NumSockets \in Sockets /\ 1 \in Sockets
BY SocketsAssumption DEF Sockets

LEMMA LenInNat == ASSUME SocketsOK PROVE \A f \in Sockets : Len(sock[f]) \in Nat
BY DEF SocketsOK

LEMMA InitSocketsOK == InitSockets => SocketsOK
BY SocketsAssumption DEF InitSockets, SocketsOK
-----------------------------------------------------------------------------
(* Requests of socket f that have left its receive buffer.                 *)
Gone(f) == arrived[f] - Len(sock[f])

(* The receive buffers hold the requests that came last, in order.         *)
Ordered ==
  \A f \in Sockets :
    /\ Len(sock[f]) <= arrived[f]
    /\ \A k \in 1 .. Len(sock[f]) : sock[f][k] = <<f, Gone(f) + k>>

LEMMA InitOrdered == InitSockets => Ordered
BY DEF InitSockets, Ordered, Gone

(* Gone counts, and no more than has arrived.                              *)
LEMMA GoneType ==
  ASSUME SocketsOK, Ordered
  PROVE  \A f \in Sockets : /\ arrived[f] \in Nat /\ arrived[f] <= MaxRequests
                            /\ Gone(f) \in Nat /\ Gone(f) <= arrived[f]
<1>1. /\ arrived \in [Sockets -> 0 .. MaxRequests] /\ MaxRequests \in Nat
      /\ \A f \in Sockets : Len(sock[f]) \in Nat
  BY LenInNat, SocketsAssumption DEF SocketsOK
<1>2. \A f \in Sockets : arrived[f] \in Nat /\ arrived[f] <= MaxRequests
  BY <1>1
<1> QED BY <1>1, <1>2 DEF Ordered, Gone

(* A receive takes the request that follows those that are gone.           *)
LEMMA TakeOrdered ==
  ASSUME SocketsOK, Ordered, NEW c \in Sockets, sock[c] # << >>,
         TakeFirst(c), UNCHANGED arrived
  PROVE  /\ Ordered' /\ sock' \in [Sockets -> Seq(Requests)]
         /\ Head(sock[c]) = <<c, Gone(c) + 1>> /\ Head(sock[c]) \in Requests
         /\ Gone(c)' = Gone(c) + 1 /\ Gone(c) + 1 <= arrived[c]
         /\ \A f \in Sockets : f # c => Gone(f)' = Gone(f) /\ sock'[f] = sock[f]
         /\ Head(sock[c]) = sock[c][1]
         /\ Len(sock[c]) \in Nat /\ Len(sock[c]) > 0 /\ Len(sock'[c]) = Len(sock[c]) - 1
         /\ \A k \in 1 .. Len(sock'[c]) : k + 1 \in 1 .. Len(sock[c])
                                          /\ sock'[c][k] = sock[c][k + 1]
<1> DEFINE s == sock[c]
<1>1. s \in Seq(Requests) /\ s # << >>
  BY DEF SocketsOK
<1>2. /\ Len(s) \in Nat /\ Len(s) > 0 /\ Head(s) = s[1]
      /\ Len(Tail(s)) = Len(s) - 1
      /\ \A k \in 1 .. Len(s) - 1 : Tail(s)[k] = s[k + 1]
      /\ Head(s) \in Requests /\ Tail(s) \in Seq(Requests)
  BY <1>1, QueueSteps, SeqSteps
<1> HIDE DEF s
<1>3. /\ sock' = [sock EXCEPT ![c] = Tail(s)] /\ sock'[c] = Tail(s)
      /\ \A f \in Sockets : f # c => sock'[f] = sock[f]
      /\ UNCHANGED arrived
      /\ sock' \in [Sockets -> Seq(Requests)]
  BY <1>2 DEF TakeFirst, SocketsOK, s
<1>4. /\ \A f \in Sockets : arrived[f] \in Nat /\ Len(sock[f]) \in Nat /\ Gone(f) \in Nat
  BY LenInNat, GoneType
<1>5. /\ Len(s) <= arrived[c] /\ Gone(c) = arrived[c] - Len(s)
      /\ \A k \in 1 .. Len(s) : s[k] = <<c, Gone(c) + k>>
  BY DEF Ordered, s, Gone
<1>6. Gone(c)' = Gone(c) + 1 /\ Gone(c) + 1 <= arrived[c]
  BY <1>2, <1>3, <1>4, <1>5 DEF Gone
<1>7. \A f \in Sockets : f # c => Gone(f)' = Gone(f)
  BY <1>3 DEF Gone
<1>8. ASSUME NEW k \in 1 .. Len(sock'[c])
      PROVE  /\ k + 1 \in 1 .. Len(s) /\ sock'[c][k] = s[k + 1]
             /\ s[k + 1] = <<c, Gone(c) + 1 + k>>
  <2>1. k + 1 \in 1 .. Len(s) /\ sock'[c][k] = s[k + 1]
    BY <1>2, <1>3
  <2>2. Gone(c) + (k + 1) = Gone(c) + 1 + k
    BY <1>4
  <2> QED BY <1>5, <2>1, <2>2
<1>9. ASSUME NEW f \in Sockets
      PROVE  /\ Len(sock'[f]) <= arrived'[f]
             /\ \A k \in 1 .. Len(sock'[f]) : sock'[f][k] = <<f, Gone(f)' + k>>
  <2>1. CASE f = c
    BY <1>2, <1>3, <1>4, <1>5, <1>6, <1>8, <2>1
  <2>2. CASE f # c
    BY <1>3, <1>7, <2>2 DEF Ordered
  <2> QED BY <2>1, <2>2
<1>10. Ordered'
  BY <1>9 DEF Ordered
<1>11. Head(s) = <<c, Gone(c) + 1>>
  BY <1>2, <1>5
<1> QED BY <1>2, <1>3, <1>6, <1>7, <1>8, <1>10, <1>11 DEF s

(* An arrival is the next request of its socket, behind the others.        *)
LEMMA ArriveOrdered ==
  ASSUME SocketsOK, Ordered, NEW g \in Sockets, Arrive(g)
  PROVE  /\ Ordered' /\ SocketsOK'
         /\ <<g, arrived[g] + 1>> \in Requests
         /\ \A f \in Sockets : Gone(f)' = Gone(f)
         /\ \A f \in Sockets : f # g => arrived'[f] = arrived[f] /\ sock'[f] = sock[f]
         /\ arrived'[g] = arrived[g] + 1 /\ arrived'[g] <= MaxRequests
         /\ Len(sock[g]) \in Nat /\ Len(sock'[g]) = Len(sock[g]) + 1
         /\ sock'[g][Len(sock[g]) + 1] = <<g, arrived[g] + 1>>
         /\ \A k \in 1 .. Len(sock[g]) : sock'[g][k] = sock[g][k]
<1> DEFINE s == sock[g]
           x == <<g, arrived[g] + 1>>
<1>1. /\ arrived \in [Sockets -> 0 .. MaxRequests] /\ MaxRequests \in Nat
      /\ arrived[g] < MaxRequests /\ arrived' = [arrived EXCEPT ![g] = @ + 1]
      /\ \A f \in Sockets : Len(sock[f]) \in Nat
  BY LenInNat, SocketsAssumption DEF Arrive, SocketsOK
<1>2. /\ arrived'[g] = arrived[g] + 1 /\ arrived[g] \in Nat /\ arrived'[g] <= MaxRequests
      /\ arrived' \in [Sockets -> 0 .. MaxRequests]
  BY <1>1
<1>3. s \in Seq(Requests) /\ x \in Requests
  BY <1>1, <1>2 DEF SocketsOK, Requests
<1>4. /\ Len(s) \in Nat /\ Len(Append(s, x)) = Len(s) + 1
      /\ Append(s, x)[Len(s) + 1] = x
      /\ \A k \in 1 .. Len(s) : Append(s, x)[k] = s[k]
      /\ Append(s, x) \in Seq(Requests)
  BY <1>3, QueueSteps, SeqSteps
<1>5. /\ sock' = [sock EXCEPT ![g] = Append(s, x)] /\ sock'[g] = Append(s, x)
      /\ \A f \in Sockets : f # g => sock'[f] = sock[f] /\ arrived'[f] = arrived[f]
      /\ armed' = [armed EXCEPT ![g] = TRUE] /\ UNCHANGED replies
  BY <1>2 DEF Arrive, SocketsOK
<1>6. /\ Len(s) <= arrived[g] /\ Gone(g) = arrived[g] - Len(s)
      /\ \A k \in 1 .. Len(s) : s[k] = <<g, Gone(g) + k>>
  BY DEF Ordered, Gone
<1>7. SocketsOK'
  <2>1. sock \in [Sockets -> Seq(Requests)]
    BY DEF SocketsOK
  <2> HIDE DEF s, x
  <2>2. sock' \in [Sockets -> Seq(Requests)]
    BY <1>4, <1>5, <2>1
  <2> QED BY <1>2, <1>5, <2>2 DEF SocketsOK
<1> HIDE DEF s, x
<1>8. Gone(g)' = Gone(g) /\ Gone(g) + (Len(s) + 1) = arrived[g] + 1
  BY <1>2, <1>4, <1>5, <1>6 DEF Gone
<1>9. \A f \in Sockets : Gone(f)' = Gone(f)
  BY <1>5, <1>8 DEF Gone
<1>10. ASSUME NEW f \in Sockets
       PROVE  /\ Len(sock'[f]) <= arrived'[f]
              /\ \A k \in 1 .. Len(sock'[f]) : sock'[f][k] = <<f, Gone(f) + k>>
  <2>1. CASE f = g
    <3>1. Len(sock'[f]) <= arrived'[f]
      BY <1>2, <1>4, <1>5, <1>6, <2>1
    <3>2. ASSUME NEW k \in 1 .. Len(s) + 1
          PROVE  Append(s, x)[k] = <<g, Gone(g) + k>>
      <4>1. CASE k \in 1 .. Len(s)
        BY <4>1, <1>4, <1>6
      <4>2. CASE k = Len(s) + 1
        BY <4>2, <1>4, <1>8 DEF x
      <4> QED BY <4>1, <4>2, <1>4
    <3> QED BY <1>4, <1>5, <2>1, <3>1, <3>2
  <2>2. CASE f # g
    BY <1>5, <2>2 DEF Ordered
  <2> QED BY <2>1, <2>2
<1>11. Ordered'
  BY <1>9, <1>10 DEF Ordered
<1> QED BY <1>2, <1>3, <1>4, <1>5, <1>7, <1>9, <1>11 DEF s, x
-----------------------------------------------------------------------------
Held == {r \in Requests : Gone(r[1]) < r[2] /\ r[2] <= arrived[r[1]]}

(* A request is in a receive buffer iff it has come and has not gone.      *)
LEMMA InSocketsIs == SocketsOK /\ Ordered => InSockets = Held
<1> SUFFICES ASSUME SocketsOK, Ordered PROVE InSockets = Held
  OBVIOUS
<1> DEFINE held(r) == Gone(r[1]) < r[2] /\ r[2] <= arrived[r[1]]
<1>1. /\ arrived \in [Sockets -> 0 .. MaxRequests] /\ MaxRequests \in Nat
      /\ \A f \in Sockets : Len(sock[f]) \in Nat /\ Gone(f) \in Nat
      /\ sock \in [Sockets -> Seq(Requests)]
  BY LenInNat, GoneType, SocketsAssumption DEF SocketsOK
<1>2. ASSUME NEW r \in InSockets PROVE r \in Requests /\ held(r)
  <2>1. PICK f \in Sockets : \E k \in 1 .. Len(sock[f]) : r = sock[f][k]
    BY DEF InSockets
  <2>2. PICK k \in 1 .. Len(sock[f]) : r = sock[f][k]
    BY <2>1
  <2>3. r = <<f, Gone(f) + k>>
    BY <2>2 DEF Ordered
  <2>4. Gone(f) < Gone(f) + k /\ Gone(f) + k <= arrived[f] /\ Gone(f) + k \in 1 .. MaxRequests
    BY <1>1, <2>2 DEF Gone
  <2> QED BY <2>3, <2>4 DEF Requests
<1>3. ASSUME NEW r \in Requests, held(r) PROVE r \in InSockets
  <2>1. PICK f \in Sockets, n \in 1 .. MaxRequests : r = <<f, n>>
    BY DEF Requests
  <2>2. Gone(f) < n /\ n <= arrived[f]
    BY <1>3, <2>1
  <2> DEFINE k == n - Gone(f)
  <2>3. k \in 1 .. Len(sock[f]) /\ Gone(f) + k = n
    BY <1>1, <2>2 DEF Gone
  <2> HIDE DEF k
  <2>4. sock[f][k] = r
    BY <2>1, <2>3 DEF Ordered
  <2> QED BY <2>3, <2>4 DEF InSockets
<1> QED BY <1>2, <1>3 DEF Held

LEMMA InSocketsIsNext == SocketsOK' /\ Ordered' => InSockets' = Held'
<1> DEFINE Equal == InSockets = Held
<1>1. SocketsOK /\ Ordered => Equal
  BY InSocketsIs
<1> HIDE DEF Equal
<1>2. (SocketsOK /\ Ordered => Equal)'
  BY <1>1, PTL
<1> QED BY <1>2 DEF Equal

(* A receive takes one request out of the buffers.                         *)
LEMMA TakeInSockets ==
  ASSUME SocketsOK, Ordered, SocketsOK', NEW c \in Sockets, sock[c] # << >>,
         TakeFirst(c), UNCHANGED arrived
  PROVE  InSockets = InSockets' \cup {Head(sock[c])}
<1>1. /\ Ordered'
      /\ Head(sock[c]) = <<c, Gone(c) + 1>> /\ Head(sock[c]) \in Requests
      /\ Gone(c)' = Gone(c) + 1 /\ Gone(c) + 1 <= arrived[c]
      /\ \A f \in Sockets : f # c => Gone(f)' = Gone(f)
  BY TakeOrdered
<1>2. /\ \A f \in Sockets : arrived[f] \in Nat /\ Gone(f) \in Nat
      /\ UNCHANGED arrived
  BY GoneType
<1>3. InSockets = Held /\ InSockets' = Held'
  BY <1>1, InSocketsIs, InSocketsIsNext
<1>4. ASSUME NEW r \in Requests
      PROVE  r \in Held <=> r \in Held' \/ r = Head(sock[c])
  <2>1. PICK f \in Sockets, n \in 1 .. MaxRequests : r = <<f, n>>
    BY DEF Requests
  <2>2. r \in Held <=> Gone(f) < n /\ n <= arrived[f]
    BY <2>1 DEF Held
  <2>3. r \in Held' <=> Gone(f)' < n /\ n <= arrived[f]
    BY <1>2, <2>1 DEF Held
  <2>4. r = Head(sock[c]) <=> f = c /\ n = Gone(c) + 1
    BY <1>1, <2>1
  <2>5. CASE f = c
    BY <1>1, <1>2, <2>2, <2>3, <2>4, <2>5
  <2>6. CASE f # c
    BY <1>1, <2>2, <2>3, <2>4, <2>6
  <2> QED BY <2>5, <2>6
<1>5. Held \subseteq Requests /\ Held' \subseteq Requests
  BY DEF Held
<1> QED BY <1>1, <1>3, <1>4, <1>5

(* An arrival brings one that was not there.                               *)
LEMMA ArriveInSockets ==
  ASSUME SocketsOK, Ordered, NEW g \in Sockets, Arrive(g)
  PROVE  /\ <<g, arrived[g] + 1>> \notin InSockets
         /\ InSockets' = InSockets \cup {<<g, arrived[g] + 1>>}
<1> DEFINE r == <<g, arrived[g] + 1>>
<1>1. /\ Ordered' /\ SocketsOK' /\ r \in Requests
      /\ \A f \in Sockets : Gone(f)' = Gone(f)
      /\ \A f \in Sockets : f # g => arrived'[f] = arrived[f]
      /\ arrived'[g] = arrived[g] + 1
  BY ArriveOrdered
<1>2. \A f \in Sockets : arrived[f] \in Nat /\ Gone(f) \in Nat /\ Gone(f) <= arrived[f]
  BY GoneType
<1>3. InSockets = Held /\ InSockets' = Held'
  BY <1>1, InSocketsIs, InSocketsIsNext
<1>4. ASSUME NEW q \in Requests PROVE q \in Held' <=> q \in Held \/ q = r
  <2>1. PICK f \in Sockets, n \in 1 .. MaxRequests : q = <<f, n>>
    BY DEF Requests
  <2>2. q \in Held <=> Gone(f) < n /\ n <= arrived[f]
    BY <2>1 DEF Held
  <2>3. q \in Held' <=> Gone(f) < n /\ n <= arrived'[f]
    BY <1>1, <2>1 DEF Held
  <2>4. q = r <=> f = g /\ n = arrived[g] + 1
    BY <2>1
  <2>5. CASE f = g
    BY <1>1, <1>2, <2>2, <2>3, <2>4, <2>5
  <2>6. CASE f # g
    BY <1>1, <2>2, <2>3, <2>4, <2>6
  <2> QED BY <2>5, <2>6
<1>5. Held \subseteq Requests /\ Held' \subseteq Requests
  BY DEF Held
<1>6. r \notin Held
  BY <1>2 DEF Held
<1> QED BY <1>1, <1>3, <1>4, <1>5, <1>6

(* What is gone is in no buffer.                                           *)
LEMMA GoneNotHeld ==
  ASSUME SocketsOK, Ordered, NEW c \in Sockets
  PROVE  <<c, Gone(c)>> \notin InSockets
<1>1. InSockets = Held /\ Gone(c) \in Nat
  BY InSocketsIs, GoneType
<1> QED BY <1>1 DEF Held
=============================================================================

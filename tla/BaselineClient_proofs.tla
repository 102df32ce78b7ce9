------------------------ MODULE BaselineClient_proofs ------------------------
(***************************************************************************)
(* Theorems about the baseline client, for every number of threads,        *)
(* connections and requests, and every length of a second.                 *)
(***************************************************************************)
EXTENDS BaselineClient, TLAPS

USE SleepAssumption, BaselineAssumption

(* Products, which the SMT solver does not look into.                      *)
LEMMA ProductMonotone ==
  ASSUME NEW a \in Nat, NEW b \in Nat, NEW c \in Nat, a <= b
  PROVE  a * c <= b * c /\ a * c \in Nat
OBVIOUS

LEMMA ProductStep ==
  ASSUME NEW a \in Int, NEW c \in Int
  PROVE  (a + 1) * c = a * c + c /\ a * c \in Int
OBVIOUS

(* Connection c of thread t is a connection.                               *)
LEMMA ConnIsConn ==
  ASSUME NEW t \in Threads, NEW c \in 1 .. conn_perthread
  PROVE  ConnOf(t, c) \in Conns
<1> DEFINE a == t - 1
           b == num_threads_openloop - 1
<1>1. a \in Nat /\ b \in Nat /\ a <= b /\ conn_perthread \in Nat
  BY DEF Threads
<1>2. a * conn_perthread <= b * conn_perthread /\ a * conn_perthread \in Nat
  BY <1>1, ProductMonotone
<1>3. (b + 1) * conn_perthread = b * conn_perthread + conn_perthread
      /\ b * conn_perthread \in Int
  BY <1>1, ProductStep
<1>4. b + 1 = num_threads_openloop
  OBVIOUS
<1>5. ConnOf(t, c) = a * conn_perthread + c
  BY DEF ConnOf
<1> HIDE DEF a, b
<1>6. num_threads_openloop * conn_perthread = b * conn_perthread + conn_perthread
  BY <1>3, <1>4
<1> QED BY <1>1, <1>2, <1>3, <1>5, <1>6 DEF Conns

LEMMA ConnsArePorts == Conns \subseteq Ports
BY DEF Ports

(* The clock only goes on, and by no more than MaxStep at a time.          *)
LEMMA AfterIs ==
  ASSUME NEW ts \in Timespec, NEW d \in 1 .. MaxStep
  PROVE  /\ After(ts, d) \in Timespec
         /\ \/ /\ After(ts, d).tv_sec = ts.tv_sec
               /\ After(ts, d).tv_nsec = ts.tv_nsec + d
            \/ /\ After(ts, d).tv_sec = ts.tv_sec + 1
               /\ After(ts, d).tv_nsec = ts.tv_nsec + d - Second
BY DEF After, Timespec

LEMMA InitType == Init => TypeOK
<1> SUFFICES ASSUME Init PROVE TypeOK
  OBVIOUS
<1>1. Midnight \in Timespec
  BY DEF Midnight, Timespec
<1>2. router_port \in Ports /\ port \in [Conns -> Ports]
  BY ConnsArePorts DEF Init, Ports
<1>3. wire \in [Conns -> [Ports -> Nat]] /\ inbox \in [Conns -> Seq(Ports)]
  BY DEF Init
<1>4. raced \in BOOLEAN
  BY Zenon DEF Init
<1> QED BY <1>1, <1>2, <1>3, <1>4 DEF Init, TypeOK

LEMMA MainType == ASSUME TypeOK, Main PROVE TypeOK'
<1> USE DEF TypeOK
<1>0. UNCHANGED <<is_direct_to_server, addresses, outside>>
  BY DEF Main, BeginSleep, ReadClock, Create
<1>1. CASE BeginSleep
  <2>1. now' \in Timespec
    BY <1>1 DEF BeginSleep, Timespec
  <2> QED BY <1>0, <1>1, <2>1 DEF BeginSleep, addresses, threads, outside
<1>2. CASE ReadClock
  <2>1. now' \in Timespec
    BY <1>2, AfterIs DEF ReadClock
  <2>2. accum' \in Int
    BY <1>2, <2>1 DEF ReadClock, Added, Timespec
  <2> QED BY <1>0, <1>2, <2>1, <2>2 DEF ReadClock, addresses, threads, outside
<1>3. CASE Create
  <2>1. Midnight \in Timespec
    BY DEF Midnight, Timespec
  <2>2. mpc' \in {"create", "join"} /\ \E t \in Threads : pc' = [pc EXCEPT ![t] = "barrier"]
    BY <1>3 DEF Create
  <2> QED BY <1>0, <1>3, <2>1, <2>2 DEF Create, addresses, outside
<1> QED BY <1>1, <1>2, <1>3 DEF Main

(* What is received or sent keeps the types of sockets and network.        *)
LEMMA SequenceSteps ==
  ASSUME NEW S, NEW s \in Seq(S), NEW x \in S
  PROVE  /\ Append(s, x) \in Seq(S) /\ Len(s) \in Nat
         /\ Len(Append(s, x)) = Len(s) + 1
         /\ Append(s, x)[Len(s) + 1] = x
         /\ \A k \in 1 .. Len(s) : Append(s, x)[k] = s[k] /\ s[k] \in S
         /\ s # << >> => /\ Head(s) = s[1] /\ Head(s) \in S /\ Len(s) > 0
                         /\ Tail(s) \in Seq(S) /\ Len(Tail(s)) = Len(s) - 1
                         /\ \A k \in 1 .. Len(s) - 1 : Tail(s)[k] = s[k + 1]
OBVIOUS

LEMMA ThreadType == ASSUME TypeOK, NEW t \in Threads, Thread(t) PROVE TypeOK'
<1> USE DEF TypeOK
<1>0. UNCHANGED <<sleeping, is_direct_to_server>> /\ Sender(t) \in Conns
  BY ConnIsConn DEF Thread, PassBarrier, Due, Route, SendTo, Poll, Receive, Drained, Finish, Sender
<1>1. CASE PassBarrier(t) \/ Due(t) \/ Finish(t)
  <2>1. /\ \E x \in {"loop", "send", "route", "done"} : pc' = [pc EXCEPT ![t] = x]
        /\ UNCHANGED <<addresses, send_conn_id, sent_req, completed_req, reported, outside>>
    BY <1>1 DEF PassBarrier, Due, Finish
  <2> QED BY <1>0, <2>1 DEF sleeping, addresses, outside
<1>2. CASE Route(t)
  BY <1>0, <1>2 DEF Route, sleeping, outside
<1>3. CASE SendTo(t)
  <2>1. Destination(t) \in Ports
    BY <1>0 DEF Destination
  <2>2. wire' \in [Conns -> [Ports -> Nat]]
    BY <1>0, <1>3, <2>1 DEF SendTo
  <2>3. send_conn_id[t] % conn_perthread \in 0 .. (conn_perthread - 1)
    OBVIOUS
  <2>4. send_conn_id' \in [Threads -> 1 .. conn_perthread] /\ sent_req' \in [Threads -> Nat]
    BY <1>3, <2>3 DEF SendTo
  <2> QED BY <1>0, <1>3, <2>2, <2>4 DEF SendTo, sleeping, addresses
<1>4. CASE Poll(t)
  <2>1. Reported(t) \subseteq Conns
    BY ConnIsConn DEF Reported, ConnList
  <2> QED BY <1>0, <1>4, <2>1 DEF Poll, sleeping, addresses
<1>5. CASE Receive(t)
  <2>1. PICK s \in reported[t] :
          /\ inbox[s] # << >>
          /\ inbox' = [inbox EXCEPT ![s] = Tail(@)]
          /\ port' = [port EXCEPT ![s] = Head(inbox[s])]
    BY <1>5 DEF Receive
  <2>2. s \in Conns /\ inbox[s] \in Seq(Ports)
    OBVIOUS
  <2>3. Tail(inbox[s]) \in Seq(Ports) /\ Head(inbox[s]) \in Ports
    BY <2>1, <2>2, SequenceSteps
  <2>4. inbox' \in [Conns -> Seq(Ports)] /\ port' \in [Conns -> Ports]
    BY <2>1, <2>2, <2>3
  <2>5. /\ completed_req' = [completed_req EXCEPT ![t] = @ + 1]
        /\ UNCHANGED <<router_port, raced, pc, send_conn_id, sent_req, reported, edge,
                       wire, lost>>
    BY ONLY <1>5 DEF Receive
  <2>6. completed_req' \in [Threads -> Nat]
    BY <2>5
  <2> QED BY <1>0, <2>4, <2>5, <2>6 DEF sleeping
<1>6. CASE Drained(t)
  <2>1. /\ \E s \in reported[t] : reported' = [reported EXCEPT ![t] = @ \ {s}]
        /\ \E x \in {"loop", "recv"} : pc' = [pc EXCEPT ![t] = x]
        /\ UNCHANGED <<addresses, send_conn_id, sent_req, completed_req, outside>>
    BY <1>6 DEF Drained
  <2> QED BY <1>0, <2>1 DEF sleeping, addresses, outside
<1> QED BY <1>1, <1>2, <1>3, <1>4, <1>5, <1>6 DEF Thread

LEMMA OutsideType ==
  ASSUME TypeOK, NEW s \in Conns, NEW p \in Ports, Reply(s, p) \/ Lose(s, p)
  PROVE  TypeOK'
<1> USE DEF TypeOK
<1>1. wire[s][p] \in Nat /\ wire[s][p] > 0 /\ wire' = [wire EXCEPT ![s][p] = @ - 1]
  BY DEF Reply, Lose
<1>2. wire' \in [Conns -> [Ports -> Nat]]
  BY <1>1
<1>3. CASE Reply(s, p)
  <2>1. Append(inbox[s], p) \in Seq(Ports)
    BY SequenceSteps
  <2>2. inbox' \in [Conns -> Seq(Ports)] /\ edge' \in [Conns -> BOOLEAN]
    BY <1>3, <2>1 DEF Reply
  <2> QED BY <1>2, <1>3, <2>2 DEF Reply, sleeping, addresses, threads
<1>4. CASE Lose(s, p)
  BY <1>2, <1>4 DEF Lose, sleeping, addresses, threads
<1> QED BY <1>3, <1>4

LEMMA NextType == TypeOK /\ [Next]_vars => TypeOK'
<1> SUFFICES ASSUME TypeOK, [Next]_vars PROVE TypeOK'
  OBVIOUS
<1>1. CASE UNCHANGED vars
  BY <1>1 DEF TypeOK, vars, sleeping, addresses, threads, outside
<1> QED BY <1>1, MainType, ThreadType, OutsideType DEF Next

(* Every variable keeps its type.                                          *)
THEOREM TypeCorrect == Spec => []TypeOK
BY InitType, NextType, PTL DEF Spec
-----------------------------------------------------------------------------
(* What adds up is the time gone by, less what was lost at the ends of     *)
(* seconds.                                                                *)
SleepInv ==
  /\ mpc = "sleep" => ts1 = now
  /\ start.tv_sec <= now.tv_sec
  /\ SleepLongEnough

(* The time from start to now, when now has become later by d.             *)
LEMMA ElapsedStep ==
  ASSUME TypeOK, NEW d \in 1 .. MaxStep, now' = After(now, d), start' = start
  PROVE  /\ Elapsed' = Elapsed + d /\ Elapsed \in Int
         /\ \/ now'.tv_sec = now.tv_sec
            \/ /\ now'.tv_sec = now.tv_sec + 1
               /\ (now'.tv_sec - start.tv_sec) * MaxStep
                    = (now.tv_sec - start.tv_sec) * MaxStep + MaxStep
<1> DEFINE n == now.tv_sec - start.tv_sec
<1>1. now \in Timespec /\ start \in Timespec
  BY DEF TypeOK
<1>2. n \in Int
  BY <1>1 DEF Timespec
<1>3. /\ (n + 1) * Second = n * Second + Second /\ n * Second \in Int
      /\ (n + 1) * MaxStep = n * MaxStep + MaxStep
  BY <1>2, ProductStep
<1>4. /\ now' \in Timespec
      /\ \/ now'.tv_sec = now.tv_sec /\ now'.tv_nsec = now.tv_nsec + d
         \/ now'.tv_sec = now.tv_sec + 1 /\ now'.tv_nsec = now.tv_nsec + d - Second
  BY <1>1, AfterIs
<1>5. Elapsed = n * Second + now.tv_nsec - start.tv_nsec
  BY DEF Elapsed
<1>6. Elapsed' = (now'.tv_sec - start.tv_sec) * Second + now'.tv_nsec - start.tv_nsec
  BY DEF Elapsed
<1>7. CASE now'.tv_sec = now.tv_sec /\ now'.tv_nsec = now.tv_nsec + d
  <2>1. Elapsed' = n * Second + (now.tv_nsec + d) - start.tv_nsec
    BY <1>6, <1>7
  <2> HIDE DEF n
  <2> QED BY <1>1, <1>3, <1>5, <1>7, <2>1 DEF Timespec
<1>8. CASE now'.tv_sec = now.tv_sec + 1 /\ now'.tv_nsec = now.tv_nsec + d - Second
  <2>1. now'.tv_sec - start.tv_sec = n + 1
    BY <1>1, <1>8 DEF Timespec
  <2>2. Elapsed' = (n + 1) * Second + (now.tv_nsec + d - Second) - start.tv_nsec
    BY <1>6, <1>8, <2>1
  <2>3. (now'.tv_sec - start.tv_sec) * MaxStep = n * MaxStep + MaxStep
    BY <1>3, <2>1
  <2>4. Elapsed' = Elapsed + d /\ Elapsed \in Int
    <3> HIDE DEF n
    <3> QED BY <1>1, <1>3, <1>5, <2>2 DEF Timespec
  <2> QED BY <1>8, <2>3, <2>4
<1> QED BY <1>4, <1>7, <1>8

LEMMA NoTimeYet ==
  ASSUME NEW n \in Nat
  PROVE  0 * n = 0
OBVIOUS

(* A sleep is never too short, and too long only by the steps on which a   *)
(* second ended.                                                           *)
THEOREM SleepsLongEnough == Spec => []SleepLongEnough
<1>1. ASSUME start = now, now \in Timespec, accum = 0, mpc = "sleep" => ts1 = now
      PROVE  SleepInv
  <2>1. now.tv_sec - start.tv_sec = 0 /\ now.tv_nsec - start.tv_nsec = 0
    BY <1>1 DEF Timespec
  <2>2. 0 * Second = 0 /\ 0 * MaxStep = 0
    BY NoTimeYet
  <2>3. Elapsed = 0 /\ (now.tv_sec - start.tv_sec) * MaxStep = 0
    BY <1>1, <2>1, <2>2 DEF Elapsed, Timespec
  <2> QED BY <1>1, <2>3 DEF SleepInv, SleepLongEnough, Timespec
<1>2. Init => SleepInv
  BY <1>1, InitType DEF Init, TypeOK
<1>3. TypeOK /\ SleepInv /\ [Next]_vars => SleepInv'
  <2> SUFFICES ASSUME TypeOK, SleepInv, [Next]_vars PROVE SleepInv'
    OBVIOUS
  <2>0. TypeOK'
    BY NextType
  <2>1. CASE ReadClock
    <3>1. PICK d \in 1 .. MaxStep : now' = After(now, d)
      BY <2>1 DEF ReadClock
    <3>2. /\ mpc = "sleep" /\ UNCHANGED <<mpc, start>> /\ ts1' = now'
          /\ accum' = accum + Added(now, now')
      BY <2>1 DEF ReadClock, SleepInv
    <3>3. /\ Elapsed' = Elapsed + d /\ Elapsed \in Int
          /\ \/ now'.tv_sec = now.tv_sec
             \/ /\ now'.tv_sec = now.tv_sec + 1
                /\ (now'.tv_sec - start.tv_sec) * MaxStep
                     = (now.tv_sec - start.tv_sec) * MaxStep + MaxStep
      BY <3>1, <3>2, ElapsedStep
    <3>4. now \in Timespec /\ start \in Timespec /\ accum \in Int /\ now' \in Timespec
      BY <2>0 DEF TypeOK
    <3>5. \/ now'.tv_sec = now.tv_sec /\ accum' = accum + d
          \/ now'.tv_sec = now.tv_sec + 1 /\ accum' = accum
      <4>1. CASE now'.tv_sec = now.tv_sec
        <5>1. now'.tv_nsec = now.tv_nsec + d
          BY <3>1, <3>4, <4>1, AfterIs DEF Timespec
        <5>2. Added(now, now') = d
          BY <3>4, <4>1, <5>1 DEF Added, Timespec
        <5> QED BY <3>2, <4>1, <5>2
      <4>2. CASE now'.tv_sec = now.tv_sec + 1
        BY <3>2, <3>4, <4>2 DEF Added, Timespec
      <4> QED BY <3>3, <4>1, <4>2
    <3>6. accum' <= Elapsed'
      BY <3>3, <3>4, <3>5 DEF SleepInv, SleepLongEnough
    <3>7. Elapsed' - accum' <= (now'.tv_sec - start.tv_sec) * MaxStep
      <4> DEFINE lost0 == (now.tv_sec - start.tv_sec) * MaxStep
                 lost1 == (now'.tv_sec - start.tv_sec) * MaxStep
      <4>1. lost0 \in Int /\ lost1 \in Int
        <5>1. now.tv_sec - start.tv_sec \in Int /\ now'.tv_sec - start.tv_sec \in Int
          BY <3>4 DEF Timespec
        <5> QED BY <5>1, ProductStep
      <4>2. Elapsed - accum <= lost0
        BY DEF SleepInv, SleepLongEnough
      <4>3. \/ accum' = accum + d /\ lost1 = lost0
            \/ accum' = accum /\ lost1 = lost0 + MaxStep
        BY <3>3, <3>4, <3>5 DEF Timespec
      <4> HIDE DEF lost0, lost1
      <4>4. Elapsed' - accum' <= lost1
        BY <3>3, <3>4, <4>1, <4>2, <4>3
      <4> QED BY <4>4 DEF lost1
    <3>8. start'.tv_sec <= now'.tv_sec
      BY <3>2, <3>3, <3>4 DEF SleepInv, Timespec
    <3> QED BY <3>2, <3>6, <3>7, <3>8 DEF SleepInv, SleepLongEnough
  <2>2. CASE BeginSleep \/ Create
    <3>1. start' = now' /\ now' \in Timespec /\ accum' = 0 /\ (mpc' = "sleep" => ts1' = now')
      BY <2>0, <2>2 DEF BeginSleep, Create, TypeOK
    <3>2. now'.tv_sec - start'.tv_sec = 0 /\ now'.tv_nsec - start'.tv_nsec = 0
      BY <3>1 DEF Timespec
    <3>3. 0 * Second = 0 /\ 0 * MaxStep = 0
      BY NoTimeYet
    <3>4. Elapsed' = 0 /\ (now'.tv_sec - start'.tv_sec) * MaxStep = 0
      BY <3>1, <3>2, <3>3 DEF Elapsed, Timespec
    <3> QED BY <3>1, <3>4 DEF SleepInv, SleepLongEnough, Timespec
  <2>3. CASE UNCHANGED sleeping
    BY <2>3 DEF sleeping, SleepInv, SleepLongEnough, Elapsed
  <2>4. ASSUME NEW t \in Threads, Thread(t) PROVE UNCHANGED sleeping
    BY <2>4 DEF Thread, PassBarrier, Due, Route, SendTo, Poll, Receive, Drained, Finish
  <2>5. ASSUME NEW s \in Conns, NEW p \in Ports, Reply(s, p) \/ Lose(s, p)
        PROVE  UNCHANGED sleeping
    BY <2>5 DEF Reply, Lose
  <2>6. UNCHANGED vars => UNCHANGED sleeping
    BY DEF vars
  <2> QED BY <2>1, <2>2, <2>3, <2>4, <2>5, <2>6 DEF Next, Main
<1>4. SleepInv => SleepLongEnough
  BY DEF SleepInv
<1> QED BY <1>2, <1>3, <1>4, TypeCorrect, PTL DEF Spec
-----------------------------------------------------------------------------
(* KnownPorts, and why it lasts: what a thread has written into the        *)
(* router's address is a connection's port by the time a thread sends to   *)
(* it, and the ports in the sockets are those that were sent to.           *)
Known(s, p) == p \in Conns /\ (is_direct_to_server => p = s)

PortInv ==
  /\ \A t \in Threads : /\ pc[t] = "route" => ~is_direct_to_server
                        /\ pc[t] = "send" /\ ~is_direct_to_server => router_port \in Conns
  /\ \A s \in Conns :
       /\ Known(s, port[s])
       /\ \A p \in Ports : wire[s][p] > 0 => Known(s, p)
       /\ \A k \in 1 .. Len(inbox[s]) : Known(s, inbox[s][k])

LEMMA NextPortInv == TypeOK /\ PortInv /\ [Next]_vars => PortInv'
<1> SUFFICES ASSUME TypeOK, PortInv, [Next]_vars PROVE PortInv'
  OBVIOUS
<1>0. UNCHANGED is_direct_to_server
  BY DEF Next, Main, BeginSleep, ReadClock, Create, Thread, PassBarrier, Due, Route, SendTo,
         Poll, Receive, Drained, Finish, Reply, Lose, vars
<1>1. ASSUME UNCHANGED <<addresses, inbox, wire>>,
             \A t \in Threads : pc'[t] \in {"route", "send"} => pc'[t] = pc[t]
      PROVE  PortInv'
  BY <1>0, <1>1 DEF PortInv, Known, addresses
<1>2. CASE Main
  <2>1. UNCHANGED <<addresses, inbox, wire>>
    BY <1>2 DEF Main, BeginSleep, ReadClock, Create, outside
  <2>2. \A t \in Threads : pc'[t] \in {"route", "send"} => pc'[t] = pc[t]
    BY <1>2 DEF Main, BeginSleep, ReadClock, Create, threads, TypeOK
  <2> QED BY <1>1, <2>1, <2>2
<1>3. ASSUME NEW t \in Threads, Thread(t) PROVE PortInv'
  <2>0. Sender(t) \in Conns
    BY ConnIsConn DEF Sender, TypeOK
  <2>1. CASE PassBarrier(t) \/ Poll(t) \/ Drained(t) \/ Finish(t)
    <3>1. UNCHANGED <<addresses, inbox, wire>>
      BY <2>1 DEF PassBarrier, Poll, Drained, Finish, outside
    <3>2. \E x \in {"loop", "recv", "done"} : pc' = [pc EXCEPT ![t] = x]
      BY <2>1 DEF PassBarrier, Poll, Drained, Finish
    <3> QED BY <1>1, <3>1, <3>2 DEF TypeOK
  <2>2. CASE Due(t)
    <3>1. /\ pc' = [pc EXCEPT ![t] = IF is_direct_to_server THEN "send" ELSE "route"]
          /\ UNCHANGED <<router_port, port, inbox, wire>>
      BY <2>2 DEF Due, addresses, outside
    <3> QED BY <1>0, <3>1 DEF PortInv, Known, TypeOK
  <2>3. CASE Route(t)
    <3>1. /\ pc[t] = "route" /\ pc' = [pc EXCEPT ![t] = "send"]
          /\ router_port' = port[Sender(t)]
          /\ UNCHANGED <<port, inbox, wire>>
      BY <2>3 DEF Route, outside
    <3>2. router_port' \in Conns
      BY <2>0, <3>1 DEF PortInv, Known
    <3> QED BY <1>0, <3>1, <3>2 DEF PortInv, Known, TypeOK
  <2>4. CASE SendTo(t)
    <3>1. /\ pc[t] = "send" /\ pc' = [pc EXCEPT ![t] = "loop"]
          /\ wire' = [wire EXCEPT ![Sender(t)][Destination(t)] = @ + 1]
          /\ UNCHANGED <<router_port, port, inbox>>
      BY <2>4 DEF SendTo, addresses
    <3>2. Known(Sender(t), Destination(t))
      BY <2>0, <3>1 DEF PortInv, Known, Destination
    <3>3. ASSUME NEW s \in Conns, NEW p \in Ports, wire'[s][p] > 0
          PROVE  Known(s, p)
      <4>1. CASE s = Sender(t) /\ p = Destination(t)
        BY <3>2, <4>1
      <4>2. CASE ~(s = Sender(t) /\ p = Destination(t))
        <5>1. wire'[s][p] = wire[s][p]
          BY <3>1, <4>2 DEF TypeOK
        <5> QED BY <3>3, <5>1 DEF PortInv
      <4> QED BY <4>1, <4>2
    <3> QED BY <1>0, <3>1, <3>3 DEF PortInv, Known, TypeOK
  <2>5. CASE Receive(t)
    <3>1. PICK s \in reported[t] :
            /\ inbox[s] # << >>
            /\ inbox' = [inbox EXCEPT ![s] = Tail(@)]
            /\ port' = [port EXCEPT ![s] = Head(inbox[s])]
            /\ UNCHANGED <<router_port, pc, wire>>
      BY <2>5 DEF Receive
    <3>2. s \in Conns /\ inbox[s] \in Seq(Ports)
      BY DEF TypeOK
    <3>3. /\ Head(inbox[s]) = inbox[s][1] /\ Len(inbox[s]) > 0 /\ Len(inbox[s]) \in Nat
          /\ Len(Tail(inbox[s])) = Len(inbox[s]) - 1
          /\ \A k \in 1 .. Len(inbox[s]) - 1 : Tail(inbox[s])[k] = inbox[s][k + 1]
      BY <3>1, <3>2, SequenceSteps
    <3>4. \A k \in 1 .. Len(inbox[s]) : Known(s, inbox[s][k])
      BY <3>2 DEF PortInv
    <3>5. Known(s, Head(inbox[s]))
      BY <3>3, <3>4
    <3>6. ASSUME NEW k \in 1 .. Len(inbox'[s]) PROVE Known(s, inbox'[s][k])
      <4>1. inbox'[s] = Tail(inbox[s])
        BY <3>1, <3>2 DEF TypeOK
      <4>2. k + 1 \in 1 .. Len(inbox[s]) /\ inbox'[s][k] = inbox[s][k + 1]
        BY <3>3, <4>1
      <4> QED BY <3>4, <4>2
    <3>7. \A r \in Conns : r # s => inbox'[r] = inbox[r] /\ port'[r] = port[r]
      BY <3>1 DEF TypeOK
    <3>8. port'[s] = Head(inbox[s])
      BY <3>1, <3>2 DEF TypeOK
    <3>9. ASSUME NEW r \in Conns
          PROVE  /\ Known(r, port'[r])
                 /\ \A k \in 1 .. Len(inbox'[r]) : Known(r, inbox'[r][k])
      BY <3>5, <3>6, <3>7, <3>8 DEF PortInv
    <3> QED BY <1>0, <3>1, <3>9 DEF PortInv, Known
  <2> QED BY <1>3, <2>1, <2>2, <2>3, <2>4, <2>5 DEF Thread
<1>4. ASSUME NEW s \in Conns, NEW p \in Ports, Reply(s, p) \/ Lose(s, p) PROVE PortInv'
  <2>1. /\ wire[s][p] > 0 /\ wire' = [wire EXCEPT ![s][p] = @ - 1]
        /\ inbox' = [inbox EXCEPT ![s] = Append(@, p)] \/ inbox' = inbox
        /\ UNCHANGED <<router_port, port, pc>>
    BY <1>4 DEF Reply, Lose, addresses, threads
  <2>2. ASSUME NEW r \in Conns, NEW q \in Ports, wire'[r][q] > 0 PROVE Known(r, q)
    <3>1. wire[r][q] > 0
      BY <2>1, <2>2 DEF TypeOK
    <3> QED BY <3>1 DEF PortInv
  <2>3. ASSUME NEW r \in Conns, NEW k \in 1 .. Len(inbox'[r]) PROVE Known(r, inbox'[r][k])
    <3>1. inbox[r] \in Seq(Ports)
      BY DEF TypeOK
    <3>2. Known(s, p)
      BY <2>1 DEF PortInv
    <3>3. CASE inbox'[r] = inbox[r]
      BY <2>3, <3>3 DEF PortInv
    <3>4. CASE r = s /\ inbox'[r] = Append(inbox[r], p)
      <4>1. /\ Len(inbox'[r]) = Len(inbox[r]) + 1 /\ Len(inbox[r]) \in Nat
            /\ inbox'[r][Len(inbox[r]) + 1] = p
            /\ \A i \in 1 .. Len(inbox[r]) : inbox'[r][i] = inbox[r][i]
        BY <3>1, <3>4, SequenceSteps
      <4>2. CASE k \in 1 .. Len(inbox[r])
        BY <4>1, <4>2 DEF PortInv
      <4>3. CASE k = Len(inbox[r]) + 1
        BY <3>2, <3>4, <4>1, <4>3
      <4> QED BY <2>3, <4>1, <4>2, <4>3
    <3> QED BY <2>1, <3>3, <3>4 DEF TypeOK
  <2> QED BY <1>0, <2>1, <2>2, <2>3 DEF PortInv, Known
<1>5. CASE UNCHANGED vars
  BY <1>1, <1>5 DEF vars, threads, outside
<1> QED BY <1>2, <1>3, <1>4, <1>5 DEF Next

(* A request only ever goes to the port of some connection, however the    *)
(* threads write over each other, and sent directly only to its own.       *)
THEOREM PortsAreKnown == Spec => []KnownPorts
<1>1. Init => PortInv
  <2> SUFFICES ASSUME Init PROVE PortInv
    OBVIOUS
  <2>1. \A s \in Conns : Len(inbox[s]) = 0 /\ \A p \in Ports : wire[s][p] = 0
    BY DEF Init
  <2> QED BY <2>1 DEF Init, PortInv, Known
<1>2. PortInv => KnownPorts
  BY DEF PortInv, Known, KnownPorts
<1> QED BY <1>1, <1>2, NextPortInv, TypeCorrect, PTL DEF Spec
-----------------------------------------------------------------------------
(* OwnPortsUntilRaced, and why it lasts: until there is a race only one    *)
(* thread at a time is between its write and its sendto, and what it has   *)
(* written is its connection's port.                                       *)
Own ==
  /\ \A t \in Threads : pc[t] = "send" /\ ~is_direct_to_server => router_port = Sender(t)
  /\ \A s \in Conns :
       /\ port[s] = s
       /\ \A p \in Ports : wire[s][p] > 0 => p = s
       /\ \A k \in 1 .. Len(inbox[s]) : inbox[s][k] = s

RaceInv ==
  /\ \A t \in Threads : pc[t] = "route" => ~is_direct_to_server
  /\ raced \/ Own

LEMMA NextRaceInv == TypeOK /\ RaceInv /\ [Next]_vars => RaceInv'
<1> SUFFICES ASSUME TypeOK, RaceInv, [Next]_vars PROVE RaceInv'
  OBVIOUS
<1>0. UNCHANGED is_direct_to_server
  BY DEF Next, Main, BeginSleep, ReadClock, Create, Thread, PassBarrier, Due, Route, SendTo,
         Poll, Receive, Drained, Finish, Reply, Lose, vars
<1>1. ASSUME UNCHANGED <<addresses, inbox, wire, send_conn_id>>,
             \A t \in Threads : pc'[t] \in {"route", "send"} => pc'[t] = pc[t]
      PROVE  RaceInv'
  BY <1>0, <1>1 DEF RaceInv, Own, addresses, Sender
<1>2. CASE Main
  <2>1. UNCHANGED <<addresses, inbox, wire, send_conn_id>>
    BY <1>2 DEF Main, BeginSleep, ReadClock, Create, outside, threads
  <2>2. \A t \in Threads : pc'[t] \in {"route", "send"} => pc'[t] = pc[t]
    BY <1>2 DEF Main, BeginSleep, ReadClock, Create, threads, TypeOK
  <2> QED BY <1>1, <2>1, <2>2
<1>3. ASSUME NEW t \in Threads, Thread(t) PROVE RaceInv'
  <2>0. Sender(t) \in Conns
    BY ConnIsConn DEF Sender, TypeOK
  <2>1. CASE PassBarrier(t) \/ Poll(t) \/ Drained(t) \/ Finish(t)
    <3>1. UNCHANGED <<addresses, inbox, wire, send_conn_id>>
      BY <2>1 DEF PassBarrier, Poll, Drained, Finish, outside
    <3>2. \E x \in {"loop", "recv", "done"} : pc' = [pc EXCEPT ![t] = x]
      BY <2>1 DEF PassBarrier, Poll, Drained, Finish
    <3> QED BY <1>1, <3>1, <3>2 DEF TypeOK
  <2>2. CASE Due(t)
    <3>1. /\ pc' = [pc EXCEPT ![t] = IF is_direct_to_server THEN "send" ELSE "route"]
          /\ UNCHANGED <<router_port, port, raced, inbox, wire, send_conn_id>>
      BY <2>2 DEF Due, addresses, outside
    <3> QED BY <1>0, <3>1 DEF RaceInv, Own, Sender, TypeOK
  <2>3. CASE Route(t)
    <3>1. /\ pc[t] = "route" /\ pc' = [pc EXCEPT ![t] = "send"]
          /\ router_port' = port[Sender(t)] /\ raced' = (raced \/ Races(t))
          /\ UNCHANGED <<port, inbox, wire, send_conn_id>>
      BY <2>3 DEF Route, outside
    <3>2. ASSUME ~raced' PROVE Own'
      <4>1. Own /\ router_port' = Sender(t)
        BY <2>0, <3>1, <3>2 DEF RaceInv, Own
      <4>2. \A u \in Threads : pc'[u] = "send" => u = t
        BY <3>1, <3>2 DEF Races, TypeOK
      <4> QED BY <3>1, <4>1, <4>2 DEF Own, Sender
    <3> QED BY <1>0, <3>1, <3>2 DEF RaceInv, TypeOK
  <2>4. CASE SendTo(t)
    <3>1. /\ pc[t] = "send" /\ pc' = [pc EXCEPT ![t] = "loop"]
          /\ wire' = [wire EXCEPT ![Sender(t)][Destination(t)] = @ + 1]
          /\ \A u \in Threads : u # t => send_conn_id'[u] = send_conn_id[u]
          /\ UNCHANGED <<router_port, port, raced, inbox>>
      BY <2>4 DEF SendTo, addresses, TypeOK
    <3>2. ASSUME ~raced' PROVE Own'
      <4>1. Own /\ Destination(t) = Sender(t)
        BY <2>0, <3>1, <3>2 DEF RaceInv, Own, Destination
      <4>2. ASSUME NEW s \in Conns, NEW p \in Ports, wire'[s][p] > 0
            PROVE  p = s
        <5>1. CASE s = Sender(t) /\ p = Destination(t)
          BY <4>1, <5>1
        <5>2. CASE ~(s = Sender(t) /\ p = Destination(t))
          <6>1. wire'[s][p] = wire[s][p]
            BY <3>1, <5>2 DEF TypeOK
          <6> QED BY <4>1, <4>2, <6>1 DEF Own
        <5> QED BY <5>1, <5>2
      <4>3. \A u \in Threads : pc'[u] = "send" => u # t /\ pc[u] = "send"
        BY <3>1 DEF TypeOK
      <4> QED BY <1>0, <3>1, <4>1, <4>2, <4>3 DEF Own, Sender
    <3> QED BY <1>0, <3>1, <3>2 DEF RaceInv, TypeOK
  <2>5. CASE Receive(t)
    <3>1. PICK s \in reported[t] :
            /\ inbox[s] # << >>
            /\ inbox' = [inbox EXCEPT ![s] = Tail(@)]
            /\ port' = [port EXCEPT ![s] = Head(inbox[s])]
            /\ UNCHANGED <<router_port, raced, pc, send_conn_id, wire>>
      BY <2>5 DEF Receive
    <3>2. s \in Conns /\ inbox[s] \in Seq(Ports)
      BY DEF TypeOK
    <3>3. /\ Head(inbox[s]) = inbox[s][1] /\ Len(inbox[s]) > 0 /\ Len(inbox[s]) \in Nat
          /\ Len(Tail(inbox[s])) = Len(inbox[s]) - 1
          /\ \A k \in 1 .. Len(inbox[s]) - 1 : Tail(inbox[s])[k] = inbox[s][k + 1]
      BY <3>1, <3>2, SequenceSteps
    <3>4. /\ inbox'[s] = Tail(inbox[s]) /\ port'[s] = Head(inbox[s])
          /\ \A r \in Conns : r # s => inbox'[r] = inbox[r] /\ port'[r] = port[r]
      BY <3>1, <3>2 DEF TypeOK
    <3>5. ASSUME ~raced' PROVE Own'
      <4>1. Own /\ \A k \in 1 .. Len(inbox[s]) : inbox[s][k] = s
        BY <3>1, <3>2, <3>5 DEF RaceInv, Own
      <4>2. port'[s] = s
        BY <3>3, <3>4, <4>1
      <4>3. ASSUME NEW k \in 1 .. Len(inbox'[s]) PROVE inbox'[s][k] = s
        <5>1. k + 1 \in 1 .. Len(inbox[s]) /\ inbox'[s][k] = inbox[s][k + 1]
          BY <3>3, <3>4
        <5> QED BY <4>1, <5>1
      <4>4. \A r \in Conns : port'[r] = r /\ \A k \in 1 .. Len(inbox'[r]) : inbox'[r][k] = r
        BY <3>4, <4>1, <4>2, <4>3 DEF Own
      <4> QED BY <1>0, <3>1, <4>1, <4>4 DEF Own, Sender
    <3> QED BY <1>0, <3>1, <3>5 DEF RaceInv
  <2> QED BY <1>3, <2>1, <2>2, <2>3, <2>4, <2>5 DEF Thread
<1>4. ASSUME NEW s \in Conns, NEW p \in Ports, Reply(s, p) \/ Lose(s, p) PROVE RaceInv'
  <2>1. /\ wire[s][p] > 0 /\ wire' = [wire EXCEPT ![s][p] = @ - 1]
        /\ inbox' = [inbox EXCEPT ![s] = Append(@, p)] \/ inbox' = inbox
        /\ UNCHANGED <<router_port, port, raced, pc, send_conn_id>>
    BY <1>4 DEF Reply, Lose, addresses, threads
  <2>2. ASSUME ~raced' PROVE Own'
    <3>0. Own /\ p = s
      BY <2>1, <2>2 DEF RaceInv, Own
    <3>1. ASSUME NEW r \in Conns, NEW q \in Ports, wire'[r][q] > 0 PROVE q = r
      <4>1. wire[r][q] > 0
        BY <2>1, <3>1 DEF TypeOK
      <4> QED BY <3>0, <4>1 DEF Own
    <3>2. ASSUME NEW r \in Conns, NEW k \in 1 .. Len(inbox'[r]) PROVE inbox'[r][k] = r
      <4>1. inbox[r] \in Seq(Ports)
        BY DEF TypeOK
      <4>2. CASE inbox'[r] = inbox[r]
        BY <3>0, <3>2, <4>2 DEF Own
      <4>3. CASE r = s /\ inbox'[r] = Append(inbox[r], p)
        <5>1. /\ Len(inbox'[r]) = Len(inbox[r]) + 1 /\ Len(inbox[r]) \in Nat
              /\ inbox'[r][Len(inbox[r]) + 1] = p
              /\ \A i \in 1 .. Len(inbox[r]) : inbox'[r][i] = inbox[r][i]
          BY <4>1, <4>3, SequenceSteps
        <5>2. CASE k \in 1 .. Len(inbox[r])
          BY <3>0, <5>1, <5>2 DEF Own
        <5>3. CASE k = Len(inbox[r]) + 1
          BY <3>0, <4>3, <5>1, <5>3
        <5> QED BY <3>2, <5>1, <5>2, <5>3
      <4> QED BY <2>1, <4>2, <4>3 DEF TypeOK
    <3> QED BY <1>0, <2>1, <3>0, <3>1, <3>2 DEF Own, Sender
  <2> QED BY <1>0, <2>1, <2>2 DEF RaceInv
<1>5. CASE UNCHANGED vars
  BY <1>1, <1>5 DEF vars, threads, outside
<1> QED BY <1>2, <1>3, <1>4, <1>5 DEF Next

(* Every connection has and uses its own port until two threads have been  *)
(* between their writes into the router's address and their sendto.        *)
THEOREM OwnPorts == Spec => []OwnPortsUntilRaced
<1>1. Init => RaceInv
  <2> SUFFICES ASSUME Init PROVE RaceInv
    OBVIOUS
  <2>1. \A s \in Conns : Len(inbox[s]) = 0 /\ \A p \in Ports : wire[s][p] = 0
    BY DEF Init
  <2> QED BY <2>1 DEF Init, RaceInv, Own
<1>2. RaceInv => OwnPortsUntilRaced
  BY DEF RaceInv, Own, OwnPortsUntilRaced
<1> QED BY <1>1, <1>2, NextRaceInv, TypeCorrect, PTL DEF Spec
-----------------------------------------------------------------------------
(* Where a port that lives after a step is named.                          *)
LEMMA LiveNext ==
  ASSUME NEW q \in LivePorts'
  PROVE  \/ q = router_port'
         \/ \E s \in Conns : q = port'[s]
         \/ q \in Ports /\ \E s \in Conns : wire'[s][q] > 0
         \/ \E s \in Conns : \E k \in 1 .. Len(inbox'[s]) : q = inbox'[s][k]
BY DEF LivePorts

(* A port once lost to all connections is never sent to again.             *)
THEOREM PortsVanish == Spec => PortsOnlyVanish
<1>1. TypeOK /\ [Next]_vars => [LivePorts' \subseteq LivePorts]_vars
  <2> SUFFICES ASSUME TypeOK, Next PROVE LivePorts' \subseteq LivePorts
    OBVIOUS
  <2>1. ASSUME UNCHANGED <<router_port, port, inbox, wire>>
        PROVE  LivePorts' \subseteq LivePorts
    BY <2>1 DEF LivePorts
  <2>2. CASE Main
    BY <2>1, <2>2 DEF Main, BeginSleep, ReadClock, Create, addresses, outside
  <2>3. ASSUME NEW t \in Threads, Thread(t) PROVE LivePorts' \subseteq LivePorts
    <3>0. Sender(t) \in Conns
      BY ConnIsConn DEF Sender, TypeOK
    <3>1. CASE PassBarrier(t) \/ Due(t) \/ Poll(t) \/ Drained(t) \/ Finish(t)
      BY <2>1, <3>1 DEF PassBarrier, Due, Poll, Drained, Finish, addresses, outside
    <3>2. CASE Route(t)
      <4>1. router_port' = port[Sender(t)] /\ UNCHANGED <<port, inbox, wire>>
        BY <3>2 DEF Route, outside
      <4> QED BY <3>0, <4>1 DEF LivePorts
    <3>3. CASE SendTo(t)
      <4>1. /\ wire' = [wire EXCEPT ![Sender(t)][Destination(t)] = @ + 1]
            /\ UNCHANGED <<router_port, port, inbox>>
        BY <3>3 DEF SendTo, addresses
      <4>2. Destination(t) \in LivePorts
        BY <3>0 DEF Destination, LivePorts
      <4>3. ASSUME NEW s \in Conns, NEW p \in Ports, wire'[s][p] > 0
            PROVE  p \in LivePorts
        <5>1. CASE s = Sender(t) /\ p = Destination(t)
          BY <4>2, <5>1
        <5>2. CASE ~(s = Sender(t) /\ p = Destination(t))
          <6>1. wire'[s][p] = wire[s][p]
            BY <4>1, <5>2 DEF TypeOK
          <6> QED BY <4>3, <6>1 DEF LivePorts
        <5> QED BY <5>1, <5>2
      <4>4. \A s \in Conns : /\ port[s] \in LivePorts
                             /\ \A k \in 1 .. Len(inbox[s]) : inbox[s][k] \in LivePorts
        BY DEF LivePorts
      <4>5. router_port \in LivePorts
        BY DEF LivePorts
      <4> QED BY <4>1, <4>3, <4>4, <4>5 DEF LivePorts
    <3>4. CASE Receive(t)
      <4>1. PICK s \in reported[t] :
              /\ inbox[s] # << >>
              /\ inbox' = [inbox EXCEPT ![s] = Tail(@)]
              /\ port' = [port EXCEPT ![s] = Head(inbox[s])]
              /\ UNCHANGED <<router_port, wire>>
        BY <3>4 DEF Receive
      <4>2. s \in Conns /\ inbox[s] \in Seq(Ports) /\ inbox'[s] = Tail(inbox[s])
        BY <4>1 DEF TypeOK
      <4>3. /\ Head(inbox[s]) = inbox[s][1] /\ Len(inbox[s]) > 0 /\ Len(inbox[s]) \in Nat
            /\ Len(Tail(inbox[s])) = Len(inbox[s]) - 1
            /\ \A k \in 1 .. Len(inbox[s]) - 1 : Tail(inbox[s])[k] = inbox[s][k + 1]
        BY <4>1, <4>2, SequenceSteps
      <4>4. \A r \in Conns : /\ port[r] \in LivePorts
                             /\ \A k \in 1 .. Len(inbox[r]) : inbox[r][k] \in LivePorts
        BY DEF LivePorts
      <4>5. Head(inbox[s]) \in LivePorts
        BY <4>2, <4>3, <4>4
      <4>6. ASSUME NEW k \in 1 .. Len(inbox'[s]) PROVE inbox'[s][k] \in LivePorts
        <5>1. k + 1 \in 1 .. Len(inbox[s]) /\ inbox'[s][k] = inbox[s][k + 1]
          BY <4>2, <4>3
        <5> QED BY <4>2, <4>4, <5>1
      <4>7. \A r \in Conns : r # s => inbox'[r] = inbox[r] /\ port'[r] = port[r]
        BY <4>1 DEF TypeOK
      <4>8. \A r \in Conns : /\ port'[r] \in LivePorts
                             /\ \A k \in 1 .. Len(inbox'[r]) : inbox'[r][k] \in LivePorts
        <5>1. port'[s] = Head(inbox[s])
          BY <4>1, <4>2 DEF TypeOK
        <5> QED BY <4>4, <4>5, <4>6, <4>7, <5>1
      <4>9. /\ router_port' \in LivePorts
            /\ \A p \in Ports : (\E r \in Conns : wire'[r][p] > 0) => p \in LivePorts
        BY <4>1 DEF LivePorts
      <4> QED BY <4>8, <4>9, LiveNext
    <3> QED BY <2>3, <3>1, <3>2, <3>3, <3>4 DEF Thread
  <2>4. ASSUME NEW s \in Conns, NEW p \in Ports, Reply(s, p) \/ Lose(s, p)
        PROVE  LivePorts' \subseteq LivePorts
    <3>1. /\ wire[s][p] > 0 /\ wire' = [wire EXCEPT ![s][p] = @ - 1]
          /\ inbox' = [inbox EXCEPT ![s] = Append(@, p)] \/ inbox' = inbox
          /\ UNCHANGED <<router_port, port>>
      BY <2>4 DEF Reply, Lose, addresses
    <3>2. \A r \in Conns, q \in Ports : wire'[r][q] > 0 => wire[r][q] > 0
      BY <3>1 DEF TypeOK
    <3>3. /\ p \in LivePorts /\ router_port \in LivePorts
          /\ \A r \in Conns : /\ port[r] \in LivePorts
                              /\ \A k \in 1 .. Len(inbox[r]) : inbox[r][k] \in LivePorts
          /\ \A r \in Conns, q \in Ports : wire[r][q] > 0 => q \in LivePorts
      BY <3>1 DEF LivePorts
    <3>4. ASSUME NEW r \in Conns, NEW k \in 1 .. Len(inbox'[r])
          PROVE  inbox'[r][k] \in LivePorts
      <4>1. CASE inbox'[r] = inbox[r]
        BY <3>3, <3>4, <4>1
      <4>2. CASE inbox'[r] = Append(inbox[r], p)
        <5>1. inbox[r] \in Seq(Ports)
          BY DEF TypeOK
        <5>2. /\ Len(inbox'[r]) = Len(inbox[r]) + 1 /\ Len(inbox[r]) \in Nat
              /\ inbox'[r][Len(inbox[r]) + 1] = p
              /\ \A i \in 1 .. Len(inbox[r]) : inbox'[r][i] = inbox[r][i]
          BY <4>2, <5>1, SequenceSteps
        <5>3. k \in 1 .. Len(inbox[r]) \/ k = Len(inbox[r]) + 1
          BY <3>4, <5>2
        <5> QED BY <3>3, <5>2, <5>3
      <4> QED BY <3>1, <4>1, <4>2 DEF TypeOK
    <3> QED BY <3>1, <3>2, <3>3, <3>4, LiveNext
  <2> QED BY <2>2, <2>3, <2>4 DEF Next
<1> QED BY <1>1, TypeCorrect, PTL DEF Spec, PortsOnlyVanish
=============================================================================

------------------------ MODULE ClosedLoopEcho_proofs ------------------------
(***************************************************************************)
(* Theorems about the closed-loop client and the one-shot server, for      *)
(* every number of sockets, iterations and lost datagrams.                 *)
(***************************************************************************)
EXTENDS ClosedLoopEcho, EpollSockets_proofs

(* What the server's steps keep: types, buffers in order, and the request  *)
(* in hand is the last that left its buffer.                               *)
ServerInv ==
  /\ ServerOK
  /\ Ordered
  /\ pc = "send" => Gone(cur) > 0 /\ request = <<cur, Gone(cur)>>

(* All that can happen to the server in a step of the system.              *)
ServerStep ==
  \/ EpollWait \/ Receive \/ SendReply \/ SendFails
  \/ \E g \in Sockets : Arrive(g) /\ UNCHANGED server
  \/ UNCHANGED <<kernel, server>>

(* It holds of a server that has just started.                              *)
LEMMA InitServerInv == InitServer => ServerInv
<1> SUFFICES ASSUME InitServer PROVE ServerInv
  OBVIOUS
<1>1. SocketsOK /\ Ordered
  BY InitSocketsOK, InitOrdered DEF InitServer
<1> QED BY <1>1, SocketsInNat DEF InitServer, ServerInv, ServerOK

(* After a reply or a failure the server has the next event, or waits.     *)
LEMMA NextEventIs ==
  ASSUME ServerOK, pc = "send", NextEvent
  PROVE  /\ todo' = todo \ {cur} /\ cur' \in Sockets
         /\ pc' \in {"wait", "recv"}
         /\ pc' = "wait" <=> todo' = {}
         /\ pc' = "recv" => cur' \in todo'
BY DEF ServerOK, NextEvent

(* And it is kept, whatever client and network do.                         *)
LEMMA NextServerInv == ServerInv /\ ServerStep => ServerInv'
<1> SUFFICES ASSUME ServerInv, ServerStep PROVE ServerInv'
  OBVIOUS
<1>0. SocketsOK /\ Ordered /\ ServerOK /\ cur \in Sockets
  BY DEF ServerInv, ServerOK
<1>1. CASE EpollWait
  <2>1. /\ pc' = "recv" /\ todo' \subseteq Sockets /\ cur' \in todo' /\ todo' # {}
        /\ UNCHANGED <<arrived, sock, replies, request>>
        /\ armed' \in [Sockets -> BOOLEAN]
    BY <1>1 DEF EpollWait, Readable, Report
  <2> QED BY <1>0, <2>1 DEF ServerInv, ServerOK, SocketsOK, Ordered, Gone
<1>2. CASE Receive
  <2>1. /\ pc = "recv" /\ pc' = "send" /\ sock[cur] # << >> /\ TakeFirst(cur)
        /\ request' = Head(sock[cur])
        /\ UNCHANGED <<arrived, armed, replies, todo, cur>>
    BY <1>2 DEF Receive
  <2>2. /\ Ordered' /\ sock' \in [Sockets -> Seq(Requests)]
        /\ request' = <<cur, Gone(cur) + 1>> /\ request' \in Requests
        /\ Gone(cur)' = Gone(cur) + 1 /\ Gone(cur) \in Nat
    BY <1>0, <2>1, TakeOrdered, GoneType
  <2>3. Gone(cur)' = arrived'[cur'] - Len(sock'[cur'])
    BY <2>1 DEF Gone
  <2>4. SocketsOK'
    BY <1>0, <2>1, <2>2 DEF SocketsOK
  <2> QED BY <1>0, <2>1, <2>2, <2>3, <2>4 DEF ServerInv, ServerOK, Gone
<1>3. CASE SendReply \/ SendFails
  <2>1. /\ pc = "send" /\ NextEvent
        /\ UNCHANGED <<arrived, sock, armed, request>>
        /\ ReplyTo(request) \/ UNCHANGED replies
    BY <1>3 DEF SendReply, SendFails, kernel
  <2>2. replies' \in [Requests -> Nat]
    <3>1. replies \in [Requests -> Nat]
      BY <1>0 DEF SocketsOK
    <3>2. [replies EXCEPT ![request] = @ + 1] \in [Requests -> Nat]
      BY <3>1, CountUp
    <3> QED BY <2>1, <3>1, <3>2 DEF ReplyTo
  <2>3. SocketsOK' /\ Ordered'
    BY <1>0, <2>1, <2>2 DEF SocketsOK, Ordered, Gone
  <2>4. /\ todo' = todo \ {cur} /\ cur' \in Sockets
        /\ pc' \in {"wait", "recv"}
        /\ pc' = "wait" <=> todo' = {}
        /\ pc' = "recv" => cur' \in todo'
    BY <1>0, <2>1, NextEventIs
  <2> QED BY <1>0, <2>1, <2>3, <2>4 DEF ServerInv, ServerOK
<1>4. CASE \E g \in Sockets : Arrive(g) /\ UNCHANGED server
  <2>1. PICK g \in Sockets : Arrive(g) /\ UNCHANGED server
    BY <1>4
  <2>2. Ordered' /\ SocketsOK' /\ \A f \in Sockets : Gone(f)' = Gone(f)
    BY <1>0, <2>1, ArriveOrdered
  <2>3. UNCHANGED <<pc, todo, cur, request>>
    BY <2>1 DEF server
  <2>4. Gone(cur)' = Gone(cur)
    BY <1>0, <2>2, <2>3 DEF Gone
  <2> QED BY <1>0, <2>2, <2>3, <2>4 DEF ServerInv, ServerOK
<1>5. CASE UNCHANGED <<kernel, server>>
  BY <1>5 DEF ServerInv, ServerOK, SocketsOK, Ordered, Gone, kernel, server
<1> QED BY <1>1, <1>2, <1>3, <1>4, <1>5 DEF ServerStep

(* A reported socket keeps what it was reported for until its turn comes.  *)
LEMMA NextNeverSpins == ServerInv /\ NeverSpins /\ ServerStep => NeverSpins'
<1> SUFFICES ASSUME ServerInv, NeverSpins, ServerStep PROVE NeverSpins'
  OBVIOUS
<1>0. SocketsOK /\ Ordered /\ ServerOK /\ cur \in Sockets /\ todo \subseteq Sockets
  BY DEF ServerInv, ServerOK
<1>1. CASE EpollWait
  BY <1>1 DEF EpollWait, Readable, NeverSpins
<1>2. CASE Receive
  <2>1. \A f \in Sockets : f # cur => sock'[f] = sock[f]
    BY <1>0, <1>2, TakeOrdered DEF Receive
  <2> QED BY <1>0, <1>2, <2>1 DEF Receive, NeverSpins
<1>3. CASE SendReply \/ SendFails
  <2>1. pc = "send" /\ NextEvent /\ UNCHANGED sock
    BY <1>3 DEF SendReply, SendFails, kernel
  <2>2. todo' = todo \ {cur}
    BY <1>0, <2>1, NextEventIs
  <2> QED BY <2>1, <2>2 DEF NeverSpins
<1>4. CASE \E g \in Sockets : Arrive(g) /\ UNCHANGED server
  <2>1. PICK g \in Sockets : Arrive(g) /\ UNCHANGED server
    BY <1>4
  <2>2. /\ \A f \in Sockets : f # g => sock'[f] = sock[f]
        /\ Len(sock'[g]) = Len(sock[g]) + 1 /\ Len(sock[g]) \in Nat
    BY <1>0, <2>1, ArriveOrdered
  <2>3. sock'[g] # << >>
    BY <2>2
  <2> QED BY <1>0, <2>1, <2>2, <2>3 DEF NeverSpins, server
<1>5. CASE UNCHANGED <<kernel, server>>
  BY <1>5 DEF NeverSpins, kernel, server
<1> QED BY <1>1, <1>2, <1>3, <1>4, <1>5 DEF ServerStep
-----------------------------------------------------------------------------
LEMMA CLInSockets == CL \in Sockets
BY SocketsInNat DEF CL

LEMMA StepOfServer == [Next]_vars => ServerStep
<1> SUFFICES ASSUME [Next]_vars PROVE ServerStep
  OBVIOUS
<1>1. CASE Client
  BY <1>1 DEF Client, ClientSends, ClientActs, ServerStep
<1>2. CASE Server
  BY <1>2 DEF Server, ServerListens, ServerReplies, ServerFails, ServerStep
<1>3. CASE RequestArrives
  BY <1>3, CLInSockets DEF RequestArrives, ServerStep
<1>4. CASE ReplyArrives \/ Lose
  BY <1>4 DEF ReplyArrives, Lose, ServerStep
<1>5. CASE OthersSend
  BY <1>5 DEF OthersSend, ServerStep
<1>6. CASE Idle \/ UNCHANGED vars
  BY <1>6 DEF Idle, vars, ServerStep
<1> QED BY <1>1, <1>2, <1>3, <1>4, <1>5, <1>6 DEF Next

LEMMA ServerInvHolds == Spec => []ServerInv
<1>1. ServerInv /\ [Next]_vars => ServerInv'
  BY StepOfServer, NextServerInv
<1>2. Init => ServerInv
  BY InitServerInv DEF Init
<1> QED BY <1>1, <1>2, PTL DEF Spec
-----------------------------------------------------------------------------
(* A reported socket keeps what it was reported for until its turn comes:  *)
(* recvfrom never finds a socket empty.                                    *)
THEOREM ServerNeverSpins == Spec => []NeverSpins
<1>1. Init => NeverSpins
  BY DEF Init, InitServer, NeverSpins
<1>2. ServerInv /\ NeverSpins /\ [Next]_vars => NeverSpins'
  BY NextNeverSpins, StepOfServer
<1> QED BY <1>1, <1>2, ServerInvHolds, PTL DEF Spec
-----------------------------------------------------------------------------
(* Requests of the client that the server has not answered came in a       *)
(* datagram of the client.                                                 *)
Carried ==
  /\ \A k \in 1 .. Len(sock[CL]) : carried[sock[CL][k]] \in Datagrams
  /\ pc = "send" /\ cur = CL => carried[request] \in Datagrams

LEMMA ServerStepsCarried ==
  ASSUME ServerInv, NetworkOK, Carried, Server
  PROVE  NetworkOK' /\ Carried'
<1>0. /\ SocketsOK /\ Ordered /\ ServerOK /\ cur \in Sockets /\ CL \in Sockets
      /\ \A f \in Sockets : Gone(f) \in Nat /\ Len(sock[f]) \in Nat
  BY CLInSockets, GoneType, LenInNat DEF ServerInv, ServerOK
<1>1. CASE EpollWait /\ UNCHANGED <<client, network>>
  BY <1>1 DEF EpollWait, network, NetworkOK, Carried
<1>2. CASE Receive /\ UNCHANGED <<client, network>>
  <2>1. /\ pc = "recv" /\ pc' = "send" /\ sock[cur] # << >> /\ TakeFirst(cur)
        /\ request' = Head(sock[cur])
        /\ UNCHANGED <<arrived, cur, carried, up, down, losses, bereft>>
    BY <1>2 DEF Receive, network
  <2>2. /\ \A f \in Sockets : f # cur => sock'[f] = sock[f]
        /\ request' = sock[cur][1]
        /\ Len(sock[cur]) > 0
        /\ \A k \in 1 .. Len(sock'[cur]) : k + 1 \in 1 .. Len(sock[cur])
                                           /\ sock'[cur][k] = sock[cur][k + 1]
    BY <1>0, <2>1, TakeOrdered
  <2>3. CASE cur = CL
    <3>1. \A k \in 1 .. Len(sock'[CL]) : carried'[sock'[CL][k]] \in Datagrams
      BY <2>1, <2>2, <2>3 DEF Carried
    <3>2. carried'[request'] \in Datagrams
      BY <1>0, <2>1, <2>2, <2>3 DEF Carried
    <3> QED BY <2>1, <3>1, <3>2 DEF Carried, NetworkOK
  <2>4. CASE cur # CL
    BY <1>0, <2>1, <2>2, <2>4 DEF Carried, NetworkOK
  <2> QED BY <2>3, <2>4
<1>3. CASE ServerReplies \/ ServerFails
  <2>1. /\ pc = "send" /\ NextEvent
        /\ UNCHANGED <<arrived, sock, armed, request, up, losses>>
        /\ carried' = [carried EXCEPT ![request] = NoDatagram]
        /\ down' = down \/ (cur = CL /\ down' = down \cup {carried[request]})
        /\ bereft' \in BOOLEAN
    BY <1>3 DEF ServerReplies, ServerFails, SendReply, SendFails, kernel, NetworkOK
  <2>2. pc' \in {"wait", "recv"}
    BY <1>0, <2>1, NextEventIs
  <2>3. ASSUME NEW k \in 1 .. Len(sock[CL])
        PROVE  carried'[sock[CL][k]] = carried[sock[CL][k]]
    <3>1. sock[CL][k] = <<CL, Gone(CL) + k>> /\ request = <<cur, Gone(cur)>>
      BY <1>0, <2>1 DEF Ordered, ServerInv
    <3>2. sock[CL][k] # request
      <4>1. CASE cur = CL
        BY <1>0, <3>1, <4>1
      <4>2. CASE cur # CL
        BY <3>1, <4>2
      <4> QED BY <4>1, <4>2
    <3>3. sock[CL][k] \in Requests
      BY <1>0 DEF SocketsOK
    <3> QED BY <2>1, <3>2, <3>3 DEF NetworkOK
  <2>4. Carried'
    BY <2>1, <2>2, <2>3 DEF Carried
  <2>5. NetworkOK'
    BY <2>1 DEF NetworkOK, Carried
  <2> QED BY <2>4, <2>5
<1> QED BY <1>1, <1>2, <1>3 DEF Server, ServerListens

LEMMA RequestArrivesCarried ==
  ASSUME ServerInv, NetworkOK, Carried, RequestArrives
  PROVE  NetworkOK' /\ Carried'
<1>0. SocketsOK /\ Ordered /\ CL \in Sockets
  BY CLInSockets DEF ServerInv, ServerOK
<1>1. PICK d \in up :
        /\ Arrive(CL)
        /\ up' = up \ {d}
        /\ carried' = [carried EXCEPT ![<<CL, arrived[CL] + 1>>] = d]
        /\ UNCHANGED <<server, client, down, losses, bereft>>
  BY DEF RequestArrives
<1> DEFINE r == <<CL, arrived[CL] + 1>>
<1>2. /\ r \in Requests
      /\ Len(sock[CL]) \in Nat /\ Len(sock'[CL]) = Len(sock[CL]) + 1
      /\ sock'[CL][Len(sock[CL]) + 1] = r
      /\ \A k \in 1 .. Len(sock[CL]) : sock'[CL][k] = sock[CL][k]
  BY <1>0, <1>1, ArriveOrdered
<1>3. d \in Datagrams /\ NetworkOK'
  BY <1>1 DEF NetworkOK
<1>4. \A q \in Requests : carried[q] \in Datagrams \/ q = r => carried'[q] \in Datagrams
  BY <1>1, <1>3 DEF NetworkOK
<1>5. \A k \in 1 .. Len(sock[CL]) : sock[CL][k] \in Requests
  BY <1>0 DEF SocketsOK
<1> HIDE DEF r
<1>6. \A k \in 1 .. Len(sock'[CL]) : carried'[sock'[CL][k]] \in Datagrams
  <2> TAKE k \in 1 .. Len(sock'[CL])
  <2>1. CASE k \in 1 .. Len(sock[CL])
    BY <1>2, <1>4, <1>5, <2>1 DEF Carried
  <2>2. CASE k = Len(sock[CL]) + 1
    BY <1>2, <1>4, <2>2
  <2> QED BY <1>2, <2>1, <2>2
<1>7. pc' = "send" /\ cur' = CL => carried'[request'] \in Datagrams
  BY <1>1, <1>4 DEF Carried, server, ServerInv, ServerOK
<1> QED BY <1>3, <1>6, <1>7 DEF Carried

LEMMA ClientSteps ==
  ASSUME ClientOK, NetworkOK, Client
  PROVE  /\ ClientOK' /\ UNCHANGED <<kernel, server, carried, down, losses>>
         /\ NetworkOK'
<1> USE DEF ClientOK
<1>0. ITERS \in Nat \ {0}
  BY ITERSAssumption
<1>1. CASE ClientSends
  <2>1. /\ step \in {"send", "resend"} /\ step' \in {"recv", "check"}
        /\ UNCHANGED <<iter, inbox, answers, timed_out>>
        /\ up' = up \cup {Sent} /\ bereft' = FALSE
        /\ UNCHANGED <<kernel, server, down, carried, losses>>
    BY <1>1 DEF ClientSends, SendRequest, SendAgain
  <2>2. Sent \in Datagrams
    <3>1. iter \in Iterations
      BY <1>0, <2>1 DEF Iterations
    <3> QED BY <3>1 DEF Sent, Datagrams
  <2>3. NetworkOK'
    BY <2>1, <2>2 DEF NetworkOK
  <2> QED BY <2>1, <2>3
<1>2. CASE ClientActs
  <2>1. UNCHANGED <<kernel, server, carried, down, losses>> /\ NetworkOK'
    BY <1>2 DEF ClientActs, network, NetworkOK
  <2>2. ASSUME NEW a \in Iterations \cup {NoAnswer}, EndIteration(a),
               step \in {"recv", "check", "blocked"}, inbox' \in Seq(Datagrams)
        PROVE  ClientOK'
    <3>1. /\ iter' = iter + 1 /\ answers' = Append(answers, a)
          /\ step' = IF iter' < ITERS THEN "send" ELSE "done"
          /\ UNCHANGED timed_out
      BY <2>2 DEF EndIteration
    <3>2. answers' \in Seq(Iterations \cup {NoAnswer}) /\ Len(answers') = Len(answers) + 1
      BY <2>2, <3>1
    <3>3. iter # ITERS /\ iter' \in 0 .. ITERS
      BY <1>0, <2>2, <3>1
    <3>4. step' = "done" <=> iter' = ITERS
      BY <1>0, <3>1, <3>3
    <3> QED BY <2>2, <3>1, <3>2, <3>3, <3>4
  <2>3. CASE Accept
    <3>1. /\ inbox' = Tail(inbox) /\ inbox # << >> /\ EndIteration(Head(inbox)[1])
          /\ step \in {"recv", "check", "blocked"}
      BY <2>3 DEF Accept
    <3>2. Head(inbox) \in Datagrams /\ inbox' \in Seq(Datagrams)
      BY <3>1
    <3>3. Head(inbox)[1] \in Iterations
      BY <3>2 DEF Datagrams
    <3> QED BY <2>1, <2>2, <3>1, <3>2, <3>3
  <2>4. CASE TimesOut
    <3>1. /\ step = "recv" /\ step' = "resend" /\ timed_out' = timed_out \cup {iter}
          /\ UNCHANGED <<iter, inbox, answers>>
      BY <2>4 DEF TimesOut
    <3>2. iter \in Iterations
      BY <1>0, <3>1 DEF Iterations
    <3> QED BY <2>1, <3>1, <3>2
  <2>5. CASE Block
    BY <2>1, <2>5 DEF Block
  <2>6. CASE GivesUp
    <3>1. /\ step = "check" /\ EndIteration(NoAnswer) /\ UNCHANGED inbox
      BY <2>6 DEF GivesUp
    <3> QED BY <2>1, <2>2, <3>1
  <2> QED BY <1>2, <2>3, <2>4, <2>5, <2>6 DEF ClientActs
<1> QED BY <1>1, <1>2 DEF Client

(* The inductive invariant behind TypeOK.                                  *)
TypeInv == ServerInv /\ ClientOK /\ NetworkOK /\ Carried

LEMMA InitTypeInv == Init => TypeInv
<1> SUFFICES ASSUME Init PROVE TypeInv
  OBVIOUS
<1>1. ServerInv
  BY InitServerInv DEF Init
<1>2. ClientOK
  BY ITERSAssumption DEF Init, InitClient, ClientOK, Iterations
<1>3. NetworkOK
  <2>1. losses \in 0 .. MaxLoss /\ up \subseteq Datagrams /\ down \subseteq Datagrams
    BY LossAssumption DEF Init
  <2>2. carried \in [Requests -> Datagrams \cup {NoDatagram}] /\ bereft \in BOOLEAN
    BY DEF Init
  <2> QED BY <2>1, <2>2 DEF NetworkOK
<1>4. Carried
  BY CLInSockets DEF Init, InitServer, InitSockets, Carried
<1> QED BY <1>1, <1>2, <1>3, <1>4 DEF TypeInv

LEMMA NextTypeInv == TypeInv /\ [Next]_vars => TypeInv'
<1> SUFFICES ASSUME TypeInv, [Next]_vars PROVE TypeInv'
  OBVIOUS
<1>0. ServerInv' /\ ServerInv /\ ClientOK /\ NetworkOK /\ Carried
  BY StepOfServer, NextServerInv DEF TypeInv
<1>1. CASE Client
  <2>1. ClientOK' /\ UNCHANGED <<kernel, server, carried>> /\ NetworkOK'
    BY <1>0, <1>1, ClientSteps
  <2> QED BY <1>0, <2>1 DEF TypeInv, Carried, kernel, server
<1>2. CASE Server
  <2>1. NetworkOK' /\ Carried'
    BY <1>0, <1>2, ServerStepsCarried
  <2>2. ClientOK'
    BY <1>0, <1>2 DEF Server, ServerListens, ServerReplies, ServerFails, client, ClientOK
  <2> QED BY <1>0, <2>1, <2>2 DEF TypeInv
<1>3. CASE RequestArrives
  <2>1. NetworkOK' /\ Carried'
    BY <1>0, <1>3, RequestArrivesCarried
  <2>2. ClientOK'
    BY <1>0, <1>3 DEF RequestArrives, client, ClientOK
  <2> QED BY <1>0, <2>1, <2>2 DEF TypeInv
<1>4. CASE ReplyArrives
  <2>1. PICK d \in down :
          /\ down' = down \ {d}
          /\ inbox' = Append(inbox, d)
          /\ UNCHANGED <<kernel, server, step, iter, answers, timed_out, up, carried,
                         losses, bereft>>
    BY <1>4 DEF ReplyArrives
  <2>2. ClientOK' /\ NetworkOK'
    BY <1>0, <2>1 DEF ClientOK, NetworkOK
  <2> QED BY <1>0, <2>1, <2>2 DEF TypeInv, Carried, kernel, server
<1>5. CASE OthersSend
  <2>1. PICK f \in Sockets \ {CL} : Arrive(f) /\ UNCHANGED <<server, client, network>>
    BY <1>5 DEF OthersSend
  <2>2. sock'[CL] = sock[CL]
    BY <1>0, <2>1, ArriveOrdered, CLInSockets DEF ServerInv, ServerOK
  <2> QED BY <1>0, <2>1, <2>2 DEF TypeInv, Carried, ClientOK, NetworkOK, server, client, network
<1>6. CASE Lose
  <2>1. /\ losses < MaxLoss /\ losses' = losses + 1 /\ bereft' = TRUE
        /\ up' \subseteq up /\ down' \subseteq down
        /\ UNCHANGED <<kernel, server, client, carried>>
    BY <1>6 DEF Lose
  <2>2. NetworkOK'
    BY <1>0, <2>1, LossAssumption DEF NetworkOK
  <2> QED BY <1>0, <2>1, <2>2 DEF TypeInv, Carried, ClientOK, kernel, server, client
<1>7. CASE Idle \/ UNCHANGED vars
  BY <1>0, <1>7 DEF Idle, vars, kernel, server, client, network,
                    TypeInv, Carried, ClientOK, NetworkOK
<1> QED BY <1>1, <1>2, <1>3, <1>4, <1>5, <1>6, <1>7 DEF Next

LEMMA TypeInvHolds == Spec => []TypeInv
BY InitTypeInv, NextTypeInv, PTL DEF Spec

(* Server, client and network keep their types.                            *)
THEOREM TypeCorrect == Spec => []TypeOK
<1>1. TypeInv => TypeOK
  BY DEF TypeInv, ServerInv, TypeOK
<1> QED BY <1>1, TypeInvHolds, PTL
-----------------------------------------------------------------------------
(* The server's steps as the client's socket sees them.                    *)
LEMMA AtServer ==
  ASSUME TypeInv, Server
  PROVE  /\ UNCHANGED <<step, iter, inbox, answers, timed_out, up, arrived>>
         /\ CL \in Sockets
         /\ \/ /\ EpollWait /\ UNCHANGED <<sock, carried, down, bereft>>
               /\ pc = "wait" /\ pc' = "recv" /\ todo = {}
               /\ todo' = Readable /\ armed' = [f \in Sockets |-> FALSE]
            \/ /\ pc = "recv" /\ pc' = "send" /\ cur = CL /\ cur' = CL
               /\ sock[CL] # << >> /\ request' = sock[CL][1]
               /\ Len(sock'[CL]) = Len(sock[CL]) - 1
               /\ UNCHANGED <<carried, down, bereft>>
            \/ /\ pc = "recv" /\ pc' = "send" /\ cur # CL /\ cur' = cur
               /\ sock'[CL] = sock[CL] /\ UNCHANGED <<carried, armed, todo, down, bereft>>
            \/ /\ pc = "send" /\ pc' \in {"wait", "recv"} /\ cur = CL
               /\ UNCHANGED sock
               /\ \/ down' = down \cup {carried[request]} /\ UNCHANGED bereft
                  \/ down' = down /\ bereft' = TRUE
            \/ /\ pc = "send" /\ pc' \in {"wait", "recv"} /\ cur # CL
               /\ todo' = todo \ {cur} /\ UNCHANGED <<sock, armed, down, bereft>>
               /\ \A k \in 1 .. Len(sock[CL]) : carried'[sock[CL][k]] = carried[sock[CL][k]]
<1>0. /\ SocketsOK /\ Ordered /\ ServerOK /\ cur \in Sockets /\ CL \in Sockets
      /\ UNCHANGED <<step, iter, inbox, answers, timed_out, up, arrived>>
  BY CLInSockets DEF TypeInv, ServerInv, ServerOK, Server, ServerListens, ServerReplies,
     ServerFails, client, network, EpollWait, Receive, SendReply, SendFails, kernel
<1>1. CASE EpollWait /\ UNCHANGED <<client, network>>
  BY <1>0, <1>1 DEF EpollWait, Report, network, ServerOK
<1>2. CASE Receive /\ UNCHANGED <<client, network>>
  <2>1. /\ \A f \in Sockets : f # cur => sock'[f] = sock[f]
        /\ Head(sock[cur]) = sock[cur][1] /\ Len(sock'[cur]) = Len(sock[cur]) - 1
    BY <1>0, <1>2, TakeOrdered DEF Receive
  <2>2. CASE cur = CL
    BY <1>0, <1>2, <2>1, <2>2 DEF Receive, network
  <2>3. CASE cur # CL
    BY <1>0, <1>2, <2>1, <2>3 DEF Receive, network
  <2> QED BY <2>2, <2>3
<1>3. CASE ServerReplies \/ ServerFails
  <2>1. /\ pc = "send" /\ NextEvent /\ UNCHANGED <<sock, armed>>
        /\ carried' = [carried EXCEPT ![request] = NoDatagram]
        /\ \/ /\ down' = IF cur = CL THEN down \cup {carried[request]} ELSE down
              /\ UNCHANGED bereft
           \/ down' = down /\ bereft' = (bereft \/ cur = CL)
    BY <1>3 DEF ServerReplies, ServerFails, SendReply, SendFails, kernel
  <2>2. pc' \in {"wait", "recv"} /\ todo' = todo \ {cur}
    BY <1>0, <2>1, NextEventIs
  <2>3. CASE cur = CL
    BY <1>0, <2>1, <2>2, <2>3
  <2>4. CASE cur # CL
    <3>1. bereft \in BOOLEAN /\ carried \in [Requests -> Datagrams \cup {NoDatagram}]
      BY DEF TypeInv, NetworkOK
    <3>2. bereft' = bereft /\ down' = down
      BY <2>1, <2>4, <3>1
    <3>3. ASSUME NEW k \in 1 .. Len(sock[CL])
          PROVE  carried'[sock[CL][k]] = carried[sock[CL][k]]
      <4>1. sock[CL][k] = <<CL, Gone(CL) + k>> /\ request = <<cur, Gone(cur)>>
        BY <1>0, <2>1 DEF Ordered, ServerInv, TypeInv
      <4>2. sock[CL][k] # request
        BY <2>4, <4>1
      <4>3. sock[CL][k] \in Requests
        BY <1>0 DEF SocketsOK
      <4> QED BY <2>1, <3>1, <4>2, <4>3
    <3> QED BY <1>0, <2>1, <2>2, <2>4, <3>2, <3>3
  <2> QED BY <2>3, <2>4
<1> QED BY <1>1, <1>2, <1>3 DEF Server, ServerListens

(* The other steps: those of the network.                                  *)
LEMMA AtNetwork ==
  ASSUME TypeInv, RequestArrives \/ ReplyArrives \/ OthersSend \/ Lose
  PROVE  /\ UNCHANGED <<step, iter, answers, timed_out, pc, todo, cur, request>>
         /\ \/ \E d \in up :
                 /\ up' = up \ {d} /\ UNCHANGED <<inbox, down, bereft>>
                 /\ Len(sock'[CL]) = Len(sock[CL]) + 1 /\ armed'[CL] = TRUE
                 /\ sock[CL] = << >> => carried'[sock'[CL][1]] = d
            \/ \E d \in down :
                 /\ down' = down \ {d} /\ inbox' = Append(inbox, d)
                 /\ UNCHANGED <<up, sock, armed, carried, bereft>>
            \/ /\ sock'[CL] = sock[CL] /\ armed'[CL] = armed[CL]
               /\ UNCHANGED <<up, down, inbox, carried, bereft>>
            \/ /\ UNCHANGED <<sock, armed, carried, inbox>> /\ bereft' = TRUE
               /\ \/ \E d \in up : up' = up \ {d} /\ UNCHANGED down
                  \/ \E d \in down : down' = down \ {d} /\ UNCHANGED up
<1>0. SocketsOK /\ Ordered /\ CL \in Sockets
  BY CLInSockets DEF TypeInv, ServerInv, ServerOK
<1>1. CASE RequestArrives
  <2>1. PICK d \in up :
          /\ Arrive(CL)
          /\ up' = up \ {d}
          /\ carried' = [carried EXCEPT ![<<CL, arrived[CL] + 1>>] = d]
          /\ UNCHANGED <<server, client, down, losses, bereft>>
    BY <1>1 DEF RequestArrives
  <2>2. /\ <<CL, arrived[CL] + 1>> \in Requests
        /\ Len(sock[CL]) \in Nat /\ Len(sock'[CL]) = Len(sock[CL]) + 1
        /\ sock'[CL][Len(sock[CL]) + 1] = <<CL, arrived[CL] + 1>>
    BY <1>0, <2>1, ArriveOrdered
  <2>3. sock[CL] = << >> => carried'[sock'[CL][1]] = d
    BY <2>1, <2>2 DEF TypeInv, NetworkOK
  <2>4. armed'[CL] = TRUE
    BY <1>0, <2>1 DEF Arrive, SocketsOK
  <2> QED BY <2>1, <2>2, <2>3, <2>4 DEF server, client
<1>2. CASE ReplyArrives
  BY <1>2 DEF ReplyArrives, kernel, server
<1>3. CASE OthersSend
  <2>1. PICK f \in Sockets \ {CL} : Arrive(f) /\ UNCHANGED <<server, client, network>>
    BY <1>3 DEF OthersSend
  <2>2. sock'[CL] = sock[CL]
    BY <1>0, <2>1, ArriveOrdered
  <2>3. armed'[CL] = armed[CL]
    BY <1>0, <2>1 DEF Arrive, SocketsOK
  <2> QED BY <2>1, <2>2, <2>3 DEF server, client, network
<1>4. CASE Lose
  BY <1>4 DEF Lose, kernel, server, client
<1> QED BY <1>1, <1>2, <1>3, <1>4

LEMMA SplitNext ==
  ASSUME [Next]_vars
  PROVE  \/ Client \/ Server \/ RequestArrives \/ ReplyArrives \/ OthersSend \/ Lose
         \/ UNCHANGED <<kernel, server, client, network>>
BY DEF Next, Idle, vars

LEMMA NextAnswerToCome == TypeInv /\ AnswerToCome /\ [Next]_vars => AnswerToCome'
<1> SUFFICES ASSUME TypeInv, AnswerToCome, [Next]_vars, Awaiting', ~bereft'
             PROVE  \/ up' # {} \/ down' # {} \/ inbox' # << >>
                    \/ CL \in ToBeRead'
                    \/ pc' = "send" /\ cur' = CL
  BY DEF AnswerToCome
<1>0. /\ SocketsOK /\ CL \in Sockets /\ inbox \in Seq(Datagrams)
      /\ Len(sock[CL]) \in Nat /\ down \subseteq Datagrams
  BY CLInSockets, LenInNat DEF TypeInv, ServerInv, ServerOK, ClientOK, NetworkOK
<1>1. CASE Client
  <2>1. CASE ClientSends
    BY <2>1 DEF ClientSends
  <2>2. CASE ClientActs
    <3>1. UNCHANGED <<kernel, server, network>>
      BY <2>2 DEF ClientActs
    <3>2. Block
      BY <2>2 DEF ClientActs, Accept, TimesOut, GivesUp, EndIteration, Awaiting
    <3> QED BY <3>1, <3>2 DEF Block, Awaiting, AnswerToCome, ToBeRead, kernel, server, network
  <2> QED BY <1>1, <2>1, <2>2 DEF Client
<1>2. CASE Server
  BY <1>0, <1>2, AtServer DEF AnswerToCome, Awaiting, ToBeRead, Readable
<1>3. CASE RequestArrives \/ ReplyArrives \/ OthersSend \/ Lose
  <2>0. UNCHANGED <<step, iter, answers, timed_out, pc, todo, cur, request>>
    BY <1>3, AtNetwork
  <2>1. CASE Len(sock'[CL]) = Len(sock[CL]) + 1 /\ armed'[CL] = TRUE
    <3>1. sock'[CL] # << >>
      BY <1>0, <2>1
    <3> QED BY <1>0, <2>1, <3>1 DEF ToBeRead
  <2>2. CASE \E d \in down : /\ down' = down \ {d} /\ inbox' = Append(inbox, d)
                            /\ UNCHANGED <<up, sock, armed, carried, bereft>>
    <3>1. inbox' # << >>
      BY <1>0, <2>2
    <3> QED BY <3>1
  <2>3. CASE /\ sock'[CL] = sock[CL] /\ armed'[CL] = armed[CL]
             /\ UNCHANGED <<up, down, inbox, carried, bereft>>
    BY <1>0, <2>0, <2>3 DEF AnswerToCome, Awaiting, ToBeRead
  <2> QED BY <1>3, <2>1, <2>2, <2>3, AtNetwork
<1>4. CASE UNCHANGED <<kernel, server, client, network>>
  BY <1>4 DEF AnswerToCome, Awaiting, ToBeRead, kernel, server, client, network
<1> QED BY <1>1, <1>2, <1>3, <1>4, SplitNext

(* However the server strands datagrams, a client that waits and has lost  *)
(* nothing since it last sent will have an answer.                         *)
THEOREM AnswerIsToCome == Spec => []AnswerToCome
<1>1. Init => AnswerToCome
  BY DEF Init, InitClient, AnswerToCome, Awaiting
<1> QED BY <1>1, NextAnswerToCome, TypeInvHolds, PTL DEF Spec
-----------------------------------------------------------------------------
(* Before the first timeout there is at most one datagram of the client,   *)
(* with the id it waits for, and it is in one place.                       *)
First == <<iter, 1>>
InHand == pc = "send" /\ cur = CL

Nowhere == up = {} /\ down = {} /\ inbox = << >> /\ Len(sock[CL]) = 0 /\ ~InHand

OnTheWayUp ==
  /\ up = {First} /\ down = {} /\ inbox = << >> /\ Len(sock[CL]) = 0 /\ ~InHand
OnTheWayDown ==
  /\ up = {} /\ down = {First} /\ inbox = << >> /\ Len(sock[CL]) = 0 /\ ~InHand
InInbox ==
  /\ up = {} /\ down = {} /\ inbox = <<First>> /\ Len(sock[CL]) = 0 /\ ~InHand
InSocket ==
  /\ up = {} /\ down = {} /\ inbox = << >> /\ ~InHand
  /\ Len(sock[CL]) = 1 /\ carried[sock[CL][1]] = First
AtServerNow ==
  /\ up = {} /\ down = {} /\ inbox = << >> /\ Len(sock[CL]) = 0
  /\ InHand /\ carried[request] = First

Somewhere == OnTheWayUp \/ OnTheWayDown \/ InInbox \/ InSocket \/ AtServerNow

(* Timeouts are of this iteration or earlier ones; this one has timed out  *)
(* iff the client has sent its request twice or is about to.               *)
FirstTry ==
  /\ timed_out \subseteq 0 .. iter
  /\ iter \in timed_out <=> step \in {"resend", "check", "blocked"}
  /\ timed_out = {} => Nowhere \/ (step = "recv" /\ Somewhere)

LEMMA NextFirstTry == TypeInv /\ FirstTry /\ [Next]_vars => FirstTry'
<1> SUFFICES ASSUME TypeInv, FirstTry, [Next]_vars PROVE FirstTry'
  OBVIOUS
<1>0. /\ SocketsOK /\ CL \in Sockets /\ inbox \in Seq(Datagrams)
      /\ Len(sock[CL]) \in Nat /\ iter \in 0 .. ITERS /\ iter \in Nat
      /\ ITERS \in Nat /\ timed_out \subseteq Iterations
      /\ step \in {"send", "recv", "resend", "check", "blocked", "done"}
  BY CLInSockets, LenInNat, ITERSAssumption
  DEF TypeInv, ServerInv, ServerOK, ClientOK, NetworkOK
<1>1. CASE Client
  <2>1. CASE ClientSends
    <3>1. /\ UNCHANGED <<iter, inbox, timed_out, kernel, server, down, carried>>
          /\ up' = up \cup {Sent}
          /\ \/ step = "send" /\ step' = "recv"
             \/ step = "resend" /\ step' = "check"
      BY <2>1 DEF ClientSends, SendRequest, SendAgain
    <3>2. CASE timed_out = {}
      <4>1. step = "send" /\ Nowhere
        BY <3>1, <3>2 DEF FirstTry
      <4>2. up' = {First}
        BY <3>1, <4>1 DEF Nowhere, Sent, First
      <4>3. Somewhere' /\ step' = "recv"
        BY <3>1, <4>1, <4>2 DEF Nowhere, Somewhere, OnTheWayUp, First, InHand, kernel, server
      <4> QED BY <3>1, <4>1, <4>3 DEF FirstTry
    <3>3. CASE timed_out # {}
      BY <3>1, <3>3 DEF FirstTry
    <3> QED BY <3>2, <3>3
  <2>2. CASE Accept \/ GivesUp
    <3>1. /\ step \in {"recv", "check", "blocked"} /\ step' \in {"send", "done"}
          /\ iter' = iter + 1 /\ UNCHANGED timed_out
          /\ step = "recv" => inbox # << >> /\ inbox' = Tail(inbox)
      BY <2>2 DEF Accept, GivesUp, EndIteration
    <3>2. UNCHANGED <<kernel, server, network>>
      BY <2>2, <1>1 DEF Client, ClientSends, ClientActs, Accept, GivesUp, SendRequest, SendAgain
    <3>3. timed_out' \subseteq 0 .. iter' /\ iter' \notin timed_out'
      BY <1>0, <3>1 DEF FirstTry
    <3>4. ASSUME timed_out = {} PROVE Nowhere'
      <4>1. step = "recv" /\ inbox # << >> /\ inbox' = Tail(inbox)
        BY <3>1, <3>4 DEF FirstTry
      <4>2. inbox = <<First>> /\ up = {} /\ down = {} /\ Len(sock[CL]) = 0 /\ ~InHand
        BY <3>4, <4>1 DEF FirstTry, Nowhere, Somewhere, OnTheWayUp, OnTheWayDown, InInbox, InSocket, AtServerNow, First
      <4>3. inbox' = << >>
        BY <4>1, <4>2
      <4> QED BY <3>2, <4>2, <4>3 DEF Nowhere, InHand, kernel, server, network
    <3> QED BY <3>1, <3>3, <3>4 DEF FirstTry
  <2>3. CASE TimesOut
    BY <1>0, <2>3 DEF TimesOut, FirstTry
  <2>4. CASE Block
    BY <1>0, <2>4 DEF Block, FirstTry
  <2> QED BY <1>1, <2>1, <2>2, <2>3, <2>4 DEF Client, ClientActs
<1>2. ASSUME UNCHANGED <<step, iter, timed_out>>, timed_out = {} => Nowhere' \/ (step = "recv" /\ Somewhere')
      PROVE  FirstTry'
  BY <1>2 DEF FirstTry
<1>3. CASE Server
  <2>1. /\ UNCHANGED <<step, iter, inbox, timed_out, up>>
        /\ \/ /\ pc = "wait" /\ pc' = "recv" /\ UNCHANGED <<sock, carried, down>>
           \/ /\ pc = "recv" /\ pc' = "send" /\ cur = CL /\ cur' = CL
              /\ sock[CL] # << >> /\ request' = sock[CL][1]
              /\ Len(sock'[CL]) = Len(sock[CL]) - 1
              /\ UNCHANGED <<carried, down>>
           \/ /\ pc = "recv" /\ cur # CL /\ cur' = cur
              /\ sock'[CL] = sock[CL] /\ UNCHANGED <<carried, down>>
           \/ /\ pc = "send" /\ pc' \in {"wait", "recv"} /\ cur = CL
              /\ UNCHANGED sock
              /\ down' = down \cup {carried[request]} \/ down' = down
           \/ /\ pc = "send" /\ pc' \in {"wait", "recv"} /\ cur # CL
              /\ UNCHANGED <<sock, down>>
              /\ \A k \in 1 .. Len(sock[CL]) : carried'[sock[CL][k]] = carried[sock[CL][k]]
    BY <1>3, AtServer
  <2>2. sock[CL] # << >> => Len(sock[CL]) # 0
    BY <1>0 DEF SocketsOK
  <2>3. CASE timed_out = {}
    <3>1. Nowhere \/ (step = "recv" /\ Somewhere)
      BY <2>3 DEF FirstTry
    <3>2. CASE Nowhere
      <4>1. Nowhere'
        BY <1>0, <2>1, <2>2, <3>2 DEF Nowhere, InHand
      <4> QED BY <1>2, <2>1, <4>1
    <3>3. CASE step = "recv" /\ Somewhere
      <4>1. Nowhere' \/ Somewhere'
        <5>1. CASE OnTheWayUp
          BY <2>1, <2>2, <5>1 DEF OnTheWayUp, First, InHand, Somewhere
        <5>2. CASE OnTheWayDown
          BY <2>1, <2>2, <5>2 DEF OnTheWayDown, First, InHand, Somewhere
        <5>3. CASE InInbox
          BY <2>1, <2>2, <5>3 DEF InInbox, First, InHand, Somewhere
        <5>4. CASE InSocket
          <6>1. InSocket' \/ AtServerNow'
            BY <1>0, <2>1, <2>2, <5>4 DEF InSocket, AtServerNow, First, InHand
          <6> QED BY <6>1 DEF Somewhere
        <5>5. CASE AtServerNow
          <6>1. Nowhere' \/ OnTheWayDown'
            BY <1>0, <2>1, <2>2, <5>5 DEF Nowhere, OnTheWayDown, AtServerNow, First, InHand
          <6> QED BY <6>1 DEF Somewhere
        <5> QED BY <3>3, <5>1, <5>2, <5>3, <5>4, <5>5 DEF Somewhere
      <4> QED BY <1>2, <2>1, <3>3, <4>1
    <3> QED BY <3>1, <3>2, <3>3
  <2>4. CASE timed_out # {}
    BY <1>2, <2>1, <2>4
  <2> QED BY <2>3, <2>4
<1>4. CASE RequestArrives \/ ReplyArrives \/ OthersSend \/ Lose
  <2>1. /\ UNCHANGED <<step, iter, timed_out, pc, cur, request>>
        /\ \/ \E d \in up :
                /\ up' = up \ {d} /\ UNCHANGED <<inbox, down>>
                /\ Len(sock'[CL]) = Len(sock[CL]) + 1
                /\ sock[CL] = << >> => carried'[sock'[CL][1]] = d
           \/ \E d \in down :
                /\ down' = down \ {d} /\ inbox' = Append(inbox, d)
                /\ UNCHANGED <<up, sock, carried>>
           \/ /\ sock'[CL] = sock[CL]
              /\ UNCHANGED <<up, down, inbox, carried>>
           \/ /\ UNCHANGED <<sock, carried, inbox>>
              /\ \/ \E d \in up : up' = up \ {d} /\ UNCHANGED down
                 \/ \E d \in down : down' = down \ {d} /\ UNCHANGED up
    BY <1>4, AtNetwork
  <2>2. Len(sock[CL]) = 0 => sock[CL] = << >>
    BY <1>0 DEF SocketsOK
  <2>3. inbox = << >> => \A d : Append(inbox, d) = <<d>>
    OBVIOUS
  <2>4. CASE timed_out = {} /\ Nowhere
    <3>1. Nowhere'
      BY <2>1, <2>4 DEF Nowhere, InHand
    <3> QED BY <1>2, <2>1, <3>1
  <2>5. CASE timed_out = {} /\ step = "recv" /\ Somewhere
    <3>1. Nowhere' \/ Somewhere'
      <4>1. CASE OnTheWayUp
        <5>1. Nowhere' \/ OnTheWayUp' \/ InSocket'
          BY <1>0, <2>1, <2>2, <4>1 DEF Nowhere, OnTheWayUp, InSocket, First, InHand
        <5> QED BY <5>1 DEF Somewhere
      <4>2. CASE OnTheWayDown
        <5>1. Nowhere' \/ OnTheWayDown' \/ InInbox'
          BY <1>0, <2>1, <2>2, <2>3, <4>2 DEF Nowhere, OnTheWayDown, InInbox, First, InHand
        <5> QED BY <5>1 DEF Somewhere
      <4>3. CASE InInbox
        BY <2>1, <2>2, <4>3 DEF InInbox, First, InHand, Somewhere
      <4>4. CASE InSocket
        BY <2>1, <2>2, <4>4 DEF InSocket, First, InHand, Somewhere
      <4>5. CASE AtServerNow
        BY <2>1, <2>2, <4>5 DEF AtServerNow, First, InHand, Somewhere
      <4> QED BY <2>5, <4>1, <4>2, <4>3, <4>4, <4>5 DEF Somewhere
    <3> QED BY <1>2, <2>1, <2>5, <3>1
  <2>6. CASE timed_out # {}
    BY <1>2, <2>1, <2>6
  <2> QED BY <2>4, <2>5, <2>6 DEF FirstTry
<1>5. CASE UNCHANGED <<kernel, server, client, network>>
  BY <1>5
  DEF FirstTry, Nowhere, Somewhere, OnTheWayUp, OnTheWayDown, InInbox, InSocket, AtServerNow,
      First, InHand, kernel, server, client, network
<1> QED BY <1>1, <1>3, <1>4, <1>5, SplitNext

LEMMA NextAnswersOwn == TypeInv /\ FirstTry /\ AnswersOwn /\ [Next]_vars => AnswersOwn'
<1> SUFFICES ASSUME TypeInv, FirstTry, AnswersOwn, [Next]_vars PROVE AnswersOwn'
  OBVIOUS
<1>0. /\ iter \in Nat /\ Len(answers) = iter /\ timed_out \subseteq Iterations
      /\ answers \in Seq(Iterations \cup {NoAnswer}) /\ ITERS \in Nat
  BY ITERSAssumption DEF TypeInv, ClientOK
<1>1. CASE Accept \/ GivesUp
  <2>1. PICK a \in Iterations \cup {NoAnswer} :
          /\ iter' = iter + 1 /\ answers' = Append(answers, a) /\ UNCHANGED timed_out
          /\ timed_out = {} => a = iter
    <3>1. CASE Accept
      <4>1. inbox \in Seq(Datagrams) /\ inbox # << >>
        BY <3>1 DEF Accept, TypeInv, ClientOK
      <4>2. Head(inbox) \in Datagrams /\ Head(inbox) = inbox[1]
        BY <4>1
      <4>3. Head(inbox)[1] \in Iterations
        BY <4>2 DEF Datagrams
      <4>4. timed_out = {} => Head(inbox)[1] = iter
        BY <4>1, <4>2
        DEF FirstTry, Nowhere, Somewhere, OnTheWayUp, OnTheWayDown, InInbox, InSocket, AtServerNow, First
      <4> QED BY <3>1, <4>3, <4>4 DEF Accept, EndIteration
    <3>2. CASE GivesUp
      BY <3>2 DEF GivesUp, EndIteration, FirstTry
    <3> QED BY <1>1, <3>1, <3>2
  <2>2. ASSUME NEW i \in Iterations, i < iter', timed_out' \cap (0 .. i) = {}
        PROVE  answers'[i + 1] = i
    <3>1. i \in Nat /\ (i < iter \/ i = iter)
      BY <1>0, <2>1, <2>2 DEF Iterations
    <3>2. CASE i < iter
      <4>1. answers[i + 1] = i
        BY <2>1, <2>2, <3>2 DEF AnswersOwn
      <4>2. answers'[i + 1] = answers[i + 1]
        BY <1>0, <2>1, <3>1, <3>2
      <4> QED BY <4>1, <4>2
    <3>3. CASE i = iter
      <4>1. timed_out = {}
        BY <2>1, <2>2, <3>3 DEF FirstTry
      <4>2. answers'[iter + 1] = a
        BY <1>0, <2>1
      <4> QED BY <2>1, <3>3, <4>1, <4>2
    <3> QED BY <3>1, <3>2, <3>3
  <2> QED BY <2>2 DEF AnswersOwn
<1>2. CASE TimesOut
  <2>1. timed_out \subseteq timed_out' /\ UNCHANGED <<iter, answers>>
    BY <1>2 DEF TimesOut
  <2> QED BY <2>1 DEF AnswersOwn
<1>3. CASE ClientSends \/ Block
  BY <1>3 DEF ClientSends, SendRequest, SendAgain, Block, AnswersOwn
<1>4. CASE Server
  BY <1>4, AtServer DEF AnswersOwn
<1>5. CASE RequestArrives \/ ReplyArrives \/ OthersSend \/ Lose
  BY <1>5, AtNetwork DEF AnswersOwn
<1>6. CASE UNCHANGED <<kernel, server, client, network>>
  BY <1>6 DEF AnswersOwn, client
<1> QED BY <1>1, <1>2, <1>3, <1>4, <1>5, <1>6, SplitNext DEF Client, ClientActs

(* Every answer before the client's first timeout is the answer to the     *)
(* request it is taken for.                                                *)
THEOREM AnswersAreOwn == Spec => []AnswersOwn
<1>1. Init => FirstTry /\ AnswersOwn
  <2> SUFFICES ASSUME Init PROVE FirstTry /\ AnswersOwn
    OBVIOUS
  <2>1. /\ step = "send" /\ iter = 0 /\ timed_out = {} /\ Nowhere
    BY CLInSockets DEF Init, InitClient, InitServer, InitSockets, Nowhere, InHand
  <2>2. \A i \in Iterations : ~(i < iter)
    BY <2>1, ITERSAssumption DEF Iterations
  <2> QED BY <2>1, <2>2 DEF FirstTry, AnswersOwn
<1>2. Spec => []FirstTry
  BY <1>1, NextFirstTry, TypeInvHolds, PTL DEF Spec
<1> QED BY <1>1, <1>2, NextAnswersOwn, TypeInvHolds, PTL DEF Spec
-----------------------------------------------------------------------------
(* Datagrams of the client and replies to them that nobody has taken yet.  *)
UpNo == Cardinality(up)
DownNo == Cardinality(down)
InboxNo == Len(inbox)
SockNo == Len(sock[CL])
HandNo == IF InHand THEN 1 ELSE 0
Afoot == UpNo + DownNo + InboxNo + SockNo + HandNo

(* Each iteration sends one datagram and takes one reply, except that a    *)
(* timeout sends one more and giving up takes none; a loss takes one away. *)
LossNo == IF bereft THEN 1 ELSE 0
TimeoutNo == Cardinality(timed_out)
GivenUpNo == Cardinality(GivenUp)
WaitNo == IF Awaiting THEN 1 ELSE 0
Counted == Afoot + LossNo <= TimeoutNo + GivenUpNo + WaitNo

LEMMA DatagramsFinite == IsFiniteSet(Datagrams) /\ IsFiniteSet(Iterations)
<1>1. IsFiniteSet(Iterations)
  BY FS_Interval, ITERSAssumption DEF Iterations
<1>2. IsFiniteSet({1, 2})
  <2>1. IsFiniteSet({1})
    BY FS_Singleton
  <2>2. {1, 2} = {1} \cup {2}
    OBVIOUS
  <2> QED BY <2>1, <2>2, FS_AddElement
<1> QED BY <1>1, <1>2, FS_Product DEF Datagrams

LEMMA OneMore ==
  ASSUME NEW S, IsFiniteSet(S), NEW x
  PROVE  /\ Cardinality(S) \in Nat
         /\ Cardinality(S \cup {x}) \in {Cardinality(S), Cardinality(S) + 1}
         /\ x \notin S => Cardinality(S \cup {x}) = Cardinality(S) + 1
         /\ x \in S => Cardinality(S \ {x}) = Cardinality(S) - 1
<1>1. Cardinality(S) \in Nat
  BY FS_CardinalityType
<1>2. x \notin S => Cardinality(S \cup {x}) = Cardinality(S) + 1
  BY FS_AddElement
<1>3. x \in S => S \cup {x} = S
  OBVIOUS
<1> QED BY <1>1, <1>2, <1>3, FS_RemoveElement

(* All counts are numbers.                                                 *)
LEMMA CountTypes ==
  ASSUME TypeInv
  PROVE  /\ IsFiniteSet(up) /\ IsFiniteSet(down) /\ IsFiniteSet(timed_out) /\ IsFiniteSet(GivenUp)
         /\ Cardinality(up) \in Nat /\ Cardinality(down) \in Nat
         /\ Len(inbox) \in Nat /\ Len(sock[CL]) \in Nat
         /\ Cardinality(timed_out) \in Nat /\ Cardinality(GivenUp) \in Nat
<1>1. /\ up \subseteq Datagrams /\ down \subseteq Datagrams
      /\ timed_out \subseteq Iterations /\ GivenUp \subseteq Iterations
      /\ Len(inbox) \in Nat /\ Len(sock[CL]) \in Nat
  BY LenInNat, CLInSockets DEF TypeInv, NetworkOK, ClientOK, GivenUp, ServerInv, ServerOK
<1>2. /\ IsFiniteSet(up) /\ IsFiniteSet(down) /\ IsFiniteSet(timed_out) /\ IsFiniteSet(GivenUp)
  BY <1>1, DatagramsFinite, FS_Subset
<1> QED BY <1>1, <1>2, FS_CardinalityType

(* The end of an iteration adds to GivenUp if no reply ended it.           *)
LEMMA GivenUpSteps ==
  ASSUME TypeInv, NEW a \in Iterations \cup {NoAnswer}, EndIteration(a),
         iter \in Iterations
  PROVE  GivenUp' = GivenUp \cup (IF a = NoAnswer THEN {iter} ELSE {}) /\ iter \notin GivenUp
<1>1. /\ iter \in Nat /\ Len(answers) = iter /\ iter' = iter + 1
      /\ answers \in Seq(Iterations \cup {NoAnswer}) /\ answers' = Append(answers, a)
  BY DEF TypeInv, ClientOK, EndIteration
<1>2. ASSUME NEW i \in Iterations
      PROVE  i \in GivenUp' <=> i \in GivenUp \/ (i = iter /\ a = NoAnswer)
  <2>1. i \in Nat
    BY ITERSAssumption DEF Iterations
  <2>2. CASE i < iter
    <3>1. answers'[i + 1] = answers[i + 1]
      BY <1>1, <2>1, <2>2
    <3> QED BY <1>1, <2>1, <2>2, <3>1 DEF GivenUp
  <2>3. CASE i = iter
    <3>1. answers'[i + 1] = a
      BY <1>1, <2>3
    <3> QED BY <1>1, <2>1, <2>3, <3>1 DEF GivenUp
  <2>4. CASE i > iter
    BY <1>1, <2>1, <2>4 DEF GivenUp
  <2> QED BY <1>1, <2>1, <2>2, <2>3, <2>4
<1>3. GivenUp \subseteq Iterations /\ GivenUp' \subseteq Iterations
  BY DEF GivenUp
<1>4. iter \notin GivenUp
  BY <1>1 DEF GivenUp
<1> QED BY <1>2, <1>3, <1>4

LEMMA NextCounted == TypeInv /\ TypeInv' /\ FirstTry /\ Counted /\ [Next]_vars => Counted'
<1> SUFFICES ASSUME TypeInv, TypeInv', FirstTry, Counted, [Next]_vars PROVE Counted'
  OBVIOUS
<1>0. /\ IsFiniteSet(up) /\ IsFiniteSet(down) /\ IsFiniteSet(timed_out) /\ IsFiniteSet(GivenUp)
      /\ inbox \in Seq(Datagrams)
  BY CountTypes DEF TypeInv, ClientOK
<1>a. /\ UpNo \in Nat /\ DownNo \in Nat /\ InboxNo \in Nat /\ SockNo \in Nat
      /\ HandNo \in Nat /\ LossNo \in Nat
      /\ TimeoutNo \in Nat /\ GivenUpNo \in Nat /\ WaitNo \in Nat
  BY CountTypes
  DEF UpNo, DownNo, InboxNo, SockNo, HandNo, LossNo, TimeoutNo, GivenUpNo, WaitNo
<1>b. /\ UNCHANGED up => UpNo' = UpNo
      /\ UNCHANGED down => DownNo' = DownNo
      /\ UNCHANGED inbox => InboxNo' = InboxNo
      /\ sock'[CL] = sock[CL] => SockNo' = SockNo
      /\ UNCHANGED <<pc, cur>> => HandNo' = HandNo
      /\ UNCHANGED bereft => LossNo' = LossNo
      /\ UNCHANGED timed_out => TimeoutNo' = TimeoutNo
      /\ UNCHANGED <<iter, answers>> => GivenUpNo' = GivenUpNo
      /\ UNCHANGED step => WaitNo' = WaitNo
  <2>1. UNCHANGED <<iter, answers>> => GivenUp' = GivenUp
    BY DEF GivenUp
  <2>2. UNCHANGED <<pc, cur>> => InHand' = InHand
    BY DEF InHand
  <2>3. UNCHANGED step => Awaiting' = Awaiting
    BY DEF Awaiting
  <2>4. /\ UNCHANGED <<pc, cur>> => HandNo' = HandNo
        /\ UNCHANGED step => WaitNo' = WaitNo
        /\ UNCHANGED <<iter, answers>> => GivenUpNo' = GivenUpNo
    BY <2>1, <2>2, <2>3 DEF HandNo, WaitNo, GivenUpNo
  <2> QED BY <2>4 DEF UpNo, DownNo, InboxNo, SockNo, LossNo, TimeoutNo
<1>c. ASSUME NEW d, up' = up \cup {d} PROVE UpNo' = UpNo \/ UpNo' = UpNo + 1
  BY <1>0, <1>c, OneMore DEF UpNo
<1>d. ASSUME NEW d \in up, up' = up \ {d} PROVE UpNo' = UpNo - 1
  BY <1>0, <1>d, OneMore DEF UpNo
<1>e. ASSUME NEW d \in down, down' = down \ {d} PROVE DownNo' = DownNo - 1
  BY <1>0, <1>e, OneMore DEF DownNo
<1>1. CASE ClientSends
  <2>1. /\ UNCHANGED <<iter, inbox, answers, timed_out, sock, pc, cur, down>>
        /\ up' = up \cup {Sent} /\ bereft' = FALSE
        /\ step \in {"send", "resend"} /\ step' \in {"recv", "check"}
    BY <1>1 DEF ClientSends, SendRequest, SendAgain, kernel, server
  <2>2. UpNo' = UpNo \/ UpNo' = UpNo + 1
    BY <1>c, <2>1
  <2>3. WaitNo = 0 /\ WaitNo' = 1 /\ LossNo' = 0
    BY <2>1 DEF WaitNo, Awaiting, LossNo
  <2>4. /\ DownNo' = DownNo /\ InboxNo' = InboxNo /\ SockNo' = SockNo /\ HandNo' = HandNo
        /\ TimeoutNo' = TimeoutNo /\ GivenUpNo' = GivenUpNo
    BY <1>b, <2>1
  <2> QED BY <1>a, <2>2, <2>3, <2>4 DEF Counted, Afoot
<1>2. CASE ClientActs
  <2>0. /\ UNCHANGED <<up, down, sock, pc, cur, bereft>>
        /\ iter \in 0 .. ITERS /\ ITERS \in Nat
    BY <1>2, ITERSAssumption DEF ClientActs, TypeInv, ClientOK, kernel, server, network
  <2>1. /\ UpNo' = UpNo /\ DownNo' = DownNo /\ SockNo' = SockNo /\ HandNo' = HandNo
        /\ LossNo' = LossNo
    BY <1>b, <2>0
  <2>2. CASE Accept
    <3>1. /\ inbox' = Tail(inbox) /\ inbox # << >> /\ EndIteration(Head(inbox)[1])
          /\ step \in {"recv", "blocked"} /\ step' \in {"send", "done"} /\ UNCHANGED timed_out
      BY <2>2 DEF Accept, EndIteration
    <3>2. Head(inbox) \in Datagrams /\ Len(Tail(inbox)) = Len(inbox) - 1
      BY <1>0, <3>1
    <3>3. InboxNo' = InboxNo - 1 /\ Head(inbox)[1] \in Iterations
      BY <3>1, <3>2 DEF InboxNo, Datagrams
    <3>4. GivenUpNo' = GivenUpNo
      <4>1. Head(inbox)[1] # NoAnswer
        BY <3>3, ITERSAssumption DEF Iterations, NoAnswer
      <4>2. iter \in Iterations
        BY <2>0, <3>1 DEF TypeInv, ClientOK, Iterations
      <4> QED BY <3>1, <3>3, <4>1, <4>2, GivenUpSteps DEF GivenUpNo
    <3>5. WaitNo = 1 /\ WaitNo' = 0 /\ TimeoutNo' = TimeoutNo
      BY <1>b, <3>1 DEF Awaiting, WaitNo
    <3> QED BY <1>a, <2>1, <3>3, <3>4, <3>5 DEF Counted, Afoot
  <2>3. CASE TimesOut
    <3>1. /\ step = "recv" /\ step' = "resend" /\ timed_out' = timed_out \cup {iter}
          /\ UNCHANGED <<iter, inbox, answers>>
      BY <2>3 DEF TimesOut
    <3>2. TimeoutNo' = TimeoutNo + 1
      BY <1>0, <3>1, OneMore DEF FirstTry, TimeoutNo
    <3>3. WaitNo = 1 /\ WaitNo' = 0 /\ InboxNo' = InboxNo /\ GivenUpNo' = GivenUpNo
      BY <1>b, <3>1 DEF Awaiting, WaitNo
    <3> QED BY <1>a, <2>1, <3>2, <3>3 DEF Counted, Afoot
  <2>4. CASE Block
    <3>1. /\ WaitNo' = WaitNo /\ InboxNo' = InboxNo
          /\ TimeoutNo' = TimeoutNo /\ GivenUpNo' = GivenUpNo
      BY <1>b, <2>4 DEF Block, Awaiting, WaitNo
    <3> QED BY <1>a, <2>1, <3>1 DEF Counted, Afoot
  <2>5. CASE GivesUp
    <3>1. /\ step = "check" /\ step' \in {"send", "done"} /\ EndIteration(NoAnswer)
          /\ UNCHANGED <<inbox, timed_out>>
      BY <2>5 DEF GivesUp, EndIteration
    <3>2. iter \in Iterations
      BY <2>0, <3>1 DEF TypeInv, ClientOK, Iterations
    <3>3. GivenUp' = GivenUp \cup {iter} /\ iter \notin GivenUp
      BY <3>1, <3>2, GivenUpSteps
    <3>4. GivenUpNo' = GivenUpNo + 1
      BY <1>0, <3>3, OneMore DEF GivenUpNo
    <3>5. WaitNo = 1 /\ WaitNo' = 0 /\ InboxNo' = InboxNo /\ TimeoutNo' = TimeoutNo
      BY <1>b, <3>1 DEF Awaiting, WaitNo
    <3> QED BY <1>a, <2>1, <3>4, <3>5 DEF Counted, Afoot
  <2> QED BY <1>2, <2>2, <2>3, <2>4, <2>5 DEF ClientActs
<1>3. CASE Server
  <2>0. /\ UNCHANGED <<step, iter, inbox, answers, timed_out, up>>
        /\ UpNo' = UpNo /\ InboxNo' = InboxNo
        /\ TimeoutNo' = TimeoutNo /\ GivenUpNo' = GivenUpNo /\ WaitNo' = WaitNo
    BY <1>3, <1>b, AtServer
  <2>1. CASE sock'[CL] = sock[CL] /\ UNCHANGED <<down, bereft>> /\ ~InHand /\ ~InHand'
    <3>1. DownNo' = DownNo /\ SockNo' = SockNo /\ HandNo' = HandNo /\ LossNo' = LossNo
      BY <1>b, <2>1 DEF HandNo
    <3> QED BY <1>a, <2>0, <3>1 DEF Counted, Afoot
  <2>2. CASE Len(sock'[CL]) = Len(sock[CL]) - 1 /\ ~InHand /\ InHand' /\ UNCHANGED <<down, bereft>>
    <3>1. DownNo' = DownNo /\ SockNo' = SockNo - 1 /\ HandNo = 0 /\ HandNo' = 1 /\ LossNo' = LossNo
      BY <1>b, <2>2 DEF HandNo, SockNo
    <3> QED BY <1>a, <2>0, <3>1 DEF Counted, Afoot
  <2>3. CASE /\ InHand /\ ~InHand' /\ UNCHANGED sock
             /\ down' = down \cup {carried[request]} /\ UNCHANGED bereft
    <3>1. DownNo' = DownNo \/ DownNo' = DownNo + 1
      BY <1>0, <2>3, OneMore DEF DownNo
    <3>2. SockNo' = SockNo /\ HandNo = 1 /\ HandNo' = 0 /\ LossNo' = LossNo
      BY <1>b, <2>3 DEF HandNo
    <3> QED BY <1>a, <2>0, <3>1, <3>2 DEF Counted, Afoot
  <2>4. CASE InHand /\ ~InHand' /\ UNCHANGED <<sock, down>> /\ bereft' = TRUE
    <3>1. /\ DownNo' = DownNo /\ SockNo' = SockNo /\ HandNo = 1 /\ HandNo' = 0 /\ LossNo' = 1
      BY <1>b, <2>4 DEF HandNo, LossNo
    <3> QED BY <1>a, <2>0, <3>1 DEF Counted, Afoot
  <2> QED BY <1>3, <2>1, <2>2, <2>3, <2>4, AtServer DEF InHand
<1>4. CASE RequestArrives \/ ReplyArrives \/ OthersSend \/ Lose
  <2>0. /\ HandNo' = HandNo
        /\ TimeoutNo' = TimeoutNo /\ GivenUpNo' = GivenUpNo /\ WaitNo' = WaitNo
    BY <1>b, <1>4, AtNetwork
  <2>1. ASSUME NEW d \in up, up' = up \ {d}, UNCHANGED <<inbox, down, bereft>>,
               Len(sock'[CL]) = Len(sock[CL]) + 1
        PROVE  Counted'
    <3>1. UpNo' = UpNo - 1
      BY <1>d, <2>1
    <3>2. /\ DownNo' = DownNo /\ InboxNo' = InboxNo /\ SockNo' = SockNo + 1 /\ LossNo' = LossNo
      BY <1>b, <2>1 DEF SockNo
    <3> QED BY <1>a, <2>0, <3>1, <3>2 DEF Counted, Afoot
  <2>2. ASSUME NEW d \in down, down' = down \ {d}, inbox' = Append(inbox, d),
               UNCHANGED <<up, sock, bereft>>
        PROVE  Counted'
    <3>1. DownNo' = DownNo - 1
      BY <1>e, <2>2
    <3>2. InboxNo' = InboxNo + 1
      BY <1>0, <2>2 DEF TypeInv, NetworkOK, InboxNo
    <3>3. UpNo' = UpNo /\ SockNo' = SockNo /\ LossNo' = LossNo
      BY <1>b, <2>2
    <3> QED BY <1>a, <2>0, <3>1, <3>2, <3>3 DEF Counted, Afoot
  <2>3. ASSUME sock'[CL] = sock[CL], UNCHANGED <<up, down, inbox, bereft>>
        PROVE  Counted'
    <3>1. /\ UpNo' = UpNo /\ DownNo' = DownNo /\ InboxNo' = InboxNo /\ SockNo' = SockNo
          /\ LossNo' = LossNo
      BY <1>b, <2>3
    <3> QED BY <1>a, <2>0, <3>1 DEF Counted, Afoot
  <2>4. ASSUME UNCHANGED <<sock, inbox, down>>, bereft' = TRUE,
               NEW d \in up, up' = up \ {d}
        PROVE  Counted'
    <3>1. UpNo' = UpNo - 1 /\ LossNo' = 1 /\ LossNo \in {0, 1}
      BY <1>d, <2>4 DEF LossNo
    <3>2. DownNo' = DownNo /\ InboxNo' = InboxNo /\ SockNo' = SockNo
      BY <1>b, <2>4
    <3> QED BY <1>a, <2>0, <3>1, <3>2 DEF Counted, Afoot
  <2>5. ASSUME UNCHANGED <<sock, inbox, up>>, bereft' = TRUE,
               NEW d \in down, down' = down \ {d}
        PROVE  Counted'
    <3>1. DownNo' = DownNo - 1 /\ LossNo' = 1 /\ LossNo \in {0, 1}
      BY <1>e, <2>5 DEF LossNo
    <3>2. UpNo' = UpNo /\ InboxNo' = InboxNo /\ SockNo' = SockNo
      BY <1>b, <2>5
    <3> QED BY <1>a, <2>0, <3>1, <3>2 DEF Counted, Afoot
  <2> QED BY <1>4, <2>1, <2>2, <2>3, <2>4, <2>5, AtNetwork
<1>5. CASE UNCHANGED <<kernel, server, client, network>>
  <2>1. /\ UpNo' = UpNo /\ DownNo' = DownNo /\ InboxNo' = InboxNo /\ SockNo' = SockNo
        /\ HandNo' = HandNo /\ LossNo' = LossNo
        /\ TimeoutNo' = TimeoutNo /\ GivenUpNo' = GivenUpNo /\ WaitNo' = WaitNo
    BY <1>b, <1>5 DEF kernel, server, client, network
  <2> QED BY <2>1 DEF Counted, Afoot
<1> QED BY <1>1, <1>2, <1>3, <1>4, <1>5, SplitNext DEF Client

(* What the server has left in the client's socket was sent twice, or its  *)
(* reply was not waited for.                                               *)
THEOREM FewAreStranded == Spec => []StrandedByTimeouts
<1>1. Init => FirstTry /\ Counted
  <2> SUFFICES ASSUME Init PROVE FirstTry /\ Counted
    OBVIOUS
  <2>1. /\ step = "send" /\ iter = 0 /\ timed_out = {} /\ Nowhere /\ bereft = FALSE
    BY CLInSockets DEF Init, InitClient, InitServer, InitSockets, Nowhere, InHand
  <2>2. GivenUp = {}
    BY <2>1, ITERSAssumption DEF GivenUp, Iterations
  <2>3. /\ UpNo = 0 /\ DownNo = 0 /\ InboxNo = 0 /\ SockNo = 0 /\ HandNo = 0 /\ LossNo = 0
        /\ TimeoutNo = 0 /\ GivenUpNo = 0 /\ WaitNo = 0
    BY <2>1, <2>2, FS_EmptySet
    DEF Nowhere, UpNo, DownNo, InboxNo, SockNo, HandNo, LossNo, TimeoutNo, GivenUpNo, WaitNo,
        Awaiting
  <2> QED BY <2>1, <2>3 DEF FirstTry, Counted, Afoot
<1>2. TypeInv /\ Counted /\ AnswerToCome => StrandedByTimeouts
  <2> SUFFICES ASSUME TypeInv, Counted, AnswerToCome, CL \notin ToBeRead
               PROVE  SockNo <= TimeoutNo + GivenUpNo
    BY DEF StrandedByTimeouts, SockNo, TimeoutNo, GivenUpNo
  <2>1. /\ UpNo \in Nat /\ DownNo \in Nat /\ InboxNo \in Nat /\ SockNo \in Nat
        /\ HandNo \in {0, 1} /\ LossNo \in {0, 1}
        /\ TimeoutNo \in Nat /\ GivenUpNo \in Nat /\ WaitNo \in {0, 1}
    BY CountTypes
    DEF UpNo, DownNo, InboxNo, SockNo, HandNo, LossNo, TimeoutNo, GivenUpNo, WaitNo
  <2>2. CASE ~Awaiting \/ bereft
    <3>1. WaitNo = 0 \/ LossNo = 1
      BY <2>2 DEF WaitNo, LossNo
    <3> QED BY <2>1, <3>1 DEF Counted, Afoot
  <2>3. CASE Awaiting /\ ~bereft
    <3>1. up # {} \/ down # {} \/ inbox # << >> \/ InHand
      BY <2>3 DEF AnswerToCome, InHand
    <3>2. IsFiniteSet(up) /\ IsFiniteSet(down) /\ inbox \in Seq(Datagrams)
      BY CountTypes DEF TypeInv, ClientOK
    <3>3. /\ up # {} => UpNo # 0
          /\ down # {} => DownNo # 0
          /\ inbox # << >> => InboxNo # 0
          /\ InHand => HandNo # 0
      BY <3>2, FS_EmptySet DEF UpNo, DownNo, InboxNo, HandNo
    <3> QED BY <2>1, <3>1, <3>3 DEF Counted, Afoot
  <2> QED BY <2>2, <2>3
<1>3. Spec => []FirstTry
  BY <1>1, NextFirstTry, TypeInvHolds, PTL DEF Spec
<1>4. Spec => []Counted
  BY <1>1, <1>3, NextCounted, TypeInvHolds, PTL DEF Spec
<1> QED BY <1>2, <1>4, AnswerIsToCome, TypeInvHolds, PTL
-----------------------------------------------------------------------------
(* No request that the server has in hand, or has not yet received, has    *)
(* had a reply.                                                            *)
Unanswered ==
  \A f \in Sockets, n \in 1 .. MaxRequests :
    n > Gone(f) \/ (pc = "send" /\ f = cur /\ n = Gone(cur)) => replies[<<f, n>>] = 0

LEMMA NextUnanswered == ServerInv /\ Unanswered /\ ServerStep => Unanswered'
<1> SUFFICES ASSUME ServerInv, Unanswered, ServerStep PROVE Unanswered'
  OBVIOUS
<1>0. SocketsOK /\ Ordered /\ cur \in Sockets /\ \A f \in Sockets : Gone(f) \in Nat
  BY GoneType DEF ServerInv, ServerOK
<1>1. CASE Receive
  <2>1. /\ sock[cur] # << >> /\ TakeFirst(cur) /\ UNCHANGED <<arrived, replies, cur>>
    BY <1>1 DEF Receive
  <2>2. /\ Gone(cur)' = Gone(cur) + 1
        /\ \A f \in Sockets : f # cur => Gone(f)' = Gone(f)
    BY <1>0, <2>1, TakeOrdered
  <2>3. ASSUME NEW f \in Sockets, NEW n \in 1 .. MaxRequests,
               n > Gone(f)' \/ (f = cur /\ n = Gone(cur)')
        PROVE  replies'[<<f, n>>] = 0
    <3>1. CASE f = cur
      <4>1. Gone(f)' = Gone(f) + 1
        BY <2>1, <2>2, <3>1 DEF Gone
      <4>2. n > Gone(f)' \/ n = Gone(f)'
        BY <2>1, <2>3, <3>1 DEF Gone
      <4>3. n > Gone(f)
        BY <1>0, <4>1, <4>2
      <4> QED BY <2>1, <4>3 DEF Unanswered
    <3>2. CASE f # cur
      BY <1>0, <2>1, <2>2, <2>3, <3>2 DEF Gone, Unanswered
    <3> QED BY <3>1, <3>2
  <2> QED BY <1>0, <2>1, <2>3 DEF Unanswered, Gone
<1>2. CASE \E g \in Sockets : Arrive(g) /\ UNCHANGED server
  <2>1. PICK g \in Sockets : Arrive(g) /\ UNCHANGED server
    BY <1>2
  <2>2. \A f \in Sockets : Gone(f)' = Gone(f)
    BY <1>0, <2>1, ArriveOrdered
  <2>3. UNCHANGED <<pc, cur, replies>>
    BY <2>1 DEF Arrive, server
  <2>4. Gone(cur)' = Gone(cur)
    BY <1>0, <2>2, <2>3 DEF Gone
  <2> QED BY <2>2, <2>3, <2>4 DEF Unanswered
<1>3. CASE SendReply
  <2>1. UNCHANGED <<arrived, sock>> /\ pc = "send" /\ pc' # "send" /\ ReplyTo(request)
    BY <1>3 DEF SendReply, NextEvent
  <2>2. request = <<cur, Gone(cur)>>
    BY <2>1 DEF ServerInv
  <2>3. ASSUME NEW f \in Sockets, NEW n \in 1 .. MaxRequests, n > Gone(f)
        PROVE  replies'[<<f, n>>] = 0
    <3>1. <<f, n>> # request
      BY <1>0, <2>2, <2>3
    <3>2. replies'[<<f, n>>] = replies[<<f, n>>]
      BY <1>0, <2>1, <3>1 DEF ReplyTo, SocketsOK, Requests
    <3> QED BY <3>2, <2>3 DEF Unanswered
  <2> QED BY <1>0, <2>1, <2>3 DEF Unanswered, Gone
<1>4. CASE EpollWait \/ SendFails \/ UNCHANGED <<kernel, server>>
  <2>1. /\ UNCHANGED <<arrived, sock, replies>>
        /\ pc' # "send" \/ UNCHANGED <<pc, cur>>
    BY <1>4 DEF EpollWait, SendFails, NextEvent, kernel, server
  <2> QED BY <2>1 DEF Unanswered, Gone
<1> QED BY <1>1, <1>2, <1>3, <1>4 DEF ServerStep

(* Whatever the server leaves in its sockets, it answers nothing twice and *)
(* nothing that has not arrived, and drops only what it cannot send.       *)
THEOREM ServerAnswersOnce == Spec => AnswersOnce
<1>1. Init => Echo!Init /\ Unanswered
  BY DEF Init, InitServer, InitSockets, Echo!Init, InSockets, Unanswered, Gone, Requests
<1>2. ServerInv /\ Unanswered /\ ServerInv' /\ ServerStep => [Echo!Next]_(Echo!vars)
  <2> SUFFICES ASSUME ServerInv, Unanswered, ServerInv', ServerStep
               PROVE  [Echo!Next]_(Echo!vars)
    OBVIOUS
  <2>0. /\ SocketsOK /\ Ordered /\ SocketsOK' /\ cur \in Sockets
        /\ \A f \in Sockets : arrived[f] \in Nat /\ Gone(f) \in Nat /\ Gone(f) <= arrived[f]
    BY GoneType DEF ServerInv, ServerOK
  <2>1. CASE EpollWait \/ UNCHANGED <<kernel, server>>
    <3>1. /\ UNCHANGED <<sock, replies>>
          /\ \/ pc # "send" /\ pc' # "send"
             \/ UNCHANGED <<pc, request>>
      BY <2>1 DEF EpollWait, kernel, server
    <3> QED BY <3>1 DEF Echo!vars, InSockets
  <2>2. CASE Receive
    <3>1. InSockets = InSockets' \cup {Head(sock[cur])}
      BY <2>0, <2>2, TakeInSockets DEF Receive
    <3> QED BY <2>2, <3>1 DEF Receive, Echo!vars
  <2>3. CASE SendReply \/ SendFails
    <3>1. /\ pc = "send" /\ pc' # "send" /\ UNCHANGED sock
          /\ request \in Requests /\ request = <<cur, Gone(cur)>>
          /\ ReplyTo(request) \/ (request \in Refused /\ UNCHANGED replies)
      BY <2>3 DEF SendReply, SendFails, NextEvent, kernel, ServerInv, ServerOK
    <3>2. request \notin InSockets /\ InSockets' = InSockets
      BY <2>0, <3>1, GoneNotHeld DEF InSockets
    <3>3. Echo!Answer(request) \/ Echo!Forget(request)
      BY <3>1, <3>2 DEF Echo!Answer, Echo!Forget, ReplyTo
    <3> QED BY <3>1, <3>3 DEF Echo!Next
  <2>4. CASE \E g \in Sockets : Arrive(g) /\ UNCHANGED server
    <3>1. PICK g \in Sockets : Arrive(g) /\ UNCHANGED server
      BY <2>4
    <3> DEFINE r == <<g, arrived[g] + 1>>
    <3>2. r \in Requests /\ r \notin InSockets /\ InSockets' = InSockets \cup {r}
      BY <2>0, <3>1, ArriveOrdered, ArriveInSockets
    <3>3. UNCHANGED <<pc, request, replies>>
      BY <3>1 DEF Arrive, server
    <3>4. arrived[g] + 1 \in 1 .. MaxRequests
      BY <3>2 DEF Requests
    <3>5. replies[r] = 0
      BY <2>0, <3>4 DEF Unanswered
    <3>6. pc = "send" => request # r
      BY <2>0 DEF ServerInv
    <3>7. Echo!Accept(r)
      BY <3>2, <3>3, <3>5, <3>6 DEF Echo!Accept
    <3> QED BY <3>2, <3>7 DEF Echo!Next
  <2> QED BY <2>1, <2>2, <2>3, <2>4 DEF ServerStep
<1>3. Spec => []Unanswered
  <2>1. ServerInv /\ Unanswered /\ [Next]_vars => Unanswered'
    BY StepOfServer, NextUnanswered
  <2> QED BY <1>1, <2>1, ServerInvHolds, PTL DEF Spec
<1>4. ServerInv /\ Unanswered /\ ServerInv' /\ [Next]_vars => [Echo!Next]_(Echo!vars)
  BY <1>2, StepOfServer
<1> QED BY <1>1, <1>3, <1>4, ServerInvHolds, PTL DEF Spec, AnswersOnce, Echo!Spec
=============================================================================

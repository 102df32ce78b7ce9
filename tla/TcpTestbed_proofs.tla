-------------------------- MODULE TcpTestbed_proofs --------------------------
(***************************************************************************)
(* Theorems about the TCP server and its client, for every number of       *)
(* connections, length of a message and capacity of a stream.              *)
(***************************************************************************)
EXTENDS TcpTestbed, TLAPS

USE StreamsAssumption, SamplesAssumption

(* The open-loop connections, when there are any, come before the last.    *)
LEMMA OpenLoopIs ==
  /\ Latency \in Conns /\ OpenLoop \subseteq Conns /\ Latency \notin OpenLoop
  /\ \A c \in Conns : c \in OpenLoop <=> c < NumConns
  /\ OpenLoop # {} <=> 1 \in OpenLoop
BY DEF Conns, OpenLoop, Latency

LEMMA TakenIs ==
  ASSUME NEW n \in Nat \ {0}
  PROVE  /\ Taken(n) \in 1 .. MsgLen /\ n - Taken(n) \in Nat
         /\ Taken(n) = n \/ Taken(n) = MsgLen
BY DEF Taken

(* The end of an event leaves the server at another one, or waiting.       *)
LEMMA NextEventIs ==
  ASSUME TypeOK, spc # "wait", NextEvent
  PROVE  /\ events' = events \ {conn} /\ events' \subseteq 0 .. accepted
         /\ conn' \in 0 .. accepted /\ got' = 0
         /\ spc' \in {"wait", "event"} /\ (spc' = "wait" <=> events' = {})
         /\ spc' # "wait" => conn' \in events'
BY DEF TypeOK, ServerOK, NextEvent

LEMMA InitType == Init => TypeOK
<1> SUFFICES ASSUME Init PROVE TypeOK
  OBVIOUS
<1>1. StreamsOK
  <2>1. /\ toServer \in [Conns -> Nat] /\ atServer \in [Conns -> Nat]
        /\ toClient \in [Conns -> Nat] /\ atClient \in [Conns -> Nat]
    BY DEF Init, InitStreams
  <2>2. serverEdge \in [Conns -> BOOLEAN] /\ clientEdge \in [Conns -> BOOLEAN]
    BY DEF Init, InitStreams
  <2>3. connected \in 0 .. NumConns /\ backlog \in 0 .. connected /\ crowded \in Nat
    BY DEF Init, InitStreams
  <2>4. listenEdge \in BOOLEAN /\ closed \subseteq Conns
    BY DEF Init, InitStreams
  <2> QED BY <2>1, <2>2, <2>3, <2>4 DEF StreamsOK
<1>2. ServerOK
  BY DEF Init, InitStreams, InitServer, ServerOK
<1>3. ClientOK
  BY OpenLoopIs DEF Init, InitStreams, InitClient, ClientOK, Conns
<1> QED BY <1>1, <1>2, <1>3 DEF TypeOK

LEMMA StreamsType ==
  ASSUME TypeOK, Makes \/ \E c \in Conns : Arrives(c)
  PROVE  TypeOK'
<1> USE DEF TypeOK
<1>1. CASE Makes
  <2>1. StreamsOK' /\ accepted + backlog' = connected'
    BY <1>1 DEF Makes, Connect, StreamsOK, ServerOK, requests, responses, server
  <2> QED BY <1>1, <2>1 DEF Makes, Connect, StreamsOK, ServerOK, ClientOK, requests, server,
             client, openloop, closedloop
<1>2. ASSUME NEW c \in Conns, Arrives(c) PROVE TypeOK'
  <2>1. CASE RequestBytes(c)
    <3>1. PICK k \in 1 .. toServer[c] :
            /\ toServer' = [toServer EXCEPT ![c] = @ - k]
            /\ atServer' = [atServer EXCEPT ![c] = @ + k]
            /\ serverEdge' = [serverEdge EXCEPT ![c] = TRUE]
            /\ UNCHANGED <<closed, listening, responses>>
      BY <2>1 DEF RequestBytes
    <3>2. toServer[c] \in Nat /\ atServer[c] \in Nat
      BY DEF StreamsOK
    <3>3. toServer[c] - k \in Nat /\ atServer[c] + k \in Nat
      BY <3>2
    <3>4. StreamsOK'
      BY <3>1, <3>3 DEF StreamsOK, listening, responses
    <3> QED BY <1>2, <3>1, <3>4 DEF Arrives, StreamsOK, ServerOK, ClientOK, listening, responses,
               server, client, openloop, closedloop
  <2>2. CASE ResponseBytes(c)
    <3>1. PICK k \in 1 .. toClient[c] :
            /\ toClient' = [toClient EXCEPT ![c] = @ - k]
            /\ atClient' = [atClient EXCEPT ![c] = @ + k]
            /\ clientEdge' = [clientEdge EXCEPT ![c] = TRUE]
            /\ UNCHANGED <<listening, requests>>
      BY <2>2 DEF ResponseBytes
    <3>2. toClient[c] \in Nat /\ atClient[c] \in Nat
      BY DEF StreamsOK
    <3>3. toClient[c] - k \in Nat /\ atClient[c] + k \in Nat
      BY <3>2
    <3>4. StreamsOK'
      BY <3>1, <3>3 DEF StreamsOK, listening, requests
    <3> QED BY <1>2, <3>1, <3>4 DEF Arrives, StreamsOK, ServerOK, ClientOK, listening, requests,
               server, client, openloop, closedloop
  <2> QED BY <1>2, <2>1, <2>2 DEF Arrives
<1> QED BY <1>1, <1>2

LEMMA ServerType == ASSUME TypeOK, ServerActs PROVE TypeOK'
<1> USE DEF TypeOK
<1>0. ClientOK' <=> (Latency \in closed' <=> lpc = "done")
  BY DEF ServerActs, ClientOK, client, openloop, closedloop
<1>1. CASE EpollWait
  <2>1. Reported \subseteq 0 .. accepted /\ accepted \in Nat
    BY DEF Reported, Conns, StreamsOK, ServerOK
  <2>2. StreamsOK'
    BY <1>1 DEF EpollWait, StreamsOK, responses
  <2>3. ServerOK'
    BY <1>1, <2>1 DEF EpollWait, ServerOK
  <2> QED BY <1>0, <1>1, <2>2, <2>3 DEF EpollWait, ClientOK
<1>2. CASE Accept
  <2>1. accepted' \in Conns /\ accepted' = accepted + 1 /\ accepted \in Nat
    BY <1>2 DEF Accept, StreamsOK, ServerOK, Conns
  <2>2. StreamsOK'
    BY <1>2, <2>1 DEF Accept, StreamsOK, ServerOK, responses
  <2>3. ServerOK'
    BY <1>2, <2>1, NextEventIs DEF Accept, ServerOK, StreamsOK
  <2> QED BY <1>0, <1>2, <2>2, <2>3 DEF Accept, ClientOK
<1>3. CASE Ignore \/ PeerClosed
  <2>1. /\ spc = "event" /\ NextEvent
        /\ UNCHANGED <<accepted, listening, requests, responses>>
    BY <1>3 DEF Ignore, PeerClosed
  <2>2. StreamsOK'
    BY <2>1 DEF StreamsOK, listening, requests, responses
  <2>3. ServerOK'
    BY <2>1, NextEventIs DEF ServerOK, listening
  <2> QED BY <1>0, <2>1, <2>2, <2>3 DEF requests, ClientOK
<1>4. CASE Receive
  <2>1. conn \in Conns /\ atServer[conn] \in Nat \ {0} /\ got \in Nat
    BY <1>4 DEF Receive, StreamsOK, ServerOK, Conns
  <2>2. StreamsOK'
    BY <1>4, <2>1, TakenIs DEF Receive, StreamsOK, listening, responses
  <2>3. got' \in 0 .. (MsgLen - 1) /\ (spc' = "event" \/ (spc' = "send" /\ got' = 0))
    <3> DEFINE t == Taken(atServer[conn])
    <3>1. t \in 1 .. MsgLen
      BY <2>1, TakenIs
    <3>2. \/ got + t < MsgLen /\ got' = got + t /\ spc' = "event"
          \/ got' = 0 /\ spc' = "send"
      BY <1>4 DEF Receive
    <3> QED BY <2>1, <3>1, <3>2
  <2>4. ServerOK'
    BY <1>4, <2>3 DEF Receive, ServerOK, listening
  <2> QED BY <1>0, <1>4, <2>2, <2>4 DEF Receive, ClientOK
<1>5. CASE Send
  <2>1. conn \in Conns /\ toClient[conn] + MsgLen \in Nat
    BY <1>5 DEF Send, StreamsOK, ServerOK, Conns
  <2>2. StreamsOK'
    BY <1>5, <2>1 DEF Send, StreamsOK, listening, requests
  <2>3. ServerOK'
    BY <1>5, NextEventIs DEF Send, ServerOK, listening
  <2> QED BY <1>0, <1>5, <2>2, <2>3 DEF Send, ClientOK, requests
<1> QED BY <1>1, <1>2, <1>3, <1>4, <1>5 DEF ServerActs, Server

LEMMA ClientType == ASSUME TypeOK, ClientActs PROVE TypeOK'
<1> USE DEF TypeOK
<1>0. UNCHANGED <<accepted, spc, events, conn, got>>
  BY DEF ClientActs, server
<1>1. CASE Due
  BY <1>0, <1>1 DEF Due, Started, StreamsOK, ServerOK, ClientOK, closedloop, listening, requests,
     responses
<1>2. CASE SendRequest
  <2>1. turn \in OpenLoop /\ turn \in Conns /\ toServer[turn] + MsgLen \in Nat
    BY <1>2 DEF SendRequest, StreamsOK, ClientOK
  <2>2. turn' \in OpenLoop
    BY <1>2, <2>1, OpenLoopIs DEF SendRequest, Conns
  <2>3. StreamsOK'
    BY <1>2, <2>1 DEF SendRequest, StreamsOK, listening, responses
  <2> QED BY <1>0, <1>2, <2>2, <2>3, OpenLoopIs DEF SendRequest, ServerOK, ClientOK, closedloop,
             listening
<1>3. CASE Poll
  <2>1. /\ clientEdge' \in [Conns -> BOOLEAN] /\ Readable \subseteq OpenLoop
        /\ OpenLoop # {} /\ replied' = Readable
        /\ UNCHANGED <<turn, ogot, closedloop, listening, toServer, atServer, toClient, atClient>>
    BY <1>3 DEF Poll, Started, Readable
  <2>2. \/ /\ opc' = "closed" /\ closed' = closed \cup OpenLoop /\ UNCHANGED reading
           /\ serverEdge' \in [Conns -> BOOLEAN]
        \/ /\ opc' = "loop" /\ UNCHANGED <<closed, serverEdge, reading>>
        \/ /\ opc' = "recv" /\ reading' \in replied' /\ UNCHANGED <<closed, serverEdge>>
    BY <1>3 DEF Poll, EndTurn, StreamsOK
  <2>3. StreamsOK'
    BY <2>1, <2>2, OpenLoopIs DEF StreamsOK, listening
  <2>4. ClientOK'
    BY <2>1, <2>2, OpenLoopIs DEF ClientOK, closedloop
  <2> QED BY <1>0, <2>1, <2>3, <2>4 DEF ServerOK, listening
<1>4. CASE ReceiveReply
  <2>1. reading \in OpenLoop /\ reading \in Conns /\ atClient[reading] \in Nat \ {0}
    BY <1>4, OpenLoopIs DEF ReceiveReply, StreamsOK, ClientOK
  <2> DEFINE t == Taken(atClient[reading])
  <2>2. t \in 1 .. MsgLen /\ atClient[reading] - t \in Nat
    BY <2>1, TakenIs
  <2>3. /\ atClient' = [atClient EXCEPT ![reading] = @ - t]
        /\ UNCHANGED <<turn, closedloop, listening, toServer, atServer, toClient, clientEdge>>
    BY <1>4 DEF ReceiveReply
  <2>4. \/ /\ ogot + t < MsgLen /\ ogot' = ogot + t
           /\ UNCHANGED <<opc, replied, reading, closed, serverEdge>>
        \/ /\ ogot' = 0 /\ replied' = replied \ {reading}
           /\ opc' = "closed" /\ closed' = closed \cup OpenLoop /\ UNCHANGED reading
           /\ serverEdge' \in [Conns -> BOOLEAN]
        \/ /\ ogot' = 0 /\ replied' = replied \ {reading}
           /\ opc' = "loop" /\ UNCHANGED <<closed, serverEdge, reading>>
        \/ /\ ogot' = 0 /\ replied' = replied \ {reading}
           /\ reading' \in replied' /\ UNCHANGED <<opc, closed, serverEdge>>
    BY <1>4 DEF ReceiveReply, EndTurn, StreamsOK
  <2>5. ogot' \in 0 .. (MsgLen - 1)
    BY <2>2, <2>4 DEF ClientOK
  <2>6. StreamsOK'
    BY <2>2, <2>3, <2>4, OpenLoopIs DEF StreamsOK, listening
  <2>7. ClientOK'
    BY <1>4, <2>3, <2>4, <2>5, OpenLoopIs DEF ClientOK, closedloop, ReceiveReply
  <2> QED BY <1>0, <2>3, <2>6, <2>7 DEF ServerOK, listening
<1>5. CASE LatencySends
  <2>1. Latency \in Conns /\ toServer[Latency] + MsgLen \in Nat
    BY OpenLoopIs DEF StreamsOK
  <2>2. StreamsOK'
    BY <1>5, <2>1 DEF LatencySends, StreamsOK, listening, responses
  <2> QED BY <1>0, <1>5, <2>2 DEF LatencySends, ServerOK, ClientOK, openloop, listening
<1>6. CASE LatencyReceives
  <2> DEFINE t == Taken(atClient[Latency])
  <2>1. Latency \in Conns /\ atClient[Latency] \in Nat \ {0}
    BY <1>6, OpenLoopIs DEF LatencyReceives, StreamsOK
  <2>2. t \in 1 .. MsgLen /\ atClient[Latency] - t \in Nat
    BY <2>1, TakenIs
  <2>3. /\ atClient' = [atClient EXCEPT ![Latency] = @ - t] /\ lpc = "recv"
        /\ UNCHANGED <<openloop, listening, toServer, atServer, toClient, clientEdge>>
    BY <1>6 DEF LatencyReceives
  <2>4. \/ /\ lgot + t < MsgLen /\ lgot' = lgot + t
           /\ UNCHANGED <<lpc, measured, closed, serverEdge>>
        \/ /\ lgot' = 0 /\ measured' = measured + 1 /\ measured' < Samples
           /\ lpc' = "send" /\ UNCHANGED <<closed, serverEdge>>
        \/ /\ lgot' = 0 /\ measured' = measured + 1 /\ ~(measured' < Samples)
           /\ lpc' = "done" /\ closed' = closed \cup {Latency}
           /\ serverEdge' = [serverEdge EXCEPT ![Latency] = TRUE]
    BY <1>6 DEF LatencyReceives
  <2>5. measured \in 0 .. (Samples - 1) /\ Latency \notin closed
    BY <2>3 DEF ClientOK
  <2>6. lgot' \in 0 .. (MsgLen - 1)
    BY <2>2, <2>4 DEF ClientOK
  <2>7. StreamsOK'
    BY <2>1, <2>2, <2>3, <2>4 DEF StreamsOK, listening
  <2>8. ClientOK'
    BY <2>3, <2>4, <2>5, <2>6 DEF ClientOK, openloop
  <2> QED BY <1>0, <2>3, <2>7, <2>8 DEF ServerOK, listening
<1> QED BY <1>1, <1>2, <1>3, <1>4, <1>5, <1>6 DEF ClientActs, OpenLoopThread, LatencyThread

LEMMA NextType == TypeOK /\ [Next]_vars => TypeOK'
<1> SUFFICES ASSUME TypeOK, [Next]_vars PROVE TypeOK'
  OBVIOUS
<1>1. CASE UNCHANGED vars
  BY <1>1 DEF vars, TypeOK, StreamsOK, ServerOK, ClientOK, listening, requests, responses, server,
     client, openloop, closedloop
<1> QED BY <1>1, StreamsType, ServerType, ClientType DEF Next

(* Every reachable state is one the types allow: the counts of connections *)
(* add up, and whoever is in a loop is in it for an event it was given.    *)
THEOREM TypeCorrect == Spec => []TypeOK
BY InitType, NextType, PTL DEF Spec
-----------------------------------------------------------------------------
(* The counts of the closed-loop connection, each a number of bytes.       *)
LEMMA Counts ==
  ASSUME TypeOK
  PROVE  /\ toServer[Latency] \in Nat /\ atServer[Latency] \in Nat /\ InHand \in Nat
         /\ toClient[Latency] \in Nat /\ atClient[Latency] \in Nat /\ lgot \in Nat
BY OpenLoopIs DEF TypeOK, StreamsOK, ServerOK, ClientOK, InHand

LEMMA AddedToNothing ==
  ASSUME NEW a \in Nat, NEW b \in Nat, NEW c \in Nat, NEW d \in Nat, NEW e \in Nat, NEW f \in Nat,
         NEW n \in Nat, a + b + c + d + e + f = 0
  PROVE  (a + n) + b + c + d + e + f = n
OBVIOUS

(* What none of them changes leaves the sum as it is.                      *)
Untouched ==
  /\ toServer'[Latency] = toServer[Latency] /\ atServer'[Latency] = atServer[Latency]
  /\ toClient'[Latency] = toClient[Latency] /\ atClient'[Latency] = atClient[Latency]
  /\ InHand' = InHand /\ lgot' = lgot /\ lpc' = lpc

LEMMA UntouchedKeeps == OneMessage /\ Untouched => OneMessage'
BY DEF OneMessage, Untouched, Latency

(* An event that ends without an answer had taken nothing.                 *)
LEMMA EndsEmptyHanded ==
  ASSUME TypeOK, OneMessage, Accept \/ Ignore \/ PeerClosed
  PROVE  InHand = 0
<1>0. /\ spc = "event" /\ (got > 0 => conn # 0 /\ accepted = NumConns)
      /\ got \in Nat /\ Latency # 0
  BY DEF Accept, Ignore, PeerClosed, TypeOK, ServerOK, Latency
<1>1. CASE Accept
  BY <1>0, <1>1 DEF Accept, InHand
<1>2. CASE Ignore
  BY <1>0, <1>2 DEF Ignore, InHand
<1>3. CASE PeerClosed /\ conn = Latency
  <2>1. lpc # "recv" /\ InHand = got
    BY <1>0, <1>3 DEF PeerClosed, TypeOK, ClientOK, InHand
  <2> QED BY <2>1, Counts DEF OneMessage
<1>4. CASE PeerClosed /\ conn # Latency
  BY <1>4 DEF InHand
<1> QED BY <1>1, <1>2, <1>3, <1>4

LEMMA NextOneMessage == TypeOK /\ OneMessage /\ [Next]_vars => OneMessage'
<1> SUFFICES ASSUME TypeOK, OneMessage, [Next]_vars PROVE OneMessage'
  OBVIOUS
<1>1. CASE UNCHANGED vars \/ Makes \/ (ClientActs /\ (Due \/ Poll))
  <2>1. Untouched
    BY <1>1 DEF vars, Makes, Connect, ClientActs, Due, Poll, Untouched, InHand, requests, responses,
       server, client, openloop, closedloop
  <2> QED BY <2>1, UntouchedKeeps
<1>2. CASE ClientActs /\ (SendRequest \/ ReceiveReply)
  <2>1. (SendRequest => turn # Latency) /\ (ReceiveReply => reading # Latency)
    BY <1>2, OpenLoopIs DEF TypeOK, ClientOK, SendRequest, ReceiveReply
  <2>2. Untouched
    BY <1>2, <2>1, OpenLoopIs DEF ClientActs, SendRequest, ReceiveReply, Untouched, InHand,
       responses, server, closedloop, TypeOK, StreamsOK
  <2> QED BY <2>2, UntouchedKeeps
<1>3. CASE ClientActs /\ LatencySends
  <2>1. /\ toServer'[Latency] = toServer[Latency] + MsgLen
        /\ atServer'[Latency] = atServer[Latency] /\ InHand' = InHand
        /\ toClient'[Latency] = toClient[Latency] /\ atClient'[Latency] = atClient[Latency]
        /\ lgot' = lgot /\ lpc = "send" /\ lpc' = "recv"
    BY <1>3, OpenLoopIs DEF ClientActs, LatencySends, InHand, responses, server, TypeOK, StreamsOK
  <2>2. toServer[Latency] + atServer[Latency] + InHand + toClient[Latency] + atClient[Latency]
          + lgot = 0
    BY <2>1 DEF OneMessage
  <2>4. toServer'[Latency] + atServer'[Latency] + InHand' + toClient'[Latency]
          + atClient'[Latency] + lgot' = MsgLen
    <3>1. MsgLen \in Nat
      OBVIOUS
    <3>2. (toServer[Latency] + MsgLen) + atServer[Latency] + InHand + toClient[Latency]
            + atClient[Latency] + lgot = MsgLen
      BY <2>2, <3>1, Counts, AddedToNothing, Zenon
    <3> QED BY <2>1, <3>2
  <2> QED BY <2>1, <2>4 DEF OneMessage, Latency
<1>4. CASE ClientActs /\ LatencyReceives
  <2> DEFINE t == Taken(atClient[Latency])
  <2>1. /\ atClient'[Latency] = atClient[Latency] - t
        /\ toServer'[Latency] = toServer[Latency] /\ atServer'[Latency] = atServer[Latency]
        /\ InHand' = InHand /\ toClient'[Latency] = toClient[Latency]
        /\ lpc = "recv"
    BY <1>4, OpenLoopIs DEF ClientActs, LatencyReceives, InHand, server, TypeOK, StreamsOK
  <2>2. t \in 1 .. MsgLen /\ atClient[Latency] - t \in Nat
    BY <1>4, Counts, TakenIs DEF LatencyReceives
  <2>3. \/ lgot + t < MsgLen /\ lgot' = lgot + t /\ lpc' = "recv"
        \/ ~(lgot + t < MsgLen) /\ lgot' = 0 /\ lpc' \in {"send", "done"}
    BY <1>4 DEF LatencyReceives
  <2> HIDE DEF t
  <2>4. toServer[Latency] + atServer[Latency] + InHand + toClient[Latency] + atClient[Latency]
          + lgot = MsgLen
    BY <2>1 DEF OneMessage
  <2>5. CASE lgot' = lgot + t /\ lpc' = "recv"
    <3>1. toServer'[Latency] + atServer'[Latency] + InHand' + toClient'[Latency]
            + atClient'[Latency] + lgot' = MsgLen
      BY <2>1, <2>2, <2>4, <2>5, Counts
    <3> QED BY <2>5, <3>1 DEF OneMessage, Latency
  <2>6. CASE ~(lgot + t < MsgLen) /\ lgot' = 0 /\ lpc' \in {"send", "done"}
    <3>1. toServer'[Latency] + atServer'[Latency] + InHand' + toClient'[Latency]
            + atClient'[Latency] + lgot' = 0
      BY <2>1, <2>2, <2>4, <2>6, Counts
    <3> QED BY <2>6, <3>1 DEF OneMessage, Latency
  <2> QED BY <2>3, <2>5, <2>6
<1>5. CASE ServerActs /\ EpollWait
  <2>1. InHand = 0 /\ InHand' = 0
    BY <1>5 DEF EpollWait, TypeOK, ServerOK, InHand
  <2>2. Untouched
    BY <1>5, <2>1 DEF ServerActs, EpollWait, Untouched, responses, client, closedloop
  <2> QED BY <2>2, UntouchedKeeps
<1>6. CASE ServerActs /\ (Accept \/ Ignore \/ PeerClosed)
  <2>1. spc = "event" /\ NextEvent
    BY <1>6 DEF Accept, Ignore, PeerClosed
  <2>2. InHand = 0 /\ InHand' = 0
    BY <1>6, <2>1, EndsEmptyHanded, NextEventIs DEF InHand
  <2>3. Untouched
    BY <1>6, <2>2 DEF ServerActs, Accept, Ignore, PeerClosed, Untouched, requests, responses,
       client, closedloop
  <2> QED BY <2>3, UntouchedKeeps
<1>7. CASE ServerActs /\ Receive
  <2>1. UNCHANGED <<toServer, toClient, atClient, lgot, lpc, conn>>
    BY <1>7 DEF ServerActs, Receive, responses, client, closedloop
  <2>2. CASE conn # Latency
    <3>1. Untouched
      BY <1>7, <2>1, <2>2, OpenLoopIs DEF Receive, Untouched, InHand, TypeOK, StreamsOK, Latency
    <3> QED BY <3>1, UntouchedKeeps
  <2>3. CASE conn = Latency
    <3> DEFINE t == Taken(atServer[Latency])
    <3>1. atServer'[Latency] = atServer[Latency] - t /\ InHand = got
      BY <1>7, <2>3, OpenLoopIs DEF Receive, InHand, TypeOK, StreamsOK
    <3>2. t \in 1 .. MsgLen /\ atServer[Latency] - t \in Nat
      BY <1>7, <2>3, Counts, TakenIs DEF Receive
    <3>3. \/ got + t < MsgLen /\ got' = got + t /\ spc' = "event"
          \/ ~(got + t < MsgLen) /\ got' = 0 /\ spc' = "send"
      BY <1>7, <2>3 DEF Receive
    <3> HIDE DEF t
    <3>4. \/ got + t < MsgLen /\ InHand' = got + t
          \/ ~(got + t < MsgLen) /\ InHand' = MsgLen
      BY <2>1, <2>3, <3>3 DEF InHand, Latency
    <3> QED BY <2>1, <3>1, <3>2, <3>4, Counts DEF OneMessage, Latency
  <2> QED BY <2>2, <2>3
<1>8. CASE ServerActs /\ Send
  <2>1. /\ UNCHANGED <<toServer, atServer, atClient, lgot, lpc>> /\ spc = "send" /\ NextEvent
    BY <1>8 DEF ServerActs, Send, requests, client, closedloop
  <2>2. InHand' = 0
    BY <2>1, NextEventIs DEF InHand
  <2>3. CASE conn # Latency
    <3>1. Untouched
      BY <1>8, <2>1, <2>2, <2>3, OpenLoopIs DEF Send, Untouched, InHand, TypeOK, StreamsOK
    <3> QED BY <3>1, UntouchedKeeps
  <2>4. CASE conn = Latency
    <3>1. InHand = MsgLen
      BY <2>1, <2>4 DEF InHand
    <3>2. lpc = "recv"
      BY <3>1, Counts DEF OneMessage
    <3>3. conn \notin closed
      BY <2>4, <3>2 DEF TypeOK, ClientOK
    <3>4. toClient'[Latency] = toClient[Latency] + MsgLen
      BY <1>8, <2>4, <3>3, OpenLoopIs DEF Send, TypeOK, StreamsOK
    <3> QED BY <2>1, <2>2, <3>1, <3>2, <3>4, Counts DEF OneMessage, Latency
  <2> QED BY <2>3, <2>4
<1>9. ASSUME NEW c \in Conns, Arrives(c) PROVE OneMessage'
  <2>1. UNCHANGED <<lgot, lpc, InHand>>
    BY <1>9 DEF Arrives, InHand, server, client, closedloop
  <2>2. CASE RequestBytes(c)
    <3>1. PICK k \in 1 .. toServer[c] :
            /\ toServer' = [toServer EXCEPT ![c] = @ - k]
            /\ atServer' = [atServer EXCEPT ![c] = @ + k]
            /\ UNCHANGED responses
      BY <2>2 DEF RequestBytes
    <3>2. CASE c = Latency
      <4>1. /\ toServer'[Latency] = toServer[Latency] - k /\ atServer'[Latency] = atServer[Latency] + k
            /\ k \in Nat
        BY <3>1, <3>2, Counts DEF TypeOK, StreamsOK
      <4> QED BY <2>1, <3>1, <4>1, Counts DEF OneMessage, Latency, responses
    <3>3. CASE c # Latency
      BY <2>1, <3>1, <3>3, UntouchedKeeps, OpenLoopIs DEF Untouched, responses, TypeOK, StreamsOK
    <3> QED BY <3>2, <3>3
  <2>3. CASE ResponseBytes(c)
    <3>1. PICK k \in 1 .. toClient[c] :
            /\ toClient' = [toClient EXCEPT ![c] = @ - k]
            /\ atClient' = [atClient EXCEPT ![c] = @ + k]
            /\ UNCHANGED requests
      BY <2>3 DEF ResponseBytes
    <3>2. CASE c = Latency
      <4>1. /\ toClient'[Latency] = toClient[Latency] - k /\ atClient'[Latency] = atClient[Latency] + k
            /\ k \in Nat
        BY <3>1, <3>2, Counts DEF TypeOK, StreamsOK
      <4> QED BY <2>1, <3>1, <4>1, Counts DEF OneMessage, Latency, requests
    <3>3. CASE c # Latency
      BY <2>1, <3>1, <3>3, UntouchedKeeps, OpenLoopIs DEF Untouched, requests, TypeOK, StreamsOK
    <3> QED BY <3>2, <3>3
  <2> QED BY <1>9, <2>2, <2>3 DEF Arrives
<1> QED BY <1>1, <1>2, <1>3, <1>4, <1>5, <1>6, <1>7, <1>8, <1>9
       DEF Next, ServerActs, Server, ClientActs, OpenLoopThread, LatencyThread

(* The stream of the closed-loop connection keeps its boundaries: the      *)
(* loops of server and latency thread, which ask for 20 bytes even when    *)
(* they are short of fewer, never take a part of the next message.         *)
THEOREM OneMessageOnly == Spec => []OneMessage
<1>1. Init => OneMessage
  BY OpenLoopIs DEF Init, InitStreams, InitServer, InitClient, OneMessage, InHand
<1> QED BY <1>1, NextOneMessage, TypeCorrect, PTL DEF Spec
-----------------------------------------------------------------------------
(* BacklogNoticed counts with an edge that is reported or yet to be as one *)
(* accept to come.                                                         *)
AcceptsToCome ==
  /\ AcceptSucceeds
  /\ listenEdge \/ 0 \in events => backlog <= crowded + 1
  /\ ~listenEdge /\ 0 \notin events => backlog <= crowded

LEMMA BacklogCounts ==
  TypeOK => backlog \in Nat /\ crowded \in Nat /\ listenEdge \in BOOLEAN
BY DEF TypeOK, StreamsOK

LEMMA NextAcceptsToCome == TypeOK /\ AcceptsToCome /\ [Next]_vars => AcceptsToCome'
<1> SUFFICES ASSUME TypeOK, AcceptsToCome, [Next]_vars PROVE AcceptsToCome'
  OBVIOUS
<1>1. CASE UNCHANGED <<backlog, listenEdge, crowded, events>>
  BY <1>1 DEF AcceptsToCome, AcceptSucceeds
<1>2. CASE Makes
  <2>1. backlog' = backlog + 1 /\ listenEdge' = TRUE /\ events' = events
    BY <1>2 DEF Makes, Connect, server
  <2>2. \/ backlog = 0 /\ crowded' = crowded
        \/ backlog > 0 /\ crowded' = crowded + 1
    BY <1>2, BacklogCounts DEF Makes, Connect
  <2>3. backlog <= crowded + 1
    BY BacklogCounts DEF AcceptsToCome
  <2>4. backlog' <= crowded' + 1
    BY <2>1, <2>2, <2>3, BacklogCounts
  <2>5. AcceptSucceeds'
    BY <2>1, BacklogCounts DEF AcceptsToCome, AcceptSucceeds
  <2> QED BY <2>1, <2>4, <2>5 DEF AcceptsToCome
<1>3. CASE ServerActs /\ EpollWait
  <2>1. /\ events = {} /\ listenEdge' = FALSE /\ events' = Reported
        /\ UNCHANGED <<backlog, crowded>>
    BY <1>3 DEF EpollWait, TypeOK, ServerOK
  <2>2. 0 \in events' <=> listenEdge /\ backlog > 0
    BY <2>1 DEF Reported, Conns
  <2>3. AcceptSucceeds'
    BY <2>1, <2>2 DEF AcceptSucceeds
  <2>4. 0 \in events' => backlog' <= crowded' + 1
    BY <2>1, <2>2 DEF AcceptsToCome
  <2>5. 0 \notin events' => backlog' <= crowded'
    BY <2>1, <2>2, BacklogCounts DEF AcceptsToCome
  <2> QED BY <2>1, <2>3, <2>4, <2>5 DEF AcceptsToCome
<1>4. CASE ServerActs /\ Accept
  <2>1. /\ conn = 0 /\ spc = "event" /\ NextEvent /\ 0 \in events /\ backlog' = backlog - 1
        /\ UNCHANGED <<listenEdge, crowded>>
    BY <1>4 DEF Accept, TypeOK, ServerOK
  <2>2. 0 \notin events'
    BY <2>1, NextEventIs
  <2>3. backlog' <= crowded'
    BY <2>1, BacklogCounts DEF AcceptsToCome
  <2>4. backlog' <= crowded' + 1
    BY <2>1, BacklogCounts DEF AcceptsToCome
  <2> QED BY <2>2, <2>3, <2>4 DEF AcceptsToCome, AcceptSucceeds
<1>5. CASE ServerActs /\ (Ignore \/ PeerClosed \/ Send)
  <2>1. /\ conn # 0 /\ spc # "wait" /\ NextEvent /\ UNCHANGED listening
    BY <1>5 DEF Ignore, PeerClosed, Send, TypeOK, ServerOK
  <2>2. 0 \in events' <=> 0 \in events
    BY <2>1, NextEventIs
  <2> QED BY <2>1, <2>2 DEF AcceptsToCome, AcceptSucceeds, listening
<1>6. CASE ServerActs /\ Receive
  BY <1>1, <1>6 DEF Receive, listening
<1>7. CASE ClientActs
  <2>1. UNCHANGED <<listening, server>>
    BY <1>7 DEF ClientActs, OpenLoopThread, LatencyThread, Due, SendRequest, Poll, ReceiveReply,
       LatencySends, LatencyReceives
  <2> QED BY <1>1, <2>1 DEF listening, server
<1>8. ASSUME NEW c \in Conns, Arrives(c) PROVE AcceptsToCome'
  BY <1>1, <1>8 DEF Arrives, RequestBytes, ResponseBytes, listening, server
<1>9. CASE UNCHANGED vars
  BY <1>1, <1>9 DEF vars, listening, server
<1> QED BY <1>2, <1>3, <1>4, <1>5, <1>6, <1>7, <1>8, <1>9 DEF Next, ServerActs, Server

LEMMA AlwaysAcceptsToCome == Spec => []AcceptsToCome
<1>1. Init => AcceptsToCome
  BY DEF Init, InitStreams, InitServer, AcceptsToCome, AcceptSucceeds
<1> QED BY <1>1, NextAcceptsToCome, TypeCorrect, PTL DEF Spec

(* The server never calls accept with nobody waiting, which would return   *)
(* -1 and end it.                                                          *)
THEOREM NeverAcceptsInVain == Spec => []AcceptSucceeds
<1>1. AcceptsToCome => AcceptSucceeds
  BY DEF AcceptsToCome
<1> QED BY <1>1, AlwaysAcceptsToCome, PTL

(* Accepting one connection for each report leaves in the backlog at most  *)
(* those that came while another was there.                                *)
THEOREM BacklogIsNoticed == Spec => []BacklogNoticed
<1>1. AcceptsToCome => BacklogNoticed
  BY DEF AcceptsToCome, BacklogNoticed
<1> QED BY <1>1, AlwaysAcceptsToCome, PTL
-----------------------------------------------------------------------------
LEMMA NextLatencyNoticed ==
  TypeOK /\ OneMessage /\ OneMessage' /\ LatencyNoticed /\ [Next]_vars => LatencyNoticed'
<1> SUFFICES ASSUME TypeOK, OneMessage, OneMessage', LatencyNoticed, [Next]_vars
             PROVE  LatencyNoticed'
  OBVIOUS
<1>0. TypeOK'
  BY NextType
<1>1. CASE UNCHANGED vars \/ Makes
  BY <1>1 DEF vars, Makes, Connect, requests, server, LatencyNoticed, Latency
<1>2. CASE ClientActs
  <2>1. UNCHANGED server /\ atServer' = atServer
    BY <1>2 DEF ClientActs, OpenLoopThread, LatencyThread, Due, SendRequest, Poll, ReceiveReply,
       LatencySends, LatencyReceives, requests
  <2>2. serverEdge[Latency] => serverEdge'[Latency]
    BY <1>2, OpenLoopIs DEF ClientActs, OpenLoopThread, LatencyThread, Due, SendRequest, Poll,
       ReceiveReply, EndTurn, LatencySends, LatencyReceives, requests, TypeOK, StreamsOK
  <2> QED BY <2>1, <2>2 DEF LatencyNoticed, server, Latency
<1>3. CASE ServerActs /\ EpollWait
  <2>1. /\ events = {} /\ spc' = "event" /\ UNCHANGED <<accepted, atServer>>
        /\ accepted = NumConns /\ serverEdge[Latency] => Latency \in events'
    BY <1>3, OpenLoopIs DEF EpollWait, Reported, TypeOK, ServerOK, Latency
  <2>2. accepted \in 0 .. NumConns
    BY DEF TypeOK, StreamsOK, ServerOK
  <2> QED BY <2>1, <2>2 DEF LatencyNoticed, Latency
<1>4. CASE ServerActs /\ Accept
  <2>1. accepted' \in 0 .. NumConns /\ accepted' \in Conns
    BY <1>0, <1>4 DEF Accept, TypeOK, StreamsOK, ServerOK, Conns
  <2>2. serverEdge' = [serverEdge EXCEPT ![accepted'] = TRUE]
    BY <1>4 DEF Accept
  <2>3. CASE accepted' = NumConns
    BY <2>1, <2>2, <2>3 DEF LatencyNoticed, Latency, TypeOK, StreamsOK
  <2>4. CASE accepted' < NumConns
    BY <2>4 DEF LatencyNoticed
  <2> QED BY <2>1, <2>3, <2>4
<1>5. CASE ServerActs /\ Ignore
  BY <1>5 DEF Ignore, LatencyNoticed
<1>6. CASE ServerActs /\ Receive
  <2>1. /\ UNCHANGED <<accepted, events, conn, serverEdge, toServer>>
        /\ spc = "event" /\ spc' \in {"event", "send"} /\ conn \in events
    BY <1>6 DEF Receive, TypeOK, ServerOK
  <2>2. CASE conn # Latency
    <3>1. atServer'[Latency] = atServer[Latency]
      BY <1>6, <2>2, OpenLoopIs DEF Receive, TypeOK, StreamsOK
    <3> QED BY <2>1, <2>2, <3>1 DEF LatencyNoticed, Latency
  <2>3. CASE conn = Latency /\ spc' = "event"
    BY <2>1, <2>3 DEF LatencyNoticed, Latency
  <2>4. CASE conn = Latency /\ spc' = "send"
    <3>1. InHand' = MsgLen
      BY <2>1, <2>4 DEF InHand, Latency
    <3>2. atServer'[Latency] \in Nat /\ toServer'[Latency] \in Nat
          /\ toClient'[Latency] \in Nat /\ atClient'[Latency] \in Nat /\ lgot' \in Nat
      BY <1>0, OpenLoopIs DEF TypeOK, StreamsOK, ClientOK
    <3>3. \/ toServer'[Latency] + atServer'[Latency] + InHand' + toClient'[Latency]
               + atClient'[Latency] + lgot' = MsgLen
          \/ toServer'[Latency] + atServer'[Latency] + InHand' + toClient'[Latency]
               + atClient'[Latency] + lgot' = 0
      BY DEF OneMessage, Latency
    <3>4. ~(atServer'[Latency] > 0)
      BY <3>1, <3>2, <3>3
    <3> QED BY <3>4 DEF LatencyNoticed, Latency
  <2> QED BY <2>1, <2>2, <2>3, <2>4
<1>7. CASE ServerActs /\ (PeerClosed \/ Send)
  <2>1. /\ spc # "wait" /\ NextEvent /\ UNCHANGED <<accepted, requests>>
    BY <1>7 DEF PeerClosed, Send
  <2>2. spc' # "send" /\ events' = events \ {conn}
    BY <2>1, NextEventIs
  <2>3. CASE conn # Latency
    BY <2>1, <2>2, <2>3 DEF LatencyNoticed, requests, Latency
  <2>4. CASE conn = Latency
    BY <1>7, <2>1, <2>4 DEF PeerClosed, Send, LatencyNoticed, requests, Latency
  <2> QED BY <2>3, <2>4
<1>8. ASSUME NEW c \in Conns, Arrives(c) PROVE LatencyNoticed'
  <2>1. UNCHANGED server
    BY <1>8 DEF Arrives
  <2>2. \/ atServer'[Latency] = atServer[Latency] /\ serverEdge'[Latency] = serverEdge[Latency]
        \/ serverEdge'[Latency] = TRUE
    BY <1>8, OpenLoopIs DEF Arrives, RequestBytes, ResponseBytes, requests, TypeOK, StreamsOK
  <2> QED BY <2>1, <2>2 DEF LatencyNoticed, server, Latency
<1> QED BY <1>1, <1>2, <1>3, <1>4, <1>5, <1>6, <1>7, <1>8 DEF Next, ServerActs, Server

(* A request of the closed-loop connection is going to be read, although   *)
(* the server drops the edges it is given before all connections are made. *)
THEOREM LatencyIsNoticed == Spec => []LatencyNoticed
<1>1. Init => LatencyNoticed
  BY OpenLoopIs DEF Init, InitStreams, InitServer, LatencyNoticed
<1> QED BY <1>1, NextLatencyNoticed, TypeCorrect, OneMessageOnly, PTL DEF Spec
-----------------------------------------------------------------------------
(* Bytes on the way and in the buffer take up the room together.           *)
LEMMA ArrivalsKeepRoom ==
  ASSUME TypeOK, NEW c \in Conns, Arrives(c), NEW d \in Conns
  PROVE  /\ toServer'[d] + atServer'[d] = toServer[d] + atServer[d]
         /\ toClient'[d] + atClient'[d] = toClient[d] + atClient[d]
<1>0. /\ toServer[d] \in Nat /\ atServer[d] \in Nat /\ toClient[d] \in Nat /\ atClient[d] \in Nat
  BY DEF TypeOK, StreamsOK
<1>1. CASE RequestBytes(c)
  <2>1. PICK k \in 1 .. toServer[c] :
          /\ toServer' = [toServer EXCEPT ![c] = @ - k]
          /\ atServer' = [atServer EXCEPT ![c] = @ + k]
          /\ UNCHANGED responses
    BY <1>1 DEF RequestBytes
  <2>2. CASE c = d
    <3>1. /\ toServer'[d] = toServer[d] - k /\ atServer'[d] = atServer[d] + k /\ k \in Nat
      BY <1>0, <2>1, <2>2 DEF TypeOK, StreamsOK
    <3> QED BY <1>0, <2>1, <3>1 DEF responses
  <2>3. CASE c # d
    BY <2>1, <2>3 DEF responses, TypeOK, StreamsOK
  <2> QED BY <2>2, <2>3
<1>2. CASE ResponseBytes(c)
  <2>1. PICK k \in 1 .. toClient[c] :
          /\ toClient' = [toClient EXCEPT ![c] = @ - k]
          /\ atClient' = [atClient EXCEPT ![c] = @ + k]
          /\ UNCHANGED requests
    BY <1>2 DEF ResponseBytes
  <2>2. CASE c = d
    <3>1. /\ toClient'[d] = toClient[d] - k /\ atClient'[d] = atClient[d] + k /\ k \in Nat
      BY <1>0, <2>1, <2>2 DEF TypeOK, StreamsOK
    <3> QED BY <1>0, <2>1, <3>1 DEF requests
  <2>3. CASE c # d
    BY <2>1, <2>3 DEF requests, TypeOK, StreamsOK
  <2> QED BY <2>2, <2>3
<1> QED BY <1>1, <1>2 DEF Arrives

LEMMA NeverStartsStays ==
  ASSUME TypeOK, NeverStarts, [Next]_vars
  PROVE  NeverStarts'
<1>0. connected = NumConns /\ backlog > 0 /\ ~listenEdge /\ 0 \notin events
  BY DEF NeverStarts
<1>1. CASE UNCHANGED <<connected, backlog, listenEdge, events>>
  BY <1>1 DEF NeverStarts
<1>2. ~Makes /\ ~Accept
  BY <1>0 DEF Makes, Connect, Accept, TypeOK, ServerOK
<1>3. CASE ServerActs /\ EpollWait
  <2>1. 0 \notin events' /\ listenEdge' = FALSE /\ UNCHANGED <<connected, backlog>>
    BY <1>0, <1>3 DEF EpollWait, Reported, Conns
  <2> QED BY <1>0, <2>1 DEF NeverStarts
<1>4. CASE ServerActs /\ (Ignore \/ PeerClosed \/ Send)
  <2>1. spc # "wait" /\ NextEvent /\ UNCHANGED listening
    BY <1>4 DEF Ignore, PeerClosed, Send
  <2> QED BY <1>0, <2>1, NextEventIs DEF NeverStarts, listening
<1>5. CASE ServerActs /\ Receive
  BY <1>1, <1>5 DEF Receive, listening
<1>6. CASE ClientActs
  <2>1. UNCHANGED <<listening, server>>
    BY <1>6 DEF ClientActs, OpenLoopThread, LatencyThread, Due, SendRequest, Poll, ReceiveReply,
       LatencySends, LatencyReceives
  <2> QED BY <1>1, <2>1 DEF listening, server
<1>7. ASSUME NEW c \in Conns, Arrives(c) PROVE NeverStarts'
  BY <1>1, <1>7 DEF Arrives, RequestBytes, ResponseBytes, listening, server
<1>8. CASE UNCHANGED vars
  BY <1>1, <1>8 DEF vars, listening, server
<1> QED BY <1>2, <1>3, <1>4, <1>5, <1>6, <1>7, <1>8 DEF Next, ServerActs, Server

(* The two are in each other's way as long as the counts of the two        *)
(* connections they are at stay as they are.                               *)
LEMMA DeadlockedStays ==
  ASSUME TypeOK, Deadlocked, [Next]_vars
  PROVE  Deadlocked'
<1>0. /\ accepted = NumConns /\ conn \in OpenLoop /\ conn \in Conns /\ conn \notin closed
      /\ spc # "wait" /\ opc \in {"send", "recv"}
      /\ spc = "send" => ~RoomForResponse(conn)
      /\ spc # "send" => toServer[conn] + atServer[conn] = 0
      /\ opc = "send" => ~RoomForRequest(turn)
      /\ opc = "recv" => toClient[reading] + atClient[reading] = 0
  BY OpenLoopIs DEF Deadlocked, ServerStalled, ThreadStalled
<1>01. turn \in OpenLoop /\ turn \in Conns /\ (opc = "recv" => reading \in OpenLoop)
       /\ reading \in Conns
  BY <1>0 DEF TypeOK, ClientOK
<1>02. \A c \in Conns : /\ toServer[c] \in Nat /\ atServer[c] \in Nat
                        /\ toClient[c] \in Nat /\ atClient[c] \in Nat
  BY DEF TypeOK, StreamsOK
<1>1. ASSUME UNCHANGED <<accepted, spc, conn, opc, turn, reading>>, conn \notin closed',
             \A c \in OpenLoop : /\ toServer'[c] + atServer'[c] = toServer[c] + atServer[c]
                                 /\ toClient'[c] + atClient'[c] = toClient[c] + atClient[c]
      PROVE  Deadlocked'
  BY <1>0, <1>01, <1>1
     DEF Deadlocked, ServerStalled, ThreadStalled, RoomForRequest, RoomForResponse, OpenLoop, Conns
<1>2. ~Server
  <2>1. ~EpollWait /\ ~Ignore /\ ~PeerClosed
    BY <1>0 DEF EpollWait, Ignore, PeerClosed
  <2>2. ~Accept
    BY <1>0 DEF Accept, OpenLoop, Conns
  <2>3. ~Receive
    BY <1>0, <1>02 DEF Receive
  <2>4. ~Send
    BY <1>0 DEF Send
  <2> QED BY <2>1, <2>2, <2>3, <2>4 DEF Server
<1>3. ~Makes
  BY <1>0 DEF Makes, Connect, TypeOK, StreamsOK, ServerOK
<1>4. ~OpenLoopThread
  <2>1. ~Due /\ ~Poll /\ ~SendRequest
    BY <1>0 DEF Due, Poll, SendRequest
  <2>2. ~ReceiveReply
    BY <1>0, <1>01, <1>02 DEF ReceiveReply
  <2> QED BY <2>1, <2>2 DEF OpenLoopThread
<1>5. CASE ClientActs /\ LatencyThread
  <2>1. UNCHANGED <<accepted, spc, conn, opc, turn, reading>>
    BY <1>5 DEF ClientActs, LatencyThread, LatencySends, LatencyReceives, server, openloop
  <2>2. conn \notin closed'
    BY <1>0, <1>5, OpenLoopIs DEF LatencyThread, LatencySends, LatencyReceives
  <2>3. ASSUME NEW c \in OpenLoop
        PROVE  /\ toServer'[c] = toServer[c] /\ atServer'[c] = atServer[c]
               /\ toClient'[c] = toClient[c] /\ atClient'[c] = atClient[c]
    BY <1>5, OpenLoopIs DEF LatencyThread, LatencySends, LatencyReceives, responses, TypeOK, StreamsOK
  <2> QED BY <1>1, <2>1, <2>2, <2>3
<1>6. ASSUME NEW c \in Conns, Arrives(c) PROVE Deadlocked'
  <2>1. UNCHANGED <<accepted, spc, conn, opc, turn, reading>> /\ closed' = closed
    BY <1>6 DEF Arrives, RequestBytes, ResponseBytes, requests, server, client, openloop
  <2> QED BY <1>0, <1>1, <1>6, <2>1, ArrivalsKeepRoom, OpenLoopIs
<1>7. CASE UNCHANGED vars
  BY <1>0, <1>1, <1>7 DEF vars, requests, responses, server, client, openloop
<1> QED BY <1>2, <1>3, <1>4, <1>5, <1>6, <1>7 DEF Next, ServerActs, ClientActs

(* The two exceptions LatencyFinishes makes are ends of the run: a server  *)
(* that has lost a connection never starts to serve, and loops that wait   *)
(* for each other wait for ever.                                           *)
THEOREM NoWayOutOfThem == Spec => NoWayOut
<1>1. TypeOK /\ [Next]_vars =>
        [(NeverStarts => NeverStarts') /\ (Deadlocked => Deadlocked')]_vars
  BY NeverStartsStays, DeadlockedStays
<1> QED BY <1>1, TypeCorrect, PTL DEF Spec, NoWayOut
=============================================================================

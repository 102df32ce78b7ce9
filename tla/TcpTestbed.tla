----------------------------- MODULE TcpTestbed -----------------------------
(***************************************************************************)
(* The TCP server with its client.  Neither ever gives up a loop that      *)
(* waits for the other.                                                    *)
(***************************************************************************)
EXTENDS TcpServer, TcpClient

vars == <<listening, requests, responses, server, client>>

Init == InitStreams /\ InitServer /\ InitClient

Makes == Connect /\ UNCHANGED <<server, client>>

ServerActs == Server /\ UNCHANGED client

ClientActs == (OpenLoopThread \/ LatencyThread) /\ UNCHANGED server

Arrives(c) == (RequestBytes(c) \/ ResponseBytes(c)) /\ UNCHANGED <<server, client>>

Next ==
  \/ Makes
  \/ ServerActs
  \/ ClientActs
  \/ \E c \in Conns : Arrives(c)

Spec == Init /\ [][Next]_vars

(* Threads and server are kept running, bytes arrive, and requests come    *)
(* due.  Whether the open-loop thread ever polls is its own affair: while  *)
(* requests are due it sends.                                              *)
FairSpec ==
  /\ Spec
  /\ WF_vars(Makes) /\ WF_vars(ServerActs)
  /\ WF_vars(OpenLoopThread /\ UNCHANGED server) /\ SF_vars(Due /\ UNCHANGED server)
  /\ WF_vars(LatencyThread /\ UNCHANGED server)
  /\ \A c \in Conns : /\ WF_vars(RequestBytes(c) /\ UNCHANGED <<server, client>>)
                      /\ WF_vars(ResponseBytes(c) /\ UNCHANGED <<server, client>>)
-----------------------------------------------------------------------------
TypeOK == StreamsOK /\ ServerOK /\ ClientOK

(* The bytes of the closed-loop connection, wherever they are, are one     *)
(* message while its thread waits and none when it does not: neither loop  *)
(* that asks for 20 bytes gets any of the next message.                    *)
InHand ==
  IF conn # Latency THEN 0 ELSE IF spc = "send" THEN MsgLen ELSE got

OneMessage ==
  toServer[Latency] + atServer[Latency] + InHand + toClient[Latency] + atClient[Latency] + lgot
    = IF lpc = "recv" THEN MsgLen ELSE 0

(* The edge of a message on the closed-loop connection is not among those  *)
(* that are ignored: when its bytes are in the socket the server is going  *)
(* to read them.                                                           *)
LatencyNoticed ==
  atServer[Latency] > 0 =>
    \/ serverEdge[Latency] \/ accepted < NumConns
    \/ Latency \in events /\ ~(spc = "send" /\ conn = Latency)

(* A connection is left in the backlog for good.                           *)
NeverStarts ==
  /\ connected = NumConns /\ backlog > 0
  /\ ~listenEdge /\ 0 \notin events

(* Server and open-loop thread wait for each other, the one in a send or a *)
(* receive on a connection that the other neither reads nor writes.        *)
ServerStalled ==
  /\ accepted = NumConns
  /\ spc # "wait" /\ conn \in OpenLoop /\ conn \notin closed
  /\ IF spc = "send" THEN ~RoomForResponse(conn)
     ELSE toServer[conn] + atServer[conn] = 0

ThreadStalled ==
  \/ opc = "send" /\ ~RoomForRequest(turn)
  \/ opc = "recv" /\ toClient[reading] + atClient[reading] = 0

Deadlocked == ServerStalled /\ ThreadStalled

(* Nothing gets the system out of these.                                   *)
NoWayOut ==
  [][/\ NeverStarts => NeverStarts'
     /\ Deadlocked => Deadlocked']_vars

(* The run comes to its end, unless the server never starts to serve or    *)
(* the two wait for each other.                                            *)
LatencyFinishes == <>(lpc = "done" \/ NeverStarts \/ Deadlocked)
=============================================================================

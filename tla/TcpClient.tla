------------------------------ MODULE TcpClient ------------------------------
(***************************************************************************)
(* A process of src/multithread/tcp_mtclient.c: main, which makes the      *)
(* connections; one open-loop thread, which sends on its connections in    *)
(* turn when a request is due and otherwise polls them for replies; and    *)
(* the latency thread, which sends and receives on a connection of its own *)
(* and ends the run.                                                       *)
(*                                                                         *)
(* All loops around send and recv go on until 20 bytes are through, and on *)
(* EAGAIN they try again: the thread does nothing else meanwhile.          *)
(*                                                                         *)
(* Left out: the counters, which are printed and not read (MAX_PENDING_REQ *)
(* is commented out), failures on which the program exits, a send that     *)
(* takes a part of the 20 bytes.                                           *)
(***************************************************************************)
EXTENDS TcpStreams

CONSTANT Samples         \* MAX_NUM_SAMPLE

ASSUME SamplesAssumption == Samples \in Nat \ {0}

VARIABLES
  opc,          \* open-loop thread: "loop", "send", "recv" or "closed"
  turn,         \* send_conn_id
  replied,      \* events of this turn that are not dealt with
  reading,      \* conn_index, of the event in hand
  ogot,         \* recv_byte_perloop
  lpc,          \* latency thread: "send", "recv" or "done" (closed_loop_done)
  lgot,
  measured      \* samples taken

openloop == <<opc, turn, replied, reading, ogot>>
closedloop == <<lpc, lgot, measured>>
client == <<openloop, closedloop>>

InitClient ==
  /\ opc = "loop" /\ turn = 1 /\ replied = {} /\ reading = 1 /\ ogot = 0
  /\ lpc = "send" /\ lgot = 0 /\ measured = 0

Started == connected = NumConns /\ OpenLoop # {}

(* The next request is due.                                                *)
Due ==
  /\ Started /\ opc = "loop" /\ lpc # "done"
  /\ opc' = "send"
  /\ UNCHANGED <<turn, replied, reading, ogot, closedloop, listening, requests, responses>>

WrongSendRequest ==                       \* one connection more than there are
  /\ opc = "send" /\ RoomForRequest(turn)
  /\ toServer' = [toServer EXCEPT ![turn] = @ + MsgLen]
  /\ turn' = IF turn + 1 <= NumConns THEN turn + 1 ELSE 1
  /\ opc' = "loop"
  /\ UNCHANGED <<replied, reading, ogot, closedloop, listening, atServer, serverEdge, closed, responses>>

SendRequest ==
  /\ opc = "send" /\ RoomForRequest(turn)
  /\ toServer' = [toServer EXCEPT ![turn] = @ + MsgLen]
  /\ turn' = IF turn + 1 < NumConns THEN turn + 1 ELSE 1
  /\ opc' = "loop"
  /\ UNCHANGED <<replied, reading, ogot, closedloop, listening, atServer, serverEdge, closed, responses>>

Readable == {c \in OpenLoop : clientEdge[c] /\ atClient[c] > 0}

(* The end of a turn, and of the thread when the latency thread is done.   *)
EndTurn ==
  IF lpc = "done"
    THEN /\ opc' = "closed"
         /\ closed' = closed \cup OpenLoop
         /\ serverEdge' = [c \in Conns |-> serverEdge[c] \/ c \in OpenLoop]
    ELSE opc' = "loop" /\ UNCHANGED <<closed, serverEdge>>

Poll ==
  /\ Started /\ opc = "loop"
  /\ clientEdge' = [c \in Conns |-> clientEdge[c] /\ c = Latency]
  /\ replied' = Readable
  /\ IF Readable = {} THEN EndTurn /\ UNCHANGED reading
     ELSE opc' = "recv" /\ reading' \in Readable /\ UNCHANGED <<closed, serverEdge>>
  /\ UNCHANGED <<turn, ogot, closedloop, listening, toServer, atServer, toClient, atClient>>

ReceiveReply ==
  /\ opc = "recv" /\ atClient[reading] > 0
  /\ atClient' = [atClient EXCEPT ![reading] = @ - Taken(@)]
  /\ LET n == ogot + Taken(atClient[reading])
     IN  IF n < MsgLen
           THEN ogot' = n /\ UNCHANGED <<opc, replied, reading, closed, serverEdge>>
           ELSE /\ ogot' = 0
                /\ replied' = replied \ {reading}
                /\ IF replied' = {} THEN EndTurn /\ UNCHANGED reading
                   ELSE /\ reading' \in replied'
                        /\ UNCHANGED <<opc, closed, serverEdge>>
  /\ UNCHANGED <<turn, closedloop, listening, toServer, atServer, toClient, clientEdge>>

OpenLoopThread == Due \/ SendRequest \/ Poll \/ ReceiveReply

LatencySends ==
  /\ connected = NumConns /\ lpc = "send" /\ RoomForRequest(Latency)
  /\ toServer' = [toServer EXCEPT ![Latency] = @ + MsgLen]
  /\ lpc' = "recv"
  /\ UNCHANGED <<lgot, measured, openloop, listening, atServer, serverEdge, closed, responses>>

(* The last reply closes the connection and sets closed_loop_done, in one  *)
(* step: what the others do between the two they may do before it.         *)
LatencyReceives ==
  /\ lpc = "recv" /\ atClient[Latency] > 0
  /\ atClient' = [atClient EXCEPT ![Latency] = @ - Taken(@)]
  /\ LET n == lgot + Taken(atClient[Latency])
     IN  IF n < MsgLen
           THEN lgot' = n /\ UNCHANGED <<lpc, measured, closed, serverEdge>>
           ELSE /\ lgot' = 0 /\ measured' = measured + 1
                /\ IF measured' < Samples
                     THEN lpc' = "send" /\ UNCHANGED <<closed, serverEdge>>
                     ELSE /\ lpc' = "done"
                          /\ closed' = closed \cup {Latency}
                          /\ serverEdge' = [serverEdge EXCEPT ![Latency] = TRUE]
  /\ UNCHANGED <<openloop, listening, toServer, atServer, toClient, clientEdge>>

LatencyThread == LatencySends \/ LatencyReceives

ClientOK ==
  /\ opc \in {"loop", "send", "recv", "closed"}
  /\ turn \in Conns /\ (OpenLoop # {} => turn \in OpenLoop)
  /\ reading \in Conns /\ replied \subseteq OpenLoop
  /\ ogot \in 0 .. (MsgLen - 1) /\ lgot \in 0 .. (MsgLen - 1)
  /\ lpc \in {"send", "recv", "done"}
  /\ measured \in 0 .. Samples
  /\ opc \in {"send", "recv"} => OpenLoop # {}
  /\ opc = "recv" => reading \in replied
  /\ Latency \in closed <=> lpc = "done"
  /\ lpc = "done" <=> measured = Samples
=============================================================================

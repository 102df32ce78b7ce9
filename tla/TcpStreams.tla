----------------------------- MODULE TcpStreams -----------------------------
(***************************************************************************)
(* The kernel between the TCP programs of src/multithread: connections     *)
(* that wait to be accepted, streams of bytes in both directions, and the  *)
(* edges of the two epoll instances.  All of it is external.               *)
(*                                                                         *)
(* A stream is the number of its bytes, on the way and in the receiver's   *)
(* buffer; it arrives in pieces of any size.  What is sent and not read is *)
(* at most Capacity in each direction.  Connections are numbered in the    *)
(* order in which the client makes them; the last is the closed-loop one.  *)
(***************************************************************************)
EXTENDS Integers

CONSTANTS
  NumConns,      \* expected_connections
  MsgLen,        \* bytes of a message, 20 in the code
  Capacity       \* bytes a direction of a connection holds

ASSUME StreamsAssumption ==
  /\ NumConns \in Nat \ {0}
  /\ MsgLen \in Nat \ {0}
  /\ Capacity \in Nat /\ Capacity >= MsgLen

Conns == 1 .. NumConns
Latency == NumConns
OpenLoop == Conns \ {Latency}

VARIABLES
  connected,     \* connections the client has made
  backlog,       \* those among them that are not accepted
  listenEdge,    \* an edge of the listening socket that is not reported
  crowded,       \* history: connections made while another was in the backlog
  toServer, atServer,    \* bytes to the server, per connection: on the way, arrived
  serverEdge,    \* edges of the server's epoll instance
  toClient, atClient,
  clientEdge,
  closed         \* connections the client has closed

listening == <<connected, backlog, listenEdge, crowded>>
requests == <<toServer, atServer, serverEdge, closed>>
responses == <<toClient, atClient, clientEdge>>

InitStreams ==
  /\ connected = 0 /\ backlog = 0 /\ listenEdge = FALSE /\ crowded = 0
  /\ toServer = [c \in Conns |-> 0] /\ atServer = [c \in Conns |-> 0]
  /\ toClient = [c \in Conns |-> 0] /\ atClient = [c \in Conns |-> 0]
  /\ serverEdge = [c \in Conns |-> FALSE] /\ clientEdge = [c \in Conns |-> FALSE]
  /\ closed = {}

(* connect returns before the server accepts.                              *)
Connect ==
  /\ connected < NumConns
  /\ connected' = connected + 1
  /\ backlog' = backlog + 1
  /\ listenEdge' = TRUE
  /\ crowded' = IF backlog > 0 THEN crowded + 1 ELSE crowded
  /\ UNCHANGED <<requests, responses>>

RequestBytes(c) ==
  \E k \in 1 .. toServer[c] :
    /\ toServer' = [toServer EXCEPT ![c] = @ - k]
    /\ atServer' = [atServer EXCEPT ![c] = @ + k]
    /\ serverEdge' = [serverEdge EXCEPT ![c] = TRUE]
    /\ UNCHANGED <<closed, listening, responses>>

ResponseBytes(c) ==
  \E k \in 1 .. toClient[c] :
    /\ toClient' = [toClient EXCEPT ![c] = @ - k]
    /\ atClient' = [atClient EXCEPT ![c] = @ + k]
    /\ clientEdge' = [clientEdge EXCEPT ![c] = TRUE]
    /\ UNCHANGED <<listening, requests>>

RoomForRequest(c) == toServer[c] + atServer[c] + MsgLen <= Capacity
RoomForResponse(c) == toClient[c] + atClient[c] + MsgLen <= Capacity

(* What recv(fd, buf, 20, MSG_DONTWAIT) returns: all there is, up to 20.   *)
Taken(bytes) == IF bytes < MsgLen THEN bytes ELSE MsgLen

StreamsOK ==
  /\ connected \in 0 .. NumConns /\ backlog \in 0 .. connected
  /\ listenEdge \in BOOLEAN /\ crowded \in Nat
  /\ toServer \in [Conns -> Nat] /\ atServer \in [Conns -> Nat]
  /\ toClient \in [Conns -> Nat] /\ atClient \in [Conns -> Nat]
  /\ serverEdge \in [Conns -> BOOLEAN] /\ clientEdge \in [Conns -> BOOLEAN]
  /\ closed \subseteq Conns
=============================================================================

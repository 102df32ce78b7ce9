------------------------------ MODULE TcpServer ------------------------------
(***************************************************************************)
(* The event loop of src/multithread/tcp_epollserver.c: it accepts one     *)
(* connection per report of the listening socket, serves nobody before all *)
(* expected connections are there, and then answers one message of 20      *)
(* bytes per report of a connection.                                       *)
(*                                                                         *)
(* Accepted sockets are watched for EPOLLIN, EPOLLOUT and EPOLLRDHUP,      *)
(* edge-triggered.  They can nearly always be written to, so an edge is    *)
(* reported whether or not there is something to read; and the equality    *)
(* tests with EPOLLHUP, EPOLLERR and EPOLLRDHUP never hold, as these come  *)
(* together with EPOLLIN.  The receive loop asks for 20 bytes each time,   *)
(* also when it is short of fewer.                                         *)
(*                                                                         *)
(* Left out: accept, fcntl and epoll_ctl failing; a send that takes a part *)
(* of the 20 bytes, and one that raises SIGPIPE; the edge of a full send   *)
(* buffer that has room again, one more with nothing to read.              *)
(***************************************************************************)
EXTENDS TcpStreams

VARIABLES
  accepted,     \* accept_connections
  spc,          \* "wait", "event" (in hand, or in its receive loop), or "send"
  events,       \* events of this turn that are not dealt with; 0 is listen_sock
  conn,         \* the event in hand, e->data.fd
  got           \* recv_byte_perloop

server == <<accepted, spc, events, conn, got>>

InitServer ==
  /\ accepted = 0
  /\ spc = "wait" /\ events = {} /\ conn = 0 /\ got = 0

Reported ==
  {c \in Conns : c <= accepted /\ serverEdge[c]}
    \cup (IF listenEdge /\ backlog > 0 THEN {0} ELSE {})

EpollWait ==
  /\ spc = "wait" /\ Reported # {}
  /\ listenEdge' = FALSE
  /\ serverEdge' = [c \in Conns |-> serverEdge[c] /\ c > accepted]
  /\ events' = Reported
  /\ conn' \in Reported
  /\ spc' = "event"
  /\ UNCHANGED <<accepted, got, connected, backlog, crowded, toServer, atServer, closed, responses>>

NextEvent ==
  /\ events' = events \ {conn}
  /\ IF events' = {} THEN spc' = "wait" /\ UNCHANGED conn
     ELSE spc' = "event" /\ conn' \in events'
  /\ got' = 0

(* AddEpollEvent reports the new socket, which can be written to.          *)
Accept ==
  /\ spc = "event" /\ conn = 0 /\ backlog > 0
  /\ backlog' = backlog - 1
  /\ accepted' = accepted + 1
  /\ serverEdge' = [serverEdge EXCEPT ![accepted'] = TRUE]
  /\ NextEvent
  /\ UNCHANGED <<connected, listenEdge, crowded, toServer, atServer, closed, responses>>

WrongIgnoreListen ==                      \* before listen_sock is looked for
  /\ spc = "event" /\ accepted < NumConns
  /\ NextEvent
  /\ UNCHANGED <<accepted, listening, requests, responses>>

WrongIgnoreLast ==                        \* accept_connections <= expected_connections
  /\ spc = "event" /\ conn # 0 /\ accepted <= NumConns
  /\ NextEvent
  /\ UNCHANGED <<accepted, listening, requests, responses>>

(* The edge is gone, and with it the word of what is in the socket.        *)
Ignore ==
  /\ spc = "event" /\ conn # 0 /\ accepted < NumConns
  /\ NextEvent
  /\ UNCHANGED <<accepted, listening, requests, responses>>

WrongReceive ==                           \* until more than 20 bytes are there
  /\ spc = "event" /\ conn # 0 /\ accepted = NumConns
  /\ atServer[conn] > 0
  /\ atServer' = [atServer EXCEPT ![conn] = @ - Taken(@)]
  /\ LET n == got + Taken(atServer[conn])
     IN  IF n <= MsgLen THEN got' = n /\ UNCHANGED spc
         ELSE got' = 0 /\ spc' = "send"
  /\ UNCHANGED <<accepted, events, conn, listening, toServer, serverEdge, closed, responses>>

(* One recv; on an empty socket it is repeated, and the server waits here. *)
Receive ==
  /\ spc = "event" /\ conn # 0 /\ accepted = NumConns
  /\ atServer[conn] > 0
  /\ atServer' = [atServer EXCEPT ![conn] = @ - Taken(@)]
  /\ LET n == got + Taken(atServer[conn])
     IN  IF n < MsgLen THEN got' = n /\ UNCHANGED spc
         ELSE got' = 0 /\ spc' = "send"
  /\ UNCHANGED <<accepted, events, conn, listening, toServer, serverEdge, closed, responses>>

(* max_retries receives of nothing, or one that fails.                     *)
PeerClosed ==
  /\ spc = "event" /\ conn # 0 /\ accepted = NumConns
  /\ conn \in closed /\ toServer[conn] = 0 /\ atServer[conn] = 0
  /\ NextEvent
  /\ UNCHANGED <<accepted, listening, requests, responses>>

(* Repeated while there is no room; a closed peer takes anything.          *)
Send ==
  /\ spc = "send"
  /\ IF conn \in closed THEN UNCHANGED toClient
     ELSE /\ RoomForResponse(conn)
          /\ toClient' = [toClient EXCEPT ![conn] = @ + MsgLen]
  /\ NextEvent
  /\ UNCHANGED <<accepted, listening, requests, atClient, clientEdge>>

Server == EpollWait \/ Accept \/ Ignore \/ Receive \/ PeerClosed \/ Send

ServerOK ==
  /\ accepted \in Nat /\ accepted + backlog = connected
  /\ spc \in {"wait", "event", "send"}
  /\ events \subseteq 0 .. accepted
  /\ conn \in 0 .. accepted
  /\ got \in 0 .. (MsgLen - 1)
  /\ spc = "wait" <=> events = {}
  /\ spc # "wait" => conn \in events
  /\ spc = "send" \/ got > 0 => conn # 0 /\ accepted = NumConns
  /\ spc # "event" => got = 0

(* accept is never called in vain, which would end the server.             *)
AcceptSucceeds == 0 \in events => backlog > 0

(* Only a connection that was made while another was waiting can be left   *)
(* in the backlog with no edge to come; it takes one more to get it out.   *)
BacklogNoticed == ~listenEdge /\ 0 \notin events => backlog <= crowded
=============================================================================

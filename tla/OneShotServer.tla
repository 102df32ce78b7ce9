---------------------------- MODULE OneShotServer ----------------------------
(***************************************************************************)
(* The event loop of src/multithread/udp_epollserver.c.  For every socket  *)
(* that epoll_wait reports it receives one datagram and sends one reply,   *)
(* although the sockets are watched edge-triggered: what else is in the    *)
(* socket stays there until an arrival raises another edge.                *)
(*                                                                         *)
(* A reply is always the same header, alt_send_header, whose request_id    *)
(* is 0; it goes to the address of the request received last.              *)
(*                                                                         *)
(* Left out: recvfrom failing for another reason than an empty socket and  *)
(* datagrams without data; the feedback thread, whose creation is          *)
(* commented out.                                                          *)
(***************************************************************************)
EXTENDS EpollSockets

CONSTANT Refused      \* requests whose reply sendto may fail to send

ASSUME RefusedAssumption == Refused \subseteq Requests

VARIABLES
  pc,         \* "wait", "recv" or "send"
  todo,       \* events of this turn that are not dealt with
  cur,        \* the socket of the event in hand, e->data.fd
  request     \* clntAddr, and alt_recv_header, which is not looked at

kernel == <<arrived, sock, armed, replies>>
server == <<pc, todo, cur, request>>

InitServer ==
  /\ InitSockets
  /\ pc = "wait" /\ todo = {} /\ cur = 1 /\ request = <<0, 0>>

EpollWait ==
  /\ pc = "wait" /\ Readable # {}
  /\ Report
  /\ pc' = "recv"
  /\ todo' = Readable
  /\ cur' \in Readable
  /\ UNCHANGED <<arrived, sock, replies, request>>

(* On an empty socket recvfrom is called again and again: this action      *)
(* waits, and with it every other socket of the server.                    *)
Receive ==
  /\ pc = "recv" /\ sock[cur] # << >>
  /\ pc' = "send"
  /\ request' = Head(sock[cur])
  /\ TakeFirst(cur)
  /\ UNCHANGED <<arrived, armed, replies, todo, cur>>

WrongNextEvent ==                         \* the loop over the events ends early
  /\ todo' = {}
  /\ pc' = "wait" /\ UNCHANGED cur

NextEvent ==
  /\ todo' = todo \ {cur}
  /\ IF todo' = {} THEN pc' = "wait" /\ UNCHANGED cur
     ELSE pc' = "recv" /\ cur' \in todo'

WrongSendReply ==                         \* goes on with the same socket
  /\ pc = "send"
  /\ ReplyTo(request)
  /\ pc' = "recv"
  /\ UNCHANGED <<arrived, sock, armed, todo, cur, request>>

(* sendto is repeated while it returns EAGAIN; after another failure the   *)
(* request is left without a reply.                                        *)
SendReply ==
  /\ pc = "send"
  /\ ReplyTo(request)
  /\ NextEvent
  /\ UNCHANGED <<arrived, sock, armed, request>>

WrongSendFails ==                         \* EAGAIN is a failure like any other
  /\ pc = "send"
  /\ NextEvent
  /\ UNCHANGED <<kernel, request>>

SendFails ==
  /\ pc = "send" /\ request \in Refused
  /\ NextEvent
  /\ UNCHANGED <<kernel, request>>

ServerOK ==
  /\ SocketsOK
  /\ pc \in {"wait", "recv", "send"}
  /\ todo \subseteq Sockets /\ cur \in Sockets
  /\ request \in Requests \cup {<<0, 0>>}
  /\ pc = "send" => request \in Requests /\ request[1] = cur
  /\ pc = "wait" <=> todo = {}
  /\ pc # "wait" => cur \in todo

(* Sockets that will be read without another arrival.                      *)
ToBeRead == {f \in Sockets : sock[f] # << >> /\
                             (armed[f] \/ (f \in todo /\ ~(pc = "send" /\ cur = f)))}

(* The server never calls recvfrom on an empty socket, where it would spin *)
(* with all other connections waiting: a reported socket keeps what it was *)
(* reported for until its turn comes.                                      *)
NeverSpins == \A f \in todo : sock[f] # << >> \/ (pc = "send" /\ cur = f)

Echo == INSTANCE EchoService WITH
  Losable <- Refused,
  waiting <- InSockets \cup (IF pc = "send" THEN {request} ELSE {})
=============================================================================

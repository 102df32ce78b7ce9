---------------------------- MODULE EpollSockets ----------------------------
(***************************************************************************)
(* What the servers of src/multithread share: the sockets of the           *)
(* connections they serve, an epoll instance that watches them             *)
(* edge-triggered (EPOLLIN | EPOLLET), and the requests of the clients.    *)
(*                                                                         *)
(* Kernel and clients are external.  A datagram that arrives raises an     *)
(* edge.  epoll_wait reports the sockets that have had an edge since they  *)
(* were reported last and still have something to read, and forgets the    *)
(* edges; a socket that is left with datagrams in it is reported again     *)
(* only after another arrival.                                             *)
(*                                                                         *)
(* A request is the pair of its socket and its rank among the requests     *)
(* that arrive there; it stands for the header of the datagram and for     *)
(* the address it came from, to which the reply goes, by way of the router *)
(* or directly.  Retransmissions are requests of their own.                *)
(***************************************************************************)
EXTENDS Integers, Sequences, FiniteSets

CONSTANTS
  NumSockets,   \* expected_connections
  MaxRequests,  \* bound: requests that arrive at one socket
  Backlog       \* datagrams a socket's receive buffer holds

ASSUME SocketsAssumption ==
  /\ NumSockets \in Nat \ {0}
  /\ MaxRequests \in Nat
  /\ Backlog \in Nat \ {0}

Sockets == 1 .. NumSockets      \* e->data.fd - fd_index_diff + 1
Requests == Sockets \X (1 .. MaxRequests)

VARIABLES
  arrived,      \* requests that have arrived, per socket
  sock,         \* the receive buffer of each socket
  armed,        \* sockets with an edge that epoll has not reported
  replies       \* history: replies sent to each request

InitSockets ==
  /\ arrived = [f \in Sockets |-> 0]
  /\ sock = [f \in Sockets |-> << >>]
  /\ armed = [f \in Sockets |-> FALSE]
  /\ replies = [r \in Requests |-> 0]

Arrive(f) ==
  /\ arrived[f] < MaxRequests /\ Len(sock[f]) < Backlog
  /\ arrived' = [arrived EXCEPT ![f] = @ + 1]
  /\ sock' = [sock EXCEPT ![f] = Append(@, <<f, arrived'[f]>>)]
  /\ armed' = [armed EXCEPT ![f] = TRUE]
  /\ UNCHANGED replies

(* What epoll_wait reports; it waits while there is nothing to report.     *)
Readable == {f \in Sockets : armed[f] /\ sock[f] # << >>}

Report == armed' = [f \in Sockets |-> FALSE]

(* recvfrom takes the datagram that came first.                            *)
TakeFirst(f) == sock' = [sock EXCEPT ![f] = Tail(@)]

ReplyTo(r) == replies' = [replies EXCEPT ![r] = @ + 1]

SocketsOK ==
  /\ arrived \in [Sockets -> 0 .. MaxRequests]
  /\ sock \in [Sockets -> Seq(Requests)]
  /\ armed \in [Sockets -> BOOLEAN]
  /\ replies \in [Requests -> Nat]

(* Requests that have arrived and are in no receive buffer any more are    *)
(* the server's; this is what an echo service still has in its sockets.    *)
InSockets == UNION {{sock[f][k] : k \in 1 .. Len(sock[f])} : f \in Sockets}
=============================================================================

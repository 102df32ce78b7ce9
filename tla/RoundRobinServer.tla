-------------------------- MODULE RoundRobinServer --------------------------
(***************************************************************************)
(* The event loop of src/multithread/timerwheel_roundrobin_server.c: pass  *)
(* after pass over the sockets epoll_wait reported, one request of each is *)
(* received and answered, until enough visits have found a socket that an  *)
(* earlier visit had found empty.                                          *)
(*                                                                         *)
(* num_empty_fd counts visits, not sockets: a socket that was drained is   *)
(* counted again in every pass, and the turn may end while another one     *)
(* still has requests in it.                                               *)
(*                                                                         *)
(* Left out: recvfrom failing for another reason than an empty socket, and *)
(* datagrams without data, which no client sends.  sendto is tried again   *)
(* while the kernel's buffer is full, which the model does not show.       *)
(***************************************************************************)
EXTENDS EpollSockets, Functions

CONSTANTS
  Refused,      \* requests whose reply sendto may refuse
  Garbage       \* what malloc may leave in fdreq_tracking_array

ASSUME RoundRobinAssumption ==
  /\ Refused \subseteq Requests
  /\ Garbage \subseteq Int /\ Garbage # {}

VARIABLES
  pc,                   \* "wait", "recv", "send" or "log"
  events, j,            \* the reported sockets in order, and the one visited
  num_empty_fd,
  ready_fd_array,       \* is a reported socket still to be visited?
  request,              \* alt_recv_header and clntAddr
  fdreq_tracking_array,
  log,                  \* the line written last
  taken                 \* history: requests received in this turn, per socket

kernel == <<arrived, sock, armed, replies>>
server == <<pc, events, j, num_empty_fd, ready_fd_array, request,
            fdreq_tracking_array, log>>
vars == <<kernel, server, taken>>

NoLine == [non_zero_fd |-> 0, sum |-> 0]

Init ==
  /\ InitSockets
  /\ pc = "wait" /\ events = << >> /\ j = 1 /\ num_empty_fd = 0
  /\ ready_fd_array = [f \in Sockets |-> 0]
  /\ request = <<0, 0>>
  /\ fdreq_tracking_array \in [Sockets -> Garbage]
  /\ log = NoLine
  /\ taken = [f \in Sockets |-> 0]

(* The orders in which epoll_wait may report the sockets of S.             *)
Orders(S) ==
  {s \in [1 .. Cardinality(S) -> S] : \A f \in S : \E k \in DOMAIN s : s[k] = f}

(* memset clears sizeof(int) bytes, the flag of the first socket alone.    *)
ReadyFlags ==
  [f \in Sockets |-> IF f \in Readable THEN 1 ELSE IF f = 1 THEN 0 ELSE ready_fd_array[f]]

EpollWait ==
  /\ pc = "wait" /\ Readable # {}
  /\ Report
  /\ pc' = "recv"
  /\ events' \in Orders(Readable)
  /\ j' = 1 /\ num_empty_fd' = 0
  /\ ready_fd_array' = ReadyFlags
  /\ taken' = [f \in Sockets |-> 0]
  /\ UNCHANGED <<arrived, sock, replies, request, fdreq_tracking_array, log>>

WrongMore(empty) == empty = 0             \* until some socket is drained

More(empty) == empty < Len(events)

(* On to the next socket, or to the next pass if there is one: whether     *)
(* enough drained sockets were met is looked at between passes only.       *)
Advance(empty) ==
  /\ num_empty_fd' = empty
  /\ IF j < Len(events) THEN j' = j + 1 /\ pc' = "recv"
     ELSE j' = 1 /\ pc' = IF More(empty) THEN "recv" ELSE "log"

Visiting == pc = "recv" /\ ready_fd_array[events[j]] = 1

Receive ==
  LET f == events[j]
  IN  /\ Visiting /\ sock[f] # << >>
      /\ pc' = "send"
      /\ request' = Head(sock[f])
      /\ TakeFirst(f)
      /\ taken' = [taken EXCEPT ![f] = @ + 1]
      /\ UNCHANGED <<arrived, armed, replies, events, j, num_empty_fd,
                     ready_fd_array, fdreq_tracking_array, log>>

Tracked == fdreq_tracking_array' = [fdreq_tracking_array EXCEPT ![events[j]] = @ + 1]

Send ==
  /\ pc = "send"
  /\ \/ ReplyTo(request)
     \/ request \in Refused /\ UNCHANGED replies
  /\ Tracked
  /\ Advance(num_empty_fd)
  /\ UNCHANGED <<arrived, sock, armed, events, ready_fd_array, request, log, taken>>

WrongDrained ==                           \* is not forced past the send loop
  LET f == events[j]
  IN  /\ Visiting /\ sock[f] = << >>
      /\ ready_fd_array' = [ready_fd_array EXCEPT ![f] = 0]
      /\ pc' = "send"
      /\ UNCHANGED <<kernel, events, j, num_empty_fd, request, fdreq_tracking_array,
                     log, taken>>

(* max_retries calls in a row found the socket empty.  The visit is        *)
(* tracked like one that received a request.                               *)
Drained ==
  LET f == events[j]
  IN  /\ Visiting /\ sock[f] = << >>
      /\ ready_fd_array' = [ready_fd_array EXCEPT ![f] = 0]
      /\ Tracked
      /\ Advance(num_empty_fd)
      /\ UNCHANGED <<kernel, events, request, log, taken>>

SkipDrained ==
  /\ pc = "recv" /\ ready_fd_array[events[j]] = 0
  /\ Advance(num_empty_fd + 1)
  /\ UNCHANGED <<kernel, events, ready_fd_array, request, fdreq_tracking_array,
                 log, taken>>

LogLine(per_socket) ==
  [non_zero_fd |-> Cardinality({f \in Sockets : per_socket[f] > 0}),
   sum |-> SumFunction(per_socket)]

EndTurn ==
  /\ pc = "log"
  /\ pc' = "wait"
  /\ log' = IF LogLine(fdreq_tracking_array).non_zero_fd > 0
            THEN LogLine(fdreq_tracking_array) ELSE log
  /\ fdreq_tracking_array' = [f \in Sockets |-> 0]
  /\ UNCHANGED <<kernel, events, j, num_empty_fd, ready_fd_array, request, taken>>

Server == EpollWait \/ Receive \/ Send \/ Drained \/ SkipDrained \/ EndTurn

Clients == \E f \in Sockets : Arrive(f) /\ UNCHANGED <<server, taken>>

(* The server waits and no more requests come.                             *)
Idle ==
  /\ pc = "wait" /\ Readable = {}
  /\ \A f \in Sockets : arrived[f] = MaxRequests
  /\ UNCHANGED vars

Next == Server \/ Clients \/ Idle

Spec == Init /\ [][Next]_vars

(* The server is a process of its own that the system keeps running.       *)
FairSpec == Spec /\ WF_vars(Server)
-----------------------------------------------------------------------------
TypeOK ==
  /\ SocketsOK
  /\ pc \in {"wait", "recv", "send", "log"}
  /\ events \in Seq(Sockets)
  /\ pc \in {"recv", "send"} => j \in 1 .. Len(events)
  /\ num_empty_fd \in Nat
  /\ ready_fd_array \in [Sockets -> {0, 1}]
  /\ request \in Requests \cup {<<0, 0>>}
  /\ fdreq_tracking_array \in [Sockets -> Int]
  /\ log \in [non_zero_fd : Nat, sum : Int]
  /\ taken \in [Sockets -> Nat]

(* Though drained sockets are counted again in every pass, a turn does not *)
(* end before each socket was found empty or gave four requests: the first *)
(* pass receives from all of them, the second finds the first ones empty,  *)
(* and skipping all but one of n >= 2 sockets takes two passes to come to  *)
(* a count of n.                                                           *)
ServesFour ==
  pc = "log" => \A k \in DOMAIN events :
                   ready_fd_array[events[k]] = 0 \/ taken[events[k]] >= 4

Echo == INSTANCE EchoService WITH
  Losable <- Refused,
  waiting <- InSockets \cup (IF pc = "send" THEN {request} ELSE {})

(* The server implements the echo service as long as no socket holds more  *)
(* than four requests.                                                     *)
KeepsEcho == Echo!FairSpec
=============================================================================

--------------------------- MODULE UdpDrainServer ---------------------------
(***************************************************************************)
(* The event loop of src/multithread/timerwheel_server.c: for every socket *)
(* epoll_wait reports, receive and answer until the socket stays empty for *)
(* max_retries calls, then go on with the next one.  At the end of a turn  *)
(* the numbers of requests per socket are written to the log, and after    *)
(* enough requests of the closed-loop connection the rate is printed.      *)
(*                                                                         *)
(* Left out: recvfrom failing for another reason than an empty socket and  *)
(* datagrams without data, which no client sends; the artificial delays,   *)
(* which are compiled out; the choice between a direct reply and one by    *)
(* way of the router; the feedback thread, which reads queued_events.      *)
(***************************************************************************)
EXTENDS EpollSockets, Functions

CONSTANTS
  Refused,      \* requests whose reply sendto may refuse
  Garbage,      \* what malloc may leave in fdreq_tracking_array
  ReportAfter   \* 99000 requests of the closed-loop connection

ASSUME DrainAssumption ==
  /\ Refused \subseteq Requests
  /\ Garbage \subseteq Int /\ Garbage # {}
  /\ ReportAfter \in Nat

VARIABLES
  pc,                   \* "wait", "recv", "send" or "log"
  todo,                 \* reported sockets that are not drained yet
  cur,                  \* the socket being drained, e->data.fd
  request,              \* alt_recv_header and clntAddr
  req_perloop_counter,
  fdreq_tracking_array,
  closedloop_counter, total_counter,
  timed,                \* has start_ts been set?
  log,                  \* the line written last
  taken                 \* history: requests received in this turn, per socket

kernel == <<arrived, sock, armed, replies>>
server == <<pc, todo, cur, request, req_perloop_counter>>
counters == <<fdreq_tracking_array, closedloop_counter, total_counter, timed, log>>
vars == <<kernel, server, counters, taken>>

NoLine == [non_zero_fd |-> 0, sum |-> 0]

Init ==
  /\ InitSockets
  /\ pc = "wait" /\ todo = {} /\ cur = 1 /\ request = <<0, 0>>
  /\ req_perloop_counter = 0
  /\ fdreq_tracking_array \in [Sockets -> Garbage]
  /\ closedloop_counter = 0 /\ total_counter = 0 /\ timed = FALSE
  /\ log = NoLine
  /\ taken = [f \in Sockets |-> 0]

EpollWait ==
  /\ pc = "wait" /\ Readable # {}
  /\ Report
  /\ pc' = "recv"
  /\ todo' = Readable
  /\ cur' \in Readable
  /\ req_perloop_counter' = 0
  /\ taken' = [f \in Sockets |-> 0]
  /\ UNCHANGED <<arrived, sock, replies, request, counters>>

WrongReceive ==                           \* does not look at drained_flag
  /\ pc = "recv"
  /\ pc' = "send"
  /\ IF sock[cur] = << >> THEN UNCHANGED <<request, sock, taken>>
     ELSE /\ request' = Head(sock[cur])
          /\ TakeFirst(cur)
          /\ taken' = [taken EXCEPT ![cur] = @ + 1]
  /\ UNCHANGED <<arrived, armed, replies, todo, cur, req_perloop_counter, counters>>

Receive ==
  /\ pc = "recv" /\ sock[cur] # << >>
  /\ pc' = "send"
  /\ request' = Head(sock[cur])
  /\ TakeFirst(cur)
  /\ taken' = [taken EXCEPT ![cur] = @ + 1]
  /\ UNCHANGED <<arrived, armed, replies, todo, cur, req_perloop_counter, counters>>

(* The count that sendto returns is not the one the code looks at, which   *)
(* is that of recvfrom: whether the kernel took the reply or refused it,   *)
(* it is not tried again and counts as sent.                               *)
Send ==
  /\ pc = "send"
  /\ pc' = "recv"
  /\ \/ ReplyTo(request)
     \/ request \in Refused /\ UNCHANGED replies
  /\ req_perloop_counter' = req_perloop_counter + 1
  /\ total_counter' = total_counter + 1
  /\ UNCHANGED <<arrived, sock, armed, todo, cur, request, fdreq_tracking_array,
                 closedloop_counter, timed, log, taken>>

WrongStaysEmpty(f) == TRUE                \* gives up after max_retries in any case

StaysEmpty(f) == sock[f] = << >>

NextSocket ==
  /\ todo' = todo \ {cur}
  /\ IF todo' = {} THEN pc' = "log" /\ UNCHANGED cur
     ELSE cur' \in todo' /\ UNCHANGED pc

(* max_retries calls in a row found the socket empty.                      *)
Drained ==
  /\ pc = "recv" /\ StaysEmpty(cur)
  /\ NextSocket
  /\ fdreq_tracking_array' = [fdreq_tracking_array EXCEPT ![cur] = req_perloop_counter]
  /\ closedloop_counter' =
       IF cur = NumSockets THEN closedloop_counter + req_perloop_counter
       ELSE closedloop_counter
  /\ req_perloop_counter' = 0
  /\ UNCHANGED <<kernel, request, total_counter, timed, log, taken>>

WrongCleared == fdreq_tracking_array      \* only what is written is cleared

Cleared == [f \in Sockets |-> 0]

LogLine(per_socket) ==
  [non_zero_fd |-> Cardinality({f \in Sockets : per_socket[f] > 0}),
   sum |-> SumFunction(per_socket)]

EndTurn ==
  /\ pc = "log"
  /\ pc' = "wait"
  /\ timed' = (timed \/ closedloop_counter = 1)
  /\ IF closedloop_counter > ReportAfter
     THEN closedloop_counter' = 0 /\ total_counter' = 0
     ELSE UNCHANGED <<closedloop_counter, total_counter>>
  /\ log' = IF LogLine(fdreq_tracking_array).non_zero_fd > 0
            THEN LogLine(fdreq_tracking_array) ELSE log
  /\ fdreq_tracking_array' = Cleared
  /\ UNCHANGED <<kernel, todo, cur, request, req_perloop_counter, taken>>

Server == EpollWait \/ Receive \/ Send \/ Drained \/ EndTurn

Clients == \E f \in Sockets : Arrive(f) /\ UNCHANGED <<server, counters, taken>>

(* The server waits and no more requests come.                             *)
Idle ==
  /\ pc = "wait" /\ Readable = {}
  /\ \A f \in Sockets : arrived[f] = MaxRequests
  /\ UNCHANGED vars

Next == Server \/ Clients \/ Idle

Spec == Init /\ [][Next]_vars

(* The server is a process of its own that the system keeps running.       *)
FairSpec == Spec /\ WF_vars(Server)
-----------------------------------------------------------------------------
TypeOK ==
  /\ SocketsOK
  /\ pc \in {"wait", "recv", "send", "log"}
  /\ todo \subseteq Sockets /\ cur \in Sockets
  /\ request \in Requests \cup {<<0, 0>>}
  /\ pc = "send" => request \in Requests
  /\ pc \in {"recv", "send"} => cur \in todo
  /\ req_perloop_counter \in Nat
  /\ fdreq_tracking_array \in [Sockets -> Int]
  /\ closedloop_counter \in Nat /\ total_counter \in Nat
  /\ timed \in BOOLEAN
  /\ log \in [non_zero_fd : Nat, sum : Int]
  /\ taken \in [Sockets -> Nat]

(* Edge-triggered epoll reports a socket once per arrival: a server that   *)
(* leaves a datagram behind must be sure that an edge for it is to come.   *)
(* When the loop waits, no socket with requests in it waits for an edge    *)
(* that has been reported already.                                         *)
NoStranded == pc = "wait" => \A f \in Sockets : sock[f] # << >> => armed[f]

(* "fdreq_tracking_array tracks the number of reqs in a socket every time  *)
(* a epoll_wait call returns": a line of the log tells how many requests   *)
(* the turn received, and on how many sockets.  The array is not           *)
(* initialised, so this is about the lines after the first.                *)
LogAccounts ==
  [][log # NoLine /\ pc = "log" /\ pc' = "wait" => log' = LogLine(taken)]_vars

Echo == INSTANCE EchoService WITH
  Losable <- Refused,
  waiting <- InSockets \cup (IF pc = "send" THEN {request} ELSE {})

(* The server implements the echo service: every request is answered once, *)
(* the reply goes to the request that was received last, and only those    *)
(* whose reply sendto refuses go without.                                  *)
KeepsEcho == Echo!FairSpec
=============================================================================

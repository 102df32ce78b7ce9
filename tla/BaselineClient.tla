--------------------------- MODULE BaselineClient ---------------------------
(***************************************************************************)
(* The load threads of src/multithread/timerwheel_baseline_client.c.  Main *)
(* starts them one after the other with a short sleep before each; a       *)
(* barrier holds them until all are there.  A thread sends a fixed number  *)
(* of requests, each when it is due, drains what epoll reports, and ends   *)
(* when it has counted as many replies.                                    *)
(*                                                                         *)
(* "each pseudo-connection has it own addr to sendto()": its server_addr.  *)
(* But a request that goes by way of the router is sent to routerAddr, one *)
(* static structure into which each thread writes the port just before     *)
(* (lines 181-182); and recvfrom writes the sender of every reply back     *)
(* into server_addr (line 222).                                            *)
(*                                                                         *)
(* Network, router and servers are external and one: what is sent to a     *)
(* port comes back from that port, at any time and in any order, or is     *)
(* lost.  That the router leaves ports alone is what the client relies on. *)
(* Left out: the choice of a replica (the machine), the latency threads,   *)
(* which are those of UdpMtClient, and failures on which the program exits.*)
(***************************************************************************)
EXTENDS NanoSleep, Sequences, Functions

CONSTANTS
  num_threads_openloop, conn_perthread,
  ToSend,        \* MAX_NUM_TEST * conn_perthread
  SleepTime,     \* 25 us
  MaxLoss        \* bound: datagrams lost

ASSUME BaselineAssumption ==
  /\ num_threads_openloop \in Nat \ {0} /\ conn_perthread \in Nat \ {0}
  /\ ToSend \in Nat \ {0} /\ SleepTime \in Nat /\ MaxLoss \in Nat

Threads == 1 .. num_threads_openloop
Conns == 1 .. (num_threads_openloop * conn_perthread)
ConnOf(t, c) == (t - 1) * conn_perthread + c
ConnList(t) == {ConnOf(t, c) : c \in 1 .. conn_perthread}

Ports == Conns \cup {num_threads_openloop * conn_perthread + 1}

VARIABLES
  (* main *)
  mpc,               \* "create", "sleep" or "join"
  now, start,        \* the clock, and what it was when the sleep began
  ts1, accum,        \* the reading before, and the time added up
  (* the process *)
  is_direct_to_server,
  router_port,       \* routerAddr.sin_port
  port,              \* server_addr.sin_port of each connection
  raced,             \* history: two threads have been between write and sendto
  (* a thread *)
  pc,                \* "none", "barrier", "loop", "route", "send", "recv" or "done"
  send_conn_id, sent_req, completed_req,
  reported,          \* events of this turn that are not dealt with
  (* the sockets and what is outside *)
  inbox,             \* replies in a connection's socket: the ports they are from
  edge,              \* connections with an edge that is not reported
  wire,              \* requests without a reply yet, per connection and port
  lost

sleeping == <<mpc, now, start, ts1, accum>>
addresses == <<router_port, port, raced>>
threads == <<pc, send_conn_id, sent_req, completed_req, reported>>
outside == <<inbox, edge, wire, lost>>
vars == <<sleeping, is_direct_to_server, addresses, threads, outside>>

Midnight == [tv_sec |-> 0, tv_nsec |-> 0]

Init ==
  /\ mpc = "create" /\ now = Midnight /\ start = Midnight /\ ts1 = Midnight /\ accum = 0
  /\ is_direct_to_server \in BOOLEAN
  /\ router_port = num_threads_openloop * conn_perthread + 1
  /\ port = [s \in Conns |-> s] /\ raced = FALSE
  /\ pc = [t \in Threads |-> "none"]
  /\ send_conn_id = [t \in Threads |-> 1]
  /\ sent_req = [t \in Threads |-> 0] /\ completed_req = [t \in Threads |-> 0]
  /\ reported = [t \in Threads |-> {}]
  /\ inbox = [s \in Conns |-> << >>] /\ edge = [s \in Conns |-> FALSE]
  /\ wire = [s \in Conns |-> [p \in Ports |-> 0]]
  /\ lost = 0
-----------------------------------------------------------------------------
(* Main.  A sleep may begin at any part of a second.                       *)
BeginSleep ==
  /\ mpc = "create" /\ mpc' = "sleep"
  /\ \E n \in 0 .. (Second - 1) : now' = [tv_sec |-> 0, tv_nsec |-> n]
  /\ start' = now' /\ ts1' = now' /\ accum' = 0
  /\ UNCHANGED <<is_direct_to_server, addresses, threads, outside>>

ReadClock ==
  /\ mpc = "sleep" /\ accum < SleepTime
  /\ \E d \in 1 .. MaxStep : now' = After(now, d)
  /\ accum' = accum + Added(ts1, now')
  /\ ts1' = now'
  /\ UNCHANGED <<mpc, start, is_direct_to_server, addresses, threads, outside>>

Create ==
  /\ mpc = "sleep" /\ accum >= SleepTime
  /\ \E t \in Threads :
       /\ pc[t] = "none" /\ \A u \in 1 .. (t - 1) : pc[u] # "none"
       /\ pc' = [pc EXCEPT ![t] = "barrier"]
       /\ mpc' = IF t = num_threads_openloop THEN "join" ELSE "create"
  /\ now' = Midnight /\ start' = Midnight /\ ts1' = Midnight /\ accum' = 0
  /\ UNCHANGED <<is_direct_to_server, addresses, send_conn_id, sent_req, completed_req,
                 reported, outside>>

Main == BeginSleep \/ ReadClock \/ Create
-----------------------------------------------------------------------------
PassBarrier(t) ==
  /\ pc[t] = "barrier" /\ \A u \in Threads : pc[u] # "none"
  /\ pc' = [pc EXCEPT ![t] = "loop"]
  /\ UNCHANGED <<sleeping, is_direct_to_server, addresses, send_conn_id, sent_req,
                 completed_req, reported, outside>>

Due(t) ==
  /\ pc[t] = "loop" /\ completed_req[t] < ToSend /\ sent_req[t] < ToSend
  /\ pc' = [pc EXCEPT ![t] = IF is_direct_to_server THEN "send" ELSE "route"]
  /\ UNCHANGED <<sleeping, is_direct_to_server, addresses, send_conn_id, sent_req,
                 completed_req, reported, outside>>

Sender(t) == ConnOf(t, send_conn_id[t])

(* Another thread has written its port and not sent to it yet.             *)
Races(t) == \E u \in Threads \ {t} : pc[u] = "send"

WrongRoute(t) ==                          \* only before the thread's first request
  /\ pc[t] = "route"
  /\ pc' = [pc EXCEPT ![t] = "send"]
  /\ router_port' = IF sent_req[t] = 0 THEN port[Sender(t)] ELSE router_port
  /\ raced' = (raced \/ Races(t))
  /\ UNCHANGED <<sleeping, is_direct_to_server, port, send_conn_id, sent_req,
                 completed_req, reported, outside>>

(* routerAddr.sin_port = server_addr.sin_port, and then sendto.  Other     *)
(* threads can be anywhere between the two.                                *)
Route(t) ==
  /\ pc[t] = "route"
  /\ pc' = [pc EXCEPT ![t] = "send"]
  /\ router_port' = port[Sender(t)]
  /\ raced' = (raced \/ Races(t))
  /\ UNCHANGED <<sleeping, is_direct_to_server, port, send_conn_id, sent_req,
                 completed_req, reported, outside>>

WrongDestination(t) == router_port        \* by way of the router in any case

Destination(t) == IF is_direct_to_server THEN port[Sender(t)] ELSE router_port

SendTo(t) ==
  /\ pc[t] = "send"
  /\ pc' = [pc EXCEPT ![t] = "loop"]
  /\ wire' = [wire EXCEPT ![Sender(t)][Destination(t)] = @ + 1]
  /\ sent_req' = [sent_req EXCEPT ![t] = @ + 1]
  /\ send_conn_id' = [send_conn_id EXCEPT ![t] = (@ % conn_perthread) + 1]
  /\ UNCHANGED <<sleeping, is_direct_to_server, addresses, completed_req, reported,
                 inbox, edge, lost>>

Reported(t) == {s \in ConnList(t) : edge[s] /\ inbox[s] # << >>}

Poll(t) ==
  /\ pc[t] = "loop" /\ completed_req[t] < ToSend
  /\ reported' = [reported EXCEPT ![t] = Reported(t)]
  /\ pc' = [pc EXCEPT ![t] = IF Reported(t) = {} THEN "loop" ELSE "recv"]
  /\ edge' = [s \in Conns |-> edge[s] /\ s \notin ConnList(t)]
  /\ UNCHANGED <<sleeping, is_direct_to_server, addresses, send_conn_id, sent_req,
                 completed_req, inbox, wire, lost>>

(* The replies of a reported connection are taken until there are none.    *)
Receive(t) ==
  /\ pc[t] = "recv"
  /\ \E s \in reported[t] :
       /\ inbox[s] # << >>
       /\ inbox' = [inbox EXCEPT ![s] = Tail(@)]
       /\ port' = [port EXCEPT ![s] = Head(inbox[s])]
  /\ completed_req' = [completed_req EXCEPT ![t] = @ + 1]
  /\ UNCHANGED <<sleeping, is_direct_to_server, router_port, raced, pc, send_conn_id,
                 sent_req, reported, edge, wire, lost>>

WrongEmpty(s) == TRUE                     \* one reply for each event

Empty(s) == inbox[s] = << >>

(* max_retries calls in a row found the socket empty.                      *)
Drained(t) ==
  /\ pc[t] = "recv"
  /\ \E s \in reported[t] :
       /\ Empty(s)
       /\ reported' = [reported EXCEPT ![t] = @ \ {s}]
       /\ pc' = [pc EXCEPT ![t] = IF reported[t] = {s} THEN "loop" ELSE "recv"]
  /\ UNCHANGED <<sleeping, is_direct_to_server, addresses, send_conn_id, sent_req,
                 completed_req, outside>>

Finish(t) ==
  /\ pc[t] = "loop" /\ completed_req[t] >= ToSend
  /\ pc' = [pc EXCEPT ![t] = "done"]
  /\ UNCHANGED <<sleeping, is_direct_to_server, addresses, send_conn_id, sent_req,
                 completed_req, reported, outside>>

Thread(t) ==
  \/ PassBarrier(t) \/ Due(t) \/ Route(t) \/ SendTo(t)
  \/ Poll(t) \/ Receive(t) \/ Drained(t)
  \/ Finish(t)
-----------------------------------------------------------------------------
Reply(s, p) ==
  /\ wire[s][p] > 0
  /\ wire' = [wire EXCEPT ![s][p] = @ - 1]
  /\ inbox' = [inbox EXCEPT ![s] = Append(@, p)]
  /\ edge' = [edge EXCEPT ![s] = TRUE]
  /\ UNCHANGED <<sleeping, is_direct_to_server, addresses, threads, lost>>

Lose(s, p) ==
  /\ wire[s][p] > 0 /\ lost < MaxLoss
  /\ wire' = [wire EXCEPT ![s][p] = @ - 1]
  /\ lost' = lost + 1
  /\ UNCHANGED <<sleeping, is_direct_to_server, addresses, threads, inbox, edge>>

Next ==
  \/ Main
  \/ \E t \in Threads : Thread(t)
  \/ \E s \in Conns, p \in Ports : Reply(s, p) \/ Lose(s, p)

Spec == Init /\ [][Next]_vars

(* The threads are kept running, time passes, and a reply that is not lost *)
(* comes.                                                                  *)
FairSpec ==
  /\ Spec
  /\ WF_vars(Main)
  /\ \A t \in Threads : WF_vars(Thread(t))
  /\ WF_vars(\E s \in Conns, p \in Ports : Reply(s, p))
-----------------------------------------------------------------------------
TypeOK ==
  /\ mpc \in {"create", "sleep", "join"}
  /\ now \in Timespec /\ start \in Timespec /\ ts1 \in Timespec /\ accum \in Int
  /\ is_direct_to_server \in BOOLEAN
  /\ router_port \in Ports /\ port \in [Conns -> Ports] /\ raced \in BOOLEAN
  /\ pc \in [Threads -> {"none", "barrier", "loop", "route", "send", "recv", "done"}]
  /\ send_conn_id \in [Threads -> 1 .. conn_perthread]
  /\ sent_req \in [Threads -> Nat] /\ completed_req \in [Threads -> Nat]
  /\ reported \in [Threads -> SUBSET Conns]
  /\ inbox \in [Conns -> Seq(Ports)] /\ edge \in [Conns -> BOOLEAN]
  /\ wire \in [Conns -> [Ports -> Nat]]
  /\ lost \in 0 .. MaxLoss

(* Time since the sleep began.                                             *)
Elapsed == (now.tv_sec - start.tv_sec) * Second + now.tv_nsec - start.tv_nsec

(* A sleep is never too short; it is too long only by the step on which a  *)
(* second ends, which is lost.                                             *)
SleepLongEnough ==
  /\ accum <= Elapsed
  /\ Elapsed - accum <= (now.tv_sec - start.tv_sec) * MaxStep

(* "each pseudo-connection has it own addr to sendto()" is so until two    *)
(* threads are between their write into the router's address and their     *)
(* sendto at once: up to then each request goes to its connection's port   *)
(* and each connection keeps it, although all write one address and each   *)
(* reply overwrites the connection's.                                      *)
OwnPortsUntilRaced ==
  raced \/ \A s \in Conns : port[s] = s /\ \A p \in Ports : wire[s][p] > 0 => p = s

(* Whatever the threads write over each other, a request only ever goes to *)
(* the port of some connection, never to the one that the router's address *)
(* starts with; and sent directly, only to its own connection's port.      *)
KnownPorts ==
  \A s \in Conns :
    /\ port[s] \in Conns
    /\ is_direct_to_server => port[s] = s
    /\ \A p \in Ports :
         wire[s][p] > 0 => p \in Conns /\ (is_direct_to_server => p = s)

(* The threads end, whatever ports their requests have gone to, unless     *)
(* something was lost: a reply comes back to the socket of its request.    *)
ThreadsEnd == <>((\A t \in Threads : pc[t] = "done") \/ lost > 0)

(* Ports that a request could still go to.                                 *)
LivePorts ==
  {router_port} \cup {port[s] : s \in Conns}
    \cup {p \in Ports : \E s \in Conns : wire[s][p] > 0}
    \cup UNION {{inbox[s][k] : k \in 1 .. Len(inbox[s])} : s \in Conns}

(* A race on routerAddr that costs a connection its port is final: a port  *)
(* of a server that no connection, reply or request in flight names any    *)
(* more is never used again, and the load of its socket goes to others.    *)
PortsOnlyVanish == [][LivePorts' \subseteq LivePorts]_vars
=============================================================================

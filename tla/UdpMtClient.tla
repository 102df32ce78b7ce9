---------------------------- MODULE UdpMtClient ----------------------------
(***************************************************************************)
(* src/multithread/udp_mtclient.c: main starts load threads, then latency  *)
(* threads, and waits for all of them.  A latency thread sends a request,  *)
(* waits for the reply without a timeout, and so on for its samples; the   *)
(* first that is through sets closed_loop_done, which is what ends the     *)
(* load threads.  timerwheel_openloop_client.c (lines 403-496, 694-743)    *)
(* has the same run control.                                               *)
(*                                                                         *)
(* Sockets 1 .. NumConns are the load threads' connections, each with a    *)
(* server port of its own.  The ones after that are the latency threads'.  *)
(*                                                                         *)
(* Left out: the choice between two replicas (the server's machine),       *)
(* the log (all latency threads write to files of the same name), and      *)
(* failures on which the program exits.                                    *)
(***************************************************************************)
EXTENDS Integers

CONSTANTS
  num_threads_openloop, num_threads_closedloop, conn_perthread,
  Samples,      \* MAX_NUM_SAMPLE
  MaxSent       \* bound: requests a load thread sends

ASSUME ThreadsAssumption ==
  /\ num_threads_openloop \in Nat \ {0} /\ num_threads_closedloop \in Nat \ {0}
  /\ conn_perthread \in Nat \ {0}
  /\ Samples \in Nat \ {0} /\ MaxSent \in Nat

LoadThreads == 1 .. num_threads_openloop
NumConns == num_threads_openloop * conn_perthread
LatencyThreads == (NumConns + 1) .. (NumConns + num_threads_closedloop)
ClientSockets == 1 .. (NumConns + num_threads_closedloop)

(* conn_list of a load thread.                                             *)
ConnOf(t, c) == (t - 1) * conn_perthread + c
ConnList(t) == {ConnOf(t, c) : c \in 1 .. conn_perthread}

VARIABLES
  main,              \* "load", "clear", "latency", "join" or "end"
  closed_loop_done,
  lpc,               \* load threads: "none", "barrier", "loop", "send", "poll", "recv", "done"
  send_conn_id, sent_req, completed_req,
  events,            \* connections epoll has reported and that are not dealt with
  mpc,               \* latency threads: "none", "send", "recv" or "done"
  num_req,
  inbox,             \* replies in the receive buffer of each socket
  edge               \* sockets with an edge that epoll has not reported

control == <<main, closed_loop_done>>
load == <<lpc, send_conn_id, sent_req, completed_req, events>>
latency == <<mpc, num_req>>
mailbox == <<inbox, edge>>
client == <<control, load, latency, mailbox>>

InitClient ==
  /\ main = "load" /\ closed_loop_done = FALSE
  /\ lpc = [t \in LoadThreads |-> "none"]
  /\ send_conn_id = [t \in LoadThreads |-> 1]
  /\ sent_req = [t \in LoadThreads |-> 0]
  /\ completed_req = [t \in LoadThreads |-> 0]
  /\ events = [t \in LoadThreads |-> {}]
  /\ mpc = [k \in LatencyThreads |-> "none"]
  /\ num_req = [k \in LatencyThreads |-> 0]
  /\ inbox = [s \in ClientSockets |-> 0] /\ edge = [s \in ClientSockets |-> FALSE]
-----------------------------------------------------------------------------
(* main.  Threads are created in order; creating the last ends the loop.   *)
CreateLoad ==
  /\ main = "load"
  /\ \E t \in LoadThreads :
       /\ lpc[t] = "none" /\ \A u \in 1 .. (t - 1) : lpc[u] # "none"
       /\ lpc' = [lpc EXCEPT ![t] = "barrier"]
       /\ main' = IF t = num_threads_openloop THEN "clear" ELSE main
  /\ UNCHANGED <<closed_loop_done, send_conn_id, sent_req, completed_req, events,
                 latency, mailbox>>

ClearFlag ==
  /\ main = "clear" /\ main' = "latency"
  /\ closed_loop_done' = FALSE
  /\ UNCHANGED <<load, latency, mailbox>>

CreateLatency ==
  /\ main = "latency"
  /\ \E k \in LatencyThreads :
       /\ mpc[k] = "none" /\ \A j \in (NumConns + 1) .. (k - 1) : mpc[j] # "none"
       /\ mpc' = [mpc EXCEPT ![k] = "send"]
       /\ main' = IF k = NumConns + num_threads_closedloop THEN "join" ELSE main
  /\ UNCHANGED <<closed_loop_done, load, num_req, mailbox>>

(* The latency threads are joined first, then the load threads.            *)
Join ==
  /\ main = "join"
  /\ \A k \in LatencyThreads : mpc[k] = "done"
  /\ \A t \in LoadThreads : lpc[t] = "done"
  /\ main' = "end"
  /\ UNCHANGED <<closed_loop_done, load, latency, mailbox>>

Main == CreateLoad \/ ClearFlag \/ CreateLatency \/ Join
-----------------------------------------------------------------------------
(* A load thread.  The barrier lets nobody pass before all have come; the  *)
(* count of requests starts at one.                                        *)
PassBarrier(t) ==
  /\ lpc[t] = "barrier" /\ \A u \in LoadThreads : lpc[u] # "none"
  /\ lpc' = [lpc EXCEPT ![t] = "loop"]
  /\ sent_req' = [sent_req EXCEPT ![t] = @ + 1]
  /\ UNCHANGED <<control, send_conn_id, completed_req, events, latency, mailbox>>

(* A request is due, and the flag was not set when the thread looked.      *)
Due(t) ==
  /\ lpc[t] = "loop" /\ ~closed_loop_done /\ sent_req[t] <= MaxSent
  /\ lpc' = [lpc EXCEPT ![t] = "send"]
  /\ UNCHANGED <<control, send_conn_id, sent_req, completed_req, events, latency, mailbox>>

SendRequest(t) ==                         \* on ConnOf(t, send_conn_id[t])
  /\ lpc[t] = "send"
  /\ lpc' = [lpc EXCEPT ![t] = "poll"]
  /\ sent_req' = [sent_req EXCEPT ![t] = @ + 1]
  /\ send_conn_id' = [send_conn_id EXCEPT ![t] = (@ % conn_perthread) + 1]
  /\ UNCHANGED <<control, completed_req, events, latency, mailbox>>

Reported(t) == {s \in ConnList(t) : edge[s] /\ inbox[s] > 0}

Poll(t) ==
  /\ lpc[t] = "poll"
  /\ events' = [events EXCEPT ![t] = Reported(t)]
  /\ lpc' = [lpc EXCEPT ![t] = IF Reported(t) = {} THEN "loop" ELSE "recv"]
  /\ edge' = [s \in ClientSockets |-> edge[s] /\ s \notin ConnList(t)]
  /\ UNCHANGED <<control, send_conn_id, sent_req, completed_req, latency, inbox>>

(* One reply for each event; on an empty socket the thread calls recvfrom  *)
(* again and again.                                                        *)
ReceiveReply(t) ==
  /\ lpc[t] = "recv"
  /\ \E s \in events[t] :
       /\ inbox[s] > 0
       /\ inbox' = [inbox EXCEPT ![s] = @ - 1]
       /\ events' = [events EXCEPT ![t] = @ \ {s}]
       /\ lpc' = [lpc EXCEPT ![t] = IF events[t] = {s} THEN "loop" ELSE "recv"]
  /\ completed_req' = [completed_req EXCEPT ![t] = @ + 1]
  /\ UNCHANGED <<control, send_conn_id, sent_req, latency, edge>>

WrongLoadEnds(t) ==                       \* waits for what it has counted
  /\ lpc[t] = "loop" /\ closed_loop_done /\ completed_req[t] >= sent_req[t]
  /\ lpc' = [lpc EXCEPT ![t] = "done"]
  /\ UNCHANGED <<control, send_conn_id, sent_req, completed_req, events, latency, mailbox>>

LoadEnds(t) ==
  /\ lpc[t] = "loop" /\ closed_loop_done
  /\ lpc' = [lpc EXCEPT ![t] = "done"]
  /\ UNCHANGED <<control, send_conn_id, sent_req, completed_req, events, latency, mailbox>>

LoadActs(t) == PassBarrier(t) \/ Due(t) \/ Poll(t) \/ ReceiveReply(t) \/ LoadEnds(t)
-----------------------------------------------------------------------------
(* A latency thread.                                                       *)
LatencySends(k) ==
  /\ mpc[k] = "send" /\ num_req[k] < Samples
  /\ mpc' = [mpc EXCEPT ![k] = "recv"]
  /\ UNCHANGED <<control, load, num_req, mailbox>>

WrongLatencyReceives(k) ==                \* a receive that does not block
  /\ mpc[k] = "recv"
  /\ inbox' = [inbox EXCEPT ![k] = IF @ > 0 THEN @ - 1 ELSE @]
  /\ num_req' = [num_req EXCEPT ![k] = @ + 1]
  /\ mpc' = [mpc EXCEPT ![k] = "send"]
  /\ UNCHANGED <<control, load, edge>>

LatencyReceives(k) ==
  /\ mpc[k] = "recv" /\ inbox[k] > 0
  /\ inbox' = [inbox EXCEPT ![k] = @ - 1]
  /\ num_req' = [num_req EXCEPT ![k] = @ + 1]
  /\ mpc' = [mpc EXCEPT ![k] = "send"]
  /\ UNCHANGED <<control, load, edge>>

WrongLatencyEnds(k) ==                    \* the last thread ends the load
  /\ mpc[k] = "send" /\ num_req[k] = Samples
  /\ mpc' = [mpc EXCEPT ![k] = "done"]
  /\ closed_loop_done' = (\A j \in LatencyThreads : mpc'[j] = "done")
  /\ UNCHANGED <<main, load, num_req, mailbox>>

LatencyEnds(k) ==
  /\ mpc[k] = "send" /\ num_req[k] = Samples
  /\ mpc' = [mpc EXCEPT ![k] = "done"]
  /\ closed_loop_done' = TRUE
  /\ UNCHANGED <<main, load, num_req, mailbox>>
-----------------------------------------------------------------------------
(* A reply reaches the client's socket; no epoll watches the latency       *)
(* threads' sockets.                                                       *)
Comes(s) ==
  /\ inbox' = [inbox EXCEPT ![s] = @ + 1]
  /\ edge' = [edge EXCEPT ![s] = s \in 1 .. NumConns]
  /\ UNCHANGED <<control, load, latency>>

ClientOK ==
  /\ main \in {"load", "clear", "latency", "join", "end"}
  /\ closed_loop_done \in BOOLEAN
  /\ lpc \in [LoadThreads -> {"none", "barrier", "loop", "send", "poll", "recv", "done"}]
  /\ send_conn_id \in [LoadThreads -> 1 .. conn_perthread]
  /\ sent_req \in [LoadThreads -> Nat]
  /\ completed_req \in [LoadThreads -> Nat]
  /\ events \in [LoadThreads -> SUBSET (1 .. NumConns)]
  /\ mpc \in [LatencyThreads -> {"none", "send", "recv", "done"}]
  /\ num_req \in [LatencyThreads -> 0 .. Samples]
  /\ \A k \in LatencyThreads : mpc[k] = "recv" => num_req[k] < Samples
  /\ inbox \in [ClientSockets -> Nat]
  /\ edge \in [ClientSockets -> BOOLEAN]
=============================================================================

---------------------------- MODULE UdpMtTestbed ----------------------------
(***************************************************************************)
(* The multi-threaded UDP client with the one-shot server, over a network  *)
(* that delays, reorders and may lose datagrams.                           *)
(*                                                                         *)
(* A load thread's connection has a server port of its own.  The latency   *)
(* threads all send to the port after those: main does not advance         *)
(* recv_port_start between them.  So their requests meet in one socket of  *)
(* a server that reads one datagram per edge.                              *)
(***************************************************************************)
EXTENDS OneShotServer, UdpMtClient

CONSTANT MaxLoss      \* bound: datagrams the network loses

ASSUME TestbedAssumption ==
  /\ NumSockets = NumConns + 1
  /\ MaxRequests >= num_threads_closedloop * Samples /\ MaxRequests >= MaxSent
  /\ Backlog >= MaxRequests
  /\ MaxLoss \in Nat

CL == NumConns + 1           \* recv_port_start when the latency threads are set up
PortOf(s) == IF s \in 1 .. NumConns THEN s ELSE CL

VARIABLES
  up, down,     \* requests and replies on the way, per socket of the client
  from,         \* the client's socket that a request in the server came from
  losses,
  bereft        \* history: latency threads whose request or reply was lost or refused

network == <<up, down, from, losses, bereft>>
vars == <<kernel, server, client, network>>

Nobody == 0

Init ==
  /\ InitServer /\ InitClient
  /\ up = [s \in ClientSockets |-> 0] /\ down = [s \in ClientSockets |-> 0]
  /\ from = [r \in Requests |-> Nobody]
  /\ losses = 0 /\ bereft = {}

MainActs == Main /\ UNCHANGED <<kernel, server, network>>

LoadThread(t) ==
  \/ /\ SendRequest(t)
     /\ up' = [up EXCEPT ![ConnOf(t, send_conn_id[t])] = @ + 1]
     /\ UNCHANGED <<kernel, server, down, from, losses, bereft>>
  \/ LoadActs(t) /\ UNCHANGED <<kernel, server, network>>

LatencyThread(k) ==
  \/ /\ LatencySends(k)
     /\ up' = [up EXCEPT ![k] = @ + 1]
     /\ UNCHANGED <<kernel, server, down, from, losses, bereft>>
  \/ (LatencyReceives(k) \/ LatencyEnds(k)) /\ UNCHANGED <<kernel, server, network>>

ServerListens == (EpollWait \/ Receive) /\ UNCHANGED <<client, network>>

ServerReplies ==
  /\ SendReply
  /\ down' = [down EXCEPT ![from[request]] = @ + 1]
  /\ from' = [from EXCEPT ![request] = Nobody]
  /\ UNCHANGED <<client, up, losses, bereft>>

ServerFails ==
  /\ SendFails
  /\ from' = [from EXCEPT ![request] = Nobody]
  /\ bereft' = bereft \cup ({from[request]} \cap LatencyThreads)
  /\ UNCHANGED <<client, up, down, losses>>

Server == ServerListens \/ ServerReplies \/ ServerFails

RequestArrives(s) ==
  /\ up[s] > 0
  /\ Arrive(PortOf(s))
  /\ up' = [up EXCEPT ![s] = @ - 1]
  /\ from' = [from EXCEPT ![<<PortOf(s), arrived[PortOf(s)] + 1>>] = s]
  /\ UNCHANGED <<server, client, down, losses, bereft>>

ReplyArrives(s) ==
  /\ down[s] > 0
  /\ down' = [down EXCEPT ![s] = @ - 1]
  /\ Comes(s)
  /\ UNCHANGED <<kernel, server, up, from, losses, bereft>>

Lose(s) ==
  /\ losses < MaxLoss
  /\ losses' = losses + 1
  /\ bereft' = bereft \cup ({s} \cap LatencyThreads)
  /\ \/ up[s] > 0 /\ up' = [up EXCEPT ![s] = @ - 1] /\ UNCHANGED down
     \/ down[s] > 0 /\ down' = [down EXCEPT ![s] = @ - 1] /\ UNCHANGED up
  /\ UNCHANGED <<kernel, server, client, from>>

Next ==
  \/ MainActs
  \/ \E t \in LoadThreads : LoadThread(t)
  \/ \E k \in LatencyThreads : LatencyThread(k)
  \/ Server
  \/ \E s \in ClientSockets : RequestArrives(s) \/ ReplyArrives(s) \/ Lose(s)

Spec == Init /\ [][Next]_vars

(* Threads and server are kept running, and what is not lost arrives.      *)
FairSpec ==
  /\ Spec
  /\ WF_vars(MainActs) /\ WF_vars(Server)
  /\ \A t \in LoadThreads : WF_vars(LoadThread(t))
  /\ \A k \in LatencyThreads : WF_vars(LatencyThread(k))
  /\ WF_vars(\E s \in ClientSockets : RequestArrives(s))
  /\ WF_vars(\E s \in ClientSockets : ReplyArrives(s))
-----------------------------------------------------------------------------
NetworkOK ==
  /\ up \in [ClientSockets -> Nat] /\ down \in [ClientSockets -> Nat]
  /\ from \in [Requests -> ClientSockets \cup {Nobody}]
  /\ losses \in 0 .. MaxLoss
  /\ bereft \subseteq LatencyThreads

TypeOK == ServerOK /\ ClientOK /\ NetworkOK

(* The requests of a client's socket that the server has.                  *)
AtServer(s) == {r \in Requests : from[r] = s}

(* A latency thread that waits has one datagram, unless it was lost: on    *)
(* the way, in the server or in its socket; one that does not wait has     *)
(* none.  So each sample is the time of its own request, although no reply *)
(* is looked at.                                                           *)
SamplesOwn ==
  \A k \in LatencyThreads :
    up[k] + Cardinality(AtServer(k)) + down[k] + inbox[k]
      = IF mpc[k] = "recv" /\ k \notin bereft THEN 1 ELSE 0

(* What the server leaves in the shared socket is less than the latency    *)
(* threads that could wait for it: the arrival that came last raised an    *)
(* edge and one of them was read.                                          *)
SharedSocketLeaves ==
  CL \notin ToBeRead => Len(sock[CL]) < num_threads_closedloop

(* Nothing will come to any latency thread, and one of them is waiting.    *)
Stalled ==
  /\ \E k \in LatencyThreads : mpc[k] = "recv"
  /\ \A k \in LatencyThreads :
       mpc[k] \in {"recv", "done"} /\ up[k] = 0 /\ down[k] = 0 /\ inbox[k] = 0
  /\ CL \notin ToBeRead /\ ~(pc = "send" /\ cur = CL)

(* If nothing was lost, a thread has taken all its samples when the others *)
(* stall: the load ends although the run does not.                         *)
StallsLate == Stalled /\ bereft = {} => closed_loop_done

(* Some latency thread gets through its samples, unless one is lost.       *)
FirstFinishes == <>(closed_loop_done \/ bereft # {})

(* main returns, unless the latency threads stall.                         *)
RunEnds == <>(main = "end" \/ Stalled)
=============================================================================

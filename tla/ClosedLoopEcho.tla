--------------------------- MODULE ClosedLoopEcho ---------------------------
(***************************************************************************)
(* The closed-loop client, the one-shot server and UDP between them, which *)
(* may lose datagrams and deliver them in any order.  As in a run of the   *)
(* testbed there is one closed-loop connection, on the last port of the    *)
(* server; the requests of the other connections come when they like.      *)
(***************************************************************************)
EXTENDS OneShotServer, ClosedLoopClient

CONSTANTS
  MaxLoss,      \* bound: datagrams of the closed-loop connection lost
  MaxOthers     \* bound: requests of each other connection

ASSUME LossAssumption == MaxLoss \in Nat /\ MaxOthers \in Nat

VARIABLES
  up, down,    \* datagrams on the way to the server and replies on the way back
  carried,     \* the datagram that a request which waits in the server came in
  losses,
  bereft       \* history: was something lost since the client last sent?

network == <<up, down, carried, losses, bereft>>
vars == <<kernel, server, client, network>>

CL == NumSockets       \* the socket of the closed-loop connection

NoDatagram == <<-1, 0>>

Init ==
  /\ InitServer /\ InitClient
  /\ up = {} /\ down = {}
  /\ carried = [r \in Requests |-> NoDatagram]
  /\ losses = 0 /\ bereft = FALSE

ClientSends ==
  /\ SendRequest \/ SendAgain
  /\ up' = up \cup {Sent}
  /\ bereft' = FALSE
  /\ UNCHANGED <<kernel, server, down, carried, losses>>

ClientActs ==
  /\ Accept \/ TimesOut \/ Block \/ GivesUp
  /\ UNCHANGED <<kernel, server, network>>

Client == ClientSends \/ ClientActs

ServerListens == (EpollWait \/ Receive) /\ UNCHANGED <<client, network>>

ServerReplies ==
  /\ SendReply
  /\ down' = IF cur = CL THEN down \cup {carried[request]} ELSE down
  /\ carried' = [carried EXCEPT ![request] = NoDatagram]
  /\ UNCHANGED <<client, up, losses, bereft>>

ServerFails ==
  /\ SendFails
  /\ bereft' = (bereft \/ cur = CL)
  /\ carried' = [carried EXCEPT ![request] = NoDatagram]
  /\ UNCHANGED <<client, up, down, losses>>

Server == ServerListens \/ ServerReplies \/ ServerFails

RequestArrives ==
  \E d \in up :
    /\ Arrive(CL)
    /\ up' = up \ {d}
    /\ carried' = [carried EXCEPT ![<<CL, arrived[CL] + 1>>] = d]
    /\ UNCHANGED <<server, client, down, losses, bereft>>

ReplyArrives ==
  \E d \in down :
    /\ down' = down \ {d}
    /\ inbox' = Append(inbox, d)
    /\ UNCHANGED <<kernel, server, step, iter, answers, timed_out, up, carried,
                   losses, bereft>>

OthersSend ==
  \E f \in Sockets \ {CL} :
    /\ arrived[f] < MaxOthers
    /\ Arrive(f)
    /\ UNCHANGED <<server, client, network>>

Lose ==
  /\ losses < MaxLoss
  /\ losses' = losses + 1
  /\ bereft' = TRUE
  /\ \/ \E d \in up : up' = up \ {d} /\ UNCHANGED down
     \/ \E d \in down : down' = down \ {d} /\ UNCHANGED up
  /\ UNCHANGED <<kernel, server, client, carried>>

(* The answer was lost and the client is in the call that blocks.          *)
Stuck == step = "blocked" /\ bereft

Idle == (step = "done" \/ Stuck) /\ UNCHANGED vars

Next ==
  \/ Client \/ Server
  \/ RequestArrives \/ ReplyArrives \/ Lose
  \/ OthersSend
  \/ Idle

Spec == Init /\ [][Next]_vars

(* Server and client are processes the system keeps running, and 100 us    *)
(* pass; a datagram that is not lost arrives.                              *)
FairSpec ==
  /\ Spec
  /\ WF_vars(Server) /\ WF_vars(Client)
  /\ WF_vars(RequestArrives) /\ WF_vars(ReplyArrives)
-----------------------------------------------------------------------------
NetworkOK ==
  /\ up \in SUBSET Datagrams /\ down \in SUBSET Datagrams
  /\ carried \in [Requests -> Datagrams \cup {NoDatagram}]
  /\ losses \in 0 .. MaxLoss
  /\ bereft \in BOOLEAN

TypeOK == ServerOK /\ ClientOK /\ NetworkOK

(* Until the client first times out every reply it takes answers the       *)
(* request it is waiting for, although ids are not compared.  Afterwards   *)
(* the reply to the copy may be taken for that to the next request, and so *)
(* on for the rest of the run: each latency is that of an earlier request. *)
AnswersOwn ==
  \A i \in Iterations :
    i < iter /\ timed_out \cap (0 .. i) = {} => answers[i + 1] = i

(* The server leaves datagrams behind, but a client that waits has, unless *)
(* something was lost since it last sent, an answer that comes without     *)
(* another request: on the network, in a socket the server is going to     *)
(* read, in the server's hands, or in the client's socket.                 *)
AnswerToCome ==
  Awaiting /\ ~bereft =>
    \/ up # {} \/ down # {} \/ inbox # << >>
    \/ CL \in ToBeRead
    \/ pc = "send" /\ cur = CL

(* What the server has left in the socket is no more than what the client  *)
(* sent twice or did not wait for.                                         *)
StrandedByTimeouts ==
  CL \notin ToBeRead =>
    Len(sock[CL]) <= Cardinality(timed_out) + Cardinality(GivenUp)

(* A request is answered once and only after it has arrived, and only      *)
(* requests whose reply cannot be sent are dropped.  Whether it is ever    *)
(* answered is another matter: see StrandedByTimeouts.                     *)
AnswersOnce == Echo!Spec

(* The client gets through its iterations, unless its answer is lost while *)
(* it is in the wait that has no timeout.                                  *)
ClientFinishes == <>(step = "done" \/ Stuck)
=============================================================================

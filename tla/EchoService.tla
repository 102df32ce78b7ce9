----------------------------- MODULE EchoService -----------------------------
(***************************************************************************)
(* What a server promises its clients: a request that has arrived is       *)
(* answered, once, and nothing else is.  Only requests whose reply the     *)
(* system may refuse to send can go without an answer.                     *)
(* There are no sockets, events or threads here.                           *)
(***************************************************************************)
EXTENDS Integers

CONSTANTS
  Requests,     \* every request a client can make
  Losable       \* requests whose reply may be refused

VARIABLES
  waiting,      \* requests that have arrived and are not dealt with
  replies       \* replies given to each request

vars == <<waiting, replies>>

Init == waiting = {} /\ replies = [r \in Requests |-> 0]

Accept(r) ==
  /\ r \notin waiting /\ replies[r] = 0
  /\ waiting' = waiting \cup {r}
  /\ UNCHANGED replies

Answer(r) ==
  /\ r \in waiting
  /\ waiting' = waiting \ {r}
  /\ replies' = [replies EXCEPT ![r] = @ + 1]

Forget(r) ==
  /\ r \in Losable /\ r \in waiting
  /\ waiting' = waiting \ {r}
  /\ UNCHANGED replies

Next == \E r \in Requests : Accept(r) \/ Answer(r) \/ Forget(r)

Spec == Init /\ [][Next]_vars

(* Every request that has arrived is dealt with.                           *)
FairSpec == Spec /\ \A r \in Requests : WF_vars(Answer(r) \/ Forget(r))
=============================================================================

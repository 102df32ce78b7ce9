-------------------------- MODULE ClosedLoopClient --------------------------
(***************************************************************************)
(* src/multithread/timerwheel_closedloop_client.c: a client sends one      *)
(* request, waits for its reply and sends the next.  After 100 us without  *)
(* a reply it sends the request again.                                     *)
(*                                                                         *)
(* The second wait is not like the first.  recvfrom blocks there, so the   *)
(* RTO is looked at only before the call; and the flag that should make    *)
(* the loop send once more is overwritten when the wait ends, so that a    *)
(* request is sent at most twice, and an iteration can end without a       *)
(* reply.  No reply is compared with the request that is waiting for one.  *)
(*                                                                         *)
(* A datagram is the pair of its request_id and 1 or 2, for the first and  *)
(* the second time it is sent; a reply is known by the datagram it answers *)
(* (a history: the client does not look at what a reply says).             *)
(***************************************************************************)
EXTENDS Integers, Sequences

CONSTANT ITERS         \* iterations of the client

ASSUME ITERSAssumption == ITERS \in Nat \ {0}

Iterations == 0 .. (ITERS - 1)
Datagrams == Iterations \X {1, 2}
NoAnswer == -1

VARIABLES
  step,        \* where the client is, see ClientOK
  iter,
  inbox,       \* replies in the receive buffer of its socket
  answers,     \* history: request_id of the request whose reply ended the iteration
  timed_out    \* history: iterations whose request was sent twice

client == <<step, iter, inbox, answers, timed_out>>

InitClient ==
  /\ step = "send" /\ iter = 0 /\ inbox = << >>
  /\ answers = << >> /\ timed_out = {}

(* The two sendto loops, for the first and for the second time.            *)
SendRequest ==
  /\ step = "send" /\ step' = "recv"
  /\ UNCHANGED <<iter, inbox, answers, timed_out>>

SendAgain ==
  /\ step = "resend" /\ step' = "check"
  /\ UNCHANGED <<iter, inbox, answers, timed_out>>

(* What the send of this step puts on the network.                         *)
Sent == <<iter, IF step = "send" THEN 1 ELSE 2>>

(* The end of an iteration, and whose reply ended it.                      *)
EndIteration(answer) ==
  /\ iter' = iter + 1
  /\ answers' = Append(answers, answer)
  /\ step' = IF iter' < ITERS THEN "send" ELSE "done"
  /\ UNCHANGED timed_out

WrongAccept ==                            \* a reply is looked at, not taken
  /\ step \in {"recv", "blocked"} /\ inbox # << >>
  /\ UNCHANGED inbox
  /\ EndIteration(Head(inbox)[1])

Accept ==
  /\ step \in {"recv", "blocked"} /\ inbox # << >>
  /\ inbox' = Tail(inbox)
  /\ EndIteration(Head(inbox)[1])

WrongTimesOut ==                          \* the clock is read anew after EAGAIN
  /\ step = "recv" /\ inbox = << >>
  /\ UNCHANGED client

(* recvfrom returned EAGAIN and 100 us are over.                           *)
TimesOut ==
  /\ step = "recv" /\ inbox = << >>
  /\ step' = "resend"
  /\ timed_out' = timed_out \cup {iter}
  /\ UNCHANGED <<iter, inbox, answers>>

(* Before the call that blocks: the RTO is not over,                       *)
Block ==
  /\ step = "check" /\ step' = "blocked"
  /\ UNCHANGED <<iter, inbox, answers, timed_out>>

WrongGivesUp ==                           \* the flag is not overwritten
  /\ step = "check" /\ step' = "resend"
  /\ UNCHANGED <<iter, inbox, answers, timed_out>>

(* or the thread was away so long that it is.                              *)
GivesUp ==
  /\ step = "check"
  /\ EndIteration(NoAnswer)
  /\ UNCHANGED inbox

ClientOK ==
  /\ step \in {"send", "recv", "resend", "check", "blocked", "done"}
  /\ iter \in 0 .. ITERS
  /\ inbox \in Seq(Datagrams)
  /\ answers \in Seq(Iterations \cup {NoAnswer}) /\ Len(answers) = iter
  /\ timed_out \in SUBSET Iterations
  /\ step = "done" <=> iter = ITERS

Awaiting == step \in {"recv", "check", "blocked"}

(* Iterations that ended without a reply.                                  *)
GivenUp == {i \in Iterations : i < iter /\ answers[i + 1] = NoAnswer}
=============================================================================

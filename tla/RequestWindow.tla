--------------------------- MODULE RequestWindow ---------------------------
(***************************************************************************)
(* What the requests of one load-generating thread go through, without the *)
(* ring, the timer wheel and the network that bring it about.  Every       *)
(* connection has a window of at most Capacity outstanding requests.  A    *)
(* request is issued at the end of the window, may be answered once while  *)
(* it is in it, and is retired at the front: answered or timed out, the    *)
(* oldest request leaves first and none is forgotten.                      *)
(***************************************************************************)
EXTENDS Naturals, Sequences

CONSTANTS Conns,      \* the connections of the thread
          Capacity    \* requests that may be outstanding on a connection

VARIABLE outstanding  \* per connection, the records of its requests, oldest first

Init == outstanding = [c \in Conns |-> << >>]

(* The window of c becomes w; those of the other connections stay.         *)
Becomes(c, w) == outstanding' = [outstanding EXCEPT ![c] = w]

Issue(c) ==
  LET w == outstanding[c]
      n == Len(w) + 1
  IN  /\ Len(w) < Capacity
      /\ Len(outstanding'[c]) = n
      /\ ~outstanding'[c][n].answered
      /\ Becomes(c, Append(w, outstanding'[c][n]))

Answer(c) ==
  \E k \in 1 .. Len(outstanding[c]) :
     /\ ~outstanding[c][k].answered
     /\ Becomes(c, [outstanding[c] EXCEPT ![k].answered = TRUE])

Retire(c) ==
  /\ outstanding[c] # << >>
  /\ Becomes(c, Tail(outstanding[c]))

Next == \E c \in Conns : Issue(c) \/ Answer(c) \/ Retire(c)

Spec == Init /\ [][Next]_outstanding
=============================================================================

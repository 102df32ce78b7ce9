------------------------------ MODULE NanoSleep ------------------------------
(***************************************************************************)
(* realnanosleep of src/multithread/nanosleep.h: a busy wait that reads    *)
(* the clock and adds up the time between two readings until it has        *)
(* reached its target.  Between readings in different seconds it adds      *)
(* nothing: the difference it computes there is that of a time with itself *)
(* (lines 48-50).                                                          *)
(***************************************************************************)
EXTENDS Integers

CONSTANTS
  Second,        \* 1000000000
  MaxStep        \* bound: time from one reading of the clock to the next

ASSUME SleepAssumption ==
  Second \in Nat /\ MaxStep \in Nat \ {0} /\ 2 * MaxStep <= Second

Timespec == [tv_sec : Nat, tv_nsec : 0 .. (Second - 1)]

(* The time d after ts, where d <= Second (external: the clock).           *)
After(ts, d) ==
  IF ts.tv_nsec + d < Second THEN [ts EXCEPT !.tv_nsec = @ + d]
  ELSE [tv_sec |-> ts.tv_sec + 1, tv_nsec |-> ts.tv_nsec + d - Second]

WrongAdded(ts1, ts2) ==                   \* the nanoseconds in any case
  ts2.tv_nsec - ts1.tv_nsec

(* What an iteration adds to accum.                                        *)
Added(ts1, ts2) == IF ts1.tv_sec = ts2.tv_sec THEN ts2.tv_nsec - ts1.tv_nsec ELSE 0
=============================================================================

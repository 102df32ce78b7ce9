----------------------------- MODULE TimerWheel -----------------------------
(***************************************************************************)
(* The timer wheel of src/multithread/multi_dest_protocol.c                *)
(* (simple_timer_wheel), as operators on a wheel.  A slot has the tick at  *)
(* which it is due and the head of its list of events; ticks count         *)
(* microseconds and grow for ever, indices wrap.  The client computes the  *)
(* slot of a timer from the tick cut to 32 bits, although ticks have 64.   *)
(* The next_event links are fields of the events and belong to the module  *)
(* that composes the wheel.                                                *)
(* Not modelled: the wrap of the 64-bit count of microseconds itself.      *)
(* Definitions named Wrong... are variants with a plausible mistake; they  *)
(* are not used by the model, only to show that a property notices.        *)
(***************************************************************************)
EXTENDS Integers

CONSTANTS WheelSize,    \* wheel_tick_size: number of slots, one per tick
          RTO,          \* rto_interval: ticks from sending to timeout
          TickWord      \* 2^32, the values of the uint32_t a tick is cast to

ASSUME WheelAssumption ==
  /\ WheelSize \in Nat \ {0}
  /\ RTO \in Nat
  /\ RTO < WheelSize
  /\ TickWord \in Nat \ {0}

WheelSlots == 0 .. WheelSize - 1

Wheels(Heads) ==
  [current_tick : Nat, processed_index : WheelSlots,
   tick : [WheelSlots -> Nat], event_head : [WheelSlots -> Heads]]

InitTimerWheel(null) ==
  [current_tick |-> 0, processed_index |-> 0,
   tick |-> [i \in WheelSlots |-> i], event_head |-> [i \in WheelSlots |-> null]]

AdvanceTick(w, us) == [w EXCEPT !.current_tick = @ + us]

WrongScheduledLate(w) == ((w.current_tick + RTO + 1) % TickWord) % WheelSize
WrongScheduledEarly(w) == ((w.current_tick + RTO - 1) % TickWord) % WheelSize
WrongScheduledFixed(w) == RTO % WheelSize             \* the current tick is left out

(* (uint32_t) current_tick + rto_interval is a sum of 32 bits.             *)
ScheduledIndex(w) == ((w.current_tick + RTO) % TickWord) % WheelSize

(* The ticks t whose own slot, t % WheelSize, is the one computed: those   *)
(* below 2^32, and all ticks for a wheel whose size divides 2^32.  The     *)
(* wheel of the code, of 5000 slots, is not such a wheel.                  *)
SlotIsExact(t) == t < TickWord \/ TickWord % WheelSize = 0

(* schedule_event_timer_wheel: the event becomes the head of its slot ...  *)
ScheduleEvent(w, event, slot) == [w EXCEPT !.event_head[slot] = event]

(* ... and is linked to the previous head.  In an empty slot its           *)
(* next_event is not written and keeps the value of an earlier use.        *)
LinkAfter(w, slot, stale_next, null) ==
  IF w.event_head[slot] = null THEN stale_next ELSE w.event_head[slot]

(* The tick and the events of the slot that is processed next.             *)
DueTick(w) == w.tick[w.processed_index]
DueHead(w) == w.event_head[w.processed_index]

WrongPendingSlots(w) == w.current_tick - DueTick(w) + 1

PendingSlots(w) == w.current_tick - DueTick(w)

WrongAdvanceClears(w, null) ==            \* the index moves before the slot is cleared
  LET q == (w.processed_index + 1) % WheelSize
  IN  [w EXCEPT !.processed_index = q, !.tick[w.processed_index] = @ + WheelSize,
                !.event_head[q] = null]

(* The slot has been processed: it is empty and due one revolution later.  *)
AdvanceSlot(w, null) ==
  LET p == w.processed_index
  IN  [current_tick    |-> w.current_tick,
       processed_index |-> (p + 1) % WheelSize,
       tick            |-> [w.tick EXCEPT ![p] = @ + WheelSize],
       event_head      |-> [w.event_head EXCEPT ![p] = null]]

(* The ticks of the slots are the next WheelSize ticks from the due one,   *)
(* each in the slot whose index it has modulo WheelSize.                   *)
OneRevolution(w) ==
  \A i \in WheelSlots :
     /\ w.tick[i] % WheelSize = i
     /\ DueTick(w) <= w.tick[i]
     /\ w.tick[i] < DueTick(w) + WheelSize
=============================================================================

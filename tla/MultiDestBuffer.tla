-------------------------- MODULE MultiDestBuffer --------------------------
(***************************************************************************)
(* The per-connection ring of outstanding requests of                      *)
(* src/multithread/multi_dest_protocol.c (multi_dest_buffer).  A slot of   *)
(* the ring holds one rto_timer_event; the events themselves live in the   *)
(* module that composes the ring with the timer wheel, because the wheel   *)
(* links them.  Here is the bookkeeping: two indices, a full flag and the  *)
(* out_of_order_map, as operators from one value of the ring to the next.  *)
(*                                                                         *)
(* Definitions named Wrong... are variants with a plausible mistake; they  *)
(* are not used by the model, only to show that a property notices.        *)
(*                                                                         *)
(* out_of_order_recv is initialised to 0 and never assigned again outside  *)
(* the branch that requires it to be positive, so only the in-order branch *)
(* of reclaim_multi_dest_buf2 can run and the field is left out.           *)
(***************************************************************************)
EXTENDS Integers

CONSTANT BufSize    \* buf_size: number of slots of a ring

ASSUME BufSizeAssumption == BufSize \in Nat \ {0}

BufSlots == 0 .. BufSize - 1

(* The values of out_of_order_map, as the comments name them.              *)
Unused == -1
Sent == 0
Received == 1

MultiDestBuffers ==
  [isfull : BOOLEAN, ack_head : BufSlots, ack_tail : BufSlots,
   out_of_order_map : [BufSlots -> {Unused, Sent, Received}]]

InitBuf ==
  [isfull |-> FALSE, ack_head |-> 0, ack_tail |-> 0,
   out_of_order_map |-> [i \in BufSlots |-> Unused]]

WrongNextSlot(i) == i + 1                 \* the index does not wrap

NextSlot(i) == (i + 1) % BufSize

(* acquire_multi_dest_header: only a ring that is not full has a slot to   *)
(* give; the slot handed out is the one at ack_head.                       *)
CanAcquire(b) == ~b.isfull

WrongAcquire(b) ==                        \* the head does not move
  [b EXCEPT !.out_of_order_map[b.ack_head] = Sent]

Acquire(b) ==
  [isfull           |-> NextSlot(b.ack_head) = b.ack_tail,
   ack_head         |-> NextSlot(b.ack_head),
   ack_tail         |-> b.ack_tail,
   out_of_order_map |-> [b.out_of_order_map EXCEPT ![b.ack_head] = Sent]]

IsEmpty(b) == b.ack_tail = b.ack_head /\ ~b.isfull

WrongPop(b) ==                            \* everything sent so far leaves
  [b EXCEPT !.isfull = FALSE, !.ack_tail = b.ack_head]

(* The tail leaves the ring, whichever request is being reclaimed.         *)
Pop(b) ==
  [isfull           |-> FALSE,
   ack_head         |-> b.ack_head,
   ack_tail         |-> NextSlot(b.ack_tail),
   out_of_order_map |-> [b.out_of_order_map EXCEPT ![b.ack_tail] = Received]]

(* A late request is dropped: nothing leaves the ring, but isfull has been *)
(* cleared before the ids are compared.                                    *)
DropLate(b) == [b EXCEPT !.isfull = FALSE]

WrongReclaim(b, recv_id, ack_id) ==       \* an empty ring is popped
  IF recv_id >= ack_id THEN Pop(b) ELSE DropLate(b)

(* reclaim_multi_dest_buf2: recv_id is the id in the reclaimed event's     *)
(* recv_header, ack_id the one in the send_header of the tail.  The        *)
(* in-order and the early branch make the same change.                     *)
Reclaim(b, recv_id, ack_id) ==
  IF IsEmpty(b) THEN b
  ELSE IF recv_id >= ack_id THEN Pop(b) ELSE DropLate(b)

(* The slots between ack_tail and ack_head, those the ring counts as       *)
(* outstanding.                                                            *)
Window(b) ==
  IF b.ack_tail < b.ack_head THEN b.ack_tail .. b.ack_head - 1
  ELSE IF IsEmpty(b) THEN {}
  ELSE BufSlots \ (b.ack_head .. b.ack_tail - 1)
=============================================================================

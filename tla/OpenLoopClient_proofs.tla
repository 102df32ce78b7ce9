------------------------ MODULE OpenLoopClient_proofs ------------------------
(***************************************************************************)
(* What holds of the load thread for every number of connections, every    *)
(* ring and wheel size, every RTO and every behaviour of the network.      *)
(* First the wheel: its slots are one revolution of consecutive ticks      *)
(* (OneRevolution), so a tick is in the slot of its remainder, and a batch *)
(* of slots counted before it is processed ends at the current tick.  The  *)
(* rings are independent of it.                                            *)
(* Then the requests of a run in which no ring wraps (NoWrap): which reply *)
(* goes to which request, that lists end, and that timers are where        *)
(* requests need them.  What more a theorem assumes of ids, replies, the   *)
(* wheel and sending is in its statement.  Last the refinement of          *)
(* RequestWindow, which lasts while rings wrap, up to one kind of step.    *)
(***************************************************************************)
EXTENDS OpenLoopClient, SequenceTheorems, WellFoundedInduction, TLAPS

(* Quotient and remainder of a tick or an index.                           *)
LEMMA DivMod ==
  ASSUME NEW n \in Nat \ {0}, NEW x \in Nat
  PROVE  /\ x \div n \in Nat
         /\ x % n \in 0 .. n - 1
         /\ x = (n * (x \div n)) + (x % n)
OBVIOUS

(* One more revolution adds the size of the wheel.                         *)
LEMMA TimesSucc ==
  ASSUME NEW n \in Nat, NEW q \in Nat
  PROVE  n * (q + 1) = (n * q) + n
OBVIOUS

(* Revolutions that differ are at least a whole wheel apart.               *)
LEMMA TimesMonotone ==
  ASSUME NEW n \in Nat, NEW q \in Nat, NEW r \in Nat, q + 1 <= r
  PROVE  (n * q) + n <= n * r
<1>1. PICK d \in Nat : r = q + 1 + d
  <2>1. r - (q + 1) \in Nat
    OBVIOUS
  <2> QED BY <2>1
<1>2. n * r = (n * (q + 1)) + (n * d)
  BY <1>1
<1>3. n * d \in Nat
  BY <1>1
<1> QED BY <1>2, <1>3, TimesSucc

(* Multiples are in the order of their factors.                            *)
LEMMA TimesOrdered ==
  ASSUME NEW n \in Nat, NEW q \in Nat, NEW r \in Nat, q <= r
  PROVE  n * q <= n * r
<1>1. CASE q = r
  BY <1>1
<1>2. CASE q + 1 <= r
  <2>1. (n * q) + n <= n * r
    BY <1>2, TimesMonotone
  <2>2. n * q \in Nat /\ n * r \in Nat
    OBVIOUS
  <2> QED BY <2>1, <2>2
<1> QED BY <1>1, <1>2

(* A remainder is the offset into its revolution.                          *)
LEMMA ModUnique ==
  ASSUME NEW n \in Nat \ {0}, NEW q \in Nat, NEW r \in 0 .. n - 1
  PROVE  ((n * q) + r) % n = r
OBVIOUS

(* Two ticks less than a revolution apart that share a wheel slot are the  *)
(* same tick. Everything said about the wheel's ticks comes from this.     *)
LEMMA ModWindow ==
  ASSUME NEW n \in Nat \ {0}, NEW x \in Nat, NEW y \in Nat,
         x % n = y % n, x <= y, y < x + n
  PROVE  x = y
<1> DEFINE q == x \div n
           s == y \div n
           r == x % n
<1>1. q \in Nat /\ r \in 0 .. n - 1 /\ x = (n * q) + r
  BY DivMod
<1>2. s \in Nat /\ y = (n * s) + r
  BY DivMod
<1> HIDE DEF q, s, r
<1>3. ~(q + 1 <= s)
  BY <1>1, <1>2, TimesMonotone
<1>4. ~(s + 1 <= q)
  BY <1>1, <1>2, TimesMonotone
<1>5. q = s
  BY <1>1, <1>2, <1>3, <1>4
<1> QED BY <1>1, <1>2, <1>5

(* A revolution later a tick is in the same slot.                          *)
LEMMA ModPlus ==
  ASSUME NEW n \in Nat \ {0}, NEW x \in Nat
  PROVE  (x + n) % n = x % n
<1> DEFINE q == x \div n
           r == x % n
<1>1. q \in Nat /\ r \in 0 .. n - 1 /\ x = (n * q) + r
  BY DivMod
<1> HIDE DEF q, r
<1>2. x + n = (n * (q + 1)) + r
  BY <1>1, TimesSucc
<1>3. ((n * (q + 1)) + r) % n = r
  BY <1>1, q + 1 \in Nat, ModUnique
<1> QED BY <1>2, <1>3 DEF r

(* The next tick is in the next slot.                                      *)
LEMMA ModSucc ==
  ASSUME NEW n \in Nat \ {0}, NEW x \in Nat
  PROVE  (x + 1) % n = ((x % n) + 1) % n
<1> DEFINE q == x \div n
           r == x % n
<1>1. q \in Nat /\ r \in 0 .. n - 1 /\ x = (n * q) + r
  BY DivMod
<1> HIDE DEF q, r
<1>2. CASE r + 1 = n
  <2>1. x + 1 = (n * (q + 1)) + 0
    BY <1>1, <1>2, TimesSucc
  <2>2. ((n * (q + 1)) + 0) % n = 0
    BY <1>1, q + 1 \in Nat, 0 \in 0 .. n - 1, ModUnique
  <2>3. ((n * 1) + 0) % n = 0
    BY 0 \in 0 .. n - 1, ModUnique
  <2>4. (r + 1) % n = 0
    BY <1>2, <2>3
  <2> QED BY <2>1, <2>2, <2>4 DEF r
<1>3. CASE r + 1 # n
  <2>1. r + 1 \in 0 .. n - 1 /\ x + 1 = (n * q) + (r + 1)
    BY <1>1, <1>3
  <2>2. ((n * q) + (r + 1)) % n = r + 1
    BY <1>1, <2>1, ModUnique
  <2>3. (r + 1) % n = r + 1
    BY <2>1
  <2> QED BY <2>1, <2>2, <2>3 DEF r
<1> QED BY <1>2, <1>3

(* Multiples of the word are multiples of the wheel, when its size divides *)
(* the word, and cutting a tick to its word keeps its slot.                *)
LEMMA ModMod ==
  ASSUME NEW n \in Nat \ {0}, NEW m \in Nat \ {0}, NEW x \in Nat, m % n = 0
  PROVE  (x % m) % n = x % n
<1> DEFINE k == m \div n
           q == x \div m
           r == x % m
           s == r % n
           p == r \div n
<1>1. k \in Nat /\ m = n * k
  BY DivMod
<1>2. q \in Nat /\ r \in Nat /\ x = (m * q) + r
  BY DivMod
<1>3. p \in Nat /\ s \in 0 .. n - 1 /\ r = (n * p) + s
  BY <1>2, DivMod
<1> HIDE DEF k, q, r, s, p
<1>4. m * q = n * (k * q)
  BY <1>1, <1>2
<1>5. x = (n * ((k * q) + p)) + s /\ (k * q) + p \in Nat
  <2>1. k * q \in Nat
    BY <1>1, <1>2
  <2>2. n * ((k * q) + p) = (n * (k * q)) + (n * p)
    BY <1>3, <2>1
  <2> QED BY <1>2, <1>3, <1>4, <2>1, <2>2
<1>6. x % n = s
  BY <1>3, <1>5, ModUnique
<1> QED BY <1>6 DEF s, r

(* Where SlotIsExact, the slot computed for a tick is the tick's own.      *)
LEMMA ExactSlot ==
  ASSUME NEW t \in Nat, SlotIsExact(t)
  PROVE  (t % TickWord) % WheelSize = t % WheelSize
<1>1. CASE t < TickWord
  <2>1. t % TickWord = t
    BY <1>1, WheelAssumption
  <2> QED BY <2>1
<1>2. CASE TickWord % WheelSize = 0
  BY <1>2, ModMod, WheelAssumption
<1> QED BY <1>1, <1>2 DEF SlotIsExact

-----------------------------------------------------------------------------
USE BufSizeAssumption, WheelAssumption, ClientAssumption, NullAssumption

(* A walk over a list belongs to the slot that is due, and the count of    *)
(* pending slots to the wheel stage.                                       *)
WalkInSlot ==
  /\ cursor # NULL => pc = "wheel" /\ pending > 0 /\ DueHead(wheel) # NULL
  /\ pc # "wheel" => pending = 0

(* The successor of a ring index is a ring index.                          *)
LEMMA NextSlotType ==
  ASSUME NEW i \in BufSlots
  PROVE  /\ NextSlot(i) \in BufSlots
         /\ NextSlot(i) = IF i + 1 = BufSize THEN 0 ELSE i + 1
BY DEF BufSlots, NextSlot

(* The operations on a ring keep its indices inside the ring.              *)
LEMMA BufTypes ==
  ASSUME NEW b \in MultiDestBuffers
  PROVE  /\ Acquire(b) \in MultiDestBuffers
         /\ Pop(b) \in MultiDestBuffers
         /\ DropLate(b) \in MultiDestBuffers
         /\ \A x, y \in Nat : Reclaim(b, x, y) \in MultiDestBuffers
<1>1. Acquire(b) \in MultiDestBuffers
  BY NextSlotType DEF Acquire, MultiDestBuffers, Sent, Received, Unused
<1>2. Pop(b) \in MultiDestBuffers
  BY NextSlotType DEF Pop, MultiDestBuffers, Sent, Received, Unused
<1>3. DropLate(b) \in MultiDestBuffers
  BY DEF DropLate, MultiDestBuffers
<1> QED BY <1>1, <1>2, <1>3 DEF Reclaim

(* The operations on the wheel keep its indices inside the wheel.          *)
LEMMA WheelTypes ==
  ASSUME NEW w \in Wheels(Events \cup {NULL})
  PROVE  /\ \A us \in Nat : AdvanceTick(w, us) \in Wheels(Events \cup {NULL})
         /\ ScheduledIndex(w) \in WheelSlots
         /\ \A e \in Events, i \in WheelSlots :
              ScheduleEvent(w, e, i) \in Wheels(Events \cup {NULL})
         /\ AdvanceSlot(w, NULL) \in Wheels(Events \cup {NULL})
<1>1. ASSUME NEW us \in Nat PROVE AdvanceTick(w, us) \in Wheels(Events \cup {NULL})
  BY DEF AdvanceTick, Wheels
<1>2. ScheduledIndex(w) \in WheelSlots
  <2>1. w.current_tick + RTO \in Nat
    BY DEF Wheels
  <2>2. (w.current_tick + RTO) % TickWord \in Nat
    BY <2>1, DivMod
  <2> QED BY <2>2, DivMod DEF ScheduledIndex, WheelSlots
<1>3. ASSUME NEW e \in Events, NEW i \in WheelSlots
      PROVE  ScheduleEvent(w, e, i) \in Wheels(Events \cup {NULL})
  BY DEF ScheduleEvent, Wheels
<1>4. (w.processed_index + 1) % WheelSize \in WheelSlots
  <2>1. w.processed_index + 1 \in Nat
    BY DEF Wheels, WheelSlots
  <2> QED BY <2>1, DivMod DEF WheelSlots
<1>5. AdvanceSlot(w, NULL) \in Wheels(Events \cup {NULL})
  BY <1>4 DEF AdvanceSlot, Wheels
<1> QED BY <1>1, <1>2, <1>3, <1>5

(* Taking a datagram out of a channel leaves a channel.                    *)
LEMMA RemoveAtType ==
  ASSUME NEW s \in Seq(Messages), NEW k \in 1 .. Len(s)
  PROVE  RemoveAt(s, k) \in Seq(Messages) /\ s[k] \in Messages
BY DEF RemoveAt

(* The initial state has its types and no walk under way.                  *)
LEMMA InitTypeOK == Init => TypeOK /\ WalkInSlot
<1> SUFFICES ASSUME Init PROVE TypeOK /\ WalkInSlot
  OBVIOUS
<1>1. InitBuf \in MultiDestBuffers
  BY DEF InitBuf, MultiDestBuffers, BufSlots, Unused
<1>2. InitTimerWheel(NULL) \in Wheels(Events \cup {NULL})
  BY DEF InitTimerWheel, Wheels, WheelSlots
<1>3. buf \in [Conns -> MultiDestBuffers] /\ wheel \in Wheels(Events \cup {NULL})
  BY <1>1, <1>2 DEF Init
<1>4. event \in [Events -> EventRecs]
  BY DEF Init, EventRecs, NotReceived
<1>5. net \in [Conns -> Seq(Messages)] /\ sock \in [Conns -> Seq(Messages)]
  BY DEF Init
<1>6. send_conn_id \in Conns /\ cur \in Conns
  BY DEF Init, Conns
<1>7. armed \in [Conns -> BOOLEAN] /\ due \in [WheelSlots -> Nat]
  BY DEF Init
<1>8. /\ sent_req \in Nat /\ completed_req \in Nat /\ pending \in Nat /\ dups \in Nat
      /\ pc = "send" /\ todo \subseteq Conns /\ cursor = NULL /\ pending = 0
      /\ closed_loop_done \in BOOLEAN
  BY DEF Init
<1> QED BY <1>3, <1>4, <1>5, <1>6, <1>7, <1>8 DEF TypeOK, WalkInSlot

(* Processing an event keeps the types of what it writes.                  *)
LEMMA ProcessType ==
  ASSUME TypeOK, NEW e \in Events, NEW reclaims \in BOOLEAN,
         DueHead(wheel) \in Events, Process(e, reclaims)
  PROVE  /\ event' \in [Events -> EventRecs]
         /\ buf' \in [Conns -> MultiDestBuffers]
         /\ cursor' = e
<1> DEFINE c == DueHead(wheel)[1]
           id == IF event[e].received_tick = NotReceived THEN event[e].send_id
                 ELSE event[e].recv_id
<1>1. c \in Conns
  BY DEF Events
<1>2. event[e] \in EventRecs
  BY DEF TypeOK
<1>3. id \in Nat
  BY <1>2 DEF EventRecs
<1>4. event' \in [Events -> EventRecs]
  <2>1. event' = [event EXCEPT ![e].recv_id = id]
    BY DEF Process
  <2>2. [event[e] EXCEPT !.recv_id = id] \in EventRecs
    BY <1>2, <1>3 DEF EventRecs
  <2> HIDE DEF id
  <2> QED BY <2>1, <2>2 DEF TypeOK
<1>5. AckId(c) \in Nat
  <2>1. buf[c] \in MultiDestBuffers
    BY <1>1 DEF TypeOK
  <2>2. <<c, buf[c].ack_tail>> \in Events
    BY <1>1, <2>1 DEF MultiDestBuffers, Events
  <2>3. event[<<c, buf[c].ack_tail>>] \in EventRecs
    BY <2>2 DEF TypeOK
  <2> QED BY <2>3 DEF AckId, EventRecs
<1>6. buf' \in [Conns -> MultiDestBuffers]
  <2>1. buf[c] \in MultiDestBuffers
    BY <1>1 DEF TypeOK
  <2>2. Reclaim(buf[c], id, AckId(c)) \in MultiDestBuffers
    BY <2>1, <1>3, <1>5, BufTypes
  <2>3. buf' = IF reclaims THEN [buf EXCEPT ![c] = Reclaim(@, id, AckId(c))] ELSE buf
    BY DEF Process
  <2> HIDE DEF c, id
  <2> QED BY <1>1, <2>2, <2>3 DEF TypeOK
<1> QED BY <1>4, <1>6 DEF Process

(* Every step of the thread and of its environment keeps the types. The    *)
(* pending count needs WheelWindow: it is a difference of ticks.           *)
LEMMA StepTypeOK ==
  ASSUME TypeOK, WalkInSlot, WheelWindow, [Next]_vars
  PROVE  TypeOK' /\ WalkInSlot'
<1> USE DEF counters, control, channels, data
<1>1. CASE SendRequest
  <2> DEFINE c == send_conn_id
             h == buf[c].ack_head
             e == <<c, h>>
  <2>1. c \in Conns /\ buf[c] \in MultiDestBuffers
    BY DEF TypeOK
  <2>2. h \in BufSlots /\ e \in Events
    BY <2>1 DEF MultiDestBuffers, Events
  <2>3. PICK id \in RequestIds(sent_req), us \in SendCost :
           LET w == AdvanceTick(wheel, us)
               slot == ScheduledIndex(w)
               by == IF w.current_tick + MaxDelay < MaxTick
                     THEN w.current_tick + MaxDelay ELSE MaxTick
           IN  /\ CanAdvance(us)
               /\ net' = [net EXCEPT ![c] = Append(@, [id |-> id, by |-> by])]
               /\ wheel' = ScheduleEvent(w, e, slot)
               /\ event' = [event EXCEPT
                    ![e] = [send_id |-> id, recv_id |-> @.recv_id,
                            received_tick |-> NotReceived,
                            next_event |-> LinkAfter(w, slot, @.next_event, NULL)]]
               /\ due' = [due EXCEPT ![slot] = w.current_tick + RTO]
    BY <1>1 DEF SendRequest
  <2> DEFINE w == AdvanceTick(wheel, us)
             slot == ScheduledIndex(w)
             by == IF w.current_tick + MaxDelay < MaxTick
                   THEN w.current_tick + MaxDelay ELSE MaxTick
  <2>4. w \in Wheels(Events \cup {NULL}) /\ slot \in WheelSlots
    BY <2>3, WheelTypes DEF TypeOK
  <2>5. w.current_tick \in Nat
    BY <2>4 DEF Wheels
  <2>6. id \in Nat
    <3>1. CASE sent_req > NumBatches * BatchStride
      <4>1. PICK k \in 0 .. NumBatches - 1 : id = k * BatchStride
        BY <3>1 DEF RequestIds
      <4> QED BY <4>1
    <3>2. CASE ~(sent_req > NumBatches * BatchStride)
      BY <3>2 DEF RequestIds, TypeOK
    <3> QED BY <3>1, <3>2
  <2>7. net' \in [Conns -> Seq(Messages)]
    <3>1. [id |-> id, by |-> by] \in Messages
      BY <2>5, <2>6 DEF Messages
    <3>2. Append(net[c], [id |-> id, by |-> by]) \in Seq(Messages)
      BY <3>1, <2>1 DEF TypeOK
    <3> QED BY <2>3, <3>2, <2>1 DEF TypeOK
  <2>8. wheel' \in Wheels(Events \cup {NULL})
    BY <2>2, <2>3, <2>4, WheelTypes
  <2>9. event' \in [Events -> EventRecs]
    <3> DEFINE r == [send_id |-> id, recv_id |-> event[e].recv_id,
                     received_tick |-> NotReceived,
                     next_event |-> LinkAfter(w, slot, event[e].next_event, NULL)]
    <3>1. event[e] \in EventRecs
      BY <2>2 DEF TypeOK
    <3>2. LinkAfter(w, slot, event[e].next_event, NULL) \in Events \cup {NULL}
      BY <2>4, <3>1 DEF LinkAfter, Wheels, EventRecs
    <3>3. r \in EventRecs
      BY <2>6, <3>1, <3>2 DEF EventRecs
    <3>4. event' = [event EXCEPT ![e] = r]
      BY <2>3
    <3> QED BY <3>3, <3>4 DEF TypeOK
  <2>10. due' \in [WheelSlots -> Nat]
    <3>1. due' = [due EXCEPT ![slot] = w.current_tick + RTO]
      BY <2>3
    <3>2. w.current_tick + RTO \in Nat
      BY <2>5
    <3> HIDE DEF w, slot
    <3> QED BY <3>1, <3>2 DEF TypeOK
  <2>11. buf' \in [Conns -> MultiDestBuffers]
    BY <1>1, <2>1, BufTypes DEF SendRequest, TypeOK
  <2>12. send_conn_id' \in Conns
    <3>1. send_conn_id' = (send_conn_id + 1) % ConnPerThread
      BY ONLY <1>1 DEF SendRequest
    <3>2. send_conn_id + 1 \in Nat
      BY <2>1 DEF Conns
    <3>3. (send_conn_id + 1) % ConnPerThread \in 0 .. ConnPerThread - 1
      BY ONLY <3>2, ClientAssumption, DivMod
    <3> QED BY ONLY <3>1, <3>3 DEF Conns
  <2>13. sent_req' \in Nat
    <3>1. sent_req' = sent_req + 1
      BY <1>1 DEF SendRequest
    <3>2. sent_req \in Nat
      BY DEF TypeOK
    <3> HIDE DEF c, h, e, w, slot, by
    <3> QED BY <3>1, <3>2
  <2>14. /\ pc = "send" /\ UNCHANGED <<completed_req, pc, todo, cur, pending, cursor, sock,
                                       armed, dups, closed_loop_done>>
    BY <1>1 DEF SendRequest
  <2>15. cursor = NULL /\ pending = 0
    BY <2>14 DEF WalkInSlot
  <2> HIDE DEF c, h, e, w, slot, by
  <2> QED BY <2>7, <2>8, <2>9, <2>10, <2>11, <2>12, <2>13, <2>14, <2>15 DEF TypeOK, WalkInSlot
<1>2. CASE PollSockets
  BY <1>2 DEF PollSockets, TypeOK, WalkInSlot
<1>3. CASE ReceiveReply
  <2>1. cur \in Conns /\ sock[cur] \in Seq(Messages) /\ sock[cur] # << >>
    BY <1>3 DEF ReceiveReply, TypeOK
  <2>2. Head(sock[cur]) \in Messages /\ Tail(sock[cur]) \in Seq(Messages)
    BY <2>1
  <2>3. PICK us \in LoopCost, i \in BufSlots :
          /\ wheel' = AdvanceTick(wheel, us)
          /\ event' = [event EXCEPT
               ![<<cur, i>>].recv_id =
                 IF Hits(cur, Head(sock[cur]).id) = {} THEN @ ELSE Head(sock[cur]).id,
               ![<<cur, i>>].received_tick = wheel.current_tick + us]
    BY <1>3 DEF ReceiveReply
  <2>4. wheel' \in Wheels(Events \cup {NULL})
    BY <2>3, WheelTypes DEF TypeOK
  <2>5. event' \in [Events -> EventRecs]
    <3> DEFINE e == <<cur, i>>
               id == IF Hits(cur, Head(sock[cur]).id) = {} THEN event[e].recv_id
                     ELSE Head(sock[cur]).id
               now == wheel.current_tick + us
    <3>1. e \in Events /\ event[e] \in EventRecs
      BY <2>1 DEF Events, TypeOK
    <3>2. id \in Nat
      BY <2>2, <3>1 DEF Messages, EventRecs
    <3>3. now \in Nat
      BY DEF TypeOK, Wheels
    <3>4. event' = [event EXCEPT ![e] = [event[e] EXCEPT !.recv_id = id,
                                                         !.received_tick = now]]
      BY <2>3, <3>1 DEF TypeOK
    <3> HIDE DEF e, id, now
    <3>5. [event[e] EXCEPT !.recv_id = id, !.received_tick = now] \in EventRecs
      BY <3>1, <3>2, <3>3 DEF EventRecs
    <3> QED BY <3>4, <3>5 DEF TypeOK
  <2>6. sock' \in [Conns -> Seq(Messages)]
    BY <1>3, <2>1, <2>2 DEF ReceiveReply, TypeOK
  <2>7. completed_req' \in Nat
    <3>1. completed_req' = completed_req + 1
      BY <1>3 DEF ReceiveReply
    <3> QED BY <3>1 DEF TypeOK
  <2>8. /\ pc = "recv"
        /\ UNCHANGED <<buf, sent_req, send_conn_id, pc, todo, cur, pending, cursor, net,
                       armed, dups, closed_loop_done, due>>
    BY <1>3 DEF ReceiveReply
  <2> QED BY <2>4, <2>5, <2>6, <2>7, <2>8 DEF TypeOK, WalkInSlot
<1>4. CASE Drained
  <2>1. PendingSlots(wheel) \in Nat
    BY DEF PendingSlots, DueTick, TypeOK, Wheels, WheelWindow
  <2>2. pending' \in Nat /\ cur' \in Conns /\ todo' \subseteq Conns
    BY <1>4, <2>1 DEF Drained, TypeOK
  <2>3. pc' \in {"recv", "wheel"} /\ (pc' # "wheel" => pending' = 0)
    BY <1>4 DEF Drained, WalkInSlot
  <2>4. /\ cursor' = NULL
        /\ UNCHANGED <<buf, event, wheel, sent_req, completed_req, send_conn_id, net, sock,
                       armed, dups, closed_loop_done, due>>
    BY <1>4 DEF Drained, WalkInSlot
  <2> QED BY <2>2, <2>3, <2>4 DEF TypeOK, WalkInSlot
<1>5. CASE ProcessHead
  <2> DEFINE e == DueHead(wheel)
             unmatched == /\ event[e].received_tick # NotReceived
                          /\ event[e].received_tick <= DueTick(wheel)
                          /\ event[e].recv_id # event[e].send_id
  <2>1. e \in Events
    BY <1>5 DEF ProcessHead, TypeOK, Wheels, DueHead
  <2>2. Process(e, ~unmatched)
    BY <1>5 DEF ProcessHead
  <2>3. /\ pc = "wheel" /\ pending > 0
        /\ UNCHANGED <<wheel, sent_req, completed_req, send_conn_id, pc, todo, cur, pending,
                       net, sock, armed, dups, closed_loop_done, due>>
    BY <1>5 DEF ProcessHead
  <2>4. DueHead(wheel)' = DueHead(wheel)
    BY <2>3 DEF DueHead
  <2>5. (~unmatched) \in BOOLEAN
    OBVIOUS
  <2> HIDE DEF unmatched
  <2>6. event' \in [Events -> EventRecs] /\ buf' \in [Conns -> MultiDestBuffers] /\ cursor' = e
    BY <2>1, <2>2, <2>5, ProcessType
  <2> QED BY <2>1, <2>3, <2>4, <2>6 DEF TypeOK, WalkInSlot
<1>6. CASE ProcessNext
  <2> DEFINE e == event[cursor].next_event
  <2>1. cursor \in Events /\ pc = "wheel" /\ pending > 0 /\ DueHead(wheel) # NULL
    BY <1>6 DEF ProcessNext, WalkInSlot, TypeOK
  <2>2. e \in Events
    BY <1>6, <2>1 DEF ProcessNext, TypeOK, EventRecs
  <2>3. DueHead(wheel) \in Events
    BY <2>1 DEF TypeOK, Wheels, DueHead
  <2>4. Process(e, TRUE)
    BY <1>6 DEF ProcessNext
  <2>5. UNCHANGED <<wheel, sent_req, completed_req, send_conn_id, pc, todo, cur, pending,
                    net, sock, armed, dups, closed_loop_done, due>>
    BY <1>6 DEF ProcessNext
  <2>6. event' \in [Events -> EventRecs] /\ buf' \in [Conns -> MultiDestBuffers] /\ cursor' = e
    BY <2>2, <2>3, <2>4, ProcessType
  <2>7. DueHead(wheel)' = DueHead(wheel)
    BY <2>5 DEF DueHead
  <2> QED BY <2>1, <2>2, <2>5, <2>6, <2>7 DEF TypeOK, WalkInSlot
<1>7. CASE SlotDone
  <2>1. wheel' \in Wheels(Events \cup {NULL})
    BY <1>7, WheelTypes DEF SlotDone, TypeOK
  <2>2. pending' \in Nat /\ pc = "wheel" /\ cursor' = NULL
    BY <1>7 DEF SlotDone, TypeOK
  <2>3. UNCHANGED <<buf, event, sent_req, completed_req, send_conn_id, pc, todo, cur,
                    net, sock, armed, dups, closed_loop_done, due>>
    BY <1>7 DEF SlotDone
  <2> QED BY <2>1, <2>2, <2>3 DEF TypeOK, WalkInSlot
<1>8. CASE EndTurn
  <2>1. wheel' \in Wheels(Events \cup {NULL})
    <3>1. PICK us \in LoopCost : wheel' = AdvanceTick(wheel, us)
      BY <1>8 DEF EndTurn
    <3> QED BY <3>1, WheelTypes DEF TypeOK
  <2>2. pc' \in {"send", "done"} /\ pending = 0 /\ cursor = NULL
    BY <1>8 DEF EndTurn, WalkInSlot
  <2>3. UNCHANGED <<buf, event, sent_req, completed_req, send_conn_id, todo, cur, pending,
                    cursor, net, sock, armed, dups, closed_loop_done, due>>
    BY <1>8 DEF EndTurn
  <2> QED BY <2>1, <2>2, <2>3 DEF TypeOK, WalkInSlot
<1>9. CASE LatencyThreadDone
  BY <1>9 DEF LatencyThreadDone, TypeOK, WalkInSlot, DueHead
<1>10. CASE Network
  <2>1. PICK c \in Conns : Deliver(c) \/ Lose(c) \/ Duplicate(c)
    BY <1>10 DEF Network
  <2>2. net[c] \in Seq(Messages) /\ sock[c] \in Seq(Messages)
    BY DEF TypeOK
  <2>3. net' \in [Conns -> Seq(Messages)]
    <3>1. CASE Deliver(c)
      BY <2>2, <3>1, RemoveAtType DEF Deliver, TypeOK
    <3>2. CASE Lose(c)
      BY <2>2, <3>2, RemoveAtType DEF Lose, TypeOK
    <3>3. CASE Duplicate(c)
      BY <2>2, <3>3 DEF Duplicate, TypeOK
    <3> QED BY <2>1, <3>1, <3>2, <3>3
  <2>4. sock' \in [Conns -> Seq(Messages)] /\ armed' \in [Conns -> BOOLEAN]
    <3>1. CASE Deliver(c)
      <4>1. PICK k \in 1 .. Len(net[c]) : sock' = [sock EXCEPT ![c] = Append(@, net[c][k])]
        BY <3>1 DEF Deliver
      <4>2. Append(sock[c], net[c][k]) \in Seq(Messages)
        BY <2>2, RemoveAtType
      <4> QED BY <3>1, <4>1, <4>2 DEF Deliver, TypeOK
    <3>2. CASE Lose(c) \/ Duplicate(c)
      BY <3>2 DEF Lose, Duplicate, TypeOK
    <3> QED BY <2>1, <3>1, <3>2
  <2>5. dups' \in Nat
    BY <2>1 DEF Deliver, Lose, Duplicate, TypeOK
  <2>6. UNCHANGED <<buf, event, wheel, sent_req, completed_req, send_conn_id, pc, todo, cur,
                    pending, cursor, closed_loop_done, due>>
    BY <2>1 DEF Deliver, Lose, Duplicate
  <2> QED BY <2>3, <2>4, <2>5, <2>6 DEF TypeOK, WalkInSlot, DueHead
<1>11. CASE UNCHANGED vars
  BY <1>11 DEF vars, TypeOK, WalkInSlot, DueHead
<1> QED BY <1>1, <1>2, <1>3, <1>4, <1>5, <1>6, <1>7, <1>8, <1>9, <1>10, <1>11
        DEF Next, Thread, Finished

-----------------------------------------------------------------------------
(* Advancing the due slot by a revolution gives the revolution that starts *)
(* one tick later.                                                         *)
LEMMA AdvanceRevolution ==
  ASSUME NEW w \in Wheels(Events \cup {NULL}), OneRevolution(w)
  PROVE  /\ OneRevolution(AdvanceSlot(w, NULL))
         /\ DueTick(AdvanceSlot(w, NULL)) = DueTick(w) + 1
<1> DEFINE p == w.processed_index
           q == (p + 1) % WheelSize
           t == w.tick[p]
           v == AdvanceSlot(w, NULL)
<1>1. p \in WheelSlots /\ t \in Nat /\ t % WheelSize = p
  BY DEF Wheels, OneRevolution
<1>2. q \in WheelSlots
  <2>1. p + 1 \in Nat
    BY <1>1 DEF WheelSlots
  <2> QED BY <2>1, DivMod DEF WheelSlots
<1>3. /\ w.tick \in [WheelSlots -> Nat]
      /\ v.tick = [w.tick EXCEPT ![p] = t + WheelSize]
      /\ v.processed_index = q
  BY DEF AdvanceSlot, Wheels
<1>4. \A i \in WheelSlots : /\ w.tick[i] % WheelSize = i
                            /\ t <= w.tick[i] /\ w.tick[i] < t + WheelSize
  BY DEF OneRevolution, DueTick
<1> HIDE DEF p, q, t, v
<1>5. (t + WheelSize) % WheelSize = p
  BY <1>1, ModPlus
<1>6. (t + 1) % WheelSize = q
  BY <1>1, ModSucc DEF q
<1>7. v.tick[q] = t + 1
  <2>1. CASE q = p
    <3>1. v.tick[q] = t + WheelSize
      BY <1>1, <1>3, <2>1
    <3>2. t + 1 = t + WheelSize
      <4>1. /\ (t + 1) \in Nat /\ (t + WheelSize) \in Nat
            /\ t + 1 <= t + WheelSize /\ t + WheelSize < (t + 1) + WheelSize
        BY <1>1
      <4>2. (t + 1) % WheelSize = (t + WheelSize) % WheelSize
        BY <1>5, <1>6, <2>1
      <4> QED BY <4>1, <4>2, ModWindow
    <3> QED BY <3>1, <3>2
  <2>2. CASE q # p
    <3>1. v.tick[q] = w.tick[q]
      BY <1>2, <1>3, <2>2
    <3>2. w.tick[q] # t
      BY <1>1, <1>2, <1>4, <2>2
    <3>3. /\ w.tick[q] \in Nat /\ w.tick[q] % WheelSize = q
          /\ t <= w.tick[q] /\ w.tick[q] < t + WheelSize
      BY <1>2, <1>3, <1>4
    <3>4. t + 1 = w.tick[q]
      <4>1. t + 1 \in Nat /\ t + 1 <= w.tick[q] /\ w.tick[q] < (t + 1) + WheelSize
        BY <1>1, <3>2, <3>3
      <4> QED BY <1>6, <3>3, <4>1, ModWindow
    <3> QED BY <3>1, <3>4
  <2> QED BY <2>1, <2>2
<1>8. DueTick(v) = t + 1 /\ DueTick(w) = t
  BY <1>3, <1>7 DEF DueTick, t, p
<1>9. ASSUME NEW i \in WheelSlots
      PROVE  /\ v.tick[i] % WheelSize = i
             /\ t + 1 <= v.tick[i] /\ v.tick[i] < (t + 1) + WheelSize
  <2>1. CASE i = p
    <3>1. v.tick[i] = t + WheelSize
      BY <1>3, <2>1
    <3> QED BY <1>1, <1>5, <2>1, <3>1
  <2>2. CASE i # p
    <3>1. v.tick[i] = w.tick[i] /\ w.tick[i] \in Nat
      BY <1>3, <2>2
    <3>2. w.tick[i] # t
      BY <1>1, <1>4, <2>2
    <3> QED BY <1>1, <1>4, <3>1, <3>2
  <2> QED BY <2>1, <2>2
<1> QED BY <1>8, <1>9 DEF OneRevolution, v

(* Letting time pass changes the current tick only.                        *)
LEMMA AdvanceTickFields ==
  ASSUME NEW w \in Wheels(Events \cup {NULL}), NEW us \in Nat
  PROVE  /\ AdvanceTick(w, us).tick = w.tick
         /\ AdvanceTick(w, us).processed_index = w.processed_index
         /\ AdvanceTick(w, us).event_head = w.event_head
         /\ AdvanceTick(w, us).current_tick = w.current_tick + us
         /\ w.current_tick \in Nat
BY DEF AdvanceTick, Wheels

(* Scheduling an event changes the head of one list only.                  *)
LEMMA ScheduleFields ==
  ASSUME NEW w \in Wheels(Events \cup {NULL}), NEW e \in Events, NEW i \in WheelSlots
  PROVE  /\ ScheduleEvent(w, e, i).tick = w.tick
         /\ ScheduleEvent(w, e, i).processed_index = w.processed_index
         /\ ScheduleEvent(w, e, i).current_tick = w.current_tick
         /\ ScheduleEvent(w, e, i).event_head = [w.event_head EXCEPT ![i] = e]
BY DEF ScheduleEvent, Wheels

(* The ticks alone.                                                        *)
LEMMA ScheduleKeepsTicks ==
  ASSUME NEW w \in Wheels(Events \cup {NULL}), NEW e \in Events, NEW i \in WheelSlots
  PROVE  /\ ScheduleEvent(w, e, i).tick = w.tick
         /\ ScheduleEvent(w, e, i).processed_index = w.processed_index
         /\ ScheduleEvent(w, e, i).current_tick = w.current_tick
BY DEF ScheduleEvent, Wheels

(* What a step does to the wheel, as far as the ticks are concerned.       *)
LEMMA WheelSteps ==
  ASSUME TypeOK, WalkInSlot, [Next]_vars
  PROVE  \/ wheel' = AdvanceSlot(wheel, NULL) /\ SlotDone
         \/ /\ wheel'.tick = wheel.tick
            /\ wheel'.processed_index = wheel.processed_index
            /\ wheel'.current_tick >= wheel.current_tick
<1> USE DEF counters, control, channels, data
<1>1. CASE SendRequest
  <2>1. PICK us \in SendCost, slot \in WheelSlots, e \in Events :
          wheel' = ScheduleEvent(AdvanceTick(wheel, us), e, slot)
    <3>1. <<send_conn_id, buf[send_conn_id].ack_head>> \in Events
      BY DEF TypeOK, MultiDestBuffers, Events
    <3>2. \A us \in SendCost : ScheduledIndex(AdvanceTick(wheel, us)) \in WheelSlots
      BY WheelTypes DEF TypeOK
    <3> QED BY <1>1, <3>1, <3>2 DEF SendRequest
  <2>2. AdvanceTick(wheel, us) \in Wheels(Events \cup {NULL}) /\ us \in Nat
    BY WheelTypes DEF TypeOK
  <2> DEFINE w == AdvanceTick(wheel, us)
  <2>3. /\ w.tick = wheel.tick /\ w.processed_index = wheel.processed_index
        /\ w.current_tick = wheel.current_tick + us /\ wheel.current_tick \in Nat
    BY <2>2, AdvanceTickFields DEF TypeOK
  <2>4. w \in Wheels(Events \cup {NULL}) /\ wheel' = ScheduleEvent(w, e, slot)
    BY <2>1, <2>2
  <2> HIDE DEF w
  <2>5. /\ ScheduleEvent(w, e, slot).tick = w.tick
        /\ ScheduleEvent(w, e, slot).processed_index = w.processed_index
        /\ ScheduleEvent(w, e, slot).current_tick = w.current_tick
    BY <2>4, ScheduleKeepsTicks
  <2>6. /\ wheel'.tick = w.tick /\ wheel'.processed_index = w.processed_index
        /\ wheel'.current_tick = w.current_tick
    BY <2>4, <2>5
  <2> QED BY <2>2, <2>3, <2>6
<1>2. CASE ReceiveReply \/ EndTurn
  <2>1. PICK us \in LoopCost : wheel' = AdvanceTick(wheel, us)
    BY <1>2 DEF ReceiveReply, EndTurn
  <2>2. us \in Nat
    OBVIOUS
  <2>3. /\ wheel'.tick = wheel.tick /\ wheel'.processed_index = wheel.processed_index
        /\ wheel'.current_tick = wheel.current_tick + us /\ wheel.current_tick \in Nat
    BY <2>1, <2>2, AdvanceTickFields DEF TypeOK
  <2> QED BY <2>2, <2>3
<1>3. CASE SlotDone
  BY <1>3 DEF SlotDone
<1>4. CASE \/ PollSockets \/ Drained \/ ProcessHead \/ ProcessNext \/ LatencyThreadDone
           \/ Network \/ UNCHANGED vars
  <2>1. wheel' = wheel
    BY <1>4 DEF PollSockets, Drained, ProcessHead, ProcessNext, LatencyThreadDone,
                Network, Deliver, Lose, Duplicate, vars
  <2> QED BY <2>1 DEF TypeOK, Wheels
<1> QED BY <1>1, <1>2, <1>3, <1>4 DEF Next, Thread, Finished

(* The wheel starts as the revolution from tick 0.                         *)
LEMMA InitWheelWindow == Init => WheelWindow /\ BatchReachesNow
<1> SUFFICES ASSUME Init PROVE WheelWindow /\ BatchReachesNow
  OBVIOUS
<1>1. /\ wheel.tick = [i \in WheelSlots |-> i]
      /\ wheel.processed_index = 0 /\ wheel.current_tick = 0
  BY DEF Init, InitTimerWheel
<1>2. DueTick(wheel) = 0
  BY <1>1 DEF DueTick, WheelSlots
<1>3. OneRevolution(wheel)
  BY <1>1, <1>2 DEF OneRevolution, WheelSlots
<1> QED BY <1>1, <1>2, <1>3 DEF WheelWindow, BatchReachesNow, Init

(* Every step keeps the wheel one revolution of ticks, behind the clock,   *)
(* with the batch under way ending at the current tick.                    *)
LEMMA StepWheelWindow ==
  ASSUME TypeOK, WalkInSlot, WheelWindow, BatchReachesNow, [Next]_vars
  PROVE  WheelWindow' /\ BatchReachesNow'
<1> USE DEF counters, control, channels, data
<1>1. CASE wheel' = AdvanceSlot(wheel, NULL) /\ SlotDone
  <2>1. OneRevolution(wheel') /\ DueTick(wheel') = DueTick(wheel) + 1
    BY <1>1, AdvanceRevolution DEF TypeOK, WheelWindow
  <2>2. wheel'.current_tick = wheel.current_tick
    BY <1>1 DEF AdvanceSlot
  <2>3. /\ pc = "wheel" /\ pending > 0 /\ pc' = pc /\ pending' = pending - 1
        /\ pending \in Nat
    BY <1>1 DEF SlotDone, TypeOK
  <2>4. DueTick(wheel) + pending = wheel.current_tick
    BY <2>3 DEF BatchReachesNow
  <2>5. DueTick(wheel) \in Nat
    BY DEF DueTick, TypeOK, Wheels
  <2>6. DueTick(wheel') <= wheel'.current_tick
    BY <2>1, <2>2, <2>3, <2>4, <2>5
  <2>7. DueTick(wheel') + pending' = wheel'.current_tick
    BY <2>1, <2>2, <2>3, <2>4, <2>5
  <2> QED BY <2>1, <2>6, <2>7 DEF WheelWindow, BatchReachesNow
<1>2. CASE /\ wheel'.tick = wheel.tick
           /\ wheel'.processed_index = wheel.processed_index
           /\ wheel'.current_tick >= wheel.current_tick
  <2>1. DueTick(wheel') = DueTick(wheel) /\ DueTick(wheel) \in Nat
    BY <1>2 DEF DueTick, TypeOK, Wheels
  <2>2. OneRevolution(wheel')
    BY <1>2, <2>1 DEF OneRevolution, WheelWindow
  <2>3. wheel'.current_tick \in Nat /\ wheel.current_tick \in Nat
    BY StepTypeOK DEF TypeOK, Wheels
  <2>4. DueTick(wheel') <= wheel'.current_tick
    BY <1>2, <2>1, <2>3 DEF WheelWindow
  <2>5. ASSUME pc' = "wheel", pending' > 0
        PROVE  DueTick(wheel') + pending' = wheel'.current_tick
    <3>1. CASE Drained
      BY <2>1, <2>3, <2>5, <3>1 DEF Drained, PendingSlots, WalkInSlot
    <3>2. CASE \/ ProcessHead \/ ProcessNext \/ LatencyThreadDone \/ Network
               \/ UNCHANGED vars
      <4>1. UNCHANGED <<pc, pending, wheel>>
        BY <3>2 DEF ProcessHead, ProcessNext, LatencyThreadDone, Network, Deliver,
                    Lose, Duplicate, vars
      <4> QED BY <2>5, <4>1 DEF BatchReachesNow
    <3>3. CASE SendRequest \/ PollSockets \/ ReceiveReply
      <4>1. pc # "wheel" /\ pending' = pending
        BY <3>3 DEF SendRequest, PollSockets, ReceiveReply
      <4>2. pending = 0
        BY <4>1 DEF WalkInSlot
      <4> QED BY <2>5, <4>1, <4>2
    <3>4. CASE EndTurn
      BY <2>5, <3>4 DEF EndTurn
    <3>5. CASE SlotDone
      <4>1. wheel' = AdvanceSlot(wheel, NULL)
        BY <3>5 DEF SlotDone
      <4>2. DueTick(wheel') = DueTick(wheel) + 1
        BY <4>1, AdvanceRevolution DEF TypeOK, WheelWindow
      <4> QED BY <2>1, <4>2
    <3> QED BY <3>1, <3>2, <3>3, <3>4, <3>5 DEF Next, Thread, Finished
  <2> QED BY <2>2, <2>4, <2>5 DEF WheelWindow, BatchReachesNow
<1> QED BY <1>1, <1>2, WheelSteps

(* What a step does to the lists and the history: one timer is set, one    *)
(* slot is emptied, or neither changes.                                    *)
LEMMA TimerSteps ==
  ASSUME TypeOK, WalkInSlot, [Next]_vars
  PROVE  \/ SendRequest
         \/ wheel' = AdvanceSlot(wheel, NULL) /\ SlotDone /\ due' = due
         \/ /\ wheel'.tick = wheel.tick
            /\ wheel'.event_head = wheel.event_head
            /\ due' = due
<1> USE DEF counters, control, channels, data
<1>1. CASE ReceiveReply \/ EndTurn
  <2>1. PICK us \in LoopCost : wheel' = AdvanceTick(wheel, us)
    BY <1>1 DEF ReceiveReply, EndTurn
  <2>2. us \in Nat /\ due' = due
    BY <1>1 DEF ReceiveReply, EndTurn
  <2> QED BY <2>1, <2>2, AdvanceTickFields DEF TypeOK
<1>2. CASE SlotDone
  BY <1>2 DEF SlotDone
<1>3. CASE \/ PollSockets \/ Drained \/ ProcessHead \/ ProcessNext \/ LatencyThreadDone
           \/ Network \/ UNCHANGED vars
  <2>1. wheel' = wheel /\ due' = due
    BY <1>3 DEF PollSockets, Drained, ProcessHead, ProcessNext, LatencyThreadDone,
                Network, Deliver, Lose, Duplicate, vars
  <2> QED BY <2>1
<1> QED BY <1>1, <1>2, <1>3 DEF Next, Thread, Finished

(* The slot a timer is put in has a tick that is congruent to the timer's, *)
(* if that fits its word, and at most one revolution away from the slot    *)
(* that is due.                                                            *)
LEMMA TimerIsSet ==
  ASSUME TypeOK, WheelWindow, SendRequest
  PROVE  \E us \in SendCost, slot \in WheelSlots :
           LET d == wheel.current_tick + us + RTO
           IN  /\ CanAdvance(us)
               /\ wheel'.tick = wheel.tick
               /\ wheel'.processed_index = wheel.processed_index
               /\ wheel'.current_tick = wheel.current_tick + us
               /\ \A i \in WheelSlots \ {slot} :
                     wheel'.event_head[i] = wheel.event_head[i] /\ due'[i] = due[i]
               /\ due'[slot] = d
               /\ SlotIsExact(d) => d % WheelSize = slot /\ wheel.tick[slot] <= d
<1> DEFINE e == <<send_conn_id, buf[send_conn_id].ack_head>>
<1>1. e \in Events
  BY DEF TypeOK, MultiDestBuffers, Events
<1>2. PICK us \in SendCost :
        LET w == AdvanceTick(wheel, us)
            slot == ScheduledIndex(w)
        IN  /\ CanAdvance(us)
            /\ wheel' = ScheduleEvent(w, e, slot)
            /\ due' = [due EXCEPT ![slot] = w.current_tick + RTO]
  BY DEF SendRequest
<1> DEFINE w == AdvanceTick(wheel, us)
           slot == ScheduledIndex(w)
           d == wheel.current_tick + us + RTO
<1>3. us \in Nat /\ w \in Wheels(Events \cup {NULL})
  BY WheelTypes DEF TypeOK
<1>4. slot \in WheelSlots
  BY <1>3, WheelTypes
<1>5. /\ w.tick = wheel.tick /\ w.processed_index = wheel.processed_index
      /\ w.event_head = wheel.event_head
      /\ w.current_tick = wheel.current_tick + us
      /\ wheel.current_tick \in Nat
  BY <1>3, AdvanceTickFields DEF TypeOK
<1>6. d \in Nat /\ w.current_tick + RTO = d
  BY <1>3, <1>5
<1>7. SlotIsExact(d) => d % WheelSize = slot
  <2>1. slot = (d % TickWord) % WheelSize
    BY <1>6 DEF ScheduledIndex
  <2> QED BY <1>6, <2>1, ExactSlot
<1>8. /\ wheel' = ScheduleEvent(w, e, slot)
      /\ due' = [due EXCEPT ![slot] = d]
      /\ due \in [WheelSlots -> Nat]
  BY <1>2, <1>6 DEF TypeOK
<1> HIDE DEF w, slot, d, e
<1>9. /\ wheel'.tick = w.tick /\ wheel'.processed_index = w.processed_index
      /\ wheel'.current_tick = w.current_tick
      /\ wheel'.event_head = [w.event_head EXCEPT ![slot] = e]
  <2>1. wheel' = ScheduleEvent(w, e, slot)
    BY <1>8
  <2>2. /\ ScheduleEvent(w, e, slot).tick = w.tick
        /\ ScheduleEvent(w, e, slot).processed_index = w.processed_index
        /\ ScheduleEvent(w, e, slot).current_tick = w.current_tick
        /\ ScheduleEvent(w, e, slot).event_head = [w.event_head EXCEPT ![slot] = e]
    BY <1>1, <1>3, <1>4, ScheduleFields
  <2> QED BY <2>1, <2>2
<1>10. w.event_head \in [WheelSlots -> Events \cup {NULL}]
  BY <1>3 DEF Wheels
<1>11. \A i \in WheelSlots \ {slot} :
          wheel'.event_head[i] = wheel.event_head[i] /\ due'[i] = due[i]
  BY <1>4, <1>5, <1>8, <1>9, <1>10
<1>12. due'[slot] = d
  BY <1>4, <1>8
<1>13. SlotIsExact(d) => wheel.tick[slot] <= d
  <2> SUFFICES ASSUME SlotIsExact(d) PROVE wheel.tick[slot] <= d
    OBVIOUS
  <2>1. /\ wheel.tick[slot] \in Nat /\ wheel.tick[slot] % WheelSize = slot
        /\ wheel.tick[slot] < DueTick(wheel) + WheelSize
        /\ DueTick(wheel) <= wheel.current_tick /\ DueTick(wheel) \in Nat
    BY <1>4 DEF TypeOK, Wheels, WheelWindow, OneRevolution, DueTick
  <2>2. wheel.tick[slot] < d + WheelSize
    BY <1>3, <1>5, <2>1 DEF d
  <2>3. CASE d <= wheel.tick[slot]
    <3>1. d = wheel.tick[slot]
      BY <1>6, <1>7, <2>1, <2>2, <2>3, ModWindow
    <3> QED BY <2>1, <3>1
  <2>4. CASE ~(d <= wheel.tick[slot])
    BY <1>6, <2>1, <2>4
  <2> QED BY <2>3, <2>4
<1>14. CanAdvance(us)
  BY <1>2
<1> QED BY <1>4, <1>5, <1>7, <1>9, <1>11, <1>12, <1>13, <1>14 DEF d

(* Emptying the slot that is due leaves the other slots as they are.       *)
LEMMA AdvanceOthers ==
  ASSUME NEW w \in Wheels(Events \cup {NULL}), NEW i \in WheelSlots
  PROVE  /\ i = w.processed_index => AdvanceSlot(w, NULL).event_head[i] = NULL
         /\ i # w.processed_index =>
              /\ AdvanceSlot(w, NULL).event_head[i] = w.event_head[i]
              /\ AdvanceSlot(w, NULL).tick[i] = w.tick[i]
<1> DEFINE v == AdvanceSlot(w, NULL)
           p == w.processed_index
<1>1. /\ v.event_head = [w.event_head EXCEPT ![p] = NULL]
      /\ v.tick = [w.tick EXCEPT ![p] = @ + WheelSize]
  BY DEF AdvanceSlot
<1>2. /\ w.event_head \in [WheelSlots -> Events \cup {NULL}]
      /\ w.tick \in [WheelSlots -> Nat] /\ p \in WheelSlots
  BY DEF Wheels
<1> HIDE DEF v, p
<1> QED BY <1>1, <1>2 DEF v, p

(* A timer put in a slot is due no earlier than the slot, if its tick fits.*)
LEMMA StepTimersNeverLate ==
  ASSUME TypeOK, WalkInSlot, WheelWindow, TimersNeverLate, [Next]_vars
  PROVE  TimersNeverLate'
<1>1. CASE SendRequest
  <2>1. PICK us \in SendCost, slot \in WheelSlots :
          /\ wheel'.tick = wheel.tick
          /\ \A i \in WheelSlots \ {slot} :
                wheel'.event_head[i] = wheel.event_head[i] /\ due'[i] = due[i]
          /\ SlotIsExact(due'[slot]) => wheel.tick[slot] <= due'[slot]
    BY <1>1, TimerIsSet
  <2> QED BY <2>1 DEF TimersNeverLate
<1>2. CASE wheel' = AdvanceSlot(wheel, NULL) /\ SlotDone /\ due' = due
  BY <1>2, AdvanceOthers DEF TypeOK, TimersNeverLate
<1>3. CASE /\ wheel'.tick = wheel.tick
           /\ wheel'.event_head = wheel.event_head
           /\ due' = due
  BY <1>3 DEF TimersNeverLate
<1> QED BY <1>1, <1>2, <1>3, TimerSteps

(* The lag CanAdvance allows the wheel, and how much of it the wheel's     *)
(* size can take: a timer set RTO ahead of a clock that is MaxLag ahead of *)
(* the wheel still falls into the current revolution.                      *)
LagBounded == wheel.current_tick <= DueTick(wheel) + MaxLag

PromptWheel == MaxLag + RTO < WheelSize

(* No step lets the wheel fall further behind than MaxLag.                 *)
LEMMA StepLagBounded ==
  ASSUME TypeOK, WalkInSlot, WheelWindow, LagBounded, [Next]_vars
  PROVE  LagBounded'
<1> USE DEF counters, control, channels, data
<1>1. DueTick(wheel) \in Nat /\ wheel.current_tick \in Nat
  BY DEF TypeOK, Wheels, DueTick
<1>2. CASE SendRequest
  <2>1. PICK us \in SendCost :
          /\ CanAdvance(us)
          /\ wheel'.tick = wheel.tick
          /\ wheel'.processed_index = wheel.processed_index
          /\ wheel'.current_tick = wheel.current_tick + us
    BY <1>2, TimerIsSet
  <2>2. DueTick(wheel') = DueTick(wheel)
    BY <2>1 DEF DueTick
  <2>3. wheel.current_tick + us - DueTick(wheel) <= MaxLag /\ us \in Nat
    BY <2>1 DEF CanAdvance
  <2> QED BY <1>1, <2>1, <2>2, <2>3 DEF LagBounded
<1>3. CASE ReceiveReply \/ EndTurn
  <2>1. PICK us \in LoopCost : CanAdvance(us) /\ wheel' = AdvanceTick(wheel, us)
    BY <1>3 DEF ReceiveReply, EndTurn
  <2>2. us \in Nat /\ wheel.current_tick + us - DueTick(wheel) <= MaxLag
    BY <2>1 DEF CanAdvance
  <2>3. /\ wheel'.tick = wheel.tick /\ wheel'.processed_index = wheel.processed_index
        /\ wheel'.current_tick = wheel.current_tick + us
    BY <2>1, <2>2, AdvanceTickFields DEF TypeOK
  <2>4. DueTick(wheel') = DueTick(wheel)
    BY <2>3 DEF DueTick
  <2> QED BY <1>1, <2>2, <2>3, <2>4 DEF LagBounded
<1>4. CASE SlotDone
  <2>1. wheel' = AdvanceSlot(wheel, NULL)
    BY <1>4 DEF SlotDone
  <2>2. DueTick(wheel') = DueTick(wheel) + 1
    BY <2>1, AdvanceRevolution DEF TypeOK, WheelWindow
  <2>3. wheel'.current_tick = wheel.current_tick
    BY <2>1 DEF AdvanceSlot
  <2> QED BY <1>1, <2>2, <2>3 DEF LagBounded
<1>5. CASE \/ PollSockets \/ Drained \/ ProcessHead \/ ProcessNext \/ LatencyThreadDone
           \/ Network \/ UNCHANGED vars
  <2>1. wheel' = wheel
    BY <1>5 DEF PollSockets, Drained, ProcessHead, ProcessNext, LatencyThreadDone,
                Network, Deliver, Lose, Duplicate, vars
  <2> QED BY <2>1 DEF LagBounded, DueTick
<1> QED BY <1>2, <1>3, <1>4, <1>5 DEF Next, Thread, Finished

(* With a bounded lag a timer whose tick fits is put in the slot of it.    *)
LEMMA StepTimersOnTime ==
  ASSUME TypeOK, WalkInSlot, WheelWindow, LagBounded, PromptWheel, TimersOnTime,
         [Next]_vars
  PROVE  TimersOnTime'
<1>1. CASE SendRequest
  <2>1. PICK us \in SendCost, slot \in WheelSlots :
          LET d == wheel.current_tick + us + RTO
          IN  /\ CanAdvance(us)
              /\ wheel'.tick = wheel.tick
              /\ \A i \in WheelSlots \ {slot} :
                    wheel'.event_head[i] = wheel.event_head[i] /\ due'[i] = due[i]
              /\ due'[slot] = d
              /\ SlotIsExact(d) => d % WheelSize = slot /\ wheel.tick[slot] <= d
    BY <1>1, TimerIsSet
  <2> DEFINE d == wheel.current_tick + us + RTO
  <2>2. /\ wheel.tick[slot] \in Nat /\ wheel.tick[slot] % WheelSize = slot
        /\ DueTick(wheel) <= wheel.tick[slot] /\ DueTick(wheel) \in Nat
        /\ wheel.current_tick \in Nat /\ us \in Nat
    BY <2>1 DEF TypeOK, Wheels, WheelWindow, OneRevolution, DueTick
  <2>3. wheel.current_tick + us <= DueTick(wheel) + MaxLag
    BY <2>1, <2>2 DEF CanAdvance
  <2>4. d \in Nat /\ d < wheel.tick[slot] + WheelSize
    BY <2>2, <2>3 DEF PromptWheel
  <2>5. /\ SlotIsExact(d) => d % WheelSize = slot /\ wheel.tick[slot] <= d
        /\ due'[slot] = d
    BY <2>1
  <2> HIDE DEF d
  <2>6. SlotIsExact(d) => wheel.tick[slot] = d
    BY <2>2, <2>4, <2>5, ModWindow
  <2> QED BY <2>1, <2>5, <2>6 DEF TimersOnTime
<1>2. CASE wheel' = AdvanceSlot(wheel, NULL) /\ SlotDone /\ due' = due
  BY <1>2, AdvanceOthers DEF TypeOK, TimersOnTime
<1>3. CASE /\ wheel'.tick = wheel.tick
           /\ wheel'.event_head = wheel.event_head
           /\ due' = due
  BY <1>3 DEF TimersOnTime
<1> QED BY <1>1, <1>2, <1>3, TimerSteps

-----------------------------------------------------------------------------
(* The ring of one connection: a full ring has its indices equal, and the  *)
(* slots it counts as outstanding are marked as sent.                      *)
RingOK(b) ==
  /\ b.isfull => b.ack_head = b.ack_tail
  /\ \A i \in Window(b) : b.out_of_order_map[i] = Sent

RingsOK == \A c \in Conns : RingOK(buf[c])

(* The slots counted as outstanding, one slot at a time.                   *)
LEMMA WindowMembers ==
  ASSUME NEW b \in MultiDestBuffers, NEW i
  PROVE  i \in Window(b) <=>
           /\ i \in BufSlots
           /\ \/ b.ack_tail <= i /\ i < b.ack_head
              \/ /\ ~(b.ack_tail < b.ack_head) /\ ~IsEmpty(b)
                 /\ b.ack_tail <= i \/ i < b.ack_head
BY DEF Window, IsEmpty, MultiDestBuffers, BufSlots

(* Acquiring marks the one slot it adds to the window.                     *)
LEMMA AcquireRing ==
  ASSUME NEW b \in MultiDestBuffers, RingOK(b), CanAcquire(b)
  PROVE  RingOK(Acquire(b))
<1> DEFINE a == Acquire(b)
<1>1. a \in MultiDestBuffers
  BY BufTypes
<1>2. /\ a.isfull = (NextSlot(b.ack_head) = b.ack_tail)
      /\ a.ack_head = NextSlot(b.ack_head) /\ a.ack_tail = b.ack_tail
      /\ a.out_of_order_map = [b.out_of_order_map EXCEPT ![b.ack_head] = Sent]
  BY DEF Acquire
<1>3. /\ b.ack_head \in BufSlots /\ b.ack_tail \in BufSlots
      /\ b.out_of_order_map \in [BufSlots -> {Unused, Sent, Received}]
      /\ b.isfull \in BOOLEAN /\ ~b.isfull
  BY DEF MultiDestBuffers, CanAcquire
<1>4. NextSlot(b.ack_head) = IF b.ack_head + 1 = BufSize THEN 0 ELSE b.ack_head + 1
  BY <1>3, NextSlotType
<1> HIDE DEF a
<1>5. ASSUME NEW i \in Window(a) PROVE a.out_of_order_map[i] = Sent
  <2>1. i \in BufSlots
    BY <1>1, WindowMembers
  <2>2. CASE i = b.ack_head
    BY <1>2, <1>3, <2>2
  <2>3. CASE i # b.ack_head
    <3>1. i \in Window(b)
      <4>1. \/ a.ack_tail <= i /\ i < a.ack_head
            \/ /\ ~(a.ack_tail < a.ack_head) /\ ~IsEmpty(a)
               /\ a.ack_tail <= i \/ i < a.ack_head
        BY <1>1, <1>5, WindowMembers
      <4>2. \/ b.ack_tail <= i /\ i < b.ack_head
            \/ /\ ~(b.ack_tail < b.ack_head) /\ ~IsEmpty(b)
               /\ b.ack_tail <= i \/ i < b.ack_head
        BY <4>1, <1>2, <1>3, <1>4, <2>1, <2>3 DEF IsEmpty, BufSlots
      <4> QED BY <2>1, <4>2, WindowMembers
    <3> QED BY <1>2, <1>3, <2>1, <2>3, <3>1 DEF RingOK
  <2> QED BY <2>2, <2>3
<1> QED BY <1>2, <1>5 DEF RingOK, a

(* Popping takes the one slot it marks out of the window.                  *)
LEMMA PopRing ==
  ASSUME NEW b \in MultiDestBuffers, RingOK(b), ~IsEmpty(b)
  PROVE  RingOK(Pop(b))
<1> DEFINE a == Pop(b)
<1>1. a \in MultiDestBuffers
  BY BufTypes
<1>2. /\ a.isfull = FALSE
      /\ a.ack_tail = NextSlot(b.ack_tail) /\ a.ack_head = b.ack_head
      /\ a.out_of_order_map = [b.out_of_order_map EXCEPT ![b.ack_tail] = Received]
  BY DEF Pop
<1>3. /\ b.ack_head \in BufSlots /\ b.ack_tail \in BufSlots
      /\ b.out_of_order_map \in [BufSlots -> {Unused, Sent, Received}]
      /\ b.isfull \in BOOLEAN
  BY DEF MultiDestBuffers
<1>4. NextSlot(b.ack_tail) = IF b.ack_tail + 1 = BufSize THEN 0 ELSE b.ack_tail + 1
  BY <1>3, NextSlotType
<1> HIDE DEF a
<1>5. ASSUME NEW i \in Window(a) PROVE a.out_of_order_map[i] = Sent
  <2>1. i \in BufSlots
    BY <1>1, WindowMembers
  <2>2. /\ i # b.ack_tail
        /\ \/ b.ack_tail <= i /\ i < b.ack_head
           \/ /\ ~(b.ack_tail < b.ack_head) /\ ~IsEmpty(b)
              /\ b.ack_tail <= i \/ i < b.ack_head
    <3>1. \/ a.ack_tail <= i /\ i < a.ack_head
          \/ /\ ~(a.ack_tail < a.ack_head) /\ ~IsEmpty(a)
             /\ a.ack_tail <= i \/ i < a.ack_head
      BY <1>1, <1>5, WindowMembers
    <3> QED BY <3>1, <1>2, <1>3, <1>4, <2>1 DEF IsEmpty, BufSlots
  <2>3. i \in Window(b)
    BY <2>1, <2>2, WindowMembers
  <2> QED BY <1>2, <1>3, <2>1, <2>2, <2>3 DEF RingOK
<1> QED BY <1>2, <1>5 DEF RingOK, a

(* Dropping adds no slot, even when it clears isfull.                      *)
LEMMA DropLateRing ==
  ASSUME NEW b \in MultiDestBuffers, RingOK(b)
  PROVE  RingOK(DropLate(b))
<1> DEFINE a == DropLate(b)
<1>1. a \in MultiDestBuffers
  BY BufTypes
<1>2. /\ a.isfull = FALSE /\ a.ack_head = b.ack_head /\ a.ack_tail = b.ack_tail
      /\ a.out_of_order_map = b.out_of_order_map
  BY DEF DropLate, MultiDestBuffers
<1> HIDE DEF a
<1>3. ASSUME NEW i \in Window(a) PROVE i \in Window(b)
  BY <1>1, <1>2, <1>3, WindowMembers DEF IsEmpty
<1> QED BY <1>2, <1>3 DEF RingOK, a

(* Reclaiming keeps the ring right, whatever ids are compared.             *)
LEMMA ReclaimRing ==
  ASSUME NEW b \in MultiDestBuffers, RingOK(b), NEW x, NEW y
  PROVE  RingOK(Reclaim(b, x, y))
BY PopRing, DropLateRing DEF Reclaim

(* Processing an event changes one ring, by reclaiming from it.            *)
LEMMA ProcessRings ==
  ASSUME TypeOK, RingsOK, NEW e \in Events, NEW reclaims \in BOOLEAN,
         DueHead(wheel) \in Events, Process(e, reclaims)
  PROVE  RingsOK'
<1> DEFINE c == DueHead(wheel)[1]
<1>1. c \in Conns
  BY DEF Events
<1>2. PICK x, y : buf' = IF reclaims THEN [buf EXCEPT ![c] = Reclaim(@, x, y)] ELSE buf
  BY DEF Process
<1>3. \A d \in Conns : buf[d] \in MultiDestBuffers /\ RingOK(buf[d])
  BY DEF TypeOK, RingsOK
<1>4. RingOK(Reclaim(buf[c], x, y))
  BY <1>1, <1>3, ReclaimRing
<1>5. buf \in [Conns -> MultiDestBuffers]
  BY DEF TypeOK
<1> HIDE DEF c
<1>6. \A d \in Conns : RingOK(buf'[d])
  BY <1>1, <1>2, <1>3, <1>4, <1>5
<1> QED BY <1>6 DEF RingsOK

(* Every step keeps every ring right.                                      *)
LEMMA StepRings ==
  ASSUME TypeOK, WalkInSlot, RingsOK, [Next]_vars
  PROVE  RingsOK'
<1> USE DEF counters, control, channels, data
<1>1. CASE SendRequest
  <2> DEFINE c == send_conn_id
  <2>1. c \in Conns /\ buf \in [Conns -> MultiDestBuffers]
    BY DEF TypeOK
  <2>2. CanAcquire(buf[c]) /\ buf' = [buf EXCEPT ![c] = Acquire(buf[c])]
    BY <1>1 DEF SendRequest
  <2>3. RingOK(Acquire(buf[c]))
    BY <2>1, <2>2, AcquireRing DEF RingsOK
  <2> HIDE DEF c
  <2>4. \A d \in Conns : RingOK(buf'[d])
    BY <2>1, <2>2, <2>3 DEF RingsOK
  <2> QED BY <2>4 DEF RingsOK
<1>2. CASE ProcessHead
  <2> DEFINE unmatched == /\ event[DueHead(wheel)].received_tick # NotReceived
                          /\ event[DueHead(wheel)].received_tick <= DueTick(wheel)
                          /\ event[DueHead(wheel)].recv_id # event[DueHead(wheel)].send_id
  <2>1. Process(DueHead(wheel), ~unmatched)
    BY <1>2 DEF ProcessHead
  <2>2. DueHead(wheel) \in Events
    BY <1>2 DEF ProcessHead, DueHead, TypeOK, Wheels
  <2>3. (~unmatched) \in BOOLEAN
    OBVIOUS
  <2> HIDE DEF unmatched
  <2> QED BY <2>1, <2>2, <2>3, ProcessRings
<1>3. CASE ProcessNext
  <2>1. cursor \in Events /\ DueHead(wheel) \in Events
    BY <1>3 DEF ProcessNext, WalkInSlot, TypeOK, DueHead, Wheels
  <2>2. event[cursor].next_event \in Events /\ Process(event[cursor].next_event, TRUE)
    BY <1>3, <2>1 DEF ProcessNext, TypeOK, EventRecs
  <2> QED BY <2>1, <2>2, ProcessRings
<1>4. CASE \/ PollSockets \/ ReceiveReply \/ Drained \/ SlotDone \/ EndTurn
           \/ LatencyThreadDone \/ Network \/ UNCHANGED vars
  <2>1. buf' = buf
    BY <1>4 DEF PollSockets, ReceiveReply, Drained, SlotDone, EndTurn, LatencyThreadDone,
                Network, Deliver, Lose, Duplicate, vars
  <2> QED BY <2>1 DEF RingsOK
<1> QED BY <1>1, <1>2, <1>3, <1>4 DEF Next, Thread, Finished

-----------------------------------------------------------------------------
(* The inductive invariant: types, the walk, the revolution, the batch.    *)
WheelInv == TypeOK /\ WalkInSlot /\ WheelWindow /\ BatchReachesNow

(* The invariant the theorems below rest on.                               *)
LEMMA WheelInvariance == Spec => []WheelInv
<1>1. Init => WheelInv
  BY InitTypeOK, InitWheelWindow DEF WheelInv
<1>2. WheelInv /\ [Next]_vars => WheelInv'
  BY StepTypeOK, StepWheelWindow DEF WheelInv
<1> QED BY <1>1, <1>2, PTL DEF Spec

(* Every index of the rings and of the wheel stays inside its array, for   *)
(* all sizes and every behaviour of the network (TypeOK).                  *)
THEOREM TypeCorrect == Spec => []TypeOK
<1>1. WheelInv => TypeOK
  BY DEF WheelInv
<1> QED BY <1>1, WheelInvariance, PTL

(* The wheel catches up with the clock and stops there, however long the   *)
(* thread stayed away from it (WheelInStep).                               *)
THEOREM WheelNeverOverruns == Spec => []WheelInStep
<1>1. WheelInv => WheelInStep
  BY DEF WheelInv, WheelInStep
<1> QED BY <1>1, WheelInvariance, PTL

(* However late the wheel is, no timer whose tick fits its word waits      *)
(* beyond it (TimersNeverLate).                                            *)
THEOREM NoTimerLate == Spec => []TimersNeverLate
<1>1. Init => TimersNeverLate
  BY DEF Init, InitTimerWheel, TimersNeverLate
<1>2. WheelInv /\ TimersNeverLate /\ [Next]_vars => TimersNeverLate'
  BY StepTimersNeverLate DEF WheelInv
<1> QED BY <1>1, <1>2, WheelInvariance, PTL DEF Spec

(* A wheel that never lags by WheelSize - RTO ticks has every timer whose  *)
(* tick fits its word in the slot of that tick (TimersOnTime);             *)
(* openloop_lag_violation shows what happens when it lags more.            *)
THEOREM PromptTimersOnTime == PromptWheel => (Spec => []TimersOnTime)
<1> SUFFICES ASSUME PromptWheel PROVE Spec => []TimersOnTime
  OBVIOUS
<1>1. Init => TimersOnTime /\ LagBounded
  <2>1. ASSUME Init PROVE TimersOnTime
    BY <2>1 DEF Init, InitTimerWheel, TimersOnTime
  <2>2. ASSUME Init PROVE LagBounded
    BY <2>2 DEF Init, InitTimerWheel, LagBounded, DueTick, WheelSlots
  <2> QED BY <2>1, <2>2
<1>2. WheelInv /\ TimersOnTime /\ LagBounded /\ [Next]_vars
        => TimersOnTime' /\ LagBounded'
  BY StepLagBounded, StepTimersOnTime DEF WheelInv
<1> QED BY <1>1, <1>2, WheelInvariance, PTL DEF Spec

(* The rings with the types, whether they wrap or not.                     *)
WindowInv == WheelInv /\ RingsOK

LEMMA InitWindow == Init => WindowInv
<1>1. Init => RingsOK
  <2>1. ASSUME NEW c \in Conns, Init PROVE RingOK(buf[c])
    BY <2>1 DEF Init, InitBuf, RingOK, Window, IsEmpty, BufSlots
  <2> QED BY <2>1 DEF RingsOK
<1> QED BY <1>1, InitTypeOK, InitWheelWindow DEF WindowInv, WheelInv

LEMMA WindowInvariance == Spec => []WindowInv
<1>1. WindowInv /\ [Next]_vars => WindowInv'
  BY StepTypeOK, StepWheelWindow, StepRings DEF WindowInv, WheelInv
<1> QED BY <1>1, InitWindow, PTL DEF Spec

(* Whatever ids the replies bring and in whatever order the slots are      *)
(* reclaimed, a ring counts as outstanding only what was sent              *)
(* (WindowIsSent).                                                         *)
THEOREM OutstandingIsSent == Spec => []WindowIsSent
<1>1. WindowInv => WindowIsSent
  BY DEF WindowInv, RingsOK, RingOK, WindowIsSent
<1> QED BY <1>1, WindowInvariance, PTL

-----------------------------------------------------------------------------
(* What follows is about the requests of a run before a ring wraps: fewer  *)
(* on each connection than its ring has slots, and no id given twice.      *)
NoWrap == MaxSent <= ConnPerThread * (BufSize - 1)

UniqueIds == MaxSent <= NumBatches * BatchStride + 1

(* An event is used once its slot has been handed out.                     *)
UsedIn(rings, e) == e[2] < rings[e[1]].ack_head

Used(e) == UsedIn(buf, e)

(* The connections take turns: q requests were sent on each, and one more  *)
(* on those that had their turn in this round.                             *)
TakesTurns(q) ==
  /\ sent_req = (ConnPerThread * q) + send_conn_id
  /\ \A c \in Conns : buf[c].ack_head = IF c < send_conn_id THEN q + 1 ELSE q

(* The indices of a ring count the requests sent and retired.              *)
UnwrappedRings ==
  /\ sent_req <= MaxSent
  /\ \A c \in Conns : ~buf[c].isfull /\ buf[c].ack_tail <= buf[c].ack_head
  /\ \E q \in Nat : TakesTurns(q)

(* What a request that is sent does to the rings, the events, the wheel    *)
(* and the network, for one choice of the id and of the time it takes.     *)
LEMMA SendFacts ==
  ASSUME TypeOK, SendRequest
  PROVE  \E id \in RequestIds(sent_req), us \in SendCost, slot \in WheelSlots, by \in Nat :
           LET c == send_conn_id
               e == <<c, buf[c].ack_head>>
               now == wheel.current_tick + us
           IN  /\ CanAdvance(us)
               /\ by <= now + MaxDelay /\ (now <= MaxTick => now <= by)
               /\ net' = [net EXCEPT ![c] = Append(@, [id |-> id, by |-> by])]
               /\ slot = ((now + RTO) % TickWord) % WheelSize
               /\ wheel'.tick = wheel.tick
               /\ wheel'.processed_index = wheel.processed_index
               /\ wheel'.current_tick = now
               /\ wheel'.event_head = [wheel.event_head EXCEPT ![slot] = e]
               /\ event' = [event EXCEPT
                    ![e] = [send_id |-> id, recv_id |-> event[e].recv_id,
                            received_tick |-> NotReceived,
                            next_event |-> IF wheel.event_head[slot] = NULL
                                           THEN event[e].next_event
                                           ELSE wheel.event_head[slot]]]
<1> DEFINE c == send_conn_id
           e == <<c, buf[c].ack_head>>
<1>1. e \in Events
  BY DEF TypeOK, MultiDestBuffers, Events
<1>2. PICK id \in RequestIds(sent_req), us \in SendCost :
        LET w == AdvanceTick(wheel, us)
            slot == ScheduledIndex(w)
            by == IF w.current_tick + MaxDelay < MaxTick
                  THEN w.current_tick + MaxDelay ELSE MaxTick
        IN  /\ CanAdvance(us)
            /\ net' = [net EXCEPT ![c] = Append(@, [id |-> id, by |-> by])]
            /\ wheel' = ScheduleEvent(w, e, slot)
            /\ event' = [event EXCEPT
                 ![e] = [send_id |-> id, recv_id |-> @.recv_id,
                         received_tick |-> NotReceived,
                         next_event |-> LinkAfter(w, slot, @.next_event, NULL)]]
  BY DEF SendRequest
<1> DEFINE w == AdvanceTick(wheel, us)
           slot == ScheduledIndex(w)
           now == wheel.current_tick + us
           by == IF now + MaxDelay < MaxTick THEN now + MaxDelay ELSE MaxTick
           next == IF wheel.event_head[slot] = NULL THEN event[e].next_event
                   ELSE wheel.event_head[slot]
<1>3. us \in Nat /\ w \in Wheels(Events \cup {NULL})
  BY WheelTypes DEF TypeOK
<1>4. slot \in WheelSlots
  BY <1>3, WheelTypes
<1>5. /\ w.tick = wheel.tick /\ w.processed_index = wheel.processed_index
      /\ w.event_head = wheel.event_head
      /\ w.current_tick = now /\ now \in Nat
  BY <1>3, AdvanceTickFields DEF TypeOK
<1>6. slot = ((now + RTO) % TickWord) % WheelSize
  BY <1>5 DEF ScheduledIndex
<1>7. by \in Nat /\ by <= now + MaxDelay /\ (now <= MaxTick => now <= by)
  BY <1>5
<1>8. /\ CanAdvance(us)
      /\ net' = [net EXCEPT ![c] = Append(@, [id |-> id, by |-> by])]
      /\ wheel' = ScheduleEvent(w, e, slot)
  BY <1>2, <1>5
<1>9. LinkAfter(w, slot, event[e].next_event, NULL) = next
  BY <1>5 DEF LinkAfter
<1>10. event' = [event EXCEPT
         ![e] = [send_id |-> id, recv_id |-> event[e].recv_id,
                 received_tick |-> NotReceived, next_event |-> next]]
  BY <1>2, <1>9
<1> HIDE DEF w, slot, by, e
<1>11. /\ wheel'.tick = w.tick /\ wheel'.processed_index = w.processed_index
       /\ wheel'.current_tick = w.current_tick
       /\ wheel'.event_head = [w.event_head EXCEPT ![slot] = e]
  <2>1. /\ ScheduleEvent(w, e, slot).tick = w.tick
        /\ ScheduleEvent(w, e, slot).processed_index = w.processed_index
        /\ ScheduleEvent(w, e, slot).current_tick = w.current_tick
        /\ ScheduleEvent(w, e, slot).event_head = [w.event_head EXCEPT ![slot] = e]
    BY <1>1, <1>3, <1>4, ScheduleFields
  <2> QED BY <1>8, <2>1
<1>12. /\ wheel'.event_head = [wheel.event_head EXCEPT ![slot] = e]
       /\ wheel'.tick = wheel.tick /\ wheel'.processed_index = wheel.processed_index
       /\ wheel'.current_tick = now
  BY <1>5, <1>11
<1> QED BY <1>4, <1>6, <1>7, <1>8, <1>10, <1>12 DEF e

(* What the processing of an event does: the event and one ring change.    *)
LEMMA ProcessFacts ==
  ASSUME TypeOK, WalkInSlot, ProcessHead \/ ProcessNext
  PROVE  \E e \in Events :
           LET c == DueHead(wheel)[1]
               id == IF event[e].received_tick = NotReceived THEN event[e].send_id
                     ELSE event[e].recv_id
           IN  /\ DueHead(wheel) \in Events /\ c \in Conns /\ id \in Nat
               /\ \/ cursor = NULL /\ e = DueHead(wheel)
                  \/ cursor \in Events /\ e = event[cursor].next_event
               /\ event' = [event EXCEPT ![e].recv_id = id]
               /\ \/ buf' = buf
                  \/ buf' = [buf EXCEPT ![c] = Reclaim(@, id, AckId(c))]
               /\ cursor' = e /\ pc = "wheel" /\ pending > 0
               /\ UNCHANGED <<wheel, sent_req, completed_req, send_conn_id, pc, todo, cur,
                              pending, net, sock>>
<1> USE DEF counters, control, channels, data
<1>1. CASE ProcessHead
  <2> DEFINE e == DueHead(wheel)
             id == IF event[e].received_tick = NotReceived THEN event[e].send_id
                   ELSE event[e].recv_id
  <2>1. e \in Events
    BY <1>1 DEF ProcessHead, TypeOK, Wheels, DueHead
  <2>2. e[1] \in Conns
    BY <2>1 DEF Events
  <2>3. id \in Nat
    BY <2>1 DEF TypeOK, EventRecs
  <2>4. /\ event' = [event EXCEPT ![e].recv_id = id] /\ cursor' = e
        /\ buf' = buf \/ buf' = [buf EXCEPT ![e[1]] = Reclaim(@, id, AckId(e[1]))]
    BY <1>1 DEF ProcessHead, Process
  <2>5. /\ pc = "wheel" /\ pending > 0 /\ cursor = NULL
        /\ UNCHANGED <<wheel, sent_req, completed_req, send_conn_id, pc, todo, cur,
                       pending, net, sock>>
    BY <1>1 DEF ProcessHead
  <2> QED BY <2>1, <2>2, <2>3, <2>4, <2>5
<1>2. CASE ProcessNext
  <2> DEFINE c == DueHead(wheel)[1]
             e == event[cursor].next_event
             id == IF event[e].received_tick = NotReceived THEN event[e].send_id
                   ELSE event[e].recv_id
  <2>1. cursor \in Events /\ DueHead(wheel) \in Events /\ pending > 0
    BY <1>2 DEF ProcessNext, WalkInSlot, TypeOK, DueHead, Wheels
  <2>2. c \in Conns
    BY <2>1 DEF Events
  <2>3. e \in Events
    BY <1>2, <2>1 DEF ProcessNext, TypeOK, EventRecs
  <2>4. id \in Nat
    BY <2>3 DEF TypeOK, EventRecs
  <2>5. /\ event' = [event EXCEPT ![e].recv_id = id] /\ cursor' = e
        /\ buf' = [buf EXCEPT ![c] = Reclaim(@, id, AckId(c))]
    BY <1>2 DEF ProcessNext, Process
  <2>6. /\ pc = "wheel"
        /\ UNCHANGED <<wheel, sent_req, completed_req, send_conn_id, pc, todo, cur,
                       pending, net, sock>>
    BY <1>2 DEF ProcessNext
  <2> QED BY <2>1, <2>2, <2>3, <2>4, <2>5, <2>6
<1> QED BY <1>1, <1>2

(* The steps that change neither a ring nor an event.                      *)
LEMMA OtherSteps ==
  ASSUME TypeOK, WalkInSlot, [Next]_vars
  PROVE  \/ SendRequest \/ ReceiveReply \/ ProcessHead \/ ProcessNext
         \/ /\ UNCHANGED <<buf, event, sent_req, completed_req, send_conn_id>>
            /\ wheel'.tick = wheel.tick /\ wheel'.event_head = wheel.event_head
            /\ wheel'.processed_index = wheel.processed_index
            /\ wheel'.current_tick >= wheel.current_tick
            /\ cursor' = cursor
         \/ SlotDone
<1> USE DEF counters, control, channels, data
<1>1. CASE EndTurn
  <2>1. PICK us \in LoopCost : wheel' = AdvanceTick(wheel, us)
    BY <1>1 DEF EndTurn
  <2>2. UNCHANGED <<buf, event, counters, cursor>> /\ us \in Nat
    BY <1>1 DEF EndTurn
  <2>3. wheel \in Wheels(Events \cup {NULL})
    BY DEF TypeOK
  <2>4. /\ wheel'.tick = wheel.tick /\ wheel'.event_head = wheel.event_head
        /\ wheel'.processed_index = wheel.processed_index
        /\ wheel'.current_tick = wheel.current_tick + us /\ wheel.current_tick \in Nat
    BY <2>1, <2>2, <2>3, AdvanceTickFields
  <2> QED BY <2>2, <2>4
<1>2. CASE PollSockets \/ Drained \/ LatencyThreadDone \/ Network \/ UNCHANGED vars
  <2>1. UNCHANGED <<buf, event, wheel, counters, cursor>>
    BY <1>2 DEF PollSockets, Drained, LatencyThreadDone, Network, Deliver, Lose,
                Duplicate, vars
  <2>2. wheel.current_tick \in Nat
    BY DEF TypeOK, Wheels
  <2> QED BY <2>1, <2>2
<1> QED BY <1>1, <1>2 DEF Next, Thread, Finished

(* Before it wraps a ring is an interval of slots.                         *)
LEMMA UnwrappedWindow ==
  ASSUME NEW b \in MultiDestBuffers, ~b.isfull, b.ack_tail <= b.ack_head
  PROVE  Window(b) = b.ack_tail .. b.ack_head - 1
BY DEF Window, IsEmpty, MultiDestBuffers, BufSlots

(* Reclaiming retires the tail or leaves the ring alone.                   *)
LEMMA UnwrappedReclaim ==
  ASSUME NEW b \in MultiDestBuffers, ~b.isfull, b.ack_tail <= b.ack_head,
         NEW x \in Nat, NEW y \in Nat
  PROVE  LET r == Reclaim(b, x, y)
         IN  \/ /\ r = b
                /\ b.ack_tail = b.ack_head \/ x < y
             \/ /\ b.ack_tail < b.ack_head /\ y <= x
                /\ ~r.isfull /\ r.ack_head = b.ack_head /\ r.ack_tail = b.ack_tail + 1
<1>1. /\ b.ack_head \in BufSlots /\ b.ack_tail \in BufSlots /\ b.isfull = FALSE
  BY DEF MultiDestBuffers
<1>2. CASE b.ack_tail = b.ack_head
  BY <1>1, <1>2 DEF Reclaim, IsEmpty
<1>3. CASE b.ack_tail # b.ack_head /\ x < y
  <2>1. Reclaim(b, x, y) = DropLate(b)
    BY <1>1, <1>3 DEF Reclaim, IsEmpty
  <2>2. DropLate(b) = b
    BY <1>1 DEF DropLate, MultiDestBuffers
  <2> QED BY <1>3, <2>1, <2>2
<1>4. CASE b.ack_tail # b.ack_head /\ ~(x < y)
  <2>1. Reclaim(b, x, y) = Pop(b)
    BY <1>1, <1>4 DEF Reclaim, IsEmpty
  <2>2. NextSlot(b.ack_tail) = b.ack_tail + 1 /\ b.ack_tail < b.ack_head
    BY <1>1, <1>4, NextSlotType DEF BufSlots
  <2> QED BY <1>4, <2>1, <2>2 DEF Pop
<1> QED BY <1>2, <1>3, <1>4

(* The id of the oldest request of a connection is a number.               *)
LEMMA AckIdType ==
  ASSUME TypeOK, NEW c \in Conns
  PROVE  AckId(c) \in Nat
<1>1. buf[c] \in MultiDestBuffers
  BY DEF TypeOK
<1>2. <<c, buf[c].ack_tail>> \in Events
  BY <1>1 DEF MultiDestBuffers, Events
<1> QED BY <1>2 DEF AckId, EventRecs, TypeOK

(* Sending moves the head of its connection and no other index.            *)
LEMMA SendMovesHead ==
  ASSUME TypeOK, UnwrappedRings, NoWrap, SendRequest
  PROVE  /\ sent_req' = sent_req + 1 /\ sent_req < MaxSent
         /\ send_conn_id \in Conns /\ buf[send_conn_id].ack_head + 1 < BufSize
         /\ send_conn_id' = (send_conn_id + 1) % ConnPerThread
         /\ completed_req' = completed_req /\ cursor' = cursor /\ sock' = sock
         /\ \A c \in Conns :
              /\ ~buf'[c].isfull /\ buf'[c].ack_tail = buf[c].ack_tail
              /\ buf'[c].ack_head = IF c = send_conn_id THEN buf[c].ack_head + 1
                                    ELSE buf[c].ack_head
<1> DEFINE d == send_conn_id
<1>1. d \in Conns /\ buf \in [Conns -> MultiDestBuffers] /\ sent_req \in Nat
  BY DEF TypeOK
<1>2. /\ sent_req' = sent_req + 1 /\ sent_req < MaxSent
      /\ buf' = [buf EXCEPT ![d] = Acquire(buf[d])]
      /\ send_conn_id' = (send_conn_id + 1) % ConnPerThread
      /\ completed_req' = completed_req /\ cursor' = cursor /\ sock' = sock
  BY DEF SendRequest, control
<1>3. /\ ~buf[d].isfull /\ buf[d].ack_tail <= buf[d].ack_head
      /\ buf[d].ack_head \in BufSlots /\ buf[d].ack_tail \in BufSlots
  BY <1>1 DEF UnwrappedRings, MultiDestBuffers
<1>4. buf[d].ack_head + 1 < BufSize
  <2>1. PICK q \in Nat : TakesTurns(q)
    BY DEF UnwrappedRings
  <2>2. buf[d].ack_head = q /\ ConnPerThread * q <= sent_req
    BY <1>1, <2>1 DEF TakesTurns, Conns
  <2>3. ConnPerThread * q < ConnPerThread * (BufSize - 1)
    <3>1. ConnPerThread * q \in Nat /\ ConnPerThread * (BufSize - 1) \in Nat
      OBVIOUS
    <3> QED BY <1>1, <1>2, <2>2, <3>1 DEF NoWrap
  <2>4. ~(BufSize - 1 <= q)
    BY <2>3, TimesOrdered
  <2> QED BY <2>2, <2>4
<1>5. NextSlot(buf[d].ack_head) = buf[d].ack_head + 1
  BY <1>3, <1>4, NextSlotType
<1>6. buf[d].ack_head + 1 # buf[d].ack_tail
  BY <1>3 DEF BufSlots
<1>7. /\ ~Acquire(buf[d]).isfull /\ Acquire(buf[d]).ack_tail = buf[d].ack_tail
      /\ Acquire(buf[d]).ack_head = buf[d].ack_head + 1
  BY <1>5, <1>6 DEF Acquire
<1> HIDE DEF d
<1>8. ASSUME NEW c \in Conns
      PROVE  /\ ~buf'[c].isfull /\ buf'[c].ack_tail = buf[c].ack_tail
             /\ buf'[c].ack_head = IF c = d THEN buf[c].ack_head + 1 ELSE buf[c].ack_head
  <2>1. CASE c = d
    BY <1>1, <1>2, <1>7, <2>1
  <2>2. CASE c # d
    <3>1. buf'[c] = buf[c]
      BY <1>1, <1>2, <2>2
    <3> QED BY <2>2, <3>1 DEF UnwrappedRings
  <2> QED BY <2>1, <2>2
<1> QED BY <1>1, <1>2, <1>4, <1>8 DEF d

(* The processing of an event moves at most the tail of the connection of  *)
(* the due slot's head, which is then no newer than the event.             *)
LEMMA ProcessMovesTail ==
  ASSUME TypeOK, UnwrappedRings, DueHead(wheel) \in Events,
         NEW id \in Nat,
         LET d == DueHead(wheel)[1]
         IN  buf' = buf \/ buf' = [buf EXCEPT ![d] = Reclaim(@, id, AckId(d))]
  PROVE  \A c \in Conns :
           /\ ~buf'[c].isfull /\ buf'[c].ack_head = buf[c].ack_head
           /\ \/ buf'[c].ack_tail = buf[c].ack_tail
              \/ /\ c = DueHead(wheel)[1] /\ AckId(c) <= id
                 /\ buf[c].ack_tail < buf[c].ack_head
                 /\ buf'[c].ack_tail = buf[c].ack_tail + 1
<1> DEFINE d == DueHead(wheel)[1]
<1>1. d \in Conns /\ buf \in [Conns -> MultiDestBuffers]
  BY DEF TypeOK, Events
<1>2. AckId(d) \in Nat
  BY <1>1, AckIdType
<1>3. /\ buf[d] \in MultiDestBuffers
      /\ \A c \in Conns : ~buf[c].isfull /\ buf[c].ack_tail <= buf[c].ack_head
  BY <1>1 DEF UnwrappedRings
<1>4. LET r == Reclaim(buf[d], id, AckId(d))
      IN  \/ r = buf[d]
          \/ /\ buf[d].ack_tail < buf[d].ack_head /\ AckId(d) <= id
             /\ ~r.isfull /\ r.ack_head = buf[d].ack_head
             /\ r.ack_tail = buf[d].ack_tail + 1
  BY <1>1, <1>2, <1>3, UnwrappedReclaim
<1>5. \/ buf' = buf
      \/ buf' = [buf EXCEPT ![d] = Reclaim(buf[d], id, AckId(d))]
  OBVIOUS
<1> DEFINE r == Reclaim(buf[d], id, AckId(d))
<1> HIDE DEF d, r
<1>6. ASSUME NEW c \in Conns
      PROVE  /\ ~buf'[c].isfull /\ buf'[c].ack_head = buf[c].ack_head
             /\ \/ buf'[c].ack_tail = buf[c].ack_tail
                \/ /\ c = d /\ AckId(c) <= id
                   /\ buf[c].ack_tail < buf[c].ack_head
                   /\ buf'[c].ack_tail = buf[c].ack_tail + 1
  <2>1. CASE buf'[c] = buf[c]
    BY <1>3, <2>1
  <2>2. CASE c = d /\ buf'[c] = r
    BY <1>3, <1>4, <2>2 DEF r
  <2>3. buf'[c] = buf[c] \/ (c = d /\ buf'[c] = r)
    BY <1>1, <1>5 DEF r
  <2> QED BY <2>1, <2>2, <2>3
<1> QED BY <1>6 DEF d

(* The connection that is sent on has had its turn, and after the last one *)
(* the next round begins.                                                  *)
LEMMA SendTakesTurn ==
  ASSUME TypeOK, UnwrappedRings, NoWrap, SendRequest
  PROVE  \E q \in Nat : TakesTurns(q)'
<1> DEFINE d == send_conn_id
<1>1. PICK q \in Nat : TakesTurns(q)
  BY DEF UnwrappedRings
<1>2. /\ d \in 0 .. ConnPerThread - 1
      /\ sent_req' = sent_req + 1 /\ send_conn_id' = (d + 1) % ConnPerThread
      /\ \A c \in Conns : buf'[c].ack_head = IF c = d THEN buf[c].ack_head + 1
                                             ELSE buf[c].ack_head
  BY SendMovesHead DEF Conns
<1>3. /\ sent_req = (ConnPerThread * q) + d
      /\ \A c \in Conns : buf[c].ack_head = IF c < d THEN q + 1 ELSE q
  BY <1>1 DEF TakesTurns
<1>4. ConnPerThread * q \in Nat /\ ConnPerThread * (q + 1) = (ConnPerThread * q) + ConnPerThread
  BY TimesSucc
<1> HIDE DEF d
<1>5. CASE d + 1 < ConnPerThread
  <2>1. (d + 1) % ConnPerThread = d + 1
    BY <1>2, <1>5
  <2>2. sent_req' = (ConnPerThread * q) + (d + 1)
    BY <1>2, <1>3, <1>4
  <2>3. \A c \in Conns : buf'[c].ack_head = IF c < d + 1 THEN q + 1 ELSE q
    BY <1>2, <1>3 DEF Conns
  <2> QED BY <1>2, <2>1, <2>2, <2>3 DEF TakesTurns
<1>6. CASE d + 1 = ConnPerThread
  <2>1. (d + 1) % ConnPerThread = 0
    <3>1. ((ConnPerThread * 1) + 0) % ConnPerThread = 0
      BY 0 \in 0 .. ConnPerThread - 1, ModUnique
    <3> QED BY <1>6, <3>1
  <2>2. sent_req' = (ConnPerThread * (q + 1)) + 0
    BY <1>2, <1>3, <1>4, <1>6
  <2>3. \A c \in Conns : buf'[c].ack_head = IF c < 0 THEN (q + 1) + 1 ELSE q + 1
    BY <1>2, <1>3, <1>6 DEF Conns
  <2>4. q + 1 \in Nat
    OBVIOUS
  <2> QED BY <1>2, <2>1, <2>2, <2>3, <2>4 DEF TakesTurns
<1> QED BY <1>2, <1>5, <1>6

(* No ring wraps while fewer requests are sent on it than it has slots.    *)
LEMMA StepUnwrapped ==
  ASSUME TypeOK, WalkInSlot, UnwrappedRings, NoWrap, [Next]_vars
  PROVE  UnwrappedRings'
<1>1. sent_req \in Nat /\ \A c \in Conns : buf[c].ack_head \in Nat /\ buf[c].ack_tail \in Nat
  BY DEF TypeOK, MultiDestBuffers, BufSlots
<1>2. CASE SendRequest
  <2>1. \A c \in Conns : ~buf'[c].isfull /\ buf'[c].ack_tail <= buf'[c].ack_head
    BY <1>1, <1>2, SendMovesHead DEF UnwrappedRings
  <2>2. sent_req' <= MaxSent
    BY <1>1, <1>2, SendMovesHead
  <2> QED BY <1>2, <2>1, <2>2, SendTakesTurn DEF UnwrappedRings
<1>3. CASE ProcessHead \/ ProcessNext
  <2>1. PICK e \in Events, id \in Nat :
          /\ DueHead(wheel) \in Events /\ UNCHANGED <<sent_req, send_conn_id>>
          /\ \/ buf' = buf
             \/ buf' = [buf EXCEPT ![DueHead(wheel)[1]] =
                          Reclaim(@, id, AckId(DueHead(wheel)[1]))]
    BY <1>3, ProcessFacts
  <2>2. \A c \in Conns :
          /\ ~buf'[c].isfull /\ buf'[c].ack_head = buf[c].ack_head
          /\ \/ buf'[c].ack_tail = buf[c].ack_tail
             \/ /\ buf[c].ack_tail < buf[c].ack_head
                /\ buf'[c].ack_tail = buf[c].ack_tail + 1
    BY <2>1, ProcessMovesTail
  <2>3. \A q \in Nat : TakesTurns(q) => TakesTurns(q)'
    BY <2>1, <2>2 DEF TakesTurns
  <2> QED BY <1>1, <2>1, <2>2, <2>3 DEF UnwrappedRings
<1>4. CASE UNCHANGED <<buf, sent_req, send_conn_id>>
  BY <1>4 DEF UnwrappedRings, TakesTurns
<1>5. ReceiveReply \/ SlotDone => UNCHANGED <<buf, sent_req, send_conn_id>>
  BY DEF ReceiveReply, SlotDone, counters
<1> QED BY <1>2, <1>3, <1>4, <1>5, OtherSteps

(* The ids of a connection grow from slot to slot, below the count of      *)
(* requests sent.                                                          *)
IdsInOrder ==
  \A c \in Conns : \A i \in 0 .. buf[c].ack_head - 1 :
     /\ event[<<c, i>>].send_id < sent_req
     /\ \A j \in 0 .. i - 1 : event[<<c, j>>].send_id < event[<<c, i>>].send_id

(* A link leads from an event to one that was sent before it: no list can  *)
(* come back to an event.  Slots that were never handed out are not        *)
(* linked from anywhere.                                                   *)
LinksToOlder ==
  /\ \A e \in Events :
        event[e].next_event # NULL =>
          /\ Used(e) /\ Used(event[e].next_event)
          /\ event[event[e].next_event].send_id < event[e].send_id
  /\ \A s \in WheelSlots : wheel.event_head[s] # NULL => Used(wheel.event_head[s])

(* While ids are unique a request is given the count of those before it.   *)
LEMMA RequestIdIsCount ==
  ASSUME TypeOK, UniqueIds, sent_req < MaxSent
  PROVE  RequestIds(sent_req) = {sent_req}
<1>1. sent_req \in Nat /\ NumBatches * BatchStride \in Nat
  BY DEF TypeOK
<1>2. ~(sent_req > NumBatches * BatchStride)
  BY <1>1 DEF UniqueIds
<1> QED BY <1>2 DEF RequestIds

(* Only sending writes an id or a link, or moves the head of a ring; only  *)
(* sending puts an event on the wheel.                                     *)
LEMMA OnlySendLinks ==
  ASSUME TypeOK, WalkInSlot, UnwrappedRings, [Next]_vars, ~SendRequest
  PROVE  /\ sent_req' = sent_req
         /\ \A c \in Conns : buf'[c].ack_head = buf[c].ack_head
         /\ \A e \in Events : /\ event'[e].send_id = event[e].send_id
                              /\ event'[e].next_event = event[e].next_event
         /\ \A s \in WheelSlots : \/ wheel'.event_head[s] = NULL
                                  \/ wheel'.event_head[s] = wheel.event_head[s]
<1>1. event \in [Events -> EventRecs] /\ wheel \in Wheels(Events \cup {NULL})
  BY DEF TypeOK
<1>2. CASE ReceiveReply
  <2>0. PICK us \in LoopCost, i \in BufSlots :
          /\ wheel' = AdvanceTick(wheel, us)
          /\ event' = [event EXCEPT
               ![<<cur, i>>].recv_id =
                 IF Hits(cur, Head(sock[cur]).id) = {} THEN @ ELSE Head(sock[cur]).id,
               ![<<cur, i>>].received_tick = wheel.current_tick + us]
    BY <1>2 DEF ReceiveReply
  <2>1. PICK id :
          /\ wheel' = AdvanceTick(wheel, us)
          /\ event' = [event EXCEPT ![<<cur, i>>].recv_id = id,
                                    ![<<cur, i>>].received_tick = wheel.current_tick + us]
    BY <2>0
  <2>2. us \in Nat
    OBVIOUS
  <2>3. wheel'.event_head = wheel.event_head
    BY <1>1, <2>1, <2>2, AdvanceTickFields
  <2>4. ASSUME NEW e \in Events
        PROVE  /\ event'[e].send_id = event[e].send_id
               /\ event'[e].next_event = event[e].next_event
    BY <1>1, <2>1 DEF EventRecs
  <2>5. buf' = buf /\ sent_req' = sent_req
    BY <1>2 DEF ReceiveReply
  <2> QED BY <2>3, <2>4, <2>5
<1>3. CASE ProcessHead \/ ProcessNext
  <2>1. PICK e \in Events, id \in Nat :
          /\ DueHead(wheel) \in Events /\ sent_req' = sent_req /\ wheel' = wheel
          /\ event' = [event EXCEPT ![e].recv_id = id]
          /\ \/ buf' = buf
             \/ buf' = [buf EXCEPT ![DueHead(wheel)[1]] =
                          Reclaim(@, id, AckId(DueHead(wheel)[1]))]
    BY <1>3, ProcessFacts
  <2>2. \A c \in Conns : buf'[c].ack_head = buf[c].ack_head
    BY <2>1, ProcessMovesTail
  <2>3. ASSUME NEW d \in Events
        PROVE  /\ event'[d].send_id = event[d].send_id
               /\ event'[d].next_event = event[d].next_event
    BY <1>1, <2>1 DEF EventRecs
  <2> QED BY <2>1, <2>2, <2>3
<1>4. CASE SlotDone
  <2>1. wheel' = AdvanceSlot(wheel, NULL) /\ UNCHANGED <<buf, event, sent_req>>
    BY <1>4 DEF SlotDone, counters
  <2> QED BY <1>1, <2>1, AdvanceOthers
<1>5. CASE UNCHANGED <<buf, event, sent_req>> /\ wheel'.event_head = wheel.event_head
  BY <1>5
<1> QED BY <1>2, <1>3, <1>4, <1>5, OtherSteps

(* The ids stay in order: a request that is sent has the greatest of all.  *)
LEMMA StepIdsInOrder ==
  ASSUME TypeOK, WalkInSlot, UnwrappedRings, NoWrap, UniqueIds, IdsInOrder, [Next]_vars
  PROVE  IdsInOrder'
<1>1. /\ sent_req \in Nat /\ event \in [Events -> EventRecs]
      /\ \A c \in Conns : buf[c].ack_head \in BufSlots
  BY DEF TypeOK, MultiDestBuffers
<1>2. \A c \in Conns, i \in BufSlots : <<c, i>> \in Events
  BY DEF Events
<1>3. CASE SendRequest
  <2> DEFINE d == send_conn_id
             h == buf[d].ack_head
             e == <<d, h>>
  <2>1. /\ sent_req' = sent_req + 1 /\ sent_req < MaxSent /\ d \in Conns
        /\ \A c \in Conns : buf'[c].ack_head = IF c = d THEN buf[c].ack_head + 1
                                               ELSE buf[c].ack_head
    BY <1>3, SendMovesHead
  <2>2. PICK r \in [send_id : {sent_req}, recv_id : Nat, received_tick : {NotReceived},
                    next_event : Events \cup {NULL}] :
          event' = [event EXCEPT ![e] = r]
    <3>1. RequestIds(sent_req) = {sent_req}
      BY <2>1, RequestIdIsCount
    <3>2. PICK slot \in WheelSlots :
            event' = [event EXCEPT
              ![e] = [send_id |-> sent_req, recv_id |-> event[e].recv_id,
                      received_tick |-> NotReceived,
                      next_event |-> IF wheel.event_head[slot] = NULL
                                     THEN event[e].next_event
                                     ELSE wheel.event_head[slot]]]
      BY <1>3, <3>1, SendFacts
    <3>3. event[e] \in EventRecs /\ wheel.event_head[slot] \in Events \cup {NULL}
      BY <1>1, <1>2, <2>1 DEF TypeOK, Wheels
    <3> QED BY <3>2, <3>3 DEF EventRecs
  <2> HIDE DEF d
  <2>3. e \in Events /\ r.send_id = sent_req
    BY <1>1, <1>2, <2>1, <2>2
  <2>4. ASSUME NEW c \in Conns, NEW i \in BufSlots
        PROVE  event'[<<c, i>>].send_id =
                 IF c = d /\ i = h THEN sent_req ELSE event[<<c, i>>].send_id
    BY <1>1, <1>2, <2>2, <2>3
  <2>5. ASSUME NEW c \in Conns, NEW i \in 0 .. buf'[c].ack_head - 1
        PROVE  /\ event'[<<c, i>>].send_id < sent_req'
               /\ \A j \in 0 .. i - 1 : event'[<<c, j>>].send_id < event'[<<c, i>>].send_id
    <3>1. i \in BufSlots /\ \A j \in 0 .. i - 1 : j \in BufSlots
      BY <1>1, <2>1 DEF BufSlots
    <3>2. CASE c = d /\ i = h
      <4>1. \A j \in 0 .. i - 1 : event[<<c, j>>].send_id < sent_req
        BY <1>1, <3>2 DEF IdsInOrder, BufSlots
      <4> QED BY <1>1, <2>1, <2>4, <3>1, <3>2, <4>1
    <3>3. CASE ~(c = d /\ i = h)
      <4>1. i \in 0 .. buf[c].ack_head - 1
        BY <1>1, <2>1, <3>3 DEF BufSlots
      <4>2. \A j \in 0 .. i - 1 : ~(c = d /\ j = h)
        BY <1>1, <4>1 DEF BufSlots
      <4>3. /\ event[<<c, i>>].send_id < sent_req /\ event[<<c, i>>].send_id \in Nat
            /\ \A j \in 0 .. i - 1 : event[<<c, j>>].send_id < event[<<c, i>>].send_id
        BY <1>1, <1>2, <3>1, <4>1 DEF IdsInOrder, EventRecs
      <4> QED BY <1>1, <2>1, <2>4, <3>1, <3>3, <4>2, <4>3
    <3> QED BY <3>2, <3>3
  <2> QED BY <2>5 DEF IdsInOrder
<1>4. CASE ~SendRequest
  <2>1. /\ sent_req' = sent_req
        /\ \A c \in Conns : buf'[c].ack_head = buf[c].ack_head
        /\ \A e \in Events : event'[e].send_id = event[e].send_id
    BY <1>4, OnlySendLinks
  <2>2. ASSUME NEW c \in Conns, NEW i \in 0 .. buf[c].ack_head - 1
        PROVE  /\ event'[<<c, i>>].send_id = event[<<c, i>>].send_id
               /\ \A j \in 0 .. i - 1 : event'[<<c, j>>].send_id = event[<<c, j>>].send_id
    BY <1>1, <1>2, <2>1 DEF BufSlots
  <2> QED BY <2>1, <2>2 DEF IdsInOrder
<1> QED BY <1>3, <1>4

(* A request that is sent takes an event that was not used before, gives   *)
(* it the greatest id so far and puts it in front of the list of its slot. *)
LEMMA SendTakesFreshEvent ==
  ASSUME TypeOK, UnwrappedRings, NoWrap, UniqueIds, SendRequest
  PROVE  \E us \in SendCost, slot \in WheelSlots, by \in Nat :
           LET c == send_conn_id
               e == <<c, buf[c].ack_head>>
               now == wheel.current_tick + us
           IN  /\ CanAdvance(us)
               /\ by <= now + MaxDelay /\ (now <= MaxTick => now <= by)
               /\ net' = [net EXCEPT ![c] = Append(@, [id |-> sent_req, by |-> by])]
               /\ slot = ((now + RTO) % TickWord) % WheelSize
               /\ wheel'.tick = wheel.tick
               /\ wheel'.processed_index = wheel.processed_index
               /\ wheel'.current_tick = now
               /\ wheel'.event_head[slot] = e
               /\ \A s \in WheelSlots \ {slot} : wheel'.event_head[s] = wheel.event_head[s]
               /\ e \in Events /\ ~Used(e)
               /\ \A x \in Events : UsedIn(buf', x) <=> Used(x) \/ x = e
               /\ \A x \in Events \ {e} : event'[x] = event[x]
               /\ event'[e].send_id = sent_req /\ event'[e].received_tick = NotReceived
               /\ event'[e].next_event = IF wheel.event_head[slot] = NULL
                                         THEN event[e].next_event
                                         ELSE wheel.event_head[slot]
<1> DEFINE c == send_conn_id
           e == <<c, buf[c].ack_head>>
<1>1. /\ c \in Conns /\ sent_req < MaxSent
      /\ \A d \in Conns : buf'[d].ack_head = IF d = c THEN buf[d].ack_head + 1
                                             ELSE buf[d].ack_head
  BY SendMovesHead
<1>2. \A d \in Conns : buf[d].ack_head \in BufSlots
  BY DEF TypeOK, MultiDestBuffers
<1>3. e \in Events
  BY <1>1, <1>2 DEF Events
<1>4. ~Used(e)
  BY <1>1, <1>2 DEF Used, UsedIn, BufSlots
<1>5. ASSUME NEW x \in Events PROVE UsedIn(buf', x) <=> Used(x) \/ x = e
  <2>1. x[1] \in Conns /\ x[2] \in BufSlots /\ x = <<x[1], x[2]>>
    BY DEF Events
  <2>2. x = e <=> x[1] = c /\ x[2] = buf[c].ack_head
    BY <2>1
  <2> QED BY <1>1, <1>2, <2>1, <2>2 DEF Used, UsedIn, BufSlots
<1>6. RequestIds(sent_req) = {sent_req}
  BY <1>1, RequestIdIsCount
<1>7. PICK us \in SendCost, slot \in WheelSlots, by \in Nat :
        LET now == wheel.current_tick + us
        IN  /\ CanAdvance(us)
            /\ by <= now + MaxDelay /\ (now <= MaxTick => now <= by)
            /\ net' = [net EXCEPT ![c] = Append(@, [id |-> sent_req, by |-> by])]
            /\ slot = ((now + RTO) % TickWord) % WheelSize
            /\ wheel'.tick = wheel.tick
            /\ wheel'.processed_index = wheel.processed_index
            /\ wheel'.current_tick = now
            /\ wheel'.event_head = [wheel.event_head EXCEPT ![slot] = e]
            /\ event' = [event EXCEPT
                 ![e] = [send_id |-> sent_req, recv_id |-> event[e].recv_id,
                         received_tick |-> NotReceived,
                         next_event |-> IF wheel.event_head[slot] = NULL
                                        THEN event[e].next_event
                                        ELSE wheel.event_head[slot]]]
  BY <1>6, SendFacts
<1> HIDE DEF e, c
<1>8. event \in [Events -> EventRecs]
  BY DEF TypeOK
<1>9. /\ \A x \in Events \ {e} : event'[x] = event[x]
      /\ event'[e].send_id = sent_req /\ event'[e].received_tick = NotReceived
      /\ event'[e].next_event = IF wheel.event_head[slot] = NULL
                                THEN event[e].next_event
                                ELSE wheel.event_head[slot]
  BY <1>3, <1>7, <1>8
<1>10. wheel.event_head \in [WheelSlots -> Events \cup {NULL}]
  BY DEF TypeOK, Wheels
<1>11. /\ wheel'.event_head[slot] = e
       /\ \A s \in WheelSlots \ {slot} : wheel'.event_head[s] = wheel.event_head[s]
  BY <1>7, <1>10
<1> QED BY <1>3, <1>4, <1>5, <1>7, <1>9, <1>11 DEF e, c

(* What holds of a slot that was handed out.                               *)
LEMMA UsedIsOlder ==
  ASSUME TypeOK, IdsInOrder, NEW e \in Events, Used(e)
  PROVE  event[e].send_id \in Nat /\ event[e].send_id < sent_req
<1>1. e[1] \in Conns /\ e[2] \in BufSlots /\ e = <<e[1], e[2]>> /\ event[e] \in EventRecs
  BY DEF Events, TypeOK
<1>2. buf[e[1]].ack_head \in BufSlots
  BY <1>1 DEF TypeOK, MultiDestBuffers
<1>3. e[2] \in 0 .. buf[e[1]].ack_head - 1
  BY <1>1, <1>2 DEF Used, UsedIn, BufSlots
<1>4. event[<<e[1], e[2]>>].send_id < sent_req
  BY <1>1, <1>3 DEF IdsInOrder
<1> QED BY <1>1, <1>4 DEF EventRecs

(* Two used events of a connection have two ids.                           *)
LEMMA IdsDiffer ==
  ASSUME TypeOK, IdsInOrder, NEW c \in Conns, NEW i \in BufSlots, NEW j \in BufSlots,
         Used(<<c, i>>), Used(<<c, j>>), i < j
  PROVE  event[<<c, i>>].send_id < event[<<c, j>>].send_id
<1>1. buf[c].ack_head \in BufSlots
  BY DEF TypeOK, MultiDestBuffers
<1>2. j \in 0 .. buf[c].ack_head - 1 /\ i \in 0 .. j - 1
  BY <1>1 DEF Used, UsedIn, BufSlots
<1> QED BY <1>2 DEF IdsInOrder

(* An unchanged ring uses the same events.                                 *)
LEMMA UsedKept ==
  ASSUME NEW e \in Events, \A c \in Conns : buf'[c].ack_head = buf[c].ack_head
  PROVE  UsedIn(buf', e) <=> Used(e)
BY DEF Used, UsedIn, Events

(* Links keep leading to older events: the one new link leads from the     *)
(* newest event to the head of a list.                                     *)
LEMMA StepLinks ==
  ASSUME TypeOK, WalkInSlot, UnwrappedRings, NoWrap, UniqueIds, IdsInOrder,
         LinksToOlder, [Next]_vars
  PROVE  LinksToOlder'
<1>1. /\ event \in [Events -> EventRecs]
      /\ wheel.event_head \in [WheelSlots -> Events \cup {NULL}]
      /\ \A x \in Events : event[x].next_event \in Events \cup {NULL}
  BY DEF TypeOK, Wheels, EventRecs
<1>2. CASE SendRequest
  <2> DEFINE e == <<send_conn_id, buf[send_conn_id].ack_head>>
  <2>1. PICK slot \in WheelSlots :
          /\ wheel'.event_head[slot] = e
          /\ \A s \in WheelSlots \ {slot} : wheel'.event_head[s] = wheel.event_head[s]
          /\ e \in Events /\ ~Used(e)
          /\ \A x \in Events : UsedIn(buf', x) <=> Used(x) \/ x = e
          /\ \A x \in Events \ {e} : event'[x] = event[x]
          /\ event'[e].send_id = sent_req
          /\ event'[e].next_event = IF wheel.event_head[slot] = NULL
                                    THEN event[e].next_event
                                    ELSE wheel.event_head[slot]
    BY <1>2, SendTakesFreshEvent
  <2> HIDE DEF e
  <2>2. ASSUME NEW x \in Events, event'[x].next_event # NULL
        PROVE  /\ UsedIn(buf', x) /\ UsedIn(buf', event'[x].next_event)
               /\ event'[event'[x].next_event].send_id < event'[x].send_id
    <3>1. CASE x = e
      <4> DEFINE y == wheel.event_head[slot]
      <4>1. event[e].next_event = NULL
        BY <2>1 DEF LinksToOlder
      <4>2. y # NULL /\ event'[x].next_event = y /\ y \in Events
        BY <1>1, <2>1, <2>2, <3>1, <4>1
      <4>3. Used(y)
        BY <4>2 DEF LinksToOlder
      <4>4. event[y].send_id < sent_req /\ y # e
        BY <2>1, <4>2, <4>3, UsedIsOlder
      <4> HIDE DEF y
      <4> QED BY <2>1, <3>1, <4>2, <4>3, <4>4
    <3>2. CASE x # e
      <4> DEFINE y == event[x].next_event
      <4>1. event'[x] = event[x] /\ y # NULL /\ y \in Events
        BY <1>1, <2>1, <2>2, <3>2
      <4>2. Used(x) /\ Used(y) /\ event[y].send_id < event[x].send_id
        BY <4>1 DEF LinksToOlder
      <4>3. event'[y] = event[y]
        BY <2>1, <4>1, <4>2
      <4> HIDE DEF y
      <4>4. event'[x].next_event = y
        BY <4>1 DEF y
      <4> QED BY <2>1, <4>1, <4>2, <4>3, <4>4
    <3> QED BY <3>1, <3>2
  <2>3. ASSUME NEW s \in WheelSlots, wheel'.event_head[s] # NULL
        PROVE  UsedIn(buf', wheel'.event_head[s])
    <3>1. CASE s = slot
      BY <2>1, <3>1
    <3>2. CASE s # slot
      <4>1. wheel'.event_head[s] = wheel.event_head[s]
        BY <2>1, <3>2
      <4>2. wheel.event_head[s] \in Events /\ Used(wheel.event_head[s])
        BY <1>1, <2>3, <4>1 DEF LinksToOlder
      <4> QED BY <2>1, <4>1, <4>2
    <3> QED BY <3>1, <3>2
  <2> QED BY <2>2, <2>3 DEF LinksToOlder, Used
<1>3. CASE ~SendRequest
  <2>1. /\ \A c \in Conns : buf'[c].ack_head = buf[c].ack_head
        /\ \A e \in Events : /\ event'[e].send_id = event[e].send_id
                             /\ event'[e].next_event = event[e].next_event
        /\ \A s \in WheelSlots : \/ wheel'.event_head[s] = NULL
                                 \/ wheel'.event_head[s] = wheel.event_head[s]
    BY <1>3, OnlySendLinks
  <2>2. ASSUME NEW x \in Events, event'[x].next_event # NULL
        PROVE  /\ UsedIn(buf', x) /\ UsedIn(buf', event'[x].next_event)
               /\ event'[event'[x].next_event].send_id < event'[x].send_id
    <3> DEFINE y == event[x].next_event
    <3>1. event'[x].next_event = y /\ y # NULL /\ y \in Events
      BY <1>1, <2>1, <2>2
    <3>2. Used(x) /\ Used(y) /\ event[y].send_id < event[x].send_id
      BY <3>1 DEF LinksToOlder
    <3> HIDE DEF y
    <3> QED BY <2>1, <3>1, <3>2 DEF Used, UsedIn, Events
  <2>3. ASSUME NEW s \in WheelSlots, wheel'.event_head[s] # NULL
        PROVE  UsedIn(buf', wheel'.event_head[s])
    <3>1. wheel'.event_head[s] = wheel.event_head[s]
      BY <2>1, <2>3
    <3>2. wheel.event_head[s] \in Events /\ Used(wheel.event_head[s])
      BY <1>1, <2>3, <3>1 DEF LinksToOlder
    <3> QED BY <2>1, <3>1, <3>2 DEF Used, UsedIn, Events
  <2> QED BY <2>2, <2>3 DEF LinksToOlder, Used
<1> QED BY <1>2, <1>3

-----------------------------------------------------------------------------
(* Replies that are read by the tick at which their requests time out.     *)
PromptReplies == MaxDelay <= RTO

(* A run whose ticks, up to the last timer's, fit the word the slots are   *)
(* computed in.                                                            *)
TicksFit == MaxTick + RTO < TickWord \/ TickWord % WheelSize = 0

(* The datagrams of a connection, on their way or in its socket.           *)
InFlight(c) ==
  {net[c][k] : k \in 1 .. Len(net[c])} \cup {sock[c][k] : k \in 1 .. Len(sock[c])}

(* A walk over a list is at an event that is no newer than its head.       *)
WalkFromHead ==
  cursor # NULL => /\ Used(cursor)
                   /\ event[cursor].send_id <= event[DueHead(wheel)].send_id

(* Every datagram belongs to a request that has not left the ring.         *)
RepliesOwned ==
  \A c \in Conns : \A m \in InFlight(c) :
     \E i \in Window(buf[c]) : event[<<c, i>>].send_id = m.id

(* A datagram is read before the timer of its request, or of any request   *)
(* sent later, is due.                                                     *)
RepliesTimely ==
  \A c \in Conns : \A m \in InFlight(c) :
     /\ wheel.current_tick <= m.by /\ m.by <= wheel.current_tick + MaxDelay
     /\ \A s \in WheelSlots :
           /\ wheel.event_head[s] # NULL
           /\ m.id <= event[wheel.event_head[s]].send_id
           => m.by <= wheel.tick[s]

(* Every answered request, outstanding or retired, has its own reply.      *)
AllAttributed ==
  \A e \in Events : Used(e) /\ event[e].received_tick # NotReceived
                      => event[e].recv_id = event[e].send_id

(* Datagrams are messages.                                                 *)
LEMMA InFlightType ==
  ASSUME TypeOK, NEW c \in Conns, NEW m \in InFlight(c)
  PROVE  m \in Messages
BY DEF InFlight, TypeOK

(* Taking an element out adds none.                                        *)
LEMMA RemoveAtElements ==
  ASSUME NEW s \in Seq(Messages), NEW k \in 1 .. Len(s), NEW j \in 1 .. Len(RemoveAt(s, k))
  PROVE  \E i \in 1 .. Len(s) : RemoveAt(s, k)[j] = s[i]
<1> DEFINE a == SubSeq(s, 1, k - 1)
           b == SubSeq(s, k + 1, Len(s))
<1>1. a \in Seq(Messages) /\ b \in Seq(Messages)
  OBVIOUS
<1>2. Len(a) = k - 1 /\ Len(b) = Len(s) - k
  OBVIOUS
<1>3. \A x \in 1 .. k - 1 : a[x] = s[x]
  OBVIOUS
<1>4. \A x \in 1 .. Len(s) - k : b[x] = s[k + x]
  OBVIOUS
<1>5. RemoveAt(s, k) = a \o b
  BY DEF RemoveAt
<1> HIDE DEF a, b
<1>6. j \in 1 .. Len(a) + Len(b) /\ (a \o b)[j] = IF j <= Len(a) THEN a[j] ELSE b[j - Len(a)]
  BY <1>1, <1>5
<1>7. CASE j <= k - 1
  BY <1>2, <1>3, <1>5, <1>6, <1>7
<1>8. CASE j > k - 1
  <2>1. j - (k - 1) \in 1 .. Len(s) - k
    BY <1>2, <1>6, <1>8
  <2>2. RemoveAt(s, k)[j] = s[k + (j - (k - 1))]
    BY <1>2, <1>4, <1>5, <1>6, <1>8, <2>1
  <2>3. k + (j - (k - 1)) \in 1 .. Len(s)
    BY <2>1
  <2> QED BY <2>2, <2>3
<1> QED BY <1>7, <1>8

(* No step but sending puts a new datagram in flight, whatever the network *)
(* loses, duplicates or reorders.                                          *)
LEMMA OnlySendFlies ==
  ASSUME TypeOK, [Next]_vars, ~SendRequest, NEW c \in Conns
  PROVE  InFlight(c)' \subseteq InFlight(c)
<1> USE DEF counters, control, channels, data
<1>1. net[c] \in Seq(Messages) /\ sock[c] \in Seq(Messages)
  BY DEF TypeOK
<1>2. CASE UNCHANGED <<net, sock>>
  BY <1>2 DEF InFlight
<1>3. CASE ReceiveReply
  <2>1. net' = net /\ sock' = [sock EXCEPT ![cur] = Tail(@)] /\ sock[cur] # << >>
    BY <1>3 DEF ReceiveReply
  <2>2. sock'[c] = sock[c] \/ (sock[c] # << >> /\ sock'[c] = Tail(sock[c]))
    BY <2>1 DEF TypeOK
  <2>3. \A k \in 1 .. Len(sock'[c]) : \E i \in 1 .. Len(sock[c]) : sock'[c][k] = sock[c][i]
    <3>1. CASE sock'[c] = sock[c]
      BY <3>1
    <3>2. CASE sock[c] # << >> /\ sock'[c] = Tail(sock[c])
      <4>1. Len(sock'[c]) = Len(sock[c]) - 1
        BY <1>1, <3>2
      <4>2. \A k \in 1 .. Len(sock'[c]) : sock'[c][k] = sock[c][k + 1]
        BY <1>1, <3>2
      <4>3. Len(sock[c]) \in Nat
        BY <1>1
      <4>4. \A k \in 1 .. Len(sock'[c]) : k + 1 \in 1 .. Len(sock[c])
        BY <4>1, <4>3
      <4> QED BY <4>2, <4>4
    <3> QED BY <2>2, <3>1, <3>2
  <2>4. \A k \in 1 .. Len(sock'[c]) : sock'[c][k] \in InFlight(c)
    BY <2>3 DEF InFlight
  <2>5. \A k \in 1 .. Len(net'[c]) : net'[c][k] \in InFlight(c)
    BY <2>1 DEF InFlight
  <2> QED BY <2>4, <2>5 DEF InFlight
<1>4. CASE Network
  <2>1. PICK d \in Conns : Deliver(d) \/ Lose(d) \/ Duplicate(d)
    BY <1>4 DEF Network
  <2>2. CASE c # d
    <3>1. net'[c] = net[c] /\ sock'[c] = sock[c]
      BY <2>1, <2>2 DEF Deliver, Lose, Duplicate, TypeOK
    <3> QED BY <3>1 DEF InFlight
  <2>3. CASE c = d
    <3>1. CASE Deliver(c)
      <4>1. PICK k \in 1 .. Len(net[c]) :
              /\ net'[c] = RemoveAt(net[c], k)
              /\ sock'[c] = Append(sock[c], net[c][k])
        BY <3>1 DEF Deliver, TypeOK
      <4>2. \A j \in 1 .. Len(net'[c]) : net'[c][j] \in InFlight(c)
        <5>1. \A j \in 1 .. Len(RemoveAt(net[c], k)) :
                \E i \in 1 .. Len(net[c]) : RemoveAt(net[c], k)[j] = net[c][i]
          BY <1>1, RemoveAtElements
        <5> QED BY <4>1, <5>1 DEF InFlight
      <4>3. \A j \in 1 .. Len(sock'[c]) : sock'[c][j] \in InFlight(c)
        <5>1. ASSUME NEW j \in 1 .. Len(sock'[c])
              PROVE  sock'[c][j] = net[c][k] \/ (j \in 1 .. Len(sock[c]) /\ sock'[c][j] = sock[c][j])
          <6>1. net[c][k] \in Messages
            BY <1>1
          <6>2. Len(sock'[c]) = Len(sock[c]) + 1 /\ Len(sock[c]) \in Nat
            BY <1>1, <4>1, <6>1
          <6> QED BY <1>1, <4>1, <6>1, <6>2
        <5> QED BY <5>1 DEF InFlight
      <4> QED BY <4>2, <4>3 DEF InFlight
    <3>2. CASE Lose(c)
      <4>1. PICK k \in 1 .. Len(net[c]) : net'[c] = RemoveAt(net[c], k) /\ sock'[c] = sock[c]
        BY <3>2 DEF Lose, TypeOK
      <4>2. \A j \in 1 .. Len(net'[c]) : net'[c][j] \in InFlight(c)
        <5>1. \A j \in 1 .. Len(RemoveAt(net[c], k)) :
                \E i \in 1 .. Len(net[c]) : RemoveAt(net[c], k)[j] = net[c][i]
          BY <1>1, RemoveAtElements
        <5> QED BY <4>1, <5>1 DEF InFlight
      <4> QED BY <4>1, <4>2 DEF InFlight
    <3>3. CASE Duplicate(c)
      <4>1. PICK k \in 1 .. Len(net[c]) : net'[c] = Append(net[c], net[c][k]) /\ sock'[c] = sock[c]
        BY <3>3 DEF Duplicate, TypeOK
      <4>2. ASSUME NEW j \in 1 .. Len(net'[c])
            PROVE  \E i \in 1 .. Len(net[c]) : net'[c][j] = net[c][i]
        <5>1. net[c][k] \in Messages
          BY <1>1
        <5>2. Len(net'[c]) = Len(net[c]) + 1 /\ Len(net[c]) \in Nat
          BY <1>1, <4>1, <5>1
        <5>3. CASE j = Len(net[c]) + 1
          BY <1>1, <4>1, <5>1, <5>3
        <5>4. CASE j # Len(net[c]) + 1
          BY <1>1, <4>1, <5>1, <5>2, <5>4
        <5> QED BY <5>3, <5>4
      <4> QED BY <4>1, <4>2 DEF InFlight
    <3> QED BY <2>1, <2>3, <3>1, <3>2, <3>3
  <2> QED BY <2>2, <2>3
<1>5. CASE PollSockets \/ Drained \/ ProcessHead \/ ProcessNext \/ SlotDone \/ EndTurn
           \/ LatencyThreadDone \/ UNCHANGED vars
  <2>1. UNCHANGED <<net, sock>>
    BY <1>5 DEF PollSockets, Drained, ProcessHead, ProcessNext, SlotDone, EndTurn,
                LatencyThreadDone, vars
  <2> QED BY <1>2, <2>1
<1> QED BY <1>3, <1>4, <1>5 DEF Next, Thread, Finished

(* What the receipt of a reply does to the events.                         *)
LEMMA ReceiveFacts ==
  ASSUME TypeOK, ReceiveReply
  PROVE  \E us \in LoopCost, i \in BufSlots :
           LET m == Head(sock[cur])
               e == <<cur, i>>
           IN  /\ cur \in Conns /\ m \in InFlight(cur) /\ e \in Events
               /\ CanAdvance(us) /\ Stamps(cur, m.id, i)
               /\ wheel'.tick = wheel.tick
               /\ wheel'.current_tick = wheel.current_tick + us
               /\ \A x \in Events \ {e} : event'[x] = event[x]
               /\ event'[e].send_id = event[e].send_id
               /\ event'[e].recv_id = IF Hits(cur, m.id) = {} THEN event[e].recv_id ELSE m.id
               /\ event'[e].received_tick = wheel.current_tick + us
               /\ event'[e].received_tick # NotReceived
               /\ UNCHANGED <<buf, sent_req, pc, cursor>>
<1> DEFINE m == Head(sock[cur])
<1>1. PICK us \in LoopCost, i \in BufSlots :
        /\ CanAdvance(us) /\ Stamps(cur, m.id, i)
        /\ wheel' = AdvanceTick(wheel, us)
        /\ event' = [event EXCEPT
             ![<<cur, i>>].recv_id = IF Hits(cur, m.id) = {} THEN @ ELSE m.id,
             ![<<cur, i>>].received_tick = wheel.current_tick + us]
  BY DEF ReceiveReply
<1> DEFINE e == <<cur, i>>
           r == IF Hits(cur, m.id) = {} THEN event[e].recv_id ELSE m.id
           t == wheel.current_tick + us
<1>2. cur \in Conns /\ e \in Events /\ event \in [Events -> EventRecs]
  BY DEF TypeOK, Events
<1>3. m \in InFlight(cur)
  <2>1. sock[cur] \in Seq(Messages) /\ sock[cur] # << >>
    BY <1>2 DEF TypeOK, ReceiveReply
  <2>2. 1 \in 1 .. Len(sock[cur]) /\ m = sock[cur][1]
    BY <2>1
  <2> QED BY <2>2 DEF InFlight
<1>4. us \in Nat /\ wheel \in Wheels(Events \cup {NULL})
  BY DEF TypeOK
<1>5. /\ wheel'.tick = wheel.tick /\ wheel'.current_tick = t /\ wheel.current_tick \in Nat
  BY <1>1, <1>4, AdvanceTickFields
<1>6. event' = [event EXCEPT ![e].recv_id = r, ![e].received_tick = t]
  BY <1>1
<1>7. t # NotReceived
  BY <1>4, <1>5 DEF NotReceived
<1>8. UNCHANGED <<buf, sent_req, pc, cursor>>
  BY DEF ReceiveReply, control
<1> HIDE DEF e, r, t, m
<1>9. /\ \A x \in Events \ {e} : event'[x] = event[x]
      /\ event'[e].send_id = event[e].send_id
      /\ event'[e].recv_id = r
      /\ event'[e].received_tick = t
  BY <1>2, <1>6 DEF EventRecs
<1>10. CanAdvance(us) /\ Stamps(cur, m.id, i)
  BY <1>1 DEF m
<1> QED BY <1>2, <1>3, <1>5, <1>7, <1>8, <1>9, <1>10 DEF e, r, t, m

(* The walk only goes to older events.                                     *)
LEMMA StepWalk ==
  ASSUME TypeOK, WalkInSlot, UnwrappedRings, LinksToOlder, WalkFromHead, [Next]_vars
  PROVE  WalkFromHead'
<1> USE DEF counters, control, channels, data
<1>1. /\ event \in [Events -> EventRecs] /\ cursor \in Events \cup {NULL}
      /\ DueHead(wheel) \in Events \cup {NULL}
  BY DEF TypeOK, Wheels, DueHead
<1>2. CASE SendRequest \/ ReceiveReply \/ SlotDone
  <2>1. cursor' = NULL
    BY <1>2 DEF SendRequest, ReceiveReply, SlotDone, WalkInSlot
  <2> QED BY <2>1 DEF WalkFromHead
<1>3. CASE ProcessHead \/ ProcessNext
  <2>1. PICK e \in Events, id \in Nat :
          /\ DueHead(wheel) \in Events /\ wheel' = wheel /\ cursor' = e
          /\ \/ cursor = NULL /\ e = DueHead(wheel)
             \/ cursor \in Events /\ e = event[cursor].next_event
          /\ \/ buf' = buf
             \/ buf' = [buf EXCEPT ![DueHead(wheel)[1]] =
                          Reclaim(@, id, AckId(DueHead(wheel)[1]))]
    BY <1>3, ProcessFacts
  <2>2. ~SendRequest
    BY <1>3 DEF ProcessHead, ProcessNext, SendRequest
  <2>3. /\ \A c \in Conns : buf'[c].ack_head = buf[c].ack_head
        /\ \A x \in Events : event'[x].send_id = event[x].send_id
    BY <2>2, OnlySendLinks
  <2>4. /\ event[e].send_id \in Nat /\ event[DueHead(wheel)].send_id \in Nat
        /\ cursor # NULL => event[cursor].send_id \in Nat
    BY <1>1, <2>1 DEF EventRecs
  <2>5. Used(e) /\ event[e].send_id <= event[DueHead(wheel)].send_id
    <3>1. CASE cursor = NULL /\ e = DueHead(wheel)
      <4>1. wheel.processed_index \in WheelSlots /\ e = wheel.event_head[wheel.processed_index]
        BY <3>1 DEF TypeOK, Wheels, DueHead
      <4>2. Used(e)
        BY <4>1, NullAssumption DEF LinksToOlder
      <4> QED BY <2>4, <3>1, <4>2
    <3>2. CASE cursor \in Events /\ e = event[cursor].next_event
      <4>1. cursor # NULL /\ e # NULL
        BY <3>2, NullAssumption
      <4>2. Used(e) /\ event[e].send_id < event[cursor].send_id
        BY <3>2, <4>1 DEF LinksToOlder
      <4>3. event[cursor].send_id <= event[DueHead(wheel)].send_id
        BY <4>1 DEF WalkFromHead
      <4> QED BY <2>4, <4>1, <4>2, <4>3
    <3> QED BY <2>1, <3>1, <3>2
  <2>6. UsedIn(buf', e)
    BY <2>3, <2>5, UsedKept
  <2>7. DueHead(wheel)' = DueHead(wheel)
    BY <2>1 DEF DueHead
  <2> QED BY <2>1, <2>3, <2>5, <2>6, <2>7 DEF WalkFromHead, Used
<1>4. CASE /\ UNCHANGED <<buf, event>> /\ cursor' = cursor
           /\ wheel'.event_head = wheel.event_head
           /\ wheel'.processed_index = wheel.processed_index
  <2>1. DueHead(wheel)' = DueHead(wheel)
    BY <1>4 DEF DueHead
  <2> QED BY <1>4, <2>1 DEF WalkFromHead, Used, UsedIn
<1> QED BY <1>2, <1>3, <1>4, OtherSteps

(* Time passes only as far as every datagram in flight allows.             *)
LEMMA TimePasses ==
  ASSUME TypeOK, WalkInSlot, [Next]_vars, ~SendRequest
  PROVE  /\ \/ wheel'.current_tick = wheel.current_tick
            \/ \E us \in LoopCost : CanAdvance(us)
                                    /\ wheel'.current_tick = wheel.current_tick + us
         /\ \A s \in WheelSlots : wheel'.event_head[s] = NULL \/ wheel'.tick[s] = wheel.tick[s]
<1> USE DEF counters, control, channels, data
<1>1. wheel \in Wheels(Events \cup {NULL})
  BY DEF TypeOK
<1>2. CASE ReceiveReply \/ EndTurn
  <2>1. PICK us \in LoopCost : CanAdvance(us) /\ wheel' = AdvanceTick(wheel, us)
    BY <1>2 DEF ReceiveReply, EndTurn
  <2>2. us \in Nat
    OBVIOUS
  <2>3. wheel'.tick = wheel.tick /\ wheel'.current_tick = wheel.current_tick + us
    BY <1>1, <2>1, <2>2, AdvanceTickFields
  <2> QED BY <2>1, <2>3
<1>3. CASE SlotDone
  <2>1. wheel' = AdvanceSlot(wheel, NULL)
    BY <1>3 DEF SlotDone
  <2>2. AdvanceSlot(wheel, NULL).current_tick = wheel.current_tick
    BY DEF AdvanceSlot
  <2> QED BY <1>1, <2>1, <2>2, AdvanceOthers
<1>4. CASE \/ PollSockets \/ Drained \/ ProcessHead \/ ProcessNext \/ LatencyThreadDone
           \/ Network \/ UNCHANGED vars
  <2>1. wheel' = wheel
    BY <1>4 DEF PollSockets, Drained, ProcessHead, ProcessNext, LatencyThreadDone,
                Network, Deliver, Lose, Duplicate, vars
  <2> QED BY <2>1
<1> QED BY <1>2, <1>3, <1>4 DEF Next, Thread, Finished

(* The clock does not pass the time by which a datagram is read.           *)
LEMMA AdvanceWithinReplies ==
  ASSUME NEW us \in Nat, CanAdvance(us), NEW c \in Conns, NEW m \in InFlight(c)
  PROVE  wheel.current_tick + us <= m.by /\ wheel.current_tick + us <= MaxTick
BY DEF CanAdvance, InFlight

(* A datagram is the newest of its connection, or was in flight before.    *)
LEMMA SendAddsReply ==
  ASSUME TypeOK, NEW d \in Conns, NEW x \in Messages,
         net' = [net EXCEPT ![d] = Append(@, x)], sock' = sock,
         NEW c \in Conns
  PROVE  InFlight(c)' \subseteq InFlight(c) \cup (IF c = d THEN {x} ELSE {})
<1>1. net[c] \in Seq(Messages) /\ net \in [Conns -> Seq(Messages)]
  BY DEF TypeOK
<1>2. CASE c # d
  BY <1>1, <1>2 DEF InFlight
<1>3. CASE c = d
  <2>1. net'[c] = Append(net[c], x)
    BY <1>1, <1>3
  <2>2. Len(net'[c]) = Len(net[c]) + 1 /\ Len(net[c]) \in Nat
    BY <1>1, <2>1
  <2>3. ASSUME NEW j \in 1 .. Len(net'[c])
        PROVE  net'[c][j] = x \/ (j \in 1 .. Len(net[c]) /\ net'[c][j] = net[c][j])
    BY <1>1, <2>1, <2>2
  <2>4. \A j \in 1 .. Len(net'[c]) : net'[c][j] \in InFlight(c) \cup {x}
    BY <2>3 DEF InFlight
  <2>5. \A j \in 1 .. Len(sock'[c]) : sock'[c][j] \in InFlight(c)
    BY DEF InFlight
  <2> QED BY <1>3, <2>4, <2>5 DEF InFlight
<1> QED BY <1>2, <1>3

(* A prompt wheel has a slot with the tick of every timer that is set.     *)
LEMMA SlotOfTimer ==
  ASSUME TypeOK, WheelWindow, PromptWheel, TicksFit, NEW us \in Nat, CanAdvance(us),
         NEW slot \in WheelSlots,
         slot = ((wheel.current_tick + us + RTO) % TickWord) % WheelSize
  PROVE  wheel.tick[slot] = wheel.current_tick + us + RTO
<1> DEFINE t == wheel.tick[slot]
           d == wheel.current_tick + us + RTO
           due_tick == DueTick(wheel)
<1>1. /\ t \in Nat /\ t % WheelSize = slot
      /\ due_tick <= t /\ t < due_tick + WheelSize /\ due_tick \in Nat
      /\ wheel.current_tick \in Nat /\ due_tick <= wheel.current_tick
  BY DEF TypeOK, Wheels, WheelWindow, OneRevolution, DueTick
<1>2. wheel.current_tick + us - due_tick <= MaxLag
  BY DEF CanAdvance
<1>3. d \in Nat /\ due_tick <= d /\ d < due_tick + WheelSize
  BY <1>1, <1>2 DEF PromptWheel
<1>4. d % WheelSize = t % WheelSize
  <2>1. SlotIsExact(d)
    BY <1>1 DEF CanAdvance, TicksFit, SlotIsExact
  <2>2. d % WheelSize = slot
    BY <1>3, <2>1, ExactSlot
  <2> QED BY <1>1, <2>2
<1> HIDE DEF t, d, due_tick
<1>5. CASE t <= d
  <2>1. d < t + WheelSize
    BY <1>1, <1>3
  <2> QED BY <1>1, <1>3, <1>4, <1>5, <2>1, ModWindow DEF t, d
<1>6. CASE d <= t
  <2>1. t < d + WheelSize
    BY <1>1, <1>3
  <2> QED BY <1>1, <1>3, <1>4, <1>6, <2>1, ModWindow DEF t, d
<1> QED BY <1>1, <1>3, <1>5, <1>6

(* Every datagram stays ahead of the timers of its request.                *)
LEMMA StepRepliesTimely ==
  ASSUME TypeOK, WalkInSlot, WheelWindow, UnwrappedRings, NoWrap, UniqueIds, IdsInOrder,
         LinksToOlder, PromptReplies, PromptWheel, TicksFit, RepliesTimely, [Next]_vars
  PROVE  RepliesTimely'
<1>1. /\ wheel.current_tick \in Nat /\ sent_req \in Nat
      /\ wheel.event_head \in [WheelSlots -> Events \cup {NULL}]
      /\ wheel.tick \in [WheelSlots -> Nat]
      /\ \A e \in Events : event[e].send_id \in Nat
  BY DEF TypeOK, Wheels, EventRecs
<1>2. CASE SendRequest
  <2> DEFINE d == send_conn_id
             e == <<d, buf[d].ack_head>>
  <2>1. PICK us \in SendCost, slot \in WheelSlots, by \in Nat :
          LET now == wheel.current_tick + us
          IN  /\ CanAdvance(us)
              /\ by <= now + MaxDelay /\ (now <= MaxTick => now <= by)
              /\ net' = [net EXCEPT ![d] = Append(@, [id |-> sent_req, by |-> by])]
              /\ slot = ((now + RTO) % TickWord) % WheelSize
              /\ wheel'.tick = wheel.tick /\ wheel'.current_tick = now
              /\ wheel'.event_head[slot] = e
              /\ \A s \in WheelSlots \ {slot} : wheel'.event_head[s] = wheel.event_head[s]
              /\ e \in Events /\ ~Used(e)
              /\ \A x \in Events \ {e} : event'[x] = event[x]
              /\ event'[e].send_id = sent_req
    BY <1>2, SendTakesFreshEvent
  <2>2. d \in Conns /\ sock' = sock
    BY <1>2, SendMovesHead
  <2>3. us \in Nat /\ wheel.tick[slot] = wheel.current_tick + us + RTO
    BY <2>1, SlotOfTimer
  <2> DEFINE now == wheel.current_tick + us
             x == [id |-> sent_req, by |-> by]
  <2>4. x \in Messages /\ x.id = sent_req /\ x.by = by
    BY <1>1 DEF Messages
  <2>5. wheel.current_tick + us <= MaxTick
    BY <1>1, <2>1, <2>3 DEF CanAdvance
  <2> HIDE DEF d, e, x
  <2>6. ASSUME NEW c \in Conns, NEW m \in InFlight(c)'
        PROVE  /\ wheel'.current_tick <= m.by /\ m.by <= wheel'.current_tick + MaxDelay
               /\ \A s \in WheelSlots :
                     /\ wheel'.event_head[s] # NULL
                     /\ m.id <= event'[wheel'.event_head[s]].send_id
                     => m.by <= wheel'.tick[s]
    <3>1. m \in InFlight(c) \/ m = x
      <4>1. net' = [net EXCEPT ![d] = Append(@, x)]
        BY <2>1 DEF x
      <4>2. InFlight(c)' \subseteq InFlight(c) \cup (IF c = d THEN {x} ELSE {})
        BY <2>2, <2>4, <4>1, SendAddsReply
      <4> QED BY <4>2
    <3>2. ASSUME NEW s \in WheelSlots, s # slot, wheel'.event_head[s] # NULL
          PROVE  /\ wheel'.event_head[s] = wheel.event_head[s]
                 /\ wheel.event_head[s] \in Events
                 /\ event'[wheel.event_head[s]] = event[wheel.event_head[s]]
                 /\ event[wheel.event_head[s]].send_id < sent_req
      <4>1. wheel'.event_head[s] = wheel.event_head[s] /\ wheel.event_head[s] \in Events
        BY <1>1, <2>1, <3>2
      <4>2. Used(wheel.event_head[s])
        BY <3>2, <4>1 DEF LinksToOlder
      <4>3. event[wheel.event_head[s]].send_id < sent_req
        BY <4>1, <4>2, UsedIsOlder
      <4> QED BY <2>1, <4>1, <4>2, <4>3
    <3>3. CASE m \in InFlight(c)
      <4>1. m \in Messages
        BY <3>3, InFlightType
      <4>2. m.by \in Nat /\ m.id \in Nat
        BY <4>1 DEF Messages
      <4>3. now <= m.by
        BY <2>1, <2>3, <3>3, AdvanceWithinReplies
      <4>4. /\ m.by <= wheel.current_tick + MaxDelay
            /\ \A s \in WheelSlots :
                  /\ wheel.event_head[s] # NULL
                  /\ m.id <= event[wheel.event_head[s]].send_id
                  => m.by <= wheel.tick[s]
        BY <3>3 DEF RepliesTimely
      <4>5. m.by <= wheel.tick[slot]
        BY <1>1, <2>3, <4>2, <4>4 DEF PromptReplies
      <4>6. ASSUME NEW s \in WheelSlots, wheel'.event_head[s] # NULL,
                   m.id <= event'[wheel'.event_head[s]].send_id
            PROVE  m.by <= wheel'.tick[s]
        <5>1. CASE s = slot
          BY <2>1, <4>5, <5>1
        <5>2. CASE s # slot
          <6>1. /\ wheel.event_head[s] # NULL
                /\ m.id <= event[wheel.event_head[s]].send_id
            BY <3>2, <4>6, <5>2
          <6> QED BY <2>1, <4>4, <6>1
        <5> QED BY <5>1, <5>2
      <4> QED BY <1>1, <2>1, <2>3, <4>2, <4>3, <4>4, <4>6
    <3>4. CASE m = x
      <4>1. m.id = sent_req /\ m.by = by
        BY <2>4, <3>4
      <4>2. now <= by /\ by <= now + MaxDelay
        BY <2>1, <2>5
      <4>3. by <= wheel.tick[slot]
        BY <1>1, <2>3, <4>2 DEF PromptReplies
      <4>4. ASSUME NEW s \in WheelSlots, wheel'.event_head[s] # NULL,
                   m.id <= event'[wheel'.event_head[s]].send_id
            PROVE  s = slot
        <5>1. SUFFICES ASSUME s # slot PROVE FALSE
          OBVIOUS
        <5>2. /\ event'[wheel'.event_head[s]].send_id < sent_req
              /\ event'[wheel'.event_head[s]].send_id \in Nat
          BY <1>1, <3>2, <4>4, <5>1
        <5> QED BY <1>1, <4>1, <4>4, <5>2
      <4> QED BY <2>1, <4>1, <4>2, <4>3, <4>4
    <3> QED BY <3>1, <3>3, <3>4
  <2> QED BY <2>6 DEF RepliesTimely
<1>3. CASE ~SendRequest
  <2>1. /\ \A x \in Events : event'[x].send_id = event[x].send_id
        /\ \A s \in WheelSlots : \/ wheel'.event_head[s] = NULL
                                 \/ wheel'.event_head[s] = wheel.event_head[s]
    BY <1>3, OnlySendLinks
  <2>2. /\ \/ wheel'.current_tick = wheel.current_tick
           \/ \E us \in LoopCost : CanAdvance(us)
                                   /\ wheel'.current_tick = wheel.current_tick + us
        /\ \A s \in WheelSlots : wheel'.event_head[s] = NULL \/ wheel'.tick[s] = wheel.tick[s]
    BY <1>3, TimePasses
  <2>3. ASSUME NEW c \in Conns, NEW m \in InFlight(c)'
        PROVE  /\ wheel'.current_tick <= m.by /\ m.by <= wheel'.current_tick + MaxDelay
               /\ \A s \in WheelSlots :
                     /\ wheel'.event_head[s] # NULL
                     /\ m.id <= event'[wheel'.event_head[s]].send_id
                     => m.by <= wheel'.tick[s]
    <3>1. m \in InFlight(c)
      BY <1>3, OnlySendFlies
    <3>2. m \in Messages
      BY <3>1, InFlightType
    <3>3. m.by \in Nat
      BY <3>2 DEF Messages
    <3>4. /\ wheel.current_tick <= m.by /\ m.by <= wheel.current_tick + MaxDelay
          /\ \A s \in WheelSlots :
                /\ wheel.event_head[s] # NULL
                /\ m.id <= event[wheel.event_head[s]].send_id
                => m.by <= wheel.tick[s]
      BY <3>1 DEF RepliesTimely
    <3>5. wheel'.current_tick <= m.by /\ m.by <= wheel'.current_tick + MaxDelay
      <4>1. CASE wheel'.current_tick = wheel.current_tick
        BY <3>4, <4>1
      <4>2. ASSUME NEW us \in LoopCost, CanAdvance(us),
                   wheel'.current_tick = wheel.current_tick + us
            PROVE  wheel'.current_tick <= m.by /\ m.by <= wheel'.current_tick + MaxDelay
        <5>1. us \in Nat
          OBVIOUS
        <5>2. wheel.current_tick + us <= m.by
          BY <3>1, <4>2, <5>1, AdvanceWithinReplies
        <5> QED BY <1>1, <3>3, <3>4, <4>2, <5>1, <5>2
      <4> QED BY <2>2, <4>1, <4>2
    <3>6. ASSUME NEW s \in WheelSlots, wheel'.event_head[s] # NULL,
                 m.id <= event'[wheel'.event_head[s]].send_id
          PROVE  m.by <= wheel'.tick[s]
      <4>1. /\ wheel'.event_head[s] = wheel.event_head[s] /\ wheel.event_head[s] \in Events
            /\ wheel'.tick[s] = wheel.tick[s]
        BY <1>1, <2>1, <2>2, <3>6
      <4>2. m.id <= event[wheel.event_head[s]].send_id
        BY <2>1, <3>6, <4>1
      <4> QED BY <3>4, <3>6, <4>1, <4>2
    <3> QED BY <3>5, <3>6
  <2> QED BY <2>3 DEF RepliesTimely
<1> QED BY <1>2, <1>3

(* The scan for the owner of a reply looks at the whole window of a ring   *)
(* that has not wrapped, and at nothing else when there is one.            *)
LEMMA ScannedWindow ==
  ASSUME TypeOK, UnwrappedRings, NEW c \in Conns
  PROVE  /\ Window(buf[c]) = buf[c].ack_tail .. buf[c].ack_head - 1
         /\ Window(buf[c]) \subseteq Scanned(buf[c])
         /\ Scanned(buf[c]) \subseteq Window(buf[c]) \cup {buf[c].ack_tail}
         /\ \A i \in Window(buf[c]) : i \in BufSlots /\ Used(<<c, i>>)
<1>1. /\ buf[c] \in MultiDestBuffers /\ ~buf[c].isfull
      /\ buf[c].ack_tail <= buf[c].ack_head
      /\ buf[c].ack_tail \in BufSlots /\ buf[c].ack_head \in BufSlots
  BY DEF TypeOK, UnwrappedRings, MultiDestBuffers
<1>2. Window(buf[c]) = buf[c].ack_tail .. buf[c].ack_head - 1
  BY <1>1, UnwrappedWindow
<1>3. Window(buf[c]) \subseteq Scanned(buf[c])
  BY <1>1, <1>2 DEF Scanned, BufSlots
<1>4. Scanned(buf[c]) \subseteq Window(buf[c]) \cup {buf[c].ack_tail}
  BY <1>1, <1>2 DEF Scanned, BufSlots
<1>5. ASSUME NEW i \in Window(buf[c]) PROVE i \in BufSlots /\ Used(<<c, i>>)
  BY <1>1, <1>2 DEF Used, UsedIn, BufSlots
<1> QED BY <1>2, <1>3, <1>4, <1>5

(* No reply is noted with a request it does not answer: as its owner is    *)
(* still in the window, the scan ends at a slot with the reply's id.       *)
LEMMA StepAttributed ==
  ASSUME TypeOK, WalkInSlot, UnwrappedRings, NoWrap, UniqueIds, RepliesOwned,
         AllAttributed, [Next]_vars
  PROVE  AllAttributed'
<1>1. event \in [Events -> EventRecs]
  BY DEF TypeOK
<1>2. CASE SendRequest
  <2> DEFINE e == <<send_conn_id, buf[send_conn_id].ack_head>>
  <2>1. /\ e \in Events
        /\ \A x \in Events : UsedIn(buf', x) <=> Used(x) \/ x = e
        /\ \A x \in Events \ {e} : event'[x] = event[x]
        /\ event'[e].received_tick = NotReceived
    BY <1>2, SendTakesFreshEvent
  <2> HIDE DEF e
  <2>2. ASSUME NEW x \in Events, UsedIn(buf', x), event'[x].received_tick # NotReceived
        PROVE  event'[x].recv_id = event'[x].send_id
    <3>1. x # e /\ Used(x) /\ event'[x] = event[x]
      BY <2>1, <2>2
    <3> QED BY <2>2, <3>1 DEF AllAttributed
  <2> QED BY <2>2 DEF AllAttributed, Used
<1>3. CASE ReceiveReply
  <2> DEFINE m == Head(sock[cur])
  <2>1. PICK us \in LoopCost, i \in BufSlots :
          LET e == <<cur, i>>
          IN  /\ cur \in Conns /\ m \in InFlight(cur) /\ e \in Events
              /\ Stamps(cur, m.id, i)
              /\ \A x \in Events \ {e} : event'[x] = event[x]
              /\ event'[e].send_id = event[e].send_id
              /\ event'[e].recv_id = IF Hits(cur, m.id) = {} THEN event[e].recv_id ELSE m.id
              /\ buf' = buf
    BY <1>3, ReceiveFacts
  <2> HIDE DEF m
  <2>2. PICK j \in Window(buf[cur]) : event[<<cur, j>>].send_id = m.id
    BY <2>1 DEF RepliesOwned
  <2>3. j \in Hits(cur, m.id)
    BY <2>1, <2>2, ScannedWindow DEF Hits
  <2>4. i \in Hits(cur, m.id)
    BY <2>1, <2>3 DEF Stamps
  <2>5. event[<<cur, i>>].send_id = m.id
    BY <2>4 DEF Hits
  <2>6. /\ event'[<<cur, i>>].recv_id = m.id /\ event'[<<cur, i>>].send_id = m.id
    BY <2>1, <2>3, <2>5
  <2>7. ASSUME NEW x \in Events, UsedIn(buf', x), event'[x].received_tick # NotReceived
        PROVE  event'[x].recv_id = event'[x].send_id
    <3>1. CASE x = <<cur, i>>
      BY <2>6, <3>1
    <3>2. CASE x # <<cur, i>>
      <4>1. event'[x] = event[x] /\ Used(x)
        BY <2>1, <2>7, <3>2 DEF Used
      <4> QED BY <2>7, <4>1 DEF AllAttributed
    <3> QED BY <3>1, <3>2
  <2> QED BY <2>7 DEF AllAttributed, Used
<1>4. CASE ProcessHead \/ ProcessNext
  <2>1. PICK e \in Events :
          LET id == IF event[e].received_tick = NotReceived THEN event[e].send_id
                    ELSE event[e].recv_id
          IN  event' = [event EXCEPT ![e].recv_id = id]
    BY <1>4, ProcessFacts
  <2>2. ~SendRequest
    BY <1>4 DEF ProcessHead, ProcessNext, SendRequest
  <2>3. \A c \in Conns : buf'[c].ack_head = buf[c].ack_head
    BY <2>2, OnlySendLinks
  <2>4. ASSUME NEW x \in Events, event'[x].received_tick # NotReceived
        PROVE  /\ event[x].received_tick # NotReceived
               /\ event'[x].recv_id = event[x].recv_id
               /\ event'[x].send_id = event[x].send_id
    BY <1>1, <2>1, <2>4 DEF EventRecs
  <2>5. \A x \in Events : UsedIn(buf', x) => Used(x)
    BY <2>3, UsedKept
  <2> QED BY <2>4, <2>5 DEF AllAttributed, Used
<1>5. CASE UNCHANGED <<buf, event>>
  BY <1>5 DEF AllAttributed, Used
<1>6. SlotDone => UNCHANGED <<buf, event>>
  BY DEF SlotDone
<1> QED BY <1>2, <1>3, <1>4, <1>5, <1>6, OtherSteps

(* A request leaves its ring only when no datagram of it is left: the      *)
(* event that retires it is no older and due, so every datagram of the     *)
(* request would be overdue.                                               *)
LEMMA StepRepliesOwned ==
  ASSUME TypeOK, WalkInSlot, WheelWindow, BatchReachesNow, UnwrappedRings, NoWrap,
         UniqueIds, IdsInOrder, LinksToOlder, WalkFromHead, RepliesTimely, RepliesOwned,
         AllAttributed, [Next]_vars
  PROVE  RepliesOwned'
<1>1. /\ \A c \in Conns : /\ buf[c].ack_head \in BufSlots /\ buf[c].ack_tail \in BufSlots
                          /\ Window(buf[c]) = buf[c].ack_tail .. buf[c].ack_head - 1
      /\ \A c \in Conns, i \in BufSlots : <<c, i>> \in Events
  BY ScannedWindow DEF TypeOK, MultiDestBuffers, Events
<1>2. UnwrappedRings' /\ TypeOK'
  BY StepUnwrapped, StepTypeOK
<1>3. \A c \in Conns : Window(buf[c])' = buf'[c].ack_tail .. buf'[c].ack_head - 1
  <2>1. ASSUME NEW c \in Conns
        PROVE  buf'[c] \in MultiDestBuffers /\ ~buf'[c].isfull
               /\ buf'[c].ack_tail <= buf'[c].ack_head
    BY <1>2 DEF UnwrappedRings, TypeOK
  <2> QED BY <2>1, UnwrappedWindow
<1>4. CASE SendRequest
  <2> DEFINE d == send_conn_id
             e == <<d, buf[d].ack_head>>
  <2>1. PICK by \in Nat :
          /\ net' = [net EXCEPT ![d] = Append(@, [id |-> sent_req, by |-> by])]
          /\ e \in Events
          /\ \A x \in Events \ {e} : event'[x] = event[x]
          /\ event'[e].send_id = sent_req
    BY <1>4, SendTakesFreshEvent
  <2>2. /\ d \in Conns /\ sock' = sock
        /\ \A c \in Conns : /\ buf'[c].ack_tail = buf[c].ack_tail
                            /\ buf'[c].ack_head = IF c = d THEN buf[c].ack_head + 1
                                                  ELSE buf[c].ack_head
    BY <1>4, SendMovesHead
  <2> DEFINE x == [id |-> sent_req, by |-> by]
  <2>3. x \in Messages /\ x.id = sent_req
    BY DEF Messages, TypeOK
  <2> HIDE DEF d, x
  <2>4. ASSUME NEW c \in Conns, NEW m \in InFlight(c)'
        PROVE  \E i \in Window(buf[c])' : event'[<<c, i>>].send_id = m.id
    <3>1. m \in InFlight(c) \/ (c = d /\ m = x)
      <4>1. net' = [net EXCEPT ![d] = Append(@, x)]
        BY <2>1 DEF x
      <4>2. InFlight(c)' \subseteq InFlight(c) \cup (IF c = d THEN {x} ELSE {})
        BY <2>2, <2>3, <4>1, SendAddsReply
      <4> QED BY <4>2
    <3>2. CASE m \in InFlight(c)
      <4>1. PICK i \in Window(buf[c]) : event[<<c, i>>].send_id = m.id
        BY <3>2 DEF RepliesOwned
      <4>2. i \in Window(buf[c])'
        BY <1>1, <1>3, <2>2 DEF BufSlots
      <4>3. i # buf[c].ack_head /\ <<c, i>> \in Events
        BY <1>1 DEF BufSlots
      <4>4. event'[<<c, i>>] = event[<<c, i>>]
        BY <2>1, <4>3
      <4> QED BY <4>1, <4>2, <4>4
    <3>3. CASE c = d /\ m = x
      <4>1. buf[c].ack_head \in Window(buf[c])'
        <5>1. /\ buf[c].ack_tail <= buf[c].ack_head
              /\ buf[c].ack_tail \in BufSlots /\ buf[c].ack_head \in BufSlots
          BY <1>1 DEF UnwrappedRings
        <5> QED BY <1>3, <2>2, <3>3, <5>1 DEF BufSlots
      <4> QED BY <2>1, <2>3, <3>3, <4>1
    <3> QED BY <3>1, <3>2, <3>3
  <2> QED BY <2>4 DEF RepliesOwned
<1>5. CASE ProcessHead \/ ProcessNext
  <2> DEFINE h == DueHead(wheel)
  <2>1. PICK e \in Events :
          LET c == DueHead(wheel)[1]
              id == IF event[e].received_tick = NotReceived THEN event[e].send_id
                    ELSE event[e].recv_id
          IN  /\ h \in Events /\ id \in Nat
              /\ \/ cursor = NULL /\ e = h
                 \/ cursor \in Events /\ e = event[cursor].next_event
              /\ \/ buf' = buf
                 \/ buf' = [buf EXCEPT ![c] = Reclaim(@, id, AckId(c))]
              /\ cursor' = e /\ pc = "wheel" /\ pending > 0
              /\ wheel' = wheel /\ pending' = pending
    BY <1>5, ProcessFacts
  <2> DEFINE id == IF event[e].received_tick = NotReceived THEN event[e].send_id
                   ELSE event[e].recv_id
  <2>2. ~SendRequest
    BY <1>5 DEF ProcessHead, ProcessNext, SendRequest
  <2>3. /\ \A c \in Conns : buf'[c].ack_head = buf[c].ack_head
        /\ \A x \in Events : event'[x].send_id = event[x].send_id
    BY <2>2, OnlySendLinks
  <2>4. Used(e) /\ event[e].send_id <= event[h].send_id
    <3>1. WalkFromHead'
      BY StepWalk
    <3>2. e # NULL /\ DueHead(wheel)' = h
      BY <2>1, NullAssumption DEF DueHead
    <3>3. UsedIn(buf', e) /\ event'[e].send_id <= event'[h].send_id
      BY <2>1, <3>1, <3>2 DEF WalkFromHead, Used
    <3> QED BY <2>1, <2>3, <3>3, UsedKept
  <2>5. id = event[e].send_id
    BY <2>4 DEF AllAttributed
  <2>6. /\ wheel.processed_index \in WheelSlots
        /\ h = wheel.event_head[wheel.processed_index]
        /\ DueTick(wheel) = wheel.tick[wheel.processed_index]
        /\ h # NULL
    BY <2>1, NullAssumption DEF TypeOK, Wheels, DueHead, DueTick
  <2>7. DueTick(wheel) < wheel.current_tick
    <3>1. DueTick(wheel) \in Nat /\ pending \in Nat /\ wheel.current_tick \in Nat
      BY DEF TypeOK, Wheels, DueTick
    <3> QED BY <2>1, <3>1 DEF BatchReachesNow
  <2> HIDE DEF h, id
  <2>8. ASSUME NEW c \in Conns
        PROVE  \/ buf'[c].ack_tail = buf[c].ack_tail
               \/ /\ AckId(c) <= id
                  /\ buf'[c].ack_tail = buf[c].ack_tail + 1
    <3>1. id \in Nat /\ LET d == DueHead(wheel)[1]
                        IN  buf' = buf \/ buf' = [buf EXCEPT ![d] = Reclaim(@, id, AckId(d))]
      BY <2>1 DEF id
    <3>2. DueHead(wheel) \in Events
      BY <2>1 DEF h
    <3> QED BY <3>1, <3>2, ProcessMovesTail
  <2>9. ASSUME NEW c \in Conns, NEW m \in InFlight(c)'
        PROVE  \E i \in Window(buf[c])' : event'[<<c, i>>].send_id = m.id
    <3>1. m \in InFlight(c)
      BY <2>2, OnlySendFlies
    <3>2. m.by \in Nat /\ m.id \in Nat
      BY <3>1, InFlightType DEF Messages
    <3>3. PICK i \in Window(buf[c]) : event[<<c, i>>].send_id = m.id
      BY <3>1 DEF RepliesOwned
    <3>4. ~(m.id <= id)
      <4>1. SUFFICES ASSUME m.id <= id PROVE FALSE
        OBVIOUS
      <4>2. event[e].send_id \in Nat /\ event[h].send_id \in Nat
        BY <2>1 DEF TypeOK, EventRecs
      <4>3. m.id <= event[h].send_id
        BY <2>4, <2>5, <3>2, <4>1, <4>2
      <4>4. m.by <= DueTick(wheel) /\ wheel.current_tick <= m.by
        BY <2>6, <3>1, <4>3 DEF RepliesTimely
      <4>5. DueTick(wheel) \in Nat /\ wheel.current_tick \in Nat
        BY DEF TypeOK, Wheels, DueTick
      <4> QED BY <2>7, <3>2, <4>4, <4>5
    <3>5. i = buf[c].ack_tail => AckId(c) = m.id
      BY <3>3 DEF AckId
    <3>6. i \in Window(buf[c])'
      BY <1>1, <1>3, <2>3, <2>8, <3>4, <3>5 DEF BufSlots
    <3>7. <<c, i>> \in Events
      BY <1>1 DEF BufSlots
    <3> QED BY <2>3, <3>3, <3>6, <3>7
  <2> QED BY <2>9 DEF RepliesOwned
<1>6. CASE ~SendRequest /\ buf' = buf
  <2>1. \A x \in Events : event'[x].send_id = event[x].send_id
    BY <1>6, OnlySendLinks
  <2>2. ASSUME NEW c \in Conns, NEW m \in InFlight(c)'
        PROVE  \E i \in Window(buf[c])' : event'[<<c, i>>].send_id = m.id
    <3>1. m \in InFlight(c)
      BY <1>6, OnlySendFlies
    <3>2. PICK i \in Window(buf[c]) : event[<<c, i>>].send_id = m.id
      BY <3>1 DEF RepliesOwned
    <3>3. <<c, i>> \in Events /\ i \in Window(buf[c])'
      BY <1>1, <1>6 DEF BufSlots
    <3> QED BY <2>1, <3>2, <3>3
  <2> QED BY <2>2 DEF RepliesOwned
<1>7. ReceiveReply \/ SlotDone => buf' = buf
  BY DEF ReceiveReply, SlotDone
<1> QED BY <1>4, <1>5, <1>6, <1>7, OtherSteps

-----------------------------------------------------------------------------
(* The inductive invariant of the requests of a run before a ring wraps.   *)
SentInv == WheelInv /\ UnwrappedRings /\ IdsInOrder /\ LinksToOlder

ReplyInv ==
  /\ SentInv /\ LagBounded /\ WalkFromHead
  /\ RepliesOwned /\ RepliesTimely /\ AllAttributed

(* At first every ring is empty.                                           *)
LEMMA InitUnwrapped == Init => UnwrappedRings
<1> SUFFICES ASSUME Init PROVE UnwrappedRings
  OBVIOUS
<1>1. sent_req = 0 /\ send_conn_id = 0 /\ \A c \in Conns : buf[c] = InitBuf
  BY DEF Init
<1>2. ~InitBuf.isfull /\ InitBuf.ack_head = 0 /\ InitBuf.ack_tail = 0
  BY DEF InitBuf
<1>3. TakesTurns(0)
  BY <1>1, <1>2 DEF TakesTurns, Conns
<1> QED BY <1>1, <1>2, <1>3 DEF UnwrappedRings

(* At first there are no requests.                                         *)
LEMMA InitSentInv == Init => SentInv
<1> SUFFICES ASSUME Init PROVE SentInv
  OBVIOUS
<1>1. WheelInv /\ UnwrappedRings
  BY InitTypeOK, InitWheelWindow, InitUnwrapped DEF WheelInv
<1>2. \A c \in Conns : buf[c].ack_head = 0
  BY DEF Init, InitBuf
<1>3. IdsInOrder
  BY <1>2 DEF IdsInOrder
<1>4. LinksToOlder
  BY DEF Init, InitTimerWheel, LinksToOlder
<1> QED BY <1>1, <1>3, <1>4 DEF SentInv

(* Before a ring wraps the ids are in the order of the slots and every     *)
(* list leads from newer to older requests.                                *)
LEMMA SentInvariance == NoWrap /\ UniqueIds => (Spec => []SentInv)
<1> SUFFICES ASSUME NoWrap, UniqueIds PROVE Spec => []SentInv
  OBVIOUS
<1>1. SentInv /\ [Next]_vars => SentInv'
  BY StepTypeOK, StepWheelWindow, StepUnwrapped, StepIdsInOrder, StepLinks
     DEF SentInv, WheelInv
<1> QED BY <1>1, InitSentInv, PTL DEF Spec

(* When replies are read before their timers are due, each one still has   *)
(* its request in the window.                                              *)
LEMMA ReplyInvariance ==
  NoWrap /\ UniqueIds /\ PromptReplies /\ PromptWheel /\ TicksFit => (Spec => []ReplyInv)
<1> SUFFICES ASSUME NoWrap, UniqueIds, PromptReplies, PromptWheel, TicksFit
             PROVE  Spec => []ReplyInv
  OBVIOUS
<1>1. Init => ReplyInv
  <2> SUFFICES ASSUME Init PROVE ReplyInv
    OBVIOUS
  <2>1. LagBounded
    BY DEF Init, InitTimerWheel, LagBounded, DueTick, WheelSlots
  <2>2. WalkFromHead
    BY DEF Init, WalkFromHead
  <2>3. \A c \in Conns : InFlight(c) = {}
    BY DEF Init, InFlight
  <2>4. RepliesOwned /\ RepliesTimely
    BY <2>3 DEF RepliesOwned, RepliesTimely
  <2>5. \A e \in Events : event[e].recv_id = event[e].send_id
    BY DEF Init
  <2> QED BY <2>1, <2>2, <2>4, <2>5, InitSentInv DEF ReplyInv, AllAttributed
<1>2. ReplyInv /\ [Next]_vars => ReplyInv'
  <2> SUFFICES ASSUME ReplyInv, [Next]_vars PROVE ReplyInv'
    OBVIOUS
  <2> USE DEF ReplyInv, SentInv, WheelInv
  <2>1. SentInv'
    BY StepTypeOK, StepWheelWindow, StepUnwrapped, StepIdsInOrder, StepLinks
  <2>2. LagBounded' /\ WalkFromHead'
    BY StepLagBounded, StepWalk
  <2>3. RepliesTimely'
    BY StepRepliesTimely
  <2>4. RepliesOwned'
    BY StepRepliesOwned
  <2>5. AllAttributed'
    BY StepAttributed
  <2> QED BY <2>1, <2>2, <2>3, <2>4, <2>5
<1> QED BY <1>1, <1>2, PTL DEF Spec

(* A request that counts as answered was given the reply to its own id,    *)
(* for every loss, duplication and reordering, as long as no ring wraps    *)
(* and replies are read before the timer is due (AnswersAttributed);       *)
(* openloop_wrap_violation shows a wrapped ring.                           *)
THEOREM AnswersAreAttributed ==
  NoWrap /\ UniqueIds /\ PromptReplies /\ PromptWheel /\ TicksFit
    => (Spec => []AnswersAttributed)
<1>1. ReplyInv => AnswersAttributed
  <2> SUFFICES ASSUME ReplyInv, NEW c \in Conns, NEW i \in Window(buf[c]),
                      event[<<c, i>>].received_tick # NotReceived
               PROVE  event[<<c, i>>].recv_id = event[<<c, i>>].send_id
    BY DEF AnswersAttributed
  <2>1. i \in BufSlots /\ Used(<<c, i>>)
    BY ScannedWindow DEF ReplyInv, SentInv, WheelInv
  <2>2. <<c, i>> \in Events
    BY <2>1 DEF Events
  <2> QED BY <2>1, <2>2 DEF ReplyInv, AllAttributed
<1> QED BY <1>1, ReplyInvariance, PTL

(* The reply to an outstanding request is recorded with that request: the  *)
(* scan of a ring that has not wrapped meets one slot with its id          *)
(* (ReplyFindsOwner).                                                      *)
THEOREM RepliesFindOwners == NoWrap /\ UniqueIds => (Spec => ReplyFindsOwner)
<1> SUFFICES ASSUME NoWrap, UniqueIds PROVE Spec => ReplyFindsOwner
  OBVIOUS
<1> DEFINE Recorded ==
             \A i \in BufSlots :
               /\ completed_req' # completed_req /\ i \in Window(buf[cur])
               /\ event[<<cur, i>>].send_id = Head(sock[cur]).id
               => /\ event'[<<cur, i>>].recv_id = Head(sock[cur]).id
                  /\ event'[<<cur, i>>].received_tick # NotReceived
<1>1. SentInv /\ [Next]_vars => [Recorded]_vars
  <2> SUFFICES ASSUME SentInv, [Next]_vars PROVE Recorded
    OBVIOUS
  <2>1. TypeOK /\ WalkInSlot /\ UnwrappedRings /\ IdsInOrder
    BY DEF SentInv, WheelInv
  <2>2. CASE ReceiveReply
    <3> DEFINE m == Head(sock[cur])
    <3>1. PICK i \in BufSlots :
            LET e == <<cur, i>>
            IN  /\ cur \in Conns /\ Stamps(cur, m.id, i)
                /\ event'[e].recv_id = IF Hits(cur, m.id) = {} THEN event[e].recv_id ELSE m.id
                /\ event'[e].received_tick # NotReceived
      BY <2>1, <2>2, ReceiveFacts
    <3> HIDE DEF m
    <3>2. ASSUME NEW j \in BufSlots, j \in Window(buf[cur]), event[<<cur, j>>].send_id = m.id
          PROVE  j = i /\ Hits(cur, m.id) # {}
      <4>1. /\ Window(buf[cur]) = buf[cur].ack_tail .. buf[cur].ack_head - 1
            /\ Window(buf[cur]) \subseteq Scanned(buf[cur])
            /\ Scanned(buf[cur]) \subseteq Window(buf[cur]) \cup {buf[cur].ack_tail}
            /\ \A k \in Window(buf[cur]) : k \in BufSlots /\ Used(<<cur, k>>)
        BY <2>1, <3>1, ScannedWindow
      <4>2. j \in Hits(cur, m.id)
        BY <3>2, <4>1 DEF Hits
      <4>3. i \in Hits(cur, m.id)
        BY <3>1, <4>2 DEF Stamps
      <4>4. i \in Scanned(buf[cur]) /\ event[<<cur, i>>].send_id = m.id
        BY <4>3 DEF Hits
      <4>5. i \in Window(buf[cur])
        <5>1. buf[cur].ack_tail \in Nat /\ buf[cur].ack_head \in Nat
          BY <2>1, <3>1 DEF TypeOK, MultiDestBuffers, BufSlots
        <5> QED BY <3>2, <4>1, <4>4, <5>1
      <4>6. Used(<<cur, i>>) /\ Used(<<cur, j>>)
        BY <3>2, <4>1, <4>5
      <4>7. event[<<cur, i>>].send_id \in Nat
        BY <2>1, <3>1 DEF TypeOK, EventRecs, Events
      <4>8. ~(i < j) /\ ~(j < i)
        BY <2>1, <3>1, <3>2, <4>4, <4>6, <4>7, IdsDiffer
      <4> QED BY <4>2, <4>8 DEF BufSlots
    <3> QED BY <3>1, <3>2 DEF m
  <2>3. CASE ~ReceiveReply
    <3>1. completed_req' = completed_req
      BY <2>1, <2>3, OtherSteps, SendMovesHead DEF ProcessHead, ProcessNext, SlotDone, counters
    <3> QED BY <3>1
  <2> QED BY <2>2, <2>3
<1> QED BY <1>1, SentInvariance, PTL DEF Spec, ReplyFindsOwner

-----------------------------------------------------------------------------
(* The lists of the wheel.  Follow is a recursive function: what it does   *)
(* is proved by induction, in the form of a set that contains 0 and the    *)
(* successor of each of its numbers.                                       *)
LEMMA SetInduction ==
  ASSUME NEW S, 0 \in S, \A n \in Nat : n \in S => n + 1 \in S
  PROVE  Nat \subseteq S
<1> DEFINE R == {ss \in Nat \X Nat : ss[1] < ss[2]}
           T == Nat \ S
<1>1. IsWellFoundedOn(R, Nat)
  BY NatLessThanWellFounded DEF OpToRel
<1>2. SUFFICES ASSUME T # {} PROVE FALSE
  OBVIOUS
<1>3. \E x \in T : \A y \in T : ~(<<y, x>> \in R)
  <2> HIDE DEF R
  <2>1. T \subseteq Nat
    OBVIOUS
  <2> HIDE DEF T
  <2> QED BY <1>1, <1>2, <2>1, WFMin
<1>4. PICK x \in T : \A y \in T : ~(<<y, x>> \in R)
  BY <1>3
<1>5. x # 0 /\ x \in Nat /\ x - 1 \in Nat /\ x - 1 < x /\ (x - 1) + 1 = x
  BY <1>4
<1>6. <<x - 1, x>> \in R
  BY <1>5
<1>7. x - 1 \in S
  BY <1>4, <1>5, <1>6
<1>8. x \in S
  BY <1>5, <1>7
<1> QED BY <1>4, <1>8

(* The event after x in its list.                                          *)
NextOf(x) == IF x = NULL THEN NULL ELSE event[x].next_event

(* There is a function that follows the links, and Follow is its value.    *)
LEMMA FollowFcn ==
  ASSUME NEW e, NEW n \in Nat
  PROVE  \E f : /\ f = [k \in 0 .. n |-> IF k = 0 THEN e ELSE NextOf(f[k - 1])]
                /\ Follow(e, n) = f[n]
<1> DEFINE Follows(f, m) == f = [k \in 0 .. m |-> IF k = 0 THEN e ELSE NextOf(f[k - 1])]
           S == {m \in Nat : \E f : Follows(f, m)}
<1>1. 0 \in S
  <2>1. Follows([k \in 0 .. 0 |-> e], 0)
    OBVIOUS
  <2> QED BY <2>1
<1>2. ASSUME NEW m \in Nat, m \in S PROVE m + 1 \in S
  <2>1. PICK f : Follows(f, m)
    BY <1>2
  <2> DEFINE g == [k \in 0 .. m + 1 |-> IF k = m + 1 THEN NextOf(f[m]) ELSE f[k]]
  <2>2. ASSUME NEW k \in 0 .. m + 1
        PROVE  g[k] = IF k = 0 THEN e ELSE NextOf(g[k - 1])
    <3> HIDE DEF NextOf
    <3>1. CASE k = m + 1
      <4>1. k # 0 /\ k - 1 = m /\ m \in 0 .. m + 1 /\ m # m + 1
        BY <3>1
      <4>2. g[k] = NextOf(f[m]) /\ g[k - 1] = f[m]
        BY <3>1, <4>1
      <4> QED BY <4>1, <4>2
    <3>2. CASE k # m + 1 /\ k # 0
      <4>1. k \in 0 .. m /\ k - 1 \in 0 .. m + 1 /\ k - 1 # m + 1
        BY <3>2
      <4>2. g[k] = f[k] /\ g[k - 1] = f[k - 1]
        BY <3>2, <4>1
      <4>3. f[k] = NextOf(f[k - 1])
        BY <2>1, <3>2, <4>1
      <4> QED BY <3>2, <4>2, <4>3
    <3>3. CASE k # m + 1 /\ k = 0
      <4>1. g[k] = f[k] /\ k \in 0 .. m
        BY <3>3
      <4> QED BY <2>1, <3>3, <4>1
    <3> QED BY <3>1, <3>2, <3>3
  <2>3. Follows(g, m + 1)
    <3>1. g = [k \in 0 .. m + 1 |-> g[k]]
      OBVIOUS
    <3> HIDE DEF g
    <3> QED BY <2>2, <3>1
  <2> HIDE DEF g, Follows
  <2> QED BY <2>3
<1>3. n \in S
  <2> HIDE DEF S
  <2> QED BY <1>1, <1>2, SetInduction
<1>4. \E f : Follows(f, n)
  BY <1>3
<1> DEFINE h == CHOOSE f : Follows(f, n)
<1>5. Follows(h, n)
  BY <1>4
<1>6. Follow(e, n) = h[n]
  BY DEF Follow, NextOf
<1> HIDE DEF h
<1> QED BY <1>5, <1>6

(* Each link goes to an older request, so a list is no longer than the     *)
(* number of requests before its head.                                     *)
LEMMA FollowIsOlder ==
  ASSUME SentInv, NEW e \in Events \cup {NULL}, NEW n \in Nat, Follow(e, n) # NULL
  PROVE  e # NULL /\ event[e].send_id >= n
<1>1. PICK f : /\ f = [k \in 0 .. n |-> IF k = 0 THEN e ELSE NextOf(f[k - 1])]
               /\ Follow(e, n) = f[n]
  BY FollowFcn
<1> DEFINE Older(k) == f[k] # NULL => /\ e # NULL /\ f[k] \in Events
                                      /\ event[f[k]].send_id + k <= event[e].send_id
           S == {k \in Nat : k <= n => Older(k)}
<1>2. /\ event \in [Events -> EventRecs]
      /\ \A x \in Events : /\ event[x].send_id \in Nat
                           /\ event[x].next_event \in Events \cup {NULL}
  BY DEF SentInv, WheelInv, TypeOK, EventRecs
<1>3. 0 \in S
  <2>1. f[0] = e
    BY <1>1
  <2> QED BY <1>2, <2>1
<1>4. ASSUME NEW k \in Nat, k \in S PROVE k + 1 \in S
  <2>1. SUFFICES ASSUME k + 1 <= n, f[k + 1] # NULL PROVE Older(k + 1)
    OBVIOUS
  <2>2. f[k + 1] = NextOf(f[k])
    <3>1. k + 1 \in 0 .. n /\ k + 1 # 0 /\ (k + 1) - 1 = k
      BY <2>1
    <3> QED BY <1>1, <3>1
  <2>3. f[k] # NULL /\ f[k + 1] = event[f[k]].next_event
    BY <2>1, <2>2 DEF NextOf
  <2>4. e # NULL /\ f[k] \in Events /\ event[f[k]].send_id + k <= event[e].send_id
    BY <1>4, <2>1, <2>3
  <2>5. f[k + 1] \in Events /\ event[f[k + 1]].send_id < event[f[k]].send_id
    BY <1>2, <2>1, <2>3, <2>4 DEF SentInv, LinksToOlder
  <2> QED BY <1>2, <2>4, <2>5
<1>5. n \in S
  <2> HIDE DEF S
  <2> QED BY <1>3, <1>4, SetInduction
<1>6. Older(n)
  BY <1>5
<1> QED BY <1>1, <1>2, <1>6

(* No list of the wheel comes back to an event, so every walk over one     *)
(* ends (ListsEnd).                                                        *)
THEOREM WalksEnd == NoWrap /\ UniqueIds => (Spec => []ListsEnd)
<1> SUFFICES ASSUME NoWrap, UniqueIds PROVE Spec => []ListsEnd
  OBVIOUS
<1>1. ASSUME SentInv, NEW i \in WheelSlots
      PROVE  Follow(wheel.event_head[i], NumEvents) = NULL
  <2> DEFINE e == wheel.event_head[i]
  <2>1. e \in Events \cup {NULL}
    BY <1>1 DEF SentInv, WheelInv, TypeOK, Wheels
  <2>2. NumEvents \in Nat /\ MaxSent < NumEvents
    <3>1. ConnPerThread * ((BufSize - 1) + 1) = (ConnPerThread * (BufSize - 1)) + ConnPerThread
      BY BufSize - 1 \in Nat, TimesSucc
    <3>2. ConnPerThread * (BufSize - 1) \in Nat /\ (BufSize - 1) + 1 = BufSize
      OBVIOUS
    <3> QED BY <3>1, <3>2 DEF NumEvents, NoWrap
  <2>3. SUFFICES ASSUME Follow(e, NumEvents) # NULL PROVE FALSE
    OBVIOUS
  <2>4. e # NULL /\ event[e].send_id >= NumEvents
    BY <1>1, <2>1, <2>2, <2>3, FollowIsOlder
  <2>5. e \in Events /\ Used(e)
    BY <1>1, <2>1, <2>4 DEF SentInv, LinksToOlder
  <2>6. event[e].send_id \in Nat /\ event[e].send_id < sent_req
    BY <1>1, <2>5, UsedIsOlder DEF SentInv, WheelInv
  <2>7. sent_req <= MaxSent /\ sent_req \in Nat
    BY <1>1 DEF SentInv, UnwrappedRings, WheelInv, TypeOK
  <2> QED BY <2>2, <2>4, <2>6, <2>7
<1>2. SentInv => ListsEnd
  BY <1>1 DEF ListsEnd
<1> QED BY <1>2, SentInvariance, PTL

-----------------------------------------------------------------------------
(* When sending takes time no two timers are set for the same tick.        *)
SendsTakeTime == 0 \notin SendCost

OneTimerASlot == \A e \in Events : event[e].next_event = NULL

(* Timers are due in the order in which their requests were sent.          *)
TimersInOrder ==
  \A s \in WheelSlots :
     wheel.event_head[s] # NULL =>
       /\ wheel.tick[s] <= wheel.current_tick + RTO
       /\ \A r \in WheelSlots :
             /\ wheel.event_head[r] # NULL
             /\ event[wheel.event_head[r]].send_id < event[wheel.event_head[s]].send_id
             => wheel.tick[r] < wheel.tick[s]

(* A request that is outstanding has a timer in a slot that has not been   *)
(* processed.                                                              *)
WindowHasTimers ==
  \A c \in Conns : \A i \in Window(buf[c]) :
     \E s \in WheelSlots : /\ wheel.event_head[s] = <<c, i>>
                           /\ cursor # NULL => s # wheel.processed_index

TimerInv == OneTimerASlot /\ TimersInOrder /\ WindowHasTimers

(* The slot that is due has the least of the ticks.                        *)
LEMMA DueIsFirst ==
  ASSUME TypeOK, WheelWindow, NEW s \in WheelSlots
  PROVE  /\ wheel.processed_index \in WheelSlots
         /\ DueHead(wheel) = wheel.event_head[wheel.processed_index]
         /\ DueTick(wheel) = wheel.tick[wheel.processed_index]
         /\ DueTick(wheel) <= wheel.tick[s]
         /\ DueTick(wheel) \in Nat /\ wheel.tick[s] \in Nat
BY DEF TypeOK, Wheels, WheelWindow, OneRevolution, DueHead, DueTick

(* The timer that is due belongs to the oldest request of its connection,  *)
(* unless that request is newer than the timer's.                          *)
LEMMA DueIsOldest ==
  ASSUME ReplyInv, TimerInv, DueHead(wheel) \in Events,
         LET c == DueHead(wheel)[1]
         IN  /\ buf[c].ack_tail < buf[c].ack_head
             /\ AckId(c) <= event[DueHead(wheel)].send_id
  PROVE  DueHead(wheel) = <<DueHead(wheel)[1], buf[DueHead(wheel)[1]].ack_tail>>
<1> DEFINE h == DueHead(wheel)
           c == h[1]
           j == h[2]
           t == buf[c].ack_tail
<1>1. TypeOK /\ WheelWindow /\ UnwrappedRings /\ IdsInOrder /\ LinksToOlder
  BY DEF ReplyInv, SentInv, WheelInv
<1>2. c \in Conns /\ j \in BufSlots /\ h = <<c, j>> /\ h # NULL
  BY NullAssumption DEF Events
<1>3. /\ Window(buf[c]) = t .. buf[c].ack_head - 1
      /\ t \in BufSlots /\ buf[c].ack_head \in BufSlots
  BY <1>1, <1>2, ScannedWindow DEF TypeOK, MultiDestBuffers
<1>4. t \in Window(buf[c]) /\ Used(<<c, t>>) /\ <<c, t>> \in Events
  <2>1. t < buf[c].ack_head
    OBVIOUS
  <2> HIDE DEF h, c, j, t
  <2> QED BY <1>2, <1>3, <2>1 DEF Used, UsedIn, BufSlots, Events
<1>5. Used(<<c, j>>)
  <2>1. wheel.processed_index \in WheelSlots /\ h = wheel.event_head[wheel.processed_index]
    BY <1>1 DEF TypeOK, Wheels, DueHead
  <2> HIDE DEF h, c, j, t
  <2> QED BY <1>1, <1>2, <2>1 DEF LinksToOlder
<1>6. event[<<c, t>>].send_id <= event[<<c, j>>].send_id
  BY <1>2 DEF AckId
<1>7. event[<<c, t>>].send_id \in Nat /\ event[<<c, j>>].send_id \in Nat
  BY <1>1, <1>2, <1>4 DEF TypeOK, EventRecs
<1> HIDE DEF h, c, j, t
<1>8. ~(j < t)
  BY <1>1, <1>2, <1>3, <1>4, <1>5, <1>6, <1>7, IdsDiffer
<1>9. ~(t < j)
  <2>1. SUFFICES ASSUME t < j PROVE FALSE
    OBVIOUS
  <2>2. event[<<c, t>>].send_id < event[<<c, j>>].send_id
    BY <1>1, <1>2, <1>3, <1>4, <1>5, <2>1, IdsDiffer
  <2>3. PICK s \in WheelSlots : wheel.event_head[s] = <<c, t>>
    BY <1>2, <1>4 DEF TimerInv, WindowHasTimers
  <2>4. /\ wheel.processed_index \in WheelSlots
        /\ wheel.event_head[wheel.processed_index] = <<c, j>>
        /\ DueTick(wheel) = wheel.tick[wheel.processed_index]
        /\ DueTick(wheel) <= wheel.tick[s]
        /\ DueTick(wheel) \in Nat /\ wheel.tick[s] \in Nat
    BY <1>1, <1>2, DueIsFirst DEF h
  <2>5. wheel.event_head[s] # NULL
    BY <1>4, <2>3, NullAssumption
  <2>6. wheel.tick[s] < wheel.tick[wheel.processed_index]
    BY <1>2, <2>2, <2>3, <2>4, <2>5 DEF TimerInv, TimersInOrder
  <2> QED BY <2>4, <2>6
<1>10. j = t
  BY <1>2, <1>3, <1>8, <1>9 DEF BufSlots
<1> QED BY <1>2, <1>10 DEF h, c, t

(* The head of a list that is due is processed with its own id.            *)
LEMMA HeadIsReclaimed ==
  ASSUME ReplyInv, TimerInv, ProcessHead
  PROVE  LET h == DueHead(wheel)
             c == h[1]
         IN  /\ h \in Events /\ c \in Conns /\ Used(h) /\ event[h].send_id \in Nat
             /\ buf' = [buf EXCEPT ![c] = Reclaim(@, event[h].send_id, AckId(c))]
             /\ cursor' = h /\ wheel' = wheel
<1> DEFINE h == DueHead(wheel)
           c == h[1]
           id == IF event[h].received_tick = NotReceived THEN event[h].send_id
                 ELSE event[h].recv_id
           unmatched == /\ event[h].received_tick # NotReceived
                        /\ event[h].received_tick <= DueTick(wheel)
                        /\ event[h].recv_id # event[h].send_id
<1>1. TypeOK /\ WheelWindow /\ LinksToOlder /\ AllAttributed
  BY DEF ReplyInv, SentInv, WheelInv
<1>2. h \in Events /\ c \in Conns
  BY <1>1 DEF ProcessHead, TypeOK, Wheels, DueHead, Events
<1>3. Used(h)
  <2>1. wheel.processed_index \in WheelSlots /\ h = wheel.event_head[wheel.processed_index]
    BY <1>1 DEF TypeOK, Wheels, DueHead
  <2> QED BY <1>1, <1>2, <2>1, NullAssumption DEF LinksToOlder
<1>4. event[h].send_id \in Nat
  BY <1>1, <1>2 DEF TypeOK, EventRecs
<1>5. ~unmatched /\ id = event[h].send_id
  BY <1>1, <1>2, <1>3 DEF AllAttributed
<1>6. Process(h, ~unmatched) /\ wheel' = wheel
  BY DEF ProcessHead
<1>7. /\ buf' = IF ~unmatched THEN [buf EXCEPT ![c] = Reclaim(@, id, AckId(c))] ELSE buf
      /\ cursor' = h
  BY <1>6 DEF Process
<1> HIDE DEF h, c, id, unmatched
<1>8. buf' = [buf EXCEPT ![c] = Reclaim(@, event[h].send_id, AckId(c))]
  BY <1>5, <1>7
<1> QED BY <1>2, <1>3, <1>4, <1>6, <1>7, <1>8 DEF h, c

(* A request that is sent puts its timer into an empty slot, later than    *)
(* every other timer.                                                      *)
LEMMA SendSetsTimer ==
  ASSUME ReplyInv, TimerInv, NoWrap, UniqueIds, PromptWheel, TicksFit, SendsTakeTime, SendRequest
  PROVE  \E slot \in WheelSlots :
           LET e == <<send_conn_id, buf[send_conn_id].ack_head>>
           IN  /\ e \in Events /\ wheel.event_head[slot] = NULL
               /\ event'[e].send_id = sent_req /\ event'[e].next_event = NULL
               /\ \A d \in Events : d # e => event'[d] = event[d]
               /\ wheel'.event_head = [wheel.event_head EXCEPT ![slot] = e]
               /\ wheel'.tick = wheel.tick
               /\ wheel.tick[slot] = wheel'.current_tick + RTO
               /\ wheel.current_tick \in Nat /\ wheel'.current_tick \in Nat
               /\ wheel.current_tick < wheel'.current_tick
<1> DEFINE e == <<send_conn_id, buf[send_conn_id].ack_head>>
<1>1. TypeOK /\ WheelWindow /\ UnwrappedRings
  BY DEF ReplyInv, SentInv, WheelInv
<1>2. e \in Events /\ event \in [Events -> EventRecs] /\ wheel.current_tick \in Nat
  BY <1>1 DEF TypeOK, MultiDestBuffers, Events, Wheels
<1>3. RequestIds(sent_req) = {sent_req}
  BY <1>1, SendMovesHead, RequestIdIsCount
<1>4. PICK us \in SendCost, slot \in WheelSlots :
        /\ CanAdvance(us)
        /\ slot = ((wheel.current_tick + us + RTO) % TickWord) % WheelSize
        /\ wheel'.tick = wheel.tick
        /\ wheel'.current_tick = wheel.current_tick + us
        /\ wheel'.event_head = [wheel.event_head EXCEPT ![slot] = e]
        /\ event' = [event EXCEPT
             ![e] = [send_id |-> sent_req, recv_id |-> event[e].recv_id,
                     received_tick |-> NotReceived,
                     next_event |-> IF wheel.event_head[slot] = NULL
                                    THEN event[e].next_event
                                    ELSE wheel.event_head[slot]]]
  BY <1>1, <1>3, SendFacts
<1>5. us \in Nat /\ us # 0
  BY DEF SendsTakeTime
<1>6. wheel.tick[slot] = wheel.current_tick + us + RTO
  BY <1>1, <1>4, <1>5, SlotOfTimer
<1>7. wheel.event_head[slot] = NULL
  <2>1. wheel.event_head[slot] # NULL => wheel.tick[slot] <= wheel.current_tick + RTO
    BY DEF TimerInv, TimersInOrder
  <2> QED BY <1>2, <1>5, <1>6, <2>1
<1>8. event[e].next_event = NULL
  BY <1>2 DEF TimerInv, OneTimerASlot
<1> HIDE DEF e
<1>9. event'[e].send_id = sent_req /\ event'[e].next_event = NULL
  BY <1>2, <1>4, <1>7, <1>8
<1>10. \A d \in Events : d # e => event'[d] = event[d]
  BY <1>2, <1>4
<1>11. /\ wheel.tick[slot] = wheel'.current_tick + RTO /\ wheel'.current_tick \in Nat
       /\ wheel.current_tick < wheel'.current_tick
  BY <1>2, <1>4, <1>5, <1>6
<1> QED BY <1>2, <1>4, <1>7, <1>9, <1>10, <1>11 DEF e

(* Sending keeps every outstanding request's timer and the order of all.   *)
LEMMA SendKeepsTimers ==
  ASSUME ReplyInv, TimerInv, NoWrap, UniqueIds, PromptWheel, TicksFit, SendsTakeTime, SendRequest
  PROVE  TimerInv'
<1> DEFINE d == send_conn_id
           e == <<d, buf[d].ack_head>>
<1>1. TypeOK /\ WalkInSlot /\ WheelWindow /\ UnwrappedRings /\ LinksToOlder /\ IdsInOrder
  BY DEF ReplyInv, SentInv, WheelInv
<1>2. PICK slot \in WheelSlots :
        /\ e \in Events /\ wheel.event_head[slot] = NULL
        /\ event'[e].send_id = sent_req /\ event'[e].next_event = NULL
        /\ \A x \in Events : x # e => event'[x] = event[x]
        /\ wheel'.event_head = [wheel.event_head EXCEPT ![slot] = e]
        /\ wheel'.tick = wheel.tick
        /\ wheel.tick[slot] = wheel'.current_tick + RTO
        /\ wheel.current_tick \in Nat /\ wheel'.current_tick \in Nat
        /\ wheel.current_tick < wheel'.current_tick
  BY SendSetsTimer
<1>3. /\ wheel.event_head \in [WheelSlots -> Events \cup {NULL}]
      /\ wheel.tick \in [WheelSlots -> Nat] /\ sent_req \in Nat
      /\ buf \in [Conns -> MultiDestBuffers] /\ d \in Conns
  BY <1>1 DEF TypeOK, Wheels
<1>4. ~Used(e)
  BY <1>3 DEF Used, UsedIn, MultiDestBuffers, BufSlots
<1>5. cursor = NULL /\ cursor' = cursor
  BY <1>1 DEF SendRequest, WalkInSlot, control
<1>6. \A c \in Conns : /\ ~buf'[c].isfull /\ buf'[c].ack_tail = buf[c].ack_tail
                       /\ buf'[c].ack_head = IF c = d THEN buf[c].ack_head + 1
                                             ELSE buf[c].ack_head
  BY <1>1, SendMovesHead
<1> HIDE DEF d, e
<1>7. \A s \in WheelSlots : wheel'.event_head[s] = IF s = slot THEN e ELSE wheel.event_head[s]
  BY <1>2, <1>3
<1>8. ASSUME NEW s \in WheelSlots, wheel.event_head[s] # NULL
      PROVE  /\ s # slot /\ wheel.event_head[s] # e /\ wheel.event_head[s] \in Events
             /\ event'[wheel.event_head[s]] = event[wheel.event_head[s]]
             /\ event[wheel.event_head[s]].send_id < sent_req
             /\ event[wheel.event_head[s]].send_id \in Nat
             /\ wheel.tick[s] < wheel.tick[slot]
             /\ wheel.tick[s] <= wheel'.current_tick + RTO
  <2>1. Used(wheel.event_head[s]) /\ wheel.event_head[s] \in Events
    BY <1>1, <1>3, <1>8 DEF LinksToOlder
  <2>2. s # slot /\ wheel.event_head[s] # e
    BY <1>2, <1>4, <1>8, <2>1
  <2>3. event'[wheel.event_head[s]] = event[wheel.event_head[s]]
    BY <1>2, <2>1, <2>2
  <2>4. /\ event[wheel.event_head[s]].send_id < sent_req
        /\ event[wheel.event_head[s]].send_id \in Nat
    BY <1>1, <2>1, UsedIsOlder DEF TypeOK, EventRecs
  <2>5. wheel.tick[s] <= wheel.current_tick + RTO
    BY <1>8 DEF TimerInv, TimersInOrder
  <2>6. wheel.tick[s] \in Nat
    BY <1>3
  <2> QED BY <1>2, <2>1, <2>2, <2>3, <2>4, <2>5, <2>6
<1>9. OneTimerASlot'
  BY <1>2 DEF TimerInv, OneTimerASlot
<1>10. TimersInOrder'
  <2>1. ASSUME NEW s \in WheelSlots, wheel'.event_head[s] # NULL
        PROVE  wheel'.tick[s] <= wheel'.current_tick + RTO
    BY <1>2, <1>3, <1>7, <1>8, <2>1
  <2>2. ASSUME NEW s \in WheelSlots, NEW r \in WheelSlots,
               wheel'.event_head[s] # NULL, wheel'.event_head[r] # NULL,
               event'[wheel'.event_head[r]].send_id < event'[wheel'.event_head[s]].send_id
        PROVE  wheel'.tick[r] < wheel'.tick[s]
    <3>1. r # slot
      <4>1. CASE s = slot
        BY <1>2, <1>3, <1>7, <2>2, <4>1
      <4>2. CASE s # slot
        <5>1. event'[wheel'.event_head[s]].send_id < sent_req
          BY <1>7, <1>8, <2>2, <4>2
        <5>2. event'[wheel'.event_head[s]].send_id \in Nat
          BY <1>7, <1>8, <2>2, <4>2
        <5>3. r = slot => event'[wheel'.event_head[r]].send_id = sent_req
          BY <1>2, <1>7
        <5> QED BY <1>3, <2>2, <5>1, <5>2, <5>3
      <4> QED BY <4>1, <4>2
    <3>2. wheel.event_head[r] # NULL /\ wheel'.event_head[r] = wheel.event_head[r]
      BY <1>7, <2>2, <3>1
    <3>3. CASE s = slot
      BY <1>2, <1>8, <3>2, <3>3
    <3>4. CASE s # slot
      <4>1. wheel.event_head[s] # NULL /\ wheel'.event_head[s] = wheel.event_head[s]
        BY <1>7, <2>2, <3>4
      <4>2. event[wheel.event_head[r]].send_id < event[wheel.event_head[s]].send_id
        BY <1>8, <2>2, <3>2, <4>1
      <4>3. wheel.tick[r] < wheel.tick[s]
        BY <3>2, <4>1, <4>2 DEF TimerInv, TimersInOrder
      <4> QED BY <1>2, <4>3
    <3> QED BY <3>3, <3>4
  <2> QED BY <2>1, <2>2 DEF TimersInOrder
<1>11. WindowHasTimers'
  <2>1. SUFFICES ASSUME NEW c \in Conns, NEW i \in Window(buf'[c])
                 PROVE  \E s \in WheelSlots : wheel'.event_head[s] = <<c, i>>
    BY <1>5 DEF WindowHasTimers
  <2>2. /\ buf[c].ack_tail \in Nat /\ buf[c].ack_head \in Nat /\ buf'[c] \in MultiDestBuffers
        /\ buf[c].ack_tail <= buf[c].ack_head
    <3>1. [Next]_vars
      BY DEF Next, Thread
    <3>2. buf' \in [Conns -> MultiDestBuffers]
      <4>1. TypeOK'
        BY <1>1, <3>1, StepTypeOK
      <4> QED BY <4>1 DEF TypeOK
    <3>3. buf[c] \in MultiDestBuffers /\ buf'[c] \in MultiDestBuffers
      BY <1>3, <3>2
    <3>4. buf[c].ack_tail \in Nat /\ buf[c].ack_head \in Nat
      BY <3>3 DEF MultiDestBuffers, BufSlots
    <3> QED BY <1>1, <3>3, <3>4 DEF UnwrappedRings
  <2>3. i \in buf'[c].ack_tail .. buf'[c].ack_head - 1
    <3>1. ~buf'[c].isfull /\ buf'[c].ack_tail <= buf'[c].ack_head
      BY <1>6, <2>2
    <3> QED BY <2>1, <2>2, <3>1, UnwrappedWindow
  <2>4. CASE c = d /\ i = buf[c].ack_head
    BY <1>7, <2>4 DEF e
  <2>5. CASE ~(c = d /\ i = buf[c].ack_head)
    <3>1. i \in buf[c].ack_tail .. buf[c].ack_head - 1
      BY <1>6, <2>2, <2>3, <2>5
    <3>2. i \in Window(buf[c])
      BY <1>1, <3>1, ScannedWindow
    <3>3. PICK s \in WheelSlots : wheel.event_head[s] = <<c, i>>
      BY <3>2 DEF TimerInv, WindowHasTimers
    <3>4. Used(<<c, i>>)
      BY <1>1, <3>2, ScannedWindow
    <3>5. <<c, i>> \in Events
      BY <1>1, <3>2, ScannedWindow DEF Events
    <3>6. wheel.event_head[s] # NULL
      BY <3>3, <3>5, NullAssumption
    <3> QED BY <1>7, <1>8, <3>3, <3>6
  <2> QED BY <2>4, <2>5
<1> QED BY <1>9, <1>10, <1>11 DEF TimerInv

(* Processing the head of a list retires nothing but that very request,    *)
(* and does retire it if it is still outstanding.                          *)
LEMMA HeadRetiresItself ==
  ASSUME ReplyInv, TimerInv, ProcessHead
  PROVE  LET h == DueHead(wheel)
         IN  /\ h \in Events
             /\ \A c \in Conns :
                  /\ Window(buf'[c]) \subseteq Window(buf[c])
                  /\ \A i \in Window(buf'[c]) : <<c, i>> # h
                  /\ buf'[c].ack_tail # buf[c].ack_tail => h = <<c, buf[c].ack_tail>>
<1> DEFINE h == DueHead(wheel)
           d == h[1]
           id == event[h].send_id
           r == Reclaim(buf[d], id, AckId(d))
<1>1. TypeOK /\ WalkInSlot /\ UnwrappedRings /\ IdsInOrder
  BY DEF ReplyInv, SentInv, WheelInv
<1>2. /\ h \in Events /\ d \in Conns /\ Used(h) /\ id \in Nat
      /\ buf' = [buf EXCEPT ![d] = Reclaim(@, id, AckId(d))]
  BY HeadIsReclaimed
<1>3. h = <<d, h[2]>> /\ h[2] \in BufSlots
  BY <1>2 DEF Events
<1>4. buf \in [Conns -> MultiDestBuffers] /\ AckId(d) \in Nat
  BY <1>1, <1>2, AckIdType DEF TypeOK
<1>5. \A c \in Conns : /\ ~buf[c].isfull /\ buf[c].ack_tail <= buf[c].ack_head
                       /\ buf[c].ack_tail \in Nat /\ buf[c].ack_head \in Nat
                       /\ Window(buf[c]) = buf[c].ack_tail .. buf[c].ack_head - 1
  BY <1>1, <1>4, ScannedWindow DEF UnwrappedRings, MultiDestBuffers, BufSlots
<1>6. \A c \in Conns : buf'[c] = IF c = d THEN r ELSE buf[c]
  BY <1>2, <1>4
<1>7. \/ r = buf[d] /\ (buf[d].ack_tail = buf[d].ack_head \/ id < AckId(d))
      \/ /\ buf[d].ack_tail < buf[d].ack_head /\ AckId(d) <= id
         /\ ~r.isfull /\ r.ack_head = buf[d].ack_head /\ r.ack_tail = buf[d].ack_tail + 1
  BY <1>2, <1>4, <1>5, UnwrappedReclaim
<1>8. buf[d].ack_tail < buf[d].ack_head /\ AckId(d) <= id => h = <<d, buf[d].ack_tail>>
  BY <1>2, DueIsOldest
<1>9. h[2] \in Window(buf[d]) => buf[d].ack_tail < buf[d].ack_head /\ AckId(d) <= id
  <2>1. SUFFICES ASSUME h[2] \in Window(buf[d])
                 PROVE  buf[d].ack_tail < buf[d].ack_head /\ AckId(d) <= id
    OBVIOUS
  <2>2. buf[d].ack_tail <= h[2] /\ h[2] < buf[d].ack_head /\ h[2] \in Nat
    <3> HIDE DEF h, d, id, r
    <3> QED BY <1>2, <1>3, <1>5, <2>1 DEF BufSlots
  <2>3. CASE h[2] = buf[d].ack_tail
    <3>1. AckId(d) = id
      BY <1>3, <2>3 DEF AckId
    <3> QED BY <1>2, <1>5, <2>2, <3>1
  <2>4. CASE h[2] # buf[d].ack_tail
    <3>1. event[<<d, buf[d].ack_tail>>].send_id < event[<<d, h[2]>>].send_id
      <4>1. /\ h[2] \in 0 .. buf[d].ack_head - 1
            /\ buf[d].ack_tail \in 0 .. h[2] - 1
        BY <1>2, <1>5, <2>2, <2>4
      <4> QED BY <1>1, <1>2, <4>1 DEF IdsInOrder
    <3>2. AckId(d) < id
      BY <1>3, <3>1 DEF AckId
    <3> QED BY <1>2, <1>4, <1>5, <2>2, <3>2
  <2> QED BY <2>3, <2>4
<1>10. CASE r = buf[d] /\ (buf[d].ack_tail = buf[d].ack_head \/ id < AckId(d))
  <2>1. \A c \in Conns : buf'[c] = buf[c]
    BY <1>6, <1>10
  <2>2. h[2] \notin Window(buf[d])
    BY <1>2, <1>4, <1>5, <1>9, <1>10
  <2> HIDE DEF h
  <2> QED BY <1>2, <1>3, <2>1, <2>2 DEF h
<1>11. CASE /\ buf[d].ack_tail < buf[d].ack_head /\ AckId(d) <= id
            /\ ~r.isfull /\ r.ack_head = buf[d].ack_head /\ r.ack_tail = buf[d].ack_tail + 1
  <2>1. h = <<d, buf[d].ack_tail>>
    BY <1>8, <1>11
  <2>2. Window(r) = buf[d].ack_tail + 1 .. buf[d].ack_head - 1
    <3>1. r \in MultiDestBuffers
      BY <1>2, <1>4, BufTypes
    <3>2. r.ack_tail <= r.ack_head
      BY <1>2, <1>5, <1>11
    <3> QED BY <1>11, <3>1, <3>2, UnwrappedWindow
  <2> HIDE DEF h, r, d
  <2>3. ASSUME NEW c \in Conns
        PROVE  /\ Window(buf'[c]) \subseteq Window(buf[c])
               /\ \A i \in Window(buf'[c]) : <<c, i>> # h
               /\ buf'[c].ack_tail # buf[c].ack_tail => h = <<c, buf[c].ack_tail>>
    <3>1. CASE c = d
      <4>1. Window(buf'[c]) = buf[c].ack_tail + 1 .. buf[c].ack_head - 1
        BY <1>6, <2>2, <3>1
      <4>2. /\ Window(buf'[c]) \subseteq Window(buf[c])
            /\ buf[c].ack_tail \notin Window(buf'[c])
        BY <1>5, <4>1
      <4> QED BY <2>1, <3>1, <4>2
    <3>2. CASE c # d
      <4>1. buf'[c] = buf[c]
        BY <1>6, <3>2
      <4> QED BY <2>1, <3>2, <4>1
    <3> QED BY <3>1, <3>2
  <2> QED BY <1>2, <2>3 DEF h
<1> QED BY <1>7, <1>10, <1>11

(* The wheel stage keeps them too: a slot that is emptied has retired its  *)
(* request.                                                                *)
LEMMA StepTimers ==
  ASSUME ReplyInv, TimerInv, NoWrap, UniqueIds, PromptWheel, TicksFit, SendsTakeTime, [Next]_vars
  PROVE  TimerInv'
<1>1. TypeOK /\ WalkInSlot /\ UnwrappedRings
  BY DEF ReplyInv, SentInv, WheelInv
<1>2. /\ event \in [Events -> EventRecs] /\ wheel \in Wheels(Events \cup {NULL})
      /\ wheel.event_head \in [WheelSlots -> Events \cup {NULL}]
      /\ wheel.tick \in [WheelSlots -> Nat]
      /\ wheel.processed_index \in WheelSlots /\ wheel.current_tick \in Nat
  BY <1>1 DEF TypeOK, Wheels
<1>3. CASE SendRequest
  BY <1>3, SendKeepsTimers
<1>4. CASE ~SendRequest
  <2>1. /\ \A e \in Events : /\ event'[e].send_id = event[e].send_id
                             /\ event'[e].next_event = event[e].next_event
        /\ \A s \in WheelSlots : \/ wheel'.event_head[s] = NULL
                                 \/ wheel'.event_head[s] = wheel.event_head[s]
    BY <1>1, <1>4, OnlySendLinks
  <2>2. /\ wheel.current_tick <= wheel'.current_tick /\ wheel'.current_tick \in Nat
        /\ \A s \in WheelSlots : wheel'.event_head[s] = NULL \/ wheel'.tick[s] = wheel.tick[s]
    BY <1>1, <1>2, <1>4, TimePasses
  <2>3. OneTimerASlot'
    BY <2>1 DEF TimerInv, OneTimerASlot
  <2>4. TimersInOrder'
    <3>1. ASSUME NEW s \in WheelSlots, wheel'.event_head[s] # NULL
          PROVE  /\ wheel.event_head[s] # NULL /\ wheel'.tick[s] = wheel.tick[s]
                 /\ wheel.tick[s] \in Nat
                 /\ event'[wheel'.event_head[s]].send_id = event[wheel.event_head[s]].send_id
      BY <1>2, <2>1, <2>2, <3>1
    <3>2. ASSUME NEW s \in WheelSlots, wheel'.event_head[s] # NULL
          PROVE  wheel'.tick[s] <= wheel'.current_tick + RTO
      <4>1. wheel.tick[s] <= wheel.current_tick + RTO
        BY <3>1, <3>2 DEF TimerInv, TimersInOrder
      <4> QED BY <1>2, <2>2, <3>1, <3>2, <4>1
    <3>3. ASSUME NEW s \in WheelSlots, NEW r \in WheelSlots,
                 wheel'.event_head[s] # NULL, wheel'.event_head[r] # NULL,
                 event'[wheel'.event_head[r]].send_id < event'[wheel'.event_head[s]].send_id
          PROVE  wheel'.tick[r] < wheel'.tick[s]
      BY <3>1, <3>3 DEF TimerInv, TimersInOrder
    <3> QED BY <3>2, <3>3 DEF TimersInOrder
  <2>5. WindowHasTimers'
    <3>1. CASE ProcessHead
      <4>1. /\ DueHead(wheel) \in Events
            /\ \A c \in Conns : /\ Window(buf'[c]) \subseteq Window(buf[c])
                                /\ \A i \in Window(buf'[c]) : <<c, i>> # DueHead(wheel)
        BY <3>1, HeadRetiresItself
      <4>2. wheel' = wheel
        BY <3>1 DEF ProcessHead
      <4>3. ASSUME NEW c \in Conns, NEW i \in Window(buf'[c])
            PROVE  \E s \in WheelSlots : /\ wheel'.event_head[s] = <<c, i>>
                                         /\ s # wheel'.processed_index
        <5>1. i \in Window(buf[c]) /\ <<c, i>> # DueHead(wheel)
          BY <4>1, <4>3
        <5>2. PICK s \in WheelSlots : wheel.event_head[s] = <<c, i>>
          BY <5>1 DEF TimerInv, WindowHasTimers
        <5> QED BY <4>2, <5>1, <5>2 DEF DueHead
      <4> QED BY <4>3 DEF WindowHasTimers
    <3>2. CASE ProcessNext
      <4>1. cursor \in Events
        BY <1>1, <3>2 DEF ProcessNext, TypeOK
      <4> QED BY <3>2, <4>1 DEF ProcessNext, TimerInv, OneTimerASlot
    <3>3. CASE SlotDone
      <4>1. buf' = buf /\ wheel' = AdvanceSlot(wheel, NULL) /\ cursor' = NULL
        BY <3>3 DEF SlotDone
      <4>2. ASSUME NEW c \in Conns, NEW i \in Window(buf[c])
            PROVE  \E s \in WheelSlots : wheel'.event_head[s] = <<c, i>>
        <5>1. PICK s \in WheelSlots : /\ wheel.event_head[s] = <<c, i>>
                                      /\ cursor # NULL => s # wheel.processed_index
          BY <4>2 DEF TimerInv, WindowHasTimers
        <5>2. s # wheel.processed_index
          <6>1. cursor = NULL => wheel.event_head[wheel.processed_index] = NULL
            BY <3>3 DEF SlotDone, DueHead
          <6>2. <<c, i>> \in Events
            BY <1>1, <4>2, ScannedWindow DEF Events
          <6> QED BY <5>1, <6>1, <6>2, NullAssumption
        <5> QED BY <1>2, <4>1, <5>1, <5>2, AdvanceOthers
      <4> QED BY <4>1, <4>2 DEF WindowHasTimers
    <3>4. CASE /\ buf' = buf /\ wheel'.event_head = wheel.event_head
               /\ wheel'.processed_index = wheel.processed_index /\ cursor' = cursor
      BY <3>4 DEF TimerInv, WindowHasTimers
    <3>5. CASE ReceiveReply
      <4>1. PICK us \in LoopCost : wheel' = AdvanceTick(wheel, us)
        BY <3>5 DEF ReceiveReply
      <4>2. us \in Nat
        OBVIOUS
      <4>3. /\ wheel'.event_head = wheel.event_head
            /\ wheel'.processed_index = wheel.processed_index
        BY <1>2, <4>1, <4>2, AdvanceTickFields
      <4>4. buf' = buf /\ cursor' = cursor
        BY <3>5 DEF ReceiveReply, control
      <4> QED BY <3>4, <4>3, <4>4
    <3> QED BY <1>1, <1>4, <3>1, <3>2, <3>3, <3>4, <3>5, OtherSteps
  <2> QED BY <2>3, <2>4, <2>5 DEF TimerInv
<1> QED BY <1>3, <1>4

(* The invariant of the timers: with at most one request a tick, and with  *)
(* replies and wheel prompt, every outstanding request has a timer of its  *)
(* own, and the timers are due in the order of the requests.               *)
LEMMA TimerInvariance ==
  NoWrap /\ UniqueIds /\ PromptReplies /\ PromptWheel /\ TicksFit /\ SendsTakeTime
    => (Spec => [](ReplyInv /\ TimerInv))
<1> SUFFICES ASSUME NoWrap, UniqueIds, PromptReplies, PromptWheel, TicksFit, SendsTakeTime
             PROVE  Spec => [](ReplyInv /\ TimerInv)
  OBVIOUS
<1>1. Init => TimerInv
  <2> SUFFICES ASSUME Init PROVE TimerInv
    OBVIOUS
  <2>1. OneTimerASlot
    BY DEF Init, OneTimerASlot
  <2>2. TimersInOrder
    BY DEF Init, InitTimerWheel, TimersInOrder
  <2>3. \A c \in Conns : Window(buf[c]) = {}
    BY DEF Init, InitBuf, Window, IsEmpty
  <2>4. WindowHasTimers
    BY <2>3 DEF WindowHasTimers
  <2> QED BY <2>1, <2>2, <2>4 DEF TimerInv
<1>2. ReplyInv /\ TimerInv /\ [Next]_vars => TimerInv'
  BY StepTimers
<1>3. Spec => []ReplyInv
  BY ReplyInvariance
<1> QED BY <1>1, <1>2, <1>3, PTL DEF Spec

(* No outstanding request is without a timer (OutstandingHasTimer).        *)
THEOREM OutstandingTimed ==
  NoWrap /\ UniqueIds /\ PromptReplies /\ PromptWheel /\ TicksFit /\ SendsTakeTime
    => (Spec => []OutstandingHasTimer)
<1>1. ReplyInv /\ TimerInv => OutstandingHasTimer
  <2> SUFFICES ASSUME ReplyInv, TimerInv, NEW c \in Conns, NEW i \in Window(buf[c])
               PROVE  <<c, i>> \in Linked
    BY DEF OutstandingHasTimer
  <2>1. PICK s \in WheelSlots : wheel.event_head[s] = <<c, i>>
    BY DEF TimerInv, WindowHasTimers
  <2>2. <<c, i>> \in Events
    BY ScannedWindow DEF ReplyInv, SentInv, WheelInv, Events
  <2>3. Follow(<<c, i>>, 0) = <<c, i>>
    BY <2>2, FollowFcn
  <2>4. 0 \in 0 .. NumEvents - 1
    <3>1. (BufSize * 1) <= BufSize * ConnPerThread
      BY TimesMonotone
    <3> QED BY <3>1 DEF NumEvents
  <2> QED BY <2>1, <2>3, <2>4 DEF Linked
<1> QED BY <1>1, TimerInvariance, PTL

(* A slot leaves its ring only when its own timer is processed             *)
(* (RetiresOwnSlot).                                                       *)
THEOREM SlotsRetireThemselves ==
  NoWrap /\ UniqueIds /\ PromptReplies /\ PromptWheel /\ TicksFit /\ SendsTakeTime
    => (Spec => RetiresOwnSlot)
<1> SUFFICES ASSUME NoWrap, UniqueIds, PromptReplies, PromptWheel, TicksFit, SendsTakeTime
             PROVE  Spec => RetiresOwnSlot
  OBVIOUS
<1> DEFINE Own == \A c \in Conns : buf'[c].ack_tail # buf[c].ack_tail
                                     => cursor' = <<c, buf[c].ack_tail>>
<1>1. ReplyInv /\ TimerInv /\ [Next]_vars => [Own]_vars
  <2> SUFFICES ASSUME ReplyInv, TimerInv, [Next]_vars PROVE Own
    OBVIOUS
  <2>1. TypeOK /\ WalkInSlot /\ UnwrappedRings
    BY DEF ReplyInv, SentInv, WheelInv
  <2>2. CASE ProcessHead
    BY <2>2, HeadRetiresItself, HeadIsReclaimed
  <2>3. CASE ProcessNext
    <3>1. cursor \in Events
      BY <2>1, <2>3 DEF ProcessNext, TypeOK
    <3> QED BY <2>3, <3>1 DEF ProcessNext, TimerInv, OneTimerASlot
  <2>4. CASE SendRequest
    BY <2>1, <2>4, SendMovesHead
  <2>5. CASE buf' = buf
    BY <2>5
  <2>6. ReceiveReply \/ SlotDone => buf' = buf
    BY DEF ReceiveReply, SlotDone
  <2> QED BY <2>1, <2>2, <2>3, <2>4, <2>5, <2>6, OtherSteps
<1> QED BY <1>1, TimerInvariance, PTL DEF Spec, RetiresOwnSlot

(* The refinement: what the rings, the events and the wheel do to the      *)
(* requests is what RequestWindow says happens to them.                    *)
RequestRecs == [id : Nat, answered : BOOLEAN]

(* The request in slot i of the ring of c.                                 *)
RequestIn(ev, c, i) ==
  [id |-> ev[<<c, i>>].send_id, answered |-> ev[<<c, i>>].received_tick # NotReceived]

(* The number of requests in a ring, and the slot of the k-th oldest.      *)
SizeOf(b) == IF b.isfull THEN BufSize ELSE (b.ack_head - b.ack_tail) % BufSize

SlotOf(b, k) == (b.ack_tail + k - 1) % BufSize

(* The requests of a ring, oldest first.                                   *)
RequestsOf(b, ev, c) == [k \in 1 .. SizeOf(b) |-> RequestIn(ev, c, SlotOf(b, k))]

(* The remainder of an index that is at most one turn of the ring away.    *)
LEMMA TurnOfRing ==
  ASSUME NEW x \in Int, -BufSize <= x, x < 2 * BufSize
  PROVE  x % BufSize = IF x < 0 THEN x + BufSize ELSE IF x < BufSize THEN x ELSE x - BufSize
<1>1. ASSUME NEW r \in 0 .. BufSize - 1, NEW q \in Nat
      PROVE  ((BufSize * q) + r) % BufSize = r
  BY <1>1, ModUnique
<1>2. CASE x < 0
  OBVIOUS
<1>3. CASE x \in 0 .. BufSize - 1
  BY <1>3
<1>4. CASE x >= BufSize
  <2>1. x - BufSize \in 0 .. BufSize - 1 /\ x = (BufSize * 1) + (x - BufSize)
    BY <1>4
  <2> QED BY <1>1, <1>4, <2>1
<1> QED BY <1>2, <1>3, <1>4

(* The size of a ring and its slots, without remainders.                   *)
LEMMA SlotArithmetic ==
  ASSUME NEW b \in MultiDestBuffers
  PROVE  /\ b.ack_head \in BufSlots /\ b.ack_tail \in BufSlots /\ b.isfull \in BOOLEAN
         /\ SizeOf(b) = IF b.isfull THEN BufSize
                        ELSE IF b.ack_tail <= b.ack_head THEN b.ack_head - b.ack_tail
                        ELSE b.ack_head - b.ack_tail + BufSize
         /\ SizeOf(b) \in 0 .. BufSize
         /\ \A k \in 1 .. BufSize :
              SlotOf(b, k) = IF b.ack_tail + k - 1 < BufSize THEN b.ack_tail + k - 1
                             ELSE b.ack_tail + k - 1 - BufSize
<1>1. b.ack_head \in BufSlots /\ b.ack_tail \in BufSlots /\ b.isfull \in BOOLEAN
  BY DEF MultiDestBuffers
<1>2. (b.ack_head - b.ack_tail) % BufSize
        = IF b.ack_tail <= b.ack_head THEN b.ack_head - b.ack_tail
          ELSE b.ack_head - b.ack_tail + BufSize
  <2>1. /\ b.ack_head - b.ack_tail \in Int /\ -BufSize <= b.ack_head - b.ack_tail
        /\ b.ack_head - b.ack_tail < 2 * BufSize /\ b.ack_head - b.ack_tail < BufSize
    BY <1>1 DEF BufSlots
  <2> QED BY <1>1, <2>1, TurnOfRing DEF BufSlots
<1>3. ASSUME NEW k \in 1 .. BufSize
      PROVE  SlotOf(b, k) = IF b.ack_tail + k - 1 < BufSize THEN b.ack_tail + k - 1
                            ELSE b.ack_tail + k - 1 - BufSize
  <2> DEFINE x == b.ack_tail + k - 1
  <2>1. x \in Int /\ ~(x < 0) /\ -BufSize <= x /\ x < 2 * BufSize
    BY <1>1 DEF BufSlots
  <2>2. SlotOf(b, k) = x % BufSize
    BY DEF SlotOf
  <2> HIDE DEF x
  <2>3. SlotOf(b, k) = IF x < BufSize THEN x ELSE x - BufSize
    BY <2>1, <2>2, TurnOfRing
  <2> QED BY <1>1, <2>3 DEF x, BufSlots
<1>4. SizeOf(b) = IF b.isfull THEN BufSize
                  ELSE IF b.ack_tail <= b.ack_head THEN b.ack_head - b.ack_tail
                  ELSE b.ack_head - b.ack_tail + BufSize
  BY <1>2 DEF SizeOf
<1>5. SizeOf(b) \in 0 .. BufSize
  BY <1>1, <1>4 DEF BufSlots
<1> QED BY <1>1, <1>3, <1>4, <1>5

(* The requests of a ring are in the slots of its window, each in one.     *)
LEMMA SlotsAreWindow ==
  ASSUME NEW b \in MultiDestBuffers, RingOK(b)
  PROVE  /\ \A k \in 1 .. SizeOf(b) : SlotOf(b, k) \in Window(b) /\ SlotOf(b, k) \in BufSlots
         /\ \A i \in Window(b) : \E k \in 1 .. SizeOf(b) : SlotOf(b, k) = i
         /\ \A j, k \in 1 .. SizeOf(b) : SlotOf(b, j) = SlotOf(b, k) => j = k
<1> DEFINE h == b.ack_head
           t == b.ack_tail
           n == SizeOf(b)
<1>1. /\ h \in BufSlots /\ t \in BufSlots /\ b.isfull \in BOOLEAN
      /\ b.isfull => h = t
  BY SlotArithmetic DEF RingOK
<1>2. /\ n = IF b.isfull THEN BufSize ELSE IF t <= h THEN h - t ELSE h - t + BufSize
      /\ n \in 0 .. BufSize
      /\ \A k \in 1 .. BufSize :
           SlotOf(b, k) = IF t + k - 1 < BufSize THEN t + k - 1 ELSE t + k - 1 - BufSize
  BY SlotArithmetic
<1>3. \A i : i \in Window(b) <=>
               /\ i \in BufSlots
               /\ \/ t <= i /\ i < h
                  \/ ~(t < h) /\ ~(t = h /\ ~b.isfull) /\ (t <= i \/ i < h)
  BY WindowMembers DEF IsEmpty
<1> HIDE DEF h, t, n
<1>4. ASSUME NEW k \in 1 .. n PROVE SlotOf(b, k) \in Window(b) /\ SlotOf(b, k) \in BufSlots
  <2>1. k \in 1 .. BufSize
    BY <1>2
  <2>2. SlotOf(b, k) = IF t + k - 1 < BufSize THEN t + k - 1 ELSE t + k - 1 - BufSize
    BY <1>2, <2>1
  <2>3. SlotOf(b, k) \in BufSlots
    BY <1>1, <2>1, <2>2 DEF BufSlots
  <2>4. \/ t <= SlotOf(b, k) /\ SlotOf(b, k) < h
        \/ ~(t < h) /\ ~(t = h /\ ~b.isfull) /\ (t <= SlotOf(b, k) \/ SlotOf(b, k) < h)
    BY <1>1, <1>2, <2>1, <2>2 DEF BufSlots
  <2> QED BY <1>3, <2>3, <2>4
<1>5. ASSUME NEW i \in Window(b) PROVE \E k \in 1 .. n : SlotOf(b, k) = i
  <2>1. /\ i \in BufSlots
        /\ \/ t <= i /\ i < h
           \/ ~(t < h) /\ ~(t = h /\ ~b.isfull) /\ (t <= i \/ i < h)
    BY <1>3
  <2> DEFINE k == IF t <= i THEN i - t + 1 ELSE i - t + 1 + BufSize
  <2>2. k \in 1 .. n /\ k \in 1 .. BufSize
    BY <1>1, <1>2, <2>1 DEF BufSlots
  <2>3. i = IF t + k - 1 < BufSize THEN t + k - 1 ELSE t + k - 1 - BufSize
    BY <1>1, <2>1 DEF BufSlots
  <2> HIDE DEF k
  <2>4. SlotOf(b, k) = i
    BY <1>2, <2>2, <2>3
  <2> QED BY <2>2, <2>4
<1>6. ASSUME NEW j \in 1 .. n, NEW k \in 1 .. n, SlotOf(b, j) = SlotOf(b, k) PROVE j = k
  <2>1. j \in 1 .. BufSize /\ k \in 1 .. BufSize
    BY <1>2
  <2> QED BY <1>1, <1>2, <1>6, <2>1 DEF BufSlots
<1> QED BY <1>4, <1>5, <1>6 DEF n

(* A request is answered when its slot has been stamped.                   *)
LEMMA RequestInIs ==
  ASSUME NEW ev \in [Events -> EventRecs], NEW c \in Conns, NEW i \in BufSlots
  PROVE  /\ RequestIn(ev, c, i) \in RequestRecs
         /\ RequestIn(ev, c, i).id = ev[<<c, i>>].send_id
         /\ RequestIn(ev, c, i).answered <=> ev[<<c, i>>].received_tick # NotReceived
<1>1. ev[<<c, i>>].send_id \in Nat
  BY DEF Events, EventRecs
<1> DEFINE a == ev[<<c, i>>].received_tick # NotReceived
<1>2. a \in BOOLEAN
  OBVIOUS
<1> HIDE DEF a
<1>3. RequestIn(ev, c, i) = [id |-> ev[<<c, i>>].send_id, answered |-> a]
  BY DEF RequestIn, a
<1>4. RequestIn(ev, c, i) \in RequestRecs
  BY <1>1, <1>2, <1>3 DEF RequestRecs
<1>5. RequestIn(ev, c, i).id = ev[<<c, i>>].send_id /\ RequestIn(ev, c, i).answered = a
  BY <1>3
<1> QED BY <1>4, <1>5 DEF a

(* The requests of a ring as a sequence.                                   *)
LEMMA RequestsSeq ==
  ASSUME NEW b \in MultiDestBuffers, RingOK(b), NEW ev \in [Events -> EventRecs],
         NEW c \in Conns
  PROVE  /\ RequestsOf(b, ev, c) \in Seq(RequestRecs)
         /\ Len(RequestsOf(b, ev, c)) = SizeOf(b)
         /\ SizeOf(b) \in 0 .. BufSize
         /\ \A k \in 1 .. SizeOf(b) : RequestsOf(b, ev, c)[k] = RequestIn(ev, c, SlotOf(b, k))
<1> DEFINE n == SizeOf(b)
           w == RequestsOf(b, ev, c)
<1>1. n \in 0 .. BufSize
  BY SlotArithmetic
<1>2. \A k \in 1 .. n : RequestIn(ev, c, SlotOf(b, k)) \in RequestRecs
  BY SlotsAreWindow, RequestInIs
<1>3. w = [k \in 1 .. n |-> RequestIn(ev, c, SlotOf(b, k))]
  BY DEF RequestsOf
<1> HIDE DEF w, n
<1>4. \A k \in 1 .. n : w[k] = RequestIn(ev, c, SlotOf(b, k))
  BY <1>3
<1>5. w \in [1 .. n -> RequestRecs]
  BY <1>2, <1>3
<1>6. w \in Seq(RequestRecs) /\ Len(w) = n
  BY <1>1, <1>5
<1> QED BY <1>1, <1>4, <1>6 DEF w, n

(* A ring whose indices stay holds requests with the same slots.           *)
LEMMA SameRing ==
  ASSUME NEW b \in MultiDestBuffers, RingOK(b), NEW c \in Conns,
         NEW ev \in [Events -> EventRecs], NEW ev2 \in [Events -> EventRecs],
         \A i \in Window(b) : RequestIn(ev2, c, i) = RequestIn(ev, c, i)
  PROVE  RequestsOf(b, ev2, c) = RequestsOf(b, ev, c)
BY SlotsAreWindow DEF RequestsOf

(* A slot that is handed out is issued at the end of the window.           *)
LEMMA IssueRing ==
  ASSUME NEW b \in MultiDestBuffers, RingOK(b), CanAcquire(b), NEW c \in Conns,
         NEW ev \in [Events -> EventRecs], NEW ev2 \in [Events -> EventRecs],
         \A i \in BufSlots : i # b.ack_head => RequestIn(ev2, c, i) = RequestIn(ev, c, i),
         ev2[<<c, b.ack_head>>].received_tick = NotReceived
  PROVE  LET w == RequestsOf(b, ev, c)
             v == RequestsOf(Acquire(b), ev2, c)
         IN  /\ Len(w) \in Nat /\ Len(w) < BufSize /\ Len(v) = Len(w) + 1
             /\ ~v[Len(w) + 1].answered
             /\ v = Append(w, v[Len(w) + 1])
<1> DEFINE a == Acquire(b)
           w == RequestsOf(b, ev, c)
           v == RequestsOf(a, ev2, c)
           n == SizeOf(b)
<1>1. a \in MultiDestBuffers /\ RingOK(a)
  BY BufTypes, AcquireRing
<1>2. /\ b.ack_head \in BufSlots /\ b.ack_tail \in BufSlots /\ b.isfull = FALSE
      /\ n = IF b.ack_tail <= b.ack_head THEN b.ack_head - b.ack_tail
             ELSE b.ack_head - b.ack_tail + BufSize
  BY SlotArithmetic DEF CanAcquire
<1>3. /\ a.ack_tail = b.ack_tail /\ a.ack_head = NextSlot(b.ack_head)
      /\ a.isfull <=> NextSlot(b.ack_head) = b.ack_tail
  BY DEF Acquire
<1>4. NextSlot(b.ack_head) = IF b.ack_head + 1 = BufSize THEN 0 ELSE b.ack_head + 1
  BY <1>2, NextSlotType
<1>5. SizeOf(a) = IF a.isfull THEN BufSize
                  ELSE IF a.ack_tail <= a.ack_head THEN a.ack_head - a.ack_tail
                  ELSE a.ack_head - a.ack_tail + BufSize
  BY <1>1, SlotArithmetic
<1>6. n \in 0 .. BufSize - 1 /\ SizeOf(a) = n + 1
  <2> HIDE DEF a, n
  <2> QED BY <1>2, <1>3, <1>4, <1>5 DEF BufSlots
<1>7. SlotOf(b, n + 1) = b.ack_head
  <2>1. SlotOf(b, n + 1) = IF b.ack_tail + (n + 1) - 1 < BufSize THEN b.ack_tail + (n + 1) - 1
                           ELSE b.ack_tail + (n + 1) - 1 - BufSize
    BY <1>6, SlotArithmetic
  <2> HIDE DEF n
  <2> QED BY <1>2, <1>6, <2>1 DEF BufSlots
<1>8. \A k : SlotOf(a, k) = SlotOf(b, k)
  BY <1>3 DEF SlotOf
<1>9. /\ w \in Seq(RequestRecs) /\ Len(w) = n
      /\ \A k \in 1 .. n : w[k] = RequestIn(ev, c, SlotOf(b, k))
  BY RequestsSeq
<1>10. /\ v \in Seq(RequestRecs) /\ Len(v) = n + 1
       /\ \A k \in 1 .. n + 1 : v[k] = RequestIn(ev2, c, SlotOf(b, k))
  BY <1>1, <1>6, <1>8, RequestsSeq
<1>11. \A k \in 1 .. n : SlotOf(b, k) \in BufSlots /\ SlotOf(b, k) # b.ack_head
  <2>1. \A k \in 1 .. n : SlotOf(b, k) \in Window(b) /\ SlotOf(b, k) \in BufSlots
    BY SlotsAreWindow
  <2>2. b.ack_head \notin Window(b)
    BY <1>2, WindowMembers DEF IsEmpty, BufSlots
  <2> QED BY <2>1, <2>2
<1> HIDE DEF w, v, n, a
<1>12. \A k \in 1 .. n : v[k] = w[k]
  BY <1>6, <1>9, <1>10, <1>11
<1>13. v[n + 1] = RequestIn(ev2, c, b.ack_head) /\ v[n + 1] \in RequestRecs
  BY <1>6, <1>7, <1>10
<1>14. ~v[n + 1].answered
  BY <1>2, <1>13, RequestInIs
<1>15. v = Append(w, v[n + 1])
  <2> DEFINE u == Append(w, v[n + 1])
  <2>1. u \in Seq(RequestRecs) /\ Len(u) = n + 1
    BY <1>9, <1>13
  <2>2. \A k \in 1 .. n + 1 : u[k] = v[k]
    BY <1>6, <1>9, <1>12, <1>13
  <2> HIDE DEF u
  <2>3. v = u
    BY <1>6, <1>10, <2>1, <2>2, SeqEqual
  <2> QED BY <2>3 DEF u
<1> QED BY <1>6, <1>9, <1>10, <1>14, <1>15 DEF w, v, a

(* A tail that moves on retires the request at the front of the window.    *)
LEMMA RetireRing ==
  ASSUME NEW b \in MultiDestBuffers, RingOK(b), ~IsEmpty(b), NEW c \in Conns,
         NEW ev \in [Events -> EventRecs], NEW ev2 \in [Events -> EventRecs],
         \A i \in Window(b) : RequestIn(ev2, c, i) = RequestIn(ev, c, i)
  PROVE  LET w == RequestsOf(b, ev, c)
         IN  w # << >> /\ RequestsOf(Pop(b), ev2, c) = Tail(w)
<1> DEFINE a == Pop(b)
           w == RequestsOf(b, ev, c)
           v == RequestsOf(a, ev2, c)
           n == SizeOf(b)
<1>1. a \in MultiDestBuffers /\ RingOK(a)
  BY BufTypes, PopRing
<1>2. /\ b.ack_head \in BufSlots /\ b.ack_tail \in BufSlots /\ b.isfull \in BOOLEAN
      /\ n = IF b.isfull THEN BufSize
             ELSE IF b.ack_tail <= b.ack_head THEN b.ack_head - b.ack_tail
             ELSE b.ack_head - b.ack_tail + BufSize
      /\ b.isfull => b.ack_head = b.ack_tail
      /\ b.ack_head = b.ack_tail => b.isfull
  BY SlotArithmetic DEF RingOK, IsEmpty
<1>3. a.ack_tail = NextSlot(b.ack_tail) /\ a.ack_head = b.ack_head /\ a.isfull = FALSE
  BY DEF Pop
<1>4. NextSlot(b.ack_tail) = IF b.ack_tail + 1 = BufSize THEN 0 ELSE b.ack_tail + 1
  BY <1>2, NextSlotType
<1>5. /\ SizeOf(a) = IF a.ack_tail <= a.ack_head THEN a.ack_head - a.ack_tail
                     ELSE a.ack_head - a.ack_tail + BufSize
      /\ \A k \in 1 .. BufSize :
           SlotOf(a, k) = IF a.ack_tail + k - 1 < BufSize THEN a.ack_tail + k - 1
                          ELSE a.ack_tail + k - 1 - BufSize
  BY <1>1, <1>3, SlotArithmetic
<1>6. n \in 1 .. BufSize /\ SizeOf(a) = n - 1
  <2> HIDE DEF a, n
  <2> QED BY <1>2, <1>3, <1>4, <1>5 DEF BufSlots
<1>7. ASSUME NEW k \in 1 .. n - 1 PROVE SlotOf(a, k) = SlotOf(b, k + 1) /\ k + 1 \in 1 .. n
  <2>1. k + 1 \in 1 .. n /\ k \in 1 .. BufSize /\ k + 1 \in 1 .. BufSize
    BY <1>6
  <2>2. SlotOf(b, k + 1) = IF b.ack_tail + (k + 1) - 1 < BufSize THEN b.ack_tail + (k + 1) - 1
                           ELSE b.ack_tail + (k + 1) - 1 - BufSize
    BY <2>1, SlotArithmetic
  <2> HIDE DEF a, n
  <2>3. SlotOf(a, k) = IF a.ack_tail + k - 1 < BufSize THEN a.ack_tail + k - 1
                       ELSE a.ack_tail + k - 1 - BufSize
    BY <1>5, <2>1
  <2> QED BY <1>2, <1>3, <1>4, <2>1, <2>2, <2>3 DEF BufSlots
<1>8. /\ w \in Seq(RequestRecs) /\ Len(w) = n
      /\ \A k \in 1 .. n : w[k] = RequestIn(ev, c, SlotOf(b, k))
  BY RequestsSeq
<1>9. /\ v \in Seq(RequestRecs) /\ Len(v) = n - 1
      /\ \A k \in 1 .. n - 1 : v[k] = RequestIn(ev2, c, SlotOf(a, k))
  BY <1>1, <1>6, RequestsSeq
<1>10. \A k \in 1 .. n : SlotOf(b, k) \in Window(b)
  BY SlotsAreWindow
<1> HIDE DEF w, v, n, a
<1>11. \A k \in 1 .. n - 1 : v[k] = w[k + 1]
  BY <1>7, <1>8, <1>9, <1>10
<1>12. w # << >>
  BY <1>6, <1>8
<1>13. v = Tail(w)
  <2>1. Tail(w) \in Seq(RequestRecs) /\ Len(Tail(w)) = n - 1
        /\ \A k \in 1 .. n - 1 : Tail(w)[k] = w[k + 1]
    BY <1>6, <1>8, <1>12, HeadTailProperties
  <2> QED BY <1>6, <1>9, <1>11, <2>1, SeqEqual
<1> QED BY <1>12, <1>13 DEF w, v, a

(* A request that is dropped late leaves a ring alone, unless it is full:  *)
(* then the ring counts as empty.                                          *)
LEMMA DropRing ==
  ASSUME NEW b \in MultiDestBuffers, RingOK(b), NEW c \in Conns,
         NEW ev \in [Events -> EventRecs]
  PROVE  /\ ~b.isfull => DropLate(b) = b
         /\ b.isfull => /\ Len(RequestsOf(b, ev, c)) = BufSize
                        /\ RequestsOf(DropLate(b), ev, c) = << >>
<1>1. b.isfull \in BOOLEAN
  BY DEF MultiDestBuffers
<1>2. ASSUME ~b.isfull PROVE DropLate(b) = b
  BY <1>1, <1>2 DEF DropLate, MultiDestBuffers
<1>3. ASSUME b.isfull
      PROVE  /\ Len(RequestsOf(b, ev, c)) = BufSize
             /\ RequestsOf(DropLate(b), ev, c) = << >>
  <2> DEFINE a == DropLate(b)
             v == RequestsOf(a, ev, c)
  <2>1. a \in MultiDestBuffers /\ RingOK(a)
    BY BufTypes, DropLateRing
  <2>2. /\ a.isfull = FALSE /\ a.ack_head = b.ack_head /\ a.ack_tail = b.ack_tail
        /\ b.ack_head = b.ack_tail /\ b.ack_tail \in BufSlots
    BY <1>3, SlotArithmetic DEF DropLate, MultiDestBuffers, RingOK
  <2>3. SizeOf(a) = 0
    <3>1. SizeOf(a) = IF a.isfull THEN BufSize
                      ELSE IF a.ack_tail <= a.ack_head THEN a.ack_head - a.ack_tail
                      ELSE a.ack_head - a.ack_tail + BufSize
      BY <2>1, SlotArithmetic
    <3> HIDE DEF a
    <3> QED BY <2>2, <3>1 DEF BufSlots
  <2>4. v \in Seq(RequestRecs) /\ Len(v) = 0
    BY <2>1, <2>3, RequestsSeq
  <2>5. v = << >>
    <3> HIDE DEF v
    <3> QED BY <2>4, EmptySeq
  <2>6. SizeOf(b) = BufSize
    BY <1>3 DEF SizeOf
  <2> QED BY <2>5, <2>6, RequestsSeq
<1> QED BY <1>2, <1>3

(* Slot i of the ring of c is the one that a reply was noted in.           *)
Stamped(ev, ev2, c, i) ==
  /\ \A j \in BufSlots : j # i => ev2[<<c, j>>] = ev[<<c, j>>]
  /\ ev2[<<c, i>>].send_id = ev[<<c, i>>].send_id
  /\ ev2[<<c, i>>].received_tick # NotReceived

(* One request of the window w is answered, or none is.                    *)
AnswersOne(w, v) ==
  \/ v = w
  \/ \E k \in 1 .. Len(w) : ~w[k].answered /\ v = [w EXCEPT ![k].answered = TRUE]

(* A slot that is stamped is answered, unless it was already or is not in  *)
(* the window.                                                             *)
LEMMA AnswerRing ==
  ASSUME NEW b \in MultiDestBuffers, RingOK(b), NEW c \in Conns,
         NEW ev \in [Events -> EventRecs], NEW ev2 \in [Events -> EventRecs],
         NEW i \in Window(b), Stamped(ev, ev2, c, i)
  PROVE  AnswersOne(RequestsOf(b, ev, c), RequestsOf(b, ev2, c))
<1> DEFINE w == RequestsOf(b, ev, c)
           v == RequestsOf(b, ev2, c)
           n == SizeOf(b)
<1>1. /\ \A j \in BufSlots : j # i => ev2[<<c, j>>] = ev[<<c, j>>]
      /\ ev2[<<c, i>>].send_id = ev[<<c, i>>].send_id
      /\ ev2[<<c, i>>].received_tick # NotReceived
  BY DEF Stamped
<1>2. /\ w \in Seq(RequestRecs) /\ Len(w) = n /\ n \in Nat
      /\ \A j \in 1 .. n : w[j] = RequestIn(ev, c, SlotOf(b, j))
  BY RequestsSeq
<1>3. /\ v \in Seq(RequestRecs) /\ Len(v) = n
      /\ \A j \in 1 .. n : v[j] = RequestIn(ev2, c, SlotOf(b, j))
  BY RequestsSeq
<1>4. PICK k \in 1 .. n : SlotOf(b, k) = i
  BY SlotsAreWindow
<1>5. /\ \A j \in 1 .. n : SlotOf(b, j) \in BufSlots
      /\ \A j \in 1 .. n : j # k => SlotOf(b, j) # i
  BY <1>4, SlotsAreWindow
<1> HIDE DEF w, v, n
<1>6. \A j \in 1 .. n : j # k => v[j] = w[j]
  <2>1. \A j \in BufSlots : j # i => RequestIn(ev2, c, j) = RequestIn(ev, c, j)
    BY <1>1 DEF RequestIn
  <2> QED BY <1>2, <1>3, <1>5, <2>1
<1>7. /\ v[k].id = w[k].id /\ v[k].answered = TRUE
      /\ v[k] \in RequestRecs /\ w[k] \in RequestRecs
  <2>1. w[k] = RequestIn(ev, c, i) /\ v[k] = RequestIn(ev2, c, i)
    BY <1>2, <1>3, <1>4
  <2>2. w[k] \in RequestRecs /\ v[k] \in RequestRecs
    BY <1>2, <1>3, <1>4
  <2>3. v[k].id = w[k].id /\ v[k].answered
    BY <1>1, <1>4, <1>5, <2>1, RequestInIs
  <2>4. v[k].answered \in BOOLEAN
    BY <2>2 DEF RequestRecs
  <2> QED BY <2>2, <2>3, <2>4
<1>8. CASE w[k].answered
  <2>1. v[k] = w[k]
    BY <1>7, <1>8 DEF RequestRecs
  <2>2. v = w
    BY <1>2, <1>3, <1>6, <2>1, SeqEqual
  <2> QED BY <2>2 DEF w, v, AnswersOne
<1>9. CASE ~w[k].answered
  <2> DEFINE r == [w[k] EXCEPT !.answered = TRUE]
             u == [w EXCEPT ![k] = r]
  <2>1. r \in RequestRecs /\ v[k] = r
    BY <1>7 DEF RequestRecs
  <2> HIDE DEF r
  <2>2. /\ u \in Seq(RequestRecs) /\ Len(u) = Len(w)
        /\ \A j \in 1 .. n : u[j] = IF j = k THEN r ELSE w[j]
    BY <1>2, <1>4, <2>1, ExceptSeq
  <2> HIDE DEF u
  <2>3. v = u
    <3>1. \A j \in 1 .. n : v[j] = u[j]
      BY <1>6, <2>1, <2>2
    <3> QED BY <1>2, <1>3, <2>2, <3>1, SeqEqual
  <2>4. v = [w EXCEPT ![k].answered = TRUE]
    BY <2>3 DEF u, r
  <2>5. k \in 1 .. Len(w)
    BY <1>2, <1>4
  <2> QED BY <1>9, <2>4, <2>5 DEF w, v, AnswersOne
<1> QED BY <1>8, <1>9

(* What the step from the rings and the events of one state to those of    *)
(* the next does to the requests of connection c.                          *)
Before(c) == RequestsOf(buf[c], event, c)
After(c) == RequestsOf(buf'[c], event', c)

Issued(c) ==
  /\ Len(Before(c)) \in Nat /\ Len(Before(c)) < BufSize
  /\ Len(After(c)) = Len(Before(c)) + 1 /\ ~After(c)[Len(Before(c)) + 1].answered
  /\ After(c) = Append(Before(c), After(c)[Len(Before(c)) + 1])

Answered(c) ==
  \E k \in 1 .. Len(Before(c)) :
     ~Before(c)[k].answered /\ After(c) = [Before(c) EXCEPT ![k].answered = TRUE]

Retired(c) == Before(c) # << >> /\ After(c) = Tail(Before(c))

Forgotten(c) ==
  /\ buf[c].isfull /\ buf'[c] = DropLate(buf[c])
  /\ Len(Before(c)) = BufSize /\ After(c) = << >>

(* What a step does to the requests of each connection.                    *)
LEMMA StepRequests ==
  ASSUME WindowInv, WindowInv', [Next]_vars
  PROVE  \/ \A c \in Conns : After(c) = Before(c)
         \/ \E d \in Conns :
              /\ \A c \in Conns : c # d => After(c) = Before(c)
              /\ Issued(d) \/ Answered(d) \/ Retired(d) \/ Forgotten(d)
<1>1. TypeOK /\ WalkInSlot /\ RingsOK /\ TypeOK'
  BY DEF WindowInv, WheelInv
<1>2. /\ buf \in [Conns -> MultiDestBuffers] /\ event \in [Events -> EventRecs]
      /\ event' \in [Events -> EventRecs]
      /\ \A c \in Conns : buf[c] \in MultiDestBuffers /\ RingOK(buf[c])
  BY <1>1 DEF TypeOK, RingsOK
<1>3. \A c \in Conns, i \in BufSlots : <<c, i>> \in Events
  BY DEF Events
<1>4. \A c \in Conns : \A i \in Window(buf[c]) : i \in BufSlots
  BY <1>2, WindowMembers
<1>5. ASSUME NEW c \in Conns, buf'[c] = buf[c],
             \A i \in Window(buf[c]) : RequestIn(event', c, i) = RequestIn(event, c, i)
      PROVE  After(c) = Before(c)
  BY <1>2, <1>5, SameRing DEF Before, After
<1>6. CASE SendRequest
  <2> DEFINE d == send_conn_id
             e == <<d, buf[d].ack_head>>
  <2>1. d \in Conns /\ CanAcquire(buf[d]) /\ buf' = [buf EXCEPT ![d] = Acquire(buf[d])]
    BY <1>1, <1>6 DEF SendRequest, TypeOK
  <2>2. buf[d].ack_head \in BufSlots /\ e \in Events
    BY <1>2, <1>3, <2>1 DEF MultiDestBuffers
  <2>3. PICK id, slot :
          event' = [event EXCEPT
            ![e] = [send_id |-> id, recv_id |-> event[e].recv_id,
                    received_tick |-> NotReceived,
                    next_event |-> IF wheel.event_head[slot] = NULL
                                   THEN event[e].next_event
                                   ELSE wheel.event_head[slot]]]
    BY <1>1, <1>6, SendFacts
  <2>4. event'[e].received_tick = NotReceived
    BY <1>2, <2>2, <2>3
  <2>5. \A x \in Events : x # e => event'[x] = event[x]
    BY <1>2, <2>3
  <2> HIDE DEF d
  <2>6. \A c \in Conns, i \in BufSlots :
           c # d \/ i # buf[d].ack_head => RequestIn(event', c, i) = RequestIn(event, c, i)
    BY <1>3, <2>5 DEF RequestIn
  <2>7. buf'[d] = Acquire(buf[d]) /\ \A c \in Conns : c # d => buf'[c] = buf[c]
    BY <1>2, <2>1
  <2>8. Issued(d)
    <3>1. \A i \in BufSlots : i # buf[d].ack_head
                                => RequestIn(event', d, i) = RequestIn(event, d, i)
      BY <2>1, <2>6
    <3>2. event'[<<d, buf[d].ack_head>>].received_tick = NotReceived
      BY <2>4
    <3>3. LET w == RequestsOf(buf[d], event, d)
              v == RequestsOf(Acquire(buf[d]), event', d)
          IN  /\ Len(w) \in Nat /\ Len(w) < BufSize /\ Len(v) = Len(w) + 1
              /\ ~v[Len(w) + 1].answered
              /\ v = Append(w, v[Len(w) + 1])
      BY <1>2, <2>1, <3>1, <3>2, IssueRing
    <3> QED BY <2>7, <3>3 DEF Issued, Before, After
  <2>9. \A c \in Conns : c # d => After(c) = Before(c)
    BY <1>4, <1>5, <2>6, <2>7
  <2> QED BY <2>1, <2>8, <2>9
<1>7. CASE ReceiveReply
  <2>1. PICK i \in BufSlots :
          /\ cur \in Conns /\ <<cur, i>> \in Events /\ buf' = buf
          /\ Stamps(cur, Head(sock[cur]).id, i)
          /\ \A x \in Events \ {<<cur, i>>} : event'[x] = event[x]
          /\ event'[<<cur, i>>].send_id = event[<<cur, i>>].send_id
          /\ event'[<<cur, i>>].received_tick # NotReceived
    BY <1>1, <1>7, ReceiveFacts
  <2>2. \A c \in Conns, j \in BufSlots : c # cur \/ j # i => event'[<<c, j>>] = event[<<c, j>>]
    BY <1>3, <2>1
  <2>3. \A c \in Conns, j \in BufSlots :
           c # cur \/ j # i => RequestIn(event', c, j) = RequestIn(event, c, j)
    BY <2>2 DEF RequestIn
  <2>4. \A c \in Conns : c # cur => After(c) = Before(c)
    BY <1>4, <1>5, <2>1, <2>3
  <2>5. CASE i \in Window(buf[cur])
    <3>1. Stamped(event, event', cur, i)
      BY <2>1, <2>2 DEF Stamped
    <3>2. AnswersOne(RequestsOf(buf[cur], event, cur), RequestsOf(buf[cur], event', cur))
      BY <1>2, <2>1, <2>5, <3>1, AnswerRing
    <3>3. After(cur) = Before(cur) \/ Answered(cur)
      BY <2>1, <3>2 DEF AnswersOne, Answered, Before, After
    <3> QED BY <2>1, <2>4, <3>3
  <2>6. CASE i \notin Window(buf[cur])
    <3>1. \A j \in Window(buf[cur]) : RequestIn(event', cur, j) = RequestIn(event, cur, j)
      BY <1>4, <2>1, <2>3, <2>6
    <3>2. After(cur) = Before(cur)
      BY <1>5, <2>1, <3>1
    <3> QED BY <2>4, <3>2
  <2> QED BY <2>5, <2>6
<1>8. CASE ProcessHead \/ ProcessNext
  <2> DEFINE d == DueHead(wheel)[1]
  <2>1. PICK e \in Events, id \in Nat :
          /\ d \in Conns
          /\ event' = [event EXCEPT ![e].recv_id = id]
          /\ buf' = buf \/ buf' = [buf EXCEPT ![d] = Reclaim(@, id, AckId(d))]
    BY <1>1, <1>8, ProcessFacts
  <2> HIDE DEF d
  <2>2. \A x \in Events : /\ event'[x].send_id = event[x].send_id
                          /\ event'[x].received_tick = event[x].received_tick
    BY <1>2, <2>1 DEF EventRecs
  <2>3. \A c \in Conns, i \in BufSlots : RequestIn(event', c, i) = RequestIn(event, c, i)
    BY <1>3, <2>2 DEF RequestIn
  <2>4. \A c \in Conns : buf'[c] = buf[c] => After(c) = Before(c)
    BY <1>4, <1>5, <2>3
  <2>5. \A c \in Conns : c # d => buf'[c] = buf[c]
    BY <1>2, <2>1
  <2>6. \/ buf'[d] = buf[d]
        \/ buf'[d] = Pop(buf[d]) /\ ~IsEmpty(buf[d])
        \/ buf'[d] = DropLate(buf[d])
    BY <1>2, <2>1 DEF Reclaim
  <2>7. CASE buf'[d] = Pop(buf[d]) /\ ~IsEmpty(buf[d])
    <3>1. \A i \in Window(buf[d]) : RequestIn(event', d, i) = RequestIn(event, d, i)
      BY <1>4, <2>1, <2>3
    <3>2. LET w == RequestsOf(buf[d], event, d)
          IN  w # << >> /\ RequestsOf(Pop(buf[d]), event', d) = Tail(w)
      BY <1>2, <2>1, <2>7, <3>1, RetireRing
    <3>3. Retired(d)
      BY <2>7, <3>2 DEF Retired, Before, After
    <3> QED BY <2>1, <2>4, <2>5, <3>3
  <2>8. CASE buf'[d] = DropLate(buf[d]) /\ buf[d].isfull
    <3>1. Len(RequestsOf(buf[d], event, d)) = BufSize
      BY <1>2, <2>1, <2>8, DropRing
    <3>2. RequestsOf(DropLate(buf[d]), event', d) = << >>
      BY <1>2, <2>1, <2>8, DropRing
    <3>3. Forgotten(d)
      BY <2>8, <3>1, <3>2 DEF Forgotten, Before, After
    <3> QED BY <2>1, <2>4, <2>5, <3>3
  <2>9. CASE buf'[d] = DropLate(buf[d]) /\ ~buf[d].isfull
    <3>1. buf'[d] = buf[d]
      BY <1>2, <2>1, <2>9, DropRing
    <3> QED BY <2>4, <2>5, <3>1
  <2> QED BY <2>4, <2>5, <2>6, <2>7, <2>8, <2>9
<1>9. CASE buf' = buf /\ event' = event
  BY <1>9 DEF Before, After
<1>10. SlotDone => buf' = buf /\ event' = event
  BY DEF SlotDone
<1> QED BY <1>1, <1>6, <1>7, <1>8, <1>9, <1>10, OtherSteps

(* The windows of the connections, which Requests is about.                *)
window == [c \in Conns |-> Outstanding(c)]

(* A late request clears the full flag of the ring of c, which then counts *)
(* as empty: the ring forgets all the requests it held.                    *)
ForgetsWindow(c) ==
  /\ buf[c].isfull /\ buf'[c] = DropLate(buf[c])
  /\ Len(window[c]) = BufSize
  /\ Requests!Becomes(c, << >>)

(* A step of the client is a step of Requests, or forgets a full window.   *)
LEMMA StepWindow ==
  ASSUME WindowInv, WindowInv', [Next]_vars
  PROVE  [Requests!Next \/ \E c \in Conns : ForgetsWindow(c)]_window
<1> DEFINE w == [c \in Conns |-> Before(c)]
           v == [c \in Conns |-> After(c)]
<1>1. window = w /\ window' = v
  BY DEF window, Outstanding, Before, After, RequestsOf, SizeOf, SlotOf, RequestIn
<1>2. \A c \in Conns : w[c] = Before(c) /\ v[c] = After(c)
  OBVIOUS
<1>3. ASSUME NEW d \in Conns, \A c \in Conns : c # d => After(c) = Before(c)
      PROVE  v = [w EXCEPT ![d] = After(d)]
  BY <1>3
<1>4. CASE \A c \in Conns : After(c) = Before(c)
  BY <1>1, <1>4
<1>5. ASSUME NEW d \in Conns, \A c \in Conns : c # d => After(c) = Before(c),
             Issued(d) \/ Answered(d) \/ Retired(d) \/ Forgotten(d)
      PROVE  Requests!Next \/ ForgetsWindow(d)
  <2>1. v = [w EXCEPT ![d] = After(d)] /\ w[d] = Before(d) /\ v[d] = After(d)
    BY <1>2, <1>3, <1>5
  <2> HIDE DEF w, v
  <2>2. CASE Issued(d)
    <3>1. /\ Len(w[d]) < BufSize /\ Len(v[d]) = Len(w[d]) + 1
          /\ ~v[d][Len(w[d]) + 1].answered
          /\ v = [w EXCEPT ![d] = Append(w[d], v[d][Len(w[d]) + 1])]
      BY <2>1, <2>2 DEF Issued
    <3>2. Requests!Issue(d)
      BY <1>1, <3>1 DEF Requests!Issue, Requests!Becomes, window
    <3> QED BY <3>2 DEF Requests!Next
  <2>3. CASE Answered(d)
    <3>1. PICK k \in 1 .. Len(w[d]) :
             ~w[d][k].answered /\ v[d] = [w[d] EXCEPT ![k].answered = TRUE]
      BY <2>1, <2>3 DEF Answered
    <3>2. v = [w EXCEPT ![d] = [w[d] EXCEPT ![k].answered = TRUE]]
      BY <2>1, <3>1
    <3>3. Requests!Answer(d)
      BY <1>1, <3>1, <3>2 DEF Requests!Answer, Requests!Becomes, window
    <3> QED BY <3>3 DEF Requests!Next
  <2>4. CASE Retired(d)
    <3>1. w[d] # << >> /\ v = [w EXCEPT ![d] = Tail(w[d])]
      BY <2>1, <2>4 DEF Retired
    <3>2. Requests!Retire(d)
      BY <1>1, <3>1 DEF Requests!Retire, Requests!Becomes, window
    <3> QED BY <3>2 DEF Requests!Next
  <2>5. CASE Forgotten(d)
    <3>1. Len(w[d]) = BufSize /\ v = [w EXCEPT ![d] = << >>]
      BY <2>1, <2>5 DEF Forgotten
    <3>2. Requests!Becomes(d, << >>)
      BY <1>1, <3>1 DEF Requests!Becomes, window
    <3> QED BY <1>1, <2>5, <3>1, <3>2 DEF ForgetsWindow, Forgotten
  <2> QED BY <1>5, <2>2, <2>3, <2>4, <2>5
<1>6. CASE \E d \in Conns :
             /\ \A c \in Conns : c # d => After(c) = Before(c)
             /\ Issued(d) \/ Answered(d) \/ Retired(d) \/ Forgotten(d)
  BY <1>5, <1>6
<1> QED BY <1>4, <1>6, StepRequests

LEMMA InitRequests == Init => Requests!Init
<1> SUFFICES ASSUME Init, NEW c \in Conns PROVE Outstanding(c) = << >>
  BY DEF Requests!Init
<1>1. /\ buf[c] \in MultiDestBuffers /\ RingOK(buf[c]) /\ event \in [Events -> EventRecs]
  BY InitWindow DEF WindowInv, WheelInv, TypeOK, RingsOK
<1>2. ~buf[c].isfull /\ buf[c].ack_head = 0 /\ buf[c].ack_tail = 0
  BY DEF Init, InitBuf
<1>3. SizeOf(buf[c]) = 0
  BY <1>1, <1>2, SlotArithmetic
<1>4. RequestsOf(buf[c], event, c) = << >>
  BY <1>1, <1>3, RequestsSeq, EmptySeq
<1> QED BY <1>4 DEF Outstanding, RequestsOf, SizeOf, SlotOf, RequestIn

(* Whatever the network, the clock and the ids do and however often the    *)
(* rings wrap, a thread implements RequestWindow but for one step: the     *)
(* reclaiming of a late request while the ring is full, which forgets the  *)
(* whole window.                                                           *)
THEOREM OnlyLateDropsForget ==
  Spec => Requests!Init /\ [][Requests!Next \/ \E c \in Conns : ForgetsWindow(c)]_window
<1>1. WindowInv /\ WindowInv' /\ [Next]_vars
        => [Requests!Next \/ \E c \in Conns : ForgetsWindow(c)]_window
  BY StepWindow
<1> QED BY <1>1, InitRequests, WindowInvariance, PTL DEF Spec

(* A full ring is never changed the way a late request is dropped from it. *)
FullRingsDropNothing ==
  \A c \in Conns : buf[c].isfull => buf'[c] # DropLate(buf[c])

(* So every run in which no late request is dropped from a full ring       *)
(* implements it, for every number of requests and every size of the rings *)
(* (KeepsWindow).                                                          *)
THEOREM WindowKept == Spec /\ [][FullRingsDropNothing]_buf => KeepsWindow
<1>1. WindowInv /\ WindowInv' /\ [Next]_vars /\ [FullRingsDropNothing]_buf
        => [Requests!Next]_window
  <2> SUFFICES ASSUME WindowInv, WindowInv', [Next]_vars, [FullRingsDropNothing]_buf,
                      NEW c \in Conns, ForgetsWindow(c)
               PROVE  FALSE
    BY StepWindow
  <2>1. buf'[c] # buf[c]
    <3>1. DropLate(buf[c]).isfull = FALSE
      BY DEF WindowInv, WheelInv, TypeOK, DropLate, MultiDestBuffers
    <3> QED BY <3>1 DEF ForgetsWindow
  <2> QED BY <2>1 DEF ForgetsWindow, FullRingsDropNothing
<1> QED BY <1>1, InitRequests, WindowInvariance, PTL DEF Spec, KeepsWindow, Requests!Spec, window

(* The client implements RequestWindow as long as no ring wraps            *)
(* (KeepsWindow): requests leave in the order they were sent, one at a     *)
(* time, and an answer is noted once, whatever the network and the clock   *)
(* do.                                                                     *)
THEOREM ImplementsRequestWindow == NoWrap => (Spec => KeepsWindow)
<1> SUFFICES ASSUME NoWrap PROVE Spec => KeepsWindow
  OBVIOUS
<1>1. Init => UnwrappedRings
  BY InitUnwrapped
<1>2. WindowInv /\ UnwrappedRings /\ [Next]_vars => UnwrappedRings'
  BY StepUnwrapped DEF WindowInv, WheelInv
<1>3. UnwrappedRings /\ [Next]_vars => [FullRingsDropNothing]_buf
  BY DEF UnwrappedRings, FullRingsDropNothing
<1> QED BY <1>1, <1>2, <1>3, WindowInvariance, WindowKept, PTL DEF Spec
=============================================================================

--------------------------- MODULE OpenLoopClient ---------------------------
(***************************************************************************)
(* One load-generating thread of src/multithread/timerwheel_openloop_      *)
(* client.c (openloop_multiple_connections), with the connections it owns, *)
(* their rings of outstanding requests, its timer wheel, the datagrams in  *)
(* flight, and the flag the latency thread sets to end the run.            *)
(*                                                                         *)
(* The thread repeats three stages.  "send": while an arrival is due, take *)
(* a slot of the ring of the next connection, send, arm a timer.  "recv":  *)
(* take the connections epoll_wait reports and drain each one, looking for *)
(* the request every datagram answers.  "wheel": process the wheel's slots *)
(* up to the current tick, reclaiming a ring slot for each event.          *)
(*                                                                         *)
(* The echo server and the network are the environment: net[c] holds the   *)
(* requests of connection c that are on their way to the server and the    *)
(* replies on their way back, without telling them apart.                  *)
(*                                                                         *)
(* Left out: the offset tid * MAX_NUM_TEST of the ids of a thread, sockets *)
(* that fail (the program exits), and the choice of a replica's address.   *)
(* Definitions named Wrong... are variants with a plausible mistake; they  *)
(* are not used by the model, only to show that a property notices.        *)
(***************************************************************************)
EXTENDS MultiDestBuffer, TimerWheel, Sequences, FiniteSets

CONSTANTS
  ConnPerThread,   \* conn_perthread
  NumBatches,      \* MAX_NUM_REQ is NumBatches * BatchStride, as the text
  BatchStride,     \*   100*1000 of the macro is in rand()%MAX_NUM_REQ
  NULL,            \* the null pointer
  Faults,          \* what the network may do: "loss", "dup", "reorder"
  SendCost,        \* ticks one turn of the send loop may take
  LoopCost,        \* ticks a receive or the end of a turn may take
  MaxDelay,        \* ticks within which a datagram is read or lost
  MaxLag,          \* ticks the wheel may fall behind the current tick
  MaxTick,         \* bound: the last tick that is explored
  MaxSent,         \* bound: requests sent
  MaxDups          \* bound: datagrams duplicated

ASSUME ClientAssumption ==
  /\ ConnPerThread \in Nat \ {0}
  /\ NumBatches \in Nat \ {0}
  /\ BatchStride \in Nat \ {0}
  /\ Faults \subseteq {"loss", "dup", "reorder"}
  /\ SendCost \subseteq Nat
  /\ LoopCost \subseteq Nat /\ 0 \in LoopCost
  /\ MaxDelay \in Nat
  /\ MaxLag \in Nat
  /\ MaxTick \in Nat
  /\ MaxSent \in Nat
  /\ MaxDups \in Nat

Conns == 0 .. ConnPerThread - 1
Events == Conns \X BufSlots     \* &conn_list[c].buffer.send_timer[i] is <<c, i>>
NotReceived == -1               \* UINTMAX_MAX in received_tick

ASSUME NullAssumption == NULL \notin Events

VARIABLES
  buf,              \* the ring of each connection
  event,            \* the rto_timer_event in each ring slot
  wheel,            \* the thread's timer wheel
  sent_req, completed_req, send_conn_id,
  pc,               \* the stage the thread is in
  todo,             \* connections epoll_wait reported and not drained yet
  cur,              \* the connection being drained
  pending,          \* pending_slots of the wheel stage
  cursor,           \* the event of the slot that was processed last
  closed_loop_done, \* set by the latency thread
  net,              \* datagrams in flight, per connection
  sock,             \* the receive buffer of each connection's socket
  armed,            \* connections with an edge epoll has not reported
  dups,             \* duplicates made so far
  due               \* history: the tick the timer in each wheel slot was set for

data == <<buf, event, wheel>>
counters == <<sent_req, completed_req, send_conn_id>>
control == <<pc, todo, cur, pending, cursor>>
channels == <<net, sock, armed, dups>>
vars == <<data, counters, control, channels, closed_loop_done, due>>

Messages == [id : Nat, by : Nat]

EventRecs == [send_id : Nat, recv_id : Nat, received_tick : Nat \cup {NotReceived},
              next_event : Events \cup {NULL}]

Init ==
  /\ buf = [c \in Conns |-> InitBuf]
  /\ event = [e \in Events |-> [send_id |-> 0, recv_id |-> 0, received_tick |-> 0,
                                next_event |-> NULL]]
  /\ wheel = InitTimerWheel(NULL)
  /\ sent_req = 0 /\ completed_req = 0 /\ send_conn_id = 0
  /\ pc = "send" /\ todo = {} /\ cur = 0 /\ pending = 0 /\ cursor = NULL
  /\ closed_loop_done = FALSE
  /\ net = [c \in Conns |-> << >>]
  /\ sock = [c \in Conns |-> << >>]
  /\ armed = [c \in Conns |-> FALSE]
  /\ dups = 0
  /\ due = [i \in WheelSlots |-> 0]

(* What the timing of the environment allows: time passes only while no    *)
(* datagram is overdue and the wheel is not too far behind.                *)
CanAdvance(us) ==
  /\ wheel.current_tick + us <= MaxTick
  /\ wheel.current_tick + us - DueTick(wheel) <= MaxLag
  /\ \A c \in Conns : \A k \in 1 .. Len(net[c]) :
        wheel.current_tick + us <= net[c][k].by
  /\ \A c \in Conns : \A k \in 1 .. Len(sock[c]) :
        wheel.current_tick + us <= sock[c][k].by

-----------------------------------------------------------------------------
(* Stage "send".                                                           *)

(* The id is the count of requests sent; past MAX_NUM_REQ a random index,  *)
(* and rand()%100*1000 is (rand()%100)*1000.                               *)
RequestIds(n) ==
  IF n > NumBatches * BatchStride
  THEN {k * BatchStride : k \in 0 .. NumBatches - 1}
  ELSE {n}

SendRequest ==
  LET c == send_conn_id
      e == <<c, buf[c].ack_head>>
  IN  /\ pc = "send" /\ ~closed_loop_done /\ sent_req < MaxSent
      /\ CanAcquire(buf[c])
      /\ buf' = [buf EXCEPT ![c] = Acquire(@)]
      /\ \E id \in RequestIds(sent_req), us \in SendCost :
           LET w == AdvanceTick(wheel, us)
               slot == ScheduledIndex(w)
               by == IF w.current_tick + MaxDelay < MaxTick
                     THEN w.current_tick + MaxDelay ELSE MaxTick
           IN  /\ CanAdvance(us)
               /\ net' = [net EXCEPT ![c] = Append(@, [id |-> id, by |-> by])]
               /\ wheel' = ScheduleEvent(w, e, slot)
               /\ event' = [event EXCEPT
                    ![e] = [send_id |-> id, recv_id |-> @.recv_id,
                            received_tick |-> NotReceived,
                            next_event |-> LinkAfter(w, slot, @.next_event, NULL)]]
               /\ due' = [due EXCEPT ![slot] = w.current_tick + RTO]
      /\ sent_req' = sent_req + 1
      /\ send_conn_id' = (send_conn_id + 1) % ConnPerThread
      /\ UNCHANGED <<completed_req, control, sock, armed, dups, closed_loop_done>>

(* The loop ends when no arrival is due, when the run is over, or when the *)
(* ring of the next connection is full.  epoll_wait then reports the       *)
(* connections that had an edge and are readable, without waiting.         *)
PollSockets ==
  LET ready == {c \in Conns : armed[c] /\ sock[c] # << >>}
  IN  /\ pc = "send"
      /\ armed' = [c \in Conns |-> FALSE]
      /\ todo' = ready
      /\ IF ready = {} THEN pc' = "wheel" /\ UNCHANGED cur
         ELSE pc' = "recv" /\ cur' \in ready
      /\ UNCHANGED <<data, counters, pending, cursor, net, sock, dups,
                     closed_loop_done, due>>

-----------------------------------------------------------------------------
(* Stage "recv".                                                           *)

WrongScanned(b) == {b.ack_tail} \cup (b.ack_tail + 1 .. b.ack_head - 2)

(* The slots compared with a reply: the tail, then those above it up to    *)
(* ack_head; none but the tail when ack_head is not above it.              *)
Scanned(b) == {b.ack_tail} \cup (b.ack_tail + 1 .. b.ack_head - 1)

LastScanned(b) == IF b.ack_tail + 1 < b.ack_head THEN b.ack_head - 1 ELSE b.ack_tail

WrongHits(c, id) ==                       \* replies are taken to come in order
  IF event[<<c, buf[c].ack_tail>>].send_id = id THEN {buf[c].ack_tail} ELSE {}

Hits(c, id) == {i \in Scanned(buf[c]) : event[<<c, i>>].send_id = id}

(* The slot that a reply is taken to answer: the first hit, or the last    *)
(* slot looked at when there is none.                                      *)
Stamps(c, id, i) ==
  IF Hits(c, id) = {} THEN i = LastScanned(buf[c])
  ELSE i \in Hits(c, id) /\ \A j \in Hits(c, id) : i <= j

(* The header is copied only on a hit, received_tick is set in any case.   *)
ReceiveReply ==
  /\ pc = "recv" /\ sock[cur] # << >>
  /\ \E us \in LoopCost, i \in BufSlots :
       LET id == Head(sock[cur]).id
           now == wheel.current_tick + us
       IN  /\ CanAdvance(us)
           /\ Stamps(cur, id, i)
           /\ wheel' = AdvanceTick(wheel, us)
           /\ event' = [event EXCEPT
                ![<<cur, i>>].recv_id = IF Hits(cur, id) = {} THEN @ ELSE id,
                ![<<cur, i>>].received_tick = now]
  /\ sock' = [sock EXCEPT ![cur] = Tail(@)]
  /\ completed_req' = completed_req + 1
  /\ UNCHANGED <<buf, sent_req, send_conn_id, control, net, armed, dups,
                 closed_loop_done, due>>

WrongDrained ==                           \* drained_flag is not set
  pc = "recv" /\ sock[cur] = << >> /\ UNCHANGED vars

(* max_retries calls in a row found nothing: on to the next connection or, *)
(* after the last, to the wheel, whose pending slots are counted now.      *)
Drained ==
  /\ pc = "recv" /\ sock[cur] = << >>
  /\ todo' = todo \ {cur}
  /\ IF todo' = {}
     THEN pc' = "wheel" /\ pending' = PendingSlots(wheel) /\ UNCHANGED cur
     ELSE cur' \in todo' /\ UNCHANGED <<pc, pending>>
  /\ UNCHANGED <<data, counters, cursor, channels, closed_loop_done, due>>

-----------------------------------------------------------------------------
(* Stage "wheel".                                                          *)

AckId(c) == event[<<c, buf[c].ack_tail>>].send_id

(* One event of the slot that is due.  Whatever the event's connection, it *)
(* is the ring of the head's connection that is reclaimed from.  An event  *)
(* without a reply is given its own id.                                    *)
Process(e, reclaims) ==
  LET c == DueHead(wheel)[1]
      unanswered == event[e].received_tick = NotReceived
      id == IF unanswered THEN event[e].send_id ELSE event[e].recv_id
  IN  /\ event' = [event EXCEPT ![e].recv_id = id]
      /\ buf' = IF reclaims THEN [buf EXCEPT ![c] = Reclaim(@, id, AckId(c))] ELSE buf
      /\ cursor' = e

(* Only the head is checked: a reply with another id, in time, reclaims    *)
(* nothing.                                                                *)
ProcessHead ==
  LET e == DueHead(wheel)
      unmatched == /\ event[e].received_tick # NotReceived
                   /\ event[e].received_tick <= DueTick(wheel)
                   /\ event[e].recv_id # event[e].send_id
  IN  /\ pc = "wheel" /\ pending > 0 /\ cursor = NULL /\ e # NULL
      /\ Process(e, ~unmatched)
      /\ UNCHANGED <<wheel, counters, pc, todo, cur, pending, channels,
                     closed_loop_done, due>>

ProcessNext ==
  /\ pc = "wheel" /\ cursor # NULL
  /\ event[cursor].next_event # NULL
  /\ Process(event[cursor].next_event, TRUE)
  /\ UNCHANGED <<wheel, counters, pc, todo, cur, pending, channels,
                 closed_loop_done, due>>

SlotDone ==
  /\ pc = "wheel" /\ pending > 0
  /\ IF cursor = NULL THEN DueHead(wheel) = NULL ELSE event[cursor].next_event = NULL
  /\ wheel' = AdvanceSlot(wheel, NULL)
  /\ pending' = pending - 1
  /\ cursor' = NULL
  /\ UNCHANGED <<buf, event, counters, pc, todo, cur, channels, closed_loop_done, due>>

(* The end of a turn of the main loop; its condition is read here.         *)
EndTurn ==
  /\ pc = "wheel" /\ pending = 0
  /\ \E us \in LoopCost :
       /\ CanAdvance(us)
       /\ wheel' = AdvanceTick(wheel, us)
  /\ pc' = IF closed_loop_done THEN "done" ELSE "send"
  /\ UNCHANGED <<buf, event, counters, todo, cur, pending, cursor, channels,
                 closed_loop_done, due>>

Thread ==
  \/ SendRequest \/ PollSockets
  \/ ReceiveReply \/ Drained
  \/ ProcessHead \/ ProcessNext \/ SlotDone \/ EndTurn

-----------------------------------------------------------------------------
(* The environment.                                                        *)

LatencyThreadDone ==
  /\ ~closed_loop_done
  /\ closed_loop_done' = TRUE
  /\ UNCHANGED <<data, counters, control, channels, due>>

RemoveAt(s, k) == SubSeq(s, 1, k - 1) \o SubSeq(s, k + 1, Len(s))

(* A reply reaches the socket and raises an edge.                          *)
Deliver(c) ==
  /\ \E k \in 1 .. Len(net[c]) :
       /\ k = 1 \/ "reorder" \in Faults
       /\ net' = [net EXCEPT ![c] = RemoveAt(@, k)]
       /\ sock' = [sock EXCEPT ![c] = Append(@, net[c][k])]
  /\ armed' = [armed EXCEPT ![c] = TRUE]
  /\ UNCHANGED <<data, counters, control, dups, closed_loop_done, due>>

Lose(c) ==
  /\ "loss" \in Faults
  /\ \E k \in 1 .. Len(net[c]) : net' = [net EXCEPT ![c] = RemoveAt(@, k)]
  /\ UNCHANGED <<data, counters, control, sock, armed, dups, closed_loop_done, due>>

Duplicate(c) ==
  /\ "dup" \in Faults /\ dups < MaxDups
  /\ \E k \in 1 .. Len(net[c]) : net' = [net EXCEPT ![c] = Append(@, @[k])]
  /\ dups' = dups + 1
  /\ UNCHANGED <<data, counters, control, sock, armed, closed_loop_done, due>>

Network == \E c \in Conns : Deliver(c) \/ Lose(c) \/ Duplicate(c)

(* The thread has returned and nothing is in flight any more.              *)
Finished ==
  /\ pc = "done" /\ closed_loop_done
  /\ \A c \in Conns : net[c] = << >>
  /\ UNCHANGED vars

Next == Thread \/ LatencyThreadDone \/ Network \/ Finished

Spec == Init /\ [][Next]_vars

(* The thread keeps running, the network delivers what it does not lose    *)
(* and the latency thread gets through its samples.                        *)
FairSpec ==
  /\ Spec
  /\ WF_vars(Thread)
  /\ \A c \in Conns : WF_vars(Deliver(c))
  /\ WF_vars(LatencyThreadDone)
-----------------------------------------------------------------------------
(* Properties.                                                             *)

(* Every variable has its type; for the rings and the wheel this includes  *)
(* that every index is inside its array.                                   *)
TypeOK ==
  /\ buf \in [Conns -> MultiDestBuffers]
  /\ event \in [Events -> EventRecs]
  /\ wheel \in Wheels(Events \cup {NULL})
  /\ sent_req \in Nat /\ completed_req \in Nat /\ send_conn_id \in Conns
  /\ pc \in {"send", "recv", "wheel", "done"}
  /\ todo \subseteq Conns /\ cur \in Conns
  /\ pending \in Nat /\ cursor \in Events \cup {NULL}
  /\ closed_loop_done \in BOOLEAN
  /\ net \in [Conns -> Seq(Messages)]
  /\ sock \in [Conns -> Seq(Messages)]
  /\ armed \in [Conns -> BOOLEAN]
  /\ dups \in Nat
  /\ due \in [WheelSlots -> Nat]

WheelWindow == OneRevolution(wheel) /\ DueTick(wheel) <= wheel.current_tick

BatchReachesNow == pc = "wheel" /\ pending > 0 => DueTick(wheel) + pending = wheel.current_tick

(* The slots of the wheel always stand for one revolution of consecutive   *)
(* ticks, and the wheel never runs ahead of the clock: however late the    *)
(* main loop comes to it, a batch of slots that was counted before it was  *)
(* processed ends exactly at the current tick, which nothing that the      *)
(* batch does moves.                                                       *)
WheelInStep == WheelWindow /\ BatchReachesNow

(* No timer is put in a slot whose turn comes after the tick the timer was *)
(* set for, however far the wheel lags, as long as that tick fits the word *)
(* the slot is computed in.                                                *)
TimersNeverLate ==
  \A i \in WheelSlots :
     wheel.event_head[i] # NULL /\ SlotIsExact(due[i]) => wheel.tick[i] <= due[i]

(* A timer sits in the slot of the very tick it was set for, as long as    *)
(* that tick fits the word.  This needs the wheel to lag by less than      *)
(* WheelSize - RTO ticks, otherwise the slot still has the tick of one     *)
(* revolution earlier.                                                     *)
TimersOnTime ==
  \A i \in WheelSlots :
     wheel.event_head[i] # NULL /\ SlotIsExact(due[i]) => wheel.tick[i] = due[i]

(* What a ring counts as outstanding was sent and not retired since, in    *)
(* whatever order replies and timeouts reclaimed the other slots.          *)
WindowIsSent ==
  \A c \in Conns : \A i \in Window(buf[c]) : buf[c].out_of_order_map[i] = Sent

(* "ack_head: an index to lowest continous and avialable req index": when  *)
(* a ring has a slot to give, no request is outstanding in that slot.      *)
FreeSlotsAreFree ==
  \A c \in Conns : CanAcquire(buf[c]) => buf[c].out_of_order_map[buf[c].ack_head] # Sent

(* The event reached from e by n next_event links, NULL past the end.      *)
Follow(e, n) ==
  LET f[k \in 0 .. n] ==
        IF k = 0 THEN e ELSE IF f[k - 1] = NULL THEN NULL ELSE event[f[k - 1]].next_event
  IN  f[n]

NumEvents == ConnPerThread * BufSize

Linked == {Follow(wheel.event_head[i], n) : i \in WheelSlots, n \in 0 .. NumEvents - 1}

(* The list of events of every slot ends, so that the walk over it does:   *)
(* no event is linked into a list it is already in.                        *)
ListsEnd == \A i \in WheelSlots : Follow(wheel.event_head[i], NumEvents) = NULL

(* A request that occupies a ring slot is on the list of a wheel slot,     *)
(* which will reclaim it; without a timer the slot would be lost for good. *)
(* Inside the wheel stage an event is processed before its slot is, so the *)
(* property is about the states in which the thread is about to send.  It  *)
(* needs every tick to fit the word the slots are computed in.             *)
OutstandingHasTimer ==
  pc = "send" => \A c \in Conns : \A i \in Window(buf[c]) : <<c, i>> \in Linked

(* A request that counts as answered was given the reply to its own id,    *)
(* although replies come reordered and duplicated and the code stamps some *)
(* slot for every datagram, matching or not.  This needs timers that give  *)
(* a reply its RTO, and so ticks that fit the word of the slots.           *)
AnswersAttributed ==
  \A c \in Conns : \A i \in Window(buf[c]) :
     LET e == event[<<c, i>>]
     IN  e.received_tick # NotReceived => e.recv_id = e.send_id

(* The reply to a request that is still outstanding is recorded with that  *)
(* request, wherever in the window its slot is.                            *)
ReplyFindsOwner ==
  [][\A i \in BufSlots :
       /\ completed_req' # completed_req /\ i \in Window(buf[cur])
       /\ event[<<cur, i>>].send_id = Head(sock[cur]).id
       => /\ event'[<<cur, i>>].recv_id = Head(sock[cur]).id
          /\ event'[<<cur, i>>].received_tick # NotReceived]_vars

(* A slot leaves the ring only when its own event is processed, not on     *)
(* behalf of another request, of this connection or of another one.  This  *)
(* too needs ticks that fit: past the word a newer timer may be due first. *)
RetiresOwnSlot ==
  [][\A c \in Conns : buf'[c].ack_tail # buf[c].ack_tail
                       => cursor' = <<c, buf[c].ack_tail>>]_vars

(* "so there shouldn't be a timeout if we use ticks": a reply that came by *)
(* the tick the timer was set for is not found late when the tick of the   *)
(* slot is compared with it.                                               *)
AnsweredNotTimedOut ==
  \A i \in WheelSlots :
     LET e == wheel.event_head[i]
     IN  e # NULL => \/ event[e].received_tick = NotReceived
                     \/ event[e].received_tick > due[i]
                     \/ event[e].received_tick <= wheel.tick[i]

(* Once the latency thread is through its samples the load thread returns: *)
(* it gets stuck neither in the receive loop nor in a list of the wheel.   *)
ThreadExits == closed_loop_done ~> pc = "done"

-----------------------------------------------------------------------------
(* The requests a ring holds, oldest first: what the rings, the events and *)
(* the wheel amount to for somebody who only counts requests.              *)
Outstanding(c) ==
  LET b == buf[c]
      size == IF b.isfull THEN BufSize ELSE (b.ack_head - b.ack_tail) % BufSize
      slot(k) == (b.ack_tail + k - 1) % BufSize
  IN  [k \in 1 .. size |-> [id |-> event[<<c, slot(k)>>].send_id,
                            answered |-> event[<<c, slot(k)>>].received_tick # NotReceived]]

Requests == INSTANCE RequestWindow WITH
  Capacity <- BufSize, outstanding <- [c \in Conns |-> Outstanding(c)]

(* The client implements the window of requests: they leave in the order   *)
(* they were sent, one at a time, none is forgotten, and the answer to one *)
(* is noted once and stays noted until it leaves.                          *)
KeepsWindow == Requests!Spec
=============================================================================

-------------------------- MODULE RedirectionServer --------------------------
(***************************************************************************)
(* src/multithread/redirection_udp_server.c: a drain loop like that of     *)
(* timerwheel_server.c which keeps the time at which each request came,    *)
(* and a handler for SIGINT and SIGTERM that writes the times to a file,   *)
(* frees them and has the process killed by the signal.                    *)
(*                                                                         *)
(* The handler runs in the loop's thread: the loop stands still meanwhile, *)
(* and never goes on, as the signal is pending when the handler returns.   *)
(* But the other signal may come in the handler, and either may come while *)
(* the program is still being set up.  A handler that finds memory freed   *)
(* or the file not open crashes, or gets through if that is possible.      *)
(*                                                                         *)
(* Left out: recvfrom failing for another reason than an empty socket and  *)
(* datagrams of another length; counters and array of intervals, which     *)
(* nobody reads; what the reply says of the server's load and its type;    *)
(* the delays; a second signal in the middle of the handler's loop, which  *)
(* is let in before and after it.                                          *)
(***************************************************************************)
EXTENDS EpollSockets

CONSTANTS
  Signals,       \* SIGINT, SIGTERM
  MaxRefused     \* bound: replies that sendto refuses

ASSUME RedirectionAssumption == IsFiniteSet(Signals) /\ MaxRefused \in Nat

MaxStamps == NumSockets * MaxRequests

VARIABLES
  pc,                  \* "start", "wait", "recv", "stamp", "count" or "send"
  todo,                \* reported sockets that are not drained yet
  cur,                 \* the socket being drained, e->data.fd
  drained_flag,
  request,             \* alt_recv_header and clntAddr
  req_pkt_counter,
  rx_timestamps,       \* the request whose coming a time is that of, or 0
  received,            \* history: requests received
  refused,             \* history: replies refused
  handling,            \* signals that have come
  phase,               \* of the innermost handler: "dump", "close", "free" or "kill"
  rxts_fp,             \* "none", "open" or "closed"
  written,             \* the lines of the file
  freed,               \* rx_timestamps and inter_request_intervals are
  exit                 \* "no", "killed" or "crashed"

kernel == <<arrived, sock, armed, replies>>
loop == <<pc, todo, cur, drained_flag, request>>
stamps == <<req_pkt_counter, rx_timestamps, received, refused>>
handler == <<handling, phase, rxts_fp, written, freed, exit>>
server == <<loop, stamps, handler>>

InitServer ==
  /\ InitSockets
  /\ pc = "start" /\ todo = {} /\ cur = 1 /\ drained_flag = FALSE /\ request = <<0, 0>>
  /\ req_pkt_counter = 0 /\ rx_timestamps = [i \in 0 .. MaxStamps |-> 0]
  /\ received = 0 /\ refused = 0
  /\ handling = {} /\ phase = "dump" /\ rxts_fp = "none" /\ written = << >>
  /\ freed = FALSE /\ exit = "no"

Running == handling = {} /\ exit = "no"

(* The end of the set-up.                                                  *)
OpenFile ==
  /\ pc = "start"
  /\ pc' = "wait" /\ rxts_fp' = "open"
  /\ UNCHANGED <<kernel, todo, cur, drained_flag, request, stamps, handling, phase, written,
                 freed, exit>>

EpollWait ==
  /\ pc = "wait" /\ Readable # {}
  /\ Report
  /\ pc' = "recv"
  /\ todo' = Readable
  /\ cur' \in Readable
  /\ UNCHANGED <<arrived, sock, replies, drained_flag, request, stamps, handler>>

Receive ==
  /\ pc = "recv" /\ sock[cur] # << >>
  /\ pc' = "stamp" /\ drained_flag' = FALSE
  /\ request' = Head(sock[cur])
  /\ TakeFirst(cur)
  /\ received' = received + 1
  /\ UNCHANGED <<arrived, armed, replies, todo, cur, req_pkt_counter, rx_timestamps, refused,
                 handler>>

StaysEmpty(f) == sock[f] = << >>

(* max_retries calls in a row found the socket empty.                      *)
Drained ==
  /\ pc = "recv" /\ StaysEmpty(cur)
  /\ pc' = "stamp" /\ drained_flag' = TRUE
  /\ UNCHANGED <<kernel, todo, cur, request, stamps, handler>>

NextSocket ==
  /\ todo' = todo \ {cur}
  /\ IF todo' = {} THEN pc' = "wait" /\ UNCHANGED cur
     ELSE pc' = "recv" /\ cur' \in todo'

WrongStamp ==                             \* counts before it looks at drained_flag
  /\ pc = "stamp"
  /\ rx_timestamps' =
       [rx_timestamps EXCEPT ![req_pkt_counter] = IF drained_flag THEN 0 ELSE received]
  /\ pc' = "count"
  /\ UNCHANGED <<kernel, todo, cur, drained_flag, request, req_pkt_counter, received, refused,
                 handler>>

(* The time is taken before drained_flag is looked at: that of a receive   *)
(* which found nothing is overwritten by the next.                         *)
Stamp ==
  /\ pc = "stamp"
  /\ rx_timestamps' =
       [rx_timestamps EXCEPT ![req_pkt_counter] = IF drained_flag THEN 0 ELSE received]
  /\ IF drained_flag THEN NextSocket ELSE pc' = "count" /\ UNCHANGED <<todo, cur>>
  /\ UNCHANGED <<kernel, drained_flag, request, req_pkt_counter, received, refused, handler>>

Count ==
  /\ pc = "count"
  /\ pc' = "send"
  /\ req_pkt_counter' = req_pkt_counter + 1
  /\ UNCHANGED <<kernel, todo, cur, drained_flag, request, rx_timestamps, received, refused,
                 handler>>

(* The count that sendto returns is not the one the code looks at: whether *)
(* the kernel took the reply or refused it, it is not tried again.         *)
Sent == ReplyTo(request) /\ UNCHANGED refused

NotSent == refused < MaxRefused /\ refused' = refused + 1 /\ UNCHANGED replies

AfterSend ==
  /\ pc = "send"
  /\ pc' = "recv"
  /\ UNCHANGED <<arrived, sock, armed, todo, cur, drained_flag, request, req_pkt_counter,
                 rx_timestamps, received, handler>>

Loop == Running /\ (OpenFile \/ EpollWait \/ Receive \/ Drained \/ Stamp \/ Count)
Replies == Running /\ AfterSend /\ Sent
Fails == Running /\ AfterSend /\ NotSent
-----------------------------------------------------------------------------
(* Each signal is blocked while it is handled, the other is not.           *)
Signal ==
  \E s \in Signals \ handling :
    /\ exit = "no"
    /\ handling' = handling \cup {s}
    /\ phase' = "dump"
    /\ UNCHANGED <<kernel, loop, stamps, rxts_fp, written, freed, exit>>

Handles(p) == exit = "no" /\ handling # {} /\ phase = p

Crash ==
  /\ exit' = "crashed"
  /\ UNCHANGED <<kernel, loop, stamps, handling, phase, rxts_fp, written, freed>>

WrongDumped == [i \in 1 .. req_pkt_counter |-> rx_timestamps[i]]    \* index <= req_pkt_counter

Dumped == [i \in 1 .. (req_pkt_counter - 1) |-> rx_timestamps[i]]

(* The first request is left out: its time is the reference of the others. *)
Dump ==
  /\ Handles("dump")
  /\ \/ /\ freed => req_pkt_counter <= 1
        /\ written' = IF rxts_fp = "open" THEN written \o Dumped ELSE written
        /\ phase' = "close"
        /\ UNCHANGED <<kernel, loop, stamps, handling, rxts_fp, freed, exit>>
     \/ req_pkt_counter > 1 /\ (freed \/ rxts_fp # "open") /\ Crash

Close ==
  /\ Handles("close")
  /\ \/ /\ rxts_fp # "none"
        /\ rxts_fp' = "closed" /\ phase' = "free"
        /\ UNCHANGED <<kernel, loop, stamps, handling, written, freed, exit>>
     \/ rxts_fp # "open" /\ Crash

Free ==
  /\ Handles("free")
  /\ IF freed THEN Crash
     ELSE /\ freed' = TRUE /\ phase' = "kill"
          /\ UNCHANGED <<kernel, loop, stamps, handling, rxts_fp, written, exit>>

(* kill, which takes effect when the handler returns.                      *)
Kill ==
  /\ Handles("kill")
  /\ exit' = "killed"
  /\ UNCHANGED <<kernel, loop, stamps, handling, phase, rxts_fp, written, freed>>

Handler == Dump \/ Close \/ Free \/ Kill
-----------------------------------------------------------------------------
ServerOK ==
  /\ SocketsOK
  /\ pc \in {"start", "wait", "recv", "stamp", "count", "send"}
  /\ todo \subseteq Sockets /\ cur \in Sockets
  /\ drained_flag \in BOOLEAN
  /\ request \in Requests \cup {<<0, 0>>}
  /\ req_pkt_counter \in 0 .. MaxStamps /\ received \in 0 .. MaxStamps
  /\ rx_timestamps \in [0 .. MaxStamps -> 0 .. MaxStamps]
  /\ refused \in 0 .. MaxRefused
  /\ handling \subseteq Signals
  /\ phase \in {"dump", "close", "free", "kill"}
  /\ rxts_fp \in {"none", "open", "closed"}
  /\ written \in Seq(0 .. MaxStamps)
  /\ freed \in BOOLEAN /\ exit \in {"no", "killed", "crashed"}
  /\ pc \in {"recv", "stamp", "count", "send"} => cur \in todo
  /\ pc \in {"count", "send"} => request \in Requests

(* A request that has been received and has neither an answer nor none.    *)
InHand == pc = "count" \/ pc = "send" \/ (pc = "stamp" /\ ~drained_flag)

(* "Dump request timestamp logs": when one signal has ended the server,    *)
(* the file has the times of the second request and all after it, each     *)
(* once and in order, but for the one in hand; no receive that found       *)
(* nothing has left its time among them.                                   *)
DumpExact ==
  exit = "killed" /\ Cardinality(handling) = 1 =>
    /\ \A i \in 1 .. Len(written) : written[i] = i + 1
    /\ Len(written) >= received - (IF InHand THEN 2 ELSE 1)
=============================================================================

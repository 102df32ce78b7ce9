# TLA+ models of the kvstore testbed

`src/` is a load-generation testbed in C: clients send small requests through a
router (BESS or DPDK, not part of the repository) to servers that echo them, and
measure rates and latencies. There is no key-value store in it yet (`kv_app.c`
is empty) and no prose documentation; what the code is meant to do is said in
comments, which the findings below quote.

This directory holds TLA+ models of the parts that keep state and decide
something, TLC configurations that check them on small instances, and TLAPS
proofs of theorems about them for every value of the constants.
`PROJECT.json` names, for every definition that models code, the lines it was
translated from.

## The system

| part | source (`src/multithread/`) | state | operations | status |
|---|---|---|---|---|
| ring of outstanding requests | `multi_dest_protocol.c` | `ack_head`, `ack_tail`, `isempty`, `isfull`, a mark per slot | acquire, reclaim | modelled, proved about |
| timer wheel | `multi_dest_protocol.c` | lists of events per slot, their ticks, processed index, current tick | schedule, advance, process a slot | modelled, proved about |
| open-loop load thread | `timerwheel_openloop_client.c` | rings and events of its connections, one wheel, sockets | send, poll, receive, process the wheel, end | modelled, proved about |
| latency threads, run control | `udp_mtclient.c`, `timerwheel_openloop_client.c` | `closed_loop_done`, samples taken | start the threads, request and blocking answer, end of the run | modelled, proved about |
| drain server | `timerwheel_server.c` | sockets, per-socket counters, log | epoll turn that empties each socket | modelled, proved about; its feedback thread is not |
| round-robin server | `timerwheel_roundrobin_server.c` | the same, ready flags | epoll turn in passes | modelled, proved about |
| one-shot server, feedback | `udp_epollserver.c` | sockets, `queued_events` | one datagram per edge; periodic load report | modelled, proved about; its feedback thread is never started (268) |
| TCP server | `tcp_epollserver.c` | accepted connections, the event in hand, bytes of its message | accept, ignore, receive, answer | modelled, proved about |
| TCP multi-threaded client | `tcp_mtclient.c` | turn of the sender, bytes of the message read, samples taken | connect, send when due, poll, closed-loop request, closing | partly, proved about: one open-loop thread |
| closed-loop client | `timerwheel_closedloop_client.c` | one request, two waits for its reply | send, time out, send again | modelled, proved about |
| UDP multi-threaded client | `udp_mtclient.c` | counts of requests and replies, the flag | open and closed loops | modelled, proved about |
| baseline client | `timerwheel_baseline_client.c` | the router's address all threads write, counts | sleep and start threads, send when due, drain, end | modelled, proved about; its latency threads are those of the UDP client |
| redirection server | `redirection_udp_server.c` | sockets, the times requests came at, their file | epoll turn, dump on a signal | modelled, proved about |
| redirection client | `redirection_udp_client.c` | where each connection sends, counts of requests and replies | choose a replica, send when due, drain what is reported, end | partly, proved about: one thread |
| routing map | `map_containers.cc` | from host to switch | insert, look up | modelled, proved about |
| sleep helper | `nanosleep.h` | time added up | read the clock until there is enough | modelled, proved about |
| timestamping | `timestamping.c`, `udp_timestamped_server.c` | time stamps on the error queue | send, fetch the stamp | not modelled, see the end |
| single-connection client | `udp_client.c` | none | blocking send and receive | not modelled: a latency thread without company |
| random distributions | `cpp_dist.cc`, `dist_gen.cc` | generators of the C++ library | draw | not modelled: arrival times are arbitrary |
| socket experiments, samples, tests | `../socket_test/`, `multidest_test.c`, ... | none that outlives a call | straight-line I/O | not modelled; read as evidence |

**How they interact.** A client process runs several load threads and latency
threads. They share one flag, `closed_loop_done`, and in the baseline client the
router's address; everything else (rings, wheel, sockets, epoll instance) belongs
to one thread. Client and server exchange
datagrams with a 32-bit request id; the server copies the header back. Inside a
process the calls are direct: the load thread calls the ring to get a slot, the
wheel keeps pointers into the ring's array of events, and processing the wheel
calls the ring to give slots back.

**Where it is hard.** Nothing acknowledges anything but the replies themselves,
so loss, duplication and reordering reach the ring and the wheel directly; the
wheel is driven by the same loop it serves and lags behind the clock whenever
the loop does something else; events are linked through pointers stored in ring
slots that are reused; the rings are cyclic buffers with full and empty flags;
epoll is used edge-triggered, where a datagram left behind is not reported
again; counters and logs are kept by a loop that is interrupted by arrivals at
every point; threads wait for replies without a timeout, and for each other. `PROJECT.json` ("hazards") lists each one at its line.

## Modules

### `MultiDestBuffer`, `TimerWheel`

The two data structures as operators on records, one operator per C function or
stage of it, parameterised by `BufSize`, `WheelSize` and `RTO`. They have no
variables, so that each connection can have a ring. A ring slot is `Unused`,
`Sent` or `Received`, the values the code keeps in `out_of_order_map`.

### `OpenLoopClient`

One thread of the open-loop client with `ConnPerThread` connections and the
network around it.

| code | model |
|---|---|
| `conn_list[c].buffer`, `.send_timer` | `buf[c]`, `event[<<c, i>>]` |
| the wheel, pointers to events | `wheel`, pairs `<<c, i>>` or `NULL` |
| the send loop (121-189) | `SendRequest`, repeated until `PollSockets` |
| `epoll_wait(.., 0)` (190-198) | `PollSockets` |
| receive loops (199-310) | `ReceiveReply`, `Drained` |
| wheel (311-333), `processing_openloop_timer_wheel` | `ProcessHead`, `ProcessNext`, `SlotDone` |
| end of the main loop (335-401) | `EndTurn` |
| end of a latency thread (493) | `LatencyThreadDone` |
| UDP, router, server (external) | `Deliver`, `Lose`, `Duplicate` |

Time is the wheel's tick. Each stage takes some ticks out of `SendCost` or
`LoopCost`; `MaxDelay` and `MaxLag` bound how late datagrams and wheel may be.
`due` is a history variable: the tick a timer was meant for. Each action is one
iteration of a loop of the code, with everything the iteration does.

### `RequestWindow`

What a user of the ring counts on: a FIFO window per connection. Requests enter
at one end, may be answered while they are inside, once and for good, and leave
at the other end one at a time. `OpenLoopClient!KeepsWindow` says that rings,
events and wheel together implement it, with the refinement mapping
`Outstanding`.

### `EpollSockets`, `EchoService`, `UdpDrainServer`, `RoundRobinServer`

`EpollSockets` (external) has the kernel's side of a server: receive buffers and
edges. `EchoService` is what a server promises: each request that arrives is
answered, exactly once, and only a request whose reply the kernel refuses goes
without. The two servers extend the first and refine the second
(`KeepsEcho`), with their counters, logs and ready flags; the mapping takes the
requests in the buffers, and the one in the server's hands, as those waiting.

| code | `UdpDrainServer` | `RoundRobinServer` |
|---|---|---|
| `epoll_wait(.., -1)` | `EpollWait` | `EpollWait`, `ReadyFlags` |
| `recvfrom` with a datagram | `Receive` | `Receive` |
| `sendto` | `Send` | `Send` |
| `max_retries` times `EAGAIN` | `Drained` | `Drained` |
| socket found empty earlier | | `SkipDrained` |
| log, counters | `EndTurn` | `EndTurn` |

### `OneShotServer`, `ClosedLoopClient`, `ClosedLoopEcho`

`OneShotServer` extends `EpollSockets` with a loop that takes one datagram per
reported socket. `ClosedLoopClient` is the client that has one request at a time.
`ClosedLoopEcho` puts them on the two ends of a network that reorders and
loses: `up` and `down` are the datagrams on the way, `carried` remembers which
datagram of the client a request in the server is, and the other connections send when
they like. The server's reply has `request_id` 0 whatever it answers; the model
knows a reply by the datagram it answers only to be able to say whose it was.

| code | model |
|---|---|
| `epoll_wait` (server 311) | `EpollWait` |
| `recvfrom` and its retries (365-400) | `Receive`; on an empty socket the action, and the server, wait |
| `sendto` (406-444), next event (323) | `SendReply`, `SendFails`, `NextEvent` |
| first send, second send (client 89-102, 147-159) | `SendRequest`, `SendAgain` |
| first wait: reply, 100 us (108-139) | `Accept`, `TimesOut` |
| second wait (162-189): look at the clock, then block | `Block`, then `Accept`; or `GivesUp` |
| end of the iteration (190-207) | `EndIteration` |

Both waits can end by chance on either side of the 100 us, so time is not
modelled: a timeout may happen whenever the socket is empty, and the thread may
or may not be away for 100 us between the second send and the look at the clock.

### `TcpStreams`, `TcpServer`, `TcpClient`, `TcpTestbed`

`TcpStreams` (external) is what lies between the TCP programs: the backlog and
its edge, two byte counts per direction of a connection (on the way, arrived)
and the edges of both epoll instances. The server and the client's threads are
modules of their own and `TcpTestbed` interleaves them. The last connection is
the closed-loop one, as in the code (comment at `tcp_epollserver.c:143`).

| code | model |
|---|---|
| `connect` (client 474, 517) | `Connect`; threads start when all are made (`Started`) |
| `epoll_wait` (server 224) | `EpollWait` |
| `TCPSocketAceept` (256) | `Accept` |
| connections missing (276-280) | `Ignore`: the event and its edge are gone |
| `recv` loop (308-344) | `Receive`, one call that returns bytes; without any the action, and the server, wait |
| `recv` of nothing, or failing (315-338) | `PeerClosed` |
| `send` loop (350-380) | `Send`, which waits for room |
| open-loop thread: due (135), `send` (158), `epoll_wait` (211), `recv` (219) | `Due`, `SendRequest`, `Poll`, `ReceiveReply`, `EndTurn` |
| latency thread (353-406) | `LatencySends`, `LatencyReceives` |

All `recv` calls ask for 20 bytes even when the loop is short of fewer; `Taken`
keeps that, so a message can be read across its boundary in the model as in the
code. An accepted socket is watched for `EPOLLOUT` as well, so it is reported
at once, whether or not there is anything to read.

### `RedirectionServer`, `RedirectionClient`, `RedirectionTestbed`

`RedirectionServer` extends `EpollSockets` with the loop and the signal handler.
The handler runs in the loop's thread, so the loop stands still once a signal has
come (`Running`); the other signal may interrupt the handler, and both may come
during the set-up. `RedirectionClient` is a thread that chooses where to send, and counts replies;
`RoutingMap` is the table it looks the way up in, built from the lines of a file;
`RedirectionTestbed` puts a lossy network between client and server.

| code | model |
|---|---|
| end of the set-up, `fopen` (server 358) | `OpenFile` |
| `epoll_wait(.., -1)` (375) | `EpollWait` |
| `recvfrom` (399), `max_retries` times `EAGAIN` (415) | `Receive`, `Drained` |
| `rx_timestamps[req_pkt_counter] = ts1`, then `drained_flag` (462-470) | `Stamp` |
| `req_pkt_counter++` (478, 486) | `Count` |
| `sendto` (520-580) | `Sent` or `NotSent`, after which the loop goes on alike |
| `signal_handler` (131-156) | `Signal`, then `Dump`, `Close`, `Free`, `Kill` |
| undefined in it: closing a file that is closed, freeing twice, reading freed memory | `Crash`, or the step is got through where it could be |
| client: send when due (111), `epoll_wait(.., 0)` (157), `recvfrom` (173), end (108) | `SendRequest`, `Poll`, `ReceiveReply`, `SocketDrained`, `Finish` |
| the address a request goes to (118-144), overwritten by `recvfrom` | `Address`, `server_addr`, `TakeReply` |
| `map_insert` (12), `map_lookup` | `map_insert`, `map_lookup`, `routing_map` |

A time is represented by the rank of the request that came then; the time of a
receive that found nothing is 0.

### `UdpMtClient`, `UdpMtTestbed`

`UdpMtClient` is a whole client process: main, load threads, latency threads and the
flag between them. `UdpMtTestbed` puts it and `OneShotServer` on a network that
delays, reorders and loses. A load thread's connection has a server port of its own;
the latency threads all have the one after those, because `recv_port_start` is not
advanced between them (line 564): `PortOf`. `from` remembers whose request
is in the server, `bereft` which latency threads have lost a datagram.

| code (`udp_mtclient.c`) | model |
|---|---|
| main: create load threads, clear the flag, create latency threads, join (591-638) | `CreateLoad`, `ClearFlag`, `CreateLatency`, `Join` |
| load thread: barrier, due, send, poll, receive, end (93-226) | `PassBarrier`, `Due`, `SendRequest`, `Poll`, `ReceiveReply`, `LoadEnds` |
| latency thread: send, blocking receive, set the flag (228-321) | `LatencySends`, `LatencyReceives`, `LatencyEnds` |
| UDP (external) | `RequestArrives`, `ReplyArrives`, `Lose` |

### `NanoSleep`, `BaselineClient`

`NanoSleep` is the busy wait `realnanosleep` with a clock of seconds and
nanoseconds. `BaselineClient` is main, which sleeps before each thread it
starts, and the load threads, which share `routerAddr`. The network, router and
server are one environment that sends back from the port it was sent to.

| code (`timerwheel_baseline_client.c`) | model |
|---|---|
| `realnanosleep` before a thread (627) | `BeginSleep`, `ReadClock`, `Create` |
| write the port into `routerAddr`, then `sendto` (180-183) | `Route`, then `SendTo`; a direct client only does the second |
| `recvfrom` into the connection's `server_addr` (222) | `Receive` |
| `epoll_wait`, empty socket, end | `Poll`, `Drained`, `Finish` |

Definitions called `Wrong...` are variants with a plausible mistake in them. No
specification uses them; they are there to show that a property would notice.

## What TLC checks

| run | question | states |
|---|---|---|
| `openloop_chaos` | what holds of rings and wheel whatever the network and the clock do | 844 000 |
| `openloop_answers` | that answers are never confused, and the refinement of `RequestWindow` | 473 000 |
| `openloop_timeouts` | that timers retire what they were set for, and the thread ends | 36 000 |
| `drain_server` | stranding, log, echo service (with liveness) | 68 000 |
| `roundrobin_server` | the same without the log; how many requests a turn serves | 228 000 |
| `closedloop_oneshot` | what a client that retransmits gets from a server that leaves datagrams behind | 583 000 |
| `tcp_testbed` | what edges, short reads and full buffers do to the TCP server and its client | 348 000 |
| `redirection_testbed` | what a signal leaves in the file, where requests go, and whether counting replies ends the client | 1 195 000 |
| `udp_mt_testbed` | how a run starts and ends, and what the latency threads' shared server socket means for it | 325 000 |
| `baseline_client` | threads that write one router address; a sleep across the end of a second | 230 000 |
| `openloop_wrap_violation`, `openloop_lag_violation` | two disagreements of code and comment, below | - |

**`openloop_chaos`** has two connections with rings of two slots that wrap and
fill, a wheel of three slots, ids that repeat, and all faults at any delay:
indices stay in their arrays (`TypeOK`), the wheel is one revolution of
consecutive ticks, and processing a batch of slots takes it to the current one
(`WheelInStep`), no timer whose tick fits the word that slots are computed in is put in a slot that is due after it
(`TimersNeverLate`; the word has four values here, and the ticks outgrow it), and what a ring counts as outstanding is marked as sent
(`WindowIsSent`).

**`openloop_answers`** and **`openloop_timeouts`** say under which conditions
more is true. None of them is enforced by the code, and each is needed:

* *No ring wraps*: each connection sends fewer requests than its ring has slots. Once
  a ring has wrapped, the search for the request a reply answers stops at the tail (hazard at
  `timerwheel_openloop_client.c:270`); see `openloop_wrap_violation`. In the
  program a connection's ring has 100000 slots (line 598), so this speaks of a
  connection's first 99999 requests. Only the refinement of the window outlives them
  (`OnlyLateDropsForget`, below).
* *Replies take at most the RTO* (`MaxDelay <= RTO`). A later one marks another
  request as answered: `received_tick` is set for the slot the search ended at.
* *The wheel is prompt* (`MaxLag + RTO < WheelSize`), else timers land a
  revolution early; see `openloop_lag_violation`.
* *The tick fits 32 bits* (`TickWord`; `SlotIsExact` in a property, `TicksFit` in a theorem). The client
  computes a timer's slot from the tick cut to 32 bits (`timerwheel_openloop_client.c:178`), and its
  wheel has 5000 slots (line 685), which do not divide 2^32: 2^32 mod 5000 is 2296. So after the first 2^32 us of a
  thread, 71.6 minutes, a timer meant for 2500 ticks ahead (line 689) lands 204 ticks
  ahead, and a request whose reply comes later than that, well within the RTO, is retired as timed out; at the crossing new
  timers are due before older ones. After 2^33 us it lands 2908 ticks ahead, which is too
  late, and so on. With a `TickWord` of 2 to 6 in the cfgs TLC finds `AnswersAttributed`,
  `OutstandingHasTimer` and `RetiresOwnSlot` violated, and a prompt reply taken for a late one
  (`AnsweredNotTimedOut`) without any lag. What does not need the slots' ticks
  (`ReplyFindsOwner`, `KeepsWindow`, `ListsEnd`) holds beyond. No comment says how long a thread may run.
* *At most one send per tick* (`SendCost = {1, 2}`), only in `openloop_timeouts`.
  With two in a tick the list of the slot is newest first, the newest request
  retires the oldest slot, the oldest is taken for late, and one slot keeps no
  timer: `OutstandingHasTimer` fails.

Under them, answers go to their own request although datagrams are reordered
and duplicated (`AnswersAttributed`, `ReplyFindsOwner`), lists end
(`ListsEnd`), the client implements the window (`KeepsWindow`), every
outstanding request keeps a timer (`OutstandingHasTimer`) that retires its own
slot (`RetiresOwnSlot`), and the thread returns after the latency thread has
(`ThreadExits`).

**`drain_server`**: when the loop waits every socket with requests has an edge
to come (`NoStranded`), each log line after the first is the turn's requests
(`LogAccounts`), and the server implements `EchoService` with its liveness,
where the reply to one request may be refused (`KeepsEcho`).

**`roundrobin_server`**: a turn ends by counting visits of drained sockets, not
drained sockets. It takes four requests of a socket or drains it before it can
end (`ServesFour`), so with at most four datagrams in a receive buffer nothing
is stranded, and the echo service is kept with its liveness (`KeepsEcho`). With `Backlog = 5` TLC finds the turn
that leaves a request behind with no edge to come: two sockets, one with a single
request and one with five. No comment promises otherwise, so this is a hazard with a
bound and not a finding.

**`closedloop_oneshot`**: the server reads one datagram per edge, so when the
copy and the original of a request come together one stays in the socket, and from then
on every request pushes out the one before it. The run shows how far this goes. A
waiting client nevertheless has an answer to come, unless a datagram was lost
since it last sent (`AnswerToCome`), because its own send raises the edge; what stays in
the socket is no more than the client sent twice or did not wait for
(`StrandedByTimeouts`); up to its first timeout each answer it takes is that of
the request it waits for, although it does not look (`AnswersOwn`); the server never
enters the endless retry on an empty socket (`NeverSpins`); it answers nothing twice
and forgets only what it cannot send (`AnswersOnce`); and the client gets through
its iterations unless its answer is lost while it is in the wait that has no
timeout (`ClientFinishes`). Here the server does *not* have the liveness of
`EchoService`: stranded requests may never be answered, so only the safety part is
stated. The run has two iterations, a loss, one refused reply and a second
connection with two requests: enough for both copies of the first request to be in the
server, in the socket or in the client's buffer when the second is sent.

**`tcp_testbed`**: the server accepts one connection per report of the listening
socket, which is edge-triggered. It never does so in vain (`AcceptSucceeds`,
proved below), and what is left in the backlog without an edge to come is at most what was
connected while another was waiting (`BacklogNoticed`): the client's pause of
100 us after each open-loop connection (line 499) is all that keeps this at
none. The server drops events while connections are missing; a closed-loop
request is nevertheless going to be read (`LatencyNoticed`), because the last
accepted socket is reported after it is counted. On the closed-loop connection
no `recv` reaches into the next message (`OneMessage`); on the open-loop
connections they do. The run ends (`LatencyFinishes`) unless one of two things
happens, and TLC finds both when asked for them: a connection is left in the
backlog, so that the server never serves anybody (`NeverStarts`), or the server
and the open-loop thread each repeat a call that only the other could make
succeed (`Deadlocked`), for instance because both directions are full, or because
a short read has left the server waiting for a part of a message. Both last
for ever, which is proved and not checked. `LatencyFinishes` says that there is no
third way for the run to hang. Deadlock is not checked, because a run that has
ended stops. Messages of two bytes are the shortest that can be split, a
capacity of three the least with a stream that is neither empty nor has
room; one open-loop connection beside the closed-loop one is enough for the
listening edge, for short reads and for the mutual wait.

**`redirection_testbed`**: the server stores a time before it knows whether it
has received anything, and counts it after; a signal may come between. Yet the
file of a server that one signal has ended has the times of the second request
and all later ones, in order, none of an empty receive, and none missing but that
of the request in hand (`DumpExact`). Each request the client has sent is in
exactly one place, a lost or refused one included (`EachInOnePlace`): nothing is
answered twice, so that the client's count of replies is one of answered requests
and `completed_req` is never ahead. The client ends unless a datagram was lost, a
reply refused or the server signalled (`ClientFinishes`); each of the three
keeps it running for ever. `recvfrom` leaves the sender of a reply where the next
request's address is read from; still a client that chooses a replica for a request sends it to
the switch of the first line the table has for the replica chosen, and a direct one to its server. A client that is
to go through a switch but does not choose sends to the switch of its server only up to a connection's first
reply, and past it to the server from then on: this is what the code does, and `SentByTable` says it of each request
(`alt_dst_ip` is the replica chosen, `heard` the connections that have read a reply). With two signals, or one before the file is open,
the handler can crash; no comment says it would not, so this is a hazard. Three
requests on two connections, three replicas of which one has two lines with different switches and one has none, are enough for two requests in one socket, for a
receive that finds nothing between two that do, and for a file with two lines;
two signals are all there are.

**`udp_mt_testbed`**: no reply is looked at, yet a sample is the time of its own
request: a latency thread that waits has exactly one datagram somewhere unless it was
lost, and one that does not wait has none (`SamplesOwn`). The shared server socket is
left with fewer requests than there are latency threads (`SharedSocketLeaves`), so one of
them always gets on: some thread gets through its samples and ends the load unless one
of them loses a datagram (`FirstFinishes`), and if nothing is lost the others can only be
left waiting after that (`StallsLate`). They can: the last requests may arrive
together, one is read, and nobody comes to raise another edge. Then main waits for ever.
`RunEnds` says that this stall (`Stalled`), or the same after a loss, is the only thing that keeps
main from returning. Two threads of each kind, two samples, one loss and one refused
reply are enough for requests to meet in the shared socket in either order, in the
middle and at the end of the run.

**`baseline_client`**: between a thread's write of the port and its `sendto` another
thread may write its own. A request still goes to the port of some connection, and a
direct one to its own (`KnownPorts`). Until two threads are between the two steps at
once, every request goes to its connection's own port and every connection keeps its own, although all of them
write one address and every reply overwrites its connection's (`OwnPortsUntilRaced`, where
`raced` remembers that it has happened). After that a reply has made another
connection's port its own, and nothing brings the old one back (`PortsVanish`, below). The threads end all the same, because a reply comes to the socket
of its request (`ThreadsEnd`). The sleep is never too short, and too long by no more
than the steps on which a second ended (`SleepLongEnough`). Two threads with three
requests each are enough for one of them to send alone before and after the other, for a race, and for a port to be lost in it; a
second of six units and steps of up to three put its end at every point of a
sleep.

**Findings** (the `_violation` runs):

1. A ring that has wrapped ends up empty and full of outstanding requests: with a
   lossless in-order network `reclaim` clears `isfull` without freeing a slot.
2. After an idle stretch longer than `WheelSize - RTO` a timer fires a
   revolution early and a prompt reply is handled as a timeout.

Disagreements seen while modelling that no run shows, because one line of code says it: the
round-robin server's log counts the visit that finds a socket empty
(`timerwheel_roundrobin_server.c:426` against the comment at 219; by how much is proved, `RoundLogCountsVisits`); a timed-out
request is marked as received (`multi_dest_protocol.c:202` against the comment at
207-210); and "each pseudo-connection has it own addr to sendto()"
(`timerwheel_baseline_client.c:58`) is not so on the way by the router (`OwnPortsUntilRaced` says until when);
and a redirection client that does not choose replicas sends its requests past the switch once a reply has come
(`redirection_udp_client.c:173`), though it announces that "client requests are routed through DPDK
switches!" (307) and the comment at 373-377 has its connections' address be that of the switch:
`SentByTable` says which requests.

**Bounds.** Two connections are the least that show sharing (one wheel, lists
across connections, the head's ring used for all); a wheel of 3 to 7 slots wraps
within `MaxTick`, so every slot is used in two revolutions; the ticks outgrow a `TickWord` of 4 in
`openloop_chaos`, and fit one of 16 in the others; two or three slots in a ring show
full, empty, wrapped and reused. `MaxSent`, `MaxTick`, `MaxDups` and
`MaxRequests` end the exploration; the theorems have none of these restrictions.
Servers have three sockets (two in `roundrobin_server`, `closedloop_oneshot`
and `redirection_testbed`): the least with a socket that is neither first
nor last, and the least with one that is drained while another is not.

**Fairness.** The load thread and the servers' loops are threads the kernel
keeps running: `WF` of their next step. The network delivers what it does not
lose (`WF(Deliver)`), and the latency thread gets through its samples, which is
an assumption: it waits for each reply without a timeout, and one lost reply
stops it. In `closedloop_oneshot` server and client have `WF` of their next step and
the two directions of the network of their deliveries; the client's second wait is the
one that nothing ends. In `tcp_testbed` the connections get made, server and threads
have `WF` of their next step and bytes arrive; requests come due again and
again (`SF` of `Due`), but whether the thread polls between two of them is not
assumed: at a high rate it does not. In `redirection_testbed` client and server have `WF` of
their next step and what is not lost arrives. In `udp_mt_testbed` main, every thread and the
server have `WF`, and so has each direction of the network; the load threads'
requests and the latency threads' receives have none beyond that, so a blocking receive
may wait for ever. In `baseline_client` main (and with it the clock) and every thread have `WF`,
and replies that are not lost come. No fairness is assumed of losses, signals, clients or time. `EchoService` has
`WF` of each request's answer, which the server has to earn.

## What is proved

`OpenLoopClient_proofs`, for all sizes, faults, delays and ids:

| theorem | says |
|---|---|
| `TypeCorrect` | `Spec => []TypeOK` |
| `WheelNeverOverruns` | `Spec => []WheelInStep` |
| `NoTimerLate` | `Spec => []TimersNeverLate`, which is about timers whose tick fits the word |
| `PromptTimersOnTime` | `MaxLag + RTO < WheelSize => (Spec => []TimersOnTime)`, of such timers too |
| `OutstandingIsSent` | `Spec => []WindowIsSent` |
| `OnlyLateDropsForget` | `Spec => Requests!Init /\ [][Requests!Next \/ \E c \in Conns : ForgetsWindow(c)]_window` |
| `WindowKept` | `Spec /\ [][FullRingsDropNothing]_buf => KeepsWindow` |
| `ImplementsRequestWindow` | `NoWrap => (Spec => KeepsWindow)` |
| `WalksEnd` | `NoWrap /\ UniqueIds => (Spec => []ListsEnd)` |
| `RepliesFindOwners` | `NoWrap /\ UniqueIds => (Spec => []ReplyFindsOwner)` |
| `AnswersAreAttributed` | `NoWrap /\ UniqueIds /\ PromptReplies /\ PromptWheel /\ TicksFit => (Spec => []AnswersAttributed)` |
| `OutstandingTimed` | the same and `SendsTakeTime` `=> (Spec => []OutstandingHasTimer)` |
| `SlotsRetireThemselves` | the same six `=> (Spec => RetiresOwnSlot)` |

The conditions are what makes the code right, and each is met by a run. `NoWrap` (`MaxSent <=
ConnPerThread * (BufSize - 1)`: the connections take turns, so the bound is one on the requests of each of
them) and `UniqueIds` (a batch of ids is not used up) hold
for `openloop_answers` and `openloop_timeouts`, and `openloop_wrap_violation` shows what a ring that has
wrapped does. `PromptReplies` (`MaxDelay <= RTO`) and
`PromptWheel` (`MaxLag + RTO < WheelSize`) say that neither a reply nor the loop is later than a
timer; `openloop_lag_violation` is a loop that is. `TicksFit` (`MaxTick + RTO < TickWord`, or a wheel whose size divides `TickWord`) says that a timer's slot is that of its
tick; of the code the first is true, for 71.6 minutes. `SendsTakeTime` (no send takes less than a tick)
keeps two timers of a connection out of one slot of the wheel.

The inductive invariants are built up in layers. `WheelInv` has the types, that a walk over a list starts
at the slot being processed (`WalkInSlot`; without it the type of `cursor` is
not preserved), the window of ticks and the exact length of a batch. The window
is not inductive alone: that advancing a slot keeps the wheel behind the clock
follows from the length of the batch, and that from the clock standing still
while a batch is processed. `RingsOK` relates the flags of a ring to its
indices, which is what keeps the newly acquired slot out of the window;
`LagBounded` carries the bound on the lag.

`WindowInv` has `WheelInv` and `RingsOK`, and needs no condition. The refinement rests on it alone: the
slots of a window, wrapped or not, are one to one with the positions in it
(`SlotsAreWindow`, from `SlotArithmetic` about remainders), so that acquiring a
slot appends a request (`IssueRing`), reclaiming the tail drops a prefix (`RetireRing`), a reply marks at
most one entry (`AnswerRing`), and everything else is a stutter of `RequestWindow`, but for one
step. A late request (`DropRing`) takes nothing from a ring that is not full; a full one loses
its flag, hence reads as empty, and the whole window is forgotten (`ForgetsWindow`). That is what is wrong with
a ring that has filled up, and by `OnlyLateDropsForget` it is all that is wrong with the order and the
number of its requests, for any number of laps. Such steps happen: TLC finds one with a single connection and a ring of
two slots. A run without them implements the window (`WindowKept`), and a run in which no ring wraps
has none: `UnwrappedRings` says that the indices of a ring count what was sent and
retired, tail below head, never full, each connection having had as many turns as the others
or one more (`TakesTurns`).

`SentInv` adds that ids grow along a ring (`IdsInOrder`) and that a link of the wheel leads to
a request sent earlier (`LinksToOlder`). The second is what makes the walks end. What a
walk of any length reaches (`FollowIsOlder`) is induction over the length, done on
the least element of a set of counterexamples (`SetInduction`), because the library's
theorem on induction takes an operator.

`ReplyInv` adds that every datagram in flight belongs to a request that is still in the ring (`RepliesOwned`) and is
read before the timer of that request, or of a later one, is due (`RepliesTimely`). The two need each
other: a request that stays in the ring has the reply's slot, and what takes a request out of the ring is
a timer, which may retire everything up to its own request. `WalkFromHead` says that an event deeper in a list is no
newer than the head, for which the deadline is known. `TimerInv` adds that lists have one
event (`OneTimerASlot`), that timers are due in the order in which requests were sent
(`TimersInOrder`) and that every outstanding request has one to come (`WindowHasTimers`): so
the timer that is due is that of the oldest outstanding request, and what it retires is its own slot.

`UdpServers_proofs`, for any number of sockets and requests; of the draining server:

| theorem | says |
|---|---|
| `NothingStranded` | `Spec => []NoStranded` |
| `LogIsExact` | `Spec => LogAccounts` |
| `ImplementsEcho` | `Spec => Echo!Spec`, the safety part of `KeepsEcho` |

`NothingStranded` rests on `Noticed`: a socket with requests has an edge to come
*or is still on the list of this turn*. `LogIsExact` adds `Booked`, which relates
the loop's counter and the array to what each socket gave. `ImplementsEcho`
adds `InOrder`: the buffer of a socket holds exactly the requests that came
after those that were taken, so that no request is in two places; then a
receive is a stutter of the abstract service, an arrival an `Accept`, a send an
`Answer` or a `Forget`.

and of the round-robin server, which the module instantiates as `RR`:

| theorem | says |
|---|---|
| `ServesFourEach` | `RR!Spec => []RR!ServesFour` |
| `RoundStrandsNothing` | `RR!Spec /\ []HoldFew => []NoStranded` |
| `RoundLogCountsVisits` | a line after the first is `RR!LogLine(Visits)`: what each socket gave, and one more if it was found empty |
| `RoundImplementsEcho` | `RR!Spec => RR!Echo!Spec`, the safety part of `KeepsEcho` |

The invariant of `ServesFourEach` is `InPass`, about the pass the loop is in, of four: a
socket that is still flagged has given a request in each pass that has visited it. No visit of the first
two passes is in vain: epoll reports no empty socket, so the first pass receives from all, and the second finds a
flag at every socket it comes to. In the third pass each visit may be in vain, but not that of a
flagged socket: as long as there is one, `num_empty_fd` stays below the number of visits, so the turn cannot end
with this pass. From the fourth pass on, four requests have been received. That the visits of a pass are of
different sockets follows from the set of orders, since a map from `1 .. n` onto `n` sockets is one to one
(`OrdersDistinct`). `RoundStrandsNothing` is what the four requests are good for: if no socket ever
holds more than four (`HoldFew`), none waits for an edge that has been reported already. Its invariant is
`Kept`: nothing has come to a socket without an edge since it was reported, so what it
holds and what it has given in this turn are together at most four, and the turn does not end before it is
empty. With five the run `roundrobin_server` says what happens (above). `RoundLogCountsVisits` is the exact
counterpart of `LogIsExact`: this server's array counts visits (`Tallied`), and since a socket found empty is
skipped afterwards, a line is too high by exactly the number of sockets the turn drained. `RoundImplementsEcho` has the invariant of `ImplementsEcho` for the socket that is
visited.

`EpollSockets_proofs` has what proofs about these servers share: that a buffer
holds the requests that came last, in order (`Ordered`), and what an arrival and
a receive do to that and to the set of requests waiting. Of the one-shot server, both testbeds that
use it have, whatever is around it, what its own steps keep (`ServerInv`: types,
order, and that the request in hand is the last that left its buffer), and which requests
it has (`Waiting`).

`ClosedLoopEcho_proofs`, for any number of sockets, iterations and losses:

| theorem | says |
|---|---|
| `TypeCorrect` | `Spec => []TypeOK` |
| `ServerNeverSpins` | `Spec => []NeverSpins` |
| `AnswerIsToCome` | `Spec => []AnswerToCome` |
| `AnswersAreOwn` | `Spec => []AnswersOwn` |
| `FewAreStranded` | `Spec => []StrandedByTimeouts` |
| `ServerAnswersOnce` | `Spec => AnswersOnce` |

Everything about the server alone follows from `ServerInv`. `TypeInv` adds the
client, and that a request in the client's socket carries one of its
datagrams. `AnswersOwn` needs to know where the answer can be: `FirstTry` says that
before the first timeout at most one datagram or reply exists, in exactly one of five
places, and that it is the current one's. `StrandedByTimeouts` follows from a
count over all these places (`Counted`): each send adds one, each accepted reply and each
loss takes one away, so what is left over is at most the timeouts plus the
iterations given up; and when the client waits without a loss, one of them is
not in the socket, by `AnswerToCome`. `ServerAnswersOnce` needs `Unanswered`.

`TcpTestbed_proofs`, for any number of connections, message length, capacity and
number of samples:

| theorem | says |
|---|---|
| `TypeCorrect` | `Spec => []TypeOK` |
| `NeverAcceptsInVain` | `Spec => []AcceptSucceeds` |
| `BacklogIsNoticed` | `Spec => []BacklogNoticed` |
| `OneMessageOnly` | `Spec => []OneMessage` |
| `LatencyIsNoticed` | `Spec => []LatencyNoticed` |
| `NoWayOutOfThem` | `Spec => NoWayOut` |

`TypeOK` is inductive; it says, with the types, that accepted and waiting
connections are the ones made and that the event in hand is of this turn.
`BacklogNoticed` needs `AcceptsToCome`, which counts an edge, reported or not, as
one accept to come. `OneMessage` is inductive with the types: it adds up the
bytes of the closed-loop connection in every place they can be.
`LatencyNoticed` uses it, after the step as well as before: when the server goes
to send there is nothing left in the socket whose edge it has used. `NoWayOut` is
about single steps: what a stalled server and a stalled thread wait for is the
sum of the bytes on the way and in the buffer (`ArrivalsKeepRoom`), which arrivals
do not change.

`UdpMtTestbed_proofs`, for any number of threads, connections, samples and losses:

| theorem | says |
|---|---|
| `TypeCorrect` | `Spec => []TypeOK` |
| `SamplesAreOwn` | `Spec => []SamplesOwn` |
| `SharedSocketIsRead` | `Spec => []SharedSocketLeaves` |
| `StallsAreLate` | `Spec => []StallsLate` |

The types need `FromIs`: a request has a sender on record exactly while the server has it, and
its socket is the one that sender sends to. `SampleInv` adds to `SamplesOwn` that a thread that has lost a
datagram waits; without it the thread's next send would not be the only one.
From `SampleInv` each thread has at most one request at the server, so the requests
in the shared socket, and the one in the server's hands, come from different
threads (`QueueOfThreads`, by the pigeonhole principle): that the server takes one of them
leaves fewer than there are threads, and only an arrival, which raises an edge, adds one. `StallsAreLate` is the same
count the other way (`AllInQueue`): if all threads wait with nothing on the way, all
their requests are in the socket, which is one too many. So one is done, and `DoneInv` says that the flag it set has
not been cleared.

`BaselineClient_proofs`, for any number of threads, connections and requests:

| theorem | says |
|---|---|
| `TypeCorrect` | `Spec => []TypeOK` |
| `SleepsLongEnough` | `Spec => []SleepLongEnough` |
| `PortsAreKnown` | `Spec => []KnownPorts` |
| `OwnPorts` | `Spec => []OwnPortsUntilRaced` |
| `PortsVanish` | `Spec => PortsOnlyVanish`: a port that no connection, reply or request in flight names any more is never named again |

`SleepInv` relates the last reading to the clock, which makes the time added up at most
the time gone by, short of it by one step per second that ended. `PortInv` follows a port through all the places it can be
copied to (a request, a reply, a connection), and says that what a thread is about
to send to by the router has been written by one of the threads. `RaceInv` adds that without a race so far the thread that
is about to send is the one that wrote, and that each of those places holds its connection's own port (`Own`).

`RedirectionTestbed_proofs`, for every routing table, number of sockets, replicas, requests, losses
and refused replies:

| theorem | says |
|---|---|
| `TypeCorrect` | `Spec => []TypeOK` |
| `RequestsInOnePlace` | `Spec => []EachInOnePlace` |
| `DumpIsExact` | `Spec => []DumpExact` |
| `RequestsSentByTable` | `Spec => SentByTable` |
| `FirstLineCounts` | `map_lookup(host)` is the switch of the first line for `host`, or `Nowhere` |

`TestbedInv` is the invariant under all of them. `EachInOnePlace` is a sum over the places a request can be in, and
moving a datagram takes one off one term and adds one to another; it needs the types, and they
need room for one more time when a time is stored: `SentBefore` says that what was received and is
on the way was sent before, so there are no more times than requests were to be sent (`RoomToStamp`).
`DumpExact` needs `Stamped`, that the array has the times of the requests counted and,
between the storing of a time and its count (`Unstamped`), one more; and `OneDump`, that while
one signal is being handled the file has what the array had when the signal came, which holds because the loop stands
still. `SentByTable` needs `AddressInv`: the address a connection holds is the server's if the client is direct,
and that of its server's switch as long as no reply has come, that of its server after one; a client that chooses its replicas writes it anew
before each request.

The sums (`SumFunction`) and the table (`FoldLeft`) are recursive functions in the community modules. What they
compute is proved for every input by the least counterexample, on finite sets (`SubsetInduction`,
`FoldExists`), since the library's theorems on induction take operators: a sum changes by what one
entry changes (`SumChange`), and folding `map_insert` over the table keeps, for each host, the first
line (`InsertsFirst`).

Assumptions are the named `ASSUME`s on constants; every one is evaluated by the
runs. Every safety invariant and every action property of the passing runs is
proved (`ServesFour` through the instance `RR`), those of the open-loop client that have
conditions under these: `openloop_wrap_violation` and `openloop_lag_violation` show what a
ring that has wrapped and a loop that lags do. Only model-checked is liveness (`KeepsEcho`
beyond its safety part, `ThreadExits`, `ClientFinishes`, `LatencyFinishes`,
`FirstFinishes`, `RunEnds`, `ThreadsEnd`), which is out of the provers' reach.

## What could come next

Several threads of the redirection client, which is modelled with one; what a thread of the open-loop client
still gets right about its replies and timers after a ring has wrapped (the order and number of its
requests are settled by `OnlyLateDropsForget`).

## Not modelled

The *timestamping server* (`udp_timestamped_server.c`) measures one client on one
connection: a turn in which epoll reports anything but one event is logged and dropped
(line 291), and each turn spins until the network card has delivered the time stamps of its one
request and one reply (391, 408), the latter always from the error queue of the first socket.
What could go wrong there is up to the card and to an error queue whose behaviour
the code does not describe, so a model of it would be a model of guesses.

The *feedback threads*: those of `udp_epollserver.c` and
`timerwheel_roundrobin_server.c` are never started; that of `timerwheel_server.c` sends the
low 16 bits of a counter it reads without a lock to an address where nothing of the repository
listens.

`udp_client.c`, `timerwheel_test.c` and the programs of `socket_test/` are single loops of blocking calls,
or near copies of parts that are modelled.

Formatting and files, socket set-up, thread pinning, the random distributions
(arrival times are arbitrary), address selection among replicas (no later step
depends on it), failures on which the program exits, the artificial delays that are
compiled out, TCP sends that take a part of a message and the `SIGPIPE` of a send to a
connection that was reset. Of widths, the 32 bits in
which a timer's slot is computed are modelled (`TickWord`); the wrap of the 64-bit tick itself and that of the ids, after 2^32
requests of a thread, are not. The redirection server's `recvfrom` failing for another reason than an
empty socket (`redirection_udp_server.c:423-427`), after which it would stamp and count a request that did not come.

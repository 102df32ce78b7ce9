-------------------------- MODULE RedirectionClient --------------------------
(***************************************************************************)
(* A thread of src/multithread/redirection_udp_client.c: it sends its      *)
(* requests on its connections in turn, each when it is due, counts what   *)
(* comes back, and ends when it has counted as many as it had to send.     *)
(*                                                                         *)
(* A request goes to a replica directly, or to the switch that the routing *)
(* map has for it.  The address that a connection sends to is also where   *)
(* recvfrom leaves the sender of every reply (line 173): a connection that *)
(* chooses a replica for each request looks the address up again, one that *)
(* does not goes on with what the last reply left there.                   *)
(*                                                                         *)
(* Definitions named Wrong... are variants with a plausible mistake; they  *)
(* are not used by the model, only to show that a property notices.        *)
(*                                                                         *)
(* Left out: failures on which the program exits, datagrams of another     *)
(* length, and that there may be several such threads.                     *)
(***************************************************************************)
EXTENDS RoutingMap

CONSTANTS
  replica_dst_list,
  conn_perthread,
  ToSend         \* MAX_NUM_TEST * conn_perthread

ASSUME ReplicaAssumption ==
  /\ replica_dst_list \in Seq(Range(replica_dst_list)) \ {<< >>}
  /\ Nowhere \notin Range(replica_dst_list)

ASSUME ClientAssumption == conn_perthread \in Nat \ {0} /\ ToSend \in Nat \ {0}

Conns == 1 .. conn_perthread

Replicas == Range(replica_dst_list)
Switches == {RoutingTable[i][2] : i \in DOMAIN RoutingTable}
recv_ip_addr == Head(replica_dst_list)

VARIABLES
  is_direct_to_server, is_random_selection,
  alt_dst_ip,    \* the replica the request in temp_send_buffer is for
  server_addr,   \* where a connection's next request goes
  heard,         \* history: connections that have read a reply
  cpc,           \* "loop", "recv" or "done"
  send_conn_id,
  sent_req, completed_req,
  reported,      \* events of this turn that are not dealt with
  conn_index,    \* the event in hand
  inbox,         \* replies in the socket of each connection
  edge           \* connections with an edge that is not reported

addresses == <<alt_dst_ip, server_addr, heard>>
modes == <<is_direct_to_server, is_random_selection>>
thread == <<cpc, send_conn_id, sent_req, completed_req, reported, conn_index>>
mailbox == <<inbox, edge>>
client == <<modes, addresses, thread, mailbox>>

(* A direct client does not look at is_random_selection.                   *)
InitClient ==
  /\ is_direct_to_server \in BOOLEAN /\ is_random_selection \in BOOLEAN
  /\ is_direct_to_server => ~is_random_selection
  /\ alt_dst_ip = [c \in Conns |-> recv_ip_addr] /\ heard = {}
  /\ server_addr = [c \in Conns |-> IF is_direct_to_server THEN recv_ip_addr
                                   ELSE map_lookup(recv_ip_addr)]
  /\ cpc = "loop" /\ send_conn_id = 1 /\ conn_index = 1
  /\ sent_req = 0 /\ completed_req = 0 /\ reported = {}
  /\ inbox = [c \in Conns |-> 0] /\ edge = [c \in Conns |-> FALSE]

Selects == is_random_selection /\ ~is_direct_to_server

WrongAddress(r) ==                        \* the choice is ignored
  IF Selects THEN map_lookup(recv_ip_addr) ELSE server_addr[send_conn_id]

Address(r) == IF Selects THEN map_lookup(r) ELSE server_addr[send_conn_id]

Targets == IF Selects THEN Replicas ELSE {alt_dst_ip[send_conn_id]}

(* A request that is due, for replica r; ends in a datagram on             *)
(* send_conn_id.                                                           *)
SendRequest(r) ==
  /\ cpc = "loop" /\ completed_req < ToSend /\ sent_req < ToSend
  /\ alt_dst_ip' = [alt_dst_ip EXCEPT ![send_conn_id] = r]
  /\ server_addr' = [server_addr EXCEPT ![send_conn_id] = Address(r)]
  /\ sent_req' = sent_req + 1
  /\ send_conn_id' = (send_conn_id % conn_perthread) + 1
  /\ UNCHANGED <<modes, heard, cpc, completed_req, reported, conn_index, mailbox>>

Reported == {c \in Conns : edge[c] /\ inbox[c] > 0}

Poll ==
  /\ cpc = "loop" /\ completed_req < ToSend
  /\ edge' = [c \in Conns |-> FALSE]
  /\ reported' = Reported
  /\ IF Reported = {} THEN UNCHANGED <<cpc, conn_index>>
     ELSE cpc' = "recv" /\ conn_index' \in Reported
  /\ UNCHANGED <<modes, addresses, send_conn_id, sent_req, completed_req, inbox>>

NextEvent ==
  /\ reported' = reported \ {conn_index}
  /\ IF reported' = {} THEN cpc' = "loop" /\ UNCHANGED conn_index
     ELSE conn_index' \in reported' /\ UNCHANGED cpc

(* The sender of a reply is a replica that was asked (external: switches   *)
(* leave it alone).                                                        *)
Senders ==
  IF Selects THEN {r \in Replicas : map_lookup(r) # Nowhere} ELSE {recv_ip_addr}

TakeReply ==
  /\ cpc = "recv" /\ inbox[conn_index] > 0
  /\ inbox' = [inbox EXCEPT ![conn_index] = @ - 1]
  /\ \E a \in Senders : server_addr' = [server_addr EXCEPT ![conn_index] = a]
  /\ heard' = heard \cup {conn_index}
  /\ completed_req' = completed_req + 1

WrongReceiveReply ==                      \* one reply for each event
  /\ TakeReply
  /\ NextEvent
  /\ UNCHANGED <<modes, alt_dst_ip, send_conn_id, sent_req, edge>>

ReceiveReply ==
  /\ TakeReply
  /\ UNCHANGED <<modes, alt_dst_ip, cpc, send_conn_id, sent_req, reported, conn_index, edge>>

(* max_retries calls in a row found the socket empty.                      *)
SocketDrained ==
  /\ cpc = "recv" /\ inbox[conn_index] = 0
  /\ NextEvent
  /\ UNCHANGED <<modes, addresses, send_conn_id, sent_req, completed_req, mailbox>>

Finish ==
  /\ cpc = "loop" /\ completed_req >= ToSend
  /\ cpc' = "done"
  /\ UNCHANGED <<modes, addresses, send_conn_id, sent_req, completed_req,
                 reported, conn_index, mailbox>>

Counts == Poll \/ ReceiveReply \/ SocketDrained \/ Finish

(* A reply reaches the client's socket.                                    *)
Comes(c) ==
  /\ inbox' = [inbox EXCEPT ![c] = @ + 1]
  /\ edge' = [edge EXCEPT ![c] = TRUE]
  /\ UNCHANGED <<modes, addresses, thread>>

ClientOK ==
  /\ is_direct_to_server \in BOOLEAN /\ is_random_selection \in BOOLEAN
  /\ alt_dst_ip \in [Conns -> Replicas] /\ heard \subseteq Conns
  /\ server_addr \in [Conns -> Replicas \cup Switches \cup {Nowhere}]
  /\ cpc \in {"loop", "recv", "done"}
  /\ send_conn_id \in Conns /\ conn_index \in Conns
  /\ sent_req \in 0 .. ToSend /\ completed_req \in Nat
  /\ reported \subseteq Conns /\ (cpc = "recv" => conn_index \in reported)
  /\ inbox \in [Conns -> Nat] /\ edge \in [Conns -> BOOLEAN]
=============================================================================

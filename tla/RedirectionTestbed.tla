------------------------- MODULE RedirectionTestbed -------------------------
(***************************************************************************)
(* The redirection server with a thread of its client, over a network that *)
(* delays and may lose datagrams.  The server is the default replica; what *)
(* is for another one is answered there, which the model leaves out: it is *)
(* as good as a reply on its way.  Switches forward a request to the       *)
(* replica it is for.  Connection and socket are of the same port.         *)
(***************************************************************************)
EXTENDS RedirectionServer, RedirectionClient, Functions

CONSTANT
  MaxLoss        \* bound: datagrams the network loses

ASSUME TestbedAssumption ==
  conn_perthread = NumSockets /\ ToSend <= MaxRequests /\ MaxLoss \in Nat

VARIABLES
  up, down,      \* requests and replies on the way, per connection
  lost,          \* history: datagrams lost
  astray         \* history: requests sent to no address

network == <<up, down, lost, astray>>
vars == <<kernel, server, client, network>>

Init ==
  /\ InitServer /\ InitClient
  /\ up = [c \in Sockets |-> 0] /\ down = [c \in Sockets |-> 0] /\ lost = 0 /\ astray = 0

ClientSends ==
  /\ \E r \in Targets :
       /\ SendRequest(r)
       /\ LET c == send_conn_id
              nowhere == server_addr'[c] = Nowhere
              here == ~nowhere /\ alt_dst_ip'[c] = recv_ip_addr
          IN  /\ up' = IF here THEN [up EXCEPT ![c] = @ + 1] ELSE up
              /\ down' = IF here \/ nowhere THEN down ELSE [down EXCEPT ![c] = @ + 1]
              /\ astray' = IF nowhere THEN astray + 1 ELSE astray
  /\ UNCHANGED <<kernel, server, lost>>

ClientCounts == Counts /\ UNCHANGED <<kernel, server, network>>

ServerActs == (Loop \/ Fails \/ (handling # {} /\ Handler)) /\ UNCHANGED <<client, network>>

ServerReplies ==
  /\ Replies
  /\ down' = [down EXCEPT ![request[1]] = @ + 1]
  /\ UNCHANGED <<client, up, lost, astray>>

SignalComes == Signal /\ UNCHANGED <<client, network>>

RequestArrives(c) ==
  /\ up[c] > 0
  /\ Arrive(c)
  /\ up' = [up EXCEPT ![c] = @ - 1]
  /\ UNCHANGED <<server, client, down, lost, astray>>

ReplyArrives(c) ==
  /\ down[c] > 0
  /\ down' = [down EXCEPT ![c] = @ - 1]
  /\ Comes(c)
  /\ UNCHANGED <<kernel, server, up, lost, astray>>

Lose(c) ==
  /\ lost < MaxLoss
  /\ lost' = lost + 1
  /\ \/ up[c] > 0 /\ up' = [up EXCEPT ![c] = @ - 1] /\ UNCHANGED down
     \/ down[c] > 0 /\ down' = [down EXCEPT ![c] = @ - 1] /\ UNCHANGED up
  /\ UNCHANGED <<kernel, server, client, astray>>

Next ==
  \/ ClientSends
  \/ ClientCounts
  \/ ServerActs
  \/ ServerReplies
  \/ SignalComes
  \/ \E c \in Sockets : RequestArrives(c) \/ ReplyArrives(c) \/ Lose(c)

Spec == Init /\ [][Next]_vars

(* Client and server are kept running, and what is not lost arrives.       *)
FairSpec ==
  /\ Spec
  /\ WF_vars(ClientSends \/ ClientCounts)
  /\ WF_vars(ServerActs \/ ServerReplies)
  /\ \A c \in Sockets : WF_vars(RequestArrives(c)) /\ WF_vars(ReplyArrives(c))
-----------------------------------------------------------------------------
TypeOK ==
  /\ ServerOK /\ ClientOK
  /\ up \in [Sockets -> Nat] /\ down \in [Sockets -> Nat] /\ lost \in 0 .. MaxLoss
  /\ astray \in 0 .. ToSend

Total(f) == SumFunction(f)

(* Each request is in one place: on the way, in a socket, in the server's  *)
(* hands, answered and counted, or else lost, refused or sent to nobody.   *)
(* The client takes the number of replies for that of requests answered.   *)
EachInOnePlace ==
  sent_req =
    completed_req + Total(up) + Total([f \in Sockets |-> Len(sock[f])]) + (IF InHand THEN 1 ELSE 0)
      + Total(down) + Total(inbox) + refused + lost + astray

FirstLine(host) ==
  LET lines == {i \in DOMAIN RoutingTable : RoutingTable[i][1] = host}
  IN  IF lines = {} THEN Nowhere
      ELSE RoutingTable[CHOOSE i \in lines : \A j \in lines : i <= j][2]

(* Although every reply leaves its sender in the address that the next     *)
(* request is sent to: a client that chooses replicas sends each request   *)
(* to the switch that the first line of the replica it is for names, a     *)
(* direct one to the server.  One that is to be routed and does not choose *)
(* sends to the switch until a reply is read on the connection, and past   *)
(* the switch, to the server itself, from then on.                         *)
SentByTable ==
  [][sent_req' # sent_req =>
       LET c == send_conn_id
           sent_to == server_addr'[c]
       IN  CASE is_direct_to_server -> sent_to = recv_ip_addr
             [] Selects -> sent_to = FirstLine(alt_dst_ip'[c])
             [] OTHER -> sent_to = IF c \in heard THEN recv_ip_addr
                                   ELSE FirstLine(recv_ip_addr)]_vars

(* The client comes to its end unless a datagram was lost, a reply refused *)
(* or the server signalled, or a replica chosen is not in the table.       *)
ClientFinishes ==
  <>(cpc = "done" \/ lost > 0 \/ refused > 0 \/ handling # {} \/ astray > 0)
=============================================================================

-------------------------- MODULE MCClosedLoopEcho --------------------------
EXTENDS ClosedLoopEcho

(* The server fails to send one of the replies to the client.              *)
MCRefused == {<<NumSockets, 3>>}
=============================================================================

--------------------------- MODULE MCUdpMtTestbed ---------------------------
EXTENDS UdpMtTestbed

(* The server fails to send the reply to the third latency request.        *)
MCRefused == {<<NumSockets, 3>>}
=============================================================================

-------------------------- MODULE MCUdpDrainServer --------------------------
(* Model checking of UdpDrainServer: the reply to one request is refused.  *)
EXTENDS UdpDrainServer

MCRefused == {<<1, 2>>}
=============================================================================

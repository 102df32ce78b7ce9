------------------------- MODULE MCRoundRobinServer -------------------------
(* Model checking of RoundRobinServer: one reply may be refused.           *)
EXTENDS RoundRobinServer

MCRefused == {<<1, 2>>}
=============================================================================

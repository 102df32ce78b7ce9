------------------------ MODULE MCRedirectionTestbed ------------------------
EXTENDS RedirectionTestbed

CONSTANTS r1, r2, r3, s1, s2

(* The first replica has two lines, the last has none.                     *)
MCReplicas == <<r1, r2, r3>>
MCTable == <<<<r1, s1>>, <<r2, s2>>, <<r1, s2>>>>
=============================================================================

--------------------------- MODULE MCLocalWorker ---------------------------
(* Two threads of the gateway and one worker, for TLC.                     *)
EXTENDS LocalWorker

CONSTANTS c1, c2

MCCallers == {c1, c2}
=============================================================================

----------------------------- MODULE MCRuntime -----------------------------
(* A small instance of Runtime for TLC: two gateway processes, two turns   *)
(* of which one admitted anchors, one checkpoint and one stop.             *)
EXTENDS Runtime

CONSTANTS p1, p2, k1, k2

MCProcesses == {p1, p2}
MCKeys      == {k1, k2}
MCAnchored  == {k1}
=============================================================================

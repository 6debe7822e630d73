-------------------------- MODULE MCReviewedMemory --------------------------
(* A small instance of ReviewedMemory for TLC: a source that states one     *)
(* relation, one that states it and another, and one whose wording          *)
(* conflicts.                                                               *)
EXTENDS ReviewedMemory

CONSTANTS g1, s1, s2, s3, r1, r2

MCProcesses == {g1}
MCSources   == {s1, s2, s3}
MCRelations == {r1, r2}
MCAsked     == {r1, r2}
MCStates    == (s1 :> <<r1>>) @@ (s2 :> <<r2, r1>>) @@ (s3 :> <<>>)
MCOpposing  == {s3}
=============================================================================

---------------------------- MODULE MCExperience ----------------------------
(* A small instance of Experience for TLC: two responses of one sent turn, *)
(* the first with a native finding and one that only the gateway raises.   *)
EXTENDS Experience, TLC

CONSTANTS r1, r2, f1, f2

MCResponses  == {r1, r2}
MCFindings   == {f1, f2}
MCFindingsOn == r1 :> {f1, f2} @@ r2 :> {}
MCNative     == {f1}
=============================================================================

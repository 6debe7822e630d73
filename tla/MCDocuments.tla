---------------------------- MODULE MCDocuments ----------------------------
(* A small instance of Documents for TLC: one document older than the      *)
(* document Tree and two that are imported.                                *)
EXTENDS Documents

CONSTANTS d1, d2, d3

MCDocs   == {d1, d2, d3}
MCLegacy == {d1}
=============================================================================

------------------------------ MODULE MCLedger ------------------------------
(* Small instances of Ledger for TLC. *)
EXTENDS Ledger, TLC

\* Objects and keys are interchangeable names; so are the two writers.
Names == Permutations(Objects) \cup Permutations(Keys) \cup Permutations(Writers)
=============================================================================

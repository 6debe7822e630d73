----------------------------- MODULE MCExchange -----------------------------
(* Small instances of Exchange for TLC. *)
EXTENDS Exchange, TLC

\* Threads and exchange ids are interchangeable names; no liveness under this.
Names == Permutations(Threads) \cup Permutations(Exchanges)
=============================================================================

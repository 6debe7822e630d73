--------------------------- MODULE MCOAuthBroker ---------------------------
(* Three connections of the broker, which are interchangeable, for TLC.    *)
EXTENDS OAuthBroker, TLC

CONSTANTS t1, t2, t3

MCThreads == {t1, t2, t3}

Symmetric == Permutations(Threads)
=============================================================================

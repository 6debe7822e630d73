---------------------------- MODULE DecisionLog ----------------------------
(***************************************************************************)
(* What the ledger promises its clients, with no tables, lookups or        *)
(* transactions: one growing sequence of decisions.  A request names the   *)
(* version it was made on; it is decided at most once, and only as the     *)
(* next decision after that version.  "ok" is said of decided requests     *)
(* only, and a request decided before it was asked again is never refused. *)
(***************************************************************************)
EXTENDS Naturals, Sequences

CONSTANTS Clients, Keys, None

VARIABLES
  created,   \* the project exists
  decided,   \* the decided requests; decided[v] made version v
  asked,     \* asked[k]: None, or whether k creates, and the version it was made on
  pending    \* pending[c]: the request a client waits for, and its answer

vars == <<created, decided, asked, pending>>

IsDecided(k) == \E v \in 1..Len(decided) : decided[v] = k

Idle == [key |-> None, known |-> FALSE, answer |-> "none"]

Init ==
  /\ created = FALSE
  /\ decided = <<>>
  /\ asked   = [k \in Keys |-> None]
  /\ pending = [c \in Clients |-> Idle]

\* A request is asked, or asked again.
Ask(c, k) ==
  /\ pending[c] = Idle
  /\ \/ asked[k] # None /\ UNCHANGED asked
     \/ /\ asked[k] = None
        /\ \E a \in {[create |-> TRUE, base |-> 0]}
                    \cup {[create |-> FALSE, base |-> b] : b \in 0..Len(decided)} :
             asked' = [asked EXCEPT ![k] = a]
  /\ pending' = [pending EXCEPT ![c] =
                   [key |-> k, known |-> IsDecided(k), answer |-> "none"]]
  /\ UNCHANGED <<created, decided>>

Create(c) ==
  /\ pending[c].key # None /\ asked[pending[c].key].create
  /\ ~created
  /\ created' = TRUE
  /\ UNCHANGED <<decided, asked, pending>>

Decide(c) ==
  LET k == pending[c].key IN
  /\ k # None /\ ~asked[k].create
  /\ created /\ ~IsDecided(k)
  /\ asked[k].base = Len(decided)
  /\ decided' = Append(decided, k)
  /\ UNCHANGED <<created, asked, pending>>

Answer(c) ==
  LET k == pending[c].key IN
  /\ k # None /\ pending[c].answer = "none"
  /\ \E answer \in {"ok", "no"} :
       /\ answer = "ok" => IF asked[k].create THEN created ELSE IsDecided(k)
       /\ answer = "no" => ~pending[c].known
       /\ pending' = [pending EXCEPT ![c].answer = answer]
  /\ UNCHANGED <<created, decided, asked>>

\* The client leaves, or its process stops with the request undecided,
\* decided or answered.
Forget(c) ==
  /\ pending[c].key # None
  /\ pending' = [pending EXCEPT ![c] = Idle]
  /\ UNCHANGED <<created, decided, asked>>

Next ==
  \E c \in Clients :
    \/ \E k \in Keys : Ask(c, k)
    \/ Create(c) \/ Decide(c) \/ Answer(c) \/ Forget(c)

Spec == Init /\ [][Next]_vars
=============================================================================

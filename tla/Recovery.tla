------------------------------ MODULE Recovery ------------------------------
(***************************************************************************)
(* Import of one project's recovery archive into two stores that share no  *)
(* transaction: the ledger (import_recovery_archive in                     *)
(* crates/persistence/src/recovery.rs, called by the desktop) and the      *)
(* gateway's project directory (import_snapshot in                         *)
(* gateway/runtime_archive.py).                                            *)
(*                                                                         *)
(* The desktop asks the gateway to stage the runtime, opens a ledger       *)
(* transaction, asks to publish, commits and asks to finalize; whatever    *)
(* fails is rolled back and aborted.  A request times out after a minute,  *)
(* and the gateway may handle it later all the same.  It handles one       *)
(* request at a time, under its projects lock.  Either process may stop.   *)
(*                                                                         *)
(* The archive is verified and frozen before the first request and is the  *)
(* same at every attempt; the uuid of an intent is that of its attempt.    *)
(***************************************************************************)
EXTENDS Naturals

CONSTANTS
  None,
  Seed,         \* origin of a runtime that a gateway call created
  MaxAttempts,  \* bound: imports the user starts
  MaxStops      \* bound: how often a process stops

Tokens  == 1..MaxAttempts
Runtime == [from : Tokens \cup {Seed}, intent : BOOLEAN]

ASSUME RecoveryAssumption ==
  /\ MaxAttempts \in Nat /\ MaxStops \in Nat
  /\ None \notin Nat \cup Runtime /\ Seed \notin Nat /\ None # Seed

VARIABLES
  imported,   \* recovery_imports: the tokens committed with the project's rows
  staged,     \* recovery-staging/<token>, each with its intent
  final,      \* the project's directory: whose runtime, and is the intent there
  aborted,    \* recovery-staging/<token>.aborted
  active,     \* the gateway has the project open
  requests,   \* requests the gateway has not handled
  importer,   \* the import the desktop is in
  attempts,
  late,       \* a request outlived the import that waited for it
  stops

dirs == <<staged, final, aborted, active>>
vars == <<imported, dirs, requests, importer, attempts, late, stops>>

-----------------------------------------------------------------------------
(* Data *)

Actions  == {"stage", "publish", "finalize", "abort"}
Requests == [action : Actions, attempt : Tokens, token : Tokens]
Waiting  == {"staging", "publishing", "finalizing", "aborting"}
Importer == [at : Waiting \cup {"idle", "staged", "published", "failed"}, token : Tokens \cup {None}]

Idle == [at |-> "idle", token |-> None]

\* The project is in the ledger.
Exists == imported # {}

Init ==
  /\ imported = {} /\ staged = {} /\ final = None /\ aborted = {} /\ active = FALSE
  /\ requests = {} /\ importer = Idle /\ attempts = 0 /\ late = FALSE /\ stops = 0

-----------------------------------------------------------------------------
(* The desktop: import_recovery_archive *)

Doing == [stage |-> "staging", publish |-> "publishing",
          finalize |-> "finalizing", abort |-> "aborting"]

Ask(action, attempt, token) ==
  /\ requests' = requests \cup {[action |-> action, attempt |-> attempt, token |-> token]}
  /\ importer' = [at |-> Doing[action], token |-> token]

\* A project that exists is never imported over.
Import ==
  /\ importer = Idle /\ attempts < MaxAttempts
  /\ ~Exists
  /\ attempts' = attempts + 1
  /\ Ask("stage", attempts', attempts')
  /\ UNCHANGED <<imported, dirs, late, stops>>

\* BEGIN IMMEDIATE, the rows of the archive and the import row; publish is
\* asked within the transaction.
Begin ==
  /\ importer.at = "staged"
  /\ Ask("publish", attempts, importer.token)
  /\ UNCHANGED <<imported, dirs, attempts, late, stops>>

\* COMMIT.
Commit ==
  /\ importer.at = "published"
  /\ imported' = imported \cup {importer.token}
  /\ Ask("finalize", attempts, importer.token)
  /\ UNCHANGED <<dirs, attempts, late, stops>>

\* BEGIN, a row or COMMIT fails: ROLLBACK.
LedgerFails ==
  /\ importer.at \in {"staged", "published"}
  /\ importer' = [importer EXCEPT !.at = "failed"]
  /\ UNCHANGED <<imported, dirs, requests, attempts, late, stops>>

Abort ==
  /\ importer.at = "failed"
  /\ Ask("abort", attempts, importer.token)
  /\ UNCHANGED <<imported, dirs, attempts, late, stops>>

\* Mutant: a failed publish does not end the import.
AfterAnyPublish(ok, token) ==
  CASE importer.at = "staging"    -> IF ok THEN [at |-> "staged", token |-> token] ELSE Idle
    [] importer.at = "publishing" -> [importer EXCEPT !.at = "published"]
    [] OTHER                      -> Idle

\* What the import does with an answer; what abort and finalize answer is ignored.
After(ok, token) ==
  CASE importer.at = "staging"    -> IF ok THEN [at |-> "staged", token |-> token] ELSE Idle
    [] importer.at = "publishing" -> [importer EXCEPT !.at = IF ok THEN "published" ELSE "failed"]
    [] OTHER                      -> Idle

Awaited(r) == r.attempt = attempts /\ importer.at = Doing[r.action]

\* The answer does not come in a minute; the request is lost, or still there.
Timeout ==
  \E r \in requests :
    /\ Awaited(r)
    /\ importer' = After(FALSE, None)
    /\ \/ requests' = requests \ {r} /\ UNCHANGED late
       \/ late' = TRUE /\ UNCHANGED requests
    /\ UNCHANGED <<imported, dirs, attempts, stops>>

DesktopStops ==
  /\ stops < MaxStops /\ importer # Idle
  /\ stops' = stops + 1
  /\ importer' = Idle
  /\ late' = (late \/ requests # {})
  /\ UNCHANGED <<imported, dirs, requests, attempts>>

-----------------------------------------------------------------------------
(* The gateway: import_snapshot *)

Committed(t) == t \in imported

\* The intent found in staging, or else in the project's directory, is this one.
Intended(t) == t \in staged \/ (final # None /\ final.intent /\ final.from = t)

\* Mutant: an intent is taken as it is found.
FinalizesAny == TRUE

\* finalize_pending raises on an intent without its row in the ledger, and else
\* the receipt replaces the intent.
Finalizable == final # None /\ final.intent => Committed(final.from)

Finalized == IF final # None /\ final.intent THEN [final EXCEPT !.intent = FALSE] ELSE final

\* The import that published this archive and did not commit it.
Pending == final.from

\* A pending import of this archive is resumed, any other runtime is kept.
Stage(r, ok, token) ==
  /\ r.action = "stage"
  /\ \/ /\ final = None
        /\ ok = TRUE /\ token = r.token
        /\ staged' = staged \cup {r.token}
     \/ /\ final # None
        /\ ok = (final.intent /\ ~Committed(final.from))
        /\ token = IF ok THEN Pending ELSE None
        /\ UNCHANGED staged
  /\ UNCHANGED <<final, aborted>>

\* Mutant: the staged runtime is copied.
KeepsStaged(t) == staged

\* The rename: out of staging, the intent with the runtime.
Unstaged(t)  == staged \ {t}
Published(t) == [from |-> t, intent |-> TRUE]

Publish(r, ok) ==
  /\ r.action = "publish"
  /\ ok = (Intended(r.token) /\ (r.token \in staged => final = None))
  /\ IF ok /\ r.token \in staged
     THEN staged' = Unstaged(r.token) /\ final' = Published(r.token)
     ELSE UNCHANGED <<staged, final>>
  /\ UNCHANGED aborted

Finalize(r, ok) ==
  /\ r.action = "finalize"
  /\ ok = (Intended(r.token) /\ Finalizable)
  /\ final' = IF ok THEN Finalized ELSE final
  /\ UNCHANGED <<staged, aborted>>

\* Mutant: the ledger is not asked.
QuarantinesAlways(t) == TRUE

\* What the ledger committed is finalized, anything else leaves the way.
Quarantines(t) == ~Committed(t)

AbortImport(r, ok) ==
  /\ r.action = "abort"
  /\ ok = (/\ Intended(r.token)
           /\ IF Quarantines(r.token) THEN r.token \notin aborted ELSE Finalizable)
  /\ CASE ok /\ Quarantines(r.token) ->
            /\ aborted' = aborted \cup {r.token}
            /\ IF r.token \in staged
               THEN staged' = staged \ {r.token} /\ UNCHANGED final
               ELSE final' = None /\ UNCHANGED staged
       [] ok /\ ~Quarantines(r.token) -> final' = Finalized /\ UNCHANGED <<staged, aborted>>
       [] OTHER -> UNCHANGED <<staged, final, aborted>>

\* An open project is left alone.
Serve(r, ok, token) ==
  IF active
  THEN ok = FALSE /\ token = None /\ UNCHANGED <<staged, final, aborted>>
  ELSE \/ Stage(r, ok, token)
       \/ token = r.token /\ (Publish(r, ok) \/ Finalize(r, ok) \/ AbortImport(r, ok))

\* One request, under the projects lock.  The answer reaches the import that
\* waits for it, or is lost on the way.
Handle(r) ==
  /\ r \in requests /\ requests' = requests \ {r}
  /\ \E ok \in BOOLEAN, token \in Tokens \cup {None} :
       /\ Serve(r, ok, token)
       /\ IF Awaited(r)
          THEN importer' = After(ok, token) \/ importer' = After(FALSE, None)
          ELSE UNCHANGED importer
  /\ UNCHANGED <<imported, active, attempts, late, stops>>

\* project(): a call on the runtime of a project of the ledger.  A pending intent
\* keeps it closed; a directory that is not there is made, and seeded.  The
\* document routes past the runtime open the library alone and are not here.
OpenProject ==
  /\ Exists /\ ~active /\ Finalizable
  /\ final' = IF final = None THEN [from |-> Seed, intent |-> FALSE] ELSE Finalized
  /\ active' = TRUE
  /\ UNCHANGED <<imported, staged, aborted, requests, importer, attempts, late, stops>>

GatewayStops ==
  /\ stops < MaxStops /\ (requests # {} \/ active)
  /\ stops' = stops + 1
  /\ active' = FALSE
  /\ requests' = {}
  /\ importer' = IF \E r \in requests : Awaited(r) THEN After(FALSE, None) ELSE importer
  /\ UNCHANGED <<imported, staged, final, aborted, attempts, late>>

-----------------------------------------------------------------------------

Next ==
  \/ Import \/ Begin \/ Commit \/ LedgerFails \/ Abort \/ Timeout \/ DesktopStops
  \/ (\E r \in requests : Handle(r)) \/ OpenProject \/ GatewayStops

Spec == Init /\ [][Next]_vars

-----------------------------------------------------------------------------
(* Properties *)

\* Every variable holds a value of its kind.
TypeOK ==
  /\ imported \subseteq Tokens /\ staged \subseteq Tokens /\ aborted \subseteq Tokens
  /\ final \in Runtime \cup {None}
  /\ active \in BOOLEAN /\ late \in BOOLEAN
  /\ requests \subseteq Requests
  /\ importer \in Importer
  /\ attempts \in 0..MaxAttempts /\ stops \in 0..MaxStops

\* "Crash after publication but before ledger commit: project runtime access
\* fails closed": a runtime is used only if the ledger committed its import.
FailsClosed ==
  /\ active => final # None /\ ~final.intent
  /\ final # None /\ ~final.intent => Exists /\ final.from \in imported \cup {Seed}

\* "Retry the same verified archive to resume": while the ledger has no project,
\* whatever is in its directory is an intent that the next attempt takes up.
RetryCanResume == ~Exists /\ final # None => final.intent

\* An archive has one runtime on its way: a token is staged, published or
\* quarantined, never two of these, and the ledger commits one of them.
OneRuntimePerImport ==
  /\ \A s, t \in imported : s = t
  /\ staged \cap aborted = {}
  /\ final # None => final.from \notin staged \cup aborted

\* "Import never overwrites": a runtime that is in use, or whose import is
\* committed, stays where it is.
NeverOverwritten ==
  [][final # None /\ (~final.intent \/ Committed(final.from)) =>
       final' # None /\ final'.from = final.from]_vars

\* "The destination ledger transaction and a runtime import intent coordinate
\* publication": a project in the ledger has the runtime of its archive, after
\* failures, lost replies, stops and retries.
ImportIsWhole == Exists /\ ~late => final # None /\ final.from \in imported

\* The same when a request that timed out is handled later.
ImportIsAtomic == Exists => final # None /\ final.from \in imported
=============================================================================

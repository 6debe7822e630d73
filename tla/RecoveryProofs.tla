--------------------------- MODULE RecoveryProofs ---------------------------
(***************************************************************************)
(* Proofs about the import of an archive, for any number of attempts and   *)
(* stops.  The inductive invariant adds to the safety properties which     *)
(* numbers are in use (Numbered, Fresh), that the ledger has no project    *)
(* before COMMIT (BeforeCommit) and, as long as no request outlived its    *)
(* import, that desktop and gateway are in step (InStep).                  *)
(***************************************************************************)
EXTENDS Recovery, TLAPS

\* Whatever names an attempt names one that was begun.
Numbered ==
  /\ staged \cup aborted \subseteq 1..attempts
  /\ final # None => final.from \in (1..attempts) \cup {Seed}
  /\ final # None /\ final.intent => final.from # Seed
  /\ \A r \in requests : r.token \in 1..attempts
  /\ importer.at # "idle" => importer.token \in 1..attempts

\* A request to stage names a runtime that is nowhere yet.
Fresh ==
  \A r \in requests : r.action = "stage" =>
    /\ r.attempt = r.token
    /\ r.token \notin staged \cup aborted
    /\ final # None => final.from # r.token

BeforeCommit == importer.at \notin {"idle", "finalizing"} => ~Exists

\* Without late requests the gateway has at most the one the import waits for,
\* and what was published is there when the import commits.
InStep ==
  ~late =>
    /\ \A r \in requests : Awaited(r) /\ r.token = importer.token
    /\ importer.at = "published" => final # None /\ final.from = importer.token

IInv ==
  /\ TypeOK /\ FailsClosed /\ OneRuntimePerImport /\ ImportIsWhole
  /\ Numbered /\ Fresh /\ BeforeCommit /\ InStep

-----------------------------------------------------------------------------
(* One request of the gateway. *)

\* The six things a request can do to the directories, whatever it asks.
\* import_snapshot leaves them alone unless it names the branch it takes.
LEMMA ServeCases ==
  ASSUME IInv, NEW r \in requests, NEW ok \in BOOLEAN,
         NEW token \in Tokens \cup {None}, Serve(r, ok, token)
  PROVE  \/ UNCHANGED <<staged, final, aborted>>
         \/ /\ r.action = "stage" /\ staged' = staged \cup {r.token}
            /\ UNCHANGED <<final, aborted>> /\ final = None
         \/ /\ r.action = "publish" /\ r.token \in staged /\ final = None
            /\ staged' = staged \ {r.token}
            /\ final' = [from |-> r.token, intent |-> TRUE]
            /\ UNCHANGED aborted
         \/ /\ r.action \in {"finalize", "abort"}
            /\ final # None /\ final.intent /\ Committed(final.from)
            /\ final' = [final EXCEPT !.intent = FALSE]
            /\ UNCHANGED <<staged, aborted>>
         \/ /\ r.action = "abort" /\ r.token \in staged
            /\ staged' = staged \ {r.token} /\ aborted' = aborted \cup {r.token}
            /\ UNCHANGED final
         \/ /\ r.action = "abort" /\ r.token \notin staged /\ ~Committed(r.token)
            /\ final # None /\ final.intent /\ final.from = r.token
            /\ final' = None /\ aborted' = aborted \cup {r.token}
            /\ UNCHANGED staged
<1>1. CASE active
  BY <1>1 DEF Serve
<1>2. CASE Stage(r, ok, token)
  BY <1>2 DEF Stage
<1>3. CASE Publish(r, ok)
  BY <1>3 DEF Publish, Unstaged, Published
<1>4. CASE Finalize(r, ok)
  BY <1>4 DEF Finalize, Finalizable, Finalized
<1>5. CASE AbortImport(r, ok)
  BY <1>5 DEF AbortImport, Quarantines, Intended, Finalizable, Finalized
<1> QED BY <1>1, <1>2, <1>3, <1>4, <1>5 DEF Serve

\* What an answer says: a staged runtime has a number in use, and after a
\* publish that succeeded the runtime is in place.
LEMMA AnswerMeans ==
  ASSUME IInv, NEW r \in requests, NEW ok \in BOOLEAN,
         NEW token \in Tokens \cup {None}, Serve(r, ok, token), ok
  PROVE  /\ r.action = "stage" => token \in 1..attempts
         /\ r.action = "publish" => final' # None /\ final'.from = r.token
<1> USE DEF IInv
<1>1. ~active
  BY DEF Serve
<1>2. CASE Stage(r, ok, token)
  <2>1. r.action = "stage"
    BY <1>2 DEF Stage
  <2>2. final = None => token = r.token
    BY <1>2 DEF Stage
  <2>3. final # None => final.intent /\ token = final.from
    BY <1>2 DEF Stage, Pending
  <2> QED BY <2>1, <2>2, <2>3 DEF Numbered
<1>3. CASE Publish(r, ok)
  <2>1. r.action = "publish" /\ Intended(r.token)
    BY <1>3 DEF Publish
  <2>2. CASE r.token \in staged
    <3>1. final' = [from |-> r.token, intent |-> TRUE]
      BY <1>3, <2>2 DEF Publish, Published
    <3>2. r.token \in Tokens
      BY DEF TypeOK, Requests
    <3>3. final' \in Runtime /\ final'.from = r.token
      BY <3>1, <3>2 DEF Runtime
    <3> QED BY <2>1, <3>3, RecoveryAssumption
  <2>3. CASE r.token \notin staged
    BY <1>3, <2>1, <2>3 DEF Publish, Intended
  <2> QED BY <2>2, <2>3
<1>4. CASE Finalize(r, ok) \/ AbortImport(r, ok)
  BY <1>4 DEF Finalize, AbortImport
<1> QED BY <1>1, <1>2, <1>3, <1>4 DEF Serve

\* The directories after a request: types, and who is where.
LEMMA ServeKeeps ==
  ASSUME IInv, NEW r \in requests, NEW ok \in BOOLEAN,
         NEW token \in Tokens \cup {None}, Serve(r, ok, token),
         requests' = requests \ {r}, UNCHANGED <<imported, active, attempts>>
  PROVE  /\ staged' \subseteq Tokens /\ aborted' \subseteq Tokens
         /\ final' \in Runtime \cup {None}
         /\ staged' \cup aborted' \subseteq 1..attempts
         /\ final' # None => final'.from \in (1..attempts) \cup {Seed}
         /\ final' # None /\ final'.intent => final'.from # Seed
         /\ FailsClosed' /\ OneRuntimePerImport' /\ Fresh'
<1> USE DEF IInv
<1>1. /\ r \in Requests /\ r.token \in 1..attempts /\ r.token \in Tokens
      /\ \A q \in requests' : q \in requests /\ q # r
  BY DEF TypeOK, Requests, Numbered
<1>2. \A q \in requests' : q.action = "stage" /\ r.action = "stage" => q.token # r.token
  <2> SUFFICES ASSUME NEW q \in requests', q.action = "stage", r.action = "stage",
                      q.token = r.token
               PROVE  FALSE
    OBVIOUS
  <2>1. q \in Requests /\ q.attempt = q.token /\ r.attempt = r.token
    BY <1>1 DEF TypeOK, Fresh
  <2>2. q = r
    BY <1>1, <2>1 DEF Requests
  <2> QED BY <1>1, <2>2
<1>3. CASE UNCHANGED <<staged, final, aborted>>
  BY <1>1, <1>3 DEF TypeOK, Numbered, FailsClosed, OneRuntimePerImport, Fresh, Exists
<1>4. CASE /\ r.action = "stage" /\ staged' = staged \cup {r.token}
           /\ UNCHANGED <<final, aborted>> /\ final = None
  <2>1. r.token \notin aborted
    BY <1>4 DEF Fresh
  <2>2. OneRuntimePerImport' /\ FailsClosed'
    BY <1>4, <2>1 DEF OneRuntimePerImport, FailsClosed, Exists
  <2>3. Fresh'
    BY <1>1, <1>2, <1>4 DEF Fresh
  <2> QED BY <1>1, <1>4, <2>2, <2>3 DEF TypeOK, Numbered
<1>5. CASE /\ r.action = "publish" /\ r.token \in staged /\ final = None
           /\ staged' = staged \ {r.token}
           /\ final' = [from |-> r.token, intent |-> TRUE]
           /\ UNCHANGED aborted
  <2>1. /\ final' \in Runtime /\ final' # None
        /\ final'.from = r.token /\ final'.intent = TRUE
    <3>1. final'.from = r.token /\ final'.intent = TRUE
      BY <1>5
    <3>2. final' \in Runtime
      BY <1>1, <1>5 DEF Runtime
    <3> QED BY <3>1, <3>2, RecoveryAssumption
  <2>2. r.token # Seed
    BY <1>1, RecoveryAssumption DEF Tokens
  <2>3. OneRuntimePerImport'
    BY <1>5, <2>1 DEF OneRuntimePerImport
  <2>4. FailsClosed'
    BY <1>5, <2>1 DEF FailsClosed
  <2>5. Fresh'
    BY <1>1, <1>5, <2>1 DEF Fresh
  <2> QED BY <1>1, <1>5, <2>1, <2>2, <2>3, <2>4, <2>5 DEF TypeOK, Numbered
<1>6. CASE /\ r.action \in {"finalize", "abort"}
           /\ final # None /\ final.intent /\ Committed(final.from)
           /\ final' = [final EXCEPT !.intent = FALSE]
           /\ UNCHANGED <<staged, aborted>>
  <2>1. /\ final' \in Runtime /\ final' # None
        /\ final'.from = final.from /\ final'.intent = FALSE
    BY <1>6, RecoveryAssumption DEF TypeOK, Runtime
  <2>2. FailsClosed'
    BY <1>6, <2>1 DEF FailsClosed, Committed, Exists
  <2>3. OneRuntimePerImport' /\ Fresh'
    BY <1>1, <1>6, <2>1 DEF OneRuntimePerImport, Fresh
  <2> QED BY <1>6, <2>1, <2>2, <2>3 DEF TypeOK, Numbered
<1>7. CASE /\ r.action = "abort" /\ r.token \in staged
           /\ staged' = staged \ {r.token} /\ aborted' = aborted \cup {r.token}
           /\ UNCHANGED final
  <2>1. OneRuntimePerImport' /\ FailsClosed'
    BY <1>7 DEF OneRuntimePerImport, FailsClosed, Exists
  <2>2. Fresh'
    BY <1>1, <1>7 DEF Fresh
  <2> QED BY <1>1, <1>7, <2>1, <2>2 DEF TypeOK, Numbered
<1>8. CASE /\ r.action = "abort" /\ r.token \notin staged /\ ~Committed(r.token)
           /\ final # None /\ final.intent /\ final.from = r.token
           /\ final' = None /\ aborted' = aborted \cup {r.token}
           /\ UNCHANGED staged
  <2>1. OneRuntimePerImport' /\ FailsClosed'
    BY <1>8 DEF OneRuntimePerImport, FailsClosed
  <2>2. Fresh'
    BY <1>1, <1>8 DEF Fresh
  <2> QED BY <1>1, <1>8, <2>1, <2>2 DEF TypeOK, Numbered
<1> QED BY ServeCases, <1>3, <1>4, <1>5, <1>6, <1>7, <1>8

\* A runtime that is in use or committed is left where it is.
LEMMA ServeSpares ==
  ASSUME IInv, NEW r \in requests, NEW ok \in BOOLEAN,
         NEW token \in Tokens \cup {None}, Serve(r, ok, token),
         final # None, ~final.intent \/ Committed(final.from)
  PROVE  final' # None /\ final'.from = final.from
<1>1. final \in Runtime
  BY DEF IInv, TypeOK
<1>2. ASSUME final' = [final EXCEPT !.intent = FALSE]
      PROVE  final' \in Runtime /\ final'.from = final.from
  BY <1>1, <1>2 DEF Runtime
<1> QED BY ServeCases, <1>2, RecoveryAssumption

-----------------------------------------------------------------------------
(* The steps. *)

LEMMA Starts == Init => IInv
<1> SUFFICES ASSUME Init PROVE IInv
  OBVIOUS
<1>1. importer \in Importer /\ importer.at = "idle"
  BY DEF Init, Idle, Importer
<1>2. TypeOK
  <2>1. attempts \in 0..MaxAttempts /\ stops \in 0..MaxStops
    BY RecoveryAssumption DEF Init
  <2>2. active \in BOOLEAN /\ late \in BOOLEAN
    BY DEF Init
  <2> QED BY <1>1, <2>1, <2>2 DEF Init, TypeOK
<1>3. FailsClosed /\ OneRuntimePerImport /\ ImportIsWhole
  BY DEF Init, FailsClosed, OneRuntimePerImport, ImportIsWhole, Exists
<1>4. Numbered /\ Fresh /\ BeforeCommit /\ InStep
  BY <1>1 DEF Init, Numbered, Fresh, BeforeCommit, InStep
<1> QED BY <1>2, <1>3, <1>4 DEF IInv

\* The desktop asks: what it waits for is the only thing the gateway has, unless
\* something is late.
LEMMA AskKeeps ==
  ASSUME IInv, importer.at \notin Waiting,
         NEW action \in Actions, NEW token, Ask(action, attempts', token),
         attempts' \in Tokens, attempts <= attempts', token \in 1..attempts',
         UNCHANGED <<dirs, late, stops>>
  PROVE  /\ requests' \subseteq Requests /\ importer' \in Importer
         /\ Numbered'
         /\ ~late' => \A r \in requests' : Awaited(r)' /\ r.token = importer'.token
         /\ importer'.at = Doing[action] /\ importer'.at # "published"
<1> USE DEF IInv
<1> DEFINE new == [action |-> action, attempt |-> attempts', token |-> token]
<1>1. new \in Requests /\ requests' = requests \cup {new}
  <2>1. token \in Tokens
    BY RecoveryAssumption DEF Tokens
  <2> QED BY <2>1 DEF Requests, Ask
<1>2. importer' = [at |-> Doing[action], token |-> token] /\ Doing[action] \in Waiting
  BY DEF Ask, Doing, Actions, Waiting
<1>3. importer' \in Importer
  <2>1. token \in Tokens
    BY RecoveryAssumption DEF Tokens
  <2> QED BY <1>2, <2>1 DEF Importer
<1>4. Numbered'
  <2>1. 1..attempts \subseteq 1..attempts'
    BY DEF TypeOK, Tokens
  <2>2. \A r \in requests' : r.token \in 1..attempts'
    BY <1>1, <2>1 DEF Numbered
  <2>3. importer'.token \in 1..attempts'
    BY <1>2
  <2> QED BY <2>1, <2>2, <2>3 DEF Numbered, dirs
<1>5. ~late => requests = {}
  BY DEF InStep, Awaited, Doing, Waiting, Requests, Actions, TypeOK
<1>6. ~late' => \A r \in requests' : Awaited(r)' /\ r.token = importer'.token
  BY <1>1, <1>2, <1>5 DEF Awaited
<1>7. importer'.at = Doing[action] /\ importer'.at # "published"
  BY <1>2 DEF Waiting
<1> QED BY <1>1, <1>3, <1>4, <1>6, <1>7 DEF TypeOK

\* Steps that only move the import, or drop requests, leave the directories and
\* the ledger as they are.
LEMMA QuietKeeps ==
  ASSUME IInv, UNCHANGED <<imported, dirs, attempts>>, requests' \subseteq requests,
         ~late' => ~late
  PROVE  FailsClosed' /\ OneRuntimePerImport' /\ ImportIsWhole' /\ Fresh'
  BY DEF IInv, dirs, FailsClosed, OneRuntimePerImport, ImportIsWhole, Fresh, Exists

\* An import that ended or failed knows nothing of the gateway.
LEMMA FailedAnswer ==
  ASSUME IInv, importer.at \in Waiting, importer' = After(FALSE, None)
  PROVE  /\ importer' \in Importer /\ importer'.at \in {"idle", "failed"}
         /\ importer'.at # "idle" => importer.at = "publishing" /\ importer'.token = importer.token
<1>1. CASE importer.at = "publishing"
  <2>1. importer' = [importer EXCEPT !.at = "failed"]
    BY <1>1 DEF After
  <2> QED BY <1>1, <2>1 DEF IInv, TypeOK, Importer
<1>2. CASE importer.at # "publishing"
  <2>1. importer' = Idle
    BY <1>2 DEF After, Waiting
  <2>2. importer' \in Importer /\ importer'.at = "idle"
    <3>1. Idle \in Importer /\ Idle.at = "idle"
      BY DEF Idle, Importer
    <3> QED BY <2>1, <3>1
  <2> QED BY <2>2
<1> QED BY <1>1, <1>2

LEMMA ImportKeeps == IInv /\ Import => IInv'
<1> SUFFICES ASSUME IInv, Import PROVE IInv'
  OBVIOUS
<1> USE DEF IInv
<1>1. /\ attempts' = attempts + 1 /\ attempts' \in Tokens /\ attempts <= attempts'
      /\ attempts' \in 1..attempts' /\ attempts' \notin 1..attempts
      /\ importer.at = "idle" /\ imported = {}
      /\ Ask("stage", attempts', attempts') /\ UNCHANGED <<imported, dirs, late, stops>>
  BY RecoveryAssumption DEF Import, TypeOK, Tokens, Idle, Exists
<1>2. /\ requests' \subseteq Requests /\ importer' \in Importer /\ Numbered'
      /\ ~late' => \A r \in requests' : Awaited(r)' /\ r.token = importer'.token
      /\ importer'.at = "staging"
  BY <1>1, AskKeeps DEF Actions, Waiting, Doing
<1>3. TypeOK'
  BY <1>1, <1>2, RecoveryAssumption DEF TypeOK, dirs, Tokens
<1>4. FailsClosed' /\ OneRuntimePerImport' /\ ImportIsWhole' /\ BeforeCommit'
  BY <1>1 DEF dirs, FailsClosed, OneRuntimePerImport, ImportIsWhole, BeforeCommit, Exists
<1>5. InStep'
  BY <1>2 DEF InStep
<1>6. Fresh'
  <2>1. attempts' # Seed
    BY <1>1, RecoveryAssumption DEF Tokens
  <2>2. attempts' \notin staged \cup aborted /\ (final # None => final.from # attempts')
    BY <1>1, <2>1 DEF Numbered
  <2> QED BY <1>1, <2>2 DEF Fresh, Ask, dirs
<1> QED BY <1>2, <1>3, <1>4, <1>5, <1>6

LEMMA BeginKeeps == IInv /\ Begin => IInv'
<1> SUFFICES ASSUME IInv, Begin PROVE IInv'
  OBVIOUS
<1> USE DEF IInv
<1>1. /\ attempts' = attempts /\ importer.token \in 1..attempts
      /\ attempts \in Tokens /\ importer.at = "staged" /\ imported = {}
      /\ Ask("publish", attempts', importer.token) /\ UNCHANGED <<imported, dirs, late, stops>>
  BY RecoveryAssumption DEF Begin, TypeOK, Tokens, Numbered, BeforeCommit, Exists
<1>2. /\ requests' \subseteq Requests /\ importer' \in Importer /\ Numbered'
      /\ ~late' => \A r \in requests' : Awaited(r)' /\ r.token = importer'.token
      /\ importer'.at = "publishing"
  BY <1>1, AskKeeps DEF Actions, Waiting, Doing, Tokens
<1>3. TypeOK'
  BY <1>1, <1>2 DEF TypeOK, dirs
<1>4. FailsClosed' /\ OneRuntimePerImport' /\ ImportIsWhole' /\ BeforeCommit'
  BY <1>1 DEF dirs, FailsClosed, OneRuntimePerImport, ImportIsWhole, BeforeCommit, Exists
<1>5. InStep' /\ Fresh'
  BY <1>1, <1>2 DEF InStep, Fresh, Ask, dirs
<1> QED BY <1>2, <1>3, <1>4, <1>5

LEMMA AbortKeeps == IInv /\ Abort => IInv'
<1> SUFFICES ASSUME IInv, Abort PROVE IInv'
  OBVIOUS
<1> USE DEF IInv
<1>1. /\ attempts' = attempts /\ importer.token \in 1..attempts
      /\ attempts \in Tokens /\ importer.at = "failed" /\ imported = {}
      /\ Ask("abort", attempts', importer.token) /\ UNCHANGED <<imported, dirs, late, stops>>
  BY RecoveryAssumption DEF Abort, TypeOK, Tokens, Numbered, BeforeCommit, Exists
<1>2. /\ requests' \subseteq Requests /\ importer' \in Importer /\ Numbered'
      /\ ~late' => \A r \in requests' : Awaited(r)' /\ r.token = importer'.token
      /\ importer'.at = "aborting"
  BY <1>1, AskKeeps DEF Actions, Waiting, Doing, Tokens
<1>3. TypeOK'
  BY <1>1, <1>2 DEF TypeOK, dirs
<1>4. FailsClosed' /\ OneRuntimePerImport' /\ ImportIsWhole' /\ BeforeCommit'
  BY <1>1 DEF dirs, FailsClosed, OneRuntimePerImport, ImportIsWhole, BeforeCommit, Exists
<1>5. InStep' /\ Fresh'
  BY <1>1, <1>2 DEF InStep, Fresh, Ask, dirs
<1> QED BY <1>2, <1>3, <1>4, <1>5

\* COMMIT: the ledger had no project, and without late requests the runtime that
\* was published is the one the project gets.
LEMMA CommitKeeps == IInv /\ Commit => IInv'
<1> SUFFICES ASSUME IInv, Commit PROVE IInv'
  OBVIOUS
<1> USE DEF IInv
<1>1. /\ attempts' = attempts /\ importer.token \in 1..attempts /\ importer.token \in Tokens
      /\ attempts \in Tokens /\ importer.at = "published"
      /\ imported = {} /\ imported' = {importer.token}
      /\ Ask("finalize", attempts', importer.token) /\ UNCHANGED <<dirs, late, stops>>
  BY RecoveryAssumption DEF Commit, TypeOK, Tokens, Numbered, BeforeCommit, Exists
<1>2. /\ requests' \subseteq Requests /\ importer' \in Importer /\ Numbered'
      /\ ~late' => \A r \in requests' : Awaited(r)' /\ r.token = importer'.token
      /\ importer'.at = "finalizing"
  BY <1>1, AskKeeps DEF Actions, Waiting, Doing, Tokens
<1>3. TypeOK'
  BY <1>1, <1>2 DEF TypeOK, dirs
<1>4. FailsClosed' /\ OneRuntimePerImport'
  BY <1>1 DEF dirs, FailsClosed, OneRuntimePerImport, Exists
<1>5. ImportIsWhole'
  BY <1>1 DEF InStep, ImportIsWhole, dirs
<1>6. BeforeCommit' /\ InStep' /\ Fresh'
  BY <1>1, <1>2 DEF BeforeCommit, InStep, Fresh, Ask, dirs
<1> QED BY <1>2, <1>3, <1>4, <1>5, <1>6

LEMMA LedgerFailsKeeps == IInv /\ LedgerFails => IInv'
<1> SUFFICES ASSUME IInv, LedgerFails PROVE IInv'
  OBVIOUS
<1> USE DEF IInv
<1>1. /\ importer.at \in {"staged", "published"} /\ importer' \in Importer
      /\ importer'.at = "failed" /\ importer'.token = importer.token
      /\ UNCHANGED <<imported, dirs, requests, attempts, late, stops>>
  BY DEF LedgerFails, TypeOK, Importer
<1>2. TypeOK' /\ Numbered' /\ BeforeCommit'
  BY <1>1 DEF TypeOK, Numbered, BeforeCommit, Exists, dirs
<1>3. InStep'
  <2>1. ~late => requests = {}
    BY <1>1 DEF InStep, Awaited, Doing, Requests, Actions, TypeOK
  <2> QED BY <1>1, <2>1 DEF InStep
<1> QED BY <1>1, <1>2, <1>3, QuietKeeps

\* Without late requests the gateway has one at most.
LEMMA OneRequest ==
  ASSUME IInv, ~late, NEW r \in requests, NEW q \in requests
  PROVE  q = r
<1>1. r \in Requests /\ q \in Requests
  BY DEF IInv, TypeOK
<1>2. r.attempt = q.attempt /\ r.token = q.token /\ Doing[r.action] = Doing[q.action]
  BY DEF IInv, InStep, Awaited
<1>3. r.action = q.action
  BY <1>1, <1>2 DEF Doing, Requests, Actions
<1> QED BY <1>1, <1>2, <1>3 DEF Requests

LEMMA AwaitedWaits ==
  ASSUME IInv, NEW r \in requests, Awaited(r)
  PROVE  importer.at = Doing[r.action] /\ importer.at \in Waiting
  BY DEF IInv, TypeOK, Requests, Actions, Awaited, Doing, Waiting

LEMMA TimeoutKeeps == IInv /\ Timeout => IInv'
<1> SUFFICES ASSUME IInv, Timeout PROVE IInv'
  OBVIOUS
<1> USE DEF IInv
<1>1. PICK r \in requests :
        /\ Awaited(r) /\ importer' = After(FALSE, None)
        /\ \/ requests' = requests \ {r} /\ UNCHANGED late
           \/ late' = TRUE /\ UNCHANGED requests
        /\ UNCHANGED <<imported, dirs, attempts, stops>>
  BY DEF Timeout
<1>2. /\ importer' \in Importer /\ importer'.at \in {"idle", "failed"}
      /\ importer'.at # "idle" => importer.at = "publishing" /\ importer'.token = importer.token
  BY <1>1, AwaitedWaits, FailedAnswer
<1>3. requests' \subseteq requests /\ (~late' => ~late /\ requests' = {}) /\ late' \in BOOLEAN
  <2>1. CASE requests' = requests \ {r} /\ UNCHANGED late
    BY <2>1, OneRequest DEF TypeOK
  <2>2. CASE late' = TRUE /\ UNCHANGED requests
    BY <2>2
  <2> QED BY <1>1, <2>1, <2>2
<1>4. TypeOK' /\ Numbered' /\ BeforeCommit'
  BY <1>1, <1>2, <1>3 DEF TypeOK, Numbered, BeforeCommit, Exists, dirs
<1>5. InStep'
  BY <1>2, <1>3 DEF InStep
<1> QED BY <1>1, <1>3, <1>4, <1>5, QuietKeeps

LEMMA DesktopStopsKeeps == IInv /\ DesktopStops => IInv'
<1> SUFFICES ASSUME IInv, DesktopStops PROVE IInv'
  OBVIOUS
<1> USE DEF IInv
<1>1. /\ importer' \in Importer /\ importer'.at = "idle"
      /\ stops' \in 0..MaxStops /\ late' \in BOOLEAN
      /\ ~late' => ~late /\ requests' = {}
      /\ UNCHANGED <<imported, dirs, requests, attempts>>
  <2>1. Idle \in Importer /\ Idle.at = "idle"
    BY DEF Idle, Importer
  <2>2. stops' \in 0..MaxStops
    BY RecoveryAssumption DEF DesktopStops, TypeOK
  <2>3. late' \in BOOLEAN /\ (~late' => ~late /\ requests' = {})
    BY DEF DesktopStops, TypeOK
  <2> QED BY <2>1, <2>2, <2>3 DEF DesktopStops
<1>2. TypeOK' /\ Numbered' /\ BeforeCommit' /\ InStep'
  BY <1>1 DEF TypeOK, Numbered, BeforeCommit, InStep, dirs
<1> QED BY <1>1, <1>2, QuietKeeps

LEMMA GatewayStopsKeeps == IInv /\ GatewayStops => IInv'
<1> SUFFICES ASSUME IInv, GatewayStops PROVE IInv'
  OBVIOUS
<1> USE DEF IInv
<1>1. /\ stops' \in 0..MaxStops /\ active' = FALSE /\ requests' = {}
      /\ UNCHANGED <<imported, staged, final, aborted, attempts, late>>
  BY RecoveryAssumption DEF GatewayStops, TypeOK
<1>2. /\ importer' \in Importer
      /\ \/ importer' = importer
         \/ /\ importer'.at \in {"idle", "failed"}
            /\ importer'.at # "idle" => importer.at = "publishing" /\ importer'.token = importer.token
  <2>1. CASE \E r \in requests : Awaited(r)
    BY <2>1, AwaitedWaits, FailedAnswer DEF GatewayStops
  <2>2. CASE ~\E r \in requests : Awaited(r)
    BY <2>2 DEF GatewayStops, TypeOK
  <2> QED BY <2>1, <2>2
<1>3. TypeOK' /\ Numbered' /\ BeforeCommit'
  BY <1>1, <1>2 DEF TypeOK, Numbered, BeforeCommit, Exists
<1>4. InStep'
  BY <1>1, <1>2 DEF InStep
<1>5. FailsClosed' /\ OneRuntimePerImport' /\ ImportIsWhole' /\ Fresh'
  BY <1>1 DEF FailsClosed, OneRuntimePerImport, ImportIsWhole, Fresh, Exists
<1> QED BY <1>3, <1>4, <1>5

LEMMA OpenProjectKeeps == IInv /\ OpenProject => IInv'
<1> SUFFICES ASSUME IInv, OpenProject PROVE IInv'
  OBVIOUS
<1> USE DEF IInv
<1>1. /\ Exists /\ Finalizable /\ active' = TRUE
      /\ UNCHANGED <<imported, staged, aborted, requests, importer, attempts, late, stops>>
  BY DEF OpenProject
<1>2. /\ final' \in Runtime /\ final' # None /\ final'.intent = FALSE
      /\ \/ final = None /\ final'.from = Seed
         \/ final # None /\ final'.from = final.from /\ (final.intent => Committed(final.from))
  <2>1. CASE final = None
    <3>1. final' = [from |-> Seed, intent |-> FALSE]
      BY <2>1 DEF OpenProject
    <3>2. final' \in Runtime
      BY <3>1 DEF Runtime
    <3> QED BY <2>1, <3>1, <3>2, RecoveryAssumption
  <2>2. CASE final # None /\ final.intent
    <3>1. final' = [final EXCEPT !.intent = FALSE] /\ final \in Runtime
      BY <2>2 DEF OpenProject, Finalized, TypeOK
    <3>2. final' \in Runtime /\ final'.from = final.from /\ final'.intent = FALSE
      BY <3>1 DEF Runtime
    <3> QED BY <1>1, <2>2, <3>2, RecoveryAssumption DEF Finalizable
  <2>3. CASE final # None /\ ~final.intent
    <3>1. final' = final /\ final \in Runtime
      BY <2>3 DEF OpenProject, Finalized, TypeOK
    <3>2. final'.intent = FALSE
      BY <2>3, <3>1 DEF Runtime
    <3> QED BY <2>3, <3>1, <3>2
  <2> QED BY <2>1, <2>2, <2>3
<1>3. TypeOK'
  BY <1>1, <1>2 DEF TypeOK
<1>4. FailsClosed'
  <2>1. final'.from \in imported \cup {Seed}
    BY <1>2 DEF FailsClosed, Committed
  <2> QED BY <1>1, <1>2, <2>1 DEF FailsClosed, Exists
<1>5. Seed \notin staged \cup aborted /\ \A r \in requests : r.token # Seed
  <2>1. Seed \notin Tokens
    BY RecoveryAssumption DEF Tokens
  <2>2. \A r \in requests : r.token \in Tokens
    BY DEF TypeOK, Requests
  <2> QED BY <2>1, <2>2 DEF TypeOK
<1>6. OneRuntimePerImport' /\ Fresh'
  BY <1>1, <1>2, <1>5 DEF OneRuntimePerImport, Fresh
<1>7. ImportIsWhole'
  BY <1>1, <1>2 DEF ImportIsWhole, Exists
<1>8. Numbered'
  BY <1>1, <1>2 DEF Numbered
<1>9. BeforeCommit' /\ InStep'
  BY <1>1 DEF BeforeCommit, InStep, Exists, Awaited
<1> QED BY <1>3, <1>4, <1>6, <1>7, <1>8, <1>9

\* One request handled: the directories by ServeKeeps, the import by what its
\* answer says.
LEMMA HandleKeeps == ASSUME IInv, NEW r \in requests, Handle(r) PROVE IInv'
<1> USE DEF IInv
<1>1. PICK ok \in BOOLEAN, token \in Tokens \cup {None} :
        /\ Serve(r, ok, token)
        /\ IF Awaited(r)
           THEN importer' = After(ok, token) \/ importer' = After(FALSE, None)
           ELSE UNCHANGED importer
  BY DEF Handle
<1>2. requests' = requests \ {r} /\ UNCHANGED <<imported, active, attempts, late, stops>>
  BY DEF Handle
<1>3. /\ staged' \subseteq Tokens /\ aborted' \subseteq Tokens
      /\ final' \in Runtime \cup {None}
      /\ staged' \cup aborted' \subseteq 1..attempts
      /\ final' # None => final'.from \in (1..attempts) \cup {Seed}
      /\ final' # None /\ final'.intent => final'.from # Seed
      /\ FailsClosed' /\ OneRuntimePerImport' /\ Fresh'
  BY <1>1, <1>2, ServeKeeps
<1>4. ~late => requests' = {}
  BY <1>2, OneRequest
\* The import after the request.
<1>5. /\ importer' \in Importer
      /\ importer'.at # "idle" => importer'.token \in 1..attempts
      /\ importer.at \in {"idle", "finalizing"} => importer'.at \in {"idle", "finalizing"}
      /\ importer'.at = "published" /\ ~late => final' # None /\ final'.from = importer'.token
  <2>1. CASE ~Awaited(r)
    <3>1. importer' = importer
      BY <1>1, <2>1
    <3>2. late
      BY <2>1 DEF InStep
    <3> QED BY <3>1, <3>2 DEF TypeOK, Numbered
  <2>2. ASSUME Awaited(r), importer' = After(FALSE, None)
        PROVE  /\ importer' \in Importer /\ importer'.at \in {"idle", "failed"}
               /\ importer'.at # "idle" => importer.at = "publishing" /\ importer'.token = importer.token
    BY <2>2, AwaitedWaits, FailedAnswer
  <2>3. CASE Awaited(r) /\ importer' = After(FALSE, None)
    BY <2>2, <2>3 DEF Numbered
  <2>4. CASE Awaited(r) /\ importer' = After(ok, token) /\ ok
    <3>1. importer.at = Doing[r.action] /\ r.action \in Actions
      BY <2>4, AwaitedWaits DEF TypeOK, Requests
    <3>2. CASE importer.at = "staging"
      <4>1. r.action = "stage"
        BY <3>1, <3>2 DEF Doing, Actions
      <4>2. token \in 1..attempts
        BY <1>1, <2>4, <4>1, AnswerMeans
      <4>3. importer' = [at |-> "staged", token |-> token]
        BY <2>4, <3>2 DEF After
      <4>4. importer' \in Importer /\ importer'.at = "staged" /\ importer'.token = token
        BY <4>3 DEF Importer
      <4> QED BY <3>2, <4>2, <4>4
    <3>3. CASE importer.at = "publishing"
      <4>1. r.action = "publish"
        BY <3>1, <3>3 DEF Doing, Actions
      <4>2. final' # None /\ final'.from = r.token
        BY <1>1, <2>4, <4>1, AnswerMeans
      <4>3. importer' = [importer EXCEPT !.at = "published"]
        BY <2>4, <3>3 DEF After
      <4>4. importer' \in Importer /\ importer'.at = "published" /\ importer'.token = importer.token
        BY <4>3 DEF Importer, TypeOK
      <4>5. ~late => r.token = importer.token
        BY DEF InStep
      <4> QED BY <3>3, <4>2, <4>4, <4>5 DEF Numbered
    <3>4. CASE importer.at \notin {"staging", "publishing"}
      <4>1. importer' = Idle
        BY <2>4, <3>4 DEF After
      <4>2. Idle \in Importer /\ Idle.at = "idle"
        BY DEF Idle, Importer
      <4> QED BY <4>1, <4>2
    <3> QED BY <3>2, <3>3, <3>4
  <2>5. CASE Awaited(r) /\ importer' = After(ok, token) /\ ~ok
    <3>1. importer' = After(FALSE, None)
      BY <2>5 DEF After
    <3> QED BY <2>3, <2>5, <3>1
  <2> QED BY <1>1, <2>1, <2>3, <2>4, <2>5
<1>6. TypeOK'
  BY <1>2, <1>3, <1>5 DEF TypeOK
<1>7. Numbered' /\ BeforeCommit'
  BY <1>2, <1>3, <1>5 DEF Numbered, BeforeCommit, Exists
<1>8. InStep'
  BY <1>2, <1>4, <1>5 DEF InStep
<1>9. ImportIsWhole'
  BY <1>1, <1>2, ServeSpares DEF ImportIsWhole, Exists, Committed
<1> QED BY <1>3, <1>6, <1>7, <1>8, <1>9

LEMMA StepKeeps == IInv /\ [Next]_vars => IInv'
<1> SUFFICES ASSUME IInv, [Next]_vars PROVE IInv'
  OBVIOUS
<1>1. ASSUME NEW r \in requests, Handle(r) PROVE IInv'
  BY <1>1, HandleKeeps
<1>2. CASE UNCHANGED vars
  BY <1>2 DEF vars, dirs, IInv, TypeOK, FailsClosed, OneRuntimePerImport, ImportIsWhole,
      Numbered, Fresh, BeforeCommit, InStep, Exists, Awaited
<1> QED BY <1>1, <1>2, ImportKeeps, BeginKeeps, CommitKeeps, LedgerFailsKeeps, AbortKeeps,
      TimeoutKeeps, DesktopStopsKeeps, OpenProjectKeeps, GatewayStopsKeeps DEF Next

LEMMA Inductive == Spec => []IInv
  BY Starts, StepKeeps, PTL DEF Spec

-----------------------------------------------------------------------------
(* The results. *)

\* Every variable keeps its type.
THEOREM TypeCorrect == Spec => []TypeOK
<1>1. IInv => TypeOK
  BY DEF IInv
<1> QED BY <1>1, Inductive, PTL

\* A runtime is used only if the ledger committed its import.
THEOREM ClosedUntilCommitted == Spec => []FailsClosed
<1>1. IInv => FailsClosed
  BY DEF IInv
<1> QED BY <1>1, Inductive, PTL

\* A token is staged, published or quarantined, never two of these, and one is
\* committed at most.
THEOREM OneRuntime == Spec => []OneRuntimePerImport
<1>1. IInv => OneRuntimePerImport
  BY DEF IInv
<1> QED BY <1>1, Inductive, PTL

\* While the ledger has no project, what is in its directory can be taken up.
THEOREM Resumable == Spec => []RetryCanResume
<1>1. IInv => RetryCanResume
  BY DEF IInv, FailsClosed, RetryCanResume
<1> QED BY <1>1, Inductive, PTL

\* Without late requests a project of the ledger has the runtime of its archive.
THEOREM Whole == Spec => []ImportIsWhole
<1>1. IInv => ImportIsWhole
  BY DEF IInv
<1> QED BY <1>1, Inductive, PTL

\* A runtime that is in use or committed stays where it is.
THEOREM Kept == Spec => NeverOverwritten
<1> DEFINE Spared ==
      final # None /\ (~final.intent \/ Committed(final.from)) =>
        final' # None /\ final'.from = final.from
<1>1. IInv /\ [Next]_vars => [Spared]_vars
  <2> SUFFICES ASSUME IInv, Next, final # None, ~final.intent \/ Committed(final.from)
               PROVE  final' # None /\ final'.from = final.from
    OBVIOUS
  <2>1. ASSUME NEW r \in requests, Handle(r) PROVE final' # None /\ final'.from = final.from
    BY <2>1, ServeSpares DEF Handle
  <2>2. CASE OpenProject
    <3>1. final \in Runtime /\ final' = Finalized
      BY <2>2 DEF OpenProject, IInv, TypeOK
    <3>2. CASE final.intent
      <4>1. final' = [final EXCEPT !.intent = FALSE]
        BY <3>1, <3>2 DEF Finalized
      <4>2. final' \in Runtime /\ final'.from = final.from
        BY <3>1, <4>1 DEF Runtime
      <4> QED BY <4>2, RecoveryAssumption
    <3> QED BY <3>1, <3>2 DEF Finalized
  <2>3. CASE ~OpenProject /\ ~\E r \in requests : Handle(r)
    BY <2>3 DEF Next, Import, Begin, Commit, LedgerFails, Abort, Timeout, DesktopStops,
       GatewayStops, dirs
  <2> QED BY <2>1, <2>2, <2>3
<1> QED BY <1>1, Inductive, PTL DEF Spec, NeverOverwritten
=============================================================================

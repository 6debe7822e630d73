------------------------------- MODULE Ledger -------------------------------
(***************************************************************************)
(* The event ledger of one project (crates/persistence/src/lib.rs, Store). *)
(*                                                                         *)
(* The desktop application and the daemon each open the same SQLite file   *)
(* with a connection of their own.  A mutation is an idempotency lookup    *)
(* outside any transaction, and then one BEGIN IMMEDIATE transaction that  *)
(* compares state_version with the caller's base, upserts rows, inserts    *)
(* the event and moves the project row: the transaction is one step here,  *)
(* everything before it is a step of its own, and either process may stop  *)
(* between any two of them.  A read of the canonical state is three        *)
(* statements without a transaction, three steps here.                     *)
(*                                                                         *)
(* Identifiers of objects and requests are fresh UUIDs in the clients, so  *)
(* an object belongs to one request.  A digest is injective on canonical   *)
(* states (SHA-256 of canonical JSON) and is the state itself.             *)
(***************************************************************************)
EXTENDS Naturals, Sequences, FiniteSets

CONSTANTS
  Writers,     \* connections that mutate: desktop, daemon
  Readers,     \* connections that load the canonical state
  Objects,     \* state object ids
  Keys,        \* idempotency keys, one per client request
  None,        \* no row, no object
  MaxVersion   \* bound: no request is made on a base at or above it

VARIABLES
  status,      \* projects.status; "absent" before the row exists
  version,     \* projects.state_version
  digest,      \* projects.state_digest
  rows,        \* state_objects
  edges,       \* state_edges, as pairs <<from, to>>
  log,         \* state_events of the project in rowid order
  requests,    \* what each key's client asked for, kept for its retries
  calls,       \* the call each writer is in
  reads        \* the load each reader is in

store == <<status, version, digest, rows, edges, log>>
vars  == <<status, version, digest, rows, edges, log, requests, calls, reads>>

-----------------------------------------------------------------------------
(* Data *)

Authority  == {"user", "provider_candidate"}
RowStatus  == {"proposed", "active", "superseded"}
Row        == [status : RowStatus, authority : Authority,
               supersedes : Objects \cup {None}, at : Nat]
Rows       == [Objects -> Row \cup {None}]
Edges      == SUBSET (Objects \X Objects)
Canonical  == [version : Nat, rows : Rows, edges : Edges]
EventKinds == {"PROJECT_CREATED", "STATE_COMMITTED", "STATE_IMPORTED",
               "STATE_SUPERSEDED"}
Event      == [key : Keys, kind : EventKinds, base : Nat, upserts : Rows,
               adds : Edges, prior : Canonical, result : Canonical]
Request    == [kind : EventKinds, base : 0..MaxVersion, new : Objects \cup {None},
               old : Objects \cup {None}, authority : Authority,
               status : RowStatus, names : Objects \cup {None}, adds : Edges]
Steps      == {"idle", "old", "lookup", "begin", "written", "done"}
Replies    == {"none", "ok", "conflict", "refused", "busy"}
Call       == [step : Steps, key : Keys \cup {None}, old : Row \cup {None},
               start : Nat, reply : Replies]
Load       == [step : {"idle", "rows", "edges", "done"}, seen : Canonical]

Asked      == [create : BOOLEAN, base : Nat]   \* what a client may see of one

ASSUME LedgerAssumption ==
  /\ MaxVersion \in Nat
  /\ None \notin Objects \cup Keys \cup Row \cup Request \cup Asked

NoRows     == [o \in Objects |-> None]
Empty      == [version |-> 0, rows |-> NoRows, edges |-> {}]
NoCall     == [step |-> "idle", key |-> None, old |-> None, start |-> 0,
               reply |-> "none"]
NoLoad     == [step |-> "idle", seen |-> Empty]

Keyed(k) == \E i \in 1..Len(log) : log[i].key = k

-----------------------------------------------------------------------------
(* What a request writes *)

\* The row given is stored at base + 1 with the status and the supersedes_id it
\* came with.  supersede alone sets the link: it makes the given row name the
\* old one, marks the copy of that row which it read before the transaction and
\* adds the edge between them.  An import inserts the edges it was given; a
\* commit has none, even for a row that names another.
Upserts(r, old) ==
  [o \in Objects |->
     CASE o = r.new ->
            [status |-> r.status, authority |-> r.authority,
             supersedes |-> IF r.old = None THEN r.names ELSE r.old,
             at |-> r.base + 1]
       [] o # r.new /\ o = r.old ->
            [old EXCEPT !.status = "superseded", !.at = r.base + 1]
       [] OTHER -> None]

Adds(r) == IF r.old = None THEN r.adds ELSE {<<r.new, r.old>>}

\* Mutant: the tables become the payload.
OverwriteAll(old, upserts) == upserts

Overwrite(old, upserts) ==
  [o \in Objects |-> IF upserts[o] = None THEN old[o] ELSE upserts[o]]

\* One mutation applied to a canonical state, as commit_mutation does it to
\* the tables and replay to its maps.
Apply(state, upserts, adds) ==
  [version |-> state.version + 1,
   rows    |-> Overwrite(state.rows, upserts),
   edges   |-> state.edges \cup adds]

Current == [version |-> version, rows |-> rows, edges |-> edges]

-----------------------------------------------------------------------------
(* Init *)

Init ==
  /\ status   = "absent"
  /\ version  = 0
  /\ digest   = Empty
  /\ rows     = NoRows
  /\ edges    = {}
  /\ log      = <<>>
  /\ requests = [k \in Keys |-> None]
  /\ calls    = [w \in Writers |-> NoCall]
  /\ reads    = [r \in Readers |-> NoLoad]

-----------------------------------------------------------------------------
(* Mutating calls *)

Stored == {o \in Objects : rows[o] # None}
Unused == Objects \ (Stored \cup {requests[k].new : k \in {j \in Keys : requests[j] # None}})

Enter(w, k, r) ==
  calls' = [calls EXCEPT ![w] =
              [NoCall EXCEPT !.step  = IF r.old # None THEN "old" ELSE "lookup",
                             !.key   = k,
                             !.start = Len(log)]]

Reply(w, reply) ==
  calls' = [calls EXCEPT ![w].step = "done", ![w].reply = reply]

Ask(kind, b, n, o, a) ==
  [kind |-> kind, base |-> b, new |-> n, old |-> o, authority |-> a,
   status |-> "active", names |-> None, adds |-> {}]

\* What a client may ask for: a mutation is made on a version it has seen, and
\* inserts an id nobody has used.  The desktop commits active decisions; the demo
\* project's rows are superseded ones too, and one names an earlier row without
\* an edge.  An import keeps a candidate proposed and brings edges of its own or
\* none.  The desktop copies the superseded row's authority into the replacement;
\* a captured chat decision carries the user's.
Commits(b, n) ==
  {Ask("STATE_COMMITTED", b, n, None, "provider_candidate"),
   [Ask("STATE_COMMITTED", b, n, None, "user") EXCEPT !.status = "superseded"]}
  \cup {[Ask("STATE_COMMITTED", b, n, None, "user") EXCEPT !.names = m] :
          m \in Stored \cup {None}}

Imports(b, n) ==
  {[Ask("STATE_IMPORTED", b, n, None, "provider_candidate")
      EXCEPT !.status = "proposed", !.adds = a] : a \in SUBSET ({n} \X Stored)}

Supersessions(b, n) ==
  {Ask("STATE_SUPERSEDED", b, n, o, a) : o \in Stored, a \in Authority}

Askable ==
  {Ask("PROJECT_CREATED", 0, None, None, "user")}
  \cup UNION {Commits(b, n) \cup Imports(b, n) \cup Supersessions(b, n) :
                b \in {v \in 0..version : v < MaxVersion}, n \in Unused}

NewRequest(w, k) ==
  /\ calls[w].step = "idle"
  /\ requests[k] = None
  /\ \E r \in Askable :
       /\ r.old # None => r.authority \in {"user", rows[r.old].authority}
       /\ requests' = [requests EXCEPT ![k] = r]
       /\ Enter(w, k, r)
  /\ UNCHANGED <<store, reads>>

\* The reply was lost, the process restarted, or another process runs the same
\* fixed-key sequence: the same request under the same key.
Retry(w, k) ==
  /\ calls[w].step = "idle"
  /\ requests[k] # None
  /\ Enter(w, k, requests[k])
  /\ UNCHANGED <<store, requests, reads>>

\* commit_object refuses a candidate authority before it touches the store.
GateCandidate(w) ==
  LET r == requests[calls[w].key] IN
  /\ calls[w].step = "lookup"
  /\ r.kind = "STATE_COMMITTED" /\ r.authority = "provider_candidate"
  /\ Reply(w, "refused")
  /\ UNCHANGED <<store, requests, reads>>

\* supersede copies the old row outside the transaction.
ReadOld(w) ==
  LET r == requests[calls[w].key] IN
  /\ calls[w].step = "old"
  /\ IF rows[r.old] = None
     THEN Reply(w, "refused")
     ELSE calls' = [calls EXCEPT ![w].step = "lookup", ![w].old = rows[r.old]]
  /\ UNCHANGED <<store, requests, reads>>

\* event_by_idempotency, or project() for a creation: an answer found here is
\* returned whatever the version is now.
Lookup(w) ==
  LET k == calls[w].key
      r == requests[k] IN
  /\ calls[w].step = "lookup"
  /\ ~(r.kind = "STATE_COMMITTED" /\ r.authority = "provider_candidate")
  /\ IF IF r.kind = "PROJECT_CREATED" THEN status # "absent" ELSE Keyed(k)
     THEN Reply(w, "ok")
     ELSE calls' = [calls EXCEPT ![w].step = "begin"]
  /\ UNCHANGED <<store, requests, reads>>

\* Mutants: no comparison of versions; neither comparison nor UNIQUE index.
AcceptsAnyVersion(k, r) == status # "absent" /\ ~Keyed(k)
AcceptsAgain(k, r) == status # "absent"

\* The compare-and-set of commit_mutation and the UNIQUE(project, key) index.
Accepts(k, r) ==
  /\ status # "absent"
  /\ version = r.base
  /\ ~Keyed(k)

\* BEGIN IMMEDIATE .. COMMIT of create_project.
CommitCreate(w) ==
  LET k == calls[w].key
      r == requests[k] IN
  /\ calls[w].step = "begin"
  /\ r.kind = "PROJECT_CREATED"
  /\ status = "absent" /\ ~Keyed(k)
  /\ status' = "active"
  /\ log' = Append(log, [key |-> k, kind |-> r.kind, base |-> 0,
                         upserts |-> NoRows, adds |-> {},
                         prior |-> Empty, result |-> Empty])
  /\ digest' = Empty
  /\ calls' = [calls EXCEPT ![w].step = "written"]
  /\ UNCHANGED <<version, rows, edges, requests, reads>>

\* Mutant: the edges of the payload are not inserted.
MaterialiseRows(new) ==
  version' = new.version /\ rows' = new.rows /\ digest' = new /\ UNCHANGED edges

\* upsert_state_object, insert_edge and the project row's UPDATE.
Materialise(new) ==
  version' = new.version /\ rows' = new.rows /\ digest' = new /\ edges' = new.edges

\* BEGIN IMMEDIATE .. COMMIT of commit_mutation.
Commit(w) ==
  LET k   == calls[w].key
      r   == requests[k]
      ups == Upserts(r, calls[w].old)
      new == Apply(Current, ups, Adds(r)) IN
  /\ calls[w].step = "begin"
  /\ r.kind # "PROJECT_CREATED"
  /\ Accepts(k, r)
  /\ Materialise(new)
  /\ log' = Append(log, [key |-> k, kind |-> r.kind, base |-> r.base,
                         upserts |-> ups, adds |-> Adds(r),
                         prior |-> digest, result |-> new])
  /\ calls' = [calls EXCEPT ![w].step = "written"]
  /\ UNCHANGED <<status, requests, reads>>

\* The transaction is dropped: the version moved, the project is missing, or
\* an index refuses the insert.
Refuse(w) ==
  LET k == calls[w].key
      r == requests[k] IN
  /\ calls[w].step = "begin"
  /\ \/ /\ r.kind = "PROJECT_CREATED"
        /\ status # "absent" \/ Keyed(k)
        /\ Reply(w, "refused")
     \/ /\ r.kind # "PROJECT_CREATED"
        /\ ~Accepts(k, r)
        /\ Reply(w, IF status # "absent" /\ version # r.base
                    THEN "conflict" ELSE "refused")
  /\ UNCHANGED <<store, requests, reads>>

\* busy_timeout expires while the other process holds the write lock.
Busy(w) ==
  /\ calls[w].step = "begin"
  /\ Reply(w, "busy")
  /\ UNCHANGED <<store, requests, reads>>

\* The committed row is read back and returned.
Confirm(w) ==
  /\ calls[w].step = "written"
  /\ Reply(w, "ok")
  /\ UNCHANGED <<store, requests, reads>>

\* The caller has its answer, or the process stops wherever it is: SQLite
\* rolls an open transaction back and keeps a committed one.
Leave(w) ==
  /\ calls[w].step # "idle"
  /\ calls' = [calls EXCEPT ![w] = NoCall]
  /\ UNCHANGED <<store, requests, reads>>

\* update_project_metadata: archive, rename, restore; no event, no version.
SetStatus ==
  /\ status # "absent"
  /\ status' \in {"active", "archived"} \ {status}
  /\ UNCHANGED <<version, digest, rows, edges, log, requests, calls, reads>>

-----------------------------------------------------------------------------
(* current_state: project row, then objects, then edges *)

ReadProject(r) ==
  /\ reads[r].step \in {"idle", "done"}
  /\ status # "absent"
  /\ reads' = [reads EXCEPT ![r] =
                 [step |-> "rows", seen |-> [Empty EXCEPT !.version = version]]]
  /\ UNCHANGED <<store, requests, calls>>

ReadRows(r) ==
  /\ reads[r].step = "rows"
  /\ reads' = [reads EXCEPT ![r].step = "edges", ![r].seen.rows = rows]
  /\ UNCHANGED <<store, requests, calls>>

\* Mutant: the version is read last.
ReadVersionLast(r) ==
  /\ reads[r].step = "edges"
  /\ reads' = [reads EXCEPT ![r].step = "done", ![r].seen.edges = edges,
                            ![r].seen.version = version]
  /\ UNCHANGED <<store, requests, calls>>

ReadEdges(r) ==
  /\ reads[r].step = "edges"
  /\ reads' = [reads EXCEPT ![r].step = "done", ![r].seen.edges = edges]
  /\ UNCHANGED <<store, requests, calls>>

-----------------------------------------------------------------------------

WriterStep(w) ==
  \/ \E k \in Keys : NewRequest(w, k)
  \/ \E k \in Keys : Retry(w, k)
  \/ GateCandidate(w) \/ ReadOld(w) \/ Lookup(w)
  \/ CommitCreate(w) \/ Commit(w) \/ Refuse(w) \/ Busy(w)
  \/ Confirm(w) \/ Leave(w)

ReaderStep(r) == ReadProject(r) \/ ReadRows(r) \/ ReadEdges(r)

Next ==
  \/ \E w \in Writers : WriterStep(w)
  \/ \E r \in Readers : ReaderStep(r)
  \/ SetStatus

Spec == Init /\ [][Next]_vars

-----------------------------------------------------------------------------
(* Properties *)

\* Every variable holds a value of its kind.
TypeOK ==
  /\ status   \in {"absent", "active", "archived"}
  /\ version  \in Nat
  /\ digest   \in Canonical
  /\ rows     \in Rows
  /\ edges    \in Edges
  /\ log      \in Seq(Event)
  /\ requests \in [Keys -> Request \cup {None}]
  /\ calls    \in [Writers -> Call]
  /\ reads    \in [Readers -> Load]

\* The event log is a chain: it starts with the creation, event i + 1 has base
\* i - 1 and the digest its predecessor left, applying its payload to that
\* state gives the digest it stores, and the last digest is the state in the
\* tables.  These are the conditions replay() checks event by event.
LedgerChain ==
  /\ status = "absent" <=> log = <<>>
  /\ digest = Current
  /\ version = IF log = <<>> THEN 0 ELSE Len(log) - 1
  /\ \A i \in 1..Len(log) :
       IF i = 1
       THEN log[i].kind = "PROJECT_CREATED" /\ log[i].result = Empty
       ELSE /\ log[i].kind # "PROJECT_CREATED"
            /\ log[i].base = i - 2
            /\ log[i].prior = log[i-1].result
            /\ log[i].result = Apply(log[i].prior, log[i].upserts, log[i].adds)
  /\ digest = IF log = <<>> THEN Empty ELSE log[Len(log)].result

\* What each supersede call of the log did still stands in both tables: its old
\* row is superseded, its new row names the old one, and the edge joins them.
SupersessionsStand ==
  \A i \in 1..Len(log) : log[i].kind = "STATE_SUPERSEDED" =>
    LET r == requests[log[i].key] IN
    /\ rows[r.old] # None /\ rows[r.old].status = "superseded"
    /\ rows[r.new] # None /\ rows[r.new].supersedes = r.old
    /\ <<r.new, r.old>> \in edges

\* Folding the event payloads from the empty state, as replay() does, gives
\* exactly what current_state() loads from the tables, in which the rows and the
\* edge of every supersession still stand.
ReplayRebuildsState ==
  LET replay[i \in 0..Len(log)] ==
        IF i = 0 THEN Empty
        ELSE IF log[i].kind = "PROJECT_CREATED" THEN replay[i-1]
        ELSE Apply(replay[i-1], log[i].upserts, log[i].adds)
  IN replay[Len(log)] = Current /\ SupersessionsStand

\* A mutation answered "ok" is in the log, once, and wrote the rows its own
\* request asked for, whichever of its attempts committed it; and a retry of one
\* that had committed before is answered so, never that the version moved.
OkMeansCommittedOnce ==
  \A w \in Writers : calls[w].step = "done" =>
    LET k == calls[w].key
        r == requests[k]
        hits == {i \in 1..Len(log) : log[i].key = k} IN
    /\ (\E i \in hits : i <= calls[w].start) => calls[w].reply = "ok"
    /\ (calls[w].reply = "ok" /\ r.kind # "PROJECT_CREATED") =>
         \E i \in hits :
           /\ hits = {i}
           /\ log[i].kind = r.kind /\ log[i].base = r.base
           /\ log[i].upserts[r.new].authority = r.authority

\* A reversal never erases: no step drops an event or a row, changes a row's
\* authority or ancestor, or brings a superseded row back.
HistoryIsKept ==
  [][/\ Len(log') >= Len(log)
     /\ \A i \in 1..Len(log) : log'[i] = log[i]
     /\ \A o \in Objects : rows[o] # None =>
          /\ rows'[o] # None
          /\ rows'[o].authority = rows[o].authority
          /\ rows'[o].supersedes = rows[o].supersedes
          /\ rows[o].status = "superseded" => rows'[o].status = "superseded"
    ]_vars

StateAfter(v) == log[v + 1].result

\* What a finished load returned is never newer in its version number than in
\* its rows, nor in its rows than in its edges.  This is what makes comparing
\* the packet's version again when the turn is sent detect every torn load.
LoadLagsOnlyInVersion ==
  \A r \in Readers : reads[r].step = "done" =>
    \E i \in reads[r].seen.version..version : \E j \in i..version :
      /\ reads[r].seen.rows = StateAfter(i).rows
      /\ reads[r].seen.edges = StateAfter(j).edges

-----------------------------------------------------------------------------
(* The ledger implements the decision log: versions are positions in it. *)

DecidedKeys == [v \in 1..version |-> log[v + 1].key]

AskedOf(k) ==
  IF requests[k] = None THEN None
  ELSE [create |-> requests[k].kind = "PROJECT_CREATED", base |-> requests[k].base]

DecidedBefore(w) == \E i \in 2..calls[w].start : log[i].key = calls[w].key

PendingOf(w) ==
  [key    |-> calls[w].key,
   known  |-> DecidedBefore(w),
   answer |-> IF calls[w].reply \in {"none", "ok"} THEN calls[w].reply ELSE "no"]

Created      == status # "absent"
AskedKeys    == [k \in Keys |-> AskedOf(k)]
PendingCalls == [w \in Writers |-> PendingOf(w)]

Promise == INSTANCE DecisionLog WITH
  Clients <- Writers,
  created <- Created,
  decided <- DecidedKeys,
  asked   <- AskedKeys,
  pending <- PendingCalls

\* Every step of the two processes is a step of the decision log or invisible
\* to its clients: lookups outside the transaction, lost replies, restarts and
\* retries under the same key included.
ImplementsDecisionLog == Promise!Spec
=============================================================================

# Verification of Tom Assist

TLA+ models of the parts of Tom Assist that keep state across processes,
restarts and unreliable calls, model-checked with TLC, and theorems about them
checked with TLAPS. Paths below are relative to the repository.

## 1. The system

Tom Assist is a local-first companion for language-model conversations. A user
keeps *project state* (decisions, constraints, goals) in an event ledger; before
a prompt is sent the program admits relevant state into a *context packet*;
after the answer it governs it against the state and, once the user accepts it,
lets a runtime *experience* the exchange.

Processes:

| process | code | concurrency |
|---|---|---|
| desktop application | `apps/desktop` (Tauri, TypeScript UI) | one `Mutex<Store>` over the ledger file |
| daemon | `crates/assistd` with `persistence`, `governance`, `context-admission`, `tom-adapter` | a thread per connection; mutexes for the store, for each project's writes and for the exchanges in flight |
| gateway | `gateway/` (Python) | a thread per request; one lock per project runtime |
| OAuth broker | `crates/oauth-broker` | a thread per connection; a slot for generations, a mutex around each access to the credential; spoken to by the desktop, and through the gateway by the daemon |
| local model workers | `gateway/structure_worker.py`, `gemma_structure_worker.py`, `gemma_matrix_event_worker.py`, `document_embedding_worker.py`, `native_memory_worker.py` | children of the gateway, one request at a time over pipes; the structure worker has a child of its own |
| browser extension and native host | `apps/extension`, `crates/native-host` | a second client of the daemon |

The desktop and the daemon open the *same* SQLite ledger. The gateway has its
own store per project: `library.sqlite3` (durable head, permanent texts, outcome
rows, documents) and JSON files projected from it.

### Components

| component | state it keeps | operations | interacts with | what makes it hard | what makes it correct |
|---|---|---|---|---|---|
| Event ledger (`persistence/src/lib.rs`) | project row (version, digest), objects, edges, events | create, commit, import, supersede, record candidate, load, replay | desktop and daemon write the same file | lookups outside the transaction, retries after lost replies, three-statement loads | one chain of events that replays to the tables; a request is decided once; history is never rewritten |
| Provider exchanges (`assistd/src/conversations.rs`) | `provider_exchanges`, turns, sent contexts, set of exchanges in flight | prepare, send, evaluate, get | provider, ledger, runtime | threads between mutex sections, timeouts, restarts, clicks repeated | the provider gets an exchange at most once; outcomes are never revised; no exchange stays `sending` |
| Governed experience (`assistd/src/lib.rs`, `experience.rs`) | captures, interventions, evaluations, acceptances, receipts | evaluate, accept, commit, resolve a finding | desktop resolves while the daemon evaluates; gateway commits | lost replies, two processes in one flow, regenerated responses | one accepted, complete, resolved response is learned once, and is learned in the end |
| Project runtime (`gateway/tom_gateway.py`, `permanent_library.py`) | engine and front row in memory, durable head, files, checkpoints, outcome rows | open, commit a turn, settings, save, restore | daemon calls it; a second gateway may use the files | stops and failing writes between the head and its projections, stale memory | keys and dynamics move together; memory is the head; a commit is undone only by a restore |
| Project recovery (`persistence/src/recovery.rs`, `gateway/runtime_archive.py`) | staged runtime with an intent, `recovery_imports` | export, stage, publish, finalize, abort | ledger and runtime, two stores without a common transaction | stops between the two, an abort racing a late publish | all or nothing, never over an existing project |
| Documents (`gateway/document_tree.py`, `tom_gateway.py`, `permanent_library.py`) | texts, tombstones and analyses in the library, receipts and a Tree head in a second database, the Tree in a file and in memory | open, migrate, ingest, withdraw, preview; import and withdrawal past the runtime | previews retrieve passages | three transactions in two databases and a file, stops and errors between them, routes that take no lock | receipts, Tree and texts agree; what was cut short is completed once; withdrawn text is never served |
| Reviewed memory (`gateway/native_memory.py`) | review records, authority links, checkpoints of a small tree | import, withdraw, review (learn), record authority, answer | a worker that learns and recalls | slow workers beside withdrawals, a record and a checkpoint in different stores | the checkpoint on record is there and was taught what the records say; no answer rests on a source that is withdrawn or superseded |
| Context admission (`context-admission`), governance (`governance`) | none | rank within a budget; compare a response with state | called by the daemon | ties, budgets, numeric edges | deterministic; what does not fit is left out, nothing is invented |
| OAuth broker (`oauth-broker/src/broker.rs`, `gateway/oauth_provider.py`) | credential in the keychain and in memory, slot, callback port | login, logout, refresh, complete, restart | provider | rotation of refresh tokens, lost answers and writes, logout beside a refresh | one generation at a time; the newest refresh token is kept; a logout lasts |
| Local workers (`gateway/structure_provider.py` and others) | process, pipes, lock | call, time out, close, die | gateway, Gemma child | lines of an earlier request, stray lines, deaths, hangs | an answer belongs to its request; every call returns |
| Self-report | one row per request | claim, finish | provider | stop after the claim | at most one provider call |
| Extension, native host | page gate, frames | stage a prompt, capture a response | daemon | page changes, reconnects | only what the user sends is bound |
| Structural analysis, numerical part of native memory, vendored RGM engine | matrices | preview, analyse | runtime | – | numerical; out of reach here |

What is hard to test in this code is listed in `PROJECT.json` under `hazards`,
each at its line with the properties that would show it go wrong.

## 2. Modules

| module | models | abstracts |
|---|---|---|
| `Ledger` | `Store` of `persistence`: the project row, objects, edges and events of one project | digests are injective, so a digest is the canonical state; contents of an object; UUIDs |
| `DecisionLog` | no code: what the ledger promises its clients, one growing sequence of decisions | everything else; `Ledger` implements it |
| `Exchange` | `conversation_prepare/send/evaluate/get` and their tables, on threads with the daemon's mutexes | prompts and answers; a packet is its session, draft, state version and runtime checkpoint |
| `Experience` | `evaluate_turn`, acceptance, `commit_captured_exchange` and `resolve_intervention_with_runtime`, for one sent turn | which rule finds what: a response has given findings, some of which need the gateway |
| `Runtime` | `ProjectRuntime` over `PermanentLibrary` | what the dynamics compute: a tree or front row is the sequence of turns it learned |
| `Recovery` | `import_recovery_archive` of `persistence` against `import_snapshot` of the gateway, for one project | archives (one, verified and frozen); a runtime is the attempt that staged it |
| `Documents` | `ProjectRuntime` and `ProjectDocumentTreeIndex` over the documents of one project | a document stands for its chunks; the Tree is the sequence of documents applied to the seed; scores and budgets of a packet |
| `ReviewedMemory` | `RgmDocumentService` on its records and checkpoints | a document is one passage; a tree is the sequence of relations it was taught; one relation kind |
| `OAuthBroker` | `Broker` with its keychain, and the gateway's adapter to it | a token is a number in a session; PKCE, ID tokens, parsing |
| `LocalWorker` | the clients of the structure, matrix event and document workers, the workers and the Gemma child | a line is an answer, an error or noise; what the models compute |
| `LedgerProofs`, `ExchangeProofs`, `ExperienceProofs`, `RuntimeProofs`, `RecoveryProofs`, `DocumentsProofs`, `ReviewedMemoryProofs` | theorems about the module they name | |
| `HelperProofs` | theorems about the processes beside the gateway, `OAuthBroker` and `LocalWorker` | |
| `MC...` | small instances for TLC; `Recovery` needs none | |

### Ledger

Each writer (the desktop, the daemon) is in at most one call. `NewRequest` and
`Retry` begin one: a retry comes under the same key with the same request, as
the desktop keeps it. `ReadOld` is the read `supersede` makes before its
transaction, `GateCandidate` the authority gate of `commit_object`, `Lookup` the
idempotency lookup outside the transaction. `Askable` is what clients ask for: a
row is stored with the status and the link it comes with (`Commits`: the demo
project commits superseded rows, and one that names an earlier row without an edge),
an import brings edges of its own or none (`Imports`), and only `supersede`
sets link, edge and the old row's status itself (`Supersessions`, `Upserts`, `Adds`). `Commit` is the whole `BEGIN
IMMEDIATE` transaction of `commit_mutation`: `Accepts` is its test of project
status and version, `Materialise` the row upserts and edge inserts,
`Refuse` its error returns. `Busy` is the lock timeout, `Confirm` the
read after commit, `Leave` a stop or an answer that is lost. A load is
`ReadProject`, `ReadRows`, `ReadEdges`, one statement each. `SetStatus` is the
archiving of a project.

### Exchange

A call is a sequence of *sections*; each names the mutexes the code takes and in
which order (`Sections`). `Acquire` takes the next of them, the section's own
action does its work and releases them. Between two sections, and while
the provider generates (no mutex is held then), other threads run. `Crash` drops
threads, mutexes and the in-flight set and keeps the tables. `Move` moves the
state version and the runtime's checkpoint, which make a
preview stale.

### Experience

One call per process. The daemon's call passes through `Review`, `Turn`,
`Govern`, `Save`, `Accept`, `Check`, `Commit` and `Record`, one per statement or
transaction; the desktop's enters at `Check` after `Resolve`. `Commit` covers
the gateway: applied and answered, or applied with the reply lost;
`CommitFails` is a gateway that is down or refuses. The gateway's own behaviour
(one commit per key) is external here and is what `Runtime` models.
`Frozen` is the gateway's structure mode: in `shadow` and `authoritative` mode
(not the default) a first commit also needs the checkpoint the packet was
prepared at (`Replays`). The run has it on, which allows every behaviour of the
default mode as well; once the runtime has moved past the packet (`moved`) such a
commit may be refused for good, so `AcceptedIsLearned` asks for no more than that
it did not.

### Runtime

A call is a *plan*, the statements left of it, as `Project` (three file
replacements), `Reload` (two file reads and the digest, which reads the files
again), `Persist` and `SavePlan` list them; each step does the first. What is one
statement on the library is one step: `CommitLearns` is the transaction of
`commit_turn`, `Restore` begins with the `set_head` of the checkpoint.
`WriteFails` is an `OSError`: a commit swallows it, other calls raise it where
they stand. A first start ends its files with `Create`, the creation metadata, and
every start comes to the lineage assertion, where it is `Opened` or `Refused`. `Crash` drops memory. Two processes may use one project, because
starting a gateway unlinks the socket of another one and does not stop it
(`serve`); `users` says who uses it. `raced` becomes true when one of them
replaces the files, or the head, while the other reads them back
(`_restore_current_artifacts_if_present`): from then on memory may mix two heads
and the code loses commits (section 5), so the properties say what holds until
then. A turn that is committed again after a restore is given its outcome rows
of the first time or is refused (`OutcomesAgree`); `HeadCoherent` says that
outcome rows never name another tick than the head's.

### Recovery

An import writes two stores that share no transaction. The desktop's steps are
those of `import_recovery_archive`: `Import` asks the gateway to stage, `Begin`
is the ledger transaction up to its request to publish, `Commit` is COMMIT and
the request to finalize, `LedgerFails` the ROLLBACK, `Abort` the request to
abort. `Timeout` is the adapter's read timeout of a minute: the request is lost,
or stays among `requests` for the gateway to handle when the desktop has moved
on (`late` records that this happened). `Handle` is one request under the
gateway's projects lock, its answer delivered or lost: `Stage` resumes a pending
import of the archive or makes a new one, `Publish` renames it into place,
`AbortImport` quarantines what the ledger has not committed. `OpenProject` is
a call on the runtime of a project of the ledger. Attempts are numbered, and a runtime is
named after the attempt that staged it; an attempt that resumes carries the
older number as its token.

### Documents

The library, the receipts and the Tree file are three stores, written one after
the other. A call on the runtime (`op`) goes from place to place, one transaction
or file write each: `Connect`, `WriteHead` and `SetSeedHead` are the first build of
the Tree; `Validate` is the comparison of the inventory with the receipts that
opening and migration begin with; `ApplyCommits` the transaction of
`apply_document`, `WriteTree` the replacement of `tree_state.json`
after it, `Analyse` the third transaction; `Missing` and `Following` say which
documents a migration goes on with. It ends with `CompareInventory` and `Store`,
between which a text may still come past the runtime. The actions ending in `Fails`
raise where the code can raise (`MayFail`), and `ApplyFails` includes the
restoration of the prior Tree, which may fail too. `Stop` is a stop of the gateway
at any place. `SideIngest` and `SideWithdraw` are the routes of
`EvidenceGateway.handle` that reach the library through `RgmDocumentService`
without a lock of the runtime. `torn` records that the Tree file could not be
replaced after a COMMIT: `apply_document` then puts the prior Tree over a
committed head.

### ReviewedMemory

The calls that take `_inference_lock` (import, authority, learn, answer) are
steps of `op`; a withdrawal is one step at any time. `BeginResolve` walks the
recorded links with the new ones (`With`, `MayLink`) and `CommitResolve` stores
them. `BeginLearn` works out what a source adds to the catalog, `Teach` is the
worker (which saves its checkpoint before it answers), `RetainRow` the record and
`Retire` the removal of the checkpoint it replaces. `BeginAnswer`, `Recall`,
`Reopen` and `Deliver` are an answer: `Kind` is the decision of
`recall_situations` between plain passages, a resolved, an ambiguous and a
recalled relation, and `SameInventory` the last test that no document came or
went in between.

### OAuthBroker

Each connection is a thread with a program counter. `LoginBegin` binds the
callback port (the only exclusion of logins), `LoginGranted` is the provider's
token answer, `LoginSave` and `LoginSet` the keychain write and the copy in
memory. `LogoutTake`, `LogoutRevoke`, `LogoutClear` are the three statements of
`logout`. `AdapterStatus` and `AdapterPost` are the gateway's two requests;
`AdapterTimeout` is its deadline, which the broker does not notice. `Check` and
`Clone` are the two separate locks of `ensure_fresh`, `AskFails` and `AskGranted` the
provider, `RefreshSave` and `RefreshSet` as for a login, `Use` and `Generate`
the request itself. The provider rotates a refresh token or does not, and accepts
the newest one only. `lost` names the sessions whose newest token never reached
the keychain because the provider's answer, or the write of a token it had rotated
(`Rotated`), was lost, and `raced` that two threads had a credential in hand at once.
A login that nobody finishes ends by its deadline. `slot`, in the code a mutex that
is tried, is the thread that holds it.

### LocalWorker

`kind` chooses one of three clients of the same shape; they differ in that only
the structure worker has a Gemma child and several chunks, and only the document
client does not close the process on a line it cannot parse (`EndsOnNoise`).
`Enter` takes the lock and starts a process if the known one is gone (`Start`);
`Write`, `Read`, `ReadEof` and `Timeout` are the body of a call, and `Close` ends
the process. The worker is `Take`, per chunk `AskGemma` and `HearGemma`
(`Candidate` compares protocol and id), and `Reply`, which fails the request if
one chunk failed (`Answered`). What a worker prints stays in its pipe: `seen` counts
the lines that are in the client's buffer already, where a later `select` does not see them, and `cut`
says that the last text has no newline yet. `select` waits for anything to
read (`Readable`) and has the deadline, so `Timeout` needs that nothing is; `readline`
waits for a whole line (`WholeLine`) and has none. Faults: either process dies, perhaps in the middle
of a line, prints a text of its own with or without a newline, or a generation hangs.
A text without newline from the child is a failed chunk in the worker. The module's usual
names carry a prefix (`WorkerSpec`, `WorkerInit`, `WorkerNext`), because
`HelperProofs` extends it together with `OAuthBroker`.

## 3. Runs

| run | question | bounds | distinct states |
|---|---|---|---|
| `ledger` | do chain, replay, idempotency, supersession, loads and the refinement of `DecisionLog` hold? | 2 writers, 1 reader, 2 objects, 3 keys, bases below 2 | 462,072 (under symmetry) |
| `exchange` | is an exchange sent at most once, owned while it is generated, ordered and never revised? | 2 threads, 2 exchanges, 1 conversation, 1 move, 1 stop | 1,498,734 (under symmetry) |
| `exchange_live` | does every call return and every sending exchange end? | 2 threads, 1 exchange, 2 conversations, 1 stop | 23,590 |
| `experience` | is exactly what was accepted learned, once, and in the end? | 2 responses, 2 findings, 1 stop, frozen analyses | 495,830 |
| `runtime` | do keys, dynamics, memory, files, texts and outcome rows stay together? | 2 turns, 1 checkpoint, 1 stop, 2 settings; 1 process with all calls, 2 processes with commits; writes fail everywhere but in a restore | 667,512 |
| `recovery` | does a project appear with its runtime or not at all, with one runtime per token, and is nothing in use moved? | 3 attempts, 2 stops | 12,068 |
| `documents` | do texts, receipts, Tree and file stay together, and are packets backed and migrations complete? | 1 old and 2 imported documents, 1 stop, every failure, both modes | 1,160,717 |
| `reviewed_memory` | are links acyclic, is the checkpoint on record the catalog, and is evidence current? | 1 process, 3 sources, 2 relations, 2 addresses, clock 0..1 | 708,282 |
| `oauth_broker` | is there one generation, is the newest token kept, do restarts and logouts last? | 3 connections, 2 logins, 2 tokens each, 1 stop | 1,010,971 (under symmetry) |
| `local_worker` | do answers belong to their requests, are pipes in step, does every call return unless `readline` waits for a hung worker? | 2 callers, 3 requests, 2 chunks, 2 faults | 208,399 |

Runs that find the code at odds with what the repository says (`findings` in
`PROJECT.json` quotes the lines):

| run | shows |
|---|---|
| `recovery_late_abort` | the abort of a timed-out attempt, handled between the publish and the COMMIT of the retry, removes the runtime; the imported project is then given an empty one. `ImportIsWhole` (run `recovery`) says that without late requests this does not happen |
| `oauth_broker_logout` | a refresh that waits for the provider saves its tokens after a logout has deleted the keychain entry and reported success. In the trace the logout found no credential in memory, because a login had stored it in the keychain only. (A login that saves after a logout is a new sign-in and no violation.) `SignedOutStays` (run `oauth_broker`) says that a logout that runs alone lasts |

### What the properties of the passing runs say together

Several properties cover more than their names say: `OkMeansCommittedOnce` covers the retry that finds its event,
`ReplayRebuildsState` that what each supersession did still stands in both tables, `AtMostOneRequest` that
`not_sent` was never asked, `OnlyAcceptedIsLearned` that the findings of the
evaluation on record are resolved and that the acceptance is of the learned
response, `HeadCoherent` the texts of the front row and the outcome rows, `OpenRecovers`
which starts the lineage assertion refuses,
`StoresAgree` the order of library, receipts and Tree. The type
invariants of `Ledger`, `Recovery`, `Documents`, `OAuthBroker`, `LocalWorker` and
`Experience` are proved instead of run; those of `Exchange`, `Runtime` and
`ReviewedMemory` are run and proved.

### Why the bounds are enough for the questions

- *Ledger*: two writers are the two processes there are. Three keys let each
  writer hold one request while a third commits in between; two objects suffice
  for a supersession and its retry; bases below 2 let a retry be two versions late.
- *Exchange*: two threads race for every mutex and every row; a third adds no
  mutex order, as the sections are the same. Two exchanges occupy and wait for
  the one-in-flight index. One stop is enough for each recovery path, since
  a stop keeps only the tables. Liveness has one exchange and two conversations,
  so the view of another conversation can run while the exchange is sending.
- *Experience*: sent turns share no row and no runtime key, so one is enough; two
  responses are one and its regeneration; one finding is raised without the
  gateway and one only with it, which is the distinction the code makes.
- *Runtime*: two turns make the tick of a recommitted turn differ from its first;
  one checkpoint can be older or newer than a commit. With two processes only
  commits are explored: settings and saving write the head without comparing it
  and do drop commits of the other process. File writes fail in every call but
  a restore, whose failure leads to the disagreement told in section 5.
- *Recovery*: two attempts are needed for one to resume the other's token, and a
  third for an attempt after an abort; two stops let both processes stop, or one
  of them twice. There is one archive: an import of another archive of the same
  project is refused like that of an existing project.
- *Documents*: two imported documents make an import meet one that was cut short;
  one old document is what only the migration can index. One stop suffices, since
  it leaves only the stores and each of its places is met.
- *ReviewedMemory*: one source states a relation, one states it and another, one
  disagrees in wording; so bindings are shared, an address is added to a taught
  tree, and conflicts occur. Two addresses are as many as there are relations,
  so the test of the capacity (`Fits`) never refuses. A clock of two values tells
  "before" from "after" a supersession. One process: with two the code records
  cycles (section 5).
- *OAuthBroker*: a login, a logout and a refresh side by side need three
  connections; two logins make a record of another session, two tokens one
  rotation in each.
- *LocalWorker*: two callers contend for the lock; with three requests one times
  out or fails, its remains meet the second, and a third finds the pipes after
  that; two chunks make a line of the first meet the second; two faults are, for
  example, a stray line and a death.

### Fairness and deadlock

`Exchange` assumes strong fairness for each thread's sections and for each
mutex acquisition (the operating system runs threads, and the mutexes are held
only for bounded sections) and strong fairness of a view of each conversation:
the desktop polls `conversation.get` every 1500 ms while it waits, and again
when a conversation is opened. `Experience` assumes weak fairness of the steps
of a call, strong fairness of the user asking again for a complete response (the
"Retry governed commit" button; there is no background retry) and strong fairness
of a commit that is answered: a gateway that is down forever commits nothing.
`LocalWorker` assumes that a lock which becomes free again and again is had
(strong fairness of `Enter`), that a call reads or times out and processes run
(weak fairness), and that a line is taken by a worker that reads. It assumes no
generation to end, no process to live and no line to be meant for anybody; that
is what the timeout is for, as far as it reaches: `EveryCallReturns` excepts the
call that waits in `readline` for a worker that hangs (`Blocked`), and what waits for it. The other modules state safety only.

Runs check deadlock except those of `Runtime`, `Recovery`, `ReviewedMemory` and
`LocalWorker`, where all bounds may be used up (turns, attempts, documents that
are all withdrawn, requests) and everybody may be idle for good.

## 4. Proofs

`LedgerProofs` proves, for any sets of writers, readers, objects and keys and
any bound on versions, from `LedgerAssumption` alone:

- `TypeCorrect`: `Spec => []TypeOK`.
- `ChainHolds`: `Spec => []LedgerChain`: in every reachable state the events form
  a chain of bases and digests whose last link is the state in the tables, which
  is what `replay()` verifies after the fact.
- `HistoryKept`: `Spec => HistoryIsKept`: no step drops an event or a row,
  changes a row's authority or ancestor, or revives a superseded row.

The invariant behind them is `IInv`: types, `RequestShape` (what a request can
name) and `CallShape` (which request and which earlier read a call at each step
holds). It is needed because `TypeOK` alone does not say that a call that is
about to commit has a request, nor that a supersession read its old row. The
chain needs in addition that `digest` is the state in the tables, which
`LedgerChain` itself carries. The proofs go action by action; actions that leave
the tables alone share one lemma. Four more results rest on larger invariants:

- `ReplayIsExact`: `Spec => []ReplayRebuildsState`. What `replay()` folds is a
  recursive function of the log. No induction over the log is
  needed: `ReplayAgrees` says that every solution of the equations of
  replay passes through the state each event stored, each commit keeps it so, and
  the replay is such a solution. `SupersessionsStand` says of the tables that for each
  `supersede` call in the log the old row is superseded, the new one names it and
  the edge joins them, whatever other clients committed and imported since. (A
  superseded row that was committed as such needs no edge: the demo project has one.)
- `OkIsCommittedOnce`: `Spec => []OkMeansCommittedOnce`, from `KInv`: a key is in
  the log once (`KeysUnique`), each event is what its request asked for
  (`EventsRequested`), the row a request replaces is in the table
  (`OldStored`), and what a call knows of the log at each of its steps (`CallsKnow`), which is where a retry that finds its
  event and one that was overtaken part.
- `LoadsLagOnlyInVersion`: the same with what a load has read at each statement.
- `LedgerRefinesDecisionLog`: `Spec => ImplementsDecisionLog`. `KInv` is what makes
  each step a step of the log or none: `Commit` of a creation is `Create`, of any
  other request `Decide`, and the end of a call `Answer`, which may say "ok" of
  decided requests only.

`ExchangeProofs` proves, for any threads, exchanges, sessions, drafts and stops,
from `ExchangeAssumption`: `TypeCorrect`, `AskedAtMostOnce`, `GenerationOwned`,
`TurnsOrdered` and `OutcomesKept`. A call holds its mutexes only section by
section, so the invariant says what it may rely on between them: `Shape` gives
for each place of a call what the tables hold of its exchange, and `RowShape` what
a row of `provider_exchanges` says by itself (a prepared one was never asked, a
captured one has its turns). What keeps the other threads from breaking it is that
at most one exchange of the project is sending or being sent (`OneActive`: the
index of the table) and that at most one thread has put a given exchange in flight
(`OneGuard`). `TurnsInOrder` is part of the invariant, since the turn a response is
put behind must still be the last one. Each action has one lemma; `Keeps` is
what a step leaves to the other calls, and `OtherShape` draws from it that their
shapes last.

`RecoveryProofs` proves, for any number of attempts and stops, from
`RecoveryAssumption` (bounds are numbers, `None` is neither a number nor a
runtime):

- `TypeCorrect`, and `ClosedUntilCommitted`, `OneRuntime`, `Whole`:
  `FailsClosed`, `OneRuntimePerImport` and `ImportIsWhole` always hold.
- `Resumable`: while the ledger has no project, what is in its directory is an
  intent the next attempt takes up (`RetryCanResume`, which is only proved).
- `Kept`: `Spec => NeverOverwritten`.

Its invariant adds to the properties: `Numbered` (whatever names an attempt names
one that was begun, and an intent is never a seeded runtime's), `Fresh` (a
request to stage, however late, names a runtime that is nowhere yet),
`BeforeCommit` (from `Import` to COMMIT the ledger has no project, so only one
token is ever committed) and `InStep` (without late requests the gateway has at
most the request the import waits for, and at "published" the runtime is there).
`InStep` is what a late request breaks: run `recovery_late_abort` shows what
then happens, while the other five results do not need it. The lemma `ServeCases`
lists the six things one request can do to the directories; the rest of the
proof is about these and not about the branches of the code.

`ExperienceProofs` (any responses, findings, stops): `OneExperience` and
`OnlyAccepted`. The invariant adds to the types `Raised` (a finding that was
raised is one of a response), `Ours` (a call is about a response that was
captured and, past its evaluation, evaluated), `Recorded` (what an
evaluation found is on record as a finding) and `Learning` (a call that has
passed the check, and the runtime, have the accepted, complete response with its
findings resolved, and the receipt is of what the runtime learned). `Learning` is what makes two processes in the same
flow harmless. The lemma `Lasts` says what no step takes back, and
`Advances` what a step of a call does to it; the rest goes along these.

`DocumentsProofs` (any documents, failures, stops): `StoresAlwaysAgree`,
`RanksByDurableTree`, `Backed` and `Repairs`. The invariant says what each place
of a call may rely on: who can be there (`Caller`), what its documents already
have (`Pending`), what a migration has left to do (`Migrated`) and that the
Tree in memory is the durable one (`Loaded`). One lemma per action.

`RuntimeProofs` (any processes, keys, settings, stops and failing writes) proves
`TypeCorrect` and `RowsAreBacked` (`Spec => []FrontRowBacked`, the part of
`HeadCoherent` that survives two processes racing) from `RuntimeAssumption` alone.
The invariant is `TInv`. `TypeOK` is not inductive, since nothing in it says which
statement a call has left: `Planned` says that what a process is doing is the rest
of one of the plans of the code, from place `n` on, and what is there by then (a head
that was read, a file that was written). Beside it stand that a project without a
head has learned nothing (`NoHead`), that a head has its files (`FilesThere`) and its creation metadata (`Native`) and that
every front row, in memory, in a file, in a call or in a checkpoint, has its texts in
the library (`Backed`), whose order against the dynamics is what `commit_turn` gets
right by retaining the text first.

`HeadStaysCoherent`, `RestIsOnTheHead`, `StartsRecover` and `CommitsStay` state
`HeadCoherent`, `MemoryIsHead`, `OpenRecovers` and `CommitsAreKept` for calls
restricted as in the run: processes that share a project share commits only, and
replacing a file does not fail in a restore. Both restrictions are needed, because
the code breaks the properties without them: settings and saving write the head
without comparing it, and a failed restore leaves two heads in memory (section 5).
Under `Alone` all calls are allowed. `StartsRecover` says of every start that it
either opens on files that show the head or is refused, and that the lineage assertion
refuses only where the first start stopped before its creation metadata: that project
has no head, and `Native` is why no other one can be refused. The invariant adds `CInv`: until a start reads
files that another process replaces (`raced`), head and checkpoints are sound
(`Durable`), and `Agree` says for each place of each plan what memory, the files and
the head that was read have in common (`OverBody` for a start, `ReloadBody` for a key
another process committed, `SaveBody`, `RestoreBody`). With two processes `AtRest` is
weaker than equality with the head: a digest that is the head's comes with the keys
of that head, and memory is never longer than the head, so a commit, which makes the
head longer, cannot meet a stale digest again. That is the argument why the
comparison in `commit_turn` is enough. `LoudStep` is the argument about the others: a
process that was not reading back is not disturbed by a new head or file, and one that
was makes the behaviour `raced`.

`ReviewedMemoryProofs` (any sources, relations, wordings, times and capacity, from
`ReviewedMemoryAssumption`: there are finitely many sources, and none states a
relation twice) proves `TypeCorrect` for any processes, and `TreeHoldsCatalog`,
`AnswersAreCurrent` and `AuthorityIsAcyclic` for one, as in the run: the lock is one of
a process, and two can record a cycle or one address twice (section 5). Learning, answering and
linking each work something out in one step and use it in later ones, and the
invariants say what is still true of it then:

- `Typed` adds to `TypeOK` that a checkpoint has as many addresses as relations
  (`Sized`) and that a call being taught has a source.
- `TreeInv` says that the last checkpoint is the catalog, and `LearnInv` with `Adding` that
  what a call is about to add is new, without repetition, and with the catalog all
  its source states, that the tree it started from is still the current one, and that
  its checkpoint is written before its row is retained. So a call that fails or stops
  anywhere leaves at worst a checkpoint no row names.
- `Answering` says that the inventory a call read still covers what is active
  (documents come only through the lock), that what was chosen is in it or was
  reopened, and that nothing chosen which is still active is superseded. The
  last comparison of the inventories (`SameInventory`) then leaves only active
  documents. It needs that following links ends: `EndpointRests` shows by
  counting sources that links without a circle lead to a source that nothing
  supersedes, after as many steps as there are sources at most.
- `Walked` says that between the walk and the store the links do not change, so what
  was walked is what is stored; a cycle that new links close would run through
  their successor.

The catalog is a flattened sequence, and what a source adds and where links lead are
recursive functions. The library's induction theorems take operators, which the
provers cannot instantiate, so the module states the two it needs for sets: `Least`
(a set of numbers has a least one, from the well-founded order), `UpTo` (induction
over the numbers in a set) and `Recursion` (a function can be built step after step,
hence the equations of a recursive definition have a solution). What the definitions
compute follows: `Flattened`, `Gathered`, `EndpointWalk`.

`HelperProofs` is about the two kinds of process beside the gateway.

For `OAuthBroker` (any connections, sessions, tokens, stops): `OneAtATime` from
`Slotted` (who completes a request holds the slot); `NewestKept` from `Owned`
(until a login has stored its record, nothing else has one of its session); `RestartKeeps`
and `SignedOut` from `Sole` (unless `raced`, at most one thread has a credential
in hand, memory lags the keychain only between its two writes, and after a logout
there is at most a login that has not stored its record).

For `LocalWorker` (any callers, requests, chunks, faults): `OwnAnswers` from
`Own` (a result is that of the chunk it stands for, in the worker and in every
line of its pipe) and `StaysInStep` from `Locked` and `Synced` (while a call
reads, its request is in exactly one place; otherwise in none).

Every safety property of the passing runs is stated by one of these theorems. Only
model-checked is liveness (`EveryCallReturns` of `Exchange` and `LocalWorker`, `SendingEnds`,
`AcceptedIsLearned`), which is out of the prover's reach.

## 5. Where the code and the repository's words differ

Two differences have a run (section 3). These were met while reading and are part
of the models' behaviour or outside them; the properties are stated so that they
hold beside them.

- `current_state` is three statements (`persistence/src/lib.rs:657`), so a load beside
  a commit mixes versions, where the specification promises immutable
  snapshots. `LoadLagsOnlyInVersion` says why it is caught when the turn is sent.
- The evaluation acted on is the first one stored: a response first evaluated with
  the gateway down can be learned while a finding of a later evaluation is open
  (`assistd/src/lib.rs:922`). `OnlyAcceptedIsLearned` is about the one on record.
- A frozen analysis whose checkpoint the runtime has left is refused at every retry
  (`structural_analysis.py:1850`), where docs/OAUTH_CHAT.md:81 says a failed commit
  can be retried.
- A first start of a project that stops, or fails to write, after `tree_state.json` and
  before `creation_metadata.json` leaves a project that never opens again: the next
  start takes the tree for a legacy one and fails the lineage assertion
  (`tom_gateway.py:335`, `347`, `470`); the head that gateway/README.md:812 recovers
  files from does not exist yet. `OpenRecovers` says that nothing else is refused.
- A gateway that starts while another commits can mix two heads, pass the digest
  comparison and drop the commit (`tom_gateway.py:1013`; BUILD_LOG.md:403). This is
  `raced`.
- A restore that fails while it writes files leaves the old tree in memory with the
  keys of the checkpoint, and a change of settings makes that the head
  (`tom_gateway.py:1147`; gateway/README.md:815).
- After COMMIT a failed replacement of `tree_state.json` makes `apply_document` put
  the prior Tree over the committed head (`document_tree.py:628`). This is `torn`.
- A stop while the document Tree is first built leaves receipts without a file, and
  every later open refuses, the migration included (`tom_gateway.py:257`;
  docs/TREE_DOCUMENT_RESEARCH_IMPLEMENTATION_INSTRUCTION.md:219). The migration also
  answers `already_ready` for an open project without looking at its receipts
  (`tom_gateway.py:1662`).
- The withdrawal of one of two sources bound to a relation makes recall of it fail
  (`native_memory.py:3302`; gateway/README.md:1260). An ambiguous answer may present
  the text of a withdrawn endpoint (`native_memory.py:3337`), which is why
  `EvidenceIsCurrent` leaves that kind out. A document withdrawn while it is learned
  is learned, and a stop between record and removal leaves two checkpoints.
- The deadline of a worker call bounds `select`, hence the first byte only
  (`structure_provider.py:167`, `172`; `matrix_event_provider.py:90`;
  `document_ingestion.py:2462`). A text without a newline, printed before a generation
  that hangs, blocks the call in `readline`, and with it every caller that waits for the
  lock. `EveryCallReturns` excepts this case (`Blocked`).
- Two gateway processes can record authority links that form a cycle, or one
  address twice: their lock is one of a process.
- A worker client that reads a JSON line not meant for it (wrong id) does not close
  the process, so it stays one line behind, and fails closed, until the process
  ends; the document client does so for any stray line. A structure worker whose
  Gemma child died or is out of step never replaces it, so its analyses fail until the
  worker is closed.

## 6. Not modelled

- *Numerical code* (structural analysis, declared structure, dense loads, the
  vendored engine) and the text analysis around it: functions over matrices and
  strings without state of their own. What is modelled of them is the state kept
  around them. This is most of the Python code of `gateway/`.
- `validation/`: batch experiments run by hand, most of the repository's lines; they
  keep no state of the application.
- *Documents*: chunking, vectors, scores and budgets, and the pages of a broad research
  query. *Reviewed memory*: the scopes for human remains and remediation plans,
  temporal relations and questions (the branches of `native_memory.py` between
  3160 and 3251 that look at times and order; the mapped ranges contain some of them, and
  `EvidenceIsCurrent` says nothing of them), discovery of candidates.
- *Ledger*: an import of several rows is one row here, since they share a transaction.
  *Experience*: the views offer accepted, false positive and dismissed for an open finding,
  and the model resolves no other way; the commands behind them would take any status,
  "open" included (`persistence/src/lib.rs:1106`). *Recovery*: calls on a project that
  the ledger does not have, and the document routes past the runtime, which open the
  library without `finalize_pending` (`evidence_gateway.py:618`). *Runtime*: beside the
  missing creation metadata, the lineage assertion can fail on metadata of another seed,
  which no step of the code writes.
- *OAuth broker*: PKCE, ID tokens, parsing of callbacks and event streams (reading a
  stream is taken to end), a keychain that cannot be read at start, two brokers
  over one keychain. A login during a send may give it another account's token.
- *Local workers*: writes have no timeout in the code; a document worker that hung
  after a stray line could block the next write, and the model has only
  generations hang. A stray line that is valid JSON is not modelled. A child whose
  worker was closed runs until its generation ends and reaches nobody.
- Snapshots and audit rows of the ledger, the export of a project, self-reports
  (a flag that is off by default), context admission and the governance rules
  (pure functions), the desktop's views, the page gate of the extension, framing
  and schemas.

## 7. Plan

Modules exist for the ledger, exchanges, experience, runtime, recovery, documents,
reviewed memory, the broker and the workers. What would add most next, in order:

1. A composition of `Experience` with `Runtime`, where the gateway of
   `Experience` is what `Runtime` implements.
2. Admission as a pure algorithm against a reference definition.

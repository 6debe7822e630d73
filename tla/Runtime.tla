------------------------------ MODULE Runtime ------------------------------
(***************************************************************************)
(* One project's runtime in the gateway (ProjectRuntime of                 *)
(* gateway/tom_gateway.py over gateway/permanent_library.py): a tree       *)
(* engine and a front-row memory (rgm) in memory, their durable head with  *)
(* the keys committed so far (done) in library.sqlite3, three JSON files   *)
(* projected from the head, and saved checkpoints.                         *)
(*                                                                         *)
(* The dynamics are deterministic, so a tree or a front row is the         *)
(* sequence of the keys learned.  The lock of a runtime serialises the     *)
(* calls of one process.  Starting a gateway takes the socket over without *)
(* stopping the process that had it, so two processes may use the same     *)
(* files.  A statement on the library is atomic, and so is the             *)
(* replacement of one file; a process may stop between any two, and the    *)
(* replacement of a file may fail.                                         *)
(***************************************************************************)
EXTENDS Naturals, FiniteSets, Sequences, SequencesExt

CONSTANTS
  Processes,  \* gateway processes
  Keys,       \* idempotency keys of committed turns
  Anchored,   \* the keys whose packet admitted anchors, so outcomes are kept
  Settings,   \* values of the project's memory settings
  Default,    \* DEFAULT_SETTINGS
  None,
  Starts,     \* how the project is found: "new", or "seeded" by an earlier start
  Calls,      \* the calls made of a process that has the project alone
  Shared,     \* the calls made when two processes use it
  MayFail,    \* the calls in which replacing a file may raise OSError
  MaxSaved,   \* bound: checkpoints
  MaxLength,  \* bound: turns learned
  MaxCrashes  \* bound: how often a process stops

CallKinds == {"commit", "settings", "save", "restore"}

VARIABLES
  users,     \* the processes that use this project, the same throughout
  created,   \* creation_metadata.json is there
  head,      \* runtime_head
  library,   \* library_records: turns whose text is retained
  outcomes,  \* the tick in retrieval_outcomes of each key
  files,     \* tree_state.json, rgm_state.json, turn_idempotency.json
  saved,     \* checkpoints with their metadata
  mem,       \* the runtime of each process
  work,      \* what is left of the call each process is in
  crashes,
  raced      \* history: files or head were replaced while a start read them back

store == <<users, created, head, library, outcomes, saved>>
vars  == <<store, files, mem, work, crashes, raced>>

-----------------------------------------------------------------------------
(* Data *)

Parts == {"tree", "rgm", "done"}
Turns == UNION {[1..n -> Keys] : n \in 0..MaxLength}
Heads == [tree : Turns, rgm : Turns, done : SUBSET Keys, settings : Settings]

ASSUME RuntimeAssumption ==
  /\ IsFiniteSet(Processes)
  /\ Anchored \subseteq Keys /\ Default \in Settings
  /\ Calls \subseteq CallKinds /\ Shared \subseteq CallKinds
  /\ MayFail \subseteq {"open", "commit", "reload", "save", "restore"}
  /\ Starts \subseteq {"new", "seeded"}
  /\ None \notin Keys /\ None \notin Turns /\ None \notin Heads
  /\ \A done \in SUBSET Keys : done # None
  /\ MaxSaved \in Nat /\ MaxLength \in Nat /\ MaxCrashes \in Nat

\* canonical_digest of a tree and a front row: the pair itself.
Digest(h) == <<h.tree, h.rgm>>

Closed == [open |-> FALSE, tree |-> <<>>, rgm |-> <<>>, done |-> {},
           settings |-> Default, digest |-> <<<<>>, <<>>>>]
Idle   == [call |-> "none", plan |-> <<>>, head |-> None]

\* What set_head writes from memory.
Image(m) == [tree |-> m.tree, rgm |-> m.rgm, done |-> m.done, settings |-> m.settings]

\* A project without a file, or as its first start leaves it.
Init ==
  /\ users    \in (SUBSET Processes) \ {{}}
  /\ \/ /\ "new" \in Starts
        /\ head  = None
        /\ created = FALSE
        /\ files = [part \in Parts |-> None]
     \/ /\ "seeded" \in Starts
        /\ head  = Image(Closed)
        /\ created = TRUE
        /\ files = [part \in Parts |-> IF part = "done" THEN None ELSE <<>>]
  /\ library  = {}
  /\ outcomes = [k \in Keys |-> 0]
  /\ saved    = {}
  /\ mem      = [p \in Processes |-> Closed]
  /\ work     = [p \in Processes |-> Idle]
  /\ crashes  = 0
  /\ raced    = FALSE

-----------------------------------------------------------------------------
(* Plans: the statements left of a call, in order *)

\* Mutant: the front row is not projected.
ProjectTreeAndKeys == <<<<"write", "tree">>, <<"write", "done">>>>

\* _write_head_artifacts.
Project == <<<<"write", "tree">>, <<"write", "rgm">>, <<"write", "done">>>>

\* Mutant: the digest of the files is not taken again.
ReloadParts == <<<<"load", "tree">>, <<"load", "rgm">>>>

\* _restore_current_artifacts_if_present.
Reload  == <<<<"load", "tree">>, <<"load", "rgm">>, <<"digest">>>>

\* _persist_current_artifacts.
Persist == <<<<"persist", "tree">>, <<"persist", "rgm">>>>

\* __init__: over a head the files are written first; a project without a tree
\* is new, and its creation metadata are written once its files are; one whose
\* first start was cut short is seeded from what its files hold.
OpenPlan ==
  IF head # None THEN Project \o <<<<"load", "done">>>> \o Reload \o <<<<"opened">>>>
  ELSE (IF files["done"] = None THEN <<>> ELSE <<<<"load", "done">>>>)
       \o (IF files["tree"] = None THEN Persist \o <<<<"create">>>>
           ELSE <<<<"load", "tree">>>> \o
                IF files["rgm"] = None THEN Persist
                ELSE <<<<"load", "rgm">>, <<"digest">>>>)
       \o <<<<"seed">>>>

SavePlan == Persist \o <<<<"copy">>, <<"sethead">>, <<"metadata">>>>

Alone == Cardinality(users) = 1

Called(c)   == c \in IF Alone THEN Calls ELSE Shared
Free(p)     == work[p] = Idle
Ready(p)    == mem[p].open /\ Free(p)
Doing(p, s) == work[p].plan # <<>> /\ Head(work[p].plan)[1] = s

\* The rest of a step that only moves its own process on.
Advance(p)     == work' = [work EXCEPT ![p].plan = Tail(@)]
AdvanceWith(p, h) == work' = [work EXCEPT ![p].plan = Tail(@), ![p].head = h]
Finish(p)      == work' = [work EXCEPT ![p] = Idle]
Start(p, call, plan, h) ==
  work' = [work EXCEPT ![p] = [call |-> call, plan |-> plan, head |-> h]]

\* A step whose plan is done leaves the process idle.
AtEnd(p) == Len(work[p].plan) = 1
Proceed(p) == IF AtEnd(p) THEN Finish(p) ELSE Advance(p)

-----------------------------------------------------------------------------
(* Statements on the files *)

\* _atomic_write of one part of the head that was read.
Write(p) ==
  /\ Doing(p, "write")
  /\ LET part == Head(work[p].plan)[2] IN
     files' = [files EXCEPT ![part] = work[p].head[part]]
  /\ Proceed(p)
  /\ UNCHANGED <<store, mem, crashes>>

\* _atomic_write of one part of memory; the digest is that of the bytes written.
PersistPart(p) ==
  /\ Doing(p, "persist")
  /\ LET part == Head(work[p].plan)[2] IN
     /\ files' = [files EXCEPT ![part] = mem[p][part]]
     /\ mem' = IF part = "rgm" THEN [mem EXCEPT ![p].digest = Digest(mem[p])] ELSE mem
  /\ Advance(p)
  /\ UNCHANGED <<store, crashes>>

\* OSError.  A commit swallows it, any other call raises it where it stands.
WriteFails(p) ==
  /\ Doing(p, "write") \/ Doing(p, "persist") \/ Doing(p, "create")
  /\ work[p].call \in MayFail
  /\ Finish(p)
  /\ mem' = IF mem[p].open THEN mem ELSE [mem EXCEPT ![p] = Closed]
  /\ UNCHANGED <<store, files, crashes>>

LoadPart(p) ==
  /\ Doing(p, "load")
  /\ LET part == Head(work[p].plan)[2] IN mem' = [mem EXCEPT ![p][part] = files[part]]
  /\ Advance(p)
  /\ UNCHANGED <<store, files, crashes>>

\* _compute_checkpoint_digest reads the files again.
LoadDigest(p) ==
  /\ Doing(p, "digest")
  /\ mem' = [mem EXCEPT ![p].digest = Digest(files)]
  /\ Proceed(p)
  /\ UNCHANGED <<store, files, crashes>>

-----------------------------------------------------------------------------
(* ProjectRuntime.__init__ *)

Open(p) ==
  /\ p \in users /\ ~mem[p].open /\ Free(p)
  /\ Start(p, "open", OpenPlan, head)
  /\ mem' = [mem EXCEPT ![p].settings = IF head = None THEN Default ELSE head.settings]
  /\ UNCHANGED <<store, files, crashes>>

\* _atomic_write of the creation metadata.
Create(p) ==
  /\ Doing(p, "create")
  /\ created' = TRUE
  /\ Advance(p)
  /\ UNCHANGED <<users, head, library, outcomes, saved, files, mem, crashes>>

\* A start has come to _assert_native_10k_tree_lineage.
AtLineage(p) == Doing(p, "opened") \/ Doing(p, "seed")

\* The front row is backed; without a head the files become it.
Opened(p) ==
  /\ AtLineage(p) /\ created
  /\ library' = library \cup ToSet(mem[p].rgm)
  /\ head' = IF Doing(p, "opened") THEN head
             ELSE [Image(mem[p]) EXCEPT !.tree = files["tree"], !.rgm = files["rgm"]]
  /\ mem' = [mem EXCEPT ![p].open = TRUE]
  /\ Finish(p)
  /\ UNCHANGED <<users, created, outcomes, saved, files, crashes>>

\* Without its creation metadata a tree is a legacy one: ValueError.
Refused(p) ==
  /\ AtLineage(p) /\ ~created
  /\ Finish(p)
  /\ mem' = [mem EXCEPT ![p] = Closed]
  /\ UNCHANGED <<store, files, crashes>>

-----------------------------------------------------------------------------
(* commit_turn *)

\* retain: the original text, in a transaction of its own.
Retain(k) == library' = library \cup {k}

\* A key in memory is answered from memory.
Commit(p, k) ==
  /\ Ready(p) /\ Called("commit")
  /\ k \notin mem[p].done
  /\ Len(mem[p].tree) < MaxLength /\ Len(mem[p].rgm) < MaxLength
  /\ Retain(k)
  /\ Start(p, "commit", <<<<"commit", k>>>>, None)
  /\ UNCHANGED <<users, created, head, outcomes, saved, files, mem, crashes>>

\* Mutant: the head is not compared.
FreshAlways(p) == TRUE

\* The head is still the one this process works on.
Fresh(p) == Digest(head) = mem[p].digest

\* retain_retrieval_outcomes: a row of an earlier commit of the key must agree.
OutcomesAgree(k, tick) == k \in Anchored /\ outcomes[k] # 0 => outcomes[k] = tick

\* Mutant: the result stands for its key.
KeepsResults(done, k) == done \cup {[key |-> k]}

\* The key joins those committed.
Committed(done, k) == done \cup {k}

\* BEGIN IMMEDIATE to COMMIT: the turn is learned on copies.
CommitLearns(p) ==
  LET k == Head(work[p].plan)[2]
      m == mem[p]
      n == [m EXCEPT !.tree = Append(@, k), !.rgm = Append(@, k),
                     !.done = Committed(@, k)]
      tick == Len(n.tree) IN
  /\ Doing(p, "commit")
  /\ k \notin head.done /\ Fresh(p) /\ OutcomesAgree(k, tick)
  /\ head' = Image(n)
  /\ mem'  = [mem EXCEPT ![p] = [n EXCEPT !.digest = Digest(n)]]
  /\ outcomes' = IF k \in Anchored /\ outcomes[k] = 0 THEN [outcomes EXCEPT ![k] = tick]
                 ELSE outcomes
  /\ Start(p, "commit", <<<<"readhead">>>> \o Project, None)
  /\ UNCHANGED <<users, created, library, saved, files, crashes>>

\* The key is durable, committed by another process: its head is adopted.
CommitReloads(p) ==
  /\ Doing(p, "commit")
  /\ Head(work[p].plan)[2] \in head.done
  /\ Start(p, "reload", Project \o <<<<"settings">>>> \o Reload, head)
  /\ UNCHANGED <<store, files, mem, crashes>>

\* The head moved, the outcomes disagree, or the dynamics refuse: ROLLBACK.
CommitRefused(p) ==
  /\ Doing(p, "commit")
  /\ Head(work[p].plan)[2] \notin head.done
  /\ Finish(p)
  /\ UNCHANGED <<store, files, mem, crashes>>

ReadHead(p) ==
  /\ Doing(p, "readhead")
  /\ AdvanceWith(p, head)
  /\ UNCHANGED <<store, files, mem, crashes>>

\* Keys and settings of the head.  The keys are in memory before the writes, but
\* a write that fails puts the prior keys back.
Adopt(p) ==
  /\ Doing(p, "settings")
  /\ mem' = [mem EXCEPT ![p].settings = work[p].head.settings, ![p].done = work[p].head.done]
  /\ Advance(p)
  /\ UNCHANGED <<store, files, crashes>>

-----------------------------------------------------------------------------
(* update_settings, save_checkpoint, restore_checkpoint *)

UpdateSettings(p, s) ==
  /\ Ready(p) /\ Called("settings")
  /\ mem'  = [mem EXCEPT ![p].settings = s]
  /\ head' = [Image(mem[p]) EXCEPT !.settings = s]
  /\ UNCHANGED <<users, created, library, outcomes, saved, files, work, crashes>>

Save(p) ==
  /\ Ready(p) /\ Called("save")
  /\ Cardinality(saved) < MaxSaved
  /\ Start(p, "save", SavePlan, None)
  /\ UNCHANGED <<store, files, mem, crashes>>

\* The two files are copied, and the keys and settings written, to a new directory.
SaveCopies(p) ==
  /\ Doing(p, "copy")
  /\ AdvanceWith(p, [Image(mem[p]) EXCEPT !.tree = files["tree"], !.rgm = files["rgm"]])
  /\ UNCHANGED <<store, files, mem, crashes>>

SaveSetsHead(p) ==
  /\ Doing(p, "sethead")
  /\ head' = [Image(mem[p]) EXCEPT !.tree = files["tree"], !.rgm = files["rgm"]]
  /\ Advance(p)
  /\ UNCHANGED <<users, created, library, outcomes, saved, files, mem, crashes>>

\* A checkpoint exists once its metadata names the digest of what was persisted.
SaveMetadata(p) ==
  /\ Doing(p, "metadata")
  /\ saved' = saved \cup {[head |-> work[p].head, digest |-> mem[p].digest]}
  /\ Finish(p)
  /\ UNCHANGED <<users, created, head, library, outcomes, files, mem, crashes>>

\* Mutant: the keys are not reset with the tree.
RestoredTreeOnly(p, h) == [h EXCEPT !.done = mem[p].done]

\* Tree, front row, keys and settings of the checkpoint.
Restored(p, h) == h

\* A copy that does not match its metadata is refused.
Restore(p) ==
  /\ Ready(p) /\ Called("restore")
  /\ \E c \in saved :
       LET h == Restored(p, c.head) IN
       /\ Digest(c.head) = c.digest
       /\ ToSet(h.rgm) \subseteq library
       /\ head' = h
       /\ mem'  = [mem EXCEPT ![p].done = h.done, ![p].settings = h.settings]
  /\ Start(p, "restore", <<<<"readhead">>>> \o Project \o Reload, None)
  /\ UNCHANGED <<users, created, library, outcomes, saved, files, crashes>>

Crash(p) ==
  /\ crashes < MaxCrashes /\ (mem[p].open \/ ~Free(p))
  /\ crashes' = crashes + 1
  /\ mem' = [mem EXCEPT ![p] = Closed]
  /\ Finish(p)
  /\ UNCHANGED <<store, files>>

-----------------------------------------------------------------------------

Step(p) ==
  \/ Write(p) \/ PersistPart(p) \/ WriteFails(p) \/ LoadPart(p) \/ LoadDigest(p)
  \/ Create(p) \/ Opened(p) \/ Refused(p) \/ CommitLearns(p) \/ CommitReloads(p) \/ CommitRefused(p)
  \/ ReadHead(p) \/ Adopt(p)
  \/ SaveCopies(p) \/ SaveSetsHead(p) \/ SaveMetadata(p)

\* The head or the files move under p, while it reads the files back in a start
\* or a reload.
Overlap(p) ==
  /\ \E i \in DOMAIN work[p].plan : work[p].plan[i][1] \in {"digest", "seed"}
  /\ work'[p] = work[p] /\ <<head, files>>' # <<head, files>>

Move ==
  \/ \E p \in Processes : Open(p) \/ Step(p) \/ Save(p) \/ Restore(p) \/ Crash(p)
  \/ \E p \in Processes, k \in Keys : Commit(p, k)
  \/ \E p \in Processes, s \in Settings : UpdateSettings(p, s)

Next == Move /\ raced' = (raced \/ \E p \in Processes : Overlap(p))

Spec == Init /\ [][Next]_vars

-----------------------------------------------------------------------------
(* Properties *)

\* Every variable holds a value of its kind.
TypeOK ==
  /\ users \subseteq Processes /\ created \in BOOLEAN
  /\ head \in Heads \cup {None}
  /\ library \subseteq Keys
  /\ outcomes \in [Keys -> 0..MaxLength]
  /\ files["tree"] \in Turns \cup {None} /\ files["rgm"] \in Turns \cup {None}
  /\ files["done"] \in (SUBSET Keys) \cup {None}
  /\ \A c \in saved : c.head \in Heads /\ c.digest \in Turns \X Turns
  /\ \A p \in Processes : mem[p].open \in BOOLEAN /\ Image(mem[p]) \in Heads
  /\ \A p \in Processes : work[p].call \in {"none", "open", "commit", "reload", "save", "restore"}
  /\ crashes \in 0..MaxCrashes /\ raced \in BOOLEAN

Coherent(h) == h.tree = h.rgm /\ h.done = ToSet(h.tree) /\ IsInjective(h.tree)

\* "An aborted attempt ... cannot leave an unbacked front-row item": what the
\* head or a checkpoint has in its front row has its text in the library,
\* whichever process wrote it.
FrontRowBacked ==
  /\ head # None => ToSet(head.rgm) \subseteq library
  /\ \A c \in saved : ToSet(c.head.rgm) \subseteq library

\* Commit keys and dynamics move together ("atomically journals engine/RGM
\* snapshots, idempotency"; restore "resets the working tree/front row and
\* commit keys"): in the head and in every checkpoint the tree and the front
\* row have learned exactly the committed keys, each once, and the outcome rows
\* of a turn name the tick at which the tree learned it, also when a restore
\* dropped the turn and it was committed again.
HeadCoherent ==
  /\ FrontRowBacked
  /\ ~raced /\ head # None =>
       /\ Coherent(head)
       /\ \A i \in DOMAIN head.tree :
            head.tree[i] \in Anchored => outcomes[head.tree[i]] = i
  /\ ~raced => \A c \in saved : Coherent(c.head) /\ Digest(c.head) = c.digest

\* A runtime at rest works on the durable head, after failed writes, refused
\* commits, restores and restarts too; so its own commits are never refused as
\* another process's.
MemoryIsHead ==
  Alone => \A p \in users : Ready(p) => Image(mem[p]) = head /\ mem[p].digest = Digest(head)

\* The start of p ends without a runtime, and the process did not stop.
StartRefused(p) == AtLineage(p) /\ work'[p] = Idle /\ ~mem'[p].open /\ crashes' = crashes

\* "JSON runtime files are recoverable projections of that head": a start that
\* ends well ends with the files showing the head, wherever the last process
\* stopped, and once there is a head the lineage assertion refuses no start.  It
\* does refuse a project whose first start was cut short before the creation
\* metadata: that one has no head, and is never opened again.
OpenRecovers ==
  [][\A p \in users :
       /\ Alone /\ ~mem[p].open /\ mem'[p].open =>
            \A part \in Parts \ (IF head = None THEN {"done"} ELSE {}) :
              files'[part] = head'[part]
       /\ StartRefused(p) => head = None /\ ~created]_vars

KeptUnlessRestored ==
  head # None => \/ head.done \subseteq head'.done
                 \/ \E c \in saved : head' = c.head

\* "Commit is durable" (gateway/tom_gateway.py:1100) and "a stale runtime-head
\* digest refuses another process's conflicting commit" (BUILD_LOG.md:403): a
\* commit is undone only by restoring a checkpoint, by one process or two, as
\* long as neither replaced the files that the other was reading back.
CommitsAreKept == [][~raced => KeptUnlessRestored]_vars
=============================================================================

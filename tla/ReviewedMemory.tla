--------------------------- MODULE ReviewedMemory ---------------------------
(***************************************************************************)
(* The reviewed memory of one project behind the document answers of the   *)
(* gateway: class RgmDocumentService of gateway/native_memory.py, on the   *)
(* records of library.sqlite3 and on the checkpoints tree-<n>.pkl that the *)
(* worker of gateway/native_memory_worker.py writes.                       *)
(*                                                                         *)
(* A document is one passage, a source.  A user may review a source: the   *)
(* relations it states are taught to a small tree, once each, and the      *)
(* source is bound to them.  A user may also record that a source          *)
(* supersedes others from some time on.  A question about a relation is    *)
(* answered from the sources bound to it, unless they disagree.            *)
(*                                                                         *)
(* In a process one call at a time imports, learns, records authority or   *)
(* answers (_inference_lock, not waited for); a withdrawal takes no lock.  *)
(* Two processes may use one project (see Runtime).  Authority is kept per *)
(* relation kind: the model has the links of one kind, to which the        *)
(* relations that are asked about belong.                                  *)
(***************************************************************************)
EXTENDS Naturals, Sequences, FiniteSets, SequencesExt

CONSTANTS
  Processes,
  Sources,      \* passages a user may import
  Relations,    \* relations a passage may state
  Asked,        \* those that questions are about, of one relation kind
  States,       \* the relations each source states, in order
  Opposing,     \* sources whose wording conflicts with a reviewed relation
  None,
  MaxMemories,  \* RGM_TOM_MAX_MEMORIES
  MaxTime       \* bound: the clock

ASSUME ReviewedMemoryAssumption ==
  /\ IsFiniteSet(Sources)
  /\ Asked \subseteq Relations
  /\ States \in [Sources -> Seq(Relations)]
  /\ \A s \in Sources : IsInjective(States[s])
  /\ Opposing \subseteq Sources
  /\ \A s \in Opposing : States[s] = <<>>
  /\ MaxMemories \in Nat /\ MaxTime \in Nat

VARIABLES
  shelf,  \* documents: imported, and withdrawn
  links,  \* rgm-source-authority records: per source its successor, if any
  rows,   \* rgm-tom-situation records, in insertion order
  files,  \* tree-<n>.pkl: the relations the tree was taught, None if absent
  now,    \* the clock
  op,     \* per process, the call that holds _inference_lock
  told    \* what the last question was answered

vars == <<shelf, links, rows, files, now, op, told>>

-----------------------------------------------------------------------------
(* Data *)

NoLink == [newer |-> None, at |-> 0]
NoTree == [n |-> 0, taught |-> <<>>]

NoAnswer == [kind |-> None, sources |-> {}, time |-> 0]

Idle == [at |-> "idle", source |-> None, set |-> {}, time |-> 0, kind |-> None,
         before |-> NoTree, tree |-> NoTree, seen |-> {}, reopened |-> {}]

Active == shelf.imported \ shelf.withdrawn

Init ==
  /\ shelf = [imported |-> {}, withdrawn |-> {}]
  /\ links = [s \in Sources |-> NoLink]
  /\ rows  = <<>>
  /\ files = [n \in 1..MaxMemories |-> None]
  /\ now   = 0
  /\ op    = [p \in Processes |-> Idle]
  /\ told  = NoAnswer

At(p, at)      == op[p].at = at
Free(p)        == At(p, "idle")
Set(p, call)   == op' = [op EXCEPT ![p] = call]
Begin(p, call) == Set(p, call) /\ told' = NoAnswer
Return(p)      == Set(p, Idle)

-----------------------------------------------------------------------------
(* The library *)

Import(p, s) ==
  /\ Free(p)
  /\ s \notin shelf.imported
  /\ shelf' = [shelf EXCEPT !.imported = @ \cup {s}]
  /\ UNCHANGED <<links, rows, files, now, op, told>>

Withdraw(s) ==
  /\ s \in Active
  /\ shelf' = [shelf EXCEPT !.withdrawn = @ \cup {s}]
  /\ UNCHANGED <<links, rows, files, now, op, told>>

Tick ==
  /\ now < MaxTime
  /\ now' = now + 1
  /\ UNCHANGED <<shelf, links, rows, files, op, told>>

-----------------------------------------------------------------------------
(* Source authority *)

Linked(map, s) == map[s].newer # None

\* Following the links from start never ends.
Endless(map, start) ==
  \E S \in SUBSET Sources :
    start \in S /\ \A s \in S : Linked(map, s) /\ map[s].newer \in S

\* _authority_rows raises when it finds a cycle, and so does all that reads it.
Readable(map) == \A s \in Sources : ~Endless(map, s)

With(map, olds, newer, at) ==
  [s \in Sources |-> IF s \in olds THEN [newer |-> newer, at |-> at] ELSE map[s]]

\* Mutant: the links on record are walked, without the new ones.
MayLinkAlone(olds, newer, at) == ~Endless(links, newer)

\* _resolve_source_authority walks from the new successor.
MayLink(olds, newer, at) == ~Endless(With(links, olds, newer, at), newer)

\* The sources are read, the links checked.  Those recorded already, the same
\* way, are left out; a different one refuses the call.
BeginResolve(p, newer, olds, at) ==
  LET pending == {s \in olds : ~Linked(links, s)} IN
  /\ Free(p)
  /\ newer \in Active /\ olds \subseteq shelf.imported \ {newer} /\ olds # {}
  /\ Readable(links)
  /\ \A s \in olds \ pending : links[s] = [newer |-> newer, at |-> at]
  /\ MayLink(pending, newer, at)
  /\ Begin(p, [Idle EXCEPT !.at = "resolve", !.source = newer, !.set = pending, !.time = at])
  /\ UNCHANGED <<shelf, links, rows, files, now>>

\* The transaction: retain keeps a record that is there, and raises, for the
\* time of its creation differs.
CommitResolve(p) ==
  /\ At(p, "resolve")
  /\ links' = IF \E s \in op[p].set : Linked(links, s) THEN links
              ELSE With(links, op[p].set, op[p].source, op[p].time)
  /\ Return(p)
  /\ UNCHANGED <<shelf, rows, files, now, told>>

-----------------------------------------------------------------------------
(* Learning a reviewed source *)

\* The relations of the tree, by their address.
Catalog == FlattenSeq([i \in 1..Len(rows) |-> rows[i].new])

\* _memory_catalog raises on a relation or an address that is there twice.
CatalogReads == IsInjective(Catalog)

CurrentTree == IF rows = <<>> THEN NoTree ELSE Last(rows).tree

Learned(s) == \E i \in 1..Len(rows) : rows[i].source = s

Bound(r) == {s \in Sources : Learned(s) /\ r \in ToSet(States[s])}

\* Those a source states that the tree was not taught, in the order it states them.
NewRelations(s) ==
  LET new[n \in 0..Len(States[s])] ==
        IF n = 0 THEN <<>>
        ELSE IF States[s][n] \in ToSet(Catalog) THEN new[n - 1]
        ELSE Append(new[n - 1], States[s][n])
  IN new[Len(States[s])]

\* The limit of the tree.
Fits(s) == Len(Catalog) + Len(NewRelations(s)) <= MaxMemories

\* An active source that states relations and is not learned.  A source that
\* is learned is answered as a duplicate, and changes nothing.
BeginLearn(p, s) ==
  /\ Free(p)
  /\ s \in Active /\ s \notin Opposing /\ States[s] # <<>>
  /\ CatalogReads /\ ~Learned(s) /\ Fits(s)
  /\ LET taught == Catalog \o NewRelations(s) IN
     Begin(p, [Idle EXCEPT !.source = s,
               !.at   = IF NewRelations(s) = <<>> THEN "retain" ELSE "teach",
               !.before = CurrentTree,
               !.tree = IF NewRelations(s) = <<>> THEN CurrentTree
                        ELSE [n |-> Len(taught), taught |-> taught]])
  /\ UNCHANGED <<shelf, links, rows, files, now>>

\* The worker loads the checkpoint of the last row, or the fixture, checks it
\* against that row, teaches and saves under the new number.
Teach(p) ==
  LET before == op[p].before IN
  /\ At(p, "teach")
  /\ before # NoTree => files[before.n] = before.taught
  /\ files' = [files EXCEPT ![op[p].tree.n] = op[p].tree.taught]
  /\ Set(p, [op[p] EXCEPT !.at = "retain"])
  /\ UNCHANGED <<shelf, links, rows, now, told>>

\* The worker fails or times out, before or after it saved, or the record is
\* not retained.
LearnFails(p) ==
  /\ At(p, "teach") \/ At(p, "retain")
  /\ Return(p)
  /\ UNCHANGED <<shelf, links, rows, files, now, told>>

\* A record of the same identity is kept.
RetainRow(p) ==
  LET s   == op[p].source
      new == SubSeq(op[p].tree.taught, op[p].before.n + 1, op[p].tree.n) IN
  /\ At(p, "retain")
  /\ rows' = IF Learned(s) THEN rows
             ELSE Append(rows, [source |-> s, new |-> new, tree |-> op[p].tree])
  /\ Set(p, [op[p] EXCEPT !.at = "retire"])
  /\ UNCHANGED <<shelf, links, files, now, told>>

\* Mutant: the checkpoint is retired when nothing was taught as well.
RetiredAnyway(before, tree) == {before.n} \ {0}

\* The checkpoint that the new one replaces.
Retired(before, tree) == {before.n} \ {0, tree.n}

Retire(p) ==
  /\ At(p, "retire")
  /\ files' = [n \in 1..MaxMemories |->
                 IF n \in Retired(op[p].before, op[p].tree) THEN None ELSE files[n]]
  /\ Return(p)
  /\ UNCHANGED <<shelf, links, rows, now, told>>

-----------------------------------------------------------------------------
(* Answering *)

\* Mutant: a source without a link that is effective has no endpoint.
Successor(time, start) == IF links[start].at <= time THEN links[start].newer ELSE None

\* Where the links that are effective lead.
Endpoint(time, start) ==
  LET effective(s) == Linked(links, s) /\ links[s].at <= time
      walk[n \in 0..Cardinality(Sources)] ==
        IF n = 0 THEN start
        ELSE IF effective(walk[n - 1]) THEN links[walk[n - 1]].newer ELSE walk[n - 1]
  IN walk[Cardinality(Sources)]

Query(r)             == Bound(r) \cap Active
Moved(r)             == {s \in Query(r) : Endpoint(now, s) # s}
Resolved(r, packet)  == {s \in Moved(r) : Endpoint(now, s) \in packet \cap Active}
Successors(of)       == {Endpoint(now, s) : s \in of}
Conflicts(packet)    == packet \cap Opposing

\* Every bound source has a successor that was retrieved, and nothing else
\* retrieved conflicts.
Settled(r, packet) ==
  /\ Resolved(r, packet) # {} /\ Resolved(r, packet) = Query(r)
  /\ Conflicts(packet) \subseteq Successors(Query(r))

Disputed(r, packet) == Conflicts(packet) # {} \/ Moved(r) # {}

\* The worker is asked with the reviewed sources retrieved.
Reached(r, packet) == Bound(r) \cap packet \cap Active # {}

Kind(r, packet) ==
  IF r \notin ToSet(Catalog)    THEN "passages"
  ELSE IF Settled(r, packet)    THEN "resolved"
  ELSE IF Disputed(r, packet)   THEN "ambiguous"
  ELSE IF Reached(r, packet)    THEN "recalled"
  ELSE "passages"

Evidence(kind, r, packet) ==
  CASE kind = "passages"  -> packet
    [] kind = "resolved"  -> Successors(Query(r))
    [] kind = "ambiguous" -> Conflicts(packet) \cup Successors(Query(r))
    [] kind = "recalled"  -> Bound(r)

\* The inventory is read; the worker embeds what is not cached.
BeginAnswer(p) ==
  /\ Free(p) /\ Active # {}
  /\ Begin(p, [Idle EXCEPT !.at = "recall", !.seen = Active])
  /\ UNCHANGED <<shelf, links, rows, files, now>>

\* recall_situations, with the worker on the checkpoint of the last row.
Recall(p) ==
  /\ At(p, "recall")
  /\ Readable(links) /\ CatalogReads
  /\ \E r \in Asked, packet \in SUBSET op[p].seen :
       LET kind     == Kind(r, packet)
           evidence == Evidence(kind, r, packet) IN
       /\ packet # {}
       /\ kind = "recalled" => files[CurrentTree.n] = CurrentTree.taught
       /\ Set(p, [op[p] EXCEPT !.at = "reopen", !.kind = kind, !.set = evidence, !.time = now,
                               !.reopened = IF kind = "recalled" THEN evidence \ packet ELSE {}])
  /\ UNCHANGED <<shelf, links, rows, files, now, told>>

Tell(p, kind) == told' = [kind |-> kind, sources |-> op[p].set, time |-> op[p].time]

\* _restore_recalled_sources: what was not retrieved must be an active passage.
Reopen(p) ==
  /\ At(p, "reopen")
  /\ IF op[p].reopened \subseteq Active
     THEN Set(p, [op[p] EXCEPT !.at = "deliver"]) /\ UNCHANGED told
     ELSE Return(p) /\ Tell(p, "refused")
  /\ UNCHANGED <<shelf, links, rows, files, now>>

\* Mutant: the inventory is not compared.
AnyInventory(p) == TRUE

SameInventory(p) == op[p].seen = Active

\* The worker has read the evidence; the inventory is compared.
Deliver(p) ==
  /\ At(p, "deliver")
  /\ Return(p)
  /\ IF SameInventory(p) THEN Tell(p, op[p].kind) ELSE Tell(p, "discarded")
  /\ UNCHANGED <<shelf, links, rows, files, now>>

\* A worker fails or times out.
AnswerFails(p) ==
  /\ At(p, "recall") \/ At(p, "deliver")
  /\ Return(p)
  /\ UNCHANGED <<shelf, links, rows, files, now, told>>

\* The process stops, whatever it does; another one takes its place.
Stop(p) ==
  /\ Return(p)
  /\ UNCHANGED <<shelf, links, rows, files, now, told>>

Next ==
  \/ Tick
  \/ \E s \in Sources : Withdraw(s)
  \/ \E p \in Processes :
       \/ \E s \in Sources : Import(p, s) \/ BeginLearn(p, s)
       \/ \E s \in Sources, olds \in SUBSET Sources, at \in 0..MaxTime :
            BeginResolve(p, s, olds, at)
       \/ CommitResolve(p)
       \/ Teach(p) \/ LearnFails(p) \/ RetainRow(p) \/ Retire(p)
       \/ BeginAnswer(p) \/ Recall(p) \/ Reopen(p) \/ Deliver(p) \/ AnswerFails(p)
       \/ Stop(p)

Spec == Init /\ [][Next]_vars

-----------------------------------------------------------------------------
(* Properties *)

Trees == [n : 0..MaxMemories, taught : Seq(Relations)]

Kinds == {"passages", "resolved", "ambiguous", "recalled"}

\* Every variable has its type; no tree has more than MaxMemories addresses.
TypeOK ==
  /\ shelf \in [imported : SUBSET Sources, withdrawn : SUBSET Sources]
  /\ shelf.withdrawn \subseteq shelf.imported
  /\ links \in [Sources -> [newer : Sources \cup {None}, at : 0..MaxTime]]
  /\ \A i \in 1..Len(rows) :
       rows[i].source \in Sources /\ rows[i].new \in Seq(Relations) /\ rows[i].tree \in Trees
  /\ files \in [1..MaxMemories -> Seq(Relations) \cup {None}]
  /\ now \in 0..MaxTime
  /\ \A p \in Processes :
       /\ op[p].at \in {"idle", "resolve", "teach", "retain", "retire", "recall", "reopen", "deliver"}
       /\ op[p].source \in Sources \cup {None} /\ op[p].set \subseteq Sources
       /\ op[p].time \in 0..MaxTime /\ op[p].kind \in Kinds \cup {None}
       /\ op[p].before \in Trees /\ op[p].tree \in Trees
       /\ op[p].seen \subseteq Sources /\ op[p].reopened \subseteq Sources
  /\ told.kind \in Kinds \cup {None, "refused", "discarded"}
  /\ told.sources \subseteq Sources /\ told.time \in 0..MaxTime

\* "source-authority links cannot form a cycle" (gateway/native_memory.py:2543):
\* one that is stored makes every later read of the reviewed memory fail.
LinksAcyclic ==
  ~\E S \in SUBSET Sources :
     S # {} /\ \A s \in S : links[s].newer # None /\ links[s].newer \in S

\* The checkpoint that the last record names is there, and was taught exactly
\* the relations of the records, each once at its address, whatever attempt
\* was cut short.
TreeIsCatalog ==
  /\ IsInjective(Catalog)
  /\ rows # <<>> =>
       /\ Last(rows).tree = [n |-> Len(Catalog), taught |-> Catalog]
       /\ files[Len(Catalog)] = Catalog
       /\ \A i \in 1..Len(rows) : ToSet(States[rows[i].source]) \subseteq ToSet(Catalog)

\* "Withdrawn or changed documents invalidate an in-flight answer"
\* (gateway/README.md:1176): an answer rests on passages that are active when
\* it is given, and if reviewed memory chose them, on none that is superseded.
EvidenceIsCurrent ==
  [][(told' # told /\ told'.kind \in Kinds \ {"ambiguous"}) =>
       /\ told'.sources \subseteq Active
       /\ told'.kind \in {"resolved", "recalled"} =>
            \A s \in told'.sources : links[s].newer = None \/ links[s].at > told'.time]_vars

=============================================================================

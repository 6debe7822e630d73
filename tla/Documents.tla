----------------------------- MODULE Documents -----------------------------
(***************************************************************************)
(* The documents of one project in the gateway: their text in              *)
(* library.sqlite3 (gateway/permanent_library.py), and the dedicated       *)
(* document Tree with its receipts (gateway/document_tree.py), kept        *)
(* together by ProjectRuntime of gateway/tom_gateway.py.                   *)
(*                                                                         *)
(* The two databases and the file tree_state.json are written one after    *)
(* the other, so the process may stop between any two.  The load a         *)
(* document puts on the Tree is deterministic: a Tree is the sequence of   *)
(* the documents applied to the seed, and a document stands for all its    *)
(* chunks, which are retained, receipted and analysed together.            *)
(*                                                                         *)
(* One process has the project.  Its locks serialise the calls on the      *)
(* runtime.  Started with TOM_ASSIST_RGM_DOCUMENT_ANSWERS=1 it serves the  *)
(* document routes past the runtime, on a connection of its own            *)
(* (EvidenceGateway.handle), with no lock of the runtime.                  *)
(***************************************************************************)
EXTENDS Naturals, Sequences, SequencesExt

CONSTANTS
  Docs,      \* texts a user may import; a text is its identity
  Legacy,    \* those retained before there was a document Tree
  None,
  Modes,     \* how the process may be started: "tree", "rgm"
  MayFail,   \* statements that may raise: "open", "apply", "write", "restore", "library"
  MaxStops   \* bound: how often the process stops

ASSUME DocumentsAssumption ==
  /\ Legacy \subseteq Docs
  /\ None \notin Docs /\ None \notin Seq(Docs)
  /\ Modes \subseteq {"tree", "rgm"}
  /\ MayFail \subseteq {"open", "apply", "write", "restore", "library"}
  /\ MaxStops \in Nat

VARIABLES
  mode,   \* the value of TOM_ASSIST_RGM_DOCUMENT_ANSWERS, as "tree" or "rgm"
  shelf,  \* library.sqlite3: documents, tombstones, analyses
  index,  \* receipts.sqlite3: whether it exists, tree_head, chunk_commits, withdrawals told
  file,   \* document-index/tree_state.json
  mem,    \* the engine of the ProjectDocumentTreeIndex in use, None without one
  open,   \* the runtime is in TomGateway._projects
  op,     \* the call in progress on the runtime
  reply,  \* what the last call on the runtime answered
  stops,
  torn    \* history: replacing tree_state.json failed under apply_document

disk == <<shelf, index, file>>
vars == <<mode, disk, mem, open, op, reply, stops, torn>>

-----------------------------------------------------------------------------
(* Data *)

Calls   == {"open", "migrate", "ingest", "withdraw", "preview"}
Results == {"none", "ok", "incomplete", "required", "already_ready", "failed", "packet"}

Idle == [call |-> "none", at |-> "idle", doc |-> None,
         left |-> {}, seen |-> <<{}, {}>>, rows |-> {}]

NoReply == [call |-> "none", result |-> "none", docs |-> {}]

\* The rows `inventory` compares across a migration.
Inventory == <<shelf.retained, shelf.tombed>>
Active    == shelf.retained \ shelf.tombed

Init ==
  /\ mode  \in Modes
  /\ \E retained \in {{}, Legacy} : \E analysed \in {{}, retained} :
       shelf = [retained |-> retained, tombed |-> {}, analysed |-> analysed]
  /\ index = [exists |-> FALSE, head |-> None, receipted |-> {}, told |-> {}]
  /\ file  = None
  /\ mem   = None
  /\ open  = FALSE
  /\ op    = Idle
  /\ reply = NoReply
  /\ stops = 0
  /\ torn  = FALSE

Answer(call, result, docs) ==
  reply' = [call |-> call, result |-> result, docs |-> docs]

Begin(call) == op' = call /\ reply' = NoReply

\* The call ends, with its answer.
Return(result) == op' = Idle /\ Answer(op.call, result, {})

Step(call, at) == op.call = call /\ op.at = at
Go(at)         == op' = [op EXCEPT !.at = at]

\* A call that raises: a runtime under construction is dropped, one that is
\* open stays as it is.
Raise(result) ==
  /\ Return(result)
  /\ mem' = IF open THEN mem ELSE None
  /\ UNCHANGED <<mode, disk, open, stops, torn>>

-----------------------------------------------------------------------------
(* Opening a project, and the explicit migration *)

HalfBuilt == index.exists # (file # None)
Built     == index.exists /\ file # None

\* TomGateway.project, or migrate_project_document_tree, which wants a library.
Opening(call) ==
  /\ ~open /\ op = Idle
  /\ call = "migrate" => shelf.retained # {} \/ index.exists

\* What __init__ refuses before it changes anything.
Refusals(call) ==
  IF HalfBuilt THEN {"incomplete"}
  ELSE IF shelf.retained # {} /\ ~Built /\ call = "open" THEN {"required"} ELSE {}

RefuseOpening(call) ==
  /\ Opening(call)
  /\ \E result \in Refusals(call) : Answer(call, result, {})
  /\ UNCHANGED <<mode, disk, mem, open, op, stops, torn>>

BeginOpening(call) ==
  /\ Opening(call)
  /\ Refusals(call) = {}
  /\ Begin([Idle EXCEPT !.call = call, !.at = "connect", !.seen = Inventory])
  /\ UNCHANGED <<mode, disk, mem, open, stops, torn>>

\* sqlite3.connect and the tables of receipts.sqlite3.
Connect ==
  /\ op.at = "connect"
  /\ index' = [index EXCEPT !.exists = TRUE]
  /\ Go("write head")
  /\ UNCHANGED <<mode, shelf, file, mem, open, reply, stops, torn>>

\* The file is written from the durable head, or from the seed, and loaded.
WriteHead ==
  /\ op.at = "write head"
  /\ LET tree == IF index.head = None THEN <<>> ELSE index.head IN
     file' = tree /\ mem' = tree
  /\ Go(IF index.head = None THEN "seed" ELSE "validate")
  /\ UNCHANGED <<mode, shelf, index, open, reply, stops, torn>>

WriteHeadFails ==
  /\ "open" \in MayFail
  /\ op.at = "write head"
  /\ Raise("failed")

SetSeedHead ==
  /\ op.at = "seed"
  /\ index' = [index EXCEPT !.head = <<>>]
  /\ Go("validate")
  /\ UNCHANGED <<mode, shelf, file, mem, open, reply, stops, torn>>

\* Mutant: withdrawn documents are not looked at.
MissingActive == Active \ index.receipted

Missing == shelf.retained \ index.receipted

\* _backfill_document_index: the analyses of the receipts go to the library,
\* then the documents without receipts are listed.
Analysed == [shelf EXCEPT !.analysed = @ \cup index.receipted]

\* allow_document_index_migration.
MayBackfill == op.call = "migrate"

Validate ==
  /\ op.at = "validate"
  /\ shelf' = Analysed
  /\ IF Missing = {} THEN Go("store") /\ UNCHANGED <<mem, reply>>
     ELSE IF ~MayBackfill THEN Return("required") /\ mem' = None
     ELSE /\ op' = [op EXCEPT !.at = "apply", !.left = Missing, !.rows = shelf.tombed]
          /\ UNCHANGED <<mem, reply>>
  /\ UNCHANGED <<mode, index, file, open, stops, torn>>

\* migrate_project_document_tree reads the inventory again and goes on if it is
\* as it was.
SameInventory == op.seen = Inventory

CompareInventory ==
  /\ Step("migrate", "store")
  /\ SameInventory
  /\ Go("answer")
  /\ UNCHANGED <<mode, disk, mem, open, reply, stops, torn>>

\* The runtime is stored; after the comparison nothing is looked at again.
Store ==
  /\ Step("open", "store") \/ Step("migrate", "answer")
  /\ open' = TRUE
  /\ Return("ok")
  /\ UNCHANGED <<mode, disk, mem, stops, torn>>

StoreRefused ==
  /\ Step("migrate", "store")
  /\ ~SameInventory
  /\ Raise("failed")

\* The project is open: its runtime is taken as ready.
AlreadyReady ==
  /\ open /\ op = Idle
  /\ Answer("migrate", "already_ready", {})
  /\ UNCHANGED <<mode, disk, mem, open, op, stops, torn>>

-----------------------------------------------------------------------------
(* apply_document, with the analyses that follow it *)

\* The engine takes the load of one document and the receipts, the head and
\* the event are committed together.
ApplyCommits ==
  /\ op.at = "apply"
  /\ \E d \in op.left :
       /\ mem'   = Append(mem, d)
       /\ index' = [index EXCEPT !.head = Append(mem, d), !.receipted = @ \cup {d}]
       /\ op'    = [op EXCEPT !.at = "write", !.doc = d]
  /\ UNCHANGED <<mode, shelf, file, open, reply, stops, torn>>

\* What is left of a call whose document raised.
Dropped(tree) ==
  /\ Return("failed")
  /\ mem' = IF open THEN tree ELSE None
  /\ UNCHANGED <<mode, shelf, index, open, stops>>

\* Mutant: the engine keeps the load of a document that was not committed.
PriorKept(d) == Append(mem, d)

\* The engine that restore(prior) loads.
Prior(d) == mem

\* A statement raises before the commit: restore(prior), or half of it.
ApplyFails ==
  /\ "apply" \in MayFail
  /\ op.at = "apply"
  /\ \E d \in op.left :
       \/ file' = mem /\ Dropped(Prior(d)) /\ UNCHANGED torn
       \/ "restore" \in MayFail /\ UNCHANGED file /\ Dropped(Append(mem, d)) /\ torn' = TRUE

\* Mutant: the file is left as it was.
WriteTreeLater ==
  /\ op.at = "write"
  /\ Go("analyse")
  /\ UNCHANGED <<mode, disk, mem, open, reply, stops, torn>>

WriteTree ==
  /\ op.at = "write"
  /\ file' = mem
  /\ Go("analyse")
  /\ UNCHANGED <<mode, shelf, index, mem, open, reply, stops, torn>>

\* The file cannot be replaced after the commit: the same restore(prior).
WriteTreeFails ==
  /\ "write" \in MayFail
  /\ op.at = "write"
  /\ \/ file' = Front(mem) /\ Dropped(Front(mem))
     \/ "restore" \in MayFail /\ UNCHANGED file /\ Dropped(mem)
  /\ torn' = TRUE

\* What follows a document: the withdrawal of one listed as withdrawn is told
\* again, then the next one, or the end of the call.
Following(at) ==
  IF at = "analyse" /\ op.call = "migrate" /\ op.doc \in op.rows THEN "tell"
  ELSE IF op.left # {op.doc} THEN "apply"
  ELSE IF op.call = "migrate" THEN "store" ELSE "end"

Continue(at) ==
  LET next == Following(at) IN
  IF next = "end" THEN Return("ok")
  ELSE /\ op' = [op EXCEPT !.at = next,
                           !.left = IF next = "tell" THEN @ ELSE @ \ {op.doc}]
       /\ UNCHANGED reply

\* set_project_chunk_analyses in a transaction of the library.
Analyse ==
  /\ op.at = "analyse"
  /\ shelf' = [shelf EXCEPT !.analysed = @ \cup {op.doc}]
  /\ Continue("analyse")
  /\ UNCHANGED <<mode, index, file, mem, open, stops, torn>>

AnalyseFails ==
  /\ "library" \in MayFail
  /\ op.at = "analyse"
  /\ Raise("failed")

\* record_withdrawal.
Tell ==
  /\ op.at = "tell"
  /\ index' = [index EXCEPT !.told = @ \cup {op.doc}]
  /\ IF op.call = "withdraw" THEN Return("ok") ELSE Continue("tell")
  /\ UNCHANGED <<mode, shelf, file, mem, open, stops, torn>>

-----------------------------------------------------------------------------
(* Calls on an open runtime *)

Ready == open /\ op = Idle

\* The import of a text that is not retained: its first transaction.
Retain(d) == [shelf EXCEPT !.retained = @ \cup {d}]

Ingest(d) ==
  /\ Ready /\ mode = "tree"
  /\ d \notin shelf.retained
  /\ shelf' = Retain(d)
  /\ Begin([Idle EXCEPT !.call = "ingest", !.at = "apply", !.left = {d}])
  /\ UNCHANGED <<mode, index, file, mem, open, stops, torn>>

\* The import of a text that is retained, withdrawn or not.
IngestAgain(d) ==
  /\ Ready /\ mode = "tree"
  /\ d \in shelf.retained
  /\ shelf' = Analysed
  /\ Answer("ingest", IF Missing = {} THEN "ok" ELSE "required", {})
  /\ UNCHANGED <<mode, index, file, mem, open, op, stops, torn>>

Tomb(d) == [shelf EXCEPT !.tombed = @ \cup {d}]

Withdraw(d) ==
  /\ Ready /\ mode = "tree"
  /\ d \in shelf.retained
  /\ shelf' = Tomb(d)
  /\ Begin([Idle EXCEPT !.call = "withdraw", !.at = "tell", !.doc = d])
  /\ UNCHANGED <<mode, index, file, mem, open, stops, torn>>

\* preview_rank: document_chunks(active_only=True) is read, then the question is
\* embedded.
Preview ==
  /\ Ready
  /\ IF Active = {} THEN Answer("preview", "packet", {}) /\ UNCHANGED op
     ELSE Begin([Idle EXCEPT !.call = "preview", !.at = "rank", !.rows = Active])
  /\ UNCHANGED <<mode, disk, mem, open, stops, torn>>

\* Mutant: a row without a receipt is ranked as well.
RankableUnreceipted(rows) == rows \cap shelf.tombed = {}

\* structural_scores wants a receipt of every row, and _rank_document_packet
\* looks every document up again.
Rankable(rows) == rows \subseteq index.receipted /\ rows \cap shelf.tombed = {}

Rank ==
  /\ op.at = "rank"
  /\ op' = Idle
  /\ IF Rankable(op.rows) THEN Answer("preview", "packet", op.rows)
     ELSE Answer("preview", "failed", {})
  /\ UNCHANGED <<mode, disk, mem, open, stops, torn>>

-----------------------------------------------------------------------------
(* The document routes past the runtime, and a stop *)

\* RgmDocumentService.ingest: the text in one transaction of the library.  A
\* text that is retained changes nothing.
SideIngest(d) ==
  /\ mode = "rgm"
  /\ d \notin shelf.retained
  /\ shelf' = Retain(d)
  /\ UNCHANGED <<mode, index, file, mem, open, op, reply, stops, torn>>

SideWithdraw(d) ==
  /\ mode = "rgm"
  /\ d \in shelf.retained
  /\ shelf' = Tomb(d)
  /\ UNCHANGED <<mode, index, file, mem, open, op, reply, stops, torn>>

\* The process stops and is started again.
Stop ==
  /\ stops < MaxStops
  /\ stops' = stops + 1
  /\ mode' \in Modes
  /\ mem' = None /\ open' = FALSE /\ Begin(Idle)
  /\ UNCHANGED <<disk, torn>>

Next ==
  \/ \E call \in {"open", "migrate"} : RefuseOpening(call) \/ BeginOpening(call)
  \/ Connect \/ WriteHead \/ WriteHeadFails \/ SetSeedHead
  \/ Validate \/ CompareInventory \/ Store \/ StoreRefused \/ AlreadyReady
  \/ ApplyCommits \/ ApplyFails \/ WriteTree \/ WriteTreeFails
  \/ Analyse \/ AnalyseFails \/ Tell
  \/ \E d \in Docs : \/ Ingest(d) \/ IngestAgain(d) \/ Withdraw(d)
                     \/ SideIngest(d) \/ SideWithdraw(d)
  \/ Preview \/ Rank
  \/ Stop

Spec == Init /\ [][Next]_vars

-----------------------------------------------------------------------------
(* Properties *)

Trees == {None} \cup Seq(Docs)

\* Every variable has its type.
TypeOK ==
  /\ mode \in {"tree", "rgm"}
  /\ shelf \in [retained : SUBSET Docs, tombed : SUBSET Docs, analysed : SUBSET Docs]
  /\ shelf.tombed \subseteq shelf.retained
  /\ index \in [exists : BOOLEAN, head : Trees, receipted : SUBSET Docs, told : SUBSET Docs]
  /\ file \in Trees /\ mem \in Trees
  /\ open \in BOOLEAN
  /\ op.call \in Calls \cup {"none"} /\ op.doc \in Docs \cup {None}
  /\ op.left \subseteq Docs /\ op.rows \subseteq Docs
  /\ reply.call \in Calls \cup {"none"} /\ reply.result \in Results
  /\ stops \in 0..MaxStops /\ torn \in BOOLEAN

\* A receipt has its text, a withdrawal that is told was made, and an analysis
\* without a receipt was made before there was a document Tree.
LibraryLeads ==
  /\ index.receipted \subseteq shelf.retained
  /\ index.told \subseteq shelf.tombed
  /\ shelf.analysed \subseteq index.receipted \cup Legacy

\* The durable Tree is the seed with each receipted document applied once, and
\* nothing else.
TreeIsReplay ==
  IF index.head = None THEN index.receipted = {}
  ELSE ToSet(index.head) = index.receipted /\ IsInjective(index.head)

\* "Source hashes and receipts establish coverage/application"
\* (tom_assist_turn.md:725), whatever call is cut short between the library, the
\* receipts and the file; the Tree as long as tree_state.json can be replaced.
StoresAgree == LibraryLeads /\ (~torn => TreeIsReplay)

\* Between calls an open runtime ranks by the durable Tree, and its file is
\* that Tree as well.
MemoryIsTree ==
  ~torn /\ open /\ op = Idle => mem = index.head /\ file = index.head

\* "Candidate chunks must carry a Tree receipt for the active project"
\* (tom_assist_turn.md:1262), and a withdrawn text is no candidate: a packet
\* holds receipted documents that are active when it is made, and all of them
\* unless the side door added one meanwhile.
PacketsAreBacked ==
  [][(reply' # reply /\ reply'.result = "packet") =>
       /\ reply'.docs \subseteq Active' \cap index'.receipted
       /\ mode = "tree" => reply'.docs = Active']_vars

\* A migration that answers "migrated" leaves every document it found receipted
\* and analysed, whatever stopped before.  What the side door retains while it
\* runs makes it fail, up to the comparison; what comes after is not covered.
MigrationRepairs ==
  [][(reply' # reply /\ reply'.call = "migrate" /\ reply'.result = "ok") =>
       op.seen[1] \subseteq index'.receipted \cap shelf'.analysed]_vars

=============================================================================

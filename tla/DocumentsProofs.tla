--------------------------- MODULE DocumentsProofs ---------------------------
(***************************************************************************)
(* Theorems about Documents, for any documents, faults and number of stops.*)
(* The inductive invariant says what each place of a call may rely on: who *)
(* is at it (Caller), what its documents have (Pending, Migrated), and     *)
(* that the engine and its file are the durable Tree (Loaded).             *)
(***************************************************************************)
EXTENDS Documents, SequenceTheorems, TLAPS

\* The places a call can be at, and what there is to know of it there.
Places == {"idle", "connect", "write head", "seed", "validate", "store", "answer",
           "apply", "write", "analyse", "tell", "rank"}

Operation == [call : Calls \cup {"none"}, at : Places, doc : Docs \cup {None},
              left : SUBSET Docs, seen : (SUBSET Docs) \X (SUBSET Docs),
              rows : SUBSET Docs]

Replies == [call : Calls \cup {"none"}, result : Results, docs : SUBSET Docs]

Types == TypeOK /\ op \in Operation /\ reply \in Replies

\* Which call is at which place, and that a call on the runtime has one.
Caller ==
  /\ op.at = "idle" => op = Idle
  /\ op.at \in {"connect", "write head", "seed", "validate", "store"} =>
       op.call \in {"open", "migrate"} /\ op.left = {}
  /\ op.at = "answer" => op.call = "migrate" /\ op.left = {}
  /\ op.at \in {"apply", "write", "analyse"} => op.call \in {"migrate", "ingest"}
  /\ op.at = "tell" => op.call \in {"migrate", "withdraw"}
  /\ op.at = "rank" => op.call = "preview"
  /\ op.at # "idle" => (open <=> op.call \in {"ingest", "withdraw", "preview"})

\* What a call has left to apply has its text and no receipt, and the document
\* it is at has its receipt.
Pending ==
  /\ op.at = "apply" => op.left \subseteq shelf.retained \ index.receipted
  /\ op.at \in {"write", "analyse"} \/ (op.at = "tell" /\ op.call = "migrate") =>
       /\ op.doc \in op.left /\ op.doc \in index.receipted
       /\ op.left \ {op.doc} \subseteq shelf.retained \ index.receipted
  /\ op.at = "tell" => op.doc \in shelf.tombed
  /\ op.at = "rank" =>
       op.rows \subseteq shelf.retained /\ (mode = "tree" => op.rows = Active)

\* What a migration found is receipted and analysed, but for what is left of it.
Migrated ==
  op.call = "migrate" =>
    /\ op.seen[1] \subseteq shelf.retained
    /\ op.at \in {"apply", "write", "analyse", "tell"} => op.rows \subseteq shelf.tombed
    /\ op.at \in {"apply", "write", "analyse", "tell", "store", "answer"} =>
         op.seen[1] \ op.left \subseteq index.receipted \cap shelf.analysed
    /\ op.at = "tell" => op.doc \in shelf.analysed

\* The engine is there, and it is the durable Tree as its file is, unless a file
\* could not be replaced.
InUse ==
  \/ open
  \/ op.at \in {"validate", "store", "answer", "apply", "write", "analyse", "tell", "rank"}

Loaded ==
  /\ InUse => mem \in Seq(Docs)
  /\ op.at = "seed" => mem = <<>> /\ file = <<>> /\ index.head = None
  /\ op.at = "write" => mem # <<>>
  /\ InUse /\ ~torn => mem = index.head /\ (op.at # "write" => file = mem)

IInv == Types /\ Caller /\ Pending /\ Migrated /\ Loaded /\ StoresAgree

-----------------------------------------------------------------------------
(* Trees as sequences *)

LEMMA EmptyTree == <<>> \in Seq(Docs) /\ ToSet(<<>>) = {} /\ IsInjective(<<>>)
BY DEF ToSet, IsInjective

\* Applying a document that is not in a Tree adds it, once.
LEMMA Applied ==
  ASSUME NEW tree \in Seq(Docs), NEW d \in Docs
  PROVE  /\ Append(tree, d) \in Seq(Docs) /\ Append(tree, d) # <<>>
         /\ ToSet(Append(tree, d)) = ToSet(tree) \cup {d}
         /\ d \notin ToSet(tree) /\ IsInjective(tree) => IsInjective(Append(tree, d))
<1> DEFINE new == Append(tree, d)
<1>1. new \in Seq(Docs) /\ new # <<>> /\ Len(new) = Len(tree) + 1
  BY AppendProperties
<1>2. /\ DOMAIN tree = 1..Len(tree) /\ DOMAIN new = 1..(Len(tree) + 1)
      /\ Len(tree) \in Nat
  BY <1>1, LenProperties
<1>3. /\ \A i \in 1..Len(tree) : new[i] = tree[i]
      /\ new[Len(tree) + 1] = d
  BY AppendProperties
<1> HIDE DEF new
<1>4. ToSet(new) = ToSet(tree) \cup {d}
  BY <1>2, <1>3 DEF ToSet
<1>5. ASSUME d \notin ToSet(tree), IsInjective(tree) PROVE IsInjective(new)
  <2> SUFFICES ASSUME NEW i \in 1..(Len(tree) + 1), NEW j \in 1..(Len(tree) + 1),
                      new[i] = new[j]
               PROVE  i = j
    BY <1>2 DEF IsInjective
  <2>1. \A k \in 1..Len(tree) : tree[k] # d
    BY <1>2, <1>5 DEF ToSet
  <2>2. CASE i = Len(tree) + 1 \/ j = Len(tree) + 1
    BY <1>2, <1>3, <2>1, <2>2
  <2>3. CASE i \in 1..Len(tree) /\ j \in 1..Len(tree)
    BY <1>2, <1>3, <1>5, <2>3 DEF IsInjective
  <2> QED BY <1>2, <2>2, <2>3
<1> QED BY <1>1, <1>4, <1>5 DEF new

LEMMA TreesTyped == Seq(Docs) \subseteq Trees /\ None \in Trees
BY DEF Trees

LEMMA FrontTyped ==
  ASSUME NEW tree \in Seq(Docs), tree # <<>>
  PROVE  Front(tree) \in Seq(Docs)
<1>1. Len(tree) \in Nat \ {0}
  BY EmptySeq
<1>2. \A i \in 1..(Len(tree) - 1) : i \in 1..Len(tree)
  BY <1>1
<1> QED BY <1>1, <1>2, SubSeqProperties DEF Front

-----------------------------------------------------------------------------
(* Every action keeps the invariant *)

LEMMA InitIInv == Init => IInv
<1> SUFFICES ASSUME Init PROVE IInv
  OBVIOUS
<1>1. op \in Operation /\ Caller /\ Pending /\ Migrated
  BY DEF Init, Operation, Places, Calls, Idle, Caller, Pending, Migrated
<1>2. reply \in Replies
  BY DEF Init, Replies, NoReply, Calls, Results
<1>3. TypeOK
  <2>1. /\ shelf \in [retained : SUBSET Docs, tombed : SUBSET Docs, analysed : SUBSET Docs]
        /\ shelf.tombed \subseteq shelf.retained
    BY DocumentsAssumption DEF Init
  <2>2. /\ index \in [exists : BOOLEAN, head : Trees, receipted : SUBSET Docs, told : SUBSET Docs]
        /\ file \in Trees /\ mem \in Trees
    BY TreesTyped DEF Init
  <2>3. mode \in {"tree", "rgm"}
    BY DocumentsAssumption DEF Init
  <2>4. stops \in 0..MaxStops
    BY DocumentsAssumption DEF Init
  <2>5. open \in BOOLEAN /\ torn \in BOOLEAN
    BY DEF Init
  <2> QED BY <1>1, <1>2, <2>1, <2>2, <2>3, <2>4, <2>5 DEF TypeOK, Operation, Replies
<1>4. Loaded /\ StoresAgree
  BY DEF Init, Idle, Loaded, InUse, StoresAgree, LibraryLeads, TreeIsReplay
<1> QED BY <1>1, <1>2, <1>3, <1>4 DEF IInv, Types

\* A call that ends is nowhere, and has nothing left.
LEMMA Ended ==
  ASSUME op' = Idle
  PROVE  op' \in Operation /\ Caller' /\ Pending' /\ Migrated'
BY DEF Idle, Operation, Places, Calls, Caller, Pending, Migrated

LEMMA AnswerTyped ==
  ASSUME op \in Operation, NEW result \in Results, Answer(op.call, result, {})
  PROVE  reply' \in Replies
BY DEF Answer, Operation, Replies

\* Where Continue takes a call.
LEMMA Continues ==
  ASSUME NEW at \in {"analyse", "tell"}, Continue(at), op \in Operation
  PROVE  \/ /\ at = "analyse" /\ op.call = "migrate" /\ op.doc \in op.rows
            /\ op' = [op EXCEPT !.at = "tell"] /\ reply' = reply
         \/ /\ op' = [op EXCEPT !.at = "apply", !.left = op.left \ {op.doc}]
            /\ reply' = reply
         \/ /\ op.call = "migrate" /\ op.left = {op.doc}
            /\ op' = [op EXCEPT !.at = "store", !.left = {}] /\ reply' = reply
         \/ op.call # "migrate" /\ Return("ok")
<1>1. CASE Following(at) = "tell"
  <2>1. at = "analyse" /\ op.call = "migrate" /\ op.doc \in op.rows
    BY <1>1 DEF Following
  <2> QED BY <1>1, <2>1 DEF Continue, Operation
<1>2. CASE Following(at) = "apply"
  BY <1>2 DEF Continue
<1>3. CASE Following(at) = "store"
  <2>1. op.call = "migrate" /\ op.left = {op.doc}
    BY <1>3 DEF Following
  <2> QED BY <1>3, <2>1 DEF Continue
<1>4. CASE Following(at) = "end"
  BY <1>4 DEF Continue, Following
<1> QED BY <1>1, <1>2, <1>3, <1>4 DEF Following

\* What follows a document whose receipt and analyses are there.
LEMMA ContinueIInv ==
  ASSUME IInv, op.at \in {"analyse", "tell"}, op.at = "tell" => op.call = "migrate",
         Continue(op.at), UNCHANGED <<mode, file, mem, open, torn>>,
         UNCHANGED <<shelf.retained, shelf.tombed, index.receipted, index.head>>,
         shelf.analysed \cup {op.doc} \subseteq shelf'.analysed
  PROVE  op' \in Operation /\ reply' \in Replies /\ Caller' /\ Pending' /\ Migrated' /\ Loaded'
<1> USE DEF IInv
<1>0. op \in Operation /\ reply \in Replies /\ op.doc \in op.left /\ op.doc \in index.receipted
  BY DEF Types, Pending, Caller
<1>1. CASE /\ op.at = "analyse" /\ op.call = "migrate" /\ op.doc \in op.rows
           /\ op' = [op EXCEPT !.at = "tell"] /\ reply' = reply
  <2>1. op' \in Operation /\ reply' \in Replies
    BY <1>0, <1>1 DEF Operation, Places
  <2>2. Caller'
    BY <1>0, <1>1 DEF Caller, Operation
  <2>3. Pending' /\ Migrated'
    BY <1>0, <1>1 DEF Pending, Migrated, Operation
  <2>4. Loaded'
    BY <1>0, <1>1 DEF Loaded, InUse, Operation
  <2> QED BY <2>1, <2>2, <2>3, <2>4
<1>2. CASE /\ op' = [op EXCEPT !.at = "apply", !.left = op.left \ {op.doc}]
           /\ reply' = reply
  <2>1. op' \in Operation /\ reply' \in Replies
    BY <1>0, <1>2 DEF Operation, Places
  <2>2. Caller'
    BY <1>0, <1>2 DEF Caller, Operation
  <2>3. Pending'
    BY <1>0, <1>2 DEF Pending, Operation, Caller
  <2>4. Migrated'
    BY <1>0, <1>2 DEF Migrated, Operation
  <2>5. Loaded'
    BY <1>0, <1>2 DEF Loaded, InUse, Operation
  <2> QED BY <2>1, <2>2, <2>3, <2>4, <2>5
<1>3. CASE /\ op.call = "migrate" /\ op.left = {op.doc}
           /\ op' = [op EXCEPT !.at = "store", !.left = {}] /\ reply' = reply
  <2>1. op' \in Operation /\ reply' \in Replies
    BY <1>0, <1>3 DEF Operation, Places
  <2>2. Caller'
    BY <1>0, <1>3 DEF Caller, Operation
  <2>3. Pending' /\ Migrated'
    BY <1>0, <1>3 DEF Pending, Migrated, Operation
  <2>4. Loaded'
    BY <1>0, <1>3 DEF Loaded, InUse, Operation
  <2> QED BY <2>1, <2>2, <2>3, <2>4
<1>4. CASE op.call # "migrate" /\ Return("ok")
  <2>1. op' = Idle /\ reply' \in Replies
    BY <1>0, <1>4, AnswerTyped DEF Return, Results
  <2>2. Loaded'
    BY <2>1, <1>0 DEF Loaded, InUse, Idle
  <2> QED BY <2>1, <2>2, Ended
<1> QED BY <1>0, <1>1, <1>2, <1>3, <1>4, Continues

\* A call that answers and leaves the stores alone; a runtime that is not open is
\* dropped.
LEMMA ReturnedIInv ==
  ASSUME IInv, op' = Idle, reply' \in Replies, mem' \in {mem, None}, open => mem' = mem,
         op.at # "write", UNCHANGED <<mode, disk, open, stops, torn>>
  PROVE  IInv'
<1> USE DEF IInv
<1>1. op' \in Operation /\ Caller' /\ Pending' /\ Migrated'
  BY Ended
<1>2. Types'
  BY <1>1, TreesTyped DEF disk, Types, TypeOK, Operation, Replies
<1>3. Loaded'
  BY DEF disk, Loaded, InUse, Idle
<1>4. StoresAgree'
  BY DEF disk, StoresAgree, LibraryLeads, TreeIsReplay
<1> QED BY <1>1, <1>2, <1>3, <1>4

LEMMA RefuseOpeningIInv ==
  ASSUME IInv, NEW call \in {"open", "migrate"}, RefuseOpening(call)
  PROVE  IInv'
<1>1. op \in Operation /\ reply \in Replies
  BY DEF IInv, Types
<1>2. reply' \in Replies
  BY <1>1
  DEF RefuseOpening, Opening, Refusals, Answer, Idle, Replies, Operation, Calls,
      Results
<1>3. /\ op' = Idle /\ mem' \in {mem, None} /\ (open => mem' = mem)
      /\ op.at # "write" /\ UNCHANGED <<mode, disk, open, stops, torn>>
  BY DEF RefuseOpening, Opening, Refusals, Answer, Idle, disk
<1> QED BY <1>2, <1>3, ReturnedIInv

LEMMA BeginOpeningIInv ==
  ASSUME IInv, NEW call \in {"open", "migrate"}, BeginOpening(call)
  PROVE  IInv'
<1> USE DEF IInv, BeginOpening, disk, Opening, Begin, Idle, NoReply, Inventory
<1>1. Types'
  BY DEF Types, TypeOK, Operation, Places, Replies, Calls, Results
<1>2. Caller'
  BY DEF Caller
<1>3. Pending'
  BY DEF Pending
<1>4. Migrated'
  BY DEF Migrated
<1>5. Loaded'
  BY DEF Loaded, InUse
<1>6. StoresAgree'
  BY DEF StoresAgree, LibraryLeads, TreeIsReplay
<1> QED BY <1>1, <1>2, <1>3, <1>4, <1>5, <1>6

LEMMA ConnectIInv ==
  ASSUME IInv, Connect
  PROVE  IInv'
<1> USE DEF IInv, Connect, Go
<1>1. Types'
  BY DEF Types, TypeOK, Operation, Places, Replies, Calls, Results
<1>2. Caller'
  BY DEF Caller, Types, Operation
<1>3. Pending'
  BY DEF Pending, Active, Types, Operation
<1>4. Migrated'
  BY DEF Migrated, Types, Operation
<1>5. Loaded'
  BY DEF Loaded, InUse, Caller, Types, Operation
<1>6. StoresAgree'
  BY DEF StoresAgree, LibraryLeads, TreeIsReplay, Types, TypeOK
<1> QED BY <1>1, <1>2, <1>3, <1>4, <1>5, <1>6

LEMMA WriteHeadIInv ==
  ASSUME IInv, WriteHead
  PROVE  IInv'
<1> USE DEF IInv, WriteHead, Go
<1>1. Types'
  <2>1. op' \in Operation
    BY DEF Types, Operation, Places, Calls, Caller
  <2>2. reply' \in Replies
    BY DEF Types, Operation, Replies, Calls, Results
  <2>3. TypeOK'
    BY <2>1, <2>2, TreesTyped, EmptyTree, DocumentsAssumption
    DEF Types, TypeOK, Operation, Replies, Loaded, InUse
  <2> QED BY <2>1, <2>2, <2>3 DEF Types
<1>2. Caller'
  BY DEF Caller, Types, Operation
<1>3. Pending'
  BY DEF Pending, Active, Types, Operation
<1>4. Migrated'
  BY DEF Migrated, Types, Operation
<1>5. Loaded'
  <2>1. index.head # None => index.head \in Seq(Docs)
    BY DEF Types, TypeOK, Trees
  <2>2. op' = [op EXCEPT !.at = IF index.head = None THEN "seed" ELSE "validate"]
    OBVIOUS
  <2>3. ~open /\ op \in Operation
    BY DEF Caller, Types
  <2> QED BY <2>1, <2>2, <2>3 DEF Loaded, InUse, Operation
<1>6. StoresAgree'
  BY DEF StoresAgree, LibraryLeads, TreeIsReplay
<1> QED BY <1>1, <1>2, <1>3, <1>4, <1>5, <1>6

LEMMA WriteHeadFailsIInv ==
  ASSUME IInv, WriteHeadFails
  PROVE  IInv'
<1>1. op \in Operation /\ reply \in Replies
  BY DEF IInv, Types
<1>2. reply' \in Replies
  BY <1>1
  DEF WriteHeadFails, disk, Raise, Return, Answer, Idle, Replies, Operation, Calls,
      Results
<1>3. /\ op' = Idle /\ mem' \in {mem, None} /\ (open => mem' = mem)
      /\ op.at # "write" /\ UNCHANGED <<mode, disk, open, stops, torn>>
  BY DEF WriteHeadFails, disk, Raise, Return, Answer, Idle, disk
<1> QED BY <1>2, <1>3, ReturnedIInv

LEMMA SetSeedHeadIInv ==
  ASSUME IInv, SetSeedHead
  PROVE  IInv'
<1> USE DEF IInv, SetSeedHead, Go
<1>1. Types'
  <2>1. op' \in Operation
    BY DEF Types, Operation, Places, Calls, Caller
  <2>2. reply' \in Replies
    BY DEF Types, Operation, Replies, Calls, Results
  <2>3. TypeOK'
    BY <2>1, <2>2, TreesTyped, EmptyTree, DocumentsAssumption
    DEF Types, TypeOK, Operation, Replies, Loaded, InUse
  <2> QED BY <2>1, <2>2, <2>3 DEF Types
<1>2. Caller'
  BY DEF Caller
<1>3. Pending'
  BY DEF Pending
<1>4. Migrated'
  BY DEF Migrated
<1>5. Loaded'
  BY EmptyTree DEF Loaded, InUse
<1>6. StoresAgree'
  BY EmptyTree
  DEF StoresAgree, LibraryLeads, TreeIsReplay, Types, TypeOK, Operation, Pending,
      Loaded, InUse
<1> QED BY <1>1, <1>2, <1>3, <1>4, <1>5, <1>6

LEMMA ValidateIInv ==
  ASSUME IInv, Validate
  PROVE  IInv'
<1> USE DEF IInv
<1>1. /\ op.at = "validate" /\ shelf' = Analysed
      /\ UNCHANGED <<mode, index, file, open, stops, torn>>
  BY DEF Validate
<1>2. op \in Operation /\ reply \in Replies /\ TypeOK /\ ~open
      /\ op.call \in {"open", "migrate"} /\ op.left = {}
  BY <1>1 DEF Types, Caller
<1>3. /\ shelf'.retained = shelf.retained /\ shelf'.tombed = shelf.tombed
      /\ shelf'.analysed = shelf.analysed \cup index.receipted
      /\ shelf' \in [retained : SUBSET Docs, tombed : SUBSET Docs, analysed : SUBSET Docs]
  BY <1>1, <1>2 DEF Analysed, TypeOK
<1>4. StoresAgree'
  BY <1>1, <1>3 DEF StoresAgree, LibraryLeads, TreeIsReplay
<1>5. CASE Missing = {} /\ Go("store") /\ UNCHANGED <<mem, reply>>
  <2>1. op' = [op EXCEPT !.at = "store"]
    BY <1>5 DEF Go
  <2>2. Types'
    BY <1>1, <1>2, <1>3, <1>5, <2>1 DEF Types, TypeOK, Operation, Places
  <2>3. Caller'
    BY <1>1, <1>2, <2>1 DEF Caller, Operation
  <2>4. Pending'
    BY <1>2, <2>1 DEF Pending, Operation
  <2>5. Migrated'
    BY <1>1, <1>2, <1>3, <1>5, <2>1 DEF Migrated, Operation, Missing
  <2>6. Loaded'
    BY <1>1, <1>2, <1>5, <2>1 DEF Loaded, InUse, Operation
  <2> QED BY <1>4, <2>2, <2>3, <2>4, <2>5, <2>6
<1>6. CASE Return("required") /\ mem' = None
  <2>1. op' = Idle /\ reply' \in Replies
    BY <1>2, <1>6, AnswerTyped DEF Return, Results
  <2>2. op' \in Operation /\ Caller' /\ Pending' /\ Migrated'
    BY <2>1, Ended
  <2>3. Types'
    BY <1>1, <1>2, <1>3, <1>6, <2>1, <2>2, TreesTyped
    DEF Types, TypeOK, Operation, Replies
  <2>4. Loaded'
    BY <1>1, <1>2, <2>1 DEF Loaded, InUse, Idle
  <2> QED BY <1>4, <2>2, <2>3, <2>4
<1>7. CASE /\ op' = [op EXCEPT !.at = "apply", !.left = Missing, !.rows = shelf.tombed]
           /\ UNCHANGED <<mem, reply>> /\ op.call = "migrate"
  <2>1. Missing \subseteq Docs /\ shelf.tombed \subseteq Docs
    BY <1>2 DEF Missing, TypeOK
  <2>2. op' \in Operation
    BY <1>2, <1>7, <2>1 DEF Operation, Places
  <2>3. Types'
    BY <1>1, <1>2, <1>3, <1>7, <2>2 DEF Types, TypeOK, Operation
  <2>4. Caller'
    BY <1>1, <1>2, <1>7 DEF Caller, Operation
  <2>5. Pending'
    BY <1>1, <1>2, <1>3, <1>7 DEF Pending, Operation, Missing
  <2>6. Migrated'
    BY <1>1, <1>2, <1>3, <1>7 DEF Migrated, Operation, Missing
  <2>7. Loaded'
    BY <1>1, <1>2, <1>7 DEF Loaded, InUse, Operation
  <2> QED BY <1>4, <2>3, <2>4, <2>5, <2>6, <2>7
<1> QED BY <1>5, <1>6, <1>7 DEF Validate, MayBackfill

LEMMA CompareInventoryIInv ==
  ASSUME IInv, CompareInventory
  PROVE  IInv'
<1> USE DEF IInv, CompareInventory, Step, Go, disk
<1>1. Types'
  BY DEF Types, TypeOK, Operation, Places, Replies
<1>2. Caller'
  BY DEF Caller, Types, Operation
<1>3. Pending'
  BY DEF Pending, Active, Types, Operation
<1>4. Migrated'
  BY DEF Migrated, Types, Operation
<1>5. Loaded'
  BY DEF Loaded, InUse, Types, Operation
<1>6. StoresAgree'
  BY DEF StoresAgree, LibraryLeads, TreeIsReplay
<1> QED BY <1>1, <1>2, <1>3, <1>4, <1>5, <1>6

LEMMA StoreIInv ==
  ASSUME IInv, Store
  PROVE  IInv'
<1> USE DEF IInv, Store, Step, disk, Return, Answer, Idle
<1>1. Types'
  BY DEF Types, TypeOK, Operation, Places, Replies, Calls, Results
<1>2. Caller'
  BY DEF Caller
<1>3. Pending'
  BY DEF Pending
<1>4. Migrated'
  BY DEF Migrated
<1>5. Loaded'
  BY DEF Loaded, InUse
<1>6. StoresAgree'
  BY DEF StoresAgree, LibraryLeads, TreeIsReplay
<1> QED BY <1>1, <1>2, <1>3, <1>4, <1>5, <1>6

LEMMA StoreRefusedIInv ==
  ASSUME IInv, StoreRefused
  PROVE  IInv'
<1>1. op \in Operation /\ reply \in Replies
  BY DEF IInv, Types
<1>2. reply' \in Replies
  BY <1>1
  DEF StoreRefused, Step, SameInventory, Raise, Return, Answer, Idle, Replies,
      Operation, Calls, Results
<1>3. /\ op' = Idle /\ mem' \in {mem, None} /\ (open => mem' = mem)
      /\ op.at # "write" /\ UNCHANGED <<mode, disk, open, stops, torn>>
  BY DEF StoreRefused, Step, SameInventory, Raise, Return, Answer, Idle, disk
<1> QED BY <1>2, <1>3, ReturnedIInv

LEMMA AlreadyReadyIInv ==
  ASSUME IInv, AlreadyReady
  PROVE  IInv'
<1>1. op \in Operation /\ reply \in Replies
  BY DEF IInv, Types
<1>2. reply' \in Replies
  BY <1>1 DEF AlreadyReady, Answer, Idle, Replies, Operation, Calls, Results
<1>3. /\ op' = Idle /\ mem' \in {mem, None} /\ (open => mem' = mem)
      /\ op.at # "write" /\ UNCHANGED <<mode, disk, open, stops, torn>>
  BY DEF AlreadyReady, Answer, Idle, disk
<1> QED BY <1>2, <1>3, ReturnedIInv

LEMMA ApplyCommitsIInv ==
  ASSUME IInv, ApplyCommits
  PROVE  IInv'
<1> USE DEF IInv
<1>1. PICK d \in op.left :
        /\ mem' = Append(mem, d)
        /\ index' = [index EXCEPT !.head = Append(mem, d), !.receipted = @ \cup {d}]
        /\ op' = [op EXCEPT !.at = "write", !.doc = d]
  BY DEF ApplyCommits
<1>2. op.at = "apply" /\ UNCHANGED <<mode, shelf, file, open, reply, stops, torn>>
  BY DEF ApplyCommits
<1>3. /\ op \in Operation /\ reply \in Replies /\ TypeOK /\ d \in Docs
      /\ mem \in Seq(Docs) /\ d \in shelf.retained /\ d \notin index.receipted
  BY <1>2 DEF Types, Operation, Loaded, InUse, Pending
<1> DEFINE new == Append(mem, d)
<1>4. /\ new \in Seq(Docs) /\ new # <<>> /\ ToSet(new) = ToSet(mem) \cup {d}
      /\ d \notin ToSet(mem) /\ IsInjective(mem) => IsInjective(new)
  BY <1>3, Applied
<1>5. /\ index'.exists = index.exists /\ index'.head = new /\ index'.told = index.told
      /\ index'.receipted = index.receipted \cup {d}
      /\ mem' = new
  BY <1>1, <1>3 DEF TypeOK
<1> HIDE DEF new
<1>6. op' \in Operation
  BY <1>1, <1>3 DEF Operation, Places
<1>7. index' \in [exists : BOOLEAN, head : Trees, receipted : SUBSET Docs, told : SUBSET Docs]
  <2>1. new \in Trees
    BY <1>4, TreesTyped
  <2> QED BY <1>1, <1>3, <2>1 DEF TypeOK, new
<1>8. Types'
  BY <1>2, <1>3, <1>4, <1>5, <1>6, <1>7, TreesTyped DEF Types, TypeOK, Operation
<1>9. Caller'
  BY <1>1, <1>2, <1>3 DEF Caller, Operation
<1>10. Pending'
  BY <1>1, <1>2, <1>3, <1>5 DEF Pending, Operation
<1>11. Migrated'
  BY <1>1, <1>2, <1>3, <1>5 DEF Migrated, Operation
<1>12. Loaded'
  BY <1>1, <1>2, <1>3, <1>4, <1>5 DEF Loaded, InUse, Operation
<1>13. LibraryLeads'
  BY <1>2, <1>3, <1>5 DEF StoresAgree, LibraryLeads
<1>14. ASSUME ~torn PROVE TreeIsReplay'
  <2>1. index.head = mem /\ mem # None /\ new # None
    BY <1>2, <1>3, <1>4, <1>14, DocumentsAssumption DEF Loaded, InUse
  <2>2. ToSet(mem) = index.receipted /\ IsInjective(mem)
    BY <1>14, <2>1 DEF StoresAgree, TreeIsReplay
  <2> QED BY <1>3, <1>4, <1>5, <2>1, <2>2 DEF TreeIsReplay
<1> QED BY <1>2, <1>8, <1>9, <1>10, <1>11, <1>12, <1>13, <1>14 DEF StoresAgree

\* The restore of the prior engine, or a file that is not replaced: the call is
\* over and the stores are as they were.
LEMMA DroppedIInv ==
  ASSUME IInv, op.at \in {"apply", "write"}, NEW tree \in Seq(Docs), Dropped(tree),
         file' \in {file, mem, tree}, torn' \in BOOLEAN, torn => torn',
         ~torn' => tree = mem /\ file' = mem /\ op.at = "apply", UNCHANGED mode
  PROVE  IInv'
<1> USE DEF IInv
<1>1. /\ op' = Idle /\ reply' \in Replies
      /\ mem' = IF open THEN tree ELSE None
      /\ UNCHANGED <<shelf, index, open, stops>>
  BY AnswerTyped DEF Dropped, Return, Results, Types
<1>2. op' \in Operation /\ Caller' /\ Pending' /\ Migrated'
  BY <1>1, Ended
<1>3. mem \in Seq(Docs)
  BY DEF Loaded, InUse
<1>4. Types'
  BY <1>1, <1>2, <1>3, TreesTyped DEF Types, TypeOK, Operation, Replies
<1>5. Loaded'
  BY <1>1 DEF Loaded, InUse, Idle
<1>6. StoresAgree'
  BY <1>1 DEF StoresAgree, LibraryLeads, TreeIsReplay, Types, TypeOK
<1> QED BY <1>2, <1>4, <1>5, <1>6

LEMMA ApplyFailsIInv ==
  ASSUME IInv, ApplyFails
  PROVE  IInv'
<1>1. op.at = "apply" /\ mem \in Seq(Docs) /\ torn \in BOOLEAN /\ op.left \subseteq Docs
  BY DEF IInv, Loaded, InUse, ApplyFails, Types, TypeOK
<1>2. UNCHANGED mode
  BY DEF ApplyFails, Dropped
<1>3. PICK d \in op.left :
        \/ file' = mem /\ Dropped(Prior(d)) /\ UNCHANGED torn
        \/ "restore" \in MayFail /\ UNCHANGED file /\ Dropped(Append(mem, d)) /\ torn' = TRUE
  BY DEF ApplyFails
<1>4. CASE file' = mem /\ Dropped(Prior(d)) /\ UNCHANGED torn
  BY <1>1, <1>2, <1>4, DroppedIInv DEF Prior
<1>5. CASE UNCHANGED file /\ Dropped(Append(mem, d)) /\ torn' = TRUE
  BY <1>1, <1>2, <1>5, Applied, DroppedIInv
<1> QED BY <1>3, <1>4, <1>5

LEMMA WriteTreeIInv ==
  ASSUME IInv, WriteTree
  PROVE  IInv'
<1> USE DEF IInv, WriteTree, disk, Go
<1>1. Types'
  BY DEF Types, TypeOK, Operation, Places, Replies, Calls, Results
<1>2. Caller'
  BY DEF Caller
<1>3. Pending'
  BY DEF Pending
<1>4. Migrated'
  BY DEF Migrated
<1>5. Loaded'
  BY DEF Loaded, InUse
<1>6. StoresAgree'
  BY DEF StoresAgree, LibraryLeads, TreeIsReplay
<1> QED BY <1>1, <1>2, <1>3, <1>4, <1>5, <1>6

LEMMA WriteTreeFailsIInv ==
  ASSUME IInv, WriteTreeFails
  PROVE  IInv'
<1>1. op.at = "write" /\ mem \in Seq(Docs) /\ mem # <<>> /\ torn' = TRUE
  BY DEF IInv, Loaded, InUse, WriteTreeFails
<1>2. Front(mem) \in Seq(Docs)
  BY <1>1, FrontTyped
<1>3. UNCHANGED mode
  BY DEF WriteTreeFails, Dropped
<1>4. CASE file' = Front(mem) /\ Dropped(Front(mem))
  BY <1>1, <1>2, <1>3, <1>4, DroppedIInv
<1>5. CASE UNCHANGED file /\ Dropped(mem)
  BY <1>1, <1>3, <1>5, DroppedIInv
<1> QED BY <1>4, <1>5 DEF WriteTreeFails

LEMMA AnalyseIInv ==
  ASSUME IInv, Analyse
  PROVE  IInv'
<1> USE DEF IInv
<1>1. /\ op.at = "analyse" /\ Continue(op.at)
      /\ shelf' = [shelf EXCEPT !.analysed = @ \cup {op.doc}]
      /\ UNCHANGED <<mode, index, file, mem, open, stops, torn>>
  BY DEF Analyse
<1>2. /\ TypeOK /\ op \in Operation /\ op.left \subseteq Docs
      /\ op.doc \in op.left /\ op.doc \in index.receipted
  BY <1>1 DEF Types, TypeOK, Pending
<1>3. /\ shelf'.retained = shelf.retained /\ shelf'.tombed = shelf.tombed
      /\ shelf'.analysed = shelf.analysed \cup {op.doc}
      /\ shelf' \in [retained : SUBSET Docs, tombed : SUBSET Docs, analysed : SUBSET Docs]
  BY <1>1, <1>2 DEF TypeOK
<1>4. op' \in Operation /\ reply' \in Replies /\ Caller' /\ Pending' /\ Migrated' /\ Loaded'
  BY <1>1, <1>3, ContinueIInv
<1>5. Types'
  BY <1>1, <1>2, <1>3, <1>4 DEF Types, TypeOK, Operation, Replies
<1>6. StoresAgree'
  BY <1>1, <1>2, <1>3 DEF StoresAgree, LibraryLeads, TreeIsReplay
<1> QED BY <1>4, <1>5, <1>6

LEMMA AnalyseFailsIInv ==
  ASSUME IInv, AnalyseFails
  PROVE  IInv'
<1>1. op \in Operation /\ reply \in Replies
  BY DEF IInv, Types
<1>2. reply' \in Replies
  BY <1>1
  DEF AnalyseFails, Raise, Return, Answer, Idle, Replies, Operation, Calls, Results
<1>3. /\ op' = Idle /\ mem' \in {mem, None} /\ (open => mem' = mem)
      /\ op.at # "write" /\ UNCHANGED <<mode, disk, open, stops, torn>>
  BY DEF AnalyseFails, Raise, Return, Answer, Idle, disk
<1> QED BY <1>2, <1>3, ReturnedIInv

LEMMA TellIInv ==
  ASSUME IInv, Tell
  PROVE  IInv'
<1> USE DEF IInv
<1>1. /\ op.at = "tell" /\ op.call \in {"migrate", "withdraw"}
      /\ index' = [index EXCEPT !.told = @ \cup {op.doc}]
      /\ UNCHANGED <<mode, shelf, file, mem, open, stops, torn>>
  BY DEF Tell, Caller
<1>2. TypeOK /\ op \in Operation /\ op.doc \in shelf.tombed
  BY <1>1 DEF Types, Pending
<1>3. /\ index'.exists = index.exists /\ index'.head = index.head
      /\ index'.receipted = index.receipted /\ index'.told = index.told \cup {op.doc}
      /\ index' \in [exists : BOOLEAN, head : Trees, receipted : SUBSET Docs, told : SUBSET Docs]
  BY <1>1, <1>2 DEF TypeOK
<1>4. op' \in Operation /\ reply' \in Replies /\ Caller' /\ Pending' /\ Migrated' /\ Loaded'
  <2>1. CASE op.call = "migrate"
    <3>1. Continue(op.at) /\ op.doc \in shelf.analysed
      BY <1>1, <2>1 DEF Tell, Migrated
    <3> QED BY <1>1, <1>3, <2>1, <3>1, ContinueIInv
  <2>2. CASE op.call = "withdraw"
    <3>1. op' = Idle /\ reply' \in Replies
      BY <1>2, <2>2, AnswerTyped DEF Tell, Return, Results
    <3>2. Loaded'
      BY <1>1, <1>3, <3>1 DEF Loaded, InUse, Idle
    <3> QED BY <3>1, <3>2, Ended
  <2> QED BY <1>1, <2>1, <2>2
<1>5. Types'
  BY <1>1, <1>2, <1>3, <1>4 DEF Types, TypeOK, Operation, Replies
<1>6. StoresAgree'
  BY <1>1, <1>2, <1>3 DEF StoresAgree, LibraryLeads, TreeIsReplay
<1> QED BY <1>4, <1>5, <1>6

LEMMA IngestIInv ==
  ASSUME IInv, NEW d \in Docs, Ingest(d)
  PROVE  IInv'
<1> USE DEF IInv, Ingest, Ready, Retain, Begin, Idle, NoReply
<1>1. Types'
  BY DEF Types, TypeOK, Operation, Places, Replies, Calls, Results
<1>2. Caller'
  BY DEF Caller
<1>3. Pending'
  <2>1. op'.at = "apply" /\ op'.left = {d} /\ d \in shelf'.retained /\ index' = index
    BY DEF Types, TypeOK
  <2>2. d \notin index.receipted
    BY DEF StoresAgree, LibraryLeads
  <2> QED BY <2>1, <2>2 DEF Pending
<1>4. Migrated'
  BY DEF Migrated
<1>5. Loaded'
  BY DEF Loaded, InUse
<1>6. StoresAgree'
  BY DEF StoresAgree, LibraryLeads, TreeIsReplay
<1> QED BY <1>1, <1>2, <1>3, <1>4, <1>5, <1>6

LEMMA IngestAgainIInv ==
  ASSUME IInv, NEW d \in Docs, IngestAgain(d)
  PROVE  IInv'
<1> USE DEF IInv, IngestAgain, Ready, Analysed, Missing, Answer
<1>1. Types'
  BY DEF Types, TypeOK, Operation, Places, Replies, Calls, Results
<1>2. Caller'
  BY DEF Caller
<1>3. Pending'
  BY DEF Pending, Active, Types, Operation
<1>4. Migrated'
  BY DEF Migrated
<1>5. Loaded'
  BY DEF Loaded, InUse
<1>6. StoresAgree'
  BY DEF StoresAgree, LibraryLeads, TreeIsReplay
<1> QED BY <1>1, <1>2, <1>3, <1>4, <1>5, <1>6

LEMMA WithdrawIInv ==
  ASSUME IInv, NEW d \in Docs, Withdraw(d)
  PROVE  IInv'
<1> USE DEF IInv, Withdraw, Ready, Tomb, Begin, Idle, NoReply
<1>1. Types'
  BY DEF Types, TypeOK, Operation, Places, Replies, Calls, Results
<1>2. Caller'
  BY DEF Caller
<1>3. Pending'
  BY DEF Pending
<1>4. Migrated'
  BY DEF Migrated
<1>5. Loaded'
  BY DEF Loaded, InUse
<1>6. StoresAgree'
  BY DEF StoresAgree, LibraryLeads, TreeIsReplay
<1> QED BY <1>1, <1>2, <1>3, <1>4, <1>5, <1>6

LEMMA PreviewIInv ==
  ASSUME IInv, Preview
  PROVE  IInv'
<1> USE DEF IInv
<1>1. open /\ op = Idle /\ UNCHANGED <<mode, shelf, index, file, mem, open, stops, torn>>
  BY DEF Preview, Ready, disk
<1>2. TypeOK /\ op \in Operation /\ reply \in Replies
  BY DEF Types
<1>3. StoresAgree'
  BY <1>1 DEF StoresAgree, LibraryLeads, TreeIsReplay
<1>4. CASE Answer("preview", "packet", {}) /\ UNCHANGED op
  <2>1. op' \in Operation /\ Caller' /\ Pending' /\ Migrated'
    BY <1>1, <1>4, Ended
  <2>2. reply' \in Replies
    BY <1>4 DEF Answer, Replies, Calls, Results
  <2>3. Types'
    BY <1>1, <1>2, <2>1, <2>2 DEF Types, TypeOK, Operation, Replies
  <2>4. Loaded'
    BY <1>1, <1>4 DEF Loaded, InUse
  <2> QED BY <1>3, <2>1, <2>3, <2>4
<1>5. CASE Begin([Idle EXCEPT !.call = "preview", !.at = "rank", !.rows = Active])
  <2>1. op' = [call |-> "preview", at |-> "rank", doc |-> None, left |-> {},
               seen |-> <<{}, {}>>, rows |-> Active]
    BY <1>5 DEF Begin, Idle
  <2>2. Active \subseteq shelf.retained /\ Active \subseteq Docs /\ Active' = Active
    BY <1>1, <1>2 DEF Active, TypeOK
  <2>3. op' \in Operation
    BY <2>1, <2>2 DEF Operation, Places, Calls
  <2>4. reply' \in Replies
    BY <1>5 DEF Begin, NoReply, Replies, Calls, Results
  <2>5. Types'
    BY <1>1, <1>2, <2>3, <2>4 DEF Types, TypeOK, Operation, Replies
  <2>6. Caller' /\ Migrated'
    BY <1>1, <2>1 DEF Caller, Migrated
  <2>7. Pending'
    BY <1>1, <2>1, <2>2 DEF Pending
  <2>8. Loaded'
    BY <1>1, <2>1 DEF Loaded, InUse, Idle
  <2> QED BY <1>3, <2>5, <2>6, <2>7, <2>8
<1> QED BY <1>4, <1>5 DEF Preview

LEMMA RankIInv ==
  ASSUME IInv, Rank
  PROVE  IInv'
<1>1. op \in Operation /\ reply \in Replies
  BY DEF IInv, Types
<1>2. reply' \in Replies
  BY <1>1 DEF Rank, Rankable, Answer, Idle, Replies, Operation, Calls, Results
<1>3. /\ op' = Idle /\ mem' \in {mem, None} /\ (open => mem' = mem)
      /\ op.at # "write" /\ UNCHANGED <<mode, disk, open, stops, torn>>
  BY DEF Rank, Rankable, Answer, Idle, disk
<1> QED BY <1>2, <1>3, ReturnedIInv

LEMMA SideIngestIInv ==
  ASSUME IInv, NEW d \in Docs, SideIngest(d)
  PROVE  IInv'
<1> USE DEF IInv, SideIngest, Retain
<1>1. Types'
  <2>1. op' \in Operation
    BY DEF Types, Operation, Places, Calls, Caller
  <2>2. reply' \in Replies
    BY DEF Types, Operation, Replies, Calls, Results
  <2>3. TypeOK'
    BY <2>1, <2>2, TreesTyped, EmptyTree, DocumentsAssumption
    DEF Types, TypeOK, Operation, Replies, Loaded, InUse
  <2> QED BY <2>1, <2>2, <2>3 DEF Types
<1>2. Caller'
  BY DEF Caller
<1>3. Pending'
  BY DEF Pending
<1>4. Migrated'
  BY DEF Migrated
<1>5. Loaded'
  BY DEF Loaded, InUse
<1>6. StoresAgree'
  BY DEF StoresAgree, LibraryLeads, TreeIsReplay
<1> QED BY <1>1, <1>2, <1>3, <1>4, <1>5, <1>6

LEMMA SideWithdrawIInv ==
  ASSUME IInv, NEW d \in Docs, SideWithdraw(d)
  PROVE  IInv'
<1> USE DEF IInv, SideWithdraw, Tomb
<1>1. Types'
  <2>1. op' \in Operation
    BY DEF Types, Operation, Places, Calls, Caller
  <2>2. reply' \in Replies
    BY DEF Types, Operation, Replies, Calls, Results
  <2>3. TypeOK'
    BY <2>1, <2>2, TreesTyped, EmptyTree, DocumentsAssumption
    DEF Types, TypeOK, Operation, Replies, Loaded, InUse
  <2> QED BY <2>1, <2>2, <2>3 DEF Types
<1>2. Caller'
  BY DEF Caller
<1>3. Pending'
  BY DEF Pending
<1>4. Migrated'
  BY DEF Migrated
<1>5. Loaded'
  BY DEF Loaded, InUse
<1>6. StoresAgree'
  BY DEF StoresAgree, LibraryLeads, TreeIsReplay
<1> QED BY <1>1, <1>2, <1>3, <1>4, <1>5, <1>6

LEMMA StopIInv ==
  ASSUME IInv, Stop
  PROVE  IInv'
<1> USE DEF IInv, Stop, disk, Begin, Idle, NoReply
<1>1. Types'
  <2>1. op' \in Operation
    BY DEF Operation, Places, Calls
  <2>2. reply' \in Replies
    BY DEF Replies, Calls, Results
  <2>3. mode' \in {"tree", "rgm"} /\ stops' \in 0..MaxStops /\ mem' \in Trees
    BY DocumentsAssumption, TreesTyped DEF Types, TypeOK
  <2> QED BY <2>1, <2>2, <2>3 DEF Types, TypeOK, Operation, Replies
<1>2. Caller'
  BY DEF Caller
<1>3. Pending'
  BY DEF Pending
<1>4. Migrated'
  BY DEF Migrated
<1>5. Loaded'
  BY DEF Loaded, InUse
<1>6. StoresAgree'
  BY DEF StoresAgree, LibraryLeads, TreeIsReplay
<1> QED BY <1>1, <1>2, <1>3, <1>4, <1>5, <1>6

LEMMA NextIInv == IInv /\ [Next]_vars => IInv'
<1> SUFFICES ASSUME IInv, [Next]_vars PROVE IInv'
  OBVIOUS
<1>1. ASSUME NEW call \in {"open", "migrate"}, RefuseOpening(call) \/ BeginOpening(call)
      PROVE  IInv'
  BY <1>1, RefuseOpeningIInv, BeginOpeningIInv
<1>2. CASE Connect \/ WriteHead \/ WriteHeadFails \/ SetSeedHead
  BY <1>2, ConnectIInv, WriteHeadIInv, WriteHeadFailsIInv, SetSeedHeadIInv
<1>3. CASE Validate \/ CompareInventory \/ Store \/ StoreRefused \/ AlreadyReady
  BY <1>3, ValidateIInv, CompareInventoryIInv, StoreIInv, StoreRefusedIInv,
     AlreadyReadyIInv
<1>4. CASE ApplyCommits \/ ApplyFails \/ WriteTree \/ WriteTreeFails
  BY <1>4, ApplyCommitsIInv, ApplyFailsIInv, WriteTreeIInv, WriteTreeFailsIInv
<1>5. CASE Analyse \/ AnalyseFails \/ Tell
  BY <1>5, AnalyseIInv, AnalyseFailsIInv, TellIInv
<1>6. ASSUME NEW d \in Docs,
             \/ Ingest(d) \/ IngestAgain(d) \/ Withdraw(d)
             \/ SideIngest(d) \/ SideWithdraw(d)
      PROVE  IInv'
  BY <1>6, IngestIInv, IngestAgainIInv, WithdrawIInv, SideIngestIInv, SideWithdrawIInv
<1>7. CASE Preview \/ Rank \/ Stop
  BY <1>7, PreviewIInv, RankIInv, StopIInv
<1>8. CASE UNCHANGED vars
  <2>1. Types'
    BY <1>8 DEF vars, disk, IInv, Types, TypeOK
  <2>2. Caller' /\ Pending' /\ Migrated'
    BY <1>8 DEF vars, disk, IInv, Caller, Pending, Migrated, Active
  <2>3. Loaded' /\ StoresAgree'
    BY <1>8
    DEF vars, disk, IInv, Loaded, InUse, StoresAgree, LibraryLeads, TreeIsReplay
  <2> QED BY <2>1, <2>2, <2>3 DEF IInv
<1> QED BY <1>1, <1>2, <1>3, <1>4, <1>5, <1>6, <1>7, <1>8 DEF Next

LEMMA Invariance == Spec => []IInv
BY InitIInv, NextIInv, PTL DEF Spec

\* Every reachable state is well typed, whichever statement fails and wherever
\* the process stops (TomGateway, ProjectRuntime and ProjectDocumentTreeIndex).
THEOREM TypeCorrect == Spec => []TypeOK
<1>1. IInv => TypeOK
  BY DEF IInv, Types
<1> QED BY <1>1, Invariance, PTL

\* The library and the receipts agree at every point of a call, and the durable
\* Tree is each receipted document applied once (apply_document).
THEOREM StoresAlwaysAgree == Spec => []StoresAgree
<1>1. IInv => StoresAgree
  BY DEF IInv
<1> QED BY <1>1, Invariance, PTL

\* An open runtime ranks by the durable Tree (ProjectDocumentTreeIndex.__init__,
\* apply_document and what they restore).
THEOREM RanksByDurableTree == Spec => []MemoryIsTree
<1>1. IInv => MemoryIsTree
  BY DEF IInv, MemoryIsTree, Loaded, InUse, Idle
<1> QED BY <1>1, Invariance, PTL

-----------------------------------------------------------------------------
(* What a call answers *)

\* Only a preview answers with a packet.
LEMMA OtherReplies ==
  ASSUME IInv, [Next]_vars, reply' # reply, reply'.result = "packet"
  PROVE  Preview \/ Rank
<1>1. ASSUME NEW result, Answer(op.call, result, {}), result # "packet"
      PROVE  FALSE
  BY <1>1 DEF Answer
<1>2. ASSUME NEW result, Return(result), result # "packet"
      PROVE  FALSE
  BY <1>1, <1>2 DEF Return
<1>3. NoReply.result # "packet"
  BY DEF NoReply
<1>4. ASSUME NEW call \in {"open", "migrate"}, RefuseOpening(call) \/ BeginOpening(call)
      PROVE  FALSE
  BY <1>3, <1>4 DEF RefuseOpening, BeginOpening, Begin, Answer, Refusals
<1>5. CASE Connect \/ WriteHead \/ WriteHeadFails \/ SetSeedHead
  BY <1>2, <1>5 DEF Connect, WriteHead, WriteHeadFails, SetSeedHead, Raise
<1>6. CASE Validate \/ CompareInventory \/ Store \/ StoreRefused \/ AlreadyReady
  BY <1>2, <1>6
  DEF Validate, CompareInventory, Store, StoreRefused, AlreadyReady, Raise, Answer
<1>7. CASE ApplyCommits \/ ApplyFails \/ WriteTree \/ WriteTreeFails
  BY <1>2, <1>7 DEF ApplyCommits, ApplyFails, WriteTree, WriteTreeFails, Dropped
<1>8. CASE Analyse \/ AnalyseFails \/ Tell
  BY <1>2, <1>8 DEF Analyse, AnalyseFails, Tell, Continue, Raise
<1>9. ASSUME NEW d \in Docs,
             \/ Ingest(d) \/ IngestAgain(d) \/ Withdraw(d)
             \/ SideIngest(d) \/ SideWithdraw(d)
      PROVE  FALSE
  BY <1>3, <1>9
  DEF Ingest, IngestAgain, Withdraw, SideIngest, SideWithdraw, Begin, Answer
<1>10. CASE Stop
  BY <1>3, <1>10 DEF Stop, Begin
<1>11. CASE UNCHANGED vars
  BY <1>11 DEF vars
<1> QED BY <1>4, <1>5, <1>6, <1>7, <1>8, <1>9, <1>10, <1>11 DEF Next

LEMMA StepBacked ==
  ASSUME IInv, [Next]_vars, reply' # reply, reply'.result = "packet"
  PROVE  /\ reply'.docs \subseteq Active' \cap index'.receipted
         /\ mode = "tree" => reply'.docs = Active'
<1>1. CASE Preview
  <2>1. Active = {} /\ Answer("preview", "packet", {}) /\ UNCHANGED shelf
    BY <1>1 DEF Preview, Begin, NoReply, disk
  <2> QED BY <2>1 DEF Answer, Active
<1>2. CASE Rank
  <2>1. /\ op.rows \subseteq shelf.retained /\ (mode = "tree" => op.rows = Active)
        /\ UNCHANGED <<shelf, index>>
    BY <1>2 DEF Rank, IInv, Pending, disk
  <2>2. Rankable(op.rows) /\ reply'.docs = op.rows
    BY <1>2 DEF Rank, Answer
  <2> QED BY <2>1, <2>2 DEF Rankable, Active
<1> QED BY <1>1, <1>2, OtherReplies

\* No packet holds a withdrawn or an unreceipted document, however the document
\* routes and a preview interleave (preview_rank, _rank_document_packet).
THEOREM Backed == Spec => PacketsAreBacked
<1>1. IInv /\ [Next]_vars =>
        [(reply' # reply /\ reply'.result = "packet") =>
           /\ reply'.docs \subseteq Active' \cap index'.receipted
           /\ mode = "tree" => reply'.docs = Active']_vars
  BY StepBacked
<1> QED BY <1>1, Invariance, PTL DEF Spec, PacketsAreBacked

LEMMA StepRepairs ==
  ASSUME IInv, [Next]_vars, reply' # reply, reply'.call = "migrate", reply'.result = "ok"
  PROVE  op.seen[1] \subseteq index'.receipted \cap shelf'.analysed
<1>1. Store
  <2>1. ASSUME NEW result, Return(result), result # "ok"
        PROVE  FALSE
    BY <2>1 DEF Return, Answer
  <2>2. NoReply.result # "ok"
    BY DEF NoReply
  <2>3. ASSUME NEW call \in {"open", "migrate"}, RefuseOpening(call) \/ BeginOpening(call)
        PROVE  FALSE
    BY <2>2, <2>3 DEF RefuseOpening, BeginOpening, Begin, Answer, Refusals
  <2>4. ~(Connect \/ WriteHead \/ WriteHeadFails \/ SetSeedHead)
    BY <2>1 DEF Connect, WriteHead, WriteHeadFails, SetSeedHead, Raise
  <2>5. ~(Validate \/ CompareInventory \/ StoreRefused \/ AlreadyReady)
    BY <2>1 DEF Validate, CompareInventory, StoreRefused, AlreadyReady, Raise, Answer
  <2>6. ~(ApplyCommits \/ ApplyFails \/ WriteTree \/ WriteTreeFails)
    BY <2>1 DEF ApplyCommits, ApplyFails, WriteTree, WriteTreeFails, Dropped
  <2>7. ASSUME NEW at \in {"analyse", "tell"}, Continue(at) PROVE FALSE
    <3>1. op \in Operation
      BY DEF IInv, Types
    <3>2. op.call # "migrate" /\ Return("ok")
      BY <2>7, <3>1, Continues
    <3> QED BY <3>2 DEF Return, Answer
  <2>8. ~(Analyse \/ AnalyseFails \/ Tell)
    BY <2>1, <2>7 DEF Analyse, AnalyseFails, Tell, Raise, Return, Answer
  <2>9. ASSUME NEW d \in Docs,
               \/ Ingest(d) \/ IngestAgain(d) \/ Withdraw(d)
               \/ SideIngest(d) \/ SideWithdraw(d)
        PROVE  FALSE
    BY <2>2, <2>9
    DEF Ingest, IngestAgain, Withdraw, SideIngest, SideWithdraw, Begin, Answer
  <2>10. ~(Preview \/ Rank \/ Stop \/ UNCHANGED vars)
    BY <2>2 DEF Preview, Rank, Stop, Begin, Answer, vars
  <2> QED BY <2>3, <2>4, <2>5, <2>6, <2>8, <2>9, <2>10 DEF Next
<1>2. op.call = "migrate" /\ op.at = "answer" /\ UNCHANGED <<shelf, index>>
  BY <1>1 DEF Store, Step, Return, Answer, disk
<1>3. op.left = {}
  BY <1>2 DEF IInv, Caller
<1> QED BY <1>2, <1>3 DEF IInv, Migrated

\* A migration leaves nothing behind of what it found (migrate_project_document_tree,
\* _backfill_document_index).
THEOREM Repairs == Spec => MigrationRepairs
<1>1. IInv /\ [Next]_vars =>
        [(reply' # reply /\ reply'.call = "migrate" /\ reply'.result = "ok") =>
           op.seen[1] \subseteq index'.receipted \cap shelf'.analysed]_vars
  BY StepRepairs
<1> QED BY <1>1, Invariance, PTL DEF Spec, MigrationRepairs
=============================================================================

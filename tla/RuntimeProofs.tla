---------------------------- MODULE RuntimeProofs ----------------------------
(***************************************************************************)
(* Theorems about Runtime, for any processes, keys, settings and bounds.   *)
(*                                                                         *)
(* A call is a plan of statements, and an invariant says for each place of *)
(* each plan what the process, the files and the head then have in common. *)
(* TInv is what holds whatever two processes do.  CInv adds the agreement  *)
(* with the head.  It needs that processes sharing a project share commits *)
(* only, since settings and saving write the head without comparing it,    *)
(* and that the files of a restored head can be written, since otherwise   *)
(* memory keeps the old tree with the keys of the checkpoint (README.md,   *)
(* section 5).                                                             *)
(***************************************************************************)
EXTENDS Runtime, FiniteSetTheorems, SequenceTheorems, TLAPS

-----------------------------------------------------------------------------
(* What holds of its variables and plans *)

W(part) == <<"write", part>>
L(part) == <<"load", part>>
P(part) == <<"persist", part>>

\* The plans of a start, by what it finds, and of the other calls.
OverPlan    == Project \o <<L("done")>> \o Reload \o <<<<"opened">>>>
FreshPlan   == (Persist \o <<<<"create">>>>) \o <<<<"seed">>>>
HalfPlan    == (<<L("tree")>> \o Persist) \o <<<<"seed">>>>
SeededPlan  == (<<L("tree")>> \o <<L("rgm"), <<"digest">>>>) \o <<<<"seed">>>>
LearntPlan  == <<<<"readhead">>>> \o Project
ReloadPlan  == Project \o <<<<"settings">>>> \o Reload
RestorePlan == <<<<"readhead">>>> \o Project \o Reload

\* What is left at place n of a plan.
Rest(rest, plan, n) == n \in 1..Len(plan) /\ rest = SubSeq(plan, n, Len(plan))

On(p, plan, n) == Rest(work[p].plan, plan, n)

Memory == [open : BOOLEAN, tree : Turns, rgm : Turns, done : SUBSET Keys,
           settings : Settings, digest : Turns \X Turns]

CallNames == {"none", "open", "commit", "reload", "save", "restore"}

Statements ==
  {<<"digest">>, <<"opened">>, <<"create">>, <<"seed">>, <<"readhead">>, <<"settings">>,
   <<"copy">>, <<"sethead">>, <<"metadata">>}
  \cup {<<s, part>> : s \in {"write", "load", "persist"}, part \in Parts}
  \cup {<<"commit", k>> : k \in Keys}

Work == [call : CallNames, plan : Seq(Statements), head : Heads \cup {None}]

Typed ==
  /\ users \in SUBSET Processes
  /\ head \in Heads \cup {None}
  /\ library \in SUBSET Keys
  /\ outcomes \in [Keys -> 0..MaxLength]
  /\ DOMAIN files = Parts
  /\ files["tree"] \in Turns \cup {None} /\ files["rgm"] \in Turns \cup {None}
  /\ files["done"] \in (SUBSET Keys) \cup {None}
  /\ saved \subseteq [head : Heads, digest : Turns \X Turns]
  /\ mem \in [Processes -> Memory]
  /\ work \in [Processes -> Work]
  /\ crashes \in 0..MaxCrashes /\ raced \in BOOLEAN

\* A head is only there once both files are.
FilesThere == head # None => files["tree"] # None /\ files["rgm"] # None

\* Until there is a head nothing was learned, saved or opened.
NoHead ==
  head = None =>
    /\ saved = {} /\ files["done"] = None
    /\ files["tree"] \in {None, <<>>} /\ files["rgm"] \in {None, <<>>}
    /\ \A p \in Processes : mem[p] = Closed

\* Every front row, wherever it is, has its texts in the library.
Backed ==
  /\ FrontRowBacked
  /\ files["rgm"] # None => ToSet(files["rgm"]) \subseteq library
  /\ \A p \in Processes :
       /\ ToSet(mem[p].rgm) \subseteq library
       /\ work[p].head # None => ToSet(work[p].head.rgm) \subseteq library

\* Where a process may be: its call, how much of the plan is left, and what
\* it knows by then.
Resting(p) == work[p] = Idle /\ (mem[p].open \/ mem[p] = Closed)

OverHead(p, n) ==
  /\ On(p, OverPlan, n) /\ work[p].call = "open" /\ ~mem[p].open
  /\ head # None /\ work[p].head # None
  /\ n > 3 => files["done"] # None

SeedEmpty(p, n) ==
  /\ On(p, FreshPlan, n)
  /\ n > 1 => files["tree"] # None
  /\ n > 2 => files["rgm"] # None

SeedTree(p, n) ==
  /\ On(p, HalfPlan, n)
  /\ files["tree"] # None
  /\ n > 3 => files["rgm"] # None

SeedFiles(p, n) ==
  /\ On(p, SeededPlan, n)
  /\ files["tree"] # None /\ files["rgm"] # None

Seeding(p) ==
  /\ work[p].call = "open" /\ ~mem[p].open
  /\ \E n \in 1..4 : SeedEmpty(p, n) \/ SeedTree(p, n) \/ SeedFiles(p, n)

Trying(p, k) ==
  /\ work[p] = [call |-> "commit", plan |-> <<<<"commit", k>>>>, head |-> None]
  /\ mem[p].open /\ k \in library /\ k \notin mem[p].done
  /\ Len(mem[p].tree) < MaxLength /\ Len(mem[p].rgm) < MaxLength

Learnt(p, n) ==
  /\ On(p, LearntPlan, n) /\ work[p].call = "commit" /\ mem[p].open
  /\ n > 1 => work[p].head # None

Reloading(p, n) ==
  /\ On(p, ReloadPlan, n) /\ work[p].call = "reload" /\ mem[p].open
  /\ work[p].head # None

Saving(p, n) ==
  /\ On(p, SavePlan, n) /\ work[p].call = "save" /\ mem[p].open
  /\ n > 3 => work[p].head # None

Restoring(p, n) ==
  /\ On(p, RestorePlan, n) /\ work[p].call = "restore" /\ mem[p].open
  /\ n > 1 => work[p].head # None

Planned(p) ==
  \/ Resting(p) \/ Seeding(p)
  \/ \E n \in 1..8 : OverHead(p, n)
  \/ \E k \in Keys : Trying(p, k)
  \/ \E n \in 1..4 : Learnt(p, n)
  \/ \E n \in 1..7 : Reloading(p, n)
  \/ \E n \in 1..7 : Restoring(p, n)
  \/ \E n \in 1..5 : Saving(p, n)

\* Memory is open over a head only, and a process that has no part in the
\* project never runs.
Form(p) ==
  /\ mem[p].open => head # None
  /\ p \notin users => mem[p] = Closed /\ work[p] = Idle
  /\ Planned(p)

\* The inductive invariant of type correctness, without any assumption on the
\* calls two processes share.
TInv == Typed /\ FilesThere /\ NoHead /\ Backed /\ \A p \in Processes : Form(p)

\* A head is only there once the creation metadata are.
Native == created \in BOOLEAN /\ (head # None => created)

Ticks(h) == \A i \in DOMAIN h.tree : h.tree[i] \in Anchored => outcomes[h.tree[i]] = i
\* What HeadCoherent says of a head.
Sound(h) == Coherent(h) /\ Ticks(h)

\* Memory and its digest against the head.  With two processes a digest that is
\* the head's is taken with the keys of that head; a stale one is of a tree that
\* is no longer than the head's.
AtRest(p) ==
  /\ mem[p].digest = Digest(mem[p])
  /\ IF Alone THEN Image(mem[p]) = head
     ELSE /\ mem[p].digest = Digest(head) => mem[p].done = head.done
          /\ Len(mem[p].tree) <= Len(head.tree)

\* The files show the head, as far as the writes before place n of a plan.
Shown(n) ==
  /\ n > 1 => files["tree"] = head.tree
  /\ n > 2 => files["rgm"] = head.rgm
  /\ n > 3 => files["done"] = head.done

\* Where a call is, by its plan alone.
AtOver(p, n)    == work[p].call = "open" /\ On(p, OverPlan, n)
AtReload(p, n)  == work[p].call = "reload" /\ On(p, ReloadPlan, n)
AtSave(p, n)    == work[p].call = "save" /\ On(p, SavePlan, n)
AtRestore(p, n) == work[p].call = "restore" /\ On(p, RestorePlan, n)

Seeds(p) ==
  /\ work[p].call = "open"
  /\ \E n \in 1..4 : On(p, FreshPlan, n) \/ On(p, HalfPlan, n) \/ On(p, SeededPlan, n)

\* What memory and files agree on with the head at that place.
OverBody(p, n) ==
  /\ work[p].head = head /\ mem[p].settings = head.settings /\ Shown(n)
  /\ n > 4 => mem[p].done = head.done
  /\ n > 5 => mem[p].tree = head.tree
  /\ n > 6 => mem[p].rgm = head.rgm

ReloadBody(p, n) ==
  /\ ~Alone /\ work[p].head = head /\ Shown(n)
  /\ n < 5 => AtRest(p)
  /\ n > 4 => mem[p].done = head.done
  /\ n > 5 => mem[p].tree = head.tree
  /\ n > 6 => mem[p].rgm = head.rgm

SaveBody(p, n) ==
  /\ Alone
  /\ n > 1 => files["tree"] = head.tree
  /\ n > 2 => files["rgm"] = head.rgm
  /\ n > 3 => work[p].head = head

RestoreBody(p, n) ==
  /\ Alone /\ mem[p].done = head.done /\ mem[p].settings = head.settings
  /\ n > 1 => work[p].head = head
  /\ Shown(n - 1)
  /\ n > 5 => mem[p].tree = head.tree
  /\ n > 6 => mem[p].rgm = head.rgm

Working(p) == mem[p].open /\ work[p].call \notin {"reload", "restore"}

\* Each process agrees with the head as far as its call has come.
Agree(p) ==
  /\ Working(p) => AtRest(p)
  /\ Seeds(p) => head = None
  /\ \A n \in 1..7 : AtOver(p, n) => OverBody(p, n)
  /\ AtOver(p, 8) => AtRest(p) /\ (Alone => Shown(8))
  /\ \A n \in 1..7 : AtReload(p, n) => ReloadBody(p, n)
  /\ \A n \in 1..5 : AtSave(p, n) => SaveBody(p, n)
  /\ \A n \in 1..7 : AtRestore(p, n) => RestoreBody(p, n)

\* Head and checkpoints are sound.
Durable ==
  /\ head # None => Sound(head)
  /\ \A c \in saved : Sound(c.head) /\ Digest(c.head) = c.digest

\* As long as no start read files that were replaced meanwhile, which cannot
\* happen to a process that has the project alone.
CInv ==
  /\ Alone => ~raced
  /\ ~raced => Durable /\ \A p \in Processes : Agree(p)

-----------------------------------------------------------------------------
(* Plans *)

\* What the pieces of a plan are made of.
LEMMA Pieces ==
  /\ Project \in Seq(Statements) /\ Len(Project) = 3
  /\ Project[1] = W("tree") /\ Project[2] = W("rgm") /\ Project[3] = W("done")
  /\ Reload \in Seq(Statements) /\ Len(Reload) = 3
  /\ Reload[1] = L("tree") /\ Reload[2] = L("rgm") /\ Reload[3] = <<"digest">>
  /\ Persist \in Seq(Statements) /\ Len(Persist) = 2
  /\ Persist[1] = P("tree") /\ Persist[2] = P("rgm")
<1>1. /\ \A part \in Parts : W(part) \in Statements /\ L(part) \in Statements /\ P(part) \in Statements
      /\ <<"digest">> \in Statements
  BY DEF Statements, W, L, P
<1>2. "tree" \in Parts /\ "rgm" \in Parts /\ "done" \in Parts
  BY DEF Parts
<1>3. /\ Project = <<W("tree"), W("rgm"), W("done")>>
      /\ Reload = <<L("tree"), L("rgm"), <<"digest">>>>
      /\ Persist = <<P("tree"), P("rgm")>>
  BY DEF Project, Reload, Persist, W, L, P
<1> QED BY <1>1, <1>2, <1>3

\* c is a followed by b.
IsJoin(c, a, b) ==
  /\ c \in Seq(Statements) /\ Len(c) = Len(a) + Len(b)
  /\ \A i \in 1..Len(a) : c[i] = a[i]
  /\ \A i \in (Len(a) + 1)..(Len(a) + Len(b)) : c[i] = b[i - Len(a)]

LEMMA Joined ==
  ASSUME NEW a \in Seq(Statements), NEW b \in Seq(Statements)
  PROVE  IsJoin(a \o b, a, b)
BY ConcatProperties DEF IsJoin

LEMMA OverIs ==
  /\ OverPlan \in Seq(Statements) /\ Len(OverPlan) = 8
  /\ OverPlan[1] = W("tree") /\ OverPlan[2] = W("rgm") /\ OverPlan[3] = W("done")
  /\ OverPlan[4] = L("done") /\ OverPlan[5] = L("tree") /\ OverPlan[6] = L("rgm")
  /\ OverPlan[7] = <<"digest">> /\ OverPlan[8] = <<"opened">>
<1> DEFINE a == <<L("done")>>
           b == <<<<"opened">>>>
           x == Project \o a
           y == x \o Reload
<1>1. /\ a \in Seq(Statements) /\ Len(a) = 1 /\ a[1] = L("done")
      /\ b \in Seq(Statements) /\ Len(b) = 1 /\ b[1] = <<"opened">>
  BY DEF Statements, L, Parts
<1>2. OverPlan = y \o b
  BY DEF OverPlan
<1> HIDE DEF a, b
<1>3. IsJoin(x, Project, a)
  BY <1>1, Pieces, Joined
<1> HIDE DEF x
<1>4. x \in Seq(Statements) /\ Reload \in Seq(Statements)
  BY <1>3, Pieces DEF IsJoin
<1>5. IsJoin(y, x, Reload)
  BY <1>4, Joined
<1> HIDE DEF y
<1>6. y \in Seq(Statements) /\ b \in Seq(Statements)
  BY <1>1, <1>5 DEF IsJoin
<1>7. IsJoin(OverPlan, y, b)
  BY <1>2, <1>6, Joined
<1> QED BY <1>1, <1>3, <1>5, <1>7, Pieces DEF IsJoin

LEMMA FreshIs ==
  /\ FreshPlan \in Seq(Statements) /\ Len(FreshPlan) = 4
  /\ FreshPlan[1] = P("tree") /\ FreshPlan[2] = P("rgm")
  /\ FreshPlan[3] = <<"create">> /\ FreshPlan[4] = <<"seed">>
<1> DEFINE c == <<<<"create">>>>
           s == <<<<"seed">>>>
           x == Persist \o c
<1>1. /\ c \in Seq(Statements) /\ Len(c) = 1 /\ c[1] = <<"create">>
      /\ s \in Seq(Statements) /\ Len(s) = 1 /\ s[1] = <<"seed">>
  BY DEF Statements, L, Parts
<1>2. FreshPlan = x \o s
  BY DEF FreshPlan
<1> HIDE DEF c, s
<1>3. IsJoin(x, Persist, c)
  BY <1>1, Pieces, Joined
<1> HIDE DEF x
<1>4. x \in Seq(Statements)
  BY <1>3 DEF IsJoin
<1>5. IsJoin(FreshPlan, x, s)
  BY <1>1, <1>2, <1>4, Joined
<1> QED BY <1>1, <1>3, <1>5, Pieces DEF IsJoin

LEMMA LearntIs ==
  /\ LearntPlan \in Seq(Statements) /\ Len(LearntPlan) = 4
  /\ LearntPlan[1] = <<"readhead">> /\ LearntPlan[2] = W("tree")
  /\ LearntPlan[3] = W("rgm") /\ LearntPlan[4] = W("done")
<1> DEFINE s == <<<<"readhead">>>>
<1>1. s \in Seq(Statements) /\ Len(s) = 1 /\ s[1] = <<"readhead">>
  BY DEF Statements, L, Parts
<1>2. LearntPlan = s \o Project
  BY DEF LearntPlan
<1> HIDE DEF s
<1>3. IsJoin(LearntPlan, s, Project)
  BY <1>1, <1>2, Pieces, Joined
<1> QED BY <1>1, <1>3, Pieces DEF IsJoin

LEMMA HalfIs ==
  /\ HalfPlan \in Seq(Statements) /\ Len(HalfPlan) = 4
  /\ HalfPlan[1] = L("tree") /\ HalfPlan[2] = P("tree") /\ HalfPlan[3] = P("rgm")
  /\ HalfPlan[4] = <<"seed">>
<1> DEFINE a == <<L("tree")>>
           b == <<<<"seed">>>>
           x == a \o Persist
<1>1. /\ a \in Seq(Statements) /\ Len(a) = 1 /\ a[1] = L("tree")
      /\ b \in Seq(Statements) /\ Len(b) = 1 /\ b[1] = <<"seed">>
  BY DEF Statements, L, Parts
<1>2. HalfPlan = x \o b
  BY DEF HalfPlan
<1> HIDE DEF a, b
<1>3. IsJoin(x, a, Persist)
  BY <1>1, Pieces, Joined
<1> HIDE DEF x
<1>4. x \in Seq(Statements) /\ b \in Seq(Statements)
  BY <1>1, <1>3, Pieces DEF IsJoin
<1>5. IsJoin(HalfPlan, x, b)
  BY <1>2, <1>4, Joined
<1> QED BY <1>1, <1>3, <1>5, Pieces DEF IsJoin

LEMMA SeededIs ==
  /\ SeededPlan \in Seq(Statements) /\ Len(SeededPlan) = 4
  /\ SeededPlan[1] = L("tree") /\ SeededPlan[2] = L("rgm")
  /\ SeededPlan[3] = <<"digest">> /\ SeededPlan[4] = <<"seed">>
<1> DEFINE a == <<L("tree")>>
           b == <<<<"seed">>>>
           c == <<L("rgm"), <<"digest">>>>
           x == a \o c
<1>1. /\ a \in Seq(Statements) /\ Len(a) = 1 /\ a[1] = L("tree")
      /\ b \in Seq(Statements) /\ Len(b) = 1 /\ b[1] = <<"seed">>
      /\ c \in Seq(Statements) /\ Len(c) = 2
      /\ c[1] = L("rgm")
      /\ c[2] = <<"digest">>
  BY DEF Statements, L, Parts
<1>2. SeededPlan = x \o b
  BY DEF SeededPlan
<1> HIDE DEF a, b, c
<1>3. IsJoin(x, a, c)
  BY <1>1, Pieces, Joined
<1> HIDE DEF x
<1>4. x \in Seq(Statements) /\ b \in Seq(Statements)
  BY <1>1, <1>3, Pieces DEF IsJoin
<1>5. IsJoin(SeededPlan, x, b)
  BY <1>2, <1>4, Joined
<1> QED BY <1>1, <1>3, <1>5, Pieces DEF IsJoin

LEMMA ReloadIs ==
  /\ ReloadPlan \in Seq(Statements) /\ Len(ReloadPlan) = 7
  /\ ReloadPlan[1] = W("tree") /\ ReloadPlan[2] = W("rgm")
  /\ ReloadPlan[3] = W("done") /\ ReloadPlan[4] = <<"settings">>
  /\ ReloadPlan[5] = L("tree") /\ ReloadPlan[6] = L("rgm")
  /\ ReloadPlan[7] = <<"digest">>
<1> DEFINE a == <<<<"settings">>>>
           x == Project \o a
<1>1. /\ a \in Seq(Statements) /\ Len(a) = 1 /\ a[1] = <<"settings">>
  BY DEF Statements, L, Parts
<1>2. ReloadPlan = x \o Reload
  BY DEF ReloadPlan
<1> HIDE DEF a
<1>3. IsJoin(x, Project, a)
  BY <1>1, Pieces, Joined
<1> HIDE DEF x
<1>4. x \in Seq(Statements) /\ Reload \in Seq(Statements)
  BY <1>1, <1>3, Pieces DEF IsJoin
<1>5. IsJoin(ReloadPlan, x, Reload)
  BY <1>2, <1>4, Joined
<1> QED BY <1>1, <1>3, <1>5, Pieces DEF IsJoin

LEMMA RestoreIs ==
  /\ RestorePlan \in Seq(Statements) /\ Len(RestorePlan) = 7
  /\ RestorePlan[1] = <<"readhead">> /\ RestorePlan[2] = W("tree")
  /\ RestorePlan[3] = W("rgm") /\ RestorePlan[4] = W("done")
  /\ RestorePlan[5] = L("tree") /\ RestorePlan[6] = L("rgm")
  /\ RestorePlan[7] = <<"digest">>
<1> DEFINE a == <<<<"readhead">>>>
           x == a \o Project
<1>1. /\ a \in Seq(Statements) /\ Len(a) = 1 /\ a[1] = <<"readhead">>
  BY DEF Statements, L, Parts
<1>2. RestorePlan = x \o Reload
  BY DEF RestorePlan
<1> HIDE DEF a
<1>3. IsJoin(x, a, Project)
  BY <1>1, Pieces, Joined
<1> HIDE DEF x
<1>4. x \in Seq(Statements) /\ Reload \in Seq(Statements)
  BY <1>1, <1>3, Pieces DEF IsJoin
<1>5. IsJoin(RestorePlan, x, Reload)
  BY <1>2, <1>4, Joined
<1> QED BY <1>1, <1>3, <1>5, Pieces DEF IsJoin

LEMMA SaveIs ==
  /\ SavePlan \in Seq(Statements) /\ Len(SavePlan) = 5
  /\ SavePlan[1] = P("tree") /\ SavePlan[2] = P("rgm") /\ SavePlan[3] = <<"copy">>
  /\ SavePlan[4] = <<"sethead">> /\ SavePlan[5] = <<"metadata">>
<1> DEFINE s == <<<<"copy">>, <<"sethead">>, <<"metadata">>>>
<1>1. s \in Seq(Statements) /\ Len(s) = 3
      /\ s[1] = <<"copy">>
      /\ s[2] = <<"sethead">>
      /\ s[3] = <<"metadata">>
  BY DEF Statements, L, Parts
<1>2. SavePlan = Persist \o s
  BY DEF SavePlan
<1> HIDE DEF s
<1>3. IsJoin(SavePlan, Persist, s)
  BY <1>1, <1>2, Pieces, Joined
<1> QED BY <1>1, <1>3, Pieces DEF IsJoin

LEMMA WholePlan ==
  ASSUME NEW plan \in Seq(Statements)
  PROVE  plan = SubSeq(plan, 1, Len(plan))
OBVIOUS

\* What a call at place n of its plan does next.
Place(p, plan, n) ==
  /\ n \in 1..Len(plan) /\ work[p].plan # <<>> /\ Head(work[p].plan) = plan[n]
  /\ AtEnd(p) <=> n = Len(plan)
  /\ n < Len(plan) => Tail(work[p].plan) = SubSeq(plan, n + 1, Len(plan))
  /\ \A j \in n..Len(plan) : \E i \in DOMAIN work[p].plan : work[p].plan[i] = plan[j]
  /\ \A i \in DOMAIN work[p].plan : \E j \in n..Len(plan) : work[p].plan[i] = plan[j]

LEMMA OnPlace ==
  ASSUME NEW p, NEW plan \in Seq(Statements), NEW n, On(p, plan, n)
  PROVE  Place(p, plan, n)
<1> DEFINE rest == SubSeq(plan, n, Len(plan))
<1>1. n \in 1..Len(plan) /\ work[p].plan = rest /\ Len(plan) \in Nat
  BY DEF On, Rest
<1>2. rest \in Seq(Statements) /\ Len(rest) = Len(plan) - n + 1
      /\ \A i \in 1..Len(rest) : rest[i] = plan[n + i - 1]
  BY <1>1
<1>3. rest # <<>> /\ Head(rest) = plan[n]
  <2>1. 1 \in 1..Len(rest) /\ n + 1 - 1 = n
    BY <1>1, <1>2
  <2>2. rest[1] = plan[n]
    BY <1>2, <2>1
  <2> HIDE DEF rest
  <2>3. rest # <<>>
    BY <2>1
  <2> QED BY <2>2, <2>3
<1>4. n < Len(plan) => Tail(rest) = SubSeq(plan, n + 1, Len(plan))
  BY <1>1, <1>2
<1>5. \A j \in n..Len(plan) : \E i \in DOMAIN rest : rest[i] = plan[j]
  <2> TAKE j \in n..Len(plan)
  <2>1. j - n + 1 \in 1..Len(rest) /\ rest[j - n + 1] = plan[j]
    BY <1>1, <1>2
  <2> QED BY <2>1, <1>2
<1>6. \A i \in DOMAIN rest : \E j \in n..Len(plan) : rest[i] = plan[j]
  <2> TAKE i \in DOMAIN rest
  <2>1. i \in 1..Len(rest)
    BY <1>2
  <2>2. n + i - 1 \in n..Len(plan) /\ rest[i] = plan[n + i - 1]
    BY <1>1, <1>2, <2>1
  <2> QED BY <2>2
<1>7. Len(rest) = 1 <=> n = Len(plan)
  BY <1>1, <1>2
<1> HIDE DEF rest
<1> QED BY <1>1, <1>3, <1>4, <1>5, <1>6, <1>7 DEF AtEnd, Place

-----------------------------------------------------------------------------
(* Where a call can be                                                       *)

\* The three files in the order they are written, and in the order a start
\* over a head loads them.
Written == <<"tree", "rgm", "done">>
Loaded  == <<"done", "tree", "rgm">>

LEMMA OverSays ==
  ASSUME NEW p, NEW n, On(p, OverPlan, n)
  PROVE  LET s == Head(work[p].plan) IN
         /\ n \in 1..8 /\ work[p].plan # <<>> /\ (AtEnd(p) <=> n = 8)
         /\ n \in 1..3 => s[1] = "write" /\ s[2] = Written[n]
         /\ n \in 4..6 => s[1] = "load" /\ s[2] = Loaded[n - 3]
         /\ n = 7 => s[1] = "digest"
         /\ n = 8 => s[1] = "opened"
<1>0. Place(p, OverPlan, n)
  BY OnPlace, OverIs
<1>1. n \in 1..8 /\ work[p].plan # <<>> /\ Head(work[p].plan) = OverPlan[n] /\ (AtEnd(p) <=> n = 8)
  BY <1>0, OverIs DEF Place
<1>2. n \in {1, 2, 3, 4, 5, 6, 7, 8}
  BY <1>1
<1> QED BY <1>1, <1>2, OverIs DEF W, L, Written, Loaded

LEMMA FreshSays ==
  ASSUME NEW p, NEW n, On(p, FreshPlan, n)
  PROVE  LET s == Head(work[p].plan) IN
         /\ n \in 1..4 /\ work[p].plan # <<>> /\ (AtEnd(p) <=> n = 4)
         /\ n \in 1..2 => s[1] = "persist" /\ s[2] = Written[n]
         /\ n = 3 => s[1] = "create"
         /\ n = 4 => s[1] = "seed"
<1>0. Place(p, FreshPlan, n)
  BY OnPlace, FreshIs
<1>1. n \in 1..4 /\ work[p].plan # <<>> /\ Head(work[p].plan) = FreshPlan[n] /\ (AtEnd(p) <=> n = 4)
  BY <1>0, FreshIs DEF Place
<1>2. n \in {1, 2, 3, 4}
  BY <1>1
<1> QED BY <1>1, <1>2, FreshIs DEF P, Written

LEMMA HalfSays ==
  ASSUME NEW p, NEW n, On(p, HalfPlan, n)
  PROVE  LET s == Head(work[p].plan) IN
         /\ n \in 1..4 /\ work[p].plan # <<>> /\ (AtEnd(p) <=> n = 4)
         /\ n = 1 => s[1] = "load" /\ s[2] = "tree"
         /\ n \in 2..3 => s[1] = "persist" /\ s[2] = Written[n - 1]
         /\ n = 4 => s[1] = "seed"
<1>0. Place(p, HalfPlan, n)
  BY OnPlace, HalfIs
<1>1. n \in 1..4 /\ work[p].plan # <<>> /\ Head(work[p].plan) = HalfPlan[n] /\ (AtEnd(p) <=> n = 4)
  BY <1>0, HalfIs DEF Place
<1>2. n \in {1, 2, 3, 4}
  BY <1>1
<1> QED BY <1>1, <1>2, HalfIs DEF L, P, Written

LEMMA SeededSays ==
  ASSUME NEW p, NEW n, On(p, SeededPlan, n)
  PROVE  LET s == Head(work[p].plan) IN
         /\ n \in 1..4 /\ work[p].plan # <<>> /\ (AtEnd(p) <=> n = 4)
         /\ n \in 1..2 => s[1] = "load" /\ s[2] = Written[n]
         /\ n = 3 => s[1] = "digest"
         /\ n = 4 => s[1] = "seed"
<1>0. Place(p, SeededPlan, n)
  BY OnPlace, SeededIs
<1>1. n \in 1..4 /\ work[p].plan # <<>> /\ Head(work[p].plan) = SeededPlan[n] /\ (AtEnd(p) <=> n = 4)
  BY <1>0, SeededIs DEF Place
<1>2. n \in {1, 2, 3, 4}
  BY <1>1
<1> QED BY <1>1, <1>2, SeededIs DEF L, Written

LEMMA LearntSays ==
  ASSUME NEW p, NEW n, On(p, LearntPlan, n)
  PROVE  LET s == Head(work[p].plan) IN
         /\ n \in 1..4 /\ work[p].plan # <<>> /\ (AtEnd(p) <=> n = 4)
         /\ n = 1 => s[1] = "readhead"
         /\ n \in 2..4 => s[1] = "write" /\ s[2] = Written[n - 1]
<1>0. Place(p, LearntPlan, n)
  BY OnPlace, LearntIs
<1>1. n \in 1..4 /\ work[p].plan # <<>> /\ Head(work[p].plan) = LearntPlan[n] /\ (AtEnd(p) <=> n = 4)
  BY <1>0, LearntIs DEF Place
<1>2. n \in {1, 2, 3, 4}
  BY <1>1
<1> QED BY <1>1, <1>2, LearntIs DEF W, Written

LEMMA ReloadSays ==
  ASSUME NEW p, NEW n, On(p, ReloadPlan, n)
  PROVE  LET s == Head(work[p].plan) IN
         /\ n \in 1..7 /\ work[p].plan # <<>> /\ (AtEnd(p) <=> n = 7)
         /\ n \in 1..3 => s[1] = "write" /\ s[2] = Written[n]
         /\ n = 4 => s[1] = "settings"
         /\ n \in 5..6 => s[1] = "load" /\ s[2] = Written[n - 4]
         /\ n = 7 => s[1] = "digest"
<1>0. Place(p, ReloadPlan, n)
  BY OnPlace, ReloadIs
<1>1. n \in 1..7 /\ work[p].plan # <<>> /\ Head(work[p].plan) = ReloadPlan[n] /\ (AtEnd(p) <=> n = 7)
  BY <1>0, ReloadIs DEF Place
<1>2. n \in {1, 2, 3, 4, 5, 6, 7}
  BY <1>1
<1> QED BY <1>1, <1>2, ReloadIs DEF W, L, Written

LEMMA RestoreSays ==
  ASSUME NEW p, NEW n, On(p, RestorePlan, n)
  PROVE  LET s == Head(work[p].plan) IN
         /\ n \in 1..7 /\ work[p].plan # <<>> /\ (AtEnd(p) <=> n = 7)
         /\ n = 1 => s[1] = "readhead"
         /\ n \in 2..4 => s[1] = "write" /\ s[2] = Written[n - 1]
         /\ n \in 5..6 => s[1] = "load" /\ s[2] = Written[n - 4]
         /\ n = 7 => s[1] = "digest"
<1>0. Place(p, RestorePlan, n)
  BY OnPlace, RestoreIs
<1>1. n \in 1..7 /\ work[p].plan # <<>> /\ Head(work[p].plan) = RestorePlan[n] /\ (AtEnd(p) <=> n = 7)
  BY <1>0, RestoreIs DEF Place
<1>2. n \in {1, 2, 3, 4, 5, 6, 7}
  BY <1>1
<1> QED BY <1>1, <1>2, RestoreIs DEF W, L, Written

LEMMA SaveSays ==
  ASSUME NEW p, NEW n, On(p, SavePlan, n)
  PROVE  LET s == Head(work[p].plan) IN
         /\ n \in 1..5 /\ work[p].plan # <<>> /\ (AtEnd(p) <=> n = 5)
         /\ n \in 1..2 => s[1] = "persist" /\ s[2] = Written[n]
         /\ n = 3 => s[1] = "copy"
         /\ n = 4 => s[1] = "sethead"
         /\ n = 5 => s[1] = "metadata"
<1>0. Place(p, SavePlan, n)
  BY OnPlace, SaveIs
<1>1. n \in 1..5 /\ work[p].plan # <<>> /\ Head(work[p].plan) = SavePlan[n] /\ (AtEnd(p) <=> n = 5)
  BY <1>0, SaveIs DEF Place
<1>2. n \in {1, 2, 3, 4, 5}
  BY <1>1
<1> QED BY <1>1, <1>2, SaveIs DEF P, Written

\* The places at which a call does each statement.
AtWrite(p) ==
  \/ \E n \in 1..3 : OverHead(p, n) \/ Reloading(p, n)
  \/ \E n \in 2..4 : Learnt(p, n) \/ Restoring(p, n)

AtPersist(p) ==
  \/ Seeding(p) /\ \/ \E n \in 1..2 : SeedEmpty(p, n)
                   \/ \E n \in 2..3 : SeedTree(p, n)
  \/ \E n \in 1..2 : Saving(p, n)

AtLoad(p) ==
  \/ \E n \in 4..6 : OverHead(p, n)
  \/ Seeding(p) /\ (SeedTree(p, 1) \/ \E n \in 1..2 : SeedFiles(p, n))
  \/ \E n \in 5..6 : Reloading(p, n) \/ Restoring(p, n)

AtDigest(p) ==
  \/ OverHead(p, 7) \/ Reloading(p, 7) \/ Restoring(p, 7)
  \/ Seeding(p) /\ SeedFiles(p, 3)

AtCreate(p) == Seeding(p) /\ SeedEmpty(p, 3)

AtSeed(p) == Seeding(p) /\ (SeedEmpty(p, 4) \/ SeedTree(p, 4) \/ SeedFiles(p, 4))

Does(p) ==
  /\ Doing(p, "write")    => AtWrite(p)
  /\ Doing(p, "persist")  => AtPersist(p)
  /\ Doing(p, "load")     => AtLoad(p)
  /\ Doing(p, "digest")   => AtDigest(p)
  /\ Doing(p, "opened")   => OverHead(p, 8)
  /\ Doing(p, "create")   => AtCreate(p)
  /\ Doing(p, "seed")     => AtSeed(p)
  /\ Doing(p, "commit")   => \E k \in Keys : Trying(p, k)
  /\ Doing(p, "readhead") => Learnt(p, 1) \/ Restoring(p, 1)
  /\ Doing(p, "settings") => Reloading(p, 4)
  /\ Doing(p, "copy")     => Saving(p, 3)
  /\ Doing(p, "sethead")  => Saving(p, 4)
  /\ Doing(p, "metadata") => Saving(p, 5)

LEMMA PlannedDoes ==
  ASSUME NEW p, Planned(p)
  PROVE  Does(p)
<1>1. CASE Resting(p)
  BY <1>1 DEF Resting, Idle, Doing, Does
<1>2. CASE Seeding(p)
  <2>1. CASE \E n \in 1..4 : SeedEmpty(p, n)
    <3>1. PICK n \in 1..4 : SeedEmpty(p, n)
      BY <2>1
    <3>2. On(p, FreshPlan, n)
      BY <3>1 DEF SeedEmpty
    <3> QED BY <1>2, <3>1, <3>2, FreshSays DEF Does, Doing, AtPersist, AtCreate, AtSeed
  <2>2. CASE \E n \in 1..4 : SeedTree(p, n)
    <3>1. PICK n \in 1..4 : SeedTree(p, n)
      BY <2>2
    <3>2. On(p, HalfPlan, n)
      BY <3>1 DEF SeedTree
    <3> QED BY <1>2, <3>1, <3>2, HalfSays DEF Does, Doing, AtPersist, AtLoad, AtSeed
  <2>3. CASE \E n \in 1..4 : SeedFiles(p, n)
    <3>1. PICK n \in 1..4 : SeedFiles(p, n)
      BY <2>3
    <3>2. On(p, SeededPlan, n)
      BY <3>1 DEF SeedFiles
    <3> QED BY <1>2, <3>1, <3>2, SeededSays DEF Does, Doing, AtLoad, AtDigest, AtSeed
  <2> QED BY <1>2, <2>1, <2>2, <2>3 DEF Seeding
<1>3. ASSUME NEW n \in 1..8, OverHead(p, n) PROVE Does(p)
  <2>1. On(p, OverPlan, n)
    BY <1>3 DEF OverHead
  <2> QED BY <1>3, <2>1, OverSays DEF Does, Doing, AtWrite, AtLoad, AtDigest
<1>4. ASSUME NEW k \in Keys, Trying(p, k) PROVE Does(p)
  <2>1. work[p].plan # <<>> /\ Head(work[p].plan)[1] = "commit"
    BY <1>4 DEF Trying
  <2> QED BY <1>4, <2>1 DEF Does, Doing
<1>5. ASSUME NEW n \in 1..4, Learnt(p, n) PROVE Does(p)
  <2>1. On(p, LearntPlan, n)
    BY <1>5 DEF Learnt
  <2> QED BY <1>5, <2>1, LearntSays DEF Does, Doing, AtWrite
<1>6. ASSUME NEW n \in 1..7, Reloading(p, n) PROVE Does(p)
  <2>1. On(p, ReloadPlan, n)
    BY <1>6 DEF Reloading
  <2> QED BY <1>6, <2>1, ReloadSays DEF Does, Doing, AtWrite, AtLoad, AtDigest
<1>7. ASSUME NEW n \in 1..7, Restoring(p, n) PROVE Does(p)
  <2>1. On(p, RestorePlan, n)
    BY <1>7 DEF Restoring
  <2> QED BY <1>7, <2>1, RestoreSays DEF Does, Doing, AtWrite, AtLoad, AtDigest
<1>8. ASSUME NEW n \in 1..5, Saving(p, n) PROVE Does(p)
  <2>1. On(p, SavePlan, n)
    BY <1>8 DEF Saving
  <2> QED BY <1>8, <2>1, SaveSays DEF Does, Doing, AtPersist
<1> QED BY <1>1, <1>2, <1>3, <1>4, <1>5, <1>6, <1>7, <1>8 DEF Planned

-----------------------------------------------------------------------------
(* What a step leaves to the other calls                                     *)

OthersKept(p) ==
  \A q \in Processes : q # p => mem'[q] = mem[q] /\ work'[q] = work[q]

\* Tables that are there stay, and texts are never dropped.
Grows ==
  /\ users' = users /\ library \subseteq library'
  /\ head # None => head' # None
  /\ \A part \in Parts : files[part] # None => files'[part] # None

LEMMA IdleTyped == Idle \in Work
BY DEF Idle, Work, CallNames

LEMMA TailTyped ==
  ASSUME Typed, NEW p \in Processes, work[p].plan # <<>>
  PROVE  Tail(work[p].plan) \in Seq(Statements)
<1>1. work[p].plan \in Seq(Statements)
  BY DEF Typed, Work
<1> QED BY <1>1

LEMMA AdvanceTyped ==
  ASSUME Typed, NEW p \in Processes, Advance(p), work[p].plan # <<>>
  PROVE  /\ work' \in [Processes -> Work]
         /\ work'[p].call = work[p].call /\ work'[p].head = work[p].head
         /\ work'[p].plan = Tail(work[p].plan)
         /\ \A q \in Processes : q # p => work'[q] = work[q]
<1>1. Tail(work[p].plan) \in Seq(Statements)
  BY TailTyped
<1> QED BY <1>1 DEF Advance, Typed, Work

LEMMA AdvanceWithTyped ==
  ASSUME Typed, NEW p \in Processes, NEW h \in Heads \cup {None}, AdvanceWith(p, h),
         work[p].plan # <<>>
  PROVE  /\ work' \in [Processes -> Work]
         /\ work'[p].call = work[p].call /\ work'[p].head = h
         /\ work'[p].plan = Tail(work[p].plan)
         /\ \A q \in Processes : q # p => work'[q] = work[q]
<1>1. Tail(work[p].plan) \in Seq(Statements)
  BY TailTyped
<1> QED BY <1>1 DEF AdvanceWith, Typed, Work

LEMMA FinishTyped ==
  ASSUME Typed, NEW p \in Processes, Finish(p)
  PROVE  /\ work' \in [Processes -> Work] /\ work'[p] = Idle
         /\ \A q \in Processes : q # p => work'[q] = work[q]
BY IdleTyped DEF Finish, Typed

LEMMA StartTyped ==
  ASSUME Typed, NEW p \in Processes, NEW call \in CallNames, NEW plan \in Seq(Statements),
         NEW h \in Heads \cup {None}, Start(p, call, plan, h)
  PROVE  /\ work' \in [Processes -> Work]
         /\ work'[p] = [call |-> call, plan |-> plan, head |-> h]
         /\ \A q \in Processes : q # p => work'[q] = work[q]
BY DEF Start, Typed, Work

LEMMA GoesOn ==
  ASSUME NEW rest, NEW plan \in Seq(Statements), NEW n, Rest(rest, plan, n), n < Len(plan)
  PROVE  Rest(Tail(rest), plan, n + 1)
<1>1. n \in 1..Len(plan) /\ rest = SubSeq(plan, n, Len(plan)) /\ n + 1 \in 1..Len(plan)
  BY DEF Rest
<1>2. Tail(rest) = SubSeq(plan, n + 1, Len(plan))
  BY <1>1
<1> QED BY <1>1, <1>2 DEF Rest

LEMMA Begins ==
  ASSUME NEW plan \in Seq(Statements), plan # <<>>
  PROVE  Rest(plan, plan, 1)
<1>1. plan = SubSeq(plan, 1, Len(plan))
  BY WholePlan
<1>2. 1 \in 1..Len(plan)
  OBVIOUS
<1> QED BY <1>1, <1>2 DEF Rest

LEMMA OtherForms ==
  ASSUME NEW q, Form(q), Grows, mem'[q] = mem[q], work'[q] = work[q]
  PROVE  Form(q)'
<1> USE DEF Grows, Parts
<1>1. Resting(q) => Resting(q)'
  BY DEF Resting
<1>2. Seeding(q) => Seeding(q)'
  BY DEF Seeding, SeedEmpty, SeedTree, SeedFiles, On
<1>3. \A n \in 1..8 : OverHead(q, n) => OverHead(q, n)'
  BY DEF OverHead, On
<1>4. \A k \in Keys : Trying(q, k) => Trying(q, k)'
  BY DEF Trying
<1>5. \A n \in 1..4 : Learnt(q, n) => Learnt(q, n)'
  BY DEF Learnt, On
<1>6. \A n \in 1..7 : Reloading(q, n) => Reloading(q, n)'
  BY DEF Reloading, On
<1>7. \A n \in 1..7 : Restoring(q, n) => Restoring(q, n)'
  BY DEF Restoring, On
<1>8. \A n \in 1..5 : Saving(q, n) => Saving(q, n)'
  BY DEF Saving, On
<1>9. Planned(q)'
  BY <1>1, <1>2, <1>3, <1>4, <1>5, <1>6, <1>7, <1>8 DEF Form, Planned
<1> QED BY <1>9 DEF Form

LEMMA Assemble ==
  ASSUME TInv, NEW p \in Processes, Typed', FilesThere', NoHead', Backed', Grows,
         OthersKept(p), Form(p)'
  PROVE  TInv'
<1>1. \A q \in Processes : Form(q)'
  BY OtherForms DEF TInv, OthersKept
<1> QED BY <1>1 DEF TInv

LEMMA NotNone ==
  /\ None \notin Turns /\ None \notin Heads /\ (\A d \in SUBSET Keys : d # None)
  /\ <<>> \in Turns /\ Closed \in Memory /\ Default \in Settings
<1>1. <<>> \in Turns
  <2>1. 0 \in 0..MaxLength /\ <<>> \in [1..0 -> Keys]
    BY RuntimeAssumption
  <2> QED BY <2>1 DEF Turns
<1> QED BY <1>1, RuntimeAssumption DEF Closed, Memory

LEMMA ProceedTyped ==
  ASSUME Typed, NEW p \in Processes, Proceed(p), work[p].plan # <<>>
  PROVE  /\ work' \in [Processes -> Work]
         /\ \A q \in Processes : q # p => work'[q] = work[q]
         /\ AtEnd(p) => work'[p] = Idle
         /\ ~AtEnd(p) => /\ work'[p].call = work[p].call /\ work'[p].head = work[p].head
                         /\ work'[p].plan = Tail(work[p].plan)
<1>1. CASE AtEnd(p)
  BY <1>1, FinishTyped DEF Proceed
<1>2. CASE ~AtEnd(p)
  BY <1>2, AdvanceTyped DEF Proceed
<1> QED BY <1>1, <1>2

\* A write comes from a head that was read, so there is one.
LEMMA WriteFrom ==
  ASSUME NEW p \in Processes, TInv, AtWrite(p)
  PROVE  /\ work[p].plan # <<>> /\ Head(work[p].plan)[2] \in Parts
         /\ work[p].head \in Heads /\ head # None
<1>1. Form(p) /\ work[p].head \in Heads \cup {None}
  BY DEF TInv, Typed, Work
<1>2. ASSUME NEW n \in 1..3, OverHead(p, n)
      PROVE  work[p].plan # <<>> /\ Head(work[p].plan)[2] = Written[n]
             /\ work[p].head # None /\ head # None
  <2>1. On(p, OverPlan, n)
    BY <1>2 DEF OverHead
  <2> QED BY <1>2, <2>1, OverSays DEF OverHead
<1>3. ASSUME NEW n \in 1..3, Reloading(p, n)
      PROVE  work[p].plan # <<>> /\ Head(work[p].plan)[2] = Written[n]
             /\ work[p].head # None /\ head # None
  <2>1. On(p, ReloadPlan, n)
    BY <1>3 DEF Reloading
  <2> QED BY <1>1, <1>3, <2>1, ReloadSays DEF Reloading, Form
<1>4. ASSUME NEW n \in 2..4, Learnt(p, n)
      PROVE  work[p].plan # <<>> /\ Head(work[p].plan)[2] = Written[n - 1]
             /\ work[p].head # None /\ head # None
  <2>1. On(p, LearntPlan, n)
    BY <1>4 DEF Learnt
  <2> QED BY <1>1, <1>4, <2>1, LearntSays DEF Learnt, Form
<1>5. ASSUME NEW n \in 2..4, Restoring(p, n)
      PROVE  work[p].plan # <<>> /\ Head(work[p].plan)[2] = Written[n - 1]
             /\ work[p].head # None /\ head # None
  <2>1. On(p, RestorePlan, n)
    BY <1>5 DEF Restoring
  <2> QED BY <1>1, <1>5, <2>1, RestoreSays DEF Restoring, Form
<1>6. \A n \in 1..3 : Written[n] \in Parts
  BY DEF Written, Parts
<1>7. \A n \in 2..4 : Written[n - 1] \in Parts
  BY <1>6
<1> QED BY <1>1, <1>2, <1>3, <1>4, <1>5, <1>6, <1>7 DEF AtWrite

-----------------------------------------------------------------------------
(* From one place to the next *)

Moves(p) ==
  /\ work'[p].call = work[p].call /\ work'[p].plan = Tail(work[p].plan)
  /\ mem'[p].open = mem[p].open

LEMMA MovesOn ==
  ASSUME NEW p, NEW plan \in Seq(Statements), NEW n, On(p, plan, n), n < Len(plan),
         Moves(p)
  PROVE  On(p, plan, n + 1)'
<1>1. Rest(work[p].plan, plan, n)
  BY DEF On
<1>2. Rest(Tail(work[p].plan), plan, n + 1)
  BY <1>1, GoesOn, Zenon
<1> QED BY <1>2 DEF On, Moves

LEMMA OverNext ==
  ASSUME NEW p, NEW n \in 1..7, OverHead(p, n), Moves(p), Grows, work'[p].head = work[p].head,
         n = 3 => files'["done"] # None
  PROVE  n + 1 \in 1..8 /\ OverHead(p, n + 1)'
<1>1. On(p, OverPlan, n) /\ OverPlan \in Seq(Statements) /\ n < Len(OverPlan)
  BY OverIs DEF OverHead
<1>2. On(p, OverPlan, n + 1)'
  BY <1>1, MovesOn, Zenon
<1> QED BY <1>2 DEF OverHead, Moves, Grows, Parts

LEMMA EmptyNext ==
  ASSUME NEW p, NEW n \in 1..3, SeedEmpty(p, n), Moves(p), Grows,
         n = 1 => files'["tree"] # None, n = 2 => files'["rgm"] # None
  PROVE  n + 1 \in 1..4 /\ SeedEmpty(p, n + 1)'
<1>1. On(p, FreshPlan, n) /\ FreshPlan \in Seq(Statements) /\ n < Len(FreshPlan)
  BY FreshIs DEF SeedEmpty
<1>2. On(p, FreshPlan, n + 1)'
  BY <1>1, MovesOn, Zenon
<1> QED BY <1>2 DEF SeedEmpty, Grows, Parts

LEMMA TreeNext ==
  ASSUME NEW p, NEW n \in 1..3, SeedTree(p, n), Moves(p), Grows,
         n = 3 => files'["rgm"] # None
  PROVE  n + 1 \in 1..4 /\ SeedTree(p, n + 1)'
<1>1. On(p, HalfPlan, n) /\ HalfPlan \in Seq(Statements) /\ n < Len(HalfPlan)
  BY HalfIs DEF SeedTree
<1>2. On(p, HalfPlan, n + 1)'
  BY <1>1, MovesOn, Zenon
<1> QED BY <1>2 DEF SeedTree, Grows, Parts

LEMMA FilesNext ==
  ASSUME NEW p, NEW n \in 1..3, SeedFiles(p, n), Moves(p), Grows
  PROVE  n + 1 \in 1..4 /\ SeedFiles(p, n + 1)'
<1>1. On(p, SeededPlan, n) /\ SeededPlan \in Seq(Statements) /\ n < Len(SeededPlan)
  BY SeededIs DEF SeedFiles
<1>2. On(p, SeededPlan, n + 1)'
  BY <1>1, MovesOn, Zenon
<1> QED BY <1>2 DEF SeedFiles, Grows, Parts

LEMMA LearntNext ==
  ASSUME NEW p, NEW n \in 1..3, Learnt(p, n), Moves(p),
         work'[p].head # None
  PROVE  n + 1 \in 1..4 /\ Learnt(p, n + 1)'
<1>1. On(p, LearntPlan, n) /\ LearntPlan \in Seq(Statements) /\ n < Len(LearntPlan)
  BY LearntIs DEF Learnt
<1>2. On(p, LearntPlan, n + 1)'
  BY <1>1, MovesOn, Zenon
<1> QED BY <1>2 DEF Learnt, Moves

LEMMA ReloadNext ==
  ASSUME NEW p, NEW n \in 1..6, Reloading(p, n), Moves(p), work'[p].head = work[p].head
  PROVE  n + 1 \in 1..7 /\ Reloading(p, n + 1)'
<1>1. On(p, ReloadPlan, n) /\ ReloadPlan \in Seq(Statements) /\ n < Len(ReloadPlan)
  BY ReloadIs DEF Reloading
<1>2. On(p, ReloadPlan, n + 1)'
  BY <1>1, MovesOn, Zenon
<1> QED BY <1>2 DEF Reloading, Moves

LEMMA RestoreNext ==
  ASSUME NEW p, NEW n \in 1..6, Restoring(p, n), Moves(p), work'[p].head # None
  PROVE  n + 1 \in 1..7 /\ Restoring(p, n + 1)'
<1>1. On(p, RestorePlan, n) /\ RestorePlan \in Seq(Statements) /\ n < Len(RestorePlan)
  BY RestoreIs DEF Restoring
<1>2. On(p, RestorePlan, n + 1)'
  BY <1>1, MovesOn, Zenon
<1> QED BY <1>2 DEF Restoring, Moves

LEMMA SaveNext ==
  ASSUME NEW p, NEW n \in 1..4, Saving(p, n), Moves(p), n > 2 => work'[p].head # None
  PROVE  n + 1 \in 1..5 /\ Saving(p, n + 1)'
<1>1. On(p, SavePlan, n) /\ SavePlan \in Seq(Statements) /\ n < Len(SavePlan)
  BY SaveIs DEF Saving
<1>2. On(p, SavePlan, n + 1)'
  BY <1>1, MovesOn, Zenon
<1> QED BY <1>2 DEF Saving, Moves

\* Where a call is after a write.
LEMMA WriteForm ==
  ASSUME NEW p \in Processes, TInv, Doing(p, "write"), Proceed(p), UNCHANGED <<store, mem>>,
         Grows, files'[Head(work[p].plan)[2]] # None
  PROVE  Form(p)'
<1> DEFINE part == Head(work[p].plan)[2]
<1>1. Form(p) /\ Typed /\ AtWrite(p) /\ work[p].plan # <<>>
  BY PlannedDoes, WriteFrom DEF TInv, Form, Does
<1>2. /\ AtEnd(p) => work'[p] = Idle
      /\ ~AtEnd(p) => /\ work'[p].call = work[p].call /\ work'[p].head = work[p].head
                      /\ work'[p].plan = Tail(work[p].plan)
  BY <1>1, ProceedTyped
<1>3. UNCHANGED <<users, head, library, mem>>
  BY DEF store
<1>4. mem[p].open => head # None
  BY <1>1 DEF Form
<1>5. ASSUME NEW n \in 1..3, OverHead(p, n)
      PROVE  OverHead(p, n + 1)'
  <2>1. On(p, OverPlan, n)
    BY <1>5 DEF OverHead
  <2>2. ~AtEnd(p) /\ part = Written[n]
    BY <2>1, OverSays
  <2>3. n = 3 => files'["done"] # None
    BY <2>2 DEF Written
  <2>4. n \in 1..7 /\ Moves(p) /\ work'[p].head = work[p].head
    BY <1>2, <1>3, <2>2 DEF Moves
  <2> QED BY <1>5, <2>3, <2>4, OverNext
<1>6. ASSUME NEW n \in 1..3, Reloading(p, n)
      PROVE  Reloading(p, n + 1)'
  <2>1. On(p, ReloadPlan, n)
    BY <1>6 DEF Reloading
  <2>2. ~AtEnd(p)
    BY <2>1, ReloadSays
  <2>3. n \in 1..6 /\ Moves(p) /\ work'[p].head = work[p].head
    BY <1>2, <1>3, <2>2 DEF Moves
  <2> QED BY <1>6, <2>3, ReloadNext
<1>7. ASSUME NEW n \in 2..4, Restoring(p, n)
      PROVE  Restoring(p, n + 1)'
  <2>1. On(p, RestorePlan, n) /\ work[p].head # None
    BY <1>7 DEF Restoring
  <2>2. ~AtEnd(p)
    BY <2>1, RestoreSays
  <2>3. n \in 1..6 /\ Moves(p) /\ work'[p].head # None
    BY <1>2, <1>3, <2>1, <2>2 DEF Moves
  <2> QED BY <1>7, <2>3, RestoreNext
<1>8. ASSUME NEW n \in 2..4, Learnt(p, n)
      PROVE  IF n = 4 THEN Resting(p)' ELSE Learnt(p, n + 1)'
  <2>1. On(p, LearntPlan, n) /\ work[p].head # None
    BY <1>8 DEF Learnt
  <2>2. AtEnd(p) <=> n = 4
    BY <2>1, LearntSays
  <2>3. CASE n = 4
    BY <1>2, <1>3, <1>8, <2>2, <2>3 DEF Resting, Learnt
  <2>4. CASE n # 4
    <3>1. n \in 1..3 /\ Moves(p) /\ work'[p].head # None
      BY <1>2, <1>3, <2>1, <2>2, <2>4 DEF Moves
    <3> QED BY <1>8, <2>4, <3>1, LearntNext
  <2> QED BY <2>3, <2>4
<1>9. Planned(p)'
  <2>1. CASE \E n \in 1..3 : OverHead(p, n)
    <3>1. PICK n \in 1..3 : OverHead(p, n)
      BY <2>1
    <3>2. n + 1 \in 1..8 /\ OverHead(p, n + 1)'
      BY <1>5, <3>1
    <3> QED BY <3>2 DEF Planned
  <2>2. CASE \E n \in 1..3 : Reloading(p, n)
    <3>1. PICK n \in 1..3 : Reloading(p, n)
      BY <2>2
    <3>2. n + 1 \in 1..7 /\ Reloading(p, n + 1)'
      BY <1>6, <3>1
    <3> QED BY <3>2 DEF Planned
  <2>3. CASE \E n \in 2..4 : Restoring(p, n)
    <3>1. PICK n \in 2..4 : Restoring(p, n)
      BY <2>3
    <3>2. n + 1 \in 1..7 /\ Restoring(p, n + 1)'
      BY <1>7, <3>1
    <3> QED BY <3>2 DEF Planned
  <2>4. CASE \E n \in 2..4 : Learnt(p, n)
    <3>1. PICK n \in 2..4 : Learnt(p, n)
      BY <2>4
    <3>2. (n + 1 \in 1..4 /\ Learnt(p, n + 1)') \/ Resting(p)'
      BY <1>8, <3>1
    <3> QED BY <3>2 DEF Planned
  <2> QED BY <1>1, <2>1, <2>2, <2>3, <2>4 DEF AtWrite
<1>10. p \notin users => FALSE
  BY <1>1 DEF Form, Idle
<1> QED BY <1>3, <1>4, <1>9, <1>10 DEF Form

LEMMA WriteTyped ==
  ASSUME NEW p \in Processes, TInv, Write(p), raced' \in BOOLEAN
  PROVE  TInv'
<1> DEFINE part == Head(work[p].plan)[2]
           h    == work[p].head
<1>1. Form(p) /\ Typed /\ AtWrite(p) /\ Doing(p, "write")
  BY PlannedDoes DEF TInv, Form, Does, Write
<1>2. work[p].plan # <<>> /\ part \in Parts /\ h \in Heads /\ head # None
  BY <1>1, WriteFrom
<1>3. /\ files' = [files EXCEPT ![part] = h[part]] /\ Proceed(p)
      /\ UNCHANGED <<store, mem, crashes>>
  BY DEF Write
<1>4. UNCHANGED <<users, head, library, outcomes, saved, mem, crashes>>
  BY <1>3 DEF store
<1>5. /\ h["tree"] \in Turns /\ h["rgm"] \in Turns /\ h["done"] \in SUBSET Keys
      /\ h["tree"] # None /\ h["rgm"] # None /\ h["done"] # None
  BY <1>2, NotNone DEF Heads
<1>6. /\ DOMAIN files' = Parts /\ files'[part] = h[part]
      /\ \A x \in Parts : x # part => files'[x] = files[x]
  BY <1>1, <1>2, <1>3 DEF Typed
<1>7. h[part] # None
  BY <1>2, <1>5 DEF Parts
<1> HIDE DEF part, h
<1>8. Typed'
  <2>1. files'["tree"] \in Turns \cup {None} /\ files'["rgm"] \in Turns \cup {None}
        /\ files'["done"] \in (SUBSET Keys) \cup {None}
    BY <1>1, <1>2, <1>5, <1>6 DEF Typed, Parts
  <2>2. work' \in [Processes -> Work]
    BY <1>1, <1>2, <1>3, ProceedTyped
  <2> QED BY <1>1, <1>4, <1>6, <2>1, <2>2 DEF Typed
<1>9. Grows
  BY <1>4, <1>6, <1>7 DEF Grows
<1>10. FilesThere' /\ NoHead'
  BY <1>2, <1>4, <1>9 DEF TInv, FilesThere, NoHead, Grows, Parts
<1>11. OthersKept(p) /\ (work'[p].head = work[p].head \/ work'[p] = Idle)
  BY <1>1, <1>2, <1>3, <1>4, ProceedTyped DEF OthersKept
<1>12. Backed'
  <2>1. ToSet(files'["rgm"]) \subseteq library \/ files'["rgm"] = files["rgm"]
    <3>1. ToSet(h.rgm) \subseteq library
      BY <1>2, NotNone DEF TInv, Backed, h
    <3> QED BY <1>6, <3>1 DEF Parts
  <2>2. \A q \in Processes : work'[q].head # None => ToSet(work'[q].head.rgm) \subseteq library
    BY <1>11 DEF TInv, Backed, OthersKept, Idle
  <2> QED BY <1>4, <2>1, <2>2 DEF TInv, Backed, FrontRowBacked
<1>13. Form(p)'
  BY <1>1, <1>3, <1>6, <1>7, <1>9, WriteForm DEF part
<1> QED BY <1>8, <1>9, <1>10, <1>11, <1>12, <1>13, Assemble

LEMMA PersistFrom ==
  ASSUME NEW p \in Processes, TInv, AtPersist(p)
  PROVE  work[p].plan # <<>> /\ Head(work[p].plan)[2] \in {"tree", "rgm"} /\ work[p].call # "none"
<1>1. ASSUME NEW n \in 1..2, SeedEmpty(p, n)
      PROVE  work[p].plan # <<>> /\ Head(work[p].plan)[2] = Written[n]
  <2>1. On(p, FreshPlan, n)
    BY <1>1 DEF SeedEmpty
  <2> QED BY <2>1, FreshSays
<1>2. ASSUME NEW n \in 2..3, SeedTree(p, n)
      PROVE  work[p].plan # <<>> /\ Head(work[p].plan)[2] = Written[n - 1]
  <2>1. On(p, HalfPlan, n)
    BY <1>2 DEF SeedTree
  <2> QED BY <2>1, HalfSays
<1>3. ASSUME NEW n \in 1..2, Saving(p, n)
      PROVE  work[p].plan # <<>> /\ Head(work[p].plan)[2] = Written[n] /\ work[p].call = "save"
  <2>1. On(p, SavePlan, n)
    BY <1>3 DEF Saving
  <2> QED BY <1>3, <2>1, SaveSays DEF Saving
<1>4. \A n \in 1..2 : Written[n] \in {"tree", "rgm"}
  BY DEF Written
<1>5. \A n \in 2..3 : Written[n - 1] \in {"tree", "rgm"}
  BY <1>4
<1> QED BY <1>1, <1>2, <1>3, <1>4, <1>5 DEF AtPersist, Seeding

LEMMA PersistForm ==
  ASSUME NEW p \in Processes, TInv, Doing(p, "persist"), Moves(p), Grows,
         UNCHANGED <<users, head>>, work'[p].head = work[p].head,
         files'[Head(work[p].plan)[2]] # None
  PROVE  Form(p)'
<1> DEFINE part == Head(work[p].plan)[2]
<1>1. Form(p) /\ AtPersist(p)
  BY PlannedDoes DEF TInv, Form, Does
<1>2. AtPersist(p) => work[p].call # "none"
  BY PersistFrom
<1>3. /\ mem'[p].open => head' # None
      /\ p \in users'
  BY <1>1, <1>2 DEF Form, Idle, Moves
<1>4. ASSUME Seeding(p), NEW n \in 1..2, SeedEmpty(p, n)
      PROVE  Seeding(p)'
  <2>1. On(p, FreshPlan, n)
    BY <1>4 DEF SeedEmpty
  <2>2. part = Written[n]
    BY <2>1, FreshSays
  <2>3. (n = 1 => files'["tree"] # None) /\ (n = 2 => files'["rgm"] # None)
    BY <2>2 DEF Written
  <2>4. n + 1 \in 1..4 /\ SeedEmpty(p, n + 1)'
    BY <1>4, <2>3, EmptyNext
  <2> QED BY <1>4, <2>4 DEF Seeding, Moves
<1>5. ASSUME Seeding(p), NEW n \in 2..3, SeedTree(p, n)
      PROVE  Seeding(p)'
  <2>1. On(p, HalfPlan, n)
    BY <1>5 DEF SeedTree
  <2>2. part = Written[n - 1]
    BY <2>1, HalfSays
  <2>3. n \in 1..3 /\ (n = 3 => files'["rgm"] # None)
    BY <2>2 DEF Written
  <2>4. n + 1 \in 1..4 /\ SeedTree(p, n + 1)'
    BY <1>5, <2>3, TreeNext
  <2> QED BY <1>5, <2>4 DEF Seeding, Moves
<1>6. ASSUME NEW n \in 1..2, Saving(p, n)
      PROVE  n + 1 \in 1..5 /\ Saving(p, n + 1)'
  <2>1. n \in 1..4 /\ ~(n > 2)
    OBVIOUS
  <2> QED BY <1>6, <2>1, SaveNext
<1>7. Planned(p)'
  BY <1>1, <1>4, <1>5, <1>6 DEF AtPersist, Planned
<1> QED BY <1>3, <1>7 DEF Form

LEMMA PersistTyped ==
  ASSUME NEW p \in Processes, TInv, PersistPart(p), raced' \in BOOLEAN
  PROVE  TInv'
<1> DEFINE part == Head(work[p].plan)[2]
           m    == mem[p]
<1>1. Form(p) /\ Typed /\ AtPersist(p) /\ Doing(p, "persist")
  BY PlannedDoes DEF TInv, Form, Does, PersistPart
<1>2. work[p].plan # <<>> /\ part \in {"tree", "rgm"}
  BY <1>1, PersistFrom
<1>3. /\ files' = [files EXCEPT ![part] = m[part]] /\ Advance(p)
      /\ mem' = IF part = "rgm" THEN [mem EXCEPT ![p].digest = Digest(mem[p])] ELSE mem
      /\ UNCHANGED <<users, head, library, outcomes, saved, crashes>>
  BY DEF PersistPart, store
<1>4. m \in Memory
  BY <1>1 DEF Typed
<1>5. m["tree"] \in Turns /\ m["rgm"] \in Turns /\ m["tree"] # None /\ m["rgm"] # None
  BY <1>4, NotNone DEF Memory
<1>6. /\ DOMAIN files' = Parts /\ files'[part] = m[part]
      /\ \A x \in Parts : x # part => files'[x] = files[x]
  BY <1>1, <1>2, <1>3 DEF Typed, Parts
<1>7. m[part] \in Turns /\ m[part] # None
  BY <1>2, <1>5
<1>8. /\ mem' \in [Processes -> Memory] /\ mem'[p].open = mem[p].open /\ mem'[p].rgm = mem[p].rgm
      /\ mem'[p] = mem[p] \/ mem'[p] = [mem[p] EXCEPT !.digest = Digest(mem[p])]
      /\ \A q \in Processes : q # p => mem'[q] = mem[q]
  <2>1. CASE part # "rgm"
    BY <1>1, <1>3, <2>1 DEF Typed
  <2>2. CASE part = "rgm"
    <3>1. Digest(m) \in Turns \X Turns
      BY <1>5 DEF Digest
    <3>2. mem' = [mem EXCEPT ![p].digest = Digest(mem[p])]
      BY <1>3, <2>2
    <3>3. [m EXCEPT !.digest = Digest(m)] \in Memory
      BY <1>4, <3>1 DEF Memory
    <3>4. mem'[p] = [m EXCEPT !.digest = Digest(m)] /\ \A q \in Processes : q # p => mem'[q] = mem[q]
      BY <1>1, <3>2 DEF Typed
    <3>5. mem' \in [Processes -> Memory]
      BY <1>1, <3>2, <3>3 DEF Typed
    <3> QED BY <1>4, <3>4, <3>5 DEF Memory
  <2> QED BY <2>1, <2>2
<1>9. /\ work' \in [Processes -> Work]
      /\ work'[p].call = work[p].call /\ work'[p].head = work[p].head
      /\ work'[p].plan = Tail(work[p].plan)
      /\ \A q \in Processes : q # p => work'[q] = work[q]
  BY <1>1, <1>2, <1>3, AdvanceTyped
<1>10. Moves(p) /\ OthersKept(p)
  BY <1>8, <1>9 DEF Moves, OthersKept
<1>11. Grows
  BY <1>3, <1>6, <1>7 DEF Grows
<1>12. Form(p)'
  BY <1>1, <1>3, <1>6, <1>7, <1>9, <1>10, <1>11, PersistForm
<1> HIDE DEF part, m
<1>13. Typed'
  <2>1. files'["tree"] \in Turns \cup {None} /\ files'["rgm"] \in Turns \cup {None}
        /\ files'["done"] \in (SUBSET Keys) \cup {None}
    BY <1>1, <1>2, <1>6, <1>7 DEF Typed, Parts
  <2> QED BY <1>1, <1>3, <1>6, <1>8, <1>9, <2>1 DEF Typed
<1>14. FilesThere'
  BY <1>3, <1>11 DEF TInv, FilesThere, Grows, Parts
<1>15. NoHead'
  <2>1. ASSUME head = None PROVE m[part] = <<>> /\ mem'[p] = Closed
    <3>1. mem[p] = Closed
      BY <2>1 DEF TInv, NoHead
    <3>2. Digest(Closed) = Closed.digest /\ Closed.tree = <<>> /\ Closed.rgm = <<>>
      BY DEF Digest, Closed
    <3>3. [Closed EXCEPT !.digest = Closed.digest] = Closed
      BY DEF Closed
    <3>4. Closed["tree"] = <<>> /\ Closed["rgm"] = <<>>
      BY DEF Closed
    <3> QED BY <1>2, <1>8, <3>1, <3>2, <3>3, <3>4 DEF m
  <2> QED BY <1>2, <1>3, <1>6, <1>8, <2>1 DEF TInv, NoHead, Parts
<1>16. Backed'
  <2>1. part = "rgm" => ToSet(m[part]) \subseteq library
    BY DEF TInv, Backed, m
  <2>2. files'["rgm"] # None => ToSet(files'["rgm"]) \subseteq library
    BY <1>2, <1>6, <2>1 DEF TInv, Backed, Parts
  <2>3. \A q \in Processes : mem'[q].rgm = mem[q].rgm /\ work'[q].head = work[q].head
    BY <1>8, <1>9
  <2> QED BY <1>3, <2>2, <2>3 DEF TInv, Backed, FrontRowBacked
<1> QED BY <1>10, <1>11, <1>12, <1>13, <1>14, <1>15, <1>16, Assemble

LEMMA FailTyped ==
  ASSUME NEW p \in Processes, TInv, WriteFails(p), raced' \in BOOLEAN
  PROVE  TInv'
<1>1. Form(p) /\ Typed /\ mem[p] \in Memory
  BY DEF TInv, Typed
<1>2. /\ Finish(p) /\ mem' = IF mem[p].open THEN mem ELSE [mem EXCEPT ![p] = Closed]
      /\ UNCHANGED <<users, head, library, outcomes, saved, files, crashes>>
  BY DEF WriteFails, store
<1>3. work' \in [Processes -> Work] /\ work'[p] = Idle /\ \A q \in Processes : q # p => work'[q] = work[q]
  BY <1>1, <1>2, FinishTyped
<1>4. /\ mem' \in [Processes -> Memory] /\ \A q \in Processes : q # p => mem'[q] = mem[q]
      /\ IF mem[p].open THEN mem'[p] = mem[p] ELSE mem'[p] = Closed
  BY <1>1, <1>2, NotNone DEF Typed
<1>5. Typed' /\ FilesThere' /\ NoHead'
  BY <1>1, <1>2, <1>3, <1>4 DEF Typed, TInv, FilesThere, NoHead
<1>6. Grows /\ OthersKept(p)
  BY <1>2, <1>3, <1>4 DEF Grows, OthersKept
<1>7. Backed'
  <2>1. ToSet(Closed.rgm) \subseteq library
    BY DEF Closed, ToSet
  <2> QED BY <1>2, <1>3, <1>4, <2>1 DEF TInv, Backed, FrontRowBacked, Idle
<1>8. Form(p)'
  <2>1. Resting(p)'
    BY <1>3, <1>4 DEF Resting
  <2>2. p \in users
    <3>1. work[p].plan # <<>>
      BY DEF WriteFails, Doing
    <3> QED BY <1>1, <3>1 DEF Form, Idle
  <2> QED BY <1>1, <1>2, <1>4, <2>1, <2>2 DEF Form, Planned, Closed
<1> QED BY <1>5, <1>6, <1>7, <1>8, Assemble

\* What a call loads has been written.
LEMMA LoadFrom ==
  ASSUME NEW p \in Processes, TInv, AtLoad(p)
  PROVE  /\ work[p].plan # <<>> /\ Head(work[p].plan)[2] \in Parts /\ work[p].call # "none"
         /\ files[Head(work[p].plan)[2]] # None
<1> USE DEF Parts
<1>1. Form(p) /\ (head # None => files["tree"] # None /\ files["rgm"] # None)
  BY DEF TInv, FilesThere
<1>2. ASSUME NEW n \in 4..6, OverHead(p, n)
      PROVE  work[p].plan # <<>> /\ Head(work[p].plan)[2] = Loaded[n - 3]
             /\ work[p].call = "open" /\ head # None /\ files["done"] # None
  <2>1. On(p, OverPlan, n)
    BY <1>2 DEF OverHead
  <2> QED BY <1>2, <2>1, OverSays DEF OverHead
<1>3. ASSUME Seeding(p), SeedTree(p, 1)
      PROVE  work[p].plan # <<>> /\ Head(work[p].plan)[2] = "tree"
             /\ work[p].call = "open" /\ files["tree"] # None
  <2>1. On(p, HalfPlan, 1)
    BY <1>3 DEF SeedTree
  <2> QED BY <1>3, <2>1, HalfSays DEF SeedTree, Seeding
<1>4. ASSUME Seeding(p), NEW n \in 1..2, SeedFiles(p, n)
      PROVE  work[p].plan # <<>> /\ Head(work[p].plan)[2] = Written[n]
             /\ work[p].call = "open" /\ files["tree"] # None /\ files["rgm"] # None
  <2>1. On(p, SeededPlan, n)
    BY <1>4 DEF SeedFiles
  <2> QED BY <1>4, <2>1, SeededSays DEF SeedFiles, Seeding
<1>5. ASSUME NEW n \in 5..6, Reloading(p, n)
      PROVE  work[p].plan # <<>> /\ Head(work[p].plan)[2] = Written[n - 4]
             /\ work[p].call = "reload" /\ head # None
  <2>1. On(p, ReloadPlan, n)
    BY <1>5 DEF Reloading
  <2> QED BY <1>1, <1>5, <2>1, ReloadSays DEF Reloading, Form
<1>6. ASSUME NEW n \in 5..6, Restoring(p, n)
      PROVE  work[p].plan # <<>> /\ Head(work[p].plan)[2] = Written[n - 4]
             /\ work[p].call = "restore" /\ head # None
  <2>1. On(p, RestorePlan, n)
    BY <1>6 DEF Restoring
  <2> QED BY <1>1, <1>6, <2>1, RestoreSays DEF Restoring, Form
<1>7. \A n \in 4..6 : Loaded[n - 3] \in Parts
  BY DEF Loaded
<1>8. \A n \in 1..2 : Written[n] \in {"tree", "rgm"}
  BY DEF Written
<1>9. \A n \in 5..6 : Written[n - 4] \in {"tree", "rgm"}
  BY <1>8
<1> QED BY <1>1, <1>2, <1>3, <1>4, <1>5, <1>6, <1>7, <1>8, <1>9 DEF AtLoad

LEMMA LoadForm ==
  ASSUME NEW p \in Processes, TInv, AtLoad(p), Moves(p), Grows,
         UNCHANGED <<users, head>>, work'[p].head = work[p].head
  PROVE  Form(p)'
<1>1. Form(p)
  BY DEF TInv
<1>2. work[p].call # "none"
  BY LoadFrom
<1>3. (mem'[p].open => head' # None) /\ p \in users'
  BY <1>1, <1>2 DEF Form, Idle, Moves
<1>4. ASSUME NEW n \in 4..6, OverHead(p, n)
      PROVE  n + 1 \in 1..8 /\ OverHead(p, n + 1)'
  BY <1>4, OverNext
<1>5. ASSUME Seeding(p), SeedTree(p, 1)
      PROVE  Seeding(p)'
  <2>1. 1 + 1 \in 1..4 /\ SeedTree(p, 1 + 1)'
    BY <1>5, TreeNext
  <2> QED BY <1>5, <2>1 DEF Seeding, Moves
<1>6. ASSUME Seeding(p), NEW n \in 1..2, SeedFiles(p, n)
      PROVE  Seeding(p)'
  <2>1. n + 1 \in 1..4 /\ SeedFiles(p, n + 1)'
    BY <1>6, FilesNext
  <2> QED BY <1>6, <2>1 DEF Seeding, Moves
<1>7. ASSUME NEW n \in 5..6, Reloading(p, n)
      PROVE  n + 1 \in 1..7 /\ Reloading(p, n + 1)'
  BY <1>7, ReloadNext
<1>8. ASSUME NEW n \in 5..6, Restoring(p, n)
      PROVE  n + 1 \in 1..7 /\ Restoring(p, n + 1)'
  <2>1. n \in 1..6 /\ work'[p].head # None
    BY <1>8 DEF Restoring
  <2> QED BY <1>8, <2>1, RestoreNext
<1>9. Planned(p)'
  <2>1. CASE \E n \in 4..6 : OverHead(p, n)
    BY <2>1, <1>4 DEF Planned
  <2>2. CASE Seeding(p) /\ (SeedTree(p, 1) \/ \E n \in 1..2 : SeedFiles(p, n))
    BY <2>2, <1>5, <1>6 DEF Planned
  <2>3. CASE \E n \in 5..6 : Reloading(p, n)
    BY <2>3, <1>7 DEF Planned
  <2>4. CASE \E n \in 5..6 : Restoring(p, n)
    BY <2>4, <1>8 DEF Planned
  <2> QED BY <2>1, <2>2, <2>3, <2>4 DEF AtLoad
<1> QED BY <1>3, <1>9 DEF Form

LEMMA LoadTyped ==
  ASSUME NEW p \in Processes, TInv, LoadPart(p), raced' \in BOOLEAN
  PROVE  TInv'
<1> DEFINE part == Head(work[p].plan)[2]
           x    == files[part]
<1>1. Form(p) /\ Typed /\ AtLoad(p) /\ Doing(p, "load")
  BY PlannedDoes DEF TInv, Form, Does, LoadPart
<1>2. work[p].plan # <<>> /\ part \in Parts /\ x # None
  BY <1>1, LoadFrom
<1>3. /\ mem' = [mem EXCEPT ![p][part] = x] /\ Advance(p)
      /\ UNCHANGED <<users, head, library, outcomes, saved, files, crashes>>
  BY DEF LoadPart, store
<1>4. mem[p] \in Memory
  BY <1>1 DEF Typed
<1>5. /\ work' \in [Processes -> Work]
      /\ work'[p].call = work[p].call /\ work'[p].head = work[p].head
      /\ work'[p].plan = Tail(work[p].plan)
      /\ \A q \in Processes : q # p => work'[q] = work[q]
  BY <1>1, <1>2, <1>3, AdvanceTyped
<1> HIDE DEF part, x
<1>6. /\ mem'[p] = [mem[p] EXCEPT ![part] = x]
      /\ mem' = [mem EXCEPT ![p] = [mem[p] EXCEPT ![part] = x]]
      /\ \A q \in Processes : q # p => mem'[q] = mem[q]
  BY <1>1, <1>3, Zenon DEF Typed
<1>7. /\ part = "tree" => x \in Turns
      /\ part = "rgm" => x \in Turns /\ ToSet(x) \subseteq library
      /\ part = "done" => x \in SUBSET Keys
      /\ head = None => part # "done" /\ x = <<>>
  BY <1>1, <1>2 DEF Typed, TInv, Backed, NoHead, Parts, x
<1>8. /\ mem'[p] \in Memory /\ mem'[p].open = mem[p].open
      /\ mem'[p].rgm = IF part = "rgm" THEN x ELSE mem[p].rgm
      /\ head = None => mem'[p] = mem[p]
  <2>1. ASSUME head = None PROVE mem[p] = Closed
    BY <2>1 DEF TInv, NoHead
  <2>2. CASE part = "tree"
    BY <1>4, <1>6, <1>7, <2>1, <2>2 DEF Memory, Closed
  <2>3. CASE part = "rgm"
    BY <1>4, <1>6, <1>7, <2>1, <2>3 DEF Memory, Closed
  <2>4. CASE part = "done"
    BY <1>4, <1>6, <1>7, <2>4 DEF Memory
  <2> QED BY <1>2, <2>2, <2>3, <2>4 DEF Parts
<1>9. mem' \in [Processes -> Memory]
  BY <1>1, <1>6, <1>8 DEF Typed
<1>10. Moves(p) /\ OthersKept(p)
  BY <1>5, <1>6, <1>8 DEF Moves, OthersKept
<1>11. Grows
  BY <1>3 DEF Grows
<1>12. Form(p)'
  BY <1>1, <1>3, <1>5, <1>10, <1>11, LoadForm
<1>13. Typed'
  BY <1>1, <1>3, <1>5, <1>9 DEF Typed
<1>14. FilesThere' /\ NoHead'
  BY <1>3, <1>6, <1>8 DEF TInv, FilesThere, NoHead
<1>15. Backed'
  <2>1. \A q \in Processes : ToSet(mem'[q].rgm) \subseteq library /\ work'[q].head = work[q].head
    BY <1>5, <1>6, <1>7, <1>8 DEF TInv, Backed
  <2> QED BY <1>3, <2>1 DEF TInv, Backed, FrontRowBacked
<1> QED BY <1>10, <1>11, <1>12, <1>13, <1>14, <1>15, Assemble

LEMMA DigestFrom ==
  ASSUME NEW p \in Processes, TInv, AtDigest(p)
  PROVE  /\ work[p].plan # <<>> /\ work[p].call # "none"
         /\ files["tree"] # None /\ files["rgm"] # None
<1>1. Form(p) /\ (head # None => files["tree"] # None /\ files["rgm"] # None)
  BY DEF TInv, FilesThere
<1>2. CASE OverHead(p, 7)
  <2>1. On(p, OverPlan, 7) /\ head # None /\ work[p].call = "open"
    BY <1>2 DEF OverHead
  <2> QED BY <1>1, <2>1, OverSays
<1>3. CASE Reloading(p, 7)
  <2>1. On(p, ReloadPlan, 7) /\ head # None /\ work[p].call = "reload"
    BY <1>1, <1>3 DEF Reloading, Form
  <2> QED BY <1>1, <2>1, ReloadSays
<1>4. CASE Restoring(p, 7)
  <2>1. On(p, RestorePlan, 7) /\ head # None /\ work[p].call = "restore"
    BY <1>1, <1>4 DEF Restoring, Form
  <2> QED BY <1>1, <2>1, RestoreSays
<1>5. CASE Seeding(p) /\ SeedFiles(p, 3)
  <2>1. On(p, SeededPlan, 3) /\ work[p].call = "open" /\ files["tree"] # None /\ files["rgm"] # None
    BY <1>5 DEF Seeding, SeedFiles
  <2> QED BY <2>1, SeededSays
<1> QED BY <1>2, <1>3, <1>4, <1>5 DEF AtDigest

LEMMA DigestForm ==
  ASSUME NEW p \in Processes, TInv, AtDigest(p), Proceed(p), mem'[p].open = mem[p].open, Grows,
         UNCHANGED <<users, head>>
  PROVE  Form(p)'
<1>1. Form(p) /\ Typed
  BY DEF TInv
<1>2. work[p].plan # <<>> /\ work[p].call # "none"
  BY DigestFrom
<1>3. /\ AtEnd(p) => work'[p] = Idle
      /\ ~AtEnd(p) => Moves(p) /\ work'[p].head = work[p].head
  BY <1>1, <1>2, ProceedTyped DEF Moves
<1>4. (mem'[p].open => head' # None) /\ p \in users'
  BY <1>1, <1>2 DEF Form, Idle
<1>5. CASE OverHead(p, 7)
  <2>1. On(p, OverPlan, 7)
    BY <1>5 DEF OverHead
  <2>2. ~AtEnd(p)
    BY <2>1, OverSays
  <2>3. 7 + 1 \in 1..8 /\ OverHead(p, 7 + 1)'
    BY <1>3, <1>5, <2>2, OverNext
  <2> QED BY <1>4, <2>3 DEF Form, Planned
<1>6. CASE Reloading(p, 7)
  <2>1. On(p, ReloadPlan, 7) /\ mem[p].open
    BY <1>6 DEF Reloading
  <2>2. AtEnd(p)
    BY <2>1, ReloadSays
  <2>3. Resting(p)'
    BY <1>3, <2>1, <2>2 DEF Resting
  <2> QED BY <1>4, <2>3 DEF Form, Planned
<1>7. CASE Restoring(p, 7)
  <2>1. On(p, RestorePlan, 7) /\ mem[p].open
    BY <1>7 DEF Restoring
  <2>2. AtEnd(p)
    BY <2>1, RestoreSays
  <2>3. Resting(p)'
    BY <1>3, <2>1, <2>2 DEF Resting
  <2> QED BY <1>4, <2>3 DEF Form, Planned
<1>8. CASE Seeding(p) /\ SeedFiles(p, 3)
  <2>1. On(p, SeededPlan, 3)
    BY <1>8 DEF SeedFiles
  <2>2. ~AtEnd(p)
    BY <2>1, SeededSays
  <2>3. 3 + 1 \in 1..4 /\ SeedFiles(p, 3 + 1)'
    BY <1>3, <1>8, <2>2, FilesNext
  <2>4. Seeding(p)'
    BY <1>3, <1>8, <2>2, <2>3 DEF Seeding, Moves
  <2> QED BY <1>4, <2>4 DEF Form, Planned
<1> QED BY <1>5, <1>6, <1>7, <1>8 DEF AtDigest

LEMMA DigestTyped ==
  ASSUME NEW p \in Processes, TInv, LoadDigest(p), raced' \in BOOLEAN
  PROVE  TInv'
<1> DEFINE d == Digest(files)
           m == [mem[p] EXCEPT !.digest = d]
<1>1. Form(p) /\ Typed /\ AtDigest(p) /\ mem[p] \in Memory
  BY PlannedDoes DEF TInv, Form, Does, LoadDigest, Typed
<1>2. work[p].plan # <<>> /\ files["tree"] # None /\ files["rgm"] # None
  BY <1>1, DigestFrom
<1>3. /\ mem' = [mem EXCEPT ![p].digest = d] /\ Proceed(p)
      /\ UNCHANGED <<users, head, library, outcomes, saved, files, crashes>>
  BY DEF LoadDigest, store
<1>4. d \in Turns \X Turns /\ (head = None => d = <<<<>>, <<>>>>)
  BY <1>1, <1>2 DEF Typed, TInv, NoHead, Digest
<1>5. /\ work' \in [Processes -> Work]
      /\ \A q \in Processes : q # p => work'[q] = work[q]
      /\ work'[p] = Idle \/ work'[p].head = work[p].head
  BY <1>1, <1>2, <1>3, ProceedTyped
<1> HIDE DEF d
<1>6. m \in Memory /\ m.open = mem[p].open /\ m.rgm = mem[p].rgm
  BY <1>1, <1>4 DEF Memory
<1>7. head = None => m = mem[p]
  <2>1. ASSUME head = None PROVE mem[p] = Closed
    BY <2>1 DEF TInv, NoHead
  <2> QED BY <1>4, <2>1 DEF Closed
<1>8. mem'[p] = m /\ mem' \in [Processes -> Memory] /\ \A q \in Processes : q # p => mem'[q] = mem[q]
  BY <1>1, <1>3, <1>6 DEF Typed
<1> HIDE DEF m
<1>9. Grows /\ OthersKept(p)
  BY <1>3, <1>5, <1>8 DEF Grows, OthersKept
<1>10. Form(p)'
  BY <1>1, <1>3, <1>6, <1>8, <1>9, DigestForm
<1>11. Typed'
  BY <1>1, <1>3, <1>5, <1>8 DEF Typed
<1>12. FilesThere' /\ NoHead'
  BY <1>3, <1>7, <1>8 DEF TInv, FilesThere, NoHead
<1>13. Backed'
  <2>1. \A q \in Processes : mem'[q].rgm = mem[q].rgm
    BY <1>6, <1>8
  <2>2. \A q \in Processes : work'[q].head # None => work'[q].head = work[q].head
    BY <1>5 DEF Idle
  <2> QED BY <1>3, <2>1, <2>2 DEF TInv, Backed, FrontRowBacked
<1> QED BY <1>9, <1>10, <1>11, <1>12, <1>13, Assemble

\* The plan of a start.
LEMMA OpenPlanIs ==
  ASSUME TInv
  PROVE  /\ OpenPlan \in Seq(Statements)
         /\ \/ head # None /\ OpenPlan = OverPlan
            \/ OpenPlan = FreshPlan
            \/ files["tree"] # None /\ OpenPlan = HalfPlan
            \/ files["tree"] # None /\ files["rgm"] # None /\ OpenPlan = SeededPlan
<1>1. CASE head # None
  BY <1>1, OverIs DEF OpenPlan, OverPlan, L
<1>2. CASE head = None
  <2> DEFINE a == <<L("tree")>>
             b == <<L("rgm"), <<"digest">>>>
             s == <<<<"seed">>>>
             c == <<<<"create">>>>
             tail == IF files["tree"] = None THEN Persist \o c
                     ELSE a \o IF files["rgm"] = None THEN Persist ELSE b
  <2>1. files["done"] = None
    BY <1>2 DEF TInv, NoHead
  <2>2. OpenPlan = (<<>> \o tail) \o s
    BY <1>2, <2>1 DEF OpenPlan, L
  <2>3. /\ a \in Seq(Statements) /\ b \in Seq(Statements) /\ c \in Seq(Statements)
        /\ s \in Seq(Statements) /\ Persist \in Seq(Statements)
    BY Pieces DEF Statements, L, Parts
  <2>4. FreshPlan = (Persist \o c) \o s /\ HalfPlan = (a \o Persist) \o s /\ SeededPlan = (a \o b) \o s
    BY DEF FreshPlan, HalfPlan, SeededPlan
  <2> HIDE DEF a, b, c, s
  <2>5. tail \in Seq(Statements)
    BY <2>3, ConcatProperties
  <2>6. <<>> \o tail = tail
    <3> HIDE DEF tail
    <3> QED BY <2>5, ConcatEmptySeq
  <2> QED BY <2>2, <2>4, <2>6, FreshIs, HalfIs, SeededIs
<1> QED BY <1>1, <1>2

LEMMA OpenTyped ==
  ASSUME NEW p \in Processes, TInv, Open(p), raced' \in BOOLEAN
  PROVE  TInv'
<1> DEFINE s == IF head = None THEN Default ELSE head.settings
           m == [mem[p] EXCEPT !.settings = s]
<1>1. Form(p) /\ Typed /\ mem[p] \in Memory /\ head \in Heads \cup {None}
  BY DEF TInv, Typed
<1>2. /\ p \in users /\ ~mem[p].open
      /\ Start(p, "open", OpenPlan, head)
      /\ mem' = [mem EXCEPT ![p].settings = s]
      /\ UNCHANGED <<users, head, library, outcomes, saved, files, crashes>>
  BY DEF Open, store
<1>3. /\ work' \in [Processes -> Work]
      /\ work'[p] = [call |-> "open", plan |-> OpenPlan, head |-> head]
      /\ \A q \in Processes : q # p => work'[q] = work[q]
  <2>1. "open" \in CallNames /\ OpenPlan \in Seq(Statements)
    BY OpenPlanIs DEF CallNames
  <2> HIDE DEF OpenPlan
  <2> QED BY <1>1, <1>2, <2>1, StartTyped
<1>4. s \in Settings
  BY <1>1, RuntimeAssumption DEF Heads
<1> HIDE DEF s
<1>5. m \in Memory /\ m.open = mem[p].open /\ m.rgm = mem[p].rgm
  BY <1>1, <1>4 DEF Memory
<1>6. head = None => m = mem[p]
  <2>1. ASSUME head = None PROVE mem[p] = Closed
    BY <2>1 DEF TInv, NoHead
  <2> QED BY <2>1 DEF Closed, s
<1>7. mem'[p] = m /\ mem' \in [Processes -> Memory] /\ \A q \in Processes : q # p => mem'[q] = mem[q]
  BY <1>1, <1>2, <1>5 DEF Typed
<1> HIDE DEF m
<1>8. Grows /\ OthersKept(p)
  BY <1>2, <1>3, <1>7 DEF Grows, OthersKept
<1>9. Form(p)'
  <2>1. \A plan \in Seq(Statements) : OpenPlan = plan /\ plan # <<>> => On(p, plan, 1)'
    <3> TAKE plan \in Seq(Statements)
    <3>1. HAVE OpenPlan = plan /\ plan # <<>>
    <3>2. Rest(plan, plan, 1)
      BY <3>1, Begins
    <3>3. work'[p].plan = plan
      BY <1>3, <3>1
    <3> QED BY <3>2, <3>3 DEF On
  <2>2. ~mem'[p].open /\ work'[p].call = "open" /\ work'[p].head = head
    BY <1>2, <1>3, <1>5, <1>7
  <2>3. CASE head # None /\ OpenPlan = OverPlan
    <3>1. On(p, OverPlan, 1)'
      <4>1. OverPlan # <<>> /\ OverPlan \in Seq(Statements)
        BY OverIs
      <4> QED BY <2>1, <2>3, <4>1
    <3>2. OverHead(p, 1)'
      BY <1>2, <2>2, <2>3, <3>1 DEF OverHead
    <3> QED BY <1>2, <2>2, <3>2 DEF Planned, Form
  <2>4. CASE OpenPlan = FreshPlan
    <3>1. On(p, FreshPlan, 1)'
      <4>1. FreshPlan # <<>> /\ FreshPlan \in Seq(Statements)
        BY FreshIs
      <4> QED BY <2>1, <2>4, <4>1
    <3>2. SeedEmpty(p, 1)'
      BY <3>1 DEF SeedEmpty
    <3> QED BY <1>2, <2>2, <3>2 DEF Planned, Form, Seeding
  <2>5. CASE files["tree"] # None /\ OpenPlan = HalfPlan
    <3>1. On(p, HalfPlan, 1)'
      <4>1. HalfPlan \in Seq(Statements) /\ Len(HalfPlan) # 0
        BY HalfIs
      <4>2. HalfPlan # <<>>
        BY <4>1
      <4> QED BY <2>1, <2>5, <4>1, <4>2
    <3>2. SeedTree(p, 1)'
      BY <1>2, <2>5, <3>1 DEF SeedTree
    <3> QED BY <1>2, <2>2, <3>2 DEF Planned, Form, Seeding
  <2>6. CASE files["tree"] # None /\ files["rgm"] # None /\ OpenPlan = SeededPlan
    <3>1. On(p, SeededPlan, 1)'
      <4>1. SeededPlan # <<>> /\ SeededPlan \in Seq(Statements)
        BY SeededIs
      <4> QED BY <2>1, <2>6, <4>1
    <3>2. SeedFiles(p, 1)'
      BY <1>2, <2>6, <3>1 DEF SeedFiles
    <3> QED BY <1>2, <2>2, <3>2 DEF Planned, Form, Seeding
  <2> QED BY <2>3, <2>4, <2>5, <2>6, OpenPlanIs
<1>10. Typed'
  BY <1>1, <1>2, <1>3, <1>7 DEF Typed
<1>11. FilesThere' /\ NoHead'
  BY <1>2, <1>6, <1>7 DEF TInv, FilesThere, NoHead
<1>12. Backed'
  <2>1. \A q \in Processes : mem'[q].rgm = mem[q].rgm
    BY <1>5, <1>7
  <2>2. \A q \in Processes : work'[q].head = head \/ work'[q].head = work[q].head
    BY <1>3
  <2> QED BY <1>2, <2>1, <2>2 DEF TInv, Backed, FrontRowBacked
<1> QED BY <1>8, <1>9, <1>10, <1>11, <1>12, Assemble

LEMMA OpenedFrom ==
  ASSUME NEW p \in Processes, TInv, AtLineage(p)
  PROVE  /\ work[p].call = "open" /\ ~mem[p].open
         /\ files["tree"] # None /\ files["rgm"] # None
         /\ Doing(p, "opened") => head # None /\ OverHead(p, 8)
         /\ Doing(p, "seed") => AtSeed(p)
<1>1. Form(p) /\ (head # None => files["tree"] # None /\ files["rgm"] # None)
  BY DEF TInv, FilesThere
<1>2. (Doing(p, "opened") => OverHead(p, 8)) /\ (Doing(p, "seed") => AtSeed(p))
  BY <1>1, PlannedDoes DEF Form, Does
<1> QED BY <1>1, <1>2 DEF AtLineage, OverHead, AtSeed, Seeding, SeedEmpty, SeedTree, SeedFiles

LEMMA CreateTyped ==
  ASSUME NEW p \in Processes, TInv, Create(p), raced' \in BOOLEAN
  PROVE  TInv'
<1>1. Form(p) /\ Typed /\ AtCreate(p) /\ work[p].plan # <<>>
  BY PlannedDoes DEF TInv, Form, Does, Create, Doing
<1>2. Advance(p) /\ UNCHANGED <<users, head, library, outcomes, saved, files, mem, crashes>>
  BY DEF Create
<1>3. /\ work' \in [Processes -> Work]
      /\ work'[p].call = work[p].call /\ work'[p].head = work[p].head
      /\ work'[p].plan = Tail(work[p].plan)
      /\ \A q \in Processes : q # p => work'[q] = work[q]
  BY <1>1, <1>2, AdvanceTyped
<1>4. Grows /\ OthersKept(p) /\ Moves(p)
  BY <1>2, <1>3 DEF Grows, OthersKept, Moves
<1>5. Typed' /\ FilesThere' /\ NoHead'
  BY <1>1, <1>2, <1>3 DEF TInv, Typed, FilesThere, NoHead
<1>6. Backed'
  <2>1. \A q \in Processes : work'[q].head = work[q].head
    BY <1>3
  <2> QED BY <1>2, <2>1 DEF TInv, Backed, FrontRowBacked
<1>7. Form(p)'
  <2>1. 3 + 1 \in 1..4 /\ SeedEmpty(p, 3 + 1)'
    BY <1>1, <1>4, EmptyNext DEF AtCreate
  <2>2. Seeding(p)'
    BY <1>1, <1>4, <2>1 DEF AtCreate, Seeding, Moves
  <2>3. p \in users /\ ~mem[p].open
    BY <1>1 DEF Form, AtCreate, Seeding, Idle
  <2> QED BY <1>2, <2>2, <2>3 DEF Form, Planned
<1> QED BY <1>4, <1>5, <1>6, <1>7, Assemble

LEMMA LineageTyped ==
  ASSUME NEW p \in Processes, TInv, Refused(p), raced' \in BOOLEAN
  PROVE  TInv'
<1>1. Form(p) /\ Typed /\ work[p].call = "open"
  BY OpenedFrom DEF TInv, Refused
<1>2. /\ Finish(p) /\ mem' = [mem EXCEPT ![p] = Closed]
      /\ UNCHANGED <<users, head, library, outcomes, saved, files, crashes>>
  BY DEF Refused, store
<1>3. work' \in [Processes -> Work] /\ work'[p] = Idle /\ \A q \in Processes : q # p => work'[q] = work[q]
  BY <1>1, <1>2, FinishTyped
<1>4. /\ mem' \in [Processes -> Memory] /\ mem'[p] = Closed
      /\ \A q \in Processes : q # p => mem'[q] = mem[q]
  BY <1>1, <1>2, NotNone DEF Typed
<1>5. Typed' /\ FilesThere' /\ NoHead'
  BY <1>1, <1>2, <1>3, <1>4 DEF Typed, TInv, FilesThere, NoHead
<1>6. Grows /\ OthersKept(p)
  BY <1>2, <1>3, <1>4 DEF Grows, OthersKept
<1>7. Backed'
  <2>1. ToSet(Closed.rgm) \subseteq library
    BY DEF Closed, ToSet
  <2> QED BY <1>2, <1>3, <1>4, <2>1 DEF TInv, Backed, FrontRowBacked, Idle
<1>8. Form(p)'
  <2>1. Resting(p)'
    BY <1>3, <1>4 DEF Resting
  <2>2. p \in users
    BY <1>1 DEF Form, Idle
  <2> QED BY <1>2, <1>4, <2>1, <2>2 DEF Form, Planned, Closed
<1> QED BY <1>5, <1>6, <1>7, <1>8, Assemble

LEMMA OpenedTyped ==
  ASSUME NEW p \in Processes, TInv, Opened(p), raced' \in BOOLEAN
  PROVE  TInv'
<1> DEFINE m == [mem[p] EXCEPT !.open = TRUE]
           h == [Image(mem[p]) EXCEPT !.tree = files["tree"], !.rgm = files["rgm"]]
<1>1. Form(p) /\ Typed /\ mem[p] \in Memory
  BY DEF TInv, Typed
<1>2. /\ work[p].call = "open" /\ files["tree"] # None /\ files["rgm"] # None
      /\ Doing(p, "opened") => head # None
  BY OpenedFrom DEF Opened
<1>3. /\ library' = library \cup ToSet(mem[p].rgm)
      /\ head' = IF Doing(p, "opened") THEN head ELSE h
      /\ mem' = [mem EXCEPT ![p].open = TRUE] /\ Finish(p)
      /\ UNCHANGED <<users, outcomes, saved, files, crashes>>
  BY DEF Opened
<1>4. /\ work' \in [Processes -> Work] /\ work'[p] = Idle
      /\ \A q \in Processes : q # p => work'[q] = work[q]
  BY <1>1, <1>3, FinishTyped
<1>5. h \in Heads /\ h # None /\ h.rgm = files["rgm"]
  <2>1. files["tree"] \in Turns /\ files["rgm"] \in Turns
    BY <1>1, <1>2 DEF Typed
  <2>2. h \in Heads
    BY <1>1, <2>1 DEF Memory, Heads, Image
  <2> QED BY <2>2, NotNone DEF Image
<1> HIDE DEF h
<1>6. m \in Memory /\ m.open = TRUE /\ m.rgm = mem[p].rgm
  BY <1>1 DEF Memory
<1>7. mem'[p] = m /\ mem' \in [Processes -> Memory] /\ \A q \in Processes : q # p => mem'[q] = mem[q]
  BY <1>1, <1>3, <1>6 DEF Typed
<1> HIDE DEF m
<1>8. head' # None /\ head' \in Heads \cup {None}
  BY <1>1, <1>2, <1>3, <1>5 DEF Typed
<1>9. Grows /\ OthersKept(p)
  BY <1>3, <1>4, <1>7, <1>8 DEF Grows, OthersKept
<1>10. ToSet(mem[p].rgm) \subseteq library
  BY DEF TInv, Backed
<1>11. library' = library
  BY <1>3, <1>10
<1>12. Typed'
  BY <1>1, <1>3, <1>4, <1>7, <1>8, <1>11 DEF Typed
<1>13. FilesThere' /\ NoHead'
  BY <1>2, <1>3, <1>8 DEF FilesThere, NoHead
<1>14. Backed'
  <2>1. ToSet(h.rgm) \subseteq library /\ (head # None => ToSet(head.rgm) \subseteq library)
    BY <1>2, <1>5 DEF TInv, Backed, FrontRowBacked
  <2>2. head' # None => ToSet(head'.rgm) \subseteq library
    BY <1>2, <1>3, <2>1
  <2>3. \A q \in Processes : mem'[q].rgm = mem[q].rgm
    BY <1>6, <1>7
  <2>4. \A q \in Processes : work'[q].head # None => work'[q].head = work[q].head
    BY <1>4 DEF Idle
  <2> QED BY <1>3, <1>11, <2>2, <2>3, <2>4 DEF TInv, Backed, FrontRowBacked
<1>15. Form(p)'
  <2>1. Resting(p)'
    BY <1>4, <1>6, <1>7 DEF Resting
  <2>2. p \in users
    BY <1>1, <1>2 DEF Form, Idle
  <2> QED BY <1>3, <1>8, <2>1, <2>2 DEF Form, Planned
<1> QED BY <1>9, <1>12, <1>13, <1>14, <1>15, Assemble

LEMMA CommitTyped ==
  ASSUME NEW p \in Processes, NEW k \in Keys, TInv, Commit(p, k), raced' \in BOOLEAN
  PROVE  TInv'
<1> DEFINE plan == <<<<"commit", k>>>>
<1>1. Form(p) /\ Typed /\ mem[p] \in Memory
  BY DEF TInv, Typed
<1>2. /\ mem[p].open /\ k \notin mem[p].done
      /\ Len(mem[p].tree) < MaxLength /\ Len(mem[p].rgm) < MaxLength
      /\ library' = library \cup {k} /\ Start(p, "commit", plan, None)
      /\ UNCHANGED <<users, head, outcomes, saved, files, mem, crashes>>
  BY DEF Commit, Ready, Retain
<1>3. /\ work' \in [Processes -> Work]
      /\ work'[p] = [call |-> "commit", plan |-> plan, head |-> None]
      /\ \A q \in Processes : q # p => work'[q] = work[q]
  <2>1. "commit" \in CallNames /\ plan \in Seq(Statements)
    BY DEF CallNames, Statements
  <2> HIDE DEF plan
  <2> QED BY <1>1, <1>2, <2>1, StartTyped
<1>4. Grows /\ OthersKept(p)
  BY <1>2, <1>3 DEF Grows, OthersKept
<1>5. Typed' /\ FilesThere' /\ NoHead'
  BY <1>1, <1>2, <1>3 DEF TInv, Typed, FilesThere, NoHead
<1>6. Backed'
  <2>1. \A q \in Processes : work'[q].head # None => work'[q].head = work[q].head
    BY <1>3
  <2> QED BY <1>2, <2>1 DEF TInv, Backed, FrontRowBacked
<1>7. Form(p)'
  <2>1. Trying(p, k)'
    BY <1>2, <1>3 DEF Trying
  <2>2. p \in users /\ head # None
    BY <1>1, <1>2 DEF Form, Closed
  <2> QED BY <1>2, <2>1, <2>2 DEF Form, Planned
<1> QED BY <1>4, <1>5, <1>6, <1>7, Assemble

LEMMA RefusedTyped ==
  ASSUME NEW p \in Processes, TInv, CommitRefused(p), raced' \in BOOLEAN
  PROVE  TInv'
<1>1. Form(p) /\ Typed
  BY DEF TInv
<1>2. PICK k \in Keys : Trying(p, k)
  BY <1>1, PlannedDoes DEF Form, Does, CommitRefused
<1>3. Finish(p) /\ UNCHANGED <<users, head, library, outcomes, saved, files, mem, crashes>>
  BY DEF CommitRefused, store
<1>4. /\ work' \in [Processes -> Work] /\ work'[p] = Idle
      /\ \A q \in Processes : q # p => work'[q] = work[q]
  BY <1>1, <1>3, FinishTyped
<1>5. Grows /\ OthersKept(p)
  BY <1>3, <1>4 DEF Grows, OthersKept
<1>6. Typed' /\ FilesThere' /\ NoHead'
  BY <1>1, <1>3, <1>4 DEF TInv, Typed, FilesThere, NoHead
<1>7. Backed'
  <2>1. \A q \in Processes : work'[q].head # None => work'[q].head = work[q].head
    BY <1>4 DEF Idle
  <2> QED BY <1>3, <2>1 DEF TInv, Backed, FrontRowBacked
<1>8. Form(p)'
  <2>1. Resting(p)'
    BY <1>2, <1>3, <1>4 DEF Resting, Trying
  <2>2. p \in users
    BY <1>1, <1>2 DEF Form, Idle, Trying
  <2> QED BY <1>1, <1>3, <2>1, <2>2 DEF Form, Planned
<1> QED BY <1>5, <1>6, <1>7, <1>8, Assemble

\* One key more.
LEMMA AppendTurn ==
  ASSUME NEW t \in Turns, NEW k \in Keys, Len(t) < MaxLength
  PROVE  /\ Append(t, k) \in Turns /\ Len(Append(t, k)) = Len(t) + 1 /\ Len(t) \in Nat
         /\ ToSet(Append(t, k)) = ToSet(t) \cup {k}
         /\ Append(t, k)[Len(t) + 1] = k
         /\ \A i \in DOMAIN t : Append(t, k)[i] = t[i]
         /\ DOMAIN Append(t, k) = DOMAIN t \cup {Len(t) + 1} /\ DOMAIN t = 1..Len(t)
<1>1. PICK n \in 0..MaxLength : t \in [1..n -> Keys]
  BY DEF Turns
<1>2. n \in Nat /\ MaxLength \in Nat
  BY <1>1, RuntimeAssumption
<1>3. t \in Seq(Keys) /\ Len(t) = n
  BY <1>1, <1>2
<1>4. Append(t, k) \in [1..(n + 1) -> Keys] /\ n + 1 \in 0..MaxLength
  <2>1. Append(t, k) \in Seq(Keys) /\ Len(Append(t, k)) = n + 1
    BY <1>3, AppendProperties
  <2>2. Append(t, k) \in [1..Len(Append(t, k)) -> Keys]
    BY <2>1, LenProperties
  <2> QED BY <1>2, <1>3, <2>1, <2>2
<1>5. Append(t, k) \in Turns
  BY <1>4 DEF Turns
<1>6. /\ Append(t, k)[n + 1] = k /\ \A i \in 1..n : Append(t, k)[i] = t[i]
      /\ DOMAIN Append(t, k) = 1..(n + 1) /\ DOMAIN t = 1..n
  BY <1>1, <1>2, <1>3
<1>7. 1..(n + 1) = (1..n) \cup {n + 1}
  BY <1>2
<1>8. ToSet(Append(t, k)) = ToSet(t) \cup {k}
  BY <1>2, <1>6, <1>7 DEF ToSet
<1> QED BY <1>2, <1>3, <1>5, <1>6, <1>7, <1>8

LEMMA LearnsTyped ==
  ASSUME NEW p \in Processes, TInv, CommitLearns(p), raced' \in BOOLEAN
  PROVE  TInv'
<1>1. Form(p) /\ Typed /\ mem[p] \in Memory
  BY DEF TInv, Typed
<1> DEFINE k == Head(work[p].plan)[2]
           m == mem[p]
           n == [m EXCEPT !.tree = Append(@, k), !.rgm = Append(@, k),
                          !.done = Committed(@, k)]
           tick == Len(n.tree)
           plan == <<<<"readhead">>>> \o Project
<1>2. k \in Keys /\ Trying(p, k)
  <2>1. PICK x \in Keys : Trying(p, x)
    BY <1>1, PlannedDoes DEF Form, Does, CommitLearns
  <2>2. Head(work[p].plan)[2] = x
    BY <2>1 DEF Trying
  <2> QED BY <2>1, <2>2
<1>4. /\ head' = Image(n)
      /\ mem' = [mem EXCEPT ![p] = [n EXCEPT !.digest = Digest(n)]]
      /\ outcomes' = IF k \in Anchored /\ outcomes[k] = 0 THEN [outcomes EXCEPT ![k] = tick]
                     ELSE outcomes
      /\ Start(p, "commit", plan, None)
      /\ UNCHANGED <<users, library, saved, files, crashes>>
  BY DEF CommitLearns
<1> HIDE DEF k
<1>5. /\ m.tree \in Turns /\ m.rgm \in Turns /\ m.done \in SUBSET Keys /\ m.settings \in Settings
      /\ Len(m.tree) < MaxLength /\ Len(m.rgm) < MaxLength /\ m.open
      /\ k \in library
  BY <1>1, <1>2 DEF Memory, Trying
<1>6. Append(m.tree, k) \in Turns /\ Append(m.rgm, k) \in Turns /\ m.done \cup {k} \in SUBSET Keys
      /\ Len(Append(m.tree, k)) \in 0..MaxLength
      /\ ToSet(Append(m.rgm, k)) = ToSet(m.rgm) \cup {k}
  BY <1>2, <1>5, AppendTurn, RuntimeAssumption
<1>7. /\ n.tree = Append(m.tree, k) /\ n.rgm = Append(m.rgm, k) /\ n.done = m.done \cup {k}
      /\ n.settings = m.settings /\ n.open = TRUE /\ n \in Memory
  BY <1>1, <1>5, <1>6 DEF Memory, Committed
<1> HIDE DEF n
<1>8. Digest(n) \in Turns \X Turns /\ Image(n) \in Heads /\ Image(n).rgm = n.rgm
  BY <1>6, <1>7 DEF Digest, Image, Heads, Memory
<1>9. Image(n) # None /\ tick \in 0..MaxLength
  BY <1>6, <1>7, <1>8, NotNone
<1>10. [n EXCEPT !.digest = Digest(n)] \in Memory /\ [n EXCEPT !.digest = Digest(n)].open = TRUE
       /\ [n EXCEPT !.digest = Digest(n)].rgm = n.rgm
  BY <1>7, <1>8 DEF Memory
<1>11. /\ mem'[p] \in Memory /\ mem'[p].open = TRUE /\ mem'[p].rgm = n.rgm
       /\ mem' \in [Processes -> Memory] /\ \A q \in Processes : q # p => mem'[q] = mem[q]
  BY <1>1, <1>4, <1>10 DEF Typed
<1>12. /\ work' \in [Processes -> Work]
       /\ work'[p] = [call |-> "commit", plan |-> plan, head |-> None]
       /\ \A q \in Processes : q # p => work'[q] = work[q]
  <2>1. "commit" \in CallNames /\ plan \in Seq(Statements) /\ plan = LearntPlan
    BY LearntIs DEF CallNames, LearntPlan
  <2> HIDE DEF plan
  <2> QED BY <1>1, <1>4, <2>1, StartTyped
<1>13. outcomes' \in [Keys -> 0..MaxLength]
  BY <1>1, <1>4, <1>9 DEF Typed
<1>14. Grows /\ OthersKept(p)
  BY <1>4, <1>9, <1>11, <1>12 DEF Grows, OthersKept
<1>15. Typed'
  BY <1>1, <1>4, <1>8, <1>11, <1>12, <1>13 DEF Typed
<1>16. head # None
  BY <1>1, <1>5 DEF Form
<1>17. FilesThere' /\ NoHead'
  BY <1>4, <1>9, <1>16 DEF TInv, FilesThere, NoHead
<1>18. Backed'
  <2>1. ToSet(n.rgm) \subseteq library
    BY <1>5, <1>6, <1>7 DEF TInv, Backed
  <2>2. ToSet(head'.rgm) \subseteq library
    BY <1>4, <1>8, <2>1
  <2>3. \A q \in Processes : ToSet(mem'[q].rgm) \subseteq library
    BY <1>11, <2>1 DEF TInv, Backed
  <2>4. \A q \in Processes : work'[q].head # None => work'[q].head = work[q].head
    BY <1>12
  <2> QED BY <1>4, <2>2, <2>3, <2>4 DEF TInv, Backed, FrontRowBacked
<1>19. Form(p)'
  <2>1. Learnt(p, 1)'
    <3>1. LearntPlan # <<>> /\ LearntPlan \in Seq(Statements) /\ plan = LearntPlan
      BY LearntIs DEF LearntPlan
    <3>2. Rest(LearntPlan, LearntPlan, 1)
      BY <3>1, Begins
    <3>3. work'[p].plan = LearntPlan
      BY <1>12, <3>1
    <3>4. On(p, LearntPlan, 1)'
      BY <3>2, <3>3 DEF On
    <3> QED BY <1>11, <1>12, <3>4 DEF Learnt
  <2>2. p \in users
    BY <1>1, <1>2 DEF Form, Idle, Trying
  <2> QED BY <1>4, <1>9, <2>1, <2>2 DEF Form, Planned
<1> QED BY <1>14, <1>15, <1>17, <1>18, <1>19, Assemble

LEMMA ReloadsTyped ==
  ASSUME NEW p \in Processes, TInv, CommitReloads(p), raced' \in BOOLEAN
  PROVE  TInv'
<1> DEFINE plan == Project \o <<<<"settings">>>> \o Reload
<1>1. Form(p) /\ Typed /\ mem[p] \in Memory
  BY DEF TInv, Typed
<1>2. PICK k \in Keys : Trying(p, k)
  BY <1>1, PlannedDoes DEF Form, Does, CommitReloads
<1>3. /\ Start(p, "reload", plan, head)
      /\ UNCHANGED <<users, head, library, outcomes, saved, files, mem, crashes>>
  BY DEF CommitReloads, store
<1>4. mem[p].open /\ head # None /\ head \in Heads /\ p \in users
  BY <1>1, <1>2 DEF Form, Trying, Typed, Idle
<1>5. /\ work' \in [Processes -> Work]
      /\ work'[p] = [call |-> "reload", plan |-> plan, head |-> head]
      /\ \A q \in Processes : q # p => work'[q] = work[q]
  <2>1. "reload" \in CallNames /\ plan \in Seq(Statements) /\ plan = ReloadPlan
    BY ReloadIs DEF CallNames, ReloadPlan
  <2> HIDE DEF plan
  <2> QED BY <1>1, <1>3, <1>4, <2>1, StartTyped
<1>6. Grows /\ OthersKept(p)
  BY <1>3, <1>5 DEF Grows, OthersKept
<1>7. Typed'
  BY <1>1, <1>3, <1>5 DEF Typed
<1>8. FilesThere' /\ NoHead'
  BY <1>3, <1>4 DEF TInv, FilesThere, NoHead
<1>9. Backed'
  <2>1. \A q \in Processes : work'[q].head = head \/ work'[q].head = work[q].head
    BY <1>5
  <2> QED BY <1>3, <2>1 DEF TInv, Backed, FrontRowBacked
<1>10. Form(p)'
  <2>1. Reloading(p, 1)'
    <3>1. ReloadPlan # <<>> /\ ReloadPlan \in Seq(Statements) /\ plan = ReloadPlan
      BY ReloadIs DEF ReloadPlan
    <3>2. Rest(ReloadPlan, ReloadPlan, 1)
      BY <3>1, Begins
    <3>3. work'[p].plan = ReloadPlan
      BY <1>5, <3>1
    <3>4. On(p, ReloadPlan, 1)'
      BY <3>2, <3>3 DEF On
    <3> QED BY <1>3, <1>4, <1>5, <3>4 DEF Reloading
  <2> QED BY <1>3, <1>4, <2>1 DEF Form, Planned
<1> QED BY <1>6, <1>7, <1>8, <1>9, <1>10, Assemble

LEMMA ReadHeadTyped ==
  ASSUME NEW p \in Processes, TInv, ReadHead(p), raced' \in BOOLEAN
  PROVE  TInv'
<1>1. Form(p) /\ Typed /\ (Learnt(p, 1) \/ Restoring(p, 1)) /\ work[p].plan # <<>>
  BY PlannedDoes DEF TInv, Form, Does, ReadHead, Doing
<1>2. AdvanceWith(p, head) /\ UNCHANGED <<users, head, library, outcomes, saved, files, mem, crashes>>
  BY DEF ReadHead, store
<1>3. head # None /\ head \in Heads \cup {None} /\ p \in users
  BY <1>1 DEF Form, Typed, Learnt, Restoring, Idle
<1>4. /\ work' \in [Processes -> Work]
      /\ work'[p].call = work[p].call /\ work'[p].head = head
      /\ work'[p].plan = Tail(work[p].plan)
      /\ \A q \in Processes : q # p => work'[q] = work[q]
  BY <1>1, <1>2, <1>3, AdvanceWithTyped
<1>5. Grows /\ OthersKept(p) /\ Moves(p)
  BY <1>2, <1>4 DEF Grows, OthersKept, Moves
<1>6. Typed' /\ FilesThere' /\ NoHead'
  BY <1>1, <1>2, <1>4 DEF TInv, Typed, FilesThere, NoHead
<1>7. Backed'
  <2>1. \A q \in Processes : work'[q].head = head \/ work'[q].head = work[q].head
    BY <1>4
  <2> QED BY <1>2, <2>1 DEF TInv, Backed, FrontRowBacked
<1>8. Form(p)'
  <2>1. CASE Learnt(p, 1)
    <3>1. 1 + 1 \in 1..4 /\ Learnt(p, 1 + 1)'
      BY <1>3, <1>4, <1>5, <2>1, LearntNext
    <3> QED BY <1>2, <1>3, <3>1 DEF Form, Planned
  <2>2. CASE Restoring(p, 1)
    <3>1. 1 + 1 \in 1..7 /\ Restoring(p, 1 + 1)'
      BY <1>3, <1>4, <1>5, <2>2, RestoreNext
    <3> QED BY <1>2, <1>3, <3>1 DEF Form, Planned
  <2> QED BY <1>1, <2>1, <2>2
<1> QED BY <1>5, <1>6, <1>7, <1>8, Assemble

LEMMA AdoptTyped ==
  ASSUME NEW p \in Processes, TInv, Adopt(p), raced' \in BOOLEAN
  PROVE  TInv'
<1> DEFINE m == [mem[p] EXCEPT !.settings = work[p].head.settings, !.done = work[p].head.done]
<1>1. Form(p) /\ Typed /\ Reloading(p, 4) /\ work[p].plan # <<>> /\ mem[p] \in Memory /\ work[p] \in Work
  BY PlannedDoes DEF TInv, Form, Does, Adopt, Doing, Typed
<1>2. /\ mem' = [mem EXCEPT ![p].settings = work[p].head.settings, ![p].done = work[p].head.done]
      /\ Advance(p)
      /\ UNCHANGED <<users, head, library, outcomes, saved, files, crashes>>
  BY DEF Adopt, store
<1>3. head # None /\ p \in users /\ mem[p].open /\ work[p].head \in Heads
  BY <1>1 DEF Form, Reloading, Idle, Work
<1>4. /\ work' \in [Processes -> Work]
      /\ work'[p].call = work[p].call /\ work'[p].head = work[p].head
      /\ work'[p].plan = Tail(work[p].plan)
      /\ \A q \in Processes : q # p => work'[q] = work[q]
  BY <1>1, <1>2, AdvanceTyped
<1>5. m \in Memory /\ m.open = TRUE /\ m.rgm = mem[p].rgm
  BY <1>1, <1>3 DEF Memory, Heads
<1>6. mem'[p] = m /\ mem' \in [Processes -> Memory] /\ \A q \in Processes : q # p => mem'[q] = mem[q]
  BY <1>1, <1>2, <1>5 DEF Typed
<1> HIDE DEF m
<1>7. Grows /\ OthersKept(p) /\ Moves(p)
  BY <1>2, <1>3, <1>4, <1>5, <1>6 DEF Grows, OthersKept, Moves
<1>8. Typed' /\ FilesThere' /\ NoHead'
  BY <1>1, <1>2, <1>3, <1>4, <1>6 DEF TInv, Typed, FilesThere, NoHead
<1>9. Backed'
  <2>1. \A q \in Processes : mem'[q].rgm = mem[q].rgm /\ work'[q].head = work[q].head
    BY <1>4, <1>5, <1>6
  <2> QED BY <1>2, <2>1 DEF TInv, Backed, FrontRowBacked
<1>10. Form(p)'
  <2>1. 4 + 1 \in 1..7 /\ Reloading(p, 4 + 1)'
    BY <1>1, <1>4, <1>7, ReloadNext
  <2> QED BY <1>2, <1>3, <2>1 DEF Form, Planned
<1> QED BY <1>7, <1>8, <1>9, <1>10, Assemble

LEMMA SettingsTyped ==
  ASSUME NEW p \in Processes, NEW s \in Settings, TInv, UpdateSettings(p, s), raced' \in BOOLEAN
  PROVE  TInv'
<1> DEFINE m == [mem[p] EXCEPT !.settings = s]
           h == [Image(mem[p]) EXCEPT !.settings = s]
<1>1. Form(p) /\ Typed /\ mem[p] \in Memory
  BY DEF TInv, Typed
<1>2. /\ mem[p].open /\ work[p] = Idle /\ head' = h /\ mem' = [mem EXCEPT ![p].settings = s]
      /\ UNCHANGED <<users, library, outcomes, saved, files, work, crashes>>
  BY DEF UpdateSettings, Ready, Free
<1>3. m \in Memory /\ m.open = mem[p].open /\ m.rgm = mem[p].rgm
  BY <1>1 DEF Memory
<1>4. h \in Heads /\ h # None /\ h.rgm = mem[p].rgm
  <2>1. h \in Heads /\ h.rgm = mem[p].rgm
    BY <1>1 DEF Memory, Heads, Image
  <2> QED BY <2>1, NotNone
<1> HIDE DEF h
<1>5. mem'[p] = m /\ mem' \in [Processes -> Memory] /\ \A q \in Processes : q # p => mem'[q] = mem[q]
  BY <1>1, <1>2, <1>3 DEF Typed
<1> HIDE DEF m
<1>6. Grows /\ OthersKept(p)
  BY <1>2, <1>4, <1>5 DEF Grows, OthersKept
<1>7. Typed'
  BY <1>1, <1>2, <1>4, <1>5 DEF Typed
<1>8. head # None /\ p \in users
  BY <1>1, <1>2 DEF Form, Closed
<1>9. FilesThere' /\ NoHead'
  BY <1>2, <1>4, <1>8 DEF TInv, FilesThere, NoHead
<1>10. Backed'
  <2>1. ToSet(h.rgm) \subseteq library
    BY <1>4 DEF TInv, Backed
  <2>2. \A q \in Processes : mem'[q].rgm = mem[q].rgm
    BY <1>3, <1>5
  <2> QED BY <1>2, <2>1, <2>2 DEF TInv, Backed, FrontRowBacked
<1>11. Form(p)'
  <2>1. Resting(p)'
    BY <1>2, <1>3, <1>5 DEF Resting
  <2> QED BY <1>2, <1>4, <1>8, <2>1 DEF Form, Planned
<1> QED BY <1>6, <1>7, <1>9, <1>10, <1>11, Assemble

LEMMA SaveTyped ==
  ASSUME NEW p \in Processes, TInv, Save(p), raced' \in BOOLEAN
  PROVE  TInv'
<1>1. Form(p) /\ Typed
  BY DEF TInv
<1>2. /\ mem[p].open /\ Start(p, "save", SavePlan, None)
      /\ UNCHANGED <<users, head, library, outcomes, saved, files, mem, crashes>>
  BY DEF Save, Ready, store
<1>3. head # None /\ p \in users
  BY <1>1, <1>2 DEF Form, Closed
<1>4. /\ work' \in [Processes -> Work]
      /\ work'[p] = [call |-> "save", plan |-> SavePlan, head |-> None]
      /\ \A q \in Processes : q # p => work'[q] = work[q]
  <2>1. "save" \in CallNames /\ SavePlan \in Seq(Statements)
    BY SaveIs DEF CallNames
  <2> QED BY <1>1, <1>2, <2>1, StartTyped
<1>5. Grows /\ OthersKept(p)
  BY <1>2, <1>4 DEF Grows, OthersKept
<1>6. Typed' /\ FilesThere' /\ NoHead'
  BY <1>1, <1>2, <1>4 DEF TInv, Typed, FilesThere, NoHead
<1>7. Backed'
  <2>1. \A q \in Processes : work'[q].head # None => work'[q].head = work[q].head
    BY <1>4
  <2> QED BY <1>2, <2>1 DEF TInv, Backed, FrontRowBacked
<1>8. Form(p)'
  <2>1. Saving(p, 1)'
    <3>1. Rest(SavePlan, SavePlan, 1)
      BY SaveIs, Begins
    <3>2. On(p, SavePlan, 1)'
      BY <1>4, <3>1 DEF On
    <3> QED BY <1>2, <1>4, <3>2 DEF Saving
  <2> QED BY <1>2, <1>3, <2>1 DEF Form, Planned
<1> QED BY <1>5, <1>6, <1>7, <1>8, Assemble

\* The files under the keys and settings in memory, as a checkpoint has them.
Copy(p) == [Image(mem[p]) EXCEPT !.tree = files["tree"], !.rgm = files["rgm"]]

LEMMA CopyTyped ==
  ASSUME NEW p \in Processes, Typed, files["tree"] # None, files["rgm"] # None
  PROVE  /\ Copy(p) \in Heads /\ Copy(p) # None /\ Copy(p).tree = files["tree"]
         /\ Copy(p).rgm = files["rgm"] /\ Copy(p).done = mem[p].done
         /\ Copy(p).settings = mem[p].settings
<1>1. files["tree"] \in Turns /\ files["rgm"] \in Turns /\ mem[p] \in Memory
  BY DEF Typed
<1>2. Copy(p) \in Heads
  BY <1>1 DEF Memory, Heads, Image, Copy
<1> QED BY <1>1, <1>2, NotNone DEF Copy, Image

LEMMA CopiesTyped ==
  ASSUME NEW p \in Processes, TInv, SaveCopies(p), raced' \in BOOLEAN
  PROVE  TInv'
<1>1. Form(p) /\ Typed /\ Saving(p, 3) /\ work[p].plan # <<>>
  BY PlannedDoes DEF TInv, Form, Does, SaveCopies, Doing
<1>2. /\ AdvanceWith(p, Copy(p))
      /\ UNCHANGED <<users, head, library, outcomes, saved, files, mem, crashes>>
  BY DEF SaveCopies, store, Copy
<1>3. mem[p].open /\ head # None /\ p \in users /\ files["tree"] # None /\ files["rgm"] # None
  BY <1>1 DEF TInv, FilesThere, Form, Saving, Idle
<1>4. Copy(p) \in Heads /\ Copy(p) # None /\ Copy(p).rgm = files["rgm"]
  BY <1>1, <1>3, CopyTyped
<1>5. /\ work' \in [Processes -> Work]
      /\ work'[p].call = work[p].call /\ work'[p].head = Copy(p)
      /\ work'[p].plan = Tail(work[p].plan)
      /\ \A q \in Processes : q # p => work'[q] = work[q]
  BY <1>1, <1>2, <1>4, AdvanceWithTyped
<1>6. Grows /\ OthersKept(p) /\ Moves(p)
  BY <1>2, <1>5 DEF Grows, OthersKept, Moves
<1>7. Typed' /\ FilesThere' /\ NoHead'
  BY <1>1, <1>2, <1>5 DEF TInv, Typed, FilesThere, NoHead
<1>8. Backed'
  <2>1. ToSet(Copy(p).rgm) \subseteq library
    BY <1>3, <1>4 DEF TInv, Backed
  <2>2. \A q \in Processes : work'[q].head = work[q].head \/ work'[q].head = Copy(p)
    BY <1>5
  <2> QED BY <1>2, <2>1, <2>2 DEF TInv, Backed, FrontRowBacked
<1>9. Form(p)'
  <2>1. 3 + 1 \in 1..5 /\ Saving(p, 3 + 1)'
    BY <1>1, <1>4, <1>5, <1>6, SaveNext
  <2> QED BY <1>2, <1>3, <2>1 DEF Form, Planned
<1> QED BY <1>6, <1>7, <1>8, <1>9, Assemble

LEMMA SetsHeadTyped ==
  ASSUME NEW p \in Processes, TInv, SaveSetsHead(p), raced' \in BOOLEAN
  PROVE  TInv'
<1>1. Form(p) /\ Typed /\ Saving(p, 4) /\ work[p].plan # <<>>
  BY PlannedDoes DEF TInv, Form, Does, SaveSetsHead, Doing
<1>2. /\ head' = Copy(p) /\ Advance(p)
      /\ UNCHANGED <<users, library, outcomes, saved, files, mem, crashes>>
  BY DEF SaveSetsHead, Copy
<1>3. mem[p].open /\ head # None /\ p \in users /\ files["tree"] # None /\ files["rgm"] # None
      /\ work[p].head # None
  BY <1>1 DEF TInv, FilesThere, Form, Saving, Idle
<1>4. Copy(p) \in Heads /\ Copy(p) # None /\ Copy(p).rgm = files["rgm"]
  BY <1>1, <1>3, CopyTyped
<1>5. /\ work' \in [Processes -> Work]
      /\ work'[p].call = work[p].call /\ work'[p].head = work[p].head
      /\ work'[p].plan = Tail(work[p].plan)
      /\ \A q \in Processes : q # p => work'[q] = work[q]
  BY <1>1, <1>2, AdvanceTyped
<1>6. Grows /\ OthersKept(p) /\ Moves(p)
  BY <1>2, <1>4, <1>5 DEF Grows, OthersKept, Moves
<1>7. Typed'
  BY <1>1, <1>2, <1>4, <1>5 DEF Typed
<1>8. FilesThere' /\ NoHead'
  BY <1>2, <1>3, <1>4 DEF FilesThere, NoHead
<1>9. Backed'
  <2>1. ToSet(Copy(p).rgm) \subseteq library
    BY <1>3, <1>4 DEF TInv, Backed
  <2>2. \A q \in Processes : work'[q].head = work[q].head
    BY <1>5
  <2> QED BY <1>2, <2>1, <2>2 DEF TInv, Backed, FrontRowBacked
<1>10. Form(p)'
  <2>1. 4 + 1 \in 1..5 /\ Saving(p, 4 + 1)'
    BY <1>1, <1>3, <1>5, <1>6, SaveNext
  <2> QED BY <1>2, <1>3, <1>4, <2>1 DEF Form, Planned
<1> QED BY <1>6, <1>7, <1>8, <1>9, <1>10, Assemble

LEMMA MetadataTyped ==
  ASSUME NEW p \in Processes, TInv, SaveMetadata(p), raced' \in BOOLEAN
  PROVE  TInv'
<1> DEFINE c == [head |-> work[p].head, digest |-> mem[p].digest]
<1>1. Form(p) /\ Typed /\ Saving(p, 5) /\ work[p] \in Work /\ mem[p] \in Memory
  BY PlannedDoes DEF TInv, Form, Does, SaveMetadata, Typed
<1>2. /\ saved' = saved \cup {c} /\ Finish(p)
      /\ UNCHANGED <<users, head, library, outcomes, files, mem, crashes>>
  BY DEF SaveMetadata
<1>3. mem[p].open /\ head # None /\ p \in users /\ work[p].head # None
  BY <1>1 DEF Form, Saving, Idle
<1>4. c \in [head : Heads, digest : Turns \X Turns] /\ c.head = work[p].head
  BY <1>1, <1>3 DEF Work, Memory
<1>5. ToSet(c.head.rgm) \subseteq library
  BY <1>3 DEF TInv, Backed
<1> HIDE DEF c
<1>6. /\ work' \in [Processes -> Work] /\ work'[p] = Idle
      /\ \A q \in Processes : q # p => work'[q] = work[q]
  BY <1>1, <1>2, FinishTyped
<1>7. Grows /\ OthersKept(p)
  BY <1>2, <1>6 DEF Grows, OthersKept
<1>8. Typed'
  BY <1>1, <1>2, <1>4, <1>6 DEF Typed
<1>9. FilesThere' /\ NoHead'
  BY <1>2, <1>3 DEF TInv, FilesThere, NoHead
<1>10. Backed'
  <2>1. \A q \in Processes : work'[q].head # None => work'[q].head = work[q].head
    BY <1>6 DEF Idle
  <2> QED BY <1>2, <1>5, <2>1 DEF TInv, Backed, FrontRowBacked
<1>11. Form(p)'
  <2>1. Resting(p)'
    BY <1>2, <1>3, <1>6 DEF Resting
  <2> QED BY <1>2, <1>3, <2>1 DEF Form, Planned
<1> QED BY <1>7, <1>8, <1>9, <1>10, <1>11, Assemble

LEMMA RestoreTyped ==
  ASSUME NEW p \in Processes, TInv, Restore(p), raced' \in BOOLEAN
  PROVE  TInv'
<1>1. Form(p) /\ Typed /\ mem[p] \in Memory
  BY DEF TInv, Typed
<1>2. PICK c \in saved : LET h == c.head IN
        /\ ToSet(h.rgm) \subseteq library
        /\ head' = h
        /\ mem'  = [mem EXCEPT ![p].done = h.done, ![p].settings = h.settings]
  BY DEF Restore, Restored
<1> DEFINE h == c.head
           m == [mem[p] EXCEPT !.done = h.done, !.settings = h.settings]
<1>3. /\ mem[p].open /\ Start(p, "restore", RestorePlan, None)
      /\ UNCHANGED <<users, library, outcomes, saved, files, crashes>>
  BY DEF Restore, Ready, RestorePlan
<1>4. h \in Heads /\ h # None
  <2>1. h \in Heads
    BY <1>1 DEF Typed
  <2> QED BY <2>1, NotNone
<1>5. head # None /\ p \in users
  BY <1>1, <1>3 DEF Form, Closed
<1>6. m \in Memory /\ m.open = mem[p].open /\ m.rgm = mem[p].rgm
  BY <1>1, <1>4 DEF Memory, Heads
<1>7. mem'[p] = m /\ \A q \in Processes : q # p => mem'[q] = mem[q]
  BY <1>1, <1>2 DEF Typed
<1>8. mem' \in [Processes -> Memory]
  BY <1>1, <1>2, <1>6, <1>7 DEF Typed
<1> HIDE DEF m
<1>9. /\ work' \in [Processes -> Work]
      /\ work'[p] = [call |-> "restore", plan |-> RestorePlan, head |-> None]
      /\ \A q \in Processes : q # p => work'[q] = work[q]
  <2>1. "restore" \in CallNames /\ RestorePlan \in Seq(Statements)
    BY RestoreIs DEF CallNames
  <2> QED BY <1>1, <1>3, <2>1, StartTyped
<1>10. Grows /\ OthersKept(p)
  BY <1>2, <1>3, <1>4, <1>7, <1>9 DEF Grows, OthersKept
<1>11. Typed'
  BY <1>1, <1>2, <1>3, <1>4, <1>8, <1>9 DEF Typed
<1>12. FilesThere' /\ NoHead'
  BY <1>2, <1>3, <1>4, <1>5 DEF TInv, FilesThere, NoHead
<1>13. Backed'
  <2>1. \A q \in Processes : mem'[q].rgm = mem[q].rgm
    BY <1>6, <1>7
  <2>2. \A q \in Processes : work'[q].head # None => work'[q].head = work[q].head
    BY <1>9
  <2> QED BY <1>2, <1>3, <2>1, <2>2 DEF TInv, Backed, FrontRowBacked
<1>14. Form(p)'
  <2>1. Restoring(p, 1)'
    <3>1. Rest(RestorePlan, RestorePlan, 1)
      BY RestoreIs, Begins
    <3>2. On(p, RestorePlan, 1)'
      BY <1>9, <3>1 DEF On
    <3>3. work'[p].call = "restore"
      BY <1>9
    <3>4. mem'[p].open
      BY <1>3, <1>6, <1>7
    <3> QED BY <3>2, <3>3, <3>4 DEF Restoring
  <2> QED BY <1>2, <1>3, <1>4, <1>5, <2>1 DEF Form, Planned
<1> QED BY <1>10, <1>11, <1>12, <1>13, <1>14, Assemble

LEMMA CrashTyped ==
  ASSUME NEW p \in Processes, TInv, Crash(p), raced' \in BOOLEAN
  PROVE  TInv'
<1>1. Form(p) /\ Typed
  BY DEF TInv
<1>2. /\ crashes < MaxCrashes /\ crashes' = crashes + 1 /\ (mem[p].open \/ work[p] # Idle)
      /\ mem' = [mem EXCEPT ![p] = Closed] /\ Finish(p)
      /\ UNCHANGED <<users, head, library, outcomes, saved, files>>
  BY DEF Crash, store, Free
<1>3. work' \in [Processes -> Work] /\ work'[p] = Idle /\ \A q \in Processes : q # p => work'[q] = work[q]
  BY <1>1, <1>2, FinishTyped
<1>4. /\ mem' \in [Processes -> Memory] /\ mem'[p] = Closed
      /\ \A q \in Processes : q # p => mem'[q] = mem[q]
  BY <1>1, <1>2, NotNone DEF Typed
<1>5. crashes' \in 0..MaxCrashes
  BY <1>1, <1>2, RuntimeAssumption DEF Typed
<1>6. Typed' /\ FilesThere' /\ NoHead'
  BY <1>1, <1>2, <1>3, <1>4, <1>5 DEF Typed, TInv, FilesThere, NoHead
<1>7. Grows /\ OthersKept(p)
  BY <1>2, <1>3, <1>4 DEF Grows, OthersKept
<1>8. Backed'
  <2>1. ToSet(Closed.rgm) \subseteq library
    BY DEF Closed, ToSet
  <2> QED BY <1>2, <1>3, <1>4, <2>1 DEF TInv, Backed, FrontRowBacked, Idle
<1>9. Form(p)'
  <2>1. Resting(p)'
    BY <1>3, <1>4 DEF Resting
  <2>2. p \in users
    BY <1>1, <1>2 DEF Form, Closed
  <2> QED BY <1>2, <1>4, <2>1, <2>2 DEF Form, Planned, Closed
<1> QED BY <1>6, <1>7, <1>8, <1>9, Assemble

LEMMA InitTyped == Init => TInv
<1> SUFFICES ASSUME Init PROVE TInv
  OBVIOUS
<1>1. /\ users \in SUBSET Processes /\ library = {} /\ outcomes = [k \in Keys |-> 0] /\ saved = {}
      /\ mem = [p \in Processes |-> Closed] /\ work = [p \in Processes |-> Idle]
      /\ crashes = 0 /\ raced = FALSE
  BY DEF Init
<1>2. Closed.rgm = <<>> /\ ~Closed.open /\ Image(Closed) \in Heads /\ ToSet(<<>>) = {}
      /\ Image(Closed).rgm = <<>> /\ Idle.head = None
  BY NotNone DEF Closed, Image, Heads, ToSet, Idle
<1>3. /\ DOMAIN files = Parts
      /\ \/ head = None /\ files["tree"] = None /\ files["rgm"] = None /\ files["done"] = None
         \/ /\ head = Image(Closed) /\ head # None
            /\ files["tree"] = <<>> /\ files["rgm"] = <<>> /\ files["done"] = None
  <2>1. Image(Closed) # None
    BY <1>2, NotNone
  <2> QED BY <2>1 DEF Init, Parts
<1>4. Typed
  <2>1. 0 \in 0..MaxLength /\ 0 \in 0..MaxCrashes
    BY RuntimeAssumption
  <2> QED BY <1>1, <1>2, <1>3, <2>1, NotNone, IdleTyped DEF Typed
<1>5. FilesThere /\ NoHead
  BY <1>1, <1>3, NotNone DEF FilesThere, NoHead
<1>6. Backed
  BY <1>1, <1>2, <1>3 DEF Backed, FrontRowBacked
<1>7. \A p \in Processes : Form(p)
  BY <1>1, <1>2 DEF Form, Planned, Resting
<1> QED BY <1>4, <1>5, <1>6, <1>7 DEF TInv

LEMMA NextTyped ==
  ASSUME TInv, [Next]_vars
  PROVE  TInv'
<1>1. CASE UNCHANGED vars
  <2>1. UNCHANGED <<users, head, library, outcomes, files, saved, mem, work, crashes, raced>>
    BY <1>1 DEF vars, store
  <2>2. Typed' /\ FilesThere' /\ NoHead' /\ Backed'
    BY <2>1 DEF TInv, Typed, FilesThere, NoHead, Backed, FrontRowBacked
  <2>3. \A q \in Processes : Form(q)'
    <3> TAKE q \in Processes
    <3>1. Grows /\ Form(q)
      BY <2>1 DEF Grows, TInv
    <3> QED BY <2>1, <3>1, OtherForms
  <2> QED BY <2>2, <2>3 DEF TInv
<1>2. CASE Next
  <2>1. raced' \in BOOLEAN
    BY <1>2 DEF Next, TInv, Typed
  <2>2. ASSUME NEW p \in Processes, Step(p) PROVE TInv'
    BY <2>1, <2>2, WriteTyped, PersistTyped, FailTyped, LoadTyped, DigestTyped, CreateTyped,
       OpenedTyped, LineageTyped,
       LearnsTyped, ReloadsTyped, RefusedTyped, ReadHeadTyped, AdoptTyped, CopiesTyped,
       SetsHeadTyped, MetadataTyped DEF Step
  <2>3. ASSUME NEW p \in Processes, Open(p) \/ Save(p) \/ Restore(p) \/ Crash(p) PROVE TInv'
    BY <2>1, <2>3, OpenTyped, SaveTyped, RestoreTyped, CrashTyped
  <2>4. ASSUME NEW p \in Processes, NEW k \in Keys, Commit(p, k) PROVE TInv'
    BY <2>1, <2>4, CommitTyped
  <2>5. ASSUME NEW p \in Processes, NEW s \in Settings, UpdateSettings(p, s) PROVE TInv'
    BY <2>1, <2>5, SettingsTyped
  <2> QED BY <1>2, <2>2, <2>3, <2>4, <2>5 DEF Next, Move
<1> QED BY <1>1, <1>2

\* Who writes a head without a start works over one.
LEMMA NextNative ==
  ASSUME TInv, Native, [Next]_vars
  PROVE  Native'
<1>1. CASE UNCHANGED vars
  BY <1>1 DEF vars, store, Native
<1>2. CASE Next
  <2>1. ASSUME NEW p \in Processes, mem[p].open PROVE head # None
    BY <2>1 DEF TInv, Form
  <2>2. ASSUME NEW p \in Processes, Step(p) PROVE Native'
    <3>1. CASE \/ Write(p) \/ PersistPart(p) \/ WriteFails(p) \/ LoadPart(p) \/ LoadDigest(p)
               \/ Refused(p) \/ CommitReloads(p) \/ CommitRefused(p) \/ ReadHead(p) \/ Adopt(p)
               \/ SaveCopies(p) \/ SaveMetadata(p)
      <4>1. UNCHANGED <<created, head>>
        BY <3>1 DEF Write, PersistPart, WriteFails, LoadPart, LoadDigest, Refused, CommitReloads,
           CommitRefused, ReadHead, Adopt, SaveCopies, SaveMetadata, store
      <4> QED BY <4>1 DEF Native
    <3>2. CASE Create(p)
      BY <3>2 DEF Create, Native
    <3>3. CASE Opened(p)
      BY <3>3 DEF Opened, Native
    <3>4. CASE CommitLearns(p) \/ SaveSetsHead(p)
      <4>1. (\E k \in Keys : Trying(p, k)) \/ Saving(p, 4)
        BY <3>4, PlannedDoes DEF TInv, Form, Does, CommitLearns, SaveSetsHead
      <4>2. head # None
        BY <2>1, <4>1 DEF Trying, Saving
      <4>3. created' = created
        BY <3>4 DEF CommitLearns, SaveSetsHead
      <4> QED BY <4>2, <4>3 DEF Native
    <3> QED BY <2>2, <3>1, <3>2, <3>3, <3>4 DEF Step
  <2>3. ASSUME NEW p \in Processes, Open(p) \/ Save(p) \/ Crash(p) PROVE Native'
    BY <2>3 DEF Open, Save, Crash, store, Native
  <2>4. ASSUME NEW p \in Processes, Restore(p) PROVE Native'
    <3>1. head # None /\ created' = created
      BY <2>1, <2>4 DEF Restore, Ready
    <3> QED BY <3>1 DEF Native
  <2>5. ASSUME NEW p \in Processes, NEW k \in Keys, Commit(p, k) PROVE Native'
    BY <2>5 DEF Commit, Native
  <2>6. ASSUME NEW p \in Processes, NEW s \in Settings, UpdateSettings(p, s) PROVE Native'
    <3>1. head # None /\ created' = created
      BY <2>1, <2>6 DEF UpdateSettings, Ready
    <3> QED BY <3>1 DEF Native
  <2> QED BY <1>2, <2>2, <2>3, <2>4, <2>5, <2>6 DEF Next, Move
<1> QED BY <1>1, <1>2

LEMMA TypedAlways == Spec => [](TInv /\ Native)
<1>1. Init => TInv /\ Native
  <2>1. Init => Native
    BY DEF Init, Native
  <2> QED BY <2>1, InitTyped
<1>2. TInv /\ Native /\ [Next]_vars => TInv' /\ Native'
  BY NextTyped, NextNative
<1> QED BY <1>1, <1>2, PTL DEF Spec

\* Every variable holds a value of its kind: TypeOK, for any number of gateway
\* processes on one project, any calls and any failures.
THEOREM TypeCorrect == Spec => []TypeOK
<1>1. TInv /\ Native => TypeOK
  <2> SUFFICES ASSUME TInv, Native PROVE TypeOK
    OBVIOUS
  <2>1. Typed
    BY DEF TInv
  <2>2. \A p \in Processes : mem[p] \in Memory /\ work[p] \in Work
    BY <2>1 DEF Typed
  <2>3. \A p \in Processes : mem[p].open \in BOOLEAN /\ Image(mem[p]) \in Heads
    BY <2>2 DEF Memory, Image, Heads
  <2>4. \A p \in Processes : work[p].call \in {"none", "open", "commit", "reload", "save", "restore"}
    BY <2>2 DEF Work, CallNames
  <2>5. \A c \in saved : c.head \in Heads /\ c.digest \in Turns \X Turns
    BY <2>1 DEF Typed
  <2> QED BY <2>1, <2>3, <2>4, <2>5 DEF TypeOK, Typed, Native
<1> QED BY <1>1, TypedAlways, PTL

-----------------------------------------------------------------------------
(* Agreement with the head *)

LEMMA OnePlace ==
  ASSUME NEW rest, NEW plan \in Seq(Statements), NEW n, NEW i, Rest(rest, plan, n),
         Rest(rest, plan, i)
  PROVE  n = i
<1>1. n \in 1..Len(plan) /\ i \in 1..Len(plan) /\ Len(plan) \in Nat
  BY DEF Rest
<1>2. Len(SubSeq(plan, n, Len(plan))) = Len(plan) - n + 1
      /\ Len(SubSeq(plan, i, Len(plan))) = Len(plan) - i + 1
  BY <1>1
<1>3. SubSeq(plan, n, Len(plan)) = SubSeq(plan, i, Len(plan))
  BY DEF Rest
<1>4. Len(plan) - n + 1 = Len(plan) - i + 1
  BY <1>2, <1>3
<1> QED BY <1>1, <1>4

LEMMA RestIs ==
  ASSUME NEW rest, NEW plan \in Seq(Statements), NEW n, Rest(rest, plan, n)
  PROVE  /\ \A i \in DOMAIN rest : \E j \in 1..Len(plan) : rest[i] = plan[j]
         /\ \E i \in DOMAIN rest : rest[i] = plan[Len(plan)]
<1>1. n \in 1..Len(plan) /\ rest = SubSeq(plan, n, Len(plan)) /\ Len(plan) \in Nat
  BY DEF Rest
<1>2. /\ DOMAIN rest = 1..(Len(plan) - n + 1)
      /\ \A i \in 1..(Len(plan) - n + 1) : rest[i] = plan[n + i - 1]
  BY <1>1
<1>3. \A i \in 1..(Len(plan) - n + 1) : n + i - 1 \in 1..Len(plan)
  BY <1>1
<1>4. Len(plan) - n + 1 \in 1..(Len(plan) - n + 1) /\ n + (Len(plan) - n + 1) - 1 = Len(plan)
  BY <1>1
<1> QED BY <1>2, <1>3, <1>4

\* A plan that starts over a head ends with "opened", one that seeds it with
\* "seed".
Opens(rest) == \E i \in DOMAIN rest : rest[i] = <<"opened">>

LEMMA OverOpens ==
  ASSUME NEW rest, NEW n, Rest(rest, OverPlan, n)
  PROVE  Opens(rest)
<1>1. OverPlan \in Seq(Statements) /\ OverPlan[Len(OverPlan)] = <<"opened">>
  BY OverIs
<1>2. \E i \in DOMAIN rest : rest[i] = OverPlan[Len(OverPlan)]
  BY <1>1, RestIs, Zenon
<1> QED BY <1>1, <1>2 DEF Opens

LEMMA FreshSeeds ==
  ASSUME NEW rest, NEW n, Rest(rest, FreshPlan, n)
  PROVE  ~Opens(rest) /\ \E i \in DOMAIN rest : rest[i] = <<"seed">>
<1>1. FreshPlan \in Seq(Statements) /\ FreshPlan[Len(FreshPlan)] = <<"seed">>
  BY FreshIs
<1>2. \A j \in 1..Len(FreshPlan) : FreshPlan[j] # <<"opened">>
  BY FreshIs DEF P
<1>3. \A i \in DOMAIN rest : \E j \in 1..Len(FreshPlan) : rest[i] = FreshPlan[j]
  BY <1>1, RestIs, Zenon
<1>4. \E i \in DOMAIN rest : rest[i] = FreshPlan[Len(FreshPlan)]
  BY <1>1, RestIs, Zenon
<1> QED BY <1>1, <1>2, <1>3, <1>4 DEF Opens

LEMMA HalfSeeds ==
  ASSUME NEW rest, NEW n, Rest(rest, HalfPlan, n)
  PROVE  ~Opens(rest) /\ \E i \in DOMAIN rest : rest[i] = <<"seed">>
<1>1. HalfPlan \in Seq(Statements) /\ HalfPlan[Len(HalfPlan)] = <<"seed">>
  BY HalfIs
<1>2. \A j \in 1..Len(HalfPlan) : HalfPlan[j] # <<"opened">>
  BY HalfIs DEF P, L
<1>3. \A i \in DOMAIN rest : \E j \in 1..Len(HalfPlan) : rest[i] = HalfPlan[j]
  BY <1>1, RestIs, Zenon
<1>4. \E i \in DOMAIN rest : rest[i] = HalfPlan[Len(HalfPlan)]
  BY <1>1, RestIs, Zenon
<1> QED BY <1>1, <1>2, <1>3, <1>4 DEF Opens

LEMMA SeededSeeds ==
  ASSUME NEW rest, NEW n, Rest(rest, SeededPlan, n)
  PROVE  ~Opens(rest) /\ \E i \in DOMAIN rest : rest[i] = <<"seed">>
<1>1. SeededPlan \in Seq(Statements) /\ SeededPlan[Len(SeededPlan)] = <<"seed">>
  BY SeededIs
<1>2. \A j \in 1..Len(SeededPlan) : SeededPlan[j] # <<"opened">>
  BY SeededIs DEF L
<1>3. \A i \in DOMAIN rest : \E j \in 1..Len(SeededPlan) : rest[i] = SeededPlan[j]
  BY <1>1, RestIs, Zenon
<1>4. \E i \in DOMAIN rest : rest[i] = SeededPlan[Len(SeededPlan)]
  BY <1>1, RestIs, Zenon
<1> QED BY <1>1, <1>2, <1>3, <1>4 DEF Opens

\* A call that will read the files back.
Reads(p) == \E i \in DOMAIN work[p].plan : work[p].plan[i][1] \in {"digest", "seed"}

LEMMA ReadsOver ==
  ASSUME NEW p, NEW n \in 1..7, On(p, OverPlan, n)
  PROVE  Reads(p)
<1>1. Place(p, OverPlan, n) /\ 7 \in n..Len(OverPlan)
  BY OnPlace, OverIs
<1>2. \E i \in DOMAIN work[p].plan : work[p].plan[i] = OverPlan[7]
  BY <1>1 DEF Place
<1> QED BY <1>2, OverIs DEF Reads

LEMMA ReadsReload ==
  ASSUME NEW p, NEW n, On(p, ReloadPlan, n)
  PROVE  Reads(p)
<1>1. Place(p, ReloadPlan, n)
  BY OnPlace, ReloadIs
<1>2. 7 \in n..Len(ReloadPlan)
  BY <1>1, ReloadIs DEF Place
<1>3. \E i \in DOMAIN work[p].plan : work[p].plan[i] = ReloadPlan[7]
  BY <1>1, <1>2 DEF Place
<1> QED BY <1>3, ReloadIs DEF Reads

LEMMA ReadsRestore ==
  ASSUME NEW p, NEW n, On(p, RestorePlan, n)
  PROVE  Reads(p)
<1>1. Place(p, RestorePlan, n)
  BY OnPlace, RestoreIs
<1>2. 7 \in n..Len(RestorePlan)
  BY <1>1, RestoreIs DEF Place
<1>3. \E i \in DOMAIN work[p].plan : work[p].plan[i] = RestorePlan[7]
  BY <1>1, <1>2 DEF Place
<1> QED BY <1>3, RestoreIs DEF Reads

LEMMA ReadsSeed ==
  ASSUME NEW p, Seeds(p)
  PROVE  Reads(p)
<1>1. PICK n \in 1..4 : On(p, FreshPlan, n) \/ On(p, HalfPlan, n) \/ On(p, SeededPlan, n)
  BY DEF Seeds
<1>2. \E i \in DOMAIN work[p].plan : work[p].plan[i] = <<"seed">>
  BY <1>1, FreshSeeds, HalfSeeds, SeededSeeds, Zenon DEF On
<1> QED BY <1>2 DEF Reads

\* What another process does leaves the agreement of q alone.
LEMMA SamePlaces ==
  ASSUME NEW q, work'[q] = work[q]
  PROVE  /\ \A n : AtOver(q, n)' <=> AtOver(q, n)
         /\ \A n : AtReload(q, n)' <=> AtReload(q, n)
         /\ \A n : AtSave(q, n)' <=> AtSave(q, n)
         /\ \A n : AtRestore(q, n)' <=> AtRestore(q, n)
         /\ Seeds(q)' <=> Seeds(q)
BY DEF AtOver, AtReload, AtSave, AtRestore, Seeds, On

LEMMA SameRest ==
  ASSUME NEW q, AtRest(q), UNCHANGED <<users, head>>, mem'[q] = mem[q]
  PROVE  AtRest(q)'
BY DEF AtRest, Alone, Image, Digest

LEMMA SameAgree ==
  ASSUME NEW q, Agree(q), UNCHANGED <<users, head, files>>, mem'[q] = mem[q], work'[q] = work[q]
  PROVE  Agree(q)'
<1>1. /\ \A n : AtOver(q, n)' <=> AtOver(q, n)
      /\ \A n : AtReload(q, n)' <=> AtReload(q, n)
      /\ \A n : AtSave(q, n)' <=> AtSave(q, n)
      /\ \A n : AtRestore(q, n)' <=> AtRestore(q, n)
      /\ Seeds(q)' <=> Seeds(q)
  BY SamePlaces
<1>2. AtRest(q) => AtRest(q)'
  BY SameRest
<1>3. Working(q)' => Working(q)
  BY DEF Working
<1>4. \A n : Shown(n)' <=> Shown(n)
  BY DEF Shown
<1>5. Alone' <=> Alone
  BY DEF Alone
<1>6. \A n \in 1..7 : OverBody(q, n) => OverBody(q, n)'
  BY <1>4 DEF OverBody
<1>7. \A n \in 1..7 : ReloadBody(q, n) => ReloadBody(q, n)'
  BY <1>2, <1>4, <1>5 DEF ReloadBody
<1>8. \A n \in 1..5 : SaveBody(q, n) => SaveBody(q, n)'
  BY <1>5 DEF SaveBody
<1>9. \A n \in 1..7 : RestoreBody(q, n) => RestoreBody(q, n)'
  BY <1>4, <1>5 DEF RestoreBody
<1> QED BY <1>1, <1>2, <1>3, <1>4, <1>5, <1>6, <1>7, <1>8, <1>9 DEF Agree

LEMMA ClosedAgree ==
  ASSUME NEW q, mem'[q] = Closed, work'[q] = Idle
  PROVE  Agree(q)'
<1>1. /\ \A n : ~AtOver(q, n)' /\ ~AtReload(q, n)' /\ ~AtSave(q, n)' /\ ~AtRestore(q, n)'
      /\ ~Seeds(q)' /\ ~Working(q)'
  BY DEF AtOver, AtReload, AtSave, AtRestore, Seeds, Working, Closed, Idle
<1> QED BY <1>1 DEF Agree

\* The head or the files moved, and q was not reading them back.
LEMMA MovedAgree ==
  ASSUME NEW q, Agree(q), ~Alone, users' = users, mem'[q] = mem[q], work'[q] = work[q],
         ~Reads(q), AtRest(q) => AtRest(q)'
  PROVE  Agree(q)'
<1>1. /\ \A n : AtOver(q, n)' <=> AtOver(q, n)
      /\ \A n : AtReload(q, n)' <=> AtReload(q, n)
      /\ \A n : AtSave(q, n)' <=> AtSave(q, n)
      /\ \A n : AtRestore(q, n)' <=> AtRestore(q, n)
      /\ Seeds(q)' <=> Seeds(q)
  BY SamePlaces
<1>2. ~Alone'
  BY DEF Alone
<1>3. Working(q)' => Working(q)
  BY DEF Working
<1>4. \A n \in 1..7 : ~AtOver(q, n)
  BY ReadsOver DEF AtOver
<1>5. \A n : ~AtReload(q, n)
  BY ReadsReload DEF AtReload
<1>6. \A n : ~AtRestore(q, n)
  BY ReadsRestore DEF AtRestore
<1>7. ~Seeds(q)
  BY ReadsSeed
<1>8. \A n \in 1..5 : ~AtSave(q, n)
  BY DEF Agree, SaveBody
<1> QED BY <1>1, <1>2, <1>3, <1>4, <1>5, <1>6, <1>7, <1>8 DEF Agree

\* What a process is left with once its own step is done.
LEMMA RestAgree ==
  ASSUME NEW p, AtRest(p)', work'[p].call \in {"none", "commit"}
  PROVE  Agree(p)'
<1>1. /\ \A n : ~AtOver(p, n)' /\ ~AtReload(p, n)' /\ ~AtSave(p, n)' /\ ~AtRestore(p, n)'
      /\ ~Seeds(p)'
  BY DEF AtOver, AtReload, AtSave, AtRestore, Seeds
<1> QED BY <1>1 DEF Agree

LEMMA SeedAgree ==
  ASSUME NEW p, Form(p)', work'[p].call = "open", ~mem'[p].open, head' = None
  PROVE  Agree(p)'
<1>1. /\ \A n : ~AtReload(p, n)' /\ ~AtSave(p, n)' /\ ~AtRestore(p, n)'
      /\ ~Working(p)'
  BY DEF AtReload, AtSave, AtRestore, Working
<1>2. Seeding(p)'
  <2>1. Planned(p)'
    BY DEF Form
  <2>2. ~Resting(p)' /\ (\A n \in 1..8 : ~OverHead(p, n)') /\ (\A k \in Keys : ~Trying(p, k)')
    BY DEF Resting, Idle, OverHead, Trying
  <2>3. /\ \A n \in 1..4 : ~Learnt(p, n)'
        /\ \A n \in 1..7 : ~Reloading(p, n)'
        /\ \A n \in 1..7 : ~Restoring(p, n)'
        /\ \A n \in 1..5 : ~Saving(p, n)'
    BY DEF Learnt, Reloading, Restoring, Saving
  <2> QED BY <2>1, <2>2, <2>3 DEF Planned
<1>3. PICK n \in 1..4 : On(p, FreshPlan, n)' \/ On(p, HalfPlan, n)' \/ On(p, SeededPlan, n)'
  BY <1>2 DEF Seeding, SeedEmpty, SeedTree, SeedFiles
<1>4. ~Opens(work'[p].plan)
  BY <1>3, FreshSeeds, HalfSeeds, SeededSeeds, Zenon DEF On
<1>5. \A i : ~On(p, OverPlan, i)'
  BY <1>4, OverOpens, Zenon DEF On
<1>6. \A i : ~AtOver(p, i)'
  BY <1>5 DEF AtOver
<1> QED BY <1>1, <1>6 DEF Agree

LEMMA OverAgree ==
  ASSUME NEW p, NEW n \in 1..8, AtOver(p, n)', ~mem'[p].open,
         n < 8 => OverBody(p, n)', n = 8 => AtRest(p)' /\ (Alone' => Shown(8)')
  PROVE  Agree(p)'
<1>1. /\ \A i : ~AtReload(p, i)' /\ ~AtSave(p, i)' /\ ~AtRestore(p, i)'
      /\ ~Working(p)'
  BY DEF AtOver, AtReload, AtSave, AtRestore, Working
<1>2. Rest(work'[p].plan, OverPlan, n) /\ OverPlan \in Seq(Statements)
  BY OverIs DEF AtOver, On
<1>3. ~Seeds(p)'
  <2>1. Opens(work'[p].plan)
    BY <1>2, OverOpens, Zenon
  <2>2. \A i : ~On(p, FreshPlan, i)' /\ ~On(p, HalfPlan, i)' /\ ~On(p, SeededPlan, i)'
    BY <2>1, FreshSeeds, HalfSeeds, SeededSeeds, Zenon DEF On
  <2> QED BY <2>2 DEF Seeds
<1>4. \A i : AtOver(p, i)' => i = n
  <2>1. \A i : AtOver(p, i)' => Rest(work'[p].plan, OverPlan, i)
    BY DEF AtOver, On
  <2> QED BY <1>2, <2>1, OnePlace, Zenon
<1> QED BY <1>1, <1>3, <1>4 DEF Agree

LEMMA ReloadAgree ==
  ASSUME NEW p, NEW n \in 1..7, AtReload(p, n)', ReloadBody(p, n)'
  PROVE  Agree(p)'
<1>1. /\ \A i : ~AtOver(p, i)' /\ ~AtSave(p, i)' /\ ~AtRestore(p, i)'
      /\ ~Seeds(p)' /\ ~Working(p)'
  BY DEF AtOver, AtReload, AtSave, AtRestore, Seeds, Working
<1>2. \A i : AtReload(p, i)' => i = n
  <2>1. \A i : AtReload(p, i)' => Rest(work'[p].plan, ReloadPlan, i)
    BY DEF AtReload, On
  <2>2. Rest(work'[p].plan, ReloadPlan, n) /\ ReloadPlan \in Seq(Statements)
    BY ReloadIs DEF AtReload, On
  <2> QED BY <2>1, <2>2, OnePlace, Zenon
<1> QED BY <1>1, <1>2 DEF Agree

LEMMA RestoreAgree ==
  ASSUME NEW p, NEW n \in 1..7, AtRestore(p, n)', RestoreBody(p, n)'
  PROVE  Agree(p)'
<1>1. /\ \A i : ~AtOver(p, i)' /\ ~AtSave(p, i)' /\ ~AtReload(p, i)'
      /\ ~Seeds(p)' /\ ~Working(p)'
  BY DEF AtOver, AtReload, AtSave, AtRestore, Seeds, Working
<1>2. \A i : AtRestore(p, i)' => i = n
  <2>1. \A i : AtRestore(p, i)' => Rest(work'[p].plan, RestorePlan, i)
    BY DEF AtRestore, On
  <2>2. Rest(work'[p].plan, RestorePlan, n) /\ RestorePlan \in Seq(Statements)
    BY RestoreIs DEF AtRestore, On
  <2> QED BY <2>1, <2>2, OnePlace, Zenon
<1> QED BY <1>1, <1>2 DEF Agree

LEMMA SaveAgree ==
  ASSUME NEW p, NEW n \in 1..5, AtSave(p, n)', SaveBody(p, n)', AtRest(p)'
  PROVE  Agree(p)'
<1>1. /\ \A i : ~AtOver(p, i)' /\ ~AtReload(p, i)' /\ ~AtRestore(p, i)'
      /\ ~Seeds(p)'
  BY DEF AtOver, AtReload, AtSave, AtRestore, Seeds
<1>2. \A i : AtSave(p, i)' => i = n
  <2>1. \A i : AtSave(p, i)' => Rest(work'[p].plan, SavePlan, i)
    BY DEF AtSave, On
  <2>2. Rest(work'[p].plan, SavePlan, n) /\ SavePlan \in Seq(Statements)
    BY SaveIs DEF AtSave, On
  <2> QED BY <2>1, <2>2, OnePlace, Zenon
<1> QED BY <1>1, <1>2 DEF Agree

-----------------------------------------------------------------------------
(* A step as a whole *)

Races == raced' = (raced \/ \E q \in Processes : Overlap(q))

\* In a project that one process has alone, the others never run.
LEMMA OnlyUser ==
  ASSUME TInv, Alone, NEW p \in Processes, p \in users, NEW q \in Processes, q # p
  PROVE  mem[q] = Closed /\ work[q] = Idle
<1>1. IsFiniteSet(users) /\ Form(q)
  BY RuntimeAssumption, FS_Subset DEF TInv, Typed
<1>2. PICK x : users = {x}
  BY <1>1, FS_Singleton DEF Alone
<1> QED BY <1>1, <1>2 DEF Form

LEMMA OverlapReads ==
  ASSUME NEW q
  PROVE  Overlap(q) <=> Reads(q) /\ work'[q] = work[q] /\ <<head, files>>' # <<head, files>>
BY DEF Overlap, Reads

\* A step that leaves the head and the files alone.
LEMMA QuietStep ==
  ASSUME TInv, CInv, NEW p \in Processes, OthersKept(p), Races,
         UNCHANGED <<users, head, files>>, ~raced => Durable' /\ Agree(p)'
  PROVE  CInv'
<1>1. raced' = raced
  <2>1. \A q \in Processes : ~Overlap(q)
    BY DEF Overlap
  <2>2. raced \in BOOLEAN
    BY DEF TInv, Typed
  <2> QED BY <2>1, <2>2 DEF Races
<1>2. ASSUME ~raced, NEW q \in Processes PROVE Agree(q)'
  <2>1. CASE q = p
    BY <1>2, <2>1
  <2>2. CASE q # p
    <3>1. Agree(q) /\ mem'[q] = mem[q] /\ work'[q] = work[q]
      BY <1>2, <2>2 DEF CInv, OthersKept
    <3> QED BY <3>1, SameAgree
  <2> QED BY <2>1, <2>2
<1> QED BY <1>1, <1>2 DEF CInv, Alone

\* Any step of a process that does not overlap itself.
LEMMA LoudStep ==
  ASSUME TInv, CInv, NEW p \in Processes, p \in users, OthersKept(p), Races, users' = users,
         ~Overlap(p), ~raced => Durable' /\ Agree(p)',
         \A q \in Processes : q # p /\ ~raced /\ ~Alone /\ AtRest(q) => AtRest(q)'
  PROVE  CInv'
<1>1. Alone' <=> Alone
  BY DEF Alone
<1>2. ASSUME Alone, NEW q \in Processes PROVE ~Overlap(q)
  <2>1. CASE q # p
    <3>1. work[q] = Idle
      BY <1>2, <2>1, OnlyUser
    <3> QED BY <3>1 DEF Overlap, Idle
  <2> QED BY <2>1
<1>3. raced \in BOOLEAN /\ (~raced' => ~raced /\ \A q \in Processes : ~Overlap(q))
  BY DEF TInv, Typed, Races
<1>4. Alone => ~raced'
  BY <1>2 DEF CInv, Races
<1>5. ASSUME ~raced', NEW q \in Processes PROVE Agree(q)'
  <2>0. ~raced /\ ~Overlap(q) /\ Agree(q)
    BY <1>3, <1>5 DEF CInv
  <2>1. CASE q = p
    BY <2>0, <2>1
  <2>2. CASE q # p
    <3>1. mem'[q] = mem[q] /\ work'[q] = work[q]
      BY <2>2 DEF OthersKept
    <3>2. CASE Alone
      <4>1. mem[q] = Closed /\ work[q] = Idle
        BY <2>2, <3>2, OnlyUser
      <4> QED BY <3>1, <4>1, ClosedAgree
    <3>3. CASE ~Alone /\ <<head, files>>' = <<head, files>>
      BY <2>0, <3>1, <3>3, SameAgree
    <3>4. CASE ~Alone /\ <<head, files>>' # <<head, files>>
      <4>1. ~Reads(q)
        BY <2>0, <3>1, <3>4, OverlapReads
      <4>2. AtRest(q) => AtRest(q)'
        BY <2>0, <2>2, <3>4
      <4> QED BY <2>0, <3>1, <3>4, <4>1, <4>2, MovedAgree
    <3> QED BY <3>2, <3>3, <3>4
  <2> QED BY <2>1, <2>2
<1> QED BY <1>1, <1>3, <1>4, <1>5 DEF CInv

-----------------------------------------------------------------------------
(* The process that steps *)

LEMMA SameDurable ==
  ASSUME Durable, UNCHANGED <<head, saved, outcomes>>
  PROVE  Durable'
<1>1. \A h : Sound(h) => Sound(h)'
  BY DEF Sound, Ticks, Coherent
<1> QED BY <1>1 DEF Durable, Digest

LEMMA ShowsNext ==
  ASSUME NEW n \in 1..3, Shown(n), DOMAIN files = Parts, head' = head,
         files' = [files EXCEPT ![Written[n]] = head[Written[n]]]
  PROVE  Shown(n + 1)'
<1>1. CASE n = 1
  BY <1>1 DEF Shown, Written, Parts
<1>2. CASE n = 2
  BY <1>2 DEF Shown, Written, Parts
<1>3. CASE n = 3
  BY <1>3 DEF Shown, Written, Parts
<1> QED BY <1>1, <1>2, <1>3

\* What a process does next agrees with the head as what it did before.
LEMMA WriteAgrees ==
  ASSUME NEW p \in Processes, TInv, Write(p), Agree(p), Grows
  PROVE  Agree(p)'
<1> DEFINE part == Head(work[p].plan)[2]
<1>1. Form(p) /\ Typed /\ AtWrite(p) /\ Doing(p, "write")
  BY PlannedDoes DEF TInv, Form, Does, Write
<1>2. work[p].plan # <<>>
  BY <1>1, WriteFrom
<1>3. /\ files' = [files EXCEPT ![part] = work[p].head[part]] /\ Proceed(p)
      /\ UNCHANGED <<users, head, mem>>
  BY DEF Write, store
<1>4. /\ AtEnd(p) => work'[p] = Idle
      /\ ~AtEnd(p) => Moves(p) /\ work'[p].head = work[p].head
  BY <1>1, <1>2, <1>3, ProceedTyped DEF Moves
<1>5. AtRest(p) => AtRest(p)'
  BY <1>3, SameRest
<1>6. DOMAIN files = Parts /\ files'["done"] = IF part = "done" THEN work[p].head["done"] ELSE files["done"]
  BY <1>1, <1>3 DEF Typed, Parts
<1>11. files'[part] # None
  <2>1. part \in Parts /\ work[p].head \in Heads
    BY <1>1, WriteFrom
  <2>2. files'[part] = work[p].head[part]
    BY <1>3, <1>6, <2>1
  <2>3. work[p].head["tree"] # None /\ work[p].head["rgm"] # None /\ work[p].head["done"] # None
    BY <2>1, NotNone DEF Heads
  <2> QED BY <2>1, <2>2, <2>3 DEF Parts
<1> HIDE DEF part
<1>7. ASSUME NEW n \in 1..3, OverHead(p, n) PROVE Agree(p)'
  <2>1. On(p, OverPlan, n) /\ AtOver(p, n) /\ ~mem[p].open
    BY <1>7 DEF OverHead, AtOver
  <2>2. part = Written[n] /\ ~AtEnd(p)
    BY <2>1, OverSays DEF part
  <2>3. OverBody(p, n)
    BY <2>1 DEF Agree
  <2>4. Shown(n + 1)'
    BY <1>3, <1>6, <2>2, <2>3, ShowsNext DEF OverBody
  <2>5. files'[part] # None
    BY <1>11
  <2>6. n = 3 => files'["done"] # None
    BY <2>2, <2>5 DEF Written
  <2>7. n + 1 \in 1..8 /\ OverHead(p, n + 1)'
    BY <1>4, <1>7, <2>2, <2>6, OverNext
  <2>8. n + 1 \in 1..8 /\ AtOver(p, n + 1)' /\ ~mem'[p].open /\ n + 1 < 8
    BY <2>7 DEF OverHead, AtOver
  <2>9. OverBody(p, n + 1)'
    BY <1>3, <1>4, <2>2, <2>3, <2>4 DEF OverBody
  <2> QED BY <2>8, <2>9, OverAgree
<1>8. ASSUME NEW n \in 1..3, Reloading(p, n) PROVE Agree(p)'
  <2>1. On(p, ReloadPlan, n) /\ AtReload(p, n)
    BY <1>8 DEF Reloading, AtReload
  <2>2. part = Written[n] /\ ~AtEnd(p)
    BY <2>1, ReloadSays DEF part
  <2>3. ReloadBody(p, n)
    BY <2>1 DEF Agree
  <2>4. Shown(n + 1)'
    BY <1>3, <1>6, <2>2, <2>3, ShowsNext DEF ReloadBody
  <2>5. n \in 1..6 /\ n + 1 \in 1..7 /\ Reloading(p, n + 1)'
    BY <1>4, <1>8, <2>2, ReloadNext
  <2>6. AtReload(p, n + 1)'
    BY <2>5 DEF Reloading, AtReload
  <2>7. ReloadBody(p, n + 1)'
    BY <1>3, <1>4, <1>5, <2>2, <2>3, <2>4 DEF ReloadBody, Alone
  <2> QED BY <2>5, <2>6, <2>7, ReloadAgree
<1>9. ASSUME NEW n \in 2..4, Restoring(p, n) PROVE Agree(p)'
  <2>1. On(p, RestorePlan, n) /\ AtRestore(p, n) /\ work[p].head # None /\ n \in 1..7
    BY <1>9 DEF Restoring, AtRestore
  <2>2. part = Written[n - 1] /\ ~AtEnd(p)
    BY <2>1, RestoreSays DEF part
  <2>3. RestoreBody(p, n)
    BY <2>1 DEF Agree
  <2>4. Shown(n)'
    <3>1. n - 1 \in 1..3 /\ (n - 1) + 1 = n /\ n > 1
      OBVIOUS
    <3>2. Shown(n - 1) /\ work[p].head = head
      BY <2>3, <3>1 DEF RestoreBody
    <3>3. files' = [files EXCEPT ![Written[n - 1]] = head[Written[n - 1]]]
      BY <1>3, <2>2, <3>2, Zenon
    <3>4. Shown((n - 1) + 1)'
      BY <1>3, <1>6, <3>1, <3>2, <3>3, ShowsNext
    <3> QED BY <3>1, <3>4
  <2>5. n \in 1..6 /\ n + 1 \in 1..7 /\ Restoring(p, n + 1)'
    BY <1>4, <1>9, <2>1, <2>2, RestoreNext
  <2>6. AtRestore(p, n + 1)' /\ (n + 1) - 1 = n
    BY <2>5 DEF Restoring, AtRestore
  <2>7. RestoreBody(p, n + 1)'
    BY <1>3, <1>4, <2>2, <2>3, <2>4, <2>6 DEF RestoreBody, Alone
  <2> QED BY <2>5, <2>6, <2>7, RestoreAgree
<1>10. ASSUME NEW n \in 2..4, Learnt(p, n) PROVE Agree(p)'
  <2>1. work'[p].call \in {"none", "commit"}
    <3>1. CASE AtEnd(p)
      BY <1>4, <3>1 DEF Idle
    <3>2. CASE ~AtEnd(p)
      BY <1>4, <1>10, <3>2 DEF Moves, Learnt
    <3> QED BY <3>1, <3>2
  <2>2. AtRest(p)
    BY <1>10 DEF Agree, Working, Learnt
  <2> QED BY <1>5, <2>1, <2>2, RestAgree
<1> QED BY <1>1, <1>7, <1>8, <1>9, <1>10 DEF AtWrite

LEMMA PersistAgrees ==
  ASSUME NEW p \in Processes, TInv, Form(p)', PersistPart(p), Agree(p)
  PROVE  Agree(p)'
<1> DEFINE part == Head(work[p].plan)[2]
<1>1. Form(p) /\ Typed /\ AtPersist(p) /\ mem[p] \in Memory
  BY PlannedDoes DEF TInv, Form, Does, PersistPart, Typed
<1>2. work[p].plan # <<>> /\ part \in {"tree", "rgm"}
  BY <1>1, PersistFrom
<1>3. /\ files' = [files EXCEPT ![part] = mem[p][part]] /\ Advance(p)
      /\ mem' = IF part = "rgm" THEN [mem EXCEPT ![p].digest = Digest(mem[p])] ELSE mem
      /\ UNCHANGED <<users, head>>
  BY DEF PersistPart, store
<1>4. /\ work'[p].call = work[p].call /\ work'[p].head = work[p].head
      /\ work'[p].plan = Tail(work[p].plan)
  BY <1>1, <1>2, <1>3, AdvanceTyped
<1>5. mem'[p] = IF part = "rgm" THEN [mem[p] EXCEPT !.digest = Digest(mem[p])] ELSE mem[p]
  BY <1>1, <1>3 DEF Typed
<1>6. /\ mem'[p].open = mem[p].open /\ Image(mem'[p]) = Image(mem[p]) /\ Digest(mem'[p]) = Digest(mem[p])
      /\ mem'[p].tree = mem[p].tree /\ mem'[p].done = mem[p].done
      /\ mem[p].digest = Digest(mem[p]) => mem'[p].digest = mem[p].digest
      /\ part = "rgm" => mem'[p].digest = Digest(mem[p])
  BY <1>1, <1>5 DEF Memory, Image, Digest
<1>7. files'["tree"] = (IF part = "tree" THEN mem[p]["tree"] ELSE files["tree"])
      /\ files'["rgm"] = (IF part = "rgm" THEN mem[p]["rgm"] ELSE files["rgm"])
  BY <1>1, <1>2, <1>3 DEF Typed, Parts
<1> HIDE DEF part
<1>8. CASE Seeding(p)
  <2>1. Seeds(p) /\ work[p].call = "open" /\ ~mem[p].open
    BY <1>8 DEF Seeding, Seeds, SeedEmpty, SeedTree, SeedFiles
  <2>2. head = None
    BY <2>1 DEF Agree
  <2>3. work'[p].call = "open" /\ ~mem'[p].open /\ head' = None
    BY <1>3, <1>4, <1>6, <2>1, <2>2
  <2> QED BY <2>3, SeedAgree
<1>9. ASSUME NEW n \in 1..2, Saving(p, n) PROVE Agree(p)'
  <2>1. On(p, SavePlan, n) /\ AtSave(p, n) /\ mem[p].open /\ work[p].call = "save" /\ n \in 1..5
    BY <1>9 DEF Saving, AtSave
  <2>2. part = Written[n]
    BY <2>1, SaveSays DEF part
  <2>3. SaveBody(p, n) /\ AtRest(p)
    BY <2>1 DEF Agree, Working
  <2>4. n \in 1..4 /\ ~(n > 2) /\ n + 1 \in 1..5 /\ Moves(p)
    BY <1>4, <1>6 DEF Moves
  <2>5. Saving(p, n + 1)'
    BY <1>9, <2>4, SaveNext
  <2>6. AtSave(p, n + 1)'
    BY <2>5 DEF Saving, AtSave
  <2>7. mem[p].tree = head.tree /\ mem[p].rgm = head.rgm
    BY <2>3 DEF AtRest, SaveBody, Image
  <2>8. SaveBody(p, n + 1)'
    <3>1. CASE n = 1
      BY <1>3, <1>7, <2>2, <2>3, <2>7, <3>1 DEF SaveBody, Alone, Written
    <3>2. CASE n = 2
      BY <1>3, <1>7, <2>2, <2>3, <2>7, <3>2 DEF SaveBody, Alone, Written
    <3> QED BY <3>1, <3>2
  <2>9. AtRest(p)'
    BY <1>3, <1>6, <2>3 DEF AtRest, SaveBody, Alone
  <2> QED BY <2>4, <2>6, <2>8, <2>9, SaveAgree
<1> QED BY <1>1, <1>8, <1>9 DEF AtPersist

\* A failed replacement outside a restore leaves memory as the head.
LEMMA FailAgrees ==
  ASSUME NEW p \in Processes, TInv, WriteFails(p), Agree(p), "restore" \notin MayFail
  PROVE  Agree(p)'
<1>1. Form(p) /\ Typed /\ (AtWrite(p) \/ AtPersist(p) \/ AtCreate(p))
  BY PlannedDoes DEF TInv, Form, Does, WriteFails
<1>2. /\ Finish(p) /\ mem' = IF mem[p].open THEN mem ELSE [mem EXCEPT ![p] = Closed]
      /\ UNCHANGED <<users, head, files>> /\ work[p].call # "restore"
  BY DEF WriteFails, store
<1>3. work'[p] = Idle
  BY <1>1, <1>2, FinishTyped
<1>4. CASE ~mem[p].open
  <2>1. mem'[p] = Closed
    BY <1>1, <1>2, <1>4 DEF Typed
  <2> QED BY <1>3, <2>1, ClosedAgree
<1>5. CASE mem[p].open /\ work[p].call # "reload"
  <2>1. AtRest(p)
    BY <1>2, <1>5 DEF Agree, Working
  <2>2. AtRest(p)'
    BY <1>2, <1>5, <2>1, SameRest
  <2> QED BY <1>3, <2>2, RestAgree DEF Idle
<1>6. CASE mem[p].open /\ work[p].call = "reload"
  <2>1. PICK n \in 1..3 : Reloading(p, n)
    BY <1>1, <1>6 DEF AtWrite, AtPersist, AtCreate, OverHead, Learnt, Restoring, Saving, Seeding
  <2>2. AtReload(p, n) /\ n \in 1..7 /\ n < 5
    BY <2>1 DEF Reloading, AtReload
  <2>3. ReloadBody(p, n)
    BY <2>2 DEF Agree
  <2>4. AtRest(p)
    BY <2>2, <2>3 DEF ReloadBody
  <2>5. AtRest(p)'
    BY <1>2, <1>6, <2>4, SameRest
  <2> QED BY <1>3, <2>5, RestAgree DEF Idle
<1> QED BY <1>4, <1>5, <1>6

LEMMA LoadAgrees ==
  ASSUME NEW p \in Processes, TInv, Form(p)', LoadPart(p), Agree(p), Grows
  PROVE  Agree(p)'
<1> DEFINE part == Head(work[p].plan)[2]
           x    == files[part]
<1>1. Form(p) /\ Typed /\ AtLoad(p) /\ mem[p] \in Memory
  BY PlannedDoes DEF TInv, Form, Does, LoadPart, Typed
<1>2. work[p].plan # <<>> /\ part \in Parts
  BY <1>1, LoadFrom
<1>3. /\ mem' = [mem EXCEPT ![p][part] = x] /\ Advance(p)
      /\ UNCHANGED <<users, head, files>>
  BY DEF LoadPart, store
<1>4. /\ work'[p].call = work[p].call /\ work'[p].head = work[p].head
      /\ work'[p].plan = Tail(work[p].plan)
  BY <1>1, <1>2, <1>3, AdvanceTyped
<1> HIDE DEF part, x
<1>5. mem'[p] = [mem[p] EXCEPT ![part] = x]
  BY <1>1, <1>3, Zenon DEF Typed
<1>6. /\ mem'[p].open = mem[p].open /\ mem'[p].settings = mem[p].settings
      /\ mem'[p].tree = IF part = "tree" THEN x ELSE mem[p].tree
      /\ mem'[p].rgm  = IF part = "rgm" THEN x ELSE mem[p].rgm
      /\ mem'[p].done = IF part = "done" THEN x ELSE mem[p].done
  BY <1>1, <1>2, <1>5 DEF Memory, Parts
<1>7. Moves(p)
  BY <1>4, <1>6 DEF Moves
<1>8. \A n : Shown(n)' <=> Shown(n)
  BY <1>3 DEF Shown
<1>9. ASSUME NEW n \in 4..6, OverHead(p, n) PROVE Agree(p)'
  <2>1. On(p, OverPlan, n) /\ AtOver(p, n) /\ ~mem[p].open /\ n \in 1..7
    BY <1>9 DEF OverHead, AtOver
  <2>2. part = Loaded[n - 3]
    BY <2>1, OverSays DEF part
  <2>3. OverBody(p, n)
    BY <2>1 DEF Agree
  <2>4. n + 1 \in 1..8 /\ OverHead(p, n + 1)'
    BY <1>4, <1>7, <1>9, <2>1, OverNext
  <2>5. AtOver(p, n + 1)' /\ ~mem'[p].open /\ n + 1 < 8
    BY <2>4 DEF OverHead, AtOver
  <2>6. files["tree"] = head.tree /\ files["rgm"] = head.rgm /\ files["done"] = head.done
    BY <2>3 DEF OverBody, Shown
  <2>7. Shown(n + 1)
    BY <2>6 DEF Shown
  <2>8. x = files[part] /\ head' = head /\ work'[p].head = head
    BY <1>3, <1>4, <2>3 DEF OverBody, x
  <2>9. OverBody(p, n + 1)'
    <3>1. CASE n = 4
      BY <1>6, <1>8, <2>2, <2>3, <2>6, <2>7, <2>8, <3>1 DEF OverBody, Loaded
    <3>2. CASE n = 5
      BY <1>6, <1>8, <2>2, <2>3, <2>6, <2>7, <2>8, <3>2 DEF OverBody, Loaded
    <3>3. CASE n = 6
      BY <1>6, <1>8, <2>2, <2>3, <2>6, <2>7, <2>8, <3>3 DEF OverBody, Loaded
    <3> QED BY <3>1, <3>2, <3>3
  <2> QED BY <2>4, <2>5, <2>9, OverAgree
<1>10. CASE Seeding(p)
  <2>1. Seeds(p) /\ work[p].call = "open" /\ ~mem[p].open
    BY <1>10 DEF Seeding, Seeds, SeedEmpty, SeedTree, SeedFiles
  <2>2. head = None
    BY <2>1 DEF Agree
  <2>3. work'[p].call = "open" /\ ~mem'[p].open /\ head' = None
    BY <1>3, <1>4, <1>6, <2>1, <2>2
  <2> QED BY <2>3, SeedAgree
<1>11. ASSUME NEW n \in 5..6, Reloading(p, n) PROVE Agree(p)'
  <2>1. On(p, ReloadPlan, n) /\ AtReload(p, n) /\ n \in 1..7
    BY <1>11 DEF Reloading, AtReload
  <2>2. part = Written[n - 4]
    BY <2>1, ReloadSays DEF part
  <2>3. ReloadBody(p, n)
    BY <2>1 DEF Agree
  <2>4. n + 1 \in 1..7 /\ Reloading(p, n + 1)'
    BY <1>4, <1>7, <1>11, <2>1, ReloadNext
  <2>5. AtReload(p, n + 1)'
    BY <2>4 DEF Reloading, AtReload
  <2>6. files["tree"] = head.tree /\ files["rgm"] = head.rgm /\ files["done"] = head.done
    BY <2>3 DEF ReloadBody, Shown
  <2>7. Shown(n + 1)
    BY <2>6 DEF Shown
  <2>8. x = files[part] /\ head' = head /\ work'[p].head = head /\ (Alone' <=> Alone)
    BY <1>3, <1>4, <2>3 DEF ReloadBody, x, Alone
  <2>9. ReloadBody(p, n + 1)'
    <3>1. CASE n = 5
      BY <1>6, <1>8, <2>2, <2>3, <2>6, <2>7, <2>8, <3>1 DEF ReloadBody, Written
    <3>2. CASE n = 6
      BY <1>6, <1>8, <2>2, <2>3, <2>6, <2>7, <2>8, <3>2 DEF ReloadBody, Written
    <3> QED BY <3>1, <3>2
  <2> QED BY <2>4, <2>5, <2>9, ReloadAgree
<1>12. ASSUME NEW n \in 5..6, Restoring(p, n) PROVE Agree(p)'
  <2>1. On(p, RestorePlan, n) /\ AtRestore(p, n) /\ n \in 1..7 /\ work[p].head # None
    BY <1>12 DEF Restoring, AtRestore
  <2>2. part = Written[n - 4]
    BY <2>1, RestoreSays DEF part
  <2>3. RestoreBody(p, n)
    BY <2>1 DEF Agree
  <2>4. n + 1 \in 1..7 /\ Restoring(p, n + 1)'
    BY <1>4, <1>7, <1>12, <2>1, RestoreNext
  <2>5. AtRestore(p, n + 1)'
    BY <2>4 DEF Restoring, AtRestore
  <2>6. files["tree"] = head.tree /\ files["rgm"] = head.rgm /\ files["done"] = head.done
    BY <2>3 DEF RestoreBody, Shown
  <2>7. Shown((n + 1) - 1)
    BY <2>6 DEF Shown
  <2>8. x = files[part] /\ head' = head /\ work'[p].head = head /\ (Alone' <=> Alone)
    BY <1>3, <1>4, <2>3 DEF RestoreBody, x, Alone
  <2>9. RestoreBody(p, n + 1)'
    <3>1. CASE n = 5
      BY <1>6, <1>8, <2>2, <2>3, <2>6, <2>7, <2>8, <3>1 DEF RestoreBody, Written
    <3>2. CASE n = 6
      BY <1>6, <1>8, <2>2, <2>3, <2>6, <2>7, <2>8, <3>2 DEF RestoreBody, Written
    <3> QED BY <3>1, <3>2
  <2> QED BY <2>4, <2>5, <2>9, RestoreAgree
<1> QED BY <1>1, <1>9, <1>10, <1>11, <1>12 DEF AtLoad

LEMMA LengthIs ==
  ASSUME NEW t \in Turns
  PROVE  Len(t) \in Nat /\ t \in Seq(Keys) /\ Len(t) <= Len(t)
<1>1. PICK n \in 0..MaxLength : t \in [1..n -> Keys]
  BY DEF Turns
<1>2. n \in Nat
  BY <1>1, RuntimeAssumption
<1> QED BY <1>1, <1>2

\* A head and a memory that agree in their fields are equal.
LEMMA ImageIs ==
  ASSUME NEW p \in Processes, Typed, head \in Heads,
         mem[p].tree = head.tree, mem[p].rgm = head.rgm, mem[p].done = head.done,
         mem[p].settings = head.settings
  PROVE  Image(mem[p]) = head
<1>1. head = [tree |-> head.tree, rgm |-> head.rgm, done |-> head.done, settings |-> head.settings]
  BY DEF Heads
<1> QED BY <1>1 DEF Image

\* Files read back from the head they were written from.
LEMMA RestRead ==
  ASSUME NEW p, head' \in Heads, mem'[p].digest = Digest(files), files["tree"] = head'.tree,
         files["rgm"] = head'.rgm, mem'[p].tree = head'.tree, mem'[p].rgm = head'.rgm,
         mem'[p].done = head'.done, Alone' => mem'[p].settings = head'.settings
  PROVE  AtRest(p)'
<1>1. mem'[p].digest = Digest(mem'[p])
  BY DEF Digest
<1>2. Len(mem'[p].tree) <= Len(head'.tree)
  BY LengthIs DEF Heads
<1>3. Alone' => Image(mem'[p]) = head'
  <2>1. head' = [tree |-> head'.tree, rgm |-> head'.rgm, done |-> head'.done, settings |-> head'.settings]
    BY DEF Heads
  <2> QED BY <2>1 DEF Image
<1> QED BY <1>1, <1>2, <1>3 DEF AtRest

LEMMA DigestAgrees ==
  ASSUME NEW p \in Processes, TInv, Form(p)', LoadDigest(p), Agree(p), Grows
  PROVE  Agree(p)'
<1>1. Form(p) /\ Typed /\ AtDigest(p) /\ mem[p] \in Memory
  BY PlannedDoes DEF TInv, Form, Does, LoadDigest, Typed
<1>2. work[p].plan # <<>>
  BY <1>1, DigestFrom
<1>3. /\ mem' = [mem EXCEPT ![p].digest = Digest(files)] /\ Proceed(p)
      /\ UNCHANGED <<users, head, files>>
  BY DEF LoadDigest, store
<1>4. mem'[p] = [mem[p] EXCEPT !.digest = Digest(files)]
  BY <1>1, <1>3 DEF Typed
<1>5. /\ mem'[p].open = mem[p].open /\ mem'[p].digest = Digest(files)
      /\ mem'[p].tree = mem[p].tree /\ mem'[p].rgm = mem[p].rgm /\ mem'[p].done = mem[p].done
      /\ mem'[p].settings = mem[p].settings
  BY <1>1, <1>4 DEF Memory
<1>6. /\ AtEnd(p) => work'[p] = Idle
      /\ ~AtEnd(p) => Moves(p) /\ work'[p].head = work[p].head
  BY <1>1, <1>2, <1>3, <1>5, ProceedTyped DEF Moves
<1>7. head # None => head' \in Heads
  BY <1>1, <1>3 DEF Typed
<1>8. (Alone' <=> Alone) /\ \A n : Shown(n)' <=> Shown(n)
  BY <1>3 DEF Alone, Shown
<1>9. CASE OverHead(p, 7)
  <2>1. On(p, OverPlan, 7) /\ AtOver(p, 7) /\ ~mem[p].open /\ head # None
    BY <1>9 DEF OverHead, AtOver
  <2>2. ~AtEnd(p)
    BY <2>1, OverSays
  <2>3. OverBody(p, 7)
    BY <2>1 DEF Agree
  <2>4. 7 + 1 \in 1..8 /\ OverHead(p, 7 + 1)'
    BY <1>6, <1>9, <2>2, OverNext
  <2>5. AtOver(p, 8)' /\ ~mem'[p].open
    BY <2>4 DEF OverHead, AtOver
  <2>6. /\ files["tree"] = head'.tree /\ files["rgm"] = head'.rgm
        /\ mem'[p].tree = head'.tree /\ mem'[p].rgm = head'.rgm /\ mem'[p].done = head'.done
        /\ mem'[p].settings = head'.settings
    BY <1>3, <1>5, <2>3 DEF OverBody, Shown
  <2>7. AtRest(p)'
    BY <1>5, <1>7, <2>1, <2>6, RestRead
  <2>8. Shown(8)'
    BY <1>3, <2>3 DEF OverBody, Shown
  <2> QED BY <2>5, <2>7, <2>8, OverAgree
<1>10. CASE Reloading(p, 7)
  <2>1. On(p, ReloadPlan, 7) /\ AtReload(p, 7) /\ head # None
    BY <1>1, <1>10 DEF Reloading, AtReload, Form
  <2>2. AtEnd(p)
    BY <2>1, ReloadSays
  <2>3. ReloadBody(p, 7)
    BY <2>1 DEF Agree
  <2>4. /\ files["tree"] = head'.tree /\ files["rgm"] = head'.rgm
        /\ mem'[p].tree = head'.tree /\ mem'[p].rgm = head'.rgm /\ mem'[p].done = head'.done
        /\ ~Alone'
    BY <1>3, <1>5, <1>8, <2>3 DEF ReloadBody, Shown
  <2>5. AtRest(p)'
    BY <1>5, <1>7, <2>1, <2>4, RestRead
  <2> QED BY <1>6, <2>2, <2>5, RestAgree DEF Idle
<1>11. CASE Restoring(p, 7)
  <2>1. On(p, RestorePlan, 7) /\ AtRestore(p, 7) /\ head # None
    BY <1>1, <1>11 DEF Restoring, AtRestore, Form
  <2>2. AtEnd(p)
    BY <2>1, RestoreSays
  <2>3. RestoreBody(p, 7)
    BY <2>1 DEF Agree
  <2>4. /\ files["tree"] = head'.tree /\ files["rgm"] = head'.rgm
        /\ mem'[p].tree = head'.tree /\ mem'[p].rgm = head'.rgm /\ mem'[p].done = head'.done
        /\ mem'[p].settings = head'.settings
    BY <1>3, <1>5, <2>3 DEF RestoreBody, Shown
  <2>5. AtRest(p)'
    BY <1>5, <1>7, <2>1, <2>4, RestRead
  <2> QED BY <1>6, <2>2, <2>5, RestAgree DEF Idle
<1>12. CASE Seeding(p) /\ SeedFiles(p, 3)
  <2>1. Seeds(p) /\ work[p].call = "open" /\ ~mem[p].open /\ On(p, SeededPlan, 3)
    BY <1>12 DEF Seeding, Seeds, SeedEmpty, SeedTree, SeedFiles
  <2>2. head = None /\ ~AtEnd(p)
    BY <2>1, SeededSays DEF Agree
  <2>3. work'[p].call = "open" /\ ~mem'[p].open /\ head' = None
    BY <1>3, <1>5, <1>6, <2>1, <2>2 DEF Moves
  <2> QED BY <2>3, SeedAgree
<1> QED BY <1>1, <1>9, <1>10, <1>11, <1>12 DEF AtDigest

LEMMA OpenAgrees ==
  ASSUME NEW p \in Processes, TInv, Form(p)', Open(p), Agree(p)
  PROVE  Agree(p)'
<1>1. Typed /\ mem[p] \in Memory
  BY DEF TInv, Typed
<1>2. /\ ~mem[p].open /\ Start(p, "open", OpenPlan, head)
      /\ mem' = [mem EXCEPT ![p].settings = IF head = None THEN Default ELSE head.settings]
      /\ UNCHANGED <<users, head, files>>
  BY DEF Open, store
<1>3. work'[p] = [call |-> "open", plan |-> OpenPlan, head |-> head]
  BY <1>1, <1>2 DEF Start, Typed
<1>4. mem'[p].open = mem[p].open /\ (head # None => mem'[p].settings = head.settings)
  BY <1>1, <1>2 DEF Typed, Memory
<1>5. CASE head = None
  <2>1. work'[p].call = "open" /\ ~mem'[p].open /\ head' = None
    BY <1>2, <1>3, <1>4, <1>5
  <2> QED BY <2>1, SeedAgree
<1>6. CASE head # None
  <2>1. OpenPlan = OverPlan
    BY <1>6 DEF OpenPlan, OverPlan, L
  <2>2. OverPlan # <<>> /\ OverPlan \in Seq(Statements)
    BY OverIs
  <2>3. Rest(OverPlan, OverPlan, 1)
    BY <2>2, Begins
  <2>4. work'[p].plan = OverPlan /\ work'[p].call = "open" /\ work'[p].head = head
    BY <1>3, <2>1
  <2>5. AtOver(p, 1)'
    BY <2>3, <2>4 DEF AtOver, On
  <2>6. OverBody(p, 1)'
    BY <1>2, <1>4, <1>6, <2>4 DEF OverBody, Shown
  <2>7. 1 \in 1..8 /\ 1 < 8 /\ ~mem'[p].open
    BY <1>2, <1>4
  <2> QED BY <2>5, <2>6, <2>7, OverAgree
<1> QED BY <1>5, <1>6

LEMMA CreateAgrees ==
  ASSUME NEW p \in Processes, TInv, Form(p)', Create(p), Agree(p)
  PROVE  Agree(p)'
<1>1. Typed /\ AtCreate(p) /\ work[p].plan # <<>>
  BY PlannedDoes DEF TInv, Form, Does, Create, Doing
<1>2. Advance(p) /\ UNCHANGED <<head, mem>>
  BY DEF Create
<1>3. Seeds(p) /\ work[p].call = "open" /\ ~mem[p].open
  BY <1>1 DEF AtCreate, Seeding, Seeds, SeedEmpty
<1>4. work'[p].call = "open" /\ ~mem'[p].open /\ head' = None
  BY <1>1, <1>2, <1>3, AdvanceTyped DEF Agree
<1> QED BY <1>4, SeedAgree

LEMMA LineageAgrees ==
  ASSUME NEW p \in Processes, TInv, Refused(p)
  PROVE  Agree(p)'
<1>1. work'[p] = Idle /\ mem'[p] = Closed
  BY FinishTyped DEF Refused, TInv, Typed
<1> QED BY <1>1, ClosedAgree

LEMMA EmptyTurns ==
  /\ ToSet(<<>>) = {} /\ IsInjective(<<>>) /\ DOMAIN <<>> = {} /\ Len(<<>>) = 0
BY DEF ToSet, IsInjective

LEMMA SamePut ==
  ASSUME NEW t, NEW u, NEW h \in Heads, h.tree = t, h.rgm = u
  PROVE  [h EXCEPT !.tree = t, !.rgm = u] = h
BY DEF Heads

\* A start ends with memory as the head, whether it found one or made one.
LEMMA OpenedAgrees ==
  ASSUME NEW p \in Processes, TInv, Opened(p), Agree(p), Durable
  PROVE  Durable' /\ Agree(p)' /\ (head' # head => head = None /\ head' = Image(Closed))
<1> DEFINE h == [Image(mem[p]) EXCEPT !.tree = files["tree"], !.rgm = files["rgm"]]
<1>1. Typed /\ mem[p] \in Memory
  BY DEF TInv, Typed
<1>2. /\ head' = IF Doing(p, "opened") THEN head ELSE h
      /\ mem' = [mem EXCEPT ![p].open = TRUE] /\ Finish(p)
      /\ UNCHANGED <<users, outcomes, saved, files>>
  BY DEF Opened
<1>3. work'[p] = Idle
  BY <1>1, <1>2, FinishTyped
<1>4. mem'[p] = [mem[p] EXCEPT !.open = TRUE]
  BY <1>1, <1>2 DEF Typed
<1>5. /\ mem'[p].digest = mem[p].digest /\ Digest(mem'[p]) = Digest(mem[p])
      /\ Image(mem'[p]) = Image(mem[p]) /\ mem'[p].tree = mem[p].tree /\ mem'[p].done = mem[p].done
  BY <1>1, <1>4 DEF Memory, Digest, Image
<1> HIDE DEF h
<1>6. CASE Doing(p, "opened")
  <2>1. AtOver(p, 8)
    BY <1>6, OpenedFrom DEF AtLineage, OverHead, AtOver
  <2>2. AtRest(p)
    BY <2>1 DEF Agree
  <2>3. head' = head
    BY <1>2, <1>6
  <2>4. AtRest(p)'
    BY <1>2, <1>5, <2>2, <2>3 DEF AtRest, Alone
  <2>5. Durable'
    BY <1>2, <2>3, SameDurable
  <2> QED BY <1>3, <2>3, <2>4, <2>5, RestAgree DEF Idle
<1>7. CASE ~Doing(p, "opened")
  <2>1. AtSeed(p) /\ files["tree"] # None /\ files["rgm"] # None
    BY <1>7, OpenedFrom DEF AtLineage, Opened
  <2>2. Seeds(p)
    BY <2>1 DEF AtSeed, Seeding, Seeds, SeedEmpty, SeedTree, SeedFiles
  <2>3. head = None
    BY <2>2 DEF Agree
  <2>4. mem[p] = Closed /\ files["tree"] = <<>> /\ files["rgm"] = <<>> /\ saved = {}
    BY <2>1, <2>3 DEF TInv, NoHead
  <2>5. head' = Image(Closed)
    <3> DEFINE i == Image(Closed)
    <3>1. i.tree = <<>> /\ i.rgm = <<>> /\ i \in Heads
      BY NotNone DEF Image, Closed, Heads
    <3> HIDE DEF i
    <3>2. [i EXCEPT !.tree = <<>>, !.rgm = <<>>] = i
      BY <3>1, SamePut
    <3>3. head' = [i EXCEPT !.tree = <<>>, !.rgm = <<>>]
      BY <1>2, <1>7, <2>4 DEF h, i
    <3> QED BY <3>2, <3>3 DEF i
  <2>6. head'.tree = <<>> /\ head'.rgm = <<>> /\ head'.done = {}
    BY <2>5 DEF Image, Closed
  <2>7. Digest(Closed) = Closed.digest /\ Closed.tree = <<>> /\ Closed.done = {}
    BY DEF Digest, Closed
  <2>8. AtRest(p)'
    BY <1>5, <2>4, <2>5, <2>6, <2>7, EmptyTurns DEF AtRest
  <2>9. Durable'
    BY <1>2, <2>4, <2>6, EmptyTurns DEF Durable, Sound, Coherent, Ticks
  <2> QED BY <1>3, <2>3, <2>5, <2>8, <2>9, RestAgree DEF Idle
<1> QED BY <1>6, <1>7

LEMMA CommitAgrees ==
  ASSUME NEW p \in Processes, NEW k \in Keys, TInv, Commit(p, k), Agree(p)
  PROVE  Agree(p)'
<1>1. Typed
  BY DEF TInv
<1>2. /\ mem[p].open /\ work[p] = Idle /\ Start(p, "commit", <<<<"commit", k>>>>, None)
      /\ UNCHANGED <<users, head, files, mem>>
  BY DEF Commit, Ready, Free
<1>3. work'[p].call = "commit"
  BY <1>1, <1>2 DEF Start, Typed
<1>4. AtRest(p)
  BY <1>2 DEF Agree, Working, Idle
<1>5. AtRest(p)'
  BY <1>2, <1>4, SameRest
<1> QED BY <1>3, <1>5, RestAgree

LEMMA RefusedAgrees ==
  ASSUME NEW p \in Processes, TInv, CommitRefused(p), Agree(p)
  PROVE  Agree(p)'
<1>1. Form(p) /\ Typed
  BY DEF TInv
<1>2. PICK k \in Keys : Trying(p, k)
  BY <1>1, PlannedDoes DEF Form, Does, CommitRefused
<1>3. Finish(p) /\ UNCHANGED <<users, head, files, mem>>
  BY DEF CommitRefused, store
<1>4. work'[p] = Idle
  BY <1>1, <1>3, FinishTyped
<1>5. AtRest(p)
  BY <1>2 DEF Agree, Working, Trying
<1>6. AtRest(p)'
  BY <1>3, <1>5, SameRest
<1> QED BY <1>4, <1>6, RestAgree DEF Idle

\* A turn learned on the head: head, checkpoints and outcome rows stay sound.
LEMMA LearnsAgrees ==
  ASSUME NEW p \in Processes, TInv, CommitLearns(p), Agree(p), Durable
  PROVE  /\ Durable' /\ Agree(p)'
         /\ head.done \subseteq head'.done /\ Len(head'.tree) = Len(head.tree) + 1
         /\ head # None /\ head \in Heads
<1>1. Form(p) /\ Typed /\ mem[p] \in Memory
  BY DEF TInv, Typed
<1> DEFINE k == Head(work[p].plan)[2]
           m == mem[p]
           n == [m EXCEPT !.tree = Append(@, k), !.rgm = Append(@, k),
                          !.done = Committed(@, k)]
           tick == Len(n.tree)
<1>2. k \in Keys /\ Trying(p, k)
  <2>1. PICK x \in Keys : Trying(p, x)
    BY <1>1, PlannedDoes DEF Form, Does, CommitLearns
  <2>2. Head(work[p].plan)[2] = x
    BY <2>1 DEF Trying
  <2> QED BY <2>1, <2>2
<1>3. /\ k \notin head.done /\ Fresh(p) /\ OutcomesAgree(k, tick)
      /\ head' = Image(n)
      /\ mem' = [mem EXCEPT ![p] = [n EXCEPT !.digest = Digest(n)]]
      /\ outcomes' = IF k \in Anchored /\ outcomes[k] = 0 THEN [outcomes EXCEPT ![k] = tick]
                     ELSE outcomes
      /\ Start(p, "commit", <<<<"readhead">>>> \o Project, None)
      /\ UNCHANGED <<users, saved>>
  BY DEF CommitLearns
<1> HIDE DEF k
<1>4. m.open /\ Len(m.tree) < MaxLength /\ m.tree \in Turns /\ m.rgm \in Turns /\ m.done \in SUBSET Keys
  BY <1>1, <1>2 DEF Memory, Trying
<1>5. head # None /\ head \in Heads /\ work[p].call = "commit"
  BY <1>1, <1>2, <1>4 DEF Form, Trying, Typed
<1>6. AtRest(p) /\ Sound(head)
  BY <1>4, <1>5 DEF Agree, Working, Durable
<1>7. m.tree = head.tree /\ m.rgm = head.rgm /\ m.done = head.done
  <2>1. Digest(m) = Digest(head)
    BY <1>3, <1>6 DEF AtRest, Fresh
  <2>2. m.tree = head.tree /\ m.rgm = head.rgm
    BY <2>1 DEF Digest
  <2>3. m.done = head.done
    BY <1>3, <1>6 DEF AtRest, Fresh, Image
  <2> QED BY <2>2, <2>3
<1> DEFINE t == Append(head.tree, k)
<1>8. /\ head.tree \in Turns /\ head.rgm = head.tree /\ head.done = ToSet(head.tree)
      /\ IsInjective(head.tree) /\ k \notin ToSet(head.tree)
  BY <1>3, <1>5, <1>6 DEF Heads, Sound, Coherent
<1>9. /\ t \in Turns /\ Len(t) = Len(head.tree) + 1 /\ Len(head.tree) \in Nat
      /\ ToSet(t) = ToSet(head.tree) \cup {k}
      /\ t[Len(head.tree) + 1] = k
      /\ \A i \in DOMAIN head.tree : t[i] = head.tree[i]
      /\ DOMAIN t = DOMAIN head.tree \cup {Len(head.tree) + 1}
      /\ DOMAIN head.tree = 1..Len(head.tree)
  BY <1>2, <1>4, <1>7, <1>8, AppendTurn
<1>10. /\ n.tree = t /\ n.rgm = t /\ n.done = head.done \cup {k}
       /\ n.settings = m.settings /\ n.open = m.open
  BY <1>1, <1>7, <1>8 DEF Memory, Committed
<1> HIDE DEF n, t
<1>11. head'.tree = t /\ head'.rgm = t /\ head'.done = head.done \cup {k}
  BY <1>3, <1>10 DEF Image
<1>12. IsInjective(t)
  <2>1. \A i \in DOMAIN head.tree : head.tree[i] # k
    BY <1>8 DEF ToSet
  <2> QED BY <1>8, <1>9, <2>1 DEF IsInjective
<1>13. Coherent(head')
  BY <1>8, <1>9, <1>11, <1>12 DEF Coherent
<1>14. outcomes \in [Keys -> 0..MaxLength] /\ tick = Len(head.tree) + 1
  BY <1>1, <1>9, <1>10 DEF Typed
<1>15. /\ \A x \in Keys : outcomes[x] # 0 => outcomes'[x] = outcomes[x]
       /\ \A x \in Keys : x # k => outcomes'[x] = outcomes[x]
       /\ k \in Anchored => outcomes'[k] = tick
  BY <1>2, <1>3, <1>14 DEF OutcomesAgree
<1>16. Ticks(head)'
  <2> SUFFICES ASSUME NEW i \in DOMAIN t, t[i] \in Anchored
               PROVE  outcomes'[t[i]] = i
    BY <1>11 DEF Ticks
  <2>1. CASE i \in DOMAIN head.tree
    <3>1. t[i] = head.tree[i] /\ t[i] # k /\ t[i] \in Keys
      BY <1>8, <1>9, <2>1, RuntimeAssumption DEF ToSet
    <3>2. outcomes[head.tree[i]] = i
      BY <1>6, <2>1, <3>1 DEF Sound, Ticks
    <3> QED BY <1>15, <3>1, <3>2
  <2>2. CASE i = Len(head.tree) + 1
    BY <1>9, <1>14, <1>15, <2>2
  <2> QED BY <1>9, <2>1, <2>2
<1>17. ASSUME NEW h \in Heads, Sound(h) PROVE Sound(h)'
  <2>1. ASSUME NEW i \in DOMAIN h.tree, h.tree[i] \in Anchored PROVE outcomes'[h.tree[i]] = i
    <3>1. outcomes[h.tree[i]] = i /\ h.tree[i] \in Keys
      BY <1>17, <2>1, RuntimeAssumption DEF Sound, Ticks
    <3>2. i # 0
      <4>1. h.tree \in Seq(Keys)
        BY LengthIs DEF Heads
      <4> QED BY <2>1, <4>1
    <3> QED BY <1>15, <3>1, <3>2
  <2> QED BY <1>17, <2>1 DEF Sound, Ticks, Coherent
<1>18. Durable'
  <2>1. Sound(head)'
    BY <1>13, <1>16 DEF Sound, Coherent
  <2>2. ASSUME NEW c \in saved PROVE Sound(c.head)' /\ Digest(c.head) = c.digest
    BY <1>1, <1>17 DEF Durable, Typed
  <2> QED BY <1>3, <2>1, <2>2 DEF Durable, Digest
<1>19. mem'[p] = [n EXCEPT !.digest = Digest(n)]
  BY <1>1, <1>3 DEF Typed
<1>20. n \in Memory
  BY <1>1, <1>2, <1>4, <1>7, <1>8, <1>9, <1>10 DEF n, Memory, Committed
<1>21. /\ mem'[p].digest = Digest(n) /\ mem'[p].tree = n.tree /\ mem'[p].rgm = n.rgm
       /\ mem'[p].done = n.done /\ mem'[p].settings = n.settings
  BY <1>19, <1>20 DEF Memory
<1>22. AtRest(p)'
  <2>1. Image(mem'[p]) = head' /\ mem'[p].digest = Digest(mem'[p])
    BY <1>3, <1>21 DEF Image, Digest
  <2>2. mem'[p].done = head'.done /\ Len(mem'[p].tree) <= Len(head'.tree)
    BY <1>9, <1>10, <1>11, <1>21
  <2> QED BY <2>1, <2>2 DEF AtRest
<1>23. work'[p].call = "commit"
  BY <1>1, <1>3 DEF Start, Typed
<1>24. Agree(p)'
  BY <1>22, <1>23, RestAgree
<1> QED BY <1>5, <1>9, <1>11, <1>18, <1>24

\* A key that another process committed: the head is adopted, by two processes
\* only.
LEMMA ReloadsAgrees ==
  ASSUME NEW p \in Processes, TInv, CommitReloads(p), Agree(p)
  PROVE  Agree(p)'
<1>1. Form(p) /\ Typed /\ mem[p] \in Memory
  BY DEF TInv, Typed
<1>2. PICK k \in Keys : Trying(p, k)
  BY <1>1, PlannedDoes DEF Form, Does, CommitReloads
<1>3. /\ k \in head.done
      /\ Start(p, "reload", Project \o <<<<"settings">>>> \o Reload, head)
      /\ UNCHANGED <<users, head, files, mem>>
  BY <1>2 DEF CommitReloads, store, Trying
<1>4. mem[p].open /\ k \notin mem[p].done /\ work[p].call = "commit" /\ head \in Heads
  BY <1>1, <1>2 DEF Trying, Form, Typed
<1>5. AtRest(p)
  BY <1>4 DEF Agree, Working
<1>6. ~Alone
  BY <1>3, <1>4, <1>5 DEF AtRest, Image
<1>7. work'[p] = [call |-> "reload", plan |-> ReloadPlan, head |-> head]
  BY <1>1, <1>3 DEF Start, Typed, ReloadPlan
<1>8. AtRest(p)'
  BY <1>3, <1>5, SameRest
<1>9. AtReload(p, 1)'
  <2>1. ReloadPlan # <<>> /\ ReloadPlan \in Seq(Statements)
    BY ReloadIs
  <2>2. Rest(ReloadPlan, ReloadPlan, 1)
    BY <2>1, Begins
  <2>3. work'[p].plan = ReloadPlan /\ work'[p].call = "reload"
    BY <1>7
  <2> QED BY <2>2, <2>3 DEF AtReload, On
<1>10. ReloadBody(p, 1)'
  <2>1. work'[p].head = head' /\ ~Alone'
    BY <1>3, <1>6, <1>7 DEF Alone
  <2> QED BY <1>3, <1>8, <2>1 DEF ReloadBody, Shown
<1>11. 1 \in 1..7
  OBVIOUS
<1> QED BY <1>9, <1>10, <1>11, ReloadAgree

LEMMA ReadHeadAgrees ==
  ASSUME NEW p \in Processes, TInv, ReadHead(p), Agree(p)
  PROVE  Agree(p)'
<1>1. Form(p) /\ Typed /\ (Learnt(p, 1) \/ Restoring(p, 1)) /\ work[p].plan # <<>>
  BY PlannedDoes DEF TInv, Form, Does, ReadHead, Doing
<1>2. AdvanceWith(p, head) /\ UNCHANGED <<users, head, files, mem>>
  BY DEF ReadHead, store
<1>3. head # None /\ head \in Heads \cup {None}
  BY <1>1 DEF Form, Typed, Learnt, Restoring
<1>4. /\ work'[p].call = work[p].call /\ work'[p].head = head
      /\ work'[p].plan = Tail(work[p].plan)
  BY <1>1, <1>2, <1>3, AdvanceWithTyped
<1>5. CASE Learnt(p, 1)
  <2>1. AtRest(p) /\ work[p].call = "commit"
    BY <1>5 DEF Agree, Working, Learnt
  <2>2. AtRest(p)'
    BY <1>2, <2>1, SameRest
  <2> QED BY <1>4, <2>1, <2>2, RestAgree
<1>6. CASE Restoring(p, 1)
  <2>1. AtRestore(p, 1) /\ 1 \in 1..7 /\ 1 \in 1..6
    BY <1>6 DEF Restoring, AtRestore
  <2>2. RestoreBody(p, 1)
    BY <2>1 DEF Agree
  <2>3. 1 + 1 \in 1..7 /\ Restoring(p, 1 + 1)'
    BY <1>2, <1>3, <1>4, <1>6, <2>1, RestoreNext DEF Moves
  <2>4. 2 \in 1..7 /\ AtRestore(p, 2)'
    BY <2>3 DEF Restoring, AtRestore
  <2>5. RestoreBody(p, 2)'
    BY <1>2, <1>4, <2>2 DEF RestoreBody, Shown, Alone
  <2> QED BY <2>4, <2>5, RestoreAgree
<1> QED BY <1>1, <1>5, <1>6

LEMMA AdoptAgrees ==
  ASSUME NEW p \in Processes, TInv, Adopt(p), Agree(p)
  PROVE  Agree(p)'
<1>1. Form(p) /\ Typed /\ Reloading(p, 4) /\ work[p].plan # <<>> /\ mem[p] \in Memory
  BY PlannedDoes DEF TInv, Form, Does, Adopt, Doing, Typed
<1>2. /\ mem' = [mem EXCEPT ![p].settings = work[p].head.settings, ![p].done = work[p].head.done]
      /\ Advance(p)
      /\ UNCHANGED <<users, head, files>>
  BY DEF Adopt, store
<1>3. /\ work'[p].call = work[p].call /\ work'[p].head = work[p].head
      /\ work'[p].plan = Tail(work[p].plan)
  BY <1>1, <1>2, AdvanceTyped
<1>4. mem'[p].open = mem[p].open /\ mem'[p].done = work[p].head.done
  BY <1>1, <1>2 DEF Typed, Memory
<1>5. AtReload(p, 4) /\ 4 \in 1..7 /\ 4 \in 1..6
  BY <1>1 DEF Reloading, AtReload
<1>6. ReloadBody(p, 4)
  BY <1>5 DEF Agree
<1>7. 4 + 1 \in 1..7 /\ Reloading(p, 4 + 1)'
  BY <1>1, <1>3, <1>4, <1>5, ReloadNext DEF Moves
<1>8. 5 \in 1..7 /\ AtReload(p, 5)'
  BY <1>7 DEF Reloading, AtReload
<1>9. ReloadBody(p, 5)'
  BY <1>2, <1>3, <1>4, <1>6 DEF ReloadBody, Shown, Alone
<1> QED BY <1>8, <1>9, ReloadAgree

\* Other settings on the head that memory is.
LEMMA SettingsAgrees ==
  ASSUME NEW p \in Processes, NEW s \in Settings, TInv, UpdateSettings(p, s), Agree(p), Durable,
         Alone
  PROVE  Durable' /\ Agree(p)' /\ head'.done = head.done
<1> DEFINE h == [Image(mem[p]) EXCEPT !.settings = s]
<1>1. Form(p) /\ Typed /\ mem[p] \in Memory
  BY DEF TInv, Typed
<1>2. /\ mem[p].open /\ work[p] = Idle /\ head' = h /\ mem' = [mem EXCEPT ![p].settings = s]
      /\ UNCHANGED <<users, outcomes, saved, work>>
  BY DEF UpdateSettings, Ready, Free
<1>3. AtRest(p) /\ head # None
  BY <1>1, <1>2 DEF Agree, Working, Idle, Form
<1>4. Image(mem[p]) = head /\ mem[p].digest = Digest(mem[p])
  BY <1>3 DEF AtRest
<1>5. /\ h.tree = mem[p].tree /\ h.rgm = mem[p].rgm /\ h.done = mem[p].done
      /\ mem[p].tree = head.tree /\ mem[p].rgm = head.rgm /\ mem[p].done = head.done
  BY <1>4 DEF Image
<1>6. mem'[p] = [mem[p] EXCEPT !.settings = s]
  BY <1>1, <1>2 DEF Typed
<1>7. Image(mem'[p]) = h
  BY <1>1, <1>6 DEF Memory, Image
<1>8. mem'[p].digest = mem[p].digest /\ Digest(mem'[p]) = Digest(mem[p])
  BY <1>1, <1>6 DEF Memory, Digest
<1> HIDE DEF h
<1>9. AtRest(p)'
  BY <1>2, <1>4, <1>7, <1>8 DEF AtRest, Alone
<1>10. Durable'
  <2>1. Sound(head)'
    BY <1>2, <1>3, <1>5 DEF Durable, Sound, Coherent, Ticks
  <2>2. \A c \in saved : Sound(c.head)' /\ Digest(c.head) = c.digest
    BY <1>2 DEF Durable, Sound, Coherent, Ticks
  <2> QED BY <1>2, <2>1, <2>2 DEF Durable, Digest
<1> QED BY <1>2, <1>5, <1>9, <1>10, RestAgree DEF Idle

LEMMA SaveAgrees ==
  ASSUME NEW p \in Processes, TInv, Save(p), Agree(p), Alone
  PROVE  Agree(p)'
<1>1. Typed
  BY DEF TInv
<1>2. /\ mem[p].open /\ work[p] = Idle /\ Start(p, "save", SavePlan, None)
      /\ UNCHANGED <<users, head, files, mem>>
  BY DEF Save, Ready, Free, store
<1>3. work'[p] = [call |-> "save", plan |-> SavePlan, head |-> None]
  BY <1>1, <1>2 DEF Start, Typed
<1>4. AtRest(p)
  BY <1>2 DEF Agree, Working, Idle
<1>5. AtRest(p)'
  BY <1>2, <1>4, SameRest
<1>6. AtSave(p, 1)' /\ 1 \in 1..5
  <2>1. Rest(SavePlan, SavePlan, 1)
    BY SaveIs, Begins
  <2>2. work'[p].plan = SavePlan /\ work'[p].call = "save"
    BY <1>3
  <2> QED BY <2>1, <2>2 DEF AtSave, On
<1>7. SaveBody(p, 1)'
  BY <1>2 DEF SaveBody, Alone
<1> QED BY <1>5, <1>6, <1>7, SaveAgree

\* What a save copies is the head.
LEMMA CopyIsHead ==
  ASSUME NEW p \in Processes, Typed, head \in Heads, AtRest(p), Alone,
         files["tree"] = head.tree, files["rgm"] = head.rgm
  PROVE  Copy(p) = head
<1>1. Image(mem[p]) = head
  BY DEF AtRest
<1>2. Copy(p) = [head EXCEPT !.tree = files["tree"], !.rgm = files["rgm"]]
  BY <1>1 DEF Copy
<1>3. [head EXCEPT !.tree = files["tree"], !.rgm = files["rgm"]] = head
  BY SamePut, Zenon
<1> QED BY <1>2, <1>3

LEMMA CopiesAgrees ==
  ASSUME NEW p \in Processes, TInv, SaveCopies(p), Agree(p)
  PROVE  Agree(p)'
<1>1. Form(p) /\ Typed /\ Saving(p, 3) /\ work[p].plan # <<>>
  BY PlannedDoes DEF TInv, Form, Does, SaveCopies, Doing
<1>2. /\ AdvanceWith(p, Copy(p))
      /\ UNCHANGED <<users, head, files, mem>>
  BY DEF SaveCopies, store, Copy
<1>3. /\ mem[p].open /\ head # None /\ head \in Heads
      /\ AtSave(p, 3) /\ 3 \in 1..5 /\ 3 \in 1..4 /\ work[p].call = "save"
  BY <1>1 DEF Form, Saving, AtSave, Typed
<1>4. SaveBody(p, 3) /\ AtRest(p)
  BY <1>3 DEF Agree, Working
<1>5. Copy(p) = head
  BY <1>1, <1>3, <1>4, CopyIsHead DEF SaveBody
<1>6. /\ work'[p].call = work[p].call /\ work'[p].head = head
      /\ work'[p].plan = Tail(work[p].plan)
  BY <1>1, <1>2, <1>3, <1>5, AdvanceWithTyped
<1>7. 3 + 1 \in 1..5 /\ Saving(p, 3 + 1)'
  BY <1>1, <1>2, <1>3, <1>6, SaveNext DEF Moves
<1>8. 4 \in 1..5 /\ AtSave(p, 4)'
  BY <1>7 DEF Saving, AtSave
<1>9. SaveBody(p, 4)' /\ AtRest(p)'
  BY <1>2, <1>4, <1>6, SameRest DEF SaveBody, Alone
<1> QED BY <1>8, <1>9, SaveAgree

\* The head a save sets is the head it found.
LEMMA SetsHeadAgrees ==
  ASSUME NEW p \in Processes, TInv, SaveSetsHead(p), Agree(p)
  PROVE  Agree(p)' /\ head' = head
<1>1. Form(p) /\ Typed /\ Saving(p, 4) /\ work[p].plan # <<>>
  BY PlannedDoes DEF TInv, Form, Does, SaveSetsHead, Doing
<1>2. /\ head' = Copy(p) /\ Advance(p)
      /\ UNCHANGED <<users, files, mem>>
  BY DEF SaveSetsHead, Copy
<1>3. /\ mem[p].open /\ head # None /\ head \in Heads /\ work[p].head # None
      /\ AtSave(p, 4) /\ 4 \in 1..5 /\ 4 \in 1..4 /\ work[p].call = "save"
  BY <1>1 DEF Form, Saving, AtSave, Typed
<1>4. SaveBody(p, 4) /\ AtRest(p)
  BY <1>3 DEF Agree, Working
<1>5. head' = head
  BY <1>1, <1>2, <1>3, <1>4, CopyIsHead DEF SaveBody
<1>6. /\ work'[p].call = work[p].call /\ work'[p].head = work[p].head
      /\ work'[p].plan = Tail(work[p].plan)
  BY <1>1, <1>2, AdvanceTyped
<1>7. 4 + 1 \in 1..5 /\ Saving(p, 4 + 1)'
  BY <1>1, <1>2, <1>3, <1>6, SaveNext DEF Moves
<1>8. 5 \in 1..5 /\ AtSave(p, 5)'
  BY <1>7 DEF Saving, AtSave
<1>9. SaveBody(p, 5)' /\ AtRest(p)'
  BY <1>2, <1>4, <1>5, <1>6, SameRest DEF SaveBody, Alone
<1> QED BY <1>5, <1>8, <1>9, SaveAgree

LEMMA MetadataAgrees ==
  ASSUME NEW p \in Processes, TInv, SaveMetadata(p), Agree(p), Durable
  PROVE  Durable' /\ Agree(p)'
<1>1. Form(p) /\ Typed /\ Saving(p, 5)
  BY PlannedDoes DEF TInv, Form, Does, SaveMetadata
<1>2. /\ saved' = saved \cup {[head |-> work[p].head, digest |-> mem[p].digest]} /\ Finish(p)
      /\ UNCHANGED <<users, head, outcomes, mem>>
  BY DEF SaveMetadata
<1>3. /\ mem[p].open /\ head # None
      /\ AtSave(p, 5) /\ 5 \in 1..5 /\ work[p].call = "save"
  BY <1>1 DEF Form, Saving, AtSave
<1>4. SaveBody(p, 5) /\ AtRest(p)
  BY <1>3 DEF Agree, Working
<1>5. work'[p] = Idle
  BY <1>1, <1>2, FinishTyped
<1>6. AtRest(p)'
  BY <1>2, <1>4, SameRest
<1>7. work[p].head = head /\ mem[p].digest = Digest(head)
  BY <1>4 DEF SaveBody, AtRest, Image, Digest
<1>8. \A h : Sound(h) => Sound(h)'
  BY <1>2 DEF Sound, Coherent, Ticks
<1>9. Durable'
  <2>1. \A c \in saved' : Sound(c.head) /\ Digest(c.head) = c.digest
    BY <1>2, <1>3, <1>7 DEF Durable
  <2> QED BY <1>2, <1>8, <2>1 DEF Durable, Digest
<1> QED BY <1>5, <1>6, <1>9, RestAgree DEF Idle

LEMMA RestoreAgrees ==
  ASSUME NEW p \in Processes, TInv, Restore(p), Durable, Alone
  PROVE  Durable' /\ Agree(p)' /\ \E c \in saved : head' = c.head
<1>1. Form(p) /\ Typed /\ mem[p] \in Memory
  BY DEF TInv, Typed
<1>2. PICK c \in saved :
        /\ head' = c.head
        /\ mem'  = [mem EXCEPT ![p].done = c.head.done, ![p].settings = c.head.settings]
  BY DEF Restore, Restored
<1>3. /\ Start(p, "restore", RestorePlan, None)
      /\ UNCHANGED <<users, outcomes, saved>>
  BY DEF Restore, RestorePlan
<1>4. mem'[p].done = head'.done /\ mem'[p].settings = head'.settings
  BY <1>1, <1>2 DEF Typed, Memory
<1>5. work'[p] = [call |-> "restore", plan |-> RestorePlan, head |-> None]
  BY <1>1, <1>3 DEF Start, Typed
<1>6. AtRestore(p, 1)' /\ 1 \in 1..7
  <2>1. Rest(RestorePlan, RestorePlan, 1)
    BY RestoreIs, Begins
  <2>2. work'[p].plan = RestorePlan /\ work'[p].call = "restore"
    BY <1>5
  <2> QED BY <2>1, <2>2 DEF AtRestore, On
<1>7. RestoreBody(p, 1)'
  BY <1>3, <1>4 DEF RestoreBody, Shown, Alone
<1>8. Durable'
  <2>1. \A h : Sound(h) => Sound(h)'
    BY <1>3 DEF Sound, Coherent, Ticks
  <2>2. Sound(head')
    BY <1>2 DEF Durable
  <2>3. Sound(head)'
    BY <1>3, <2>2 DEF Sound, Coherent, Ticks
  <2> QED BY <1>3, <2>1, <2>3 DEF Durable, Digest
<1> QED BY <1>2, <1>6, <1>7, <1>8, RestoreAgree

-----------------------------------------------------------------------------
(* Every step *)

\* A process that runs uses the project.
LEMMA RunnerUses ==
  ASSUME TInv, NEW p \in Processes, work[p].plan # <<>> \/ mem[p].open
  PROVE  p \in users
<1>1. Form(p)
  BY DEF TInv
<1> QED BY <1>1 DEF Form, Closed, Idle

\* What a step writes of mem and work is its own.
LEMMA OwnWork ==
  ASSUME Typed, NEW p \in Processes, NEW h, NEW call, NEW plan,
         \/ Finish(p) \/ Advance(p) \/ Proceed(p) \/ AdvanceWith(p, h)
         \/ Start(p, call, plan, h) \/ work' = work
  PROVE  \A q \in Processes : q # p => work'[q] = work[q]
<1>1. work \in [Processes -> Work]
  BY DEF Typed
<1> QED BY <1>1 DEF Finish, Advance, Proceed, AdvanceWith, Start

LEMMA OwnMemory ==
  ASSUME Typed, NEW p \in Processes, NEW m, mem' = [mem EXCEPT ![p] = m] \/ mem' = mem
  PROVE  \A q \in Processes : q # p => mem'[q] = mem[q]
BY DEF Typed

\* A plan that goes on, or ends, is another plan.
LEMMA PlanMoves ==
  ASSUME Typed, NEW p \in Processes, work[p].plan # <<>>,
         Finish(p) \/ Advance(p) \/ Proceed(p)
  PROVE  work'[p] # work[p]
<1>1. CASE Finish(p)
  <2>1. work'[p] = Idle
    BY <1>1, FinishTyped
  <2> QED BY <2>1 DEF Idle
<1>2. CASE Advance(p)
  <2>1. work'[p].plan = Tail(work[p].plan)
    BY <1>2, AdvanceTyped
  <2>2. work[p].plan \in Seq(Statements)
    BY DEF Typed, Work
  <2>3. Len(Tail(work[p].plan)) # Len(work[p].plan)
    BY <2>2
  <2> QED BY <2>1, <2>3
<1> QED BY <1>1, <1>2 DEF Proceed

\* Once the files were replaced under a reader nothing more is claimed.
LEMMA RacedStays ==
  ASSUME CInv, raced, Races, users' = users
  PROVE  CInv'
BY DEF CInv, Races, Alone

LEMMA LoadKeeps ==
  ASSUME TInv, TInv', CInv, Races, NEW p \in Processes, LoadPart(p) \/ LoadDigest(p)
  PROVE  CInv'
<1>1. Typed /\ Form(p)'
  BY DEF TInv
<1>2. UNCHANGED <<users, head, library, outcomes, saved, files>>
  BY DEF LoadPart, LoadDigest, store
<1>3. Grows
  BY <1>2 DEF Grows
<1>4. \A q \in Processes : q # p => work'[q] = work[q]
  <2>1. Advance(p) \/ Proceed(p)
    BY DEF LoadPart, LoadDigest
  <2> QED BY <1>1, <2>1, OwnWork
<1>5. \A q \in Processes : q # p => mem'[q] = mem[q]
  BY <1>1 DEF LoadPart, LoadDigest, Typed
<1>6. ~raced => Durable' /\ Agree(p)'
  BY <1>1, <1>2, <1>3, SameDurable, LoadAgrees, DigestAgrees DEF CInv
<1>7. OthersKept(p)
  BY <1>4, <1>5 DEF OthersKept
<1> QED BY <1>2, <1>6, <1>7, QuietStep

LEMMA FailKeeps ==
  ASSUME TInv, CInv, Races, NEW p \in Processes, WriteFails(p), "restore" \notin MayFail
  PROVE  CInv'
<1>1. Typed
  BY DEF TInv
<1>2. UNCHANGED <<users, head, outcomes, saved, files>> /\ Finish(p)
  BY DEF WriteFails, store
<1>3. \A q \in Processes : q # p => work'[q] = work[q]
  BY <1>1, <1>2, OwnWork
<1>4. \A q \in Processes : q # p => mem'[q] = mem[q]
  BY <1>1 DEF WriteFails, Typed
<1>5. ~raced => Durable' /\ Agree(p)'
  BY <1>2, SameDurable, FailAgrees DEF CInv
<1>6. OthersKept(p)
  BY <1>3, <1>4 DEF OthersKept
<1> QED BY <1>2, <1>5, <1>6, QuietStep

LEMMA StartKeeps ==
  ASSUME TInv, TInv', CInv, Races, NEW p \in Processes,
         Open(p) \/ Create(p) \/ Refused(p) \/ CommitReloads(p) \/ CommitRefused(p) \/ ReadHead(p) \/ Adopt(p)
  PROVE  CInv'
<1>1. Typed /\ Form(p)'
  BY DEF TInv
<1>2. UNCHANGED <<users, head, outcomes, saved, files>>
  BY DEF Open, Create, Refused, CommitReloads, CommitRefused, ReadHead, Adopt, store
<1>3. \A q \in Processes : q # p => work'[q] = work[q]
  BY <1>1, OwnWork DEF Open, Create, Refused, CommitReloads, CommitRefused, ReadHead, Adopt
<1>4. \A q \in Processes : q # p => mem'[q] = mem[q]
  BY <1>1 DEF Open, Create, Refused, CommitReloads, CommitRefused, ReadHead, Adopt, Typed
<1>5. ~raced => Durable' /\ Agree(p)'
  BY <1>1, <1>2, SameDurable, OpenAgrees, CreateAgrees, LineageAgrees, ReloadsAgrees,
     RefusedAgrees, ReadHeadAgrees, AdoptAgrees DEF CInv
<1>6. OthersKept(p)
  BY <1>3, <1>4 DEF OthersKept
<1> QED BY <1>2, <1>5, <1>6, QuietStep

LEMMA CommitKeeps ==
  ASSUME TInv, CInv, Races, NEW p \in Processes, NEW k \in Keys, Commit(p, k)
  PROVE  CInv'
<1>1. Typed
  BY DEF TInv
<1>2. UNCHANGED <<users, head, outcomes, saved, files, mem>>
  BY DEF Commit
<1>3. \A q \in Processes : q # p => work'[q] = work[q]
  BY <1>1, OwnWork DEF Commit
<1>4. ~raced => Durable' /\ Agree(p)'
  BY <1>2, SameDurable, CommitAgrees DEF CInv
<1>5. OthersKept(p)
  BY <1>2, <1>3 DEF OthersKept
<1> QED BY <1>2, <1>4, <1>5, QuietStep

LEMMA SaveKeeps ==
  ASSUME TInv, CInv, Races, NEW p \in Processes, Shared \subseteq {"commit"},
         Save(p) \/ SaveCopies(p) \/ SaveSetsHead(p) \/ SaveMetadata(p)
  PROVE  CInv'
<1>1. Typed
  BY DEF TInv
<1>2. UNCHANGED <<users, outcomes, files, mem>>
  BY DEF Save, SaveCopies, SaveSetsHead, SaveMetadata, store
<1>3. \A q \in Processes : q # p => work'[q] = work[q]
  BY <1>1, OwnWork DEF Save, SaveCopies, SaveSetsHead, SaveMetadata
<1>4. OthersKept(p)
  BY <1>2, <1>3 DEF OthersKept
<1>5. CASE raced
  BY <1>2, <1>5, RacedStays
<1>6. CASE ~raced
  <2>1. Agree(p) /\ Durable
    BY <1>6 DEF CInv
  <2>2. CASE Save(p) \/ SaveCopies(p)
    <3>1. Save(p) => Alone
      BY DEF Save, Called
    <3>2. UNCHANGED <<head, saved>>
      BY <2>2 DEF Save, SaveCopies, store
    <3>3. Durable' /\ Agree(p)'
      BY <1>2, <2>1, <2>2, <3>1, <3>2, SameDurable, SaveAgrees, CopiesAgrees
    <3> QED BY <1>2, <1>4, <3>2, <3>3, QuietStep
  <2>3. CASE SaveSetsHead(p)
    <3>1. head' = head /\ saved' = saved /\ Agree(p)'
      BY <2>1, <2>3, SetsHeadAgrees DEF SaveSetsHead
    <3>2. Durable'
      BY <1>2, <2>1, <3>1, SameDurable
    <3> QED BY <1>2, <1>4, <3>1, <3>2, QuietStep
  <2>4. CASE SaveMetadata(p)
    <3>1. head' = head /\ Durable' /\ Agree(p)'
      BY <2>1, <2>4, MetadataAgrees DEF SaveMetadata
    <3> QED BY <1>2, <1>4, <3>1, QuietStep
  <2> QED BY <2>2, <2>3, <2>4
<1> QED BY <1>5, <1>6

LEMMA CrashKeeps ==
  ASSUME TInv, CInv, Races, NEW p \in Processes, Crash(p)
  PROVE  CInv'
<1>1. Typed
  BY DEF TInv
<1>2. UNCHANGED <<users, head, outcomes, saved, files>> /\ Finish(p)
      /\ mem' = [mem EXCEPT ![p] = Closed]
  BY DEF Crash, store
<1>3. work'[p] = Idle /\ mem'[p] = Closed
  BY <1>1, <1>2, FinishTyped DEF Typed
<1>4. OthersKept(p)
  BY <1>1, <1>2, OwnWork, OwnMemory DEF OthersKept
<1>5. ~raced => Durable' /\ Agree(p)'
  BY <1>2, <1>3, SameDurable, ClosedAgree DEF CInv
<1> QED BY <1>2, <1>4, <1>5, QuietStep

LEMMA FilesKeep ==
  ASSUME TInv, TInv', CInv, Races, NEW p \in Processes, Write(p) \/ PersistPart(p)
  PROVE  CInv'
<1>1. Typed /\ Form(p)' /\ Form(p)
  BY DEF TInv
<1>2. UNCHANGED <<users, head, library, outcomes, saved>> /\ work[p].plan # <<>>
  BY DEF Write, PersistPart, store, Doing
<1>3. \A q \in Processes : q # p => work'[q] = work[q]
  BY <1>1, OwnWork DEF Write, PersistPart
<1>4. \A q \in Processes : q # p => mem'[q] = mem[q]
  BY <1>1 DEF Write, PersistPart, Typed
<1>5. OthersKept(p)
  BY <1>3, <1>4 DEF OthersKept
<1>6. ~Overlap(p)
  <2>1. work'[p] # work[p]
    BY <1>1, <1>2, PlanMoves DEF Write, PersistPart
  <2> QED BY <2>1 DEF Overlap
<1>7. Write(p) => Grows
  <2> SUFFICES ASSUME Write(p) PROVE Grows
    OBVIOUS
  <2> DEFINE part == Head(work[p].plan)[2]
  <2>1. AtWrite(p)
    BY <1>1, PlannedDoes DEF Form, Does, Write
  <2>2. part \in Parts /\ work[p].head \in Heads
    BY <2>1, WriteFrom
  <2>3. work[p].head[part] # None
    BY <2>2, NotNone DEF Heads, Parts
  <2>4. files' = [files EXCEPT ![part] = work[p].head[part]]
    BY DEF Write
  <2> HIDE DEF part
  <2>5. \A i \in Parts : files[i] # None => files'[i] # None
    BY <1>1, <2>2, <2>3, <2>4 DEF Typed
  <2> QED BY <1>2, <2>5 DEF Grows
<1>8. ~raced => Durable' /\ Agree(p)'
  BY <1>1, <1>2, <1>7, SameDurable, WriteAgrees, PersistAgrees DEF CInv
<1>9. \A q \in Processes : q # p /\ AtRest(q) => AtRest(q)'
  BY <1>2, <1>4, SameRest
<1>10. p \in users
  BY <1>2, RunnerUses
<1> QED BY <1>2, <1>5, <1>6, <1>8, <1>9, <1>10, LoudStep

LEMMA OpenedKeeps ==
  ASSUME TInv, CInv, Races, NEW p \in Processes, Opened(p)
  PROVE  CInv'
<1>1. Typed
  BY DEF TInv
<1>2. UNCHANGED <<users, files>> /\ work[p].plan # <<>> /\ Finish(p)
  BY DEF Opened, AtLineage, Doing
<1>3. OthersKept(p)
  <2>1. \A q \in Processes : q # p => mem'[q] = mem[q]
    BY <1>1 DEF Opened, Typed
  <2> QED BY <1>1, <1>2, <2>1, OwnWork DEF OthersKept
<1>4. ~Overlap(p)
  <2>1. work'[p] # work[p]
    BY <1>1, <1>2, PlanMoves
  <2> QED BY <2>1 DEF Overlap
<1>5. ~raced => Durable' /\ Agree(p)' /\ (head' # head => head = None /\ head' = Image(Closed))
  BY OpenedAgrees DEF CInv
<1>6. ASSUME NEW q \in Processes, q # p, ~raced, ~Alone, AtRest(q)
      PROVE  AtRest(q)'
  <2>1. CASE head' = head
    BY <1>2, <1>3, <1>6, <2>1, SameRest DEF OthersKept
  <2>2. CASE head' # head
    <3>1. head' = Image(Closed) /\ mem[q] = Closed
      BY <1>5, <1>6, <2>2 DEF TInv, NoHead
    <3>2. mem'[q] = Closed
      BY <1>3, <1>6, <3>1 DEF OthersKept
    <3>3. /\ Closed.digest = Digest(Closed) /\ Image(Closed).done = Closed.done
          /\ Len(Closed.tree) = 0 /\ Len(Image(Closed).tree) = 0
      BY EmptyTurns DEF Closed, Digest, Image
    <3>4. ~Alone'
      BY <1>2, <1>6 DEF Alone
    <3> QED BY <3>1, <3>2, <3>3, <3>4 DEF AtRest
  <2> QED BY <2>1, <2>2
<1>7. p \in users
  BY <1>2, RunnerUses
<1> QED BY <1>2, <1>3, <1>4, <1>5, <1>6, <1>7, LoudStep

\* Another process is at rest on the head before, so its digest is stale.
LEMMA LearnsKeeps ==
  ASSUME TInv, CInv, Races, NEW p \in Processes, CommitLearns(p)
  PROVE  CInv'
<1>1. Typed /\ Form(p)
  BY DEF TInv
<1>2. UNCHANGED users /\ work[p].plan # <<>> /\ Doing(p, "commit")
  BY DEF CommitLearns, Doing
<1>3. OthersKept(p)
  <2>1. \A q \in Processes : q # p => mem'[q] = mem[q]
    BY <1>1 DEF CommitLearns, Typed
  <2>2. \A q \in Processes : q # p => work'[q] = work[q]
    BY <1>1, OwnWork DEF CommitLearns
  <2> QED BY <2>1, <2>2 DEF OthersKept
<1>4. ~Overlap(p)
  <2>1. PICK k \in Keys : Trying(p, k)
    BY <1>1, <1>2, PlannedDoes DEF Form, Does
  <2>2. work[p].plan = <<<<"commit", k>>>>
    BY <2>1 DEF Trying
  <2> QED BY <2>2 DEF Overlap
<1>5. ~raced => /\ Durable' /\ Agree(p)'
                /\ Len(head'.tree) = Len(head.tree) + 1 /\ head \in Heads
  BY LearnsAgrees DEF CInv
<1>6. ASSUME NEW q \in Processes, q # p, ~raced, ~Alone, AtRest(q)
      PROVE  AtRest(q)'
  <2>1. mem'[q] = mem[q] /\ ~Alone'
    BY <1>2, <1>3, <1>6 DEF OthersKept, Alone
  <2>2. mem[q].digest = Digest(mem[q]) /\ Len(mem[q].tree) <= Len(head.tree)
    BY <1>6 DEF AtRest
  <2>3. head.tree \in Turns /\ mem[q].tree \in Turns
    BY <1>1, <1>5, <1>6 DEF Heads, Typed, Memory
  <2>4. Len(head.tree) \in Nat /\ Len(mem[q].tree) \in Nat
    BY <2>3, LengthIs
  <2>5. Len(mem[q].tree) < Len(head'.tree)
    BY <1>5, <1>6, <2>2, <2>4
  <2>6. mem[q].tree # head'.tree
    BY <1>5, <1>6, <2>4, <2>5
  <2>7. mem[q].digest # Digest(head')
    BY <2>2, <2>6 DEF Digest
  <2>8. Len(mem[q].tree) <= Len(head'.tree)
    BY <1>5, <1>6, <2>4, <2>5
  <2> QED BY <2>1, <2>2, <2>7, <2>8 DEF AtRest
<1>7. p \in users
  BY <1>2, RunnerUses
<1> QED BY <1>2, <1>3, <1>4, <1>5, <1>6, <1>7, LoudStep

LEMMA SettingsKeeps ==
  ASSUME TInv, CInv, Races, NEW p \in Processes, NEW s \in Settings, UpdateSettings(p, s),
         Shared \subseteq {"commit"}
  PROVE  CInv'
<1>1. Typed /\ Alone /\ mem[p].open /\ work[p] = Idle /\ users' = users
  BY DEF TInv, UpdateSettings, Called, Ready, Free
<1>2. OthersKept(p)
  BY <1>1 DEF OthersKept, UpdateSettings, Typed
<1>3. ~Overlap(p)
  BY <1>1 DEF Overlap, Idle
<1>4. ~raced => Durable' /\ Agree(p)'
  BY <1>1, SettingsAgrees DEF CInv
<1>5. p \in users
  BY <1>1, RunnerUses
<1> QED BY <1>1, <1>2, <1>3, <1>4, <1>5, LoudStep

LEMMA RestoreKeeps ==
  ASSUME TInv, CInv, Races, NEW p \in Processes, Restore(p), Shared \subseteq {"commit"}
  PROVE  CInv'
<1>1. Typed /\ Alone /\ mem[p].open /\ work[p] = Idle /\ users' = users
  BY DEF TInv, Restore, Called, Ready, Free
<1>2. OthersKept(p)
  <2>1. \A q \in Processes : q # p => mem'[q] = mem[q]
    BY <1>1 DEF Restore, Typed
  <2>2. \A q \in Processes : q # p => work'[q] = work[q]
    BY <1>1, OwnWork DEF Restore
  <2> QED BY <2>1, <2>2 DEF OthersKept
<1>3. ~Overlap(p)
  BY <1>1 DEF Overlap, Idle
<1>4. ~raced => Durable' /\ Agree(p)'
  BY <1>1, RestoreAgrees DEF CInv
<1>5. p \in users
  BY <1>1, RunnerUses
<1> QED BY <1>1, <1>2, <1>3, <1>4, <1>5, LoudStep

-----------------------------------------------------------------------------
(* Always *)

LEMMA StartAgrees == Init => CInv
<1> SUFFICES ASSUME Init PROVE CInv
  OBVIOUS
<1>1. /\ saved = {} /\ mem = [p \in Processes |-> Closed] /\ work = [p \in Processes |-> Idle]
      /\ ~raced /\ (head = None \/ head = Image(Closed))
  BY DEF Init
<1>2. ASSUME NEW p \in Processes PROVE Agree(p)
  <2>1. mem[p] = Closed /\ work[p] = Idle
    BY <1>1
  <2>2. /\ \A n : ~AtOver(p, n) /\ ~AtReload(p, n) /\ ~AtSave(p, n) /\ ~AtRestore(p, n)
        /\ ~Seeds(p) /\ ~Working(p)
    BY <2>1 DEF AtOver, AtReload, AtSave, AtRestore, Seeds, Working, Closed, Idle
  <2> QED BY <2>2 DEF Agree
<1>3. Durable
  <2>1. Image(Closed).tree = <<>> /\ Image(Closed).rgm = <<>> /\ Image(Closed).done = {}
    BY DEF Image, Closed
  <2> QED BY <1>1, <2>1, EmptyTurns DEF Durable, Sound, Coherent, Ticks
<1> QED BY <1>1, <1>2, <1>3 DEF CInv

LEMMA NextAgrees ==
  ASSUME Shared \subseteq {"commit"}, "restore" \notin MayFail, TInv, TInv', CInv, [Next]_vars
  PROVE  CInv'
<1>1. CASE UNCHANGED vars
  <2>1. UNCHANGED <<users, head, library, outcomes, files, saved, mem, work, crashes, raced>>
    BY <1>1 DEF vars, store
  <2>2. Durable => Durable'
    BY <2>1, SameDurable
  <2>3. \A q \in Processes : Agree(q) => Agree(q)'
    BY <2>1, SameAgree
  <2> QED BY <2>1, <2>2, <2>3 DEF CInv, Alone
<1>2. CASE Next
  <2>1. Races
    BY <1>2 DEF Next, Races
  <2>2. ASSUME NEW p \in Processes, Step(p) PROVE CInv'
    BY <2>1, <2>2, FilesKeep, FailKeeps, LoadKeeps, OpenedKeeps, LearnsKeeps, StartKeeps,
       SaveKeeps DEF Step
  <2>3. ASSUME NEW p \in Processes, Open(p) \/ Save(p) \/ Restore(p) \/ Crash(p) PROVE CInv'
    BY <2>1, <2>3, StartKeeps, SaveKeeps, RestoreKeeps, CrashKeeps
  <2>4. ASSUME NEW p \in Processes, NEW k \in Keys, Commit(p, k) PROVE CInv'
    BY <2>1, <2>4, CommitKeeps
  <2>5. ASSUME NEW p \in Processes, NEW s \in Settings, UpdateSettings(p, s) PROVE CInv'
    BY <2>1, <2>5, SettingsKeeps
  <2> QED BY <1>2, <2>2, <2>3, <2>4, <2>5 DEF Next, Move
<1> QED BY <1>1, <1>2

\* The inductive invariant of what the runs check.
IInv == TInv /\ Native /\ CInv

LEMMA AgreesAlways ==
  ASSUME Shared \subseteq {"commit"}, "restore" \notin MayFail
  PROVE  Spec => []IInv
<1>1. Init => IInv
  BY InitTyped, StartAgrees DEF IInv, Init, Native
<1>2. IInv /\ [Next]_vars => IInv'
  <2> SUFFICES ASSUME IInv, [Next]_vars PROVE IInv'
    OBVIOUS
  <2>1. TInv' /\ Native'
    BY NextTyped, NextNative DEF IInv
  <2>2. CInv'
    BY <2>1, NextAgrees DEF IInv
  <2> QED BY <2>1, <2>2 DEF IInv
<1> QED BY <1>1, <1>2, PTL DEF Spec

\* "An aborted attempt ... cannot leave an unbacked front-row item": what the
\* front row of the head or of a checkpoint holds has its text in the library,
\* whatever calls two processes make and wherever they stop.
THEOREM RowsAreBacked == Spec => []FrontRowBacked
<1>1. TInv => FrontRowBacked
  BY DEF TInv, Backed
<1> QED BY <1>1, TypedAlways, PTL

\* Commit keys and dynamics move together, HeadCoherent: the head and every
\* checkpoint have learned the committed keys, each once, in tree and front row
\* alike, and their outcome rows name the tick of the turn.
THEOREM HeadStaysCoherent ==
  ASSUME Shared \subseteq {"commit"}, "restore" \notin MayFail
  PROVE  Spec => []HeadCoherent
<1>1. IInv => HeadCoherent
  <2> SUFFICES ASSUME IInv PROVE HeadCoherent
    OBVIOUS
  <2>1. FrontRowBacked /\ (~raced => Durable)
    BY DEF IInv, TInv, Backed, CInv
  <2> QED BY <2>1 DEF HeadCoherent, Durable, Sound, Ticks
<1>2. Spec => []IInv
  BY AgreesAlways
<1> QED BY <1>1, <1>2, PTL

\* A runtime at rest works on the durable head, MemoryIsHead: after refused
\* commits, failed writes and restarts, at every length of the plans.
THEOREM RestIsOnTheHead ==
  ASSUME Shared \subseteq {"commit"}, "restore" \notin MayFail
  PROVE  Spec => []MemoryIsHead
<1>1. IInv => MemoryIsHead
  <2> SUFFICES ASSUME IInv, Alone, NEW p \in users, Ready(p)
               PROVE  Image(mem[p]) = head /\ mem[p].digest = Digest(head)
    BY DEF MemoryIsHead
  <2>1. p \in Processes /\ ~raced
    BY DEF IInv, TInv, Typed, CInv
  <2>2. Agree(p) /\ Working(p)
    BY <2>1 DEF IInv, CInv, Working, Ready, Free, Idle
  <2>3. AtRest(p)
    BY <2>2 DEF Agree
  <2> QED BY <2>3 DEF AtRest, Digest, Image
<1>2. Spec => []IInv
  BY AgreesAlways
<1> QED BY <1>1, <1>2, PTL

\* Only the end of its own start opens a process.
LEMMA OnlyOpenedOpens ==
  ASSUME TInv, [Next]_vars, NEW p \in Processes, ~mem[p].open, mem'[p].open
  PROVE  Opened(p)
<1>1. mem \in [Processes -> Memory]
  BY DEF TInv, Typed
<1>2. mem' # mem
  OBVIOUS
<1>3. Next
  BY <1>2 DEF vars
<1>4. ASSUME NEW q \in Processes,
             Write(q) \/ WriteFails(q) \/ Create(q) \/ Refused(q) \/ CommitReloads(q) \/ CommitRefused(q) \/ ReadHead(q) \/ SaveCopies(q)
             \/ SaveSetsHead(q) \/ SaveMetadata(q) \/ Save(q) \/ Crash(q)
      PROVE  FALSE
  BY <1>1, <1>2, <1>4 DEF Write, WriteFails, Create, Refused, CommitReloads, CommitRefused,
     ReadHead, SaveCopies, SaveSetsHead, SaveMetadata, Save, Crash, Closed
<1>5. ASSUME NEW q \in Processes, LoadPart(q) PROVE FALSE
  <2>1. AtLoad(q) /\ Form(q)
    BY <1>5, PlannedDoes DEF TInv, Form, Does, LoadPart
  <2>2. Head(work[q].plan)[2] \in Parts
    BY <2>1, LoadFrom
  <2> QED BY <1>1, <1>5, <2>2 DEF LoadPart, Parts, Memory
<1>6. ASSUME NEW q \in Processes, PersistPart(q) \/ LoadDigest(q) PROVE FALSE
  BY <1>1, <1>2, <1>6 DEF PersistPart, LoadDigest, Memory
<1>7. ASSUME NEW q \in Processes, Open(q) PROVE FALSE
  <2>1. PICK setting : mem' = [mem EXCEPT ![q].settings = setting]
    BY <1>7 DEF Open
  <2> QED BY <1>1, <2>1 DEF Memory
<1>8. ASSUME NEW q \in Processes, CommitLearns(q) PROVE FALSE
  <2>1. mem[q].open
    BY <1>8, PlannedDoes DEF TInv, Form, Does, CommitLearns, Trying
  <2> QED BY <1>1, <1>8, <2>1 DEF CommitLearns
<1>9. ASSUME NEW q \in Processes, Adopt(q) PROVE FALSE
  BY <1>1, <1>9 DEF Adopt, Memory
<1>10. ASSUME NEW q \in Processes, Restore(q) PROVE FALSE
  BY <1>1, <1>10 DEF Restore, Ready
<1>11. ASSUME NEW q \in Processes, NEW k \in Keys, Commit(q, k) PROVE FALSE
  BY <1>2, <1>11 DEF Commit
<1>12. ASSUME NEW q \in Processes, NEW s \in Settings, UpdateSettings(q, s) PROVE FALSE
  BY <1>1, <1>12 DEF UpdateSettings, Memory
<1>13. ASSUME NEW q \in Processes, Opened(q) PROVE q = p
  BY <1>1, <1>13 DEF Opened
<1>14. \A q \in Processes : Step(q) => Opened(q)
  BY <1>4, <1>5, <1>6, <1>7, <1>8, <1>9 DEF Step
<1>15. \A q \in Processes : ~(Open(q) \/ Save(q) \/ Restore(q) \/ Crash(q))
  BY <1>4, <1>7, <1>10
<1> QED BY <1>3, <1>11, <1>12, <1>13, <1>14, <1>15 DEF Next, Move

\* A start that has come to the assertion of the lineage ends there, well or not.
LEMMA LineageEnds ==
  ASSUME TInv, [Next]_vars, NEW p \in Processes, AtLineage(p), work'[p] # work[p],
         crashes' = crashes
  PROVE  Opened(p) \/ Refused(p)
<1>1. Typed /\ work[p].plan # <<>> /\ Head(work[p].plan)[1] \in {"opened", "seed"}
  BY DEF TInv, AtLineage, Doing
<1>2. ~Free(p)
  BY <1>1 DEF Free, Idle
<1>3. Next
  BY DEF vars
<1>4. ASSUME NEW q \in Processes, q # p, Step(q) PROVE FALSE
  <2>1. CASE \/ Write(q) \/ PersistPart(q) \/ WriteFails(q) \/ LoadPart(q) \/ LoadDigest(q)
             \/ Create(q) \/ Opened(q) \/ Refused(q) \/ CommitRefused(q) \/ Adopt(q)
             \/ SaveSetsHead(q) \/ SaveMetadata(q)
    <3>1. Finish(q) \/ Advance(q) \/ Proceed(q)
      BY <2>1 DEF Write, PersistPart, WriteFails, LoadPart, LoadDigest, Create, Opened, Refused,
         CommitRefused, Adopt, SaveSetsHead, SaveMetadata
    <3> QED BY <1>1, <1>4, <3>1, OwnWork
  <2>2. CASE CommitLearns(q) \/ CommitReloads(q) \/ ReadHead(q) \/ SaveCopies(q)
    BY <1>1, <1>4, <2>2, OwnWork DEF CommitLearns, CommitReloads, ReadHead, SaveCopies
  <2> QED BY <1>4, <2>1, <2>2 DEF Step
<1>5. ASSUME NEW q \in Processes, q # p, Open(q) \/ Save(q) \/ Restore(q) \/ Crash(q) PROVE FALSE
  BY <1>1, <1>5, OwnWork DEF Open, Save, Restore, Crash
<1>6. ASSUME Open(p) \/ Save(p) \/ Restore(p) \/ Crash(p) PROVE FALSE
  <2>1. crashes \in Nat
    BY <1>1, RuntimeAssumption DEF Typed
  <2> QED BY <1>2, <1>6, <2>1 DEF Open, Save, Restore, Crash, Ready
<1>7. ASSUME NEW q \in Processes, NEW k \in Keys, Commit(q, k) PROVE FALSE
  BY <1>1, <1>2, <1>7, OwnWork DEF Commit, Ready
<1>8. ASSUME NEW q \in Processes, NEW s \in Settings, UpdateSettings(q, s) PROVE FALSE
  BY <1>8 DEF UpdateSettings
<1>9. Step(p)
  BY <1>3, <1>4, <1>5, <1>6, <1>7, <1>8 DEF Next, Move
<1> QED BY <1>1, <1>9 DEF Step, Write, PersistPart, WriteFails, LoadPart, LoadDigest, Create,
    CommitLearns, CommitReloads, CommitRefused, ReadHead, Adopt, SaveCopies, SaveSetsHead,
    SaveMetadata, Doing

\* "JSON runtime files are recoverable projections of that head", OpenRecovers:
\* a start of the only process that ends well ends with the files showing the
\* head, wherever the last one stopped, and the lineage assertion refuses only
\* a project whose first start stopped before its creation metadata: one
\* without a head.
THEOREM StartsRecover ==
  ASSUME Shared \subseteq {"commit"}, "restore" \notin MayFail
  PROVE  Spec => OpenRecovers
<1> DEFINE Shows(p) == Alone /\ ~mem[p].open /\ mem'[p].open =>
             \A part \in Parts \ (IF head = None THEN {"done"} ELSE {}) :
               files'[part] = head'[part]
           Recovers == \A p \in users :
             /\ Alone /\ ~mem[p].open /\ mem'[p].open =>
                  \A part \in Parts \ (IF head = None THEN {"done"} ELSE {}) :
                    files'[part] = head'[part]
             /\ StartRefused(p) => head = None /\ ~created
<1>1. ASSUME IInv, [Next]_vars, NEW p \in users PROVE Shows(p)
  <2> SUFFICES ASSUME Alone, ~mem[p].open, mem'[p].open,
                      NEW part \in Parts \ (IF head = None THEN {"done"} ELSE {})
               PROVE  files'[part] = head'[part]
    OBVIOUS
  <2>1. TInv /\ p \in Processes /\ Agree(p)
    BY <1>1 DEF IInv, TInv, Typed, CInv
  <2>2. Opened(p)
    BY <1>1, <2>1, OnlyOpenedOpens
  <2>3. CASE Doing(p, "opened")
    <3>1. OverHead(p, 8)
      BY <2>1, <2>3, OpenedFrom DEF AtLineage
    <3>2. AtOver(p, 8) /\ head # None
      BY <3>1 DEF OverHead, AtOver
    <3>3. Shown(8)
      BY <2>1, <3>2 DEF Agree
    <3>4. head' = head /\ files' = files
      BY <2>2, <2>3 DEF Opened
    <3> QED BY <3>3, <3>4 DEF Shown, Parts
  <2>4. CASE ~Doing(p, "opened")
    <3>1. AtSeed(p)
      BY <2>1, <2>2, <2>4, OpenedFrom DEF AtLineage, Opened
    <3>2. Seeds(p)
      BY <3>1 DEF AtSeed, Seeding, Seeds, SeedEmpty, SeedTree, SeedFiles
    <3>3. head = None
      BY <2>1, <3>2 DEF Agree
    <3>4. part = "tree" \/ part = "rgm"
      BY <3>3 DEF Parts
    <3>5. head' = Copy(p) /\ files' = files
      BY <2>2, <2>4 DEF Opened, Copy
    <3>6. Copy(p).tree = files["tree"] /\ Copy(p).rgm = files["rgm"]
      BY DEF Copy, Image
    <3> QED BY <3>4, <3>5, <3>6
  <2> QED BY <2>3, <2>4
<1>2. ASSUME IInv, [Next]_vars, NEW p \in users, StartRefused(p) PROVE head = None /\ ~created
  <2>1. TInv /\ Native /\ p \in Processes
    BY <1>2 DEF IInv, TInv, Typed
  <2>2. work'[p] # work[p] /\ AtLineage(p) /\ ~mem'[p].open /\ crashes' = crashes
    BY <1>2 DEF StartRefused, AtLineage, Doing, Idle
  <2>3. Opened(p) \/ Refused(p)
    BY <1>2, <2>1, <2>2, LineageEnds
  <2>4. ~Opened(p)
    <3>1. mem \in [Processes -> Memory]
      BY <2>1 DEF TInv, Typed
    <3> QED BY <2>1, <2>2, <3>1 DEF Opened, Memory
  <2> QED BY <2>1, <2>3, <2>4 DEF Refused, Native
<1>3. IInv /\ [Next]_vars => [Recovers]_vars
  BY <1>1, <1>2
<1>4. Spec => []IInv
  BY AgreesAlways
<1>5. Spec => [][Recovers]_vars
  BY <1>3, <1>4, PTL DEF Spec
<1> QED BY <1>5 DEF OpenRecovers

\* "Commit is durable", CommitsAreKept: a commit is undone only by restoring a
\* checkpoint, by one process or by two that take turns on the head, as long as
\* neither replaced the files the other was reading back.
THEOREM CommitsStay ==
  ASSUME Shared \subseteq {"commit"}, "restore" \notin MayFail
  PROVE  Spec => CommitsAreKept
<1>1. ASSUME IInv, [Next]_vars, ~raced PROVE KeptUnlessRestored
  <2>1. TInv /\ Durable /\ \A p \in Processes : Agree(p)
    BY <1>1 DEF IInv, CInv
  <2>2. head' = head => KeptUnlessRestored
    <3>1. head.done \subseteq head.done
      OBVIOUS
    <3> QED BY <3>1, Zenon DEF KeptUnlessRestored
  <2>3. ASSUME NEW p \in Processes,
               Write(p) \/ PersistPart(p) \/ WriteFails(p) \/ LoadPart(p) \/ LoadDigest(p)
               \/ Create(p) \/ Refused(p) \/ CommitReloads(p) \/ CommitRefused(p) \/ ReadHead(p) \/ Adopt(p)
               \/ SaveCopies(p) \/ SaveMetadata(p) \/ Open(p) \/ Save(p) \/ Crash(p)
        PROVE  KeptUnlessRestored
    BY <2>2, <2>3 DEF Write, PersistPart, WriteFails, LoadPart, LoadDigest, Create, Refused,
       CommitReloads, CommitRefused, ReadHead, Adopt, SaveCopies, SaveMetadata, Open, Save, Crash, store
  <2>4. ASSUME NEW p \in Processes, Opened(p) PROVE KeptUnlessRestored
    <3>1. head' # head => head = None
      BY <2>1, <2>4, OpenedAgrees
    <3> QED BY <2>2, <3>1 DEF KeptUnlessRestored
  <2>5. ASSUME NEW p \in Processes, CommitLearns(p) PROVE KeptUnlessRestored
    <3>1. head.done \subseteq head'.done
      BY <2>1, <2>5, LearnsAgrees
    <3> QED BY <3>1 DEF KeptUnlessRestored
  <2>6. ASSUME NEW p \in Processes, SaveSetsHead(p) PROVE KeptUnlessRestored
    BY <2>1, <2>2, <2>6, SetsHeadAgrees
  <2>7. ASSUME NEW p \in Processes, Restore(p) PROVE KeptUnlessRestored
    BY <2>7 DEF Restore, Restored, KeptUnlessRestored
  <2>8. ASSUME NEW p \in Processes, NEW k \in Keys, Commit(p, k) PROVE KeptUnlessRestored
    BY <2>2, <2>8 DEF Commit
  <2>9. ASSUME NEW p \in Processes, NEW s \in Settings, UpdateSettings(p, s)
        PROVE  KeptUnlessRestored
    <3>1. Alone
      BY <2>9 DEF UpdateSettings, Called
    <3>2. head'.done = head.done
      BY <2>1, <2>9, <3>1, SettingsAgrees
    <3> QED BY <3>2 DEF KeptUnlessRestored
  <2>10. CASE Next
    <3>1. ASSUME NEW p \in Processes, Step(p) PROVE KeptUnlessRestored
      BY <2>3, <2>4, <2>5, <2>6, <3>1 DEF Step
    <3>2. ASSUME NEW p \in Processes, Open(p) \/ Save(p) \/ Restore(p) \/ Crash(p)
          PROVE  KeptUnlessRestored
      BY <2>3, <2>7, <3>2
    <3> QED BY <2>8, <2>9, <2>10, <3>1, <3>2 DEF Next, Move
  <2>11. CASE UNCHANGED vars
    BY <2>2, <2>11 DEF vars, store
  <2> QED BY <1>1, <2>10, <2>11
<1>2. IInv /\ [Next]_vars => [~raced => KeptUnlessRestored]_vars
  BY <1>1
<1>3. Spec => []IInv
  BY AgreesAlways
<1> QED BY <1>2, <1>3, PTL DEF Spec, CommitsAreKept
=============================================================================

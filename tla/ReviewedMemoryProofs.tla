------------------------- MODULE ReviewedMemoryProofs -------------------------
(***************************************************************************)
(* Theorems about ReviewedMemory, for any sources, relations and bounds.   *)
(*                                                                         *)
(* What a document adds to the tree is worked out once, before the worker  *)
(* is asked, and what an answer may present once, before recall.  The      *)
(* invariants say what these results still have to do with the links, the  *)
(* rows and the shelf at each later step of the call: Adding and LearnInv  *)
(* for learning, Answering for an answer, Walked for the links.  They hold *)
(* where one process at a time has the project, since its lock is one of   *)
(* the process.                                                            *)
(***************************************************************************)
EXTENDS ReviewedMemory, SequenceTheorems, FiniteSetTheorems, WellFoundedInduction, TLAPS

-----------------------------------------------------------------------------
(* Recursion *)

\* A set of numbers has a least one.
LEMMA Least ==
  ASSUME NEW T, T \subseteq Nat, T # {}
  PROVE  \E n \in T : \A m \in T : n <= m
<1> DEFINE R == {ss \in Nat \X Nat : ss[1] < ss[2]}
<1>1. OpToRel(<, Nat) = R
  BY DEF OpToRel
<1>2. IsWellFoundedOn(R, Nat)
  BY <1>1, NatLessThanWellFounded
<1> HIDE DEF R
<1>3. \E n \in T : \A m \in T : ~(<<m, n>> \in R)
  BY <1>2, WFMin, Zenon
<1>4. PICK n \in T : \A m \in T : ~(<<m, n>> \in R)
  BY <1>3
<1>5. \A m \in T : ~(m < n)
  BY <1>4 DEF R
<1> QED BY <1>4, <1>5

\* Induction up to n, on the numbers of which something holds.
LEMMA UpTo ==
  ASSUME NEW n \in Nat, NEW T, 0 \in T, \A i \in 1..n : i - 1 \in T => i \in T
  PROVE  0..n \subseteq T
<1> DEFINE Rest == {i \in 0..n : i \notin T}
<1> SUFFICES ASSUME Rest # {} PROVE FALSE
  OBVIOUS
<1>1. Rest \subseteq Nat
  OBVIOUS
<1> HIDE DEF Rest
<1>2. PICK i \in Rest : \A m \in Rest : i <= m
  BY <1>1, Least, Zenon
<1>3. i \in 1..n /\ i - 1 \in T
  BY <1>2 DEF Rest
<1> QED BY <1>2, <1>3 DEF Rest

Steps(n, S) == [1..n -> [S -> S]]

Walks(n, S, a, step) ==
  {f \in [0..n -> S] : f[0] = a /\ \A i \in 1..n : f[i] = step[i][f[i - 1]]}

\* One step after another, a function is built.
LEMMA Recursion ==
  ASSUME NEW n \in Nat, NEW S, NEW a \in S, NEW step \in Steps(n, S)
  PROVE  Walks(n, S, a, step) # {}
<1> SUFFICES \E f \in [0..n -> S] : f[0] = a /\ \A i \in 1..n : f[i] = step[i][f[i - 1]]
  BY DEF Walks
<1> DEFINE T == {k \in 0..n : \E f \in [0..k -> S] :
                    f[0] = a /\ \A i \in 1..k : f[i] = step[i][f[i - 1]]}
<1>1. 0 \in T
  <2> DEFINE g == [i \in 0..0 |-> a]
  <2>1. g \in [0..0 -> S] /\ g[0] = a
    OBVIOUS
  <2> HIDE DEF g
  <2>2. \A i \in 1..0 : g[i] = step[i][g[i - 1]]
    OBVIOUS
  <2>3. \E f \in [0..0 -> S] : f[0] = a /\ \A i \in 1..0 : f[i] = step[i][f[i - 1]]
    BY <2>1, <2>2
  <2> QED BY <2>3
<1>2. ASSUME NEW k \in 1..n, k - 1 \in T
      PROVE  k \in T
  <2>1. PICK f \in [0..(k - 1) -> S] :
              f[0] = a /\ \A i \in 1..(k - 1) : f[i] = step[i][f[i - 1]]
    BY <1>2
  <2>2. PICK y : y = step[k][f[k - 1]]
    OBVIOUS
  <2>3. y \in S
    BY <2>2 DEF Steps
  <2> DEFINE g == [i \in 0..k |-> IF i = k THEN y ELSE f[i]]
  <2>4. g \in [0..k -> S] /\ g[0] = a /\ g[k] = y /\ \A i \in 0..(k - 1) : g[i] = f[i]
    BY <2>1, <2>3
  <2> HIDE DEF g
  <2>5. ASSUME NEW i \in 1..k
        PROVE  g[i] = step[i][g[i - 1]]
    <3>1. g[i - 1] = f[i - 1]
      BY <2>4
    <3>2. CASE i = k
      BY <2>2, <2>4, <3>1, <3>2
    <3>3. CASE i # k
      <4>1. i \in 1..(k - 1) /\ i \in 0..(k - 1)
        BY <3>3
      <4> QED BY <2>1, <2>4, <3>1, <4>1
    <3> QED BY <3>2, <3>3
  <2>6. \E h \in [0..k -> S] : h[0] = a /\ \A i \in 1..k : h[i] = step[i][h[i - 1]]
    BY <2>4, <2>5
  <2> QED BY <2>6
<1> HIDE DEF T
<1>3. 0..n \subseteq T
  BY <1>1, <1>2, UpTo, Zenon
<1>4. n \in T
  BY <1>3
<1> QED BY <1>4 DEF T

-----------------------------------------------------------------------------
(* Sequences *)

Extends(f, n, ss) == f[1] = ss[1] /\ \A i \in 2..n : f[i] = f[i - 1] \o ss[i]

\* Sequences end to end: a function of how far, that goes on with each.
LEMMA Flattened ==
  ASSUME NEW S, NEW n \in Nat \ {0}, NEW ss \in [1..n -> Seq(S)], Len(ss) = n
  PROVE  \E f \in [1..n -> Seq(S)] :
           FlattenSeq(ss) = f[n] /\ Extends(f, n, ss)
<1> DEFINE E(f) == [i \in 1..n |-> IF i = 1 THEN ss[i] ELSE f[i - 1] \o ss[i]]
           step == [i \in 1..n |-> [t \in Seq(S) |-> IF i = 1 THEN ss[1] ELSE t \o ss[i]]]
<1>1. step \in Steps(n, Seq(S))
  BY DEF Steps
<1>2. \A i \in 1..n, t \in Seq(S) : step[i][t] = IF i = 1 THEN ss[1] ELSE t \o ss[i]
  OBVIOUS
<1>3. PICK h \in [0..n -> Seq(S)] : \A i \in 1..n : h[i] = step[i][h[i - 1]]
  <2> HIDE DEF step
  <2>1. <<>> \in Seq(S) /\ n \in Nat
    BY EmptySeq
  <2>2. Walks(n, Seq(S), <<>>, step) # {}
    BY <1>1, <2>1, Recursion, Zenon
  <2> QED BY <2>2 DEF Walks
<1> HIDE DEF step
<1>4. \E f : f = E(f)
  <2> DEFINE f == [i \in 1..n |-> h[i]]
  <2>1. \A i \in 1..n : f[i] = h[i] /\ i - 1 \in 0..n
    OBVIOUS
  <2>2. \A i \in 1..n : h[i] = IF i = 1 THEN ss[1] ELSE h[i - 1] \o ss[i]
    BY <1>2, <1>3, <2>1
  <2>3. \A i \in 1..n : i # 1 => i - 1 \in 1..n
    OBVIOUS
  <2>4. \A i \in 1..n : f[i] = IF i = 1 THEN ss[i] ELSE f[i - 1] \o ss[i]
    <3> HIDE DEF f
    <3> QED BY <2>1, <2>2, <2>3
  <2>5. f = E(f)
    BY <2>4
  <2> QED BY <2>5
<1> DEFINE g == CHOOSE f : f = E(f)
<1>5. g = E(g)
  BY <1>4, Zenon
<1>6. FlattenSeq(ss) = g[n]
  BY DEF FlattenSeq
<1> HIDE DEF g
<1>7. \A i \in 1..n : g[i] = IF i = 1 THEN ss[i] ELSE g[i - 1] \o ss[i]
  BY <1>5
<1>8. g = [i \in 1..n |-> g[i]]
  BY <1>5
<1> DEFINE T == {i \in 0..n : i # 0 => g[i] \in Seq(S)}
<1>9. 0..n \subseteq T
  <2>1. 0 \in T
    OBVIOUS
  <2>2. ASSUME NEW i \in 1..n, i - 1 \in T
        PROVE  i \in T
    <3>1. g[i] \in Seq(S)
      <4>1. CASE i = 1
        BY <1>7, <4>1
      <4>2. CASE i # 1
        <5>1. i - 1 # 0 /\ g[i - 1] \in Seq(S)
          BY <2>2, <4>2
        <5>2. g[i - 1] \o ss[i] \in Seq(S)
          BY <5>1, ConcatProperties
        <5> QED BY <1>7, <4>2, <5>2
      <4> QED BY <4>1, <4>2
    <3> QED BY <3>1
  <2> HIDE DEF T
  <2> QED BY <2>1, <2>2, UpTo
<1>10. \A i \in 1..n : g[i] \in Seq(S)
  BY <1>9
<1>11. g \in [1..n -> Seq(S)]
  BY <1>8, <1>10
<1>12. g[1] = ss[1] /\ \A i \in 2..n : g[i] = g[i - 1] \o ss[i]
  <2>1. 1 \in 1..n /\ \A i \in 2..n : i \in 1..n /\ i # 1
    OBVIOUS
  <2> QED BY <1>7, <2>1
<1> QED BY <1>6, <1>11, <1>12 DEF Extends

\* What is flattened has the elements of the sequences.
LEMMA FlattenTyped ==
  ASSUME NEW S, NEW ss \in Seq(Seq(S))
  PROVE  FlattenSeq(ss) \in Seq(S)
<1>1. CASE ss = <<>>
  BY <1>1, EmptySeq DEF FlattenSeq
<1>2. CASE ss # <<>>
  <2>1. PICK n : n = Len(ss)
    OBVIOUS
  <2>2. n \in Nat \ {0} /\ ss \in [1..n -> Seq(S)]
    BY <1>2, <2>1, EmptySeq, LenProperties
  <2>3. PICK f \in [1..n -> Seq(S)] : FlattenSeq(ss) = f[n]
    BY <2>1, <2>2, Flattened
  <2> QED BY <2>2, <2>3
<1> QED BY <1>1, <1>2

\* One more sequence is put at the end.
LEMMA FlattenAppend ==
  ASSUME NEW S, NEW ss \in Seq(Seq(S)), NEW t \in Seq(S)
  PROVE  FlattenSeq(Append(ss, t)) = FlattenSeq(ss) \o t
<1>1. PICK n, m, tt : n = Len(ss) /\ m = n + 1 /\ tt = Append(ss, t)
  OBVIOUS
<1>2. n \in Nat /\ m \in Nat \ {0} /\ ss \in [1..n -> Seq(S)]
  BY <1>1, LenProperties
<1>3. tt \in Seq(Seq(S)) /\ Len(tt) = m
  BY <1>1, AppendProperties
<1>4. tt \in [1..m -> Seq(S)]
  BY <1>3, LenProperties
<1>5. tt[m] = t /\ \A i \in 1..n : tt[i] = ss[i]
  BY <1>1, AppendProperties
<1>6. PICK g \in [1..m -> Seq(S)] :
           FlattenSeq(tt) = g[m] /\ Extends(g, m, tt)
  BY <1>2, <1>3, <1>4, Flattened
<1>7. CASE ss = <<>>
  <2>1. n = 0 /\ m = 1 /\ FlattenSeq(ss) = <<>>
    BY <1>1, <1>7, EmptySeq DEF FlattenSeq
  <2>2. FlattenSeq(tt) = t
    BY <1>5, <1>6, <2>1 DEF Extends
  <2> QED BY <1>1, <2>1, <2>2, ConcatEmptySeq
<1>8. CASE ss # <<>>
  <2>1. n \in Nat \ {0}
    BY <1>1, <1>8, EmptySeq
  <2>2. PICK f \in [1..n -> Seq(S)] :
           FlattenSeq(ss) = f[n] /\ Extends(f, n, ss)
    BY <1>1, <1>2, <2>1, Flattened
  <2> DEFINE T == {i \in 0..n : i # 0 => g[i] = f[i]}
  <2>3. 0 \in T
    BY <2>1
  <2>4. ASSUME NEW i \in 1..n, i - 1 \in T
        PROVE  i \in T
    <3>1. g[i] = f[i]
      <4>1. CASE i = 1
        BY <1>5, <1>6, <2>1, <2>2, <4>1 DEF Extends
      <4>2. CASE i # 1
        <5>1. i \in 2..n /\ i \in 2..m /\ i - 1 # 0
          BY <1>1, <2>1, <4>2
        <5>2. g[i - 1] = f[i - 1]
          BY <2>4, <5>1
        <5> QED BY <1>5, <1>6, <2>2, <5>1, <5>2 DEF Extends
      <4> QED BY <4>1, <4>2
    <3> QED BY <3>1
  <2>5. 0..n \subseteq T
    <3> HIDE DEF T
    <3> QED BY <2>1, <2>3, <2>4, UpTo
  <2>6. g[n] = f[n]
    BY <2>1, <2>5
  <2>7. m \in 2..m /\ m - 1 = n
    BY <1>1, <2>1
  <2>8. g[m] = g[n] \o t
    BY <1>5, <1>6, <2>7 DEF Extends
  <2> QED BY <1>1, <1>6, <2>2, <2>6, <2>8
<1> QED BY <1>7, <1>8
-----------------------------------------------------------------------------
(* Learning *)

\* The relations of a source are gone through one by one.
Gathers(f, n, stated, old) ==
  \A i \in 1..n : f[i] = IF stated[i] \in old THEN f[i - 1] ELSE Append(f[i - 1], stated[i])

LEMMA Gathered ==
  ASSUME NEW s \in Sources, NEW n \in Nat, NEW stated \in [1..n -> Relations],
         stated = States[s], Len(stated) = n, NEW old, old = ToSet(Catalog)
  PROVE  \E f \in [0..n -> Seq(Relations)] :
           /\ NewRelations(s) = f[n]
           /\ f[0] = <<>>
           /\ Gathers(f, n, stated, old)
<1> DEFINE E(f) == [i \in 0..n |-> IF i = 0 THEN <<>>
                                   ELSE IF stated[i] \in old THEN f[i - 1]
                                   ELSE Append(f[i - 1], stated[i])]
           step == [i \in 1..n |-> [t \in Seq(Relations) |->
                      IF stated[i] \in old THEN t ELSE Append(t, stated[i])]]
<1>1. step \in Steps(n, Seq(Relations))
  BY DEF Steps
<1>2. \A i \in 1..n, t \in Seq(Relations) :
         step[i][t] = IF stated[i] \in old THEN t ELSE Append(t, stated[i])
  OBVIOUS
<1>3. PICK h \in [0..n -> Seq(Relations)] :
           h[0] = <<>> /\ \A i \in 1..n : h[i] = step[i][h[i - 1]]
  <2> HIDE DEF step
  <2>1. <<>> \in Seq(Relations)
    BY EmptySeq
  <2>2. Walks(n, Seq(Relations), <<>>, step) # {}
    BY <1>1, <2>1, Recursion, Zenon
  <2> QED BY <2>2 DEF Walks
<1> HIDE DEF step
<1>4. \A i \in 1..n : h[i] = IF stated[i] \in old THEN h[i - 1] ELSE Append(h[i - 1], stated[i])
  <2>1. \A i \in 1..n : i - 1 \in 0..n
    OBVIOUS
  <2> QED BY <1>2, <1>3, <2>1
<1>5. h = E(h)
  <2>1. \A i \in 0..n : i # 0 => i \in 1..n
    OBVIOUS
  <2>2. \A i \in 0..n : h[i] = E(h)[i]
    BY <1>3, <1>4, <2>1
  <2> QED BY <1>3, <2>2
<1> DEFINE g == CHOOSE f : f = E(f)
<1>6. g = E(g)
  BY <1>5, Zenon
<1>7. NewRelations(s) = g[n]
  BY DEF NewRelations
<1> HIDE DEF g
<1>8. g[0] = <<>> /\ \A i \in 1..n : g[i] = IF stated[i] \in old THEN g[i - 1]
                                           ELSE Append(g[i - 1], stated[i])
  <2>1. g[0] = <<>>
    BY <1>6
  <2>2. \A i \in 1..n : i \in 0..n /\ i # 0
    OBVIOUS
  <2> QED BY <1>6, <2>1, <2>2
<1> DEFINE T == {i \in 0..n : g[i] = h[i]}
<1>9. 0..n \subseteq T
  <2>1. 0 \in T
    BY <1>3, <1>8
  <2>2. ASSUME NEW i \in 1..n, i - 1 \in T
        PROVE  i \in T
    <3>1. g[i - 1] = h[i - 1]
      BY <2>2
    <3>2. g[i] = h[i]
      BY <1>4, <1>8, <3>1
    <3> QED BY <3>2
  <2> HIDE DEF T
  <2> QED BY <2>1, <2>2, UpTo, Zenon
<1>10. g[n] = h[n]
  BY <1>9
<1> QED BY <1>3, <1>4, <1>7, <1>10 DEF Gathers

\* What a source adds: what it states and the tree was not taught, once each.
LEMMA NewOnes ==
  ASSUME NEW s \in Sources
  PROVE  /\ NewRelations(s) \in Seq(Relations)
         /\ IsInjective(NewRelations(s))
         /\ ToSet(NewRelations(s)) = ToSet(States[s]) \ ToSet(Catalog)
<1>1. PICK n, stated, old : n = Len(States[s]) /\ stated = States[s] /\ old = ToSet(Catalog)
  OBVIOUS
<1>2. n \in Nat /\ stated \in [1..n -> Relations] /\ Len(stated) = n /\ IsInjective(stated)
  BY <1>1, ReviewedMemoryAssumption, LenProperties
<1>3. PICK f \in [0..n -> Seq(Relations)] :
           /\ NewRelations(s) = f[n]
           /\ f[0] = <<>>
           /\ Gathers(f, n, stated, old)
  BY <1>1, <1>2, Gathered, Zenon
<1> DEFINE UpToNow(i) == {stated[j] : j \in 1..i}
           T == {i \in 0..n : IsInjective(f[i]) /\ ToSet(f[i]) = UpToNow(i) \ old}
<1>4. 0 \in T
  BY <1>2, <1>3 DEF IsInjective, ToSet
<1>5. ASSUME NEW i \in 1..n, i - 1 \in T
      PROVE  i \in T
  <2>0. i - 1 \in 0..n
    BY <1>2
  <2>1. PICK t \in Seq(Relations) : t = f[i - 1]
    BY <2>0
  <2>2. IsInjective(t) /\ ToSet(t) = UpToNow(i - 1) \ old
    BY <1>5, <2>1
  <2>3. UpToNow(i) = UpToNow(i - 1) \cup {stated[i]}
    OBVIOUS
  <2>4. stated[i] \in Relations /\ stated[i] \notin UpToNow(i - 1)
    BY <1>2 DEF IsInjective
  <2>5. CASE stated[i] \in old
    BY <1>3, <2>1, <2>2, <2>3, <2>5 DEF Gathers
  <2>6. CASE stated[i] \notin old
    <3>1. PICK u : u = Append(t, stated[i])
      OBVIOUS
    <3>2. /\ DOMAIN t = 1..Len(t) /\ DOMAIN u = 1..(Len(t) + 1) /\ Len(t) \in Nat
          /\ u[Len(t) + 1] = stated[i] /\ \A j \in 1..Len(t) : u[j] = t[j]
      BY <2>4, <3>1, AppendProperties, LenProperties
    <3>3. ToSet(u) = ToSet(t) \cup {stated[i]}
      BY <3>2 DEF ToSet
    <3>4. stated[i] \notin ToSet(t)
      BY <2>2, <2>4
    <3>5. IsInjective(u)
      BY <2>2, <3>2, <3>4 DEF IsInjective, ToSet
    <3>6. f[i] = u
      BY <1>3, <2>1, <2>6, <3>1 DEF Gathers
    <3>7. ToSet(u) = UpToNow(i) \ old
      BY <2>2, <2>3, <2>6, <3>3
    <3> QED BY <3>5, <3>6, <3>7
  <2> QED BY <2>5, <2>6
<1>6. 0..n \subseteq T
  <2> HIDE DEF T
  <2> QED BY <1>2, <1>4, <1>5, UpTo, Zenon
<1>7. IsInjective(f[n]) /\ ToSet(f[n]) = UpToNow(n) \ old
  BY <1>2, <1>6
<1>8. UpToNow(n) = ToSet(stated)
  BY <1>2 DEF ToSet
<1> QED BY <1>1, <1>2, <1>3, <1>7, <1>8
-----------------------------------------------------------------------------
(* Following the links *)

LinksTyped == links \in [Sources -> [newer : Sources \cup {None}, at : 0..MaxTime]]

Effective(time, s) == Linked(links, s) /\ links[s].at <= time

Follows(w, n, time) ==
  \A i \in 1..n : w[i] = IF Effective(time, w[i - 1]) THEN links[w[i - 1]].newer ELSE w[i - 1]

\* The links are followed as many times as there are sources.
LEMMA EndpointWalk ==
  ASSUME LinksTyped, NEW time, NEW start \in Sources, NEW n \in Nat, n = Cardinality(Sources)
  PROVE  \E w \in [0..n -> Sources] :
           Endpoint(time, start) = w[n] /\ w[0] = start /\ Follows(w, n, time)
<1> DEFINE E(w) == [i \in 0..n |-> IF i = 0 THEN start
                                   ELSE IF Linked(links, w[i - 1]) /\ links[w[i - 1]].at <= time
                                        THEN links[w[i - 1]].newer ELSE w[i - 1]]
           step == [i \in 1..n |-> [s \in Sources |->
                      IF Effective(time, s) THEN links[s].newer ELSE s]]
<1>1. step \in Steps(n, Sources)
  BY DEF Steps, LinksTyped, Effective, Linked
<1>2. \A i \in 1..n, s \in Sources : step[i][s] = IF Effective(time, s) THEN links[s].newer ELSE s
  OBVIOUS
<1>3. PICK h \in [0..n -> Sources] :
           h[0] = start /\ \A i \in 1..n : h[i] = step[i][h[i - 1]]
  <2> HIDE DEF step
  <2>1. Walks(n, Sources, start, step) # {}
    BY <1>1, Recursion, Zenon
  <2> QED BY <2>1 DEF Walks
<1> HIDE DEF step
<1>4. \A i \in 1..n : h[i] = IF Effective(time, h[i - 1]) THEN links[h[i - 1]].newer ELSE h[i - 1]
  <2>1. \A i \in 1..n : i - 1 \in 0..n
    OBVIOUS
  <2> QED BY <1>2, <1>3, <2>1
<1>5. h = E(h)
  <2>1. \A i \in 0..n : i # 0 => i \in 1..n
    OBVIOUS
  <2>2. \A i \in 0..n : h[i] = E(h)[i]
    BY <1>3, <1>4, <2>1 DEF Effective
  <2> QED BY <1>3, <2>2
<1> DEFINE g == CHOOSE f : f = E(f)
<1>6. g = E(g)
  BY <1>5, Zenon
<1>7. Endpoint(time, start) = g[n]
  BY DEF Endpoint
<1> HIDE DEF g
<1>8. g[0] = start
  BY <1>6
<1>9. \A i \in 1..n : g[i] = IF Effective(time, g[i - 1]) THEN links[g[i - 1]].newer ELSE g[i - 1]
  <2>1. \A i \in 1..n : i \in 0..n /\ i # 0
    OBVIOUS
  <2> QED BY <1>6, <2>1 DEF Effective
<1> DEFINE T == {i \in 0..n : g[i] = h[i]}
<1>10. 0..n \subseteq T
  <2>1. 0 \in T
    BY <1>3, <1>8
  <2>2. ASSUME NEW i \in 1..n, i - 1 \in T
        PROVE  i \in T
    <3>1. g[i - 1] = h[i - 1]
      BY <2>2
    <3>2. g[i] = h[i]
      BY <1>4, <1>9, <3>1
    <3> QED BY <3>2
  <2> HIDE DEF T
  <2> QED BY <2>1, <2>2, UpTo, Zenon
<1>11. g[n] = h[n]
  BY <1>10
<1> QED BY <1>3, <1>4, <1>7, <1>11 DEF Follows

\* Where the links lead is a source.
LEMMA EndpointTyped ==
  ASSUME LinksTyped, NEW time, NEW start \in Sources
  PROVE  Endpoint(time, start) \in Sources
<1>1. PICK n : n \in Nat /\ n = Cardinality(Sources)
  BY ReviewedMemoryAssumption, FS_CardinalityType
<1>2. PICK w \in [0..n -> Sources] :
           Endpoint(time, start) = w[n] /\ w[0] = start /\ Follows(w, n, time)
  BY <1>1, EndpointWalk, Zenon
<1> QED BY <1>1, <1>2

\* Links that do not run in a circle lead to a source whose own link, if it
\* has one, is not effective: had the walk not ended after as many steps as
\* there are sources, it would have met one of them twice.
LEMMA EndpointRests ==
  ASSUME LinksTyped, Readable(links), NEW time, NEW start \in Sources
  PROVE  ~Effective(time, Endpoint(time, start))
<1>1. PICK n : n \in Nat /\ n = Cardinality(Sources)
  BY ReviewedMemoryAssumption, FS_CardinalityType
<1>2. PICK w \in [0..n -> Sources] :
           Endpoint(time, start) = w[n] /\ w[0] = start /\ Follows(w, n, time)
  BY <1>1, EndpointWalk, Zenon
<1> SUFFICES ASSUME Effective(time, w[n]) PROVE FALSE
  BY <1>2
<1>3. \A i \in 0..n : Effective(time, w[i])
  <2> DEFINE still == {j \in 0..n : Effective(time, w[n - j])}
  <2>1. 0 \in still
    BY <1>1
  <2>2. ASSUME NEW j \in 1..n, j - 1 \in still
        PROVE  j \in still
    <3>1. PICK i : i = n - j + 1 /\ i \in 1..n /\ i - 1 = n - j /\ i = n - (j - 1)
      BY <1>1
    <3>2. Effective(time, w[i])
      BY <2>2, <3>1
    <3>3. Effective(time, w[i - 1])
      BY <1>2, <3>1, <3>2 DEF Follows
    <3> QED BY <1>1, <3>1, <3>3
  <2>3. 0..n \subseteq still
    <3> HIDE DEF still
    <3> QED BY <1>1, <2>1, <2>2, UpTo, Zenon
  <2>4. \A i \in 0..n : n - i \in 0..n /\ n - (n - i) = i
    BY <1>1
  <2> QED BY <2>3, <2>4
<1>4. \A i \in 1..n : w[i] = links[w[i - 1]].newer
  <2>1. \A i \in 1..n : i - 1 \in 0..n
    BY <1>1
  <2> QED BY <1>2, <1>3, <2>1 DEF Follows
<1>5. PICK i \in 0..n, j \in 0..n : i < j /\ w[i] = w[j]
  <2>1. IsFiniteSet(0..n) /\ Cardinality(0..n) = n + 1
    BY <1>1, FS_Interval
  <2>2. \E x, y \in 0..n : x # y /\ w[x] = w[y]
    <3>1. IsFiniteSet(Sources) /\ Cardinality(Sources) < Cardinality(0..n)
      BY <1>1, <2>1, ReviewedMemoryAssumption
    <3> QED BY <2>1, <3>1, FS_PigeonHole, Zenon
  <2>3. \A x, y \in 0..n : x # y => x < y \/ y < x
    BY <1>1
  <2> QED BY <2>2, <2>3
<1> DEFINE S == {w[k] : k \in i..j}
<1>6. S \subseteq Sources /\ w[i] \in S
  BY <1>1, <1>5
<1>7. ASSUME NEW s \in S
      PROVE  Linked(links, s) /\ links[s].newer \in S
  <2>1. PICK k \in i..j : s = w[k]
    OBVIOUS
  <2>2. k \in 0..n
    BY <1>1
  <2>3. Linked(links, s)
    BY <1>3, <2>1, <2>2 DEF Effective
  <2>4. PICK m \in i..j : m < j /\ s = w[m]
    BY <1>1, <1>5, <2>1
  <2>5. m + 1 \in 1..n /\ m + 1 \in i..j /\ (m + 1) - 1 = m
    BY <1>1, <2>4
  <2>6. links[s].newer = w[m + 1]
    BY <1>4, <2>4, <2>5
  <2> QED BY <2>3, <2>5, <2>6
<1>8. Endless(links, w[i])
  <2> HIDE DEF S
  <2> QED BY <1>6, <1>7 DEF Endless
<1> QED BY <1>6, <1>8 DEF Readable

-----------------------------------------------------------------------------
(* Types *)

Sized == {t \in Trees : t.n = Len(t.taught)}

Rows == [source : Sources, new : Seq(Relations), tree : Sized]

Stages == {"idle", "resolve", "teach", "retain", "retire", "recall", "reopen", "deliver"}

Calls == [at : Stages, source : Sources \cup {None}, set : SUBSET Sources, time : 0..MaxTime,
          kind : Kinds \cup {None}, before : Sized, tree : Sized,
          seen : SUBSET Sources, reopened : SUBSET Sources]

Answers == [kind : Kinds \cup {None, "refused", "discarded"}, sources : SUBSET Sources,
            time : 0..MaxTime]

DataTyped ==
  /\ shelf \in [imported : SUBSET Sources, withdrawn : SUBSET Sources]
  /\ shelf.withdrawn \subseteq shelf.imported
  /\ LinksTyped
  /\ rows \in Seq(Rows)
  /\ files \in [1..MaxMemories -> Seq(Relations) \cup {None}]
  /\ now \in 0..MaxTime

Taught(call) == call.at \in {"teach", "retain"} => call.source \in Sources

CallsTyped ==
  /\ op \in [Processes -> Calls]
  /\ \A p \in Processes : Taught(op[p])
  /\ told \in Answers

\* TypeOK, and of what each row, tree and call is made.
Typed == DataTyped /\ CallsTyped

LEMMA TypedIsTypeOK == Typed => TypeOK
<1> SUFFICES ASSUME Typed PROVE TypeOK
  OBVIOUS
<1>1. \A i \in 1..Len(rows) : rows[i] \in Rows
  BY ElementOfSeq DEF Typed, DataTyped
<1>2. \A i \in 1..Len(rows) :
        rows[i].source \in Sources /\ rows[i].new \in Seq(Relations) /\ rows[i].tree \in Trees
  BY <1>1 DEF Rows, Sized
<1>3. \A p \in Processes : op[p] \in Calls
  BY DEF Typed, CallsTyped
<1>4. \A p \in Processes :
       /\ op[p].at \in Stages
       /\ op[p].source \in Sources \cup {None} /\ op[p].set \subseteq Sources
       /\ op[p].time \in 0..MaxTime /\ op[p].kind \in Kinds \cup {None}
       /\ op[p].before \in Trees /\ op[p].tree \in Trees
       /\ op[p].seen \subseteq Sources /\ op[p].reopened \subseteq Sources
  BY <1>3 DEF Calls, Sized
<1>5. /\ told.kind \in Kinds \cup {None, "refused", "discarded"}
      /\ told.sources \subseteq Sources /\ told.time \in 0..MaxTime
  BY DEF Typed, CallsTyped, Answers
<1> QED BY <1>2, <1>4, <1>5, Zenon DEF TypeOK, Typed, DataTyped, LinksTyped, Stages

LEMMA NoTreeSized == NoTree \in Sized
<1>1. <<>> \in Seq(Relations) /\ Len(<<>>) = 0
  BY EmptySeq
<1>2. PICK e : e = <<>>
  OBVIOUS
<1>3. [n |-> 0, taught |-> e] \in Sized
  BY <1>1, <1>2, ReviewedMemoryAssumption DEF Sized, Trees
<1> QED BY <1>2, <1>3 DEF NoTree

LEMMA IdleTyped ==
  /\ Idle \in Calls
  /\ Idle.at \notin {"resolve", "teach", "retain", "retire", "recall", "reopen", "deliver"}
BY NoTreeSized, ReviewedMemoryAssumption DEF Idle, Calls, Stages

\* The catalog, and one more row of it.
LEMMA CatalogTyped ==
  ASSUME rows \in Seq(Rows)
  PROVE  Catalog \in Seq(Relations)
<1>1. PICK n : n = Len(rows)
  OBVIOUS
<1>2. n \in Nat /\ rows \in [1..n -> Rows]
  BY <1>1, LenProperties
<1>3. \A i \in 1..n : rows[i].new \in Seq(Relations)
  BY <1>2 DEF Rows
<1>4. [i \in 1..n |-> rows[i].new] \in Seq(Seq(Relations))
  BY <1>2, <1>3, SeqDef
<1> QED BY <1>1, <1>4, FlattenTyped DEF Catalog

LEMMA CatalogAppend ==
  ASSUME rows \in Seq(Rows), NEW row \in Rows, rows' = Append(rows, row)
  PROVE  Catalog' = Catalog \o row.new
<1>1. PICK n, ss : n = Len(rows) /\ ss = [i \in 1..n |-> rows[i].new]
  OBVIOUS
<1>2. n \in Nat /\ rows \in [1..n -> Rows]
  BY <1>1, LenProperties
<1>3. \A i \in 1..n : rows[i].new \in Seq(Relations)
  BY <1>2 DEF Rows
<1>4. ss \in [1..n -> Seq(Relations)] /\ ss \in Seq(Seq(Relations))
  BY <1>1, <1>2, <1>3, SeqDef
<1>5. Len(ss) = n
  BY <1>1, <1>2
<1>6. row.new \in Seq(Relations)
  BY DEF Rows
<1>7. /\ Len(rows') = n + 1 /\ rows'[n + 1] = row
      /\ \A i \in 1..n : rows'[i] = rows[i]
  BY <1>1, AppendProperties
<1>8. PICK tt : tt = Append(ss, row.new)
  OBVIOUS
<1>9. /\ tt \in [1..(n + 1) -> Seq(Relations)] /\ tt[n + 1] = row.new
      /\ \A i \in 1..n : tt[i] = ss[i]
  <2>1. tt \in Seq(Seq(Relations)) /\ Len(tt) = n + 1
    BY <1>4, <1>5, <1>6, <1>8, AppendProperties
  <2>2. tt[n + 1] = row.new /\ \A i \in 1..n : tt[i] = ss[i]
    BY <1>4, <1>5, <1>6, <1>8, AppendProperties
  <2> QED BY <2>1, <2>2, LenProperties
<1>10. tt = [i \in 1..(n + 1) |-> rows'[i].new]
  <2>1. \A i \in 1..(n + 1) : tt[i] = rows'[i].new
    <3>1. \A i \in 1..(n + 1) : i = n + 1 \/ i \in 1..n
      BY <1>2
    <3>2. \A i \in 1..n : ss[i] = rows[i].new
      BY <1>1
    <3> QED BY <1>7, <1>9, <3>1, <3>2
  <2> QED BY <1>9, <2>1
<1>11. Catalog' = FlattenSeq(tt)
  BY <1>7, <1>10 DEF Catalog
<1>12. Catalog = FlattenSeq(ss)
  BY <1>1 DEF Catalog
<1> QED BY <1>4, <1>6, <1>8, <1>11, <1>12, FlattenAppend

LEMMA CurrentTreeSized ==
  ASSUME rows \in Seq(Rows)
  PROVE  CurrentTree \in Sized
<1>1. CASE rows = <<>>
  BY <1>1, NoTreeSized DEF CurrentTree
<1>2. CASE rows # <<>>
  <2>1. Len(rows) \in 1..Len(rows)
    BY <1>2, EmptySeq
  <2>2. Last(rows) \in Rows
    BY <2>1, ElementOfSeq DEF Last
  <2> QED BY <1>2, <2>2 DEF CurrentTree, Rows
<1> QED BY <1>1, <1>2

\* What a source would teach fits the tree.
LEMMA TaughtSized ==
  ASSUME rows \in Seq(Rows), NEW s \in Sources, Fits(s),
         NEW taught, taught = Catalog \o NewRelations(s)
  PROVE  [n |-> Len(taught), taught |-> taught] \in Sized
<1>1. taught \in Seq(Relations) /\ Len(taught) = Len(Catalog) + Len(NewRelations(s))
  BY CatalogTyped, NewOnes, ConcatProperties
<1>2. Len(taught) \in Nat /\ Len(taught) <= MaxMemories
  BY <1>1, LenProperties DEF Fits
<1> QED BY <1>1, <1>2, ReviewedMemoryAssumption DEF Sized, Trees

\* What an answer may name.
LEMMA EvidenceTyped ==
  ASSUME LinksTyped, NEW r, NEW packet \in SUBSET Sources
  PROVE  Kind(r, packet) \in Kinds /\ Evidence(Kind(r, packet), r, packet) \in SUBSET Sources
<1>1. Query(r) \subseteq Sources /\ Bound(r) \subseteq Sources
  BY DEF Query, Bound
<1>2. Successors(Query(r)) \subseteq Sources
  BY <1>1, EndpointTyped DEF Successors
<1>3. Conflicts(packet) \subseteq Sources
  BY DEF Conflicts
<1>4. Kind(r, packet) \in Kinds
  BY DEF Kind, Kinds
<1> QED BY <1>1, <1>2, <1>3, <1>4 DEF Evidence, Kinds

LEMMA InitTyped == Init => Typed
<1> SUFFICES ASSUME Init PROVE Typed
  OBVIOUS
<1>1. shelf \in [imported : SUBSET Sources, withdrawn : SUBSET Sources]
      /\ shelf.withdrawn \subseteq shelf.imported
  BY DEF Init
<1>2. LinksTyped
  BY ReviewedMemoryAssumption DEF Init, LinksTyped, NoLink
<1>3. rows \in Seq(Rows)
  BY EmptySeq DEF Init
<1>4. files \in [1..MaxMemories -> Seq(Relations) \cup {None}] /\ now \in 0..MaxTime
  BY ReviewedMemoryAssumption DEF Init
<1>5. op \in [Processes -> Calls] /\ \A p \in Processes : Taught(op[p])
  BY IdleTyped DEF Init, Taught
<1>6. told \in Answers
  BY ReviewedMemoryAssumption DEF Init, Answers, NoAnswer
<1> QED BY <1>1, <1>2, <1>3, <1>4, <1>5, <1>6 DEF Typed, DataTyped, CallsTyped

\* One call takes its next step.
LEMMA SetTyped ==
  ASSUME CallsTyped, NEW p \in Processes, NEW call \in Calls, Taught(call), Set(p, call)
  PROVE  op' \in [Processes -> Calls] /\ \A q \in Processes : Taught(op'[q])
BY DEF CallsTyped, Set, Taught

LEMMA ReturnTyped ==
  ASSUME CallsTyped, NEW p \in Processes, Return(p)
  PROVE  op' \in [Processes -> Calls] /\ \A q \in Processes : Taught(op'[q])
<1>1. Taught(Idle)
  BY IdleTyped DEF Taught
<1> QED BY <1>1, IdleTyped, SetTyped DEF Return

LEMMA BeginTyped ==
  ASSUME CallsTyped, NEW p \in Processes, NEW call \in Calls, Taught(call), Begin(p, call)
  PROVE  CallsTyped'
<1>1. told' \in Answers
  BY ReviewedMemoryAssumption DEF Begin, Answers, NoAnswer
<1>2. op' \in [Processes -> Calls] /\ \A q \in Processes : Taught(op'[q])
  BY SetTyped DEF Begin
<1> QED BY <1>1, <1>2 DEF CallsTyped, Taught

LEMMA DataKept ==
  ASSUME DataTyped, UNCHANGED <<shelf, links, rows, files, now>>
  PROVE  DataTyped'
BY DEF DataTyped, LinksTyped

LEMMA CallsKept ==
  ASSUME CallsTyped, UNCHANGED <<op, told>>
  PROVE  CallsTyped'
BY DEF CallsTyped, Taught

LEMMA LibraryTyped ==
  ASSUME Typed,
         \/ Tick
         \/ \E s \in Sources : Withdraw(s)
         \/ \E p \in Processes, s \in Sources : Import(p, s)
  PROVE  Typed'
<1>1. CallsTyped'
  BY CallsKept DEF Typed, Tick, Withdraw, Import
<1>2. shelf' \in [imported : SUBSET Sources, withdrawn : SUBSET Sources]
      /\ shelf'.withdrawn \subseteq shelf'.imported
  BY DEF Typed, DataTyped, Tick, Withdraw, Import, Active
<1>3. now' \in 0..MaxTime
  BY ReviewedMemoryAssumption DEF Typed, DataTyped, Tick, Withdraw, Import
<1>4. UNCHANGED <<links, rows, files>>
  BY DEF Tick, Withdraw, Import
<1>5. DataTyped'
  BY <1>2, <1>3, <1>4 DEF Typed, DataTyped, LinksTyped
<1> QED BY <1>1, <1>5 DEF Typed

LEMMA ResolveTyped ==
  ASSUME Typed, NEW p \in Processes, NEW newer \in Sources, NEW olds \in SUBSET Sources,
         NEW at \in 0..MaxTime, BeginResolve(p, newer, olds, at)
  PROVE  Typed'
<1>1. PICK pending \in SUBSET Sources :
         Begin(p, [Idle EXCEPT !.at = "resolve", !.source = newer, !.set = pending, !.time = at])
  BY DEF BeginResolve
<1>2. PICK call : call = [Idle EXCEPT !.at = "resolve", !.source = newer, !.set = pending, !.time = at]
  OBVIOUS
<1>3. call \in Calls
  BY <1>2, IdleTyped DEF Calls, Stages
<1>4. Taught(call)
  BY <1>2, IdleTyped DEF Taught, Calls
<1>5. CallsTyped'
  BY <1>1, <1>2, <1>3, <1>4, BeginTyped DEF Typed
<1> QED BY <1>5, DataKept DEF Typed, BeginResolve

LEMMA CommitResolveTyped ==
  ASSUME Typed, NEW p \in Processes, CommitResolve(p)
  PROVE  Typed'
<1>1. CallsTyped'
  BY ReturnTyped DEF Typed, CallsTyped, CommitResolve, Taught
<1>2. op[p] \in Calls
  BY DEF Typed, CallsTyped
<1>3. links' \in [Sources -> [newer : Sources \cup {None}, at : 0..MaxTime]]
  BY <1>2 DEF Typed, DataTyped, LinksTyped, Calls, CommitResolve, With
<1> QED BY <1>1, <1>3 DEF Typed, DataTyped, LinksTyped, CommitResolve

LEMMA LearnTyped ==
  ASSUME Typed, NEW p \in Processes, NEW s \in Sources, BeginLearn(p, s)
  PROVE  Typed'
<1>1. PICK taught : taught = Catalog \o NewRelations(s)
  OBVIOUS
<1>2. [n |-> Len(taught), taught |-> taught] \in Sized
  BY <1>1, TaughtSized DEF Typed, DataTyped, BeginLearn
<1>3. CurrentTree \in Sized
  BY CurrentTreeSized DEF Typed, DataTyped
<1>4. PICK stage \in {"teach", "retain"}, before \in Sized, tree \in Sized :
         Begin(p, [Idle EXCEPT !.source = s, !.at = stage, !.before = before, !.tree = tree])
  BY <1>1, <1>2, <1>3 DEF BeginLearn
<1>5. PICK call : call = [Idle EXCEPT !.source = s, !.at = stage, !.before = before, !.tree = tree]
  OBVIOUS
<1>6. call \in Calls
  BY <1>5, IdleTyped DEF Calls, Stages
<1>7. Taught(call)
  BY <1>5, IdleTyped DEF Taught, Calls
<1>8. CallsTyped'
  BY <1>4, <1>5, <1>6, <1>7, BeginTyped DEF Typed
<1> QED BY <1>8, DataKept DEF Typed, BeginLearn

LEMMA TeachTyped ==
  ASSUME Typed, NEW p \in Processes, Teach(p)
  PROVE  Typed'
<1>1. op[p] \in Calls /\ Taught(op[p])
  BY DEF Typed, CallsTyped
<1>2. PICK call : call = [op[p] EXCEPT !.at = "retain"]
  OBVIOUS
<1>3. call \in Calls /\ Taught(call)
  BY <1>1, <1>2 DEF Calls, Stages, Taught, Teach, At
<1>4. CallsTyped'
  BY <1>2, <1>3, SetTyped DEF Typed, CallsTyped, Teach, Taught
<1>5. files' \in [1..MaxMemories -> Seq(Relations) \cup {None}]
  BY <1>1 DEF Typed, DataTyped, Calls, Sized, Trees, Teach
<1> QED BY <1>4, <1>5 DEF Typed, DataTyped, LinksTyped, Teach

LEMMA RetainTyped ==
  ASSUME Typed, NEW p \in Processes, RetainRow(p)
  PROVE  Typed'
<1>1. op[p] \in Calls /\ op[p].source \in Sources
  BY DEF Typed, CallsTyped, Taught, RetainRow, At
<1>2. PICK call : call = [op[p] EXCEPT !.at = "retire"]
  OBVIOUS
<1>3. call \in Calls /\ Taught(call)
  BY <1>1, <1>2 DEF Calls, Stages, Taught
<1>4. CallsTyped'
  BY <1>2, <1>3, SetTyped DEF Typed, CallsTyped, RetainRow, Taught
<1>5. PICK new : new = SubSeq(op[p].tree.taught, op[p].before.n + 1, op[p].tree.n)
  OBVIOUS
<1>6. op[p].tree \in Sized /\ op[p].before \in Sized
  BY <1>1 DEF Calls
<1>7. new \in Seq(Relations)
  <2>1. PICK t, m, k : t = op[p].tree.taught /\ m = op[p].before.n + 1 /\ k = op[p].tree.n
    OBVIOUS
  <2>2. t \in Seq(Relations) /\ k = Len(t) /\ m \in Nat /\ m >= 1 /\ k \in Nat
    BY <1>6, <2>1, ReviewedMemoryAssumption DEF Sized, Trees
  <2>3. \A i \in m..k : t[i] \in Relations
    BY <2>2, ElementOfSeq
  <2>4. SubSeq(t, m, k) \in Seq(Relations)
    BY <2>2, <2>3, SubSeqProperties
  <2> QED BY <1>5, <2>1, <2>4
<1>8. PICK row : row = [source |-> op[p].source, new |-> new, tree |-> op[p].tree]
  OBVIOUS
<1>9. row \in Rows
  BY <1>1, <1>6, <1>7, <1>8 DEF Rows
<1>10. rows' = rows \/ rows' = Append(rows, row)
  BY <1>5, <1>8 DEF RetainRow
<1>11. rows' \in Seq(Rows)
  BY <1>9, <1>10, AppendProperties DEF Typed, DataTyped
<1> QED BY <1>4, <1>11 DEF Typed, DataTyped, LinksTyped, RetainRow

LEMMA RetireTyped ==
  ASSUME Typed, NEW p \in Processes, Retire(p)
  PROVE  Typed'
<1>1. CallsTyped'
  BY ReturnTyped DEF Typed, CallsTyped, Retire, Taught
<1>2. files' \in [1..MaxMemories -> Seq(Relations) \cup {None}]
  BY DEF Typed, DataTyped, Retire
<1> QED BY <1>1, <1>2 DEF Typed, DataTyped, LinksTyped, Retire

LEMMA RecallTyped ==
  ASSUME Typed, NEW p \in Processes, Recall(p)
  PROVE  Typed'
<1>1. op[p] \in Calls
  BY DEF Typed, CallsTyped
<1>2. PICK r \in Asked, packet \in SUBSET op[p].seen :
        \E kind, evidence, back :
          /\ kind = Kind(r, packet) /\ evidence = Evidence(kind, r, packet)
          /\ back = IF kind = "recalled" THEN evidence \ packet ELSE {}
          /\ Set(p, [op[p] EXCEPT !.at = "reopen", !.kind = kind, !.set = evidence, !.time = now,
                                  !.reopened = back])
  BY DEF Recall
<1>3. PICK kind, evidence, back :
          /\ kind = Kind(r, packet) /\ evidence = Evidence(kind, r, packet)
          /\ back = IF kind = "recalled" THEN evidence \ packet ELSE {}
          /\ Set(p, [op[p] EXCEPT !.at = "reopen", !.kind = kind, !.set = evidence, !.time = now,
                                  !.reopened = back])
  BY <1>2
<1>4. kind \in Kinds /\ evidence \in SUBSET Sources
  <2>1. packet \in SUBSET Sources
    BY <1>1 DEF Calls
  <2> QED BY <1>3, <2>1, EvidenceTyped DEF Typed, DataTyped
<1>5. PICK call : call = [op[p] EXCEPT !.at = "reopen", !.kind = kind, !.set = evidence,
                                       !.time = now, !.reopened = back]
  OBVIOUS
<1>6. call \in Calls /\ Taught(call)
  BY <1>1, <1>3, <1>4, <1>5 DEF Calls, Stages, Taught, Typed, DataTyped
<1>7. CallsTyped'
  BY <1>3, <1>5, <1>6, SetTyped DEF Typed, CallsTyped, Recall, Taught
<1> QED BY <1>7, DataKept DEF Typed, Recall

LEMMA TellTyped ==
  ASSUME CallsTyped, NEW p \in Processes, NEW kind \in Kinds \cup {None, "refused", "discarded"},
         Tell(p, kind)
  PROVE  told' \in Answers
BY DEF CallsTyped, Calls, Answers, Tell

LEMMA AnswerTyped ==
  ASSUME Typed, NEW p \in Processes,
         BeginAnswer(p) \/ Reopen(p) \/ Deliver(p) \/ AnswerFails(p) \/ LearnFails(p) \/ Stop(p)
  PROVE  Typed'
<1>1. DataTyped'
  BY DataKept DEF Typed, BeginAnswer, Reopen, Deliver, AnswerFails, LearnFails, Stop
<1>2. op[p] \in Calls
  BY DEF Typed, CallsTyped
<1>3. CASE BeginAnswer(p)
  <2>1. PICK call : call = [Idle EXCEPT !.at = "recall", !.seen = Active]
    OBVIOUS
  <2>2. call \in Calls /\ Taught(call)
    BY <2>1, IdleTyped DEF Calls, Stages, Taught, Typed, DataTyped, Active
  <2>3. CallsTyped'
    BY <1>3, <2>1, <2>2, BeginTyped DEF Typed, BeginAnswer
  <2> QED BY <1>1, <2>3 DEF Typed
<1>4. CASE Reopen(p)
  <2>1. CASE op[p].reopened \subseteq Active
    <3>1. PICK call : call = [op[p] EXCEPT !.at = "deliver"]
      OBVIOUS
    <3>2. call \in Calls /\ Taught(call)
      BY <1>2, <3>1 DEF Calls, Stages, Taught
    <3>3. Set(p, call) /\ told' = told
      BY <1>4, <2>1, <3>1 DEF Reopen
    <3> QED BY <1>1, <3>2, <3>3, SetTyped DEF Typed, CallsTyped, Taught
  <2>2. CASE ~(op[p].reopened \subseteq Active)
    <3>1. Return(p) /\ Tell(p, "refused")
      BY <1>4, <2>2 DEF Reopen
    <3>2. told' \in Answers
      BY <3>1, TellTyped DEF Typed
    <3> QED BY <1>1, <3>1, <3>2, ReturnTyped DEF Typed, CallsTyped, Taught
  <2> QED BY <2>1, <2>2
<1>5. CASE Deliver(p)
  <2>1. op[p].kind \in Kinds \cup {None}
    BY <1>2 DEF Calls
  <2>2. told' \in Answers
    <3>1. CASE SameInventory(p)
      BY <1>5, <2>1, <3>1, TellTyped DEF Typed, Deliver
    <3>2. CASE ~SameInventory(p)
      BY <1>5, <3>2, TellTyped DEF Typed, Deliver
    <3> QED BY <3>1, <3>2
  <2> QED BY <1>1, <1>5, <2>2, ReturnTyped DEF Typed, CallsTyped, Taught, Deliver
<1>6. CASE AnswerFails(p) \/ LearnFails(p) \/ Stop(p)
  <2>1. Return(p) /\ told' = told
    BY <1>6 DEF AnswerFails, LearnFails, Stop
  <2> QED BY <1>1, <2>1, ReturnTyped DEF Typed, CallsTyped, Taught
<1> QED BY <1>3, <1>4, <1>5, <1>6

\* Every step of every process keeps the types.
LEMMA StepTyped == Typed /\ [Next]_vars => Typed'
<1> SUFFICES ASSUME Typed, [Next]_vars PROVE Typed'
  OBVIOUS
<1>1. CASE UNCHANGED vars
  BY <1>1, DataKept, CallsKept DEF Typed, vars
<1>2. CASE Next
  <2>1. CASE Tick \/ \E s \in Sources : Withdraw(s)
    BY <2>1, LibraryTyped
  <2>2. ASSUME NEW p \in Processes, NEW s \in Sources, Import(p, s)
        PROVE  Typed'
    BY <2>2, LibraryTyped
  <2>3. ASSUME NEW p \in Processes, NEW s \in Sources, BeginLearn(p, s)
        PROVE  Typed'
    BY <2>3, LearnTyped
  <2>4. ASSUME NEW p \in Processes, NEW s \in Sources, NEW olds \in SUBSET Sources,
               NEW at \in 0..MaxTime, BeginResolve(p, s, olds, at)
        PROVE  Typed'
    BY <2>4, ResolveTyped
  <2>5. ASSUME NEW p \in Processes,
               \/ CommitResolve(p) \/ Teach(p) \/ RetainRow(p) \/ Retire(p) \/ Recall(p)
               \/ BeginAnswer(p) \/ Reopen(p) \/ Deliver(p) \/ AnswerFails(p) \/ LearnFails(p)
               \/ Stop(p)
        PROVE  Typed'
    BY <2>5, CommitResolveTyped, TeachTyped, RetainTyped, RetireTyped, RecallTyped, AnswerTyped
  <2> QED BY <1>2, <2>1, <2>2, <2>3, <2>4, <2>5, Zenon DEF Next
<1> QED BY <1>1, <1>2

\* Every variable has its type in every step, for any processes: checkpoints,
\* rows and links stay among the trees, relations and sources there are.
THEOREM TypeCorrect == Spec => []TypeOK
BY InitTyped, StepTyped, TypedIsTypeOK, PTL DEF Spec

-----------------------------------------------------------------------------
(* The tree and the catalog *)

\* A source is being learned, that adds new to the catalog.
Adding(call, new) ==
  /\ new \in Seq(Relations) /\ IsInjective(new) /\ ToSet(new) \cap ToSet(Catalog) = {}
  /\ States[call.source] # <<>> /\ ToSet(States[call.source]) \subseteq ToSet(Catalog) \cup ToSet(new)
  /\ ~Learned(call.source)
  /\ call.before = CurrentTree
  /\ call.tree.taught = Catalog \o new
  /\ call.at = "teach" => new # <<>>
  /\ call.at = "retain" => new = <<>> \/ files[call.tree.n] = call.tree.taught

\* The last checkpoint is the catalog, also of a project without rows.
TreeInv ==
  /\ IsInjective(Catalog)
  /\ CurrentTree = [n |-> Len(Catalog), taught |-> Catalog]
  /\ rows # <<>> => Len(Catalog) # 0 /\ files[Len(Catalog)] = Catalog
  /\ \A i \in 1..Len(rows) : ToSet(States[rows[i].source]) \subseteq ToSet(Catalog)

\* What a learning call relies on at each of its steps.
LearnInv ==
  \A p \in Processes :
    /\ op[p].at \in {"teach", "retain"} => \E new : Adding(op[p], new)
    /\ op[p].at = "retire" => rows # <<>> /\ op[p].tree = CurrentTree

LEMMA TreeInvIsTreeIsCatalog == TreeInv => TreeIsCatalog
BY DEF TreeInv, TreeIsCatalog, CurrentTree

LEMMA RowsKept ==
  ASSUME rows' = rows
  PROVE  Catalog' = Catalog /\ CurrentTree' = CurrentTree
BY DEF Catalog, CurrentTree

LEMMA InitTree == Init => TreeInv /\ LearnInv
<1> SUFFICES ASSUME Init PROVE TreeInv /\ LearnInv
  OBVIOUS
<1>1. rows = <<>> /\ Len(rows) = 0
  BY EmptySeq DEF Init
<1>2. Catalog = <<>>
  <2>1. Catalog \in Seq(Relations)
    <3>1. rows \in Seq(Rows)
      BY <1>1, EmptySeq
    <3> QED BY <3>1, CatalogTyped
  <2>2. [i \in 1..Len(rows) |-> rows[i].new] = <<>>
    BY <1>1
  <2> QED BY <2>2, EmptySeq DEF Catalog, FlattenSeq
<1>3. CurrentTree = [n |-> Len(Catalog), taught |-> Catalog]
  BY <1>1, <1>2, EmptySeq, Zenon DEF CurrentTree, NoTree
<1>4. IsInjective(Catalog)
  <2>1. DOMAIN Catalog = {}
    BY <1>2
  <2> QED BY <2>1 DEF IsInjective
<1>5. TreeInv
  BY <1>1, <1>3, <1>4 DEF TreeInv
<1>6. \A p \in Processes : op[p].at = "idle"
  BY DEF Init, Idle
<1> QED BY <1>5, <1>6 DEF LearnInv

\* The tree does not change.
LEMMA TreeKept ==
  ASSUME TreeInv, UNCHANGED <<rows, files>>
  PROVE  TreeInv'
<1>1. Catalog' = Catalog /\ CurrentTree' = CurrentTree
  BY RowsKept
<1> QED BY <1>1 DEF TreeInv

\* Neither does what a call relies on.
LEMMA LearnKept ==
  ASSUME LearnInv, UNCHANGED <<rows, files, op>>
  PROVE  LearnInv'
<1>1. Catalog' = Catalog /\ CurrentTree' = CurrentTree
  BY RowsKept
<1>2. ASSUME NEW p \in Processes, NEW new, Adding(op[p], new)
      PROVE  Adding(op[p], new)'
  BY <1>1, <1>2 DEF Adding, Learned
<1> QED BY <1>1, <1>2 DEF LearnInv

\* The call of the only process is another one, or over.
LEMMA OtherCall ==
  ASSUME NEW g, Processes = {g}, op'[g].at \notin {"teach", "retain", "retire"}
  PROVE  LearnInv'
BY DEF LearnInv

LEMMA Calling ==
  ASSUME Typed, NEW g \in Processes, NEW call, Set(g, call)
  PROVE  op'[g] = call
BY DEF Typed, CallsTyped, Set

LEMMA Returning ==
  ASSUME Typed, NEW g \in Processes, Return(g)
  PROVE  op'[g].at = "idle"
BY Calling DEF Return, Idle

\* What a source adds keeps the catalog without repetition.
LEMMA AddedOnce ==
  ASSUME NEW a \in Seq(Relations), NEW b \in Seq(Relations),
         IsInjective(a), IsInjective(b), ToSet(a) \cap ToSet(b) = {}
  PROVE  IsInjective(a \o b) /\ ToSet(a \o b) = ToSet(a) \cup ToSet(b)
<1>1. PICK c, m, n : c = a \o b /\ m = Len(a) /\ n = Len(b)
  OBVIOUS
<1>2. /\ m \in Nat /\ n \in Nat /\ DOMAIN a = 1..m /\ DOMAIN b = 1..n /\ DOMAIN c = 1..(m + n)
      /\ \A i \in 1..(m + n) : c[i] = IF i <= m THEN a[i] ELSE b[i - m]
  BY <1>1, LenProperties, ConcatProperties
<1>3. \A i \in 1..(m + n) : i <= m => i \in 1..m
  BY <1>2
<1>4. \A i \in 1..(m + n) : ~(i <= m) => i - m \in 1..n
  BY <1>2
<1>5. \A i \in 1..m : i \in 1..(m + n) /\ c[i] = a[i]
  BY <1>2
<1>6. \A i \in 1..n : m + i \in 1..(m + n) /\ c[m + i] = b[i]
  <2>1. \A i \in 1..n : m + i \in 1..(m + n) /\ ~(m + i <= m) /\ (m + i) - m = i
    BY <1>2
  <2> QED BY <1>2, <2>1
<1>7. ToSet(c) = ToSet(a) \cup ToSet(b)
  <2>1. ToSet(c) \subseteq ToSet(a) \cup ToSet(b)
    BY <1>2, <1>3, <1>4 DEF ToSet
  <2>2. ToSet(a) \subseteq ToSet(c)
    BY <1>2, <1>5 DEF ToSet
  <2>3. ToSet(b) \subseteq ToSet(c)
    BY <1>2, <1>6 DEF ToSet
  <2> QED BY <2>1, <2>2, <2>3
<1>8. ASSUME NEW i \in 1..(m + n), NEW j \in 1..(m + n), c[i] = c[j]
      PROVE  i = j
  <2>1. CASE i <= m /\ j <= m
    BY <1>2, <1>3, <1>8, <2>1 DEF IsInjective
  <2>2. CASE ~(i <= m) /\ ~(j <= m)
    <3>1. c[i] = b[i - m] /\ c[j] = b[j - m] /\ i - m \in 1..n /\ j - m \in 1..n
      BY <1>2, <1>4, <2>2
    <3>2. i - m = j - m
      BY <1>2, <1>8, <3>1 DEF IsInjective
    <3> QED BY <1>2, <3>2
  <2>3. CASE i <= m /\ ~(j <= m)
    <3>1. c[i] \in ToSet(a) /\ c[j] \in ToSet(b)
      BY <1>2, <1>3, <1>4, <2>3 DEF ToSet
    <3> QED BY <1>8, <3>1
  <2>4. CASE ~(i <= m) /\ j <= m
    <3>1. c[i] \in ToSet(b) /\ c[j] \in ToSet(a)
      BY <1>2, <1>3, <1>4, <2>4 DEF ToSet
    <3> QED BY <1>8, <3>1
  <2> QED BY <2>1, <2>2, <2>3, <2>4
<1>9. IsInjective(c)
  BY <1>2, <1>8 DEF IsInjective
<1> QED BY <1>1, <1>7, <1>9

LEMMA TreeFields ==
  ASSUME NEW t \in Sized
  PROVE  t = [n |-> t.n, taught |-> t.taught] /\ t.n = Len(t.taught) /\ t.taught \in Seq(Relations)
         /\ t.n \in 0..MaxMemories
BY DEF Sized, Trees

LEMMA BeginLearnTree ==
  ASSUME Typed, TreeInv, LearnInv, NEW g \in Processes, Processes = {g},
         NEW s \in Sources, BeginLearn(g, s)
  PROVE  TreeInv' /\ LearnInv'
<1>1. TreeInv'
  BY TreeKept DEF BeginLearn
<1>2. Catalog' = Catalog /\ CurrentTree' = CurrentTree
  BY RowsKept DEF BeginLearn
<1>3. PICK new : new = NewRelations(s)
  OBVIOUS
<1>4. new \in Seq(Relations) /\ IsInjective(new) /\ ToSet(new) = ToSet(States[s]) \ ToSet(Catalog)
  BY <1>3, NewOnes
<1>5. Catalog \in Seq(Relations)
  BY CatalogTyped DEF Typed, DataTyped
<1>6. PICK taught : taught = Catalog \o new
  OBVIOUS
<1>7. PICK grown : grown = [n |-> Len(taught), taught |-> taught]
  OBVIOUS
<1>8. grown.taught = taught
  BY <1>7
<1>9. PICK stage, tree :
         /\ stage = IF new = <<>> THEN "retain" ELSE "teach"
         /\ tree = IF new = <<>> THEN CurrentTree ELSE grown
         /\ Set(g, [Idle EXCEPT !.source = s, !.at = stage, !.before = CurrentTree, !.tree = tree])
  BY <1>3, <1>6, <1>7, Zenon DEF BeginLearn, Begin
<1>10. PICK call : call = [Idle EXCEPT !.source = s, !.at = stage, !.before = CurrentTree, !.tree = tree]
  OBVIOUS
<1>11. /\ call.source = s /\ call.at = stage /\ call.before = CurrentTree /\ call.tree = tree
  BY <1>10, IdleTyped DEF Calls
<1>12. op'[g] = call
  BY <1>9, <1>10 DEF Set, Typed, CallsTyped
<1>13. tree.taught = Catalog \o new
  <2>1. CASE new = <<>>
    <3>1. CurrentTree.taught = Catalog
      BY DEF TreeInv
    <3> QED BY <1>5, <1>9, <2>1, <3>1, ConcatEmptySeq
  <2>2. CASE new # <<>>
    BY <1>6, <1>8, <1>9, <2>2
  <2> QED BY <2>1, <2>2
<1>14. Adding(call, new)'
  <2>1. States[s] # <<>> /\ ~Learned(s)
    BY DEF BeginLearn
  <2>2. ~Learned(s)'
    BY <2>1 DEF Learned, BeginLearn
  <2>3. (stage = "teach" => new # <<>>) /\ (stage = "retain" => new = <<>>)
    BY <1>9
  <2> QED BY <1>2, <1>4, <1>11, <1>13, <2>1, <2>2, <2>3 DEF Adding
<1>15. stage # "retire"
  BY <1>9
<1> QED BY <1>1, <1>11, <1>12, <1>14, <1>15 DEF LearnInv

LEMMA TeachTree ==
  ASSUME Typed, TreeInv, LearnInv, NEW g \in Processes, Processes = {g}, Teach(g)
  PROVE  TreeInv' /\ LearnInv'
<1>1. PICK new : Adding(op[g], new)
  BY DEF LearnInv, Teach, At
<1>2. PICK t, m : t = op[g].tree.taught /\ m = op[g].tree.n
  OBVIOUS
<1>3. op[g] \in Calls
  BY DEF Typed, CallsTyped
<1>4. t \in Seq(Relations) /\ m = Len(t) /\ m \in 0..MaxMemories
  BY <1>2, <1>3 DEF Calls, Sized, Trees
<1>5. t = Catalog \o new /\ new # <<>> /\ new \in Seq(Relations)
  BY <1>1, <1>2 DEF Adding, Teach, At
<1>6. Catalog \in Seq(Relations)
  BY CatalogTyped DEF Typed, DataTyped
<1>7. PICK k : k = Len(Catalog)
  OBVIOUS
<1>8. k \in Nat /\ Len(new) \in Nat \ {0} /\ m = k + Len(new)
  BY <1>4, <1>5, <1>6, <1>7, EmptySeq, LenProperties, ConcatProperties
<1>9. m \in 1..MaxMemories /\ m # k
  BY <1>4, <1>8, ReviewedMemoryAssumption
<1>10. files' = [files EXCEPT ![m] = t]
  BY <1>2 DEF Teach
<1>11. files'[m] = t /\ files'[k] = files[k]
  BY <1>9, <1>10 DEF Typed, DataTyped
<1>12. Catalog' = Catalog /\ CurrentTree' = CurrentTree
  BY RowsKept DEF Teach
<1>13. TreeInv'
  BY <1>7, <1>11, <1>12 DEF TreeInv, Teach
<1>14. PICK call : call = [op[g] EXCEPT !.at = "retain"]
  OBVIOUS
<1>15. /\ call.source = op[g].source /\ call.at = "retain" /\ call.before = op[g].before
       /\ call.tree = op[g].tree
  BY <1>3, <1>14 DEF Calls
<1>16. op'[g] = call
  BY <1>14 DEF Teach, Set, Typed, CallsTyped
<1>17. Adding(call, new)'
  <2>1. ~Learned(call.source)'
    BY <1>1, <1>15 DEF Adding, Learned, Teach
  <2>2. files'[call.tree.n] = call.tree.taught
    BY <1>2, <1>11, <1>15
  <2> QED BY <1>1, <1>12, <1>15, <2>1, <2>2 DEF Adding
<1> QED BY <1>13, <1>15, <1>16, <1>17 DEF LearnInv

LEMMA RetainTree ==
  ASSUME Typed, TreeInv, LearnInv, NEW g \in Processes, Processes = {g}, RetainRow(g)
  PROVE  TreeInv' /\ LearnInv'
<1>1. PICK new : Adding(op[g], new)
  BY DEF LearnInv, RetainRow, At
<1>2. PICK s, t, tree, m : s = op[g].source /\ tree = op[g].tree /\ t = tree.taught /\ m = tree.n
  OBVIOUS
<1>3. op[g] \in Calls /\ s \in Sources
  BY <1>2 DEF Typed, CallsTyped, Taught, RetainRow, At
<1>4. tree \in Sized /\ t \in Seq(Relations) /\ m = Len(t) /\ tree = [n |-> m, taught |-> t]
  BY <1>2, <1>3, TreeFields DEF Calls
<1>5. t = Catalog \o new /\ new \in Seq(Relations)
  BY <1>1, <1>2 DEF Adding
<1>6. Catalog \in Seq(Relations)
  BY CatalogTyped DEF Typed, DataTyped
<1>7. PICK cat, k, l : cat = Catalog /\ k = Len(cat) /\ l = Len(new)
  OBVIOUS
<1>8. k \in Nat /\ l \in Nat /\ m = k + l
  BY <1>4, <1>5, <1>6, <1>7, LenProperties, ConcatProperties
<1>9. op[g].before.n = k
  BY <1>1, <1>7 DEF Adding, TreeInv
<1>10. SubSeq(t, k + 1, m) = new
  <2>1. CASE l = 0
    <3>1. new = <<>>
      BY <1>5, <1>7, <2>1, EmptySeq
    <3>2. m < k + 1 /\ m \in Int /\ k + 1 \in Int
      BY <1>8, <2>1
    <3> QED BY <3>1, <3>2, SubSeqEmpty
  <2>2. CASE l # 0
    <3>1. k + 1 \in (k + 1)..(k + l) /\ m \in (k + 1)..(k + l) /\ (k + 1) - k = 1 /\ m - k = l
      BY <1>8, <2>2
    <3>2. SubSeq(cat \o new, k + 1, m) = SubSeq(new, (k + 1) - k, m - k)
      BY <1>5, <1>6, <1>7, <3>1, SubSeqOfConcat2
    <3>3. SubSeq(new, 1, l) = new
      BY <1>5, <1>7, SubSeqFull
    <3> QED BY <1>5, <1>7, <3>1, <3>2, <3>3
  <2> QED BY <2>1, <2>2
<1>11. PICK row : row = [source |-> s, new |-> new, tree |-> tree]
  OBVIOUS
<1>12. row \in Rows /\ row.source = s /\ row.new = new /\ row.tree = tree
  BY <1>3, <1>4, <1>5, <1>11 DEF Rows
<1>13. rows' = Append(rows, row)
  <2>1. ~Learned(s)
    BY <1>1, <1>2 DEF Adding
  <2> QED BY <1>2, <1>9, <1>10, <1>11, <2>1 DEF RetainRow
<1>14. rows \in Seq(Rows)
  BY DEF Typed, DataTyped
<1>15. Catalog' = t
  BY <1>5, <1>12, <1>13, <1>14, CatalogAppend
<1>16. PICK n : n = Len(rows) /\ n \in Nat
  BY <1>14, LenProperties
<1>17. /\ Len(rows') = n + 1 /\ rows'[n + 1] = row /\ rows' # <<>>
       /\ \A i \in 1..n : rows'[i] = rows[i]
  BY <1>12, <1>13, <1>14, <1>16, AppendProperties
<1>18. CurrentTree' = tree
  BY <1>12, <1>17 DEF CurrentTree, Last
<1>19. ToSet(t) = ToSet(Catalog) \cup ToSet(new) /\ IsInjective(t)
  BY <1>1, <1>5, <1>6, AddedOnce DEF Adding, TreeInv
<1>20. ToSet(States[s]) \subseteq ToSet(t) /\ States[s] # <<>>
  BY <1>1, <1>2, <1>19 DEF Adding
<1>21. \A i \in 1..Len(rows') : ToSet(States[rows'[i].source]) \subseteq ToSet(t)
  <2>1. \A i \in 1..(n + 1) : i = n + 1 \/ i \in 1..n
    BY <1>16
  <2>2. \A i \in 1..n : ToSet(States[rows[i].source]) \subseteq ToSet(Catalog)
    BY <1>16 DEF TreeInv
  <2> QED BY <1>12, <1>17, <1>19, <1>20, <2>1, <2>2
<1>22. m # 0
  <2>1. States[s] \in Seq(Relations)
    BY <1>3, ReviewedMemoryAssumption
  <2>2. 1 \in DOMAIN States[s]
    BY <1>20, <2>1, EmptySeq, LenProperties
  <2>3. DOMAIN t # {}
    BY <1>20, <2>2 DEF ToSet
  <2>4. DOMAIN t = 1..m
    BY <1>4, LenProperties
  <2> QED BY <2>3, <2>4
<1>23. files'[m] = t
  <2>1. CASE new = <<>>
    <3>1. t = Catalog
      BY <1>5, <1>6, <2>1, ConcatEmptySeq
    <3>2. rows # <<>>
      <4>1. SUFFICES ASSUME rows = <<>> PROVE FALSE
        OBVIOUS
      <4>2. CurrentTree.n = 0
        BY <4>1 DEF CurrentTree, NoTree
      <4>3. k = 0
        BY <1>7, <4>2 DEF TreeInv
      <4> QED BY <1>4, <1>7, <1>22, <3>1, <4>3
    <3> QED BY <1>4, <3>1, <3>2 DEF TreeInv, RetainRow
  <2>2. CASE new # <<>>
    BY <1>1, <1>2, <2>2 DEF Adding, RetainRow, At
  <2> QED BY <2>1, <2>2
<1>24. TreeInv'
  BY <1>4, <1>15, <1>18, <1>19, <1>21, <1>22, <1>23 DEF TreeInv
<1>25. op'[g] = [op[g] EXCEPT !.at = "retire"]
  BY DEF RetainRow, Set, Typed, CallsTyped
<1>26. op'[g].at = "retire" /\ op'[g].tree = tree
  BY <1>2, <1>3, <1>25 DEF Calls
<1>27. LearnInv'
  BY <1>17, <1>18, <1>26 DEF LearnInv
<1> QED BY <1>24, <1>27

LEMMA RetireTree ==
  ASSUME Typed, TreeInv, LearnInv, NEW g \in Processes, Processes = {g}, Retire(g)
  PROVE  TreeInv' /\ LearnInv'
<1>1. rows # <<>> /\ op[g].tree = CurrentTree
  BY DEF LearnInv, Retire, At
<1>2. PICK k : k = Len(Catalog)
  OBVIOUS
<1>3. op[g].tree.n = k
  BY <1>1, <1>2 DEF TreeInv
<1>4. k \in 1..MaxMemories
  <2>1. op[g].tree \in Sized
    BY DEF Typed, CallsTyped, Calls
  <2>2. k \in 0..MaxMemories
    BY <1>3, <2>1, TreeFields
  <2>3. k # 0
    BY <1>1, <1>2 DEF TreeInv
  <2> QED BY <2>2, <2>3, ReviewedMemoryAssumption
<1>5. k \notin Retired(op[g].before, op[g].tree)
  BY <1>3 DEF Retired
<1>6. files'[k] = files[k]
  BY <1>4, <1>5 DEF Retire
<1>7. Catalog' = Catalog /\ CurrentTree' = CurrentTree
  BY RowsKept DEF Retire
<1>8. TreeInv'
  BY <1>2, <1>6, <1>7 DEF TreeInv, Retire
<1>9. op'[g].at = "idle"
  BY Returning DEF Retire
<1> QED BY <1>8, <1>9, OtherCall

LEMMA OtherTree ==
  ASSUME Typed, TreeInv, LearnInv, NEW g \in Processes, Processes = {g},
         UNCHANGED <<rows, files>>,
         op' = op \/ op'[g].at \notin {"teach", "retain", "retire"}
  PROVE  TreeInv' /\ LearnInv'
BY TreeKept, LearnKept, OtherCall

\* With one process, every step keeps the tree and what learning relies on.
LEMMA TreeStep ==
  ASSUME Typed, TreeInv, LearnInv, NEW g, Processes = {g}, [Next]_vars
  PROVE  TreeInv' /\ LearnInv'
<1>1. g \in Processes
  OBVIOUS
<1>2. CASE UNCHANGED vars
  BY <1>1, <1>2, OtherTree DEF vars
<1>3. CASE Tick \/ \E s \in Sources : Withdraw(s)
  BY <1>1, <1>3, OtherTree DEF Tick, Withdraw
<1>4. ASSUME NEW s \in Sources, Import(g, s)
      PROVE  TreeInv' /\ LearnInv'
  BY <1>1, <1>4, OtherTree DEF Import
<1>5. ASSUME NEW s \in Sources, BeginLearn(g, s)
      PROVE  TreeInv' /\ LearnInv'
  BY <1>1, <1>5, BeginLearnTree
<1>6. ASSUME NEW s \in Sources, NEW olds \in SUBSET Sources, NEW at \in 0..MaxTime,
             BeginResolve(g, s, olds, at)
      PROVE  TreeInv' /\ LearnInv'
  <2>1. op'[g].at = "resolve"
    BY <1>1, <1>6, IdleTyped, Calling DEF BeginResolve, Begin, Calls
  <2>2. UNCHANGED <<rows, files>>
    BY <1>6 DEF BeginResolve
  <2> QED BY <1>1, <2>1, <2>2, OtherTree
<1>7. CASE CommitResolve(g) \/ LearnFails(g) \/ Deliver(g) \/ AnswerFails(g) \/ Stop(g)
  <2>1. Return(g) /\ UNCHANGED <<rows, files>>
    BY <1>7 DEF CommitResolve, LearnFails, Deliver, AnswerFails, Stop
  <2> QED BY <1>1, <2>1, Returning, OtherTree
<1>8. CASE BeginAnswer(g) \/ Recall(g) \/ Reopen(g)
  <2>1. UNCHANGED <<rows, files>>
    BY <1>8 DEF BeginAnswer, Recall, Reopen
  <2>2. op'[g].at \in {"recall", "reopen", "deliver", "idle"}
    <3>1. op[g] \in Calls
      BY <1>1 DEF Typed, CallsTyped
    <3>2. CASE BeginAnswer(g)
      BY <1>1, <3>2, IdleTyped, Calling DEF BeginAnswer, Begin, Calls
    <3>3. CASE Recall(g)
      BY <1>1, <3>1, <3>3, Calling DEF Recall, Calls
    <3>4. CASE Reopen(g)
      <4>1. Set(g, [op[g] EXCEPT !.at = "deliver"]) \/ Return(g)
        BY <3>4 DEF Reopen
      <4> QED BY <1>1, <3>1, <4>1, Calling, Returning DEF Calls
    <3> QED BY <1>8, <3>2, <3>3, <3>4
  <2> QED BY <1>1, <2>1, <2>2, OtherTree
<1>9. CASE Teach(g) \/ RetainRow(g) \/ Retire(g)
  BY <1>1, <1>9, TeachTree, RetainTree, RetireTree
<1> QED
  BY <1>2, <1>3, <1>4, <1>5, <1>6, <1>7, <1>8, <1>9 DEF Next

\* The checkpoint of the last row is there, and its tree was taught the catalog,
\* each relation once and in order, as long as one process learns, wherever it
\* fails or stops (learn_situation).
THEOREM TreeHoldsCatalog ==
  ASSUME NEW g, Processes = {g}
  PROVE  Spec => []TreeIsCatalog
<1>1. Typed /\ TreeInv /\ LearnInv /\ [Next]_vars => (Typed /\ TreeInv /\ LearnInv)'
  BY StepTyped, TreeStep
<1> QED BY <1>1, InitTyped, InitTree, TreeInvIsTreeIsCatalog, PTL DEF Spec

-----------------------------------------------------------------------------
(* Answers *)

\* What a process relies on while it answers.
Answering(call) ==
  /\ call.at \in {"recall", "reopen", "deliver"} => Active \subseteq call.seen
  /\ call.at \in {"reopen", "deliver"} /\ call.kind \in Kinds \ {"ambiguous"} =>
       /\ call.set \subseteq call.seen \cup (IF call.at = "reopen" THEN call.reopened ELSE {})
       /\ call.kind \in {"resolved", "recalled"} =>
            \A s \in call.set \cap Active : ~Effective(call.time, s)

AnswerInv == \A p \in Processes : Answering(op[p])

LEMMA InitAnswer == Init => AnswerInv
BY DEF Init, AnswerInv, Answering, Idle

\* What is given: a told answer is the one of a call that delivers.
Given ==
  told' # told /\ told'.kind \in Kinds \ {"ambiguous"} =>
    /\ told'.sources \subseteq Active
    /\ told'.kind \in {"resolved", "recalled"} =>
         \A s \in told'.sources : links[s].newer = None \/ links[s].at > told'.time

LEMMA OtherAnswer ==
  ASSUME Typed, AnswerInv, NEW g \in Processes, Processes = {g}, UNCHANGED links,
         Active' \subseteq Active,
         op' = op \/ op'[g].at \notin {"recall", "reopen", "deliver"}
  PROVE  AnswerInv'
<1>1. CASE op' = op
  BY <1>1 DEF AnswerInv, Answering, Effective, Linked
<1>2. CASE op'[g].at \notin {"recall", "reopen", "deliver"}
  BY <1>2 DEF AnswerInv, Answering
<1> QED BY <1>1, <1>2

LEMMA RecallAnswer ==
  ASSUME Typed, AnswerInv, NEW g \in Processes, Processes = {g}, Recall(g)
  PROVE  AnswerInv'
<1>1. op[g] \in Calls /\ Active \subseteq op[g].seen
  BY DEF Typed, CallsTyped, AnswerInv, Answering, Recall, At
<1>2. PICK r \in Asked, packet \in SUBSET op[g].seen :
        \E kind, evidence, back :
          /\ kind = Kind(r, packet) /\ evidence = Evidence(kind, r, packet)
          /\ back = IF kind = "recalled" THEN evidence \ packet ELSE {}
          /\ Set(g, [op[g] EXCEPT !.at = "reopen", !.kind = kind, !.set = evidence, !.time = now,
                                  !.reopened = back])
  BY DEF Recall
<1>3. PICK kind, evidence, back :
          /\ kind = Kind(r, packet) /\ evidence = Evidence(kind, r, packet)
          /\ back = IF kind = "recalled" THEN evidence \ packet ELSE {}
          /\ Set(g, [op[g] EXCEPT !.at = "reopen", !.kind = kind, !.set = evidence, !.time = now,
                                  !.reopened = back])
  BY <1>2
<1>4. PICK call : call = [op[g] EXCEPT !.at = "reopen", !.kind = kind, !.set = evidence,
                                       !.time = now, !.reopened = back]
  OBVIOUS
<1>5. /\ call.at = "reopen" /\ call.kind = kind /\ call.set = evidence /\ call.time = now
      /\ call.reopened = back /\ call.seen = op[g].seen
  BY <1>1, <1>4 DEF Calls
<1>6. op'[g] = call
  BY <1>3, <1>4 DEF Set, Typed, CallsTyped
<1>7. Query(r) \subseteq Sources /\ Bound(r) \subseteq Sources /\ Query(r) = Bound(r) \cap Active
  BY DEF Query, Bound
<1>8. LinksTyped /\ Readable(links)
  BY DEF Typed, DataTyped, Recall
<1>9. kind \in Kinds \ {"ambiguous"} => evidence \subseteq call.seen \cup back
  <2>1. CASE kind = "passages"
    BY <1>3, <1>5, <2>1 DEF Evidence
  <2>2. CASE kind = "resolved"
    <3>1. Settled(r, packet)
      BY <1>3, <2>2 DEF Kind
    <3>2. \A s \in Query(r) : Endpoint(now, s) \in packet
      BY <3>1 DEF Settled, Resolved
    <3>3. evidence = Successors(Query(r))
      BY <1>3, <2>2 DEF Evidence
    <3> QED BY <1>5, <3>2, <3>3 DEF Successors
  <2>3. CASE kind = "recalled"
    BY <1>3, <1>5, <2>3
  <2> QED BY <2>1, <2>2, <2>3 DEF Kinds
<1>10. kind \in {"resolved", "recalled"} =>
         \A s \in evidence \cap Active : ~Effective(now, s)
  <2>1. CASE kind = "resolved"
    <3>1. evidence = Successors(Query(r))
      BY <1>3, <2>1 DEF Evidence
    <3>2. \A s \in Query(r) : ~Effective(now, Endpoint(now, s))
      BY <1>7, <1>8, EndpointRests
    <3> QED BY <3>1, <3>2 DEF Successors
  <2>2. CASE kind = "recalled"
    <3>1. evidence = Bound(r) /\ Moved(r) = {}
      BY <1>3, <2>2 DEF Evidence, Kind, Disputed
    <3>2. \A s \in evidence \cap Active : Endpoint(now, s) = s /\ s \in Sources
      BY <1>7, <3>1 DEF Moved
    <3> QED BY <1>8, <3>2, EndpointRests
  <2> QED BY <2>1, <2>2
<1>11. Active' = Active /\ links' = links
  BY DEF Recall, Active
<1>12. Answering(call)'
  BY <1>1, <1>5, <1>9, <1>10, <1>11 DEF Answering, Effective, Linked
<1> QED BY <1>6, <1>12 DEF AnswerInv

LEMMA ReopenAnswer ==
  ASSUME Typed, AnswerInv, NEW g \in Processes, Processes = {g}, Reopen(g)
  PROVE  AnswerInv' /\ Given
<1>1. op[g] \in Calls /\ Answering(op[g]) /\ op[g].at = "reopen"
  BY DEF Typed, CallsTyped, AnswerInv, Reopen, At
<1>2. Active' = Active /\ links' = links
  BY DEF Reopen, Active
<1>3. CASE op[g].reopened \subseteq Active
  <2>1. PICK call : call = [op[g] EXCEPT !.at = "deliver"]
    OBVIOUS
  <2>2. /\ call.at = "deliver" /\ call.kind = op[g].kind /\ call.set = op[g].set
        /\ call.time = op[g].time /\ call.seen = op[g].seen
    BY <1>1, <2>1 DEF Calls
  <2>3. op'[g] = call /\ told' = told
    BY <1>3, <2>1 DEF Reopen, Set, Typed, CallsTyped
  <2>4. Answering(call)'
    BY <1>1, <1>2, <1>3, <2>2 DEF Answering, Effective, Linked
  <2> QED BY <2>3, <2>4 DEF AnswerInv, Given
<1>4. CASE ~(op[g].reopened \subseteq Active)
  <2>1. Return(g) /\ told'.kind = "refused"
    BY <1>4 DEF Reopen, Tell
  <2>2. AnswerInv'
    BY <1>2, <2>1, Returning, OtherAnswer
  <2> QED BY <2>1, <2>2 DEF Given, Kinds
<1> QED BY <1>3, <1>4

LEMMA DeliverAnswer ==
  ASSUME Typed, AnswerInv, NEW g \in Processes, Processes = {g}, Deliver(g)
  PROVE  AnswerInv' /\ Given
<1>1. op[g] \in Calls /\ Answering(op[g]) /\ op[g].at = "deliver"
  BY DEF Typed, CallsTyped, AnswerInv, Deliver, At
<1>2. Active' = Active /\ links' = links
  BY DEF Deliver, Active
<1>3. AnswerInv'
  BY <1>2, Returning, OtherAnswer DEF Deliver
<1>4. CASE op[g].seen = Active
  <2>1. told'.kind = op[g].kind /\ told'.sources = op[g].set /\ told'.time = op[g].time
    BY <1>4 DEF Deliver, SameInventory, Tell
  <2>2. op[g].set \subseteq Sources /\ op[g].time \in 0..MaxTime
    BY <1>1 DEF Calls
  <2>3. ASSUME op[g].kind \in Kinds \ {"ambiguous"}
        PROVE  op[g].set \subseteq Active
    BY <1>1, <1>4, <2>3 DEF Answering
  <2>4. ASSUME op[g].kind \in {"resolved", "recalled"}, NEW s \in op[g].set
        PROVE  links[s].newer = None \/ links[s].at > op[g].time
    <3>1. op[g].kind \in Kinds \ {"ambiguous"}
      BY <2>4 DEF Kinds
    <3>2. ~Effective(op[g].time, s)
      BY <1>1, <2>3, <2>4, <3>1 DEF Answering
    <3>3. links[s].at \in 0..MaxTime
      BY <2>2 DEF Typed, DataTyped, LinksTyped
    <3> QED BY <2>2, <3>2, <3>3, ReviewedMemoryAssumption DEF Effective, Linked
  <2> QED BY <1>3, <2>1, <2>3, <2>4 DEF Given
<1>5. CASE op[g].seen # Active
  <2>1. told'.kind = "discarded"
    BY <1>5 DEF Deliver, SameInventory, Tell
  <2> QED BY <1>3, <2>1 DEF Given, Kinds
<1> QED BY <1>4, <1>5

\* With one process, every step keeps what an answer relies on, and what is
\* told is current.
LEMMA AnswerStep ==
  ASSUME Typed, AnswerInv, NEW g, Processes = {g}, [Next]_vars
  PROVE  AnswerInv' /\ Given
<1>1. g \in Processes
  OBVIOUS
<1>2. CASE UNCHANGED vars
  BY <1>1, <1>2, OtherAnswer DEF vars, Active, Given
<1>3. CASE Tick \/ \E s \in Sources : Withdraw(s)
  <2>1. shelf \in [imported : SUBSET Sources, withdrawn : SUBSET Sources]
    BY DEF Typed, DataTyped
  <2>2. Active' \subseteq Active /\ UNCHANGED <<links, op, told>>
    BY <1>3, <2>1 DEF Tick, Withdraw, Active
  <2> QED BY <1>1, <2>2, OtherAnswer DEF Given
<1>4. ASSUME NEW s \in Sources, Import(g, s)
      PROVE  AnswerInv' /\ Given
  BY <1>1, <1>4 DEF Import, Free, At, AnswerInv, Answering, Given
<1>5. ASSUME NEW s \in Sources, BeginLearn(g, s)
      PROVE  AnswerInv' /\ Given
  <2>1. op'[g].at \in {"teach", "retain"}
    BY <1>1, <1>5, IdleTyped, Calling DEF BeginLearn, Begin, Calls
  <2> QED BY <1>1, <1>5, <2>1, OtherAnswer DEF BeginLearn, Begin, Active, Given, NoAnswer
<1>6. ASSUME NEW s \in Sources, NEW olds \in SUBSET Sources, NEW at \in 0..MaxTime,
             BeginResolve(g, s, olds, at)
      PROVE  AnswerInv' /\ Given
  <2>1. op'[g].at = "resolve"
    BY <1>1, <1>6, IdleTyped, Calling DEF BeginResolve, Begin, Calls
  <2> QED BY <1>1, <1>6, <2>1, OtherAnswer DEF BeginResolve, Begin, Active, Given, NoAnswer
<1>7. CASE CommitResolve(g)
  <2>1. op'[g].at = "idle" /\ told' = told
    BY <1>1, <1>7 DEF CommitResolve, Return, Set, Typed, CallsTyped, Idle
  <2> QED BY <2>1 DEF AnswerInv, Answering, Given
<1>8. CASE LearnFails(g) \/ Retire(g) \/ AnswerFails(g) \/ Stop(g)
  <2>1. Return(g) /\ UNCHANGED <<shelf, links, told>>
    BY <1>8 DEF LearnFails, Retire, AnswerFails, Stop
  <2> QED BY <1>1, <2>1, Returning, OtherAnswer DEF Active, Given
<1>9. CASE Teach(g) \/ RetainRow(g)
  <2>1. op[g] \in Calls
    BY <1>1 DEF Typed, CallsTyped
  <2>2. op'[g].at \in {"retain", "retire"}
    BY <1>1, <1>9, <2>1, Calling DEF Teach, RetainRow, Calls
  <2>3. UNCHANGED <<shelf, links, told>>
    BY <1>9 DEF Teach, RetainRow
  <2> QED BY <1>1, <2>2, <2>3, OtherAnswer DEF Active, Given
<1>10. CASE BeginAnswer(g)
  <2>1. PICK call : call = [Idle EXCEPT !.at = "recall", !.seen = Active]
    OBVIOUS
  <2>2. call.at = "recall" /\ call.seen = Active
    BY <2>1, IdleTyped DEF Calls
  <2>3. op'[g] = call /\ told' = NoAnswer /\ Active' = Active
    BY <1>10, <2>1 DEF BeginAnswer, Begin, Set, Typed, CallsTyped, Active
  <2>4. Answering(call)'
    BY <2>2, <2>3 DEF Answering
  <2> QED BY <2>3, <2>4 DEF AnswerInv, Given, NoAnswer
<1>11. CASE Recall(g)
  BY <1>1, <1>11, RecallAnswer DEF Recall, Given
<1>12. CASE Reopen(g) \/ Deliver(g)
  BY <1>1, <1>12, ReopenAnswer, DeliverAnswer
<1> QED
  BY <1>2, <1>3, <1>4, <1>5, <1>6, <1>7, <1>8, <1>9, <1>10, <1>11, <1>12 DEF Next

\* An answer that is not ambiguous rests on documents that are active when it is
\* given, and one that reviewed memory chose on none that is superseded at its
\* time, although both were read earlier in the call (answer,
\* recall_situations), as long as one process uses the project.
THEOREM AnswersAreCurrent ==
  ASSUME NEW g, Processes = {g}
  PROVE  Spec => EvidenceIsCurrent
<1>1. Typed /\ AnswerInv /\ [Next]_vars => (Typed /\ AnswerInv)'
  BY StepTyped, AnswerStep
<1>2. Typed /\ AnswerInv /\ [Next]_vars => [Given]_vars
  BY AnswerStep
<1>3. [Given]_vars => [(told' # told /\ told'.kind \in Kinds \ {"ambiguous"}) =>
       /\ told'.sources \subseteq Active
       /\ told'.kind \in {"resolved", "recalled"} =>
            \A s \in told'.sources : links[s].newer = None \/ links[s].at > told'.time]_vars
  BY DEF Given
<1> QED BY <1>1, <1>2, <1>3, InitTyped, InitAnswer, PTL DEF Spec, EvidenceIsCurrent

-----------------------------------------------------------------------------
(* Source authority *)

\* What CommitResolve relies on: the links were walked with the new ones.
Walked ==
  \A p \in Processes :
    At(p, "resolve") => ~Endless(With(links, op[p].set, op[p].source, op[p].time), op[p].source)

HasStage(call) == "at" \in DOMAIN call

HasStages == DOMAIN op = Processes /\ \A p \in Processes : HasStage(op[p])

LinksInv == HasStages /\ LinksAcyclic /\ Walked

\* A cycle that new links close runs through their successor.
LEMMA CycleThroughNewer ==
  ASSUME NEW map, NEW olds, NEW newer, NEW at,
         ~\E S \in SUBSET Sources :
            S # {} /\ \A s \in S : map[s].newer # None /\ map[s].newer \in S,
         ~Endless(With(map, olds, newer, at), newer)
  PROVE  ~\E S \in SUBSET Sources :
            S # {} /\ \A s \in S : /\ With(map, olds, newer, at)[s].newer # None
                                   /\ With(map, olds, newer, at)[s].newer \in S
<1> DEFINE new == With(map, olds, newer, at)
<1> SUFFICES ASSUME NEW S \in SUBSET Sources, S # {},
                    \A s \in S : new[s].newer # None /\ new[s].newer \in S
             PROVE  FALSE
  OBVIOUS
<1>1. CASE S \cap olds = {}
  <2>1. \A s \in S : new[s] = map[s]
    BY <1>1 DEF With
  <2> QED BY <2>1
<1>2. CASE S \cap olds # {}
  <2>1. PICK s \in S : s \in olds
    BY <1>2
  <2>2. new[s] = [newer |-> newer, at |-> at]
    BY <2>1 DEF With
  <2>3. newer \in S
    BY <2>2
  <2> QED BY <2>3 DEF Endless, Linked
<1> QED BY <1>1, <1>2

LEMMA LinksInit == Init => LinksInv
<1> SUFFICES ASSUME Init PROVE LinksInv
  OBVIOUS
<1>1. HasStages /\ Walked
  BY DEF Init, HasStages, HasStage, Walked, At, Idle
<1>2. \A s \in Sources : links[s].newer = None
  BY DEF Init, NoLink
<1>3. LinksAcyclic
  BY <1>2 DEF LinksAcyclic
<1> QED BY <1>1, <1>3 DEF LinksInv

\* A call that is not a resolution leaves nothing to be committed.
LEMMA OtherCalls ==
  ASSUME LinksInv, NEW p \in Processes, NEW call, HasStage(call), call.at # "resolve",
         Set(p, call), UNCHANGED links
  PROVE  LinksInv'
<1>1. HasStages'
  BY DEF LinksInv, HasStages, Set
<1>2. LinksAcyclic'
  BY DEF LinksInv, LinksAcyclic
<1>3. ASSUME NEW q \in Processes, At(q, "resolve")'
      PROVE  At(q, "resolve") /\ op'[q] = op[q]
  BY <1>3 DEF LinksInv, HasStages, Set, At
<1>4. Walked'
  BY <1>3 DEF LinksInv, Walked, With, Endless, Linked
<1> QED BY <1>1, <1>2, <1>4 DEF LinksInv

LEMMA BeginResolveHolds ==
  ASSUME LinksInv, NEW p \in Processes, NEW newer \in Sources, NEW olds \in SUBSET Sources, NEW at,
         Processes = {p}, BeginResolve(p, newer, olds, at)
  PROVE  LinksInv'
<1> DEFINE pending == {s \in olds : ~Linked(links, s)}
<1>1. op'[p].at = "resolve" /\ op'[p].source = newer /\ op'[p].set = pending /\ op'[p].time = at
  BY DEF LinksInv, HasStages, BeginResolve, Begin, Set, Idle
<1>2. HasStages' /\ UNCHANGED links
  BY DEF LinksInv, HasStages, HasStage, BeginResolve, Begin, Set, Idle
<1>3. ~Endless(With(links, pending, newer, at), newer)
  BY DEF BeginResolve, MayLink
<1>4. Walked'
  BY <1>1, <1>2, <1>3 DEF Walked, With, Endless, Linked
<1> QED BY <1>2, <1>4 DEF LinksInv, LinksAcyclic

LEMMA CommitResolveHolds ==
  ASSUME LinksInv, NEW p \in Processes, Processes = {p}, CommitResolve(p)
  PROVE  LinksInv'
<1>1. op'[p] = Idle /\ HasStages'
  BY DEF LinksInv, HasStages, HasStage, Idle, CommitResolve, Return, Set
<1>2. Walked'
  BY <1>1 DEF Walked, At, Idle
<1>3. ~Endless(With(links, op[p].set, op[p].source, op[p].time), op[p].source)
  BY DEF LinksInv, Walked, CommitResolve
<1>4. LinksAcyclic'
  <2>1. CASE links' = links
    BY <2>1 DEF LinksInv, LinksAcyclic
  <2>2. CASE links' = With(links, op[p].set, op[p].source, op[p].time)
    BY <1>3, <2>2, CycleThroughNewer DEF LinksInv, LinksAcyclic
  <2> QED BY <2>1, <2>2 DEF CommitResolve
<1> QED BY <1>1, <1>2, <1>4 DEF LinksInv

\* With one process, every step keeps the invariant.
LEMMA LinksStep ==
  ASSUME LinksInv, NEW g, Processes = {g}, [Next]_vars
  PROVE  LinksInv'
<1>1. CASE UNCHANGED <<op, links>>
  BY <1>1 DEF LinksInv, HasStages, Walked, At, LinksAcyclic, Endless, With, Linked
<1>2. CASE UNCHANGED vars
  BY <1>1, <1>2 DEF vars
<1>3. CASE Tick
  BY <1>1, <1>3 DEF Tick
<1>4. ASSUME NEW s \in Sources, Withdraw(s)
      PROVE  LinksInv'
  BY <1>1, <1>4 DEF Withdraw
<1>5. ASSUME NEW s \in Sources, Import(g, s)
      PROVE  LinksInv'
  BY <1>1, <1>5 DEF Import
<1>6. ASSUME NEW s \in Sources, BeginLearn(g, s)
      PROVE  LinksInv'
  <2>1. PICK call : Set(g, call) /\ HasStage(call) /\ call.at # "resolve" /\ UNCHANGED links
    BY <1>6 DEF BeginLearn, Begin, Idle, HasStage
  <2> QED BY <2>1, OtherCalls
<1>7. ASSUME NEW s \in Sources, NEW olds \in SUBSET Sources, NEW at \in 0..MaxTime,
             BeginResolve(g, s, olds, at)
      PROVE  LinksInv'
  BY <1>7, BeginResolveHolds
<1>8. CASE CommitResolve(g)
  BY <1>8, CommitResolveHolds
<1>9. CASE LearnFails(g) \/ Retire(g) \/ Deliver(g) \/ AnswerFails(g) \/ Stop(g)
  <2>1. Set(g, Idle) /\ UNCHANGED links
    BY <1>9 DEF LearnFails, Retire, Deliver, AnswerFails, Stop, Return
  <2> QED BY <2>1, OtherCalls DEF Idle, HasStage
<1>10. CASE Teach(g) \/ RetainRow(g) \/ BeginAnswer(g) \/ Recall(g) \/ Reopen(g)
  <2>1. PICK call : Set(g, call) /\ HasStage(call) /\ call.at # "resolve" /\ UNCHANGED links
    <3> HasStage(op[g])
      BY DEF LinksInv, HasStages
    <3>1. CASE Teach(g)
      BY <3>1 DEF Teach, HasStage
    <3>2. CASE RetainRow(g)
      BY <3>2 DEF RetainRow, HasStage
    <3>3. CASE BeginAnswer(g)
      BY <3>3 DEF BeginAnswer, Begin, Idle, HasStage
    <3>4. CASE Recall(g)
      BY <3>4 DEF Recall, HasStage
    <3>5. CASE Reopen(g)
      BY <3>5 DEF Reopen, Return, Idle, HasStage
    <3> QED BY <1>10, <3>1, <3>2, <3>3, <3>4, <3>5
  <2> QED BY <2>1, OtherCalls
<1> QED
  BY <1>2, <1>3, <1>4, <1>5, <1>6, <1>7, <1>8, <1>9, <1>10 DEF Next

\* "source-authority links cannot form a cycle" (gateway/native_memory.py:2543),
\* as long as one gateway process uses the project.
THEOREM AuthorityIsAcyclic ==
  ASSUME NEW g, Processes = {g}
  PROVE  Spec => []LinksAcyclic
<1>1. LinksInv /\ [Next]_vars => LinksInv'
  BY LinksStep
<1>2. LinksInv => LinksAcyclic
  BY DEF LinksInv
<1> QED BY <1>1, <1>2, LinksInit, PTL DEF Spec
=============================================================================

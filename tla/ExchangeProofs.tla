--------------------------- MODULE ExchangeProofs ---------------------------
(***************************************************************************)
(* Proofs about the provider exchanges, for any number of daemon threads,  *)
(* exchanges, conversations and drafts, and for any number of restarts.    *)
(*                                                                         *)
(* The inductive invariant says what a call may rely on at each of its     *)
(* sections (Shape), although other threads ran since it last held a       *)
(* mutex, and what the tables say of each exchange (RowShape).  Two facts  *)
(* hold them together: at most one exchange of the project is active (the  *)
(* partial index), and at most one call flies each exchange (the durable   *)
(* claim).                                                                 *)
(***************************************************************************)
EXTENDS Exchange, TLAPS, FiniteSetTheorems

\* The sections of a call between its claim and the end of its request.
Own == {"bind", "mark", "unsent", "ask", "generate", "capture", "lost"}

Asks(x)    == HasTurn(exchanges[x].packet.session, x, "user")
Answers(x) == HasTurn(exchanges[x].packet.session, x, "assistant")

NoTurn(x) == \A s \in Sessions : \A i \in 1..Len(turns[s]) : turns[s][i].exchange # x

\* The last turn of the conversation is the one x asks.
AsksLast(x) ==
  LET s == exchanges[x].packet.session IN
  /\ turns[s] # <<>>
  /\ turns[s][Len(turns[s])]
       = [exchange |-> x, role |-> "user", ordinal |-> exchanges[x].ordinal]

\* What holds of the exchange of t's call, section by section.
Preparing(t) ==
  LET c == calls[t] IN
  c.at \in {"look", "preview", "insert"} =>
    /\ c.exchange \in Exchanges /\ c.session \in Sessions /\ c.record \in Record
    /\ c.record.status = "prepared" /\ ~c.record.captured

Present(t) ==
  LET c == calls[t] IN
  /\ c.at \in {"read", "claim", "load", "evaluate", "settle"} \cup Own
       => c.exchange \in Exchanges
  /\ c.at \in {"claim", "evaluate", "settle"} \cup Own => exchanges[c.exchange] # None

Guarded(t) ==
  LET c == calls[t] IN
  /\ c.at \in Own \cup {"drop"} => c.guard
  /\ c.at \in {"idle", "look", "preview", "insert", "read", "claim"} => ~c.guard
  /\ c.guard => /\ c.exchange \in Exchanges /\ exchanges[c.exchange] # None
                /\ exchanges[c.exchange].status # "prepared"
                /\ c.exchange \in inflight

Owning(t) ==
  LET c == calls[t]
      x == c.exchange IN
  /\ c.at \in Own => exchanges[x].status = "sending"
  /\ c.at \in {"bind", "mark", "unsent", "ask"} => asked[x] = 0
  /\ c.at = "bind" => NoTurn(x)
  /\ c.at = "bind" => NextOrdinal(exchanges[x].packet.session) = exchanges[x].ordinal
  /\ c.at \in {"mark", "ask", "generate", "capture"} => Asks(x)
  /\ c.at \in {"ask", "generate", "capture"} => BoundTo(exchanges[x].packet) = {x}

Evaluating(t) ==
  LET c == calls[t] IN
  /\ c.at \in {"evaluate", "settle"} => exchanges[c.exchange].captured
  /\ (c.at = "settle" /\ c.ok) => Answers(c.exchange)
  /\ c.ok => c.at \in {"settle", "get", "drop"}

Shape(t) ==
  /\ calls[t].at = "idle" => calls[t] = NoCall
  /\ Preparing(t) /\ Present(t) /\ Guarded(t) /\ Owning(t) /\ Evaluating(t)

CallsShape == \A t \in Threads : Shape(t)

RowShape(x) ==
  LET e == exchanges[x] IN
  /\ asked[x] <= 1
  /\ e = None => asked[x] = 0 /\ NoTurn(x)
  /\ e # None =>
       /\ e.captured <=> e.status \in {"evaluation_pending", "completed"}
       /\ e.status \in {"prepared", "not_sent"} => asked[x] = 0
       /\ e.status = "prepared" => NoTurn(x)
       /\ e.captured => Asks(x)
       /\ (e.captured /\ ~Answers(x)) => e.status = "evaluation_pending"
       /\ (e.status \in Active /\ Asks(x) /\ ~Answers(x)) => AsksLast(x)

RowsShape == \A x \in Exchanges : RowShape(x)

\* The partial unique index provider_one_inflight.
OneActive ==
  \A x \in Exchanges : \A y \in Exchanges :
    (x # y /\ exchanges[x] # None /\ exchanges[y] # None)
      => ~(exchanges[x].status \in Active /\ exchanges[y].status \in Active)

OneGuard ==
  \A t \in Threads : \A u \in Threads :
    (t # u /\ calls[t].guard /\ calls[u].guard) => calls[t].exchange # calls[u].exchange

Typed ==
  /\ now       \in Moments
  /\ exchanges \in [Exchanges -> Record \cup {None}]
  /\ turns     \in [Sessions -> Seq(Turn)]
  /\ sent      \in SUBSET [packet : Packet, exchange : Exchanges]
  /\ inflight  \subseteq Exchanges
  /\ locks     \in [Locks -> Threads \cup {None}]
  /\ calls     \in [Threads -> Call]
  /\ asked     \in [Exchanges -> Nat]
  /\ crashes   \in 0..MaxCrashes

Prefixes(o) == {{o[i] : i \in 1..n} : n \in 0..Len(o)}

HeldShape == \A t \in Threads : Held(t) \in Prefixes(Order(t))

DInv == CallsShape /\ RowsShape /\ OneActive /\ OneGuard /\ TurnsInOrder

IInv == Typed /\ HeldShape /\ DInv

-----------------------------------------------------------------------------
(* Mutexes *)

LEMMA SectionNames ==
  DOMAIN Sections = {"idle", "look", "preview", "insert", "read", "claim", "bind",
                     "mark", "unsent", "ask", "generate", "capture", "lost", "load",
                     "evaluate", "settle", "get", "drop"}
BY DEF Sections

LEMMA SomeSections ==
  /\ Sections["idle"] = <<>>
  /\ Sections["bind"] = <<"project", "store">>
  /\ Sections["mark"] = <<"project", "store">>
BY DEF Sections

\* A section takes no mutex, one, or one after another.
LEMMA SectionShape ==
  ASSUME NEW at \in DOMAIN Sections
  PROVE  \/ Sections[at] = <<>>
         \/ \E l \in Locks : Sections[at] = <<l>>
         \/ \E a \in Locks : \E b \in Locks : a # b /\ Sections[at] = <<a, b>>
BY SectionNames DEF Sections, GetOrder, Locks

LEMMA PrefixesNone == Prefixes(<<>>) = {{}}
<1>1. ASSUME NEW n \in 0..Len(<<>>) PROVE {<<>>[i] : i \in 1..n} = {}
  BY <1>1
<1>2. 0 \in 0..Len(<<>>)
  OBVIOUS
<1> QED BY <1>1, <1>2 DEF Prefixes

LEMMA PrefixesOne == ASSUME NEW l PROVE Prefixes(<<l>>) = {{}, {l}}
<1> DEFINE F(n) == {<<l>>[i] : i \in 1..n}
<1>1. 0..Len(<<l>>) = {0, 1}
  OBVIOUS
<1>2. F(0) = {}
  OBVIOUS
<1>3. F(1) = {l}
  <2>1. 1..1 = {1} /\ <<l>>[1] = l
    OBVIOUS
  <2> QED BY <2>1
<1>4. Prefixes(<<l>>) = {F(n) : n \in {0, 1}}
  BY <1>1 DEF Prefixes
<1> HIDE DEF F
<1> QED BY <1>2, <1>3, <1>4

LEMMA PrefixesTwo == ASSUME NEW a, NEW b PROVE Prefixes(<<a, b>>) = {{}, {a}, {a, b}}
<1> DEFINE F(n) == {<<a, b>>[i] : i \in 1..n}
<1>1. 0..Len(<<a, b>>) = {0, 1, 2}
  OBVIOUS
<1>2. F(0) = {}
  OBVIOUS
<1>3. F(1) = {a}
  <2>1. 1..1 = {1} /\ <<a, b>>[1] = a
    OBVIOUS
  <2> QED BY <2>1
<1>4. F(2) = {a, b}
  <2>1. 1..2 = {1, 2} /\ <<a, b>>[1] = a /\ <<a, b>>[2] = b
    OBVIOUS
  <2> QED BY <2>1
<1>5. Prefixes(<<a, b>>) = {F(n) : n \in {0, 1, 2}}
  BY <1>1 DEF Prefixes
<1> HIDE DEF F
<1> QED BY <1>2, <1>3, <1>4, <1>5

LEMMA EmptyIsPrefix == ASSUME NEW at \in DOMAIN Sections PROVE {} \in Prefixes(Sections[at])
BY SectionShape, PrefixesNone, PrefixesOne, PrefixesTwo

LEMMA ReleaseHeld ==
  ASSUME NEW t \in Threads, Release(t)
  PROVE  Held(t)' = {} /\ \A u \in Threads : u # t => Held(u)' = Held(u)
BY ExchangeAssumption DEF Release, Held

\* A thread that gives its mutexes back may be anywhere next.
LEMMA ReleasedShape ==
  ASSUME HeldShape, NEW t \in Threads, Release(t), calls'[t].at \in DOMAIN Sections,
         \A u \in Threads : u # t => calls'[u] = calls[u]
  PROVE  HeldShape'
<1> SUFFICES ASSUME NEW u \in Threads PROVE Held(u)' \in Prefixes(Order(u)')
  BY DEF HeldShape
<1>1. CASE u = t
  <2>1. Held(u)' = {}
    BY <1>1, ReleaseHeld
  <2>2. Order(u)' = Sections[calls'[t].at]
    BY <1>1 DEF Order
  <2> QED BY <2>1, <2>2, EmptyIsPrefix
<1>2. CASE u # t
  <2>1. Held(u)' = Held(u)
    BY <1>2, ReleaseHeld
  <2>2. Order(u)' = Order(u)
    BY <1>2 DEF Order
  <2> QED BY <2>1, <2>2 DEF HeldShape
<1> QED BY <1>1, <1>2

\* A call that starts had no mutex, and has none yet.
LEMMA StartedShape ==
  ASSUME HeldShape, NEW t \in Threads, calls[t] = NoCall, UNCHANGED locks,
         calls'[t].at \in DOMAIN Sections,
         \A u \in Threads : u # t => calls'[u] = calls[u]
  PROVE  HeldShape'
<1> SUFFICES ASSUME NEW u \in Threads PROVE Held(u)' \in Prefixes(Order(u)')
  BY DEF HeldShape
<1>1. Held(u)' = Held(u)
  BY DEF Held
<1>2. CASE u = t
  <2>1. Order(t) = <<>>
    BY SomeSections DEF Order, NoCall
  <2>2. Held(u) = {}
    BY <1>2, <2>1, PrefixesNone DEF HeldShape
  <2>3. Order(u)' = Sections[calls'[t].at]
    BY <1>2 DEF Order
  <2> QED BY <1>1, <2>2, <2>3, EmptyIsPrefix
<1>3. CASE u # t
  <2>1. Order(u)' = Order(u)
    BY <1>3 DEF Order
  <2> QED BY <1>1, <2>1 DEF HeldShape
<1> QED BY <1>2, <1>3

\* A waiting thread takes the first of two mutexes.
LEMMA AcquiredShape ==
  ASSUME Typed, HeldShape, NEW t \in Threads, Acquire(t)
  PROVE  HeldShape'
<1>0. calls[t].at \in DOMAIN Sections
  BY DEF Typed, Call
<1>1. PICK a \in Locks, b \in Locks : a # b /\ Order(t) = <<a, b>> /\ Held(t) = {}
  <2>1. Held(t) \in Prefixes(Order(t))
    BY DEF HeldShape
  <2>2. CASE Order(t) = <<>>
    <3>1. Held(t) = {}
      BY <2>1, <2>2, PrefixesNone
    <3>2. Cardinality(Held(t)) = 0
      BY <3>1, FS_EmptySet
    <3> QED BY <2>2, <3>2 DEF Acquire
  <2>3. ASSUME NEW l \in Locks, Order(t) = <<l>> PROVE FALSE
    <3>1. Held(t) \in {{}, {l}}
      BY <2>1, <2>3, PrefixesOne
    <3>2. Cardinality(Held(t)) \in {0, 1}
      BY <3>1, FS_EmptySet, FS_Singleton
    <3> QED BY <2>3, <3>2 DEF Acquire
  <2>4. ASSUME NEW a \in Locks, NEW b \in Locks, a # b, Order(t) = <<a, b>>
        PROVE  Held(t) = {}
    <3>1. Held(t) \in {{}, {a}, {a, b}}
      BY <2>1, <2>4, PrefixesTwo
    <3>2. Cardinality({a}) = 1
      BY FS_Singleton
    <3>3. Cardinality({a, b}) = 2
      <4>1. IsFiniteSet({a}) /\ {a, b} = {a} \cup {b} /\ b \notin {a}
        BY <2>4, FS_Singleton
      <4>2. Cardinality({a} \cup {b}) = Cardinality({a}) + 1
        <5> DEFINE A == {a}
        <5>1. IsFiniteSet(A) /\ b \notin A
          BY <4>1
        <5> HIDE DEF A
        <5>2. Cardinality(A \cup {b}) = Cardinality(A) + 1
          BY <5>1, FS_AddElement
        <5> QED BY <5>2 DEF A
      <4> QED BY <3>2, <4>1, <4>2
    <3> QED BY <2>4, <3>1, <3>2, <3>3 DEF Acquire
  <2> QED BY <1>0, <2>2, <2>3, <2>4, SectionShape DEF Order
<1>2. locks[a] = None /\ locks' = [locks EXCEPT ![a] = t]
  <2>1. Cardinality(Held(t)) = 0
    BY <1>1, FS_EmptySet
  <2>2. Order(t)[Cardinality(Held(t)) + 1] = a
    BY <1>1, <2>1
  <2> QED BY <2>2 DEF Acquire
<1> SUFFICES ASSUME NEW u \in Threads PROVE Held(u)' \in Prefixes(Order(u)')
  BY DEF HeldShape
<1>3. Order(u)' = Order(u)
  BY DEF Order, Acquire
<1>4. CASE u = t
  <2>1. \A l \in Locks : locks'[l] = t <=> l = a
    BY <1>1, <1>2 DEF Held, Typed
  <2>2. Held(u)' = {a}
    BY <1>4, <2>1 DEF Held
  <2> QED BY <1>1, <1>3, <1>4, <2>2, PrefixesTwo
<1>5. CASE u # t
  <2>1. Held(u)' = Held(u)
    BY <1>1, <1>2, <1>5, ExchangeAssumption DEF Held, Typed
  <2> QED BY <1>3, <2>1 DEF HeldShape
<1> QED BY <1>4, <1>5

\* Between the two INSERTs of send_turn a thread keeps both mutexes.
LEMMA BoundShape ==
  ASSUME Typed, HeldShape, NEW t \in Threads, Bind(t)
  PROVE  HeldShape'
<1>1. calls[t].at = "bind" /\ calls' = [calls EXCEPT ![t].at = "mark"]
      /\ locks' = [locks EXCEPT !["store"] = t]
  BY Zenon DEF Bind, Ready
<1>2. Order(t) = <<"project", "store">>
  BY <1>1, SomeSections DEF Order
<1>3. Order(t)' = <<"project", "store">>
  <2>1. calls'[t].at = "mark"
    BY <1>1 DEF Typed, Call
  <2> QED BY <2>1, SomeSections DEF Order
<1>7. locks["store"] \in {None, t} /\ Cardinality(Held(t)) >= 1
  <2>1. Len(Order(t)) = 2 /\ Order(t)[Len(Order(t))] = "store" /\ Order(t) # <<>>
    <3> DEFINE o == <<"project", "store">>
    <3>1. Len(o) = 2 /\ o[2] = "store" /\ o # <<>>
      OBVIOUS
    <3> QED BY <1>2, <3>1, Zenon
  <2>2. Ready(t, "bind")
    BY Zenon DEF Bind
  <2>3. /\ Cardinality(Held(t)) >= Len(Order(t)) - 1
        /\ locks[Order(t)[Len(Order(t))]] \in {None, t}
    BY <2>1, <2>2 DEF Ready
  <2>4. Cardinality(Held(t)) >= 1
    BY <2>1, <2>3
  <2>5. locks["store"] \in {None, t}
    BY <2>1, <2>3
  <2> QED BY <2>4, <2>5
<1>4. Held(t) \in {{"project"}, {"project", "store"}}
  <2>1. Held(t) \in {{}, {"project"}, {"project", "store"}}
    BY <1>2, PrefixesTwo DEF HeldShape
  <2> QED BY <1>7, <2>1, FS_EmptySet
<1> SUFFICES ASSUME NEW u \in Threads PROVE Held(u)' \in Prefixes(Order(u)')
  BY DEF HeldShape
<1>5. CASE u = t
  <2>1. Held(u)' = {"project", "store"}
    BY <1>1, <1>4, <1>5 DEF Held, Typed, Locks
  <2> QED BY <1>3, <1>5, <2>1, PrefixesTwo
<1>6. CASE u # t
  <2>1. "store" \in Locks /\ locks["store"] # u /\ t # u
    BY <1>6, <1>7, ExchangeAssumption DEF Locks
  <2>2. \A l \in Locks : locks'[l] = u <=> locks[l] = u
    BY <1>1, <2>1 DEF Typed
  <2>3. Held(u)' = Held(u)
    BY <2>2 DEF Held
  <2>4. Order(u)' = Order(u)
    BY <1>1, <1>6 DEF Order, Typed
  <2> QED BY <2>3, <2>4 DEF HeldShape
<1> QED BY <1>5, <1>6, Zenon

-----------------------------------------------------------------------------
(* What a step of one thread does to the calls *)

Moves(t) ==
  /\ calls' \in [Threads -> Call]
  /\ \A u \in Threads : u # t => calls'[u] = calls[u]

LEMMA NoCallTyped == NoCall \in Call
<1>1. "idle" \in DOMAIN Sections
  BY SectionNames
<1> QED BY <1>1 DEF NoCall, Call

\* A call's section is all that a Goto changes.
LEMMA GotoCall ==
  ASSUME calls \in [Threads -> Call], NEW t \in Threads, NEW at \in DOMAIN Sections,
         calls' = [calls EXCEPT ![t].at = at]
  PROVE  /\ Moves(t)
         /\ calls'[t].at = at /\ calls'[t].exchange = calls[t].exchange
         /\ calls'[t].session = calls[t].session /\ calls'[t].record = calls[t].record
         /\ calls'[t].guard = calls[t].guard /\ calls'[t].ok = calls[t].ok
<1> DEFINE c == calls[t]
           d == [c EXCEPT !.at = at]
<1>1. c \in Call
  OBVIOUS
<1>2. d \in Call
  BY <1>1, Zenon DEF Call
<1>3. /\ d.at = at /\ d.exchange = c.exchange /\ d.session = c.session
      /\ d.record = c.record /\ d.guard = c.guard /\ d.ok = c.ok
  BY <1>1 DEF Call
<1>4. calls' = [calls EXCEPT ![t] = d]
  OBVIOUS
<1> HIDE DEF d
<1>5. calls'[t] = d
  BY <1>4
<1>6. Moves(t)
  BY <1>2, <1>4 DEF Moves
<1> QED BY <1>3, <1>5, <1>6, Zenon

\* A call that ends drops its guard first.
LEMMA ReturnCall ==
  ASSUME calls \in [Threads -> Call], NEW t \in Threads, Return(t)
  PROVE  /\ Moves(t)
         /\ calls[t].guard => /\ calls'[t].at = "drop" /\ calls'[t].guard
                              /\ calls'[t].exchange = calls[t].exchange
         /\ ~calls[t].guard => calls'[t] = NoCall
<1> DEFINE c == calls[t]
           d == [c EXCEPT !.at = "drop"]
           n == IF c.guard THEN d ELSE NoCall
<1>1. c \in Call
  OBVIOUS
<1>2. d \in Call
  <2>1. "drop" \in DOMAIN Sections
    BY SectionNames
  <2> QED BY <1>1, <2>1, Zenon DEF Call
<1>3. d.at = "drop" /\ d.exchange = c.exchange /\ d.guard = c.guard
  BY <1>1 DEF Call
<1>4. calls' = [calls EXCEPT ![t] = n]
  BY Zenon DEF Return
<1>5. n \in Call
  BY <1>2, NoCallTyped
<1>6. c.guard => n = d
  OBVIOUS
<1>7. ~c.guard => n = NoCall
  OBVIOUS
<1> HIDE DEF d, n
<1>8. calls'[t] = n
  BY <1>4
<1>9. Moves(t)
  BY <1>4, <1>5 DEF Moves
<1> QED BY <1>3, <1>6, <1>7, <1>8, <1>9, Zenon

-----------------------------------------------------------------------------
(* What a step of one thread leaves to the others *)

RowKept(x) ==
  exchanges[x] # None =>
    /\ exchanges'[x] # None
    /\ exchanges'[x].packet = exchanges[x].packet
    /\ exchanges'[x].ordinal = exchanges[x].ordinal
    /\ exchanges[x].captured => exchanges'[x].captured
    /\ exchanges[x].status # "prepared" => exchanges'[x].status # "prepared"
    /\ exchanges[x].status \in {"unknown", "not_sent"}
         => exchanges'[x].status = exchanges[x].status
    /\ exchanges'[x].status = "sending" => exchanges[x].status \in {"prepared", "sending"}

RowsKept == \A x \in Exchanges : RowKept(x)

TurnsKept ==
  \A s \in Sessions : \A x \in Exchanges : \A role \in {"user", "assistant"} :
    HasTurn(s, x, role) => HasTurn(s, x, role)'

OthersKept(t) ==
  \A u \in Threads : (u # t /\ calls[u].at \in Own) =>
    LET x == calls[u].exchange IN
    /\ exchanges'[x] = exchanges[x] /\ asked'[x] = asked[x]
    /\ turns' = turns /\ sent' = sent

FlightKept(t) ==
  \A u \in Threads : (u # t /\ calls[u].guard) => calls[u].exchange \in inflight'

Keeps(t) == Moves(t) /\ RowsKept /\ TurnsKept /\ OthersKept(t) /\ FlightKept(t)

LEMMA RowTyped ==
  ASSUME Typed, NEW x \in Exchanges, exchanges[x] # None
  PROVE  /\ exchanges[x] \in Record
         /\ exchanges[x].packet.session \in Sessions /\ exchanges[x].ordinal \in Nat
BY DEF Typed, Record, Packet

LEMMA AnswersKept ==
  ASSUME Typed, NEW x \in Exchanges, exchanges[x] # None, RowKept(x), TurnsKept, Answers(x)
  PROVE  Answers(x)'
<1> DEFINE s == exchanges[x].packet.session
<1>1. s \in Sessions
  BY RowTyped
<1>2. HasTurn(s, x, "assistant")
  BY DEF Answers
<1>3. ASSUME NEW q, q = s PROVE HasTurn(q, x, "assistant")' => Answers(x)'
  BY <1>3 DEF Answers, HasTurn, RowKept
<1>4. ASSUME NEW q, q = s PROVE HasTurn(q, x, "assistant")'
  BY <1>1, <1>2, <1>4 DEF TurnsKept
<1> QED BY <1>3, <1>4

\* The other calls may go on relying on what they relied on.
LEMMA OtherShape ==
  ASSUME Typed, NEW t \in Threads, Keeps(t), NEW u \in Threads, u # t, Shape(u)
  PROVE  Shape(u)'
<1> DEFINE c == calls[u]
           x == c.exchange
<1>1. calls'[u] = calls[u]
  BY DEF Keeps, Moves
<1>2. c.at = "idle" => calls'[u] = NoCall
  BY <1>1 DEF Shape
<1>3. Preparing(u)'
  BY <1>1 DEF Shape, Preparing
<1>4. Present(u)'
  <2>1. c.at \in {"claim", "evaluate", "settle"} \cup Own
          => x \in Exchanges /\ exchanges[x] # None
    BY DEF Shape, Present
  <2>2. c.at \in {"claim", "evaluate", "settle"} \cup Own => exchanges'[x] # None
    BY <2>1 DEF Keeps, RowsKept, RowKept
  <2> QED BY <1>1, <2>2 DEF Shape, Present
<1>5. Guarded(u)'
  <2>1. c.guard => x \in Exchanges /\ exchanges[x] # None /\ exchanges[x].status # "prepared"
    BY DEF Shape, Guarded
  <2>2. c.guard => exchanges'[x] # None /\ exchanges'[x].status # "prepared"
    BY <2>1 DEF Keeps, RowsKept, RowKept
  <2>3. c.guard => x \in inflight'
    BY DEF Keeps, FlightKept
  <2> QED BY <1>1, <2>1, <2>2, <2>3 DEF Shape, Guarded
<1>6. Owning(u)'
  <2>1. CASE c.at \in Own
    <3>1. /\ exchanges'[x] = exchanges[x] /\ asked'[x] = asked[x]
          /\ turns' = turns /\ sent' = sent
      BY <2>1 DEF Keeps, OthersKept
    <3>2. Owning(u)
      BY DEF Shape
    <3>3. NoTurn(calls[u].exchange)' = NoTurn(calls[u].exchange)
      BY <1>1, <3>1, Zenon DEF NoTurn
    <3>4. NextOrdinal(exchanges[calls[u].exchange].packet.session)'
            = NextOrdinal(exchanges[calls[u].exchange].packet.session)
      BY <1>1, <3>1, Zenon DEF NextOrdinal
    <3>5. Asks(calls[u].exchange)' = Asks(calls[u].exchange)
      BY <1>1, <3>1, Zenon DEF Asks, HasTurn
    <3>6. BoundTo(exchanges[calls[u].exchange].packet)'
            = BoundTo(exchanges[calls[u].exchange].packet)
      BY <1>1, <3>1, Zenon DEF BoundTo
    <3> QED BY <1>1, <3>1, <3>2, <3>3, <3>4, <3>5, <3>6, Zenon DEF Owning
  <2>2. CASE c.at \notin Own
    BY <1>1, <2>2 DEF Owning, Own
  <2> QED BY <2>1, <2>2, Zenon
<1>7. Evaluating(u)'
  <2>1. c.at \in {"evaluate", "settle"}
          => x \in Exchanges /\ exchanges[x] # None /\ exchanges[x].captured
    BY DEF Shape, Present, Evaluating
  <2>2. c.at \in {"evaluate", "settle"} => exchanges'[x].captured
    BY <2>1 DEF Keeps, RowsKept, RowKept
  <2>3. ASSUME c.at = "settle", c.ok PROVE Answers(calls[u].exchange)'
    <3>1. x \in Exchanges /\ exchanges[x] # None /\ Answers(x)
      BY <2>3 DEF Shape, Present, Evaluating
    <3>2. RowKept(x) /\ TurnsKept
      BY <3>1 DEF Keeps, RowsKept
    <3>3. ASSUME NEW y, y = x PROVE Answers(y)'
      BY <3>1, <3>2, <3>3, AnswersKept
    <3>4. ASSUME NEW y, y = x PROVE Answers(y)' = Answers(calls[u].exchange)'
      BY <1>1, <3>4 DEF Answers, HasTurn
    <3> QED BY <3>3, <3>4
  <2>4. c.ok => c.at \in {"settle", "get", "drop"}
    BY DEF Shape, Evaluating
  <2> QED BY <1>1, <2>2, <2>3, <2>4 DEF Evaluating
<1> QED BY <1>1, <1>2, <1>3, <1>4, <1>5, <1>6, <1>7 DEF Shape

LEMMA CallsShapeKept ==
  ASSUME Typed, CallsShape, NEW t \in Threads, Keeps(t), Shape(t)'
  PROVE  CallsShape'
BY OtherShape DEF CallsShape

\* No call gets a guard but by its claim.
LEMMA OneGuardKept ==
  ASSUME OneGuard, NEW t \in Threads, Moves(t),
         calls'[t].guard => calls[t].guard /\ calls'[t].exchange = calls[t].exchange
  PROVE  OneGuard'
BY DEF OneGuard, Moves

LEMMA SameTurns ==
  ASSUME NEW x, turns' = turns, exchanges'[x].packet = exchanges[x].packet,
         exchanges'[x].ordinal = exchanges[x].ordinal
  PROVE  /\ Asks(x)' = Asks(x) /\ Answers(x)' = Answers(x)
         /\ NoTurn(x)' = NoTurn(x) /\ AsksLast(x)' = AsksLast(x)
<1>1. Asks(x)' = Asks(x)
  BY Zenon DEF Asks, HasTurn
<1>2. Answers(x)' = Answers(x)
  BY Zenon DEF Answers, HasTurn
<1>3. NoTurn(x)' = NoTurn(x)
  BY Zenon DEF NoTurn
<1>4. AsksLast(x)' = AsksLast(x)
  BY Zenon DEF AsksLast
<1> QED BY <1>1, <1>2, <1>3, <1>4, Zenon

LEMMA RowSame ==
  ASSUME NEW x \in Exchanges, RowShape(x), turns' = turns,
         exchanges'[x] = exchanges[x], asked'[x] = asked[x]
  PROVE  RowShape(x)'
<1>1. /\ Asks(x)' = Asks(x) /\ Answers(x)' = Answers(x)
      /\ NoTurn(x)' = NoTurn(x) /\ AsksLast(x)' = AsksLast(x)
  BY SameTurns
<1> QED BY <1>1, Zenon DEF RowShape

-----------------------------------------------------------------------------
(* Steps that leave the tables and the flying exchanges alone *)

Quiet == UNCHANGED <<exchanges, turns, sent, inflight, asked>>

LEMMA QuietKeeps ==
  ASSUME CallsShape, NEW t \in Threads, Moves(t), Quiet
  PROVE  Keeps(t)
<1>1. RowsKept
  BY DEF RowsKept, RowKept, Quiet
<1>2. TurnsKept
  BY DEF TurnsKept, HasTurn, Quiet
<1>3. OthersKept(t)
  BY DEF OthersKept, Quiet
<1>4. FlightKept(t)
  BY DEF FlightKept, Quiet, CallsShape, Shape, Guarded
<1> QED BY <1>1, <1>2, <1>3, <1>4 DEF Keeps

LEMMA QuietTables ==
  ASSUME Quiet
  PROVE  /\ RowsShape => RowsShape'
         /\ OneActive => OneActive'
         /\ TurnsInOrder => TurnsInOrder'
<1>1. RowsShape => RowsShape'
  BY RowSame DEF Quiet, RowsShape
<1>2. OneActive => OneActive'
  BY DEF Quiet, OneActive
<1>3. TurnsInOrder => TurnsInOrder'
  BY DEF Quiet, TurnsInOrder
<1> QED BY <1>1, <1>2, <1>3, Zenon

LEMMA SameShape ==
  ASSUME NEW t \in Threads, Quiet, calls' = calls, Shape(t)
  PROVE  Shape(t)'
<1>1. /\ exchanges' = exchanges /\ turns' = turns
      /\ sent' = sent /\ inflight' = inflight /\ asked' = asked
  BY DEF Quiet
<1>2. Preparing(t)' = Preparing(t)
  BY <1>1, Zenon DEF Preparing
<1>3. Present(t)' = Present(t)
  BY <1>1, Zenon DEF Present
<1>4. Guarded(t)' = Guarded(t)
  BY <1>1, Zenon DEF Guarded
<1>5. Owning(t)' = Owning(t)
  <2>1. NoTurn(calls[t].exchange)' = NoTurn(calls[t].exchange)
    BY <1>1, Zenon DEF NoTurn
  <2>2. NextOrdinal(exchanges[calls[t].exchange].packet.session)'
          = NextOrdinal(exchanges[calls[t].exchange].packet.session)
    BY <1>1, Zenon DEF NextOrdinal
  <2>3. Asks(calls[t].exchange)' = Asks(calls[t].exchange)
    BY <1>1, Zenon DEF Asks, HasTurn
  <2>4. BoundTo(exchanges[calls[t].exchange].packet)'
          = BoundTo(exchanges[calls[t].exchange].packet)
    BY <1>1, Zenon DEF BoundTo
  <2> QED BY <1>1, <2>1, <2>2, <2>3, <2>4, Zenon DEF Owning
<1>6. Evaluating(t)' = Evaluating(t)
  <2>1. Answers(calls[t].exchange)' = Answers(calls[t].exchange)
    BY <1>1, Zenon DEF Answers, HasTurn
  <2> QED BY <1>1, <2>1, Zenon DEF Evaluating
<1> QED BY <1>1, <1>2, <1>3, <1>4, <1>5, <1>6, Zenon DEF Shape

LEMMA QuietStep ==
  ASSUME Typed, DInv, NEW t \in Threads, Moves(t), Quiet, Shape(t)',
         calls'[t].guard => calls[t].guard /\ calls'[t].exchange = calls[t].exchange
  PROVE  DInv' /\ RowsKept
<1>1. Keeps(t)
  BY QuietKeeps DEF DInv
<1>2. CallsShape'
  BY <1>1, CallsShapeKept DEF DInv
<1>3. OneGuard'
  BY OneGuardKept DEF DInv
<1>4. RowsShape' /\ OneActive' /\ TurnsInOrder'
  BY QuietTables DEF DInv
<1> QED BY <1>1, <1>2, <1>3, <1>4 DEF DInv, Keeps

\* A call that returns keeps its guard until it drops it.
LEMMA ReturnShape ==
  ASSUME Typed, NEW t \in Threads, Shape(t), Return(t), RowsKept, UNCHANGED inflight
  PROVE  Moves(t) /\ Shape(t)'
         /\ (calls'[t].guard => calls[t].guard /\ calls'[t].exchange = calls[t].exchange)
<1>1. /\ Moves(t)
      /\ calls[t].guard => /\ calls'[t].at = "drop" /\ calls'[t].guard
                           /\ calls'[t].exchange = calls[t].exchange
      /\ ~calls[t].guard => calls'[t] = NoCall
  BY ReturnCall DEF Typed
<1>2. CASE calls[t].guard
  <2> DEFINE x == calls[t].exchange
  <2>1. x \in Exchanges /\ exchanges[x] # None /\ exchanges[x].status # "prepared"
        /\ x \in inflight
    BY <1>2 DEF Shape, Guarded
  <2>2. exchanges'[x] # None /\ exchanges'[x].status # "prepared" /\ x \in inflight'
    BY <2>1 DEF RowsKept, RowKept
  <2>3. Shape(t)'
    BY <1>1, <1>2, <2>1, <2>2
       DEF Shape, Preparing, Present, Guarded, Owning, Evaluating, Own
  <2> QED BY <1>1, <1>2, <2>3
<1>3. CASE ~calls[t].guard
  <2>1. calls'[t].at = "idle" /\ ~calls'[t].guard /\ ~calls'[t].ok /\ calls'[t] = NoCall
    BY <1>1, <1>3 DEF NoCall
  <2>2. Shape(t)'
    BY <2>1 DEF Shape, Preparing, Present, Guarded, Owning, Evaluating, Own
  <2> QED BY <1>1, <2>1, <2>2
<1> QED BY <1>2, <1>3

LEMMA ReleaseTyped ==
  ASSUME Typed, NEW t \in Threads, Release(t)
  PROVE  locks' \in [Locks -> Threads \cup {None}]
BY DEF Release, Typed

\* The conclusion of every step.
Good == Typed' /\ HeldShape' /\ DInv' /\ RowsKept

LEMMA HeldAfter ==
  ASSUME HeldShape, NEW t \in Threads, Moves(t), Release(t)
  PROVE  HeldShape'
BY ReleasedShape DEF Moves, Call

LEMMA Assemble ==
  ASSUME IInv, NEW t \in Threads, Keeps(t), Shape(t)', RowsShape', OneActive', OneGuard',
         TurnsInOrder', Typed', HeldShape'
  PROVE  Good
<1>1. CallsShape'
  BY CallsShapeKept DEF IInv, DInv
<1> QED BY <1>1 DEF Good, DInv, Keeps

\* A section that only looks, and leaves its call somewhere else.
LEMMA LookedGood ==
  ASSUME IInv, NEW t \in Threads, Moves(t), Quiet, Release(t), Shape(t)',
         UNCHANGED <<now, crashes>>,
         calls'[t].guard => calls[t].guard /\ calls'[t].exchange = calls[t].exchange
  PROVE  Good
<1>1. Typed'
  BY ReleaseTyped DEF IInv, Typed, Moves, Quiet
<1>2. HeldShape'
  BY HeldAfter DEF IInv
<1>3. DInv' /\ RowsKept
  BY QuietStep DEF IInv
<1> QED BY <1>1, <1>2, <1>3 DEF Good

LEMMA ReturnedGood ==
  ASSUME IInv, NEW t \in Threads, Return(t), Quiet, UNCHANGED <<now, crashes>>
  PROVE  Good
<1>1. RowsKept
  BY DEF RowsKept, RowKept, Quiet
<1>2. Shape(t)
  BY DEF IInv, DInv, CallsShape
<1>3. Moves(t) /\ Shape(t)'
      /\ (calls'[t].guard => calls[t].guard /\ calls'[t].exchange = calls[t].exchange)
  BY <1>1, <1>2, ReturnShape DEF IInv, Quiet
<1>4. Release(t)
  BY DEF Return
<1> QED BY <1>3, <1>4, LookedGood

\* A call starts without a guard, at a section that relies on nothing yet.
LEMMA StartGood ==
  ASSUME IInv, NEW t \in Threads, NEW c \in Call, Start(t, c),
         ~c.guard, ~c.ok, c.at \in {"look", "read", "load", "get"},
         c.at \in {"read", "load"} => c.exchange \in Exchanges,
         c.at = "look" => /\ c.exchange \in Exchanges /\ c.session \in Sessions
                          /\ c.record \in Record
                          /\ c.record.status = "prepared" /\ ~c.record.captured
  PROVE  Good
<1>1. /\ calls[t] = NoCall /\ calls' = [calls EXCEPT ![t] = c]
      /\ UNCHANGED <<now, tables, inflight, locks, asked, crashes>>
  BY DEF Start
<1>2. Moves(t) /\ calls'[t] = c
  BY <1>1 DEF IInv, Typed, Moves
<1>3. Quiet
  BY <1>1 DEF Quiet, tables
<1>4. Typed'
  BY <1>1, <1>2 DEF IInv, Typed, Moves, tables
<1>5. Shape(t)'
  BY <1>2 DEF Shape, Preparing, Present, Guarded, Owning, Evaluating, Own
<1>6. HeldShape'
  <2>1. calls'[t].at \in DOMAIN Sections
    BY <1>2 DEF Call
  <2>2. \A u \in Threads : u # t => calls'[u] = calls[u]
    BY <1>2 DEF Moves
  <2> QED BY <1>1, <2>1, <2>2, StartedShape DEF IInv
<1>7. DInv' /\ RowsKept
  BY <1>2, <1>3, <1>5, QuietStep DEF IInv
<1> QED BY <1>4, <1>6, <1>7 DEF Good

LEMMA RequestGood == ASSUME IInv, NEW t \in Threads, Request(t) PROVE Good
<1>0. /\ {"look", "read", "load", "get"} \subseteq DOMAIN Sections
      /\ NoCall \in Call
  BY SectionNames, NoCallTyped
<1>1. ASSUME NEW x \in Exchanges, NEW s \in Sessions, NEW d \in Drafts, Prepare(t, x, s, d)
      PROVE  Good
  <2> DEFINE p == [session |-> s, draft |-> d, at |-> [state |-> 0, head |-> 0]]
             r == [status |-> "prepared", ordinal |-> 1, captured |-> FALSE, packet |-> p]
             c == [NoCall EXCEPT !.at = "look", !.exchange = x, !.session = s, !.record = r]
  <2>1. p \in Packet
    BY ExchangeAssumption DEF Packet, Moments
  <2>2. r \in Record
    <3> HIDE DEF p
    <3> QED BY <2>1, Zenon DEF Record, Statuses
  <2>3. r.status = "prepared" /\ ~r.captured
    OBVIOUS
  <2>4. /\ c.at = "look" /\ c.exchange = x /\ c.session = s /\ c.record = r
        /\ ~c.guard /\ ~c.ok
    BY DEF NoCall
  <2>5. c \in Call
    <3> HIDE DEF r
    <3> QED BY <1>0, <2>2 DEF Call, NoCall
  <2>6. Start(t, c)
    BY <1>1 DEF Prepare
  <2> HIDE DEF c, r
  <2> QED BY <2>2, <2>3, <2>4, <2>5, <2>6, StartGood
<1>2. ASSUME NEW x \in Exchanges, Send(t, x) PROVE Good
  <2> DEFINE c == [NoCall EXCEPT !.at = "read", !.exchange = x]
  <2>1. c \in Call
    BY <1>0 DEF Call, NoCall
  <2>2. c.at = "read" /\ c.exchange = x /\ ~c.guard /\ ~c.ok
    BY DEF NoCall
  <2>3. Start(t, c)
    BY <1>2 DEF Send
  <2> HIDE DEF c
  <2> QED BY <2>1, <2>2, <2>3, StartGood
<1>3. ASSUME NEW x \in Exchanges, Evaluate(t, x) PROVE Good
  <2> DEFINE c == [NoCall EXCEPT !.at = "load", !.exchange = x]
  <2>1. c \in Call
    BY <1>0 DEF Call, NoCall
  <2>2. c.at = "load" /\ c.exchange = x /\ ~c.guard /\ ~c.ok
    BY DEF NoCall
  <2>3. Start(t, c)
    BY <1>3 DEF Evaluate
  <2> HIDE DEF c
  <2> QED BY <2>1, <2>2, <2>3, StartGood
<1>4. ASSUME NEW s \in Sessions, View(t, s) PROVE Good
  <2> DEFINE c == [NoCall EXCEPT !.at = "get", !.session = s]
  <2>1. c \in Call
    BY <1>0 DEF Call, NoCall
  <2>2. c.at = "get" /\ ~c.guard /\ ~c.ok
    BY DEF NoCall
  <2>3. Start(t, c)
    BY <1>4 DEF View
  <2> HIDE DEF c
  <2> QED BY <2>1, <2>2, <2>3, StartGood
<1> QED BY <1>1, <1>2, <1>3, <1>4 DEF Request

LEMMA AcquireGood == ASSUME IInv, NEW t \in Threads, Acquire(t) PROVE Good
<1>1. UNCHANGED <<now, tables, inflight, calls, asked, crashes>>
  BY DEF Acquire
<1>2. Quiet /\ Moves(t)
  BY <1>1 DEF Quiet, Moves, tables, IInv, Typed
<1>3. locks' \in [Locks -> Threads \cup {None}]
  <2> DEFINE l == Order(t)[Cardinality(Held(t)) + 1]
  <2>1. locks' = [locks EXCEPT ![l] = t]
    BY Zenon DEF Acquire
  <2> HIDE DEF l
  <2> QED BY <2>1 DEF IInv, Typed
<1>4. Typed'
  BY <1>1, <1>3 DEF IInv, Typed, tables
<1>5. HeldShape'
  BY AcquiredShape DEF IInv
<1>6. Shape(t)'
  <2>1. Shape(t)
    BY DEF IInv, DInv, CallsShape
  <2> QED BY <1>1, <1>2, <2>1, SameShape
<1>7. DInv' /\ RowsKept
  BY <1>1, <1>2, <1>6, QuietStep DEF IInv
<1> QED BY <1>4, <1>5, <1>7 DEF Good

-----------------------------------------------------------------------------
(* conversation_prepare and the first looks of the other calls *)

LEMMA OrdinalTyped ==
  ASSUME Typed, NEW s \in Sessions
  PROVE  NextOrdinal(s) \in Nat
<1>1. turns[s] \in Seq(Turn)
  BY DEF Typed
<1>2. ASSUME turns[s] # <<>> PROVE turns[s][Len(turns[s])].ordinal \in Nat
  <2>1. Len(turns[s]) \in 1..Len(turns[s])
    BY <1>1, <1>2
  <2>2. turns[s][Len(turns[s])] \in Turn
    BY <1>1, <2>1
  <2> QED BY <2>2 DEF Turn
<1> QED BY <1>2 DEF NextOrdinal

LEMMA LookGood == ASSUME IInv, NEW t \in Threads, Look(t) PROVE Good
<1> DEFINE c == calls[t]
<1>1. c \in Call /\ c.at = "look" /\ Shape(t)
  BY DEF Look, Ready, IInv, Typed, DInv, CallsShape
<1>2. Quiet /\ UNCHANGED <<now, crashes>>
  BY DEF Look, Quiet, tables
<1>3. CASE exchanges[c.exchange] # None
  <2>1. Return(t)
    BY <1>3 DEF Look
  <2> QED BY <1>2, <2>1, ReturnedGood
<1>4. CASE exchanges[c.exchange] = None
  <2> DEFINE r == [c.record EXCEPT !.ordinal = NextOrdinal(c.session)]
             d == [c EXCEPT !.at = "preview", !.record = r]
  <2>1. Release(t) /\ calls' = [calls EXCEPT ![t] = d]
    <3>1. /\ Release(t)
          /\ calls' = [calls EXCEPT ![t].at = "preview",
                                   ![t].record.ordinal = NextOrdinal(calls[t].session)]
      BY <1>4 DEF Look
    <3> QED BY <3>1, Zenon
  <2>2. /\ c.exchange \in Exchanges /\ c.session \in Sessions /\ c.record \in Record
        /\ c.record.status = "prepared" /\ ~c.record.captured /\ ~c.guard /\ ~c.ok
    BY <1>1 DEF Shape, Preparing, Guarded, Evaluating
  <2>3. r \in Record /\ r.status = "prepared" /\ r.captured = c.record.captured
    <3>1. NextOrdinal(c.session) \in Nat
      BY <2>2, OrdinalTyped DEF IInv
    <3>2. r \in Record
      BY <2>2, <3>1, Zenon DEF Record
    <3> QED BY <2>2, <3>2 DEF Record
  <2>4. /\ d \in Call /\ d.at = "preview" /\ d.exchange = c.exchange
        /\ d.session = c.session /\ d.record = r /\ d.guard = c.guard /\ d.ok = c.ok
    <3> HIDE DEF r
    <3>1. "preview" \in DOMAIN Sections
      BY SectionNames
    <3>2. d \in Call
      BY <1>1, <2>3, <3>1, Zenon DEF Call
    <3> QED BY <1>1, <3>2 DEF Call
  <2> HIDE DEF d, r
  <2>5. Moves(t) /\ calls'[t] = d
    BY <2>1, <2>4 DEF Moves, IInv, Typed
  <2>6. Shape(t)'
    BY <2>2, <2>3, <2>4, <2>5 DEF Shape, Preparing, Present, Guarded, Owning, Evaluating, Own
  <2> QED BY <1>2, <2>1, <2>2, <2>4, <2>5, <2>6, LookedGood
<1> QED BY <1>3, <1>4

LEMMA PreviewGood == ASSUME IInv, NEW t \in Threads, Preview(t) PROVE Good
<1> DEFINE c == calls[t]
           p == [c.record.packet EXCEPT !.at = now]
           r == [c.record EXCEPT !.packet = p]
           d == [c EXCEPT !.at = "insert", !.record = r]
<1>1. c \in Call /\ c.at = "preview" /\ Shape(t)
  BY DEF Preview, Ready, IInv, Typed, DInv, CallsShape
<1>2. Quiet /\ UNCHANGED <<now, crashes>> /\ Release(t)
  BY DEF Preview, Quiet, tables
<1>3. calls' = [calls EXCEPT ![t] = d]
  BY Zenon DEF Preview
<1>4. /\ c.exchange \in Exchanges /\ c.session \in Sessions /\ c.record \in Record
      /\ c.record.status = "prepared" /\ ~c.record.captured /\ ~c.guard /\ ~c.ok
  BY <1>1 DEF Shape, Preparing, Guarded, Evaluating
<1>5. p \in Packet
  <2>1. c.record.packet \in Packet /\ now \in Moments
    BY <1>4 DEF Record, IInv, Typed
  <2> QED BY <2>1, Zenon DEF Packet
<1>6. r \in Record /\ r.status = "prepared" /\ r.captured = c.record.captured
  <2> HIDE DEF p
  <2>1. r \in Record
    BY <1>4, <1>5, Zenon DEF Record
  <2> QED BY <1>4, <2>1 DEF Record
<1>7. /\ d \in Call /\ d.at = "insert" /\ d.exchange = c.exchange
      /\ d.session = c.session /\ d.record = r /\ d.guard = c.guard /\ d.ok = c.ok
  <2> HIDE DEF r
  <2>1. "insert" \in DOMAIN Sections
    BY SectionNames
  <2>2. d \in Call
    BY <1>1, <1>6, <2>1, Zenon DEF Call
  <2> QED BY <1>1, <2>2 DEF Call
<1> HIDE DEF d, r
<1>8. Moves(t) /\ calls'[t] = d
  BY <1>3, <1>7 DEF Moves, IInv, Typed
<1>9. Shape(t)'
  BY <1>4, <1>6, <1>7, <1>8 DEF Shape, Preparing, Present, Guarded, Owning, Evaluating, Own
<1> QED BY <1>2, <1>4, <1>7, <1>8, <1>9, LookedGood

\* A call of the user goes on as the row it read allows.
LEMMA ReadGood == ASSUME IInv, NEW t \in Threads, Read(t) PROVE Good
<1> DEFINE c == calls[t]
           x == c.exchange
<1>1. c \in Call /\ c.at = "read" /\ Shape(t)
  BY DEF Read, Ready, IInv, Typed, DInv, CallsShape
<1>2. Quiet /\ UNCHANGED <<now, crashes>>
  BY DEF Read, Quiet, tables
<1>3. CASE exchanges[x] = None
  <2>1. Return(t)
    BY <1>3 DEF Read
  <2> QED BY <1>2, <2>1, ReturnedGood
<1>4. CASE exchanges[x] # None
  <2> DEFINE at == IF exchanges[x].status = "prepared" THEN "claim" ELSE "get"
             s  == exchanges[x].packet.session
             d  == [c EXCEPT !.session = s, !.at = at]
  <2>1. Release(t) /\ calls' = [calls EXCEPT ![t] = d]
    BY <1>4, Zenon DEF Read
  <2>2. x \in Exchanges /\ ~c.guard /\ ~c.ok
    BY <1>1 DEF Shape, Present, Guarded, Evaluating
  <2>3. s \in Sessions
    BY <1>4, <2>2, RowTyped DEF IInv
  <2>4. at \in {"claim", "get"} /\ at \in DOMAIN Sections
    BY SectionNames
  <2> HIDE DEF at, s
  <2>5. d \in Call
    BY <1>1, <2>3, <2>4, Zenon DEF Call
  <2>6. d.at = at /\ d.exchange = x /\ d.guard = c.guard /\ d.ok = c.ok
    BY <1>1 DEF Call
  <2> HIDE DEF d
  <2>7. Moves(t) /\ calls'[t] = d
    BY <2>1, <2>5 DEF Moves, IInv, Typed
  <2>8. exchanges' = exchanges
    BY <1>2 DEF Quiet
  <2>9. Shape(t)'
    BY <1>4, <2>2, <2>4, <2>6, <2>7, <2>8
       DEF Shape, Preparing, Present, Guarded, Owning, Evaluating, Own
  <2> QED BY <1>2, <2>1, <2>2, <2>6, <2>7, <2>9, LookedGood
<1> QED BY <1>3, <1>4

\* Only a captured response is evaluated.
LEMMA LoadGood == ASSUME IInv, NEW t \in Threads, Load(t) PROVE Good
<1> DEFINE c == calls[t]
           x == c.exchange
<1>1. c \in Call /\ c.at = "load" /\ Shape(t)
  BY DEF Load, Ready, IInv, Typed, DInv, CallsShape
<1>2. Quiet /\ UNCHANGED <<now, crashes>>
  BY DEF Load, Quiet, tables
<1>3. CASE exchanges[x] = None \/ ~exchanges[x].captured
  <2>1. Return(t)
    BY <1>3 DEF Load
  <2> QED BY <1>2, <2>1, ReturnedGood
<1>4. CASE exchanges[x] # None /\ exchanges[x].captured
  <2> DEFINE s  == exchanges[x].packet.session
             d  == [c EXCEPT !.at = "evaluate", !.session = s]
  <2>1. Release(t) /\ calls' = [calls EXCEPT ![t] = d]
    BY <1>4, Zenon DEF Load
  <2>2. x \in Exchanges /\ ~c.ok
    BY <1>1 DEF Shape, Present, Evaluating
  <2>3. s \in Sessions
    BY <1>4, <2>2, RowTyped DEF IInv
  <2>4. "evaluate" \in DOMAIN Sections
    BY SectionNames
  <2> HIDE DEF s
  <2>5. d \in Call
    BY <1>1, <2>3, <2>4, Zenon DEF Call
  <2>6. d.at = "evaluate" /\ d.exchange = x /\ d.guard = c.guard /\ d.ok = c.ok
    BY <1>1 DEF Call
  <2> HIDE DEF d
  <2>7. Moves(t) /\ calls'[t] = d
    BY <2>1, <2>5 DEF Moves, IInv, Typed
  <2>8. exchanges' = exchanges /\ inflight' = inflight
    BY <1>2 DEF Quiet
  <2>9. Shape(t)'
    BY <1>1, <1>4, <2>2, <2>6, <2>7, <2>8
       DEF Shape, Preparing, Present, Guarded, Owning, Evaluating, Own
  <2> QED BY <1>2, <2>1, <2>2, <2>6, <2>7, <2>9, LookedGood
<1> QED BY <1>3, <1>4

-----------------------------------------------------------------------------
(* Steps that write one row of provider_exchanges *)

\* Nobody else relies on what the row says of an exchange this call flies, or
\* of one that is not sending.
Alone(t, x) ==
  \A u \in Threads : (u # t /\ calls[u].at \in Own) => calls[u].exchange # x

LEMMA FliesAlone ==
  ASSUME DInv, NEW t \in Threads, calls[t].guard
  PROVE  Alone(t, calls[t].exchange)
BY DEF DInv, CallsShape, Shape, Guarded, OneGuard, Alone

LEMMA NotSendingAlone ==
  ASSUME DInv, NEW t \in Threads, NEW x \in Exchanges,
         exchanges[x] = None \/ exchanges[x].status # "sending"
  PROVE  Alone(t, x)
BY DEF DInv, CallsShape, Shape, Present, Owning, Alone

LEMMA OneRowKept ==
  ASSUME IInv, NEW x \in Exchanges, NEW e, exchanges' = [exchanges EXCEPT ![x] = e],
         RowKept(x)
  PROVE  RowsKept
<1> SUFFICES ASSUME NEW y \in Exchanges PROVE RowKept(y)
  BY DEF RowsKept
<1>1. CASE y # x
  <2>1. exchanges'[y] = exchanges[y]
    BY <1>1 DEF IInv, Typed
  <2> QED BY <2>1 DEF RowKept
<1> QED BY <1>1

LEMMA OneRowGood ==
  ASSUME IInv, NEW t \in Threads, NEW x \in Exchanges, NEW e \in Record,
         exchanges' = [exchanges EXCEPT ![x] = e],
         UNCHANGED <<now, turns, sent, asked, crashes>>,
         Moves(t), Release(t), FlightKept(t), inflight' \subseteq Exchanges,
         RowKept(x), RowShape(x)', Alone(t, x), Shape(t)', OneGuard',
         e.status \in Active =>
           \/ exchanges[x] # None /\ exchanges[x].status \in Active
           \/ IndexAdmits(x)
  PROVE  Good
<1>1. /\ exchanges'[x] = e /\ e # None
      /\ \A y \in Exchanges : y # x => exchanges'[y] = exchanges[y]
  BY ExchangeAssumption DEF IInv, Typed
<1>2. Typed'
  <2>1. exchanges' \in [Exchanges -> Record \cup {None}]
    BY DEF IInv, Typed
  <2>2. locks' \in [Locks -> Threads \cup {None}]
    BY ReleaseTyped DEF IInv
  <2> QED BY <2>1, <2>2 DEF IInv, Typed, Moves
<1>3. HeldShape'
  BY HeldAfter DEF IInv
<1>4. RowsKept
  BY OneRowKept
<1>5. TurnsKept
  BY DEF TurnsKept, HasTurn
<1>6. OthersKept(t)
  <2> SUFFICES ASSUME NEW u \in Threads, u # t, calls[u].at \in Own
               PROVE  exchanges'[calls[u].exchange] = exchanges[calls[u].exchange]
                      /\ asked'[calls[u].exchange] = asked[calls[u].exchange]
    BY DEF OthersKept
  <2>1. calls[u].exchange \in Exchanges /\ calls[u].exchange # x
    BY DEF Alone, IInv, DInv, CallsShape, Shape, Present
  <2> QED BY <1>1, <2>1
<1>7. Keeps(t)
  BY <1>4, <1>5, <1>6 DEF Keeps
<1>8. RowsShape'
  <2> SUFFICES ASSUME NEW y \in Exchanges PROVE RowShape(y)'
    BY DEF RowsShape
  <2>1. CASE y # x
    <3>1. RowShape(y) /\ exchanges'[y] = exchanges[y]
      BY <1>1, <2>1 DEF IInv, DInv, RowsShape
    <3> QED BY <3>1, RowSame
  <2> QED BY <2>1
<1>9. OneActive'
  <2> SUFFICES ASSUME NEW y \in Exchanges, NEW z \in Exchanges, y # z,
                      exchanges'[y] # None, exchanges'[z] # None,
                      exchanges'[y].status \in Active, exchanges'[z].status \in Active
               PROVE  FALSE
    BY DEF OneActive
  <2>1. OneActive
    BY DEF IInv, DInv
  <2>2. ASSUME NEW a \in Exchanges, a # x, exchanges'[a] # None,
               exchanges'[a].status \in Active, exchanges'[x].status \in Active
        PROVE  FALSE
    <3>1. exchanges'[a] = exchanges[a]
      BY <1>1, <2>2
    <3>2. CASE exchanges[x] # None /\ exchanges[x].status \in Active
      BY <2>1, <2>2, <3>1, <3>2 DEF OneActive
    <3>3. CASE IndexAdmits(x)
      BY <2>2, <3>1, <3>3 DEF IndexAdmits
    <3> QED BY <1>1, <2>2, <3>2, <3>3
  <2>3. CASE y # x /\ z # x
    <3>1. exchanges'[y] = exchanges[y] /\ exchanges'[z] = exchanges[z]
      BY <1>1, <2>3
    <3> QED BY <2>1, <3>1 DEF OneActive
  <2> QED BY <2>2, <2>3
<1>10. TurnsInOrder'
  BY DEF IInv, DInv, TurnsInOrder
<1> QED BY <1>2, <1>3, <1>7, <1>8, <1>9, <1>10, Assemble

LEMMA FlightSame ==
  ASSUME IInv, NEW t \in Threads, UNCHANGED inflight
  PROVE  FlightKept(t) /\ inflight' \subseteq Exchanges
BY DEF FlightKept, IInv, Typed, DInv, CallsShape, Shape, Guarded

\* A returning call may write its row first.
LEMMA RowReturnGood ==
  ASSUME IInv, NEW t \in Threads, NEW x \in Exchanges, NEW e \in Record,
         exchanges' = [exchanges EXCEPT ![x] = e],
         UNCHANGED <<now, turns, sent, inflight, asked, crashes>>,
         Return(t), RowKept(x), RowShape(x)', Alone(t, x), e.status \notin Active
  PROVE  Good
<1>1. RowsKept
  BY OneRowKept
<1>2. Shape(t)
  BY DEF IInv, DInv, CallsShape
<1>3. /\ Moves(t) /\ Shape(t)'
      /\ calls'[t].guard => calls[t].guard /\ calls'[t].exchange = calls[t].exchange
  BY <1>1, <1>2, ReturnShape DEF IInv
<1>4. OneGuard'
  BY <1>3, OneGuardKept DEF IInv, DInv
<1>5. Release(t)
  BY DEF Return
<1> QED BY <1>3, <1>4, <1>5, FlightSame, OneRowGood

\* The primary key admits one row; a second INSERT changes nothing.
LEMMA InsertGood == ASSUME IInv, NEW t \in Threads, Insert(t) PROVE Good
<1>1. calls[t].at = "insert" /\ Shape(t) /\ Return(t)
      /\ UNCHANGED <<now, turns, sent, inflight, asked, crashes>>
  BY DEF Insert, Ready, IInv, DInv, CallsShape
<1>2. PICK x \in Exchanges, r \in Record :
        /\ x = calls[t].exchange /\ r = calls[t].record
        /\ r.status = "prepared" /\ ~r.captured
  BY <1>1 DEF Shape, Preparing
<1>3. CASE exchanges[x] # None
  <2>1. exchanges' = exchanges
    BY <1>2, <1>3 DEF Insert
  <2> QED BY <1>1, <2>1, ReturnedGood DEF Quiet
<1>4. CASE exchanges[x] = None
  <2>1. exchanges' = [exchanges EXCEPT ![x] = r]
    BY <1>2, <1>4 DEF Insert
  <2>2. exchanges'[x] = r /\ exchanges'[x] # None
    BY <1>2, <2>1, ExchangeAssumption DEF IInv, Typed
  <2>3. RowKept(x)
    BY <1>4 DEF RowKept
  <2>4. RowShape(x)'
    <3>1. asked[x] = 0 /\ NoTurn(x)
      BY <1>2, <1>4 DEF IInv, DInv, RowsShape, RowShape
    <3>2. asked'[x] = 0 /\ NoTurn(x)'
      BY <1>1, <3>1 DEF NoTurn
    <3> QED BY <1>2, <2>2, <3>2 DEF RowShape, Active
  <2>5. Alone(t, x)
    BY <1>4, NotSendingAlone DEF IInv
  <2> QED BY <1>1, <1>2, <2>1, <2>3, <2>4, <2>5, RowReturnGood DEF Active
<1> QED BY <1>3, <1>4

-----------------------------------------------------------------------------
(* The claim and the outcomes: steps that set a status *)

LEMMA StatusRow ==
  ASSUME IInv, NEW x \in Exchanges, exchanges[x] # None, NEW st \in Statuses,
         SetStatusOf(x, st)
  PROVE  \E e \in Record :
           /\ exchanges' = [exchanges EXCEPT ![x] = e] /\ exchanges'[x] = e /\ e # None
           /\ e.status = st /\ e.packet = exchanges[x].packet
           /\ e.ordinal = exchanges[x].ordinal /\ e.captured = exchanges[x].captured
<1> DEFINE r == exchanges[x]
           e == [r EXCEPT !.status = st]
<1>1. r \in Record
  BY RowTyped DEF IInv
<1>2. e \in Record
  BY <1>1, Zenon DEF Record
<1>3. /\ e.status = st /\ e.packet = r.packet
      /\ e.ordinal = r.ordinal /\ e.captured = r.captured
  BY <1>1 DEF Record
<1>4. exchanges' = [exchanges EXCEPT ![x] = e]
  BY Zenon DEF SetStatusOf
<1> HIDE DEF e
<1>5. exchanges'[x] = e
  BY <1>4 DEF IInv, Typed
<1>6. e # None
  BY <1>2, ExchangeAssumption
<1> QED BY <1>2, <1>3, <1>4, <1>5, <1>6

LEMMA RowOf ==
  ASSUME IInv, NEW x \in Exchanges
  PROVE  RowShape(x)
BY DEF IInv, DInv, RowsShape

\* Between claim and outcome the call's exchange is sending.
LEMMA OwnedRow ==
  ASSUME IInv, NEW t \in Threads, calls[t].at \in Own, NEW x, x = calls[t].exchange
  PROVE  /\ x \in Exchanges /\ exchanges[x] # None /\ exchanges[x].status = "sending"
         /\ ~exchanges[x].captured /\ calls[t].guard /\ ~calls[t].ok
         /\ x \in inflight /\ Alone(t, x)
<1>1. Shape(t)
  BY DEF IInv, DInv, CallsShape
<1>2. /\ x \in Exchanges /\ exchanges[x] # None /\ exchanges[x].status = "sending"
      /\ calls[t].guard /\ x \in inflight
  BY <1>1 DEF Shape, Present, Guarded, Owning
<1>3. ~exchanges[x].captured
  BY <1>2, RowOf DEF RowShape
<1>4. ~calls[t].ok
  BY <1>1 DEF Shape, Evaluating, Own
<1>5. Alone(t, x)
  BY <1>2, FliesAlone DEF IInv
<1> QED BY <1>2, <1>3, <1>4, <1>5

\* What a call relies on at its next section, said of its exchange.
LEMMA OwningThen ==
  ASSUME NEW t \in Threads, NEW x \in Exchanges, calls'[t].exchange = x,
         calls'[t].at \in Own, exchanges'[x].status = "sending",
         calls'[t].at \in {"bind", "mark", "unsent", "ask"} => asked'[x] = 0,
         calls'[t].at = "bind" => NoTurn(x)',
         calls'[t].at = "bind"
           => NextOrdinal(exchanges[x].packet.session)' = exchanges'[x].ordinal,
         calls'[t].at \in {"mark", "ask", "generate", "capture"} => Asks(x)',
         calls'[t].at \in {"ask", "generate", "capture"}
           => BoundTo(exchanges[x].packet)' = {x}
  PROVE  Owning(t)'
<1>1. calls'[t].at = "bind" => NoTurn(calls[t].exchange)'
  BY Zenon DEF NoTurn
<1>2. calls'[t].at = "bind" => NextOrdinal(exchanges[calls[t].exchange].packet.session)'
                                 = exchanges'[calls'[t].exchange].ordinal
  BY Zenon DEF NextOrdinal
<1>3. calls'[t].at \in {"mark", "ask", "generate", "capture"} => Asks(calls[t].exchange)'
  BY Zenon DEF Asks, HasTurn
<1>4. calls'[t].at \in {"ask", "generate", "capture"}
        => BoundTo(exchanges[calls[t].exchange].packet)' = {calls'[t].exchange}
  BY Zenon DEF BoundTo
<1> QED BY <1>1, <1>2, <1>3, <1>4, Zenon DEF Owning

LEMMA OwnShape ==
  ASSUME NEW t \in Threads, NEW x \in Exchanges, calls'[t].exchange = x,
         calls'[t].at \in Own, exchanges'[x] # None, exchanges'[x].status = "sending",
         calls'[t].guard, ~calls'[t].ok, x \in inflight', Owning(t)'
  PROVE  Shape(t)'
BY DEF Shape, Preparing, Present, Guarded, Evaluating, Own

LEMMA ClaimGood == ASSUME IInv, NEW t \in Threads, Claim(t) PROVE Good
<1> DEFINE c == calls[t]
           d == [c EXCEPT !.at = "bind", !.guard = TRUE]
<1>1. c \in Call /\ c.at = "claim" /\ Shape(t) /\ Release(t)
      /\ UNCHANGED <<now, turns, sent, asked, crashes>>
  BY DEF Claim, Ready, IInv, Typed, DInv, CallsShape
<1>2. PICK x \in Exchanges : x = c.exchange /\ exchanges[x] # None /\ ~c.ok
  BY <1>1 DEF Shape, Present, Evaluating
<1>3. Claimable(x) /\ SetStatusOf(x, "sending") /\ inflight' = inflight \cup {x}
  BY <1>2 DEF Claim, Fly
<1>4. calls' = [calls EXCEPT ![t] = d]
  BY Zenon DEF Claim
<1>5. d \in Call /\ d.at = "bind" /\ d.guard /\ d.exchange = c.exchange /\ d.ok = c.ok
  <2>1. "bind" \in DOMAIN Sections
    BY SectionNames
  <2>2. d \in Call
    BY <1>1, <2>1, Zenon DEF Call
  <2> QED BY <1>1, <2>2 DEF Call
<1> HIDE DEF d
<1>6. Moves(t) /\ calls'[t] = d
  BY <1>4, <1>5 DEF Moves, IInv, Typed
<1>7. PICK e \in Record :
        /\ exchanges' = [exchanges EXCEPT ![x] = e] /\ exchanges'[x] = e /\ e # None
        /\ e.status = "sending" /\ e.packet = exchanges[x].packet
        /\ e.ordinal = exchanges[x].ordinal /\ e.captured = exchanges[x].captured
  <2>1. "sending" \in Statuses
    BY DEF Statuses
  <2> QED BY <1>2, <1>3, <2>1, StatusRow
<1>8. /\ exchanges[x].status = "prepared" /\ ~exchanges[x].captured
      /\ asked[x] = 0 /\ NoTurn(x)
  BY <1>2, <1>3, RowOf DEF Claimable, RowShape
<1>9. RowKept(x)
  BY <1>7, <1>8 DEF RowKept
<1>10. /\ Asks(x)' = Asks(x) /\ Answers(x)' = Answers(x)
       /\ NoTurn(x)' = NoTurn(x) /\ AsksLast(x)' = AsksLast(x)
  BY <1>1, <1>7, SameTurns
<1>11. RowShape(x)'
  <2>1. ~Asks(x)
    <3>1. exchanges[x].packet.session \in Sessions
      BY <1>2, RowTyped DEF IInv
    <3> QED BY <1>8, <3>1 DEF NoTurn, Asks, HasTurn
  <2>2. asked'[x] = 0
    BY <1>1, <1>8
  <2> QED BY <1>7, <1>8, <1>10, <2>1, <2>2 DEF RowShape
<1>12. Owning(t)'
  <2>1. NextOrdinal(exchanges[x].packet.session)' = exchanges'[x].ordinal
    <3>1. NextOrdinal(exchanges[x].packet.session)'
            = NextOrdinal(exchanges[x].packet.session)
      <4>1. turns' = turns /\ exchanges'[x].packet = exchanges[x].packet
        BY <1>1, <1>7
      <4> QED BY <4>1, Zenon DEF NextOrdinal
    <3> QED BY <1>3, <1>7, <3>1 DEF Claimable
  <2>2. asked'[x] = 0 /\ NoTurn(x)'
    BY <1>1, <1>8, <1>10
  <2>3. calls'[t].at = "bind" /\ calls'[t].exchange = x
    BY <1>2, <1>5, <1>6
  <2> QED BY <1>7, <2>1, <2>2, <2>3, OwningThen DEF Own
<1>13. Shape(t)'
  <2>1. calls'[t].exchange = x /\ calls'[t].at \in Own /\ calls'[t].guard /\ ~calls'[t].ok
    BY <1>2, <1>5, <1>6 DEF Own
  <2> QED BY <1>3, <1>7, <1>12, <2>1, OwnShape
<1>14. FlightKept(t) /\ inflight' \subseteq Exchanges
  BY <1>3 DEF FlightKept, IInv, Typed, DInv, CallsShape, Shape, Guarded
<1>15. OneGuard'
  <2>1. \A u \in Threads : (u # t /\ calls[u].guard) => calls[u].exchange # x
    BY <1>8 DEF IInv, DInv, CallsShape, Shape, Guarded
  <2>2. calls'[t].exchange = x
    BY <1>2, <1>5, <1>6
  <2> QED BY <1>6, <2>1, <2>2 DEF OneGuard, IInv, DInv, Moves
<1>16. Alone(t, x)
  BY <1>8, NotSendingAlone DEF IInv
<1>17. IndexAdmits(x)
  BY <1>3 DEF Claimable
<1> QED BY <1>1, <1>6, <1>7, <1>9, <1>11, <1>13, <1>14, <1>15, <1>16, <1>17, OneRowGood

LEMMA ClaimRefusedGood == ASSUME IInv, NEW t \in Threads, ClaimRefused(t) PROVE Good
BY ReturnedGood DEF ClaimRefused, Quiet, tables

\* A call that flies its exchange goes to another of its sections, and the
\* tables stay.
LEMMA OwnGotoGood ==
  ASSUME IInv, NEW t \in Threads, calls[t].at \in Own, NEW at \in Own, Goto(t, at),
         Quiet, UNCHANGED <<now, crashes>>,
         at # "bind",
         at \in {"mark", "unsent", "ask"}
           => calls[t].at \in {"bind", "mark", "unsent", "ask"},
         at \in {"mark", "ask", "generate", "capture"}
           => calls[t].at \in {"mark", "ask", "generate", "capture"},
         at \in {"ask", "generate", "capture"}
           => calls[t].at \in {"ask", "generate", "capture"}
  PROVE  Good
<1>1. PICK x \in Exchanges : x = calls[t].exchange
  BY OwnedRow DEF IInv
<1>2. /\ exchanges[x] # None /\ exchanges[x].status = "sending"
      /\ calls[t].guard /\ ~calls[t].ok /\ x \in inflight
  BY <1>1, OwnedRow
<1>3. Shape(t)
  BY DEF IInv, DInv, CallsShape
<1>4. /\ calls' = [calls EXCEPT ![t].at = at] /\ Release(t)
      /\ at \in DOMAIN Sections /\ calls \in [Threads -> Call]
  BY SectionNames DEF Goto, Own, IInv, Typed
<1>5. /\ Moves(t)
      /\ calls'[t].at = at /\ calls'[t].exchange = calls[t].exchange
      /\ calls'[t].guard = calls[t].guard /\ calls'[t].ok = calls[t].ok
  BY <1>4, GotoCall
<1>6. exchanges' = exchanges /\ turns' = turns /\ sent' = sent /\ asked' = asked
      /\ inflight' = inflight
  BY DEF Quiet
<1>7. Owning(t)'
  <2>1. /\ calls[t].at \in {"bind", "mark", "unsent", "ask"} => asked[x] = 0
        /\ calls[t].at \in {"mark", "ask", "generate", "capture"} => Asks(x)
        /\ calls[t].at \in {"ask", "generate", "capture"}
             => BoundTo(exchanges[x].packet) = {x}
    BY <1>1, <1>3 DEF Shape, Owning
  <2>2. Asks(x)' = Asks(x)
    BY <1>6, SameTurns
  <2>3. BoundTo(exchanges[x].packet)' = BoundTo(exchanges[x].packet)
    BY <1>6, Zenon DEF BoundTo
  <2>4. asked'[x] = asked[x] /\ exchanges'[x].status = "sending"
    BY <1>2, <1>6
  <2> QED BY <1>1, <1>5, <2>1, <2>2, <2>3, <2>4, OwningThen
<1>8. Shape(t)'
  BY <1>1, <1>2, <1>5, <1>6, <1>7, OwnShape
<1> QED BY <1>4, <1>5, <1>8, LookedGood

LEMMA BindRefusedGood == ASSUME IInv, NEW t \in Threads, BindRefused(t) PROVE Good
BY OwnGotoGood DEF BindRefused, Ready, Quiet, tables, Own

LEMMA MarkFailsGood == ASSUME IInv, NEW t \in Threads, MarkFails(t) PROVE Good
BY OwnGotoGood DEF MarkFails, Ready, Quiet, tables, Own

LEMMA GeneratedGood == ASSUME IInv, NEW t \in Threads, Generated(t) PROVE Good
<1>1. calls[t].at = "generate" /\ Quiet /\ UNCHANGED <<now, crashes>>
  BY DEF Generated, Ready, Quiet, tables
<1>2. CASE Goto(t, "capture")
  BY <1>1, <1>2, OwnGotoGood DEF Own
<1>3. CASE Goto(t, "lost")
  BY <1>1, <1>3, OwnGotoGood DEF Own
<1> QED BY <1>2, <1>3 DEF Generated

\* What a row says after a change of its status alone.
LEMMA StatusShape ==
  ASSUME IInv, NEW x \in Exchanges, exchanges[x] # None, NEW e \in Record,
         exchanges'[x] = e, e # None, e.packet = exchanges[x].packet,
         e.ordinal = exchanges[x].ordinal, e.captured = exchanges[x].captured,
         turns' = turns, asked'[x] = asked[x],
         e.captured <=> e.status \in {"evaluation_pending", "completed"},
         e.status # "prepared",
         e.status = "not_sent" => asked[x] = 0,
         (e.captured /\ ~Answers(x)) => e.status = "evaluation_pending",
         (e.status \in Active /\ Asks(x) /\ ~Answers(x)) => AsksLast(x)
  PROVE  RowShape(x)'
<1>1. /\ Asks(x)' = Asks(x) /\ Answers(x)' = Answers(x)
      /\ NoTurn(x)' = NoTurn(x) /\ AsksLast(x)' = AsksLast(x)
  BY SameTurns
<1>2. asked'[x] <= 1 /\ (exchanges[x].captured => Asks(x))
  BY RowOf DEF RowShape
<1> QED BY <1>1, <1>2 DEF RowShape

\* The two ends of a request that got no response: never sent, or unknown.
LEMMA EndedRow ==
  ASSUME IInv, NEW t \in Threads, calls[t].at \in Own, NEW x \in Exchanges,
         x = calls[t].exchange, NEW st \in {"not_sent", "unknown"},
         SetStatusOf(x, st), UNCHANGED <<turns, asked>>,
         st = "not_sent" => asked[x] = 0
  PROVE  /\ \E e \in Record : /\ exchanges' = [exchanges EXCEPT ![x] = e]
                              /\ e.status = st
         /\ exchanges'[x] # None /\ exchanges'[x].status = st
         /\ RowKept(x) /\ RowShape(x)' /\ Alone(t, x)
<1>1. /\ exchanges[x] # None /\ exchanges[x].status = "sending"
      /\ ~exchanges[x].captured /\ Alone(t, x)
  BY OwnedRow
<1>2. PICK e \in Record :
        /\ exchanges' = [exchanges EXCEPT ![x] = e] /\ exchanges'[x] = e /\ e # None
        /\ e.status = st /\ e.packet = exchanges[x].packet
        /\ e.ordinal = exchanges[x].ordinal /\ e.captured = exchanges[x].captured
  <2>1. st \in Statuses
    BY DEF Statuses
  <2> QED BY <1>1, <2>1, StatusRow
<1>3. RowKept(x)
  BY <1>1, <1>2 DEF RowKept
<1>4. RowShape(x)'
  <2>1. asked'[x] = asked[x] /\ turns' = turns
    OBVIOUS
  <2> QED BY <1>1, <1>2, <2>1, StatusShape DEF Active
<1> QED BY <1>1, <1>2, <1>3, <1>4

LEMMA UnsentGood == ASSUME IInv, NEW t \in Threads, Unsent(t) PROVE Good
<1>1. calls[t].at = "unsent" /\ Shape(t) /\ Return(t)
      /\ UNCHANGED <<now, turns, sent, inflight, asked, crashes>>
  BY DEF Unsent, Ready, IInv, DInv, CallsShape
<1>2. PICK x \in Exchanges : x = calls[t].exchange
  BY <1>1, OwnedRow DEF Own
<1>3. asked[x] = 0
  BY <1>1, <1>2 DEF Shape, Owning
<1>4. CASE UNCHANGED exchanges
  BY <1>1, <1>4, ReturnedGood DEF Quiet
<1>5. CASE SetStatusOf(x, "not_sent")
  <2>1. /\ \E e \in Record : /\ exchanges' = [exchanges EXCEPT ![x] = e]
                             /\ e.status = "not_sent"
        /\ RowKept(x) /\ RowShape(x)' /\ Alone(t, x)
    BY <1>1, <1>2, <1>3, <1>5, EndedRow DEF Own
  <2> QED BY <1>1, <2>1, RowReturnGood DEF Active
<1> QED BY <1>2, <1>4, <1>5 DEF Unsent

\* A call may look at the conversation, or load its exchange, whenever it likes.
LEMMA FreeGoto ==
  ASSUME IInv, NEW t \in Threads, NEW at \in {"get", "load"}, Goto(t, at),
         RowsKept, UNCHANGED inflight,
         at = "load" => calls[t].exchange \in Exchanges /\ ~calls[t].ok
  PROVE  /\ Moves(t) /\ Shape(t)' /\ Release(t)
         /\ calls'[t].guard => calls[t].guard /\ calls'[t].exchange = calls[t].exchange
<1>1. Shape(t)
  BY DEF IInv, DInv, CallsShape
<1>2. /\ calls' = [calls EXCEPT ![t].at = at] /\ Release(t)
      /\ at \in DOMAIN Sections /\ calls \in [Threads -> Call]
  BY SectionNames DEF Goto, IInv, Typed
<1>3. /\ Moves(t)
      /\ calls'[t].at = at /\ calls'[t].exchange = calls[t].exchange
      /\ calls'[t].guard = calls[t].guard /\ calls'[t].ok = calls[t].ok
  BY <1>2, GotoCall
<1>4. calls[t].guard => /\ calls[t].exchange \in Exchanges
                        /\ exchanges'[calls[t].exchange] # None
                        /\ exchanges'[calls[t].exchange].status # "prepared"
                        /\ calls[t].exchange \in inflight'
  BY <1>1 DEF Shape, Guarded, RowsKept, RowKept
<1>5. Guarded(t)'
  BY <1>3, <1>4 DEF Guarded, Own
<1>6. Shape(t)'
  BY <1>3, <1>5 DEF Shape, Preparing, Present, Owning, Evaluating, Own
<1> QED BY <1>2, <1>3, <1>6

\* A call writes its row and goes on to look at the outcome.
LEMMA RowGotoGood ==
  ASSUME IInv, NEW t \in Threads, NEW x \in Exchanges, NEW e \in Record,
         exchanges' = [exchanges EXCEPT ![x] = e],
         UNCHANGED <<now, turns, sent, inflight, asked, crashes>>,
         NEW at \in {"get", "load"}, Goto(t, at),
         at = "load" => calls[t].exchange \in Exchanges /\ ~calls[t].ok,
         RowKept(x), RowShape(x)', Alone(t, x),
         e.status \in Active =>
           \/ exchanges[x] # None /\ exchanges[x].status \in Active
           \/ IndexAdmits(x)
  PROVE  Good
<1>1. RowsKept
  BY OneRowKept
<1>2. /\ Moves(t) /\ Shape(t)' /\ Release(t)
      /\ calls'[t].guard => calls[t].guard /\ calls'[t].exchange = calls[t].exchange
  BY <1>1, FreeGoto
<1>3. OneGuard'
  BY <1>2, OneGuardKept DEF IInv, DInv
<1> QED BY <1>2, <1>3, FlightSame, OneRowGood

LEMMA LostGood == ASSUME IInv, NEW t \in Threads, Lost(t) PROVE Good
<1>1. calls[t].at = "lost" /\ Shape(t)
      /\ UNCHANGED <<now, turns, sent, inflight, asked, crashes>>
  BY DEF Lost, Ready, IInv, DInv, CallsShape
<1>2. PICK x \in Exchanges : x = calls[t].exchange
  BY <1>1, OwnedRow DEF Own
<1>3. CASE UNCHANGED exchanges /\ Return(t)
  BY <1>1, <1>3, ReturnedGood DEF Quiet
<1>4. CASE SetStatusOf(x, "unknown") /\ Goto(t, "get")
  <2>1. /\ \E e \in Record : /\ exchanges' = [exchanges EXCEPT ![x] = e]
                             /\ e.status = "unknown"
        /\ RowKept(x) /\ RowShape(x)' /\ Alone(t, x)
    BY <1>1, <1>2, <1>4, EndedRow DEF Own
  <2> QED BY <1>1, <1>4, <2>1, RowGotoGood DEF Active
<1> QED BY <1>2, <1>3, <1>4 DEF Lost

\* The response is kept with the exchange; the turn it answers is the last of
\* its conversation.
LEMMA CaptureGood == ASSUME IInv, NEW t \in Threads, Capture(t) PROVE Good
<1>1. calls[t].at = "capture" /\ Shape(t)
      /\ UNCHANGED <<now, turns, sent, inflight, asked, crashes>>
  BY DEF Capture, Ready, IInv, DInv, CallsShape
<1>2. PICK x \in Exchanges : x = calls[t].exchange
  BY <1>1, OwnedRow DEF Own
<1>3. /\ exchanges[x] # None /\ exchanges[x].status = "sending"
      /\ ~exchanges[x].captured /\ ~calls[t].ok /\ Alone(t, x)
  BY <1>1, <1>2, OwnedRow DEF Own
<1>4. Asks(x) /\ RowShape(x)
  BY <1>1, <1>2, RowOf DEF Shape, Owning
<1>5. CASE UNCHANGED exchanges /\ Return(t)
  BY <1>1, <1>5, ReturnedGood DEF Quiet
<1>6. CASE /\ exchanges' = [exchanges EXCEPT ![x].status = "evaluation_pending",
                                             ![x].captured = TRUE]
           /\ Goto(t, "load")
  <2> DEFINE r == exchanges[x]
             e == [r EXCEPT !.status = "evaluation_pending", !.captured = TRUE]
  <2>1. r \in Record
    BY <1>3, RowTyped DEF IInv
  <2>2. e \in Record
    BY <2>1, Zenon DEF Record, Statuses
  <2>3. /\ e.status = "evaluation_pending" /\ e.packet = r.packet
        /\ e.ordinal = r.ordinal /\ e.captured
    BY <2>1 DEF Record
  <2>4. exchanges' = [exchanges EXCEPT ![x] = e]
    BY <1>6, Zenon
  <2> HIDE DEF e
  <2>5. exchanges'[x] = e /\ e # None
    BY <2>2, <2>4, ExchangeAssumption DEF IInv, Typed
  <2>6. RowKept(x)
    BY <1>3, <2>3, <2>5 DEF RowKept
  <2>7. RowShape(x)'
    <3>1. /\ Asks(x)' = Asks(x) /\ Answers(x)' = Answers(x)
          /\ NoTurn(x)' = NoTurn(x) /\ AsksLast(x)' = AsksLast(x)
      BY <1>1, <2>3, <2>5, SameTurns
    <3>2. asked'[x] <= 1
      BY <1>1, <1>4 DEF RowShape
    <3>3. (Asks(x) /\ ~Answers(x)) => AsksLast(x)
      BY <1>3, <1>4 DEF RowShape, Active
    <3> QED BY <1>4, <2>3, <2>5, <3>1, <3>2, <3>3 DEF RowShape
  <2>8. exchanges[x].status \in Active
    BY <1>3 DEF Active
  <2> QED BY <1>1, <1>2, <1>3, <1>6, <2>2, <2>4, <2>6, <2>7, <2>8, RowGotoGood
<1> QED BY <1>2, <1>5, <1>6 DEF Capture

\* The row follows what the evaluation came to, if the index admits it.
LEMMA SettleGood == ASSUME IInv, NEW t \in Threads, Settle(t) PROVE Good
<1>1. calls[t].at = "settle" /\ Shape(t)
      /\ UNCHANGED <<now, turns, sent, inflight, asked, crashes>>
  BY DEF Settle, Ready, IInv, DInv, CallsShape
<1>2. PICK x \in Exchanges :
        /\ x = calls[t].exchange /\ exchanges[x] # None /\ exchanges[x].captured
        /\ calls[t].ok => Answers(x)
  BY <1>1 DEF Shape, Present, Evaluating
<1>3. RowShape(x) /\ exchanges[x].status \in {"evaluation_pending", "completed"}
  BY <1>2, RowOf DEF RowShape
<1>4. Alone(t, x)
  BY <1>2, <1>3, NotSendingAlone DEF IInv
<1>5. ASSUME NEW st \in {"evaluation_pending", "completed"}, SetStatusOf(x, st),
             Goto(t, "get"),
             st = "completed" => Answers(x),
             st = "evaluation_pending" => IndexAdmits(x)
      PROVE  Good
  <2>1. PICK e \in Record :
          /\ exchanges' = [exchanges EXCEPT ![x] = e] /\ exchanges'[x] = e /\ e # None
          /\ e.status = st /\ e.packet = exchanges[x].packet
          /\ e.ordinal = exchanges[x].ordinal /\ e.captured = exchanges[x].captured
    <3>1. st \in Statuses
      BY DEF Statuses
    <3>2. exchanges[x] # None /\ SetStatusOf(x, st)
      BY <1>2, <1>5
    <3> QED BY <3>1, <3>2, StatusRow
  <2>2. RowKept(x)
    BY <1>2, <1>3, <2>1 DEF RowKept
  <2>3. RowShape(x)'
    <3>1. (e.status \in Active /\ Asks(x) /\ ~Answers(x)) => AsksLast(x)
      BY <1>2, <1>3, <1>5, <2>1 DEF RowShape, Active
    <3>2. asked'[x] = asked[x] /\ turns' = turns
      BY <1>1
    <3> QED BY <1>2, <1>5, <2>1, <3>1, <3>2, StatusShape
  <2> QED BY <1>1, <1>4, <1>5, <2>1, <2>2, <2>3, RowGotoGood DEF Active
<1>6. CASE UNCHANGED exchanges /\ Return(t)
  BY <1>1, <1>6, ReturnedGood DEF Quiet
<1>7. CASE calls[t].ok /\ SetStatusOf(x, "completed") /\ Goto(t, "get")
  BY <1>2, <1>5, <1>7
<1>8. CASE ~calls[t].ok /\ IndexAdmits(x) /\ SetStatusOf(x, "evaluation_pending")
           /\ Goto(t, "get")
  BY <1>5, <1>8
<1> QED BY <1>2, <1>6, <1>7, <1>8 DEF Settle

\* Looking at a conversation calls its orphans unknown; nobody flies one.
LEMMA GetGood == ASSUME IInv, NEW t \in Threads, Get(t) PROVE Good
<1>1. calls[t].at = "get" /\ Shape(t) /\ Return(t)
      /\ UNCHANGED <<now, turns, sent, inflight, asked, crashes>>
  BY DEF Get, Ready, IInv, DInv, CallsShape
<1>2. PICK orphans : /\ orphans = Orphans(calls[t].session)
                     /\ exchanges' = [x \in Exchanges |->
                          IF x \in orphans THEN [exchanges[x] EXCEPT !.status = "unknown"]
                          ELSE exchanges[x]]
  BY DEF Get
<1>3. ASSUME NEW x \in Exchanges, x \in orphans
      PROVE  /\ exchanges[x] # None /\ exchanges[x].status = "sending" /\ x \notin inflight
             /\ \E e \in Record :
                  /\ exchanges'[x] = e /\ e # None /\ e.status = "unknown"
                  /\ e.packet = exchanges[x].packet
                  /\ e.ordinal = exchanges[x].ordinal /\ e.captured = exchanges[x].captured
  <2> DEFINE r == exchanges[x]
             e == [r EXCEPT !.status = "unknown"]
  <2>1. r # None /\ r.status = "sending" /\ x \notin inflight
    BY <1>2, <1>3 DEF Orphans
  <2>2. r \in Record
    BY <2>1, RowTyped DEF IInv
  <2>3. e \in Record
    BY <2>2, Zenon DEF Record, Statuses
  <2>4. /\ e.status = "unknown" /\ e.packet = r.packet
        /\ e.ordinal = r.ordinal /\ e.captured = r.captured
    BY <2>2 DEF Record
  <2>5. exchanges'[x] = e
    BY <1>2, <1>3, Zenon
  <2> HIDE DEF e
  <2>6. e # None
    BY <2>3, ExchangeAssumption
  <2> QED BY <2>1, <2>3, <2>4, <2>5, <2>6
<1>4. ASSUME NEW x \in Exchanges, x \notin orphans PROVE exchanges'[x] = exchanges[x]
  BY <1>2, <1>4
<1>5. ASSUME NEW x \in Exchanges
      PROVE  RowKept(x) /\ RowShape(x)' /\ exchanges'[x] \in Record \cup {None}
  <2>1. CASE x \in orphans
    <3>1. PICK e \in Record :
            /\ exchanges'[x] = e /\ e # None /\ e.status = "unknown"
            /\ e.packet = exchanges[x].packet
            /\ e.ordinal = exchanges[x].ordinal /\ e.captured = exchanges[x].captured
      BY <1>3, <2>1
    <3>2. exchanges[x] # None /\ exchanges[x].status = "sending" /\ ~exchanges[x].captured
      BY <1>3, <2>1, RowOf DEF RowShape
    <3>3. RowKept(x)
      BY <3>1, <3>2 DEF RowKept
    <3>4. RowShape(x)'
      <4>1. asked'[x] = asked[x] /\ turns' = turns
        BY <1>1
      <4> QED BY <3>1, <3>2, <4>1, StatusShape DEF Active
    <3> QED BY <3>1, <3>3, <3>4
  <2>2. CASE x \notin orphans
    <3>1. exchanges'[x] = exchanges[x]
      BY <1>4, <2>2
    <3>2. RowShape(x)'
      BY <1>1, <3>1, RowOf, RowSame
    <3> QED BY <3>1, <3>2 DEF RowKept, IInv, Typed
  <2> QED BY <2>1, <2>2
<1>6. RowsKept /\ RowsShape'
  BY <1>5 DEF RowsKept, RowsShape
<1>7. /\ Moves(t) /\ Shape(t)' /\ Release(t)
      /\ calls'[t].guard => calls[t].guard /\ calls'[t].exchange = calls[t].exchange
  BY <1>1, <1>6, ReturnShape DEF IInv, Return
<1>8. Typed'
  <2>1. exchanges' \in [Exchanges -> Record \cup {None}]
    <3>1. DOMAIN exchanges' = Exchanges /\ exchanges' = [x \in Exchanges |-> exchanges'[x]]
      BY <1>2
    <3> QED BY <1>5, <3>1
  <2>2. locks' \in [Locks -> Threads \cup {None}]
    BY <1>7, ReleaseTyped DEF IInv
  <2> QED BY <1>1, <1>7, <2>1, <2>2 DEF IInv, Typed, Moves
<1>9. HeldShape'
  BY <1>7, HeldAfter DEF IInv
<1>10. Keeps(t)
  <2>1. TurnsKept
    BY <1>1 DEF TurnsKept, HasTurn
  <2>2. FlightKept(t)
    BY <1>1, FlightSame
  <2>3. OthersKept(t)
    <3> SUFFICES ASSUME NEW u \in Threads, u # t, calls[u].at \in Own
                 PROVE  exchanges'[calls[u].exchange] = exchanges[calls[u].exchange]
      BY <1>1 DEF OthersKept
    <3>1. calls[u].exchange \in Exchanges /\ calls[u].exchange \in inflight
      BY OwnedRow
    <3>2. calls[u].exchange \notin orphans
      BY <1>3, <3>1
    <3> QED BY <1>4, <3>1, <3>2
  <2> QED BY <1>6, <1>7, <2>1, <2>2, <2>3 DEF Keeps
<1>11. OneActive'
  <2>1. ASSUME NEW x \in Exchanges, exchanges'[x] # None, exchanges'[x].status \in Active
        PROVE  exchanges[x] # None /\ exchanges[x].status \in Active
    <3>1. x \notin orphans
      BY <1>3, <2>1 DEF Active
    <3> QED BY <1>4, <2>1, <3>1
  <2> QED BY <2>1 DEF OneActive, IInv, DInv
<1>12. OneGuard'
  BY <1>7, OneGuardKept DEF IInv, DInv
<1>13. TurnsInOrder'
  BY <1>1 DEF IInv, DInv, TurnsInOrder
<1> QED BY <1>6, <1>7, <1>8, <1>9, <1>10, <1>11, <1>12, <1>13, Assemble

LEMMA DropGuardGood == ASSUME IInv, NEW t \in Threads, DropGuard(t) PROVE Good
<1>1. /\ calls[t].at = "drop" /\ Shape(t) /\ Release(t)
      /\ inflight' = inflight \ {calls[t].exchange}
      /\ calls' = [calls EXCEPT ![t] = NoCall]
      /\ UNCHANGED <<now, exchanges, turns, sent, asked, crashes>>
  BY DEF DropGuard, Ready, IInv, DInv, CallsShape, tables
<1>2. calls[t].guard
  BY <1>1 DEF Shape, Guarded
<1>3. Moves(t) /\ calls'[t] = NoCall
  BY <1>1, NoCallTyped DEF Moves, IInv, Typed
<1>4. RowsKept /\ TurnsKept
  BY <1>1 DEF RowsKept, RowKept, TurnsKept, HasTurn
<1>5. OthersKept(t)
  BY <1>1 DEF OthersKept
<1>6. FlightKept(t)
  <2> SUFFICES ASSUME NEW u \in Threads, u # t, calls[u].guard
               PROVE  calls[u].exchange \in inflight'
    BY DEF FlightKept
  <2>1. calls[u].exchange \in inflight
    BY DEF IInv, DInv, CallsShape, Shape, Guarded
  <2>2. calls[u].exchange # calls[t].exchange
    BY <1>2 DEF IInv, DInv, OneGuard
  <2> QED BY <1>1, <2>1, <2>2
<1>7. Shape(t)'
  <2>1. /\ calls'[t] = NoCall /\ calls'[t].at = "idle"
        /\ ~calls'[t].guard /\ ~calls'[t].ok
    BY <1>3 DEF NoCall
  <2> QED BY <2>1 DEF Shape, Preparing, Present, Guarded, Owning, Evaluating, Own
<1>8. Keeps(t)
  BY <1>3, <1>4, <1>5, <1>6 DEF Keeps
<1>9. RowsShape'
  BY <1>1, RowSame DEF IInv, DInv, RowsShape
<1>10. OneActive' /\ TurnsInOrder'
  BY <1>1 DEF IInv, DInv, OneActive, TurnsInOrder
<1>11. OneGuard'
  <2>1. ~calls'[t].guard
    BY <1>3 DEF NoCall
  <2> QED BY <1>3, <2>1, OneGuardKept DEF IInv, DInv
<1>12. Typed'
  <2>1. locks' \in [Locks -> Threads \cup {None}]
    BY <1>1, ReleaseTyped DEF IInv
  <2> QED BY <1>1, <1>3, <2>1 DEF IInv, Typed, Moves
<1>13. HeldShape'
  BY <1>1, <1>3, HeldAfter DEF IInv
<1> QED BY <1>7, <1>8, <1>9, <1>10, <1>11, <1>12, <1>13, Assemble

-----------------------------------------------------------------------------
(* The turns of a conversation *)

Appends(s, n) == turns' = [turns EXCEPT ![s] = Append(@, n)]

LEMMA AppendTurn ==
  ASSUME Typed, NEW s \in Sessions, NEW n \in Turn, Appends(s, n)
  PROVE  /\ turns' \in [Sessions -> Seq(Turn)]
         /\ \A q \in Sessions : q # s => turns'[q] = turns[q]
         /\ Len(turns[s]) \in Nat /\ Len(turns'[s]) = Len(turns[s]) + 1
         /\ \A i \in 1..Len(turns[s]) : turns'[s][i] = turns[s][i]
         /\ turns'[s][Len(turns[s]) + 1] = n
<1>1. turns[s] \in Seq(Turn) /\ turns \in [Sessions -> Seq(Turn)]
  BY DEF Typed
<1>2. /\ turns'[s] = Append(turns[s], n)
      /\ turns' = [turns EXCEPT ![s] = Append(turns[s], n)]
      /\ \A q \in Sessions : q # s => turns'[q] = turns[q]
  BY <1>1 DEF Appends
<1>3. /\ Append(turns[s], n) \in Seq(Turn)
      /\ Len(turns[s]) \in Nat /\ Len(Append(turns[s], n)) = Len(turns[s]) + 1
      /\ \A i \in 1..Len(turns[s]) : Append(turns[s], n)[i] = turns[s][i]
      /\ Append(turns[s], n)[Len(turns[s]) + 1] = n
  BY <1>1
<1>4. turns' \in [Sessions -> Seq(Turn)]
  BY <1>1, <1>2, <1>3
<1> QED BY <1>2, <1>3, <1>4

LEMMA AppendHasTurn ==
  ASSUME Typed, NEW s \in Sessions, NEW n \in Turn, Appends(s, n),
         NEW q \in Sessions, NEW x, NEW role
  PROVE  HasTurn(q, x, role)'
           <=> (HasTurn(q, x, role) \/ (q = s /\ n.exchange = x /\ n.role = role))
<1>1. CASE q # s
  <2>1. turns'[q] = turns[q]
    BY <1>1, AppendTurn
  <2> QED BY <1>1, <2>1 DEF HasTurn
<1>2. CASE q = s
  <2> DEFINE k == Len(turns[s])
  <2>1. /\ k \in Nat /\ Len(turns'[s]) = k + 1 /\ turns'[s][k + 1] = n
        /\ \A i \in 1..k : turns'[s][i] = turns[s][i]
    BY AppendTurn
  <2> HIDE DEF k
  <2>2. (\E i \in 1..(k + 1) : turns'[s][i].exchange = x /\ turns'[s][i].role = role)
          <=> \/ \E i \in 1..k : turns[s][i].exchange = x /\ turns[s][i].role = role
              \/ n.exchange = x /\ n.role = role
    <3>1. 1..(k + 1) = 1..k \cup {k + 1}
      BY <2>1
    <3> QED BY <2>1, <3>1, Zenon
  <2>3. HasTurn(s, x, role)'
          <=> \E i \in 1..(k + 1) : turns'[s][i].exchange = x /\ turns'[s][i].role = role
    BY <2>1, Zenon DEF HasTurn
  <2>4. HasTurn(s, x, role)
          <=> \E i \in 1..k : turns[s][i].exchange = x /\ turns[s][i].role = role
    BY Zenon DEF HasTurn, k
  <2> QED BY <1>2, <2>2, <2>3, <2>4, Zenon
<1> QED BY <1>1, <1>2, Zenon

LEMMA AppendTurnsKept ==
  ASSUME Typed, NEW s \in Sessions, NEW n \in Turn, Appends(s, n)
  PROVE  TurnsKept
BY AppendHasTurn DEF TurnsKept

\* A turn of another exchange leaves what a row says of its own, unless the row
\* is active and waits for the last turn of its conversation.
LEMMA AppendElsewhere ==
  ASSUME IInv, NEW s \in Sessions, NEW n \in Turn, Appends(s, n),
         NEW x \in Exchanges, n.exchange # x, exchanges' = exchanges, asked' = asked,
         exchanges[x] # None => exchanges[x].status \notin Active
  PROVE  RowShape(x)'
<1>1. NoTurn(x) => NoTurn(x)'
  <2> SUFFICES ASSUME NoTurn(x), NEW q \in Sessions, NEW i \in 1..Len(turns'[q])
               PROVE  turns'[q][i].exchange # x
    BY DEF NoTurn
  <2>1. CASE q # s
    <3>1. turns'[q] = turns[q]
      BY <2>1, AppendTurn DEF IInv
    <3> QED BY <3>1 DEF NoTurn
  <2>2. CASE q = s
    <3> DEFINE k == Len(turns[s])
    <3>1. /\ k \in Nat /\ Len(turns'[s]) = k + 1 /\ turns'[s][k + 1] = n
          /\ \A j \in 1..k : turns'[s][j] = turns[s][j]
      BY AppendTurn DEF IInv
    <3>2. \A j \in 1..k : turns[s][j].exchange # x
      BY Zenon DEF NoTurn
    <3> HIDE DEF k
    <3>3. i \in 1..k \/ i = k + 1
      BY <2>2, <3>1
    <3> QED BY <2>2, <3>1, <3>2, <3>3, Zenon
  <2> QED BY <2>1, <2>2
<1>2. ASSUME exchanges[x] # None
      PROVE  Asks(x)' = Asks(x) /\ Answers(x)' = Answers(x)
  <2>1. PICK q \in Sessions : q = exchanges[x].packet.session
    BY <1>2, RowTyped DEF IInv
  <2>2. HasTurn(q, x, "user")' <=> HasTurn(q, x, "user")
    BY AppendHasTurn DEF IInv
  <2>3. HasTurn(q, x, "assistant")' <=> HasTurn(q, x, "assistant")
    BY AppendHasTurn DEF IInv
  <2>4. Asks(x)' = HasTurn(q, x, "user")' /\ Asks(x) = HasTurn(q, x, "user")
    BY <2>1, Zenon DEF Asks, HasTurn
  <2>5. Answers(x)' = HasTurn(q, x, "assistant")' /\ Answers(x) = HasTurn(q, x, "assistant")
    BY <2>1, Zenon DEF Answers, HasTurn
  <2>6. HasTurn(q, x, "user")' = HasTurn(q, x, "user")
    BY <2>2, Zenon DEF HasTurn
  <2>7. HasTurn(q, x, "assistant")' = HasTurn(q, x, "assistant")
    BY <2>3, Zenon DEF HasTurn
  <2> QED BY <2>4, <2>5, <2>6, <2>7, Zenon
<1>3. RowShape(x)
  BY RowOf
<1>4. CASE exchanges[x] = None
  BY <1>1, <1>3, <1>4 DEF RowShape
<1>5. CASE exchanges[x] # None
  BY <1>1, <1>2, <1>3, <1>5 DEF RowShape
<1> QED BY <1>4, <1>5

\* The order of a conversation is kept by a turn that may follow its last one.
LEMMA AppendInOrder ==
  ASSUME IInv, NEW s \in Sessions, NEW n \in Turn, Appends(s, n),
         turns[s] # <<>> => /\ turns[s][Len(turns[s])].ordinal < n.ordinal
                            /\ n.role = "assistant" =>
                                 /\ turns[s][Len(turns[s])].role = "user"
                                 /\ turns[s][Len(turns[s])].exchange = n.exchange
  PROVE  TurnsInOrder'
<1> SUFFICES ASSUME NEW q \in Sessions, NEW i \in 2..Len(turns'[q])
             PROVE  /\ turns'[q][i-1].ordinal < turns'[q][i].ordinal
                    /\ turns'[q][i].role = "assistant" =>
                         /\ turns'[q][i-1].role = "user"
                         /\ turns'[q][i-1].exchange = turns'[q][i].exchange
  BY DEF TurnsInOrder
<1>1. TurnsInOrder
  BY DEF IInv, DInv
<1>2. CASE q # s
  <2>1. turns'[q] = turns[q]
    BY <1>2, AppendTurn DEF IInv
  <2> QED BY <1>1, <2>1 DEF TurnsInOrder
<1>3. CASE q = s
  <2> DEFINE k == Len(turns[s])
  <2>1. /\ k \in Nat /\ Len(turns'[s]) = k + 1 /\ turns'[s][k + 1] = n
        /\ \A j \in 1..k : turns'[s][j] = turns[s][j]
    BY AppendTurn DEF IInv
  <2>2. i \in 2..k \/ (i = k + 1 /\ k >= 1)
    BY <1>3, <2>1
  <2>3. CASE i \in 2..k
    <3>1. i - 1 \in 1..k /\ i \in 1..k
      BY <2>1, <2>3
    <3>2. turns'[s][i-1] = turns[s][i-1] /\ turns'[s][i] = turns[s][i]
      BY <2>1, <3>1
    <3> QED BY <1>1, <1>3, <2>3, <3>2 DEF TurnsInOrder
  <2>4. CASE i = k + 1 /\ k >= 1
    <3>1. i - 1 = k /\ k \in 1..k
      BY <2>1, <2>4
    <3>2. turns'[s][i-1] = turns[s][k] /\ turns'[s][i] = n
      BY <2>1, <2>4, <3>1
    <3>3. turns[s] # <<>>
      BY <2>4
    <3> QED BY <1>3, <3>2, <3>3
  <2> QED BY <2>2, <2>3, <2>4
<1> QED BY <1>2, <1>3

\* While one exchange is active no other call is between claim and outcome.
LEMMA OnlyOwner ==
  ASSUME IInv, NEW t \in Threads, NEW x \in Exchanges, exchanges[x] # None,
         exchanges[x].status \in Active, Alone(t, x)
  PROVE  /\ \A u \in Threads : u # t => calls[u].at \notin Own
         /\ \A y \in Exchanges : (y # x /\ exchanges[y] # None)
                                 => exchanges[y].status \notin Active
<1>1. \A y \in Exchanges : (y # x /\ exchanges[y] # None) => exchanges[y].status \notin Active
  BY DEF IInv, DInv, OneActive
<1>2. ASSUME NEW u \in Threads, u # t, calls[u].at \in Own PROVE FALSE
  <2>1. PICK y \in Exchanges : y = calls[u].exchange /\ exchanges[y] # None
                               /\ exchanges[y].status = "sending"
    BY <1>2, OwnedRow
  <2>2. y # x
    BY <1>2, <2>1 DEF Alone
  <2> QED BY <1>1, <2>1, <2>2 DEF Active
<1> QED BY <1>1, <1>2

\* The one active exchange of the project gets a turn.
LEMMA TurnGood ==
  ASSUME IInv, NEW t \in Threads, NEW x \in Exchanges, NEW s \in Sessions, NEW n \in Turn,
         n.exchange = x, Appends(s, n),
         UNCHANGED <<now, exchanges, sent, inflight, asked, crashes>>,
         exchanges[x] # None, exchanges[x].status \in Active, Alone(t, x),
         Moves(t), Shape(t)', RowShape(x)', TurnsInOrder',
         calls'[t].guard => calls[t].guard /\ calls'[t].exchange = calls[t].exchange,
         locks' \in [Locks -> Threads \cup {None}], HeldShape'
  PROVE  Good
<1>1. /\ \A u \in Threads : u # t => calls[u].at \notin Own
      /\ \A y \in Exchanges : (y # x /\ exchanges[y] # None)
                              => exchanges[y].status \notin Active
  BY OnlyOwner
<1>2. Typed'
  <2>1. turns' \in [Sessions -> Seq(Turn)]
    BY AppendTurn DEF IInv
  <2> QED BY <2>1 DEF IInv, Typed, Moves
<1>3. RowsKept
  BY DEF RowsKept, RowKept
<1>4. TurnsKept
  BY AppendTurnsKept DEF IInv
<1>5. OthersKept(t)
  BY <1>1 DEF OthersKept
<1>6. Keeps(t)
  BY <1>3, <1>4, <1>5, FlightSame DEF Keeps
<1>7. RowsShape'
  <2> SUFFICES ASSUME NEW y \in Exchanges PROVE RowShape(y)'
    BY DEF RowsShape
  <2>1. CASE y # x
    BY <1>1, <2>1, AppendElsewhere
  <2> QED BY <2>1
<1>8. OneActive'
  BY DEF IInv, DInv, OneActive
<1>9. OneGuard'
  BY OneGuardKept DEF IInv, DInv
<1> QED BY <1>2, <1>6, <1>7, <1>8, <1>9, Assemble

\* The user's turn takes the ordinal the preview promised.
LEMMA BindGood == ASSUME IInv, NEW t \in Threads, Bind(t) PROVE Good
<1>1. /\ calls[t].at = "bind" /\ Shape(t)
      /\ UNCHANGED <<now, exchanges, sent, inflight, asked, crashes>>
      /\ calls' = [calls EXCEPT ![t].at = "mark"]
      /\ locks' = [locks EXCEPT !["store"] = t]
  BY Zenon DEF Bind, Ready, IInv, DInv, CallsShape
<1>2. PICK x \in Exchanges : x = calls[t].exchange
  BY <1>1, OwnedRow DEF Own
<1>3. /\ exchanges[x] # None /\ exchanges[x].status = "sending" /\ ~exchanges[x].captured
      /\ calls[t].guard /\ ~calls[t].ok /\ x \in inflight /\ Alone(t, x)
  BY <1>1, <1>2, OwnedRow DEF Own
<1>4. PICK s \in Sessions, o \in Nat :
        s = exchanges[x].packet.session /\ o = exchanges[x].ordinal
  BY <1>3, RowTyped DEF IInv
<1>5. asked[x] = 0 /\ NoTurn(x) /\ NextOrdinal(s) = o
  BY <1>1, <1>2, <1>4 DEF Shape, Owning
<1>6. ~HasTurn(s, x, "user")
  BY <1>5 DEF NoTurn, HasTurn
<1> DEFINE n == [exchange |-> x, role |-> "user", ordinal |-> o]
<1>7. n \in Turn /\ n.exchange = x /\ n.role = "user" /\ n.ordinal = o
  BY DEF Turn
<1>8. Appends(s, n)
  BY <1>2, <1>4, <1>6, Zenon DEF Bind, Appends
<1> HIDE DEF n
<1>9. /\ Moves(t)
      /\ calls'[t].at = "mark" /\ calls'[t].exchange = x
      /\ calls'[t].guard /\ ~calls'[t].ok
  <2>1. "mark" \in DOMAIN Sections /\ calls \in [Threads -> Call]
    BY SectionNames DEF IInv, Typed
  <2> QED BY <1>1, <1>2, <1>3, <2>1, GotoCall
<1>10. Asks(x)'
  <2>1. HasTurn(s, x, "user")'
    BY <1>7, <1>8, AppendHasTurn DEF IInv
  <2>2. exchanges'[x].packet.session = s
    BY <1>1, <1>4
  <2> QED BY <2>1, <2>2, Zenon DEF Asks, HasTurn
<1>11. RowShape(x)'
  <2>1. AsksLast(x)'
    <3>1. /\ Len(turns[s]) \in Nat /\ Len(turns'[s]) = Len(turns[s]) + 1
          /\ turns'[s][Len(turns[s]) + 1] = n
      BY <1>7, <1>8, AppendTurn DEF IInv
    <3>2. turns'[s] # <<>> /\ turns'[s][Len(turns'[s])] = n
      BY <3>1
    <3>3. exchanges'[x].packet.session = s /\ exchanges'[x].ordinal = o
      BY <1>1, <1>4
    <3> QED BY <3>2, <3>3, Zenon DEF AsksLast, n
  <2>2. asked'[x] = 0
    BY <1>1, <1>5
  <2>3. exchanges'[x] # None /\ exchanges'[x].status = "sending" /\ ~exchanges'[x].captured
    BY <1>1, <1>3
  <2> QED BY <2>1, <2>2, <2>3 DEF RowShape
<1>12. Shape(t)'
  <2>1. asked'[x] = 0 /\ exchanges'[x] # None /\ exchanges'[x].status = "sending"
        /\ x \in inflight'
    BY <1>1, <1>3, <1>5
  <2>2. Owning(t)'
    BY <1>9, <1>10, <2>1, OwningThen DEF Own
  <2> QED BY <1>9, <2>1, <2>2, OwnShape DEF Own
<1>13. TurnsInOrder'
  <2>1. ASSUME turns[s] # <<>> PROVE turns[s][Len(turns[s])].ordinal < n.ordinal
    <3>1. turns[s][Len(turns[s])].ordinal + 1 = o
      BY <1>5, <2>1 DEF NextOrdinal
    <3>2. turns[s][Len(turns[s])].ordinal \in Nat
      <4>1. turns[s] \in Seq(Turn) /\ Len(turns[s]) \in 1..Len(turns[s])
        BY <2>1 DEF IInv, Typed
      <4>2. turns[s][Len(turns[s])] \in Turn
        BY <4>1
      <4> QED BY <4>2 DEF Turn
    <3> QED BY <1>7, <3>1, <3>2
  <2> QED BY <1>7, <1>8, <2>1, AppendInOrder
<1>14. locks' \in [Locks -> Threads \cup {None}]
  BY <1>1 DEF IInv, Typed
<1>15. HeldShape'
  BY BoundShape DEF IInv
<1>16. exchanges[x].status \in Active
  BY <1>3 DEF Active
<1>17. calls'[t].guard => calls[t].guard /\ calls'[t].exchange = calls[t].exchange
  BY <1>2, <1>3, <1>9
<1>18. UNCHANGED <<now, exchanges, sent, inflight, asked, crashes>>
  BY <1>1
<1> QED BY <1>3, <1>7, <1>8, <1>9, <1>11, <1>12, <1>13, <1>14, <1>15, <1>16, <1>17,
           <1>18, TurnGood

\* A response directly follows the turn it answers: nobody else could append
\* while the exchange was active.
LEMMA EvaluateTurnGood == ASSUME IInv, NEW t \in Threads, EvaluateTurn(t) PROVE Good
<1> DEFINE c == calls[t]
<1>1. /\ c \in Call /\ c.at = "evaluate" /\ Shape(t) /\ Release(t)
      /\ UNCHANGED <<now, exchanges, sent, inflight, asked, crashes>>
  <2>1. /\ c.at = "evaluate" /\ Release(t)
        /\ UNCHANGED <<now, exchanges, sent, inflight, asked, crashes>>
    BY Zenon DEF EvaluateTurn, Ready
  <2> QED BY <2>1 DEF IInv, Typed, DInv, CallsShape
<1>2. PICK x \in Exchanges : /\ x = c.exchange /\ exchanges[x] # None
                             /\ exchanges[x].captured /\ ~c.ok
  BY <1>1 DEF Shape, Present, Evaluating
<1>3. PICK s \in Sessions, o \in Nat :
        s = exchanges[x].packet.session /\ o = exchanges[x].ordinal
  BY <1>2, RowTyped DEF IInv
<1>4. RowShape(x) /\ exchanges[x].status \in {"evaluation_pending", "completed"}
  BY <1>2, RowOf DEF RowShape
<1> DEFINE n == [exchange |-> x, role |-> "assistant", ordinal |-> o + 1]
           D(ok) == [c EXCEPT !.at = "settle", !.ok = ok]
<1>5. n \in Turn /\ n.exchange = x /\ n.role = "assistant" /\ n.ordinal = o + 1
  BY DEF Turn
<1>6. \/ turns' = turns /\ calls' = [calls EXCEPT ![t] = D(FALSE)]
      \/ \E ok \in BOOLEAN :
           /\ calls' = [calls EXCEPT ![t] = D(ok)]
           /\ \/ HasTurn(s, x, "assistant") /\ turns' = turns
              \/ ~HasTurn(s, x, "assistant") /\ Appends(s, n)
  <2>1. CASE turns' = turns /\ calls' = [calls EXCEPT ![t].at = "settle"]
    <3>1. D(FALSE) = [c EXCEPT !.at = "settle"]
      BY <1>1, <1>2 DEF Call
    <3>2. calls' = [calls EXCEPT ![t] = [c EXCEPT !.at = "settle"]]
      BY <2>1, Zenon
    <3> QED BY <2>1, <3>1, <3>2, Zenon
  <2>2. ASSUME NEW ok \in BOOLEAN,
               calls' = [calls EXCEPT ![t].at = "settle", ![t].ok = ok],
               turns' = IF HasTurn(s, x, "assistant") THEN turns
                        ELSE [turns EXCEPT ![s] = Append(@, n)]
        PROVE  /\ calls' = [calls EXCEPT ![t] = D(ok)]
               /\ \/ HasTurn(s, x, "assistant") /\ turns' = turns
                  \/ ~HasTurn(s, x, "assistant") /\ Appends(s, n)
    <3>1. calls' = [calls EXCEPT ![t] = D(ok)]
      BY <2>2, Zenon
    <3> QED BY <2>2, <3>1, Zenon DEF Appends
  <2>3. \/ turns' = turns /\ calls' = [calls EXCEPT ![t].at = "settle"]
        \/ /\ turns' = IF HasTurn(s, x, "assistant") THEN turns
                       ELSE [turns EXCEPT ![s] = Append(@, n)]
           /\ \E ok \in BOOLEAN : calls' = [calls EXCEPT ![t].at = "settle", ![t].ok = ok]
    BY <1>2, <1>3, Zenon DEF EvaluateTurn
  <2> QED BY <2>1, <2>2, <2>3, Zenon
<1>7. PICK ok \in BOOLEAN :
        /\ calls' = [calls EXCEPT ![t] = D(ok)]
        /\ \/ turns' = turns /\ (ok => HasTurn(s, x, "assistant"))
           \/ ~HasTurn(s, x, "assistant") /\ Appends(s, n)
  BY <1>6, Zenon
<1> DEFINE d == D(ok)
<1>8. /\ d \in Call /\ d.at = "settle" /\ d.exchange = c.exchange /\ d.guard = c.guard
      /\ d.ok = ok
  <2>1. "settle" \in DOMAIN Sections
    BY SectionNames
  <2>2. d \in Call
    BY <1>1, <2>1, Zenon DEF Call
  <2> QED BY <1>1, <2>2 DEF Call
<1>9. Moves(t) /\ calls'[t] = d
  <2> HIDE DEF D
  <2> QED BY <1>7, <1>8 DEF Moves, IInv, Typed
<1> HIDE DEF D, d, n
<1>10. calls'[t].guard => calls[t].guard /\ calls'[t].exchange = calls[t].exchange
  BY <1>8, <1>9
<1>11. ASSUME ok => HasTurn(s, x, "assistant")' PROVE Shape(t)'
  <2>1. /\ calls'[t].at = "settle" /\ calls'[t].exchange = x /\ calls'[t].ok = ok
        /\ exchanges'[x] # None /\ exchanges'[x].captured
        /\ exchanges'[x].packet.session = s
    BY <1>1, <1>2, <1>3, <1>8, <1>9
  <2>2. Guarded(t)'
    <3>1. /\ calls'[t].at = "settle" /\ calls'[t].guard = c.guard
          /\ calls'[t].exchange = c.exchange
          /\ exchanges' = exchanges /\ inflight' = inflight
      BY <1>1, <1>8, <1>9
    <3> QED BY <1>1, <3>1 DEF Shape, Guarded, Own
  <2>3. Evaluating(t)'
    <3>1. ok => Answers(calls[t].exchange)'
      BY <1>11, <2>1, Zenon DEF Answers, HasTurn
    <3> QED BY <2>1, <3>1 DEF Evaluating
  <2> QED BY <2>1, <2>2, <2>3 DEF Shape, Preparing, Present, Owning, Own
<1>12. CASE turns' = turns /\ (ok => HasTurn(s, x, "assistant"))
  <2>1. Quiet /\ UNCHANGED <<now, crashes>>
    BY <1>1, <1>12 DEF Quiet
  <2>2. ok => HasTurn(s, x, "assistant")'
    BY <1>12, Zenon DEF HasTurn
  <2> QED BY <1>1, <1>9, <1>10, <1>11, <2>1, <2>2, LookedGood
<1>13. CASE ~HasTurn(s, x, "assistant") /\ Appends(s, n)
  <2>1. ~Answers(x) /\ Asks(x)
    BY <1>2, <1>3, <1>4, <1>13 DEF RowShape, Answers
  <2>2. exchanges[x].status = "evaluation_pending" /\ AsksLast(x)
    BY <1>2, <1>4, <2>1 DEF RowShape, Active
  <2>3. Alone(t, x)
    BY <2>2, NotSendingAlone DEF IInv
  <2>4. HasTurn(s, x, "assistant")'
    BY <1>5, <1>13, AppendHasTurn DEF IInv
  <2>5. Shape(t)'
    BY <1>11, <2>4
  <2>6. RowShape(x)'
    <3>1. HasTurn(s, x, "user")'
      <4>1. HasTurn(s, x, "user")
        BY <1>3, <2>1 DEF Asks
      <4> QED BY <1>5, <1>13, <4>1, AppendHasTurn DEF IInv
    <3>2. /\ exchanges'[x] = exchanges[x] /\ asked'[x] = asked[x]
          /\ exchanges'[x].packet.session = s
      BY <1>1, <1>3
    <3>3. Answers(x)' /\ Asks(x)'
      BY <2>4, <3>1, <3>2, Zenon DEF Answers, Asks, HasTurn
    <3> QED BY <1>2, <1>4, <2>2, <3>2, <3>3 DEF RowShape
  <2>7. TurnsInOrder'
    <3>1. turns[s][Len(turns[s])] = [exchange |-> x, role |-> "user", ordinal |-> o]
      BY <1>3, <2>2, Zenon DEF AsksLast
    <3>2. /\ turns[s][Len(turns[s])].ordinal < n.ordinal
          /\ turns[s][Len(turns[s])].role = "user"
          /\ turns[s][Len(turns[s])].exchange = n.exchange
      BY <1>5, <3>1
    <3> QED BY <1>5, <1>13, <3>2, AppendInOrder
  <2>8. locks' \in [Locks -> Threads \cup {None}] /\ HeldShape'
    BY <1>1, <1>9, ReleaseTyped, HeldAfter DEF IInv
  <2>9. exchanges[x].status \in Active
    BY <2>2 DEF Active
  <2>10. UNCHANGED <<now, exchanges, sent, inflight, asked, crashes>>
    BY <1>1
  <2> QED BY <1>2, <1>5, <1>9, <1>10, <1>13, <2>3, <2>5, <2>6, <2>7, <2>8, <2>9, <2>10,
             TurnGood
<1>14. \/ turns' = turns /\ (ok => HasTurn(s, x, "assistant"))
       \/ ~HasTurn(s, x, "assistant") /\ Appends(s, n)
  BY <1>7
<1> QED BY <1>12, <1>13, <1>14

-----------------------------------------------------------------------------
(* The binding of the packet and the request *)

\* The packet is bound to the turn of this exchange and to no other.
LEMMA MarkGood == ASSUME IInv, NEW t \in Threads, Mark(t) PROVE Good
<1>1. /\ calls[t].at = "mark" /\ Shape(t) /\ Goto(t, "ask")
      /\ UNCHANGED <<now, exchanges, turns, inflight, asked, crashes>>
  BY Zenon DEF Mark, Ready, IInv, DInv, CallsShape
<1>2. PICK x \in Exchanges : x = calls[t].exchange
  BY <1>1, OwnedRow DEF Own
<1>3. /\ exchanges[x] # None /\ exchanges[x].status = "sending"
      /\ calls[t].guard /\ ~calls[t].ok /\ x \in inflight /\ Alone(t, x)
  BY <1>1, <1>2, OwnedRow DEF Own
<1>4. PICK p \in Packet : p = exchanges[x].packet
  BY <1>3, RowTyped DEF IInv, Record
<1>5. BoundTo(p) \subseteq {x} /\ sent' = sent \cup {[packet |-> p, exchange |-> x]}
  BY <1>2, <1>4, Zenon DEF Mark
<1>6. asked[x] = 0 /\ Asks(x)
  BY <1>1, <1>2 DEF Shape, Owning
<1>7. BoundTo(p)' = {x}
  <2> DEFINE b == [packet |-> p, exchange |-> x]
  <2>1. b.packet = p /\ b.exchange = x
    OBVIOUS
  <2>2. ASSUME NEW y PROVE y \in BoundTo(p)' <=> y \in BoundTo(p) \/ y = x
    <3> HIDE DEF b
    <3> QED BY <1>5, <2>1 DEF BoundTo, b
  <2> QED BY <1>5, <2>2
<1>8. /\ Moves(t) /\ Release(t)
      /\ calls'[t].at = "ask" /\ calls'[t].exchange = x
      /\ calls'[t].guard /\ ~calls'[t].ok
  <2>1. "ask" \in DOMAIN Sections /\ calls \in [Threads -> Call]
    BY SectionNames DEF IInv, Typed
  <2>2. calls' = [calls EXCEPT ![t].at = "ask"] /\ Release(t)
    BY <1>1 DEF Goto
  <2> QED BY <1>2, <1>3, <2>1, <2>2, GotoCall
<1>9. Shape(t)'
  <2>1. asked'[x] = 0 /\ exchanges'[x] # None /\ exchanges'[x].status = "sending"
        /\ x \in inflight' /\ exchanges'[x].packet = p
    BY <1>1, <1>3, <1>4, <1>6
  <2>2. Asks(x)'
    BY <1>1, <1>6, SameTurns
  <2>3. BoundTo(exchanges[x].packet)' = {x}
    BY <1>7, <2>1, Zenon DEF BoundTo
  <2>4. Owning(t)'
    BY <1>8, <2>1, <2>2, <2>3, OwningThen DEF Own
  <2> QED BY <1>8, <2>1, <2>4, OwnShape DEF Own
<1>10. Typed'
  <2>1. sent' \in SUBSET [packet : Packet, exchange : Exchanges]
    BY <1>5 DEF IInv, Typed
  <2>2. locks' \in [Locks -> Threads \cup {None}]
    BY <1>8, ReleaseTyped DEF IInv
  <2> QED BY <1>1, <1>8, <2>1, <2>2 DEF IInv, Typed, Moves
<1>11. HeldShape'
  BY <1>8, HeldAfter DEF IInv
<1>12. Keeps(t)
  <2>1. RowsKept /\ TurnsKept
    BY <1>1 DEF RowsKept, RowKept, TurnsKept, HasTurn
  <2>2. exchanges[x].status \in Active
    BY <1>3 DEF Active
  <2>3. OthersKept(t)
    BY <1>3, <2>2, OnlyOwner DEF OthersKept
  <2>4. FlightKept(t)
    BY <1>1, FlightSame
  <2> QED BY <1>8, <2>1, <2>3, <2>4 DEF Keeps
<1>13. RowsShape'
  BY <1>1, RowSame DEF IInv, DInv, RowsShape
<1>14. OneActive' /\ TurnsInOrder'
  BY <1>1 DEF IInv, DInv, OneActive, TurnsInOrder
<1>15. OneGuard'
  BY <1>2, <1>3, <1>8, OneGuardKept DEF IInv, DInv
<1> QED BY <1>9, <1>10, <1>11, <1>12, <1>13, <1>14, <1>15, Assemble

\* The one request of the exchange.
LEMMA AskGood == ASSUME IInv, NEW t \in Threads, Ask(t) PROVE Good
<1>1. /\ calls[t].at = "ask" /\ Shape(t) /\ Goto(t, "generate")
      /\ asked' = [asked EXCEPT ![calls[t].exchange] = @ + 1]
      /\ UNCHANGED <<now, exchanges, turns, sent, inflight, crashes>>
  BY Zenon DEF Ask, Ready, IInv, DInv, CallsShape, tables
<1>2. PICK x \in Exchanges : x = calls[t].exchange
  BY <1>1, OwnedRow DEF Own
<1>3. /\ exchanges[x] # None /\ exchanges[x].status = "sending" /\ ~exchanges[x].captured
      /\ calls[t].guard /\ ~calls[t].ok /\ x \in inflight /\ Alone(t, x)
  BY <1>1, <1>2, OwnedRow DEF Own
<1>4. asked[x] = 0 /\ Asks(x) /\ BoundTo(exchanges[x].packet) = {x}
  BY <1>1, <1>2 DEF Shape, Owning
<1>5. /\ asked' \in [Exchanges -> Nat] /\ asked'[x] = 1
      /\ \A y \in Exchanges : y # x => asked'[y] = asked[y]
  BY <1>1, <1>2, <1>4 DEF IInv, Typed
<1>6. /\ Moves(t) /\ Release(t)
      /\ calls'[t].at = "generate" /\ calls'[t].exchange = x
      /\ calls'[t].guard /\ ~calls'[t].ok
  <2>1. "generate" \in DOMAIN Sections /\ calls \in [Threads -> Call]
    BY SectionNames DEF IInv, Typed
  <2>2. calls' = [calls EXCEPT ![t].at = "generate"] /\ Release(t)
    BY <1>1 DEF Goto
  <2> QED BY <1>2, <1>3, <2>1, <2>2, GotoCall
<1>7. /\ Asks(x)' = Asks(x) /\ Answers(x)' = Answers(x)
      /\ NoTurn(x)' = NoTurn(x) /\ AsksLast(x)' = AsksLast(x)
  BY <1>1, SameTurns
<1>8. Shape(t)'
  <2>1. exchanges'[x] # None /\ exchanges'[x].status = "sending" /\ x \in inflight'
    BY <1>1, <1>3
  <2>2. Asks(x)'
    BY <1>4, <1>7
  <2>3. BoundTo(exchanges[x].packet)' = {x}
    <3>1. BoundTo(exchanges[x].packet)' = BoundTo(exchanges[x].packet)
      BY <1>1, Zenon DEF BoundTo
    <3> QED BY <1>4, <3>1
  <2>4. Owning(t)'
    BY <1>6, <2>1, <2>2, <2>3, OwningThen DEF Own
  <2> QED BY <1>6, <2>1, <2>4, OwnShape DEF Own
<1>9. Typed'
  <2>1. locks' \in [Locks -> Threads \cup {None}]
    BY <1>6, ReleaseTyped DEF IInv
  <2> QED BY <1>1, <1>5, <1>6, <2>1 DEF IInv, Typed, Moves
<1>10. HeldShape'
  BY <1>6, HeldAfter DEF IInv
<1>11. Keeps(t)
  <2>1. RowsKept /\ TurnsKept
    BY <1>1 DEF RowsKept, RowKept, TurnsKept, HasTurn
  <2>2. exchanges[x].status \in Active
    BY <1>3 DEF Active
  <2>3. OthersKept(t)
    BY <1>3, <2>2, OnlyOwner DEF OthersKept
  <2>4. FlightKept(t)
    BY <1>1, FlightSame
  <2> QED BY <1>6, <2>1, <2>3, <2>4 DEF Keeps
<1>12. RowsShape'
  <2> SUFFICES ASSUME NEW y \in Exchanges PROVE RowShape(y)'
    BY DEF RowsShape
  <2>1. CASE y # x
    <3>1. exchanges'[y] = exchanges[y] /\ asked'[y] = asked[y] /\ turns' = turns
      BY <1>1, <1>5, <2>1
    <3> QED BY <3>1, RowOf, RowSame
  <2>2. CASE y = x
    <3>1. RowShape(x)
      BY RowOf
    <3>2. exchanges'[x] = exchanges[x]
      BY <1>1
    <3>3. RowShape(x)'
      BY <1>3, <1>5, <1>7, <3>1, <3>2 DEF RowShape
    <3> QED BY <2>2, <3>3
  <2> QED BY <2>1, <2>2
<1>13. OneActive' /\ TurnsInOrder'
  BY <1>1 DEF IInv, DInv, OneActive, TurnsInOrder
<1>14. OneGuard'
  BY <1>2, <1>3, <1>6, OneGuardKept DEF IInv, DInv
<1> QED BY <1>8, <1>9, <1>10, <1>11, <1>12, <1>13, <1>14, Assemble

-----------------------------------------------------------------------------
(* The rest of the system, and the theorems *)

\* Nothing but the present moment moves.
LEMMA StillGood ==
  ASSUME IInv, now' \in Moments,
         UNCHANGED <<tables, inflight, locks, calls, asked, crashes>>
  PROVE  Good
<1>1. Quiet /\ calls' = calls /\ locks' = locks /\ crashes' = crashes
  BY DEF Quiet, tables
<1>2. Typed'
  BY <1>1 DEF IInv, Typed, Quiet
<1>3. HeldShape'
  BY <1>1 DEF IInv, HeldShape, Held, Order
<1>4. RowsKept
  BY <1>1 DEF RowsKept, RowKept, Quiet
<1>5. CallsShape'
  <2> SUFFICES ASSUME NEW t \in Threads PROVE Shape(t)'
    BY DEF CallsShape
  <2>1. Shape(t)
    BY DEF IInv, DInv, CallsShape
  <2> QED BY <1>1, <2>1, SameShape
<1>6. OneGuard'
  BY <1>1 DEF IInv, DInv, OneGuard
<1>7. RowsShape' /\ OneActive' /\ TurnsInOrder'
  BY <1>1, QuietTables DEF IInv, DInv
<1> QED BY <1>2, <1>3, <1>4, <1>5, <1>6, <1>7 DEF Good, DInv

LEMMA MoveGood == ASSUME IInv, Move PROVE Good
<1>1. now' \in Moments
  <2>1. now \in Moments
    BY DEF IInv, Typed
  <2>2. PICK f \in {"state", "head"} :
          now[f] < MaxMoves /\ now' = [now EXCEPT ![f] = @ + 1]
    BY DEF Move
  <2>3. now[f] + 1 \in 0..MaxMoves
    BY <2>1, <2>2, ExchangeAssumption DEF Moments
  <2> QED BY <2>1, <2>2, <2>3 DEF Moments
<1> QED BY <1>1, StillGood DEF Move

\* The daemon stops: the tables stay as they are, and nobody holds anything.
LEMMA CrashGood == ASSUME IInv, Crash PROVE Good
<1>1. /\ crashes < MaxCrashes /\ crashes' = crashes + 1
      /\ inflight' = {} /\ locks' = [l \in Locks |-> None]
      /\ calls' = [t \in Threads |-> NoCall]
      /\ UNCHANGED <<now, exchanges, turns, sent, asked>>
  BY DEF Crash, tables
<1>2. Typed'
  BY <1>1, NoCallTyped, ExchangeAssumption DEF IInv, Typed
<1>3. HeldShape'
  <2> SUFFICES ASSUME NEW t \in Threads PROVE Held(t)' \in Prefixes(Order(t)')
    BY DEF HeldShape
  <2>1. Held(t)' = {}
    BY <1>1, ExchangeAssumption DEF Held
  <2>2. Order(t)' = Sections["idle"] /\ "idle" \in DOMAIN Sections
    BY <1>1, SectionNames DEF Order, NoCall
  <2> QED BY <2>1, <2>2, EmptyIsPrefix
<1>4. RowsKept
  BY <1>1 DEF RowsKept, RowKept
<1>5. CallsShape'
  <2> SUFFICES ASSUME NEW t \in Threads PROVE Shape(t)'
    BY DEF CallsShape
  <2>1. /\ calls'[t] = NoCall /\ calls'[t].at = "idle"
        /\ ~calls'[t].guard /\ ~calls'[t].ok
    BY <1>1 DEF NoCall
  <2> QED BY <2>1 DEF Shape, Preparing, Present, Guarded, Owning, Evaluating, Own
<1>6. RowsShape'
  BY <1>1, RowSame DEF IInv, DInv, RowsShape
<1>7. OneActive' /\ TurnsInOrder'
  BY <1>1 DEF IInv, DInv, OneActive, TurnsInOrder
<1>8. OneGuard'
  BY <1>1 DEF OneGuard, NoCall
<1> QED BY <1>2, <1>3, <1>4, <1>5, <1>6, <1>7, <1>8 DEF Good, DInv

LEMMA InitIInv == Init => IInv
<1> SUFFICES ASSUME Init PROVE IInv
  OBVIOUS
<1>1. Typed
  BY NoCallTyped, ExchangeAssumption DEF Init, Typed, Moments
<1>2. HeldShape
  <2> SUFFICES ASSUME NEW t \in Threads PROVE Held(t) \in Prefixes(Order(t))
    BY DEF HeldShape
  <2>1. Held(t) = {}
    BY ExchangeAssumption DEF Init, Held
  <2>2. Order(t) = Sections["idle"] /\ "idle" \in DOMAIN Sections
    BY SectionNames DEF Init, Order, NoCall
  <2> QED BY <2>1, <2>2, EmptyIsPrefix
<1>3. CallsShape
  <2> SUFFICES ASSUME NEW t \in Threads PROVE Shape(t)
    BY DEF CallsShape
  <2>1. calls[t] = NoCall /\ calls[t].at = "idle" /\ ~calls[t].guard /\ ~calls[t].ok
    BY DEF Init, NoCall
  <2> QED BY <2>1 DEF Shape, Preparing, Present, Guarded, Owning, Evaluating, Own
<1>4. RowsShape
  BY DEF Init, RowsShape, RowShape, NoTurn
<1>5. OneActive /\ TurnsInOrder
  BY DEF Init, OneActive, TurnsInOrder
<1>6. OneGuard
  BY DEF Init, OneGuard, NoCall
<1> QED BY <1>1, <1>2, <1>3, <1>4, <1>5, <1>6 DEF IInv, DInv

LEMMA NextGood == IInv /\ [Next]_vars => Good
<1> SUFFICES ASSUME IInv, [Next]_vars PROVE Good
  OBVIOUS
<1>1. ASSUME NEW t \in Threads, Work(t) PROVE Good
  <2>1. CASE Look(t) \/ Preview(t) \/ Insert(t)
    BY <2>1, LookGood, PreviewGood, InsertGood
  <2>2. CASE Read(t) \/ Claim(t) \/ ClaimRefused(t)
    BY <2>2, ReadGood, ClaimGood, ClaimRefusedGood
  <2>3. CASE Bind(t) \/ BindRefused(t) \/ Mark(t) \/ MarkFails(t) \/ Unsent(t)
    BY <2>3, BindGood, BindRefusedGood, MarkGood, MarkFailsGood, UnsentGood
  <2>4. CASE Ask(t) \/ Generated(t) \/ Capture(t) \/ Lost(t)
    BY <2>4, AskGood, GeneratedGood, CaptureGood, LostGood
  <2>5. CASE Load(t) \/ EvaluateTurn(t) \/ Settle(t) \/ Get(t) \/ DropGuard(t)
    BY <2>5, LoadGood, EvaluateTurnGood, SettleGood, GetGood, DropGuardGood
  <2> QED BY <1>1, <2>1, <2>2, <2>3, <2>4, <2>5 DEF Work
<1>2. ASSUME NEW t \in Threads, Request(t) PROVE Good
  BY <1>2, RequestGood
<1>3. ASSUME NEW t \in Threads, Acquire(t) PROVE Good
  BY <1>3, AcquireGood
<1>4. CASE Move
  BY <1>4, MoveGood
<1>5. CASE Crash
  BY <1>5, CrashGood
<1>6. CASE UNCHANGED vars
  <2>1. now' \in Moments /\ UNCHANGED <<tables, inflight, locks, calls, asked, crashes>>
    BY <1>6 DEF vars, tables, IInv, Typed
  <2> QED BY <2>1, StillGood
<1> QED BY <1>1, <1>2, <1>3, <1>4, <1>5, <1>6 DEF Next

LEMMA IInvHolds == Spec => []IInv
<1>1. IInv /\ [Next]_vars => IInv'
  BY NextGood DEF Good, IInv
<1> QED BY <1>1, InitIInv, PTL DEF Spec

\* Every variable holds a value of its kind, and a thread that waits or works
\* holds exactly the first mutexes of its section, in the order the code names.
THEOREM TypeCorrect == Spec => []TypeOK
<1>1. IInv => TypeOK
  BY DEF IInv, Typed, HeldShape, Prefixes, TypeOK
<1> QED BY <1>1, IInvHolds, PTL

\* The provider gets an exchange's prompt at most once, however often the user
\* sends it, the daemon stops or an answer is lost; and never if the exchange
\* is prepared or was not sent.
THEOREM AskedAtMostOnce == Spec => []AtMostOneRequest
<1>1. IInv => AtMostOneRequest
  BY DEF IInv, DInv, RowsShape, RowShape, AtMostOneRequest
<1> QED BY <1>1, IInvHolds, PTL

\* While the provider generates, the exchange is this call's alone: sending, in
\* flight, and bound to the user turn it answers.
THEOREM GenerationOwned == Spec => []GenerationIsOwned
<1>1. IInv => GenerationIsOwned
  <2> SUFFICES ASSUME IInv, NEW t \in Threads, calls[t].at = "generate"
               PROVE  LET x == calls[t].exchange IN
                      /\ exchanges[x].status = "sending" /\ x \in inflight
                      /\ HasTurn(exchanges[x].packet.session, x, "user")
                      /\ BoundTo(exchanges[x].packet) = {x}
                      /\ \A u \in Threads \ {t} : calls[u].at # "generate"
    BY DEF GenerationIsOwned
  <2>1. PICK x \in Exchanges : x = calls[t].exchange
    BY OwnedRow DEF Own
  <2>2. /\ exchanges[x] # None /\ exchanges[x].status = "sending"
        /\ x \in inflight /\ Alone(t, x)
    BY <2>1, OwnedRow DEF Own
  <2>3. Asks(x) /\ BoundTo(exchanges[x].packet) = {x}
    BY <2>1 DEF IInv, DInv, CallsShape, Shape, Owning
  <2>4. HasTurn(exchanges[x].packet.session, x, "user")
    BY <2>3 DEF Asks
  <2>5. \A u \in Threads : u # t => calls[u].at \notin Own
    BY <2>2, OnlyOwner DEF Active
  <2> QED BY <2>1, <2>2, <2>3, <2>4, <2>5 DEF Own
<1> QED BY <1>1, IInvHolds, PTL

\* A conversation's turns stay in the order of their ordinals, each response
\* directly after the turn it answers.
THEOREM TurnsOrdered == Spec => []TurnsInOrder
<1>1. IInv => TurnsInOrder
  BY DEF IInv, DInv
<1> QED BY <1>1, IInvHolds, PTL

\* No step sends an exchange again, reopens one that is unknown or not_sent, or
\* loses a captured response.
THEOREM OutcomesKept == Spec => OutcomesAreKept
<1> DEFINE Step == \A x \in Exchanges : exchanges[x] # None =>
             LET old == exchanges[x].status
                 new == exchanges'[x].status IN
             /\ exchanges'[x].packet = exchanges[x].packet
             /\ exchanges[x].captured => exchanges'[x].captured
             /\ old \in {"unknown", "not_sent"} => new = old
             /\ exchanges'[x].captured => new \in {"evaluation_pending", "completed"}
             /\ new = "sending" => old \in {"prepared", "sending"}
<1>1. IInv /\ [Next]_vars => Step
  <2> SUFFICES ASSUME IInv, [Next]_vars, NEW x \in Exchanges, exchanges[x] # None
               PROVE  LET old == exchanges[x].status
                          new == exchanges'[x].status IN
                      /\ exchanges'[x].packet = exchanges[x].packet
                      /\ exchanges[x].captured => exchanges'[x].captured
                      /\ old \in {"unknown", "not_sent"} => new = old
                      /\ exchanges'[x].captured
                           => new \in {"evaluation_pending", "completed"}
                      /\ new = "sending" => old \in {"prepared", "sending"}
    OBVIOUS
  <2>1. Good
    BY NextGood
  <2>2. RowKept(x)
    BY <2>1 DEF Good, RowsKept
  <2>3. RowShape(x)'
    BY <2>1 DEF Good, DInv, RowsShape
  <2>4. exchanges'[x] # None
    BY <2>2 DEF RowKept
  <2>5. exchanges'[x].captured => exchanges'[x].status \in {"evaluation_pending", "completed"}
    BY <2>3, <2>4 DEF RowShape
  <2> QED BY <2>2, <2>5 DEF RowKept
<1> QED BY <1>1, IInvHolds, PTL DEF OutcomesAreKept, Spec
=============================================================================

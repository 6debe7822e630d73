------------------------------ MODULE Exchange ------------------------------
(***************************************************************************)
(* One governed provider exchange from preview to captured response        *)
(* (crates/assistd/src/conversations.rs over the provider_exchanges,       *)
(* turns and sent_contexts tables of crates/persistence).                  *)
(*                                                                         *)
(* The daemon answers each request on a thread of its own.  A call is a    *)
(* sequence of sections; a section takes its mutexes one at a time, does   *)
(* its work in one step and releases them, and other threads run between   *)
(* two sections and while the provider generates.  The daemon may stop     *)
(* anywhere: the tables stay, threads, mutexes and the set of in-flight    *)
(* exchanges go.                                                           *)
(*                                                                         *)
(* A packet digest identifies session, draft, state version and runtime    *)
(* checkpoint.  The exact prompt and its hash are fixed with the exchange  *)
(* and never change, so the hash comparisons always succeed.               *)
(***************************************************************************)
EXTENDS Naturals, Sequences, FiniteSets

CONSTANTS
  Threads,     \* daemon connection threads
  Exchanges,   \* exchange ids (fresh UUIDs of the client)
  Sessions,    \* conversations of the project
  Drafts,      \* user drafts
  None,        \* no exchange, no session, no holder
  MaxMoves,    \* bound: how often state version and checkpoint move, each
  MaxCrashes   \* bound: how often the daemon stops

VARIABLES
  now,         \* the project's state version and the runtime's checkpoint
  exchanges,   \* provider_exchanges
  turns,       \* turns of each session, in rowid order
  sent,        \* sent_contexts: packet to the exchange whose user turn it is
  inflight,    \* provider_inflight
  locks,       \* holder of each mutex
  calls,       \* the call each thread is in
  asked,       \* how many requests the provider got for each exchange
  crashes

tables   == <<exchanges, turns, sent>>
vars     == <<now, exchanges, turns, sent, inflight, locks, calls, asked, crashes>>

-----------------------------------------------------------------------------
(* Data *)

Locks    == {"inflight", "project", "store"}
Statuses == {"prepared", "sending", "not_sent", "unknown",
             "evaluation_pending", "completed"}
Active   == {"sending", "evaluation_pending"}
Moments  == [state : 0..MaxMoves, head : 0..MaxMoves]
Packet   == [session : Sessions, draft : Drafts, at : Moments]
Record   == [status : Statuses, packet : Packet, ordinal : Nat, captured : BOOLEAN]
Turn     == [exchange : Exchanges, role : {"user", "assistant"}, ordinal : Nat]

ASSUME ExchangeAssumption ==
  /\ MaxMoves \in Nat /\ MaxCrashes \in Nat
  /\ None \notin Threads \cup Exchanges \cup Sessions \cup Record

\* Mutant: conversation_get takes its mutexes in the other order.
StoreFirst == <<"store", "inflight">>

GetOrder == <<"inflight", "store">>

\* What each section holds, in the order the code takes it.
Sections ==
  [idle     |-> <<>>,                    look     |-> <<"store">>,
   preview  |-> <<"project", "store">>,  insert   |-> <<"store">>,
   read     |-> <<"store">>,             claim    |-> <<"inflight", "store">>,
   bind     |-> <<"project", "store">>,  mark     |-> <<"project", "store">>,
   unsent   |-> <<"store">>,             ask      |-> <<>>,
   generate |-> <<>>,                    capture  |-> <<"store">>,
   lost     |-> <<"store">>,             load     |-> <<"store">>,
   evaluate |-> <<"project", "store">>,  settle   |-> <<"store">>,
   get      |-> GetOrder,                drop     |-> <<"inflight">>]

Call == [at : DOMAIN Sections, exchange : Exchanges \cup {None},
         session : Sessions \cup {None}, record : Record \cup {None},
         guard : BOOLEAN, ok : BOOLEAN]

NoCall == [at |-> "idle", exchange |-> None, session |-> None, record |-> None,
           guard |-> FALSE, ok |-> FALSE]

NextOrdinal(s) == IF turns[s] = <<>> THEN 1 ELSE turns[s][Len(turns[s])].ordinal + 1

HasTurn(s, x, role) ==
  \E i \in 1..Len(turns[s]) : turns[s][i].exchange = x /\ turns[s][i].role = role

BoundTo(p) == {e.exchange : e \in {f \in sent : f.packet = p}}

\* The partial index provider_one_inflight lets x take an active status.
IndexAdmits(x) ==
  \A y \in Exchanges \ {x} : exchanges[y] # None => exchanges[y].status \notin Active

SetStatusOf(x, status) == exchanges' = [exchanges EXCEPT ![x].status = status]

Init ==
  /\ now       = [state |-> 0, head |-> 0]
  /\ exchanges = [x \in Exchanges |-> None]
  /\ turns     = [s \in Sessions |-> <<>>]
  /\ sent      = {}
  /\ inflight  = {}
  /\ locks     = [l \in Locks |-> None]
  /\ calls     = [t \in Threads |-> NoCall]
  /\ asked     = [x \in Exchanges |-> 0]
  /\ crashes   = 0

-----------------------------------------------------------------------------
(* Mutexes and calls *)

Held(t) == {l \in Locks : locks[l] = t}

Order(t) == Sections[calls[t].at]

\* The last mutex is taken in the step that does the work.
Ready(t, at) ==
  /\ calls[t].at = at
  /\ Order(t) # <<>> => /\ Cardinality(Held(t)) >= Len(Order(t)) - 1
                        /\ locks[Order(t)[Len(Order(t))]] \in {None, t}

\* A thread takes a mutex and waits for the next one of its section.
Acquire(t) ==
  /\ Cardinality(Held(t)) < Len(Order(t)) - 1
  /\ LET l == Order(t)[Cardinality(Held(t)) + 1] IN
       /\ locks[l] = None
       /\ locks' = [locks EXCEPT ![l] = t]
  /\ UNCHANGED <<now, tables, inflight, calls, asked, crashes>>

\* Mutant: only the store's mutex is given back.
ReleaseStoreOnly(t) == locks' = [locks EXCEPT !["store"] = IF @ = t THEN None ELSE @]

Release(t) == locks' = [l \in Locks |-> IF locks[l] = t THEN None ELSE locks[l]]

Goto(t, at) == Release(t) /\ calls' = [calls EXCEPT ![t].at = at]

\* A call returns, with an answer or an error; Inflight's drop comes first.
Return(t) ==
  /\ Release(t)
  /\ calls' = [calls EXCEPT ![t] =
                 IF calls[t].guard THEN [calls[t] EXCEPT !.at = "drop"] ELSE NoCall]

Start(t, call) ==
  /\ calls[t] = NoCall
  /\ calls' = [calls EXCEPT ![t] = call]
  /\ UNCHANGED <<now, tables, inflight, locks, asked, crashes>>

\* Mutant: the guard leaks.
GuardLeaks(t) ==
  /\ Ready(t, "drop")
  /\ Release(t)
  /\ calls' = [calls EXCEPT ![t] = NoCall]
  /\ UNCHANGED <<now, tables, inflight, asked, crashes>>

DropGuard(t) ==
  /\ Ready(t, "drop")
  /\ inflight' = inflight \ {calls[t].exchange}
  /\ Release(t)
  /\ calls' = [calls EXCEPT ![t] = NoCall]
  /\ UNCHANGED <<now, tables, asked, crashes>>

-----------------------------------------------------------------------------
(* conversation_prepare *)

Prepare(t, x, s, d) ==
  Start(t, [NoCall EXCEPT !.at = "look", !.exchange = x, !.session = s,
              !.record = [status |-> "prepared", ordinal |-> 1, captured |-> FALSE,
                          packet |-> [session |-> s, draft |-> d,
                                      at |-> [state |-> 0, head |-> 0]]]])

\* An existing exchange is shown again or belongs to another draft; otherwise
\* the ordinal is taken from the turns of this moment.
Look(t) ==
  LET c == calls[t] IN
  /\ Ready(t, "look")
  /\ IF exchanges[c.exchange] # None
     THEN Return(t)
     ELSE /\ Release(t)
          /\ calls' = [calls EXCEPT ![t].at = "preview",
                                    ![t].record.ordinal = NextOrdinal(c.session)]
  /\ UNCHANGED <<now, tables, inflight, asked, crashes>>

\* prepare_turn: the packet of this moment.
Preview(t) ==
  /\ Ready(t, "preview")
  /\ Release(t)
  /\ calls' = [calls EXCEPT ![t].at = "insert", ![t].record.packet.at = now]
  /\ UNCHANGED <<now, tables, inflight, asked, crashes>>

\* A primary key refuses a second row of the same id.
Insert(t) ==
  LET c == calls[t] IN
  /\ Ready(t, "insert")
  /\ exchanges' = IF exchanges[c.exchange] # None THEN exchanges
                  ELSE [exchanges EXCEPT ![c.exchange] = c.record]
  /\ Return(t)
  /\ UNCHANGED <<now, turns, sent, inflight, asked, crashes>>

-----------------------------------------------------------------------------
(* conversation_send *)

Send(t, x) == Start(t, [NoCall EXCEPT !.at = "read", !.exchange = x])

\* Only a prepared exchange goes on; any other is shown as it stands.
Read(t) ==
  LET x == calls[t].exchange IN
  /\ Ready(t, "read")
  /\ IF exchanges[x] = None
     THEN Return(t)
     ELSE /\ Release(t)
          /\ calls' = [calls EXCEPT
               ![t].session = exchanges[x].packet.session,
               ![t].at = IF exchanges[x].status = "prepared" THEN "claim" ELSE "get"]
  /\ UNCHANGED <<now, tables, inflight, asked, crashes>>

\* Mutant: the claim does not ask for the prepared status.
ClaimableAgain(x) ==
  exchanges[x].packet.at = now /\ IndexAdmits(x)

\* Mutant: the claim does not compare the ordinal with the conversation.
ClaimableAtAnyOrdinal(x) ==
  exchanges[x].packet.at = now /\ exchanges[x].status = "prepared" /\ IndexAdmits(x)

\* The runtime's checkpoint, the state version and the next ordinal are those
\* of the preview; the UPDATE finds the row prepared; the index admits it.
Claimable(x) ==
  /\ exchanges[x].packet.at = now
  /\ NextOrdinal(exchanges[x].packet.session) = exchanges[x].ordinal
  /\ exchanges[x].status = "prepared"
  /\ IndexAdmits(x)

\* Mutant: the exchange is in flight only once its turn is bound.
InflightLater(x) == UNCHANGED inflight

Fly(x) == inflight' = inflight \cup {x}

\* claim_provider_exchange and inflight.insert under both mutexes.
Claim(t) ==
  LET x == calls[t].exchange IN
  /\ Ready(t, "claim")
  /\ Claimable(x)
  /\ SetStatusOf(x, "sending")
  /\ Fly(x)
  /\ Release(t)
  /\ calls' = [calls EXCEPT ![t].at = "bind", ![t].guard = TRUE]
  /\ UNCHANGED <<now, turns, sent, asked, crashes>>

\* The provider is disconnected, the preview is out of date, another exchange
\* is active, or the statement fails.
ClaimRefused(t) ==
  /\ Ready(t, "claim")
  /\ Return(t)
  /\ UNCHANGED <<now, tables, inflight, asked, crashes>>

\* send_turn up to record_turn: an INSERT of its own.
Bind(t) ==
  LET x == calls[t].exchange
      r == exchanges[x]
      s == r.packet.session IN
  /\ Ready(t, "bind")
  /\ BoundTo(r.packet) \subseteq {x}
  /\ HasTurn(s, x, "user") \/ r.packet.at.state = now.state
  /\ turns' = IF HasTurn(s, x, "user") THEN turns
              ELSE [turns EXCEPT ![s] = Append(@, [exchange |-> x, role |-> "user",
                                                   ordinal |-> r.ordinal])]
  /\ calls' = [calls EXCEPT ![t].at = "mark"]
  /\ locks' = [locks EXCEPT !["store"] = t]
  /\ UNCHANGED <<now, exchanges, sent, inflight, asked, crashes>>

\* The packet is bound to another turn, the state moved since the claim, or
\* the INSERT fails.
BindRefused(t) ==
  /\ Ready(t, "bind")
  /\ Goto(t, "unsent")
  /\ UNCHANGED <<now, tables, inflight, asked, crashes>>

\* mark_context_sent: the second INSERT, still under the mutexes.
Mark(t) ==
  LET x == calls[t].exchange
      p == exchanges[x].packet IN
  /\ Ready(t, "mark")
  /\ BoundTo(p) \subseteq {x}
  /\ sent' = sent \cup {[packet |-> p, exchange |-> x]}
  /\ Goto(t, "ask")
  /\ UNCHANGED <<now, exchanges, turns, inflight, asked, crashes>>

MarkFails(t) ==
  /\ Ready(t, "mark")
  /\ Goto(t, "unsent")
  /\ UNCHANGED <<now, tables, inflight, asked, crashes>>

\* The UPDATE to not_sent may itself fail; the error is returned either way.
Unsent(t) ==
  /\ Ready(t, "unsent")
  /\ \/ SetStatusOf(calls[t].exchange, "not_sent")
     \/ UNCHANGED exchanges
  /\ Return(t)
  /\ UNCHANGED <<now, turns, sent, inflight, asked, crashes>>

\* provider.complete with no mutex held.
Ask(t) ==
  /\ Ready(t, "ask")
  /\ asked' = [asked EXCEPT ![calls[t].exchange] = @ + 1]
  /\ Goto(t, "generate")
  /\ UNCHANGED <<now, tables, inflight, crashes>>

\* A response, or a timeout, a lost reply or a provider error.
Generated(t) ==
  /\ Ready(t, "generate")
  /\ \E at \in {"capture", "lost"} : Goto(t, at)
  /\ UNCHANGED <<now, tables, inflight, asked, crashes>>

Lost(t) ==
  /\ Ready(t, "lost")
  /\ \/ SetStatusOf(calls[t].exchange, "unknown") /\ Goto(t, "get")
     \/ UNCHANGED exchanges /\ Return(t)
  /\ UNCHANGED <<now, turns, sent, inflight, asked, crashes>>

\* A failing UPDATE loses the response.
Capture(t) ==
  LET x == calls[t].exchange IN
  /\ Ready(t, "capture")
  /\ \/ /\ exchanges' = [exchanges EXCEPT ![x].status = "evaluation_pending",
                                          ![x].captured = TRUE]
        /\ Goto(t, "load")
     \/ UNCHANGED exchanges /\ Return(t)
  /\ UNCHANGED <<now, turns, sent, inflight, asked, crashes>>

-----------------------------------------------------------------------------
(* conversation_evaluate, from send or as a retry of the user's *)

Evaluate(t, x) == Start(t, [NoCall EXCEPT !.at = "load", !.exchange = x])

Load(t) ==
  LET x == calls[t].exchange IN
  /\ Ready(t, "load")
  /\ IF exchanges[x] = None \/ ~exchanges[x].captured
     THEN Return(t)
     ELSE /\ Release(t)
          /\ calls' = [calls EXCEPT ![t].at = "evaluate",
                                    ![t].session = exchanges[x].packet.session]
  /\ UNCHANGED <<now, tables, inflight, asked, crashes>>

\* evaluate_turn records the response turn, once, and then evaluates; it may
\* fail before or after the turn is there.
EvaluateTurn(t) ==
  LET x == calls[t].exchange
      r == exchanges[x]
      s == r.packet.session IN
  /\ Ready(t, "evaluate")
  /\ \/ /\ calls' = [calls EXCEPT ![t].at = "settle"]
        /\ UNCHANGED turns
     \/ /\ BoundTo(r.packet) # {}
        /\ turns' = IF HasTurn(s, x, "assistant") THEN turns
                    ELSE [turns EXCEPT ![s] =
                            Append(@, [exchange |-> x, role |-> "assistant",
                                       ordinal |-> r.ordinal + 1])]
        /\ \E ok \in BOOLEAN :
             calls' = [calls EXCEPT ![t].at = "settle", ![t].ok = ok]
  /\ Release(t)
  /\ UNCHANGED <<now, exchanges, sent, inflight, asked, crashes>>

\* completed, or evaluation_pending again if the index admits it.
Settle(t) ==
  LET x == calls[t].exchange IN
  /\ Ready(t, "settle")
  /\ \/ calls[t].ok /\ SetStatusOf(x, "completed") /\ Goto(t, "get")
     \/ /\ ~calls[t].ok /\ IndexAdmits(x)
        /\ SetStatusOf(x, "evaluation_pending") /\ Goto(t, "get")
     \/ UNCHANGED exchanges /\ Return(t)
  /\ UNCHANGED <<now, turns, sent, inflight, asked, crashes>>

-----------------------------------------------------------------------------
(* conversation_get, after a call or to show a conversation *)

View(t, s) == Start(t, [NoCall EXCEPT !.at = "get", !.session = s])

\* Mutant: every sending exchange of the session is orphaned.
OrphansOfAll(s) ==
  {x \in Exchanges : exchanges[x] # None /\ exchanges[x].packet.session = s
                     /\ exchanges[x].status = "sending"}

\* A sending exchange that no live call owns.
Orphans(s) ==
  {x \in Exchanges \ inflight :
     exchanges[x] # None /\ exchanges[x].packet.session = s
     /\ exchanges[x].status = "sending"}

Get(t) ==
  LET orphans == Orphans(calls[t].session) IN
  /\ Ready(t, "get")
  /\ exchanges' = [x \in Exchanges |->
                     IF x \in orphans THEN [exchanges[x] EXCEPT !.status = "unknown"]
                     ELSE exchanges[x]]
  /\ Return(t)
  /\ UNCHANGED <<now, turns, sent, inflight, asked, crashes>>

-----------------------------------------------------------------------------
(* The rest of the system *)

\* The desktop or another conversation moves the state or the runtime.
Move ==
  /\ \E f \in {"state", "head"} :
       now[f] < MaxMoves /\ now' = [now EXCEPT ![f] = @ + 1]
  /\ UNCHANGED <<tables, inflight, locks, calls, asked, crashes>>

Crash ==
  /\ crashes < MaxCrashes
  /\ crashes'  = crashes + 1
  /\ inflight' = {}
  /\ locks'    = [l \in Locks |-> None]
  /\ calls'    = [t \in Threads |-> NoCall]
  /\ UNCHANGED <<now, tables, asked>>

Request(t) ==
  \/ \E x \in Exchanges, s \in Sessions, d \in Drafts : Prepare(t, x, s, d)
  \/ \E x \in Exchanges : Send(t, x)
  \/ \E x \in Exchanges : Evaluate(t, x)
  \/ \E s \in Sessions : View(t, s)

\* Work a call does under its mutexes.
Work(t) ==
  \/ Look(t) \/ Preview(t) \/ Insert(t)
  \/ Read(t) \/ Claim(t) \/ ClaimRefused(t)
  \/ Bind(t) \/ BindRefused(t) \/ Mark(t) \/ MarkFails(t) \/ Unsent(t)
  \/ Ask(t) \/ Generated(t) \/ Capture(t) \/ Lost(t)
  \/ Load(t) \/ EvaluateTurn(t) \/ Settle(t) \/ Get(t) \/ DropGuard(t)

Next ==
  \/ \E t \in Threads : Request(t) \/ Acquire(t) \/ Work(t)
  \/ Move \/ Crash

\* A started call goes on: sections end, the provider answers or its timeout
\* expires, and a thread that waits for a mutex gets it in the end.
\* Each conversation is looked at again and again: the desktop polls the one it
\* shows while an exchange is active.
Fairness ==
  /\ \A t \in Threads : SF_vars(Work(t)) /\ SF_vars(Acquire(t))
  /\ \A s \in Sessions : SF_vars(\E t \in Threads : View(t, s))

Spec == Init /\ [][Next]_vars /\ Fairness

-----------------------------------------------------------------------------
(* Properties *)

\* Every variable holds a value of its kind, and a waiting or working thread
\* holds exactly the first mutexes of its section.
TypeOK ==
  /\ now       \in Moments
  /\ exchanges \in [Exchanges -> Record \cup {None}]
  /\ turns     \in [Sessions -> Seq(Turn)]
  /\ sent      \in SUBSET [packet : Packet, exchange : Exchanges]
  /\ inflight  \subseteq Exchanges
  /\ locks     \in [Locks -> Threads \cup {None}]
  /\ calls     \in [Threads -> Call]
  /\ asked     \in [Exchanges -> Nat]
  /\ crashes   \in 0..MaxCrashes
  /\ \A t \in Threads :
       Held(t) \in {{Order(t)[i] : i \in 1..n} : n \in 0..Len(Order(t))}

\* An exchange reaches the provider at most once, whatever is clicked again,
\* lost, timed out or restarted (conversation_send's durable claim), and one
\* that is called not_sent never did.
AtMostOneRequest ==
  \A x \in Exchanges :
    /\ asked[x] <= 1
    /\ (exchanges[x] # None /\ exchanges[x].status \in {"prepared", "not_sent"})
       => asked[x] = 0

\* While a thread generates, no other does, its exchange is sending and in
\* flight, so nobody calls it unknown, and the turn it answers is the one its
\* packet is bound to.
GenerationIsOwned ==
  \A t \in Threads : calls[t].at = "generate" =>
    LET x == calls[t].exchange IN
    /\ exchanges[x].status = "sending" /\ x \in inflight
    /\ HasTurn(exchanges[x].packet.session, x, "user")
    /\ BoundTo(exchanges[x].packet) = {x}
    /\ \A u \in Threads \ {t} : calls[u].at # "generate"

\* A session's turns are recorded in the order of their ordinals, without a
\* repeat, and a response directly after the turn it answers, although
\* ordinals are taken at preview time and responses may be evaluated later.
TurnsInOrder ==
  \A s \in Sessions : \A i \in 2..Len(turns[s]) :
    /\ turns[s][i-1].ordinal < turns[s][i].ordinal
    /\ turns[s][i].role = "assistant" =>
         /\ turns[s][i-1].role = "user"
         /\ turns[s][i-1].exchange = turns[s][i].exchange

\* An exchange never turns back: nothing sends it a second time, unknown and
\* not_sent are final, and a captured response stays captured.
OutcomesAreKept ==
  [][\A x \in Exchanges : exchanges[x] # None =>
       LET old == exchanges[x].status
           new == exchanges'[x].status IN
       /\ exchanges'[x].packet = exchanges[x].packet
       /\ exchanges[x].captured => exchanges'[x].captured
       /\ old \in {"unknown", "not_sent"} => new = old
       /\ exchanges'[x].captured =>
            new \in {"evaluation_pending", "completed"}
       /\ new = "sending" => old \in {"prepared", "sending"}]_vars

\* The three mutexes never block each other for good: every call returns.
EveryCallReturns ==
  \A t \in Threads : calls[t] # NoCall ~> calls[t] = NoCall

Sending(x) == exchanges[x] # None /\ exchanges[x].status = "sending"

\* No exchange stays sending: its call ends it, or after a failed statement or
\* a restart the next look at its conversation calls it unknown.
SendingEnds == \A x \in Exchanges : Sending(x) ~> ~Sending(x)
=============================================================================

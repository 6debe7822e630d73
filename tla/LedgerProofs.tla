---------------------------- MODULE LedgerProofs ----------------------------
(***************************************************************************)
(* Proofs about the ledger, for any number of writers, readers, objects    *)
(* and requests.  The inductive invariant adds to the type invariant what  *)
(* a call in progress knows about its request (CallShape) and the form a   *)
(* request has (RequestShape); the chain of events then follows from the   *)
(* compare-and-set of the commit transaction alone.                        *)
(***************************************************************************)
EXTENDS Ledger, TLAPS

RequestShape ==
  \A k \in Keys : requests[k] # None =>
    /\ requests[k].kind # "PROJECT_CREATED" => requests[k].new \in Objects
    /\ requests[k].kind = "PROJECT_CREATED" => requests[k].old = None
    /\ requests[k].kind = "STATE_SUPERSEDED" => requests[k].old \in Objects

CallShape ==
  \A w \in Writers : calls[w].step # "idle" =>
    LET r == requests[calls[w].key] IN
    /\ calls[w].key \in Keys
    /\ r \in Request
    /\ calls[w].step = "old" => r.old \in Objects
    /\ (calls[w].step \in {"lookup", "begin"} /\ r.old # None)
         => calls[w].old \in Row

IInv == TypeOK /\ RequestShape /\ CallShape

-----------------------------------------------------------------------------
(* The values a mutation writes. *)

\* The rows a mutation writes are rows, whatever the request.
LEMMA UpsertsTyped ==
  ASSUME NEW r \in Request, NEW old \in Row \cup {None},
         r.new \in Objects, r.old # None => old \in Row
  PROVE  Upserts(r, old) \in Rows
<1>1. r.base + 1 \in Nat
  BY LedgerAssumption DEF Request
<1>2. ASSUME NEW o \in Objects
      PROVE  Upserts(r, old)[o] \in Row \cup {None}
  <2>1. CASE o = r.new
    <3> DEFINE link == IF r.old = None THEN r.names ELSE r.old
    <3>1. Upserts(r, old)[o] = [status |-> r.status, authority |-> r.authority,
                                supersedes |-> link, at |-> r.base + 1]
      BY <2>1 DEF Upserts
    <3>2. r.status \in RowStatus /\ r.authority \in Authority /\ link \in Objects \cup {None}
      BY DEF Request
    <3> QED BY <1>1, <3>1, <3>2 DEF Row
  <2>2. CASE o # r.new /\ o = r.old
    <3>1. old \in Row
      BY <2>2, LedgerAssumption
    <3>2. Upserts(r, old)[o] = [old EXCEPT !.status = "superseded", !.at = r.base + 1]
      BY <2>2 DEF Upserts
    <3> QED BY <1>1, <3>1, <3>2 DEF Row, RowStatus
  <2>3. CASE o # r.new /\ o # r.old
    BY <2>3 DEF Upserts
  <2> QED BY <2>1, <2>2, <2>3
<1> QED BY <1>2 DEF Upserts, Rows

LEMMA AddsTyped ==
  ASSUME NEW r \in Request, r.new \in Objects
  PROVE  Adds(r) \in Edges
BY DEF Adds, Edges, Request

\* Applying a mutation to a canonical state gives a canonical state.
LEMMA ApplyTyped ==
  ASSUME NEW s \in Canonical, NEW ups \in Rows, NEW adds \in Edges
  PROVE  Apply(s, ups, adds) \in Canonical
<1>1. Overwrite(s.rows, ups) \in Rows
  BY DEF Overwrite, Rows, Canonical
<1> QED BY <1>1 DEF Apply, Canonical, Edges

LEMMA CurrentTyped == TypeOK => Current \in Canonical
BY DEF TypeOK, Current, Canonical

LEMMA EmptyTyped == Empty \in Canonical
BY DEF Empty, Canonical, NoRows, Rows, Edges

-----------------------------------------------------------------------------
(* Type correctness *)

LEMMA InitIInv == Init => IInv
<1> SUFFICES ASSUME Init PROVE IInv
  OBVIOUS
<1>1. NoCall \in Call
  BY DEF NoCall, Call, Steps, Replies
<1>2. NoLoad \in Load
  BY EmptyTyped DEF NoLoad, Load
<1>3. TypeOK
  BY <1>1, <1>2, EmptyTyped DEF Init, TypeOK, NoRows, Rows, Edges
<1>4. RequestShape /\ CallShape
  BY DEF Init, RequestShape, CallShape, NoCall
<1> QED BY <1>3, <1>4 DEF IInv

\* Entering a call leaves every call well typed and well shaped.
LEMMA EnterShape ==
  ASSUME IInv, NEW w \in Writers, NEW k \in Keys, NEW r \in Request,
         Enter(w, k, r),
         requests' \in [Keys -> Request \cup {None}], requests'[k] = r,
         \A j \in Keys : j # k => requests'[j] = requests[j],
         calls[w].step = "idle",
         \A v \in Writers : calls[v].step # "idle" =>
            requests'[calls[v].key] = requests[calls[v].key]
  PROVE  calls' \in [Writers -> Call] /\ CallShape'
<1> DEFINE c == [NoCall EXCEPT !.step = IF r.old # None THEN "old" ELSE "lookup",
                               !.key = k, !.start = Len(log)]
<1>1. Len(log) \in Nat
  BY DEF IInv, TypeOK
<1>2. c \in Call /\ c.key = k /\ c.step \in {"old", "lookup"}
      /\ (c.step = "old" => r.old # None) /\ (c.step = "lookup" => r.old = None)
  BY <1>1 DEF NoCall, Call, Steps, Replies
<1>3. calls' = [calls EXCEPT ![w] = c]
  BY DEF Enter
<1>4. calls' \in [Writers -> Call]
  BY <1>2, <1>3 DEF IInv, TypeOK
<1>5. ASSUME NEW v \in Writers, calls'[v].step # "idle"
      PROVE  /\ calls'[v].key \in Keys
             /\ requests'[calls'[v].key] \in Request
             /\ calls'[v].step = "old" => requests'[calls'[v].key].old \in Objects
             /\ (calls'[v].step \in {"lookup", "begin"}
                  /\ requests'[calls'[v].key].old # None) => calls'[v].old \in Row
  <2>1. CASE v = w
    <3>1. calls'[v] = c
      BY <1>3, <2>1 DEF IInv, TypeOK
    <3> QED BY <1>2, <3>1 DEF Request
  <2>2. CASE v # w
    <3>1. calls'[v] = calls[v]
      BY <1>3, <2>2 DEF IInv, TypeOK
    <3> QED BY <1>5, <3>1 DEF IInv, CallShape
  <2> QED BY <2>1, <2>2
<1> QED BY <1>4, <1>5 DEF CallShape

\* Moving one call from one step to another, keeping its key.
LEMMA MoveShape ==
  ASSUME IInv, NEW w \in Writers, NEW c \in Call,
         calls[w].step # "idle",
         calls' = [calls EXCEPT ![w] = c], requests' = requests,
         c.key = calls[w].key,
         c.step \notin {"idle", "old"},
         (c.step \in {"lookup", "begin"} /\ requests[c.key].old # None)
            => c.old \in Row
  PROVE  calls' \in [Writers -> Call] /\ RequestShape' /\ CallShape'
<1>1. calls' \in [Writers -> Call] /\ RequestShape'
  BY DEF IInv, TypeOK, RequestShape
<1>2. ASSUME NEW v \in Writers, calls'[v].step # "idle"
      PROVE  /\ calls'[v].key \in Keys
             /\ requests'[calls'[v].key] \in Request
             /\ calls'[v].step = "old" => requests'[calls'[v].key].old \in Objects
             /\ (calls'[v].step \in {"lookup", "begin"}
                  /\ requests'[calls'[v].key].old # None) => calls'[v].old \in Row
  BY <1>2 DEF IInv, TypeOK, CallShape
<1> QED BY <1>1, <1>2 DEF CallShape

LEMMA ReplyShape ==
  ASSUME IInv, NEW w \in Writers, NEW reply \in Replies,
         calls[w].step # "idle", Reply(w, reply), requests' = requests
  PROVE  calls' \in [Writers -> Call] /\ RequestShape' /\ CallShape'
<1> DEFINE c == [calls[w] EXCEPT !.step = "done", !.reply = reply]
<1>1. calls[w] \in Call
  BY DEF IInv, TypeOK
<1>2. c \in Call /\ c.step = "done" /\ c.key = calls[w].key
  BY <1>1 DEF Call, Steps
<1>3. calls' = [calls EXCEPT ![w] = c]
  BY DEF Reply, IInv, TypeOK
<1> HIDE DEF c
<1> QED BY <1>2, <1>3, MoveShape

\* What a client may ask for: the creation, or a mutation with a new id, on a
\* version there is, of stored rows.
AskedMutation(r) ==
  /\ r.kind \in {"STATE_COMMITTED", "STATE_IMPORTED", "STATE_SUPERSEDED"}
  /\ r.base \in 0..MaxVersion /\ r.base <= version /\ r.new \in Unused
  /\ r.old \in Stored \cup {None} /\ (r.kind = "STATE_SUPERSEDED" => r.old \in Stored)
  /\ r.authority \in Authority /\ r.status \in RowStatus
  /\ r.names \in Stored \cup {None} /\ r.adds \in SUBSET ({r.new} \X Stored)
  /\ r = [kind |-> r.kind, base |-> r.base, new |-> r.new, old |-> r.old,
          authority |-> r.authority, status |-> r.status, names |-> r.names,
          adds |-> r.adds]

AskedCreation(r) ==
  r = [kind |-> "PROJECT_CREATED", base |-> 0, new |-> None, old |-> None,
       authority |-> "user", status |-> "active", names |-> None, adds |-> {}]

LEMMA AskedForms ==
  ASSUME TypeOK, NEW r \in Askable
  PROVE  AskedCreation(r) \/ AskedMutation(r)
<1>1. version \in Nat /\ MaxVersion \in Nat
  BY LedgerAssumption DEF TypeOK
<1>2. CASE r = Ask("PROJECT_CREATED", 0, None, None, "user")
  BY <1>2 DEF AskedCreation, Ask
<1>3. ASSUME NEW b \in {v \in 0..version : v < MaxVersion}, NEW n \in Unused,
             r \in Commits(b, n) \cup Imports(b, n) \cup Supersessions(b, n)
      PROVE  AskedMutation(r)
  <2>1. b \in 0..MaxVersion /\ b <= version
    BY <1>1
  <2>2. CASE r \in Commits(b, n)
    BY <2>1, <2>2 DEF Commits, Ask, AskedMutation, Authority, RowStatus
  <2>3. CASE r \in Imports(b, n)
    BY <2>1, <2>3 DEF Imports, Ask, AskedMutation, Authority, RowStatus
  <2>4. CASE r \in Supersessions(b, n)
    BY <2>1, <2>4 DEF Supersessions, Ask, AskedMutation, Authority, RowStatus
  <2> QED BY <1>3, <2>2, <2>3, <2>4
<1> QED BY <1>2, <1>3 DEF Askable

\* It is a request, and has the shape of one.
LEMMA AskableShape ==
  ASSUME TypeOK, NEW r \in Askable
  PROVE  /\ r \in Request
         /\ r.kind # "PROJECT_CREATED" => r.new \in Objects
         /\ r.kind = "PROJECT_CREATED" => r.old = None /\ r.base = 0
         /\ r.kind = "STATE_SUPERSEDED" => r.old \in Objects
         /\ r.new # None => r.new \in Unused
         /\ r.old # None => r.old \in Stored
         /\ r.base <= version
<1>1. Unused \subseteq Objects /\ Stored \subseteq Objects
  BY DEF Unused, Stored
<1>2. version \in Nat /\ 0 \in 0..MaxVersion
  BY LedgerAssumption DEF TypeOK
<1>3. CASE AskedCreation(r)
  BY <1>2, <1>3 DEF AskedCreation, Request, EventKinds, Authority, RowStatus, Edges
<1>4. CASE AskedMutation(r)
  <2>1. r.adds \in Edges
    BY <1>1, <1>4 DEF AskedMutation, Edges
  <2>2. r \in Request
    BY <1>1, <1>4, <2>1 DEF AskedMutation, Request, EventKinds
  <2> QED BY <1>1, <1>4, <2>2 DEF AskedMutation
<1> QED BY <1>3, <1>4, AskedForms

LEMMA NewRequestIInv ==
  ASSUME IInv, NEW w \in Writers, NEW k \in Keys, NewRequest(w, k)
  PROVE  IInv'
<1> USE DEF IInv
<1>1. PICK r \in Askable : requests' = [requests EXCEPT ![k] = r] /\ Enter(w, k, r)
  BY DEF NewRequest
<1>2. /\ r \in Request
      /\ r.kind # "PROJECT_CREATED" => r.new \in Objects
      /\ r.kind = "STATE_SUPERSEDED" => r.old \in Objects
      /\ (r.kind = "PROJECT_CREATED" => r.old = None)
  BY AskableShape
<1>3. requests' \in [Keys -> Request \cup {None}] /\ requests'[k] = r
      /\ \A j \in Keys : j # k => requests'[j] = requests[j]
  BY <1>1, <1>2 DEF TypeOK
<1>4. RequestShape'
  BY <1>2, <1>3 DEF RequestShape
<1>5. ASSUME NEW v \in Writers, calls[v].step # "idle"
      PROVE  requests'[calls[v].key] = requests[calls[v].key]
  <2>1. calls[v].key \in Keys /\ requests[calls[v].key] \in Request
    BY <1>5 DEF CallShape
  <2>2. calls[v].key # k
    BY <2>1, LedgerAssumption DEF NewRequest
  <2> QED BY <2>1, <2>2, <1>3
<1>6. calls[w].step = "idle" /\ UNCHANGED <<status, version, digest, rows, edges, log, reads>>
  BY DEF NewRequest, store
<1>7. calls' \in [Writers -> Call] /\ CallShape'
  BY <1>1, <1>2, <1>3, <1>5, <1>6, EnterShape
<1> QED
  BY <1>3, <1>4, <1>6, <1>7 DEF TypeOK

LEMMA RetryIInv ==
  ASSUME IInv, NEW w \in Writers, NEW k \in Keys, Retry(w, k)
  PROVE  IInv'
<1> USE DEF IInv
<1>1. requests[k] \in Request /\ requests' = requests /\ calls[w].step = "idle"
      /\ Enter(w, k, requests[k])
      /\ UNCHANGED <<status, version, digest, rows, edges, log, reads>>
  BY DEF Retry, TypeOK, store
<1>2. calls' \in [Writers -> Call] /\ CallShape'
  BY <1>1, EnterShape DEF TypeOK
<1> QED BY <1>1, <1>2 DEF TypeOK, RequestShape

\* The steps of a call that only answer or move on.
LEMMA QuietIInv ==
  ASSUME IInv, NEW w \in Writers,
         GateCandidate(w) \/ ReadOld(w) \/ Lookup(w) \/ Refuse(w) \/ Busy(w)
           \/ Confirm(w) \/ Leave(w)
  PROVE  IInv'
<1> USE DEF IInv
<1>1. UNCHANGED <<status, version, digest, rows, edges, log, requests, reads>>
      /\ calls[w].step # "idle"
  BY DEF GateCandidate, ReadOld, Lookup, Refuse, Busy, Confirm, Leave, store
<1>2. calls[w] \in Call /\ calls[w].key \in Keys /\ requests[calls[w].key] \in Request
  BY <1>1 DEF TypeOK, CallShape
<1>3. CASE \E reply \in Replies : Reply(w, reply)
  <2>1. calls' \in [Writers -> Call] /\ RequestShape' /\ CallShape'
    BY <1>1, <1>3, ReplyShape
  <2> QED BY <1>1, <2>1 DEF TypeOK
<1>4. CASE /\ calls[w].step = "old"
           /\ rows[requests[calls[w].key].old] # None
           /\ calls' = [calls EXCEPT ![w].step = "lookup",
                                     ![w].old = rows[requests[calls[w].key].old]]
  <2> DEFINE c == [calls[w] EXCEPT !.step = "lookup",
                                   !.old = rows[requests[calls[w].key].old]]
  <2>1. requests[calls[w].key].old \in Objects
    BY <1>4 DEF CallShape
  <2>2. rows[requests[calls[w].key].old] \in Row
    BY <1>4, <2>1 DEF TypeOK, Rows
  <2>3. c \in Call /\ c.key = calls[w].key /\ c.step = "lookup" /\ c.old \in Row
    BY <1>2, <2>2 DEF Call, Steps
  <2>4. calls' = [calls EXCEPT ![w] = c]
    BY <1>4 DEF TypeOK
  <2> HIDE DEF c
  <2>5. calls' \in [Writers -> Call] /\ RequestShape' /\ CallShape'
    BY <1>1, <2>3, <2>4, MoveShape
  <2> QED BY <1>1, <2>5 DEF TypeOK
<1>5. CASE calls[w].step = "lookup" /\ calls' = [calls EXCEPT ![w].step = "begin"]
  <2> DEFINE c == [calls[w] EXCEPT !.step = "begin"]
  <2>1. c \in Call /\ c.key = calls[w].key /\ c.step = "begin" /\ c.old = calls[w].old
    BY <1>2 DEF Call, Steps
  <2>2. requests[c.key].old # None => c.old \in Row
    BY <1>5, <2>1 DEF CallShape
  <2>3. calls' = [calls EXCEPT ![w] = c]
    BY <1>5 DEF TypeOK
  <2> HIDE DEF c
  <2>4. calls' \in [Writers -> Call] /\ RequestShape' /\ CallShape'
    BY <1>1, <2>1, <2>2, <2>3, MoveShape
  <2> QED BY <1>1, <2>4 DEF TypeOK
<1>6. CASE calls' = [calls EXCEPT ![w] = NoCall]
  <2>1. NoCall \in Call /\ NoCall.step = "idle"
    BY DEF NoCall, Call, Steps, Replies
  <2>2. calls' \in [Writers -> Call] /\ CallShape' /\ RequestShape'
    BY <1>1, <1>6, <2>1 DEF TypeOK, CallShape, RequestShape
  <2> QED BY <1>1, <2>2 DEF TypeOK
<1>7. CASE GateCandidate(w)
  BY <1>3, <1>7 DEF GateCandidate, Replies
<1>8. CASE ReadOld(w)
  BY <1>3, <1>4, <1>8 DEF ReadOld, Replies
<1>9. CASE Lookup(w)
  BY <1>3, <1>5, <1>9 DEF Lookup, Replies
<1>10. CASE Refuse(w)
  BY <1>3, <1>10 DEF Refuse, Replies
<1>11. CASE Busy(w) \/ Confirm(w)
  BY <1>3, <1>11 DEF Busy, Confirm, Replies
<1>12. CASE Leave(w)
  BY <1>6, <1>12 DEF Leave
<1> QED BY <1>7, <1>8, <1>9, <1>10, <1>11, <1>12

\* A committing call moves to "written" and keeps everything else it knew.
LEMMA WrittenShape ==
  ASSUME IInv, NEW w \in Writers, calls[w].step = "begin", requests' = requests,
         calls' = [calls EXCEPT ![w].step = "written"]
  PROVE  calls' \in [Writers -> Call] /\ RequestShape' /\ CallShape'
<1> DEFINE c == [calls[w] EXCEPT !.step = "written"]
<1>1. calls[w] \in Call
  BY DEF IInv, TypeOK
<1>2. c \in Call /\ c.key = calls[w].key /\ c.step = "written"
  BY <1>1 DEF Call, Steps
<1>3. calls' = [calls EXCEPT ![w] = c]
  BY DEF IInv, TypeOK
<1> HIDE DEF c
<1> QED BY <1>2, <1>3, MoveShape

LEMMA CommitCreateIInv ==
  ASSUME IInv, NEW w \in Writers, CommitCreate(w)
  PROVE  IInv'
<1> USE DEF IInv
<1>1. calls' \in [Writers -> Call] /\ RequestShape' /\ CallShape'
  BY WrittenShape DEF CommitCreate
<1>2. calls[w].key \in Keys
  BY DEF CommitCreate, CallShape
<1>3. log' \in Seq(Event)
  <2> DEFINE e == [key |-> calls[w].key, kind |-> "PROJECT_CREATED", base |-> 0,
                   upserts |-> NoRows, adds |-> {}, prior |-> Empty, result |-> Empty]
  <2>1. e \in Event
    BY <1>2, EmptyTyped DEF Event, EventKinds, NoRows, Rows, Edges
  <2>2. log' = Append(log, e)
    BY DEF CommitCreate
  <2> HIDE DEF e
  <2> QED BY <2>1, <2>2 DEF TypeOK
<1> QED BY <1>1, <1>3, EmptyTyped DEF CommitCreate, TypeOK

LEMMA CommitIInv ==
  ASSUME IInv, NEW w \in Writers, Commit(w)
  PROVE  IInv'
<1> USE DEF IInv
<1> DEFINE k   == calls[w].key
           r   == requests[k]
           ups == Upserts(r, calls[w].old)
           new == Apply(Current, ups, Adds(r))
           e   == [key |-> k, kind |-> r.kind, base |-> r.base, upserts |-> ups,
                   adds |-> Adds(r), prior |-> digest, result |-> new]
<1>1. k \in Keys /\ r \in Request /\ r.new \in Objects
      /\ (r.old # None => calls[w].old \in Row) /\ calls[w].old \in Row \cup {None}
  BY LedgerAssumption DEF Commit, Materialise, CallShape, RequestShape, TypeOK, Call
<1>2. ups \in Rows /\ Adds(r) \in Edges
  BY <1>1, UpsertsTyped, AddsTyped
<1>3. new \in Canonical
  BY <1>2, ApplyTyped, CurrentTyped
<1>4. calls' \in [Writers -> Call] /\ RequestShape' /\ CallShape'
  BY WrittenShape DEF Commit, Materialise
<1>5. r.base \in Nat
  BY <1>1, LedgerAssumption DEF Request
<1>6. e \in Event
  BY <1>1, <1>2, <1>3, <1>5 DEF Event, Request, TypeOK
<1>7. log' = Append(log, e) /\ version' = new.version /\ rows' = new.rows
      /\ edges' = new.edges /\ digest' = new
      /\ UNCHANGED <<status, requests, reads>>
  BY DEF Commit, Materialise
<1> HIDE DEF k, r, ups, new, e
<1> QED BY <1>3, <1>4, <1>6, <1>7 DEF TypeOK, Canonical

LEMMA ReaderIInv ==
  ASSUME IInv, NEW r \in Readers, ReaderStep(r)
  PROVE  IInv'
<1> USE DEF IInv
<1>1. UNCHANGED <<status, version, digest, rows, edges, log, requests, calls>>
  BY DEF ReaderStep, ReadProject, ReadRows, ReadEdges, store
<1>2. reads' \in [Readers -> Load]
  <2>1. CASE ReadProject(r)
    <3>1. [Empty EXCEPT !.version = version] \in Canonical
      BY EmptyTyped DEF TypeOK, Canonical
    <3> QED BY <2>1, <3>1 DEF ReadProject, TypeOK, Load
  <2>2. CASE ReadRows(r)
    <3>1. reads[r] \in Load /\ rows \in Rows
      BY DEF TypeOK
    <3>2. [reads[r].seen EXCEPT !.rows = rows] \in Canonical
      BY <3>1 DEF Load, Canonical
    <3>3. [reads[r] EXCEPT !.step = "edges", !.seen.rows = rows] \in Load
      BY <3>1, <3>2 DEF Load
    <3> QED BY <2>2, <3>3 DEF ReadRows, TypeOK
  <2>3. CASE ReadEdges(r)
    <3>1. reads[r] \in Load
      BY DEF TypeOK
    <3>2. [reads[r].seen EXCEPT !.edges = edges] \in Canonical
      BY <3>1 DEF TypeOK, Load, Canonical
    <3>3. [reads[r] EXCEPT !.step = "done", !.seen.edges = edges] \in Load
      BY <3>1, <3>2 DEF Load
    <3> QED BY <2>3, <3>3 DEF ReadEdges, TypeOK
  <2> QED BY <2>1, <2>2, <2>3 DEF ReaderStep
<1> QED BY <1>1, <1>2 DEF TypeOK, RequestShape, CallShape

LEMMA NextIInv == IInv /\ [Next]_vars => IInv'
<1> SUFFICES ASSUME IInv, [Next]_vars PROVE IInv'
  OBVIOUS
<1>1. ASSUME NEW w \in Writers, WriterStep(w)
      PROVE  IInv'
  BY <1>1, NewRequestIInv, RetryIInv, QuietIInv, CommitCreateIInv, CommitIInv
  DEF WriterStep
<1>2. ASSUME NEW r \in Readers, ReaderStep(r)
      PROVE  IInv'
  BY <1>2, ReaderIInv
<1>3. CASE SetStatus
  BY <1>3 DEF SetStatus, IInv, TypeOK, RequestShape, CallShape
<1>4. CASE UNCHANGED vars
  BY <1>4 DEF vars, IInv, TypeOK, RequestShape, CallShape
<1> QED BY <1>1, <1>2, <1>3, <1>4 DEF Next

\* Every reachable state is well typed, and every call in progress holds a
\* request of the form its client made (Store's operations and their callers).
THEOREM TypeCorrect == Spec => []TypeOK
<1>1. Spec => []IInv
  BY InitIInv, NextIInv, PTL DEF Spec
<1> QED BY <1>1, PTL DEF IInv

-----------------------------------------------------------------------------
(* The chain of events *)

LEMMA InitChain == Init => LedgerChain
BY DEF Init, LedgerChain, Current, Empty

\* Only the two commit transactions touch the tables or the log.
LEMMA StoreStable ==
  ASSUME LedgerChain, status' # "absent" <=> status # "absent",
         UNCHANGED <<version, digest, rows, edges, log>>
  PROVE  LedgerChain'
BY DEF LedgerChain, Current

LEMMA CommitCreateChain ==
  ASSUME TypeOK, LedgerChain, NEW w \in Writers, CommitCreate(w)
  PROVE  LedgerChain'
<1>1. log = <<>> /\ version = 0 /\ digest = Empty /\ Current = Empty
  BY DEF CommitCreate, LedgerChain
<1> DEFINE e == [key |-> calls[w].key, kind |-> "PROJECT_CREATED", base |-> 0,
                 upserts |-> NoRows, adds |-> {}, prior |-> Empty, result |-> Empty]
<1>2. log' = <<e>> /\ Len(log') = 1
  BY <1>1 DEF CommitCreate
<1>3. status' = "active" /\ version' = 0 /\ digest' = Empty /\ Current' = Empty
  BY <1>1 DEF CommitCreate, Current
<1> QED BY <1>2, <1>3 DEF LedgerChain

LEMMA CommitChain ==
  ASSUME TypeOK, LedgerChain, NEW w \in Writers, Commit(w)
  PROVE  LedgerChain'
<1> DEFINE r   == requests[calls[w].key]
           ups == Upserts(r, calls[w].old)
           new == Apply(Current, ups, Adds(r))
           e   == [key |-> calls[w].key, kind |-> r.kind, base |-> r.base,
                   upserts |-> ups, adds |-> Adds(r), prior |-> digest, result |-> new]
           n   == Len(log)
<1>1. n \in Nat /\ n > 0 /\ version = n - 1 /\ r.base = n - 1 /\ log # <<>>
  BY DEF Commit, Materialise, Accepts, LedgerChain, TypeOK
<1>2. log' = Append(log, e) /\ Len(log') = n + 1 /\ log' # <<>>
      /\ log'[n + 1] = e /\ \A i \in 1..n : log'[i] = log[i]
  BY DEF Commit, Materialise, TypeOK
<1>3. digest' = new /\ Current' = new /\ version' = version + 1 /\ status' = status
  BY DEF Commit, Materialise, Current, Apply
<1>4. ASSUME NEW i \in 1..Len(log')
      PROVE  IF i = 1
             THEN log'[i].kind = "PROJECT_CREATED" /\ log'[i].result = Empty
             ELSE /\ log'[i].kind # "PROJECT_CREATED"
                  /\ log'[i].base = i - 2
                  /\ log'[i].prior = log'[i-1].result
                  /\ log'[i].result = Apply(log'[i].prior, log'[i].upserts, log'[i].adds)
  <2>1. CASE i \in 1..n
    <3>1. i = 1 \/ i - 1 \in 1..n
      BY <1>1, <2>1
    <3> QED BY <1>2, <2>1, <3>1 DEF LedgerChain
  <2>2. CASE i = n + 1
    <3>1. i # 1 /\ i - 1 = n /\ n \in 1..n /\ i - 2 = n - 1
      BY <1>1, <2>2
    <3>2. log'[i-1].result = digest
      BY <1>1, <1>2, <3>1 DEF LedgerChain
    <3>3. digest = Current /\ r.kind # "PROJECT_CREATED"
      BY DEF LedgerChain, Commit, Materialise
    <3> HIDE DEF ups, new, r
    <3> QED BY <1>1, <1>2, <2>2, <3>1, <3>2, <3>3 DEF new
  <2> QED BY <1>1, <1>2, <2>1, <2>2
<1>5. status # "absent"
  BY DEF Commit, Materialise, Accepts
<1> HIDE DEF new, ups, r, n
<1>6. log'[Len(log')].result = new
  BY <1>1, <1>2
<1>7. version' = Len(log') - 1
  BY <1>1, <1>2, <1>3
<1> HIDE DEF e
<1> QED BY <1>2, <1>3, <1>4, <1>5, <1>6, <1>7 DEF LedgerChain

LEMMA NextChain == TypeOK /\ LedgerChain /\ [Next]_vars => LedgerChain'
<1> SUFFICES ASSUME TypeOK, LedgerChain, [Next]_vars PROVE LedgerChain'
  OBVIOUS
<1>1. ASSUME NEW w \in Writers, WriterStep(w) PROVE LedgerChain'
  <2>1. CASE CommitCreate(w)
    BY <2>1, CommitCreateChain
  <2>2. CASE Commit(w)
    BY <2>2, CommitChain
  <2>3. CASE ~CommitCreate(w) /\ ~Commit(w)
    <3>1. UNCHANGED <<status, version, digest, rows, edges, log>>
      BY <1>1, <2>3 DEF WriterStep, NewRequest, Retry, GateCandidate, ReadOld, Lookup,
                        Refuse, Busy, Confirm, Leave, store
    <3> QED BY <3>1, StoreStable
  <2> QED BY <2>1, <2>2, <2>3
<1>2. ASSUME NEW r \in Readers, ReaderStep(r) PROVE LedgerChain'
  BY <1>2, StoreStable DEF ReaderStep, ReadProject, ReadRows, ReadEdges, store
<1>3. CASE SetStatus
  BY <1>3, StoreStable DEF SetStatus
<1>4. CASE UNCHANGED vars
  BY <1>4, StoreStable DEF vars
<1> QED BY <1>1, <1>2, <1>3, <1>4 DEF Next

\* The log is always a chain replay() accepts and whose last digest is the
\* state in the tables (commit_mutation, create_project), whatever the two
\* processes interleave: the compare-and-set of the commit is all it needs.
THEOREM ChainHolds == Spec => []LedgerChain
BY InitChain, NextChain, TypeCorrect, PTL DEF Spec

-----------------------------------------------------------------------------
(* Nothing is erased                                                         *)
(*                                                                           *)
(* A commit may only add a row nobody stored and rewrite the status of a row *)
(* it read earlier.  That the copy is still good is not visible in the       *)
(* transaction: it follows from two facts about calls and requests.          *)

\* An id is inserted by one request only, and is stored only if that request
\* is in the log.
NewUnused ==
  \A k \in Keys : (requests[k] # None /\ requests[k].new # None) =>
    /\ rows[requests[k].new] # None => Keyed(k)
    /\ \A j \in Keys : (j # k /\ requests[j] # None) => requests[j].new # requests[k].new

\* The copy of the old row a call made before its transaction still agrees
\* with the table on everything but the status and the version.
OldCopy ==
  \A w \in Writers :
    LET o == requests[calls[w].key].old IN
    (calls[w].step \in {"lookup", "begin"} /\ o # None) =>
      /\ rows[o] # None
      /\ rows[o].authority = calls[w].old.authority
      /\ rows[o].supersedes = calls[w].old.supersedes

RowsKept ==
  \A o \in Objects : rows[o] # None =>
    /\ rows'[o] # None
    /\ rows'[o].authority = rows[o].authority
    /\ rows'[o].supersedes = rows[o].supersedes
    /\ rows[o].status = "superseded" => rows'[o].status = "superseded"

HInv == IInv /\ NewUnused /\ OldCopy

LEMMA CommitRows ==
  ASSUME HInv, NEW w \in Writers, Commit(w)
  PROVE  /\ RowsKept
         /\ \A o \in Objects : (rows'[o] # None /\ rows[o] = None)
                               => o = requests[calls[w].key].new
<1> USE DEF HInv, IInv
<1> DEFINE k == calls[w].key
           r == requests[k]
<1>1. k \in Keys /\ r \in Request /\ r.new \in Objects /\ r # None
      /\ (r.old # None => calls[w].old \in Row)
  BY LedgerAssumption DEF Commit, Materialise, CallShape, RequestShape
<1>2. rows[r.new] = None
  BY <1>1, LedgerAssumption DEF NewUnused, Commit, Materialise, Accepts
<1>3. r.old # None => /\ rows[r.old] # None
                      /\ rows[r.old].authority = calls[w].old.authority
                      /\ rows[r.old].supersedes = calls[w].old.supersedes
  BY DEF OldCopy, Commit, Materialise
<1>4. ASSUME NEW o \in Objects
      PROVE  rows'[o] = IF Upserts(r, calls[w].old)[o] = None THEN rows[o]
                        ELSE Upserts(r, calls[w].old)[o]
  BY DEF Commit, Materialise, Apply, Overwrite, Current
<1>5. ASSUME NEW o \in Objects, o # r.new, o # r.old
      PROVE  rows'[o] = rows[o]
  <2>1. Upserts(r, calls[w].old)[o] = None
    BY <1>5 DEF Upserts
  <2> QED BY <1>4, <2>1
<1>6. ASSUME NEW o \in Objects, o # r.new, o = r.old
      PROVE  /\ rows'[o] # None /\ rows[o] # None
             /\ rows'[o].status = "superseded"
             /\ rows'[o].authority = rows[o].authority
             /\ rows'[o].supersedes = rows[o].supersedes
  <2>1. r.old # None
    BY <1>6, LedgerAssumption
  <2>2. Upserts(r, calls[w].old)[o]
          = [calls[w].old EXCEPT !.status = "superseded", !.at = r.base + 1]
    BY <1>6 DEF Upserts
  <2>3. calls[w].old \in Row /\ r.base + 1 \in Nat
    BY <1>1, <2>1, LedgerAssumption DEF Request
  <2>4. Upserts(r, calls[w].old)[o] \in Row
    BY <2>2, <2>3 DEF Row, RowStatus
  <2>5. rows'[o] = Upserts(r, calls[w].old)[o]
    BY <1>4, <2>4, LedgerAssumption
  <2>6. Upserts(r, calls[w].old)[o] # None
    BY <2>4, LedgerAssumption
  <2>7. /\ rows'[o].status = "superseded"
        /\ rows'[o].authority = calls[w].old.authority
        /\ rows'[o].supersedes = calls[w].old.supersedes
    BY <2>2, <2>3, <2>5 DEF Row
  <2> QED BY <1>3, <1>6, <2>1, <2>5, <2>6, <2>7
<1> HIDE DEF r, HInv, IInv
<1>7. ASSUME NEW o \in Objects, rows[o] # None
      PROVE  /\ rows'[o] # None
             /\ rows'[o].authority = rows[o].authority
             /\ rows'[o].supersedes = rows[o].supersedes
             /\ rows[o].status = "superseded" => rows'[o].status = "superseded"
  <2>1. o # r.new
    BY <1>2, <1>7
  <2>2. CASE o = r.old
    BY <1>6, <2>1, <2>2
  <2>3. CASE o # r.old
    <3>1. rows'[o] = rows[o]
      BY <1>5, <2>1, <2>3
    <3> QED BY <1>7, <3>1
  <2> QED BY <2>2, <2>3
<1>8. ASSUME NEW o \in Objects, rows'[o] # None, rows[o] = None
      PROVE  o = r.new
  <2>1. CASE o = r.old
    BY <1>6, <1>8, <2>1
  <2>2. CASE o # r.old
    BY <1>5, <1>8, <2>2
  <2> QED BY <2>1, <2>2
<1>9. RowsKept
  BY <1>7 DEF RowsKept
<1> QED BY <1>8, <1>9 DEF r

\* Every other step leaves the tables alone.
LEMMA OtherRows ==
  ASSUME NEW w \in Writers, WriterStep(w), ~Commit(w)
  PROVE  UNCHANGED rows
BY DEF WriterStep, NewRequest, Retry, GateCandidate, ReadOld, Lookup, CommitCreate,
       Refuse, Busy, Confirm, Leave, store

LEMMA NextRowsKept == HInv /\ [Next]_vars => RowsKept
<1> SUFFICES ASSUME HInv, [Next]_vars PROVE RowsKept
  OBVIOUS
<1>1. ASSUME NEW w \in Writers, WriterStep(w) PROVE RowsKept
  BY <1>1, CommitRows, OtherRows DEF RowsKept
<1>2. ASSUME NEW r \in Readers, ReaderStep(r) PROVE RowsKept
  BY <1>2 DEF RowsKept, ReaderStep, ReadProject, ReadRows, ReadEdges, store
<1>3. CASE SetStatus
  BY <1>3 DEF SetStatus, RowsKept
<1>4. CASE UNCHANGED vars
  BY <1>4 DEF vars, RowsKept
<1> QED BY <1>1, <1>2, <1>3, <1>4 DEF Next

\* A step leaves the log alone or appends one event.
LEMMA LogSteps ==
  [Next]_vars => UNCHANGED log \/ \E e : log' = Append(log, e)
<1> SUFFICES ASSUME [Next]_vars PROVE UNCHANGED log \/ \E e : log' = Append(log, e)
  OBVIOUS
<1>1. ASSUME NEW w \in Writers, WriterStep(w)
      PROVE  UNCHANGED log \/ \E e : log' = Append(log, e)
  <2>1. CASE CommitCreate(w) \/ Commit(w)
    BY <2>1 DEF CommitCreate, Commit, Materialise
  <2>2. CASE ~(CommitCreate(w) \/ Commit(w))
    BY <1>1, <2>2 DEF WriterStep, NewRequest, Retry, GateCandidate, ReadOld, Lookup,
                      Refuse, Busy, Confirm, Leave, store
  <2> QED BY <2>1, <2>2
<1>2. ASSUME NEW r \in Readers, ReaderStep(r) PROVE UNCHANGED log
  BY <1>2 DEF ReaderStep, ReadProject, ReadRows, ReadEdges, store
<1>3. SetStatus \/ UNCHANGED vars => UNCHANGED log
  BY DEF SetStatus, vars
<1> QED BY <1>1, <1>2, <1>3 DEF Next

\* The log only grows.
LEMMA NextLogGrows ==
  ASSUME TypeOK, [Next]_vars
  PROVE  /\ Len(log) \in Nat /\ Len(log') \in Nat /\ Len(log') >= Len(log)
         /\ \A i \in 1..Len(log) : log'[i] = log[i]
<1>1. ASSUME NEW e, log' = Append(log, e)
      PROVE  /\ Len(log) \in Nat /\ Len(log') \in Nat /\ Len(log') >= Len(log)
             /\ \A i \in 1..Len(log) : log'[i] = log[i]
  BY <1>1 DEF TypeOK
<1>2. CASE UNCHANGED log
  <2>1. Len(log) \in Nat
    BY DEF TypeOK
  <2> QED BY <1>2, <2>1
<1> QED BY <1>1, <1>2, LogSteps

\* Stable parts: what a step that leaves tables, log and requests alone keeps.
LEMMA NewUnusedStable ==
  ASSUME NewUnused, UNCHANGED <<rows, log, requests>>
  PROVE  NewUnused'
BY DEF NewUnused, Keyed

LEMMA NewRequestUnused ==
  ASSUME HInv, NEW w \in Writers, NEW k \in Keys, NewRequest(w, k)
  PROVE  NewUnused' /\ OldCopy'
<1> USE DEF HInv, IInv
<1>1. PICK r \in Askable : requests' = [requests EXCEPT ![k] = r] /\ Enter(w, k, r)
  BY DEF NewRequest
<1>2. UNCHANGED <<rows, log>> /\ requests[k] = None /\ calls[w].step = "idle"
  BY DEF NewRequest, store
<1>3. r \in Request /\ (r.new # None => r.new \in Unused)
  BY AskableShape
<1>4. requests'[k] = r /\ \A j \in Keys : j # k => requests'[j] = requests[j]
  BY <1>1 DEF TypeOK
<1>5. r.new # None =>
        /\ rows[r.new] = None
        /\ \A j \in Keys : requests[j] # None => requests[j].new # r.new
  BY <1>3 DEF Unused, Stored
<1>6. NewUnused'
  <2> SUFFICES ASSUME NEW i \in Keys, requests'[i] # None, requests'[i].new # None
               PROVE  /\ rows'[requests'[i].new] # None => Keyed(i)'
                      /\ \A j \in Keys : (j # i /\ requests'[j] # None)
                           => requests'[j].new # requests'[i].new
    BY DEF NewUnused
  <2>1. CASE i = k
    BY <1>2, <1>4, <1>5, <2>1
  <2>2. CASE i # k
    <3>1. requests'[i] = requests[i]
      BY <1>4, <2>2
    <3>2. rows[requests[i].new] # None => Keyed(i)
      BY <3>1 DEF NewUnused
    <3>3. Keyed(i)' <=> Keyed(i)
      BY <1>2 DEF Keyed
    <3>4. ASSUME NEW j \in Keys, j # i, requests'[j] # None
          PROVE  requests'[j].new # requests'[i].new
      BY <1>4, <1>5, <2>2, <3>1, <3>4 DEF NewUnused
    <3> QED BY <1>2, <3>1, <3>2, <3>3, <3>4
  <2> QED BY <2>1, <2>2
<1>7. OldCopy'
  <2> SUFFICES ASSUME NEW v \in Writers, calls'[v].step \in {"lookup", "begin"},
                      requests'[calls'[v].key].old # None
               PROVE  LET o == requests'[calls'[v].key].old IN
                      /\ rows'[o] # None
                      /\ rows'[o].authority = calls'[v].old.authority
                      /\ rows'[o].supersedes = calls'[v].old.supersedes
    BY DEF OldCopy
  <2>1. v # w
    <3>1. SUFFICES ASSUME v = w PROVE FALSE
      OBVIOUS
    <3>2. calls'[w].key = k /\ (calls'[w].step = "lookup" => r.old = None)
          /\ calls'[w].step \in {"old", "lookup"}
      BY <1>1 DEF Enter, TypeOK, NoCall
    <3> QED BY <1>4, <3>1, <3>2
  <2>2. calls'[v] = calls[v]
    BY <1>1, <2>1 DEF Enter, TypeOK
  <2>3. calls[v].key # k /\ calls[v].key \in Keys
    BY <1>2, <2>2, LedgerAssumption DEF CallShape
  <2>4. requests'[calls'[v].key] = requests[calls[v].key]
    BY <1>4, <2>2, <2>3
  <2>5. /\ calls[v].step \in {"lookup", "begin"}
        /\ requests[calls[v].key].old # None
    BY <2>2, <2>4
  <2>6. OldCopy /\ rows' = rows
    BY <1>2
  <2> HIDE DEF HInv, IInv
  <2> QED BY <2>2, <2>4, <2>5, <2>6 DEF OldCopy
<1> QED BY <1>6, <1>7

\* The other processes' calls are untouched by a step of one.
LEMMA OneCallMoves ==
  ASSUME TypeOK, NEW w \in Writers, WriterStep(w)
  PROVE  \A v \in Writers : v # w => calls'[v] = calls[v]
BY DEF TypeOK, WriterStep, NewRequest, Retry, Enter, GateCandidate, ReadOld, Lookup,
       CommitCreate, Commit, Materialise, Refuse, Busy, Confirm, Leave, Reply

LEMMA CallStepOldCopy ==
  ASSUME HInv, NEW w \in Writers,
         \/ \E k \in Keys : Retry(w, k)
         \/ GateCandidate(w) \/ ReadOld(w) \/ Lookup(w) \/ Refuse(w) \/ Busy(w)
            \/ Confirm(w) \/ Leave(w)
  PROVE  NewUnused' /\ OldCopy'
<1> USE DEF HInv, IInv
<1>1. UNCHANGED <<rows, log, requests>>
  BY DEF Retry, GateCandidate, ReadOld, Lookup, Refuse, Busy, Confirm, Leave, store
<1>2. NewUnused'
  BY <1>1, NewUnusedStable
<1>3. OldCopy'
  <2> SUFFICES ASSUME NEW v \in Writers, calls'[v].step \in {"lookup", "begin"},
                      requests[calls'[v].key].old # None
               PROVE  LET o == requests[calls'[v].key].old IN
                      /\ rows[o] # None
                      /\ rows[o].authority = calls'[v].old.authority
                      /\ rows[o].supersedes = calls'[v].old.supersedes
    BY <1>1 DEF OldCopy
  <2>1. CASE v # w
    <3>1. WriterStep(w)
      BY DEF WriterStep
    <3>2. calls'[v] = calls[v]
      BY <2>1, <3>1, OneCallMoves
    <3> QED BY <3>2 DEF OldCopy
  <2>2. CASE v = w
    <3>1. CASE \E k \in Keys : Retry(w, k)
      <4>1. PICK k \in Keys : Retry(w, k)
        BY <3>1
      <4>2. calls'[w] = [NoCall EXCEPT !.step = IF requests[k].old # None THEN "old"
                                                ELSE "lookup",
                                       !.key = k, !.start = Len(log)]
        BY <4>1 DEF Retry, Enter, TypeOK
      <4>3. calls'[w].key = k /\ (requests[k].old # None => calls'[w].step = "old")
        BY <4>2 DEF NoCall
      <4> QED BY <2>2, <4>3
    <3>2. CASE ReadOld(w)
      <4>1. calls[w] \in Call
        BY DEF TypeOK
      <4>2. CASE rows[requests[calls[w].key].old] = None
        <5>1. calls' = [calls EXCEPT ![w].step = "done", ![w].reply = "refused"]
          BY <3>2, <4>2 DEF ReadOld, Reply
        <5>2. calls'[w].step = "done"
          BY <4>1, <5>1 DEF TypeOK, Call
        <5> QED BY <2>2, <5>2
      <4>3. CASE rows[requests[calls[w].key].old] # None
        <5>1. calls' = [calls EXCEPT ![w].step = "lookup",
                                     ![w].old = rows[requests[calls[w].key].old]]
          BY <3>2, <4>3 DEF ReadOld
        <5>2. calls'[w].key = calls[w].key
              /\ calls'[w].old = rows[requests[calls[w].key].old]
          BY <4>1, <5>1 DEF TypeOK, Call
        <5> QED BY <2>2, <4>3, <5>2
      <4> QED BY <4>2, <4>3
    <3>3. CASE Lookup(w)
      <4>1. calls[w] \in Call /\ calls[w].step = "lookup"
        BY <3>3 DEF TypeOK, Lookup
      <4>2. \/ calls' = [calls EXCEPT ![w].step = "done", ![w].reply = "ok"]
            \/ calls' = [calls EXCEPT ![w].step = "begin"]
        BY <3>3 DEF Lookup, Reply
      <4>3. calls'[w].key = calls[w].key /\ calls'[w].old = calls[w].old
        BY <4>1, <4>2 DEF TypeOK, Call
      <4> QED BY <2>2, <4>1, <4>3 DEF OldCopy
    <3>4. CASE GateCandidate(w) \/ Refuse(w) \/ Busy(w) \/ Confirm(w) \/ Leave(w)
      <4>1. \/ \E reply \in Replies :
                 calls' = [calls EXCEPT ![w].step = "done", ![w].reply = reply]
            \/ calls' = [calls EXCEPT ![w] = NoCall]
        BY <3>4 DEF GateCandidate, Refuse, Busy, Confirm, Leave, Reply, Replies
      <4>2. calls[w] \in Call
        BY DEF TypeOK
      <4>3. calls'[w].step \in {"done", "idle"}
        BY <4>1, <4>2 DEF TypeOK, NoCall, Call
      <4> QED BY <2>2, <4>3
    <3> QED BY <3>1, <3>2, <3>3, <3>4
  <2> QED BY <2>1, <2>2
<1> QED BY <1>2, <1>3

LEMMA CommitOldCopy ==
  ASSUME HInv, NEW w \in Writers, CommitCreate(w) \/ Commit(w)
  PROVE  NewUnused' /\ OldCopy'
<1> USE DEF HInv, IInv
<1>1. RowsKept /\ \A o \in Objects : (rows'[o] # None /\ rows[o] = None)
                      => (Commit(w) /\ o = requests[calls[w].key].new)
  <2>1. CASE Commit(w)
    BY <2>1, CommitRows
  <2>2. CASE CommitCreate(w)
    BY <2>2 DEF CommitCreate, RowsKept
  <2> QED BY <2>1, <2>2
<1>2. requests' = requests /\ calls' = [calls EXCEPT ![w].step = "written"]
      /\ calls[w].step = "begin"
  BY DEF CommitCreate, Commit, Materialise
<1>3. PICK e : log' = Append(log, e) /\ e.key = calls[w].key
  BY DEF CommitCreate, Commit, Materialise
<1>4. ASSUME NEW k \in Keys, k = calls[w].key \/ Keyed(k)
      PROVE  Keyed(k)'
  <2>1. Len(log) \in Nat /\ Len(log') = Len(log) + 1
    BY <1>3 DEF TypeOK
  <2>2. log'[Len(log) + 1] = e /\ \A i \in 1..Len(log) : log'[i] = log[i]
    BY <1>3 DEF TypeOK
  <2>3. CASE k = calls[w].key
    BY <1>3, <2>1, <2>2, <2>3 DEF Keyed
  <2>4. CASE Keyed(k)
    <3>1. PICK i \in 1..Len(log) : log[i].key = k
      BY <2>4 DEF Keyed
    <3>2. i \in 1..Len(log') /\ log'[i].key = k
      BY <2>1, <2>2, <3>1
    <3> QED BY <3>2 DEF Keyed
  <2> QED BY <1>4, <2>3, <2>4
<1>5. NewUnused'
  <2> SUFFICES ASSUME NEW k \in Keys, requests[k] # None, requests[k].new # None,
                      rows'[requests[k].new] # None
               PROVE  Keyed(k)'
    BY <1>2 DEF NewUnused
  <2>1. CASE rows[requests[k].new] # None
    BY <1>4, <2>1 DEF NewUnused
  <2>2. CASE rows[requests[k].new] = None
    <3>1. requests[k].new \in Objects
      BY LedgerAssumption DEF TypeOK, Request
    <3>2. requests[k].new = requests[calls[w].key].new /\ calls[w].key \in Keys
          /\ requests[calls[w].key] # None
      BY <1>1, <1>2, <2>2, <3>1, LedgerAssumption DEF CallShape
    <3>3. k = calls[w].key
      BY <3>2 DEF NewUnused
    <3> QED BY <1>4, <3>3
  <2> QED BY <2>1, <2>2
<1>6. OldCopy'
  <2> SUFFICES ASSUME NEW v \in Writers, calls'[v].step \in {"lookup", "begin"},
                      requests[calls'[v].key].old # None
               PROVE  LET o == requests[calls'[v].key].old IN
                      /\ rows'[o] # None
                      /\ rows'[o].authority = calls'[v].old.authority
                      /\ rows'[o].supersedes = calls'[v].old.supersedes
    BY <1>2 DEF OldCopy
  <2>1. calls'[v] = calls[v]
    BY <1>2 DEF TypeOK
  <2>2. requests[calls[v].key].old \in Objects
    BY <2>1, LedgerAssumption DEF CallShape, Request
  <2> QED BY <1>1, <2>1, <2>2 DEF OldCopy, RowsKept
<1> QED BY <1>5, <1>6

LEMMA NextHInv == HInv /\ [Next]_vars => HInv'
<1> SUFFICES ASSUME HInv, [Next]_vars PROVE HInv'
  OBVIOUS
<1>1. IInv'
  BY NextIInv DEF HInv
<1>2. ASSUME NEW w \in Writers, WriterStep(w) PROVE NewUnused' /\ OldCopy'
  BY <1>2, NewRequestUnused, CallStepOldCopy, CommitOldCopy DEF WriterStep
<1>3. ASSUME NEW r \in Readers, ReaderStep(r) PROVE NewUnused' /\ OldCopy'
  BY <1>3, NewUnusedStable
  DEF HInv, OldCopy, ReaderStep, ReadProject, ReadRows, ReadEdges, store
<1>4. CASE SetStatus
  <2>1. NewUnused' /\ OldCopy'
    BY <1>4, NewUnusedStable DEF HInv, SetStatus, OldCopy
  <2> QED BY <1>1, <2>1 DEF HInv
<1>5. CASE UNCHANGED vars
  <2>1. NewUnused' /\ OldCopy'
    BY <1>5, NewUnusedStable DEF HInv, vars, OldCopy
  <2> QED BY <1>1, <2>1 DEF HInv
<1> QED BY <1>1, <1>2, <1>3, <1>4, <1>5 DEF Next, HInv

LEMMA InitHInv == Init => HInv
BY InitIInv DEF HInv, Init, NewUnused, OldCopy, NoCall

\* No step of any process erases an event or a row, moves a row's authority or
\* ancestor, or revives a superseded row (supersede, upsert_state_object): the
\* row copied before the transaction can be stale in nothing that matters.
THEOREM HistoryKept == Spec => HistoryIsKept
<1>1. HInv /\ [Next]_vars =>
        [/\ Len(log') >= Len(log)
         /\ \A i \in 1..Len(log) : log'[i] = log[i]
         /\ \A o \in Objects : rows[o] # None =>
              /\ rows'[o] # None
              /\ rows'[o].authority = rows[o].authority
              /\ rows'[o].supersedes = rows[o].supersedes
              /\ rows[o].status = "superseded" => rows'[o].status = "superseded"]_vars
  BY NextRowsKept, NextLogGrows DEF HInv, IInv, RowsKept
<1> QED BY <1>1, InitHInv, NextHInv, PTL DEF Spec, HistoryIsKept

-----------------------------------------------------------------------------
(* Replay rebuilds the tables                                                *)
(*                                                                           *)
(* What replay() folds is a recursive function of the log.  No induction     *)
(* over the log is needed: that every solution of its equations passes       *)
(* through the results the events store is kept by each step, and the chain  *)
(* of events itself is such a solution.                                      *)

\* What the commit transaction does to the two tables.
LEMMA CommitTables ==
  ASSUME HInv, NEW w \in Writers, Commit(w)
  PROVE  LET r == requests[calls[w].key] IN
         /\ calls[w].key \in Keys /\ r \in Request /\ r.new \in Objects
         /\ rows[r.new] = None
         /\ rows'[r.new] # None
         /\ r.old # None => rows'[r.new].supersedes = r.old
         /\ r.old # None => /\ r.old \in Objects /\ r.old # r.new
                            /\ rows'[r.old] # None
                            /\ rows'[r.old].status = "superseded"
         /\ \A o \in Objects : (o # r.new /\ o # r.old) => rows'[o] = rows[o]
         /\ edges' = edges \cup Adds(r)
<1> USE DEF HInv, IInv
<1> DEFINE k == calls[w].key
           r == requests[k]
<1>1. k \in Keys /\ r \in Request /\ r.new \in Objects /\ r # None
      /\ (r.old # None => calls[w].old \in Row)
  BY LedgerAssumption DEF Commit, Materialise, CallShape, RequestShape
<1>2. rows[r.new] = None
  BY <1>1, LedgerAssumption DEF NewUnused, Commit, Materialise, Accepts
<1>3. r.old # None => r.old \in Objects /\ rows[r.old] # None /\ r.old # r.new
  BY <1>1, <1>2, LedgerAssumption DEF OldCopy, Commit, Materialise, Request
<1>4. ASSUME NEW o \in Objects
      PROVE  rows'[o] = IF Upserts(r, calls[w].old)[o] = None THEN rows[o]
                        ELSE Upserts(r, calls[w].old)[o]
  BY DEF Commit, Materialise, Apply, Overwrite, Current
<1>5. ASSUME NEW o \in Objects, o # r.new, o # r.old
      PROVE  rows'[o] = rows[o]
  <2>1. Upserts(r, calls[w].old)[o] = None
    BY <1>5 DEF Upserts
  <2> QED BY <1>4, <2>1
<1>6. rows'[r.new] # None /\ (r.old # None => rows'[r.new].supersedes = r.old)
  <2> DEFINE link == IF r.old = None THEN r.names ELSE r.old
             n    == [status |-> r.status, authority |-> r.authority,
                      supersedes |-> link, at |-> r.base + 1]
  <2>1. Upserts(r, calls[w].old)[r.new] = n
    BY <1>1 DEF Upserts
  <2>2. n \in Row
    BY <1>1, LedgerAssumption DEF Row, Request
  <2>3. n.supersedes = link
    OBVIOUS
  <2> HIDE DEF n
  <2> QED BY <1>1, <1>4, <2>1, <2>2, <2>3, LedgerAssumption
<1>7. ASSUME r.old # None
      PROVE  rows'[r.old] # None /\ rows'[r.old].status = "superseded"
  <2> DEFINE n == [calls[w].old EXCEPT !.status = "superseded", !.at = r.base + 1]
  <2>1. Upserts(r, calls[w].old)[r.old] = n
    BY <1>3, <1>7 DEF Upserts
  <2>2. calls[w].old \in Row /\ r.base + 1 \in Nat
    BY <1>1, <1>7, LedgerAssumption DEF Request
  <2>3. n \in Row /\ n.status = "superseded"
    BY <2>2 DEF Row, RowStatus
  <2> HIDE DEF n
  <2> QED BY <1>3, <1>4, <1>7, <2>1, <2>3, LedgerAssumption
<1>8. edges' = edges \cup Adds(r)
  BY DEF Commit, Materialise, Apply, Current
<1> HIDE DEF r, k
<1> QED BY <1>1, <1>2, <1>3, <1>5, <1>6, <1>7, <1>8 DEF r, k

\* A request is never replaced.
LEMMA NextRequestsKept ==
  ASSUME IInv, [Next]_vars, NEW k \in Keys, requests[k] # None
  PROVE  requests'[k] = requests[k]
<1>1. ASSUME NEW w \in Writers, NEW j \in Keys, NewRequest(w, j)
      PROVE  requests'[k] = requests[k]
  <2>1. j # k
    BY <1>1 DEF NewRequest
  <2> QED BY <1>1, <2>1 DEF NewRequest, IInv, TypeOK
<1>2. ASSUME NEW w \in Writers, WriterStep(w), ~\E j \in Keys : NewRequest(w, j)
      PROVE  requests' = requests
  BY <1>2 DEF WriterStep, Retry, GateCandidate, ReadOld, Lookup, CommitCreate,
              Commit, Materialise, Refuse, Busy, Confirm, Leave
<1>3. ASSUME NEW r \in Readers, ReaderStep(r) PROVE requests' = requests
  BY <1>3 DEF ReaderStep, ReadProject, ReadRows, ReadEdges
<1>4. SetStatus \/ UNCHANGED vars => requests' = requests
  BY DEF SetStatus, vars
<1> QED BY <1>1, <1>2, <1>3, <1>4 DEF Next

\* What the request of a supersession did, in rows rs and edges es.
Stands(r, rs, es) ==
  /\ r # None /\ r.old \in Objects /\ r.new \in Objects
  /\ rs[r.old] # None /\ rs[r.old].status = "superseded"
  /\ rs[r.new] # None /\ rs[r.new].supersedes = r.old
  /\ <<r.new, r.old>> \in es

EventStands(i) ==
  log[i].kind = "STATE_SUPERSEDED" =>
    log[i].key \in Keys /\ Stands(requests[log[i].key], rows, edges)

AllStand == \A i \in 1..Len(log) : EventStands(i)

\* Once it stands it stands: rows are kept, edges too.
LEMMA StandsKept ==
  ASSUME RowsKept, edges \subseteq edges', NEW r, Stands(r, rows, edges)
  PROVE  Stands(r, rows', edges')
BY DEF RowsKept, Stands

\* The transaction of a supersession makes its request stand.
LEMMA CommitStands ==
  ASSUME HInv, NEW w \in Writers, Commit(w),
         requests[calls[w].key].kind = "STATE_SUPERSEDED"
  PROVE  /\ calls[w].key \in Keys /\ requests' = requests
         /\ Stands(requests[calls[w].key], rows', edges')
<1> DEFINE r == requests[calls[w].key]
<1>1. /\ calls[w].key \in Keys /\ r \in Request /\ r.new \in Objects
      /\ rows'[r.new] # None
      /\ r.old # None => rows'[r.new].supersedes = r.old
      /\ r.old # None => /\ r.old \in Objects /\ r.old # r.new
                         /\ rows'[r.old] # None /\ rows'[r.old].status = "superseded"
      /\ edges' = edges \cup Adds(r)
  BY CommitTables
<1>2. r # None
  BY <1>1, LedgerAssumption
<1>3. r.old \in Objects
  BY <1>1, <1>2 DEF HInv, IInv, RequestShape
<1>4. r.old # None
  BY <1>3, LedgerAssumption
<1>5. requests' = requests
  BY DEF Commit, Materialise
<1> HIDE DEF r
<1>6. <<r.new, r.old>> \in edges'
  BY <1>1, <1>4 DEF Adds
<1>7. Stands(r, rows', edges')
  BY <1>1, <1>2, <1>4, <1>6 DEF Stands
<1> QED BY <1>1, <1>5, <1>7 DEF r

LEMMA NextStand == HInv /\ AllStand /\ [Next]_vars => AllStand'
<1> SUFFICES ASSUME HInv, AllStand, [Next]_vars PROVE AllStand'
  OBVIOUS
<1>1. RowsKept /\ edges \subseteq edges'
  <2>1. ASSUME NEW w \in Writers, WriterStep(w), ~Commit(w) PROVE edges' = edges
    BY <2>1 DEF WriterStep, NewRequest, Retry, GateCandidate, ReadOld, Lookup,
                CommitCreate, Refuse, Busy, Confirm, Leave, store
  <2>2. ASSUME NEW w \in Writers, Commit(w) PROVE edges \subseteq edges'
    BY <2>2, CommitTables
  <2>3. ASSUME NEW r \in Readers, ReaderStep(r) PROVE edges' = edges
    BY <2>3 DEF ReaderStep, ReadProject, ReadRows, ReadEdges, store
  <2>4. SetStatus \/ UNCHANGED vars => edges' = edges
    BY DEF SetStatus, vars
  <2> QED BY <2>1, <2>2, <2>3, <2>4, NextRowsKept DEF Next
<1>2. ASSUME NEW i \in 1..Len(log), log'[i] = log[i] PROVE EventStands(i)'
  <2> SUFFICES ASSUME log[i].kind = "STATE_SUPERSEDED"
               PROVE  log[i].key \in Keys /\ Stands(requests'[log[i].key], rows', edges')
    BY <1>2 DEF EventStands
  <2>1. log[i].key \in Keys /\ Stands(requests[log[i].key], rows, edges)
    BY DEF AllStand, EventStands
  <2>2. requests[log[i].key] # None
    BY <2>1 DEF Stands
  <2>3. requests'[log[i].key] = requests[log[i].key]
    BY <2>1, <2>2, NextRequestsKept DEF HInv
  <2> QED BY <1>1, <2>1, <2>3, StandsKept
<1>3. CASE UNCHANGED log
  BY <1>2, <1>3 DEF AllStand
<1>4. ASSUME NEW n \in Nat, n = Len(log), Len(log') = n + 1,
             \A i \in 1..n : log'[i] = log[i], EventStands(n + 1)'
      PROVE  AllStand'
  <2>1. ASSUME NEW i \in 1..Len(log') PROVE i \in 1..Len(log) \/ i = n + 1
    BY <1>4
  <2> QED BY <1>2, <1>4, <2>1 DEF AllStand
<1>5. ASSUME NEW w \in Writers, CommitCreate(w) \/ Commit(w) PROVE AllStand'
  <2>1. PICK n \in Nat : n = Len(log)
    BY DEF HInv, IInv, TypeOK
  <2>2. PICK k : k = calls[w].key
    OBVIOUS
  <2>3. /\ Len(log') = n + 1 /\ \A i \in 1..n : log'[i] = log[i]
        /\ log'[n + 1].key = k
        /\ log'[n + 1].kind = requests[k].kind
    BY <1>5, <2>1, <2>2 DEF CommitCreate, Commit, Materialise, HInv, IInv, TypeOK
  <2>4. CommitCreate(w) => requests[k].kind = "PROJECT_CREATED"
    BY <2>2 DEF CommitCreate
  <2>5. (Commit(w) /\ requests[k].kind = "STATE_SUPERSEDED") =>
          k \in Keys /\ requests' = requests /\ Stands(requests[k], rows', edges')
    BY <2>2, CommitStands
  <2>6. EventStands(n + 1)'
    BY <1>5, <2>3, <2>4, <2>5 DEF EventStands
  <2> QED BY <1>4, <2>1, <2>3, <2>6
<1>6. ASSUME NEW w \in Writers, WriterStep(w), ~(CommitCreate(w) \/ Commit(w))
      PROVE  UNCHANGED log
  BY <1>6 DEF WriterStep, NewRequest, Retry, GateCandidate, ReadOld, Lookup,
              Refuse, Busy, Confirm, Leave, store
<1>7. ASSUME NEW r \in Readers, ReaderStep(r) PROVE UNCHANGED log
  BY <1>7 DEF ReaderStep, ReadProject, ReadRows, ReadEdges, store
<1>8. SetStatus \/ UNCHANGED vars => UNCHANGED log
  BY DEF SetStatus, vars
<1> QED BY <1>3, <1>4, <1>5, <1>6, <1>7, <1>8 DEF Next

\* f solves the equations of replay() on the log.
Replays(f) ==
  f = [i \in 0..Len(log) |->
         IF i = 0 THEN Empty
         ELSE IF log[i].kind = "PROJECT_CREATED" THEN f[i-1]
         ELSE Apply(f[i-1], log[i].upserts, log[i].adds)]

ReplayAgrees == \A f : Replays(f) => \A i \in 1..Len(log) : f[i] = log[i].result

\* A step that appends one event extends every replay by the result it stores.
LEMMA AppendReplay ==
  ASSUME TypeOK, LedgerChain', ReplayAgrees, NEW e, log' = Append(log, e)
  PROVE  ReplayAgrees'
<1> SUFFICES ASSUME NEW f, Replays(f)'
             PROVE  \A i \in 1..Len(log') : f[i] = log'[i].result
  BY DEF ReplayAgrees
<1> DEFINE n == Len(log)
           g == [i \in 0..n |-> f[i]]
<1>1. n \in Nat /\ Len(log') = n + 1 /\ \A i \in 1..n : log'[i] = log[i]
  BY DEF TypeOK
<1>2. ASSUME NEW i \in 0..(n + 1)
      PROVE  f[i] = IF i = 0 THEN Empty
                    ELSE IF log'[i].kind = "PROJECT_CREATED" THEN f[i-1]
                    ELSE Apply(f[i-1], log'[i].upserts, log'[i].adds)
  BY <1>1 DEF Replays
<1>3. Replays(g)
  <2>1. ASSUME NEW i \in 0..n
        PROVE  g[i] = IF i = 0 THEN Empty
                      ELSE IF log[i].kind = "PROJECT_CREATED" THEN g[i-1]
                      ELSE Apply(g[i-1], log[i].upserts, log[i].adds)
    <3>1. CASE i = 0
      BY <1>1, <1>2, <3>1
    <3>2. CASE i # 0
      <4>1. i \in 1..n /\ i - 1 \in 0..n /\ i \in 0..(n + 1)
        BY <1>1, <3>2
      <4>2. g[i] = f[i] /\ g[i-1] = f[i-1] /\ log'[i] = log[i]
        BY <1>1, <4>1
      <4> HIDE DEF g, n
      <4> QED BY <1>2, <3>2, <4>1, <4>2
    <3> QED BY <3>1, <3>2
  <2>2. g = [i \in 0..n |-> g[i]]
    OBVIOUS
  <2> HIDE DEF g
  <2>3. g = [i \in 0..n |-> IF i = 0 THEN Empty
                            ELSE IF log[i].kind = "PROJECT_CREATED" THEN g[i-1]
                            ELSE Apply(g[i-1], log[i].upserts, log[i].adds)]
    BY <2>1, <2>2, Zenon
  <2> QED BY <2>3 DEF Replays
<1>4. ASSUME NEW i \in 1..n PROVE f[i] = log'[i].result
  <2>1. g[i] = log[i].result
    BY <1>3, <1>4 DEF ReplayAgrees
  <2>2. g[i] = f[i] /\ log'[i] = log[i]
    BY <1>1, <1>4
  <2> QED BY <2>1, <2>2
<1>5. f[n + 1] = log'[n + 1].result
  <2>1. n + 1 \in 0..(n + 1) /\ n + 1 \in 1..Len(log') /\ n + 1 # 0 /\ (n + 1) - 1 = n
    BY <1>1
  <2>2. CASE n = 0
    <3>1. log'[n + 1].kind = "PROJECT_CREATED" /\ log'[n + 1].result = Empty
      BY <1>1, <2>1, <2>2 DEF LedgerChain
    <3>2. f[n] = Empty
      BY <1>1, <1>2, <2>2
    <3> HIDE DEF n
    <3> QED BY <1>2, <2>1, <3>1, <3>2
  <2>3. CASE n # 0
    <3>1. n + 1 # 1 /\ n \in 1..n
      BY <1>1, <2>3
    <3>2. /\ log'[n + 1].kind # "PROJECT_CREATED"
          /\ log'[n + 1].prior = log'[n].result
          /\ log'[n + 1].result
               = Apply(log'[n + 1].prior, log'[n + 1].upserts, log'[n + 1].adds)
      BY <2>1, <3>1 DEF LedgerChain
    <3>3. f[n] = log'[n].result
      BY <1>4, <3>1
    <3>4. f[n + 1] = Apply(f[n], log'[n + 1].upserts, log'[n + 1].adds)
      <4> HIDE DEF n
      <4> QED BY <1>2, <2>1, <3>2
    <3> QED BY <3>2, <3>3, <3>4
  <2> QED BY <2>2, <2>3
<1>6. ASSUME NEW i \in 1..Len(log') PROVE i \in 1..n \/ i = n + 1
  BY <1>1
<1> HIDE DEF n
<1> QED BY <1>4, <1>5, <1>6

LEMMA NextReplay ==
  TypeOK /\ LedgerChain' /\ ReplayAgrees /\ [Next]_vars => ReplayAgrees'
<1> SUFFICES ASSUME TypeOK, LedgerChain', ReplayAgrees, [Next]_vars PROVE ReplayAgrees'
  OBVIOUS
<1>1. CASE UNCHANGED log
  BY <1>1 DEF ReplayAgrees, Replays
<1>2. CASE \E e : log' = Append(log, e)
  BY <1>2, AppendReplay
<1> QED BY <1>1, <1>2, LogSteps

\* The chain itself solves the equations, and any solution ends in the tables.
LEMMA ReplayOfChain ==
  ASSUME TypeOK, LedgerChain, ReplayAgrees, AllStand
  PROVE  ReplayRebuildsState
<1> DEFINE chain == [i \in 0..Len(log) |-> IF i = 0 THEN Empty ELSE log[i].result]
           replay[i \in 0..Len(log)] ==
             IF i = 0 THEN Empty
             ELSE IF log[i].kind = "PROJECT_CREATED" THEN replay[i-1]
             ELSE Apply(replay[i-1], log[i].upserts, log[i].adds)
<1>1. Len(log) \in Nat
  BY DEF TypeOK
<1>2. Replays(chain)
  <2>1. ASSUME NEW i \in 0..Len(log)
        PROVE  chain[i] = IF i = 0 THEN Empty
                          ELSE IF log[i].kind = "PROJECT_CREATED" THEN chain[i-1]
                          ELSE Apply(chain[i-1], log[i].upserts, log[i].adds)
    <3>1. CASE i = 0
      BY <1>1, <3>1
    <3>2. CASE i = 1
      <4>1. log[1].kind = "PROJECT_CREATED" /\ log[1].result = Empty
        BY <1>1, <3>2 DEF LedgerChain
      <4>2. chain[i] = Empty /\ chain[i-1] = Empty
        BY <1>1, <3>2, <4>1
      <4> HIDE DEF chain
      <4> QED BY <3>2, <4>1, <4>2
    <3>3. CASE i # 0 /\ i # 1
      <4>1. i \in 1..Len(log) /\ i - 1 \in 0..Len(log) /\ i - 1 # 0
        BY <1>1, <3>3
      <4>2. /\ log[i].kind # "PROJECT_CREATED" /\ log[i].prior = log[i-1].result
            /\ log[i].result = Apply(log[i].prior, log[i].upserts, log[i].adds)
        BY <3>3, <4>1 DEF LedgerChain
      <4>3. chain[i] = log[i].result /\ chain[i-1] = log[i-1].result
        BY <3>3, <4>1
      <4> HIDE DEF chain
      <4> QED BY <3>3, <4>2, <4>3
    <3> QED BY <3>1, <3>2, <3>3
  <2>2. chain = [i \in 0..Len(log) |-> chain[i]]
    OBVIOUS
  <2> HIDE DEF chain
  <2>3. chain = [i \in 0..Len(log) |->
                   IF i = 0 THEN Empty
                   ELSE IF log[i].kind = "PROJECT_CREATED" THEN chain[i-1]
                   ELSE Apply(chain[i-1], log[i].upserts, log[i].adds)]
    BY <2>1, <2>2, Zenon
  <2> QED BY <2>3 DEF Replays
<1> HIDE DEF chain
<1>3. replay = CHOOSE f : Replays(f)
  BY DEF Replays
<1> HIDE DEF replay
<1>4. Replays(replay)
  BY <1>2, <1>3
<1>5. replay[Len(log)] = Current
  <2>1. CASE log = <<>>
    <3>1. Len(log) = 0 /\ Current = Empty
      BY <2>1 DEF LedgerChain
    <3> QED BY <1>4, <3>1 DEF Replays
  <2>2. CASE log # <<>>
    <3>1. Len(log) \in 1..Len(log) /\ Current = log[Len(log)].result
      BY <1>1, <2>2 DEF LedgerChain, TypeOK
    <3> QED BY <1>4, <3>1 DEF ReplayAgrees
  <2> QED BY <2>1, <2>2
<1>6. SupersessionsStand
  BY DEF SupersessionsStand, AllStand, EventStands, Stands
<1> QED BY <1>5, <1>6 DEF ReplayRebuildsState, replay

\* Replaying the event payloads gives the rows, the edges and the version that
\* current_state() loads, so the check replay() makes can only fail on a damaged
\* database; and what each supersede call of the log did still stands in both
\* tables, whatever other clients committed and imported.
THEOREM ReplayIsExact == Spec => []ReplayRebuildsState
<1>1. Init => AllStand /\ ReplayAgrees
  BY DEF Init, AllStand, ReplayAgrees
<1>2. HInv => TypeOK
  BY DEF HInv, IInv
<1> QED
  BY <1>1, <1>2, InitHInv, NextHInv, InitChain, NextChain, NextStand, NextReplay,
     ReplayOfChain, PTL DEF Spec

-----------------------------------------------------------------------------
(* "ok" means committed, once                                                *)
(*                                                                           *)
(* A call remembers how long the log was when it began.  If its request was  *)
(* there already, no step but the lookup's "ok" is open to it: the request   *)
(* passed the gate and its old row was stored when it was committed, and     *)
(* neither changes.                                                          *)

\* commit_object refuses such a request before it reaches the store.
Gated(r) == r.kind = "STATE_COMMITTED" /\ r.authority = "provider_candidate"

KnownAtStart(w) == \E i \in 1..calls[w].start : log[i].key = calls[w].key

KeysUnique ==
  \A i, j \in 1..Len(log) : log[i].key = log[j].key => i = j

\* Event i is what the request of its key asked for.
EventIsRequest(i) ==
  LET r == requests[log[i].key] IN
  /\ r # None
  /\ log[i].kind = r.kind /\ ~Gated(r)
  /\ r.kind # "PROJECT_CREATED" =>
       log[i].base = r.base /\ log[i].upserts[r.new].authority = r.authority

EventsRequested == \A i \in 1..Len(log) : EventIsRequest(i)

OldStored ==
  \A k \in Keys : (requests[k] # None /\ requests[k].old # None)
                  => rows[requests[k].old] # None

CallKnows(w) ==
  LET r == requests[calls[w].key] IN
  /\ calls[w].step = "idle" => calls[w] = NoCall
  /\ calls[w].step # "idle" =>
       /\ calls[w].start <= Len(log)
       /\ calls[w].step # "done" => calls[w].reply = "none"
       /\ calls[w].step \in {"begin", "written"} => ~Gated(r)
       /\ calls[w].step = "begin" => ~KnownAtStart(w)
       /\ calls[w].step = "written" =>
            IF r.kind = "PROJECT_CREATED" THEN status # "absent" ELSE Keyed(calls[w].key)
       /\ calls[w].step = "done" =>
            /\ calls[w].reply # "none"
            /\ KnownAtStart(w) => calls[w].reply = "ok"
            /\ calls[w].reply = "ok" =>
                 IF r.kind = "PROJECT_CREATED" THEN status # "absent"
                 ELSE Keyed(calls[w].key)

CallsKnow == \A w \in Writers : CallKnows(w)

KInv == HInv /\ LedgerChain /\ KeysUnique /\ EventsRequested /\ OldStored /\ CallsKnow

LEMMA InitKInv == Init => KInv
<1> SUFFICES ASSUME Init PROVE KInv
  OBVIOUS
<1>1. HInv /\ LedgerChain
  BY InitHInv, InitChain
<1>2. KeysUnique /\ EventsRequested /\ OldStored
  BY DEF Init, KeysUnique, EventsRequested, OldStored
<1>3. CallsKnow
  BY DEF Init, CallsKnow, CallKnows, NoCall
<1> QED BY <1>1, <1>2, <1>3 DEF KInv

LEMMA NextCreatedKept ==
  [Next]_vars /\ status # "absent" => status' # "absent"
<1> SUFFICES ASSUME [Next]_vars, status # "absent" PROVE status' # "absent"
  OBVIOUS
<1>1. ASSUME NEW w \in Writers, WriterStep(w) PROVE status' # "absent"
  BY <1>1 DEF WriterStep, NewRequest, Retry, GateCandidate, ReadOld, Lookup,
              CommitCreate, Commit, Materialise, Refuse, Busy, Confirm, Leave, store
<1>2. ASSUME NEW r \in Readers, ReaderStep(r) PROVE status' # "absent"
  BY <1>2 DEF ReaderStep, ReadProject, ReadRows, ReadEdges, store
<1>3. SetStatus \/ UNCHANGED vars => status' # "absent"
  BY DEF SetStatus, vars
<1> QED BY <1>1, <1>2, <1>3 DEF Next

\* A key found in the log stays there.
LEMMA NextKeyedKept ==
  ASSUME TypeOK, [Next]_vars, NEW k, Keyed(k)
  PROVE  Keyed(k)'
<1>1. PICK i \in 1..Len(log) : log[i].key = k
  BY DEF Keyed
<1>2. Len(log') >= Len(log) /\ log'[i] = log[i] /\ i \in 1..Len(log')
  BY NextLogGrows
<1> QED BY <1>1, <1>2 DEF Keyed

\* What one of the two transactions appends.
LEMMA CommitEvent ==
  ASSUME IInv, CallsKnow, NEW w \in Writers, CommitCreate(w) \/ Commit(w)
  PROVE  LET k == calls[w].key
             r == requests[k]
             n == Len(log) IN
         /\ k \in Keys /\ r \in Request /\ ~Keyed(k) /\ ~Gated(r)
         /\ n \in Nat /\ Len(log') = n + 1
         /\ \A i \in 1..n : log'[i] = log[i]
         /\ log'[n + 1].key = k /\ log'[n + 1].kind = r.kind
         /\ r.kind # "PROJECT_CREATED" =>
              /\ log'[n + 1].base = r.base
              /\ log'[n + 1].upserts[r.new].authority = r.authority
         /\ requests' = requests
         /\ calls' = [calls EXCEPT ![w].step = "written"]
         /\ calls[w].step = "begin"
<1> DEFINE k == calls[w].key
           r == requests[k]
           n == Len(log)
<1>1. calls[w].step = "begin" /\ requests' = requests
      /\ calls' = [calls EXCEPT ![w].step = "written"] /\ ~Keyed(k)
  BY DEF CommitCreate, Commit, Materialise, Accepts
<1>2. k \in Keys /\ r \in Request /\ r # None
      /\ (r.kind # "PROJECT_CREATED" => r.new \in Objects)
  BY <1>1, LedgerAssumption DEF IInv, CallShape, RequestShape
<1>3. ~Gated(r)
  BY <1>1 DEF CallsKnow, CallKnows
<1>4. PICK e : /\ log' = Append(log, e) /\ e.key = k /\ e.kind = r.kind
               /\ r.kind # "PROJECT_CREATED" =>
                    e.base = r.base /\ e.upserts = Upserts(r, calls[w].old)
  BY DEF CommitCreate, Commit, Materialise
<1>5. n \in Nat /\ Len(log') = n + 1 /\ log'[n + 1] = e
      /\ \A i \in 1..n : log'[i] = log[i]
  BY <1>4 DEF IInv, TypeOK
<1>6. r.kind # "PROJECT_CREATED" => e.upserts[r.new].authority = r.authority
  BY <1>2, <1>4 DEF Upserts
<1> HIDE DEF r, n
<1> QED BY <1>1, <1>2, <1>3, <1>4, <1>5, <1>6 DEF r, n

LEMMA NextEvents ==
  ASSUME IInv, CallsKnow, KeysUnique, EventsRequested, [Next]_vars
  PROVE  KeysUnique' /\ EventsRequested'
<1> USE DEF IInv
<1>1. ASSUME NEW i \in 1..Len(log), log'[i] = log[i]
      PROVE  EventIsRequest(i)'
  <2>1. log[i].key \in Keys
    <3>1. log[i] \in Event
      BY DEF TypeOK
    <3> QED BY <3>1 DEF Event
  <2>2. EventIsRequest(i)
    BY DEF EventsRequested
  <2>3. requests'[log[i].key] = requests[log[i].key]
    BY <2>1, <2>2, NextRequestsKept DEF EventIsRequest
  <2> QED BY <1>1, <2>2, <2>3 DEF EventIsRequest
<1>2. ASSUME NEW w \in Writers, CommitCreate(w) \/ Commit(w)
      PROVE  KeysUnique' /\ EventsRequested'
  <2> DEFINE n == Len(log)
             k == calls[w].key
             r == requests[k]
  <2>1. /\ k \in Keys /\ r \in Request /\ ~Keyed(k) /\ ~Gated(r)
        /\ n \in Nat /\ Len(log') = n + 1
        /\ \A i \in 1..n : log'[i] = log[i]
        /\ log'[n + 1].key = k /\ log'[n + 1].kind = r.kind
        /\ r.kind # "PROJECT_CREATED" =>
             /\ log'[n + 1].base = r.base
             /\ log'[n + 1].upserts[r.new].authority = r.authority
        /\ requests' = requests
    BY <1>2, CommitEvent
  <2>2. ASSUME NEW i, i = n + 1 PROVE EventIsRequest(i)'
    BY <2>1, <2>2, LedgerAssumption DEF EventIsRequest
  <2>3. ASSUME NEW i \in 1..Len(log') PROVE i \in 1..n \/ i = n + 1
    BY <2>1
  <2>4. EventsRequested'
    BY <1>1, <2>1, <2>2, <2>3 DEF EventsRequested
  <2>5. ASSUME NEW i \in 1..n PROVE log[i].key # k
    BY <2>1 DEF Keyed
  <2> HIDE DEF n, k
  <2>6. KeysUnique'
    <3> SUFFICES ASSUME NEW i \in 1..Len(log'), NEW j \in 1..Len(log'),
                        log'[i].key = log'[j].key
                 PROVE  i = j
      BY DEF KeysUnique
    <3>1. CASE i \in 1..n /\ j \in 1..n
      BY <2>1, <3>1 DEF KeysUnique, n
    <3>2. CASE i \in 1..n /\ j = n + 1
      BY <2>1, <2>5, <3>2
    <3>3. CASE i = n + 1 /\ j \in 1..n
      BY <2>1, <2>5, <3>3
    <3> QED BY <2>3, <3>1, <3>2, <3>3
  <2> QED BY <2>4, <2>6
<1>3. ASSUME UNCHANGED log PROVE KeysUnique' /\ EventsRequested'
  BY <1>1, <1>3 DEF KeysUnique, EventsRequested
<1>4. ASSUME NEW w \in Writers, WriterStep(w), ~(CommitCreate(w) \/ Commit(w))
      PROVE  UNCHANGED log
  BY <1>4 DEF WriterStep, NewRequest, Retry, GateCandidate, ReadOld, Lookup,
              Refuse, Busy, Confirm, Leave, store
<1>5. ASSUME NEW r \in Readers, ReaderStep(r) PROVE UNCHANGED log
  BY <1>5 DEF ReaderStep, ReadProject, ReadRows, ReadEdges, store
<1>6. SetStatus \/ UNCHANGED vars => UNCHANGED log
  BY DEF SetStatus, vars
<1> QED BY <1>2, <1>3, <1>4, <1>5, <1>6 DEF Next

LEMMA NextOldStored ==
  ASSUME HInv, OldStored, [Next]_vars
  PROVE  OldStored'
<1> USE DEF HInv, IInv
<1> SUFFICES ASSUME NEW k \in Keys, requests'[k] # None, requests'[k].old # None
             PROVE  rows'[requests'[k].old] # None
  BY DEF OldStored
<1>1. CASE requests[k] # None
  <2>1. requests'[k] = requests[k]
    BY <1>1, NextRequestsKept
  <2>2. rows[requests[k].old] # None /\ requests[k].old \in Objects
    BY <1>1, <2>1, LedgerAssumption DEF OldStored, TypeOK, Request
  <2> QED BY <2>1, <2>2, NextRowsKept DEF RowsKept
<1>2. CASE requests[k] = None
  <2>1. PICK w \in Writers, j \in Keys : NewRequest(w, j)
    BY <1>2 DEF Next, vars, WriterStep, Retry, GateCandidate, ReadOld, Lookup,
                CommitCreate, Commit, Materialise, Refuse, Busy, Confirm, Leave,
                ReaderStep, ReadProject, ReadRows, ReadEdges, SetStatus
  <2>2. PICK r \in Askable : requests' = [requests EXCEPT ![j] = r]
    BY <2>1 DEF NewRequest
  <2>3. requests'[k] = r
    BY <1>2, <2>2 DEF TypeOK
  <2>4. r.old # None => r.old \in Stored
    BY AskableShape
  <2> QED BY <2>1, <2>3, <2>4 DEF Stored, NewRequest, store
<1> QED BY <1>1, <1>2

\* What a call knows survives every step of the others.
LEMMA OtherCallKnows ==
  ASSUME IInv, [Next]_vars, NEW w \in Writers, CallKnows(w), calls'[w] = calls[w]
  PROVE  CallKnows(w)'
<1> USE DEF IInv
<1>1. CASE calls[w].step = "idle"
  BY <1>1 DEF CallKnows
<1>2. CASE calls[w].step # "idle"
  <2>1. calls[w].key \in Keys /\ requests[calls[w].key] # None
    BY <1>2, LedgerAssumption DEF CallShape
  <2>2. requests'[calls[w].key] = requests[calls[w].key]
    BY <2>1, NextRequestsKept
  <2>3. Len(log') >= Len(log) /\ \A i \in 1..Len(log) : log'[i] = log[i]
    BY NextLogGrows
  <2>4. calls[w].start \in Nat /\ Len(log) \in Nat /\ Len(log') \in Nat
    <3>1. calls[w] \in Call
      BY DEF TypeOK
    <3> QED BY <3>1, NextLogGrows DEF Call
  <2>5. calls[w].start <= Len(log) /\ calls[w].start <= Len(log')
    BY <1>2, <2>3, <2>4 DEF CallKnows
  <2>6. KnownAtStart(w)' <=> KnownAtStart(w)
    <3>1. \A i \in 1..calls[w].start : i \in 1..Len(log)
      BY <2>4, <2>5
    <3> QED BY <2>3, <3>1 DEF KnownAtStart
  <2>7. Keyed(calls[w].key) => Keyed(calls[w].key)'
    <3>1. ASSUME NEW k, k = calls[w].key, Keyed(k) PROVE Keyed(calls[w].key)'
      <4>1. Keyed(k)'
        BY <3>1, NextKeyedKept
      <4> QED BY <3>1, <4>1 DEF Keyed
    <3> QED BY <3>1
  <2>8. status # "absent" => status' # "absent"
    BY NextCreatedKept
  <2> QED BY <1>2, <2>2, <2>5, <2>6, <2>7, <2>8 DEF CallKnows
<1> QED BY <1>1, <1>2

\* An answer is justified if a call that knew its request is told "ok", and
\* "ok" is said of what the tables hold.
LEMMA AnswerKnows ==
  ASSUME IInv, NEW w \in Writers, CallKnows(w), calls[w].step # "idle",
         NEW reply \in Replies \ {"none"}, Reply(w, reply),
         UNCHANGED <<status, log, requests>>,
         KnownAtStart(w) => reply = "ok",
         reply = "ok" => IF requests[calls[w].key].kind = "PROJECT_CREATED"
                         THEN status # "absent" ELSE Keyed(calls[w].key)
  PROVE  CallKnows(w)'
<1>1. calls[w] \in Call
  BY DEF IInv, TypeOK
<1>2. /\ calls'[w].step = "done" /\ calls'[w].reply = reply
      /\ calls'[w].key = calls[w].key /\ calls'[w].start = calls[w].start
  BY <1>1 DEF Reply, IInv, TypeOK, Call
<1>3. KnownAtStart(w)' <=> KnownAtStart(w)
  BY <1>2 DEF KnownAtStart
<1>4. Keyed(calls[w].key)' <=> Keyed(calls[w].key)
  BY <1>2 DEF Keyed
<1>5. calls[w].start <= Len(log)
  BY DEF CallKnows
<1> QED BY <1>2, <1>3, <1>4, <1>5 DEF CallKnows

\* A request in the log when its call began passed the gate, found its old
\* row, and created the project if it is a creation.
LEMMA KnownFacts ==
  ASSUME KInv, NEW w \in Writers, calls[w].step # "idle", KnownAtStart(w)
  PROVE  /\ ~Gated(requests[calls[w].key])
         /\ status # "absent"
         /\ Keyed(calls[w].key)
<1> USE DEF KInv, HInv, IInv
<1>1. calls[w].start <= Len(log) /\ calls[w].start \in Nat /\ Len(log) \in Nat
  <2>1. calls[w] \in Call
    BY DEF TypeOK
  <2> QED BY <2>1 DEF CallsKnow, CallKnows, Call, TypeOK
<1>2. PICK i \in 1..calls[w].start : log[i].key = calls[w].key
  BY DEF KnownAtStart
<1>3. i \in 1..Len(log)
  BY <1>1
<1>4. ~Gated(requests[calls[w].key])
  BY <1>2, <1>3 DEF EventsRequested, EventIsRequest
<1>5. log # <<>>
  BY <1>1, <1>3
<1> QED BY <1>2, <1>3, <1>4, <1>5 DEF Keyed, LedgerChain

LEMMA EnterKnows ==
  ASSUME KInv, NEW w \in Writers, NEW k \in Keys,
         NewRequest(w, k) \/ Retry(w, k)
  PROVE  CallKnows(w)'
<1>1. PICK r : Enter(w, k, r) /\ log' = log
  BY DEF NewRequest, Retry, store
<1>2. /\ calls'[w].step \in {"old", "lookup"} /\ calls'[w].reply = "none"
      /\ calls'[w].start = Len(log)
  BY <1>1 DEF Enter, NoCall, KInv, HInv, IInv, TypeOK
<1>3. Len(log) \in Nat
  BY DEF KInv, HInv, IInv, TypeOK
<1> QED BY <1>1, <1>2, <1>3 DEF CallKnows

LEMMA MoveKnows ==
  ASSUME KInv, NEW w \in Writers, NEW c \in Call,
         calls[w].step \in {"old", "lookup"},
         calls' = [calls EXCEPT ![w] = c],
         c.step \in {"lookup", "begin"}, c.key = calls[w].key,
         c.start = calls[w].start, c.reply = calls[w].reply,
         UNCHANGED <<status, log, requests>>,
         c.step = "begin" => ~KnownAtStart(w) /\ ~Gated(requests[calls[w].key])
  PROVE  CallKnows(w)'
<1>1. calls'[w] = c
  BY DEF KInv, HInv, IInv, TypeOK
<1>2. calls[w].reply = "none" /\ calls[w].start <= Len(log)
  BY DEF KInv, CallsKnow, CallKnows
<1>3. KnownAtStart(w)' <=> KnownAtStart(w)
  BY <1>1 DEF KnownAtStart
<1> QED BY <1>1, <1>2, <1>3 DEF CallKnows

LEMMA LookupKnows ==
  ASSUME KInv, NEW w \in Writers, GateCandidate(w) \/ ReadOld(w) \/ Lookup(w)
  PROVE  CallKnows(w)'
<1> USE DEF KInv
<1> DEFINE k == calls[w].key
           r == requests[k]
<1>1. UNCHANGED <<status, log, requests>> /\ calls[w].step \in {"old", "lookup"}
      /\ CallKnows(w) /\ IInv
  BY DEF GateCandidate, ReadOld, Lookup, store, CallsKnow, HInv
<1>2. k \in Keys /\ r \in Request /\ r # None /\ (calls[w].step = "old" => r.old \in Objects)
  BY <1>1, LedgerAssumption DEF IInv, CallShape
<1>3. CASE GateCandidate(w)
  <2>1. ~KnownAtStart(w)
    BY <1>1, <1>3, KnownFacts DEF GateCandidate, Gated
  <2>2. Reply(w, "refused") /\ "refused" \in Replies \ {"none"} /\ "refused" # "ok"
    BY <1>3 DEF GateCandidate, Replies
  <2> QED BY <1>1, <2>1, <2>2, AnswerKnows
<1>4. CASE ReadOld(w)
  <2>1. rows[r.old] # None
    BY <1>2, <1>4, LedgerAssumption DEF OldStored, ReadOld
  <2> DEFINE c == [calls[w] EXCEPT !.step = "lookup", !.old = rows[r.old]]
  <2>2. calls' = [calls EXCEPT ![w] = c] /\ calls[w] \in Call
    BY <1>4, <2>1 DEF ReadOld, IInv, HInv, TypeOK
  <2>3. rows[r.old] \in Row
    BY <1>2, <1>4, <2>1 DEF ReadOld, IInv, HInv, TypeOK, Rows
  <2>4. c \in Call /\ c.step = "lookup" /\ c.key = k /\ c.start = calls[w].start
        /\ c.reply = calls[w].reply
    BY <2>2, <2>3 DEF Call, Steps
  <2> HIDE DEF c
  <2>5. c.step \in {"lookup", "begin"} /\ c.step # "begin"
    BY <2>4
  <2> QED BY <1>1, <2>2, <2>4, <2>5, MoveKnows, Zenon
<1>5. CASE Lookup(w)
  <2>1. ~Gated(r)
    BY <1>5 DEF Lookup, Gated
  <2>2. CASE IF r.kind = "PROJECT_CREATED" THEN status # "absent" ELSE Keyed(k)
    <3>1. Reply(w, "ok") /\ "ok" \in Replies \ {"none"}
      BY <1>5, <2>2 DEF Lookup, Replies
    <3> QED BY <1>1, <2>2, <3>1, AnswerKnows
  <2>3. CASE ~(IF r.kind = "PROJECT_CREATED" THEN status # "absent" ELSE Keyed(k))
    <3>1. ~KnownAtStart(w)
      BY <1>1, <2>3, KnownFacts
    <3> DEFINE c == [calls[w] EXCEPT !.step = "begin"]
    <3>2. calls' = [calls EXCEPT ![w] = c] /\ calls[w] \in Call
      BY <1>5, <2>3 DEF Lookup, IInv, HInv, TypeOK
    <3>3. c \in Call /\ c.step = "begin" /\ c.key = k /\ c.start = calls[w].start
          /\ c.reply = calls[w].reply
      BY <3>2 DEF Call, Steps
    <3> HIDE DEF c
    <3>4. c.step \in {"lookup", "begin"}
      BY <3>3
    <3> QED BY <1>1, <2>1, <3>1, <3>2, <3>3, <3>4, MoveKnows, Zenon
  <2> QED BY <2>2, <2>3
<1> QED BY <1>3, <1>4, <1>5

LEMMA EndKnows ==
  ASSUME KInv, NEW w \in Writers, Refuse(w) \/ Busy(w) \/ Confirm(w) \/ Leave(w)
  PROVE  CallKnows(w)'
<1> USE DEF KInv
<1>1. UNCHANGED <<status, log, requests>> /\ calls[w].step # "idle"
      /\ CallKnows(w) /\ IInv
  BY DEF Refuse, Busy, Confirm, Leave, store, CallsKnow, HInv
<1>2. CASE Refuse(w) \/ Busy(w)
  <2>1. ~KnownAtStart(w)
    BY <1>1, <1>2 DEF Refuse, Busy, CallKnows
  <2>2. PICK reply \in {"conflict", "refused", "busy"} : Reply(w, reply)
    BY <1>2 DEF Refuse, Busy
  <2>3. reply \in Replies \ {"none"} /\ reply # "ok"
    BY DEF Replies
  <2> QED BY <1>1, <2>1, <2>2, <2>3, AnswerKnows
<1>3. CASE Confirm(w)
  <2>1. Reply(w, "ok") /\ "ok" \in Replies \ {"none"} /\ calls[w].step = "written"
    BY <1>3 DEF Confirm, Replies
  <2>2. IF requests[calls[w].key].kind = "PROJECT_CREATED"
        THEN status # "absent" ELSE Keyed(calls[w].key)
    BY <1>1, <2>1 DEF CallKnows
  <2> QED BY <1>1, <2>1, <2>2, AnswerKnows
<1>4. CASE Leave(w)
  <2>1. calls'[w] = NoCall /\ NoCall.step = "idle"
    BY <1>1, <1>4 DEF Leave, IInv, TypeOK, NoCall
  <2> QED BY <2>1 DEF CallKnows
<1> QED BY <1>2, <1>3, <1>4

LEMMA CommitKnows ==
  ASSUME KInv, NEW w \in Writers, CommitCreate(w) \/ Commit(w)
  PROVE  CallKnows(w)'
<1> USE DEF KInv, HInv
<1> DEFINE k == calls[w].key
           n == Len(log)
<1>1. /\ k \in Keys /\ ~Gated(requests[k])
      /\ n \in Nat /\ Len(log') = n + 1 /\ log'[n + 1].key = k
      /\ requests' = requests
      /\ calls' = [calls EXCEPT ![w].step = "written"]
      /\ calls[w].step = "begin"
  BY CommitEvent
<1>2. calls[w] \in Call
  BY DEF IInv, TypeOK
<1>3. /\ calls'[w].step = "written" /\ calls'[w].reply = calls[w].reply
      /\ calls'[w].key = k /\ calls'[w].start = calls[w].start
  BY <1>1, <1>2 DEF IInv, TypeOK, Call
<1>4. calls[w].start \in Nat /\ calls[w].start <= n /\ calls[w].reply = "none"
  BY <1>1, <1>2 DEF CallsKnow, CallKnows, Call
<1>5. calls'[w].start <= Len(log')
  BY <1>1, <1>3, <1>4
<1>6. status' # "absent"
  BY DEF CommitCreate, Commit, Materialise, Accepts
<1>7. Keyed(calls[w].key)'
  <2>1. n + 1 \in 1..Len(log')
    BY <1>1
  <2> HIDE DEF n
  <2> QED BY <1>1, <1>3, <2>1 DEF Keyed
<1> HIDE DEF k, n
<1> QED BY <1>1, <1>3, <1>4, <1>5, <1>6, <1>7 DEF CallKnows, k

LEMMA NextCallsKnow == KInv /\ [Next]_vars => CallsKnow'
<1> SUFFICES ASSUME KInv, [Next]_vars, NEW v \in Writers PROVE CallKnows(v)'
  BY DEF CallsKnow
<1>1. IInv /\ CallKnows(v)
  BY DEF KInv, HInv, CallsKnow
<1>2. CASE calls'[v] = calls[v]
  BY <1>1, <1>2, OtherCallKnows
<1>3. CASE calls'[v] # calls[v]
  <2>1. PICK w \in Writers : WriterStep(w)
    BY <1>3 DEF Next, vars, ReaderStep, ReadProject, ReadRows, ReadEdges, SetStatus
  <2>2. v = w
    BY <1>1, <1>3, <2>1
    DEF IInv, TypeOK, WriterStep, NewRequest, Retry, Enter, GateCandidate, ReadOld,
        Lookup, CommitCreate, Commit, Materialise, Refuse, Busy, Confirm, Leave, Reply
  <2> QED
    BY <2>1, <2>2, EnterKnows, LookupKnows, EndKnows, CommitKnows DEF WriterStep
<1> QED BY <1>2, <1>3

LEMMA NextKInv == KInv /\ [Next]_vars => KInv'
<1> SUFFICES ASSUME KInv, [Next]_vars PROVE KInv'
  OBVIOUS
<1>1. HInv' /\ IInv /\ TypeOK
  BY NextHInv DEF KInv, HInv, IInv
<1>2. LedgerChain'
  BY <1>1, NextChain DEF KInv
<1>3. KeysUnique' /\ EventsRequested'
  BY <1>1, NextEvents DEF KInv
<1>4. OldStored'
  BY NextOldStored DEF KInv
<1>5. CallsKnow'
  BY NextCallsKnow
<1> QED BY <1>1, <1>2, <1>3, <1>4, <1>5 DEF KInv

LEMMA KInvHolds == Spec => []KInv
BY InitKInv, NextKInv, PTL DEF Spec

\* A mutation answered "ok" is in the log exactly once and as its own request
\* asked for it, and a retry of a committed one is answered "ok" whatever the
\* version is by then (event_by_idempotency and the UNIQUE index), for any
\* number of processes retrying any number of requests.
THEOREM OkIsCommittedOnce == Spec => []OkMeansCommittedOnce
<1>1. KInv => OkMeansCommittedOnce
  <2> SUFFICES ASSUME KInv, NEW w \in Writers, calls[w].step = "done"
               PROVE  LET k == calls[w].key
                          r == requests[k]
                          hits == {i \in 1..Len(log) : log[i].key = k} IN
                      /\ (\E i \in hits : i <= calls[w].start) => calls[w].reply = "ok"
                      /\ (calls[w].reply = "ok" /\ r.kind # "PROJECT_CREATED") =>
                           \E i \in hits :
                             /\ hits = {i}
                             /\ log[i].kind = r.kind /\ log[i].base = r.base
                             /\ log[i].upserts[r.new].authority = r.authority
    BY DEF OkMeansCommittedOnce
  <2> DEFINE k == calls[w].key
             r == requests[k]
             hits == {i \in 1..Len(log) : log[i].key = k}
  <2>1. CallKnows(w) /\ calls[w].start \in Nat
    <3>1. calls[w] \in Call
      BY DEF KInv, HInv, IInv, TypeOK
    <3> QED BY <3>1 DEF KInv, CallsKnow, Call
  <2>2. ASSUME NEW i \in hits, i <= calls[w].start
        PROVE  calls[w].reply = "ok"
    <3>1. i \in 1..calls[w].start
      BY <2>1, <2>2
    <3>2. KnownAtStart(w)
      BY <2>2, <3>1 DEF KnownAtStart
    <3> QED BY <2>1, <3>2 DEF CallKnows
  <2>3. ASSUME calls[w].reply = "ok", r.kind # "PROJECT_CREATED"
        PROVE  \E i \in hits :
                 /\ hits = {i}
                 /\ log[i].kind = r.kind /\ log[i].base = r.base
                 /\ log[i].upserts[r.new].authority = r.authority
    <3>1. PICK i \in 1..Len(log) : log[i].key = k
      BY <2>1, <2>3 DEF CallKnows, Keyed
    <3>2. hits = {i}
      BY <3>1 DEF KInv, KeysUnique
    <3>3. EventIsRequest(i)
      BY DEF KInv, EventsRequested
    <3> QED BY <2>3, <3>1, <3>2, <3>3 DEF EventIsRequest
  <2> QED BY <2>2, <2>3
<1> QED BY <1>1, KInvHolds, PTL

-----------------------------------------------------------------------------
(* Torn loads                                                                *)
(*                                                                           *)
(* Each statement of a load sees the state after some version, and later     *)
(* statements see later versions: the version number can only be too old.    *)

RowsAt(r, i)  == reads[r].seen.rows = StateAfter(i).rows
EdgesAt(r, j) == reads[r].seen.edges = StateAfter(j).edges

LoadLags(r) ==
  /\ reads[r].step # "idle" => status # "absent" /\ reads[r].seen.version <= version
  /\ reads[r].step = "edges" => \E i \in reads[r].seen.version..version : RowsAt(r, i)
  /\ reads[r].step = "done" =>
       \E i \in reads[r].seen.version..version : \E j \in i..version :
         RowsAt(r, i) /\ EdgesAt(r, j)

LoadsLag == \A r \in Readers : LoadLags(r)

\* The tables are the state after the current version.
LEMMA CurrentIsLast ==
  ASSUME TypeOK, LedgerChain, status # "absent"
  PROVE  /\ version = Len(log) - 1 /\ Len(log) \in Nat /\ Len(log) > 0
         /\ rows = StateAfter(version).rows
         /\ edges = StateAfter(version).edges
<1>1. log # <<>> /\ version = Len(log) - 1 /\ log[Len(log)].result = Current
  BY DEF LedgerChain
<1>2. Len(log) \in Nat /\ Len(log) > 0 /\ version + 1 = Len(log)
  BY <1>1 DEF TypeOK
<1> QED BY <1>1, <1>2 DEF StateAfter, Current

\* A state that a version had stays the state of that version.
LEMMA StatesKept ==
  ASSUME TypeOK, LedgerChain, LedgerChain', [Next]_vars, status # "absent"
  PROVE  /\ status' # "absent" /\ version' >= version /\ version' \in Nat
         /\ \A i \in 0..version : log'[i + 1] = log[i + 1]
<1>1. version = Len(log) - 1 /\ Len(log) \in Nat /\ Len(log) > 0
  BY CurrentIsLast
<1>2. status' # "absent"
  BY NextCreatedKept
<1>3. Len(log') >= Len(log) /\ \A i \in 1..Len(log) : log'[i] = log[i]
  BY NextLogGrows
<1>4. Len(log') \in Nat
  BY NextLogGrows
<1>5. version' = Len(log') - 1
  BY <1>2 DEF LedgerChain
<1>6. \A i \in 0..version : i + 1 \in 1..Len(log)
  BY <1>1
<1> QED BY <1>1, <1>2, <1>3, <1>4, <1>5, <1>6

LEMMA IdleLoadLags ==
  ASSUME TypeOK, LedgerChain, LedgerChain', [Next]_vars,
         NEW r \in Readers, LoadLags(r), reads'[r] = reads[r]
  PROVE  LoadLags(r)'
<1>1. CASE reads[r].step = "idle"
  BY <1>1 DEF LoadLags
<1>2. CASE reads[r].step # "idle"
  <2>1. status # "absent" /\ reads[r].seen.version <= version /\ version \in Nat
        /\ reads[r].seen.version \in Nat
    <3>1. reads[r] \in Load
      BY DEF TypeOK
    <3> QED BY <1>2, <3>1 DEF LoadLags, TypeOK, Load, Canonical
  <2>2. /\ status' # "absent" /\ version' >= version /\ version' \in Nat
        /\ \A i \in 0..version : log'[i + 1] = log[i + 1]
    BY <2>1, StatesKept
  <2>3. ASSUME NEW i \in 0..version
        PROVE  (RowsAt(r, i) => RowsAt(r, i)') /\ (EdgesAt(r, i) => EdgesAt(r, i)')
    BY <2>2 DEF RowsAt, EdgesAt, StateAfter
  <2>4. ASSUME reads[r].step = "edges"
        PROVE  \E i \in reads[r].seen.version..version' : RowsAt(r, i)'
    <3>1. PICK i \in reads[r].seen.version..version : RowsAt(r, i)
      BY <2>4 DEF LoadLags
    <3>2. i \in 0..version /\ i \in reads[r].seen.version..version'
      BY <2>1, <2>2
    <3> QED BY <2>3, <3>1, <3>2
  <2>5. ASSUME reads[r].step = "done"
        PROVE  \E i \in reads[r].seen.version..version' : \E j \in i..version' :
                 RowsAt(r, i)' /\ EdgesAt(r, j)'
    <3>1. PICK i \in reads[r].seen.version..version :
               \E j \in i..version : RowsAt(r, i) /\ EdgesAt(r, j)
      BY <2>5 DEF LoadLags
    <3>2. PICK j \in i..version : RowsAt(r, i) /\ EdgesAt(r, j)
      BY <3>1
    <3>3. /\ i \in 0..version /\ i \in reads[r].seen.version..version'
          /\ j \in 0..version /\ j \in i..version'
      BY <2>1, <2>2
    <3> QED BY <2>3, <3>2, <3>3
  <2>6. reads[r].seen.version <= version'
    BY <2>1, <2>2
  <2> QED BY <2>2, <2>4, <2>5, <2>6 DEF LoadLags
<1> QED BY <1>1, <1>2

LEMMA ReaderLags ==
  ASSUME TypeOK, LedgerChain, NEW r \in Readers, LoadLags(r), ReaderStep(r)
  PROVE  LoadLags(r)'
<1>1. UNCHANGED <<status, version, rows, edges, log>>
  BY DEF ReaderStep, ReadProject, ReadRows, ReadEdges, store
<1>2. reads[r] \in Load /\ version \in Nat
  BY DEF TypeOK
<1>3. reads[r].seen.version \in Nat /\ reads[r].seen \in Canonical
  BY <1>2 DEF Load, Canonical
<1>4. CASE ReadProject(r)
  <2>1. reads'[r] = [step |-> "rows", seen |-> [Empty EXCEPT !.version = version]]
    BY <1>4 DEF ReadProject, TypeOK
  <2>2. reads'[r].step = "rows" /\ reads'[r].seen.version = version
    BY <2>1 DEF Empty
  <2> QED BY <1>1, <1>2, <1>4, <2>2 DEF LoadLags, ReadProject
<1>5. CASE ReadRows(r)
  <2>1. status # "absent" /\ reads[r].seen.version <= version
    BY <1>5 DEF ReadRows, LoadLags
  <2>2. /\ reads'[r].step = "edges" /\ reads'[r].seen.version = reads[r].seen.version
        /\ reads'[r].seen.rows = rows
    BY <1>2, <1>3, <1>5 DEF ReadRows, TypeOK, Load, Canonical
  <2>3. rows = StateAfter(version).rows
    BY <2>1, CurrentIsLast
  <2>4. version \in reads[r].seen.version..version
    BY <1>2, <1>3, <2>1
  <2>5. ASSUME NEW i, i = version PROVE RowsAt(r, i)'
    BY <1>1, <2>2, <2>3, <2>5 DEF RowsAt, StateAfter
  <2> QED BY <1>1, <2>1, <2>2, <2>4, <2>5 DEF LoadLags
<1>6. CASE ReadEdges(r)
  <2>1. status # "absent" /\ reads[r].seen.version <= version
        /\ \E i \in reads[r].seen.version..version : RowsAt(r, i)
    BY <1>6 DEF ReadEdges, LoadLags
  <2>2. /\ reads'[r].step = "done" /\ reads'[r].seen.version = reads[r].seen.version
        /\ reads'[r].seen.rows = reads[r].seen.rows /\ reads'[r].seen.edges = edges
    BY <1>2, <1>3, <1>6 DEF ReadEdges, TypeOK, Load, Canonical
  <2>3. edges = StateAfter(version).edges
    BY <2>1, CurrentIsLast
  <2>4. PICK i \in reads[r].seen.version..version : RowsAt(r, i)
    BY <2>1
  <2>5. version \in i..version
    BY <1>2, <1>3, <2>4
  <2>6. RowsAt(r, i)'
    BY <1>1, <2>2, <2>4 DEF RowsAt, StateAfter
  <2>7. ASSUME NEW j, j = version PROVE EdgesAt(r, j)'
    BY <1>1, <2>2, <2>3, <2>7 DEF EdgesAt, StateAfter
  <2> QED BY <1>1, <2>1, <2>2, <2>5, <2>6, <2>7 DEF LoadLags
<1> QED BY <1>4, <1>5, <1>6 DEF ReaderStep

LEMMA NextLoadsLag ==
  TypeOK /\ LedgerChain /\ LedgerChain' /\ LoadsLag /\ [Next]_vars => LoadsLag'
<1> SUFFICES ASSUME TypeOK, LedgerChain, LedgerChain', LoadsLag, [Next]_vars,
                    NEW r \in Readers
             PROVE  LoadLags(r)'
  BY DEF LoadsLag
<1>1. LoadLags(r)
  BY DEF LoadsLag
<1>2. CASE reads'[r] = reads[r]
  BY <1>1, <1>2, IdleLoadLags
<1>3. CASE reads'[r] # reads[r]
  <2>1. ASSUME NEW w \in Writers, WriterStep(w) PROVE reads' = reads
    BY <2>1 DEF WriterStep, NewRequest, Retry, GateCandidate, ReadOld, Lookup,
                CommitCreate, Commit, Materialise, Refuse, Busy, Confirm, Leave
  <2>2. PICK p \in Readers : ReaderStep(p)
    BY <1>3, <2>1 DEF Next, vars, SetStatus
  <2>3. p = r
    BY <1>3, <2>2 DEF TypeOK, ReaderStep, ReadProject, ReadRows, ReadEdges
  <2> QED BY <1>1, <2>2, <2>3, ReaderLags
<1> QED BY <1>2, <1>3

\* A finished load, made of three statements with commits between them, shows
\* rows of its version or a later one and edges of that one or a later one:
\* comparing the version when the turn is sent finds every torn load.
THEOREM LoadsLagOnlyInVersion == Spec => []LoadLagsOnlyInVersion
<1>1. Init => LoadsLag
  BY DEF Init, LoadsLag, LoadLags, NoLoad
<1>2. LoadsLag => LoadLagsOnlyInVersion
  BY DEF LoadsLag, LoadLags, LoadLagsOnlyInVersion, RowsAt, EdgesAt
<1> QED BY <1>1, <1>2, InitChain, NextChain, NextLoadsLag, TypeCorrect, PTL DEF Spec

-----------------------------------------------------------------------------
(* The ledger implements the decision log                                    *)
(*                                                                           *)
(* Each transaction is the decision, each answer the answer, and all the     *)
(* rest is invisible.  What a client may be told rests on KInv.              *)

USE DEF Created

LEMMA DecidedTyped ==
  ASSUME TypeOK, LedgerChain
  PROVE  /\ version \in Nat /\ DecidedKeys \in Seq(Keys) /\ Len(DecidedKeys) = version
         /\ \A v \in 1..version : v + 1 \in 2..Len(log) /\ DecidedKeys[v] = log[v + 1].key
         /\ \A i \in 2..Len(log) : i - 1 \in 1..version /\ DecidedKeys[i - 1] = log[i].key
<1>1. version \in Nat /\ Len(log) \in Nat /\ log \in Seq(Event)
      /\ (log = <<>> => version = 0 /\ Len(log) = 0)
      /\ (log # <<>> => version = Len(log) - 1)
  BY DEF TypeOK, LedgerChain
<1>2. \A v \in 1..version : v + 1 \in 2..Len(log)
  BY <1>1
<1>3. \A i \in 2..Len(log) : i - 1 \in 1..version /\ (i - 1) + 1 = i
  BY <1>1
<1>4. ASSUME NEW v \in 1..version PROVE log[v + 1].key \in Keys
  <2>1. v + 1 \in 1..Len(log)
    BY <1>1, <1>2
  <2>2. log[v + 1] \in Event
    BY <1>1, <2>1
  <2> QED BY <2>2 DEF Event
<1>5. DecidedKeys \in [1..version -> Keys]
  BY <1>4 DEF DecidedKeys
<1>6. DecidedKeys \in Seq(Keys) /\ Len(DecidedKeys) = version
  BY <1>1, <1>5
<1> QED BY <1>1, <1>2, <1>3, <1>6 DEF DecidedKeys

\* To be decided is to be in the log after the creation.
LEMMA DecidedIsKeyed ==
  ASSUME TypeOK, LedgerChain, NEW k
  PROVE  Promise!IsDecided(k) = \E i \in 2..Len(log) : log[i].key = k
<1>1. ASSUME NEW v \in 1..Len(DecidedKeys), DecidedKeys[v] = k
      PROVE  \E i \in 2..Len(log) : log[i].key = k
  BY <1>1, DecidedTyped
<1>2. ASSUME NEW i \in 2..Len(log), log[i].key = k
      PROVE  \E v \in 1..Len(DecidedKeys) : DecidedKeys[v] = k
  BY <1>2, DecidedTyped
<1> QED BY <1>1, <1>2 DEF Promise!IsDecided

\* A call shows the decision log its key, its start and its answer only.
LEMMA PendingKept ==
  ASSUME KInv, [Next]_vars, NEW w \in Writers,
         calls'[w].key = calls[w].key, calls'[w].start = calls[w].start,
         calls'[w].reply = calls[w].reply
  PROVE  PendingOf(w)' = PendingOf(w)
<1>1. Len(log) \in Nat /\ calls[w].start \in Nat
  <2>1. calls[w] \in Call
    BY DEF KInv, HInv, IInv, TypeOK
  <2> QED BY <2>1 DEF KInv, HInv, IInv, TypeOK, Call
<1>2. calls[w].start = 0 \/ calls[w].start <= Len(log)
  BY DEF KInv, CallsKnow, CallKnows, NoCall
<1>3. \A i \in 2..calls[w].start : i \in 1..Len(log)
  BY <1>1, <1>2
<1>4. \A i \in 2..calls[w].start : log'[i] = log[i]
  BY <1>3, NextLogGrows DEF KInv, HInv, IInv
<1>5. DecidedBefore(w)' = DecidedBefore(w)
  BY <1>4 DEF DecidedBefore
<1> QED BY <1>5 DEF PendingOf

LEMMA PendingSame ==
  ASSUME KInv, [Next]_vars, calls' = calls
  PROVE  PendingCalls' = PendingCalls
BY PendingKept DEF PendingCalls

\* A step of one call leaves what the others wait for alone.
LEMMA PendingMoved ==
  ASSUME KInv, [Next]_vars, NEW w \in Writers, NEW p,
         \A v \in Writers : v # w => calls'[v] = calls[v],
         PendingOf(w)' = p
  PROVE  PendingCalls' = [PendingCalls EXCEPT ![w] = p]
<1>1. \A v \in Writers : v # w => PendingOf(v)' = PendingOf(v)
  BY PendingKept
<1> QED BY <1>1 DEF PendingCalls

LEMMA IdlePending ==
  ASSUME NEW w \in Writers, calls[w] = NoCall
  PROVE  PendingOf(w) = Promise!Idle
<1>1. DecidedBefore(w) = FALSE
  BY DEF DecidedBefore, NoCall
<1>2. calls[w].key = None /\ calls[w].reply = "none"
  BY DEF NoCall
<1>3. (IF calls[w].reply \in {"none", "ok"} THEN calls[w].reply ELSE "no") = "none"
  BY <1>2
<1> QED BY <1>1, <1>2, <1>3, Zenon DEF PendingOf, Promise!Idle

LEMMA PromiseInit == Init => Promise!Init
<1> SUFFICES ASSUME Init PROVE Promise!Init
  OBVIOUS
<1>1. DecidedKeys = <<>>
  BY DEF Init, DecidedKeys
<1>2. AskedKeys = [k \in Keys |-> None]
  BY DEF Init, AskedKeys, AskedOf
<1>3. ASSUME NEW w \in Writers PROVE PendingOf(w) = Promise!Idle
  BY IdlePending DEF Init
<1>4. PendingCalls = [w \in Writers |-> Promise!Idle]
  BY <1>3 DEF PendingCalls
<1> QED BY <1>1, <1>2, <1>4 DEF Init, Promise!Init

LEMMA AskStep ==
  ASSUME KInv, [Next]_vars, NEW w \in Writers, NEW k \in Keys,
         NewRequest(w, k) \/ Retry(w, k)
  PROVE  Promise!Ask(w, k)
<1> USE DEF KInv, HInv, IInv
<1>1. WriterStep(w) /\ calls[w].step = "idle" /\ UNCHANGED <<status, version, log>>
  BY DEF WriterStep, NewRequest, Retry, store
<1>2. PendingCalls[w] = Promise!Idle
  <2>1. calls[w] = NoCall
    BY <1>1 DEF CallsKnow, CallKnows
  <2> QED BY <2>1, IdlePending DEF PendingCalls
<1>3. PICK r : /\ requests'[k] = r /\ Enter(w, k, r)
               /\ \/ r = requests[k] /\ requests[k] # None /\ requests' = requests
                  \/ requests[k] = None /\ r \in Askable
                     /\ requests' = [requests EXCEPT ![k] = r]
  BY DEF NewRequest, Retry, TypeOK
<1>4. PendingCalls' = [PendingCalls EXCEPT ![w] =
                         [key |-> k, known |-> Promise!IsDecided(k), answer |-> "none"]]
  <2>1. calls'[w].key = k /\ calls'[w].start = Len(log) /\ calls'[w].reply = "none"
    BY <1>3 DEF Enter, NoCall, TypeOK
  <2>2. DecidedBefore(w)' = \E i \in 2..Len(log) : log[i].key = k
    BY <1>1, <2>1 DEF DecidedBefore
  <2>3. DecidedBefore(w)' = Promise!IsDecided(k)
    BY <2>2, DecidedIsKeyed
  <2>4. PendingOf(w)' = [key |-> k, known |-> Promise!IsDecided(k), answer |-> "none"]
    BY <2>1, <2>3 DEF PendingOf
  <2> QED BY <1>1, <2>4, PendingMoved, OneCallMoves
<1>5. \/ AskedKeys[k] # None /\ UNCHANGED AskedKeys
      \/ /\ AskedKeys[k] = None
         /\ \E a \in {[create |-> TRUE, base |-> 0]}
                     \cup {[create |-> FALSE, base |-> b] : b \in 0..Len(DecidedKeys)} :
              AskedKeys' = [AskedKeys EXCEPT ![k] = a]
  <2>1. CASE requests[k] # None /\ requests' = requests
    <3> DEFINE a == [create |-> requests[k].kind = "PROJECT_CREATED",
                     base |-> requests[k].base]
    <3>1. requests[k].base \in Nat
      BY <2>1, LedgerAssumption DEF TypeOK, Request
    <3>2. a \in Asked
      BY <3>1 DEF Asked
    <3>3. AskedKeys[k] = a
      BY <2>1 DEF AskedKeys, AskedOf
    <3> HIDE DEF a
    <3>4. AskedKeys[k] # None
      BY <3>2, <3>3, LedgerAssumption
    <3> QED BY <2>1, <3>4 DEF AskedKeys, AskedOf
  <2>2. CASE requests[k] = None /\ r \in Askable /\ requests' = [requests EXCEPT ![k] = r]
    <3> DEFINE a == [create |-> r.kind = "PROJECT_CREATED", base |-> r.base]
    <3>1. r # None
      BY <2>2, AskableShape, LedgerAssumption
    <3>2. AskedKeys[k] = None
      BY <2>2 DEF AskedKeys, AskedOf
    <3>3. AskedOf(k)' = a
      BY <1>3, <3>1 DEF AskedOf
    <3>4. ASSUME NEW j \in Keys, j # k PROVE AskedOf(j)' = AskedOf(j)
      BY <2>2, <3>4 DEF AskedOf, TypeOK
    <3>5. a \in {[create |-> TRUE, base |-> 0]}
                \cup {[create |-> FALSE, base |-> b] : b \in 0..Len(DecidedKeys)}
      <4>1. CASE r.kind = "PROJECT_CREATED"
        <5>1. r.base = 0
          BY <2>2, <4>1, AskableShape
        <5> QED BY <4>1, <5>1
      <4>2. CASE r.kind # "PROJECT_CREATED"
        <5>1. r.base \in 0..version
          BY <2>2, <4>2, AskableShape DEF TypeOK, Request
        <5> QED BY <4>2, <5>1, DecidedTyped
      <4> QED BY <4>1, <4>2
    <3> HIDE DEF a
    <3>6. AskedKeys' = [AskedKeys EXCEPT ![k] = a]
      BY <3>3, <3>4 DEF AskedKeys
    <3> QED BY <3>2, <3>5, <3>6
  <2> QED BY <1>3, <2>1, <2>2
<1>6. Created' = Created /\ DecidedKeys' = DecidedKeys
  BY <1>1 DEF DecidedKeys
<1> QED BY <1>2, <1>4, <1>5, <1>6 DEF Promise!Ask

LEMMA AskedSame ==
  ASSUME requests' = requests
  PROVE  AskedKeys' = AskedKeys
BY DEF AskedKeys, AskedOf

\* A step of a call that keeps its key, start and answer shows nothing.
LEMMA QuietPending ==
  ASSUME KInv, [Next]_vars, NEW w \in Writers, WriterStep(w),
         calls'[w].key = calls[w].key, calls'[w].start = calls[w].start,
         calls'[w].reply = calls[w].reply
  PROVE  PendingCalls' = PendingCalls
<1>1. \A v \in Writers : v # w => calls'[v] = calls[v]
  BY OneCallMoves DEF KInv, HInv, IInv
<1>2. \A v \in Writers : PendingOf(v)' = PendingOf(v)
  BY <1>1, PendingKept
<1> QED BY <1>2 DEF PendingCalls

LEMMA CreateStep ==
  ASSUME KInv, [Next]_vars, NEW w \in Writers, CommitCreate(w)
  PROVE  Promise!Create(w)
<1> USE DEF KInv, HInv, IInv
<1> DEFINE k == calls[w].key
<1>1. /\ calls[w].step = "begin" /\ requests[k].kind = "PROJECT_CREATED"
      /\ status = "absent" /\ status' = "active" /\ version' = version
      /\ requests' = requests /\ calls' = [calls EXCEPT ![w].step = "written"]
  BY DEF CommitCreate
<1>2. k \in Keys /\ requests[k] # None /\ WriterStep(w)
  BY <1>1, LedgerAssumption DEF CallShape, WriterStep
<1>3. PendingCalls[w].key # None /\ AskedKeys[PendingCalls[w].key].create
  <2>1. PendingCalls[w].key = k
    BY DEF PendingCalls, PendingOf
  <2>2. AskedKeys[k].create
    BY <1>1, <1>2 DEF AskedKeys, AskedOf
  <2> QED BY <1>2, <2>1, <2>2, LedgerAssumption
<1>4. DecidedKeys' = DecidedKeys
  <2>1. version = 0
    BY <1>1 DEF LedgerChain
  <2> QED BY <1>1, <2>1 DEF DecidedKeys
<1>5. PendingCalls' = PendingCalls
  <2>1. calls[w] \in Call
    BY DEF TypeOK
  <2>2. /\ calls'[w].key = calls[w].key /\ calls'[w].start = calls[w].start
        /\ calls'[w].reply = calls[w].reply
    BY <1>1, <2>1 DEF TypeOK, Call
  <2> QED BY <1>2, <2>2, QuietPending
<1> QED BY <1>1, <1>3, <1>4, <1>5, AskedSame DEF Promise!Create

LEMMA AppendAt ==
  ASSUME NEW S, NEW s \in Seq(S), NEW e \in S, NEW v \in 1..(Len(s) + 1)
  PROVE  Append(s, e)[v] = IF v <= Len(s) THEN s[v] ELSE e
<1>1. Len(s) \in Nat
  OBVIOUS
<1>2. CASE v <= Len(s)
  BY <1>1, <1>2
<1>3. CASE v = Len(s) + 1
  BY <1>1, <1>3
<1> QED BY <1>1, <1>2, <1>3

LEMMA DecideStep ==
  ASSUME KInv, [Next]_vars, NEW w \in Writers, Commit(w)
  PROVE  Promise!Decide(w)
<1> USE DEF KInv, HInv, IInv
<1> DEFINE k == calls[w].key
           r == requests[k]
           n == Len(log)
<1>1. /\ k \in Keys /\ r \in Request /\ ~Keyed(k)
      /\ n \in Nat /\ Len(log') = n + 1
      /\ \A i \in 1..n : log'[i] = log[i]
      /\ log'[n + 1].key = k
      /\ requests' = requests
      /\ calls' = [calls EXCEPT ![w].step = "written"]
  BY CommitEvent
<1>2. /\ r.kind # "PROJECT_CREATED" /\ status # "absent" /\ status' = status
      /\ version = r.base /\ WriterStep(w)
  BY DEF Commit, Materialise, Accepts, WriterStep
<1>3. r # None /\ k # None
  BY <1>1, LedgerAssumption
<1>4. PendingCalls[w].key = k
  BY DEF PendingCalls, PendingOf
<1>5. ~AskedKeys[k].create /\ AskedKeys[k].base = Len(DecidedKeys)
  <2>1. AskedKeys[k] = [create |-> FALSE, base |-> r.base]
    BY <1>1, <1>2, <1>3 DEF AskedKeys, AskedOf
  <2> QED BY <1>2, <2>1, DecidedTyped
<1>6. ~Promise!IsDecided(k)
  <2>1. \A i \in 2..n : i \in 1..n
    BY <1>1
  <2> QED BY <1>1, <2>1, DecidedIsKeyed DEF Keyed
<1>7. DecidedKeys' = Append(DecidedKeys, k)
  <2>1. version = n - 1 /\ n > 0
    BY <1>2, CurrentIsLast
  <2>2. version' = version + 1
    BY DEF Commit, Materialise, Apply, Current
  <2>3. ASSUME NEW v \in 1..(version + 1)
        PROVE  log'[v + 1].key = IF v <= version THEN DecidedKeys[v] ELSE k
    <3>1. CASE v <= version
      <4>1. v \in 1..version /\ v + 1 \in 1..n
        BY <1>1, <2>1, <3>1
      <4> QED BY <1>1, <3>1, <4>1 DEF DecidedKeys
    <3>2. CASE ~(v <= version)
      <4>1. v + 1 = n + 1
        BY <1>1, <2>1, <3>2
      <4> QED BY <1>1, <3>2, <4>1
    <3> QED BY <3>1, <3>2
  <2>4. DecidedKeys' = [v \in 1..(version + 1) |->
                          IF v <= version THEN DecidedKeys[v] ELSE k]
    BY <2>2, <2>3 DEF DecidedKeys
  <2>5. DecidedKeys \in Seq(Keys) /\ Len(DecidedKeys) = version
    BY DecidedTyped
  <2> DEFINE d == Append(DecidedKeys, k)
  <2>6. d = [v \in 1..(version + 1) |-> d[v]]
    <3>1. d \in Seq(Keys) /\ Len(d) = version + 1
      BY <1>1, <2>5
    <3> HIDE DEF d
    <3> QED BY <3>1
  <2>7. ASSUME NEW v \in 1..(version + 1)
        PROVE  d[v] = IF v <= version THEN DecidedKeys[v] ELSE k
    BY <1>1, <2>5, <2>7, AppendAt
  <2> HIDE DEF k, n, d
  <2>8. DecidedKeys' = d
    BY <2>4, <2>6, <2>7
  <2> QED BY <2>8 DEF d
<1>8. PendingCalls' = PendingCalls
  <2>1. calls[w] \in Call
    BY DEF TypeOK
  <2>2. /\ calls'[w].key = calls[w].key /\ calls'[w].start = calls[w].start
        /\ calls'[w].reply = calls[w].reply
    BY <1>1, <2>1 DEF TypeOK, Call
  <2> QED BY <1>2, <2>2, QuietPending
<1>9. AskedKeys' = AskedKeys
  BY <1>1, AskedSame
<1> HIDE DEF k, r, n
<1> QED BY <1>2, <1>3, <1>4, <1>5, <1>6, <1>7, <1>8, <1>9 DEF Promise!Decide

\* Whatever a call answers is an answer the decision log may give.
LEMMA AnswerStep ==
  ASSUME KInv, [Next]_vars, NEW w \in Writers, WriterStep(w),
         NEW reply \in Replies \ {"none"}, Reply(w, reply),
         calls[w].step \notin {"idle", "done"},
         UNCHANGED <<status, version, log, requests>>
  PROVE  Promise!Answer(w)
<1> USE DEF KInv, HInv, IInv
<1> DEFINE k == calls[w].key
           r == requests[k]
           a == IF reply = "ok" THEN "ok" ELSE "no"
<1>1. k \in Keys /\ r # None /\ r \in Request
  BY LedgerAssumption DEF CallShape
<1>2. calls[w] \in Call /\ calls[w].reply = "none"
  BY DEF TypeOK, CallsKnow, CallKnows
<1>3. /\ calls'[w].key = k /\ calls'[w].start = calls[w].start
      /\ calls'[w].reply = reply /\ calls'[w].step = "done"
  BY <1>2 DEF Reply, TypeOK, Call
<1>4. CallKnows(w)'
  BY NextKInv DEF CallsKnow
<1>5. PendingCalls[w].key = k /\ k # None /\ PendingCalls[w].answer = "none"
      /\ PendingCalls[w].known = DecidedBefore(w)
  BY <1>1, <1>2, LedgerAssumption DEF PendingCalls, PendingOf
<1>6. a = "ok" => IF AskedKeys[k].create THEN Created ELSE Promise!IsDecided(k)
  <2> SUFFICES ASSUME reply = "ok"
               PROVE  IF AskedKeys[k].create THEN Created ELSE Promise!IsDecided(k)
    OBVIOUS
  <2>1. IF r.kind = "PROJECT_CREATED" THEN status # "absent" ELSE Keyed(k)
    BY <1>3, <1>4 DEF CallKnows, Keyed
  <2>2. AskedKeys[k].create = (r.kind = "PROJECT_CREATED")
    BY <1>1 DEF AskedKeys, AskedOf
  <2>3. ASSUME r.kind # "PROJECT_CREATED" PROVE Promise!IsDecided(k)
    <3>1. PICK i \in 1..Len(log) : log[i].key = k
      BY <2>1, <2>3 DEF Keyed
    <3>2. log[i].kind = r.kind
      BY <3>1 DEF EventsRequested, EventIsRequest
    <3>3. i # 1
      BY <2>3, <3>2 DEF LedgerChain
    <3>4. i \in 2..Len(log)
      BY <3>3 DEF TypeOK
    <3> QED BY <3>1, <3>4, DecidedIsKeyed
  <2> QED BY <2>1, <2>2, <2>3
<1>7. a = "no" => ~DecidedBefore(w)
  <2> SUFFICES ASSUME reply # "ok" PROVE ~DecidedBefore(w)
    OBVIOUS
  <2>1. ~KnownAtStart(w)'
    BY <1>3, <1>4 DEF CallKnows
  <2>2. ~KnownAtStart(w)
    BY <1>3, <2>1 DEF KnownAtStart
  <2>3. \A i \in 2..calls[w].start : i \in 1..calls[w].start
    BY <1>2 DEF Call
  <2> QED BY <2>2, <2>3 DEF KnownAtStart, DecidedBefore
<1>8. PendingCalls' = [PendingCalls EXCEPT ![w].answer = a]
  <2>1. DecidedBefore(w)' = DecidedBefore(w)
    BY <1>3 DEF DecidedBefore
  <2>2. (IF reply \in {"none", "ok"} THEN reply ELSE "no") = a
    OBVIOUS
  <2> HIDE DEF a
  <2>3. PendingOf(w)' = [PendingOf(w) EXCEPT !.answer = a]
    BY <1>3, <2>1, <2>2 DEF PendingOf
  <2>4. PendingCalls' = [PendingCalls EXCEPT ![w] = [PendingOf(w) EXCEPT !.answer = a]]
    BY <2>3, PendingMoved, OneCallMoves
  <2> QED BY <2>4 DEF PendingCalls
<1>9. UNCHANGED <<Created, DecidedKeys, AskedKeys>>
  BY AskedSame DEF DecidedKeys
<1>10. a \in {"ok", "no"}
  OBVIOUS
<1> HIDE DEF k, r, a
<1> QED BY <1>5, <1>6, <1>7, <1>8, <1>9, <1>10 DEF Promise!Answer

LEMMA ForgetStep ==
  ASSUME KInv, [Next]_vars, NEW w \in Writers, Leave(w)
  PROVE  Promise!Forget(w)
<1> USE DEF KInv, HInv, IInv
<1>1. calls' = [calls EXCEPT ![w] = NoCall] /\ calls[w].step # "idle" /\ WriterStep(w)
      /\ UNCHANGED <<status, version, log, requests>>
  BY DEF Leave, WriterStep, store
<1>2. PendingCalls[w].key # None
  BY <1>1, LedgerAssumption DEF CallShape, PendingCalls, PendingOf
<1>3. PendingOf(w)' = Promise!Idle
  <2>1. calls'[w] = NoCall
    BY <1>1 DEF TypeOK
  <2>2. DecidedBefore(w)' = FALSE
    BY <2>1 DEF DecidedBefore, NoCall
  <2>3. calls'[w].key = None /\ calls'[w].reply = "none"
    BY <2>1 DEF NoCall
  <2>4. (IF calls'[w].reply \in {"none", "ok"} THEN calls'[w].reply ELSE "no") = "none"
    BY <2>3
  <2> QED BY <2>2, <2>3, <2>4, Zenon DEF PendingOf, Promise!Idle
<1>4. PendingCalls' = [PendingCalls EXCEPT ![w] = Promise!Idle]
  BY <1>1, <1>3, PendingMoved, OneCallMoves
<1> QED BY <1>1, <1>2, <1>4, AskedSame DEF Promise!Forget, DecidedKeys

LEMMA WriterRefines ==
  ASSUME KInv, [Next]_vars, NEW w \in Writers, WriterStep(w)
  PROVE  Promise!Next \/ UNCHANGED Promise!vars
<1> USE DEF KInv, HInv, IInv
<1>1. CASE \E k \in Keys : NewRequest(w, k) \/ Retry(w, k)
  BY <1>1, AskStep DEF Promise!Next
<1>2. CASE CommitCreate(w)
  BY <1>2, CreateStep DEF Promise!Next
<1>3. CASE Commit(w)
  BY <1>3, DecideStep DEF Promise!Next
<1>4. CASE Leave(w)
  BY <1>4, ForgetStep DEF Promise!Next
<1>5. CASE GateCandidate(w) \/ ReadOld(w) \/ Lookup(w) \/ Refuse(w) \/ Busy(w) \/ Confirm(w)
  <2>1. UNCHANGED <<status, version, log, requests>>
        /\ calls[w].step \notin {"idle", "done"}
    BY <1>5 DEF GateCandidate, ReadOld, Lookup, Refuse, Busy, Confirm, store
  <2>2. CASE \E reply \in Replies \ {"none"} : Reply(w, reply)
    BY <2>1, <2>2, AnswerStep DEF Promise!Next
  <2>3. CASE ~\E reply \in Replies \ {"none"} : Reply(w, reply)
    <3>1. \A reply \in {"ok", "conflict", "refused", "busy"} : reply \in Replies \ {"none"}
      BY DEF Replies
    <3>2. \E old, step :
            calls' = [calls EXCEPT ![w] = [calls[w] EXCEPT !.step = step, !.old = old]]
      <4>1. calls[w] \in Call
        BY DEF TypeOK
      <4>2. CASE ReadOld(w)
        BY <2>3, <3>1, <4>1, <4>2 DEF ReadOld, TypeOK
      <4>3. CASE Lookup(w)
        <5>1. calls' = [calls EXCEPT ![w].step = "begin"]
          BY <2>3, <3>1, <4>3 DEF Lookup
        <5>2. [calls[w] EXCEPT !.step = "begin"]
                = [calls[w] EXCEPT !.step = "begin", !.old = calls[w].old]
          BY <4>1 DEF Call
        <5>3. calls' = [calls EXCEPT ![w] = [calls[w] EXCEPT !.step = "begin"]]
          BY <5>1 DEF TypeOK
        <5> QED BY <5>2, <5>3
      <4> QED
        BY <1>5, <2>3, <3>1, <4>2, <4>3 DEF GateCandidate, Refuse, Busy, Confirm
    <3>3. /\ calls'[w].key = calls[w].key /\ calls'[w].start = calls[w].start
          /\ calls'[w].reply = calls[w].reply
      <4>1. calls[w] \in Call
        BY DEF TypeOK
      <4> QED BY <3>2, <4>1 DEF TypeOK, Call
    <3>4. PendingCalls' = PendingCalls
      BY <3>3, QuietPending
    <3> QED BY <2>1, <3>4, AskedSame DEF Promise!vars, DecidedKeys
  <2> QED BY <2>2, <2>3
<1> QED BY <1>1, <1>2, <1>3, <1>4, <1>5 DEF WriterStep

LEMMA NextRefines == KInv /\ [Next]_vars => [Promise!Next]_Promise!vars
<1> SUFFICES ASSUME KInv, [Next]_vars PROVE Promise!Next \/ UNCHANGED Promise!vars
  OBVIOUS
<1>1. ASSUME NEW w \in Writers, WriterStep(w)
      PROVE  Promise!Next \/ UNCHANGED Promise!vars
  BY <1>1, WriterRefines
<1>2. ASSUME UNCHANGED <<version, log, requests, calls>>, Created' = Created
      PROVE  UNCHANGED Promise!vars
  <2>1. PendingCalls' = PendingCalls
    BY <1>2, PendingSame
  <2>2. DecidedKeys' = DecidedKeys
    BY <1>2 DEF DecidedKeys
  <2> QED BY <1>2, <2>1, <2>2, AskedSame DEF Promise!vars
<1>3. ASSUME NEW r \in Readers, ReaderStep(r)
      PROVE  UNCHANGED <<version, log, requests, calls>> /\ Created' = Created
  BY <1>3 DEF ReaderStep, ReadProject, ReadRows, ReadEdges, store
<1>4. SetStatus => UNCHANGED <<version, log, requests, calls>> /\ Created' = Created
  BY DEF SetStatus
<1>5. UNCHANGED vars => UNCHANGED <<version, log, requests, calls>> /\ Created' = Created
  BY DEF vars
<1> QED BY <1>1, <1>2, <1>3, <1>4, <1>5 DEF Next

\* The ledger of two or more processes, with lookups outside the transaction,
\* lost answers, stops, retries and refusals, is for its clients the one
\* growing sequence of decisions of DecisionLog.
THEOREM LedgerRefinesDecisionLog == Spec => ImplementsDecisionLog
<1>1. Spec => [][Promise!Next]_Promise!vars
  BY KInvHolds, NextRefines, PTL DEF Spec
<1> QED BY <1>1, PromiseInit, PTL DEF Spec, ImplementsDecisionLog, Promise!Spec
=============================================================================

---------------------------- MODULE LocalWorker ----------------------------
(***************************************************************************)
(* A local model process and the gateway's client of it: the structure     *)
(* worker with its Gemma child, the matrix event worker and the document   *)
(* embedding worker (gateway/structure_provider.py, structure_worker.py,   *)
(* gemma_structure_worker.py, matrix_event_provider.py and                 *)
(* gemma_matrix_event_worker.py, DocumentEmbeddingWorkerClient).           *)
(*                                                                         *)
(* Requests and answers are lines in pipes, matched by their ids alone.    *)
(* One call at a time holds the client's lock; it starts the process when  *)
(* there is none, writes its line and waits, for a bounded time, until     *)
(* something can be read from the pipe; then it reads a line, without a    *)
(* deadline.  Either process may die, and anything in it may print a line  *)
(* of its own or a text without a newline; a generation may hang.  The     *)
(* structure worker in turn asks its Gemma child for one chunk after the   *)
(* other over two more pipes, and never starts another child.  A text of   *)
(* the child without a newline spoils the line after it, which to the      *)
(* worker is a chunk that failed.                                          *)
(*                                                                         *)
(* A request is a number, and what is computed from chunk k of request r   *)
(* is <<r, k>>.  What a closed worker or its child still does reaches      *)
(* nobody.                                                                 *)
(*                                                                         *)
(* Its names are none of OAuthBroker, so that one module, HelperProofs,    *)
(* can extend both.                                                        *)
(***************************************************************************)
EXTENDS Naturals, Sequences

CONSTANTS
  Callers,      \* threads of the gateway that use the client
  Nobody,
  MaxRequests,  \* bound: calls
  MaxChunks,    \* bound: chunks of a source text
  MaxFaults     \* bound: deaths, stray lines and hangs

ASSUME WorkerAssumption ==
  /\ MaxRequests \in Nat /\ MaxChunks \in Nat \ {0} /\ MaxFaults \in Nat
  /\ Nobody \notin Callers

VARIABLES
  kind,      \* which of the three clients this is
  phase,     \* what each caller is at
  request,   \* the number of its request
  lock,      \* the caller that holds the client's lock
  worker,    \* the process the client knows
  inbox,     \* requests it has not read
  outbox,    \* lines no call has read
  seen,      \* how many of them have left the pipe for the client's buffer
  cut,       \* the last one has no newline yet
  working,   \* the request it works on, 0 for none
  plan,      \* the number of chunks of that request
  done,      \* what became of the chunks tried so far
  gemma,     \* its child
  toGemma,   \* chunks the child has not read
  fromGemma, \* lines of the child
  waits,     \* the worker has asked for a chunk and waits for a line
  hung,      \* the generation under way does not end
  answers,   \* analyses that calls returned, with the request they were for
  requests, faults

client == <<phase, request, lock>>
printed == <<outbox, seen, cut>>
work   == <<working, plan, done, waits>>
pipes  == <<toGemma, fromGemma>>
workerVars == <<kind, client, worker, inbox, printed, work, gemma, pipes, hung, answers, requests, faults>>

-----------------------------------------------------------------------------
(* Data *)

Kinds   == {"structure", "matrix", "document"}
Ids     == 1..MaxRequests
Chunks  == Ids \X (1..MaxChunks)

\* A line that is not JSON, the answer of a request that failed, and a chunk
\* for which there is no candidate.
Noise  == [is |-> "noise"]
Failure(r) == [is |-> "error", id |-> r]
Analysis(r, chunks, n) == [is |-> "analysis", id |-> r, chunks |-> chunks, planned |-> n]
Failed == <<0, 0>>

Results  == Seq(Chunks \cup {Failed})
Analyses == [id : Ids, chunks : Results, planned : 1..MaxChunks]

Lines ==
  {Noise} \cup {Failure(r) : r \in Ids}
    \cup [is : {"analysis"}, id : Ids, chunks : Results, planned : 1..MaxChunks]

GemmaLines == {Noise} \cup [is : {"failure", "candidate"}, id : Chunks]

\* The lines in each of the four pipes.
Inboxes  == Seq(Ids)
Outboxes == Seq(Lines)
Asked    == Seq(Chunks)
Heard    == Seq(GemmaLines)

-----------------------------------------------------------------------------
WorkerInit ==
  /\ kind \in Kinds
  /\ phase = [c \in Callers |-> "idle"] /\ request = [c \in Callers |-> 0] /\ lock = Nobody
  /\ worker = "none" /\ inbox = <<>> /\ outbox = <<>> /\ seen = 0 /\ cut = FALSE
  /\ working = 0 /\ plan = 0 /\ done = <<>> /\ waits = FALSE
  /\ gemma = "none" /\ toGemma = <<>> /\ fromGemma = <<>> /\ hung = FALSE
  /\ answers = {} /\ requests = 0 /\ faults = 0

\* Nothing of a process is left: it has ended, or a new one has begun.
Clear ==
  /\ inbox' = <<>> /\ outbox' = <<>> /\ seen' = 0 /\ cut' = FALSE
  /\ working' = 0 /\ plan' = 0 /\ done' = <<>> /\ waits' = FALSE
  /\ toGemma' = <<>> /\ fromGemma' = <<>> /\ hung' = FALSE

\* The client ends the process and forgets it.
Close == worker' = "none" /\ gemma' = "none" /\ Clear

Keep == UNCHANGED <<worker, gemma, inbox, work, pipes, hung>>

\* What the worker writes goes behind a text that has no newline yet, in one
\* line with it.
Puts(line) ==
  IF cut THEN /\ UNCHANGED outbox
              /\ seen' = IF seen < Len(outbox) THEN seen ELSE Len(outbox) - 1
  ELSE outbox' = Append(outbox, line) /\ UNCHANGED seen

Prints(line) == Puts(line) /\ cut' = FALSE

Return(c) ==
  /\ phase' = [phase EXCEPT ![c] = "idle"]
  /\ request' = [request EXCEPT ![c] = 0]
  /\ lock' = Nobody

-----------------------------------------------------------------------------
(* The client *)

Call(c) ==
  /\ phase[c] = "idle" /\ requests < MaxRequests
  /\ requests' = requests + 1
  /\ request' = [request EXCEPT ![c] = requests + 1]
  /\ phase' = [phase EXCEPT ![c] = "waiting"]
  /\ UNCHANGED <<kind, lock, worker, inbox, printed, work, gemma, pipes, hung, answers, faults>>

\* A new process, with new pipes, unless the one there is still runs.
Start ==
  IF worker = "up" THEN UNCHANGED <<worker, gemma, inbox, printed, work, pipes, hung>>
  ELSE /\ worker' = "up" /\ gemma' = IF kind = "structure" THEN "up" ELSE "none"
       /\ Clear

Enter(c) ==
  /\ phase[c] = "waiting" /\ lock = Nobody
  /\ lock' = c
  /\ phase' = [phase EXCEPT ![c] = "writing"]
  /\ Start
  /\ UNCHANGED <<kind, request, answers, requests, faults>>

\* The operating system starts no process.
EnterFails(c) ==
  /\ phase[c] = "waiting" /\ lock = Nobody /\ worker # "up"
  /\ faults < MaxFaults /\ faults' = faults + 1
  /\ Return(c)
  /\ UNCHANGED <<kind, worker, inbox, printed, work, gemma, pipes, hung, answers, requests>>

\* A line that does not fit the pipe waits until the worker reads it.
Write(c) ==
  /\ phase[c] = "writing" /\ worker = "up"
  /\ inbox' = Append(inbox, request[c])
  /\ phase' = [phase EXCEPT ![c] = "reading"]
  /\ UNCHANGED <<kind, request, lock, worker, printed, work, gemma, pipes, hung, answers, requests, faults>>

WriteFails(c) ==
  /\ phase[c] = "writing" /\ worker = "dead"
  /\ Close /\ Return(c)
  /\ UNCHANGED <<kind, answers, requests, faults>>

\* The answer of this call, with every chunk that was planned.
Accepts(c, line) ==
  line.is = "analysis" /\ line.id = request[c] /\ Len(line.chunks) = line.planned

\* Mutant: a line that cannot be read does not end the worker.
NeverEnds == FALSE

\* The document client lets the error of the parser through.
EndsOnNoise == kind # "document"

\* The line is whole, or ends where the worker died.
WholeLine == Len(outbox) > 1 \/ (outbox # <<>> /\ (~cut \/ worker = "dead"))

\* The line leaves, and with it what of the pipe went into the buffer, where a
\* later select does not see it.
TakesLine ==
  /\ outbox' = Tail(outbox)
  /\ seen' \in IF seen > 0 THEN {seen - 1} ELSE 0..Len(Tail(outbox))
  /\ cut' = (cut /\ Len(outbox) > 1)
  /\ Keep

\* The pipe has something to read, or its end, which is what select waits for.
Readable == Len(outbox) > seen \/ worker = "dead"

Read(c) ==
  LET line == Head(outbox) IN
  /\ phase[c] = "reading" /\ Readable /\ WholeLine
  /\ IF line = Noise
     THEN /\ IF EndsOnNoise THEN Close ELSE TakesLine
          /\ UNCHANGED answers
     ELSE /\ TakesLine
          /\ answers' = IF Accepts(c, line)
                        THEN answers \cup {[id |-> request[c], chunks |-> line.chunks, planned |-> line.planned]}
                        ELSE answers
  /\ Return(c)
  /\ UNCHANGED <<kind, requests, faults>>

ReadEof(c) ==
  /\ phase[c] = "reading" /\ outbox = <<>> /\ worker = "dead"
  /\ Close /\ Return(c)
  /\ UNCHANGED <<kind, answers, requests, faults>>

\* Mutant: it waits as long as the worker runs.
TimeoutAfterDeath(c) ==
  /\ phase[c] = "reading" /\ worker = "dead"
  /\ Close /\ Return(c)
  /\ UNCHANGED <<kind, answers, requests, faults>>

\* Only select has a deadline: once a first byte is there, readline waits for
\* the newline as long as the worker runs.
Timeout(c) ==
  /\ phase[c] = "reading" /\ ~Readable
  /\ Close /\ Return(c)
  /\ UNCHANGED <<kind, answers, requests, faults>>

-----------------------------------------------------------------------------
(* The worker *)

\* It reads a request and plans its chunks, or answers that it cannot.
Take ==
  /\ worker = "up" /\ working = 0 /\ inbox # <<>>
  /\ inbox' = Tail(inbox)
  /\ \/ /\ working' = Head(inbox)
        /\ plan' \in IF kind = "structure" THEN 1..MaxChunks ELSE {1}
        /\ done' = <<>>
        /\ UNCHANGED printed
     \/ /\ Prints(Failure(Head(inbox)))
        /\ UNCHANGED <<working, plan, done>>
  /\ UNCHANGED <<kind, client, worker, waits, gemma, pipes, hung, answers, requests, faults>>

Following == Len(done) + 1
Busy == worker = "up" /\ working # 0 /\ Len(done) < plan

\* Without a child the chunk fails, and the next one is tried.
AskGemma ==
  /\ kind = "structure" /\ Busy /\ ~waits
  /\ IF gemma = "up"
     THEN toGemma' = Append(toGemma, <<working, Following>>) /\ waits' = TRUE /\ UNCHANGED done
     ELSE done' = Append(done, Failed) /\ UNCHANGED <<toGemma, waits>>
  /\ UNCHANGED <<kind, client, worker, inbox, printed, working, plan, gemma, fromGemma, hung, answers, requests, faults>>

\* Mutant: the id of the line is not compared.
CandidateOfAny(line) == IF line # Noise /\ line.is = "candidate" THEN line.id ELSE Failed

\* The candidate of a line of the child, if it is for this chunk.
Candidate(line) ==
  IF line # Noise /\ line.is = "candidate" /\ line.id = <<working, Following>> THEN line.id ELSE Failed

HearGemma ==
  /\ waits /\ worker = "up"
  /\ \/ /\ fromGemma # <<>>
        /\ done' = Append(done, Candidate(Head(fromGemma)))
        /\ fromGemma' = Tail(fromGemma)
     \/ /\ fromGemma = <<>> /\ gemma = "dead"
        /\ done' = Append(done, Failed)
        /\ UNCHANGED fromGemma
  /\ waits' = FALSE
  /\ UNCHANGED <<kind, client, worker, inbox, printed, working, plan, gemma, toGemma, hung, answers, requests, faults>>

GemmaGenerates ==
  /\ gemma = "up" /\ ~hung /\ toGemma # <<>>
  /\ \E outcome \in {"failure", "candidate"} :
       fromGemma' = Append(fromGemma, [is |-> outcome, id |-> Head(toGemma)])
  /\ toGemma' = Tail(toGemma)
  /\ UNCHANGED <<kind, client, worker, inbox, printed, work, gemma, hung, answers, requests, faults>>

\* The other two workers compute in their own process.
Generates ==
  /\ kind # "structure" /\ Busy /\ ~hung
  /\ done' \in {<< <<working, 1>> >>, <<Failed>>}
  /\ UNCHANGED <<kind, client, worker, inbox, printed, working, plan, waits, gemma, pipes, hung, answers, requests, faults>>

\* One chunk that failed fails the whole request.
Answered ==
  IF \E k \in 1..Len(done) : done[k] = Failed THEN Failure(working) ELSE Analysis(working, done, plan)

Reply ==
  /\ worker = "up" /\ working # 0 /\ Len(done) = plan
  /\ Prints(Answered)
  /\ working' = 0 /\ plan' = 0 /\ done' = <<>>
  /\ UNCHANGED <<kind, client, worker, inbox, waits, gemma, pipes, hung, answers, requests, faults>>

-----------------------------------------------------------------------------
(* Faults *)

Fault == faults < MaxFaults /\ faults' = faults + 1

\* It may die in the middle of a line; its child ends when it reads again.
WorkerDies ==
  /\ Fault /\ worker = "up"
  /\ worker' = "dead" /\ gemma' = "none"
  /\ inbox' = <<>> /\ (UNCHANGED printed \/ Prints(Noise))
  /\ working' = 0 /\ plan' = 0 /\ done' = <<>> /\ waits' = FALSE
  /\ toGemma' = <<>> /\ fromGemma' = <<>> /\ hung' = FALSE
  /\ UNCHANGED <<kind, client, answers, requests>>

GemmaDies ==
  /\ Fault /\ gemma = "up"
  /\ gemma' = "dead"
  /\ toGemma' = <<>> /\ fromGemma' \in {fromGemma, Append(fromGemma, Noise)}
  /\ UNCHANGED <<kind, client, worker, inbox, printed, work, hung, answers, requests>>

WorkerPrints ==
  /\ Fault /\ worker = "up"
  /\ Puts(Noise) /\ cut' \in BOOLEAN
  /\ UNCHANGED <<kind, client, worker, inbox, work, gemma, pipes, hung, answers, requests>>

GemmaPrints ==
  /\ Fault /\ gemma = "up"
  /\ fromGemma' = Append(fromGemma, Noise)
  /\ UNCHANGED <<kind, client, worker, inbox, printed, work, gemma, toGemma, hung, answers, requests>>

\* The document worker generates nothing.
Hangs ==
  /\ Fault /\ ~hung
  /\ \/ kind = "structure" /\ gemma = "up" /\ toGemma # <<>>
     \/ kind = "matrix" /\ Busy /\ done = <<>>
  /\ hung' = TRUE
  /\ UNCHANGED <<kind, client, worker, inbox, printed, work, gemma, pipes, answers, requests>>

-----------------------------------------------------------------------------
WorkerNext ==
  \/ \E c \in Callers :
       Call(c) \/ Enter(c) \/ EnterFails(c) \/ Write(c) \/ WriteFails(c) \/ Read(c) \/ ReadEof(c) \/ Timeout(c)
  \/ Take \/ AskGemma \/ HearGemma \/ GemmaGenerates \/ Generates \/ Reply
  \/ WorkerDies \/ GemmaDies \/ WorkerPrints \/ GemmaPrints \/ Hangs

\* A lock that is free again and again is had; a line is surely taken by a
\* worker that reads; a call waits no longer than its time; and processes run.
Fairness ==
  /\ \A c \in Callers :
       /\ SF_workerVars(Enter(c))
       /\ WF_workerVars(Write(c) /\ working = 0) /\ WF_workerVars(WriteFails(c))
       /\ WF_workerVars(Read(c) \/ ReadEof(c) \/ Timeout(c))
  /\ WF_workerVars(Take) /\ WF_workerVars(AskGemma) /\ WF_workerVars(HearGemma) /\ WF_workerVars(GemmaGenerates)
  /\ WF_workerVars(Generates) /\ WF_workerVars(Reply)

WorkerSpec == WorkerInit /\ [][WorkerNext]_workerVars /\ Fairness

-----------------------------------------------------------------------------
(* Properties *)

\* Every variable has its type.
WorkerTypeOK ==
  /\ kind \in Kinds
  /\ phase \in [Callers -> {"idle", "waiting", "writing", "reading"}]
  /\ request \in [Callers -> 0..MaxRequests] /\ lock \in Callers \cup {Nobody}
  /\ worker \in {"none", "up", "dead"} /\ gemma \in {"none", "up", "dead"}
  /\ inbox \in Inboxes /\ outbox \in Outboxes /\ seen \in Nat /\ cut \in BOOLEAN
  /\ working \in 0..MaxRequests /\ plan \in 0..MaxChunks
  /\ done \in Results /\ waits \in BOOLEAN
  /\ toGemma \in Asked /\ fromGemma \in Heard
  /\ hung \in BOOLEAN
  /\ answers \subseteq Analyses
  /\ requests \in 0..MaxRequests /\ faults \in 0..MaxFaults

\* An analysis that a call returns was computed from its own text, chunk by
\* chunk and complete, whatever lines earlier calls, timeouts, deaths and
\* strays have left in the pipes (analyze, parse, embed_document).
AnswersAreOwn ==
  \A a \in answers : a.chunks = [k \in 1..a.planned |-> <<a.id, k>>]

\* Between two calls nothing of an earlier one is on its way any more, so a
\* request is not written to a worker that is busy, nor is the next answer
\* that of another; except in the document client, which does not close on a
\* line it cannot read (analyze, parse).
InStep ==
  kind # "document" /\ worker = "up" /\ (\A c \in Callers : phase[c] # "reading")
    => inbox = <<>> /\ working = 0 /\ \A i \in 1..Len(outbox) : outbox[i] = Noise

\* A call is past its deadline with a text before it that has no newline, and
\* the worker, whose generation hangs, writes no more.
Blocked ==
  hung /\ cut /\ Len(outbox) = 1 /\ Readable /\ \E c \in Callers : phase[c] = "reading"

\* Every call returns, with an analysis or an error, unless one is blocked on
\* the rest of a line, it and all that wait for the lock.
EveryCallReturns ==
  \A c \in Callers : phase[c] # "idle" ~> (phase[c] = "idle" \/ Blocked)
=============================================================================

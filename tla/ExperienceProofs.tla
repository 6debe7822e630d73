-------------------------- MODULE ExperienceProofs --------------------------
(* Theorems about Experience, for any responses, findings and stops.        *)
EXTENDS Experience, TLAPS

Evaluated(r) == evaluations[r] # None

\* A finding that is open, or was, is one of a response.
Raised == \A f \in Findings : statuses[f] # "none" => \E r \in Responses : f \in FindingsOn[r]

\* Calls and evaluations are about responses a client can capture, and what
\* comes after the evaluation is about one that is evaluated.
Ours ==
  /\ \A p \in Processes : calls[p].at # "idle" =>
       /\ calls[p].response \in Capturable
       /\ calls[p].at \notin {"review", "turn", "govern", "save"} => Evaluated(calls[p].response)
  /\ \A r \in Responses : Evaluated(r) => r \in Capturable
  /\ accepted # None => accepted \in Capturable

Known(found) == \A f \in found : statuses[f] # "none"

\* What an evaluation found is on record as a finding.
Recorded ==
  /\ \A r \in Responses : Evaluated(r) => Known(evaluations[r].findings)
  /\ \A p \in Processes : Known(calls[p].raised)

\* A response that may be learned: accepted, complete, without an open finding.
Learnable(r) ==
  /\ r \in Capturable /\ Evaluated(r)
  /\ accepted = r \/ (chat = r /\ reviewed)
  /\ captures[r] = "complete"
  /\ \A f \in evaluations[r].findings : statuses[f] \in Resolved

Learning ==
  /\ \A p \in Processes :
       /\ calls[p].at \in {"commit", "record"} => Learnable(calls[p].response)
       /\ calls[p].at = "record" => runtime # None /\ runtime.response = calls[p].response
  /\ runtime # None => Learnable(runtime.response)
  /\ applied = IF runtime = None THEN 0 ELSE 1
  /\ receipt # None => runtime # None /\ receipt = runtime.response

IInv == TypeOK /\ Raised /\ Ours /\ Recorded /\ Learning

-----------------------------------------------------------------------------
(* Types *)

LEMMA NoCallIsCall ==
  NoCall \in Call /\ NoCall.at = "idle" /\ NoCall.raised = {} /\ NoCall.response = None
  BY DEF NoCall, Call

LEMMA InitTypes == Init => TypeOK /\ Raised
<1> SUFFICES ASSUME Init PROVE TypeOK /\ Raised  OBVIOUS
<1> USE ExperienceAssumption DEF Init
<1>1. captures \in [Responses -> {"none", "complete", "incomplete"}]  OBVIOUS
<1>2. statuses \in [Findings -> {"none", "open"} \cup Resolved]  BY DEF Resolved
<1>3. evaluations \in [Responses -> Evaluation \cup {None}]  BY DEF Evaluation
<1>4. calls \in [Processes -> Call]  BY NoCallIsCall
<1>5. moved \in BOOLEAN  OBVIOUS
<1>6. reviewed \in BOOLEAN  OBVIOUS
<1>7. Raised  BY DEF Raised
<1>8. chat \in Responses \cup {None} /\ stale \in BOOLEAN  OBVIOUS
<1>9. /\ accepted \in Responses \cup {None} /\ receipt \in Responses \cup {None}
      /\ runtime \in Experience \cup {None} /\ applied \in Nat /\ crashes \in 0..MaxCrashes
  OBVIOUS
<1> QED BY <1>1, <1>2, <1>3, <1>4, <1>5, <1>6, <1>7, <1>8, <1>9 DEF TypeOK

\* A call in progress is about a response.
Named == \A p \in Processes : calls[p].at # "idle" => calls[p].response \in Responses

\* Steps that only move a call along.
LEMMA Moving ==
  ASSUME TypeOK, NEW p \in Processes,
         \/ Review(p) \/ Check(p) \/ CommitFails(p) \/ Crash(p)
  PROVE  calls' \in [Processes -> Call]
<1> USE NoCallIsCall DEF TypeOK, Goto, Return
<1>1. calls[p] \in Call  OBVIOUS
<1>2. CASE Review(p)  BY <1>1, <1>2 DEF Review, Call
<1>3. CASE Check(p)
  <2>1. CASE Return(p)  BY <2>1
  <2>2. CASE calls' = [calls EXCEPT ![p].at = "commit",
                 ![p].dismissed = \E f \in evaluations[calls[p].response].findings : statuses[f] = "dismissed"]
    BY <2>2, <1>1 DEF Call
  <2> QED BY <1>3, <2>1, <2>2 DEF Check
<1>4. CASE CommitFails(p) \/ Crash(p)  BY <1>4 DEF CommitFails, Crash
<1> QED BY <1>2, <1>3, <1>4

LEMMA TypesStep == TypeOK /\ Raised /\ Named /\ [Next]_vars => TypeOK' /\ Raised'
<1> SUFFICES ASSUME TypeOK, Raised, Named, [Next]_vars PROVE TypeOK' /\ Raised'  OBVIOUS
<1> USE ExperienceAssumption, NoCallIsCall DEF TypeOK, Raised, ledger, gateway, Goto, Return
<1>1. ASSUME NEW r \in Responses, NEW complete \in BOOLEAN, NEW accept \in BOOLEAN, Evaluate(r, complete, accept)
      PROVE  TypeOK' /\ Raised'
  <2>1. calls' \in [Processes -> Call]  BY <1>1 DEF Evaluate, NoCall, Call
  <2> QED BY <1>1, <2>1 DEF Evaluate
<1>2. ASSUME NEW p \in Processes, Review(p) \/ Check(p) \/ CommitFails(p) \/ Crash(p)
      PROVE  TypeOK' /\ Raised'
  <2>1. calls' \in [Processes -> Call]  BY <1>2, Moving
  <2>2. UNCHANGED <<ledger, gateway>> /\ crashes' \in 0..MaxCrashes
    BY <1>2 DEF Review, Check, CommitFails, Crash
  <2> QED BY <2>1, <2>2
<1>3. ASSUME NEW p \in Processes, Turn(p)
      PROVE  TypeOK' /\ Raised'
  <2>0. calls[p] \in Call  OBVIOUS
  <2>1. calls' \in [Processes -> Call]  BY <1>3, <2>0 DEF Turn, Call
  <2>2. captures' \in [Responses -> {"none", "complete", "incomplete"}]  BY <1>3 DEF Turn, RecordCapture
  <2> QED BY <1>3, <2>1, <2>2 DEF Turn
<1>4. ASSUME NEW p \in Processes, Govern(p)
      PROVE  TypeOK' /\ Raised'
  <2>0. calls[p] \in Call /\ calls[p].response \in Responses  BY <1>4 DEF Govern, Named
  <2>1. PICK raised : /\ raised \in IF calls[p].complete /\ ~stale
                        THEN {FindingsOn[calls[p].response] \cap Native, FindingsOn[calls[p].response]} ELSE {{}}
                      /\ statuses' = [f \in Findings |-> IF f \in raised /\ statuses[f] = "none" THEN "open" ELSE statuses[f]]
                      /\ calls' = [calls EXCEPT ![p].at = "save", ![p].raised = raised]
    BY <1>4 DEF Govern
  <2>2. raised \subseteq FindingsOn[calls[p].response] /\ raised \subseteq Findings  BY <2>0, <2>1
  <2>3. calls' \in [Processes -> Call]  BY <2>0, <2>1, <2>2 DEF Call
  <2>4. statuses' \in [Findings -> {"none", "open"} \cup Resolved]  BY <2>1
  <2>5. Raised'  BY <2>0, <2>1, <2>2
  <2> QED BY <1>4, <2>3, <2>4, <2>5 DEF Govern
<1>5. ASSUME NEW p \in Processes, Save(p)
      PROVE  TypeOK' /\ Raised'
  <2>0. calls[p] \in Call /\ calls[p].response \in Responses  BY <1>5 DEF Save, Named
  <2>1. calls' \in [Processes -> Call]  BY <1>5, <2>0 DEF Save, Call
  <2>2. [complete |-> calls[p].complete, findings |-> calls[p].raised] \in Evaluation
    BY <2>0 DEF Call, Evaluation
  <2>3. evaluations' \in [Responses -> Evaluation \cup {None}]  BY <1>5, <2>0, <2>2 DEF Save, StoreEvaluation
  <2> QED BY <1>5, <2>1, <2>3 DEF Save
<1>6. ASSUME NEW p \in Processes, Accept(p)
      PROVE  TypeOK' /\ Raised'
  <2>0. calls[p] \in Call /\ calls[p].response \in Responses  BY <1>6 DEF Accept, Named
  <2>1. calls' \in [Processes -> Call]  BY <1>6, <2>0 DEF Accept, Call
  <2>2. accepted' \in Responses \cup {None}  BY <1>6, <2>0 DEF Accept
  <2>3. reviewed' \in BOOLEAN  BY <1>6 DEF Accept
  <2> QED BY <1>6, <2>1, <2>2, <2>3 DEF Accept
<1>7. ASSUME NEW p \in Processes, Commit(p)
      PROVE  TypeOK' /\ Raised'
  <2>0. calls[p] \in Call /\ calls[p].response \in Responses  BY <1>7 DEF Commit, Named
  <2>1. calls' \in [Processes -> Call]  BY <1>7, <2>0 DEF Commit, Call
  <2>2. [response |-> calls[p].response, dismissed |-> calls[p].dismissed] \in Experience
    BY <2>0 DEF Call, Experience
  <2>3. runtime' \in Experience \cup {None} /\ applied' \in Nat  BY <1>7, <2>2 DEF Commit, ApplyOnce
  <2> QED BY <1>7, <2>1, <2>3 DEF Commit
<1>8. ASSUME NEW p \in Processes, Record(p)
      PROVE  TypeOK' /\ Raised'
  <2>0. calls[p].response \in Responses  BY <1>8 DEF Record, Named
  <2>1. calls' \in [Processes -> Call]  BY <1>8 DEF Record
  <2> QED BY <1>8, <2>0, <2>1 DEF Record
<1>9. ASSUME NEW p \in Processes, NEW f \in Findings, NEW status \in Resolved, Resolve(p, f, status)
      PROVE  TypeOK' /\ Raised'
  <2> DEFINE r == CHOOSE q \in Responses : f \in FindingsOn[q]
  <2>1. r \in Responses  BY <1>9 DEF Resolve
  <2>2. [NoCall EXCEPT !.at = "check", !.response = r] \in Call  BY <2>1 DEF NoCall, Call
  <2> HIDE DEF r
  <2>3. calls' \in [Processes -> Call]  BY <1>9, <2>2 DEF Resolve, r
  <2>4. statuses' = [statuses EXCEPT ![f] = status]  BY <1>9 DEF Resolve
  <2>5. \A q \in Findings : statuses'[q] # "none" => statuses[q] # "none"  BY <1>9, <2>4 DEF Resolve
  <2> QED BY <1>9, <2>3, <2>4, <2>5 DEF Resolve
<1>10. CASE StateMoves  BY <1>10 DEF StateMoves
<1>11. CASE UNCHANGED vars  BY <1>11 DEF vars
<1> QED BY <1>1, <1>2, <1>3, <1>4, <1>5, <1>6, <1>7, <1>8, <1>9, <1>10, <1>11 DEF Next, Step

-----------------------------------------------------------------------------
(* The invariant *)

LEMMA OursNames == TypeOK /\ Ours => Named
  BY ExperienceAssumption DEF TypeOK, Ours, Named, Capturable

LEMMA InitHolds == Init => IInv
<1> SUFFICES ASSUME Init PROVE IInv  OBVIOUS
<1> USE ExperienceAssumption, NoCallIsCall DEF Init
<1>1. TypeOK /\ Raised  BY InitTypes
<1>2. \A p \in Processes : calls[p] = NoCall  OBVIOUS
<1>3. \A r \in Responses : Evaluated(r) => r = chat /\ reviewed /\ evaluations[r].findings = FindingsOn[r]
  BY DEF Evaluated
<1>4. Ours  BY <1>2, <1>3 DEF Ours, Capturable
<1>5. \A r \in Responses : Evaluated(r) => Known(evaluations[r].findings)
  BY <1>3 DEF Known
<1>6. Recorded  BY <1>2, <1>5 DEF Recorded, Known
<1>7. Learning  BY <1>2 DEF Learning
<1> QED BY <1>1, <1>4, <1>6, <1>7 DEF IInv

\* No step takes back what is recorded, evaluated, accepted or resolved.
Lasting ==
  /\ chat' = chat /\ (reviewed => reviewed')
  /\ accepted # None => accepted' = accepted
  /\ \A r \in Responses : captures[r] = "complete" => captures'[r] = "complete"
  /\ \A r \in Responses : Evaluated(r) => evaluations'[r] = evaluations[r]
  /\ \A f \in Findings : statuses[f] \in Resolved => statuses'[f] \in Resolved
  /\ \A f \in Findings : statuses[f] # "none" => statuses'[f] # "none"

LEMMA Lasts ==
  ASSUME TypeOK, Lasting, NEW r \in Responses
  PROVE  /\ Evaluated(r) => Evaluated(r)'
         /\ Learnable(r) => Learnable(r)'
         /\ \A s \in SUBSET Findings : Known(s) => Known(s)'
         /\ Capturable' = Capturable
<1>1. Evaluated(r) => Evaluated(r)' /\ evaluations[r].findings \subseteq Findings
  BY DEF TypeOK, Lasting, Evaluated, Evaluation
<1>2. Capturable' = Capturable  BY DEF Lasting, Capturable
<1>3. Learnable(r) => Learnable(r)'
  BY <1>1, <1>2, ExperienceAssumption DEF Lasting, Learnable, Evaluated
<1>4. \A s \in SUBSET Findings : Known(s) => Known(s)'  BY DEF Lasting, Known
<1> QED BY <1>1, <1>2, <1>3, <1>4

\* What a step of p has to show besides.
LEMMA Advances ==
  ASSUME IInv, TypeOK', Raised', Lasting, NEW p \in Processes,
         \A q \in Processes \ {p} : calls'[q] = calls[q],
         Known(calls[p].raised)',
         \A r \in Responses : evaluations'[r] # evaluations[r] =>
            r \in Capturable /\ Known(evaluations[r].findings)',
         accepted' # accepted => accepted' \in Capturable,
         calls'[p].at # "idle" =>
            /\ calls'[p].response \in Capturable
            /\ calls'[p].at \notin {"review", "turn", "govern", "save"} => Evaluated(calls[p].response)'
            /\ calls'[p].at \in {"commit", "record"} => Learnable(calls[p].response)'
            /\ calls'[p].at = "record" => runtime' # None /\ runtime'.response = calls'[p].response,
         runtime # None => runtime' = runtime,
         runtime' # None => Learnable(runtime.response)',
         applied' = IF runtime' = None THEN 0 ELSE 1,
         receipt' # None => runtime' # None /\ receipt' = runtime'.response
  PROVE  IInv'
<1> USE ExperienceAssumption
<1>1. Named  BY OursNames DEF IInv
<1>2. Capturable' = Capturable  BY DEF Lasting, Capturable
<1>3. ASSUME NEW q \in Processes \ {p}, calls[q].at # "idle"
      PROVE  /\ Evaluated(calls[q].response) => Evaluated(calls[q].response)'
             /\ Learnable(calls[q].response) => Learnable(calls[q].response)'
  <2>1. PICK r \in Responses : calls[q].response = r /\ calls'[q].response = r  BY <1>1, <1>3 DEF Named
  <2>2. (Evaluated(r) => Evaluated(r)') /\ (Learnable(r) => Learnable(r)')
    BY Lasts DEF IInv
  <2>3. (Evaluated(calls[q].response) <=> Evaluated(r)) /\ (Evaluated(calls[q].response)' <=> Evaluated(r)')
    BY <2>1 DEF Evaluated
  <2>4. (Learnable(calls[q].response) <=> Learnable(r)) /\ (Learnable(calls[q].response)' <=> Learnable(r)')
    BY <2>1 DEF Learnable, Evaluated, Capturable
  <2> QED BY <2>2, <2>3, <2>4
<1>4. Ours'
  <2>1. ASSUME NEW q \in Processes, calls'[q].at # "idle"
        PROVE  /\ calls'[q].response \in Capturable
               /\ calls'[q].at \notin {"review", "turn", "govern", "save"} => Evaluated(calls[q].response)'
    <3>1. CASE q = p  BY <2>1, <3>1
    <3>2. CASE q # p
      <4>1. calls'[q] = calls[q]  BY <3>2
      <4> QED BY <1>3, <2>1, <3>2, <4>1 DEF IInv, Ours, Evaluated
    <3> QED BY <3>1, <3>2
  <2>2. ASSUME NEW r \in Responses, Evaluated(r)' PROVE r \in Capturable
    BY <2>2 DEF IInv, Ours, Evaluated
  <2>3. accepted' # None => accepted' \in Capturable  BY DEF IInv, Ours
  <2> QED BY <1>2, <2>1, <2>2, <2>3 DEF Ours, Evaluated
<1>5. Recorded'
  <2>1. ASSUME NEW r \in Responses, Evaluated(r)' PROVE Known(evaluations[r].findings)'
    <3>1. CASE evaluations'[r] # evaluations[r]  BY <3>1
    <3>2. CASE evaluations'[r] = evaluations[r]
      <4>1. Known(evaluations[r].findings) /\ evaluations[r].findings \in SUBSET Findings
        BY <2>1, <3>2 DEF IInv, Recorded, Evaluated, TypeOK, Evaluation
      <4> QED BY <3>2, <4>1 DEF Known, Lasting
    <3> QED BY <3>1, <3>2
  <2>2. ASSUME NEW q \in Processes PROVE Known(calls[q].raised)'
    <3>1. CASE q = p  BY <3>1
    <3>2. CASE q # p
      <4>1. calls'[q] = calls[q] /\ Known(calls[q].raised) /\ calls[q].raised \in SUBSET Findings
        BY <3>2 DEF IInv, Recorded, TypeOK, Call
      <4> QED BY <4>1 DEF Known, Lasting
    <3> QED BY <3>1, <3>2
  <2> QED BY <2>1, <2>2 DEF Recorded, Known
<1>6. Learning'
  <2>1. ASSUME NEW q \in Processes
        PROVE  /\ calls'[q].at \in {"commit", "record"} => Learnable(calls[q].response)'
               /\ calls'[q].at = "record" => runtime' # None /\ runtime'.response = calls'[q].response
    <3>1. CASE q = p  BY <3>1
    <3>2. CASE q # p
      <4>1. calls'[q] = calls[q]  BY <3>2
      <4>2. calls[q].at \in {"commit", "record"} => Learnable(calls[q].response)'
        BY <1>3, <3>2 DEF IInv, Learning
      <4> QED BY <4>1, <4>2 DEF IInv, Learning, Learnable, Evaluated, Capturable
    <3> QED BY <3>1, <3>2
  <2> QED BY <2>1 DEF Learning, Learnable, Evaluated, Capturable
<1> QED BY <1>4, <1>5, <1>6 DEF IInv

LEMMA OneLearnable ==
  ASSUME TypeOK, NEW r, NEW q, Learnable(r), Learnable(q)
  PROVE  r = q
<1>1. CASE chat = None  BY <1>1, ExperienceAssumption DEF Learnable, Capturable
<1>2. CASE chat # None  BY <1>2 DEF Learnable, Capturable
<1> QED BY <1>1, <1>2

LEMMA Step1 ==
  ASSUME IInv, TypeOK', Raised',
         \/ \E r \in Responses, complete, accept \in BOOLEAN : Evaluate(r, complete, accept)
         \/ \E p \in Processes : Review(p) \/ Turn(p) \/ Check(p) \/ CommitFails(p) \/ Crash(p)
  PROVE  IInv'
<1> USE ExperienceAssumption, NoCallIsCall DEF ledger, gateway, Goto, Return
<1>1. ASSUME NEW r \in Responses, NEW complete \in BOOLEAN, NEW accept \in BOOLEAN, Evaluate(r, complete, accept)
      PROVE  IInv'
  <2> DEFINE p == "daemon"
  <2>1. /\ calls' = [calls EXCEPT ![p] = [NoCall EXCEPT !.response = r, !.complete = complete, !.accept = accept,
                         !.at = IF chat # None /\ accept THEN "review" ELSE "turn"]]
        /\ r \in Capturable /\ UNCHANGED <<ledger, gateway, crashes>>
    BY <1>1 DEF Evaluate
  <2>2. p \in Processes /\ calls \in [Processes -> Call]  BY DEF Processes, IInv, TypeOK
  <2>3. calls'[p].at \in {"review", "turn"} /\ calls'[p].response = r /\ calls'[p].raised = {}
    BY <2>1, <2>2 DEF NoCall
  <2>4. Lasting  BY <2>1 DEF Lasting
  <2>5. Known(calls[p].raised)'  BY <2>3 DEF Known
  <2>6. \A q \in Processes \ {p} : calls'[q] = calls[q]  BY <2>1, <2>2
  <2>7. /\ runtime # None => Learnable(runtime.response)'
    BY <2>1 DEF IInv, Learning, Learnable, Capturable, Evaluated
  <2> HIDE DEF p
  <2> QED BY <2>1, <2>2, <2>3, <2>4, <2>5, <2>6, <2>7, Advances DEF IInv, Learning
<1>2. ASSUME NEW p \in Processes, Review(p) \/ CommitFails(p) \/ Crash(p)
      PROVE  IInv'
  <2>1. UNCHANGED <<ledger, gateway>> /\ calls \in [Processes -> Call] /\ calls[p] \in Call
    BY <1>2 DEF Review, CommitFails, Crash, IInv, TypeOK
  <2>2. calls' = [calls EXCEPT ![p] = NoCall] \/ (calls[p].at # "idle" /\ calls' = [calls EXCEPT ![p].at = "turn"])
    BY <1>2 DEF Review, CommitFails, Crash
  <2>3. /\ calls'[p].at = "idle" \/ (calls'[p].at = "turn" /\ calls'[p].response \in Capturable)
        /\ calls'[p].raised = {} \/ calls'[p].raised = calls[p].raised
    BY <2>1, <2>2 DEF Call, IInv, Ours
  <2>4. Lasting  BY <2>1 DEF Lasting
  <2>5. Known(calls[p].raised)'  BY <2>1, <2>3 DEF Known, IInv, Recorded
  <2>6. \A q \in Processes \ {p} : calls'[q] = calls[q]  BY <2>1, <2>2
  <2>7. /\ runtime # None => Learnable(runtime.response)'
    BY <2>1 DEF IInv, Learning, Learnable, Capturable, Evaluated
  <2> QED BY <2>1, <2>3, <2>4, <2>5, <2>6, <2>7, Advances DEF IInv, Learning
<1>3. ASSUME NEW p \in Processes, Turn(p)
      PROVE  IInv'
  <2>1. /\ UNCHANGED <<chat, reviewed, stale, statuses, evaluations, accepted, receipt, gateway>>
        /\ calls \in [Processes -> Call] /\ calls[p] \in Call
        /\ calls' = [calls EXCEPT ![p].at = "govern"] /\ calls[p].at = "turn"
    BY <1>3 DEF Turn, IInv, TypeOK
  <2>3. calls'[p].at = "govern" /\ calls'[p].response \in Capturable /\ calls'[p].raised = calls[p].raised
    BY <2>1 DEF Call, IInv, Ours
  <2>4. \A r \in Responses : captures[r] = "complete" => captures'[r] = "complete"
    BY <1>3 DEF Turn, RecordCapture, IInv, TypeOK
  <2>5. Lasting  BY <2>1, <2>4 DEF Lasting
  <2>6. Known(calls[p].raised)'  BY <2>1, <2>3 DEF Known, IInv, Recorded
  <2>7. \A q \in Processes \ {p} : calls'[q] = calls[q]  BY <2>1
  <2>8. /\ runtime # None => Learnable(runtime.response)'
    BY <2>1, <2>4, ExperienceAssumption DEF IInv, TypeOK, Learning, Learnable, Capturable, Evaluated
  <2> QED BY <2>1, <2>3, <2>5, <2>6, <2>7, <2>8, Advances DEF IInv, Learning
<1>4. ASSUME NEW p \in Processes, Check(p)
      PROVE  IInv'
  <2> DEFINE r == calls[p].response
  <2>1. /\ UNCHANGED <<ledger, gateway>> /\ calls \in [Processes -> Call] /\ calls[p] \in Call /\ calls[p].at = "check"
    BY <1>4 DEF Check, IInv, TypeOK
  <2>2. r \in Capturable /\ Evaluated(r) /\ r \in Responses
    BY <2>1, OursNames DEF IInv, Ours, Named
  <2>3. CASE Return(p)
    <3>1. calls'[p] = NoCall /\ \A q \in Processes \ {p} : calls'[q] = calls[q]  BY <2>1, <2>3
    <3>2. Lasting  BY <2>1 DEF Lasting
    <3>3. Known(calls[p].raised)'  BY <3>1 DEF Known
    <3>4. /\ runtime # None => Learnable(runtime.response)'
      BY <2>1 DEF IInv, Learning, Learnable, Capturable, Evaluated
    <3> QED BY <2>1, <3>1, <3>2, <3>3, <3>4, Advances DEF IInv, Learning
  <2>4. CASE ~Return(p)
    <3>1. /\ captures[r] = "complete" /\ ExperienceAccepted(r) /\ Released(evaluations[r])
          /\ calls' = [calls EXCEPT ![p].at = "commit",
               ![p].dismissed = \E f \in evaluations[r].findings : statuses[f] = "dismissed"]
      BY <1>4, <2>4 DEF Check
    <3>2. calls'[p].at = "commit" /\ calls'[p].response = r /\ calls'[p].raised = calls[p].raised
      BY <2>1, <3>1 DEF Call
    <3>3. evaluations[r].findings \subseteq Findings /\ Known(evaluations[r].findings)
      BY <2>2 DEF IInv, Recorded, TypeOK, Evaluation, Evaluated
    <3>4. \A f \in evaluations[r].findings : statuses[f] \in Resolved
      BY <3>1, <3>3 DEF Released, Open, Known, IInv, TypeOK
    <3>5. Learnable(r)
      BY <2>2, <3>1, <3>4 DEF Learnable, ExperienceAccepted, Capturable
    <3>6. Lasting  BY <2>1 DEF Lasting
    <3>7. Known(calls[p].raised)'  BY <2>1, <3>2 DEF Known, IInv, Recorded
    <3>8. \A q \in Processes \ {p} : calls'[q] = calls[q]  BY <2>1, <3>1
    <3>9. /\ runtime # None => Learnable(runtime.response)'
          /\ Learnable(calls[p].response)' /\ Evaluated(calls[p].response)'
      BY <2>1, <2>2, <3>2, <3>5 DEF IInv, Learning, Learnable, Capturable, Evaluated
    <3> QED BY <2>1, <2>2, <3>2, <3>6, <3>7, <3>8, <3>9, Advances DEF IInv, Learning
  <2> QED BY <2>3, <2>4
<1> QED BY <1>1, <1>2, <1>3, <1>4

LEMMA RuntimeLasts ==
  ASSUME IInv, Lasting, runtime' = runtime, runtime # None
  PROVE  Learnable(runtime.response)'
<1>1. runtime.response \in Responses  BY DEF IInv, TypeOK, Experience
<1>2. PICK r \in Responses : runtime.response = r /\ runtime'.response = r  BY <1>1
<1>3. Learnable(r)'  BY <1>2, Lasts DEF IInv, Learning
<1> QED BY <1>2, <1>3 DEF Learnable, Evaluated, Capturable

LEMMA Step2 ==
  ASSUME IInv, TypeOK', Raised',
         \/ \E p \in Processes : Govern(p) \/ Save(p) \/ Accept(p)
         \/ \E p \in Processes, f \in Findings, status \in Resolved : Resolve(p, f, status)
  PROVE  IInv'
<1> USE ExperienceAssumption, NoneAssumption, NoCallIsCall DEF ledger, gateway, Goto, Return
<1>1. ASSUME NEW p \in Processes, Govern(p)
      PROVE  IInv'
  <2>1. /\ UNCHANGED <<chat, reviewed, captures, evaluations, accepted, receipt, gateway>>
        /\ calls \in [Processes -> Call] /\ calls[p] \in Call /\ calls[p].at = "govern"
    BY <1>1 DEF Govern, IInv, TypeOK
  <2>2. PICK raised : /\ statuses' = [f \in Findings |-> IF f \in raised /\ statuses[f] = "none" THEN "open" ELSE statuses[f]]
                      /\ calls' = [calls EXCEPT ![p].at = "save", ![p].raised = raised]
    BY <1>1 DEF Govern
  <2>3. calls'[p].at = "save" /\ calls'[p].response = calls[p].response /\ calls'[p].raised = raised
    BY <2>1, <2>2 DEF Call
  <2>4. calls'[p].response \in Capturable  BY <2>1, <2>3 DEF IInv, Ours
  <2>5. Lasting  BY <2>1, <2>2 DEF Lasting, Resolved
  <2>6. raised \subseteq Findings  BY <2>3 DEF TypeOK, Call
  <2>7. Known(calls[p].raised)'  BY <2>2, <2>3, <2>6 DEF Known
  <2>8. \A q \in Processes \ {p} : calls'[q] = calls[q]  BY <2>1, <2>2
  <2>9. runtime # None => Learnable(runtime.response)'  BY <2>1, <2>5, RuntimeLasts
  <2> QED BY <2>1, <2>3, <2>4, <2>5, <2>7, <2>8, <2>9, Advances DEF IInv, Learning
<1>2. ASSUME NEW p \in Processes, Save(p)
      PROVE  IInv'
  <2> DEFINE r == calls[p].response
             e == [complete |-> calls[p].complete, findings |-> calls[p].raised]
  <2>1. /\ UNCHANGED <<chat, reviewed, captures, statuses, accepted, receipt, gateway>>
        /\ calls \in [Processes -> Call] /\ calls[p] \in Call /\ calls[p].at = "save"
        /\ evaluations' = [evaluations EXCEPT ![r] = IF @ = None THEN e ELSE @]
        /\ calls' = [calls EXCEPT ![p].at = IF calls[p].accept THEN "accept" ELSE "check",
                                  ![p].raised = {}, ![p].complete = TRUE]
    BY <1>2 DEF Save, StoreEvaluation, IInv, TypeOK
  <2>2. r \in Capturable /\ r \in Responses  BY <2>1, OursNames DEF IInv, Ours, Named
  <2>3. calls'[p].at \in {"accept", "check"} /\ calls'[p].response = r /\ calls'[p].raised = {}
    BY <2>1 DEF Call
  <2>4. e # None /\ e.findings = calls[p].raised  BY <2>1 DEF Call, Evaluation
  <2>5. Lasting  BY <2>1 DEF Lasting, Evaluated, IInv, TypeOK
  <2>6. evaluations'[r] # None  BY <2>1, <2>2, <2>4 DEF IInv, TypeOK
  <2>7. ASSUME NEW q \in Responses, evaluations'[q] # evaluations[q]
        PROVE  q \in Capturable /\ Known(evaluations[q].findings)'
    <3>1. q = r /\ evaluations'[q] = e  BY <2>1, <2>7 DEF IInv, TypeOK
    <3>2. Known(e.findings)  BY <2>4 DEF IInv, Recorded
    <3> QED BY <2>1, <2>2, <3>1, <3>2 DEF Known
  <2>8. Known(calls[p].raised)'  BY <2>3 DEF Known
  <2>9. \A q \in Processes \ {p} : calls'[q] = calls[q]  BY <2>1
  <2>10. Evaluated(calls[p].response)'  BY <2>3, <2>6 DEF Evaluated
  <2>11. runtime # None => Learnable(runtime.response)'  BY <2>1, <2>5, RuntimeLasts
  <2> QED BY <2>1, <2>2, <2>3, <2>5, <2>7, <2>8, <2>9, <2>10, <2>11, Advances DEF IInv, Learning
<1>3. ASSUME NEW p \in Processes, Accept(p)
      PROVE  IInv'
  <2> DEFINE r == calls[p].response
  <2>1. /\ UNCHANGED <<chat, captures, statuses, evaluations, receipt, gateway>>
        /\ calls \in [Processes -> Call] /\ calls[p] \in Call /\ calls[p].at = "accept"
        /\ \/ accepted \in {None, r} /\ accepted' = r /\ (reviewed => reviewed')
              /\ calls' = [calls EXCEPT ![p].at = "check"]
           \/ calls' = [calls EXCEPT ![p] = NoCall] /\ UNCHANGED <<accepted, reviewed>>
    BY <1>3 DEF Accept, Acceptable, IInv, TypeOK
  <2>2. r \in Capturable /\ Evaluated(r) /\ r \in Responses
    BY <2>1, OursNames DEF IInv, Ours, Named
  <2>3. /\ calls'[p].at = "idle" \/ (calls'[p].at = "check" /\ calls'[p].response = r)
        /\ calls'[p].raised = {} \/ calls'[p].raised = calls[p].raised
    BY <2>1 DEF Call
  <2>4. Lasting  BY <2>1 DEF Lasting
  <2>5. Known(calls[p].raised)'  BY <2>1, <2>3 DEF Known, IInv, Recorded
  <2>6. \A q \in Processes \ {p} : calls'[q] = calls[q]  BY <2>1
  <2>7. calls'[p].at = "check" => Evaluated(calls[p].response)'  BY <2>1, <2>2, <2>3 DEF Evaluated
  <2>8. runtime # None => Learnable(runtime.response)'  BY <2>1, <2>4, RuntimeLasts
  <2>9. accepted' # accepted => accepted' \in Capturable  BY <2>1, <2>2
  <2> QED BY <2>1, <2>2, <2>3, <2>4, <2>5, <2>6, <2>7, <2>8, <2>9, Advances DEF IInv, Learning
<1>4. ASSUME NEW p \in Processes, NEW f \in Findings, NEW status \in Resolved, Resolve(p, f, status)
      PROVE  IInv'
  <2>1. PICK r \in Responses :
          /\ UNCHANGED <<chat, reviewed, captures, evaluations, accepted, receipt, gateway>>
          /\ calls \in [Processes -> Call] /\ calls[p] = NoCall
          /\ statuses[f] # "none" /\ statuses' = [statuses EXCEPT ![f] = status]
          /\ calls' = [calls EXCEPT ![p] = IF evaluations[r] = None THEN NoCall
                                           ELSE [NoCall EXCEPT !.at = "check", !.response = r]]
    <3> DEFINE r == CHOOSE q \in Responses : f \in FindingsOn[q]
    <3>1. statuses[f] # "none"  BY <1>4 DEF Resolve
    <3>2. r \in Responses  BY <3>1 DEF IInv, Raised
    <3> HIDE DEF r
    <3>3. calls' = [calls EXCEPT ![p] = IF evaluations[r] = None THEN NoCall
                                        ELSE [NoCall EXCEPT !.at = "check", !.response = r]]
      BY <1>4 DEF Resolve, r
    <3> QED BY <1>4, <3>1, <3>2, <3>3 DEF Resolve, IInv, TypeOK
  <2>2. /\ calls'[p].raised = {}
        /\ calls'[p].at = "idle" \/ (calls'[p].at = "check" /\ calls'[p].response = r /\ Evaluated(r))
    BY <2>1 DEF NoCall, Evaluated
  <2>3. Lasting  BY <2>1 DEF Lasting, Resolved, IInv, TypeOK
  <2>4. Known(calls[p].raised)'  BY <2>2 DEF Known
  <2>5. \A q \in Processes \ {p} : calls'[q] = calls[q]  BY <2>1
  <2>6. calls'[p].at = "check" => Evaluated(calls[p].response)' /\ calls'[p].response \in Capturable
    BY <2>1, <2>2 DEF Evaluated, IInv, Ours
  <2>7. runtime # None => Learnable(runtime.response)'  BY <2>1, <2>3, RuntimeLasts
  <2> QED BY <2>1, <2>2, <2>3, <2>4, <2>5, <2>6, <2>7, Advances DEF IInv, Learning
<1> QED BY <1>1, <1>2, <1>3, <1>4

LEMMA Step3 ==
  ASSUME IInv, TypeOK', Raised', \E p \in Processes : Commit(p) \/ Record(p)
  PROVE  IInv'
<1> USE ExperienceAssumption, NoneAssumption, NoCallIsCall DEF ledger, Goto, Return
<1>1. ASSUME NEW p \in Processes, Commit(p)
      PROVE  IInv'
  <2> DEFINE r == calls[p].response
  <2>1. /\ UNCHANGED ledger /\ calls \in [Processes -> Call] /\ calls[p] \in Call /\ calls[p].at = "commit"
        /\ ApplyOnce([response |-> r, dismissed |-> calls[p].dismissed])
        /\ calls' = [calls EXCEPT ![p].at = "record"] \/ calls' = [calls EXCEPT ![p] = NoCall]
    BY <1>1 DEF Commit, IInv, TypeOK
  <2>2. r \in Capturable /\ Evaluated(r) /\ r \in Responses /\ Learnable(r)
    BY <2>1, OursNames DEF IInv, Ours, Named, Learning
  <2>3. Lasting  BY <2>1 DEF Lasting
  <2>4. [response |-> r, dismissed |-> calls[p].dismissed] # None
    BY <2>1, <2>2 DEF Call, Experience
  <2>5. /\ runtime' # None /\ runtime'.response = r /\ applied' = 1
        /\ runtime # None => runtime' = runtime
    <3>1. CASE runtime = None  BY <2>1, <2>4, <3>1 DEF ApplyOnce, IInv, Learning
    <3>2. CASE runtime # None
      BY <2>1, <2>2, <3>2, OneLearnable DEF ApplyOnce, IInv, Learning
    <3> QED BY <3>1, <3>2
  <2>6. /\ calls'[p].at = "idle" \/ (calls'[p].at = "record" /\ calls'[p].response = r)
        /\ calls'[p].raised = {} \/ calls'[p].raised = calls[p].raised
    BY <2>1 DEF Call
  <2>7. Known(calls[p].raised)'  BY <2>1, <2>6 DEF Known, IInv, Recorded
  <2>8. \A q \in Processes \ {p} : calls'[q] = calls[q]  BY <2>1
  <2>9. /\ Learnable(runtime.response)'
        /\ calls'[p].at = "record" => Learnable(calls[p].response)' /\ Evaluated(calls[p].response)'
    BY <2>1, <2>2, <2>5, <2>6 DEF Learnable, Evaluated, Capturable
  <2> QED BY <2>1, <2>2, <2>3, <2>5, <2>6, <2>7, <2>8, <2>9, Advances DEF IInv, Learning
<1>2. ASSUME NEW p \in Processes, Record(p)
      PROVE  IInv'
  <2>1. /\ UNCHANGED <<chat, reviewed, captures, statuses, evaluations, accepted, gateway>>
        /\ calls \in [Processes -> Call] /\ calls[p].at = "record"
        /\ receipt' = IF receipt = None THEN calls[p].response ELSE receipt
        /\ calls' = [calls EXCEPT ![p] = NoCall]
    BY <1>2 DEF Record, IInv, TypeOK
  <2>2. UNCHANGED <<runtime, applied>>  BY <2>1 DEF gateway
  <2>3. runtime # None /\ receipt' = runtime.response  BY <2>1 DEF IInv, Learning
  <2>4. calls'[p] = NoCall /\ \A q \in Processes \ {p} : calls'[q] = calls[q]  BY <2>1
  <2>5. Lasting  BY <2>1 DEF Lasting
  <2>6. Known(calls[p].raised)'  BY <2>4 DEF Known
  <2>7. Learnable(runtime.response)'  BY <2>2, <2>3, <2>5, RuntimeLasts
  <2> QED BY <2>1, <2>2, <2>3, <2>4, <2>5, <2>6, <2>7, Advances DEF IInv, Learning
<1> QED BY <1>1, <1>2

LEMMA NextHolds == IInv /\ [Next]_vars => IInv'
<1> SUFFICES ASSUME IInv, [Next]_vars PROVE IInv'  OBVIOUS
<1>1. TypeOK' /\ Raised'  BY TypesStep, OursNames DEF IInv
<1>2. CASE StateMoves \/ UNCHANGED vars
  <2>1. UNCHANGED <<chat, reviewed, captures, statuses, evaluations, accepted, receipt, runtime, applied, calls>>
    BY <1>2 DEF StateMoves, vars, ledger, gateway
  <2> QED BY <1>1, <2>1 DEF IInv, Ours, Recorded, Learning, Learnable, Evaluated, Known, Capturable
<1> QED BY <1>1, <1>2, Step1, Step2, Step3 DEF Next, Step

-----------------------------------------------------------------------------
(* Theorems *)

LEMMA Always == Spec => []IInv
  BY InitHolds, NextHolds, PTL DEF Spec

\* Every variable of the experience path keeps its type.
THEOREM TypeCorrect == Spec => []TypeOK
<1>1. IInv => TypeOK  BY DEF IInv
<1> QED BY <1>1, Always, PTL

\* "One experience per sent turn, even if the provider recaptures/regenerates a
\* response", with two processes committing the same turn, lost replies and
\* stops (commit_captured_exchange).
THEOREM OneExperience == Spec => []OneExperiencePerSentTurn
<1>1. IInv => OneExperiencePerSentTurn  BY DEF IInv, Learning, OneExperiencePerSentTurn
<1> QED BY <1>1, Always, PTL

\* "Evaluation is observation, never owner consent": what the runtime learns was
\* accepted, is complete and has no open finding in its evaluation on record
\* (evaluate_turn, accept_response_for_experience).
THEOREM OnlyAccepted == Spec => []OnlyAcceptedIsLearned
<1>1. IInv => OnlyAcceptedIsLearned
  BY DEF IInv, Learning, Learnable, OnlyAcceptedIsLearned, Open, Resolved
<1> QED BY <1>1, Always, PTL
=============================================================================

----------------------------- MODULE Experience -----------------------------
(***************************************************************************)
(* From a captured response to one committed experience                    *)
(* (evaluate_turn in crates/assistd/src/lib.rs, crates/assistd/src/        *)
(* experience.rs, and their tables in crates/persistence), for one sent    *)
(* turn.  Sent turns do not share rows or runtime keys, so one is enough.  *)
(*                                                                         *)
(* The daemon evaluates, accepts and resolves, one call at a time under    *)
(* the project and store mutexes.  The desktop process resolves findings   *)
(* through the same code on a connection of its own, so its statements     *)
(* fall between the daemon's.  Each statement is a step; either process    *)
(* may stop between two.  The gateway may be unreachable, fail, or apply   *)
(* a commit whose reply is lost.                                           *)
(*                                                                         *)
(* A turn sent by the chat has one response, that of its exchange; a turn  *)
(* sent by the extension may be answered again by a regenerated response.  *)
(***************************************************************************)
EXTENDS Naturals, FiniteSets

CONSTANTS
  Responses,    \* response turns; each names its evaluation
  Findings,     \* governance findings
  FindingsOn,   \* function: the findings full governance has on each response
  Native,       \* the findings raised without the gateway
  None,
  Frozen,       \* the gateway runs in shadow or authoritative mode
  MaxCrashes    \* bound: how often a process stops

ASSUME ExperienceAssumption ==
  /\ FindingsOn \in [Responses -> SUBSET Findings]
  /\ Native \subseteq Findings
  /\ \A r, q \in Responses : r # q => FindingsOn[r] \cap FindingsOn[q] = {}
  /\ None \notin Responses
  /\ Frozen \in BOOLEAN
  /\ MaxCrashes \in Nat

VARIABLES
  chat,         \* the response of the chat exchange; None: sent by the extension
  reviewed,     \* provider_exchanges.accepted_review of that exchange
  stale,        \* the state moved past the version of the turn's packet
  moved,        \* the runtime is past the checkpoint of the turn's packet
  captures,     \* completeness of each recorded response turn
  statuses,     \* interventions
  evaluations,  \* response_evaluations
  accepted,     \* experience_acceptances of the sent turn
  receipt,      \* runtime_commit_receipts of the sent turn
  runtime,      \* what the gateway committed under the sent turn's key
  applied,      \* how often it applied an experience for it
  calls,        \* the call each process is in
  crashes

ledger == <<chat, reviewed, stale, captures, statuses, evaluations, accepted, receipt>>
gateway == <<moved, runtime, applied>>
vars   == <<ledger, gateway, calls, crashes>>

-----------------------------------------------------------------------------
(* Data *)

Processes  == {"daemon", "desktop"}
\* What the views let a user make of a finding (App.tsx, Chat.tsx); settled is
\* accepted or false_positive.  The commands behind them take any status.
Resolved   == {"settled", "dismissed"}
Evaluation == [complete : BOOLEAN, findings : SUBSET Findings]
Experience == [response : Responses, dismissed : BOOLEAN]

ASSUME NoneAssumption == None \notin Evaluation \cup Experience

Call == [at : {"idle", "review", "turn", "govern", "save", "accept", "check",
               "commit", "record"},
         response : Responses \cup {None}, complete : BOOLEAN, accept : BOOLEAN,
         raised : SUBSET Findings, dismissed : BOOLEAN]

NoCall == [at |-> "idle", response |-> None, complete |-> TRUE, accept |-> FALSE,
           raised |-> {}, dismissed |-> FALSE]

\* Responses a client captures for this turn.
Capturable == IF chat = None THEN Responses ELSE {chat}

Open(f) == statuses[f] \in {"none", "open"}

\* A turn just sent, or one whose reviewed response an older version of the
\* program left uncommitted, without a row in experience_acceptances.  Since its
\* packet was prepared another exchange may have been committed to the runtime;
\* only a frozen analysis cares.
Init ==
  /\ stale = FALSE
  /\ moved \in IF Frozen THEN BOOLEAN ELSE {FALSE}
  /\ chat \in Responses \cup {None}
  /\ reviewed \in IF chat = None THEN {FALSE} ELSE BOOLEAN
  /\ LET Older(r) == reviewed /\ r = chat IN
     /\ captures = [r \in Responses |-> IF Older(r) THEN "complete" ELSE "none"]
     /\ statuses = [f \in Findings |->
          IF \E r \in Responses : Older(r) /\ f \in FindingsOn[r] THEN "settled" ELSE "none"]
     /\ evaluations = [r \in Responses |->
          IF Older(r) THEN [complete |-> TRUE, findings |-> FindingsOn[r]] ELSE None]
  /\ accepted    = None
  /\ receipt     = None
  /\ runtime     = None
  /\ applied     = 0
  /\ calls       = [p \in Processes |-> NoCall]
  /\ crashes     = 0

-----------------------------------------------------------------------------
(* Calls *)

Goto(p, at) == calls' = [calls EXCEPT ![p].at = at]
Return(p)   == calls' = [calls EXCEPT ![p] = NoCall]

\* conversation_evaluate, or response.evaluate of the extension.  Only a
\* protocol client reports an incomplete capture; the chat never does.
Evaluate(r, complete, accept) ==
  /\ calls["daemon"] = NoCall
  /\ r \in Capturable
  /\ chat # None => complete
  /\ calls' = [calls EXCEPT !["daemon"] =
                 [NoCall EXCEPT !.response = r, !.complete = complete, !.accept = accept,
                    !.at = IF chat # None /\ accept THEN "review" ELSE "turn"]]
  /\ UNCHANGED <<ledger, gateway, crashes>>

\* The chat asks for its response's open findings before it evaluates again.
Review(p) ==
  /\ calls[p].at = "review"
  /\ IF \E f \in FindingsOn[calls[p].response] : statuses[f] = "open"
     THEN Return(p) ELSE Goto(p, "turn")
  /\ UNCHANGED <<ledger, gateway, crashes>>

\* record_turn: INSERT OR IGNORE.
RecordCapture(r, complete) ==
  captures' = [captures EXCEPT ![r] =
                 IF @ # "none" THEN @ ELSE IF complete THEN "complete" ELSE "incomplete"]

Turn(p) ==
  /\ calls[p].at = "turn"
  /\ RecordCapture(calls[p].response, calls[p].complete)
  /\ Goto(p, "govern")
  /\ UNCHANGED <<chat, reviewed, stale, statuses, evaluations, accepted, receipt,
                 gateway, crashes>>

\* Governance: nothing for an incomplete response or a stale packet, native
\* rules while the gateway is down, all findings with it.  A known finding keeps
\* its status.
Govern(p) ==
  LET on == FindingsOn[calls[p].response] IN
  /\ calls[p].at = "govern"
  /\ \E raised \in IF calls[p].complete /\ ~stale THEN {on \cap Native, on} ELSE {{}} :
       /\ statuses' = [f \in Findings |->
                         IF f \in raised /\ statuses[f] = "none" THEN "open"
                         ELSE statuses[f]]
       /\ calls' = [calls EXCEPT ![p].at = "save", ![p].raised = raised]
  /\ UNCHANGED <<chat, reviewed, stale, captures, evaluations, accepted, receipt,
                 gateway, crashes>>

\* record_response_evaluation: INSERT OR IGNORE, the first one stays.
StoreEvaluation(r, e) ==
  evaluations' = [evaluations EXCEPT ![r] = IF @ = None THEN e ELSE @]

Save(p) ==
  /\ calls[p].at = "save"
  /\ StoreEvaluation(calls[p].response,
                     [complete |-> calls[p].complete, findings |-> calls[p].raised])
  /\ calls' = [calls EXCEPT ![p].at = IF calls[p].accept THEN "accept" ELSE "check",
                            ![p].raised = {}, ![p].complete = TRUE]
  /\ UNCHANGED <<chat, reviewed, stale, captures, statuses, accepted, receipt,
                 gateway, crashes>>

\* The stored evaluation's findings are resolved, it and its turn are
\* complete, and no other response of this turn is accepted.
Acceptable(r) ==
  /\ \A f \in evaluations[r].findings : ~Open(f)
  /\ evaluations[r].complete /\ captures[r] = "complete"
  /\ accepted \in {None, r}

\* accept_response_for_experience, one transaction.
Accept(p) ==
  LET r == calls[p].response IN
  /\ calls[p].at = "accept"
  /\ IF Acceptable(r)
     THEN accepted' = r /\ reviewed' = (reviewed \/ chat = r) /\ Goto(p, "check")
     ELSE Return(p) /\ UNCHANGED <<accepted, reviewed>>
  /\ UNCHANGED <<chat, stale, captures, statuses, evaluations, receipt, gateway,
                 crashes>>

-----------------------------------------------------------------------------
(* commit_captured_exchange *)

\* Mutant: an evaluation commits without acceptance.
Consented(r) == TRUE

\* response_experience_accepted: the acceptance of this evaluation, or the
\* exchange's older accepted_review flag.
ExperienceAccepted(r) == accepted = r \/ (chat # None /\ reviewed)

Released(e) == \A f \in e.findings : ~Open(f)

\* Everything is read again; a receipt, a missing acceptance or an open
\* finding ends the call.
Check(p) ==
  LET r == calls[p].response
      e == evaluations[r] IN
  /\ calls[p].at = "check"
  /\ IF /\ e.complete /\ captures[r] = "complete"
        /\ receipt = None
        /\ ExperienceAccepted(r)
        /\ Released(e)
     THEN calls' = [calls EXCEPT ![p].at = "commit",
            ![p].dismissed = \E f \in e.findings : statuses[f] = "dismissed"]
     ELSE Return(p)
  /\ UNCHANGED <<ledger, gateway, crashes>>

\* Mutant: the gateway does not know the key.
ApplyAgain(x) == runtime' = x /\ applied' = applied + 1

\* Mutant: the gateway refuses a key it knows.
ApplyUnlessKnown(x) == runtime = None /\ runtime' = x /\ applied' = applied + 1

\* The gateway keeps one commit per idempotency key and answers with it.
ApplyOnce(x) ==
  IF runtime = None THEN runtime' = x /\ applied' = applied + 1
  ELSE UNCHANGED <<runtime, applied>>

\* validate_frozen_analysis: in shadow and authoritative mode the analysis
\* prepared with the packet counts only at the checkpoint it was prepared at.
Replays == Frozen => ~moved

\* commit_exchange: applied and answered, or applied with the reply lost.
Commit(p) ==
  /\ calls[p].at = "commit"
  /\ runtime = None => Replays
  /\ ApplyOnce([response |-> calls[p].response, dismissed |-> calls[p].dismissed])
  /\ Goto(p, "record") \/ Return(p)
  /\ UNCHANGED <<ledger, moved, crashes>>

\* The gateway is down, or refuses: physics, or a stale analysis.
CommitFails(p) ==
  /\ calls[p].at = "commit"
  /\ Return(p)
  /\ UNCHANGED <<ledger, gateway, crashes>>

\* record_runtime_commit: INSERT OR IGNORE.
Record(p) ==
  /\ calls[p].at = "record"
  /\ receipt' = IF receipt = None THEN calls[p].response ELSE receipt
  /\ Return(p)
  /\ UNCHANGED <<chat, reviewed, stale, captures, statuses, evaluations, accepted,
                 gateway, crashes>>

-----------------------------------------------------------------------------
(* resolve_intervention_with_runtime, in either process, as its views call it *)

Resolve(p, f, status) ==
  LET r == CHOOSE q \in Responses : f \in FindingsOn[q] IN
  /\ calls[p] = NoCall
  /\ statuses[f] # "none"
  /\ statuses' = [statuses EXCEPT ![f] = status]
  /\ calls' = [calls EXCEPT ![p] = IF evaluations[r] = None THEN NoCall
                                   ELSE [NoCall EXCEPT !.at = "check", !.response = r]]
  /\ UNCHANGED <<chat, reviewed, stale, captures, evaluations, accepted, receipt,
                 gateway, crashes>>

\* Another call commits to the project's ledger.
StateMoves ==
  /\ ~stale /\ stale' = TRUE
  /\ UNCHANGED <<chat, reviewed, captures, statuses, evaluations, accepted, receipt,
                 gateway, calls, crashes>>

Crash(p) ==
  /\ crashes < MaxCrashes /\ calls[p] # NoCall
  /\ crashes' = crashes + 1
  /\ Return(p)
  /\ UNCHANGED <<ledger, gateway>>

-----------------------------------------------------------------------------

Step(p) ==
  \/ Review(p) \/ Turn(p) \/ Govern(p) \/ Save(p) \/ Accept(p)
  \/ Check(p) \/ Commit(p) \/ CommitFails(p) \/ Record(p)

Next ==
  \/ \E r \in Responses, complete, accept \in BOOLEAN : Evaluate(r, complete, accept)
  \/ \E p \in Processes : Step(p) \/ Crash(p)
  \/ StateMoves
  \/ \E p \in Processes, f \in Findings, status \in Resolved : Resolve(p, f, status)

\* A call goes on.  The user asks again for what is accepted and not yet
\* committed ("Retry governed commit"), and the gateway does not fail forever.
Fairness ==
  /\ \A p \in Processes : WF_vars(Step(p))
  /\ \A r \in Responses : SF_vars(Evaluate(r, TRUE, FALSE))
  /\ SF_vars(Commit("daemon") /\ calls'["daemon"].at = "record")

Spec == Init /\ [][Next]_vars /\ Fairness

-----------------------------------------------------------------------------
(* Properties *)

\* Every variable holds a value of its kind.
TypeOK ==
  /\ chat        \in Responses \cup {None}
  /\ reviewed \in BOOLEAN /\ stale \in BOOLEAN /\ moved \in BOOLEAN
  /\ captures    \in [Responses -> {"none", "complete", "incomplete"}]
  /\ statuses    \in [Findings -> {"none", "open"} \cup Resolved]
  /\ evaluations \in [Responses -> Evaluation \cup {None}]
  /\ accepted    \in Responses \cup {None}
  /\ receipt     \in Responses \cup {None}
  /\ runtime     \in Experience \cup {None}
  /\ applied     \in Nat
  /\ calls       \in [Processes -> Call]
  /\ crashes     \in 0..MaxCrashes

\* "One experience per sent turn, even if the provider recaptures/regenerates a
\* response": at most one is applied, and the ledger's receipt names the very
\* response the runtime learned, whichever process committed, lost the reply
\* or stopped before the receipt.
OneExperiencePerSentTurn ==
  /\ applied <= 1
  /\ receipt # None => runtime # None /\ receipt = runtime.response

\* "Evaluation is observation, never owner consent": the runtime learns only a
\* complete response the user accepted, and no finding of the evaluation on
\* record is open then.
OnlyAcceptedIsLearned ==
  runtime # None =>
    /\ accepted = runtime.response \/ (chat = runtime.response /\ reviewed)
    /\ captures[runtime.response] = "complete"
    /\ \A f \in evaluations[runtime.response].findings : ~Open(f)

\* An accepted response is learned and has its receipt in the end, after
\* unreachable gateways, lost replies and restarts, "retried against the saved
\* response", unless its analysis is frozen and the runtime went past it.
AcceptedIsLearned == (accepted # None /\ ~moved) ~> receipt # None

=============================================================================

----------------------------- MODULE ReplayEngine -----------------------------
(***************************************************************************)
(* The inside of a replay (src/replay/engine.py): how one capability is    *)
(* walked, what a step goes through, what is remembered across steps, and  *)
(* what the caller and the evidence directory are told.                    *)
(*                                                                         *)
(* The application answers as it likes: every look at the page, every      *)
(* action and every check is a choice.  Handing the session over is one    *)
(* step here; Handoff has the inside of it.                                *)
(***************************************************************************)
EXTENDS Naturals, Sequences

CONSTANTS
  Capability,            \* the steps of the capability, in order
  Digests                \* text digests a page can have

ActionKinds == {"navigate", "click", "type", "select", "read", "wait"}
StepSpec == [action : ActionKinds,
             targeted : BOOLEAN,      \* step.target is not None
             credential : BOOLEAN,    \* step.value is a CredentialRef
             declared : BOOLEAN]      \* an output of the capability reads here

ASSUME CapabilityAssumption == Capability \in Seq(StepSpec)
ASSUME DigestsAssumption == Digests # {}

N == Len(Capability)
Steps == 1 .. N
Checkpoint == N + 1
Positions == 1 .. N + 1

DIGEST_VISIBLE_ACTIONS == {"navigate", "click"}
NO_PROGRESS_THRESHOLD == 2

\* What perception publishes, as far as the engine looks at it across steps.
UIState == [digest : Digests, password : BOOLEAN]
NothingSeen == [digest |-> CHOOSE d \in Digests : TRUE, password |-> FALSE]

VARIABLES
  escalation,            \* is a person asked at all (EscalationPolicy.enabled)
  pc,                    \* where the run is
  at,                    \* the position it is at
  retrying,              \* is this the attempt after a handoff
  page,                  \* the last state perceived
  progress,              \* _RunProgress
  recoveries,            \* the Recovery list
  outputs,               \* steps whose output holds a value
  result,                \* the result in hand
  open,                  \* is the browser session to be stopped
  records,               \* step -> lines of trace.jsonl
  written,               \* does result.json exist
  attempts,              \* history: step -> attempts begun
  returned,              \* history: positions a person gave back
  skipped,               \* history: steps a person did by hand
  moves,                 \* history: did the last two navigations or clicks move the page
  login                  \* history: how far the flow has come in signing in

historyVars == <<moves, login>>
progressVars == <<page, progress, historyVars>>
tellingVars == <<recoveries, outputs, result>>
placeVars == <<at, retrying, returned, skipped>>
vars == <<escalation, pc, at, retrying, page, progress, recoveries, outputs, result,
          open, records, written, attempts, returned, skipped, moves, login>>

FailureKinds == {"target_not_found", "action_failed", "expectation_failed",
                 "checkpoint_failed", "policy_halted", "invalid_request", "surface_error"}
Hints == {"none", "auth_expired", "no_progress_n_steps"}

\* Failures a person can do something about.
ESCALATABLE == FailureKinds \ {"invalid_request", "surface_error"}

Pending == [status |-> "none", kind |-> "none", hint |-> "none", recoveries |-> <<>>]
HardFailure(kind, hint) ==
  [Pending EXCEPT !.status = "failure", !.kind = kind, !.hint = hint]
Escaped == [Pending EXCEPT !.status = "escaped"]

\* A run that was answered, with what was recovered from on the way.
Answered(status, list) == [Pending EXCEPT !.status = status, !.recoveries = list]

Attempting == {"request", "open", "look", "guard", "act", "observe"}
Over == {"closing", "writing", "done"}

Recovery == [step : Positions, condition : {"second look", "escalated"}]
Moves == {"none", "moved", "same"}

TypeOK ==
  /\ escalation \in BOOLEAN
  /\ pc \in Attempting \cup {"handoff"} \cup Over
  /\ at \in Positions
  /\ retrying \in BOOLEAN
  /\ page \in UIState
  /\ progress \in [streak : Nat, entered : BOOLEAN, signedIn : BOOLEAN]
  /\ recoveries \in Seq(Recovery)
  /\ outputs \subseteq Steps
  /\ result.status \in {"none", "success", "business", "failure", "escaped"}
  /\ result.kind \in FailureKinds \cup {"none"}
  /\ result.hint \in Hints
  /\ result.recoveries \in Seq(Recovery)
  /\ open \in BOOLEAN /\ written \in BOOLEAN
  /\ records \in [Steps -> Nat] /\ attempts \in [Steps -> Nat]
  /\ returned \subseteq Positions /\ skipped \subseteq Steps
  /\ moves \in [before : Moves, last : Moves]
  /\ login \in {"none", "given", "in"}

Init ==
  /\ escalation \in BOOLEAN
  /\ pc = "request"
  /\ at = 1
  /\ retrying = FALSE
  /\ page = NothingSeen
  /\ progress = [streak |-> 0, entered |-> FALSE, signedIn |-> FALSE]
  /\ recoveries = <<>>
  /\ outputs = {}
  /\ result = Pending
  /\ open = FALSE
  /\ records = [s \in Steps |-> 0]
  /\ written = FALSE
  /\ attempts = [s \in Steps |-> 0]
  /\ returned = {}
  /\ skipped = {}
  /\ moves = [before |-> "none", last |-> "none"]
  /\ login = "none"

Step == Capability[at]

-------------------------------------------------------------------------------
(***************************************************************************)
(* _RunProgress: what is only visible by looking across steps.             *)
(***************************************************************************)
\* The page was seen without a password field after a credential was used.
NoteSignIn(p, state) == [p EXCEPT !.signedIn = @ \/ (p.entered /\ ~state.password)]

\* Variant of Record that counts every action, also one that is not meant to
\* move the page.
RecordEveryAction(p, action, before, after) ==
  LET noted == NoteSignIn(p, after)
  IN  [noted EXCEPT !.streak = IF before.digest = after.digest THEN @ + 1 ELSE 0]

\* Variant of Record that takes typing a password for having signed in.
RecordEntryAsSignIn(p, action, before, after) ==
  LET noted == [p EXCEPT !.signedIn = @ \/ p.entered]
  IN  IF action \notin DIGEST_VISIBLE_ACTIONS THEN noted
      ELSE [noted EXCEPT !.streak = IF before.digest = after.digest THEN @ + 1 ELSE 0]

Record(p, action, before, after) ==
  LET noted == NoteSignIn(p, after)
  IN  IF action \notin DIGEST_VISIBLE_ACTIONS THEN noted
      ELSE [noted EXCEPT !.streak = IF before.digest = after.digest THEN @ + 1 ELSE 0]

\* What the history of the run says is really wrong; the session first.
Hint(p, state) ==
  CASE p.signedIn /\ state.password -> "auth_expired"
    [] ~(p.signedIn /\ state.password) /\ p.streak >= NO_PROGRESS_THRESHOLD
         -> "no_progress_n_steps"
    [] OTHER -> "none"

-------------------------------------------------------------------------------
(***************************************************************************)
(* How an attempt ends.  Every one of these is an exit of _execute_step,   *)
(* so each appends the step's record (the `finally` of _run_step).         *)
(***************************************************************************)
Recorded == records' = [records EXCEPT ![at] = @ + 1]

\* A result the caller gets as it is.
Return(outcome) ==
  /\ result' = outcome
  /\ pc' = "closing"

\* Variant of HandOver that asks again after the retry.
HandOverAgain(failure) == escalation /\ failure.kind \in ESCALATABLE

\* Is this failure handed to a person?  Once per position.
HandOver(failure) == escalation /\ ~retrying /\ failure.kind \in ESCALATABLE

\* A failure of the step or of the checkpoint: help, or the end.
Fail(failure) ==
  /\ result' = failure
  /\ pc' = IF HandOver(failure) THEN "handoff" ELSE "closing"

MoveOn ==
  /\ at' = at + 1
  /\ retrying' = FALSE
  /\ result' = Pending
  /\ pc' = "look"

-------------------------------------------------------------------------------
(***************************************************************************)
(* Before the first step.                                                  *)
(***************************************************************************)
\* A required input without a value ends the run before the session exists.
Validate ==
  /\ pc = "request"
  /\ \/ pc' = "open" /\ UNCHANGED result
     \/ result' = HardFailure("invalid_request", "none") /\ pc' = "writing"
  /\ UNCHANGED <<escalation, placeVars, progressVars, recoveries, outputs, open,
                 records, written, attempts>>

\* Variant of OpenSession with `start` outside the `try`.
OpenSessionUnguarded ==
  /\ pc = "open"
  /\ open' = TRUE
  /\ \/ pc' = "look" /\ UNCHANGED result
     \/ result' = Escaped /\ pc' = "done"
  /\ UNCHANGED <<escalation, placeVars, progressVars, recoveries, outputs,
                 records, written, attempts>>

\* surface.start, goto, settle.  A SurfaceError is a result, a Playwright
\* error is not.
OpenSession ==
  /\ pc = "open"
  /\ open' = TRUE
  /\ \/ pc' = "look" /\ UNCHANGED result
     \/ Return(HardFailure("surface_error", "none"))
     \/ Return(Escaped)
  /\ UNCHANGED <<escalation, placeVars, progressVars, recoveries, outputs,
                 records, written, attempts>>

-------------------------------------------------------------------------------
(***************************************************************************)
(* One step.                                                               *)
(***************************************************************************)
\* Variant of LookForTarget whose early return skips the record.
LookForTargetUnrecorded ==
  /\ pc = "look"
  /\ at \in Steps
  /\ attempts' = [attempts EXCEPT ![at] = @ + 1]
  /\ page' \in UIState
  /\ \/ pc' = "guard" /\ UNCHANGED <<result, recoveries>>
     \/ /\ Step.targeted
        /\ Fail(HardFailure("target_not_found", Hint(progress, page')))
        /\ UNCHANGED recoveries
  /\ UNCHANGED <<escalation, placeVars, progress, historyVars, outputs, open,
                 written, records>>

\* perceive and _resolve_target: found, found after one more settle, or not.
LookForTarget ==
  /\ pc = "look"
  /\ at \in Steps
  /\ attempts' = [attempts EXCEPT ![at] = @ + 1]
  /\ page' \in UIState
  /\ \/ pc' = "guard" /\ UNCHANGED <<result, recoveries, records>>
     \/ /\ Step.targeted
        /\ recoveries' = Append(recoveries, [step |-> at, condition |-> "second look"])
        /\ pc' = "guard"
        /\ UNCHANGED <<result, records>>
     \/ /\ Step.targeted
        /\ Fail(HardFailure("target_not_found", Hint(progress, page')))
        /\ Recorded
        /\ UNCHANGED recoveries
  /\ UNCHANGED <<escalation, placeVars, progress, historyVars, outputs, open, written>>

\* note_credential_used, then the policy's verdict on the bound intent.
CheckPolicy ==
  /\ pc = "guard"
  /\ progress' = [progress EXCEPT !.entered = @ \/ Step.credential]
  /\ \/ pc' = "act" /\ UNCHANGED <<result, records>>
     \/ Fail(HardFailure("policy_halted", "none")) /\ Recorded
  /\ UNCHANGED <<escalation, placeVars, page, historyVars, recoveries, outputs, open,
                 written, attempts>>

\* actions.execute: done (a read has a value, or an empty one), failed, or
\* an error of the surface, which no handoff follows.
Act ==
  /\ pc = "act"
  /\ \/ /\ pc' = "observe"
        /\ login' = IF Step.credential /\ login = "none" THEN "given" ELSE login
        /\ outputs' \in IF Step.action = "read" /\ Step.declared
                          THEN {outputs \cup {at}, outputs \ {at}}
                          ELSE {outputs}
        /\ UNCHANGED <<result, records>>
     \/ /\ Step.action # "wait"
        /\ \/ Fail(HardFailure("action_failed", "none"))
           \/ Return(HardFailure("surface_error", "none"))
        /\ Recorded
        /\ UNCHANGED <<login, outputs>>
  /\ UNCHANGED <<escalation, placeVars, page, progress, moves, recoveries, open, written,
                 attempts>>

\* Variant of Verified that takes any declared read for a good one.
VerifiedByDeclaration == Step.action = "read" => Step.declared

\* A read is good when it returned something; any other step's expectation
\* is the page's to keep.
Verified == Step.action = "read" => at \in outputs

\* Settle, perceive, the run's progress; then a business outcome outranks
\* the expectation.
Observe ==
  /\ pc = "observe"
  /\ page' \in UIState
  /\ progress' = Record(progress, Step.action, page, page')
  /\ moves' = IF Step.action \notin DIGEST_VISIBLE_ACTIONS THEN moves
              ELSE [before |-> moves.last,
                    last |-> IF page'.digest = page.digest THEN "same" ELSE "moved"]
  /\ login' = IF login = "given" /\ ~page'.password THEN "in" ELSE login
  /\ \/ /\ Return(Answered("business", recoveries))
        /\ UNCHANGED <<at, retrying>>
     \/ Verified /\ MoveOn
     \/ /\ ~Verified \/ Step.action # "read"
        /\ Fail(HardFailure("expectation_failed",
                            IF Step.action = "read" THEN "none" ELSE Hint(progress', page')))
        /\ UNCHANGED <<at, retrying>>
  /\ Recorded
  /\ UNCHANGED <<escalation, returned, skipped, recoveries, outputs, open, written, attempts>>

AssertCheckpoint ==
  /\ pc = "look"
  /\ at = Checkpoint
  /\ page' \in UIState
  /\ \/ Return(Answered("success", recoveries))
     \/ Fail(HardFailure("checkpoint_failed", "none"))
  /\ UNCHANGED <<escalation, placeVars, progress, historyVars, recoveries, outputs, open,
                 records, written, attempts>>

\* Looking at a page that went away is a Playwright error: past every handler,
\* through the `finally` clauses, out of the run.
PerceptionRaises ==
  /\ pc \in {"look", "observe"}
  /\ Return(Escaped)
  /\ IF at \in Steps
       THEN /\ Recorded
            /\ attempts' = [attempts EXCEPT ![at] = IF pc = "look" THEN @ + 1 ELSE @]
       ELSE UNCHANGED <<records, attempts>>
  /\ UNCHANGED <<escalation, placeVars, progressVars, recoveries, outputs, open, written>>

-------------------------------------------------------------------------------
(***************************************************************************)
(* The handoff, and the end.                                               *)
(***************************************************************************)
\* The wait timed out: the original failure is the answer.
NobodyCame ==
  /\ pc = "handoff"
  /\ pc' = "closing"
  /\ UNCHANGED <<escalation, placeVars, progressVars, tellingVars, open, records,
                 written, attempts>>

\* A lease that could not be read raises out of the wait.
HandoffRaises ==
  /\ pc = "handoff"
  /\ Return(Escaped)
  /\ UNCHANGED <<escalation, placeVars, progressVars, recoveries, outputs, open, records,
                 written, attempts>>

\* Variant of SessionReturned that heeds the disposition at the checkpoint too.
SessionReturnedAnywhere ==
  /\ pc = "handoff"
  /\ returned' = returned \cup {at}
  /\ recoveries' = Append(recoveries, [step |-> at, condition |-> "escalated"])
  /\ \/ MoveOn /\ skipped' = skipped \cup {at}
     \/ /\ retrying' = TRUE
        /\ result' = Pending
        /\ pc' = "look"
        /\ UNCHANGED <<at, skipped>>
  /\ UNCHANGED <<escalation, page, progress, historyVars, outputs, open, records, written,
                 attempts>>

\* Variant of SessionReturned that reports the retries only.
SessionReturnedReportingRetries ==
  /\ pc = "handoff"
  /\ returned' = returned \cup {at}
  /\ \/ /\ at \in Steps
        /\ MoveOn
        /\ skipped' = skipped \cup {at}
        /\ UNCHANGED <<login, recoveries>>
     \/ /\ recoveries' = Append(recoveries, [step |-> at, condition |-> "escalated"])
        /\ retrying' = TRUE
        /\ result' = Pending
        /\ pc' = "look"
        /\ UNCHANGED <<at, skipped, login>>
  /\ UNCHANGED <<escalation, page, progress, moves, outputs, open, records, written, attempts>>

\* The session came back: the handoff is reported, then the step is left out
\* or tried once more; the checkpoint is only ever tried once more.
SessionReturned ==
  /\ pc = "handoff"
  /\ returned' = returned \cup {at}
  /\ recoveries' = Append(recoveries, [step |-> at, condition |-> "escalated"])
  /\ \/ /\ at \in Steps
        /\ MoveOn
        /\ skipped' = skipped \cup {at}
        /\ login' = IF Step.credential /\ login = "none" THEN "given" ELSE login
     \/ /\ retrying' = TRUE
        /\ result' = Pending
        /\ pc' = "look"
        /\ UNCHANGED <<at, skipped, login>>
  /\ UNCHANGED <<escalation, page, progress, moves, outputs, open, records, written, attempts>>

\* The `finally` of _replay.
StopSurface ==
  /\ pc = "closing"
  /\ open' = FALSE
  /\ pc' = IF result = Escaped THEN "done" ELSE "writing"
  /\ UNCHANGED <<escalation, placeVars, progressVars, tellingVars, records, written, attempts>>

\* evidence.write_result, for a run that returned.
WriteResult ==
  /\ pc = "writing"
  /\ written' = TRUE
  /\ pc' = "done"
  /\ UNCHANGED <<escalation, placeVars, progressVars, tellingVars, open, records, attempts>>

Replay ==
  \/ Validate \/ OpenSession
  \/ LookForTarget \/ CheckPolicy \/ Act \/ Observe \/ AssertCheckpoint
  \/ PerceptionRaises \/ NobodyCame \/ HandoffRaises \/ SessionReturned
  \/ StopSurface \/ WriteResult

Terminated == pc = "done" /\ UNCHANGED vars

Next == Replay \/ Terminated

Spec == Init /\ [][Next]_vars

\* The run's process is scheduled, and a handoff has a deadline.
FairSpec == Spec /\ WF_vars(Replay)

-------------------------------------------------------------------------------
(***************************************************************************)
(* Safety.                                                                 *)
(***************************************************************************)
\* Whichever way a run ends -- a result, a surface that would not start, an
\* exception nobody catches -- the browser it opened has been stopped.
SessionClosed == pc \in {"writing", "done"} => ~open

\* Each attempt at a step leaves exactly one line in trace.jsonl, also one cut
\* short by an exception (the `finally` of _run_step).
EvidenceForEveryAttempt ==
  \A s \in Steps :
    LET underWay == s = at /\ pc \in {"guard", "act", "observe"}
    IN  attempts[s] = records[s] + (IF underWay THEN 1 ELSE 0)

\* Does the list report the handoffs that came back, each once, and no other.
ReportsHandoffs(list) ==
  LET escalated == {i \in DOMAIN list : list[i].condition = "escalated"}
  IN  /\ {list[i].step : i \in escalated} = returned
      /\ \A i, j \in escalated : list[i].step = list[j].step => i = j

\* A run that says how it was answered says where a person helped it: every
\* handoff that came back is reported once, and no other.
HandoffsAreReported ==
  result.status \in {"success", "business"} => ReportsHandoffs(result.recoveries)

\* An operator is sent to sign in again only on a page with a password field,
\* in a flow that had used a credential and then seen such a field go away
\* (_RunProgress: "typing a password is not signing in").
AuthExpiredMeansSignedOut ==
  result.hint = "auth_expired" => login = "in" /\ page.password

\* "The page is not moving" is said only after two navigations or clicks in a
\* row, the latest ones, that left the page's text as it was.
StalledMeansNoVisibleMove ==
  result.hint = "no_progress_n_steps" => moves = [before |-> "same", last |-> "same"]

\* A success lacks the value of a read only if a person did that step by hand.
OutputsOfASuccess ==
  result.status = "success" =>
    \A s \in Steps : Capability[s].action = "read" => s \in outputs \cup skipped

-------------------------------------------------------------------------------
(***************************************************************************)
(* Refinement: the engine keeps the order ReplayContract promises, and     *)
(* ends.                                                                   *)
(***************************************************************************)
Phase ==
  CASE pc \in Over -> "over"
    [] pc = "handoff" -> "stuck"
    [] pc \in Attempting /\ retrying -> "retrying"
    [] pc \in Attempting /\ ~retrying -> "trying"

Contract == INSTANCE ReplayContract WITH
  phase <- Phase,
  outcome <- IF pc \in Over THEN result.status ELSE "none"

KeepsContract == Contract!FairSpec

-------------------------------------------------------------------------------
(***************************************************************************)
(* What the documentation says and the code does not do.                   *)
(***************************************************************************)
\* outcomes.py:13-16: transient slowness and known interstitials are "reported
\* in the result's `recoveries`" on the way "to one of the three outcomes".
RecoveriesAreReported ==
  pc \in Over /\ result # Escaped => result.recoveries = recoveries
===============================================================================

------------------------------ MODULE Discovery ------------------------------
(***************************************************************************)
(* The discovery loop (src/agent/loop.py): observe, decide, guard, act,    *)
(* settle, verify; three attempts at each step; a budget over all of them. *)
(*                                                                         *)
(* An element is named to the planner by a ref, its number in the last     *)
(* snapshot.  The executor finds it again by the number stamped on the     *)
(* live page, and every perceive stamps anew (src/surface/                 *)
(* web_perception.py).  So the model keeps both: the snapshot the attempt  *)
(* was decided on, and the stamps the page carries now -- a page that may  *)
(* change at any moment.                                                   *)
(*                                                                         *)
(* The planner (src/agent/planner.py) is a model that may answer anything; *)
(* an answer that is no intent is sent back once.                          *)
(***************************************************************************)
EXTENDS Policy, FiniteSets, Functions

CONSTANTS
  Pages,                 \* pages the browser can show
  Actions,               \* kinds of action the planner asks for
  MaxSteps               \* Budget.max_steps

\* A page is its text digest, its origin and its elements, in document order.
\* A node of the document may get another name, and belongs to one site.
ASSUME PagesAssumption ==
  /\ \A p \in Pages : DOMAIN p.elements = 1 .. Len(p.elements)
  /\ \A p, q \in Pages : \A d \in Range(p.elements), e \in Range(q.elements) :
       d.node = e.node => p.origin = q.origin
ASSUME MaxStepsAssumption == MaxSteps \in Nat
ASSUME ActionsAssumption == Actions \subseteq ActionKinds

Nothing == [node |-> "nothing", name |-> NoName]
Unseen == "unseen"

ACTIONS_NEEDING_TARGET == {"click", "type", "select", "read"}
DIGEST_VISIBLE_ACTIONS == {"navigate", "click"}

Elements == UNION {Range(p.elements) : p \in Pages}
Digests == {p.digest : p \in Pages}
Origins == {p.origin : p \in Pages}

\* What the planner may name: no element, one of a snapshot, or one that is
\* in none; and for a navigation a place to go.
Refs == {NoRef} \cup UNION {1 .. Len(p.elements) + 1 : p \in Pages}
Intents ==
  {i \in [action : Actions, ref : Refs, destination : Origins \cup {Nowhere}] :
     /\ i.action \notin ACTIONS_NEEDING_TARGET => i.ref = NoRef
     /\ i.action = "navigate" <=> i.destination # Nowhere}

RECOVERY_STAGES == <<"original", "retry", "replan">>
Stages == Range(RECOVERY_STAGES)

VARIABLES
  page,                  \* the page in the browser
  stamped,               \* ref -> the element whose node was given its stamp
  snapshot,              \* state_before of the attempt
  intent,                \* the intent of the attempt
  stage,                 \* the recovery stage of the attempt
  verdict,               \* how the attempt stands
  lastFailure,           \* what the planner will be told
  previousDigest,        \* digest of the last observation, none before it
  previousVisible,       \* was the last action a navigate or a click
  index,                 \* attempts recorded
  trace,                 \* Trace.steps
  pc,                    \* where the loop is
  outcome,               \* Trace.outcome
  expired,               \* have max_seconds passed
  open,                  \* is the browser open
  written,               \* do run.json and summary.md exist
  answers,               \* history: answers the model gave
  hit                    \* history: what the attempt acted on, as it was then

pageVars == <<page, stamped>>
attemptVars == <<snapshot, intent, stage, verdict>>
recoveryVars == <<lastFailure, previousDigest, previousVisible>>
recordVars == <<index, trace>>
runVars == <<outcome, expired, open, written>>
historyVars == <<answers, hit>>
vars == <<pageVars, attemptVars, recoveryVars, recordVars, pc, runVars, historyVars>>

Records ==
  [stage : Stages, action : ActionKinds, digest : Digests, verdict : {"ok", "failed", "halted"}]
Outcomes == {"completed", "halted_policy", "budget_exceeded", "dead_end", "error"}

TypeOK ==
  /\ page \in Pages /\ snapshot \in Pages
  /\ stamped \in {p.elements : p \in Pages}
  /\ intent \in [action : ActionKinds, ref : Refs, destination : Origins \cup {Nowhere}]
  /\ stage \in Stages
  /\ verdict \in {"pending", "ok", "failed", "halted"}
  /\ lastFailure \in {"none", "no-op", "failure"}
  /\ previousDigest \in Digests \cup {Unseen}
  /\ previousVisible \in BOOLEAN
  /\ trace \in Seq(Records) /\ index = Len(trace)
  /\ pc \in {"start", "stage", "observe", "decide", "correct", "guard", "act", "verify",
             "conclude", "closing", "stopping", "over"}
  /\ outcome \in Outcomes \cup {"none"}
  /\ expired \in BOOLEAN /\ open \in BOOLEAN /\ written \in BOOLEAN
  /\ answers \in Nat
  /\ hit \in Elements \cup {Nothing}

Init ==
  /\ page \in Pages
  /\ stamped = page.elements
  /\ snapshot = page
  /\ intent = [action |-> "wait", ref |-> NoRef, destination |-> Nowhere]
  /\ stage = "original"
  /\ verdict = "pending"
  /\ lastFailure = "none"
  /\ previousDigest = Unseen
  /\ previousVisible = FALSE
  /\ index = 0
  /\ trace = <<>>
  /\ pc = "start"
  /\ outcome = "none"
  /\ expired = FALSE
  /\ open = FALSE
  /\ written = FALSE
  /\ answers = 0
  /\ hit = Nothing

-------------------------------------------------------------------------------
\* Variant of Finish in which an error skips the evidence.
FinishUnlessError(result) ==
  /\ outcome' = result
  /\ pc' = IF result = "error" THEN "stopping" ELSE "closing"

\* The loop is left; the `finally` of run_discovery follows.
Finish(result) ==
  /\ outcome' = result
  /\ pc' = "closing"

Start ==
  /\ pc = "start"
  /\ open' = TRUE
  /\ pc' = "stage"
  /\ UNCHANGED <<pageVars, attemptVars, recoveryVars, recordVars, outcome, expired, written,
                 historyVars>>

BudgetExhausted == index >= MaxSteps \/ expired

\* Variant of BeginStage that looks at the budget between steps only.
BeginStageBetweenSteps ==
  /\ pc = "stage"
  /\ IF BudgetExhausted /\ stage = "original"
       THEN Finish("budget_exceeded")
       ELSE pc' = (IF stage = "retry" THEN "guard" ELSE "observe") /\ UNCHANGED outcome
  /\ verdict' = "pending"
  /\ hit' = Nothing
  /\ UNCHANGED <<pageVars, snapshot, intent, stage, recoveryVars, recordVars, expired, open,
                 written, answers>>

\* Variant of BeginStage that skips a step it has no budget for.
BeginStageWithoutStop ==
  /\ pc = "stage"
  /\ pc' = IF BudgetExhausted THEN "stage"
           ELSE IF stage = "retry" THEN "guard" ELSE "observe"
  /\ verdict' = "pending"
  /\ hit' = Nothing
  /\ UNCHANGED <<pageVars, snapshot, intent, stage, recoveryVars, recordVars, runVars, answers>>

\* Each attempt is paid for before it starts.  A retry keeps the snapshot and
\* the intent of the original; the other two observe and decide.
BeginStage ==
  /\ pc = "stage"
  /\ IF BudgetExhausted
       THEN Finish("budget_exceeded")
       ELSE pc' = (IF stage = "retry" THEN "guard" ELSE "observe") /\ UNCHANGED outcome
  /\ verdict' = "pending"
  /\ hit' = Nothing
  /\ UNCHANGED <<pageVars, snapshot, intent, stage, recoveryVars, recordVars, expired, open,
                 written, answers>>

\* _check_no_op
NoOp == previousVisible /\ previousDigest = page.digest

\* Variant of Observe in which a replan decides on the snapshot it has.
ObserveOnce ==
  /\ pc = "observe"
  /\ stamped' = IF stage = "replan" THEN stamped ELSE page.elements
  /\ snapshot' = IF stage = "replan" THEN snapshot ELSE page
  /\ lastFailure' = IF NoOp THEN "no-op" ELSE lastFailure
  /\ previousDigest' = page.digest
  /\ pc' = "decide"
  /\ UNCHANGED <<page, intent, stage, verdict, previousVisible, recordVars, runVars, historyVars>>

\* perceive stamps the page anew; a page that looks as it did before the last
\* navigate or click replaces whatever the planner would have been told.
Observe ==
  /\ pc = "observe"
  /\ stamped' = page.elements
  /\ snapshot' = page
  /\ lastFailure' = IF NoOp THEN "no-op" ELSE lastFailure
  /\ previousDigest' = page.digest
  /\ pc' = "decide"
  /\ UNCHANGED <<page, intent, stage, verdict, previousVisible, recordVars, runVars, historyVars>>

\* The model answers with a well-formed intent, at once or when corrected.
Decide ==
  /\ pc \in {"decide", "correct"}
  /\ intent' \in Intents
  /\ answers' = answers + 1
  /\ pc' = "guard"
  /\ UNCHANGED <<pageVars, snapshot, stage, verdict, recoveryVars, recordVars, runVars, hit>>

\* Variant of AnswerIsNoIntent that corrects until the answer is one.
AnswerIsNoIntentAgain ==
  /\ pc \in {"decide", "correct"}
  /\ answers < 3 * MaxSteps
  /\ answers' = answers + 1
  /\ pc' = "correct"
  /\ UNCHANGED <<pageVars, attemptVars, recoveryVars, recordVars, runVars, hit>>

\* An answer that is no intent is sent back with the reason, once: the second
\* such answer is a PlannerError, as is a request that fails (Raises).
AnswerIsNoIntent ==
  /\ pc = "decide"
  /\ answers' = answers + 1
  /\ pc' = "correct"
  /\ UNCHANGED <<pageVars, attemptVars, recoveryVars, recordVars, runVars, hit>>

\* Policy.check, on the snapshot the intent was decided on.
Guard ==
  /\ pc = "guard"
  /\ \/ Allowed(intent, snapshot) /\ pc' = "act" /\ UNCHANGED verdict
     \/ ~Allowed(intent, snapshot) /\ pc' = "conclude" /\ verdict' = "halted"
  /\ UNCHANGED <<pageVars, snapshot, intent, stage, recoveryVars, recordVars, runVars,
                 historyVars>>

NeedsTarget == intent.action \in ACTIONS_NEEDING_TARGET

\* Elements of the page whose node carries the intent's number: a node keeps it
\* when it gets another name.
Carriers ==
  {e \in Range(page.elements) :
     intent.ref \in DOMAIN stamped /\ e.node = stamped[intent.ref].node}

\* The one there is, as it is now.
Live == IF Carriers = {} THEN Nothing ELSE CHOOSE e \in Carriers : TRUE

\* Is there something to act on: a ref of the snapshot, an element behind it.
Resolved ==
  NeedsTarget => intent.ref \in DOMAIN snapshot.elements /\ Live # Nothing

ActFails ==
  /\ pc = "act"
  /\ ~Resolved
  /\ verdict' = "failed"
  /\ pc' = "conclude"
  /\ UNCHANGED <<pageVars, snapshot, intent, stage, recoveryVars, recordVars, runVars,
                 historyVars>>

\* The action runs: the page becomes any page, or stays, for an action that
\* changes nothing; and it reports success or a failure.
Act ==
  /\ pc = "act"
  /\ Resolved
  /\ hit' = IF NeedsTarget THEN Live ELSE Nothing
  /\ page' \in IF intent.action \in {"read", "wait", "done"} THEN {page} ELSE Pages
  /\ \/ pc' = "verify" /\ UNCHANGED verdict
     \/ verdict' = "failed" /\ pc' = "conclude"
  /\ UNCHANGED <<stamped, snapshot, intent, stage, recoveryVars, recordVars, runVars, answers>>

\* The expectation is checked on a fresh perception -- which stamps.
Verify ==
  /\ pc = "verify"
  /\ stamped' = page.elements
  /\ verdict' \in {"ok", "failed"}
  /\ pc' = "conclude"
  /\ UNCHANGED <<page, snapshot, intent, stage, recoveryVars, recordVars, runVars, historyVars>>

\* Variant of NextStage that keeps retrying.
NextStageAgain(s) == IF s = "original" THEN "retry" ELSE s

NextStage(s) == IF s = "original" THEN "retry" ELSE "replan"

\* Variant of IsDone that takes the planner's word.
IsDoneOnItsWord == intent.action = "done"

IsDone == intent.action = "done" /\ verdict = "ok"

\* Variant of Counted for which only an attempt that worked counts.
CountedOnSuccess == index' = IF verdict = "ok" THEN index + 1 ELSE index

Counted == index' = index + 1

\* Variant of Forget that keeps the failure of a step that was then done.
ForgetNothing == UNCHANGED lastFailure

\* What a step's attempts failed with is no business of the next step.
Forget == lastFailure' = "none"

\* The attempt is recorded, and decides what comes next.
Conclude ==
  /\ pc = "conclude"
  /\ trace' = Append(trace, [stage |-> stage, action |-> intent.action,
                             digest |-> snapshot.digest, verdict |-> verdict])
  /\ Counted
  /\ previousVisible' = (intent.action \in DIGEST_VISIBLE_ACTIONS)
  /\ \/ /\ verdict = "halted"
        /\ Finish("halted_policy")
        /\ UNCHANGED <<stage, lastFailure>>
     \/ /\ verdict # "halted"
        /\ IsDone
        /\ Finish("completed")
        /\ UNCHANGED <<stage, lastFailure>>
     \/ /\ verdict = "ok"
        /\ ~IsDone
        /\ stage' = "original"
        /\ Forget
        /\ pc' = "stage"
        /\ UNCHANGED outcome
     \/ /\ verdict = "failed"
        /\ ~IsDone
        /\ lastFailure' = "failure"
        /\ stage' = NextStage(stage)
        /\ IF stage = "replan" THEN Finish("dead_end") ELSE pc' = "stage" /\ UNCHANGED outcome
  /\ UNCHANGED <<pageVars, snapshot, intent, verdict, previousDigest, expired, open, written,
                 historyVars>>

\* A browser that will not start, a page that went away, a planner without a
\* valid answer, evidence that cannot be written: the run ends in an error.
Raises ==
  /\ pc \in {"start", "observe", "decide", "correct", "act", "verify", "conclude"}
  /\ Finish("error")
  /\ open' = TRUE
  /\ UNCHANGED <<pageVars, attemptVars, recoveryVars, recordVars, expired, written, historyVars>>

\* The `finally`: evidence first, then the browser.  Evidence that cannot be
\* written raises out of run_discovery, past surface.stop.
WriteRun ==
  /\ pc = "closing"
  /\ \/ written' = TRUE /\ pc' = "stopping"
     \/ pc' = "over" /\ UNCHANGED written
  /\ UNCHANGED <<pageVars, attemptVars, recoveryVars, recordVars, outcome, expired, open,
                 historyVars>>

StopSurface ==
  /\ pc = "stopping"
  /\ open' = FALSE
  /\ pc' = "over"
  /\ UNCHANGED <<pageVars, attemptVars, recoveryVars, recordVars, outcome, expired, written,
                 historyVars>>

RunDiscovery ==
  \/ Start \/ BeginStage \/ Observe \/ Decide \/ AnswerIsNoIntent \/ Guard \/ ActFails \/ Act
  \/ Verify \/ Conclude \/ Raises \/ WriteRun \/ StopSurface

\* time.monotonic() reaches max_seconds.
ClockRunsOut ==
  /\ ~expired
  /\ pc # "over"
  /\ expired' = TRUE
  /\ UNCHANGED <<pageVars, attemptVars, recoveryVars, recordVars, pc, outcome, open, written,
                 historyVars>>

\* A late answer, a timer, a redirect: the page changes while the run waits
\* for the model, or between two of its own calls.
PageMoves ==
  /\ open
  /\ pc \in {"observe", "decide", "correct", "guard", "act", "verify"}
  /\ page' \in Pages
  /\ UNCHANGED <<stamped, attemptVars, recoveryVars, recordVars, pc, runVars, historyVars>>

Terminated == pc = "over" /\ UNCHANGED vars

Next == RunDiscovery \/ ClockRunsOut \/ PageMoves \/ Terminated

Spec == Init /\ [][Next]_vars

\* The loop's process is scheduled and the model service answers or fails.
FairSpec == Spec /\ WF_vars(RunDiscovery)

-------------------------------------------------------------------------------
(***************************************************************************)
(* Safety and liveness.                                                    *)
(***************************************************************************)
Failed(i) == trace[i].verdict = "failed"

\* At each step there is an original attempt, after its failure one retry of
\* the same action, after that one's failure one replan; whatever succeeds
\* starts the next step, and after a halt or a verified `done` nothing does.
AttemptsFollowRecovery ==
  \A i \in DOMAIN trace :
    CASE trace[i].stage = "original" -> i = 1 \/ trace[i - 1].verdict = "ok"
      [] trace[i].stage = "retry" ->
           /\ i > 1 /\ Failed(i - 1)
           /\ trace[i - 1].stage = "original"
           /\ trace[i - 1].action = trace[i].action
      [] trace[i].stage = "replan" ->
           i > 1 /\ Failed(i - 1) /\ trace[i - 1].stage = "retry"

\* A run is reported completed exactly when its last attempt declared `done`
\* and what it claimed was seen on the page.
CompletedMeansVerified ==
  LET Done(r) == r.action = "done" /\ r.verdict = "ok"
  IN  /\ \A i \in DOMAIN trace : Done(trace[i]) => i = Len(trace) /\ pc # "stage"
      /\ outcome = "completed" => Len(trace) > 0 /\ Done(trace[Len(trace)])

\* A run that has its trace in hand with the browser stopped has an outcome
\* and its evidence on disk: an error in between loses neither.
StoppedRunIsRecorded ==
  pc = "over" /\ ~open => outcome # "none" /\ written

\* The planner is told of a failure when the last attempt failed, of none that
\* was overcome, and that nothing moved only when the last navigate or click
\* was made from what looked as the page looks now.
ToldOfTheLastAttempt ==
  pc \in {"decide", "correct"} =>
    /\ trace # <<>> /\ Failed(Len(trace)) => lastFailure # "none"
    /\ lastFailure = "failure" => trace # <<>> /\ Failed(Len(trace))
    /\ lastFailure = "no-op" =>
         /\ trace # <<>>
         /\ trace[Len(trace)].action \in DIGEST_VISIBLE_ACTIONS
         /\ trace[Len(trace)].digest = snapshot.digest

\* Attempts, not steps, are what the budget counts: retries, replans and the
\* clock never take a run over max_steps.  It pays for the requests as well: the
\* model is asked at most twice for an attempt, and never for a retry.
WithinBudget ==
  LET Fresh == {i \in DOMAIN trace : trace[i].stage # "retry"}
      Deciding == stage # "retry" /\ pc \in {"correct", "guard", "act", "verify", "conclude",
                                             "closing", "stopping", "over"}
  IN  /\ index <= MaxSteps
      /\ answers <= 2 * (Cardinality(Fresh) + IF Deciding THEN 1 ELSE 0)

\* The attempt in progress has acted on an element.
Acted == pc \in {"verify", "conclude"} /\ hit # Nothing

\* An attempt decided on a fresh observation acts on the very node the planner
\* pointed at, however the page was stamped before or moves meanwhile.
FreshAttemptHitsItsTarget ==
  Acted /\ stage # "retry" => hit.node = snapshot.elements[intent.ref].node

\* What policy has to keep the hand off: an element of a site that is not on
\* the list, and a click or select whose name says it cannot be taken back.
NamedOffLimits(element) ==
  /\ intent.action \in ACTIONS_CHECKED_FOR_IRREVERSIBLE_NAME
  /\ element.name \in IrreversibleNames
OffLimits(element) ==
  \/ \E p \in Pages : /\ p.origin \notin AllowedOrigins
                      /\ \E e \in Range(p.elements) : e.node = element.node
  \/ NamedOffLimits(element)

\* However the page moves after policy has looked at a snapshot, an attempt
\* decided on that snapshot touches a node that stood in it, off limits neither
\* by its site nor by the name it had there; and no attempt asks for a page of a
\* site that is not on the list.
FreshAttemptIsGuarded ==
  /\ Acted /\ stage # "retry" =>
       \E e \in Range(snapshot.elements) : e.node = hit.node /\ ~OffLimits(e)
  /\ pc = "verify" /\ intent.action = "navigate" => intent.destination \in AllowedOrigins

\* Discovery ends.
RunEnds == <>(pc = "over")

-------------------------------------------------------------------------------
(***************************************************************************)
(* What the documentation says and the code does not do.                   *)
(***************************************************************************)
\* default.yaml:25: "The run halts on irreversible."  A retry is checked
\* against the old snapshot and acts on whatever carries the number now.
NothingOffLimitsIsTouched ==
  Acted => ~OffLimits(hit)

\* types.py:45: "money movement, deletion -- Phase 1 halts on these".  The name
\* is judged in the snapshot and the node is clicked later, by whatever name it
\* has by then.
NothingIrreversibleIsTouched ==
  Acted /\ stage # "retry" => ~NamedOffLimits(hit)
===============================================================================

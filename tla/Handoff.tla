------------------------------- MODULE Handoff -------------------------------
(***************************************************************************)
(* One replay run and the people who may take its session over.            *)
(*                                                                         *)
(* The run is one process (src/replay/engine.py drives it, escalate.py     *)
(* hands it over); every `cua operator take|resume` is another process     *)
(* (src/cli.py, src/escalation/intervention.py).  They share nothing but   *)
(* the files of an intervention's directory: lease.json, request.json and  *)
(* resolved.json.  Every read and every write of those files is a step of  *)
(* its own here, and a write is two: the file is truncated, then filled.   *)
(*                                                                         *)
(* What happens inside a step is reduced to its outcome; ReplayEngine has  *)
(* the inside.  An intervention is named by the position it was raised at  *)
(* (make_intervention_id: run id and step index), the checkpoint's being   *)
(* N + 1.                                                                  *)
(***************************************************************************)
EXTENDS ControlLease, Naturals

CONSTANT N               \* number of steps of the capability

ASSUME NAssumption == N \in Nat

Steps == 1 .. N
Checkpoint == N + 1
Positions == 1 .. N + 1

RETRY_STEP == "retry"
STEP_ALREADY_PERFORMED == "performed"
Dispositions == {RETRY_STEP, STEP_ALREADY_PERFORMED}

Unbound == 0             \* SessionControl._lease = None

VARIABLES
  lease,                 \* position -> what lease.json holds
  request,               \* positions whose request.json exists
  resolved,              \* position -> what resolved.json holds
  pc,                    \* where the run is
  at,                    \* the position it is at
  retrying,              \* is this the attempt after a handoff
  bound,                 \* the lease the surface's gate defers to
  expired,               \* has the deadline of the current wait passed
  outcome,               \* how the run ended
  op,                    \* operator -> the command line it is executing
  executed,              \* history: step -> times automation executed it
  skipped,               \* history: steps the run left to a person
  said                   \* history: position -> dispositions people gave

files == <<lease, request, resolved>>
run == <<pc, at, retrying, bound, expired, outcome>>
history == <<executed, skipped, said>>
vars == <<lease, request, resolved, pc, at, retrying, bound, expired, outcome,
          op, executed, skipped, said>>

Attempting == {"ready", "acted"}
Waiting == {"polling", "checking"}
HandedOver == {"raising", "announcing", "binding", "waking", "deciding"} \cup Waiting

Commands == {"idle", "claim", "claiming", "handback", "resolve", "resolving"}
CommandLine(cmd, i, word) == [cmd |-> cmd, id |-> i, word |-> word]
Idle == CommandLine("idle", 1, RETRY_STEP)

TypeOK ==
  /\ lease \in [Positions -> LeaseFile]
  /\ request \subseteq Positions
  /\ resolved \in [Positions -> Dispositions \cup {"absent", "torn"}]
  /\ pc \in Attempting \cup HandedOver \cup {"over"}
  /\ at \in Positions
  /\ retrying \in BOOLEAN
  /\ bound \in Positions \cup {Unbound}
  /\ expired \in BOOLEAN
  /\ outcome \in {"none", "success", "business", "failure", "escaped"}
  /\ op \in [Operator -> [cmd : Commands, id : Positions, word : Dispositions]]
  /\ executed \in [Steps -> Nat]
  /\ skipped \subseteq Steps
  /\ said \in [Positions -> SUBSET Dispositions]

Init ==
  /\ lease = [i \in Positions |-> Absent]
  /\ request = {}
  /\ resolved = [i \in Positions |-> "absent"]
  /\ pc = "ready"
  /\ at = 1
  /\ retrying = FALSE
  /\ bound = Unbound
  /\ expired = FALSE
  /\ outcome = "none"
  /\ op = [o \in Operator |-> Idle]
  /\ executed = [s \in Steps |-> 0]
  /\ skipped = {}
  /\ said = [i \in Positions |-> {}]

-------------------------------------------------------------------------------
(***************************************************************************)
(* The run: attempting a position.                                         *)
(***************************************************************************)
End(result) ==
  /\ pc' = "over"
  /\ outcome' = result
  /\ UNCHANGED <<at, retrying, expired>>

MoveOn ==
  /\ at' = at + 1
  /\ retrying' = FALSE
  /\ pc' = "ready"
  /\ UNCHANGED <<expired, outcome>>

\* SessionControl.require_automation: unbound means unrestricted.
GateOpen == bound = Unbound \/ AutomationMayAct(lease[bound])

\* The action reaches the browser, unless the gate raises: ControlDeniedError
\* is no SurfaceError, and nothing in the run catches it.
Execute ==
  /\ pc = "ready"
  /\ at \in Steps
  /\ IF GateOpen
       THEN /\ executed' = [executed EXCEPT ![at] = @ + 1]
            /\ pc' = "acted"
            /\ UNCHANGED <<at, retrying, expired, outcome>>
       ELSE End("escaped") /\ UNCHANGED executed
  /\ UNCHANGED <<files, bound, op, skipped, said>>

\* The expectation held.
Verified ==
  /\ pc = "acted"
  /\ MoveOn
  /\ UNCHANGED <<files, bound, op, history>>

\* The page carries a business outcome: an answer, never escalated.
Answered ==
  /\ pc = "acted"
  /\ End("business")
  /\ UNCHANGED <<files, bound, op, history>>

\* Variant of Fails that asks for help as often as the position fails.
FailsAndAsksAgain ==
  /\ pc \in Attempting
  /\ \/ pc' = "raising" /\ UNCHANGED <<at, retrying, expired, outcome>>
     \/ End("failure")
  /\ UNCHANGED <<files, bound, op, history>>

\* Variant of Fails in which a step that could not be attempted is passed over.
FailsAndWalksOn ==
  /\ pc \in Attempting
  /\ \/ at \in Steps /\ MoveOn
     \/ End("failure")
  /\ UNCHANGED <<files, bound, op, history>>

\* A control that is not there, a halt by policy, an expectation or the
\* checkpoint that did not hold.  The first failure at a position is handed
\* to a person, if it is of a kind that escalates and escalation is on.
Fails ==
  /\ pc \in Attempting
  /\ \/ /\ ~retrying
        /\ pc' = "raising"
        /\ UNCHANGED <<at, retrying, expired, outcome>>
     \/ End("failure")
  /\ UNCHANGED <<files, bound, op, history>>

CheckpointHolds ==
  /\ pc = "ready"
  /\ at = Checkpoint
  /\ End("success")
  /\ UNCHANGED <<files, bound, op, history>>

-------------------------------------------------------------------------------
(***************************************************************************)
(* The run: handing the session over and waiting for it.                   *)
(***************************************************************************)
\* Variant of RaiseRequest with its two writes in the opposite order.
RaiseRequestAnnouncedFirst ==
  /\ \/ /\ pc = "raising"
        /\ request' = request \cup {at}
        /\ pc' = "announcing"
        /\ UNCHANGED lease
     \/ /\ pc = "announcing"
        /\ lease' = [lease EXCEPT ![at] = HeldBy(UNCLAIMED)]
        /\ pc' = "binding"
        /\ UNCHANGED request
  /\ UNCHANGED <<resolved, at, retrying, bound, expired, outcome, op, history>>

\* Intervention.raise_request: the lease goes to HUMAN first, and only then
\* is the request announced.  (Nobody reads the lease of an intervention
\* that has no request, so that write is one step.)
RaiseRequest ==
  /\ \/ /\ pc = "raising"
        /\ lease' = [lease EXCEPT ![at] = HeldBy(UNCLAIMED)]
        /\ pc' = "announcing"
        /\ UNCHANGED request
     \/ /\ pc = "announcing"
        /\ request' = request \cup {at}
        /\ pc' = "binding"
        /\ UNCHANGED lease
  /\ UNCHANGED <<resolved, at, retrying, bound, expired, outcome, op, history>>

\* SessionControl.bind, the recorder, and the deadline of wait_for_resume.
Bind ==
  /\ pc = "binding"
  /\ bound' = at
  /\ expired' = FALSE
  /\ pc' = "polling"
  /\ UNCHANGED <<files, at, retrying, outcome, op, history>>

\* wait_for_resume reads the lease.  An unreadable one raises out of the run,
\* with the gate still bound.
Poll ==
  /\ pc = "polling"
  /\ IF Readable(lease[at])
       THEN /\ pc' = IF Read(lease[at]).owner = AUTOMATION THEN "waking" ELSE "checking"
            /\ UNCHANGED <<at, retrying, expired, outcome>>
       ELSE End("escaped")
  /\ UNCHANGED <<files, bound, op, history>>

\* Variant of CheckDeadline that waits for ever.
CheckNoDeadline ==
  /\ pc = "checking"
  /\ pc' = "polling"
  /\ UNCHANGED <<files, at, retrying, bound, expired, outcome, op, history>>

\* Variant of CheckDeadline in which nobody coming counts as somebody coming.
CheckDeadlineAndGoOn ==
  /\ pc = "checking"
  /\ pc' = IF expired THEN "waking" ELSE "polling"
  /\ UNCHANGED <<files, at, retrying, bound, expired, outcome, op, history>>

\* Variant of CheckDeadline that takes the session back when it gives up.
CheckDeadlineAndSeize ==
  /\ pc = "checking"
  /\ IF expired
       THEN /\ End("failure")
            /\ bound' = Unbound
            /\ lease' = [lease EXCEPT ![at] = HeldByRun]
       ELSE /\ pc' = "polling"
            /\ UNCHANGED <<lease, at, retrying, bound, expired, outcome>>
  /\ UNCHANGED <<request, resolved, op, history>>

\* ... and then the clock.  Past the deadline InterventionTimeout ends the
\* wait, the gate is released and the original failure stands; the lease is
\* left as it is.  Before it, the run sleeps and reads again.
CheckDeadline ==
  /\ pc = "checking"
  /\ IF expired
       THEN End("failure") /\ bound' = Unbound
       ELSE /\ pc' = "polling"
            /\ UNCHANGED <<at, retrying, bound, expired, outcome>>
  /\ UNCHANGED <<files, op, history>>

\* The wait returned: the recorder stops and the gate is released.
Wake ==
  /\ pc = "waking"
  /\ bound' = Unbound
  /\ pc' = "deciding"
  /\ UNCHANGED <<files, at, retrying, expired, outcome, op, history>>

\* Variant of Disposition that trusts silence to mean the step was done.
DispositionDefaultDone(file) ==
  IF file \in Dispositions THEN file ELSE STEP_ALREADY_PERFORMED

\* Intervention.read_disposition: no file, or one that does not parse, is retry.
Disposition(file) ==
  IF file \in Dispositions THEN file ELSE RETRY_STEP

\* Variant of Decide that heeds the disposition at the checkpoint too.
DecideAnywhere ==
  /\ pc = "deciding"
  /\ IF Disposition(resolved[at]) = STEP_ALREADY_PERFORMED
       THEN MoveOn /\ UNCHANGED skipped
       ELSE /\ retrying' = TRUE
            /\ pc' = "ready"
            /\ UNCHANGED <<at, expired, outcome, skipped>>
  /\ UNCHANGED <<files, bound, op, executed, said>>

\* _escalate_and_retry after the wait: a step done by hand is left out, any
\* other is tried once more; _escalate_checkpoint only ever tries once more.
Decide ==
  /\ pc = "deciding"
  /\ IF at \in Steps /\ Disposition(resolved[at]) = STEP_ALREADY_PERFORMED
       THEN MoveOn /\ skipped' = skipped \cup {at}
       ELSE /\ retrying' = TRUE
            /\ pc' = "ready"
            /\ UNCHANGED <<at, expired, outcome, skipped>>
  /\ UNCHANGED <<files, bound, op, executed, said>>

RunStep ==
  \/ Execute \/ Verified \/ Answered \/ Fails \/ CheckpointHolds
  \/ RaiseRequest \/ Bind \/ Poll \/ CheckDeadline \/ Wake \/ Decide

\* time.monotonic() reaches the deadline of the wait in progress.
DeadlinePasses ==
  /\ pc \in Waiting
  /\ ~expired
  /\ expired' = TRUE
  /\ UNCHANGED <<files, pc, at, retrying, bound, outcome, op, history>>

-------------------------------------------------------------------------------
(***************************************************************************)
(* The people.  A command line runs to its end or dies between two of its  *)
(* steps (nothing makes an operator step happen).  Commands that find an   *)
(* unreadable or a refused lease end without writing anything.             *)
(***************************************************************************)
Now(o, command) == op' = [op EXCEPT ![o] = command]
Doing(o, cmd) == Now(o, CommandLine(cmd, op[o].id, op[o].word))

\* `take`: the request exists, and the lease read is free or one's own.
ReadToTake(o, i) ==
  /\ op[o].cmd = "idle"
  /\ i \in request
  /\ Readable(lease[i])
  /\ ~ClaimRefused(lease[i], o)
  /\ Now(o, CommandLine("claim", i, RETRY_STEP))
  /\ UNCHANGED <<files, run, history>>

\* LeaseStore.write of the claim, in its two halves.
WriteClaim(o) ==
  /\ \/ /\ op[o].cmd = "claim"
        /\ lease' = [lease EXCEPT ![op[o].id] = Torn]
        /\ Doing(o, "claiming")
     \/ /\ op[o].cmd = "claiming"
        /\ lease' = [lease EXCEPT ![op[o].id] = HeldBy(o)]
        /\ Now(o, Idle)
  /\ UNCHANGED <<request, resolved, run, history>>

\* `resume [--performed]`: open for writing, whoever holds the lease.
Resume(o, i, word) ==
  /\ op[o].cmd = "idle"
  /\ i \in request
  /\ lease' = [lease EXCEPT ![i] = Torn]
  /\ said' = [said EXCEPT ![i] = @ \cup {word}]
  /\ Now(o, CommandLine("handback", i, word))
  /\ UNCHANGED <<request, resolved, run, executed, skipped>>

\* ... the lease is whole again, and automation's ...
ReturnLease(o) ==
  /\ op[o].cmd = "handback"
  /\ lease' = [lease EXCEPT ![op[o].id] = HeldByRun]
  /\ Doing(o, "resolve")
  /\ UNCHANGED <<request, resolved, run, history>>

\* ... and only now resolved.json is written, in its two halves.
WriteResolved(o) ==
  /\ \/ /\ op[o].cmd = "resolve"
        /\ resolved' = [resolved EXCEPT ![op[o].id] = "torn"]
        /\ Doing(o, "resolving")
     \/ /\ op[o].cmd = "resolving"
        /\ resolved' = [resolved EXCEPT ![op[o].id] = op[o].word]
        /\ Now(o, Idle)
  /\ UNCHANGED <<lease, request, run, history>>

OperatorStep(o) ==
  \/ \E i \in Positions : ReadToTake(o, i)
  \/ WriteClaim(o)
  \/ \E i \in Positions, word \in Dispositions : Resume(o, i, word)
  \/ ReturnLease(o)
  \/ WriteResolved(o)

-------------------------------------------------------------------------------
\* The run is over and every person has gone home.
Terminated == pc = "over" /\ UNCHANGED vars

Next ==
  \/ RunStep
  \/ DeadlinePasses
  \/ \E o \in Operator : OperatorStep(o)
  \/ Terminated

Spec == Init /\ [][Next]_vars

\* The run's process is scheduled and the clock moves on; people do what
\* they like.
FairSpec == Spec /\ WF_vars(RunStep) /\ WF_vars(DeadlinePasses)

-------------------------------------------------------------------------------
(***************************************************************************)
(* Safety.                                                                 *)
(***************************************************************************)
\* Once a position has been announced to people, automation does not act
\* again, on that step or a later one, before somebody has run `resume` for
\* it: neither a take, nor the timeout, nor a half-written file brings the
\* run back (escalate.py, intervention.py).
YieldedUntilResumed ==
  pc \in Attempting => \A i \in request : said[i] # {}

\* Whoever can see a request finds the session already taken from automation
\* (raise_request: "the lease moves to HUMAN before the request is announced").
AnnouncedAfterYield ==
  \A i \in request : said[i] = {} => lease[i].owner \in {HUMAN, "torn"}

\* A step is left out only on a person's word that it was done by hand; a
\* missing, torn or late resolved.json never leaves one out.
SkipsOnlyOnWord ==
  \A s \in skipped : STEP_ALREADY_PERFORMED \in said[s]

\* A step reaches the browser at most twice, and the second time only after
\* the session had been given away and back: one handoff, one retry.
OneRetry ==
  \A s \in Steps :
    /\ executed[s] <= 2
    /\ executed[s] = 2 => said[s] # {}

\* A success accounts for every step: automation executed it or a person
\* said they had.
SuccessAccountsForEveryStep ==
  outcome = "success" => \A s \in Steps : executed[s] > 0 \/ s \in skipped

\* Once announced, a lease is moved by people only: the run neither takes a
\* session back nor overwrites a claim.
OnlyPeopleMoveALease ==
  [][\A i \in request :
       lease'[i] # lease[i] => \E o \in Operator : op'[o] # op[o]]_vars

-------------------------------------------------------------------------------
(***************************************************************************)
(* Liveness and refinement.                                                *)
(***************************************************************************)
\* Whatever people do or leave undone, the run ends.
RunEnds == <>(pc = "over")

Phase ==
  CASE pc = "over" -> "over"
    [] pc \in HandedOver -> "stuck"
    [] pc \in Attempting /\ retrying -> "retrying"
    [] pc \in Attempting /\ ~retrying -> "trying"

Contract == INSTANCE ReplayContract WITH phase <- Phase

\* The lease protocol gives a run the order of steps, handoffs and retries
\* that ReplayContract promises, and its termination.
KeepsContract == Contract!FairSpec

-------------------------------------------------------------------------------
(***************************************************************************)
(* What the documentation says and the code does not do.                   *)
(***************************************************************************)
\* intervention.py:162: "If the run always retries, an operator who performed
\* the step by hand has it performed twice"; engine.py:317 leaves such a step
\* out.  So a step whose every word was "performed" is not executed again.
PerformedIsNotRepeated ==
  [][\A s \in Steps :
       executed'[s] # executed[s] => said[s] # {STEP_ALREADY_PERFORMED}]_vars

\* README, Invariants: "An automated action cannot run while a human holds
\* the control lease."
NoActionUnderAHumanLease ==
  [][\A s \in Steps :
       executed'[s] # executed[s] => \A i \in request : lease[i].owner # HUMAN]_vars

\* pending_interventions: "Every intervention still waiting on a person" --
\* so some run is waiting behind each of them.
Pending == {i \in request : lease[i].owner = HUMAN}

PendingHasARunWaiting ==
  \A i \in Pending : at = i /\ pc \in {"binding"} \cup Waiting
===============================================================================

# A verification project for cua

`cua` lets a language model find its way through a web application once, compiles what it did
into a *capability*, and replays the capability without a model for other parameters. When a
replay cannot go on by itself, the browser session is handed to a person and back.

The TLA+ modules here model those activities and what they rest on (how a page is read, how an
element is found again, what policy lets through, what is kept of a person's work). TLC checks
them on small instances. TLAPS proves the handoff protocol, the replay engine, the discovery loop, the
recorder, perception, the matching of targets and the binding of a capability to its record for
every value of their constants: any number of steps, people, handoffs and frames, any policy, any
pages, any recording. Paths below are relative to the
repository's `src/` package directory unless they begin with another name.
`PROJECT.json` lists, for every definition, the source lines it stands for, and for every
hazard the line where it bites.

| module | what it models | kind |
|---|---|---|
| `ControlLease` | the values of `lease.json` and the decisions taken on them | constants and operators |
| `ReplayContract` | what a replay promises about the order of things | abstract specification |
| `Handoff` | one run, its operators, the three files they share | refines `ReplayContract` |
| `HandoffProofs` | theorems about `Handoff` | proofs |
| `ReplayEngine` | the inside of a replay, across steps | refines `ReplayContract` |
| `ReplayEngineProofs` | theorems about `ReplayEngine` | proofs |
| `Perception` | how a page becomes numbered elements, and what the numbers find | operators |
| `ListLemmas` | induction over numbers, lists and their entries | lemmas, for three of the modules of proofs |
| `PerceptionProofs` | what `perceive` returns, and leaves in the page | proofs |
| `Targeting` | an element described by a recording and found again by a replay | over `Perception` |
| `TargetingProofs` | theorems about `Targeting` | proofs, over `PerceptionProofs` |
| `Policy` | what the guard lets through | operators |
| `Discovery` | the discovery loop, its planner, the stamps on a page that moves | over `Policy` |
| `DiscoveryProofs` | theorems about `Discovery` | proofs |
| `Compiler` | record, compile, replay: what a capability is worth | |
| `Generalize` | a model's labels on the capability, and what is done with them | extends `Compiler` |
| `CompilerProofs` | theorems about `Compiler` and `Generalize` | proofs |
| `Recorder` | what is kept of a person's work over several handoffs | |
| `RecorderProofs` | theorems about `Recorder` | proofs |
| `MC...` | instances of the above for TLC | |

## 1. The system

### Parts, their state and their operations

**Control lease** (`session/lease.py`). State: a small JSON file per intervention that says
whether automation or a human drives the session, and which holder. Operations: `read` (missing
means automation), `write`, `acquire` (refuses a different person, except over the placeholder
`awaiting-operator`), and `SessionControl`, the gate at the surface: `bind`, `release`,
`require_automation`. Right when automation never acts on a session it has given away.

**Intervention** (`escalation/intervention.py`). State: the directory of one handoff, with
`lease.json`, `request.json` and `resolved.json`. Operations: `raise_request`, `take`, `resume`,
`read_disposition`, `wait_for_resume`, `pending_interventions`. The run executes some of them,
`cua operator take|resume|list` (`cli.py`) the others, in processes of their own. Right when the
person's word about a step is heeded, and silence never taken for a word.

**Replay** (`replay/engine.py`, `replay/escalate.py`, `replay/outcomes.py`, `replay/evidence.py`).
State: position, whether this is the attempt after a handoff, `_RunProgress` (the digest streak,
whether the flow was signed in), recoveries, outputs, the browser session, `trace.jsonl` and
`result.json`. Operations: validate the request, open the session, and for each step look for
the target (twice), check policy, act, settle, observe, judge; then the checkpoint; escalate and
retry; close. Right when it ends with exactly one outcome, tells the truth about how it got
there, and leaves no browser behind.

**Discovery loop** (`agent/loop.py`) **and planner** (`agent/planner.py`, `llm.py`). State: last
snapshot, intent, recovery stage, attempt count, the trace, what the planner is told of the last
failure. Operations: observe, decide (with one corrective request when the answer is no intent),
guard, act, settle, verify; original, retry, replan; the budget; writing the run. Right when it
ends within its budget, acts on the element the planner meant, tells the planner of the failure
that matters, and completes only on what it saw.

**Policy** (`policy/check.py`). No state; a decision list over an intent and the snapshot it was
decided on: the origins of the page and of a navigation, the kind of action, the risk tier with
its pattern for irreversible names. Right when nothing it would refuse is touched.

**Perception and refs** (`surface/web_perception.py`, `surface/base.py`, `surface/coverage.py`).
State: the numbers stamped into the live page. Operations: pair frames with accessibility trees,
some of which cannot be read, choose and name the nodes that become elements, clear the stamps and
stamp anew, as far as the nodes are still there, judge coverage, and find a node again by its
number. Right when a number leads to the element it was given to or nowhere, and when what could
not be seen is reported.

**Target matching** (`artifact/compiler.py`, `_target_for`; `replay/engine.py`, `_match_element`
and below). Describes an element by role, name, scope, occurrence and, for a value, by the
nearest label and the distance to it; finds it by anchor, name, normalised name, a name it
occurs in. Right when it finds what was recorded on the page it was recorded on, and on any
other page fails or finds something of its kind.

**Artifact compiler** (`artifact/compiler.py`). A pure function from a finished recording to a
capability: which attempts are kept, what every step acts on and claims, and the checkpoint.
Right when the capability succeeds on the same application, for other members and other figures,
and never succeeds on the wrong record.

**Generalisation** (`artifact/generalize.py`, `artifact/semantics.py`). A model labels the
expectations that quote the record that was recorded; a rule puts another claim in their place,
if there is one. Right when no label, however wrong, makes a sound capability fail.

**Human action recorder** (`surface/web_handoff.py`). State: in the page, a binding and
listeners, which stay (and an init script, without effect); in Python, the list of actions and the listener for
navigations, which go. Operations: start, hear, stop, once for every handoff of a run. Right
when what is written of a handoff is what its person did, all of it and nothing else.

**Expectation checks** (`agent/verify.py`), the **web executor and settle** (`surface/web.py`),
**redaction** (`policy/redact.py`), **types, store, configuration, evidence and summary**, the
**desktop surface** (a stub) and the **target application** (a demo) surround these. What of
them is modelled and what is not is in section 7.

### How they interact

    planner -> Discovery -> trace -> Compiler -> Generalize -> capability -> Replay -> outcome
                  |  policy                          |                  policy |
               surface: perceive, stamp, act  <--- control gate --->        surface
                                                     |
      operator processes  <-- lease.json, request.json, resolved.json --> run process
             |                                                               |
           person  ------------- clicks in the page ------------->  human action recorder

Discovery and replay call the surface in one thread: nothing interleaves with them but the
application itself, whose page changes while the automation thinks, and, during a handoff, the
person, who may be at work in the page before the recorder is. The handoff is where
processes meet. They share no memory and no lock, only three files, and a write is not atomic:
`Path.write_text` truncates the file and then fills it.

### What is hard about it

- Two or more people and a run that read and write the same files in any order, with commands
  that die half-way, deadlines that pass while an answer is being written, and a `take` that
  was read before a `resume` and written after it.
- A step that may have reached the browser before it failed, and is then done by hand, retried,
  or both.
- State kept across steps (recoveries, progress, outputs, login) that a retry, a person or an
  early return can leave stale.
- Numbers decided on one snapshot and used on a page that has been stamped again, or has moved;
  a verdict of policy about the one and an action on the other.
- Occurrences and distances counted on one page, in one scope, and used on another.
- Hooks that stay in a page when the Python object behind them is done, and documents they never
  get into.
- A node that changes its name, or goes away, between being judged and being clicked.
- A model's labels, which may be any, on claims that must stay true for every record.
- A recording full of failed attempts, retries and wrong claims, from which the compiler keeps
  the flow that succeeded, for data that has changed since.

`PROJECT.json` has the list at line granularity. Hazards no property covers yet say why.

## 2. The modules and the code

### ReplayContract

The order of things, with nothing about how it is brought about: positions are walked in order
and the checkpoint last; a position is *tried*, and at most once it is *stuck* (a person was
asked) and *retried*; a step is passed over only when it came back as done; the run ends once,
with one of success, business outcome, hard failure, or an exception that escaped it. Under
weak fairness of its next-state relation it always ends.

`Handoff` and `ReplayEngine` both implement it. They cover the same run from two sides: `Handoff`
has every file access and reduces what happens inside a step to how it ended; `ReplayEngine` has
the inside of a step and reduces the handoff to how it came back. The contract is what each may
assume of the other.

### Handoff (with ControlLease)

| state | code |
|---|---|
| `lease`, `request`, `resolved` (by position) | the files of `interventions/<run>-<step>/`; a lease is whole, absent or torn |
| `pc`, `at`, `retrying` | where `_replay`, `_escalate_and_retry` and `wait_for_resume` are |
| `bound` | `SessionControl._lease` |
| `expired` | `time.monotonic() >= deadline` of the current wait |
| `op` | each operator's command line, between two of its file accesses |
| `executed`, `skipped`, `said` | history: what was executed, left to a person, and said by people |

Actions of the run: `Execute` (through the gate), `Verified`, `Answered`, `Fails`,
`CheckpointHolds`; `RaiseRequest` (two writes, lease first), `Bind`, `Poll`, `CheckDeadline`,
`Wake`, `Decide`. Actions of a person: `ReadToTake` and `WriteClaim` (`acquire` is a read, then
a write in two halves), `Resume`, `ReturnLease`, `WriteResolved` (the lease goes back before the
disposition is written). A command that would only fail or refuse changes no file and is a
stutter. Anyone may `resume` without having taken the session, any number of times and with
different words, and any command may stop for ever between two of its accesses, which is how a
crash of an operator's process is modelled. `DeadlinePasses` is the clock.

A torn lease makes `Poll` raise, which ends the run as *escaped*, as the `ValidationError` does.
`said` is set when `resume` first touches a file, since from then on the person has spoken.

### ReplayEngine

State is named after the code: `progress` is `_RunProgress`, `recoveries` and `outputs` the lists
threaded through the run, `open` the surface between `start` and `stop`, `records` the lines of
`trace.jsonl`, `written` whether `result.json` exists. `Capability`, a constant, gives for every
step its action, whether it has a target, types a credential, or feeds a declared output. `page`
is what perception publishes as far as the engine compares it across steps: the text digest, and
whether a password field is shown.

Actions: `Validate`, `OpenSession`, `LookForTarget` (with its second look), `CheckPolicy`, `Act`,
`Observe`, `AssertCheckpoint`, `PerceptionRaises` (an error no handler names), `NobodyCame`,
`HandoffRaises`, `SessionReturned`, `StopSurface`, `WriteResult`. What the application shows,
whether an action works, whether an expectation holds, whether a business outcome is on the page
and what policy says are choices.

### Perception

A page is a sequence of frames, and a frame has nodes in document order, each with role, text,
label, parent, whether the tree shows it, whether the document has a node for it (`backed`) and
whether that node is still there to be stamped (`held`); a frame's tree `answers` or does not.
`PerceiveFrame` is one pass over a frame and `Perceived` the whole of `perceive`, as one step:
`TreeOf` pairs by URL (`Listed`) and yields no tree where there is none or it does not answer
(`Answer`), for the main frame too; `Selected` applies the rules for interactive nodes
(`Addressable`) and readable ones (echoes of an ancestor, short texts, the cap on texts) to one
node after the other, `ElementsOf` makes elements of what is selected, `Cleared` takes the old
numbers off a frame and `Stamped` puts the new ones on the nodes that take them (`Marked`),
`CoverageOk` is the report. `Located` is
the locator behind a handle and `Landing` the node an action through it reaches. Texts are members
of a small set; what normalising makes of one is a function given as a constant.

### Targeting

State: the page and its stamps, the recorded element and the description made of it, the last
look and what it matched, and the nodes the action landed on. Actions: `Record`, `PageChanges`
(nodes that stay keep their stamps), `Look` (twice at most), `Act`. `TargetOf` is `_target_for`
with `_derive_anchor`; `ByAnchor` and `ByName` are the chain of `_match_element`, `Nth` its
`_nth`: which occurrence an element is, is how many matches come before it (`Before`).

### Policy and Discovery

`Policy` is the decision list. The configured lists are constants, and a regular expression over
names is the set of names it finds. `Discovery` applies it in `Guard`, to the snapshot of the
attempt, as the loop does.

`page` is the page in the browser and `stamped` the elements whose nodes got its `data-cua-ref`
numbers; `snapshot` is what the attempt was decided on. Both are kept because the planner's ref is
a number in the one and the executor resolves it by the other. A node keeps its number while it is
in the page, whatever name it has by then: `Carriers` and `Live` are the element that the node is
now, and `hit` records that one. Actions: `Start`, `BeginStage`
(budget and stage), `Observe` (with the no-op note), `Decide` (any well-formed intent, also a ref
that is in no snapshot), `AnswerIsNoIntent` (sent back once), `Guard`, `ActFails`, `Act`, `Verify`
(which perceives, and so stamps), `Conclude` (record, then next stage, next step or the end),
`Raises`, `WriteRun`, `StopSurface`; and two that are not the run's: `ClockRunsOut`, and
`PageMoves`, by which any page may take the place of the one in the browser between two calls.

### Compiler

One behaviour records, compiles and replays. `Attempt` is a whole attempt of the discovery loop
(`Discovery` has its inside): a retry repeats the intent (`Stated`) against the old `Snapshot`, a
click may be judged on a page that was still slow, and `AttemptLeaves` is what is recorded and which
stage is next. `Compile` computes the capability with operators
named after the compiler's functions: `Keeping`, `KeptFrom` and `Kept` (failed actions and immediate
repeats dropped), `Trustworthy` (a disproved claim replaced by what was observed), `Sanitised`
(the example value templated), `Unquoted` (no claim quotes what is read), `TargetOf` with its
anchor and occurrence, `Resolved` and `Checkpoint` (the record bound to its parameter), and
`Refused`. `Compile` leaves a capability and `Invoke` begins its replay, whose steps,
`StepNotFound`, `StepPerformed` and `AssertCheckpoint`, find each target with `Locate` on the
pages of an application that is a constant.

`renewed` says that the figures on the pages changed between recording and replay. `Reliable` is
the proviso of two of the properties: which recordings a compiler can be asked to do right by.
It has two parts. `Followable`: what was done twice in a row did and returned the same both
times, one `done` was executed, and, for another member or other figures, the actions lead where they
led (`GoesAsRecorded`). And of the claims: each was borne out or can be replaced (`BornOut`), and is
as true for another member or of other figures (`ClaimCarriesOver`). It is stated of the recording
and of the application, and never mentions a definition that decides what the capability
contains (it shares only the comparison of actions, the text that appeared, and the anchor).

### Generalize

`Label`, between `Compile` and `Invoke`, labels any set of steps, and the checkpoint or not: the
model's answer is not trusted, so it is not restricted. `Weakened` and `Demoted` are the rules by
which a labelled claim is replaced, and `StepUrls` the URLs the rules are given. Its `LabelledSpec` is
what the compiler's run checks, so that every property of `Compiler` is about labelled
capabilities as well. `CleanRecordingReplays` asks of the claims that were generalised
(`Generalised`) only that they were borne out. It excepts a recording whose `done` quotes an answer
where the claim the compiler takes in its place is not true of the last page (`SubstituteStands`):
nothing in the compiler sees to that. In the instance it is true of every reliable recording.

### Recorder

`docs` are the documents of the page's frames with the recorder's listeners in them, and `bound` is
the recorder behind the page's binding, which a second handoff finds in place; `heeding` and `log`
are the Python side. What the page reports waits in
`queue` until the driver dispatches it, which it does only while the run is inside the driver
(`pumping`) and not while it reads the lease (`polling`). `start` is `ExposeBinding`,
`AddInitScript`, `EvaluateInFrame`, `HeedNavigations`, one call to the driver each;
`ReadLease` and `PumpAgain` are the wait, `WaitEnds` and `Stop` its end, and `WaitRaises` the end
by a lease that cannot be read, which no `_stop_recorder` follows. `ActIn`, `Navigate` and
`MoveWithin` (a navigation that loads no document) are whoever has the session, at any moment.

The init script changes nothing in the model, because it changes nothing in a page:
`add_init_script` is given the text of an arrow function, which a new document evaluates and does not
call; `frame.evaluate` calls what it is given. So a document has a listener only if
`EvaluateInFrame` came to it (`Loaded`, `Install`). `late` are the frames whose document no `start`
under way or done has come to, or will; the properties that hold are about the others.

## 3. The runs

Passing runs, all to the end of their state space:

| run | instance | distinct states | what it shows |
|---|---|---|---|
| `handoff` | 1 step + checkpoint, 2 operators | 1.5 million | the session is yielded until somebody resumed it; who sees a request finds it yielded; steps are skipped only on a word; one handoff, one retry; a success accounts for every step; only people move an announced lease |
| `handoff_live` | 1 step + checkpoint, 1 operator | 42 thousand | the run ends whatever people do or leave undone; `Handoff` implements `ReplayContract` with its fairness |
| `replay` | sign in, navigate, read; 2 digests | 257 thousand | browser closed on every exit, one record per attempt, handoffs reported once each, both hints true when given, outputs of a success, refinement of `ReplayContract` |
| `discovery` | 3 pages, 4 action kinds, budget 3 | 425 thousand | budget, order of recovery, what *completed* means, what the planner is told, the node a fresh attempt hits and what policy keeps it off, evidence, termination |
| `compiler` | 1 application, 17 plans, up to 6 attempts, 1 mishap, any labels | 392 thousand | a reliable recording replays whatever a model labelled, reads the same row, and never ends on another record |
| `targeting` | any element of 11 pages, sought on any of them | 25 thousand | handles reach their own element or none, an action lands where it looked or nowhere, role and scope are never relaxed, the recorded element is found again on its page, what is missing from a child frame, or from a main one that was read, is reported |
| `recorder` | 2 handoffs, 2 frames, 2 acts, 3 navigations | 2.2 million, up to symmetry | every document the recorder found reports, and once; what is written is that person's and in order; nothing done to such a document in a first handoff is lost; the last navigation is where the page is |

Runs that exhibit a disagreement between code and its documentation (section 6):
`performed_repeat`, `human_lease`, `retry_off_limits`, `wrong_row`, `wrong_record`.

Every property of a passing run has a mutant: a variant of one definition, next to it in the
module, that a plausible slip in the code would produce (the two writes of `raise_request` in
the other order, a gate released on timeout, `start` outside the `try`, an anchor looked for in
the wrong place), under which TLC finds the property violated.

### The bounds, and why they are enough

- `Handoff`, `N = 1`: a position that is a step and one that is not. What an earlier position
  leaves behind for a later one (a lease, a command under way) is there with these two; `N`
  itself is unbounded in the proofs, as is the set of operators. Two operators are the fewest that can
  claim over each other and contradict each other, and a third would do nothing a second cannot.
  The live and the refuting runs use one, since the run depends on the files and not on who
  wrote them. No symmetry is declared there.
- `ReplayEngine`: the flow has each kind of thing the engine remembers: a credential, two
  consecutive actions the no-progress rule can count (a navigation that is retried after a
  handoff counts twice, which is how the threshold of two is reached), and a declared read. Two
  digests are enough to say *moved* and *did not move*. `moves`, a history, has the last two
  entries only, as far back as the rule looks.
- `Discovery`, `MaxSteps = 3`: a whole original, retry, replan, or one success followed by two
  attempts, so that the budget ends inside a step as well as between two. Three pages: a form, the
  same form with an element put in front (the least for a number to shift) whose button has become
  one that may not be touched (the least for a node to be relabelled), and a page of a site that is
  not on the list. `retry_off_limits` uses pages on which no node changes its name, so
  that its scenario is about the retry alone. The action kinds are one of each behaviour:
  with and without an effect on the page that the no-op rule looks at, with and without a
  target, `done`, and one (`wait`) that is not on the list of allowed actions.
- `Targeting`: the pages are one of each difficulty: links of one name, a link that repeats its
  text inside, a menu that is shut, rows put in front, names that drifted in case and by a word,
  two rows of one label, a frame with a name and a label outside it that comes again inside, a
  frame without a name put before it, one whose tree is elsewhere, two frames of one URL, two
  frames of one name, a main frame that cannot be read beside a child frame with a node that goes
  away and one the document lacks, and a child frame that cannot be read. `MaxReadable = 4` cuts off the first of them, where a dash is
  too `Short` to count; `MinInteractive = 2` and `UnnamedTenths = 4` make coverage good on some and bad on others.
- `Recorder`: two handoffs are what the page's hooks can survive into; one child frame beside the
  main one; two acts tell apart order, loss and doubling within a handoff and across two; three
  navigations lead away, back and again to the same place. The two URLs are interchangeable (only
  whether two are the same is ever asked), and declared symmetric.
- `Compiler`: `MaxAttempts = 6` holds a look-up flow of four attempts (type, find, read,
  done) and two more to fail, retry or repeat in. `MaxMishaps = 1` bounds
  slow pages and failed actions. The plans hold true claims, false ones, and claims that quote
  the value read. Labels are not bounded: every subset of the steps is tried. One other
  member, once with an unrelated number and once (`wrong_record`) with a number the recorded one
  begins with.

Deadlock is checked everywhere but in `Compiler`, whose behaviours end with their replay, and in
`Recorder`, whose acts and handoffs are bounded; the others stutter explicitly in their final
state.

### Fairness

- `Handoff`: weak fairness of the run's next step (its process is scheduled, and `wait_for_resume`
  polls) and of the clock. Nothing is assumed of people: no `take` or `resume` need ever
  happen or complete.
- `ReplayEngine`, `Discovery`: weak fairness of the run alone. The calls they make return or
  raise: browser actions, settling and the HTTP client have timeouts, and so has a handoff.
  Discovery ends by its budget of attempts and needs no fairness of its clock.
- `Compiler`, `Generalize`, `Targeting`, `Recorder`: safety only.

## 4. What is proved

Every theorem below holds for every value of the constants that satisfies the named assumptions
of its module. Each module of proofs has the same shape: `IInv`, a conjunction of named parts;
for each part a lemma that every step keeps it, which goes through the actions one by one and
cites only the other parts it uses, so that how the parts depend on each other can be read off
the `ASSUME`s; `InductiveInvariant == Spec => []IInv`; and the properties, which follow from
`IInv`. TLC has checked each of these invariants on the instance of the component's run.

Almost none of the properties is inductive by itself; what had to be added says why the code is
right.

### Handoff

From `NAssumption` (`N` is a natural number) and `ReservedHolders` (no operator has one of the two
reserved ids).

| theorem of `HandoffProofs` | states |
|---|---|
| `TypeCorrect` | `Spec => []TypeOK` |
| `AutomationYields` | `Spec => []YieldedUntilResumed` |
| `NoRequestBeforeItsLease` | `Spec => []AnnouncedAfterYield` |
| `SkippedOnAPersonsWord` | `Spec => []SkipsOnlyOnWord` |
| `AtMostOneRetry` | `Spec => []OneRetry` |
| `NoStepIsLost` | `Spec => []SuccessAccountsForEveryStep` |
| `LeaseMovedByPeople` | `Spec => OnlyPeopleMoveALease` |
| `ImplementsContract` | `Spec => Contract!Spec`, the safety part of the refinement |

That automation does not act between announcement and resume depends on where the run is when the
lease changes hands; that in turn depends on which interventions are announced and unanswered, and
on what command lines already under way will still write. `IInv` says these things:

- `TypeOK`: the types.
- `FilesInv`: what the files say is backed by something said. A lease reads *automation* only
  if somebody resumed, and a disposition reads *performed* only if somebody said so.
- `CommandInv`: a `resume` under way carries a word that has been said. `FilesInv` needs it for
  the second half of the write, which can come arbitrarily late.
- `YieldInv`: an announced and unanswered intervention is the one the run waits behind, or the
  run is over. From it, and from `FilesInv` for the poll that wakes the run, follows
  `YieldedUntilResumed`.
- `ProgressInv`: how far the run is, and how often each step was executed on the way, with one
  clause for each point of an attempt: the strengthening that makes `OneRetry` and
  `SuccessAccountsForEveryStep` inductive.
- `AnnouncedInv`: interventions are raised in the order of positions and once each, so a raise
  never overwrites a lease that has been announced: the part `OnlyPeopleMoveALease` needs.
- `OneRetry` and `SkipsOnlyOnWord` themselves.

The refinement maps `pc` and `retrying` to a phase, and every step to a step of the contract or a
stutter.

### ReplayEngine

From `CapabilityAssumption` (a finite list of steps) and `DigestsAssumption` (there is one at all).

| theorem of `ReplayEngineProofs` | states |
|---|---|
| `TypeCorrect` | `Spec => []TypeOK` |
| `SessionIsStopped` | `Spec => []SessionClosed` |
| `EveryAttemptIsRecorded` | `Spec => []EvidenceForEveryAttempt` |
| `HandoffsReported` | `Spec => []HandoffsAreReported` |
| `AuthExpiredIsTrue` | `Spec => []AuthExpiredMeansSignedOut` |
| `StalledIsTrue` | `Spec => []StalledMeansNoVisibleMove` |
| `SuccessHasItsOutputs` | `Spec => []OutputsOfASuccess` |
| `ImplementsContract` | `Spec => Contract!Spec`, the safety part of the refinement |

- `PlaceInv`: where the run can be with which result in hand. A handoff is under way only on a
  first attempt that failed, and a success only comes from the checkpoint.
- `SessionInv`: the browser is open between `OpenSession` and `StopSurface`, and nowhere else.
- `ReportInv`: the handoffs that came back are in the list of recoveries, each once, and none is
  ahead of the run; a result built from that list has all of it. Without "none is ahead", a
  second report of one position could not be excluded.
- `LoginInv`: `entered` is set before the credential is typed. When the two disagree, the step that
  types it is the one at hand, or the run is over; that is why `signedIn` cannot be reached without
  a login.
- `StreakInv`: the streak is a count of the last entries of the history, so two of it are two moves
  that did not show.
- `HintInv`: the two hints are true while the page is still the one they were given on.
- `OutputInv`: every read behind the run left a value, or was left to a person.

The two sides of `ReplayContract` are thus both proved to implement its safety part.

### Discovery

From `PagesAssumption` (a node belongs to one site; it may change its name), `MaxStepsAssumption` and
`ActionsAssumption`; nothing is assumed of the policy's lists, nor of what a planner answers.

| theorem of `DiscoveryProofs` | states |
|---|---|
| `TypeCorrect` | `Spec => []TypeOK` |
| `BudgetIsKept` | `Spec => []WithinBudget` |
| `RecoveryInOrder` | `Spec => []AttemptsFollowRecovery` |
| `CompletedIsVerified` | `Spec => []CompletedMeansVerified` |
| `StoppedIsRecorded` | `Spec => []StoppedRunIsRecorded` |
| `PlannerIsToldTheTruth` | `Spec => []ToldOfTheLastAttempt` |
| `FreshAttemptsHit` | `Spec => []FreshAttemptHitsItsTarget` |
| `FreshAttemptsAreGuarded` | `Spec => []FreshAttemptIsGuarded` |

- `PlaceInv`: how an attempt stands at each place of the loop.
- `RecoveryInv`: the attempt in progress continues the trace: its stage follows from the last entry.
- `OutcomeInv`: a run that goes on has verified no `done` in any entry of its trace.
- `StopInv`: a browser is stopped only after the evidence is on disk.
- `MemoryInv`: the digest, the flag and the failure the loop remembers between attempts are those
  of the last entry of the trace; without it what the planner is told could not be related to it.
- `BudgetInv`: the requests made are at most two for every fresh attempt in the trace, plus those
  of the attempt under way; the number of fresh attempts is a cardinality over the whole trace.
- `TargetInv`: between a fresh observation and its action the stamps in the page are those of the
  snapshot, however often the page itself is replaced.
- `GuardInv`: what is running, or has acted, was allowed on the snapshot it was decided on. With
  `TargetInv`, a fresh attempt touches a node that was allowed by the name it had there. By
  the name it has when it is touched is another matter (`NothingIrreversibleIsTouched`, section 6).

### Recorder

From `BoundsAssumption`, for any frames, addresses, and numbers of handoffs, acts and moves.

| theorem of `RecorderProofs` | states |
|---|---|
| `TypeCorrect` | `Spec => []TypeOK` |
| `FoundDocumentsReport` | `Spec => []DocumentsFoundReport` |
| `WrittenAreTheirs` | `Spec => []WrittenIsTheirs` |
| `FoundHeardAtFirst` | `Spec => []FoundIsHeardAtFirst` |
| `EndsRight` | `Spec => []EndsWhereTheyEnded` |

- `PlaceInv`: which recorder listens for navigations and when; the one behind the binding is the
  first one, for good.
- `FoundInv`: a document that the recorder found and that does not report is one it has yet to come
  to; a page that loads while the frames are gone through is one of these if its frame's turn is
  still to come.
- `OrderInv`: what waits in the queue and what each list holds is in the order it was done, and what
  is in a list was done before what is still in the queue; no list but the bound recorder's has acts.
- `TheirsInv`: during the first handoff nothing is told but what its person did in it.
- `EndsInv`: the last navigation heard of, in the queue or in the list, is where the page is.

### Perception and Targeting

`PerceptionProofs` is about operators alone, and rests on `ListLemmas`; it assumes of a page that its frames and nodes are
finite lists and a node is in one place of one frame (`IsPage`). `Selected` and `Perceived` are
recursive functions over the nodes of a frame and the frames of a page. What they compute is proved by induction on a set
of numbers (`SetInduction`, from the well-foundedness of the naturals); invariants of one step
(`KeptOfNext`, `SeenNext`, `InOrderNext`) are lemmas about it.

| theorem of `PerceptionProofs` | states |
|---|---|
| `PerceiveReturns` | on any page, with whatever stamps: elements are numbered by their places and in the order of frames, each is read off a node a frame's tree shows; every control that a tree shows and the document has a node for is an element; a good report means that every child frame has a tree that answered; afterwards the stamps in the page are the numbers of those elements whose nodes took them, and the page's own nodes have no others |
| `PassesSeeTheSame` | which elements a page has does not depend on the stamps it carries |

`TargetingProofs` uses them, from `PagesAssumption` (the application's pages are pages), for any
texts, normalisation, relation of occurrence and bounds.

| theorem of `TargetingProofs` | states |
|---|---|
| `TypeCorrect` | `Spec => []TypeOK` |
| `HandlesReachTheirs` | `Spec => []HandlesReachTheirOwn` |
| `LandsThereOrNowhere` | `Spec => []LandsWhereItLooked` |
| `KindIsKept` | `Spec => []KindIsNeverRelaxed` |
| `GoodReportIsComplete` | `Spec => []MissingIsReported` |
| `FoundOnceMore` | `Spec => []FoundAgain` |

- `StampsInv`: the stamps on the page are on its own nodes; a new browser has none.
- `SeenInv`: what `PerceiveReturns` says, of the page that was last perceived.
- `ActingInv`: between the match and the action a page only loses stamps. With `SeenInv` it gives
  `LandsWhereItLooked`: a stamp that is still there is where it was put.
- `SpecInv`, `FoundInv`: target and match are of the recorded role and scope.
- `RecordedInv`, `MatchedInv`: on which snapshots a target was described and matched, by
  `PassesSeeTheSame` without regard to stamps. On the same page the two snapshots are one, and
  `FoundAgain` is a fact about `TargetOf` and `MatchElement`: an element is the occurrence of its
  name it was counted as, and an anchor that stands once leads back to it. The second half rests on
  the elements of a scope being an interval of the snapshot, which they are when one frame goes by
  that scope.

The proof of `FoundOnceMore` is where `Unambiguous` comes from: that the label stands once in the
snapshot is not enough, for the label may be in another frame, and the scope may be that of two
frames. The pages `Framed` and `Namesakes` of `MCTargeting` are those cases.

### Compiler and Generalize

From `PlansAssumption` and `ApplicationAssumption` (a plan is well formed; pages have lists of
elements, and clicking or typing leads from page to page, which are still pages when their figures
change), `HomeAssumption`, `ExampleAssumption` (the recording starts on a page, for one of the
members) and `TemplateAssumption` (neither the application nor a plan writes `{{member}}` itself, every
page has a path and every element a role). All theorems are about `LabelledSpec`.

| theorem of `CompilerProofs` | states | rests on |
|---|---|---|
| `CheckpointNamesTheMember` | `LabelledSpec => []CapabilityInv` | `IInv` |
| `SuccessIsOnTheRightRecord` | `RecordsAreTheirs` implies `LabelledSpec => []RightRecord` | `IInv` |
| `ReadsTheRightRow` | `ApplicationIsRegular` and `PlansAreRegular` imply `LabelledSpec => []ReadsTheRecordedRow` | `FollowInv` |
| `ReplayEndsWhereRecorded` | they imply `LabelledSpec => []EndsWhereRecorded` | `FollowInv` |
| `ReliableReplaysSucceed` | they imply `LabelledSpec => []CleanRecordingReplays` | `FollowInv`, `ClaimedInv` |

There are three invariants, and each is inductive given those before it. The first, `IInv`:

- `TraceInv`: a recording consists of plans for elements of the pages they were made on, a retry has
  an attempt to repeat, and when the compiler starts a `done` has run.
- `CapabilityInv`: every step of a capability is in order, and if one of them types the parameter,
  the checkpoint is a claim about a text, a field or the URL that names it.
- `RunInv`: a replay is for a member, and success is the end.

`CapabilityInv` is where the compiler's rules come in. A step has the parameter only from a kept
attempt that typed the goal's value, so the recording is `Parameterised`, by a kept attempt other
than the `done`; then `Checkpoint` binds what was resolved unless it names the parameter already,
and the template gets into a claim only where a text or field is looked for (`Bindable`, kept
through `Trustworthy`, `Sanitised`, `Unquoted` and `Resolved`). That there is a `done` among the kept
attempts at all is an induction over the recording (`KeepingMeans`, `KeptMeans`): a `done` that ran
is kept or repeats one that is. `TemplateAssumption` is needed because the code recognises a bound
claim by its braces (`_binds_a_parameter`): a page that showed `{{member}}` would be taken for bound.

Success then means that the checkpoint, bound to the caller's member, holds on the page reached.
`RecordsAreTheirs` says that a member's value is seen only on that member's pages, or nobody's: what
the code relies on and does not check. It is a hypothesis and no assumption of the module because it
is not true of every application: `MCCompiler` has TLC evaluate that it holds with the member 22841
and not with 1234, and `wrong_record` is the replay that ends on the wrong record there.

The other theorems relate a replay to the recording it was compiled from, step by step, across a
page and what the member sees of it (`Seen`). They need what the code takes for granted of the
application and of the planner, and they are hypotheses for the same reason; TLC evaluates in
`MCCompiler` that the application there meets both:

- `ApplicationIsRegular`: a page has the same elements for every member, in other words only where
  both are values; figures, once changed, make no difference to where an action leads; the path has
  the member where it had the recorded one; a label stands once on its page (otherwise
  `wrong_row`, above); and a field shows what was typed into it.
- `PlansAreRegular`: a control is named in words and not by a value, only what is typed is the
  member's number itself, and a claim mentions it only where it is put back: in a text, or in
  the field it was typed into.

`FollowInv` is the second invariant.

- `RecordInv`: if repeats are idle, the kept attempts form a chain (`Chained`), each made on the page
  the one before led to and the last leading to the page in the browser. It is what
  `_executed_steps` has to achieve, through failed actions, slow pages, and retries that repeat
  an old intent against an old snapshot. A retry of an attempt that ran repeats the last one kept and
  is dropped; a retry of one that did not run was decided on the page that is still there; so
  every attempt that is kept was decided on the page it was made on (`TriedMeans`, `BusyAttempt`).
- `DoneInv`: the one `done` is the last attempt and the last one kept.
- `PerformsInv`: labels or not, a capability does what was kept, in order, to the same elements.
- `FollowsInv`: before each step the replay is on the page the recording was decided on, as the
  member sees it, and has read what stands there now. The step from one to the next is
  `StepIsSeen`: the element is found at the recorded position, past its label, which is the only one
  of its name, or by its own name and occurrence, which are the same on both pages (`TargetIsFound`,
  with the counting lemmas that `TargetingProofs` uses too).

`ClaimedInv` and `OutcomeInv` are the third.

- `ClaimedInv`: a claim of the capability is what was compiled for its step, or one of those a label
  may put there; the same for the checkpoint; nothing was refused; and a capability replayed for
  another member has a parameter.
- `OutcomeInv`: a replay of what is reliable fails in no claim. That is a case for every rule of the
  compiler. A disproved claim was replaced by something that is true of the page it
  is made of (`HoldsTrusted`). A claim with the parameter in it, bound, is the recorded one put to the
  member, or about a field that shows what was just typed (`SanitisedBinds`, `TypedIsShown`). A
  weakened claim is about that field, about a URL that named the recorded member and now
  names this one (`PathSeen`), or about the entry path (`WeakenedClaimHolds`). A checkpoint is one of
  those, or the `done`'s own: then it quotes no answer, since whatever was read is read by
  a step that is kept (`ReadsKept`), and there is no parameter, so the member is the recorded
  one (`CheckpointHolds`).

The proofs corrected the properties, all of which TLC had found to hold in the instance. A
repeat that returned something else than the first time had to be excluded (`RepeatsAreIdle` asked
only where it led): it is dropped, and the replay returns the first answer. A claim about the
URL, or that something is absent, had been excepted as if it quoted what was read; it is not any
more. Claims count as generalised by the attempt they were made in (`Generalised`), unless the same
attempt also stands unchanged. And the exception `SubstituteStands` was missing.

### Only model-checked

- `RunEnds`, the fairness part of `KeepsContract`, and that discovery ends: liveness under fairness
  is beyond the prover.
- The properties of section 6, which are false: TLC prints their counterexamples.

Every invariant and action property that a passing run checks is stated by a theorem.

## 5. What the properties do not say

- A person who has been given the session may do anything at the page; nothing is checked about
  what they do there. What they say about the step is believed.
- Two people at one session: who of them wins is out of the code's scope, and of the models'.
- `YieldedUntilResumed` speaks of a position that was announced. After a timeout the run is
  over, and after a `resume` the run goes on even if somebody takes the lease again
  (`NoActionUnderAHumanLease`, below).
- `Reliable` in `Compiler` leaves out recordings in which the same action was done twice in a row
  with different effects or answers, several `done`s were executed, or a disproved claim had nothing
  to be replaced by. `CheckpointWasBornOut` and `RightRecord` are stated without it.
- `CleanRecordingReplays` leaves out a checkpoint that was borrowed from a step and is not true where
  the flow ends (`SubstituteStands`). Its theorem and that of `ReadsTheRecordedRow` are about regular
  applications only (`ApplicationIsRegular`, `PlansAreRegular`); `MCCompiler` is one.
- `CleanRecordingReplays` asks of a labelled claim only that it be replaceable, and where it became
  "still under the entry path" that this was so in the recording (`EntryClaimsHold`). Where it
  was not, the new claim fails: `NeverWorse`, below.
- `WellFramed`: the properties of `Targeting` leave out pages two of whose frames have the same URL.
  `Mirrored` is such a page; there both frames are given one tree, and the second is stamped over.
- `Unambiguous`: `FoundAgain` leaves out targets whose label stands twice in the target's scope
  or stands in another frame than the target, and targets in one of two frames of one name;
  `TakesTheRecordedOne` does not. (`_derive_anchor` counts back over the whole snapshot,
  `_match_by_anchor` forward within the scope, so a label across a frame's border is not found
  again, or another of its name is found in its place.)
- `FreshAttemptHitsItsTarget` and `FreshAttemptIsGuarded` say nothing of a retry
  (`NothingOffLimitsIsTouched`), and the second speaks of the name a node had in the snapshot, not of
  the one it has when it is touched (`NothingIrreversibleIsTouched`).
- `MissingIsReported` excepts a main frame that could not be read (`UnreadFrameTripsTheGate`), and
  controls of the tree that the document has no node for, which are passed over without a word.
- `DocumentsFoundReport` and `FoundIsHeardAtFirst` speak of documents that `start` came to and not of
  those loaded later (`EveryDocumentReports`). `FoundIsHeardAtFirst` speaks of the first handoff only,
  and `WrittenIsTheirs` allows that nothing of a later one is written (`EveryHandoffIsHeard`).
- `StalledMeansNoVisibleMove` is about navigations and clicks, as the rule is. What a select, a typed
  field or a person did to the page between two of them is not in its history either.
- In the run `compiler` the members' numbers have nothing in common: there `RightRecord` is about a
  checkpoint that names the member at all, and only `wrong_record` has one number inside another.

## 6. Findings

| run | code | disagrees with |
|---|---|---|
| `performed_repeat` | `resume` returns the lease before it writes the disposition; a run that polls in between reads no disposition, which is retry, and repeats a step done by hand | `intervention.py:162`, `engine.py:318` |
| `human_lease` | after the wait the gate is released; a late `take` makes the lease human and the run goes on | the repository's `README.md:295`, `session/lease.py:16` |
| `retry_off_limits` | verifying the original attempt stamps the page anew; policy judges the retry by the old snapshot, and the old number names a control it would have halted on | `loop.py:5`, `loop.py:229`, `config/default.yaml:25` |
| `wrong_row` | the anchor takes the first neighbour of its name and never counts: of two rows with one label the first is read, on the very page of the recording | `models.py:76-78` |
| `wrong_record` | the bound checkpoint is a substring test: `1234` is satisfied by `/member/12345` | `compiler.py:667`, `compiler.py:698` |

Each is a run that checks one property, worded as the quoted sentence has it, and the
shortest trace TLC prints is the scenario. `PROJECT.json` has them in full.

Nine more are stated in the modules, each with a configuration that has TLC print its scenario
(`tlc -config <file>.cfg <module>`), and are not among the runs:

| property, configuration | code | disagrees with |
|---|---|---|
| `PendingHasARunWaiting`, `MCHandoffPending` of `MCHandoff` | a run that timed out (`escalate.py:129`) leaves its lease human, and the dead intervention is listed as waiting | `intervention.py:251` |
| `RecoveriesAreReported`, `MCReplayRecoveriesAreReported` of `MCReplayEngine` | no hard failure carries the recoveries before it (`engine.py:450`) | `outcomes.py:13-16`, `cli.py:518` |
| `CheckpointWasBornOut`, `MCCompilerCheckpointWasBornOut` of `MCCompiler` | of two consecutive `done`s the first is kept, whose claim was found false (`compiler.py:246`) | `models.py:218`, `compiler.py:11` |
| `NeverWorse`, `MCCompilerNeverWorse` of `MCCompiler` | a labelled click that led outside the entry path is given the claim that it did not (`generalize.py:187`) | `semantics.py:28` |
| `FewerMatchesFail`, `MCTargetingFewerMatchesFail` of `MCTargeting` | a page with fewer exact matches than the recording falls through to a weaker rung, where the index may fit (`engine.py:632`) | `engine.py:628-630` |
| `EveryDocumentReports`, `MCRecorderEveryDocumentReports` of `MCRecorder` | `add_init_script` is given an arrow function that nobody calls (`web_handoff.py:104`): a document loaded after `start` has no listener. The tests use a page that only stores the script | `web_handoff.py:12-15` |
| `UnreadFrameTripsTheGate`, `MCTargetingUnreadFrameTripsTheGate` of `MCTargeting` | a frame that cannot be read has no elements, but the main frame is never an empty frame (`web_perception.py:239`): the controls of a child frame are enough for a good report | `web_perception.py:346-347` |
| `NothingIrreversibleIsTouched`, `MCDiscoveryIrreversible` of `MCDiscovery` | policy judges the name in the snapshot (`loop.py:309`); the node is clicked by its stamp, under whatever name the page has given it since, also by a first attempt | `types.py:45`, `config/default.yaml:25` |
| `EveryHandoffIsHeard`, `MCRecorderEveryHandoffIsHeard` of `MCRecorder` | the binding stays with the first handoff's recorder; what is clicked in the second goes to a list nobody writes (`web_handoff.py:102`) | `web_handoff.py:99-100` |

## 7. What is not modelled, and why

- **Planner, LLM client**: the text of the prompt, the schema and the sampling parameters. What
  matters of it, that it answers anything, or nothing, and is asked once more, is in `Discovery`.
- **Redaction**: a pure rewriting of strings, which is data and not control.
- **Values, boxes, screenshots** of perception, and how the page finds the label of a node. A pass
  is one step: the page does not change between the reading of one frame and the next, except that a
  node may go before it is stamped. A frame in which no script can be run (`_clear_refs` suppresses
  the error) is left out; the code takes such a frame for one it cannot stamp either.
  Chromium's accessibility tree and Playwright's frames, locators, bindings, init scripts and
  listeners are external: modelled from how this code uses them.
- **Expectation checks**: their five relations are in `Compiler`; case folding and the refusal to
  look into credential fields are not.
- **Recorder**: the description of an element and the scrubbing of its value.
- **Types, artifact store, evidence and summary writers, configuration, printing, the scripts**: no
  protocol. That evidence is written, and when, is in `ReplayEngine` and `Discovery`.
- **Desktop surface**: a stub that raises. **Target application**: a demo, which the
  models let answer as it likes.
- Within `Compiler`: credentials and their sweep, several parameters, names and titles, a label of
  another role than its value. Scopes and the normalised rung are in `Targeting` instead.

## 8. Plan

Modelling that is left:

1. *Compiler*: credentials, by field or by value, and the sweep that takes them out of every
   string; several parameters, one of which occurs in another; the claim of a read whose label has
   another role.
2. A step of `ReplayEngine` and a behaviour of `Targeting` composed, so that what the engine does with a
   target that was found wrongly is one model.

Proofs: what is left is liveness under fairness, which the prover does not reach. A proof about
`CleanRecordingReplays` with less than `ApplicationIsRegular` would have to say what a label that
stands twice leads to, which is `wrong_row`.

Modules are written for it: constants carry named assumptions, every operation is one action,
invariants are conjunctions of named parts, and no module declares a recursive operator.

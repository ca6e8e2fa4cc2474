-------------------------- MODULE ReplayEngineProofs --------------------------
(***************************************************************************)
(* Proofs about ReplayEngine, for every capability and any digests.        *)
(***************************************************************************)
EXTENDS ReplayEngine, TLAPS, SequenceTheorems

(***************************************************************************)
(* The inductive invariant, in named parts.                                *)
(***************************************************************************)
\* Where the run can be, and which result it has in hand there.
PlaceInv ==
  /\ pc \in {"guard", "act", "observe"} => at \in Steps
  /\ pc = "handoff" => ~retrying /\ result.status = "failure"
  /\ pc \in Attempting => result = Pending
  /\ pc \in Over => result.status # "none"
  /\ result.status = "success" => at = Checkpoint

\* The session is open between OpenSession and StopSurface only.
SessionInv == pc \in {"request", "open", "writing", "done"} => ~open

\* The handoffs that came back are in the list of recoveries, each once, at
\* positions the run has left or tries again; a result that carries the list
\* carries all of it.
ReportInv ==
  /\ ReportsHandoffs(recoveries)
  /\ \A p \in returned : p <= at /\ (p = at => retrying)
  /\ result.status \in {"success", "business"} => result.recoveries = recoveries

\* A credential counts as entered before the action that types it; when that
\* action has not happened, the step with the credential is still the one at
\* hand.  Signed in means a password field was seen to go away.
LoginInv ==
  /\ progress.entered /\ login = "none" =>
       \/ pc \in Over
       \/ /\ pc \in {"look", "guard", "act", "handoff"}
          /\ at \in Steps
          /\ Capability[at].credential
  /\ progress.signedIn => login = "in"

\* The streak is a count of the last entries of the history.
StreakInv ==
  /\ progress.streak > 0 => moves.last = "same"
  /\ progress.streak > 1 => moves = [before |-> "same", last |-> "same"]

\* A hint in hand is about the page and the history as they still are.
HintInv ==
  /\ AuthExpiredMeansSignedOut
  /\ StalledMeansNoVisibleMove

\* Every read the run has passed left a value, or was left to a person.
OutputInv ==
  \A s \in Steps :
    s < at /\ Capability[s].action = "read" => s \in outputs \cup skipped

IInv ==
  /\ TypeOK
  /\ PlaceInv
  /\ SessionInv
  /\ EvidenceForEveryAttempt
  /\ ReportInv
  /\ LoginInv
  /\ StreakInv
  /\ HintInv
  /\ OutputInv
-------------------------------------------------------------------------------
(***************************************************************************)
(* Lemmas about the operators.                                             *)
(***************************************************************************)
\* A capability has a natural number of steps, so steps and positions are
\* intervals of numbers.
LEMMA LengthIsNatural == N \in Nat
BY CapabilityAssumption DEF N

\* The result in hand is one the engine can build.
ResultOK(r) ==
  /\ r.status \in {"none", "success", "business", "failure", "escaped"}
  /\ r.kind \in FailureKinds \cup {"none"}
  /\ r.hint \in Hints
  /\ r.recoveries \in Seq(Recovery)

\* Every result the engine builds is well typed.
LEMMA ResultTypes ==
  /\ ResultOK(Pending) /\ ResultOK(Escaped)
  /\ \A kind \in FailureKinds, hint \in Hints : ResultOK(HardFailure(kind, hint))
  /\ \A list \in Seq(Recovery), status \in {"business", "success"} :
       ResultOK(Answered(status, list))
BY DEF ResultOK, Pending, Escaped, HardFailure, Answered, FailureKinds, Hints

\* The failures of the engine's exits, and what can be hinted at, are known.
LEMMA Kinds ==
  /\ {"target_not_found", "action_failed", "expectation_failed", "checkpoint_failed",
      "policy_halted", "invalid_request", "surface_error"} \subseteq FailureKinds
  /\ "none" \in Hints
  /\ \A p, state : Hint(p, state) \in Hints
BY DEF FailureKinds, Hints, Hint

\* What tells the results apart.
LEMMA Outcomes ==
  /\ Pending.status = "none" /\ Pending.hint = "none"
  /\ Escaped.status = "escaped" /\ Escaped.hint = "none"
  /\ \A kind, hint : /\ HardFailure(kind, hint).status = "failure"
                     /\ HardFailure(kind, hint).hint = hint
  /\ \A status, list :
       LET r == Answered(status, list)
       IN  r.status = status /\ r.hint = "none" /\ r.recoveries = list
BY DEF Pending, Escaped, HardFailure, Answered

\* When the history of the run says which hint.
LEMMA HintMeans ==
  ASSUME NEW p, NEW state
  PROVE  /\ Hint(p, state) = "auth_expired" => p.signedIn /\ state.password
         /\ Hint(p, state) = "no_progress_n_steps" => p.streak >= 2
BY DEF Hint, NO_PROGRESS_THRESHOLD

ProgressType == [streak : Nat, entered : BOOLEAN, signedIn : BOOLEAN]

\* What looking at the page after an action does to the run's progress.
LEMMA RecordMeans ==
  ASSUME NEW p \in ProgressType, NEW action, NEW before \in UIState, NEW after \in UIState
  PROVE  LET q == Record(p, action, before, after)
         IN  /\ q \in ProgressType
             /\ q.entered = p.entered
             /\ q.signedIn = (p.signedIn \/ (p.entered /\ ~after.password))
             /\ q.streak = IF action \notin DIGEST_VISIBLE_ACTIONS THEN p.streak
                           ELSE IF before.digest = after.digest THEN p.streak + 1 ELSE 0
<1>1. /\ NoteSignIn(p, after) \in ProgressType
      /\ NoteSignIn(p, after).streak = p.streak
      /\ NoteSignIn(p, after).entered = p.entered
      /\ NoteSignIn(p, after).signedIn = (p.signedIn \/ (p.entered /\ ~after.password))
  BY DEF NoteSignIn, UIState, ProgressType
<1> QED
  BY <1>1 DEF Record, ProgressType

\* Counting one more keeps a table of counters one.
LEMMA Counted ==
  ASSUME NEW f \in [Steps -> Nat], NEW x \in Steps
  PROVE  [f EXCEPT ![x] = @ + 1] \in [Steps -> Nat]
OBVIOUS

\* One more recovery keeps the list of recoveries one.
LEMMA Appended ==
  ASSUME NEW list \in Seq(Recovery), NEW p \in Positions,
         NEW c \in {"second look", "escalated"}
  PROVE  Append(list, [step |-> p, condition |-> c]) \in Seq(Recovery)
<1>1. [step |-> p, condition |-> c] \in Recovery
  BY DEF Recovery
<1> QED
  BY <1>1, AppendProperties

-------------------------------------------------------------------------------
(***************************************************************************)
(* Every step keeps the parts of the invariant.                            *)
(***************************************************************************)
\* Every step keeps the variables within their types.
LEMMA TypeStep ==
  ASSUME TypeOK, PlaceInv, [Next]_vars
  PROVE  TypeOK'
<1>1. ASSUME Validate
     PROVE  TypeOK'
  BY <1>1, TypeOK, ResultTypes, Kinds
  DEF Validate, placeVars, progressVars, historyVars, TypeOK, Attempting, Over, ResultOK
<1>2. ASSUME OpenSession
     PROVE  TypeOK'
  BY <1>2, TypeOK, ResultTypes, Kinds
  DEF OpenSession, Return, placeVars, progressVars, historyVars, TypeOK, Attempting, Over,
      ResultOK
<1>3. ASSUME LookForTarget
     PROVE  TypeOK'
  <2>0. ResultOK(result)
    BY TypeOK DEF TypeOK, ResultOK
  <2>1. (/\ escalation \in BOOLEAN /\ retrying \in BOOLEAN
         /\ open \in BOOLEAN /\ written \in BOOLEAN
         /\ pc \in Attempting \cup {"handoff"} \cup Over
         /\ login \in {"none", "given", "in"})'
    BY <1>3, TypeOK
    DEF LookForTarget, Fail, Recorded, placeVars, historyVars, TypeOK, Attempting, Over
  <2>2. (at \in Positions)'
    BY <1>3, TypeOK, LengthIsNatural
    DEF LookForTarget, Fail, Recorded, placeVars, historyVars, TypeOK, Positions, Steps
  <2>3. (/\ page \in UIState
         /\ progress \in [streak : Nat, entered : BOOLEAN, signedIn : BOOLEAN]
         /\ moves \in [before : Moves, last : Moves])'
    BY <1>3, TypeOK
    DEF LookForTarget, Fail, Recorded, placeVars, historyVars, TypeOK
  <2>4. (/\ recoveries \in Seq(Recovery) /\ outputs \subseteq Steps
         /\ returned \subseteq Positions /\ skipped \subseteq Steps)'
    BY <1>3, TypeOK, Appended
    DEF LookForTarget, Fail, Recorded, placeVars, historyVars, TypeOK
  <2>5. ResultOK(result')
    BY <1>3, <2>0, ResultTypes, Kinds
    DEF LookForTarget, Fail, Recorded, placeVars, historyVars
  <2>6. (records \in [Steps -> Nat] /\ attempts \in [Steps -> Nat])'
    <3>1. /\ Recorded \/ records' = records
          /\ at \in Steps \/ UNCHANGED <<records, attempts>>
      BY <1>3, PlaceInv DEF LookForTarget, Fail, placeVars, historyVars, PlaceInv
    <3>2. (records \in [Steps -> Nat])'
      BY <3>1, TypeOK, Counted DEF Recorded, TypeOK
    <3>3. (attempts \in [Steps -> Nat])'
      BY <1>3, <3>1, TypeOK, Counted DEF LookForTarget, TypeOK
    <3> QED
      BY <3>2, <3>3
  <2> QED
    BY <2>1, <2>2, <2>3, <2>4, <2>5, <2>6 DEF TypeOK, ResultOK
<1>4. ASSUME CheckPolicy
     PROVE  TypeOK'
  <2>0. ResultOK(result)
    BY TypeOK DEF TypeOK, ResultOK
  <2>1. (/\ escalation \in BOOLEAN /\ retrying \in BOOLEAN
         /\ open \in BOOLEAN /\ written \in BOOLEAN
         /\ pc \in Attempting \cup {"handoff"} \cup Over
         /\ login \in {"none", "given", "in"})'
    BY <1>4, TypeOK
    DEF CheckPolicy, Fail, Recorded, placeVars, historyVars, TypeOK, Attempting, Over
  <2>2. (at \in Positions)'
    BY <1>4, TypeOK, LengthIsNatural
    DEF CheckPolicy, Fail, Recorded, placeVars, historyVars, TypeOK, Positions, Steps
  <2>3. (/\ page \in UIState
         /\ progress \in [streak : Nat, entered : BOOLEAN, signedIn : BOOLEAN]
         /\ moves \in [before : Moves, last : Moves])'
    BY <1>4, TypeOK
    DEF CheckPolicy, Fail, Recorded, placeVars, historyVars, TypeOK
  <2>4. (/\ recoveries \in Seq(Recovery) /\ outputs \subseteq Steps
         /\ returned \subseteq Positions /\ skipped \subseteq Steps)'
    BY <1>4, TypeOK
    DEF CheckPolicy, Fail, Recorded, placeVars, historyVars, TypeOK
  <2>5. ResultOK(result')
    BY <1>4, <2>0, ResultTypes, Kinds
    DEF CheckPolicy, Fail, Recorded, placeVars, historyVars
  <2>6. (records \in [Steps -> Nat] /\ attempts \in [Steps -> Nat])'
    <3>1. /\ Recorded \/ records' = records
          /\ at \in Steps \/ UNCHANGED <<records, attempts>>
      BY <1>4, PlaceInv DEF CheckPolicy, Fail, placeVars, historyVars, PlaceInv
    <3>2. (records \in [Steps -> Nat])'
      BY <3>1, TypeOK, Counted DEF Recorded, TypeOK
    <3>3. (attempts \in [Steps -> Nat])'
      BY <1>4, <3>1, TypeOK, Counted DEF CheckPolicy, TypeOK
    <3> QED
      BY <3>2, <3>3
  <2> QED
    BY <2>1, <2>2, <2>3, <2>4, <2>5, <2>6 DEF TypeOK, ResultOK
<1>5. ASSUME Act
     PROVE  TypeOK'
  <2>0. ResultOK(result)
    BY TypeOK DEF TypeOK, ResultOK
  <2>1. (/\ escalation \in BOOLEAN /\ retrying \in BOOLEAN
         /\ open \in BOOLEAN /\ written \in BOOLEAN
         /\ pc \in Attempting \cup {"handoff"} \cup Over
         /\ login \in {"none", "given", "in"})'
    BY <1>5, TypeOK
    DEF Act, Fail, Return, Recorded, placeVars, TypeOK, Attempting, Over
  <2>2. (at \in Positions)'
    BY <1>5, TypeOK, LengthIsNatural
    DEF Act, Fail, Return, Recorded, placeVars, TypeOK, Positions, Steps
  <2>3. (/\ page \in UIState
         /\ progress \in [streak : Nat, entered : BOOLEAN, signedIn : BOOLEAN]
         /\ moves \in [before : Moves, last : Moves])'
    BY <1>5, TypeOK
    DEF Act, Fail, Return, Recorded, placeVars, TypeOK
  <2>4. (/\ recoveries \in Seq(Recovery) /\ outputs \subseteq Steps
         /\ returned \subseteq Positions /\ skipped \subseteq Steps)'
    BY <1>5, TypeOK, PlaceInv
    DEF Act, Fail, Return, Recorded, placeVars, TypeOK, PlaceInv
  <2>5. ResultOK(result')
    BY <1>5, <2>0, ResultTypes, Kinds
    DEF Act, Fail, Return, Recorded, placeVars
  <2>6. (records \in [Steps -> Nat] /\ attempts \in [Steps -> Nat])'
    <3>1. /\ Recorded \/ records' = records
          /\ at \in Steps \/ UNCHANGED <<records, attempts>>
      BY <1>5, PlaceInv DEF Act, Fail, Return, placeVars, PlaceInv
    <3>2. (records \in [Steps -> Nat])'
      BY <3>1, TypeOK, Counted DEF Recorded, TypeOK
    <3>3. (attempts \in [Steps -> Nat])'
      BY <1>5, <3>1, TypeOK, Counted DEF Act, TypeOK
    <3> QED
      BY <3>2, <3>3
  <2> QED
    BY <2>1, <2>2, <2>3, <2>4, <2>5, <2>6 DEF TypeOK, ResultOK
<1>6. ASSUME Observe
     PROVE  TypeOK'
  <2>0. ResultOK(result)
    BY TypeOK DEF TypeOK, ResultOK
  <2>1. (/\ escalation \in BOOLEAN /\ retrying \in BOOLEAN
         /\ open \in BOOLEAN /\ written \in BOOLEAN
         /\ pc \in Attempting \cup {"handoff"} \cup Over
         /\ login \in {"none", "given", "in"})'
    BY <1>6, TypeOK
    DEF Observe, Fail, Return, MoveOn, Recorded, TypeOK, Attempting, Over
  <2>2. (at \in Positions)'
    BY <1>6, TypeOK, LengthIsNatural, PlaceInv
    DEF Observe, Fail, Return, MoveOn, Recorded, TypeOK, Positions, Steps, PlaceInv
  <2>3. (/\ page \in UIState
         /\ progress \in [streak : Nat, entered : BOOLEAN, signedIn : BOOLEAN]
         /\ moves \in [before : Moves, last : Moves])'
    BY <1>6, TypeOK, RecordMeans
    DEF Observe, Fail, Return, MoveOn, Recorded, TypeOK, ProgressType, Moves
  <2>4. (/\ recoveries \in Seq(Recovery) /\ outputs \subseteq Steps
         /\ returned \subseteq Positions /\ skipped \subseteq Steps)'
    BY <1>6, TypeOK
    DEF Observe, Fail, Return, MoveOn, Recorded, TypeOK
  <2>5. ResultOK(result')
    BY <1>6, <2>0, ResultTypes, Kinds, TypeOK
    DEF Observe, Fail, Return, MoveOn, Recorded, TypeOK
  <2>6. (records \in [Steps -> Nat] /\ attempts \in [Steps -> Nat])'
    <3>1. /\ Recorded \/ records' = records
          /\ at \in Steps \/ UNCHANGED <<records, attempts>>
      BY <1>6, PlaceInv DEF Observe, Fail, Return, MoveOn, PlaceInv
    <3>2. (records \in [Steps -> Nat])'
      BY <3>1, TypeOK, Counted DEF Recorded, TypeOK
    <3>3. (attempts \in [Steps -> Nat])'
      BY <1>6, <3>1, TypeOK, Counted DEF Observe, TypeOK
    <3> QED
      BY <3>2, <3>3
  <2> QED
    BY <2>1, <2>2, <2>3, <2>4, <2>5, <2>6 DEF TypeOK, ResultOK
<1>7. ASSUME AssertCheckpoint
     PROVE  TypeOK'
  <2>0. ResultOK(result)
    BY TypeOK DEF TypeOK, ResultOK
  <2>1. (/\ escalation \in BOOLEAN /\ retrying \in BOOLEAN
         /\ open \in BOOLEAN /\ written \in BOOLEAN
         /\ pc \in Attempting \cup {"handoff"} \cup Over
         /\ login \in {"none", "given", "in"})'
    BY <1>7, TypeOK
    DEF AssertCheckpoint, Fail, Return, placeVars, historyVars, TypeOK, Attempting, Over
  <2>2. (at \in Positions)'
    BY <1>7, TypeOK, LengthIsNatural
    DEF AssertCheckpoint, Fail, Return, placeVars, historyVars, TypeOK, Positions, Steps
  <2>3. (/\ page \in UIState
         /\ progress \in [streak : Nat, entered : BOOLEAN, signedIn : BOOLEAN]
         /\ moves \in [before : Moves, last : Moves])'
    BY <1>7, TypeOK
    DEF AssertCheckpoint, Fail, Return, placeVars, historyVars, TypeOK
  <2>4. (/\ recoveries \in Seq(Recovery) /\ outputs \subseteq Steps
         /\ returned \subseteq Positions /\ skipped \subseteq Steps)'
    BY <1>7, TypeOK
    DEF AssertCheckpoint, Fail, Return, placeVars, historyVars, TypeOK
  <2>5. ResultOK(result')
    BY <1>7, <2>0, ResultTypes, Kinds, TypeOK
    DEF AssertCheckpoint, Fail, Return, placeVars, historyVars, TypeOK
  <2>6. (records \in [Steps -> Nat] /\ attempts \in [Steps -> Nat])'
    BY <1>7, TypeOK
    DEF AssertCheckpoint, Fail, Return, placeVars, historyVars, TypeOK
  <2> QED
    BY <2>1, <2>2, <2>3, <2>4, <2>5, <2>6 DEF TypeOK, ResultOK
<1>8. ASSUME PerceptionRaises
     PROVE  TypeOK'
  <2>0. ResultOK(result)
    BY TypeOK DEF TypeOK, ResultOK
  <2>1. (/\ escalation \in BOOLEAN /\ retrying \in BOOLEAN
         /\ open \in BOOLEAN /\ written \in BOOLEAN
         /\ pc \in Attempting \cup {"handoff"} \cup Over
         /\ login \in {"none", "given", "in"})'
    BY <1>8, TypeOK
    DEF PerceptionRaises, Return, Recorded, placeVars, progressVars, historyVars, TypeOK,
        Attempting, Over
  <2>2. (at \in Positions)'
    BY <1>8, TypeOK, LengthIsNatural
    DEF PerceptionRaises, Return, Recorded, placeVars, progressVars, historyVars, TypeOK,
        Positions, Steps
  <2>3. (/\ page \in UIState
         /\ progress \in [streak : Nat, entered : BOOLEAN, signedIn : BOOLEAN]
         /\ moves \in [before : Moves, last : Moves])'
    BY <1>8, TypeOK
    DEF PerceptionRaises, Return, Recorded, placeVars, progressVars, historyVars, TypeOK
  <2>4. (/\ recoveries \in Seq(Recovery) /\ outputs \subseteq Steps
         /\ returned \subseteq Positions /\ skipped \subseteq Steps)'
    BY <1>8, TypeOK
    DEF PerceptionRaises, Return, Recorded, placeVars, progressVars, historyVars, TypeOK
  <2>5. ResultOK(result')
    BY <1>8, <2>0, ResultTypes, Kinds
    DEF PerceptionRaises, Return, Recorded, placeVars, progressVars, historyVars
  <2>6. (records \in [Steps -> Nat] /\ attempts \in [Steps -> Nat])'
    <3>1. /\ Recorded \/ records' = records
          /\ at \in Steps \/ UNCHANGED <<records, attempts>>
      BY <1>8, PlaceInv DEF PerceptionRaises, Return, placeVars, progressVars,
         historyVars, PlaceInv
    <3>2. (records \in [Steps -> Nat])'
      BY <3>1, TypeOK, Counted DEF Recorded, TypeOK
    <3>3. (attempts \in [Steps -> Nat])'
      BY <1>8, <3>1, TypeOK, Counted DEF PerceptionRaises, TypeOK
    <3> QED
      BY <3>2, <3>3
  <2> QED
    BY <2>1, <2>2, <2>3, <2>4, <2>5, <2>6 DEF TypeOK, ResultOK
<1>9. ASSUME NobodyCame
     PROVE  TypeOK'
  BY <1>9, TypeOK, ResultTypes, Kinds
  DEF NobodyCame, placeVars, progressVars, historyVars, tellingVars, TypeOK, Attempting,
      Over, ResultOK
<1>10. ASSUME HandoffRaises
     PROVE  TypeOK'
  BY <1>10, TypeOK, ResultTypes, Kinds
  DEF HandoffRaises, Return, placeVars, progressVars, historyVars, TypeOK, Attempting,
      Over, ResultOK
<1>11. ASSUME SessionReturned
     PROVE  TypeOK'
  <2>0. ResultOK(result)
    BY TypeOK DEF TypeOK, ResultOK
  <2>1. (/\ escalation \in BOOLEAN /\ retrying \in BOOLEAN
         /\ open \in BOOLEAN /\ written \in BOOLEAN
         /\ pc \in Attempting \cup {"handoff"} \cup Over
         /\ login \in {"none", "given", "in"})'
    BY <1>11, TypeOK
    DEF SessionReturned, MoveOn, TypeOK, Attempting, Over
  <2>2. (at \in Positions)'
    BY <1>11, TypeOK, LengthIsNatural
    DEF SessionReturned, MoveOn, TypeOK, Positions, Steps
  <2>3. (/\ page \in UIState
         /\ progress \in [streak : Nat, entered : BOOLEAN, signedIn : BOOLEAN]
         /\ moves \in [before : Moves, last : Moves])'
    BY <1>11, TypeOK
    DEF SessionReturned, MoveOn, TypeOK
  <2>4. (/\ recoveries \in Seq(Recovery) /\ outputs \subseteq Steps
         /\ returned \subseteq Positions /\ skipped \subseteq Steps)'
    BY <1>11, TypeOK, Appended
    DEF SessionReturned, MoveOn, TypeOK
  <2>5. ResultOK(result')
    BY <1>11, <2>0, ResultTypes, Kinds
    DEF SessionReturned, MoveOn
  <2>6. (records \in [Steps -> Nat] /\ attempts \in [Steps -> Nat])'
    BY <1>11, TypeOK
    DEF SessionReturned, MoveOn, TypeOK
  <2> QED
    BY <2>1, <2>2, <2>3, <2>4, <2>5, <2>6 DEF TypeOK, ResultOK
<1>12. ASSUME StopSurface
     PROVE  TypeOK'
  BY <1>12, TypeOK, ResultTypes, Kinds
  DEF StopSurface, placeVars, progressVars, historyVars, tellingVars, TypeOK, Attempting,
      Over, ResultOK
<1>13. ASSUME WriteResult
     PROVE  TypeOK'
  BY <1>13, TypeOK, ResultTypes, Kinds
  DEF WriteResult, placeVars, progressVars, historyVars, tellingVars, TypeOK, Attempting,
      Over, ResultOK
<1>14. ASSUME UNCHANGED vars
     PROVE  TypeOK'
  BY <1>14, TypeOK, ResultTypes, Kinds
  DEF vars, TypeOK, Attempting, Over, ResultOK
<1> QED
  BY <1>1, <1>2, <1>3, <1>4, <1>5, <1>6, <1>7, <1>8, <1>9, <1>10, <1>11, <1>12, <1>13, <1>14
  DEF Next, Replay, Terminated

\* The engine looks at, guards, executes and checks steps with no result in hand,
\* hands over a failure only, and succeeds at the checkpoint only.
LEMMA PlaceStep ==
  ASSUME TypeOK, PlaceInv, [Next]_vars
  PROVE  PlaceInv'
<1>1. ASSUME Validate
     PROVE  PlaceInv'
  BY <1>1, TypeOK, PlaceInv
  DEF Validate, HardFailure, Pending, placeVars, progressVars, historyVars, TypeOK,
      PlaceInv, Attempting, Over, Checkpoint
<1>2. ASSUME OpenSession
     PROVE  PlaceInv'
  BY <1>2, TypeOK, PlaceInv
  DEF OpenSession, Return, HardFailure, Escaped, Pending, placeVars, progressVars,
      historyVars, TypeOK, PlaceInv, Attempting, Over, Checkpoint
<1>3. ASSUME LookForTarget
     PROVE  PlaceInv'
  BY <1>3, TypeOK, PlaceInv
  DEF LookForTarget, Fail, HandOver, HardFailure, Pending, Recorded, placeVars,
      historyVars, TypeOK, PlaceInv, Attempting, Over, Checkpoint
<1>4. ASSUME CheckPolicy
     PROVE  PlaceInv'
  BY <1>4, TypeOK, PlaceInv
  DEF CheckPolicy, Fail, HandOver, HardFailure, Pending, Recorded, placeVars, historyVars,
      TypeOK, PlaceInv, Attempting, Over, Checkpoint
<1>5. ASSUME Act
     PROVE  PlaceInv'
  BY <1>5, TypeOK, PlaceInv
  DEF Act, Fail, HandOver, Return, HardFailure, Pending, Recorded, placeVars, TypeOK,
      PlaceInv, Attempting, Over, Checkpoint
<1>6. ASSUME Observe
     PROVE  PlaceInv'
  <2>1. pc = "observe" /\ result = Pending /\ at' \in {at, at + 1}
    BY <1>6, PlaceInv DEF Observe, Return, MoveOn, Fail, PlaceInv, Attempting
  <2>2. CASE pc' = "closing" /\ result'.status \in {"business", "failure"}
    BY <2>2 DEF PlaceInv, Attempting, Over
  <2>3. CASE pc' = "look" /\ result' = Pending
    BY <2>3, Outcomes DEF PlaceInv, Attempting, Over
  <2>4. CASE pc' = "handoff" /\ ~retrying' /\ result'.status = "failure"
    BY <2>4 DEF PlaceInv, Attempting, Over
  <2> QED
    BY <1>6, <2>2, <2>3, <2>4, Outcomes DEF Observe, Return, MoveOn, Fail, HandOver
<1>7. ASSUME AssertCheckpoint
     PROVE  PlaceInv'
  BY <1>7, TypeOK, PlaceInv
  DEF AssertCheckpoint, Fail, HandOver, Return, HardFailure, Answered, Pending, placeVars,
      historyVars, TypeOK, PlaceInv, Attempting, Over, Checkpoint
<1>8. ASSUME PerceptionRaises
     PROVE  PlaceInv'
  BY <1>8, TypeOK, PlaceInv
  DEF PerceptionRaises, Return, Escaped, Pending, Recorded, placeVars, progressVars,
      historyVars, TypeOK, PlaceInv, Attempting, Over, Checkpoint
<1>9. ASSUME NobodyCame
     PROVE  PlaceInv'
  BY <1>9, TypeOK, PlaceInv
  DEF NobodyCame, placeVars, progressVars, historyVars, tellingVars, TypeOK, PlaceInv,
      Attempting, Over, Checkpoint
<1>10. ASSUME HandoffRaises
     PROVE  PlaceInv'
  BY <1>10, TypeOK, PlaceInv
  DEF HandoffRaises, Return, Escaped, Pending, placeVars, progressVars, historyVars,
      TypeOK, PlaceInv, Attempting, Over, Checkpoint
<1>11. ASSUME SessionReturned
     PROVE  PlaceInv'
  BY <1>11, TypeOK, PlaceInv
  DEF SessionReturned, MoveOn, Pending, TypeOK, PlaceInv, Attempting, Over, Checkpoint
<1>12. ASSUME StopSurface
     PROVE  PlaceInv'
  BY <1>12, TypeOK, PlaceInv
  DEF StopSurface, placeVars, progressVars, historyVars, tellingVars, TypeOK, PlaceInv,
      Attempting, Over, Checkpoint
<1>13. ASSUME WriteResult
     PROVE  PlaceInv'
  BY <1>13, TypeOK, PlaceInv
  DEF WriteResult, placeVars, progressVars, historyVars, tellingVars, TypeOK, PlaceInv,
      Attempting, Over, Checkpoint
<1>14. ASSUME UNCHANGED vars
     PROVE  PlaceInv'
  BY <1>14, TypeOK, PlaceInv
  DEF vars, TypeOK, PlaceInv, Attempting, Over, Checkpoint
<1> QED
  BY <1>1, <1>2, <1>3, <1>4, <1>5, <1>6, <1>7, <1>8, <1>9, <1>10, <1>11, <1>12, <1>13, <1>14
  DEF Next, Replay, Terminated

\* The session opens when the engine opens it and is stopped on the way out.
LEMMA SessionStep ==
  ASSUME TypeOK, SessionInv, [Next]_vars
  PROVE  SessionInv'
<1>1. ASSUME Validate
     PROVE  SessionInv'
  BY <1>1, TypeOK, SessionInv
  DEF Validate, placeVars, progressVars, historyVars, TypeOK, SessionInv, Attempting, Over
<1>2. ASSUME OpenSession
     PROVE  SessionInv'
  BY <1>2, TypeOK, SessionInv
  DEF OpenSession, Return, placeVars, progressVars, historyVars, TypeOK, SessionInv,
      Attempting, Over
<1>3. ASSUME LookForTarget
     PROVE  SessionInv'
  BY <1>3, TypeOK, SessionInv
  DEF LookForTarget, Fail, Recorded, placeVars, historyVars, TypeOK, SessionInv,
      Attempting, Over
<1>4. ASSUME CheckPolicy
     PROVE  SessionInv'
  BY <1>4, TypeOK, SessionInv
  DEF CheckPolicy, Fail, Recorded, placeVars, historyVars, TypeOK, SessionInv, Attempting,
      Over
<1>5. ASSUME Act
     PROVE  SessionInv'
  BY <1>5, TypeOK, SessionInv
  DEF Act, Fail, Return, Recorded, placeVars, TypeOK, SessionInv, Attempting, Over
<1>6. ASSUME Observe
     PROVE  SessionInv'
  BY <1>6, TypeOK, SessionInv
  DEF Observe, Fail, Return, MoveOn, Recorded, TypeOK, SessionInv, Attempting, Over
<1>7. ASSUME AssertCheckpoint
     PROVE  SessionInv'
  BY <1>7, TypeOK, SessionInv
  DEF AssertCheckpoint, Fail, Return, placeVars, historyVars, TypeOK, SessionInv,
      Attempting, Over
<1>8. ASSUME PerceptionRaises
     PROVE  SessionInv'
  BY <1>8, TypeOK, SessionInv
  DEF PerceptionRaises, Return, Recorded, placeVars, progressVars, historyVars, TypeOK,
      SessionInv, Attempting, Over
<1>9. ASSUME NobodyCame
     PROVE  SessionInv'
  BY <1>9, TypeOK, SessionInv
  DEF NobodyCame, placeVars, progressVars, historyVars, tellingVars, TypeOK, SessionInv,
      Attempting, Over
<1>10. ASSUME HandoffRaises
     PROVE  SessionInv'
  BY <1>10, TypeOK, SessionInv
  DEF HandoffRaises, Return, placeVars, progressVars, historyVars, TypeOK, SessionInv,
      Attempting, Over
<1>11. ASSUME SessionReturned
     PROVE  SessionInv'
  BY <1>11, TypeOK, SessionInv
  DEF SessionReturned, MoveOn, TypeOK, SessionInv, Attempting, Over
<1>12. ASSUME StopSurface
     PROVE  SessionInv'
  BY <1>12, TypeOK, SessionInv
  DEF StopSurface, placeVars, progressVars, historyVars, tellingVars, TypeOK, SessionInv,
      Attempting, Over
<1>13. ASSUME WriteResult
     PROVE  SessionInv'
  BY <1>13, TypeOK, SessionInv
  DEF WriteResult, placeVars, progressVars, historyVars, tellingVars, TypeOK, SessionInv,
      Attempting, Over
<1>14. ASSUME UNCHANGED vars
     PROVE  SessionInv'
  BY <1>14, TypeOK, SessionInv
  DEF vars, TypeOK, SessionInv, Attempting, Over
<1> QED
  BY <1>1, <1>2, <1>3, <1>4, <1>5, <1>6, <1>7, <1>8, <1>9, <1>10, <1>11, <1>12, <1>13, <1>14
  DEF Next, Replay, Terminated

\* Each attempt that begins is recorded when it ends.
LEMMA EvidenceStep ==
  ASSUME TypeOK, PlaceInv, EvidenceForEveryAttempt, [Next]_vars
  PROVE  EvidenceForEveryAttempt'
<1>1. ASSUME Validate
     PROVE  EvidenceForEveryAttempt'
  BY <1>1, TypeOK, PlaceInv, EvidenceForEveryAttempt
  DEF Validate, placeVars, progressVars, historyVars, TypeOK, PlaceInv,
      EvidenceForEveryAttempt
<1>2. ASSUME OpenSession
     PROVE  EvidenceForEveryAttempt'
  BY <1>2, TypeOK, PlaceInv, EvidenceForEveryAttempt
  DEF OpenSession, Return, placeVars, progressVars, historyVars, TypeOK, PlaceInv,
      EvidenceForEveryAttempt
<1>3. ASSUME LookForTarget
     PROVE  EvidenceForEveryAttempt'
  <2>1. ASSUME NEW s \in Steps
        PROVE  /\ attempts'[s] = attempts[s] + (IF s = at THEN 1 ELSE 0)
               /\ \/ records' = records /\ pc' = "guard"
                  \/ /\ records'[s] = records[s] + (IF s = at THEN 1 ELSE 0)
                     /\ pc' \in {"handoff", "closing"}
    <3>1. attempts'[s] = attempts[s] + (IF s = at THEN 1 ELSE 0)
      <4>1. attempts' = [attempts EXCEPT ![at] = @ + 1]
        BY <1>3 DEF LookForTarget
      <4> QED
        BY <4>1, TypeOK DEF TypeOK
    <3>2. \/ records' = records /\ pc' = "guard"
          \/ Recorded /\ pc' \in {"handoff", "closing"}
      BY <1>3 DEF LookForTarget, Fail
    <3>3. Recorded => records'[s] = records[s] + (IF s = at THEN 1 ELSE 0)
      BY TypeOK DEF Recorded, TypeOK
    <3> QED
      BY <3>1, <3>2, <3>3
  <2>2. pc = "look" /\ at' = at
    BY <1>3 DEF LookForTarget, placeVars
  <2> QED
    BY <2>1, <2>2, TypeOK, EvidenceForEveryAttempt DEF TypeOK, EvidenceForEveryAttempt
<1>4. ASSUME CheckPolicy
     PROVE  EvidenceForEveryAttempt'
  BY <1>4, TypeOK, PlaceInv, EvidenceForEveryAttempt
  DEF CheckPolicy, Fail, Recorded, placeVars, historyVars, TypeOK, PlaceInv,
      EvidenceForEveryAttempt
<1>5. ASSUME Act
     PROVE  EvidenceForEveryAttempt'
  BY <1>5, TypeOK, PlaceInv, EvidenceForEveryAttempt
  DEF Act, Fail, Return, Recorded, placeVars, TypeOK, PlaceInv, EvidenceForEveryAttempt
<1>6. ASSUME Observe
     PROVE  EvidenceForEveryAttempt'
  BY <1>6, TypeOK, PlaceInv, EvidenceForEveryAttempt
  DEF Observe, Fail, Return, MoveOn, Recorded, TypeOK, PlaceInv, EvidenceForEveryAttempt
<1>7. ASSUME AssertCheckpoint
     PROVE  EvidenceForEveryAttempt'
  BY <1>7, TypeOK, PlaceInv, EvidenceForEveryAttempt
  DEF AssertCheckpoint, Fail, Return, placeVars, historyVars, TypeOK, PlaceInv,
      EvidenceForEveryAttempt
<1>8. ASSUME PerceptionRaises
     PROVE  EvidenceForEveryAttempt'
  BY <1>8, TypeOK, PlaceInv, EvidenceForEveryAttempt
  DEF PerceptionRaises, Return, Recorded, placeVars, progressVars, historyVars, TypeOK,
      PlaceInv, EvidenceForEveryAttempt
<1>9. ASSUME NobodyCame
     PROVE  EvidenceForEveryAttempt'
  BY <1>9, TypeOK, PlaceInv, EvidenceForEveryAttempt
  DEF NobodyCame, placeVars, progressVars, historyVars, tellingVars, TypeOK, PlaceInv,
      EvidenceForEveryAttempt
<1>10. ASSUME HandoffRaises
     PROVE  EvidenceForEveryAttempt'
  BY <1>10, TypeOK, PlaceInv, EvidenceForEveryAttempt
  DEF HandoffRaises, Return, placeVars, progressVars, historyVars, TypeOK, PlaceInv,
      EvidenceForEveryAttempt
<1>11. ASSUME SessionReturned
     PROVE  EvidenceForEveryAttempt'
  BY <1>11, TypeOK, PlaceInv, EvidenceForEveryAttempt
  DEF SessionReturned, MoveOn, TypeOK, PlaceInv, EvidenceForEveryAttempt
<1>12. ASSUME StopSurface
     PROVE  EvidenceForEveryAttempt'
  BY <1>12, TypeOK, PlaceInv, EvidenceForEveryAttempt
  DEF StopSurface, placeVars, progressVars, historyVars, tellingVars, TypeOK, PlaceInv,
      EvidenceForEveryAttempt
<1>13. ASSUME WriteResult
     PROVE  EvidenceForEveryAttempt'
  BY <1>13, TypeOK, PlaceInv, EvidenceForEveryAttempt
  DEF WriteResult, placeVars, progressVars, historyVars, tellingVars, TypeOK, PlaceInv,
      EvidenceForEveryAttempt
<1>14. ASSUME UNCHANGED vars
     PROVE  EvidenceForEveryAttempt'
  BY <1>14, TypeOK, PlaceInv, EvidenceForEveryAttempt
  DEF vars, TypeOK, PlaceInv, EvidenceForEveryAttempt
<1> QED
  BY <1>1, <1>2, <1>3, <1>4, <1>5, <1>6, <1>7, <1>8, <1>9, <1>10, <1>11, <1>12, <1>13, <1>14
  DEF Next, Replay, Terminated

\* Every step keeps the engine's idea of signing in behind the flow's own.
LEMMA LoginStep ==
  ASSUME TypeOK, PlaceInv, LoginInv, [Next]_vars
  PROVE  LoginInv'
<1>1. ASSUME Validate
     PROVE  LoginInv'
  BY <1>1, TypeOK, PlaceInv, LoginInv
  DEF Validate, placeVars, progressVars, historyVars, TypeOK, PlaceInv, LoginInv, Over,
      Record, NoteSignIn, Step
<1>2. ASSUME OpenSession
     PROVE  LoginInv'
  BY <1>2, TypeOK, PlaceInv, LoginInv
  DEF OpenSession, Return, placeVars, progressVars, historyVars, TypeOK, PlaceInv,
      LoginInv, Over, Record, NoteSignIn, Step
<1>3. ASSUME LookForTarget
     PROVE  LoginInv'
  BY <1>3, TypeOK, PlaceInv, LoginInv
  DEF LookForTarget, Fail, Recorded, placeVars, historyVars, TypeOK, PlaceInv, LoginInv,
      Over, Record, NoteSignIn, Step
<1>4. ASSUME CheckPolicy
     PROVE  LoginInv'
  BY <1>4, TypeOK, PlaceInv, LoginInv
  DEF CheckPolicy, Fail, Recorded, placeVars, historyVars, TypeOK, PlaceInv, LoginInv,
      Over, Record, NoteSignIn, Step
<1>5. ASSUME Act
     PROVE  LoginInv'
  BY <1>5, TypeOK, PlaceInv, LoginInv
  DEF Act, Fail, Return, Recorded, placeVars, TypeOK, PlaceInv, LoginInv, Over, Record,
      NoteSignIn, Step
<1>6. ASSUME Observe
     PROVE  LoginInv'
  BY <1>6, TypeOK, PlaceInv, LoginInv
  DEF Observe, Fail, Return, MoveOn, Recorded, TypeOK, PlaceInv, LoginInv, Over, Record,
      NoteSignIn, Step
<1>7. ASSUME AssertCheckpoint
     PROVE  LoginInv'
  BY <1>7, TypeOK, PlaceInv, LoginInv
  DEF AssertCheckpoint, Fail, Return, placeVars, historyVars, TypeOK, PlaceInv, LoginInv,
      Over, Record, NoteSignIn, Step
<1>8. ASSUME PerceptionRaises
     PROVE  LoginInv'
  BY <1>8, TypeOK, PlaceInv, LoginInv
  DEF PerceptionRaises, Return, Recorded, placeVars, progressVars, historyVars, TypeOK,
      PlaceInv, LoginInv, Over, Record, NoteSignIn, Step
<1>9. ASSUME NobodyCame
     PROVE  LoginInv'
  BY <1>9, TypeOK, PlaceInv, LoginInv
  DEF NobodyCame, placeVars, progressVars, historyVars, tellingVars, TypeOK, PlaceInv,
      LoginInv, Over, Record, NoteSignIn, Step
<1>10. ASSUME HandoffRaises
     PROVE  LoginInv'
  BY <1>10, TypeOK, PlaceInv, LoginInv
  DEF HandoffRaises, Return, placeVars, progressVars, historyVars, TypeOK, PlaceInv,
      LoginInv, Over, Record, NoteSignIn, Step
<1>11. ASSUME SessionReturned
     PROVE  LoginInv'
  BY <1>11, TypeOK, PlaceInv, LoginInv
  DEF SessionReturned, MoveOn, TypeOK, PlaceInv, LoginInv, Over, Record, NoteSignIn, Step
<1>12. ASSUME StopSurface
     PROVE  LoginInv'
  BY <1>12, TypeOK, PlaceInv, LoginInv
  DEF StopSurface, placeVars, progressVars, historyVars, tellingVars, TypeOK, PlaceInv,
      LoginInv, Over, Record, NoteSignIn, Step
<1>13. ASSUME WriteResult
     PROVE  LoginInv'
  BY <1>13, TypeOK, PlaceInv, LoginInv
  DEF WriteResult, placeVars, progressVars, historyVars, tellingVars, TypeOK, PlaceInv,
      LoginInv, Over, Record, NoteSignIn, Step
<1>14. ASSUME UNCHANGED vars
     PROVE  LoginInv'
  BY <1>14, TypeOK, PlaceInv, LoginInv
  DEF vars, TypeOK, PlaceInv, LoginInv, Over, Record, NoteSignIn, Step
<1> QED
  BY <1>1, <1>2, <1>3, <1>4, <1>5, <1>6, <1>7, <1>8, <1>9, <1>10, <1>11, <1>12, <1>13, <1>14
  DEF Next, Replay, Terminated

\* Every step keeps the streak a count of the latest moves.
LEMMA StreakStep ==
  ASSUME TypeOK, StreakInv, [Next]_vars
  PROVE  StreakInv'
<1>1. ASSUME Validate
     PROVE  StreakInv'
  BY <1>1, TypeOK, StreakInv
  DEF Validate, placeVars, progressVars, historyVars, TypeOK, StreakInv
<1>2. ASSUME OpenSession
     PROVE  StreakInv'
  BY <1>2, TypeOK, StreakInv
  DEF OpenSession, Return, placeVars, progressVars, historyVars, TypeOK, StreakInv
<1>3. ASSUME LookForTarget
     PROVE  StreakInv'
  BY <1>3, TypeOK, StreakInv
  DEF LookForTarget, Fail, Recorded, placeVars, historyVars, TypeOK, StreakInv
<1>4. ASSUME CheckPolicy
     PROVE  StreakInv'
  BY <1>4, TypeOK, StreakInv
  DEF CheckPolicy, Fail, Recorded, placeVars, historyVars, TypeOK, StreakInv
<1>5. ASSUME Act
     PROVE  StreakInv'
  BY <1>5, TypeOK, StreakInv
  DEF Act, Fail, Return, Recorded, placeVars, TypeOK, StreakInv
<1>6. ASSUME Observe
     PROVE  StreakInv'
  <2>0. progress \in ProgressType /\ page \in UIState /\ page' \in UIState
    BY <1>6, TypeOK DEF TypeOK, Observe, ProgressType
  <2>1. CASE Step.action \notin DIGEST_VISIBLE_ACTIONS
    <3>1. moves' = moves /\ progress'.streak = progress.streak
      BY <1>6, <2>0, <2>1, RecordMeans DEF Observe
    <3> QED
      BY <3>1, StreakInv DEF StreakInv
  <2>2. CASE Step.action \in DIGEST_VISIBLE_ACTIONS
    <3>1. moves' = [before |-> moves.last,
                    last |-> IF page.digest = page'.digest THEN "same" ELSE "moved"]
      BY <1>6, <2>2 DEF Observe
    <3>2. progress'.streak = IF page.digest = page'.digest THEN progress.streak + 1 ELSE 0
      BY <1>6, <2>0, <2>2, RecordMeans DEF Observe
    <3>3. progress.streak \in Nat
      BY <2>0 DEF ProgressType
    <3> QED
      BY <3>1, <3>2, <3>3, StreakInv DEF StreakInv
  <2> QED
    BY <2>1, <2>2
<1>7. ASSUME AssertCheckpoint
     PROVE  StreakInv'
  BY <1>7, TypeOK, StreakInv
  DEF AssertCheckpoint, Fail, Return, placeVars, historyVars, TypeOK, StreakInv
<1>8. ASSUME PerceptionRaises
     PROVE  StreakInv'
  BY <1>8, TypeOK, StreakInv
  DEF PerceptionRaises, Return, Recorded, placeVars, progressVars, historyVars, TypeOK,
      StreakInv
<1>9. ASSUME NobodyCame
     PROVE  StreakInv'
  BY <1>9, TypeOK, StreakInv
  DEF NobodyCame, placeVars, progressVars, historyVars, tellingVars, TypeOK, StreakInv
<1>10. ASSUME HandoffRaises
     PROVE  StreakInv'
  BY <1>10, TypeOK, StreakInv
  DEF HandoffRaises, Return, placeVars, progressVars, historyVars, TypeOK, StreakInv
<1>11. ASSUME SessionReturned
     PROVE  StreakInv'
  BY <1>11, TypeOK, StreakInv
  DEF SessionReturned, MoveOn, TypeOK, StreakInv
<1>12. ASSUME StopSurface
     PROVE  StreakInv'
  BY <1>12, TypeOK, StreakInv
  DEF StopSurface, placeVars, progressVars, historyVars, tellingVars, TypeOK, StreakInv
<1>13. ASSUME WriteResult
     PROVE  StreakInv'
  BY <1>13, TypeOK, StreakInv
  DEF WriteResult, placeVars, progressVars, historyVars, tellingVars, TypeOK, StreakInv
<1>14. ASSUME UNCHANGED vars
     PROVE  StreakInv'
  BY <1>14, TypeOK, StreakInv
  DEF vars, TypeOK, StreakInv
<1> QED
  BY <1>1, <1>2, <1>3, <1>4, <1>5, <1>6, <1>7, <1>8, <1>9, <1>10, <1>11, <1>12, <1>13, <1>14
  DEF Next, Replay, Terminated

\* A hint in hand stays about the page and the history as they are.
LEMMA HintStep ==
  ASSUME TypeOK, PlaceInv, LoginInv, StreakInv, HintInv, [Next]_vars
  PROVE  HintInv'
<1>1. ASSUME Validate
     PROVE  HintInv'
  BY <1>1, TypeOK, PlaceInv, HintInv
  DEF Validate, HardFailure, Pending, placeVars, progressVars, historyVars, TypeOK,
      PlaceInv, HintInv, AuthExpiredMeansSignedOut, StalledMeansNoVisibleMove, Attempting
<1>2. ASSUME OpenSession
     PROVE  HintInv'
  BY <1>2, TypeOK, PlaceInv, HintInv
  DEF OpenSession, Return, HardFailure, Escaped, Pending, placeVars, progressVars,
      historyVars, TypeOK, PlaceInv, HintInv, AuthExpiredMeansSignedOut,
      StalledMeansNoVisibleMove, Attempting
<1>3. ASSUME LookForTarget
     PROVE  HintInv'
  <2>1. result = Pending /\ UNCHANGED <<progress, moves, login>>
    BY <1>3, PlaceInv DEF LookForTarget, historyVars, PlaceInv, Attempting
  <2>2. result' = result \/ result'.hint = Hint(progress, page')
    <3>1. \/ result' = result
          \/ result' = HardFailure("target_not_found", Hint(progress, page'))
      BY <1>3 DEF LookForTarget, Fail
    <3> QED
      BY <3>1, Outcomes
  <2>3. CASE result' = result
    BY <2>1, <2>3, Outcomes DEF HintInv, AuthExpiredMeansSignedOut,
       StalledMeansNoVisibleMove
  <2>4. CASE result'.hint = Hint(progress, page')
    <3>1. progress.streak \in Nat
      BY TypeOK DEF TypeOK
    <3> QED
      BY <2>1, <2>4, <3>1, HintMeans, LoginInv, StreakInv
      DEF HintInv, AuthExpiredMeansSignedOut, StalledMeansNoVisibleMove, LoginInv, StreakInv
  <2> QED
    BY <2>2, <2>3, <2>4
<1>4. ASSUME CheckPolicy
     PROVE  HintInv'
  BY <1>4, TypeOK, PlaceInv, HintInv
  DEF CheckPolicy, Fail, HandOver, HardFailure, Pending, Recorded, placeVars, historyVars,
      TypeOK, PlaceInv, HintInv, AuthExpiredMeansSignedOut, StalledMeansNoVisibleMove,
      Attempting
<1>5. ASSUME Act
     PROVE  HintInv'
  BY <1>5, TypeOK, PlaceInv, HintInv
  DEF Act, Fail, HandOver, Return, HardFailure, Pending, Recorded, placeVars, TypeOK,
      PlaceInv, HintInv, AuthExpiredMeansSignedOut, StalledMeansNoVisibleMove, Attempting
<1>6. ASSUME Observe
     PROVE  HintInv'
  <2>1. LoginInv' /\ StreakInv' /\ TypeOK'
    BY <1>6, TypeStep, LoginStep, StreakStep DEF Next, Replay
  <2>2. \/ result'.hint = "none"
        \/ result'.hint = Hint(progress', page')
    BY <1>6, Outcomes DEF Observe, Return, MoveOn, Fail
  <2>3. CASE result'.hint = "none"
    BY <2>3 DEF HintInv, AuthExpiredMeansSignedOut, StalledMeansNoVisibleMove
  <2>4. CASE result'.hint = Hint(progress', page')
    <3>1. progress'.streak \in Nat
      BY <2>1 DEF TypeOK
    <3> QED
      BY <2>1, <2>4, <3>1, HintMeans
      DEF HintInv, AuthExpiredMeansSignedOut, StalledMeansNoVisibleMove, LoginInv, StreakInv
  <2> QED
    BY <2>2, <2>3, <2>4
<1>7. ASSUME AssertCheckpoint
     PROVE  HintInv'
  BY <1>7, TypeOK, PlaceInv, HintInv
  DEF AssertCheckpoint, Fail, HandOver, Return, HardFailure, Answered, Pending, placeVars,
      historyVars, TypeOK, PlaceInv, HintInv, AuthExpiredMeansSignedOut,
      StalledMeansNoVisibleMove, Attempting
<1>8. ASSUME PerceptionRaises
     PROVE  HintInv'
  BY <1>8, TypeOK, PlaceInv, HintInv
  DEF PerceptionRaises, Return, Escaped, Pending, Recorded, placeVars, progressVars,
      historyVars, TypeOK, PlaceInv, HintInv, AuthExpiredMeansSignedOut,
      StalledMeansNoVisibleMove, Attempting
<1>9. ASSUME NobodyCame
     PROVE  HintInv'
  BY <1>9, TypeOK, PlaceInv, HintInv
  DEF NobodyCame, placeVars, progressVars, historyVars, tellingVars, TypeOK, PlaceInv,
      HintInv, AuthExpiredMeansSignedOut, StalledMeansNoVisibleMove, Attempting
<1>10. ASSUME HandoffRaises
     PROVE  HintInv'
  BY <1>10, TypeOK, PlaceInv, HintInv
  DEF HandoffRaises, Return, Escaped, Pending, placeVars, progressVars, historyVars,
      TypeOK, PlaceInv, HintInv, AuthExpiredMeansSignedOut, StalledMeansNoVisibleMove,
      Attempting
<1>11. ASSUME SessionReturned
     PROVE  HintInv'
  <2>1. result'.hint = "none"
    BY <1>11, Outcomes DEF SessionReturned, MoveOn
  <2> QED
    BY <2>1 DEF HintInv, AuthExpiredMeansSignedOut, StalledMeansNoVisibleMove
<1>12. ASSUME StopSurface
     PROVE  HintInv'
  BY <1>12, TypeOK, PlaceInv, HintInv
  DEF StopSurface, placeVars, progressVars, historyVars, tellingVars, TypeOK, PlaceInv,
      HintInv, AuthExpiredMeansSignedOut, StalledMeansNoVisibleMove, Attempting
<1>13. ASSUME WriteResult
     PROVE  HintInv'
  BY <1>13, TypeOK, PlaceInv, HintInv
  DEF WriteResult, placeVars, progressVars, historyVars, tellingVars, TypeOK, PlaceInv,
      HintInv, AuthExpiredMeansSignedOut, StalledMeansNoVisibleMove, Attempting
<1>14. ASSUME UNCHANGED vars
     PROVE  HintInv'
  BY <1>14, TypeOK, PlaceInv, HintInv
  DEF vars, TypeOK, PlaceInv, HintInv, AuthExpiredMeansSignedOut,
      StalledMeansNoVisibleMove, Attempting
<1> QED
  BY <1>1, <1>2, <1>3, <1>4, <1>5, <1>6, <1>7, <1>8, <1>9, <1>10, <1>11, <1>12, <1>13, <1>14
  DEF Next, Replay, Terminated

\* Every step the run leaves behind has its output or was done by hand.
LEMMA OutputStep ==
  ASSUME TypeOK, PlaceInv, OutputInv, [Next]_vars
  PROVE  OutputInv'
<1>1. ASSUME Validate
     PROVE  OutputInv'
  BY <1>1, TypeOK, PlaceInv, OutputInv
  DEF Validate, HardFailure, Pending, placeVars, progressVars, historyVars, TypeOK,
      PlaceInv, OutputInv, Step, Verified, Steps, Positions
<1>2. ASSUME OpenSession
     PROVE  OutputInv'
  BY <1>2, TypeOK, PlaceInv, OutputInv
  DEF OpenSession, Return, HardFailure, Escaped, Pending, placeVars, progressVars,
      historyVars, TypeOK, PlaceInv, OutputInv, Step, Verified, Steps, Positions
<1>3. ASSUME LookForTarget
     PROVE  OutputInv'
  BY <1>3, TypeOK, PlaceInv, OutputInv
  DEF LookForTarget, Fail, HandOver, HardFailure, Pending, Recorded, placeVars,
      historyVars, TypeOK, PlaceInv, OutputInv, Step, Verified, Steps, Positions
<1>4. ASSUME CheckPolicy
     PROVE  OutputInv'
  BY <1>4, TypeOK, PlaceInv, OutputInv
  DEF CheckPolicy, Fail, HandOver, HardFailure, Pending, Recorded, placeVars, historyVars,
      TypeOK, PlaceInv, OutputInv, Step, Verified, Steps, Positions
<1>5. ASSUME Act
     PROVE  OutputInv'
  BY <1>5, TypeOK, PlaceInv, OutputInv
  DEF Act, Fail, HandOver, Return, HardFailure, Pending, Recorded, placeVars, TypeOK,
      PlaceInv, OutputInv, Step, Verified, Steps, Positions
<1>6. ASSUME Observe
     PROVE  OutputInv'
  BY <1>6, TypeOK, PlaceInv, OutputInv
  DEF Observe, Fail, HandOver, Return, MoveOn, HardFailure, Answered, Pending, Recorded,
      TypeOK, PlaceInv, OutputInv, Step, Verified, Steps, Positions
<1>7. ASSUME AssertCheckpoint
     PROVE  OutputInv'
  BY <1>7, TypeOK, PlaceInv, OutputInv
  DEF AssertCheckpoint, Fail, HandOver, Return, HardFailure, Answered, Pending, placeVars,
      historyVars, TypeOK, PlaceInv, OutputInv, Step, Verified, Steps, Positions
<1>8. ASSUME PerceptionRaises
     PROVE  OutputInv'
  BY <1>8, TypeOK, PlaceInv, OutputInv
  DEF PerceptionRaises, Return, Escaped, Pending, Recorded, placeVars, progressVars,
      historyVars, TypeOK, PlaceInv, OutputInv, Step, Verified, Steps, Positions
<1>9. ASSUME NobodyCame
     PROVE  OutputInv'
  BY <1>9, TypeOK, PlaceInv, OutputInv
  DEF NobodyCame, placeVars, progressVars, historyVars, tellingVars, TypeOK, PlaceInv,
      OutputInv, Step, Verified, Steps, Positions
<1>10. ASSUME HandoffRaises
     PROVE  OutputInv'
  BY <1>10, TypeOK, PlaceInv, OutputInv
  DEF HandoffRaises, Return, Escaped, Pending, placeVars, progressVars, historyVars,
      TypeOK, PlaceInv, OutputInv, Step, Verified, Steps, Positions
<1>11. ASSUME SessionReturned
     PROVE  OutputInv'
  BY <1>11, TypeOK, PlaceInv, OutputInv
  DEF SessionReturned, MoveOn, Pending, TypeOK, PlaceInv, OutputInv, Step, Verified,
      Steps, Positions
<1>12. ASSUME StopSurface
     PROVE  OutputInv'
  BY <1>12, TypeOK, PlaceInv, OutputInv
  DEF StopSurface, placeVars, progressVars, historyVars, tellingVars, TypeOK, PlaceInv,
      OutputInv, Step, Verified, Steps, Positions
<1>13. ASSUME WriteResult
     PROVE  OutputInv'
  BY <1>13, TypeOK, PlaceInv, OutputInv
  DEF WriteResult, placeVars, progressVars, historyVars, tellingVars, TypeOK, PlaceInv,
      OutputInv, Step, Verified, Steps, Positions
<1>14. ASSUME UNCHANGED vars
     PROVE  OutputInv'
  BY <1>14, TypeOK, PlaceInv, OutputInv
  DEF vars, TypeOK, PlaceInv, OutputInv, Step, Verified, Steps, Positions
<1> QED
  BY <1>1, <1>2, <1>3, <1>4, <1>5, <1>6, <1>7, <1>8, <1>9, <1>10, <1>11, <1>12, <1>13, <1>14
  DEF Next, Replay, Terminated


\* Does the list report the handoffs that came back in the set, each once.
Reports(list, given) ==
  LET escalated == {i \in DOMAIN list : list[i].condition = "escalated"}
  IN  /\ {list[i].step : i \in escalated} = given
      /\ \A i, j \in escalated : list[i].step = list[j].step => i = j

\* A recovery that is no handoff leaves the report as it was; a handoff at a
\* position that is not in it yet adds that position.
LEMMA ReportGrows ==
  ASSUME NEW list \in Seq(Recovery), NEW r \in Recovery, NEW given, Reports(list, given)
  PROVE  /\ r.condition # "escalated" => Reports(Append(list, r), given)
         /\ r.condition = "escalated" /\ r.step \notin given
              => Reports(Append(list, r), given \cup {r.step})
<1> DEFINE n == Len(list)
           longer == Append(list, r)
           Escalated(l) == {i \in DOMAIN l : l[i].condition = "escalated"}
<1>1. /\ n \in Nat /\ DOMAIN list = 1 .. n
      /\ DOMAIN longer = 1 .. n + 1
      /\ \A i \in 1 .. n : longer[i] = list[i]
      /\ longer[n + 1] = r
  <2>1. longer \in Seq(Recovery) /\ Len(longer) = n + 1
    BY AppendProperties
  <2>2. DOMAIN longer = 1 .. n + 1
    BY <2>1, LenProperties
  <2>3. n \in Nat /\ DOMAIN list = 1 .. n
    BY LenProperties
  <2> QED
    BY <2>2, <2>3, AppendProperties
<1>2. /\ {list[i].step : i \in Escalated(list)} = given
      /\ \A i, j \in Escalated(list) : list[i].step = list[j].step => i = j
  BY DEF Reports
<1>3. SUFFICES /\ r.condition # "escalated" =>
                    /\ {longer[i].step : i \in Escalated(longer)} = given
                    /\ \A i, j \in Escalated(longer) : longer[i].step = longer[j].step => i = j
               /\ r.condition = "escalated" /\ r.step \notin given =>
                    /\ {longer[i].step : i \in Escalated(longer)} = given \cup {r.step}
                    /\ \A i, j \in Escalated(longer) : longer[i].step = longer[j].step => i = j
  BY DEF Reports
<1>4. ASSUME r.condition # "escalated"
      PROVE  Escalated(longer) = Escalated(list)
  BY <1>1, <1>4
<1>5. ASSUME r.condition = "escalated"
      PROVE  Escalated(longer) = Escalated(list) \cup {n + 1}
  BY <1>1, <1>5
<1>6. \A i \in Escalated(list) : i \in 1 .. n /\ longer[i] = list[i] /\ list[i].step \in given
  BY <1>1, <1>2
<1> HIDE DEF Escalated, longer, n
<1>7. ASSUME r.condition # "escalated"
      PROVE  /\ {longer[i].step : i \in Escalated(longer)} = given
             /\ \A i, j \in Escalated(longer) : longer[i].step = longer[j].step => i = j
  BY <1>2, <1>4, <1>6, <1>7
<1>8. ASSUME r.condition = "escalated", r.step \notin given
      PROVE  /\ {longer[i].step : i \in Escalated(longer)} = given \cup {r.step}
             /\ \A i, j \in Escalated(longer) : longer[i].step = longer[j].step => i = j
  BY <1>1, <1>2, <1>5, <1>6, <1>8
<1> QED
  BY <1>7, <1>8


\* The list of recoveries reports every handoff that came back, whatever the
\* step: a second look is no handoff, and no position comes back twice.
LEMMA RecoveriesStep ==
  ASSUME TypeOK, PlaceInv, ReportInv, [Next]_vars
  PROVE  ReportsHandoffs(recoveries)'
<1>0. recoveries \in Seq(Recovery) /\ at \in Positions /\ Reports(recoveries, returned)
  BY DEF TypeOK, ReportInv, ReportsHandoffs, Reports
<1>1. CASE UNCHANGED <<recoveries, returned>>
  BY <1>0, <1>1 DEF ReportsHandoffs, Reports
<1>2. CASE LookForTarget /\ recoveries' # recoveries
  <2> DEFINE r == [step |-> at, condition |-> "second look"]
  <2>1. recoveries' = Append(recoveries, r) /\ returned' = returned
    BY <1>2 DEF LookForTarget, placeVars
  <2>2. r \in Recovery /\ r.condition # "escalated"
    BY <1>0 DEF Recovery
  <2> HIDE DEF r
  <2>3. Reports(recoveries', returned')
    BY <1>0, <2>1, <2>2, ReportGrows
  <2> QED
    BY <2>3 DEF ReportsHandoffs, Reports
<1>3. CASE SessionReturned
  <2> DEFINE r == [step |-> at, condition |-> "escalated"]
  <2>1. recoveries' = Append(recoveries, r) /\ returned' = returned \cup {at}
    BY <1>3 DEF SessionReturned
  <2>2. r \in Recovery /\ r.condition = "escalated" /\ r.step = at
    BY <1>0 DEF Recovery
  <2>3. at \notin returned
    BY <1>3 DEF SessionReturned, PlaceInv, ReportInv
  <2> HIDE DEF r
  <2>4. Reports(recoveries', returned')
    BY <1>0, <2>1, <2>2, <2>3, ReportGrows
  <2> QED
    BY <2>4 DEF ReportsHandoffs, Reports
<1> QED
  BY <1>1, <1>2, <1>3
  DEF Next, Replay, Terminated, vars, tellingVars, placeVars,
      Validate, OpenSession, LookForTarget, CheckPolicy, Act, Observe, AssertCheckpoint,
      PerceptionRaises, NobodyCame, HandoffRaises, StopSurface, WriteResult

\* The handoffs that came back are behind the run, or it tries again there.
Behind == \A p \in returned : p <= at /\ (p = at => retrying)

\* A result that is told with recoveries is told with all of them.
Told == result.status \in {"success", "business"} => result.recoveries = recoveries

\* Every step keeps the handoffs behind the run.
LEMMA BehindStep ==
  ASSUME TypeOK, PlaceInv, Behind, [Next]_vars
  PROVE  Behind'
<1>1. ASSUME Validate
     PROVE  Behind'
  BY <1>1, TypeOK, PlaceInv, Behind, LengthIsNatural
  DEF Validate, HardFailure, Pending, placeVars, progressVars, historyVars, TypeOK,
      PlaceInv, Behind, Steps, Positions
<1>2. ASSUME OpenSession
     PROVE  Behind'
  BY <1>2, TypeOK, PlaceInv, Behind, LengthIsNatural
  DEF OpenSession, Return, HardFailure, Escaped, Pending, placeVars, progressVars,
      historyVars, TypeOK, PlaceInv, Behind, Steps, Positions
<1>3. ASSUME LookForTarget
     PROVE  Behind'
  BY <1>3, TypeOK, PlaceInv, Behind, LengthIsNatural
  DEF LookForTarget, Fail, HandOver, HardFailure, Pending, Recorded, placeVars,
      historyVars, TypeOK, PlaceInv, Behind, Steps, Positions
<1>4. ASSUME CheckPolicy
     PROVE  Behind'
  BY <1>4, TypeOK, PlaceInv, Behind, LengthIsNatural
  DEF CheckPolicy, Fail, HandOver, HardFailure, Pending, Recorded, placeVars, historyVars,
      TypeOK, PlaceInv, Behind, Steps, Positions
<1>5. ASSUME Act
     PROVE  Behind'
  BY <1>5, TypeOK, PlaceInv, Behind, LengthIsNatural
  DEF Act, Fail, HandOver, Return, HardFailure, Pending, Recorded, placeVars, TypeOK,
      PlaceInv, Behind, Steps, Positions
<1>6. ASSUME Observe
     PROVE  Behind'
  BY <1>6, TypeOK, PlaceInv, Behind, LengthIsNatural
  DEF Observe, Fail, HandOver, Return, MoveOn, HardFailure, Answered, Pending, Recorded,
      TypeOK, PlaceInv, Behind, Steps, Positions
<1>7. ASSUME AssertCheckpoint
     PROVE  Behind'
  BY <1>7, TypeOK, PlaceInv, Behind, LengthIsNatural
  DEF AssertCheckpoint, Fail, HandOver, Return, HardFailure, Answered, Pending, placeVars,
      historyVars, TypeOK, PlaceInv, Behind, Steps, Positions
<1>8. ASSUME PerceptionRaises
     PROVE  Behind'
  BY <1>8, TypeOK, PlaceInv, Behind, LengthIsNatural
  DEF PerceptionRaises, Return, Escaped, Pending, Recorded, placeVars, progressVars,
      historyVars, TypeOK, PlaceInv, Behind, Steps, Positions
<1>9. ASSUME NobodyCame
     PROVE  Behind'
  BY <1>9, TypeOK, PlaceInv, Behind, LengthIsNatural
  DEF NobodyCame, placeVars, progressVars, historyVars, tellingVars, TypeOK, PlaceInv,
      Behind, Steps, Positions
<1>10. ASSUME HandoffRaises
     PROVE  Behind'
  BY <1>10, TypeOK, PlaceInv, Behind, LengthIsNatural
  DEF HandoffRaises, Return, Escaped, Pending, placeVars, progressVars, historyVars,
      TypeOK, PlaceInv, Behind, Steps, Positions
<1>11. ASSUME SessionReturned
     PROVE  Behind'
  BY <1>11, TypeOK, PlaceInv, Behind, LengthIsNatural
  DEF SessionReturned, MoveOn, Pending, TypeOK, PlaceInv, Behind, Steps, Positions
<1>12. ASSUME StopSurface
     PROVE  Behind'
  BY <1>12, TypeOK, PlaceInv, Behind, LengthIsNatural
  DEF StopSurface, placeVars, progressVars, historyVars, tellingVars, TypeOK, PlaceInv,
      Behind, Steps, Positions
<1>13. ASSUME WriteResult
     PROVE  Behind'
  BY <1>13, TypeOK, PlaceInv, Behind, LengthIsNatural
  DEF WriteResult, placeVars, progressVars, historyVars, tellingVars, TypeOK, PlaceInv,
      Behind, Steps, Positions
<1>14. ASSUME UNCHANGED vars
     PROVE  Behind'
  BY <1>14, TypeOK, PlaceInv, Behind, LengthIsNatural
  DEF vars, TypeOK, PlaceInv, Behind, Steps, Positions
<1> QED
  BY <1>1, <1>2, <1>3, <1>4, <1>5, <1>6, <1>7, <1>8, <1>9, <1>10, <1>11, <1>12, <1>13, <1>14
  DEF Next, Replay, Terminated

\* Recoveries grow only while there is no result in hand.
LEMMA ToldStep ==
  ASSUME TypeOK, PlaceInv, Told, [Next]_vars
  PROVE  Told'
<1>1. ASSUME Validate
     PROVE  Told'
  BY <1>1, TypeOK, PlaceInv, Told, Outcomes
  DEF Validate, HardFailure, Pending, placeVars, progressVars, historyVars, TypeOK,
      PlaceInv, Told, Attempting
<1>2. ASSUME OpenSession
     PROVE  Told'
  BY <1>2, TypeOK, PlaceInv, Told, Outcomes
  DEF OpenSession, Return, HardFailure, Escaped, Pending, placeVars, progressVars,
      historyVars, TypeOK, PlaceInv, Told, Attempting
<1>3. ASSUME LookForTarget
     PROVE  Told'
  BY <1>3, TypeOK, PlaceInv, Told, Outcomes
  DEF LookForTarget, Fail, HandOver, HardFailure, Pending, Recorded, placeVars,
      historyVars, TypeOK, PlaceInv, Told, Attempting
<1>4. ASSUME CheckPolicy
     PROVE  Told'
  BY <1>4, TypeOK, PlaceInv, Told, Outcomes
  DEF CheckPolicy, Fail, HandOver, HardFailure, Pending, Recorded, placeVars, historyVars,
      TypeOK, PlaceInv, Told, Attempting
<1>5. ASSUME Act
     PROVE  Told'
  BY <1>5, TypeOK, PlaceInv, Told, Outcomes
  DEF Act, Fail, HandOver, Return, HardFailure, Pending, Recorded, placeVars, TypeOK,
      PlaceInv, Told, Attempting
<1>6. ASSUME Observe
     PROVE  Told'
  BY <1>6, TypeOK, PlaceInv, Told, Outcomes
  DEF Observe, Fail, HandOver, Return, MoveOn, HardFailure, Answered, Pending, Recorded,
      TypeOK, PlaceInv, Told, Attempting
<1>7. ASSUME AssertCheckpoint
     PROVE  Told'
  BY <1>7, TypeOK, PlaceInv, Told, Outcomes
  DEF AssertCheckpoint, Fail, HandOver, Return, HardFailure, Answered, Pending, placeVars,
      historyVars, TypeOK, PlaceInv, Told, Attempting
<1>8. ASSUME PerceptionRaises
     PROVE  Told'
  BY <1>8, TypeOK, PlaceInv, Told, Outcomes
  DEF PerceptionRaises, Return, Escaped, Pending, Recorded, placeVars, progressVars,
      historyVars, TypeOK, PlaceInv, Told, Attempting
<1>9. ASSUME NobodyCame
     PROVE  Told'
  BY <1>9, TypeOK, PlaceInv, Told, Outcomes
  DEF NobodyCame, placeVars, progressVars, historyVars, tellingVars, TypeOK, PlaceInv,
      Told, Attempting
<1>10. ASSUME HandoffRaises
     PROVE  Told'
  BY <1>10, TypeOK, PlaceInv, Told, Outcomes
  DEF HandoffRaises, Return, Escaped, Pending, placeVars, progressVars, historyVars,
      TypeOK, PlaceInv, Told, Attempting
<1>11. ASSUME SessionReturned
     PROVE  Told'
  BY <1>11, TypeOK, PlaceInv, Told, Outcomes
  DEF SessionReturned, MoveOn, Pending, TypeOK, PlaceInv, Told, Attempting
<1>12. ASSUME StopSurface
     PROVE  Told'
  BY <1>12, TypeOK, PlaceInv, Told, Outcomes
  DEF StopSurface, placeVars, progressVars, historyVars, tellingVars, TypeOK, PlaceInv,
      Told, Attempting
<1>13. ASSUME WriteResult
     PROVE  Told'
  BY <1>13, TypeOK, PlaceInv, Told, Outcomes
  DEF WriteResult, placeVars, progressVars, historyVars, tellingVars, TypeOK, PlaceInv,
      Told, Attempting
<1>14. ASSUME UNCHANGED vars
     PROVE  Told'
  BY <1>14, TypeOK, PlaceInv, Told, Outcomes
  DEF vars, TypeOK, PlaceInv, Told, Attempting
<1> QED
  BY <1>1, <1>2, <1>3, <1>4, <1>5, <1>6, <1>7, <1>8, <1>9, <1>10, <1>11, <1>12, <1>13, <1>14
  DEF Next, Replay, Terminated


\* Every step keeps the report complete.
LEMMA ReportStep ==
  ASSUME TypeOK, PlaceInv, ReportInv, [Next]_vars
  PROVE  ReportInv'
<1>1. Behind /\ Told
  BY DEF ReportInv, Behind, Told
<1> QED
  BY <1>1, RecoveriesStep, BehindStep, ToldStep DEF ReportInv, Behind, Told

\* The parts together hold at first.
LEMMA InitIInv == Init => IInv
<1> SUFFICES ASSUME Init PROVE IInv
  OBVIOUS
<1>1. TypeOK
  <2>1. page \in UIState
    BY DigestsAssumption DEF Init, NothingSeen, UIState
  <2>2. at \in Positions
    BY LengthIsNatural DEF Init, Positions
  <2>3. ResultOK(result)
    BY ResultTypes DEF Init
  <2>4. pc \in Attempting
    BY DEF Init, Attempting
  <2>5. recoveries \in Seq(Recovery)
    BY DEF Init
  <2>6. records \in [Steps -> Nat] /\ attempts \in [Steps -> Nat]
    BY DEF Init
  <2>7. /\ escalation \in BOOLEAN /\ retrying \in BOOLEAN
        /\ progress \in [streak : Nat, entered : BOOLEAN, signedIn : BOOLEAN]
        /\ outputs \subseteq Steps /\ returned \subseteq Positions /\ skipped \subseteq Steps
        /\ open \in BOOLEAN /\ written \in BOOLEAN
        /\ moves \in [before : Moves, last : Moves] /\ login \in {"none", "given", "in"}
    BY DEF Init, Moves
  <2> QED
    BY <2>1, <2>2, <2>3, <2>4, <2>5, <2>6, <2>7 DEF TypeOK, ResultOK
<1>2. PlaceInv /\ SessionInv /\ LoginInv /\ StreakInv /\ HintInv
  BY Outcomes
  DEF Init, PlaceInv, SessionInv, LoginInv, StreakInv, HintInv, AuthExpiredMeansSignedOut,
      StalledMeansNoVisibleMove, Attempting, Over
<1>3. EvidenceForEveryAttempt
  BY DEF Init, EvidenceForEveryAttempt
<1>4. ReportInv
  BY Outcomes DEF Init, ReportInv, ReportsHandoffs
<1>5. OutputInv
  BY LengthIsNatural DEF Init, OutputInv, Steps
<1> QED
  BY <1>1, <1>2, <1>3, <1>4, <1>5 DEF IInv

\* The parts together are kept by every step.
LEMMA StepIInv == IInv /\ [Next]_vars => IInv'
BY TypeStep, PlaceStep, SessionStep, EvidenceStep, ReportStep, LoginStep, StreakStep,
   HintStep, OutputStep DEF IInv

-------------------------------------------------------------------------------
(***************************************************************************)
(* The theorems.                                                           *)
(***************************************************************************)
\* The inductive invariant holds in every reachable state.
THEOREM InductiveInvariant == Spec => []IInv
BY InitIInv, StepIInv, PTL DEF Spec

\* Type correctness, for every capability and any digests.
THEOREM TypeCorrect == Spec => []TypeOK
<1>1. IInv => TypeOK
  BY DEF IInv
<1> QED
  BY <1>1, InductiveInvariant, PTL

\* Whichever way a run ends, the browser session it opened has been stopped
\* (the `finally` of _replay).
THEOREM SessionIsStopped == Spec => []SessionClosed
<1>1. IInv => SessionClosed
  BY DEF IInv, SessionInv, SessionClosed
<1> QED
  BY <1>1, InductiveInvariant, PTL

\* Each attempt at a step leaves exactly one line in trace.jsonl (the `finally`
\* of _run_step).
THEOREM EveryAttemptIsRecorded == Spec => []EvidenceForEveryAttempt
<1>1. IInv => EvidenceForEveryAttempt
  BY DEF IInv
<1> QED
  BY <1>1, InductiveInvariant, PTL

\* A run that says how it was answered reports every handoff that came back,
\* once, and no other (_escalate_and_retry, _escalate_checkpoint).
THEOREM HandoffsReported == Spec => []HandoffsAreReported
<1>1. IInv => HandoffsAreReported
  <2> SUFFICES ASSUME IInv, result.status \in {"success", "business"}
               PROVE  ReportsHandoffs(result.recoveries)
    BY DEF HandoffsAreReported
  <2>1. ReportsHandoffs(recoveries) /\ result.recoveries = recoveries
    BY DEF IInv, ReportInv
  <2> QED
    BY <2>1
<1> QED
  BY <1>1, InductiveInvariant, PTL

\* An operator is sent to sign in again only in a flow that had signed in and
\* shows a password field again (_RunProgress.hint).
THEOREM AuthExpiredIsTrue == Spec => []AuthExpiredMeansSignedOut
<1>1. IInv => AuthExpiredMeansSignedOut
  BY DEF IInv, HintInv
<1> QED
  BY <1>1, InductiveInvariant, PTL

\* "The page is not moving" is said only when it did not (_RunProgress.record).
THEOREM StalledIsTrue == Spec => []StalledMeansNoVisibleMove
<1>1. IInv => StalledMeansNoVisibleMove
  BY DEF IInv, HintInv
<1> QED
  BY <1>1, InductiveInvariant, PTL

\* A success has the value of every read, but for steps a person did by hand.
THEOREM SuccessHasItsOutputs == Spec => []OutputsOfASuccess
<1>1. IInv => OutputsOfASuccess
  <2> SUFFICES ASSUME IInv, result.status = "success", NEW s \in Steps,
                      Capability[s].action = "read"
               PROVE  s \in outputs \cup skipped
    BY DEF OutputsOfASuccess
  <2>1. at = Checkpoint
    BY DEF IInv, PlaceInv
  <2>2. s < at
    BY <2>1, LengthIsNatural DEF Checkpoint, Steps
  <2> QED
    BY <2>2 DEF IInv, OutputInv
<1> QED
  BY <1>1, InductiveInvariant, PTL

-------------------------------------------------------------------------------
(***************************************************************************)
(* The engine implements the contract.                                     *)
(***************************************************************************)
\* The phase of the contract, one value of pc at a time.
LEMMA PhaseValues ==
  /\ pc \in Over => Phase = "over"
  /\ pc = "handoff" => Phase = "stuck"
  /\ pc \in Attempting => Phase = IF retrying THEN "retrying" ELSE "trying"
BY DEF Phase, Over, Attempting

\* The same of the next state.
LEMMA NextPhaseValues ==
  /\ pc' \in Over => Phase' = "over"
  /\ pc' = "handoff" => Phase' = "stuck"
  /\ pc' \in Attempting => Phase' = IF retrying' THEN "retrying" ELSE "trying"
BY DEF Phase, Over, Attempting

\* Every step of the engine is a step of the contract or none of its business.
LEMMA StepKeepsContract ==
  ASSUME IInv, [Next]_vars
  PROVE  [Contract!Next]_(Contract!vars)
<1> USE PhaseValues, NextPhaseValues
<1>0. TypeOK /\ PlaceInv
  BY DEF IInv
<1>1. ASSUME Validate \/ OpenSession \/ PerceptionRaises
      PROVE  Contract!Fail \/ Contract!Escape \/ UNCHANGED Contract!vars
  <2>1. /\ pc \in Attempting /\ UNCHANGED <<at, retrying, skipped>>
        /\ \/ pc' \in Attempting
           \/ pc' \in Over /\ result'.status \in {"failure", "escaped"}
    BY <1>1, Outcomes
    DEF Validate, OpenSession, PerceptionRaises, Return, placeVars, Attempting, Over
  <2> QED
    BY <2>1 DEF Contract!Fail, Contract!Escape, Contract!End, Contract!vars, Attempting,
       Over
<1>2. ASSUME LookForTarget \/ CheckPolicy \/ Act
      PROVE  Contract!AskForHelp \/ Contract!Fail \/ UNCHANGED Contract!vars
  <2>1. /\ pc \in Attempting /\ UNCHANGED <<at, retrying, skipped>>
        /\ \/ pc' \in Attempting
           \/ pc' = "handoff" /\ ~retrying
           \/ pc' \in Over /\ result'.status = "failure"
    <3>1. CASE LookForTarget
      <4>1. pc = "look" /\ UNCHANGED <<at, retrying, skipped>>
        BY <3>1 DEF LookForTarget, placeVars
      <4>2. \/ pc' = "guard"
            \/ Fail(HardFailure("target_not_found", Hint(progress, page')))
        BY <3>1 DEF LookForTarget
      <4>3. \A f : Fail(f) => /\ result' = f
                            /\ (pc' = "closing" \/ (pc' = "handoff" /\ ~retrying))
        BY DEF Fail, HandOver
      <4> QED
        BY <4>1, <4>2, <4>3, Outcomes DEF Attempting, Over
    <3>2. CASE CheckPolicy
      BY <3>2, Outcomes DEF CheckPolicy, Fail, HandOver, placeVars, Attempting, Over
    <3>3. CASE Act
      BY <3>3, Outcomes DEF Act, Fail, HandOver, Return, placeVars, Attempting, Over
    <3> QED
      BY <1>2, <3>1, <3>2, <3>3
  <2> QED
    BY <2>1
    DEF Contract!AskForHelp, Contract!Fail, Contract!End, Contract!vars, Attempting, Over
<1>3. ASSUME Observe
      PROVE  Contract!Answered \/ Contract!Pass \/ Contract!AskForHelp \/ Contract!Fail
  <2>1. /\ pc \in Attempting /\ at \in Steps /\ skipped' = skipped
        /\ \/ pc' \in Over /\ result'.status = "business" /\ UNCHANGED <<at, retrying>>
           \/ pc' \in Attempting /\ at' = at + 1 /\ ~retrying'
           \/ pc' = "handoff" /\ ~retrying /\ UNCHANGED <<at, retrying>>
           \/ pc' \in Over /\ result'.status = "failure" /\ UNCHANGED <<at, retrying>>
    BY <1>0, <1>3, Outcomes
    DEF Observe, Fail, HandOver, Return, MoveOn, PlaceInv, Attempting, Over
  <2> QED
    BY <2>1
    DEF Contract!Answered, Contract!Pass, Contract!AskForHelp, Contract!Fail, Contract!End,
        Contract!Attempting, Contract!Steps, Steps, Attempting, Over
<1>4. ASSUME AssertCheckpoint
      PROVE  Contract!Succeed \/ Contract!AskForHelp \/ Contract!Fail
  <2>1. /\ pc \in Attempting /\ at = Checkpoint /\ UNCHANGED <<at, retrying, skipped>>
        /\ \/ pc' \in Over /\ result'.status = "success"
           \/ pc' = "handoff" /\ ~retrying
           \/ pc' \in Over /\ result'.status = "failure"
    BY <1>4, Outcomes
    DEF AssertCheckpoint, Fail, HandOver, Return, placeVars, Attempting, Over
  <2> QED
    BY <2>1
    DEF Contract!Succeed, Contract!AskForHelp, Contract!Fail, Contract!End,
        Contract!Attempting, Contract!Checkpoint, Checkpoint, Attempting, Over
<1>5. ASSUME NobodyCame \/ HandoffRaises
      PROVE  Contract!Fail \/ Contract!Escape
  <2>1. /\ pc = "handoff" /\ UNCHANGED <<at, skipped>>
        /\ pc' \in Over /\ result'.status \in {"failure", "escaped"}
    BY <1>0, <1>5, Outcomes
    DEF NobodyCame, HandoffRaises, Return, PlaceInv, placeVars, tellingVars, Over
  <2> QED
    BY <2>1 DEF Contract!Fail, Contract!Escape, Contract!End, Attempting, Over
<1>6. ASSUME SessionReturned
      PROVE  Contract!TakeAsDone \/ Contract!TryAgain
  <2>1. /\ pc = "handoff" /\ pc' \in Attempting
        /\ \/ at \in Steps /\ at' = at + 1 /\ ~retrying' /\ skipped' = skipped \cup {at}
           \/ retrying' /\ UNCHANGED <<at, skipped>>
    BY <1>6 DEF SessionReturned, MoveOn, Attempting
  <2> QED
    BY <2>1
    DEF Contract!TakeAsDone, Contract!TryAgain, Contract!Steps, Steps, Attempting, Over
<1>7. ASSUME StopSurface \/ WriteResult \/ UNCHANGED vars
      PROVE  UNCHANGED Contract!vars
  <2>1. /\ UNCHANGED <<at, retrying, skipped, result>>
        /\ pc' = pc \/ (pc \in Over /\ pc' \in Over)
    BY <1>7 DEF StopSurface, WriteResult, placeVars, tellingVars, vars, Over
  <2> QED
    BY <2>1 DEF Phase, Contract!vars
<1> QED
  BY <1>1, <1>2, <1>3, <1>4, <1>5, <1>6, <1>7
  DEF Next, Replay, Terminated, Contract!Next

\* Whatever the application and the people do, a replay walks its steps in
\* order, asks for help at most once at each, tries at most once more, and ends
\* once (the safety part of KeepsContract).
THEOREM ImplementsContract == Spec => Contract!Spec
<1>1. Init => Contract!Init
  BY PhaseValues DEF Init, Attempting, Over, Contract!Init
<1>2. IInv /\ [Next]_vars => [Contract!Next]_(Contract!vars)
  BY StepKeepsContract
<1> QED
  BY <1>1, <1>2, InductiveInvariant, PTL DEF Spec, Contract!Spec
===============================================================================

--------------------------- MODULE DiscoveryProofs ---------------------------
(***************************************************************************)
(* Proofs about Discovery, for any pages, any policy and any budget.       *)
(***************************************************************************)
EXTENDS Discovery, TLAPS, SequenceTheorems, FiniteSetTheorems

Looking == {"observe", "decide", "correct"}
Doing == {"guard", "act", "verify", "conclude"}
Ending == {"closing", "stopping", "over"}
Running == {"start", "stage"} \cup Looking \cup Doing

Tried == trace # <<>>
Last == trace[Len(trace)]
Done(r) == r.action = "done" /\ r.verdict = "ok"

(***************************************************************************)
(* The inductive invariant, in named parts.                                *)
(***************************************************************************)
\* How an attempt stands at each place of the loop.
PlaceInv ==
  /\ pc \in Looking \cup (Doing \ {"conclude"}) => verdict = "pending"
  /\ pc = "conclude" => verdict # "pending"
  /\ pc \in Looking => stage # "retry"
  /\ pc = "start" => stage = "original" /\ ~Tried
  /\ intent.action = "navigate" => intent.destination # Nowhere

\* The attempt in progress continues the trace.
RecoveryInv ==
  /\ AttemptsFollowRecovery
  /\ pc \in Running =>
       /\ stage = "original" => ~Tried \/ Last.verdict = "ok"
       /\ stage = "retry" => /\ Tried /\ Last.verdict = "failed"
                             /\ Last.stage = "original" /\ Last.action = intent.action
       /\ stage = "replan" => Tried /\ Last.verdict = "failed" /\ Last.stage = "retry"

\* A run that goes on has no outcome yet and has verified no `done`.
OutcomeInv ==
  /\ CompletedMeansVerified
  /\ pc \in Running => outcome = "none" /\ \A i \in DOMAIN trace : ~Done(trace[i])
  /\ pc \in Ending => outcome # "none"

\* The browser is open from the start to the end, and stopped after the
\* evidence is written only.
StopInv ==
  /\ pc \notin {"start", "over"} => open
  /\ pc = "stopping" \/ (pc = "over" /\ ~open) => written

\* What the next observation is compared with, and what is left to be told.
MemoryInv ==
  /\ previousVisible <=> Tried /\ Last.action \in DIGEST_VISIBLE_ACTIONS
  /\ pc \in {"decide", "correct"} \cup Doing => previousDigest = snapshot.digest
  /\ pc \in {"stage", "observe"} /\ Tried =>
       previousDigest = snapshot.digest /\ Last.digest = snapshot.digest
  /\ pc \in {"start", "stage", "observe"} =>
       lastFailure = IF Tried /\ Last.verdict = "failed" THEN "failure" ELSE "none"
  /\ ToldOfTheLastAttempt

\* What has been paid for, and how many requests it took.
FreshAttempts == {i \in DOMAIN trace : trace[i].stage # "retry"}
Underway ==
  CASE pc = "correct" -> 1
    [] pc \in Doing \cup Ending /\ stage # "retry" -> 2
    [] OTHER -> 0

BudgetInv ==
  /\ index <= MaxSteps
  /\ pc \in Looking \cup Doing => index < MaxSteps
  /\ answers <= 2 * Cardinality(FreshAttempts) + Underway

\* On the way from a fresh observation to the action, the stamps are those of
\* the snapshot; what is then acted on carries the number the planner named.
TargetInv ==
  /\ pc \in Looking \cup {"guard", "act"} => hit = Nothing
  /\ pc \in {"decide", "correct", "guard", "act"} /\ stage # "retry" =>
       stamped = snapshot.elements
  /\ Acted => intent.ref \in DOMAIN snapshot.elements
  /\ FreshAttemptHitsItsTarget

\* Whatever runs, or has acted, was allowed on the snapshot it was decided on.
GuardInv == pc \in {"act", "verify"} \/ Acted => Allowed(intent, snapshot)

IInv ==
  /\ TypeOK
  /\ PlaceInv
  /\ RecoveryInv
  /\ OutcomeInv
  /\ StopInv
  /\ MemoryInv
  /\ BudgetInv
  /\ TargetInv
  /\ GuardInv

-------------------------------------------------------------------------------
(***************************************************************************)
(* Lemmas about the operators.                                             *)
(***************************************************************************)
\* One more entry at the end of a sequence.
LEMMA Appended ==
  ASSUME NEW S, NEW list \in Seq(S), NEW r \in S, NEW n \in Nat, n = Len(list)
  PROVE  /\ DOMAIN list = 1 .. n
         /\ Append(list, r) \in Seq(S)
         /\ Append(list, r) # <<>>
         /\ Len(Append(list, r)) = n + 1
         /\ DOMAIN Append(list, r) = 1 .. n + 1
         /\ \A i \in 1 .. n : Append(list, r)[i] = list[i]
         /\ Append(list, r)[n + 1] = r
<1>1. /\ Append(list, r) \in Seq(S)
      /\ Append(list, r) # <<>>
      /\ Len(Append(list, r)) = n + 1
      /\ \A i \in 1 .. n : Append(list, r)[i] = list[i]
      /\ Append(list, r)[n + 1] = r
  BY AppendProperties
<1>2. DOMAIN list = 1 .. n
  BY LenProperties
<1>3. DOMAIN Append(list, r) = 1 .. n + 1
  BY <1>1, LenProperties
<1> QED
  BY <1>1, <1>2, <1>3

\* The length of a trace is a number, and its entries are numbered up to it.
LEMMA TraceLength ==
  ASSUME TypeOK
  PROVE  /\ Len(trace) \in Nat
         /\ DOMAIN trace = 1 .. Len(trace)
         /\ Tried => Len(trace) \in DOMAIN trace
<1>1. trace \in Seq(Records)
  BY DEF TypeOK
<1>2. Len(trace) \in Nat /\ DOMAIN trace = 1 .. Len(trace)
  BY <1>1, LenProperties
<1>3. Tried => Len(trace) \in Nat \ {0}
  BY <1>1, EmptySeq DEF Tried
<1> QED
  BY <1>2, <1>3

\* There are three recovery stages.
LEMMA StagesAre == Stages = {"original", "retry", "replan"}
BY DEF Stages, RECOVERY_STAGES, Range

\* The entries of a trace are records.
LEMMA TraceEntries ==
  ASSUME TypeOK
  PROVE  \A i \in DOMAIN trace : trace[i] \in Records
<1>1. trace \in Seq(Records)
  BY DEF TypeOK
<1> QED
  BY <1>1, LenProperties

\* What concluding an attempt adds to the trace.
LEMMA Concluded ==
  ASSUME TypeOK, PlaceInv, Conclude
  PROVE  /\ trace' \in Seq(Records) /\ Tried'
         /\ Len(trace) \in Nat /\ Len(trace') = Len(trace) + 1
         /\ DOMAIN trace = 1 .. Len(trace)
         /\ DOMAIN trace' = 1 .. Len(trace) + 1
         /\ \A i \in 1 .. Len(trace) : trace'[i] = trace[i]
         /\ Last' = trace'[Len(trace) + 1]
         /\ Last' = [stage |-> stage, action |-> intent.action,
                     digest |-> snapshot.digest, verdict |-> verdict]
<1> DEFINE r == [stage |-> stage, action |-> intent.action,
                 digest |-> snapshot.digest, verdict |-> verdict]
<1>1. trace' = Append(trace, r)
  BY DEF Conclude
<1>2. r \in Records
  <2>1. snapshot.digest \in Digests
    BY DEF TypeOK, Digests
  <2>2. verdict \in {"ok", "failed", "halted"}
    BY DEF TypeOK, PlaceInv, Conclude
  <2>3. stage \in Stages /\ intent.action \in ActionKinds
    BY DEF TypeOK
  <2> QED
    BY <2>1, <2>2, <2>3 DEF Records
<1>3. trace \in Seq(Records) /\ Len(trace) \in Nat
  BY TraceLength DEF TypeOK
<1> HIDE DEF r
<1>4. /\ DOMAIN trace = 1 .. Len(trace)
      /\ trace' \in Seq(Records)
      /\ trace' # <<>>
      /\ Len(trace') = Len(trace) + 1
      /\ DOMAIN trace' = 1 .. Len(trace) + 1
      /\ \A i \in 1 .. Len(trace) : trace'[i] = trace[i]
      /\ trace'[Len(trace) + 1] = r
  BY <1>1, <1>2, <1>3, Appended
<1>5. Last' = r /\ Last' = trace'[Len(trace) + 1]
  BY <1>4 DEF Last
<1> QED
  BY <1>3, <1>4, <1>5 DEF r, Tried

\* An intent the planner gives is one of the known kinds of action.
LEMMA IntentTypes ==
  \A i \in Intents : /\ i \in [action : ActionKinds, ref : Refs, destination : Origins \cup {Nowhere}]
                     /\ i.action = "navigate" => i.destination # Nowhere
BY ActionsAssumption DEF Intents

\* What a stamp leads to is an element of some page.
LEMMA LiveIsAnElement ==
  ASSUME page \in Pages
  PROVE  Live \in Elements \cup {Nothing}
<1>1. Carriers \subseteq Elements
  BY DEF Carriers, Elements
<1>2. Carriers # {} => (CHOOSE e \in Carriers : TRUE) \in Carriers
  OBVIOUS
<1> QED
  BY <1>1, <1>2 DEF Live

\* It is an element of the page whose node carries the number.
LEMMA LiveCarries ==
  ASSUME Live # Nothing
  PROVE  Live.node = stamped[intent.ref].node
<1>1. Carriers # {} /\ Live = (CHOOSE e \in Carriers : TRUE)
  BY DEF Live
<1>2. Live \in Carriers
  BY <1>1
<1> QED
  BY <1>2 DEF Carriers

\* What the policy allows: a page on the list and a destination on the list,
\* and no click or select by an irreversible name.
LEMMA AllowedMeans ==
  ASSUME NEW i, NEW s, Allowed(i, s)
  PROVE  /\ s.origin \in AllowedOrigins
         /\ i.action = "navigate" /\ i.destination # Nowhere => i.destination \in AllowedOrigins
         /\ i.action \in ACTIONS_CHECKED_FOR_IRREVERSIBLE_NAME =>
              TargetName(i, s) \notin IrreversibleNames
BY DEF Allowed, Rule, OriginViolation, Tier, NamedIrreversible

-------------------------------------------------------------------------------
(***************************************************************************)
(* Every step keeps the parts of the invariant.                            *)
(***************************************************************************)
\* Every step keeps the variables within their types.
LEMMA TypeStep ==
  ASSUME TypeOK, PlaceInv, [Next]_vars
  PROVE  TypeOK'
<1>1. ASSUME Start
      PROVE  TypeOK'
  BY <1>1, TypeOK
  DEF Start, pageVars, attemptVars, recoveryVars, recordVars, historyVars, TypeOK
<1>2. ASSUME BeginStage
      PROVE  TypeOK'
  BY <1>2, TypeOK DEF BeginStage, Finish, pageVars, recoveryVars, recordVars, Outcomes,
     TypeOK
<1>3. ASSUME Observe
      PROVE  TypeOK'
  <2>1. page.digest \in Digests /\ page.elements \in {p.elements : p \in Pages}
    BY TypeOK DEF TypeOK, Digests
  <2> QED
    BY <1>3, <2>1, TypeOK DEF Observe, recordVars, runVars, historyVars, TypeOK
<1>4. ASSUME Decide
      PROVE  TypeOK'
  <2>1. intent' \in [action : ActionKinds, ref : Refs, destination : Origins \cup {Nowhere}]
    BY <1>4, IntentTypes DEF Decide
  <2> QED
    BY <1>4, <2>1, TypeOK DEF Decide, pageVars, recoveryVars, recordVars, runVars, TypeOK
<1>5. ASSUME AnswerIsNoIntent
      PROVE  TypeOK'
  BY <1>5, TypeOK
  DEF AnswerIsNoIntent, pageVars, attemptVars, recoveryVars, recordVars, runVars, TypeOK
<1>6. ASSUME Guard
      PROVE  TypeOK'
  BY <1>6, TypeOK
  DEF Guard, pageVars, recoveryVars, recordVars, runVars, historyVars, TypeOK
<1>7. ASSUME ActFails
      PROVE  TypeOK'
  BY <1>7, TypeOK
  DEF ActFails, pageVars, recoveryVars, recordVars, runVars, historyVars, TypeOK
<1>8. ASSUME Act
      PROVE  TypeOK'
  <2>1. hit' \in Elements \cup {Nothing}
    BY <1>8, LiveIsAnElement, TypeOK DEF Act, TypeOK
  <2>2. page' \in Pages
    BY <1>8, TypeOK DEF Act, TypeOK
  <2> QED
    BY <1>8, <2>1, <2>2, TypeOK DEF Act, recoveryVars, recordVars, runVars, TypeOK
<1>9. ASSUME Verify
      PROVE  TypeOK'
  BY <1>9, TypeOK
  DEF Verify, recoveryVars, recordVars, runVars, historyVars, TypeOK
<1>10. ASSUME Conclude
       PROVE  TypeOK'
  <2>1. trace' \in Seq(Records) /\ Len(trace') = Len(trace) + 1
    BY <1>10, TypeOK, PlaceInv, Concluded
  <2>2. (trace \in Seq(Records) /\ index = Len(trace))'
    BY <1>10, <2>1, TypeOK DEF Conclude, Counted, TypeOK
  <2>3. (stage \in Stages)'
    BY <1>10, StagesAre, TypeOK DEF Conclude, NextStage, TypeOK
  <2>4. (/\ lastFailure \in {"none", "no-op", "failure"}
         /\ previousDigest \in Digests \cup {Unseen} /\ previousVisible \in BOOLEAN)'
    BY <1>10, TypeOK DEF Conclude, Forget, TypeOK
  <2>5. (/\ pc \in {"start", "stage", "observe", "decide", "correct", "guard", "act", "verify",
                    "conclude", "closing", "stopping", "over"}
         /\ outcome \in Outcomes \cup {"none"})'
    BY <1>10, TypeOK DEF Conclude, Finish, Outcomes, TypeOK
  <2>6. UNCHANGED <<pageVars, snapshot, intent, verdict, expired, open, written, historyVars>>
    BY <1>10 DEF Conclude
  <2> QED
    BY <2>2, <2>3, <2>4, <2>5, <2>6, TypeOK DEF TypeOK, pageVars, historyVars
<1>11. ASSUME Raises
       PROVE  TypeOK'
  <2>1. outcome' \in Outcomes /\ pc' = "closing" /\ open' = TRUE
    BY <1>11 DEF Raises, Finish, Outcomes
  <2>2. UNCHANGED <<pageVars, attemptVars, recoveryVars, recordVars, expired, written, historyVars>>
    BY <1>11 DEF Raises
  <2> QED
    BY <2>1, <2>2, TypeOK
    DEF pageVars, attemptVars, recoveryVars, recordVars, historyVars, TypeOK
<1>12. ASSUME WriteRun
       PROVE  TypeOK'
  <2>1. written' \in BOOLEAN /\ pc' \in {"stopping", "over"}
    BY <1>12, TypeOK DEF WriteRun, TypeOK
  <2>2. UNCHANGED <<pageVars, attemptVars, recoveryVars, recordVars, outcome, expired, open,
                    historyVars>>
    BY <1>12 DEF WriteRun
  <2> QED
    BY <2>1, <2>2, TypeOK
    DEF pageVars, attemptVars, recoveryVars, recordVars, historyVars, TypeOK
<1>13. ASSUME StopSurface
       PROVE  TypeOK'
  BY <1>13, TypeOK
  DEF StopSurface, pageVars, attemptVars, recoveryVars, recordVars, historyVars, TypeOK
<1>14. ASSUME ClockRunsOut
       PROVE  TypeOK'
  BY <1>14, TypeOK
  DEF ClockRunsOut, pageVars, attemptVars, recoveryVars, recordVars, historyVars, TypeOK
<1>15. ASSUME PageMoves
       PROVE  TypeOK'
  BY <1>15, TypeOK
  DEF PageMoves, attemptVars, recoveryVars, recordVars, runVars, historyVars, TypeOK
<1>16. ASSUME UNCHANGED vars
       PROVE  TypeOK'
  BY <1>16, TypeOK
  DEF vars, pageVars, attemptVars, recoveryVars, recordVars, runVars, historyVars, TypeOK
<1> QED
  BY <1>1, <1>2, <1>3, <1>4, <1>5, <1>6, <1>7, <1>8, <1>9, <1>10, <1>11, <1>12, <1>13,
     <1>14, <1>15, <1>16
  DEF Next, RunDiscovery, Terminated

\* Every step leaves the attempt standing as its place demands.
LEMMA PlaceStep ==
  ASSUME TypeOK, PlaceInv, [Next]_vars
  PROVE  PlaceInv'
<1>1. ASSUME Start
      PROVE  PlaceInv'
  BY <1>1, TypeOK, PlaceInv
  DEF Start, pageVars, attemptVars, recoveryVars, recordVars, historyVars, TypeOK,
      PlaceInv, Looking, Doing, Tried
<1>2. ASSUME BeginStage
      PROVE  PlaceInv'
  BY <1>2, TypeOK, PlaceInv
  DEF BeginStage, Finish, pageVars, recoveryVars, recordVars, TypeOK, PlaceInv, Looking,
      Doing, Tried
<1>3. ASSUME Observe
      PROVE  PlaceInv'
  BY <1>3, TypeOK, PlaceInv
  DEF Observe, recordVars, runVars, historyVars, TypeOK, PlaceInv, Looking, Doing, Tried
<1>4. ASSUME Decide
      PROVE  PlaceInv'
  BY <1>4, TypeOK, PlaceInv, IntentTypes
  DEF Decide, pageVars, recoveryVars, recordVars, runVars, PlaceInv, Looking, Doing, Tried
<1>5. ASSUME AnswerIsNoIntent
      PROVE  PlaceInv'
  BY <1>5, TypeOK, PlaceInv
  DEF AnswerIsNoIntent, pageVars, attemptVars, recoveryVars, recordVars, runVars, TypeOK,
      PlaceInv, Looking, Doing, Tried
<1>6. ASSUME Guard
      PROVE  PlaceInv'
  BY <1>6, TypeOK, PlaceInv
  DEF Guard, pageVars, recoveryVars, recordVars, runVars, historyVars, TypeOK, PlaceInv,
      Looking, Doing, Tried
<1>7. ASSUME ActFails
      PROVE  PlaceInv'
  BY <1>7, TypeOK, PlaceInv
  DEF ActFails, pageVars, recoveryVars, recordVars, runVars, historyVars, TypeOK,
      PlaceInv, Looking, Doing, Tried
<1>8. ASSUME Act
      PROVE  PlaceInv'
  BY <1>8, TypeOK, PlaceInv
  DEF Act, recoveryVars, recordVars, runVars, TypeOK, PlaceInv, Looking, Doing, Tried
<1>9. ASSUME Verify
      PROVE  PlaceInv'
  BY <1>9, TypeOK, PlaceInv
  DEF Verify, recoveryVars, recordVars, runVars, historyVars, TypeOK, PlaceInv, Looking,
      Doing, Tried
<1>10. ASSUME Conclude
       PROVE  PlaceInv'
  BY <1>10, TypeOK, PlaceInv
  DEF Conclude, Finish, pageVars, historyVars, Counted, Forget, TypeOK, PlaceInv, Looking,
      Doing, Tried
<1>11. ASSUME Raises
       PROVE  PlaceInv'
  BY <1>11, TypeOK, PlaceInv
  DEF Raises, Finish, pageVars, attemptVars, recoveryVars, recordVars, historyVars,
      TypeOK, PlaceInv, Looking, Doing, Tried
<1>12. ASSUME WriteRun
       PROVE  PlaceInv'
  BY <1>12, TypeOK, PlaceInv
  DEF WriteRun, pageVars, attemptVars, recoveryVars, recordVars, historyVars, TypeOK,
      PlaceInv, Looking, Doing, Tried
<1>13. ASSUME StopSurface
       PROVE  PlaceInv'
  BY <1>13, TypeOK, PlaceInv
  DEF StopSurface, pageVars, attemptVars, recoveryVars, recordVars, historyVars, TypeOK,
      PlaceInv, Looking, Doing, Tried
<1>14. ASSUME ClockRunsOut
       PROVE  PlaceInv'
  BY <1>14, TypeOK, PlaceInv
  DEF ClockRunsOut, pageVars, attemptVars, recoveryVars, recordVars, historyVars, TypeOK,
      PlaceInv, Looking, Doing, Tried
<1>15. ASSUME PageMoves
       PROVE  PlaceInv'
  BY <1>15, TypeOK, PlaceInv
  DEF PageMoves, attemptVars, recoveryVars, recordVars, runVars, historyVars, TypeOK,
      PlaceInv, Looking, Doing, Tried
<1>16. ASSUME UNCHANGED vars
       PROVE  PlaceInv'
  BY <1>16, TypeOK, PlaceInv
  DEF vars, pageVars, attemptVars, recoveryVars, recordVars, runVars, historyVars, TypeOK,
      PlaceInv, Looking, Doing, Tried
<1> QED
  BY <1>1, <1>2, <1>3, <1>4, <1>5, <1>6, <1>7, <1>8, <1>9, <1>10, <1>11, <1>12, <1>13,
     <1>14, <1>15, <1>16
  DEF Next, RunDiscovery, Terminated

\* Nothing but the conclusion of an attempt writes to the trace.
LEMMA OnlyConcludeRecords ==
  ASSUME [Next]_vars
  PROVE  Conclude \/ UNCHANGED recordVars
BY DEF Next, RunDiscovery, Terminated, vars, Start, BeginStage, Observe, Decide,
       AnswerIsNoIntent, Guard, ActFails, Act, Verify, Raises, WriteRun, StopSurface,
       ClockRunsOut, PageMoves

\* The attempt in progress is the one that follows the last of the trace.
Continues ==
  pc \in Running =>
    /\ stage = "original" => ~Tried \/ Last.verdict = "ok"
    /\ stage = "retry" => /\ Tried /\ Last.verdict = "failed"
                          /\ Last.stage = "original" /\ Last.action = intent.action
    /\ stage = "replan" => Tried /\ Last.verdict = "failed" /\ Last.stage = "retry"

\* An attempt recorded where it continues the trace keeps the order of the
\* trace.
LEMMA RecoveryOrderStep ==
  ASSUME TypeOK, PlaceInv, RecoveryInv, [Next]_vars
  PROVE  AttemptsFollowRecovery'
<1>0. AttemptsFollowRecovery
  BY DEF RecoveryInv
<1>1. CASE UNCHANGED recordVars
  BY <1>0, <1>1 DEF recordVars, AttemptsFollowRecovery, Failed
<1>2. CASE Conclude
  <2> DEFINE n == Len(trace)
             Follows(t, i) ==
               CASE t[i].stage = "original" -> i = 1 \/ t[i - 1].verdict = "ok"
                 [] t[i].stage = "retry" ->
                      /\ i > 1 /\ t[i - 1].verdict = "failed"
                      /\ t[i - 1].stage = "original"
                      /\ t[i - 1].action = t[i].action
                 [] t[i].stage = "replan" ->
                      i > 1 /\ t[i - 1].verdict = "failed" /\ t[i - 1].stage = "retry"
  <2>1. \A i \in 1 .. n : Follows(trace, i)
    BY <1>0, <1>2, Concluded DEF AttemptsFollowRecovery, Failed
  <2>2. n \in Nat /\ \A i \in 1 .. n : trace'[i] = trace[i]
    BY <1>2, Concluded
  <2>3. \A i \in 1 .. n : Follows(trace', i)
    <3> SUFFICES ASSUME NEW i \in 1 .. n PROVE Follows(trace', i)
      OBVIOUS
    <3>1. Follows(trace, i) /\ trace'[i] = trace[i]
      BY <2>1, <2>2
    <3>2. CASE i = 1
      <4>1. trace[i].stage = "original"
        <5>1. trace[i].stage \in {"original", "retry", "replan"}
          BY <1>2, Concluded, TraceEntries, StagesAre DEF Records
        <5>2. ~(i > 1)
          BY <3>2
        <5>3. trace[i].stage # "retry"
          BY <3>1, <5>2
        <5>4. trace[i].stage # "replan"
          BY <3>1, <5>2
        <5> QED
          BY <5>1, <5>3, <5>4
      <4> QED
        BY <3>1, <3>2, <4>1
    <3>3. CASE i > 1
      <4>1. i - 1 \in 1 .. n
        BY <2>2, <3>3
      <4>2. trace'[i - 1] = trace[i - 1]
        BY <2>2, <4>1
      <4> QED
        BY <3>1, <4>2
    <3> QED
      <4>1. i = 1 \/ i > 1
        BY <2>2
      <4> QED
        BY <3>2, <3>3, <4>1
  <2>4. Follows(trace', n + 1)
    <3>1. trace'[n + 1] = [stage |-> stage, action |-> intent.action,
                           digest |-> snapshot.digest, verdict |-> verdict]
      BY <1>2, Concluded
    <3>2. Tried => n >= 1 /\ trace'[n] = Last
      BY <2>2, TraceLength DEF Last
    <3>3. ~Tried => n = 0
      BY DEF Tried
    <3>4. Continues /\ pc \in Running
      BY <1>2 DEF Conclude, RecoveryInv, Continues, Running, Doing
    <3>5. stage \in {"original", "retry", "replan"}
      BY StagesAre DEF TypeOK
    <3>6. n + 1 - 1 = n /\ (n >= 1 => n + 1 > 1)
      BY <2>2
    <3>7. CASE stage = "original"
      BY <2>2, <3>1, <3>2, <3>3, <3>4, <3>6, <3>7 DEF Continues
    <3>8. CASE stage = "retry"
      BY <3>1, <3>2, <3>4, <3>6, <3>8 DEF Continues
    <3>9. CASE stage = "replan"
      BY <3>1, <3>2, <3>4, <3>6, <3>9 DEF Continues
    <3> QED
      BY <3>5, <3>7, <3>8, <3>9
  <2> HIDE DEF Follows
  <2>5. \A i \in DOMAIN trace' : Follows(trace', i)
    <3>1. DOMAIN trace' = 1 .. n + 1
      BY <1>2, Concluded
    <3> QED
      BY <2>2, <2>3, <2>4, <3>1
  <2> QED
    BY <2>5 DEF Follows, AttemptsFollowRecovery, Failed
<1> QED
  BY <1>1, <1>2, OnlyConcludeRecords

\* The stage of the next attempt follows from how the last one ended.
LEMMA ContinuesStep ==
  ASSUME TypeOK, PlaceInv, Continues, [Next]_vars
  PROVE  Continues'
<1>1. ASSUME Start
      PROVE  Continues'
  BY <1>1, TypeOK, PlaceInv, Continues
  DEF Start, pageVars, attemptVars, recoveryVars, recordVars, historyVars, PlaceInv,
      Continues, Running, Looking, Doing, Tried, Last
<1>2. ASSUME BeginStage
      PROVE  Continues'
  BY <1>2, TypeOK, PlaceInv, Continues
  DEF BeginStage, Finish, pageVars, recoveryVars, recordVars, PlaceInv, Continues,
      Running, Looking, Doing, Tried, Last
<1>3. ASSUME Observe
      PROVE  Continues'
  BY <1>3, TypeOK, PlaceInv, Continues
  DEF Observe, recordVars, runVars, historyVars, PlaceInv, Continues, Running, Looking,
      Doing, Tried, Last
<1>4. ASSUME Decide
      PROVE  Continues'
  BY <1>4, TypeOK, PlaceInv, Continues
  DEF Decide, pageVars, recoveryVars, recordVars, runVars, PlaceInv, Continues, Running,
      Looking, Doing, Tried, Last
<1>5. ASSUME AnswerIsNoIntent
      PROVE  Continues'
  BY <1>5, TypeOK, PlaceInv, Continues
  DEF AnswerIsNoIntent, pageVars, attemptVars, recoveryVars, recordVars, runVars,
      PlaceInv, Continues, Running, Looking, Doing, Tried, Last
<1>6. ASSUME Guard
      PROVE  Continues'
  BY <1>6, TypeOK, PlaceInv, Continues
  DEF Guard, pageVars, recoveryVars, recordVars, runVars, historyVars, PlaceInv,
      Continues, Running, Looking, Doing, Tried, Last
<1>7. ASSUME ActFails
      PROVE  Continues'
  BY <1>7, TypeOK, PlaceInv, Continues
  DEF ActFails, pageVars, recoveryVars, recordVars, runVars, historyVars, PlaceInv,
      Continues, Running, Looking, Doing, Tried, Last
<1>8. ASSUME Act
      PROVE  Continues'
  BY <1>8, TypeOK, PlaceInv, Continues
  DEF Act, recoveryVars, recordVars, runVars, PlaceInv, Continues, Running, Looking,
      Doing, Tried, Last
<1>9. ASSUME Verify
      PROVE  Continues'
  BY <1>9, TypeOK, PlaceInv, Continues
  DEF Verify, recoveryVars, recordVars, runVars, historyVars, PlaceInv, Continues,
      Running, Looking, Doing, Tried, Last
<1>10. ASSUME Conclude
       PROVE  Continues'
  <2>1. /\ Last' = [stage |-> stage, action |-> intent.action,
                    digest |-> snapshot.digest, verdict |-> verdict]
        /\ Tried' /\ intent' = intent
    BY <1>10, Concluded DEF Conclude
  <2>2. \/ pc' = "closing"
        \/ pc' = "stage" /\ stage' = "original" /\ verdict = "ok"
        \/ /\ pc' = "stage" /\ stage' = NextStage(stage) /\ verdict = "failed"
           /\ stage # "replan"
    BY <1>10 DEF Conclude, Finish
  <2>3. stage \in {"original", "retry", "replan"}
    BY TypeOK, StagesAre DEF TypeOK
  <2> QED
    BY <2>1, <2>2, <2>3 DEF Continues, NextStage, Running, Looking, Doing
<1>11. ASSUME Raises
       PROVE  Continues'
  BY <1>11, TypeOK, PlaceInv, Continues
  DEF Raises, Finish, pageVars, attemptVars, recoveryVars, recordVars, historyVars,
      PlaceInv, Continues, Running, Looking, Doing, Tried, Last
<1>12. ASSUME WriteRun
       PROVE  Continues'
  BY <1>12, TypeOK, PlaceInv, Continues
  DEF WriteRun, pageVars, attemptVars, recoveryVars, recordVars, historyVars, PlaceInv,
      Continues, Running, Looking, Doing, Tried, Last
<1>13. ASSUME StopSurface
       PROVE  Continues'
  BY <1>13, TypeOK, PlaceInv, Continues
  DEF StopSurface, pageVars, attemptVars, recoveryVars, recordVars, historyVars, PlaceInv,
      Continues, Running, Looking, Doing, Tried, Last
<1>14. ASSUME ClockRunsOut
       PROVE  Continues'
  BY <1>14, TypeOK, PlaceInv, Continues
  DEF ClockRunsOut, pageVars, attemptVars, recoveryVars, recordVars, historyVars,
      PlaceInv, Continues, Running, Looking, Doing, Tried, Last
<1>15. ASSUME PageMoves
       PROVE  Continues'
  BY <1>15, TypeOK, PlaceInv, Continues
  DEF PageMoves, attemptVars, recoveryVars, recordVars, runVars, historyVars, PlaceInv,
      Continues, Running, Looking, Doing, Tried, Last
<1>16. ASSUME UNCHANGED vars
       PROVE  Continues'
  BY <1>16, TypeOK, PlaceInv, Continues
  DEF vars, pageVars, attemptVars, recoveryVars, recordVars, runVars, historyVars,
      PlaceInv, Continues, Running, Looking, Doing, Tried, Last
<1> QED
  BY <1>1, <1>2, <1>3, <1>4, <1>5, <1>6, <1>7, <1>8, <1>9, <1>10, <1>11, <1>12, <1>13,
     <1>14, <1>15, <1>16
  DEF Next, RunDiscovery, Terminated

\* Every step keeps the order of the attempts, and the next one in line.
LEMMA RecoveryStep ==
  ASSUME TypeOK, PlaceInv, RecoveryInv, [Next]_vars
  PROVE  RecoveryInv'
<1>1. Continues
  BY DEF RecoveryInv, Continues
<1> QED
  BY <1>1, RecoveryOrderStep, ContinuesStep DEF RecoveryInv, Continues

\* Every step keeps the outcome, and a verified `done` at the end.
LEMMA OutcomeStep ==
  ASSUME TypeOK, PlaceInv, OutcomeInv, [Next]_vars
  PROVE  OutcomeInv'
<1>1. ASSUME Start
      PROVE  OutcomeInv'
  BY <1>1, TypeOK, OutcomeInv
  DEF Start, pageVars, attemptVars, recoveryVars, recordVars, historyVars, TypeOK,
      OutcomeInv, CompletedMeansVerified, Done, Running, Looking, Doing, Ending
<1>2. ASSUME BeginStage
      PROVE  OutcomeInv'
  BY <1>2, TypeOK, OutcomeInv
  DEF BeginStage, Finish, pageVars, recoveryVars, recordVars, TypeOK, OutcomeInv,
      CompletedMeansVerified, Done, Running, Looking, Doing, Ending
<1>3. ASSUME Observe
      PROVE  OutcomeInv'
  BY <1>3, TypeOK, OutcomeInv
  DEF Observe, recordVars, runVars, historyVars, TypeOK, OutcomeInv,
      CompletedMeansVerified, Done, Running, Looking, Doing, Ending
<1>4. ASSUME Decide
      PROVE  OutcomeInv'
  BY <1>4, TypeOK, OutcomeInv
  DEF Decide, pageVars, recoveryVars, recordVars, runVars, TypeOK, OutcomeInv,
      CompletedMeansVerified, Done, Running, Looking, Doing, Ending
<1>5. ASSUME AnswerIsNoIntent
      PROVE  OutcomeInv'
  BY <1>5, TypeOK, OutcomeInv
  DEF AnswerIsNoIntent, pageVars, attemptVars, recoveryVars, recordVars, runVars, TypeOK,
      OutcomeInv, CompletedMeansVerified, Done, Running, Looking, Doing, Ending
<1>6. ASSUME Guard
      PROVE  OutcomeInv'
  BY <1>6, TypeOK, OutcomeInv
  DEF Guard, pageVars, recoveryVars, recordVars, runVars, historyVars, TypeOK, OutcomeInv,
      CompletedMeansVerified, Done, Running, Looking, Doing, Ending
<1>7. ASSUME ActFails
      PROVE  OutcomeInv'
  BY <1>7, TypeOK, OutcomeInv
  DEF ActFails, pageVars, recoveryVars, recordVars, runVars, historyVars, TypeOK,
      OutcomeInv, CompletedMeansVerified, Done, Running, Looking, Doing, Ending
<1>8. ASSUME Act
      PROVE  OutcomeInv'
  BY <1>8, TypeOK, OutcomeInv
  DEF Act, recoveryVars, recordVars, runVars, TypeOK, OutcomeInv, CompletedMeansVerified,
      Done, Running, Looking, Doing, Ending
<1>9. ASSUME Verify
      PROVE  OutcomeInv'
  BY <1>9, TypeOK, OutcomeInv
  DEF Verify, recoveryVars, recordVars, runVars, historyVars, TypeOK, OutcomeInv,
      CompletedMeansVerified, Done, Running, Looking, Doing, Ending
<1>10. ASSUME Conclude
       PROVE  OutcomeInv'
  <2> DEFINE n == Len(trace)
  <2>1. /\ n \in Nat /\ DOMAIN trace = 1 .. n /\ DOMAIN trace' = 1 .. n + 1
        /\ Len(trace') = n + 1
        /\ \A i \in 1 .. n : trace'[i] = trace[i]
        /\ trace'[n + 1].action = intent.action /\ trace'[n + 1].verdict = verdict
    BY <1>10, Concluded
  <2>2. outcome = "none" /\ \A i \in 1 .. n : ~Done(trace[i])
    BY <1>10, <2>1, OutcomeInv DEF Conclude, OutcomeInv, Running, Doing
  <2>3. \A i \in 1 .. n : ~Done(trace'[i])
    BY <2>1, <2>2
  <2>4. Done(trace'[n + 1]) <=> IsDone
    BY <2>1 DEF Done, IsDone
  <2>5. \/ ~IsDone /\ outcome' = "halted_policy" /\ pc' = "closing"
        \/ IsDone /\ outcome' = "completed" /\ pc' = "closing"
        \/ ~IsDone /\ outcome' = outcome /\ pc' = "stage"
        \/ ~IsDone /\ outcome' = "dead_end" /\ pc' = "closing"
    BY <1>10 DEF Conclude, Finish, IsDone
  <2> HIDE DEF n
  <2>6. \A i \in 1 .. n + 1 : Done(trace'[i]) => i = n + 1 /\ IsDone
    BY <2>1, <2>3, <2>4
  <2>7. n + 1 > 0 /\ n + 1 \in 1 .. n + 1
    BY <2>1
  <2>8. CompletedMeansVerified'
    BY <2>1, <2>2, <2>4, <2>5, <2>6, <2>7 DEF CompletedMeansVerified, Done
  <2>9. pc' \in Running => ~IsDone /\ outcome' = "none"
    BY <2>2, <2>5 DEF Running, Looking, Doing
  <2>10. pc' \in Ending => outcome' # "none"
    BY <2>5 DEF Ending
  <2> QED
    BY <2>1, <2>6, <2>8, <2>9, <2>10 DEF OutcomeInv
<1>11. ASSUME Raises
       PROVE  OutcomeInv'
  BY <1>11, TypeOK, OutcomeInv
  DEF Raises, Finish, pageVars, attemptVars, recoveryVars, recordVars, historyVars,
      TypeOK, OutcomeInv, CompletedMeansVerified, Done, Running, Looking, Doing, Ending
<1>12. ASSUME WriteRun
       PROVE  OutcomeInv'
  BY <1>12, TypeOK, OutcomeInv
  DEF WriteRun, pageVars, attemptVars, recoveryVars, recordVars, historyVars, TypeOK,
      OutcomeInv, CompletedMeansVerified, Done, Running, Looking, Doing, Ending
<1>13. ASSUME StopSurface
       PROVE  OutcomeInv'
  BY <1>13, TypeOK, OutcomeInv
  DEF StopSurface, pageVars, attemptVars, recoveryVars, recordVars, historyVars, TypeOK,
      OutcomeInv, CompletedMeansVerified, Done, Running, Looking, Doing, Ending
<1>14. ASSUME ClockRunsOut
       PROVE  OutcomeInv'
  BY <1>14, TypeOK, OutcomeInv
  DEF ClockRunsOut, pageVars, attemptVars, recoveryVars, recordVars, historyVars, TypeOK,
      OutcomeInv, CompletedMeansVerified, Done, Running, Looking, Doing, Ending
<1>15. ASSUME PageMoves
       PROVE  OutcomeInv'
  BY <1>15, TypeOK, OutcomeInv
  DEF PageMoves, attemptVars, recoveryVars, recordVars, runVars, historyVars, TypeOK,
      OutcomeInv, CompletedMeansVerified, Done, Running, Looking, Doing, Ending
<1>16. ASSUME UNCHANGED vars
       PROVE  OutcomeInv'
  BY <1>16, TypeOK, OutcomeInv
  DEF vars, pageVars, attemptVars, recoveryVars, recordVars, runVars, historyVars, TypeOK,
      OutcomeInv, CompletedMeansVerified, Done, Running, Looking, Doing, Ending
<1> QED
  BY <1>1, <1>2, <1>3, <1>4, <1>5, <1>6, <1>7, <1>8, <1>9, <1>10, <1>11, <1>12, <1>13,
     <1>14, <1>15, <1>16
  DEF Next, RunDiscovery, Terminated

\* The browser is stopped after the evidence is written, and not before.
LEMMA StopStep ==
  ASSUME TypeOK, StopInv, [Next]_vars
  PROVE  StopInv'
<1>1. ASSUME Start
      PROVE  StopInv'
  BY <1>1, TypeOK, StopInv
  DEF Start, pageVars, attemptVars, recoveryVars, recordVars, historyVars, TypeOK, StopInv
<1>2. ASSUME BeginStage
      PROVE  StopInv'
  BY <1>2, TypeOK, StopInv
  DEF BeginStage, Finish, pageVars, recoveryVars, recordVars, TypeOK, StopInv
<1>3. ASSUME Observe
      PROVE  StopInv'
  BY <1>3, TypeOK, StopInv
  DEF Observe, recordVars, runVars, historyVars, TypeOK, StopInv
<1>4. ASSUME Decide
      PROVE  StopInv'
  BY <1>4, TypeOK, StopInv
  DEF Decide, pageVars, recoveryVars, recordVars, runVars, TypeOK, StopInv
<1>5. ASSUME AnswerIsNoIntent
      PROVE  StopInv'
  BY <1>5, TypeOK, StopInv
  DEF AnswerIsNoIntent, pageVars, attemptVars, recoveryVars, recordVars, runVars, TypeOK,
      StopInv
<1>6. ASSUME Guard
      PROVE  StopInv'
  BY <1>6, TypeOK, StopInv
  DEF Guard, pageVars, recoveryVars, recordVars, runVars, historyVars, TypeOK, StopInv
<1>7. ASSUME ActFails
      PROVE  StopInv'
  BY <1>7, TypeOK, StopInv
  DEF ActFails, pageVars, recoveryVars, recordVars, runVars, historyVars, TypeOK, StopInv
<1>8. ASSUME Act
      PROVE  StopInv'
  BY <1>8, TypeOK, StopInv
  DEF Act, recoveryVars, recordVars, runVars, TypeOK, StopInv
<1>9. ASSUME Verify
      PROVE  StopInv'
  BY <1>9, TypeOK, StopInv
  DEF Verify, recoveryVars, recordVars, runVars, historyVars, TypeOK, StopInv
<1>10. ASSUME Conclude
       PROVE  StopInv'
  BY <1>10, TypeOK, StopInv
  DEF Conclude, Finish, pageVars, historyVars, Counted, Forget, TypeOK, StopInv
<1>11. ASSUME Raises
       PROVE  StopInv'
  BY <1>11, TypeOK, StopInv
  DEF Raises, Finish, pageVars, attemptVars, recoveryVars, recordVars, historyVars,
      TypeOK, StopInv
<1>12. ASSUME WriteRun
       PROVE  StopInv'
  BY <1>12, TypeOK, StopInv
  DEF WriteRun, pageVars, attemptVars, recoveryVars, recordVars, historyVars, TypeOK,
      StopInv
<1>13. ASSUME StopSurface
       PROVE  StopInv'
  BY <1>13, TypeOK, StopInv
  DEF StopSurface, pageVars, attemptVars, recoveryVars, recordVars, historyVars, TypeOK,
      StopInv
<1>14. ASSUME ClockRunsOut
       PROVE  StopInv'
  BY <1>14, TypeOK, StopInv
  DEF ClockRunsOut, pageVars, attemptVars, recoveryVars, recordVars, historyVars, TypeOK,
      StopInv
<1>15. ASSUME PageMoves
       PROVE  StopInv'
  BY <1>15, TypeOK, StopInv
  DEF PageMoves, attemptVars, recoveryVars, recordVars, runVars, historyVars, TypeOK,
      StopInv
<1>16. ASSUME UNCHANGED vars
       PROVE  StopInv'
  BY <1>16, TypeOK, StopInv
  DEF vars, pageVars, attemptVars, recoveryVars, recordVars, runVars, historyVars, TypeOK,
      StopInv
<1> QED
  BY <1>1, <1>2, <1>3, <1>4, <1>5, <1>6, <1>7, <1>8, <1>9, <1>10, <1>11, <1>12, <1>13,
     <1>14, <1>15, <1>16
  DEF Next, RunDiscovery, Terminated

\* What the loop remembers of the last attempt stays true of it.
LEMMA MemoryStep ==
  ASSUME TypeOK, PlaceInv, RecoveryInv, MemoryInv, [Next]_vars
  PROVE  MemoryInv'
<1>1. ASSUME Start
      PROVE  MemoryInv'
  BY <1>1, PlaceInv, MemoryInv
  DEF Start, recoveryVars, recordVars, attemptVars, PlaceInv, MemoryInv,
      ToldOfTheLastAttempt,
      Doing, Tried, Last
<1>2. ASSUME BeginStage
      PROVE  MemoryInv'
  <2>1. /\ pc = "stage" /\ pc' \in {"closing", "guard", "observe"}
        /\ pc' = "guard" => stage = "retry"
        /\ UNCHANGED <<trace, previousVisible, previousDigest, lastFailure, snapshot>>
    BY <1>2 DEF BeginStage, Finish, recoveryVars, recordVars
  <2>2. stage = "retry" => Tried
    BY <2>1, RecoveryInv DEF RecoveryInv, Running
  <2> QED
    BY <2>1, <2>2, MemoryInv DEF MemoryInv, ToldOfTheLastAttempt, Doing, Tried, Last
<1>3. ASSUME Observe
      PROVE  MemoryInv'
  <2>1. /\ snapshot' = page /\ previousDigest' = page.digest /\ pc' = "decide"
        /\ lastFailure' = IF NoOp THEN "no-op" ELSE lastFailure
        /\ trace' = trace /\ previousVisible' = previousVisible /\ pc = "observe"
    BY <1>3 DEF Observe, recordVars
  <2>2. /\ previousVisible <=> Tried /\ Last.action \in DIGEST_VISIBLE_ACTIONS
        /\ Tried => previousDigest = snapshot.digest /\ Last.digest = snapshot.digest
        /\ lastFailure = IF Tried /\ Last.verdict = "failed" THEN "failure" ELSE "none"
    BY <2>1, MemoryInv DEF MemoryInv
  <2>3. NoOp => /\ Tried /\ Last.action \in DIGEST_VISIBLE_ACTIONS
                /\ Last.digest = page.digest
    BY <2>2 DEF NoOp
  <2>4. ToldOfTheLastAttempt'
    BY <2>1, <2>2, <2>3 DEF ToldOfTheLastAttempt, Failed, Tried, Last
  <2> QED
    BY <2>1, <2>2, <2>4 DEF MemoryInv, Tried, Last
<1>4. ASSUME Decide
      PROVE  MemoryInv'
  BY <1>4, TypeOK, MemoryInv
  DEF Decide, pageVars, recoveryVars, recordVars, runVars, MemoryInv,
      ToldOfTheLastAttempt, Failed, Tried, Last, Doing
<1>5. ASSUME AnswerIsNoIntent
      PROVE  MemoryInv'
  BY <1>5, TypeOK, MemoryInv
  DEF AnswerIsNoIntent, pageVars, attemptVars, recoveryVars, recordVars, runVars,
      MemoryInv, ToldOfTheLastAttempt, Failed, Tried, Last, Doing
<1>6. ASSUME Guard
      PROVE  MemoryInv'
  BY <1>6, TypeOK, MemoryInv
  DEF Guard, pageVars, recoveryVars, recordVars, runVars, historyVars, MemoryInv,
      ToldOfTheLastAttempt, Failed, Tried, Last, Doing
<1>7. ASSUME ActFails
      PROVE  MemoryInv'
  BY <1>7, TypeOK, MemoryInv
  DEF ActFails, pageVars, recoveryVars, recordVars, runVars, historyVars, MemoryInv,
      ToldOfTheLastAttempt, Failed, Tried, Last, Doing
<1>8. ASSUME Act
      PROVE  MemoryInv'
  BY <1>8, TypeOK, MemoryInv
  DEF Act, recoveryVars, recordVars, runVars, MemoryInv, ToldOfTheLastAttempt, Failed,
      Tried, Last, Doing
<1>9. ASSUME Verify
      PROVE  MemoryInv'
  BY <1>9, TypeOK, MemoryInv
  DEF Verify, recoveryVars, recordVars, runVars, historyVars, MemoryInv,
      ToldOfTheLastAttempt, Failed, Tried, Last, Doing
<1>10. ASSUME Conclude
       PROVE  MemoryInv'
  <2>1. /\ Tried' /\ Last'.action = intent.action /\ Last'.digest = snapshot.digest
        /\ Last'.verdict = verdict
    BY <1>10, Concluded
  <2>2. /\ previousVisible' = (intent.action \in DIGEST_VISIBLE_ACTIONS)
        /\ previousDigest' = previousDigest /\ snapshot' = snapshot
    BY <1>10 DEF Conclude
  <2>3. previousDigest = snapshot.digest
    BY <1>10, MemoryInv DEF Conclude, MemoryInv, Doing
  <2>4. \/ pc' = "closing"
        \/ pc' = "stage" /\ verdict = "ok" /\ lastFailure' = "none"
        \/ pc' = "stage" /\ verdict = "failed" /\ lastFailure' = "failure"
    BY <1>10 DEF Conclude, Finish, Forget
  <2> QED
    BY <2>1, <2>2, <2>3, <2>4 DEF MemoryInv, ToldOfTheLastAttempt, Doing
<1>11. ASSUME Raises
       PROVE  MemoryInv'
  BY <1>11, TypeOK, MemoryInv
  DEF Raises, Finish, pageVars, attemptVars, recoveryVars, recordVars, historyVars,
      MemoryInv, ToldOfTheLastAttempt, Failed, Tried, Last, Doing
<1>12. ASSUME WriteRun
       PROVE  MemoryInv'
  BY <1>12, TypeOK, MemoryInv
  DEF WriteRun, pageVars, attemptVars, recoveryVars, recordVars, historyVars, MemoryInv,
      ToldOfTheLastAttempt, Failed, Tried, Last, Doing
<1>13. ASSUME StopSurface
       PROVE  MemoryInv'
  BY <1>13, TypeOK, MemoryInv
  DEF StopSurface, pageVars, attemptVars, recoveryVars, recordVars, historyVars,
      MemoryInv, ToldOfTheLastAttempt, Failed, Tried, Last, Doing
<1>14. ASSUME ClockRunsOut
       PROVE  MemoryInv'
  BY <1>14, TypeOK, MemoryInv
  DEF ClockRunsOut, pageVars, attemptVars, recoveryVars, recordVars, historyVars,
      MemoryInv, ToldOfTheLastAttempt, Failed, Tried, Last, Doing
<1>15. ASSUME PageMoves
       PROVE  MemoryInv'
  BY <1>15, TypeOK, MemoryInv
  DEF PageMoves, attemptVars, recoveryVars, recordVars, runVars, historyVars, MemoryInv,
      ToldOfTheLastAttempt, Failed, Tried, Last, Doing
<1>16. ASSUME UNCHANGED vars
       PROVE  MemoryInv'
  BY <1>16, TypeOK, MemoryInv
  DEF vars, pageVars, attemptVars, recoveryVars, recordVars, runVars, historyVars,
      MemoryInv, ToldOfTheLastAttempt, Failed, Tried, Last, Doing
<1> QED
  BY <1>1, <1>2, <1>3, <1>4, <1>5, <1>6, <1>7, <1>8, <1>9, <1>10, <1>11, <1>12, <1>13,
     <1>14, <1>15, <1>16
  DEF Next, RunDiscovery, Terminated

\* The fresh attempts are finitely many, and only a new record adds to them.
LEMMA FreshAttemptsCounted ==
  ASSUME TypeOK
  PROVE  /\ IsFiniteSet(FreshAttempts) /\ Cardinality(FreshAttempts) \in Nat
         /\ trace' = trace => FreshAttempts' = FreshAttempts
<1>1. Len(trace) \in Nat /\ DOMAIN trace = 1 .. Len(trace)
  BY TraceLength
<1>2. IsFiniteSet(1 .. Len(trace))
  BY <1>1, FS_Interval
<1>3. FreshAttempts \subseteq 1 .. Len(trace)
  BY <1>1 DEF FreshAttempts
<1>4. IsFiniteSet(FreshAttempts)
  BY <1>2, <1>3, FS_Subset
<1>5. Cardinality(FreshAttempts) \in Nat
  BY <1>4, FS_CardinalityType
<1>6. trace' = trace => FreshAttempts' = FreshAttempts
  BY DEF FreshAttempts
<1> QED
  BY <1>4, <1>5, <1>6

\* Every step pays for the attempt it begins and the request it makes.
LEMMA BudgetStep ==
  ASSUME TypeOK, PlaceInv, BudgetInv, [Next]_vars
  PROVE  BudgetInv'
<1>1. ASSUME Start
      PROVE  BudgetInv'
  BY <1>1, TypeOK, PlaceInv, BudgetInv, MaxStepsAssumption, FreshAttemptsCounted
  DEF Start, pageVars, attemptVars, recoveryVars, recordVars, historyVars, TypeOK,
      PlaceInv, BudgetInv, Underway, Looking, Doing, Ending, BudgetExhausted
<1>2. ASSUME BeginStage
      PROVE  BudgetInv'
  BY <1>2, TypeOK, PlaceInv, BudgetInv, MaxStepsAssumption, FreshAttemptsCounted
  DEF BeginStage, Finish, pageVars, recoveryVars, recordVars, TypeOK, PlaceInv, BudgetInv,
      Underway, Looking, Doing, Ending, BudgetExhausted
<1>3. ASSUME Observe
      PROVE  BudgetInv'
  BY <1>3, TypeOK, PlaceInv, BudgetInv, MaxStepsAssumption, FreshAttemptsCounted
  DEF Observe, recordVars, runVars, historyVars, TypeOK, PlaceInv, BudgetInv, Underway,
      Looking, Doing, Ending, BudgetExhausted
<1>4. ASSUME Decide
      PROVE  BudgetInv'
  BY <1>4, TypeOK, PlaceInv, BudgetInv, MaxStepsAssumption, FreshAttemptsCounted
  DEF Decide, pageVars, recoveryVars, recordVars, runVars, TypeOK, PlaceInv, BudgetInv,
      Underway, Looking, Doing, Ending, BudgetExhausted
<1>5. ASSUME AnswerIsNoIntent
      PROVE  BudgetInv'
  BY <1>5, TypeOK, PlaceInv, BudgetInv, MaxStepsAssumption, FreshAttemptsCounted
  DEF AnswerIsNoIntent, pageVars, attemptVars, recoveryVars, recordVars, runVars, TypeOK,
      PlaceInv, BudgetInv, Underway, Looking, Doing, Ending, BudgetExhausted
<1>6. ASSUME Guard
      PROVE  BudgetInv'
  BY <1>6, TypeOK, PlaceInv, BudgetInv, MaxStepsAssumption, FreshAttemptsCounted
  DEF Guard, pageVars, recoveryVars, recordVars, runVars, historyVars, TypeOK, PlaceInv,
      BudgetInv, Underway, Looking, Doing, Ending, BudgetExhausted
<1>7. ASSUME ActFails
      PROVE  BudgetInv'
  BY <1>7, TypeOK, PlaceInv, BudgetInv, MaxStepsAssumption, FreshAttemptsCounted
  DEF ActFails, pageVars, recoveryVars, recordVars, runVars, historyVars, TypeOK,
      PlaceInv, BudgetInv, Underway, Looking, Doing, Ending, BudgetExhausted
<1>8. ASSUME Act
      PROVE  BudgetInv'
  BY <1>8, TypeOK, PlaceInv, BudgetInv, MaxStepsAssumption, FreshAttemptsCounted
  DEF Act, recoveryVars, recordVars, runVars, TypeOK, PlaceInv, BudgetInv, Underway,
      Looking, Doing, Ending, BudgetExhausted
<1>9. ASSUME Verify
      PROVE  BudgetInv'
  BY <1>9, TypeOK, PlaceInv, BudgetInv, MaxStepsAssumption, FreshAttemptsCounted
  DEF Verify, recoveryVars, recordVars, runVars, historyVars, TypeOK, PlaceInv, BudgetInv,
      Underway, Looking, Doing, Ending, BudgetExhausted
<1>10. ASSUME Conclude
       PROVE  BudgetInv'
  <2> DEFINE n == Len(trace)
             fresh == IF stage # "retry" THEN 1 ELSE 0
  <2>1. /\ n \in Nat /\ DOMAIN trace = 1 .. n /\ DOMAIN trace' = 1 .. n + 1
        /\ \A i \in 1 .. n : trace'[i] = trace[i]
        /\ trace'[n + 1].stage = stage
    BY <1>10, Concluded
  <2>2. Cardinality(FreshAttempts') = Cardinality(FreshAttempts) + fresh
    <3>1. CASE stage = "retry"
      <4>1. FreshAttempts' = FreshAttempts
        BY <2>1, <3>1 DEF FreshAttempts
      <4> QED
        BY <3>1, <4>1, FreshAttemptsCounted
    <3>2. CASE stage # "retry"
      <4>1. FreshAttempts' = FreshAttempts \cup {n + 1}
        BY <2>1, <3>2 DEF FreshAttempts
      <4>2. n + 1 \notin FreshAttempts
        BY <2>1 DEF FreshAttempts
      <4> QED
        BY <3>2, <4>1, <4>2, FreshAttemptsCounted, FS_AddElement
    <3> QED
      BY <3>1, <3>2
  <2>3. answers' = answers /\ index' = index + 1 /\ pc' \in {"stage", "closing"}
    BY <1>10 DEF Conclude, Finish, Counted, historyVars
  <2>4. index < MaxSteps /\ answers <= 2 * Cardinality(FreshAttempts) + 2 * fresh
    BY <1>10, BudgetInv DEF Conclude, BudgetInv, Underway, Doing
  <2>5. pc' = "closing" => stage' = stage \/ stage = "replan"
    BY <1>10 DEF Conclude, Finish
  <2>6. Underway' \in Nat
    BY DEF Underway
  <2> HIDE DEF fresh
  <2>7. answers' <= 2 * Cardinality(FreshAttempts') + Underway'
    BY <2>2, <2>3, <2>4, <2>6, FreshAttemptsCounted, TypeOK DEF TypeOK, fresh
  <2> QED
    BY <2>3, <2>4, <2>7, TypeOK, MaxStepsAssumption DEF BudgetInv, TypeOK, Looking, Doing
<1>11. ASSUME Raises
       PROVE  BudgetInv'
  BY <1>11, TypeOK, PlaceInv, BudgetInv, MaxStepsAssumption, FreshAttemptsCounted
  DEF Raises, Finish, pageVars, attemptVars, recoveryVars, recordVars, historyVars,
      TypeOK, PlaceInv, BudgetInv, Underway, Looking, Doing, Ending, BudgetExhausted
<1>12. ASSUME WriteRun
       PROVE  BudgetInv'
  BY <1>12, TypeOK, PlaceInv, BudgetInv, MaxStepsAssumption, FreshAttemptsCounted
  DEF WriteRun, pageVars, attemptVars, recoveryVars, recordVars, historyVars, TypeOK,
      PlaceInv, BudgetInv, Underway, Looking, Doing, Ending, BudgetExhausted
<1>13. ASSUME StopSurface
       PROVE  BudgetInv'
  BY <1>13, TypeOK, PlaceInv, BudgetInv, MaxStepsAssumption, FreshAttemptsCounted
  DEF StopSurface, pageVars, attemptVars, recoveryVars, recordVars, historyVars, TypeOK,
      PlaceInv, BudgetInv, Underway, Looking, Doing, Ending, BudgetExhausted
<1>14. ASSUME ClockRunsOut
       PROVE  BudgetInv'
  BY <1>14, TypeOK, PlaceInv, BudgetInv, MaxStepsAssumption, FreshAttemptsCounted
  DEF ClockRunsOut, pageVars, attemptVars, recoveryVars, recordVars, historyVars, TypeOK,
      PlaceInv, BudgetInv, Underway, Looking, Doing, Ending, BudgetExhausted
<1>15. ASSUME PageMoves
       PROVE  BudgetInv'
  BY <1>15, TypeOK, PlaceInv, BudgetInv, MaxStepsAssumption, FreshAttemptsCounted
  DEF PageMoves, attemptVars, recoveryVars, recordVars, runVars, historyVars, TypeOK,
      PlaceInv, BudgetInv, Underway, Looking, Doing, Ending, BudgetExhausted
<1>16. ASSUME UNCHANGED vars
       PROVE  BudgetInv'
  BY <1>16, TypeOK, PlaceInv, BudgetInv, MaxStepsAssumption, FreshAttemptsCounted
  DEF vars, pageVars, attemptVars, recoveryVars, recordVars, runVars, historyVars, TypeOK,
      PlaceInv, BudgetInv, Underway, Looking, Doing, Ending, BudgetExhausted
<1> QED
  BY <1>1, <1>2, <1>3, <1>4, <1>5, <1>6, <1>7, <1>8, <1>9, <1>10, <1>11, <1>12, <1>13,
     <1>14, <1>15, <1>16
  DEF Next, RunDiscovery, Terminated

\* What is acted on is what the snapshot says, whenever the stamps are its own.
LEMMA TargetStep ==
  ASSUME TypeOK, PlaceInv, TargetInv, [Next]_vars
  PROVE  TargetInv'
<1>1. ASSUME Start
      PROVE  TargetInv'
  BY <1>1, PlaceInv, TargetInv
  DEF Start, pageVars, attemptVars, recoveryVars, recordVars, historyVars, PlaceInv,
      TargetInv, FreshAttemptHitsItsTarget, Acted, Looking
<1>2. ASSUME BeginStage
      PROVE  TargetInv'
  BY <1>2, PlaceInv, TargetInv
  DEF BeginStage, Finish, pageVars, recoveryVars, recordVars, PlaceInv, TargetInv,
      FreshAttemptHitsItsTarget, Acted, Looking
<1>3. ASSUME Observe
      PROVE  TargetInv'
  BY <1>3, PlaceInv, TargetInv
  DEF Observe, recordVars, runVars, historyVars, PlaceInv, TargetInv,
      FreshAttemptHitsItsTarget, Acted, Looking
<1>4. ASSUME Decide
      PROVE  TargetInv'
  BY <1>4, PlaceInv, TargetInv
  DEF Decide, pageVars, recoveryVars, recordVars, runVars, PlaceInv, TargetInv,
      FreshAttemptHitsItsTarget, Acted, Looking
<1>5. ASSUME AnswerIsNoIntent
      PROVE  TargetInv'
  BY <1>5, PlaceInv, TargetInv
  DEF AnswerIsNoIntent, pageVars, attemptVars, recoveryVars, recordVars, runVars,
      PlaceInv, TargetInv, FreshAttemptHitsItsTarget, Acted, Looking
<1>6. ASSUME Guard
      PROVE  TargetInv'
  BY <1>6, PlaceInv, TargetInv
  DEF Guard, pageVars, recoveryVars, recordVars, runVars, historyVars, PlaceInv,
      TargetInv, FreshAttemptHitsItsTarget, Acted, Looking
<1>7. ASSUME ActFails
      PROVE  TargetInv'
  BY <1>7, PlaceInv, TargetInv
  DEF ActFails, pageVars, recoveryVars, recordVars, runVars, historyVars, PlaceInv,
      TargetInv, FreshAttemptHitsItsTarget, Acted, Looking
<1>8. ASSUME Act
      PROVE  TargetInv'
  <2>1. /\ pc = "act" /\ pc' \in {"verify", "conclude"}
        /\ UNCHANGED <<stamped, snapshot, intent, stage>>
        /\ hit' = IF NeedsTarget THEN Live ELSE Nothing
    BY <1>8 DEF Act
  <2>2. hit' # Nothing => /\ hit' = Live
                          /\ intent.ref \in DOMAIN snapshot.elements
    BY <1>8, <2>1 DEF Act, Resolved
  <2>3. hit' # Nothing => hit'.node = stamped[intent.ref].node
    BY <2>2, LiveCarries
  <2>4. stage # "retry" => stamped = snapshot.elements
    BY <2>1, TargetInv DEF TargetInv
  <2> QED
    BY <2>1, <2>2, <2>3, <2>4 DEF TargetInv, FreshAttemptHitsItsTarget, Acted, Looking
<1>9. ASSUME Verify
      PROVE  TargetInv'
  BY <1>9, PlaceInv, TargetInv
  DEF Verify, recoveryVars, recordVars, runVars, historyVars, PlaceInv, TargetInv,
      FreshAttemptHitsItsTarget, Acted, Looking
<1>10. ASSUME Conclude
       PROVE  TargetInv'
  BY <1>10, PlaceInv, TargetInv
  DEF Conclude, Finish, pageVars, historyVars, Counted, Forget, PlaceInv, TargetInv,
      FreshAttemptHitsItsTarget, Acted, Looking
<1>11. ASSUME Raises
       PROVE  TargetInv'
  BY <1>11, PlaceInv, TargetInv
  DEF Raises, Finish, pageVars, attemptVars, recoveryVars, recordVars, historyVars,
      PlaceInv, TargetInv, FreshAttemptHitsItsTarget, Acted, Looking
<1>12. ASSUME WriteRun
       PROVE  TargetInv'
  BY <1>12, PlaceInv, TargetInv
  DEF WriteRun, pageVars, attemptVars, recoveryVars, recordVars, historyVars, PlaceInv,
      TargetInv, FreshAttemptHitsItsTarget, Acted, Looking
<1>13. ASSUME StopSurface
       PROVE  TargetInv'
  BY <1>13, PlaceInv, TargetInv
  DEF StopSurface, pageVars, attemptVars, recoveryVars, recordVars, historyVars, PlaceInv,
      TargetInv, FreshAttemptHitsItsTarget, Acted, Looking
<1>14. ASSUME ClockRunsOut
       PROVE  TargetInv'
  BY <1>14, PlaceInv, TargetInv
  DEF ClockRunsOut, pageVars, attemptVars, recoveryVars, recordVars, historyVars,
      PlaceInv, TargetInv, FreshAttemptHitsItsTarget, Acted, Looking
<1>15. ASSUME PageMoves
       PROVE  TargetInv'
  BY <1>15, PlaceInv, TargetInv
  DEF PageMoves, attemptVars, recoveryVars, recordVars, runVars, historyVars, PlaceInv,
      TargetInv, FreshAttemptHitsItsTarget, Acted, Looking
<1>16. ASSUME UNCHANGED vars
       PROVE  TargetInv'
  BY <1>16, PlaceInv, TargetInv
  DEF vars, pageVars, attemptVars, recoveryVars, recordVars, runVars, historyVars,
      PlaceInv, TargetInv, FreshAttemptHitsItsTarget, Acted, Looking
<1> QED
  BY <1>1, <1>2, <1>3, <1>4, <1>5, <1>6, <1>7, <1>8, <1>9, <1>10, <1>11, <1>12, <1>13,
     <1>14, <1>15, <1>16
  DEF Next, RunDiscovery, Terminated

\* Nothing runs that the policy did not allow.
LEMMA GuardStep ==
  ASSUME TypeOK, PlaceInv, TargetInv, GuardInv, [Next]_vars
  PROVE  GuardInv'
<1>1. ASSUME Start
      PROVE  GuardInv'
  BY <1>1, PlaceInv, TargetInv, GuardInv
  DEF Start, pageVars, attemptVars, recoveryVars, recordVars, historyVars, PlaceInv,
      TargetInv, GuardInv, Acted, Looking
<1>2. ASSUME BeginStage
      PROVE  GuardInv'
  BY <1>2, PlaceInv, TargetInv, GuardInv
  DEF BeginStage, Finish, pageVars, recoveryVars, recordVars, PlaceInv, TargetInv,
      GuardInv, Acted, Looking
<1>3. ASSUME Observe
      PROVE  GuardInv'
  BY <1>3, PlaceInv, TargetInv, GuardInv
  DEF Observe, recordVars, runVars, historyVars, PlaceInv, TargetInv, GuardInv, Acted,
      Looking
<1>4. ASSUME Decide
      PROVE  GuardInv'
  BY <1>4, PlaceInv, TargetInv, GuardInv
  DEF Decide, pageVars, recoveryVars, recordVars, runVars, PlaceInv, TargetInv, GuardInv,
      Acted, Looking
<1>5. ASSUME AnswerIsNoIntent
      PROVE  GuardInv'
  BY <1>5, PlaceInv, TargetInv, GuardInv
  DEF AnswerIsNoIntent, pageVars, attemptVars, recoveryVars, recordVars, runVars,
      PlaceInv, TargetInv, GuardInv, Acted, Looking
<1>6. ASSUME Guard
      PROVE  GuardInv'
  BY <1>6, PlaceInv, TargetInv, GuardInv
  DEF Guard, pageVars, recoveryVars, recordVars, runVars, historyVars, PlaceInv,
      TargetInv, GuardInv, Acted, Looking
<1>7. ASSUME ActFails
      PROVE  GuardInv'
  BY <1>7, PlaceInv, TargetInv, GuardInv
  DEF ActFails, pageVars, recoveryVars, recordVars, runVars, historyVars, PlaceInv,
      TargetInv, GuardInv, Acted, Looking
<1>8. ASSUME Act
      PROVE  GuardInv'
  BY <1>8, PlaceInv, TargetInv, GuardInv
  DEF Act, recoveryVars, recordVars, runVars, PlaceInv, TargetInv, GuardInv, Acted, Looking
<1>9. ASSUME Verify
      PROVE  GuardInv'
  BY <1>9, PlaceInv, TargetInv, GuardInv
  DEF Verify, recoveryVars, recordVars, runVars, historyVars, PlaceInv, TargetInv,
      GuardInv, Acted, Looking
<1>10. ASSUME Conclude
       PROVE  GuardInv'
  BY <1>10, PlaceInv, TargetInv, GuardInv
  DEF Conclude, Finish, pageVars, historyVars, Counted, Forget, PlaceInv, TargetInv,
      GuardInv, Acted, Looking
<1>11. ASSUME Raises
       PROVE  GuardInv'
  BY <1>11, PlaceInv, TargetInv, GuardInv
  DEF Raises, Finish, pageVars, attemptVars, recoveryVars, recordVars, historyVars,
      PlaceInv, TargetInv, GuardInv, Acted, Looking
<1>12. ASSUME WriteRun
       PROVE  GuardInv'
  BY <1>12, PlaceInv, TargetInv, GuardInv
  DEF WriteRun, pageVars, attemptVars, recoveryVars, recordVars, historyVars, PlaceInv,
      TargetInv, GuardInv, Acted, Looking
<1>13. ASSUME StopSurface
       PROVE  GuardInv'
  BY <1>13, PlaceInv, TargetInv, GuardInv
  DEF StopSurface, pageVars, attemptVars, recoveryVars, recordVars, historyVars, PlaceInv,
      TargetInv, GuardInv, Acted, Looking
<1>14. ASSUME ClockRunsOut
       PROVE  GuardInv'
  BY <1>14, PlaceInv, TargetInv, GuardInv
  DEF ClockRunsOut, pageVars, attemptVars, recoveryVars, recordVars, historyVars,
      PlaceInv, TargetInv, GuardInv, Acted, Looking
<1>15. ASSUME PageMoves
       PROVE  GuardInv'
  BY <1>15, PlaceInv, TargetInv, GuardInv
  DEF PageMoves, attemptVars, recoveryVars, recordVars, runVars, historyVars, PlaceInv,
      TargetInv, GuardInv, Acted, Looking
<1>16. ASSUME UNCHANGED vars
       PROVE  GuardInv'
  BY <1>16, PlaceInv, TargetInv, GuardInv
  DEF vars, pageVars, attemptVars, recoveryVars, recordVars, runVars, historyVars,
      PlaceInv, TargetInv, GuardInv, Acted, Looking
<1> QED
  BY <1>1, <1>2, <1>3, <1>4, <1>5, <1>6, <1>7, <1>8, <1>9, <1>10, <1>11, <1>12, <1>13,
     <1>14, <1>15, <1>16
  DEF Next, RunDiscovery, Terminated

\* The parts together hold at first.
LEMMA InitIInv == Init => IInv
<1> SUFFICES ASSUME Init PROVE IInv
  OBVIOUS
<1>1. TypeOK
  <2>1. trace \in Seq(Records) /\ index = Len(trace)
    BY DEF Init
  <2>2. page \in Pages /\ snapshot \in Pages /\ stamped \in {p.elements : p \in Pages}
    BY DEF Init
  <2>3. intent \in [action : ActionKinds, ref : Refs, destination : Origins \cup {Nowhere}]
    BY DEF Init, ActionKinds, Refs
  <2>4. stage \in Stages
    BY StagesAre DEF Init
  <2> QED
    BY <2>1, <2>2, <2>3, <2>4 DEF Init, TypeOK
<1>2. PlaceInv /\ StopInv /\ TargetInv /\ GuardInv
  BY DEF Init, PlaceInv, StopInv, TargetInv, GuardInv, FreshAttemptHitsItsTarget, Acted,
         Tried, Looking, Doing
<1>3. RecoveryInv /\ OutcomeInv /\ MemoryInv
  BY DEF Init, RecoveryInv, AttemptsFollowRecovery, OutcomeInv, CompletedMeansVerified,
         MemoryInv, ToldOfTheLastAttempt, Tried, Ending, Doing
<1>4. BudgetInv
  <2>1. FreshAttempts = {}
    BY DEF Init, FreshAttempts
  <2> QED
    BY <2>1, FS_EmptySet, MaxStepsAssumption
    DEF Init, BudgetInv, Underway, Looking, Doing, Ending
<1> QED
  BY <1>1, <1>2, <1>3, <1>4 DEF IInv

\* The parts together are kept by every step.
LEMMA StepIInv == IInv /\ [Next]_vars => IInv'
BY TypeStep, PlaceStep, RecoveryStep, OutcomeStep, StopStep, MemoryStep, BudgetStep,
   TargetStep, GuardStep DEF IInv

-------------------------------------------------------------------------------
(***************************************************************************)
(* The theorems.                                                           *)
(***************************************************************************)
\* The inductive invariant holds in every reachable state.
THEOREM InductiveInvariant == Spec => []IInv
BY InitIInv, StepIInv, PTL DEF Spec

\* Type correctness, for any pages, any policy and any budget.
THEOREM TypeCorrect == Spec => []TypeOK
<1>1. IInv => TypeOK
  BY DEF IInv
<1> QED
  BY <1>1, InductiveInvariant, PTL

\* Retries, replans and the clock never take a run over max_steps, and the model
\* is asked at most twice for an attempt and never for a retry (Budget, plan).
THEOREM BudgetIsKept == Spec => []WithinBudget
<1>1. IInv => WithinBudget
  <2> SUFFICES ASSUME IInv PROVE WithinBudget
    OBVIOUS
  <2>1. /\ index <= MaxSteps
        /\ answers <= 2 * Cardinality(FreshAttempts) + Underway
        /\ pc \in Looking => stage # "retry"
        /\ TypeOK
    BY DEF IInv, BudgetInv, PlaceInv
  <2>2. Cardinality(FreshAttempts) \in Nat
    BY <2>1, FreshAttemptsCounted
  <2> DEFINE deciding == stage # "retry" /\ pc \in {"correct", "guard", "act", "verify",
                                      "conclude", "closing", "stopping", "over"}
  <2>3. Underway <= 2 * (IF deciding THEN 1 ELSE 0) /\ Underway \in Nat
    BY <2>1 DEF Underway, Looking, Doing, Ending
  <2>4. answers <= 2 * (Cardinality(FreshAttempts) + IF deciding THEN 1 ELSE 0)
    BY <2>1, <2>2, <2>3 DEF TypeOK
  <2> QED
    BY <2>1, <2>4 DEF WithinBudget, FreshAttempts
<1> QED
  BY <1>1, InductiveInvariant, PTL

\* Original, retry, replan, in that order and only after failures, for every
\* step of every run (RECOVERY_STAGES).
THEOREM RecoveryInOrder == Spec => []AttemptsFollowRecovery
<1>1. IInv => AttemptsFollowRecovery
  BY DEF IInv, RecoveryInv
<1> QED
  BY <1>1, InductiveInvariant, PTL

\* A run is reported completed exactly when its last attempt declared `done` and
\* the claim was seen on the page.
THEOREM CompletedIsVerified == Spec => []CompletedMeansVerified
<1>1. IInv => CompletedMeansVerified
  BY DEF IInv, OutcomeInv
<1> QED
  BY <1>1, InductiveInvariant, PTL

\* A run whose browser is stopped has an outcome and its evidence on disk.
THEOREM StoppedIsRecorded == Spec => []StoppedRunIsRecorded
<1>1. IInv => StoppedRunIsRecorded
  BY DEF IInv, StopInv, OutcomeInv, Ending, StoppedRunIsRecorded
<1> QED
  BY <1>1, InductiveInvariant, PTL

\* The planner is told what the last attempt came to, and no more.
THEOREM PlannerIsToldTheTruth == Spec => []ToldOfTheLastAttempt
<1>1. IInv => ToldOfTheLastAttempt
  BY DEF IInv, MemoryInv
<1> QED
  BY <1>1, InductiveInvariant, PTL

\* An attempt decided on a fresh observation acts on the node the planner
\* pointed at, however the page moves (data-cua-ref, stamped by perceive).
THEOREM FreshAttemptsHit == Spec => []FreshAttemptHitsItsTarget
<1>1. IInv => FreshAttemptHitsItsTarget
  BY DEF IInv, TargetInv
<1> QED
  BY <1>1, InductiveInvariant, PTL

\* Whatever a fresh attempt touches stood in the snapshot that policy judged, off
\* limits neither by its site nor by the name it had there; and nothing navigates
\* off the list.
THEOREM FreshAttemptsAreGuarded == Spec => []FreshAttemptIsGuarded
<1>1. IInv => FreshAttemptIsGuarded
  <2> SUFFICES ASSUME IInv PROVE FreshAttemptIsGuarded
    OBVIOUS
  <2>1. ASSUME Acted, stage # "retry"
        PROVE  \E e \in Range(snapshot.elements) : e.node = hit.node /\ ~OffLimits(e)
    <3> DEFINE judged == snapshot.elements[intent.ref]
    <3>1. /\ hit.node = judged.node
          /\ intent.ref \in DOMAIN snapshot.elements
          /\ snapshot \in Pages
      BY <2>1 DEF IInv, TypeOK, TargetInv, FreshAttemptHitsItsTarget
    <3>2. Allowed(intent, snapshot)
      BY <2>1 DEF IInv, GuardInv
    <3>3. judged \in Range(snapshot.elements)
      BY <3>1 DEF Range
    <3>4. \A p \in Pages : (\E e \in Range(p.elements) : e.node = judged.node) =>
                           p.origin = snapshot.origin
      BY <3>1, <3>3, PagesAssumption
    <3>5. TargetName(intent, snapshot) = judged.name
      BY <3>1 DEF TargetName
    <3> HIDE DEF judged
    <3>6. ~OffLimits(judged)
      BY <3>2, <3>4, <3>5, AllowedMeans DEF OffLimits, NamedOffLimits
    <3> QED
      BY <3>1, <3>3, <3>6
  <2>2. ASSUME pc = "verify", intent.action = "navigate"
        PROVE  intent.destination \in AllowedOrigins
    BY <2>2, AllowedMeans DEF IInv, GuardInv, PlaceInv
  <2> QED
    BY <2>1, <2>2 DEF FreshAttemptIsGuarded
<1> QED
  BY <1>1, InductiveInvariant, PTL
==============================================================================

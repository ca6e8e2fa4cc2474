---------------------------- MODULE HandoffProofs ----------------------------
(***************************************************************************)
(* Proofs about Handoff, for any number of steps and any set of operators. *)
(***************************************************************************)
EXTENDS Handoff, TLAPS

(***************************************************************************)
(* The inductive invariant, in named parts.                                *)
(***************************************************************************)
\* What the files say is backed by something a person said, or by the raise.
FilesInv ==
  /\ \A i \in Positions : lease[i].owner = AUTOMATION => said[i] # {}
  /\ \A i \in request : lease[i].owner # "absent"
  /\ pc = "announcing" => lease[at].owner # "absent"
  /\ \A i \in Positions :
       resolved[i] = STEP_ALREADY_PERFORMED => STEP_ALREADY_PERFORMED \in said[i]

\* An action has reached the browser only at a step, never at the checkpoint.
ActedAtStep == pc = "acted" => at \in Steps

\* A command line acts on an announced intervention, and `resume` spoke first.
CommandInv ==
  \A o \in Operator :
    op[o].cmd \in {"handback", "resolve", "resolving"} => op[o].word \in said[op[o].id]

\* Announced and unanswered: only the one the run is waiting behind, unless
\* the run has given up.
YieldInv ==
  /\ pc \in {"binding"} \cup Waiting => at \in request
  /\ pc \in {"waking", "deciding"} => said[at] # {}
  /\ \A i \in request :
       \/ said[i] # {}
       \/ pc = "over"
       \/ i = at /\ pc \in {"binding"} \cup Waiting

\* How far the run is, and what was executed on the way.
ProgressInv ==
  /\ pc \in HandedOver => ~retrying
  /\ ActedAtStep
  /\ retrying => said[at] # {}
  /\ outcome = "success" => pc = "over" /\ at = Checkpoint
  /\ \A s \in Steps :
       /\ s > at => executed[s] = 0
       /\ s < at => executed[s] > 0 \/ s \in skipped
       /\ s = at => /\ ~retrying => executed[s] <= 1
                    /\ pc = "ready" /\ ~retrying => executed[s] = 0
                    /\ pc = "ready" /\ retrying => executed[s] <= 1
                    /\ pc = "acted" => executed[s] > 0

\* Interventions are announced in the order of the positions, each once.
AnnouncedInv ==
  /\ \A i \in request : i <= at
  /\ (pc \in Attempting /\ ~retrying) \/ pc \in {"raising", "announcing"}
       => at \notin request

IInv ==
  /\ TypeOK
  /\ FilesInv
  /\ CommandInv
  /\ YieldInv
  /\ ProgressInv
  /\ AnnouncedInv
  /\ OneRetry
  /\ SkipsOnlyOnWord

-------------------------------------------------------------------------------
(***************************************************************************)
(* Each part of the invariant is kept by every step: one case per action.  *)
(***************************************************************************)
\* Every value the protocol writes into lease.json is a value of the file.
LEMMA LeaseValues ==
  /\ Absent \in LeaseFile /\ Torn \in LeaseFile /\ HeldByRun \in LeaseFile
  /\ HeldBy(UNCLAIMED) \in LeaseFile
  /\ \A o \in Operator : HeldBy(o) \in LeaseFile
BY DEF LeaseFile, Holder, Run, UNCLAIMED, AUTOMATION, HUMAN, Absent, Torn, HeldByRun, HeldBy

\* Every step keeps the variables within their types.
LEMMA TypeStep ==
  ASSUME TypeOK, ActedAtStep, [Next]_vars
  PROVE  TypeOK'
<1>1. ASSUME Execute
     PROVE  TypeOK'
  BY <1>1, TypeOK, ActedAtStep
  DEF Execute, TypeOK, ActedAtStep, files, End, Attempting, HandedOver,
      Waiting, Unbound
<1>2. ASSUME Verified
     PROVE  TypeOK'
  <2>1. at' \in Positions
    BY <1>2, ActedAtStep, NAssumption DEF ActedAtStep, Verified, MoveOn, Steps, Positions
  <2> QED
    BY <1>2, <2>1, TypeOK
    DEF TypeOK, Verified, MoveOn, files, history, Attempting
<1>3. ASSUME Answered
     PROVE  TypeOK'
  BY <1>3, TypeOK, ActedAtStep
  DEF Answered, TypeOK, ActedAtStep, files, history, End, Attempting,
      HandedOver, Waiting, Unbound
<1>4. ASSUME Fails
     PROVE  TypeOK'
  BY <1>4, TypeOK, ActedAtStep
  DEF Fails, TypeOK, ActedAtStep, files, history, End, Attempting,
      HandedOver, Waiting, Unbound
<1>5. ASSUME CheckpointHolds
     PROVE  TypeOK'
  BY <1>5, TypeOK, ActedAtStep
  DEF CheckpointHolds, TypeOK, ActedAtStep, files, history, End,
      Attempting, HandedOver, Waiting, Unbound
<1>6. ASSUME RaiseRequest
     PROVE  TypeOK'
  <2>1. HeldBy(UNCLAIMED) \in LeaseFile
    BY LeaseValues
  <2>2. lease' \in [Positions -> LeaseFile]
    BY <1>6, <2>1, TypeOK DEF TypeOK, RaiseRequest
  <2>3. request' \subseteq Positions
    BY <1>6, TypeOK DEF TypeOK, RaiseRequest
  <2> QED
    BY <1>6, <2>1, <2>2, <2>3, TypeOK
    DEF TypeOK, RaiseRequest, history, HandedOver
<1>7. ASSUME Bind
     PROVE  TypeOK'
  BY <1>7, TypeOK, ActedAtStep
  DEF Bind, TypeOK, ActedAtStep, files, history, Attempting, HandedOver,
      Waiting, Unbound
<1>8. ASSUME Poll
     PROVE  TypeOK'
  BY <1>8, TypeOK, ActedAtStep
  DEF Poll, TypeOK, ActedAtStep, files, history, End, Attempting,
      HandedOver, Waiting, Unbound
<1>9. ASSUME CheckDeadline
     PROVE  TypeOK'
  BY <1>9, TypeOK, ActedAtStep
  DEF CheckDeadline, TypeOK, ActedAtStep, files, history, End, Attempting,
      HandedOver, Waiting, Unbound
<1>10. ASSUME Wake
     PROVE  TypeOK'
  BY <1>10, TypeOK, ActedAtStep
  DEF Wake, TypeOK, ActedAtStep, files, history, Attempting, HandedOver,
      Waiting, Unbound
<1>11. ASSUME Decide
     PROVE  TypeOK'
  <2>1. at' \in Positions
    BY <1>11, TypeOK, NAssumption DEF TypeOK, Decide, MoveOn, Steps, Positions
  <2>2. skipped' \subseteq Steps
    BY <1>11, TypeOK DEF TypeOK, Decide
  <2> QED
    BY <1>11, <2>1, <2>2, TypeOK
    DEF TypeOK, Decide, MoveOn, files, Attempting
<1>12. ASSUME DeadlinePasses
     PROVE  TypeOK'
  BY <1>12, TypeOK, ActedAtStep
  DEF DeadlinePasses, TypeOK, ActedAtStep, files, history, Attempting,
      HandedOver, Waiting, Unbound
<1>13. ASSUME NEW o \in Operator, NEW i \in Positions, ReadToTake(o, i)
     PROVE  TypeOK'
  <2>1. CommandLine("claim", i, RETRY_STEP) \in [cmd : Commands, id : Positions, word : Dispositions]
    BY DEF CommandLine, Commands, Dispositions
  <2>2. op' \in [Operator -> [cmd : Commands, id : Positions, word : Dispositions]]
    BY <1>13, <2>1, TypeOK DEF TypeOK, ReadToTake, Now
  <2> QED
    BY <1>13, <2>1, <2>2, TypeOK
    DEF TypeOK, ReadToTake, files, run, history
<1>14. ASSUME NEW o \in Operator, WriteClaim(o)
     PROVE  TypeOK'
  <2>1. HeldBy(o) \in LeaseFile /\ Torn \in LeaseFile
    BY LeaseValues
  <2>2. lease' \in [Positions -> LeaseFile]
    BY <1>14, <2>1, TypeOK DEF TypeOK, WriteClaim
  <2>3. Idle \in [cmd : Commands, id : Positions, word : Dispositions]
    BY NAssumption DEF Idle, CommandLine, Commands, Positions, Dispositions
  <2>4. CommandLine("claiming", op[o].id, op[o].word) \in [cmd : Commands, id : Positions, word : Dispositions]
    BY <1>14, TypeOK DEF TypeOK, CommandLine, Commands
  <2>5. op' \in [Operator -> [cmd : Commands, id : Positions, word : Dispositions]]
    BY <1>14, <2>3, <2>4, TypeOK DEF TypeOK, WriteClaim, Now, Doing
  <2> QED
    BY <1>14, <2>1, <2>2, <2>3, <2>4, <2>5, TypeOK
    DEF TypeOK, WriteClaim, run, history
<1>15. ASSUME NEW o \in Operator, NEW i \in Positions, NEW word \in Dispositions, Resume(o, i, word)
     PROVE  TypeOK'
  <2>1. Torn \in LeaseFile
    BY LeaseValues
  <2>2. lease' \in [Positions -> LeaseFile]
    BY <1>15, <2>1, TypeOK DEF TypeOK, Resume
  <2>3. said' \in [Positions -> SUBSET Dispositions]
    BY <1>15, TypeOK DEF TypeOK, Resume
  <2>4. CommandLine("handback", i, word) \in [cmd : Commands, id : Positions, word : Dispositions]
    BY DEF CommandLine, Commands
  <2>5. op' \in [Operator -> [cmd : Commands, id : Positions, word : Dispositions]]
    BY <1>15, <2>4, TypeOK DEF TypeOK, Resume, Now, Doing
  <2> QED
    BY <1>15, <2>1, <2>2, <2>3, <2>4, <2>5, TypeOK
    DEF TypeOK, Resume, run
<1>16. ASSUME NEW o \in Operator, ReturnLease(o)
     PROVE  TypeOK'
  <2>1. HeldByRun \in LeaseFile
    BY LeaseValues
  <2>2. lease' \in [Positions -> LeaseFile]
    BY <1>16, <2>1, TypeOK DEF TypeOK, ReturnLease
  <2>3. CommandLine("resolve", op[o].id, op[o].word) \in [cmd : Commands, id : Positions, word : Dispositions]
    BY <1>16, TypeOK DEF TypeOK, CommandLine, Commands
  <2>4. op' \in [Operator -> [cmd : Commands, id : Positions, word : Dispositions]]
    BY <1>16, <2>3, TypeOK DEF TypeOK, ReturnLease, Now, Doing
  <2> QED
    BY <1>16, <2>1, <2>2, <2>3, <2>4, TypeOK
    DEF TypeOK, ReturnLease, run, history
<1>17. ASSUME NEW o \in Operator, WriteResolved(o)
     PROVE  TypeOK'
  <2>1. resolved' \in [Positions -> Dispositions \cup {"absent", "torn"}]
    BY <1>17, TypeOK DEF TypeOK, WriteResolved
  <2>2. Idle \in [cmd : Commands, id : Positions, word : Dispositions]
    BY NAssumption DEF Idle, CommandLine, Commands, Positions, Dispositions
  <2>3. CommandLine("resolving", op[o].id, op[o].word) \in [cmd : Commands, id : Positions, word : Dispositions]
    BY <1>17, TypeOK DEF TypeOK, CommandLine, Commands
  <2>4. op' \in [Operator -> [cmd : Commands, id : Positions, word : Dispositions]]
    BY <1>17, <2>2, <2>3, TypeOK DEF TypeOK, WriteResolved, Now, Doing
  <2> QED
    BY <1>17, <2>1, <2>2, <2>3, <2>4, TypeOK
    DEF TypeOK, WriteResolved, run, history
<1>18. ASSUME UNCHANGED vars
     PROVE  TypeOK'
  BY <1>18, TypeOK, ActedAtStep
  DEF vars, TypeOK, ActedAtStep, Attempting, HandedOver, Waiting, Unbound
<1> QED
  BY <1>1, <1>2, <1>3, <1>4, <1>5, <1>6, <1>7, <1>8, <1>9, <1>10, <1>11,
     <1>12, <1>13, <1>14, <1>15, <1>16, <1>17, <1>18
  DEF Next, RunStep, OperatorStep, Terminated

\* A lease is automation's only where somebody spoke, an announced one is there,
\* and a resolved.json says no more than was said.
LEMMA FilesStep ==
  ASSUME TypeOK, FilesInv, CommandInv, [Next]_vars
  PROVE  FilesInv'
<1>1. ASSUME Execute
     PROVE  FilesInv'
  BY <1>1, TypeOK, FilesInv, CommandInv
  DEF Execute, TypeOK, FilesInv, CommandInv, files, End, Dispositions,
      AUTOMATION, HUMAN
<1>2. ASSUME Verified
     PROVE  FilesInv'
  BY <1>2, TypeOK, FilesInv, CommandInv
  DEF Verified, TypeOK, FilesInv, CommandInv, files, history, MoveOn,
      Dispositions, AUTOMATION, HUMAN
<1>3. ASSUME Answered
     PROVE  FilesInv'
  BY <1>3, TypeOK, FilesInv, CommandInv
  DEF Answered, TypeOK, FilesInv, CommandInv, files, history, End,
      Dispositions, AUTOMATION, HUMAN
<1>4. ASSUME Fails
     PROVE  FilesInv'
  BY <1>4, TypeOK, FilesInv, CommandInv
  DEF Fails, TypeOK, FilesInv, CommandInv, files, history, End,
      Dispositions, AUTOMATION, HUMAN
<1>5. ASSUME CheckpointHolds
     PROVE  FilesInv'
  BY <1>5, TypeOK, FilesInv, CommandInv
  DEF CheckpointHolds, TypeOK, FilesInv, CommandInv, files, history, End,
      Dispositions, AUTOMATION, HUMAN
<1>6. ASSUME RaiseRequest
     PROVE  FilesInv'
  <2>1. CASE pc = "raising"
    <3>1. \A i \in Positions :
            lease'[i] = IF i = at THEN HeldBy(UNCLAIMED) ELSE lease[i]
      BY <1>6, <2>1, TypeOK DEF TypeOK, RaiseRequest
    <3> QED
      BY <1>6, <2>1, <3>1, TypeOK, FilesInv
      DEF TypeOK, FilesInv, RaiseRequest, HeldBy, HUMAN, AUTOMATION, history
  <2>2. CASE pc = "announcing"
    BY <1>6, <2>2, TypeOK, FilesInv DEF TypeOK, FilesInv, RaiseRequest, history
  <2> QED
    BY <1>6, <2>1, <2>2 DEF RaiseRequest
<1>7. ASSUME Bind
     PROVE  FilesInv'
  BY <1>7, TypeOK, FilesInv, CommandInv
  DEF Bind, TypeOK, FilesInv, CommandInv, files, history, Dispositions,
      AUTOMATION, HUMAN
<1>8. ASSUME Poll
     PROVE  FilesInv'
  BY <1>8, TypeOK, FilesInv, CommandInv
  DEF Poll, TypeOK, FilesInv, CommandInv, files, history, End,
      Dispositions, AUTOMATION, HUMAN
<1>9. ASSUME CheckDeadline
     PROVE  FilesInv'
  BY <1>9, TypeOK, FilesInv, CommandInv
  DEF CheckDeadline, TypeOK, FilesInv, CommandInv, files, history, End,
      Dispositions, AUTOMATION, HUMAN
<1>10. ASSUME Wake
     PROVE  FilesInv'
  BY <1>10, TypeOK, FilesInv, CommandInv
  DEF Wake, TypeOK, FilesInv, CommandInv, files, history, Dispositions,
      AUTOMATION, HUMAN
<1>11. ASSUME Decide
     PROVE  FilesInv'
  BY <1>11, TypeOK, FilesInv, CommandInv
  DEF Decide, TypeOK, FilesInv, CommandInv, files, MoveOn, Dispositions,
      AUTOMATION, HUMAN
<1>12. ASSUME DeadlinePasses
     PROVE  FilesInv'
  BY <1>12, TypeOK, FilesInv, CommandInv
  DEF DeadlinePasses, TypeOK, FilesInv, CommandInv, files, history,
      Dispositions, AUTOMATION, HUMAN
<1>13. ASSUME NEW o \in Operator, NEW i \in Positions, ReadToTake(o, i)
     PROVE  FilesInv'
  BY <1>13, TypeOK, FilesInv, CommandInv
  DEF ReadToTake, TypeOK, FilesInv, CommandInv, files, run, history, Now,
      CommandLine, Dispositions, AUTOMATION, HUMAN
<1>14. ASSUME NEW o \in Operator, WriteClaim(o)
     PROVE  FilesInv'
  <2>1. \A i \in Positions : lease'[i] \in {lease[i], HeldBy(o), Torn}
    BY <1>14, TypeOK DEF TypeOK, WriteClaim
  <2> QED
    BY <1>14, <2>1, TypeOK, FilesInv
    DEF TypeOK, FilesInv, WriteClaim, HeldBy, Torn, HUMAN, AUTOMATION, run, history
<1>15. ASSUME NEW o \in Operator, NEW i \in Positions, NEW word \in Dispositions, Resume(o, i, word)
     PROVE  FilesInv'
  <2>1. \A j \in Positions : lease'[j] \in {lease[j], Torn} /\ said[j] \subseteq said'[j]
    BY <1>15, TypeOK DEF TypeOK, Resume
  <2> QED
    BY <1>15, <2>1, TypeOK, FilesInv
    DEF TypeOK, FilesInv, Resume, Torn, AUTOMATION, run
<1>16. ASSUME NEW o \in Operator, ReturnLease(o)
     PROVE  FilesInv'
  <2>1. said[op[o].id] # {}
    BY <1>16, CommandInv DEF CommandInv, ReturnLease
  <2>2. \A i \in Positions : lease'[i] = IF i = op[o].id THEN HeldByRun ELSE lease[i]
    BY <1>16, TypeOK DEF TypeOK, ReturnLease
  <2> QED
    BY <1>16, <2>1, <2>2, TypeOK, FilesInv
    DEF TypeOK, FilesInv, ReturnLease, HeldByRun, AUTOMATION, run, history
<1>17. ASSUME NEW o \in Operator, WriteResolved(o)
     PROVE  FilesInv'
  <2>1. op[o].word \in said[op[o].id]
    BY <1>17, CommandInv DEF CommandInv, WriteResolved
  <2>2. \A i \in Positions :
          \/ resolved'[i] = resolved[i]
          \/ resolved'[i] = "torn"
          \/ i = op[o].id /\ resolved'[i] = op[o].word
    <3>1. CASE op[o].cmd = "resolve"
      BY <1>17, <3>1, TypeOK DEF TypeOK, WriteResolved
    <3>2. CASE op[o].cmd = "resolving"
      BY <1>17, <3>2, TypeOK DEF TypeOK, WriteResolved
    <3> QED
      BY <1>17, <3>1, <3>2 DEF WriteResolved
  <2> QED
    BY <1>17, <2>1, <2>2, TypeOK, FilesInv
    DEF TypeOK, FilesInv, WriteResolved, STEP_ALREADY_PERFORMED, run, history
<1>18. ASSUME UNCHANGED vars
     PROVE  FilesInv'
  BY <1>18, TypeOK, FilesInv, CommandInv
  DEF vars, TypeOK, FilesInv, CommandInv, Dispositions, AUTOMATION, HUMAN
<1> QED
  BY <1>1, <1>2, <1>3, <1>4, <1>5, <1>6, <1>7, <1>8, <1>9, <1>10, <1>11,
     <1>12, <1>13, <1>14, <1>15, <1>16, <1>17, <1>18
  DEF Next, RunStep, OperatorStep, Terminated

\* What a `resume` in progress is about to write has been said.
LEMMA CommandStep ==
  ASSUME TypeOK, CommandInv, [Next]_vars
  PROVE  CommandInv'
<1>1. ASSUME Execute
     PROVE  CommandInv'
  BY <1>1, TypeOK, CommandInv
  DEF Execute, TypeOK, CommandInv, files, End
<1>2. ASSUME Verified
     PROVE  CommandInv'
  BY <1>2, TypeOK, CommandInv
  DEF Verified, TypeOK, CommandInv, files, history, MoveOn
<1>3. ASSUME Answered
     PROVE  CommandInv'
  BY <1>3, TypeOK, CommandInv
  DEF Answered, TypeOK, CommandInv, files, history, End
<1>4. ASSUME Fails
     PROVE  CommandInv'
  BY <1>4, TypeOK, CommandInv
  DEF Fails, TypeOK, CommandInv, files, history, End
<1>5. ASSUME CheckpointHolds
     PROVE  CommandInv'
  BY <1>5, TypeOK, CommandInv
  DEF CheckpointHolds, TypeOK, CommandInv, files, history, End
<1>6. ASSUME RaiseRequest
     PROVE  CommandInv'
  BY <1>6, TypeOK, CommandInv
  DEF RaiseRequest, TypeOK, CommandInv, history
<1>7. ASSUME Bind
     PROVE  CommandInv'
  BY <1>7, TypeOK, CommandInv
  DEF Bind, TypeOK, CommandInv, files, history
<1>8. ASSUME Poll
     PROVE  CommandInv'
  BY <1>8, TypeOK, CommandInv
  DEF Poll, TypeOK, CommandInv, files, history, End
<1>9. ASSUME CheckDeadline
     PROVE  CommandInv'
  BY <1>9, TypeOK, CommandInv
  DEF CheckDeadline, TypeOK, CommandInv, files, history, End
<1>10. ASSUME Wake
     PROVE  CommandInv'
  BY <1>10, TypeOK, CommandInv
  DEF Wake, TypeOK, CommandInv, files, history
<1>11. ASSUME Decide
     PROVE  CommandInv'
  BY <1>11, TypeOK, CommandInv
  DEF Decide, TypeOK, CommandInv, files, MoveOn
<1>12. ASSUME DeadlinePasses
     PROVE  CommandInv'
  BY <1>12, TypeOK, CommandInv
  DEF DeadlinePasses, TypeOK, CommandInv, files, history
<1>13. ASSUME NEW o \in Operator, NEW i \in Positions, ReadToTake(o, i)
     PROVE  CommandInv'
  BY <1>13, TypeOK, CommandInv
  DEF ReadToTake, TypeOK, CommandInv, files, run, history, Now, CommandLine
<1>14. ASSUME NEW o \in Operator, WriteClaim(o)
     PROVE  CommandInv'
  <2>1. \A p \in Operator :
          op'[p].cmd \in {"handback", "resolve", "resolving"} => op'[p] = op[p]
    BY <1>14, TypeOK DEF TypeOK, WriteClaim, Now, Doing, CommandLine, Idle
  <2> QED
    BY <1>14, <2>1, CommandInv DEF CommandInv, WriteClaim, run, history
<1>15. ASSUME NEW o \in Operator, NEW i \in Positions, NEW word \in Dispositions, Resume(o, i, word)
     PROVE  CommandInv'
  BY <1>15, TypeOK, CommandInv
  DEF Resume, TypeOK, CommandInv, run, Now, CommandLine
<1>16. ASSUME NEW o \in Operator, ReturnLease(o)
     PROVE  CommandInv'
  BY <1>16, TypeOK, CommandInv
  DEF ReturnLease, TypeOK, CommandInv, run, history, Now, Doing,
      CommandLine
<1>17. ASSUME NEW o \in Operator, WriteResolved(o)
     PROVE  CommandInv'
  BY <1>17, TypeOK, CommandInv
  DEF WriteResolved, TypeOK, CommandInv, run, history, Now, Doing,
      CommandLine, Idle
<1>18. ASSUME UNCHANGED vars
     PROVE  CommandInv'
  BY <1>18, TypeOK, CommandInv
  DEF vars, TypeOK, CommandInv
<1> QED
  BY <1>1, <1>2, <1>3, <1>4, <1>5, <1>6, <1>7, <1>8, <1>9, <1>10, <1>11,
     <1>12, <1>13, <1>14, <1>15, <1>16, <1>17, <1>18
  DEF Next, RunStep, OperatorStep, Terminated

\* The run comes out of a wait only through a lease somebody gave back.
LEMMA YieldStep ==
  ASSUME TypeOK, FilesInv, YieldInv, [Next]_vars
  PROVE  YieldInv'
<1>1. ASSUME Execute
     PROVE  YieldInv'
  BY <1>1, TypeOK, FilesInv, YieldInv
  DEF Execute, TypeOK, FilesInv, YieldInv, files, End, Waiting, Read,
      Readable, AUTOMATION
<1>2. ASSUME Verified
     PROVE  YieldInv'
  BY <1>2, TypeOK, FilesInv, YieldInv
  DEF Verified, TypeOK, FilesInv, YieldInv, files, history, MoveOn,
      Waiting, Read, Readable, AUTOMATION
<1>3. ASSUME Answered
     PROVE  YieldInv'
  BY <1>3, TypeOK, FilesInv, YieldInv
  DEF Answered, TypeOK, FilesInv, YieldInv, files, history, End, Waiting,
      Read, Readable, AUTOMATION
<1>4. ASSUME Fails
     PROVE  YieldInv'
  <2>1. \/ pc' = "raising" /\ ~retrying /\ UNCHANGED <<at, retrying, outcome>>
        \/ pc' = "over" /\ outcome' = "failure" /\ UNCHANGED <<at, retrying>>
    BY <1>4 DEF Fails, End
  <2>2. /\ pc \in Attempting
        /\ UNCHANGED <<request, executed, skipped, said>>
    BY <1>4 DEF Fails, files, history
  <2> QED
    BY <2>1, <2>2, YieldInv
    DEF YieldInv, Attempting, Waiting
<1>5. ASSUME CheckpointHolds
     PROVE  YieldInv'
  BY <1>5, TypeOK, FilesInv, YieldInv
  DEF CheckpointHolds, TypeOK, FilesInv, YieldInv, files, history, End,
      Waiting, Read, Readable, AUTOMATION
<1>6. ASSUME RaiseRequest
     PROVE  YieldInv'
  BY <1>6, TypeOK, FilesInv, YieldInv
  DEF RaiseRequest, TypeOK, FilesInv, YieldInv, history, Waiting, Read,
      Readable, AUTOMATION
<1>7. ASSUME Bind
     PROVE  YieldInv'
  BY <1>7, TypeOK, FilesInv, YieldInv
  DEF Bind, TypeOK, FilesInv, YieldInv, files, history, Waiting, Read,
      Readable, AUTOMATION
<1>8. ASSUME Poll
     PROVE  YieldInv'
  BY <1>8, TypeOK, FilesInv, YieldInv
  DEF Poll, TypeOK, FilesInv, YieldInv, files, history, End, Waiting, Read,
      Readable, AUTOMATION
<1>9. ASSUME CheckDeadline
     PROVE  YieldInv'
  BY <1>9, TypeOK, FilesInv, YieldInv
  DEF CheckDeadline, TypeOK, FilesInv, YieldInv, files, history, End,
      Waiting, Read, Readable, AUTOMATION
<1>10. ASSUME Wake
     PROVE  YieldInv'
  BY <1>10, TypeOK, FilesInv, YieldInv
  DEF Wake, TypeOK, FilesInv, YieldInv, files, history, Waiting, Read,
      Readable, AUTOMATION
<1>11. ASSUME Decide
     PROVE  YieldInv'
  BY <1>11, TypeOK, FilesInv, YieldInv
  DEF Decide, TypeOK, FilesInv, YieldInv, files, MoveOn, Waiting, Read,
      Readable, AUTOMATION
<1>12. ASSUME DeadlinePasses
     PROVE  YieldInv'
  BY <1>12, TypeOK, FilesInv, YieldInv
  DEF DeadlinePasses, TypeOK, FilesInv, YieldInv, files, history, Waiting,
      Read, Readable, AUTOMATION
<1>13. ASSUME NEW o \in Operator, NEW i \in Positions, ReadToTake(o, i)
     PROVE  YieldInv'
  BY <1>13, TypeOK, FilesInv, YieldInv
  DEF ReadToTake, TypeOK, FilesInv, YieldInv, files, run, history, Now,
      CommandLine, Waiting, Read, Readable, AUTOMATION
<1>14. ASSUME NEW o \in Operator, WriteClaim(o)
     PROVE  YieldInv'
  BY <1>14, TypeOK, FilesInv, YieldInv
  DEF WriteClaim, TypeOK, FilesInv, YieldInv, run, history, Now, Doing,
      CommandLine, Idle, Waiting, Read, Readable, AUTOMATION
<1>15. ASSUME NEW o \in Operator, NEW i \in Positions, NEW word \in Dispositions, Resume(o, i, word)
     PROVE  YieldInv'
  BY <1>15, TypeOK, FilesInv, YieldInv
  DEF Resume, TypeOK, FilesInv, YieldInv, run, Now, CommandLine, Waiting,
      Read, Readable, AUTOMATION
<1>16. ASSUME NEW o \in Operator, ReturnLease(o)
     PROVE  YieldInv'
  BY <1>16, TypeOK, FilesInv, YieldInv
  DEF ReturnLease, TypeOK, FilesInv, YieldInv, run, history, Now, Doing,
      CommandLine, Waiting, Read, Readable, AUTOMATION
<1>17. ASSUME NEW o \in Operator, WriteResolved(o)
     PROVE  YieldInv'
  BY <1>17, TypeOK, FilesInv, YieldInv
  DEF WriteResolved, TypeOK, FilesInv, YieldInv, run, history, Now, Doing,
      CommandLine, Idle, Waiting, Read, Readable, AUTOMATION
<1>18. ASSUME UNCHANGED vars
     PROVE  YieldInv'
  BY <1>18, TypeOK, FilesInv, YieldInv
  DEF vars, TypeOK, FilesInv, YieldInv, Waiting, Read, Readable, AUTOMATION
<1> QED
  BY <1>1, <1>2, <1>3, <1>4, <1>5, <1>6, <1>7, <1>8, <1>9, <1>10, <1>11,
     <1>12, <1>13, <1>14, <1>15, <1>16, <1>17, <1>18
  DEF Next, RunStep, OperatorStep, Terminated

\* The run walks the steps in order and passes none that was neither executed
\* nor left to a person.
LEMMA ProgressStep ==
  ASSUME TypeOK, YieldInv, ProgressInv, [Next]_vars
  PROVE  ProgressInv'
<1>1. ASSUME Execute
     PROVE  ProgressInv'
  BY <1>1, TypeOK, YieldInv, ProgressInv, NAssumption
  DEF Execute, TypeOK, YieldInv, ProgressInv, files, End, ActedAtStep,
      HandedOver, Waiting, Steps, Positions, Checkpoint
<1>2. ASSUME Verified
     PROVE  ProgressInv'
  BY <1>2, TypeOK, YieldInv, ProgressInv, NAssumption
  DEF Verified, TypeOK, YieldInv, ProgressInv, files, history, MoveOn,
      ActedAtStep, HandedOver, Waiting, Steps, Positions, Checkpoint
<1>3. ASSUME Answered
     PROVE  ProgressInv'
  BY <1>3, TypeOK, YieldInv, ProgressInv, NAssumption
  DEF Answered, TypeOK, YieldInv, ProgressInv, files, history, End,
      ActedAtStep, HandedOver, Waiting, Steps, Positions, Checkpoint
<1>4. ASSUME Fails
     PROVE  ProgressInv'
  <2>1. \/ pc' = "raising" /\ ~retrying /\ UNCHANGED <<at, retrying, outcome>>
        \/ pc' = "over" /\ outcome' = "failure" /\ UNCHANGED <<at, retrying>>
    BY <1>4 DEF Fails, End
  <2>2. /\ pc \in Attempting
        /\ UNCHANGED <<request, executed, skipped, said>>
    BY <1>4 DEF Fails, files, history
  <2> QED
    BY <2>1, <2>2, ProgressInv
    DEF ProgressInv, ActedAtStep, HandedOver, Waiting, Attempting
<1>5. ASSUME CheckpointHolds
     PROVE  ProgressInv'
  BY <1>5, TypeOK, YieldInv, ProgressInv, NAssumption
  DEF CheckpointHolds, TypeOK, YieldInv, ProgressInv, files, history, End,
      ActedAtStep, HandedOver, Waiting, Steps, Positions, Checkpoint
<1>6. ASSUME RaiseRequest
     PROVE  ProgressInv'
  BY <1>6, TypeOK, YieldInv, ProgressInv, NAssumption
  DEF RaiseRequest, TypeOK, YieldInv, ProgressInv, history, ActedAtStep,
      HandedOver, Waiting, Steps, Positions, Checkpoint
<1>7. ASSUME Bind
     PROVE  ProgressInv'
  BY <1>7, TypeOK, YieldInv, ProgressInv, NAssumption
  DEF Bind, TypeOK, YieldInv, ProgressInv, files, history, ActedAtStep,
      HandedOver, Waiting, Steps, Positions, Checkpoint
<1>8. ASSUME Poll
     PROVE  ProgressInv'
  BY <1>8, TypeOK, YieldInv, ProgressInv, NAssumption
  DEF Poll, TypeOK, YieldInv, ProgressInv, files, history, End,
      ActedAtStep, HandedOver, Waiting, Steps, Positions, Checkpoint
<1>9. ASSUME CheckDeadline
     PROVE  ProgressInv'
  BY <1>9, TypeOK, YieldInv, ProgressInv, NAssumption
  DEF CheckDeadline, TypeOK, YieldInv, ProgressInv, files, history, End,
      ActedAtStep, HandedOver, Waiting, Steps, Positions, Checkpoint
<1>10. ASSUME Wake
     PROVE  ProgressInv'
  BY <1>10, TypeOK, YieldInv, ProgressInv, NAssumption
  DEF Wake, TypeOK, YieldInv, ProgressInv, files, history, ActedAtStep,
      HandedOver, Waiting, Steps, Positions, Checkpoint
<1>11. ASSUME Decide
     PROVE  ProgressInv'
  BY <1>11, TypeOK, YieldInv, ProgressInv, NAssumption
  DEF Decide, TypeOK, YieldInv, ProgressInv, files, MoveOn, ActedAtStep,
      HandedOver, Waiting, Steps, Positions, Checkpoint
<1>12. ASSUME DeadlinePasses
     PROVE  ProgressInv'
  BY <1>12, TypeOK, YieldInv, ProgressInv, NAssumption
  DEF DeadlinePasses, TypeOK, YieldInv, ProgressInv, files, history,
      ActedAtStep, HandedOver, Waiting, Steps, Positions, Checkpoint
<1>13. ASSUME NEW o \in Operator, NEW i \in Positions, ReadToTake(o, i)
     PROVE  ProgressInv'
  BY <1>13, TypeOK, YieldInv, ProgressInv, NAssumption
  DEF ReadToTake, TypeOK, YieldInv, ProgressInv, files, run, history, Now,
      CommandLine, ActedAtStep, HandedOver, Waiting, Steps, Positions,
      Checkpoint
<1>14. ASSUME NEW o \in Operator, WriteClaim(o)
     PROVE  ProgressInv'
  BY <1>14, TypeOK, YieldInv, ProgressInv, NAssumption
  DEF WriteClaim, TypeOK, YieldInv, ProgressInv, run, history, Now, Doing,
      CommandLine, Idle, ActedAtStep, HandedOver, Waiting, Steps,
      Positions, Checkpoint
<1>15. ASSUME NEW o \in Operator, NEW i \in Positions, NEW word \in Dispositions, Resume(o, i, word)
     PROVE  ProgressInv'
  BY <1>15, TypeOK, YieldInv, ProgressInv, NAssumption
  DEF Resume, TypeOK, YieldInv, ProgressInv, run, Now, CommandLine,
      ActedAtStep, HandedOver, Waiting, Steps, Positions, Checkpoint
<1>16. ASSUME NEW o \in Operator, ReturnLease(o)
     PROVE  ProgressInv'
  BY <1>16, TypeOK, YieldInv, ProgressInv, NAssumption
  DEF ReturnLease, TypeOK, YieldInv, ProgressInv, run, history, Now, Doing,
      CommandLine, ActedAtStep, HandedOver, Waiting, Steps, Positions,
      Checkpoint
<1>17. ASSUME NEW o \in Operator, WriteResolved(o)
     PROVE  ProgressInv'
  BY <1>17, TypeOK, YieldInv, ProgressInv, NAssumption
  DEF WriteResolved, TypeOK, YieldInv, ProgressInv, run, history, Now,
      Doing, CommandLine, Idle, ActedAtStep, HandedOver, Waiting, Steps,
      Positions, Checkpoint
<1>18. ASSUME UNCHANGED vars
     PROVE  ProgressInv'
  BY <1>18, TypeOK, YieldInv, ProgressInv, NAssumption
  DEF vars, TypeOK, YieldInv, ProgressInv, ActedAtStep, HandedOver,
      Waiting, Steps, Positions, Checkpoint
<1> QED
  BY <1>1, <1>2, <1>3, <1>4, <1>5, <1>6, <1>7, <1>8, <1>9, <1>10, <1>11,
     <1>12, <1>13, <1>14, <1>15, <1>16, <1>17, <1>18
  DEF Next, RunStep, OperatorStep, Terminated

\* A position is announced at most once, when its first attempt has failed.
LEMMA AnnouncedStep ==
  ASSUME TypeOK, ProgressInv, AnnouncedInv, [Next]_vars
  PROVE  AnnouncedInv'
<1>1. ASSUME Execute
     PROVE  AnnouncedInv'
  BY <1>1, TypeOK, ProgressInv, AnnouncedInv, NAssumption
  DEF Execute, TypeOK, ProgressInv, AnnouncedInv, files, End, ActedAtStep,
      HandedOver, Waiting, Attempting, Positions
<1>2. ASSUME Verified
     PROVE  AnnouncedInv'
  BY <1>2, TypeOK, ProgressInv, AnnouncedInv, NAssumption
  DEF Verified, TypeOK, ProgressInv, AnnouncedInv, files, history, MoveOn,
      ActedAtStep, HandedOver, Waiting, Attempting, Positions
<1>3. ASSUME Answered
     PROVE  AnnouncedInv'
  BY <1>3, TypeOK, ProgressInv, AnnouncedInv, NAssumption
  DEF Answered, TypeOK, ProgressInv, AnnouncedInv, files, history, End,
      ActedAtStep, HandedOver, Waiting, Attempting, Positions
<1>4. ASSUME Fails
     PROVE  AnnouncedInv'
  <2>1. \/ pc' = "raising" /\ ~retrying /\ UNCHANGED <<at, retrying, outcome>>
        \/ pc' = "over" /\ outcome' = "failure" /\ UNCHANGED <<at, retrying>>
    BY <1>4 DEF Fails, End
  <2>2. /\ pc \in Attempting
        /\ UNCHANGED <<request, executed, skipped, said>>
    BY <1>4 DEF Fails, files, history
  <2> QED
    BY <2>1, <2>2, AnnouncedInv
    DEF AnnouncedInv, Attempting, Waiting
<1>5. ASSUME CheckpointHolds
     PROVE  AnnouncedInv'
  BY <1>5, TypeOK, ProgressInv, AnnouncedInv, NAssumption
  DEF CheckpointHolds, TypeOK, ProgressInv, AnnouncedInv, files, history,
      End, ActedAtStep, HandedOver, Waiting, Attempting, Positions
<1>6. ASSUME RaiseRequest
     PROVE  AnnouncedInv'
  <2>1. CASE pc = "raising"
    BY <1>6, <2>1, AnnouncedInv DEF AnnouncedInv, RaiseRequest, Attempting
  <2>2. CASE pc = "announcing"
    <3>1. at <= at
      BY TypeOK, NAssumption DEF TypeOK, Positions
    <3> QED
      BY <1>6, <2>2, <3>1, AnnouncedInv DEF AnnouncedInv, RaiseRequest, Attempting
  <2> QED
    BY <1>6, <2>1, <2>2 DEF RaiseRequest
<1>7. ASSUME Bind
     PROVE  AnnouncedInv'
  BY <1>7, TypeOK, ProgressInv, AnnouncedInv, NAssumption
  DEF Bind, TypeOK, ProgressInv, AnnouncedInv, files, history, ActedAtStep,
      HandedOver, Waiting, Attempting, Positions
<1>8. ASSUME Poll
     PROVE  AnnouncedInv'
  BY <1>8, TypeOK, ProgressInv, AnnouncedInv, NAssumption
  DEF Poll, TypeOK, ProgressInv, AnnouncedInv, files, history, End,
      ActedAtStep, HandedOver, Waiting, Attempting, Positions
<1>9. ASSUME CheckDeadline
     PROVE  AnnouncedInv'
  BY <1>9, TypeOK, ProgressInv, AnnouncedInv, NAssumption
  DEF CheckDeadline, TypeOK, ProgressInv, AnnouncedInv, files, history,
      End, ActedAtStep, HandedOver, Waiting, Attempting, Positions
<1>10. ASSUME Wake
     PROVE  AnnouncedInv'
  BY <1>10, TypeOK, ProgressInv, AnnouncedInv, NAssumption
  DEF Wake, TypeOK, ProgressInv, AnnouncedInv, files, history, ActedAtStep,
      HandedOver, Waiting, Attempting, Positions
<1>11. ASSUME Decide
     PROVE  AnnouncedInv'
  BY <1>11, TypeOK, ProgressInv, AnnouncedInv, NAssumption
  DEF Decide, TypeOK, ProgressInv, AnnouncedInv, files, MoveOn,
      ActedAtStep, HandedOver, Waiting, Attempting, Positions
<1>12. ASSUME DeadlinePasses
     PROVE  AnnouncedInv'
  BY <1>12, TypeOK, ProgressInv, AnnouncedInv, NAssumption
  DEF DeadlinePasses, TypeOK, ProgressInv, AnnouncedInv, files, history,
      ActedAtStep, HandedOver, Waiting, Attempting, Positions
<1>13. ASSUME NEW o \in Operator, NEW i \in Positions, ReadToTake(o, i)
     PROVE  AnnouncedInv'
  BY <1>13, TypeOK, ProgressInv, AnnouncedInv, NAssumption
  DEF ReadToTake, TypeOK, ProgressInv, AnnouncedInv, files, run, history,
      Now, CommandLine, ActedAtStep, HandedOver, Waiting, Attempting,
      Positions
<1>14. ASSUME NEW o \in Operator, WriteClaim(o)
     PROVE  AnnouncedInv'
  BY <1>14, TypeOK, ProgressInv, AnnouncedInv, NAssumption
  DEF WriteClaim, TypeOK, ProgressInv, AnnouncedInv, run, history, Now,
      Doing, CommandLine, Idle, ActedAtStep, HandedOver, Waiting,
      Attempting, Positions
<1>15. ASSUME NEW o \in Operator, NEW i \in Positions, NEW word \in Dispositions, Resume(o, i, word)
     PROVE  AnnouncedInv'
  BY <1>15, TypeOK, ProgressInv, AnnouncedInv, NAssumption
  DEF Resume, TypeOK, ProgressInv, AnnouncedInv, run, Now, CommandLine,
      ActedAtStep, HandedOver, Waiting, Attempting, Positions
<1>16. ASSUME NEW o \in Operator, ReturnLease(o)
     PROVE  AnnouncedInv'
  BY <1>16, TypeOK, ProgressInv, AnnouncedInv, NAssumption
  DEF ReturnLease, TypeOK, ProgressInv, AnnouncedInv, run, history, Now,
      Doing, CommandLine, ActedAtStep, HandedOver, Waiting, Attempting,
      Positions
<1>17. ASSUME NEW o \in Operator, WriteResolved(o)
     PROVE  AnnouncedInv'
  BY <1>17, TypeOK, ProgressInv, AnnouncedInv, NAssumption
  DEF WriteResolved, TypeOK, ProgressInv, AnnouncedInv, run, history, Now,
      Doing, CommandLine, Idle, ActedAtStep, HandedOver, Waiting,
      Attempting, Positions
<1>18. ASSUME UNCHANGED vars
     PROVE  AnnouncedInv'
  BY <1>18, TypeOK, ProgressInv, AnnouncedInv, NAssumption
  DEF vars, TypeOK, ProgressInv, AnnouncedInv, ActedAtStep, HandedOver,
      Waiting, Attempting, Positions
<1> QED
  BY <1>1, <1>2, <1>3, <1>4, <1>5, <1>6, <1>7, <1>8, <1>9, <1>10, <1>11,
     <1>12, <1>13, <1>14, <1>15, <1>16, <1>17, <1>18
  DEF Next, RunStep, OperatorStep, Terminated

\* A second execution is one after a handoff.
LEMMA OneRetryStep ==
  ASSUME TypeOK, ProgressInv, OneRetry, [Next]_vars
  PROVE  OneRetry'
<1>1. ASSUME Execute
     PROVE  OneRetry'
  <2>1. CASE GateOpen
    <3>1. at \in Steps /\ pc = "ready" /\ said' = said
      BY <1>1 DEF Execute
    <3>2. \A s \in Steps :
            executed'[s] = IF s = at THEN executed[s] + 1 ELSE executed[s]
      BY <1>1, <2>1, TypeOK DEF Execute, TypeOK
    <3>3. executed[at] = 0 \/ (executed[at] <= 1 /\ said[at] # {})
      <4>1. ~retrying => executed[at] = 0
        BY <3>1, ProgressInv DEF ProgressInv
      <4>2. retrying => executed[at] <= 1 /\ said[at] # {}
        BY <3>1, ProgressInv DEF ProgressInv
      <4> QED
        BY <4>1, <4>2
    <3> QED
      BY <3>1, <3>2, <3>3, OneRetry, TypeOK DEF OneRetry, TypeOK
  <2>2. CASE ~GateOpen
    BY <1>1, <2>2, OneRetry DEF Execute, OneRetry
  <2> QED
    BY <2>1, <2>2
<1>2. ASSUME Verified
     PROVE  OneRetry'
  BY <1>2, TypeOK, ProgressInv, OneRetry, NAssumption
  DEF Verified, TypeOK, ProgressInv, OneRetry, files, history, MoveOn,
      Steps, Positions
<1>3. ASSUME Answered
     PROVE  OneRetry'
  BY <1>3, TypeOK, ProgressInv, OneRetry, NAssumption
  DEF Answered, TypeOK, ProgressInv, OneRetry, files, history, End, Steps,
      Positions
<1>4. ASSUME Fails
     PROVE  OneRetry'
  BY <1>4, TypeOK, ProgressInv, OneRetry, NAssumption
  DEF Fails, TypeOK, ProgressInv, OneRetry, files, history, End, Steps,
      Positions
<1>5. ASSUME CheckpointHolds
     PROVE  OneRetry'
  BY <1>5, TypeOK, ProgressInv, OneRetry, NAssumption
  DEF CheckpointHolds, TypeOK, ProgressInv, OneRetry, files, history, End,
      Steps, Positions
<1>6. ASSUME RaiseRequest
     PROVE  OneRetry'
  BY <1>6, TypeOK, ProgressInv, OneRetry, NAssumption
  DEF RaiseRequest, TypeOK, ProgressInv, OneRetry, history, Steps,
      Positions
<1>7. ASSUME Bind
     PROVE  OneRetry'
  BY <1>7, TypeOK, ProgressInv, OneRetry, NAssumption
  DEF Bind, TypeOK, ProgressInv, OneRetry, files, history, Steps, Positions
<1>8. ASSUME Poll
     PROVE  OneRetry'
  BY <1>8, TypeOK, ProgressInv, OneRetry, NAssumption
  DEF Poll, TypeOK, ProgressInv, OneRetry, files, history, End, Steps,
      Positions
<1>9. ASSUME CheckDeadline
     PROVE  OneRetry'
  BY <1>9, TypeOK, ProgressInv, OneRetry, NAssumption
  DEF CheckDeadline, TypeOK, ProgressInv, OneRetry, files, history, End,
      Steps, Positions
<1>10. ASSUME Wake
     PROVE  OneRetry'
  BY <1>10, TypeOK, ProgressInv, OneRetry, NAssumption
  DEF Wake, TypeOK, ProgressInv, OneRetry, files, history, Steps, Positions
<1>11. ASSUME Decide
     PROVE  OneRetry'
  BY <1>11, TypeOK, ProgressInv, OneRetry, NAssumption
  DEF Decide, TypeOK, ProgressInv, OneRetry, files, MoveOn, Steps,
      Positions
<1>12. ASSUME DeadlinePasses
     PROVE  OneRetry'
  BY <1>12, TypeOK, ProgressInv, OneRetry, NAssumption
  DEF DeadlinePasses, TypeOK, ProgressInv, OneRetry, files, history, Steps,
      Positions
<1>13. ASSUME NEW o \in Operator, NEW i \in Positions, ReadToTake(o, i)
     PROVE  OneRetry'
  BY <1>13, TypeOK, ProgressInv, OneRetry, NAssumption
  DEF ReadToTake, TypeOK, ProgressInv, OneRetry, files, run, history, Now,
      CommandLine, Steps, Positions
<1>14. ASSUME NEW o \in Operator, WriteClaim(o)
     PROVE  OneRetry'
  BY <1>14, TypeOK, ProgressInv, OneRetry, NAssumption
  DEF WriteClaim, TypeOK, ProgressInv, OneRetry, run, history, Now, Doing,
      CommandLine, Idle, Steps, Positions
<1>15. ASSUME NEW o \in Operator, NEW i \in Positions, NEW word \in Dispositions, Resume(o, i, word)
     PROVE  OneRetry'
  BY <1>15, TypeOK, ProgressInv, OneRetry, NAssumption
  DEF Resume, TypeOK, ProgressInv, OneRetry, run, Now, CommandLine, Steps,
      Positions
<1>16. ASSUME NEW o \in Operator, ReturnLease(o)
     PROVE  OneRetry'
  BY <1>16, TypeOK, ProgressInv, OneRetry, NAssumption
  DEF ReturnLease, TypeOK, ProgressInv, OneRetry, run, history, Now, Doing,
      CommandLine, Steps, Positions
<1>17. ASSUME NEW o \in Operator, WriteResolved(o)
     PROVE  OneRetry'
  BY <1>17, TypeOK, ProgressInv, OneRetry, NAssumption
  DEF WriteResolved, TypeOK, ProgressInv, OneRetry, run, history, Now,
      Doing, CommandLine, Idle, Steps, Positions
<1>18. ASSUME UNCHANGED vars
     PROVE  OneRetry'
  BY <1>18, TypeOK, ProgressInv, OneRetry, NAssumption
  DEF vars, TypeOK, ProgressInv, OneRetry, Steps, Positions
<1> QED
  BY <1>1, <1>2, <1>3, <1>4, <1>5, <1>6, <1>7, <1>8, <1>9, <1>10, <1>11,
     <1>12, <1>13, <1>14, <1>15, <1>16, <1>17, <1>18
  DEF Next, RunStep, OperatorStep, Terminated

\* A step is left out on a person's word.
LEMMA SkipsStep ==
  ASSUME TypeOK, FilesInv, SkipsOnlyOnWord, [Next]_vars
  PROVE  SkipsOnlyOnWord'
<1>1. ASSUME Execute
     PROVE  SkipsOnlyOnWord'
  BY <1>1, TypeOK, FilesInv, SkipsOnlyOnWord
  DEF Execute, TypeOK, FilesInv, SkipsOnlyOnWord, files, End, Disposition,
      Dispositions, RETRY_STEP, STEP_ALREADY_PERFORMED, Positions, Steps
<1>2. ASSUME Verified
     PROVE  SkipsOnlyOnWord'
  BY <1>2, TypeOK, FilesInv, SkipsOnlyOnWord
  DEF Verified, TypeOK, FilesInv, SkipsOnlyOnWord, files, history, MoveOn,
      Disposition, Dispositions, RETRY_STEP, STEP_ALREADY_PERFORMED,
      Positions, Steps
<1>3. ASSUME Answered
     PROVE  SkipsOnlyOnWord'
  BY <1>3, TypeOK, FilesInv, SkipsOnlyOnWord
  DEF Answered, TypeOK, FilesInv, SkipsOnlyOnWord, files, history, End,
      Disposition, Dispositions, RETRY_STEP, STEP_ALREADY_PERFORMED,
      Positions, Steps
<1>4. ASSUME Fails
     PROVE  SkipsOnlyOnWord'
  BY <1>4, TypeOK, FilesInv, SkipsOnlyOnWord
  DEF Fails, TypeOK, FilesInv, SkipsOnlyOnWord, files, history, End,
      Disposition, Dispositions, RETRY_STEP, STEP_ALREADY_PERFORMED,
      Positions, Steps
<1>5. ASSUME CheckpointHolds
     PROVE  SkipsOnlyOnWord'
  BY <1>5, TypeOK, FilesInv, SkipsOnlyOnWord
  DEF CheckpointHolds, TypeOK, FilesInv, SkipsOnlyOnWord, files, history,
      End, Disposition, Dispositions, RETRY_STEP, STEP_ALREADY_PERFORMED,
      Positions, Steps
<1>6. ASSUME RaiseRequest
     PROVE  SkipsOnlyOnWord'
  BY <1>6, TypeOK, FilesInv, SkipsOnlyOnWord
  DEF RaiseRequest, TypeOK, FilesInv, SkipsOnlyOnWord, history,
      Disposition, Dispositions, RETRY_STEP, STEP_ALREADY_PERFORMED,
      Positions, Steps
<1>7. ASSUME Bind
     PROVE  SkipsOnlyOnWord'
  BY <1>7, TypeOK, FilesInv, SkipsOnlyOnWord
  DEF Bind, TypeOK, FilesInv, SkipsOnlyOnWord, files, history, Disposition,
      Dispositions, RETRY_STEP, STEP_ALREADY_PERFORMED, Positions, Steps
<1>8. ASSUME Poll
     PROVE  SkipsOnlyOnWord'
  BY <1>8, TypeOK, FilesInv, SkipsOnlyOnWord
  DEF Poll, TypeOK, FilesInv, SkipsOnlyOnWord, files, history, End,
      Disposition, Dispositions, RETRY_STEP, STEP_ALREADY_PERFORMED,
      Positions, Steps
<1>9. ASSUME CheckDeadline
     PROVE  SkipsOnlyOnWord'
  BY <1>9, TypeOK, FilesInv, SkipsOnlyOnWord
  DEF CheckDeadline, TypeOK, FilesInv, SkipsOnlyOnWord, files, history,
      End, Disposition, Dispositions, RETRY_STEP, STEP_ALREADY_PERFORMED,
      Positions, Steps
<1>10. ASSUME Wake
     PROVE  SkipsOnlyOnWord'
  BY <1>10, TypeOK, FilesInv, SkipsOnlyOnWord
  DEF Wake, TypeOK, FilesInv, SkipsOnlyOnWord, files, history, Disposition,
      Dispositions, RETRY_STEP, STEP_ALREADY_PERFORMED, Positions, Steps
<1>11. ASSUME Decide
     PROVE  SkipsOnlyOnWord'
  BY <1>11, TypeOK, FilesInv, SkipsOnlyOnWord
  DEF Decide, TypeOK, FilesInv, SkipsOnlyOnWord, files, MoveOn,
      Disposition, Dispositions, RETRY_STEP, STEP_ALREADY_PERFORMED,
      Positions, Steps
<1>12. ASSUME DeadlinePasses
     PROVE  SkipsOnlyOnWord'
  BY <1>12, TypeOK, FilesInv, SkipsOnlyOnWord
  DEF DeadlinePasses, TypeOK, FilesInv, SkipsOnlyOnWord, files, history,
      Disposition, Dispositions, RETRY_STEP, STEP_ALREADY_PERFORMED,
      Positions, Steps
<1>13. ASSUME NEW o \in Operator, NEW i \in Positions, ReadToTake(o, i)
     PROVE  SkipsOnlyOnWord'
  BY <1>13, TypeOK, FilesInv, SkipsOnlyOnWord
  DEF ReadToTake, TypeOK, FilesInv, SkipsOnlyOnWord, files, run, history,
      Now, CommandLine, Disposition, Dispositions, RETRY_STEP,
      STEP_ALREADY_PERFORMED, Positions, Steps
<1>14. ASSUME NEW o \in Operator, WriteClaim(o)
     PROVE  SkipsOnlyOnWord'
  BY <1>14, TypeOK, FilesInv, SkipsOnlyOnWord
  DEF WriteClaim, TypeOK, FilesInv, SkipsOnlyOnWord, run, history, Now,
      Doing, CommandLine, Idle, Disposition, Dispositions, RETRY_STEP,
      STEP_ALREADY_PERFORMED, Positions, Steps
<1>15. ASSUME NEW o \in Operator, NEW i \in Positions, NEW word \in Dispositions, Resume(o, i, word)
     PROVE  SkipsOnlyOnWord'
  BY <1>15, TypeOK, FilesInv, SkipsOnlyOnWord
  DEF Resume, TypeOK, FilesInv, SkipsOnlyOnWord, run, Now, CommandLine,
      Disposition, Dispositions, RETRY_STEP, STEP_ALREADY_PERFORMED,
      Positions, Steps
<1>16. ASSUME NEW o \in Operator, ReturnLease(o)
     PROVE  SkipsOnlyOnWord'
  BY <1>16, TypeOK, FilesInv, SkipsOnlyOnWord
  DEF ReturnLease, TypeOK, FilesInv, SkipsOnlyOnWord, run, history, Now,
      Doing, CommandLine, Disposition, Dispositions, RETRY_STEP,
      STEP_ALREADY_PERFORMED, Positions, Steps
<1>17. ASSUME NEW o \in Operator, WriteResolved(o)
     PROVE  SkipsOnlyOnWord'
  BY <1>17, TypeOK, FilesInv, SkipsOnlyOnWord
  DEF WriteResolved, TypeOK, FilesInv, SkipsOnlyOnWord, run, history, Now,
      Doing, CommandLine, Idle, Disposition, Dispositions, RETRY_STEP,
      STEP_ALREADY_PERFORMED, Positions, Steps
<1>18. ASSUME UNCHANGED vars
     PROVE  SkipsOnlyOnWord'
  BY <1>18, TypeOK, FilesInv, SkipsOnlyOnWord
  DEF vars, TypeOK, FilesInv, SkipsOnlyOnWord, Disposition, Dispositions,
      RETRY_STEP, STEP_ALREADY_PERFORMED, Positions, Steps
<1> QED
  BY <1>1, <1>2, <1>3, <1>4, <1>5, <1>6, <1>7, <1>8, <1>9, <1>10, <1>11,
     <1>12, <1>13, <1>14, <1>15, <1>16, <1>17, <1>18
  DEF Next, RunStep, OperatorStep, Terminated

-------------------------------------------------------------------------------
(***************************************************************************)
(* The invariant holds, and what follows from it.                          *)
(***************************************************************************)
\* A run starts with no intervention, no history and nobody at a keyboard.
LEMMA InitIInv == Init => IInv
<1> SUFFICES ASSUME Init PROVE IInv
  OBVIOUS
<1>1. TypeOK
  <2>1. Absent \in LeaseFile
    BY LeaseValues
  <2>2. Idle \in [cmd : Commands, id : Positions, word : Dispositions]
    BY NAssumption DEF Idle, CommandLine, Commands, Positions, Dispositions
  <2>3. 1 \in Positions
    BY NAssumption DEF Positions
  <2>4. executed \in [Steps -> Nat]
    BY DEF Init
  <2> QED
    BY <2>1, <2>2, <2>3, <2>4 DEF Init, TypeOK, Attempting
<1>2. FilesInv /\ CommandInv /\ YieldInv
  BY DEF Init, FilesInv, CommandInv, YieldInv, Absent, AUTOMATION, Waiting,
         STEP_ALREADY_PERFORMED, Idle, CommandLine, Positions
<1>3. ProgressInv /\ AnnouncedInv
  BY NAssumption
  DEF Init, ProgressInv, AnnouncedInv, ActedAtStep, HandedOver, Waiting, Steps
<1>4. OneRetry /\ SkipsOnlyOnWord
  BY DEF Init, OneRetry, SkipsOnlyOnWord, Steps
<1> QED
  BY <1>1, <1>2, <1>3, <1>4 DEF IInv

\* Every step keeps the invariant.
LEMMA StepIInv == IInv /\ [Next]_vars => IInv'
<1> SUFFICES ASSUME IInv, [Next]_vars PROVE IInv'
  OBVIOUS
<1>0. /\ TypeOK /\ FilesInv /\ CommandInv /\ YieldInv /\ ProgressInv
      /\ AnnouncedInv /\ OneRetry /\ SkipsOnlyOnWord /\ ActedAtStep
  BY DEF IInv, ProgressInv
<1>1. TypeOK'
  BY <1>0, TypeStep
<1>2. FilesInv'
  BY <1>0, FilesStep
<1>3. CommandInv'
  BY <1>0, CommandStep
<1>4. YieldInv'
  BY <1>0, YieldStep
<1>5. ProgressInv'
  BY <1>0, ProgressStep
<1>6. OneRetry'
  BY <1>0, OneRetryStep
<1>7. SkipsOnlyOnWord'
  BY <1>0, SkipsStep
<1>8. AnnouncedInv'
  BY <1>0, AnnouncedStep
<1> QED
  BY <1>1, <1>2, <1>3, <1>4, <1>5, <1>6, <1>7, <1>8 DEF IInv

\* The inductive invariant: the conjunction the other theorems are read off.
THEOREM InductiveInvariant == Spec => []IInv
BY InitIInv, StepIInv, PTL DEF Spec

\* Type correctness, for any number of steps and any set of operators.
THEOREM TypeCorrect == Spec => []TypeOK
<1>1. IInv => TypeOK
  BY DEF IInv
<1> QED
  BY <1>1, InductiveInvariant, PTL

\* Once a position has been announced to people, automation acts again only
\* after somebody ran `resume` for it (escalate.py, wait_for_resume).
THEOREM AutomationYields == Spec => []YieldedUntilResumed
<1>1. IInv => YieldedUntilResumed
  BY DEF IInv, YieldInv, YieldedUntilResumed, Attempting, Waiting
<1> QED
  BY <1>1, InductiveInvariant, PTL

\* Nobody can see a request whose lease is still automation's
\* (raise_request: the lease moves before the request is announced).
THEOREM NoRequestBeforeItsLease == Spec => []AnnouncedAfterYield
<1>1. IInv => AnnouncedAfterYield
  <2> SUFFICES ASSUME IInv, NEW i \in request, said[i] = {}
               PROVE  lease[i].owner \in {HUMAN, "torn"}
    BY DEF AnnouncedAfterYield
  <2>1. i \in Positions /\ lease[i] \in LeaseFile
    BY DEF IInv, TypeOK
  <2>2. lease[i].owner \in {AUTOMATION, HUMAN, "absent", "torn"}
    BY <2>1 DEF LeaseFile
  <2>3. lease[i].owner # AUTOMATION /\ lease[i].owner # "absent"
    BY <2>1 DEF IInv, FilesInv
  <2> QED
    BY <2>2, <2>3
<1> QED
  BY <1>1, InductiveInvariant, PTL

\* A step is left out only when a person said it was done, whatever a reader
\* of resolved.json finds in it (read_disposition).
THEOREM SkippedOnAPersonsWord == Spec => []SkipsOnlyOnWord
<1>1. IInv => SkipsOnlyOnWord
  BY DEF IInv
<1> QED
  BY <1>1, InductiveInvariant, PTL

\* One handoff and one retry: a step reaches the browser at most twice
\* (_escalate_and_retry, "retrying=True").
THEOREM AtMostOneRetry == Spec => []OneRetry
<1>1. IInv => OneRetry
  BY DEF IInv
<1> QED
  BY <1>1, InductiveInvariant, PTL

\* A replay that reports success has executed every step or left it to a
\* person who said it was done (_replay).
THEOREM NoStepIsLost == Spec => []SuccessAccountsForEveryStep
<1>1. IInv => SuccessAccountsForEveryStep
  <2> SUFFICES ASSUME IInv, outcome = "success", NEW s \in Steps
               PROVE  executed[s] > 0 \/ s \in skipped
    BY DEF SuccessAccountsForEveryStep
  <2>1. at = Checkpoint
    BY DEF IInv, ProgressInv
  <2>2. s < at
    BY <2>1, NAssumption DEF Steps, Checkpoint
  <2> QED
    BY <2>2 DEF IInv, ProgressInv
<1> QED
  BY <1>1, InductiveInvariant, PTL

-------------------------------------------------------------------------------
(***************************************************************************)
(* Who moves a lease.                                                      *)
(***************************************************************************)
\* A step that changes an announced lease is a step of some operator: the run
\* never seizes a session back and never overwrites a claim (raise_request is
\* the run's only write, and it precedes the announcement).
THEOREM LeaseMovedByPeople == Spec => OnlyPeopleMoveALease
<1> DEFINE Act == \A i \in request : lease'[i] # lease[i] => \E o \in Operator : op'[o] # op[o]
<1>1. IInv /\ [Next]_vars => [Act]_vars
  <2> SUFFICES ASSUME IInv, Next, NEW i \in request, lease'[i] # lease[i]
               PROVE  \E o \in Operator : op'[o] # op[o]
    OBVIOUS
  <2>1. i \in Positions /\ op \in [Operator -> [cmd : Commands, id : Positions, word : Dispositions]]
    BY DEF IInv, TypeOK
  <2>2. ~RaiseRequest
    <3> SUFFICES ASSUME RaiseRequest PROVE FALSE
      OBVIOUS
    <3>1. pc = "raising" /\ lease' = [lease EXCEPT ![at] = HeldBy(UNCLAIMED)]
      BY DEF RaiseRequest
    <3>2. i = at
      BY <2>1, <3>1 DEF IInv, TypeOK
    <3> QED
      BY <3>1, <3>2 DEF IInv, AnnouncedInv
  <2>3. ~RunStep /\ ~DeadlinePasses /\ ~Terminated
    BY <2>2
    DEF RunStep, DeadlinePasses, Terminated, vars, Execute, Verified, Answered, Fails,
        CheckpointHolds, Bind, Poll, CheckDeadline, Wake, Decide, files
  <2>4. PICK o \in Operator : OperatorStep(o)
    BY <2>3 DEF Next
  <2>5. op'[o] # op[o]
    <3>1. CASE WriteClaim(o)
      BY <2>1, <3>1 DEF WriteClaim, Now, Doing, CommandLine, Idle
    <3>2. CASE ReturnLease(o)
      BY <2>1, <3>2 DEF ReturnLease, Now, Doing, CommandLine
    <3>3. ASSUME NEW j \in Positions, NEW word \in Dispositions, Resume(o, j, word)
          PROVE  op'[o] # op[o]
      BY <2>1, <3>3 DEF Resume, Now, CommandLine
    <3>4. ~WriteResolved(o) /\ \A j \in Positions : ~ReadToTake(o, j)
      BY DEF WriteResolved, ReadToTake, files
    <3> QED
      BY <2>4, <3>1, <3>2, <3>3, <3>4 DEF OperatorStep
  <2> QED
    BY <2>5
<1> QED
  BY <1>1, InductiveInvariant, PTL DEF OnlyPeopleMoveALease, Spec

-------------------------------------------------------------------------------
(***************************************************************************)
(* The lease protocol implements the replay contract.                      *)
(***************************************************************************)
\* The phase of the contract a place in the run stands for.
LEMMA PhaseValues ==
  /\ pc = "over" => Phase = "over"
  /\ pc \in HandedOver => Phase = "stuck"
  /\ pc \in Attempting /\ retrying => Phase = "retrying"
  /\ pc \in Attempting /\ ~retrying => Phase = "trying"
BY DEF Phase, HandedOver, Attempting, Waiting

\* ... and after the step.
LEMMA NextPhaseValues ==
  /\ pc' = "over" => Phase' = "over"
  /\ pc' \in HandedOver => Phase' = "stuck"
  /\ pc' \in Attempting /\ retrying' => Phase' = "retrying"
  /\ pc' \in Attempting /\ ~retrying' => Phase' = "trying"
BY DEF Phase, HandedOver, Attempting, Waiting

\* Every step of the protocol is a step of the contract or none of its
\* business.
LEMMA StepKeepsContract ==
  ASSUME IInv, [Next]_vars
  PROVE  [Contract!Next]_(Contract!vars)
<1> USE PhaseValues, NextPhaseValues
<1>0. TypeOK /\ ProgressInv
  BY DEF IInv
<1>1. ASSUME Execute
      PROVE  Contract!Escape \/ UNCHANGED Contract!vars
  BY <1>1 DEF Execute, End, Attempting, Contract!Escape, Contract!End, Contract!vars
<1>2. ASSUME Verified
      PROVE  Contract!Pass
  BY <1>0, <1>2
  DEF ProgressInv, ActedAtStep, Verified, MoveOn, history, Attempting,
      Contract!Pass, Contract!Attempting, Contract!Steps, Steps
<1>3. ASSUME Answered
      PROVE  Contract!Answered
  BY <1>0, <1>3
  DEF ProgressInv, ActedAtStep, Answered, End, history, Attempting,
      Contract!Answered, Contract!Attempting, Contract!Steps, Steps, Contract!End
<1>4. ASSUME Fails
      PROVE  Contract!AskForHelp \/ Contract!Fail
  BY <1>4 DEF Fails, End, history, Attempting, HandedOver,
              Contract!AskForHelp, Contract!Fail, Contract!End
<1>5. ASSUME CheckpointHolds
      PROVE  Contract!Succeed
  BY <1>5 DEF CheckpointHolds, End, history, Attempting, Checkpoint,
              Contract!Succeed, Contract!Attempting, Contract!Checkpoint, Contract!End
<1>6. ASSUME RaiseRequest \/ Bind \/ Wake
      PROVE  UNCHANGED Contract!vars
  BY <1>6 DEF RaiseRequest, Bind, Wake, HandedOver, Waiting, history, Contract!vars
<1>7. ASSUME Poll
      PROVE  Contract!Escape \/ UNCHANGED Contract!vars
  BY <1>7 DEF Poll, End, HandedOver, Waiting, history,
              Contract!Escape, Contract!End, Contract!vars
<1>8. ASSUME CheckDeadline
      PROVE  Contract!Fail \/ UNCHANGED Contract!vars
  BY <1>8 DEF CheckDeadline, End, HandedOver, Waiting, history,
              Contract!Fail, Contract!End, Contract!vars
<1>9. ASSUME Decide
      PROVE  Contract!TakeAsDone \/ Contract!TryAgain
  <2>1. Phase = "stuck" /\ pc' = "ready" /\ outcome' = outcome
    BY <1>9 DEF Decide, MoveOn, HandedOver
  <2>2. CASE retrying'
    BY <1>9, <2>1, <2>2 DEF Decide, MoveOn, Attempting, Contract!TryAgain
  <2>3. CASE ~retrying'
    BY <1>9, <2>1, <2>3
    DEF Decide, MoveOn, Attempting, Contract!TakeAsDone, Contract!Steps, Steps
  <2> QED
    BY <2>2, <2>3
<1>10. ASSUME DeadlinePasses \/ (\E o \in Operator : OperatorStep(o)) \/ UNCHANGED vars
       PROVE  UNCHANGED Contract!vars
  <2>1. UNCHANGED <<pc, at, retrying, outcome, skipped>>
    BY <1>10
    DEF DeadlinePasses, OperatorStep, ReadToTake, WriteClaim, Resume, ReturnLease,
        WriteResolved, run, history, vars
  <2> QED
    BY <2>1 DEF Phase, Contract!vars
<1> QED
  BY <1>1, <1>2, <1>3, <1>4, <1>5, <1>6, <1>7, <1>8, <1>9, <1>10
  DEF Next, RunStep, Terminated, Contract!Next

\* Whatever operators do to the files, a run walks its steps in order, asks
\* for help at most once at each, tries at most once more, and ends once.
THEOREM ImplementsContract == Spec => Contract!Spec
<1>1. Init => Contract!Init
  BY PhaseValues DEF Init, Attempting, Contract!Init
<1>2. IInv /\ [Next]_vars => [Contract!Next]_(Contract!vars)
  BY StepKeepsContract
<1> QED
  BY <1>1, <1>2, InductiveInvariant, PTL DEF Spec, Contract!Spec
===============================================================================

---------------------------- MODULE ReplayContract ----------------------------
(***************************************************************************)
(* What a replay promises about the order of things, whatever happens      *)
(* inside a step and however the handoff to a person is carried out:       *)
(*                                                                         *)
(*   - steps are walked in order, the checkpoint last;                     *)
(*   - at one position the run asks for help at most once, and tries at    *)
(*     most once more after help came;                                     *)
(*   - a step is passed without being tried again only when a person gave  *)
(*     it back as done;                                                    *)
(*   - help that never comes ends the run with the original failure;       *)
(*   - the run ends, once, with one outcome.                               *)
(*                                                                         *)
(* Handoff and ReplayEngine both implement this specification: the first   *)
(* with the lease files and the operators in full, the second with the     *)
(* inside of a step in full.                                               *)
(***************************************************************************)
EXTENDS Naturals

CONSTANT N               \* number of steps of the capability, a natural

Steps == 1 .. N
Checkpoint == N + 1
Positions == 1 .. N + 1

Outcomes == {"success", "business", "failure", "escaped"}

VARIABLES
  at,                    \* the position the run is at
  phase,                 \* what it is doing there
  outcome,               \* how it ended, "none" while it has not
  skipped                \* steps taken over by a person

vars == <<at, phase, outcome, skipped>>

Phases == {"trying", "stuck", "retrying", "over"}

TypeOK ==
  /\ at \in Positions
  /\ phase \in Phases
  /\ outcome \in Outcomes \cup {"none"}
  /\ skipped \subseteq Steps

Init ==
  /\ at = 1
  /\ phase = "trying"
  /\ outcome = "none"
  /\ skipped = {}

Attempting == phase \in {"trying", "retrying"}

\* The step at hand held; on to the next one.
Pass ==
  /\ Attempting
  /\ at \in Steps
  /\ at' = at + 1
  /\ phase' = "trying"
  /\ UNCHANGED <<outcome, skipped>>

\* The first attempt at this position failed, and a person is asked.
AskForHelp ==
  /\ phase = "trying"
  /\ phase' = "stuck"
  /\ UNCHANGED <<at, outcome, skipped>>

\* The session came back: one more try.
TryAgain ==
  /\ phase = "stuck"
  /\ phase' = "retrying"
  /\ UNCHANGED <<at, outcome, skipped>>

\* The session came back with the step done by hand.
TakeAsDone ==
  /\ phase = "stuck"
  /\ at \in Steps
  /\ skipped' = skipped \cup {at}
  /\ at' = at + 1
  /\ phase' = "trying"
  /\ UNCHANGED outcome

End(result) ==
  /\ phase' = "over"
  /\ outcome' = result
  /\ UNCHANGED <<at, skipped>>

Succeed == Attempting /\ at = Checkpoint /\ End("success")
Answered == Attempting /\ at \in Steps /\ End("business")
Fail == phase # "over" /\ End("failure")
Escape == phase # "over" /\ End("escaped")

Next ==
  \/ Pass \/ AskForHelp \/ TryAgain \/ TakeAsDone
  \/ Succeed \/ Answered \/ Fail \/ Escape

Spec == Init /\ [][Next]_vars

\* The run always ends.
FairSpec == Spec /\ WF_vars(Next)
===============================================================================

------------------------------ MODULE Generalize ------------------------------
(***************************************************************************)
(* The one judgement in compilation that is a model's: which expectations  *)
(* quote the record that happened to be recorded (src/artifact/            *)
(* semantics.py), and what is asserted in their place                      *)
(* (src/artifact/generalize.py).  The labels are any; what is done with    *)
(* them is a rule.                                                         *)
(***************************************************************************)
EXTENDS Compiler

\* _already_input_following: it quotes the caller, so it cannot quote the
\* recording.
InputFollowing(claim) == claim.of = PARAM

\* compiler.recorded_urls: where each step of the capability landed; nothing
\* is known of one that no kept attempt follows.
StepUrls ==
  RemoveAt([i \in 1 .. Len(Kept) |->
              IF i < Len(Kept) THEN ObservedAfter(i).path ELSE Nothing], DoneAt)

\* _templated_fragment: the parameter identifies this page, for its recorded
\* value is in the URL.
Templatable(url) == Parameterised /\ url # Nothing /\ Occurs(Example, url)

\* _entry_path; a bare "/" is in every URL and says nothing.
EntryPath == IF Home.path = "/" THEN Nothing ELSE Home.path

\* A variant of Demoted: whatever a step acts on is there afterwards.
DemotedToControl(step, url) ==
  {[check |-> "element", of |-> step.target.name, role |-> step.target.role]}

\* _demote, an expectation being checked after its action: an action that stays
\* on the page leaves its control in place, one that navigates leads to a URL.
\* The claim to put in its place, if there is one.
Demoted(step, url) ==
  CASE step.action = "type" ->
         {[check |-> "element", of |-> step.target.name, role |-> step.target.role]}
    [] step.action = "click" /\ Templatable(url) -> {Claim("url", PARAM)}
    [] step.action = "click" /\ ~Templatable(url) ->
         {Claim("url", EntryPath)} \ {Claim("url", Nothing)}
    [] OTHER -> {}

\* The claim of a step as it is kept: that of a labelled step, but for a read,
\* gives way to another one if it is not about the caller's input already and
\* there is something to claim instead.
Weakened(step, url) ==
  LET other == Demoted(step, url)
  IN IF step.action = "read" \/ InputFollowing(step.claim) \/ other = {} THEN step
     ELSE [step EXCEPT !.claim = CHOOSE c \in other : TRUE]

\* generalize.apply: what the model labelled, as far as it can be improved.
Generalise(labels, checkpointIsFitted) ==
  LET steps == capability.steps
      checkpoint == capability.checkpoint
      urls == StepUrls
  IN capability' =
       [steps |-> [i \in DOMAIN steps |->
          IF i \in labels THEN Weakened(steps[i], urls[i]) ELSE steps[i]],
        checkpoint |->
          IF checkpointIsFitted /\ ~InputFollowing(checkpoint) /\ Templatable(FinalPath)
          THEN Claim("url", PARAM) ELSE checkpoint]

\* distil: any labels, also of steps there are not, which are dropped
\* (validate_against).  Without a model, or with an answer that is none, the
\* capability stands as compiled: Invoke.
Label ==
  /\ phase = "compiled"
  /\ phase' = "labelled"
  /\ \E labels \in SUBSET (DOMAIN capability.steps), checkpointIsFitted \in BOOLEAN :
       Generalise(labels, checkpointIsFitted)
  /\ UNCHANGED <<page, recording, member, renewed, at, outputs, result>>

LabelledNext == Next \/ Label

LabelledSpec == Init /\ [][LabelledNext]_vars

(***************************************************************************)
(* Properties                                                              *)
(***************************************************************************)
Changed ==
  LET compiled == Steps
  IN {i \in DOMAIN compiled : capability.steps[i].claim # compiled[i].claim}

\* The attempts whose claims were put in other terms, wherever they were made.
Generalised ==
  LET body == Body
  IN ({body[i] : i \in Changed} \ {body[i] : i \in DOMAIN body \ Changed})
       \cup (IF capability.checkpoint # Checkpoint THEN {Kept[DoneAt]} ELSE {})

\* Where a claim became "still somewhere under the entry path", it was so.
EntryClaimsHold ==
  \A i \in Changed :
    capability.steps[i].claim = Claim("url", EntryPath) => Occurs(EntryPath, Body[i].after.path)

\* Where the claim of `done` quotes an answer, another step asserts something
\* else, and what the last such step asserts is still true where the flow ends.
SubstituteStands ==
  LET own == Kept[DoneAt].intent.plan.claim
      others == {i \in DOMAIN Steps : Quoted(Steps[i].claim) \notin ReadValues}
  IN Quoted(own) \in ReadValues =>
       /\ others # {}
       /\ Holds(BoundClaim(Steps[Max(others)].claim), Seen(Kept[DoneAt].after))

\* A reliable recording compiles to a capability that succeeds, for every
\* member, however the figures have changed and whichever of its expectations a
\* model called fitted to the record, and leaves the browser on that member's
\* page where the recording left it on its own: no step that mattered was
\* dropped or doubled, and no claim is left that only the recording could meet.
\* The claims that were generalised need not have been about every member in
\* the first place.  (compile_capability, generalize.apply)
CleanRecordingReplays ==
  Replayed =>
    \/ result = "success" /\ page = Seen(trace[Len(trace)].after)
    \/ ~ReliableBut(Generalised)
    \/ ~EntryClaimsHold
    \/ ~SubstituteStands

(***************************************************************************)
(* What the documentation says and the code does not do.                   *)
(***************************************************************************)
\* semantics.py:28: "The artifact cannot get worse."  So a capability that was
\* reliable as compiled is reliable as labelled.
NeverWorse ==
  Replayed /\ Reliable => result = "success"
===============================================================================

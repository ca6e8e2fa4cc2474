------------------------------ MODULE Compiler ------------------------------
(***************************************************************************)
(* From a discovery run to a capability to its replay: the rules of        *)
(* src/artifact/compiler.py, between the loop that records what they read  *)
(* (src/agent/loop.py) and the engine that performs what they write        *)
(* (src/replay/engine.py).                                                 *)
(*                                                                         *)
(* The loop and the engine appear here only as far as the compiler's       *)
(* output depends on them; Discovery and ReplayEngine model them whole.    *)
(* The application is a constant: pages, and where an action leads.        *)
(***************************************************************************)
EXTENDS Naturals, SequencesExt

CONSTANTS
  Pages,        \* what the application can show
  Home,         \* the page of Trace.target_url, where a replay starts too
  Leads,        \* page -> action -> element -> value typed -> page
  ValueShaped,  \* the names _VALUE_SHAPED matches
  Within,       \* <<part, whole>>: `part` occurs in the text `whole`
  Members,      \* values a caller can pass
  Example,      \* the one the goal of the recording mentions
  RecordOf,     \* page -> the member whose record it shows, or Nothing
  Mirror,       \* page -> member -> the same page of that member
  Renewed,      \* page -> the same page once the figures in it have changed
  Plans,        \* what the planner may state, the element by its name
  MaxAttempts,  \* bound on the length of a recording
  MaxMishaps    \* bound on the slow pages and failed actions in it

Nothing == "nothing"
PARAM == "{{member}}"              \* _template of the one parameter

IsClaim(c) == c = [check |-> c.check, of |-> c.of, role |-> c.role]
Values == Members \cup {q.value : q \in Plans}

ASSUME HomeAssumption == Home \in Pages
ASSUME ExampleAssumption == Example \in Members
ASSUME PlansAssumption ==
  \A q \in Plans : q.action \in {"click", "type", "read", "done"} /\ IsClaim(q.claim)
ASSUME ApplicationAssumption ==
  \A p \in Pages :
    /\ p.elements \in Seq(Range(p.elements))
    /\ Renewed[p] \in Pages
    /\ \A k \in DOMAIN p.elements, v \in Values :
         Leads[p]["click"][k][v] \in Pages /\ Leads[p]["type"][k][v] \in Pages
\* Neither the application nor a plan writes the capability's own template.
ASSUME TemplateAssumption ==
  /\ \A p \in Pages :
       /\ p.path \notin {PARAM, Nothing}
       /\ \A e \in Range(p.elements) : e.role # Nothing /\ PARAM \notin {e.name, e.text}
  /\ \A q \in Plans : PARAM \notin {q.value, q.claim.of}
ASSUME BoundsAssumption == MaxAttempts \in Nat /\ MaxMishaps \in Nat

VARIABLES
  page,         \* the page in the browser
  seen,         \* the page at the last perceive
  stage,        \* recovery stage of the next attempt
  trace,        \* Trace.steps
  mishaps,      \* slow pages and failed actions so far
  phase,        \* "record", "compile", "compiled", "labelled", "replay", "ended"
  capability,   \* the Capability
  member,       \* request.params
  renewed,      \* have the figures changed since the recording
  at,           \* the replay's step
  outputs,      \* what the replay read, Nothing for a step that reads nothing
  result

recording == <<seen, stage, trace, mishaps>>
request == <<capability, member, renewed>>
vars == <<page, recording, phase, request, at, outputs, result>>

(***************************************************************************)
(* Pages and claims                                                        *)
(***************************************************************************)
Occurs(part, whole) == part = whole \/ <<part, whole>> \in Within

\* Whether a page bears an expectation out (agent/verify.py).
Holds(claim, p) ==
  CASE claim.check = "text" ->
         \E e \in Range(p.elements) : Occurs(claim.of, e.text)
    [] claim.check = "absent" ->
         \A e \in Range(p.elements) : ~Occurs(claim.of, e.text)
    [] claim.check = "element" ->
         \E e \in Range(p.elements) :
           claim.role \in {Nothing, e.role} /\ Occurs(claim.of, e.name)
    [] claim.check = "field" -> \E e \in Range(p.elements) : e.value = claim.of
    [] claim.check = "url" -> Occurs(claim.of, p.path)

\* ActionExecutor._read: the text a readable element carries.
ReadOf(p, k) ==
  LET e == p.elements[k] IN IF e.value # Nothing THEN e.value ELSE e.name

\* What an action does to the page; a read and a done do nothing.
After(p, action, k, value) ==
  IF action \in {"click", "type"} THEN Leads[p][action][k][value] ELSE p

(***************************************************************************)
(* The recording: _run_one_attempt and its three stages                    *)
(***************************************************************************)
\* The intents a planner may state for a snapshot: ref is the element's number.
Intents(p) ==
  {[plan |-> q, ref |-> 0] : q \in {r \in Plans : r.action = "done"}} \cup
  {[plan |-> q, ref |-> k] : q \in {r \in Plans : r.action # "done"},
                             k \in 1 .. Len(p.elements)}

Meant(i, p) == i.plan.action # "done" => p.elements[i.ref].name = i.plan.name

NextStage(held) ==
  IF held THEN "original" ELSE IF stage = "original" THEN "retry" ELSE "replan"

\* A retry repeats the intent of the original, against the snapshot it was made
\* for.
Stated == IF stage = "retry" THEN {Last(trace).intent} ELSE Intents(page)
Snapshot == IF stage = "retry" THEN Last(trace).before ELSE page

\* A read takes its text from the snapshot; a click or a typing needs the
\* element's number on the page as it was last perceived.
Found(i) ==
  \/ i.plan.action \in {"done", "read"}
  \/ /\ stage = "retry" => page = seen
     /\ i.ref \in DOMAIN page.elements
     /\ i.plan.action = "type" => page.elements[i.ref].role = "textbox"

Reached(i, ran) ==
  IF ran THEN After(page, i.plan.action, i.ref, i.plan.value) ELSE page

\* The record of an attempt.
Tried(i, ran, held) ==
  [intent |-> i, before |-> Snapshot, ran |-> ran, held |-> held,
   got |-> IF ran /\ i.plan.action = "read" THEN ReadOf(Snapshot, i.ref) ELSE Nothing,
   on |-> page, after |-> Reached(i, ran)]

\* What an attempt leaves behind, and what comes next.
AttemptLeaves(i, ran, held) ==
  /\ page' = Reached(i, ran)
  /\ trace' = Append(trace, Tried(i, ran, held))
  /\ stage' = NextStage(held)
  /\ phase' = IF held /\ i.plan.action = "done" THEN "compile"
              ELSE IF ~held /\ stage = "replan" THEN "ended" ELSE "record"
  /\ result' = IF ~held /\ stage = "replan" THEN "dead end" ELSE result

\* One attempt.  `works` is the browser's answer; `slow` a page still showing
\* its old content when judged.
Attempt ==
  /\ phase = "record"
  /\ Len(trace) < MaxAttempts
  /\ \E i \in Stated, works, slow \in BOOLEAN :
       LET ran == Found(i) /\ works
           judged == IF slow THEN page ELSE Reached(i, ran)
           held == ran /\ Holds(i.plan.claim, judged)
           bad == (IF works THEN 0 ELSE 1) + (IF slow THEN 1 ELSE 0)
       IN /\ stage # "retry" => Meant(i, page)
          /\ slow => ran /\ i.plan.action = "click" /\ Reached(i, ran) # page
          /\ ~works => i.plan.action \in {"click", "type"}
          /\ mishaps + bad <= MaxMishaps
          /\ mishaps' = mishaps + bad
          /\ seen' = IF ran THEN judged ELSE IF stage = "retry" THEN seen ELSE page
          /\ AttemptLeaves(i, ran, held)
  /\ UNCHANGED <<request, at, outputs>>

(***************************************************************************)
(* compile_capability: which attempts are kept                             *)
(***************************************************************************)
SameAction(a, b) ==
  LET p == a.intent.plan
      q == b.intent.plan
  IN <<p.action, p.described, p.value>> = <<q.action, q.described, q.value>>

\* An attempt is kept if it was executed and does not repeat the last one kept.
Keeping(kept, a) ==
  IF a.ran /\ (kept # <<>> => ~SameAction(Last(kept), a)) THEN Append(kept, a) ELSE kept

KeptFrom(attempts) ==
  LET kept[n \in 0 .. Len(attempts)] ==
        IF n = 0 THEN <<>> ELSE Keeping(kept[n - 1], attempts[n])
  IN kept[Len(attempts)]

Kept == KeptFrom(trace)

IsDone(a) == a.intent.plan.action = "done"

DoneAt == SelectLastInSeq(Kept, IsDone)
Body == RemoveAt(Kept, DoneAt)

\* The goal's value typed somewhere: the capability takes a parameter.
Parameterised ==
  \E a \in Range(Body) : a.intent.plan.action = "type" /\ a.intent.plan.value = Example

(***************************************************************************)
(* What each step claims                                                   *)
(***************************************************************************)
Claim(check, of) == [check |-> check, of |-> of, role |-> Nothing]

\* The page the next kept attempt was decided on.
ObservedAfter(i) == Kept[i + 1].before

\* _text_that_appeared: the first element, in document order, that is new.
Appeared(old, new) ==
  SelectInSeq(new.elements,
              LAMBDA e : \A o \in Range(old.elements) : o.text # e.text)

\* A claim that held stays; a disproved one gives way to what was observed.
Trustworthy(i) ==
  LET a == Kept[i]
  IN IF a.held \/ i = Len(Kept) THEN a.intent.plan.claim
     ELSE LET new == ObservedAfter(i)
          IN IF new.path # a.before.path THEN Claim("url", new.path)
             ELSE IF Appeared(a.before, new) # 0
                  THEN Claim("text", new.elements[Appeared(a.before, new)].text)
                  ELSE a.intent.plan.claim

\* A value the goal mentions becomes the parameter.
StepValue(a) ==
  IF a.intent.plan.action = "type" /\ a.intent.plan.value = Example
  THEN PARAM ELSE a.intent.plan.value

\* The recorded value of the parameter gives way to the parameter, in a text
\* claim that is exactly it and in the field claim of the step that types it.
Sanitised(claim, value) ==
  IF \/ claim.check = "text" /\ Parameterised /\ claim.of = Example
     \/ claim.check = "field" /\ value = PARAM
  THEN [claim EXCEPT !.of = PARAM] ELSE claim

Quoted(claim) == IF claim.check \in {"url", "absent"} THEN Nothing ELSE claim.of

\* A read must not claim the very value it returned: what it is found by is
\* claimed instead.
Unquoted(claim, target, got) ==
  LET found(name) == [check |-> "element", of |-> name, role |-> target.role]
  IN IF got = Nothing \/ Quoted(claim) # got THEN claim
     ELSE IF target.anchor # Nothing THEN found(target.anchor)
     ELSE IF target.name # got THEN found(target.name)
     ELSE claim

(***************************************************************************)
(* What each step acts on, as compiled and as found again                  *)
(***************************************************************************)
\* How far back the nearest name is that is not itself a value; 0 for none.
AnchorOffset(elements, k) ==
  LET label == SelectLastInSubSeq(elements, 1, k - 1,
                                  LAMBDA e : e.name \notin ValueShaped \cup {Nothing})
  IN IF elements[k].name \in ValueShaped /\ label # 0 THEN k - label ELSE 0

\* The occurrence of its name the element is on the page it was chosen from.
MatchIndex(elements, k) ==
  Cardinality({j \in 1 .. k - 1 : /\ elements[j].role = elements[k].role
                                   /\ elements[j].name = elements[k].name})

NoTarget == [role |-> Nothing, name |-> Nothing, index |-> 0,
             anchor |-> Nothing, offset |-> 0]

TargetOf(a) ==
  LET elements == a.before.elements
      k == a.intent.ref
      offset == AnchorOffset(elements, k)
  IN IF IsDone(a) THEN NoTarget
     ELSE [role |-> elements[k].role, name |-> elements[k].name,
           index |-> MatchIndex(elements, k), offset |-> offset,
           anchor |-> IF offset = 0 THEN Nothing ELSE elements[k - offset].name]

(***************************************************************************)
(* The element a target is found at, 0 for none (_match_element): past its *)
(* anchor, else by its name, else by a name its own occurs in.             *)
(***************************************************************************)
\* A mutant: right beside the anchor, however far the recording was from it.
BesideAnchor(t, k, elements) == k > 1 /\ elements[k - 1].name = t.anchor

PastAnchor(t, k, elements) == k > t.offset /\ elements[k - t.offset].name = t.anchor

FirstOf(ks) == IF ks = {} THEN 0 ELSE Min(ks)
Nth(ks, n) == FirstOf({k \in ks : Cardinality({j \in ks : j < k}) = n})

Locate(t, elements) ==
  LET candidates == {k \in DOMAIN elements : elements[k].role = t.role}
      anchored == {k \in candidates : PastAnchor(t, k, elements)}
      exact == Nth({k \in candidates : elements[k].name = t.name}, t.index)
  IN IF t.anchor # Nothing /\ anchored # {} THEN FirstOf(anchored)
     ELSE IF exact # 0 THEN exact
     ELSE Nth({k \in candidates : Occurs(t.name, elements[k].name)}, t.index)

(***************************************************************************)
(* The capability                                                          *)
(***************************************************************************)
StepOf(i) ==
  LET a == Kept[i]
      claim == Sanitised(Trustworthy(i), StepValue(a))
  IN [action |-> a.intent.plan.action, target |-> TargetOf(a), value |-> StepValue(a),
      claim |-> Unquoted(claim, TargetOf(a), a.got)]

Steps == RemoveAt([i \in 1 .. Len(Kept) |-> StepOf(i)], DoneAt)

ReadValues == {a.got : a \in Range(Body)} \ {Nothing}

\* A mutant: the answer stays quoted.
ResolvedKeepsTheAnswer == Kept[DoneAt].intent.plan.claim

\* The claim of `done`; when it quotes the answer, that of the last step that
\* does not.
Resolved ==
  LET own == Kept[DoneAt].intent.plan.claim
      other == SelectLastInSeq(Steps, LAMBDA s : Quoted(s.claim) \notin ReadValues)
  IN IF Quoted(own) \in ReadValues /\ other # 0 THEN Steps[other].claim ELSE own

FinalPath == Kept[DoneAt].before.path

\* A mutant: whatever was resolved will do.
CheckpointUnbound == Resolved

\* With a parameter the checkpoint must name it, or the URL must, or nothing
\* is compiled.
MustBind == Parameterised /\ Resolved.of # PARAM
Checkpoint == IF MustBind THEN Claim("url", PARAM) ELSE Resolved

Refused == MustBind /\ ~Occurs(Example, FinalPath)

NoCapability == [steps |-> <<>>, checkpoint |-> Claim("none", Nothing)]

\* cli.py: compile the finished recording.
Compile ==
  /\ phase = "compile"
  /\ IF Refused
     THEN /\ phase' = "ended"
          /\ result' = "refused"
          /\ UNCHANGED capability
     ELSE /\ phase' = "compiled"
          /\ capability' = [steps |-> Steps, checkpoint |-> Checkpoint]
          /\ UNCHANGED result
  /\ UNCHANGED <<page, recording, member, renewed, at, outputs>>

\* cli.py: replay the capability for a member, from the page the recording
\* started on; its claims may have been generalised before (Generalize).
Invoke ==
  /\ phase \in {"compiled", "labelled"}
  /\ phase' = "replay"
  /\ member' \in IF Parameterised THEN Members ELSE {Example}
  /\ renewed' \in BOOLEAN
  /\ page' = Home
  /\ UNCHANGED <<recording, capability, at, outputs, result>>

(***************************************************************************)
(* The replay, on pages the application shows (src/replay/engine.py)       *)
(***************************************************************************)
\* A page as the application shows it by the time of the replay.
ByNow(p) == IF renewed THEN Renewed[p] ELSE p

Bound(x) == IF x = PARAM THEN member ELSE x
BoundClaim(claim) == [claim EXCEPT !.of = Bound(claim.of)]

\* The element of the step the replay is at, 0 for none.
Here == Locate(capability.steps[at + 1].target, page.elements)

\* _run_step: find the element, act, and judge what came of it; a read is
\* judged by what it returned.
StepNotFound ==
  /\ phase = "replay"
  /\ at < Len(capability.steps)
  /\ capability.steps[at + 1].target # NoTarget
  /\ Here = 0
  /\ phase' = "ended"
  /\ result' = "not found"
  /\ UNCHANGED <<page, recording, request, at, outputs>>

StepPerformed ==
  /\ phase = "replay"
  /\ at < Len(capability.steps)
  /\ LET step == capability.steps[at + 1]
         k == IF step.target = NoTarget THEN 0 ELSE Here
         after == ByNow(After(page, step.action, k, Bound(step.value)))
     IN /\ step.target # NoTarget => k # 0
        /\ page' = after
        /\ outputs' = Append(outputs, IF step.action = "read" THEN ReadOf(page, k)
                                      ELSE Nothing)
        /\ at' = at + 1
        /\ IF step.action = "read" \/ Holds(BoundClaim(step.claim), after)
           THEN UNCHANGED <<phase, result>>
           ELSE phase' = "ended" /\ result' = "claim failed"
  /\ UNCHANGED <<recording, request>>

\* _assert_checkpoint.
AssertCheckpoint ==
  /\ phase = "replay"
  /\ at = Len(capability.steps)
  /\ phase' = "ended"
  /\ result' = IF Holds(BoundClaim(capability.checkpoint), page)
               THEN "success" ELSE "checkpoint failed"
  /\ UNCHANGED <<page, recording, request, at, outputs>>

Init ==
  /\ page = Home
  /\ seen = Home
  /\ stage = "original"
  /\ trace = <<>>
  /\ mishaps = 0
  /\ phase = "record"
  /\ capability = NoCapability
  /\ member = Nothing
  /\ renewed = FALSE
  /\ at = 0
  /\ outputs = <<>>
  /\ result = Nothing

Next == Attempt \/ Compile \/ Invoke \/ StepNotFound \/ StepPerformed \/ AssertCheckpoint

Spec == Init /\ [][Next]_vars

(***************************************************************************)
(* Properties                                                              *)
(***************************************************************************)
\* Its claim was true of the page the attempt led to, or was seen to fail and
\* that page gives something to claim instead.
BornOut(a) ==
  \/ Holds(a.intent.plan.claim, a.after)
  \/ ~a.held /\ (a.after.path # a.before.path \/ Appeared(a.before, a.after) # 0)

\* A recorded page as the replay's member sees it now.
Seen(p) == ByNow(Mirror[p][member])

Told(x) == IF x = Example THEN member ELSE x

\* The attempts that were executed, by their number.
Executed == {n \in DOMAIN trace : trace[n].ran}

\* What is done twice in a row does and returns what it did the first time.
RepeatsAreIdle ==
  \A m, n \in Executed :
    m < n /\ (\A o \in Executed : o <= m \/ n <= o) /\ SameAction(trace[m], trace[n]) =>
      trace[n].after = trace[m].after /\ trace[n].got = trace[m].got

OneDone == \E n \in Executed : \A m \in Executed : IsDone(trace[m]) <=> m = n

\* The application treats the member as it treated the recorded one, and what
\* was read has a label, or a name that has not changed.
GoesAsRecorded(a) ==
  LET p == a.intent.plan
  IN /\ After(Mirror[a.on][member], p.action, a.intent.ref, Told(p.value))
          = Mirror[a.after][member]
     /\ p.action = "read" =>
          \/ AnchorOffset(a.before.elements, a.intent.ref) # 0
          \/ Seen(a.before).elements[a.intent.ref] = a.before.elements[a.intent.ref]

\* Its claim is true of the member's page too unless it quotes what the
\* recording read.
ClaimCarriesOver(a, read) ==
  LET p == a.intent.plan
  IN \/ Holds([p.claim EXCEPT !.of = Told(p.claim.of)], Seen(a.after))
     \/ p.action \in {"read", "done"} /\ Quoted(p.claim) \in read

ForAnother == member # Example \/ renewed

\* Nothing was done twice over, and one `done`; and where the replay is for
\* another member or the figures have changed, this makes no difference to
\* where the actions lead.
Followable ==
  /\ RepeatsAreIdle
  /\ OneDone
  /\ ForAnother => \A n \in Executed : GoesAsRecorded(trace[n])

\* What a recording must be for its capability to be relied on: it can be
\* followed; every claim was borne out or is replaceable; and for another member
\* or other figures the claims are about every member and every figure alike,
\* but for those that were generalised.
ReliableBut(generalised) ==
  LET read == {trace[n].got : n \in Executed} \ {Nothing}
  IN /\ Followable
     /\ \A n \in Executed : BornOut(trace[n])
     /\ ForAnother =>
          \A n \in Executed :
            trace[n].held /\ (ClaimCarriesOver(trace[n], read) \/ trace[n] \in generalised)

Reliable == ReliableBut({})

Replayed == phase = "ended" /\ result \notin {"dead end", "refused"}

\* Every value a reliable recording's replay returns is what now stands where the recording
\* read: the member's own, from the same row.
\* (_derive_anchor, _match_by_anchor, _output_for)
ReadsTheRecordedRow ==
  Replayed /\ Reliable =>
    \A i \in 1 .. at :
      LET a == Kept[i]
      IN a.intent.plan.action = "read" =>
           outputs[i] = ReadOf(Seen(a.before), a.intent.ref)

\* Two pages with the same elements, in other words only where both are values;
\* an element with the same words is the same occurrence of them.
Alike(p, q) ==
  /\ Len(q.elements) = Len(p.elements)
  /\ \A k \in DOMAIN p.elements :
       LET old == p.elements[k]
           new == q.elements[k]
       IN /\ new.role = old.role
          /\ new.name # old.name => {old.name, new.name} \subseteq ValueShaped
          /\ new.name = old.name =>
               \A j \in DOMAIN p.elements :
                 q.elements[j].name = old.name <=> p.elements[j].name = old.name

\* An application whose pages are the same for every member but for the figures
\* on them and the member in the URL; where a label stands once on a page, no
\* control is named by a figure, and a field shows what was typed into it.
ApplicationIsRegular ==
  /\ Renewed[Home] = Home /\ \A m \in Members : Mirror[Home][m] = Home
  /\ \A p \in Pages :
       /\ Renewed[Renewed[p]] = Renewed[p] /\ Renewed[p].path = p.path
       /\ Mirror[p][Example] = p
       /\ \A m \in Members :
            /\ Mirror[p][m] \in Pages
            /\ Alike(p, Mirror[p][m]) /\ Alike(p, Renewed[Mirror[p][m]])
            /\ IF Occurs(Example, p.path) THEN Occurs(m, Mirror[p][m].path)
                                          ELSE Mirror[p][m].path = p.path
       /\ \A j, k \in DOMAIN p.elements :
            LET label == k - AnchorOffset(p.elements, k)
            IN label # k /\ p.elements[j].name = p.elements[label].name => j = label
       /\ \A k \in DOMAIN p.elements, v \in Values : \A action \in {"click", "type"} :
            Renewed[Leads[Renewed[p]][action][k][v]] = Renewed[Leads[p][action][k][v]]
       /\ \A k \in DOMAIN p.elements, v \in Values :
            p.elements[k].role = "textbox" =>
              \A q \in {Leads[p]["type"][k][v], Renewed[Leads[p]["type"][k][v]]} :
                \E e \in Range(q.elements) :
                  /\ e.role = "textbox" /\ e.name = p.elements[k].name
                  /\ e.value = v

\* Controls are named in words, only what is typed mentions the member, and a
\* claim mentions them where they are put back: in a text, or in the field
\* they were typed into.  (_classify_value, _sanitise_expectation)
PlansAreRegular ==
  \A q \in Plans :
    /\ q.action \in {"click", "type"} => q.name \notin ValueShaped
    /\ q.action # "type" => q.value # Example
    /\ q.claim.of = Example =>
         \/ q.claim.check = "text"
         \/ q.claim.check = "field" /\ q.action = "type" /\ q.value = Example

\* The application, as _bind_checkpoint_to_record takes it to be: a page shows a
\* member's value, in a text, a field or its URL, only where it is that member's
\* record, or nobody's.
RecordsAreTheirs ==
  \A p \in Pages, m \in Members, check \in {"text", "field", "url"} :
    Holds(Claim(check, m), p) => RecordOf[p] \in {m, Nothing}

\* A capability that takes a member never reports success on the record of
\* another one, whatever the recording was.  (_bind_checkpoint_to_record)
RightRecord ==
  result = "success" /\ (\E s \in Range(capability.steps) : s.value = PARAM) =>
    RecordOf[page] \in {member, Nothing}

\* The checkpoint of a capability was borne out by the recording: where the
\* run ended, read for the recorded member, it holds.  (compiler.py:281-282 of
\* a disproved claim: "replaying it would fail every time for the same reason";
\* models.py:218: "the condition that proves the goal was reached")
CheckpointWasBornOut ==
  phase = "replay" =>
    LET c == capability.checkpoint
    IN Holds([c EXCEPT !.of = IF c.of = PARAM THEN Example ELSE c.of],
             trace[Len(trace)].after)
===============================================================================

------------------------------- MODULE Targeting -------------------------------
(***************************************************************************)
(* A target described by the compiler (src/artifact/compiler.py,           *)
(* _target_for) and found again by a replay (src/replay/engine.py,         *)
(* _resolve_target), on pages read by Perception.                          *)
(*                                                                         *)
(* One behaviour records an element of a page, closes that browser, meets  *)
(* some page in another, looks, looks again, and acts.  The page may       *)
(* change between any two of these.                                        *)
(***************************************************************************)
EXTENDS Perception

CONSTANTS
  Pages,         \* pages the application can show
  ValueShaped,   \* the texts _VALUE_SHAPED matches
  Within         \* <<part, whole>>: the normal form `part` occurs in `whole`

ASSUME PagesAssumption == \A p \in Pages : IsPage(p)

NoElement == [ref |-> NoRef, role |-> NoName, name |-> NoName, scope |-> <<"none", 0, NoName>>,
              handle |-> FALSE, marked |-> FALSE, frame |-> NoName, node |-> NoName]
NoAnchor == [after |-> NoName, offset |-> 0]

VARIABLES
  page,          \* the page in the browser
  stamps,        \* node -> the number in its data-cua-ref, 0 for none
  phase,         \* "record", "first look", "second look", "act", "acted", "failed"
  recorded,      \* history: the page and the element of the recording
  spec,          \* the step's TargetSpec
  seen,          \* the last perceive, and the page it was of
  found,         \* the element it matched
  strategy,      \* the rung of the chain it was found at
  hit            \* the nodes the action landed on

vars == <<page, stamps, phase, recorded, spec, seen, found, strategy, hit>>

(***************************************************************************)
(* _target_for, _derive_anchor                                             *)
(***************************************************************************)
\* How far before the k-th element the nearest name is that is not itself a
\* value, counted over the whole snapshot; 0 for none, or no need of one.
AnchorOffset(elements, k) ==
  LET labels == {j \in 1 .. k - 1 : elements[j].name \notin ValueShaped \cup {NoName}}
  IN IF elements[k].name \in ValueShaped /\ labels # {} THEN k - Max(labels) ELSE 0

Alike(e, c) == <<c.role, c.name, c.scope>> = <<e.role, e.name, e.scope>>
Siblings(elements, e) == {j \in DOMAIN elements : Alike(e, elements[j])}

\* How many of some positions are before the k-th.
Before(positions, k) == Cardinality({j \in positions : j < k})

TargetOf(elements, k) ==
  LET e == elements[k]
      offset == AnchorOffset(elements, k)
  IN [role |-> e.role, name |-> e.name, scope |-> e.scope,
      index |-> Before(Siblings(elements, e), k),
      anchor |-> IF offset = 0 THEN NoAnchor
                 ELSE [after |-> elements[k - offset].name, offset |-> offset]]

(***************************************************************************)
(* _match_element: an element, or NoElement                                *)
(***************************************************************************)
Match(e, rung) == [element |-> e, strategy |-> rung]
NoMatch == Match(NoElement, "none")

\* Where the elements are that a target could be.
InScope(elements, t) == {k \in DOMAIN elements : elements[k].scope = t.scope}

\* A mutant: a button will do for a link.
CandidatesOfAnyRole(elements, t) == InScope(elements, t)

Candidates(elements, t) == {k \in InScope(elements, t) : elements[k].role = t.role}

\* A mutant: the first occurrence rather than the recorded one.
First(elements, matches, t, rung) ==
  IF matches = {} THEN NoMatch ELSE Match(elements[Min(matches)], rung)

\* The occurrence that as many others precede as in the recording.
Nth(elements, matches, t, rung) ==
  LET nth == {k \in matches : Before(matches, k) = t.index}
  IN IF nth = {} THEN NoMatch ELSE Match(elements[Min(nth)], rung)

\* The element `offset` past the first one of the anchor's name whose
\* neighbour has the right role, within the target's scope.
ByAnchor(elements, t) ==
  LET scoped == InScope(elements, t)
      Past(label, k) == Before(scoped, k) = Before(scoped, label) + t.anchor.offset
      Values(label) == {k \in Candidates(elements, t) : Past(label, k)}
      labels == {k \in scoped : elements[k].name = t.anchor.after /\ Values(k) # {}}
  IN IF t.anchor = NoAnchor \/ labels = {} THEN NoMatch
     ELSE Match(elements[Min(Values(Min(labels)))], "anchor")

OccursIn(part, whole) == part = whole \/ <<part, whole>> \in Within

ByName(elements, t) ==
  LET all == Candidates(elements, t)
      wanted == Normal[t.name]
      At(matches, rung) == Nth(elements, matches, t, rung)
      exact == At({k \in all : elements[k].name = t.name}, "exact")
      normalised == At({k \in all : Normal[elements[k].name] = wanted}, "normalised")
      contains == At({k \in all : OccursIn(wanted, Normal[elements[k].name])}, "contains")
  IN IF exact # NoMatch THEN exact
     ELSE IF wanted = NoName THEN NoMatch
     ELSE IF normalised # NoMatch THEN normalised ELSE contains

MatchElement(elements, t) ==
  IF ByAnchor(elements, t) # NoMatch THEN ByAnchor(elements, t) ELSE ByName(elements, t)

(***************************************************************************)
(* The behaviour                                                           *)
(***************************************************************************)
Unstamped == [d \in UNION {NodesOf(p) : p \in Pages} |-> NoRef]
NothingSeen == [elements |-> <<>>, ok |-> FALSE, on |-> <<>>, stamps |-> Unstamped]

Init ==
  /\ page \in Pages
  /\ stamps = Unstamped
  /\ phase = "record"
  /\ recorded = [on |-> <<>>, element |-> NoElement]
  /\ spec = [role |-> NoName, name |-> NoName, scope |-> NoElement.scope, index |-> 0,
             anchor |-> NoAnchor]
  /\ seen = NothingSeen
  /\ found = NoElement
  /\ strategy = "none"
  /\ hit = {}

\* An element of the recorded snapshot is described.  The replay has a browser
\* of its own, whose page carries no stamps.
Record ==
  /\ phase = "record"
  /\ LET snapshot == Perceived(page, stamps).elements
     IN \E k \in DOMAIN snapshot :
          /\ recorded' = [on |-> page, element |-> snapshot[k]]
          /\ spec' = TargetOf(snapshot, k)
  /\ page' \in Pages
  /\ phase' = "first look"
  /\ UNCHANGED <<stamps, seen, found, strategy, hit>>

\* The application changes the page under a replay: nodes that stay keep their
\* stamps, others come without; a new document has none.
PageChanges ==
  /\ phase \in {"first look", "second look", "act"}
  /\ page' \in Pages \ {page}
  /\ \E stay \in {{}, NodesOf(page) \cap NodesOf(page')} :
       stamps' = [d \in DOMAIN stamps |-> IF d \in stay THEN stamps[d] ELSE NoRef]
  /\ UNCHANGED <<phase, recorded, spec, seen, found, strategy, hit>>

\* Perceive and match; once more after settling, then the step fails.
Look ==
  /\ phase \in {"first look", "second look"}
  /\ LET now == Perceived(page, stamps)
         match == MatchElement(now.elements, spec)
     IN /\ stamps' = now.stamps
        /\ seen' = [elements |-> now.elements, ok |-> CoverageOk(now), on |-> page,
                   stamps |-> now.stamps]
        /\ found' = match.element
        /\ strategy' = match.strategy
        /\ phase' = IF match # NoMatch THEN "act"
                    ELSE IF phase = "first look" THEN "second look" ELSE "failed"
  /\ UNCHANGED <<page, recorded, spec, hit>>

\* A mutant: the handle is to a node of the page as it was, not a locator.
ActOnWhatWasSeen ==
  /\ phase = "act"
  /\ phase' = "acted"
  /\ hit' = IF found.handle THEN Landing(seen.on, seen.stamps, found) ELSE {}
  /\ UNCHANGED <<page, stamps, recorded, spec, seen, found, strategy>>

\* A mutant: the page is perceived once more before the action.
ActAfterPerceiving ==
  /\ phase = "act"
  /\ phase' = "acted"
  /\ stamps' = Perceived(page, stamps).stamps
  /\ hit' = IF found.handle THEN Landing(page, stamps', found) ELSE {}
  /\ UNCHANGED <<page, recorded, spec, seen, found, strategy>>

\* resolve takes the handle of the matched ref; the action goes through it.
Act ==
  /\ phase = "act"
  /\ phase' = "acted"
  /\ hit' = IF found.handle THEN Landing(page, stamps, found) ELSE {}
  /\ UNCHANGED <<page, stamps, recorded, spec, seen, found, strategy>>

Terminated == phase \in {"acted", "failed"} /\ UNCHANGED vars

Next == Record \/ PageChanges \/ Look \/ Act \/ Terminated

Spec == Init /\ [][Next]_vars

(***************************************************************************)
(* Properties                                                              *)
(***************************************************************************)
TypeOK ==
  /\ page \in Pages
  /\ stamps \in [DOMAIN Unstamped -> Nat]
  /\ phase \in {"record", "first look", "second look", "act", "acted", "failed"}
  /\ found \in Range(seen.elements) \cup {NoElement}
  /\ (found = NoElement) <=> (strategy = "none")
  /\ strategy \in {"anchor", "exact", "normalised", "contains", "none"}
  /\ hit \subseteq NodesOf(page)

\* No two frames of the page share a URL.
WellFramed(p) == \A i, j \in DOMAIN p : p[i].url = p[j].url => i = j

\* While the page is as it was perceived, every interactive element is found by
\* its number, and it alone, and one that could not be stamped is not found at
\* all: stamps of an earlier pass, on nodes that are no longer shown, come later
\* in the page or stand where nothing could be read, never lead elsewhere.
\* (_perceive_frame, _clear_refs, _stamp_refs)
HandlesReachTheirOwn ==
  phase = "act" /\ page = seen.on /\ stamps = seen.stamps /\ WellFramed(page) =>
    \A e \in Range(seen.elements) :
      e.handle => Located(page, stamps, e) = IF e.marked THEN {e.node} ELSE {}

\* However the page changes between look and action, the action lands on the
\* node that was matched or on none.
LandsWhereItLooked ==
  phase = "acted" /\ WellFramed(seen.on) => hit \subseteq {found.node}

\* Whatever rung of the chain a target is found at, and however the page has
\* drifted, a link is not taken for a button nor a frame for the document: what
\* is matched has the recorded role and stands in a frame that goes by the
\* recorded scope.  (_candidates, _match_by_anchor)
KindIsNeverRelaxed ==
  found # NoElement /\ WellFramed(seen.on) =>
    /\ found.role = recorded.element.role
    /\ \E i \in DOMAIN seen.on :
         /\ found.node \in Ids(seen.on[i])
         /\ Scope(seen.on, i) = recorded.element.scope

\* The label the target was described by stands once in the target's scope, and
\* one frame goes by that scope.
Unambiguous ==
  spec.anchor = NoAnchor \/
    LET elements == Perceived(recorded.on, Unstamped).elements
        label == recorded.element.ref - spec.anchor.offset
        Named(i) == Scope(recorded.on, i) = spec.scope
    IN /\ {k \in InScope(elements, spec) : elements[k].name = spec.anchor.after} = {label}
       /\ \A i, j \in DOMAIN recorded.on : Named(i) /\ Named(j) => i = j

\* On the page it was recorded on a target is found, and is the element that
\* was recorded, also among others of its role and name.
\* (_target_for, _match_element)
FoundAgain ==
  phase \notin {"record", "first look"} /\ seen.on = recorded.on /\ Unambiguous =>
    found.node = recorded.element.node

\* A control that the page shows and perception has no element for is never
\* hidden by a good coverage report, unless the tree of the main frame, which
\* the report exempts, could not be read, or the document has no node for it.
\* (compute_coverage, perceive, _perceive_frame)
MissingIsReported ==
  seen.ok /\ WellFramed(seen.on) =>
    \A i \in DOMAIN seen.on : i # 1 \/ seen.on[i].answers =>
      \A n \in Range(seen.on[i].nodes) :
        n.shown /\ Addressable(n) => \E e \in Range(seen.elements) : e.node = n.id

-------------------------------------------------------------------------------
(***************************************************************************)
(* What the documentation says and the code does not do.                   *)
(***************************************************************************)
\* models.py:76-78: "when a page has three links named "Open Record", the
\* recording knows which one it used, and replay must take the same one rather
\* than the first".
TakesTheRecordedOne ==
  phase \notin {"record", "first look"} /\ seen.on = recorded.on /\ found # NoElement =>
    found.node = recorded.element.node

\* web_perception.py:346-347: "A frame we cannot read is reported as empty, which
\* trips the coverage gate rather than silently pretending the page is fine".
UnreadFrameTripsTheGate == seen.ok => \A f \in Range(seen.on) : f.answers

\* engine.py:628-630: "If there are now fewer matches than the recording saw,
\* that is a real change and resolving fails rather than guessing".
FewerMatchesFail ==
  LET matches(p, t) == Cardinality(Siblings(Perceived(p, Unstamped).elements, t))
  IN found # NoElement /\ spec.anchor = NoAnchor /\ matches(seen.on, spec) > 0 =>
       matches(seen.on, spec) >= matches(recorded.on, spec)
===============================================================================

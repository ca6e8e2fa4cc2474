---------------------------- MODULE TargetingProofs ----------------------------
(***************************************************************************)
(* Proofs about Targeting, for any set of pages, of texts and of bounds.   *)
(*                                                                         *)
(* The inductive invariant says what the last perceive knows of its page   *)
(* (SeenInv, from PerceptionProofs), that the page in the browser carries  *)
(* no number that perceive has not given it (StampsInv, ActingInv), that   *)
(* what was matched is of the recorded kind (SpecInv, FoundInv), and on    *)
(* which snapshots a target was described and matched (RecordedInv,        *)
(* MatchedInv).                                                            *)
(***************************************************************************)
EXTENDS Targeting, PerceptionProofs, FiniteSetTheorems

Places == DOMAIN Unstamped

(***************************************************************************)
(* Pages.                                                                  *)
(***************************************************************************)
\* A page of the application is a page, and its nodes are places for a number.
LEMMA PagesMean ==
  ASSUME NEW p \in Pages
  PROVE  IsPage(p) /\ NodesOf(p) \subseteq Places
<1>1. NodesOf(p) \subseteq UNION {NodesOf(q) : q \in Pages}
  OBVIOUS
<1>2. Places = UNION {NodesOf(q) : q \in Pages}
  BY DEF Places, Unstamped
<1> QED
  BY <1>1, <1>2, PagesAssumption

\* Where no two frames share a URL each frame is answered with its own tree.
LEMMA WellFramedMeans ==
  ASSUME NEW p, IsPage(p), WellFramed(p)
  PROVE  OwnTrees(p)
<1> SUFFICES ASSUME NEW i \in DOMAIN p, TreeOf(p, i) # 0 PROVE TreeOf(p, i) = i
  BY DEF OwnTrees
<1>1. TreeOf(p, i) \in DOMAIN p /\ p[TreeOf(p, i)].url = p[i].url
  BY TreeIsAFrame
<1> QED
  BY <1>1 DEF WellFramed

\* What a locator finds carries the number of its element.
LEMMA LocatedMeans ==
  ASSUME NEW p, NEW carried, NEW e, NEW d
  PROVE  d \in Located(p, carried, e) <=>
           \E f \in Range(p) : f.id = e.frame /\ d \in Ids(f) /\ carried[d] = e.ref
  BY DEF Located

\* So it is a node of the page.
LEMMA LocatedStands ==
  ASSUME NEW p, NEW carried, NEW e, NEW d \in Located(p, carried, e)
  PROVE  d \in NodesOf(p) /\ carried[d] = e.ref
<1>1. PICK f \in Range(p) : d \in Ids(f) /\ carried[d] = e.ref
  BY LocatedMeans
<1> QED
  BY <1>1 DEF NodesOf

(***************************************************************************)
(* What the last perceive knows of its page.                               *)
(***************************************************************************)
Known(p, elements, carried) ==
  /\ IsPage(p)
  /\ ElementsOfFrames(p, Len(p), elements)
  /\ StampsOfFrames(p, Len(p), elements, carried)
  /\ OnThePage(p, carried)

\* Elements are numbered from 1, each with a number of its own.
LEMMA KnownMeans ==
  ASSUME NEW p, NEW elements, NEW carried, Known(p, elements, carried)
  PROVE  /\ DOMAIN p = 1 .. Len(p) /\ DOMAIN elements \subseteq Nat
         /\ \A e \in Range(elements) :
              e.ref \in Nat \ {0} /\ \E i \in DOMAIN p : ReadOff(p, i, e)
         /\ \A e, f \in Range(elements) : e.ref = f.ref => e = f
<1>1. DOMAIN p = 1 .. Len(p)
  BY ListMeans DEF Known, IsPage, IsList
<1>2. IsList(elements)
  BY DEF Known, ElementsOfFrames
<1>3. PICK n \in Nat : /\ n = Len(elements) /\ DOMAIN elements = 1 .. n
                       /\ Range(elements) = {elements[k] : k \in 1 .. n}
  BY <1>2, ListMeans
<1>4. \A k \in 1 .. n :
        elements[k].ref = k /\ \E i \in DOMAIN p : ReadOff(p, i, elements[k])
  BY <1>1, <1>3 DEF Known, ElementsOfFrames
<1>5. ASSUME NEW e \in Range(elements)
      PROVE  e.ref \in 1 .. n /\ e = elements[e.ref] /\ \E i \in DOMAIN p : ReadOff(p, i, e)
  BY <1>3, <1>4
<1>6. \A k \in 1 .. n : k \in Nat \ {0}
  OBVIOUS
<1> QED
  BY <1>1, <1>3, <1>5, <1>6

\* A node with the number of an element is the element's own, stamped: the
\* numbers are given to no other.
LEMMA NumbersAreOwn ==
  ASSUME NEW p, NEW elements, NEW carried, Known(p, elements, carried), OwnTrees(p),
         NEW e \in Range(elements), NEW d \in DOMAIN carried, carried[d] = e.ref
  PROVE  e.marked /\ d = e.node
<1>1. e.ref # 0
  BY KnownMeans
<1>2. d \in NodesOf(p)
  BY <1>1 DEF Known, OnThePage
<1>3. PICK i \in DOMAIN p : d \in Ids(p[i])
  BY <1>2 DEF NodesOf, Range
<1>4. i \in 1 .. Len(p)
  BY KnownMeans
<1>5. PICK f \in Range(elements) : f.marked /\ f.node = d
  BY <1>1, <1>3, <1>4 DEF Known, StampsOfFrames
<1>6. f.ref = e.ref
  BY <1>5 DEF Known, StampsOfFrames
<1> QED
  BY <1>5, <1>6, KnownMeans

\* An element is found by its number, and it alone, when its node was stamped,
\* and otherwise no node is.
LEMMA HandlesReach ==
  ASSUME NEW p, NEW elements, NEW carried, Known(p, elements, carried), OwnTrees(p),
         NodesOf(p) \subseteq DOMAIN carried, NEW e \in Range(elements)
  PROVE  Located(p, carried, e) = IF e.marked THEN {e.node} ELSE {}
<1>1. ASSUME NEW d \in Located(p, carried, e) PROVE e.marked /\ d = e.node
  <2>1. d \in NodesOf(p) /\ carried[d] = e.ref
    BY LocatedStands
  <2>2. d \in DOMAIN carried
    BY <2>1
  <2> QED
    BY <2>1, <2>2, NumbersAreOwn
<1>2. ASSUME e.marked PROVE e.node \in Located(p, carried, e)
  <2>1. PICK i \in DOMAIN p : ReadOff(p, i, e)
    BY KnownMeans
  <2>2. e.node \in Ids(p[i]) /\ p[i].id = e.frame /\ p[i] \in Range(p)
    <3>1. TreeOf(p, i) \in {0, i}
      BY DEF OwnTrees
    <3>2. e.node \in Ids(p[i])
      BY <2>1, <3>1, ReadOffStands DEF Known
    <3> QED
      BY <2>1, <3>2 DEF ReadOff, Range
  <2>3. carried[e.node] = e.ref
    BY <1>2 DEF Known, StampsOfFrames
  <2> QED
    BY <2>2, <2>3, LocatedMeans
<1> QED
  BY <1>1, <1>2

-------------------------------------------------------------------------------
(***************************************************************************)
(* What can be matched.                                                    *)
(***************************************************************************)
Rungs == {"anchor", "exact", "normalised", "contains"}

\* A match is no element, or one that has the role and the scope of the target.
IsMatch(elements, t, m) ==
  m = NoMatch \/ \E k \in Candidates(elements, t) : \E rung \in Rungs : m = Match(elements[k], rung)

\* Among candidates the recorded occurrence is a candidate.
LEMMA NthMeans ==
  ASSUME NEW elements, DOMAIN elements \subseteq Nat, NEW t,
         NEW matches \in SUBSET Candidates(elements, t), NEW rung \in Rungs
  PROVE  IsMatch(elements, t, Nth(elements, matches, t, rung))
<1> DEFINE nth == {k \in matches : Before(matches, k) = t.index}
<1>1. nth \in SUBSET Nat /\ nth \subseteq Candidates(elements, t)
  BY DEF Candidates, InScope
<1>2. Nth(elements, matches, t, rung) =
        IF nth = {} THEN NoMatch ELSE Match(elements[Min(nth)], rung)
  BY DEF Nth
<1> HIDE DEF nth
<1>3. nth # {} => Min(nth) \in nth
  BY <1>1, LeastExists
<1> QED
  BY <1>1, <1>2, <1>3 DEF IsMatch

\* An anchor leads to a candidate.
LEMMA ByAnchorMeans ==
  ASSUME NEW elements, DOMAIN elements \subseteq Nat, NEW t
  PROVE  IsMatch(elements, t, ByAnchor(elements, t))
<1> DEFINE scoped == InScope(elements, t)
           Past(label, k) == Before(scoped, k) = Before(scoped, label) + t.anchor.offset
           Values(label) == {k \in Candidates(elements, t) : Past(label, k)}
           labels == {k \in scoped : elements[k].name = t.anchor.after /\ Values(k) # {}}
<1>1. ByAnchor(elements, t) = IF t.anchor = NoAnchor \/ labels = {} THEN NoMatch
                              ELSE Match(elements[Min(Values(Min(labels)))], "anchor")
  BY DEF ByAnchor
<1>2. \A k \in labels : /\ Values(k) # {} /\ Values(k) \in SUBSET Nat
                        /\ Values(k) \subseteq Candidates(elements, t)
  BY DEF Candidates, InScope
<1>3. labels \in SUBSET Nat
  BY DEF InScope
<1> HIDE DEF labels, Values
<1>4. CASE t.anchor = NoAnchor \/ labels = {}
  BY <1>1, <1>4 DEF IsMatch
<1>5. CASE ~(t.anchor = NoAnchor \/ labels = {})
  <2>1. Min(labels) \in labels
    BY <1>3, <1>5, LeastExists
  <2>2. Min(Values(Min(labels))) \in Candidates(elements, t)
    BY <1>2, <2>1, LeastExists
  <2>3. "anchor" \in Rungs
    BY DEF Rungs
  <2> QED
    BY <1>1, <1>5, <2>2, <2>3 DEF IsMatch
<1> QED
  BY <1>4, <1>5

\* So does a name, at each of its rungs.
LEMMA ByNameMeans ==
  ASSUME NEW elements, DOMAIN elements \subseteq Nat, NEW t
  PROVE  IsMatch(elements, t, ByName(elements, t))
<1> DEFINE all == Candidates(elements, t)
           wanted == Normal[t.name]
           one == {k \in all : elements[k].name = t.name}
           two == {k \in all : Normal[elements[k].name] = wanted}
           three == {k \in all : OccursIn(wanted, Normal[elements[k].name])}
           exact == Nth(elements, one, t, "exact")
           normalised == Nth(elements, two, t, "normalised")
           contains == Nth(elements, three, t, "contains")
<1>1. ByName(elements, t) =
        IF exact # NoMatch THEN exact
        ELSE IF wanted = NoName THEN NoMatch
        ELSE IF normalised # NoMatch THEN normalised ELSE contains
  BY DEF ByName
<1>2. one \in SUBSET all /\ two \in SUBSET all /\ three \in SUBSET all
  OBVIOUS
<1>3. "exact" \in Rungs /\ "normalised" \in Rungs /\ "contains" \in Rungs
  BY DEF Rungs
<1> HIDE DEF one, two, three
<1>4. /\ IsMatch(elements, t, exact) /\ IsMatch(elements, t, normalised)
      /\ IsMatch(elements, t, contains)
  BY <1>2, <1>3, NthMeans
<1>5. IsMatch(elements, t, NoMatch)
  BY DEF IsMatch
<1> QED
  BY <1>1, <1>4, <1>5

\* Whatever the chain answers is an element of the target's role and scope, and
\* is no element only when nothing matched.
LEMMA MatchMeans ==
  ASSUME NEW p, NEW elements, NEW carried, Known(p, elements, carried), NEW t
  PROVE  LET m == MatchElement(elements, t)
         IN \/ m = NoMatch /\ m.element = NoElement /\ m.strategy = "none"
            \/ /\ m # NoMatch /\ m.strategy \in Rungs
               /\ m.element \in Range(elements) /\ m.element # NoElement
               /\ m.element.role = t.role /\ m.element.scope = t.scope
<1> DEFINE m == MatchElement(elements, t)
<1>1. DOMAIN elements \subseteq Nat
  BY KnownMeans
<1>2. IsMatch(elements, t, m)
  BY <1>1, ByAnchorMeans, ByNameMeans DEF MatchElement
<1> HIDE DEF m
<1>3. CASE m = NoMatch
  BY <1>3 DEF NoMatch, Match, m
<1>4. CASE m # NoMatch
  <2>1. PICK k \in Candidates(elements, t) : \E rung \in Rungs : m = Match(elements[k], rung)
    BY <1>2, <1>4 DEF IsMatch
  <2>2. m.element = elements[k] /\ m.strategy \in Rungs
    BY <2>1 DEF Match
  <2>3. k \in DOMAIN elements /\ elements[k].scope = t.scope /\ elements[k].role = t.role
    BY DEF Candidates, InScope
  <2>4. elements[k] \in Range(elements)
    BY <2>3 DEF Range
  <2>5. elements[k].ref # 0
    BY <2>4, KnownMeans
  <2>6. elements[k] # NoElement
    BY <2>5 DEF NoElement, NoRef
  <2> QED
    BY <1>4, <2>2, <2>3, <2>4, <2>6 DEF m
<1> QED
  BY <1>3, <1>4

-------------------------------------------------------------------------------
(***************************************************************************)
(* What is matched on the page of the recording.                           *)
(***************************************************************************)
\* A run of positions counts for its length.
LEMMA BeforeAfterRun ==
  ASSUME NEW n \in Nat, NEW S \in SUBSET (1 .. n), NEW l \in 1 .. n, NEW k \in 1 .. n,
         l <= k, l .. k - 1 \subseteq S
  PROVE  Before(S, k) = Before(S, l) + (k - l)
<1> DEFINE A == {j \in S : j < l}
           B == {j \in S : j < k}
           R == l .. k - 1
<1>1. IsFiniteSet(A) /\ Before(S, l) = Cardinality(A) /\ Before(S, k) = Cardinality(B)
  BY PositionsBefore DEF Before, NumberBefore
<1>2. B = A \cup R /\ A \cap R = {}
  <2>1. \A j \in S : j \in Nat
    OBVIOUS
  <2>2. \A j \in Nat : /\ j \in R <=> (l <= j /\ j < k)
                      /\ j < k <=> (j < l \/ (l <= j /\ j < k))
                      /\ ~(j < l /\ l <= j)
    OBVIOUS
  <2>3. R \subseteq S /\ \A x \in R : x < k
    OBVIOUS
  <2> HIDE DEF R
  <2>4. \A x \in B : x \in A \/ x \in R
    BY <2>1, <2>2
  <2>5. \A x \in A : x \in B /\ x \notin R
    BY <2>1, <2>2
  <2>6. ASSUME NEW x \in R PROVE x \in B
    <3>1. x \in S /\ x \in Nat
      BY <2>1, <2>3
    <3>2. x < k
      BY <2>3
    <3> QED
      BY <3>1, <3>2
  <2> HIDE DEF A, B
  <2> QED
    BY <2>4, <2>5, <2>6
<1>3. IsFiniteSet(R) /\ Cardinality(R) = k - l
  <2>1. IsFiniteSet(R) /\ Cardinality(R) = IF l > k - 1 THEN 0 ELSE (k - 1) - l + 1
    <3>1. l \in Int /\ k - 1 \in Int
      OBVIOUS
    <3> QED
      BY <3>1, FS_Interval
  <2> QED
    BY <2>1
<1> HIDE DEF A, B, R
<1>4. Cardinality(A \cup R) = Cardinality(A) + Cardinality(R) - Cardinality(A \cap R)
  BY <1>1, <1>3, FS_Union
<1>5. Cardinality(A \cap R) = 0
  BY <1>2, FS_EmptySet
<1>6. Cardinality(A) \in Nat
  BY <1>1, FS_CardinalityType
<1> QED
  BY <1>1, <1>2, <1>3, <1>4, <1>5, <1>6

\* One frame goes by a scope.
OneFrame(p, m, scope) ==
  \A i, j \in 1 .. m : Scope(p, i) = scope /\ Scope(p, j) = scope => i = j

\* Its elements stand together.
LEMMA ScopeIsARun ==
  ASSUME NEW p, NEW m \in Nat, NEW elements, InOrder(p, m, elements),
         NEW n \in Nat, n = Len(elements), NEW scope, OneFrame(p, m, scope),
         NEW a \in 1 .. n, NEW b \in 1 .. n, NEW c \in 1 .. n, a <= c, c <= b,
         elements[a].scope = scope, elements[b].scope = scope
  PROVE  elements[c].scope = scope
<1>1. PICK at \in [1 .. n -> 1 .. m] :
        /\ \A k \in 1 .. n : elements[k].scope = Scope(p, at[k])
        /\ \A j, k \in 1 .. n : j <= k => at[j] <= at[k]
  BY DEF InOrder
<1>2. at[a] = at[b]
  BY <1>1 DEF OneFrame
<1>3. at[a] <= at[c] /\ at[c] <= at[b]
  BY <1>1
<1>4. at[a] \in 1 .. m /\ at[b] \in 1 .. m /\ at[c] \in 1 .. m
  BY <1>1
<1>5. at[c] = at[a]
  BY <1>2, <1>3, <1>4
<1> QED
  BY <1>1, <1>5

\* An anchor is the name of an element that far before the target.
LEMMA AnchorIsBefore ==
  ASSUME NEW elements, NEW n \in Nat, NEW k \in 1 .. n, NEW t, t = TargetOf(elements, k),
         t.anchor # NoAnchor
  PROVE  /\ t.anchor.offset \in 1 .. k - 1
         /\ elements[k - t.anchor.offset].name = t.anchor.after
<1> DEFINE labels == {j \in 1 .. k - 1 : elements[j].name \notin ValueShaped \cup {NoName}}
           offset == AnchorOffset(elements, k)
<1>1. t.anchor = IF offset = 0 THEN NoAnchor
                 ELSE [after |-> elements[k - offset].name, offset |-> offset]
  BY DEF TargetOf
<1>2. offset # 0 /\ t.anchor.offset = offset /\ t.anchor.after = elements[k - offset].name
  BY <1>1
<1>3. offset = IF elements[k].name \in ValueShaped /\ labels # {} THEN k - Max(labels) ELSE 0
  BY DEF AnchorOffset
<1> HIDE DEF offset
<1>4. labels # {} /\ offset = k - Max(labels)
  BY <1>2, <1>3
<1>5. Max(labels) \in 1 .. k - 1
  <2>1. labels \in SUBSET (1 .. k - 1) /\ k - 1 \in Nat
    OBVIOUS
  <2> HIDE DEF labels
  <2>2. Max(labels) \in labels
    BY <1>4, <2>1, GreatestExists
  <2> QED
    BY <2>1, <2>2
<1> HIDE DEF labels
<1>6. offset \in 1 .. k - 1
  BY <1>4, <1>5
<1> QED
  BY <1>2, <1>6

\* The target leads to the k-th element.
LeadsTo(elements, t, k) == MatchElement(elements, t).element = elements[k]

\* Without an anchor the recorded element is the recorded occurrence of its
\* name.
LEMMA FoundByName ==
  ASSUME NEW elements, NEW n \in Nat, DOMAIN elements = 1 .. n, NEW k \in 1 .. n,
         NEW t, t = TargetOf(elements, k), t.anchor = NoAnchor
  PROVE  LeadsTo(elements, t, k)
<1> DEFINE one == {j \in Candidates(elements, t) : elements[j].name = t.name}
           exact == Nth(elements, one, t, "exact")
           sib == Siblings(elements, elements[k])
<1>1. /\ t.role = elements[k].role /\ t.name = elements[k].name
      /\ t.scope = elements[k].scope /\ t.index = Before(sib, k)
  BY DEF TargetOf
<1>2. one = {j \in 1 .. n : /\ elements[j].scope = elements[k].scope
                            /\ elements[j].role = elements[k].role
                            /\ elements[j].name = elements[k].name}
  BY <1>1 DEF Candidates, InScope
<1>3. sib = one
  BY <1>2 DEF Siblings, Alike
<1>4. one \in SUBSET (1 .. n) /\ k \in one
  BY <1>2
<1> HIDE DEF one, sib
<1>5. {j \in one : Before(one, j) = t.index} = {k}
  <2>1. t.index = Before(one, k)
    BY <1>1, <1>3
  <2>2. \A j \in one : Before(one, j) = Before(one, k) => j = k
    BY <1>4, OccurrenceIsOne DEF Before, NumberBefore
  <2> QED
    BY <1>4, <2>1, <2>2
<1>6. exact = Match(elements[k], "exact")
  <2>1. Min({k}) = k /\ {k} # {}
    BY MinOfOne
  <2> QED
    BY <1>5, <2>1 DEF Nth
<1>7. exact # NoMatch /\ exact.element = elements[k]
  BY <1>6 DEF Match, NoMatch
<1> HIDE DEF exact
<1>8. ByName(elements, t) = exact
  BY <1>7 DEF ByName, exact, one
<1>9. ByAnchor(elements, t) = NoMatch
  BY DEF ByAnchor
<1> QED
  BY <1>7, <1>8, <1>9 DEF MatchElement, LeadsTo

\* The name of a target's anchor stands once in its scope, `offset` before the
\* k-th element.
StandsOnce(elements, t, k) ==
  {j \in InScope(elements, t) : elements[j].name = t.anchor.after} = {k - t.anchor.offset}

\* The k-th element of a page has been described by an anchor that stands once,
\* with it, in a scope by which one frame goes.
Anchored(p, m, elements, n, k, t) ==
  /\ m \in Nat /\ InOrder(p, m, elements) /\ OneFrame(p, m, t.scope)
  /\ n \in Nat /\ n = Len(elements) /\ DOMAIN elements = 1 .. n /\ k \in 1 .. n
  /\ t = TargetOf(elements, k) /\ t.anchor # NoAnchor /\ StandsOnce(elements, t, k)

\* Then the recorded element is found by it.
LEMMA FoundByAnchor ==
  ASSUME NEW p, NEW m, NEW elements, NEW n, NEW k, NEW t, Anchored(p, m, elements, n, k, t)
  PROVE  LeadsTo(elements, t, k)
<1> DEFINE offset == t.anchor.offset
           l == k - offset
           scoped == InScope(elements, t)
           Past(label, j) == Before(scoped, j) = Before(scoped, label) + t.anchor.offset
           Values(label) == {j \in Candidates(elements, t) : Past(label, j)}
           labels == {j \in scoped : elements[j].name = t.anchor.after /\ Values(j) # {}}
<1> USE DEF Anchored
<1>1. offset \in 1 .. k - 1
  BY AnchorIsBefore
<1>2. l \in 1 .. n /\ l <= k /\ k - l = offset
  BY <1>1
<1>3. t.scope = elements[k].scope /\ t.role = elements[k].role
  BY DEF TargetOf
<1>4. l \in scoped /\ scoped = {j \in 1 .. n : elements[j].scope = t.scope}
  BY DEF InScope, StandsOnce
<1>5. scoped \in SUBSET (1 .. n) /\ k \in scoped
  BY <1>3, <1>4
<1> HIDE DEF scoped, l
<1>6. l .. k - 1 \subseteq scoped
  <2> SUFFICES ASSUME NEW c \in l .. k - 1 PROVE elements[c].scope = t.scope /\ c \in 1 .. n
    BY <1>4
  <2>1. c \in 1 .. n /\ l <= c /\ c <= k
    BY <1>2
  <2>2. elements[l].scope = t.scope /\ elements[k].scope = t.scope
    BY <1>3, <1>4
  <2> QED
    BY <1>2, <2>1, <2>2, ScopeIsARun
<1>7. Before(scoped, k) = Before(scoped, l) + offset
  <2>1. Before(scoped, k) = Before(scoped, l) + (k - l)
    BY <1>2, <1>5, <1>6, BeforeAfterRun
  <2> QED
    BY <1>2, <2>1
<1>8. Values(l) = {k}
  <2>1. k \in Candidates(elements, t) /\ Candidates(elements, t) \subseteq scoped
    BY <1>3, <1>5 DEF Candidates, scoped
  <2>2. \A j \in scoped : Before(scoped, j) = Before(scoped, k) => j = k
    BY <1>5, OccurrenceIsOne DEF Before, NumberBefore
  <2> QED
    BY <1>7, <2>1, <2>2
<1>9. labels = {l}
  <2>1. {j \in scoped : elements[j].name = t.anchor.after} = {l}
    BY DEF scoped, l, StandsOnce
  <2> HIDE DEF Values
  <2> QED
    BY <1>8, <2>1
<1>10. ByAnchor(elements, t) = IF t.anchor = NoAnchor \/ labels = {} THEN NoMatch
                               ELSE Match(elements[Min(Values(Min(labels)))], "anchor")
  BY DEF ByAnchor, scoped
<1> HIDE DEF labels, Values
<1>11. Min(labels) = l /\ Min(Values(l)) = k
  <2>1. l \in Nat /\ k \in Nat
    BY <1>2
  <2>2. Min({l}) = l /\ Min({k}) = k
    BY <2>1, MinOfOne
  <2> QED
    BY <1>8, <1>9, <2>2
<1>12. ByAnchor(elements, t) = Match(elements[k], "anchor")
  BY <1>9, <1>10, <1>11
<1> QED
  BY <1>12 DEF MatchElement, Match, NoMatch, LeadsTo

-------------------------------------------------------------------------------
(***************************************************************************)
(* The inductive invariant.                                                *)
(***************************************************************************)
\* The numbers in the page in the browser are on its own nodes; the page of a
\* recording, and then of a new browser, has none.
StampsInv ==
  /\ stamps \in [Places -> Nat]
  /\ OnThePage(page, stamps)
  /\ phase = "record" => stamps = Unstamped

\* What was seen is known of the page it was seen on, and a good report means
\* that every child frame of it has a tree.
SeenInv ==
  /\ seen.stamps \in [Places -> Nat]
  /\ Known(seen.on, seen.elements, seen.stamps)
  /\ seen.ok => \A i \in DOMAIN seen.on : i # 1 => TreeOf(seen.on, i) # 0

\* From the match to the action a page only loses numbers, and nothing is hit
\* before the action.
ActingInv ==
  /\ phase = "act" => \A d \in Places : stamps[d] # 0 => stamps[d] = seen.stamps[d]
  /\ phase # "acted" => hit = {}

\* The target is of the kind of the element recorded.
SpecInv == spec.role = recorded.element.role /\ spec.scope = recorded.element.scope

\* The element matched is of the kind of the target, and none is before a look.
FoundInv ==
  /\ found # NoElement => found.role = spec.role /\ found.scope = spec.scope
  /\ phase = "record" => found = NoElement

\* What a page has for elements, whatever numbers it carries.
Snapshot(p) == Perceived(p, Unstamped).elements

\* The target was described on the snapshot of the recording.
RecordedInv ==
  phase # "record" =>
    /\ recorded.on \in Pages
    /\ recorded.element.ref \in DOMAIN Snapshot(recorded.on)
    /\ recorded.element = Snapshot(recorded.on)[recorded.element.ref]
    /\ spec = TargetOf(Snapshot(recorded.on), recorded.element.ref)

\* What was matched is what the chain answers on the snapshot of the last look.
MatchedInv ==
  phase \notin {"record", "first look"} =>
    /\ seen.elements = Snapshot(seen.on)
    /\ found = MatchElement(Snapshot(seen.on), spec).element

IInv ==
  /\ TypeOK
  /\ StampsInv
  /\ SeenInv
  /\ ActingInv
  /\ SpecInv
  /\ FoundInv
  /\ RecordedInv
  /\ MatchedInv
  /\ LandsWhereItLooked

-------------------------------------------------------------------------------
(***************************************************************************)
(* Init and the actions.                                                   *)
(***************************************************************************)
\* A page without numbers.
LEMMA UnstampedMeans ==
  /\ Unstamped \in [Places -> Nat]
  /\ \A p : OnThePage(p, Unstamped)
<1>1. Unstamped \in [Places -> Nat] /\ \A d \in Places : Unstamped[d] = 0
  BY DEF Unstamped, Places, NoRef
<1>2. DOMAIN Unstamped = Places
  BY DEF Places
<1> QED
  BY <1>1, <1>2 DEF OnThePage

\* Before a look there is nothing to know.
LEMMA NothingSeenMeans ==
  /\ NothingSeen.elements = <<>> /\ NothingSeen.on = <<>> /\ ~NothingSeen.ok
  /\ NothingSeen.stamps = Unstamped
  /\ Known(<<>>, <<>>, Unstamped) /\ Range(<<>>) = {}
<1>1. <<>> \in Seq({}) /\ Len(<<>>) = 0 /\ Range(<<>>) = {} /\ DOMAIN <<>> = {}
  BY EmptySeq DEF Range
<1>2. IsPage(<<>>)
  BY <1>1 DEF IsPage
<1>3. ElementsOfFrames(<<>>, 0, <<>>)
  BY <1>1 DEF ElementsOfFrames, IsList
<1>4. StampsOfFrames(<<>>, 0, <<>>, Unstamped)
  BY <1>1 DEF StampsOfFrames
<1> QED
  BY <1>1, <1>2, <1>3, <1>4, UnstampedMeans DEF NothingSeen, Known

LEMMA InitEstablishesIt == Init => IInv
<1> SUFFICES ASSUME Init PROVE IInv
  OBVIOUS
<1> USE DEF Init
<1>1. StampsInv
  BY UnstampedMeans DEF StampsInv
<1>2. TypeOK
  BY UnstampedMeans DEF TypeOK, Places
<1>3. SeenInv
  BY NothingSeenMeans, UnstampedMeans DEF SeenInv
<1>4. SpecInv /\ FoundInv
  BY DEF SpecInv, FoundInv, NoElement
<1> QED
  BY <1>1, <1>2, <1>3, <1>4 DEF IInv, ActingInv, RecordedInv, MatchedInv, LandsWhereItLooked

\* What a pass over the page in the browser makes known of it.
LEMMA LookMeans ==
  ASSUME page \in Pages, stamps \in [Places -> Nat], OnThePage(page, stamps),
         NEW now, now = Perceived(page, stamps)
  PROVE  /\ now.stamps \in [Places -> Nat]
         /\ Known(page, now.elements, now.stamps)
         /\ now.empty = {} => \A i \in DOMAIN page : i # 1 => TreeOf(page, i) # 0
<1>1. IsPage(page) /\ NodesOf(page) \subseteq Places
  BY PagesMean
<1>2. SeenOf(page, Len(page), Places, now)
  BY <1>1, PerceiveReturns
<1>3. DOMAIN page = 1 .. Len(page)
  BY <1>1, ListMeans DEF IsPage, IsList
<1> QED
  BY <1>1, <1>2, <1>3 DEF SeenOf, Known

\* A snapshot of a page of the application: its elements are numbered by their
\* places and come frame by frame.
LEMMA SnapshotMeans ==
  ASSUME NEW p \in Pages, NEW n, n = Len(Snapshot(p))
  PROVE  /\ n \in Nat /\ DOMAIN Snapshot(p) = 1 .. n
         /\ \A k \in 1 .. n : Snapshot(p)[k].ref = k
         /\ InOrder(p, Len(p), Snapshot(p))
         /\ Len(p) \in Nat /\ DOMAIN p = 1 .. Len(p)
<1>1. IsPage(p) /\ NodesOf(p) \subseteq Places
  BY PagesMean
<1>2. Unstamped \in [Places -> Nat] /\ OnThePage(p, Unstamped)
  BY UnstampedMeans
<1>3. /\ SeenOf(p, Len(p), Places, Perceived(p, Unstamped))
      /\ InOrder(p, Len(p), Perceived(p, Unstamped).elements)
  BY <1>1, <1>2, PerceiveReturns
<1>4. ElementsOfFrames(p, Len(p), Snapshot(p))
  BY <1>3 DEF SeenOf, Snapshot
<1>5. IsList(Snapshot(p)) /\ \A k \in 1 .. Len(Snapshot(p)) : Snapshot(p)[k].ref = k
  BY <1>4 DEF ElementsOfFrames
<1>6. InOrder(p, Len(p), Snapshot(p))
  BY <1>3 DEF Snapshot
<1>7. n \in Nat /\ DOMAIN Snapshot(p) = 1 .. n
  BY <1>5, ListMeans
<1>8. Len(p) \in Nat /\ DOMAIN p = 1 .. Len(p)
  BY <1>1, ListMeans DEF IsPage, IsList
<1> QED
  BY <1>5, <1>6, <1>7, <1>8

\* On its own snapshot a target leads to the element it was described from.
LEMMA FoundOnItsPage ==
  ASSUME NEW p \in Pages, NEW k \in DOMAIN Snapshot(p),
         NEW t, t = TargetOf(Snapshot(p), k),
         \/ t.anchor = NoAnchor
         \/ /\ StandsOnce(Snapshot(p), t, k)
            /\ \A i, j \in DOMAIN p : Scope(p, i) = t.scope /\ Scope(p, j) = t.scope => i = j
  PROVE  LeadsTo(Snapshot(p), t, k)
<1>1. PICK elements, n, m : elements = Snapshot(p) /\ n = Len(elements) /\ m = Len(p)
  OBVIOUS
<1>2. /\ n \in Nat /\ DOMAIN elements = 1 .. n /\ InOrder(p, m, elements)
      /\ m \in Nat /\ DOMAIN p = 1 .. m
  BY <1>1, SnapshotMeans
<1>3. k \in 1 .. n /\ t = TargetOf(elements, k)
  BY <1>1, <1>2
<1>4. CASE t.anchor = NoAnchor
  <2>1. LeadsTo(elements, t, k)
    BY <1>2, <1>3, <1>4, FoundByName
  <2> QED
    BY <1>1, <2>1
<1>5. CASE t.anchor # NoAnchor
  <2>1. StandsOnce(elements, t, k) /\ OneFrame(p, m, t.scope)
    BY <1>1, <1>2, <1>5 DEF OneFrame
  <2>2. Anchored(p, m, elements, n, k, t)
    BY <1>1, <1>2, <1>3, <1>5, <2>1 DEF Anchored
  <2>3. LeadsTo(elements, t, k)
    BY <2>2, FoundByAnchor
  <2> QED
    BY <1>1, <2>3
<1> QED
  BY <1>4, <1>5

\* Recording a target leaves a page without numbers.
LEMMA RecordKeepsIt == IInv /\ Record => IInv'
<1> SUFFICES ASSUME IInv, Record PROVE IInv'
  OBVIOUS
<1>1. /\ phase = "record" /\ phase' = "first look" /\ page' \in Pages
      /\ stamps' = stamps /\ seen' = seen /\ found' = found /\ strategy' = strategy
      /\ hit' = hit
  BY DEF Record
<1> DEFINE snapshot == Perceived(page, stamps).elements
<1>2. PICK k \in DOMAIN snapshot : /\ recorded' = [on |-> page, element |-> snapshot[k]]
                                  /\ spec' = TargetOf(snapshot, k)
  BY DEF Record
<1> HIDE DEF snapshot
<1>3. stamps = Unstamped /\ found = NoElement
  BY <1>1 DEF IInv, StampsInv, FoundInv
<1>4. StampsInv'
  BY <1>1, <1>3, UnstampedMeans DEF StampsInv
<1>5. SpecInv'
  BY <1>2 DEF SpecInv, TargetOf
<1>6. FoundInv'
  BY <1>1, <1>3 DEF FoundInv
<1>7. SeenInv'
  BY <1>1 DEF IInv, SeenInv
<1>8. ActingInv' /\ hit' = {}
  BY <1>1 DEF IInv, ActingInv
<1>9. TypeOK'
  BY <1>1, <1>8 DEF IInv, TypeOK
<1>10. RecordedInv'
  <2>1. page \in Pages
    BY DEF IInv, TypeOK
  <2>2. snapshot = Snapshot(page)
    BY <1>3 DEF snapshot, Snapshot
  <2>3. snapshot[k].ref = k
    <3>1. PICK n : n = Len(Snapshot(page))
      OBVIOUS
    <3>2. k \in 1 .. n
      BY <2>1, <2>2, <3>1, SnapshotMeans
    <3> QED
      BY <2>1, <2>2, <3>1, <3>2, SnapshotMeans
  <2>4. recorded'.on = page /\ recorded'.element = snapshot[k] /\ recorded'.element.ref = k
    BY <1>2, <2>3
  <2> QED
    BY <1>2, <2>1, <2>2, <2>4 DEF RecordedInv
<1>11. MatchedInv'
  BY <1>1 DEF MatchedInv
<1> QED
  BY <1>1, <1>4, <1>5, <1>6, <1>7, <1>8, <1>9, <1>10, <1>11 DEF IInv, LandsWhereItLooked

\* A page that changes keeps numbers on nodes that stay, and gets none.
LEMMA PageChangesKeepsIt == IInv /\ PageChanges => IInv'
<1> SUFFICES ASSUME IInv, PageChanges PROVE IInv'
  OBVIOUS
<1>1. /\ phase \in {"first look", "second look", "act"} /\ phase' = phase
      /\ page' \in Pages /\ seen' = seen /\ found' = found /\ strategy' = strategy
      /\ hit' = hit /\ recorded' = recorded /\ spec' = spec
  BY DEF PageChanges
<1>2. PICK stay \in {{}, NodesOf(page) \cap NodesOf(page')} :
        stamps' = [d \in DOMAIN stamps |-> IF d \in stay THEN stamps[d] ELSE NoRef]
  BY DEF PageChanges
<1>3. stamps \in [Places -> Nat]
  BY DEF IInv, StampsInv
<1>4. /\ stamps' \in [Places -> Nat]
      /\ \A d \in Places : stamps'[d] # 0 => stamps'[d] = stamps[d] /\ d \in NodesOf(page')
  BY <1>2, <1>3 DEF NoRef
<1>5. StampsInv'
  BY <1>1, <1>4 DEF StampsInv, OnThePage
<1>6. ActingInv' /\ hit' = {}
  BY <1>1, <1>4 DEF IInv, ActingInv
<1>7. TypeOK'
  BY <1>1, <1>4, <1>6 DEF IInv, TypeOK, Places
<1>8. SeenInv'
  BY <1>1 DEF IInv, SeenInv
<1>9. SpecInv' /\ FoundInv' /\ RecordedInv' /\ MatchedInv'
  BY <1>1 DEF IInv, SpecInv, FoundInv, RecordedInv, MatchedInv
<1> QED
  BY <1>1, <1>5, <1>6, <1>7, <1>8, <1>9 DEF IInv, LandsWhereItLooked

\* A look knows its page anew, and matches what is of the target's kind.
LEMMA LookKeepsIt == IInv /\ Look => IInv'
<1> SUFFICES ASSUME IInv, Look PROVE IInv'
  OBVIOUS
<1> DEFINE now == Perceived(page, stamps)
           match == MatchElement(now.elements, spec)
<1>1. /\ phase \in {"first look", "second look"}
      /\ stamps' = now.stamps
      /\ seen' = [elements |-> now.elements, ok |-> CoverageOk(now), on |-> page,
                  stamps |-> now.stamps]
      /\ found' = match.element /\ strategy' = match.strategy
      /\ phase' = IF match # NoMatch THEN "act"
                  ELSE IF phase = "first look" THEN "second look" ELSE "failed"
      /\ page' = page /\ recorded' = recorded /\ spec' = spec /\ hit' = hit
  BY DEF Look
<1>2. seen'.elements = now.elements /\ seen'.on = page /\ seen'.stamps = now.stamps
      /\ seen'.ok = CoverageOk(now)
  BY <1>1
<1>3. page \in Pages /\ stamps \in [Places -> Nat] /\ OnThePage(page, stamps)
  BY DEF IInv, TypeOK, StampsInv
<1>4. /\ now.stamps \in [Places -> Nat]
      /\ Known(page, now.elements, now.stamps)
      /\ now.empty = {} => \A i \in DOMAIN page : i # 1 => TreeOf(page, i) # 0
  BY <1>3, LookMeans
<1>5. \/ match = NoMatch /\ match.element = NoElement /\ match.strategy = "none"
      \/ /\ match # NoMatch /\ match.strategy \in Rungs
         /\ match.element \in Range(now.elements) /\ match.element # NoElement
         /\ match.element.role = spec.role /\ match.element.scope = spec.scope
  BY <1>4, MatchMeans
<1>6. CoverageOk(now) => now.empty = {}
  BY DEF CoverageOk
<1> HIDE DEF now, match
<1>7. phase' \in {"act", "second look", "failed"}
  BY <1>1
<1>8. SeenInv'
  BY <1>2, <1>4, <1>6 DEF SeenInv
<1>9. StampsInv'
  BY <1>1, <1>4, <1>7 DEF StampsInv, Known
<1>10. ActingInv'
  BY <1>1, <1>2, <1>7 DEF IInv, ActingInv
<1>11. SpecInv'
  BY <1>1 DEF IInv, SpecInv
<1>12. FoundInv'
  BY <1>1, <1>5, <1>7 DEF FoundInv
<1>13. TypeOK'
  <2>1. stamps' \in [DOMAIN Unstamped -> Nat]
    BY <1>1, <1>4 DEF Places
  <2>2. found' \in Range(seen'.elements) \cup {NoElement}
    BY <1>1, <1>2, <1>5
  <2>3. (found' = NoElement <=> strategy' = "none")
        /\ strategy' \in {"anchor", "exact", "normalised", "contains", "none"}
    BY <1>1, <1>5 DEF Rungs
  <2>4. hit' \subseteq NodesOf(page') /\ page' \in Pages
    BY <1>1, <1>3 DEF IInv, TypeOK
  <2> QED
    BY <1>7, <2>1, <2>2, <2>3, <2>4 DEF TypeOK
<1>14. RecordedInv'
  BY <1>1 DEF IInv, RecordedInv
<1>15. MatchedInv'
  <2>1. now.elements = Snapshot(page)
    BY <1>3, PagesMean, PassesSeeTheSame DEF now, Snapshot
  <2> QED
    BY <1>1, <1>2, <2>1 DEF MatchedInv, match
<1> QED
  BY <1>7, <1>8, <1>9, <1>10, <1>11, <1>12, <1>13, <1>14, <1>15 DEF IInv, LandsWhereItLooked

\* An action lands on the node that was matched, or on none.
LEMMA ActKeepsIt == IInv /\ Act => IInv'
<1> SUFFICES ASSUME IInv, Act PROVE IInv'
  OBVIOUS
<1>1. /\ phase = "act" /\ phase' = "acted"
      /\ hit' = IF found.handle THEN Landing(page, stamps, found) ELSE {}
      /\ page' = page /\ stamps' = stamps /\ recorded' = recorded /\ spec' = spec
      /\ seen' = seen /\ found' = found /\ strategy' = strategy
  BY DEF Act
<1>2. hit' \subseteq Located(page, stamps, found)
  BY <1>1 DEF Landing
<1>3. /\ stamps \in [Places -> Nat] /\ seen.stamps \in [Places -> Nat]
      /\ page \in Pages /\ NodesOf(page) \subseteq Places
      /\ Known(seen.on, seen.elements, seen.stamps)
  BY PagesMean DEF IInv, TypeOK, StampsInv, SeenInv
<1>4. LandsWhereItLooked'
  <2> SUFFICES ASSUME WellFramed(seen.on), NEW d \in hit' PROVE d = found.node
    BY <1>1 DEF LandsWhereItLooked
  <2>0. found.handle
    BY <1>1
  <2>1. d \in Places /\ stamps[d] = found.ref
    BY <1>2, <1>3, LocatedStands
  <2>2. OwnTrees(seen.on)
    BY <1>3, WellFramedMeans DEF Known
  <2>3. found \in Range(seen.elements)
    <3>1. found # NoElement
      BY <1>1, <2>0 DEF NoElement
    <3> QED
      BY <3>1 DEF IInv, TypeOK
  <2>4. found.ref # 0
    BY <1>3, <2>3, KnownMeans
  <2>5. seen.stamps[d] = found.ref
    BY <1>1, <2>1, <2>4 DEF IInv, ActingInv
  <2> QED
    BY <1>3, <2>1, <2>2, <2>3, <2>5, NumbersAreOwn
<1>5. TypeOK'
  <2>1. hit' \subseteq NodesOf(page)
    BY <1>2, LocatedStands
  <2> QED
    BY <1>1, <2>1 DEF IInv, TypeOK
<1>6. StampsInv'
  BY <1>1 DEF IInv, StampsInv
<1>7. SeenInv'
  BY <1>1 DEF IInv, SeenInv
<1>8. ActingInv' /\ SpecInv' /\ FoundInv' /\ RecordedInv' /\ MatchedInv'
  BY <1>1 DEF IInv, ActingInv, SpecInv, FoundInv, RecordedInv, MatchedInv
<1> QED
  BY <1>4, <1>5, <1>6, <1>7, <1>8 DEF IInv

\* Every step preserves the invariant.
LEMMA StepKeepsIt == IInv /\ [Next]_vars => IInv'
<1> SUFFICES ASSUME IInv, [Next]_vars PROVE IInv'
  OBVIOUS
<1>1. CASE Record
  BY <1>1, RecordKeepsIt
<1>2. CASE PageChanges
  BY <1>2, PageChangesKeepsIt
<1>3. CASE Look
  BY <1>3, LookKeepsIt
<1>4. CASE Act
  BY <1>4, ActKeepsIt
<1>5. CASE UNCHANGED vars
  <2>1. /\ page' = page /\ stamps' = stamps /\ phase' = phase /\ recorded' = recorded
        /\ spec' = spec /\ seen' = seen /\ found' = found /\ strategy' = strategy
        /\ hit' = hit
    BY <1>5 DEF vars
  <2>2. TypeOK' /\ StampsInv' /\ LandsWhereItLooked'
    BY <2>1 DEF IInv, TypeOK, StampsInv, LandsWhereItLooked
  <2>3. /\ SeenInv' /\ ActingInv' /\ SpecInv' /\ FoundInv'
        /\ RecordedInv' /\ MatchedInv'
    BY <2>1 DEF IInv, SeenInv, ActingInv, SpecInv, FoundInv, RecordedInv, MatchedInv
  <2> QED
    BY <2>2, <2>3 DEF IInv
<1> QED
  BY <1>1, <1>2, <1>3, <1>4, <1>5 DEF Next, Terminated

-------------------------------------------------------------------------------
(***************************************************************************)
(* Theorems.                                                               *)
(***************************************************************************)
\* The invariant holds in every behaviour.
THEOREM InductiveInvariant == Spec => []IInv
<1> QED
  BY InitEstablishesIt, StepKeepsIt, PTL DEF Spec

\* Every variable has its type: in particular a strategy is reported exactly
\* when an element was matched, and what is matched and hit was seen.
THEOREM TypeCorrect == Spec => []TypeOK
<1>1. IInv => TypeOK
  BY DEF IInv
<1> QED
  BY <1>1, InductiveInvariant, PTL

\* As long as the page is as perceive left it the locator of an element with a
\* handle finds its node, and it alone, or nothing where the node could not be
\* stamped, whatever numbers earlier passes left.
THEOREM HandlesReachTheirs == Spec => []HandlesReachTheirOwn
<1>1. IInv => HandlesReachTheirOwn
  <2> SUFFICES ASSUME IInv, page = seen.on, stamps = seen.stamps, WellFramed(page),
                      NEW e \in Range(seen.elements)
               PROVE  Located(page, stamps, e) = IF e.marked THEN {e.node} ELSE {}
    BY DEF HandlesReachTheirOwn
  <2>1. page \in Pages /\ Known(page, seen.elements, stamps) /\ DOMAIN stamps = Places
    BY DEF IInv, TypeOK, SeenInv, StampsInv
  <2>2. IsPage(page) /\ NodesOf(page) \subseteq Places
    BY <2>1, PagesMean
  <2>3. OwnTrees(page)
    BY <2>2, WellFramedMeans
  <2> QED
    BY <2>1, <2>2, <2>3, HandlesReach
<1> QED
  BY <1>1, InductiveInvariant, PTL

\* However the page changes between the look and the action, and from whatever
\* other page, the action lands on the node that was matched or on none.
THEOREM LandsThereOrNowhere == Spec => []LandsWhereItLooked
<1>1. IInv => LandsWhereItLooked
  BY DEF IInv
<1> QED
  BY <1>1, InductiveInvariant, PTL

\* What is matched, at whatever rung, has the recorded role and stands in a
\* frame of the recorded scope.
THEOREM KindIsKept == Spec => []KindIsNeverRelaxed
<1>1. IInv => KindIsNeverRelaxed
  <2> SUFFICES ASSUME IInv, found # NoElement, WellFramed(seen.on)
               PROVE  /\ found.role = recorded.element.role
                      /\ \E i \in DOMAIN seen.on :
                           /\ found.node \in Ids(seen.on[i])
                           /\ Scope(seen.on, i) = recorded.element.scope
    BY DEF KindIsNeverRelaxed
  <2>1. found.role = recorded.element.role /\ found.scope = recorded.element.scope
    BY DEF IInv, FoundInv, SpecInv
  <2>2. found \in Range(seen.elements) /\ Known(seen.on, seen.elements, seen.stamps)
    BY DEF IInv, TypeOK, SeenInv
  <2>3. IsPage(seen.on) /\ OwnTrees(seen.on)
    BY <2>2, WellFramedMeans DEF Known
  <2>4. PICK i \in DOMAIN seen.on : ReadOff(seen.on, i, found)
    BY <2>2, KnownMeans
  <2>5. found.node \in Ids(seen.on[i])
    BY <2>3, <2>4, ReadOffStands DEF OwnTrees
  <2>6. found.scope = Scope(seen.on, i)
    BY <2>4 DEF ReadOff
  <2> QED
    BY <2>1, <2>5, <2>6
<1> QED
  BY <1>1, InductiveInvariant, PTL

\* A good coverage report means that every control the page shows, and the
\* document has a node for, is an element: of each child frame, and of the main
\* one when its tree could be read.
THEOREM GoodReportIsComplete == Spec => []MissingIsReported
<1>1. IInv => MissingIsReported
  <2> SUFFICES ASSUME IInv, seen.ok, WellFramed(seen.on), NEW i \in DOMAIN seen.on,
                      i # 1 \/ seen.on[i].answers,
                      NEW n \in Range(seen.on[i].nodes), n.shown, Addressable(n)
               PROVE  \E e \in Range(seen.elements) : e.node = n.id
    BY DEF MissingIsReported
  <2>1. Known(seen.on, seen.elements, seen.stamps)
    BY DEF IInv, SeenInv
  <2>2. IsPage(seen.on)
    BY <2>1 DEF Known
  <2>3. TreeOf(seen.on, i) = i
    <3>1. CASE i = 1
      BY <2>2, <3>1, TreeIsAFrame
    <3>2. CASE i # 1
      <4>1. OwnTrees(seen.on)
        BY <2>2, WellFramedMeans
      <4>2. TreeOf(seen.on, i) # 0
        BY <3>2 DEF IInv, SeenInv
      <4> QED
        BY <4>1, <4>2 DEF OwnTrees
    <3> QED
      BY <3>1, <3>2
  <2>4. AllShown(seen.on, i, seen.elements)
    <3>1. i \in 1 .. Len(seen.on)
      BY <2>1, KnownMeans
    <3> QED
      BY <2>1, <3>1 DEF Known, ElementsOfFrames
  <2>5. i # 0
    BY <2>2, TreeIsAFrame
  <2> QED
    BY <2>3, <2>4, <2>5 DEF AllShown
<1> QED
  BY <1>1, InductiveInvariant, PTL

\* On the page it was recorded on a target is found again, and is the element
\* recorded, whatever others share its role and name and whatever numbers the
\* page carries: by its occurrence, or by an anchor that stands once.
THEOREM FoundOnceMore == Spec => []FoundAgain
<1>1. IInv => FoundAgain
  <2> SUFFICES ASSUME IInv, phase \notin {"record", "first look"}, seen.on = recorded.on,
                      Unambiguous
               PROVE  found = recorded.element
    BY DEF FoundAgain
  <2>1. /\ recorded.on \in Pages
        /\ recorded.element.ref \in DOMAIN Snapshot(recorded.on)
        /\ recorded.element = Snapshot(recorded.on)[recorded.element.ref]
        /\ spec = TargetOf(Snapshot(recorded.on), recorded.element.ref)
        /\ found = MatchElement(Snapshot(recorded.on), spec).element
    BY DEF IInv, RecordedInv, MatchedInv
  <2>2. \/ spec.anchor = NoAnchor
        \/ /\ StandsOnce(Snapshot(recorded.on), spec, recorded.element.ref)
           /\ \A i, j \in DOMAIN recorded.on :
                Scope(recorded.on, i) = spec.scope /\ Scope(recorded.on, j) = spec.scope => i = j
    BY DEF Unambiguous, Snapshot, StandsOnce
  <2>3. LeadsTo(Snapshot(recorded.on), spec, recorded.element.ref)
    BY <2>1, <2>2, FoundOnItsPage
  <2> QED
    BY <2>1, <2>3 DEF LeadsTo
<1> QED
  BY <1>1, InductiveInvariant, PTL
================================================================================

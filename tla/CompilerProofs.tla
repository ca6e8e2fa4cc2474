---------------------------- MODULE CompilerProofs ----------------------------
(***************************************************************************)
(* Proofs about Compiler and Generalize, for any application, any plans    *)
(* and recordings of any length, however their capability is labelled.     *)
(*                                                                         *)
(* A capability that types its parameter has a checkpoint that names it    *)
(* (CapabilityInv): because such a value comes from a kept attempt, so     *)
(* that the compiler takes the recording to have a parameter, and then     *)
(* binds the checkpoint or refuses; and because no label takes the         *)
(* parameter out again.  What a success says of the page is the rest.      *)
(*                                                                         *)
(* Two more invariants, each resting on the one before it, are about       *)
(* applications whose pages are the same for every member but for figures  *)
(* and URLs: FollowInv has the replay go from page to page where the       *)
(* recording went, and ClaimedInv has it find there what it claims.        *)
(***************************************************************************)
EXTENDS Generalize, ListLemmas

(***************************************************************************)
(* The inductive invariant, in named parts.                                *)
(***************************************************************************)
AttemptOK(a) ==
  /\ a.intent.plan \in Plans
  /\ a.before \in Pages
  /\ ~IsDone(a) => a.intent.ref \in DOMAIN a.before.elements

\* A recording consists of plans for pages, and is compiled once a `done` ran.
TraceInv ==
  /\ page \in Pages
  /\ IsList(trace)
  /\ \A a \in Range(trace) : AttemptOK(a)
  /\ stage = "retry" => trace # <<>>
  /\ phase = "compile" => \E a \in Range(trace) : a.ran /\ IsDone(a)

StepOK(s) ==
  /\ s = [action |-> s.action, target |-> s.target, value |-> s.value, claim |-> s.claim]
  /\ s.value \in Values \cup {PARAM}
  /\ s.action \in {"click", "type"} => s.target # NoTarget

Takes(steps) == \E s \in Range(steps) : s.value = PARAM

\* A claim that says which member the page is about, once it is bound.
Names(c) == IsClaim(c) /\ c.of = PARAM /\ c.check \in {"text", "field", "url"}

CapabilityInv ==
  phase \in {"compiled", "labelled", "replay"} =>
    /\ IsList(capability.steps)
    /\ \A s \in Range(capability.steps) : StepOK(s)
    /\ Takes(capability.steps) => Names(capability.checkpoint)

\* A replay is for some member, and the behaviour ends with its success.
RunInv ==
  /\ phase = "replay" => member \in Members
  /\ at \in Nat
  /\ result = "success" => phase = "ended"

IInv ==
  /\ TraceInv
  /\ CapabilityInv
  /\ RunInv
  /\ RecordsAreTheirs => RightRecord

-------------------------------------------------------------------------------
(***************************************************************************)
(* Pages and plans.                                                        *)
(***************************************************************************)
\* A page has a list of elements, and none of them carries the template.
LEMMA PageMeans ==
  ASSUME NEW p \in Pages
  PROVE  /\ IsList(p.elements)
         /\ p.path # PARAM
         /\ \A k \in DOMAIN p.elements : /\ p.elements[k].role # Nothing
                                         /\ p.elements[k].name # PARAM
                                         /\ p.elements[k].text # PARAM
<1>1. IsList(p.elements)
  BY ApplicationAssumption DEF IsList
<1>2. \A k \in DOMAIN p.elements : p.elements[k] \in Range(p.elements)
  BY DEF Range
<1> QED
  BY <1>1, <1>2, TemplateAssumption

\* An action on an element of a page leads to a page.
LEMMA AfterIsAPage ==
  ASSUME NEW p \in Pages, NEW action, NEW k, NEW v,
         action \in {"click", "type"} => k \in DOMAIN p.elements /\ v \in Values
  PROVE  After(p, action, k, v) \in Pages
<1>1. CASE action = "click"
  BY <1>1, ApplicationAssumption DEF After
<1>2. CASE action = "type"
  BY <1>2, ApplicationAssumption DEF After
<1>3. CASE action \notin {"click", "type"}
  BY <1>3 DEF After
<1> QED
  BY <1>1, <1>2, <1>3

\* As plans come, so do values and claims.
LEMMA PlanMeans ==
  ASSUME NEW q \in Plans
  PROVE  /\ q.action \in {"click", "type", "read", "done"}
         /\ q.value \in Values /\ q.value # PARAM
         /\ IsClaim(q.claim) /\ q.claim.of # PARAM
BY PlansAssumption, TemplateAssumption DEF Values

-------------------------------------------------------------------------------
(***************************************************************************)
(* Which attempts are kept.                                                *)
(***************************************************************************)
\* The recursion of KeptFrom goes from attempt to attempt.
LEMMA KeptSteps ==
  ASSUME NEW s, NEW n \in Nat, n = Len(s)
  PROVE  \E kept : /\ kept[0] = <<>>
                   /\ \A k \in 1 .. n : kept[k] = Keeping(kept[k - 1], s[k])
                   /\ KeptFrom(s) = kept[n]
<1> DEFINE Def(g, m) ==
             g = [k \in 0 .. m |-> IF k = 0 THEN <<>> ELSE Keeping(g[k - 1], s[k])]
           T == {m \in Nat : \E g : Def(g, m)}
<1>1. 0 \in T
  <2> DEFINE g == [k \in 0 .. 0 |-> <<>>]
  <2>1. Def(g, 0)
    OBVIOUS
  <2> QED
    BY <2>1
<1>2. ASSUME NEW m \in T PROVE m + 1 \in T
  <2>1. PICK g : Def(g, m)
    BY <1>2
  <2> DEFINE h == [k \in 0 .. m + 1 |->
                     IF k = m + 1 THEN Keeping(g[m], s[m + 1]) ELSE g[k]]
  <2>2. \A k \in 0 .. m + 1 : h[k] = IF k = 0 THEN <<>> ELSE Keeping(h[k - 1], s[k])
    <3>1. \A k \in 0 .. m : g[k] = IF k = 0 THEN <<>> ELSE Keeping(g[k - 1], s[k])
      BY <2>1
    <3>2. \A k \in 0 .. m : h[k] = g[k]
      OBVIOUS
    <3>3. h[m + 1] = Keeping(h[m], s[m + 1])
      OBVIOUS
    <3> HIDE DEF h
    <3>4. ASSUME NEW k \in 0 .. m
          PROVE  h[k] = IF k = 0 THEN <<>> ELSE Keeping(h[k - 1], s[k])
      <4>1. CASE k = 0
        BY <3>1, <3>2, <4>1
      <4>2. CASE k # 0
        <5>1. k - 1 \in 0 .. m
          BY <4>2
        <5>2. h[k] = Keeping(g[k - 1], s[k])
          BY <3>1, <3>2, <4>2
        <5> QED
          BY <3>2, <4>2, <5>1, <5>2
      <4> QED
        BY <4>1, <4>2
    <3>5. ASSUME NEW k \in 0 .. m + 1, k = m + 1
          PROVE  h[k] = IF k = 0 THEN <<>> ELSE Keeping(h[k - 1], s[k])
      <4>1. k # 0 /\ k - 1 = m
        BY <3>5
      <4> QED
        BY <3>3, <3>5, <4>1
    <3> QED
      <4>1. \A k \in 0 .. m + 1 : k \in 0 .. m \/ k = m + 1
        OBVIOUS
      <4> QED
        BY <3>4, <3>5, <4>1
  <2>3. Def(h, m + 1)
    <3>1. h = [k \in 0 .. m + 1 |-> h[k]]
      OBVIOUS
    <3> HIDE DEF h
    <3> QED
      BY <2>2, <3>1
  <2>4. \E f : Def(f, m + 1)
    BY <2>3
  <2> HIDE DEF Def
  <2> QED
    BY <2>4
<1>3. T = Nat
  <2> HIDE DEF T
  <2>1. T \in SUBSET Nat
    BY DEF T
  <2> QED
    BY <1>1, <1>2, <2>1, SetInduction
<1>4. \E g : Def(g, n)
  BY <1>3
<1> DEFINE kept == CHOOSE g : Def(g, n)
<1>5. Def(kept, n)
  BY <1>4
<1>6. KeptFrom(s) = kept[n]
  BY DEF KeptFrom
<1> HIDE DEF kept
<1>7. /\ kept[0] = <<>>
      /\ \A k \in 1 .. n : kept[k] = Keeping(kept[k - 1], s[k])
  <2>1. \A k \in 0 .. n : kept[k] = IF k = 0 THEN <<>> ELSE Keeping(kept[k - 1], s[k])
    BY <1>5
  <2> HIDE DEF Def
  <2> QED
    BY <2>1
<1> QED
  BY <1>6, <1>7

\* What has been kept of some attempts: only of theirs, and a `done` if one ran.
KeptOf(kept, attempts) ==
  /\ IsList(kept)
  /\ Range(kept) \subseteq {a \in attempts : a.ran}
  /\ (\E a \in attempts : a.ran /\ IsDone(a)) => \E a \in Range(kept) : IsDone(a)

\* One more attempt: it is kept, or did not run, or repeats what is.
LEMMA KeepingMeans ==
  ASSUME NEW kept, NEW attempts, KeptOf(kept, attempts), NEW a
  PROVE  KeptOf(Keeping(kept, a), attempts \cup {a})
<1>1. CASE a.ran /\ (kept # <<>> => ~SameAction(Last(kept), a))
  <2>1. Keeping(kept, a) = Append(kept, a)
    BY <1>1 DEF Keeping
  <2>2. IsList(Append(kept, a)) /\ Range(Append(kept, a)) = Range(kept) \cup {a}
    BY Appended DEF KeptOf
  <2> QED
    BY <1>1, <2>1, <2>2 DEF KeptOf
<1>2. CASE ~(a.ran /\ (kept # <<>> => ~SameAction(Last(kept), a)))
  <2>1. Keeping(kept, a) = kept
    BY <1>2 DEF Keeping
  <2>2. ASSUME a.ran, IsDone(a) PROVE \E b \in Range(kept) : IsDone(b)
    <3>1. kept # <<>> /\ SameAction(Last(kept), a)
      BY <1>2, <2>2
    <3>2. Last(kept) \in Range(kept)
      BY <3>1, LastMeans DEF KeptOf
    <3>3. IsDone(Last(kept))
      BY <2>2, <3>1 DEF SameAction, IsDone
    <3> QED
      BY <3>2, <3>3
  <2> QED
    BY <2>1, <2>2 DEF KeptOf
<1> QED
  BY <1>1, <1>2

\* The kept attempts are of the recording, and a `done` that ran is among them
\* or is there as the one it repeats.
LEMMA KeptMeans ==
  ASSUME NEW s, IsList(s)
  PROVE  KeptOf(KeptFrom(s), Range(s))
<1>1. PICK n \in Nat : /\ n = Len(s) /\ DOMAIN s = 1 .. n
                       /\ Range(s) = {s[k] : k \in 1 .. n}
  BY ListMeans
<1>2. PICK kept : /\ kept[0] = <<>>
                  /\ \A k \in 1 .. n : kept[k] = Keeping(kept[k - 1], s[k])
                  /\ KeptFrom(s) = kept[n]
  BY <1>1, KeptSteps
<1> DEFINE Upto(m) == {s[k] : k \in 1 .. m}
           T == {m \in Nat : m <= n => KeptOf(kept[m], Upto(m))}
<1>3. 0 \in T
  <2>1. IsList(<<>>) /\ Range(<<>>) = {} /\ Upto(0) = {}
    BY DEF IsList, Range
  <2> QED
    BY <1>2, <2>1 DEF KeptOf
<1>4. ASSUME NEW m \in T PROVE m + 1 \in T
  <2> SUFFICES ASSUME m + 1 <= n PROVE KeptOf(kept[m + 1], Upto(m + 1))
    OBVIOUS
  <2>1. KeptOf(kept[m], Upto(m))
    BY <1>4
  <2>2. m + 1 \in 1 .. n /\ (m + 1) - 1 = m
    BY <1>4
  <2>3. kept[m + 1] = Keeping(kept[m], s[m + 1])
    BY <1>2, <2>2
  <2>4. Upto(m + 1) = Upto(m) \cup {s[m + 1]}
    <3>1. \A k : k \in 1 .. m + 1 <=> k \in 1 .. m \/ k = m + 1
      BY <1>4
    <3> QED
      BY <3>1
  <2> HIDE DEF Upto
  <2> QED
    BY <2>1, <2>3, <2>4, KeepingMeans
<1>5. T = Nat
  <2> HIDE DEF T
  <2>1. T \in SUBSET Nat
    BY DEF T
  <2> QED
    BY <1>3, <1>4, <2>1, SetInduction
<1>6. KeptOf(kept[n], Upto(n))
  <2>1. n \in T
    <3> HIDE DEF T
    <3> QED
      BY <1>5
  <2>2. n <= n => KeptOf(kept[n], Upto(n))
    BY <2>1
  <2>3. n <= n
    OBVIOUS
  <2> QED
    BY <2>2, <2>3
<1> QED
  BY <1>1, <1>2, <1>6

\* One more attempt, and one more decision what to keep.
LEMMA KeptGrows ==
  ASSUME NEW s, IsList(s), NEW a
  PROVE  KeptFrom(Append(s, a)) = Keeping(KeptFrom(s), a)
<1> DEFINE t == Append(s, a)
<1>1. PICK n \in Nat : n = Len(s)
  BY ListMeans
<1>2. /\ Len(t) = n + 1
      /\ \A k \in 1 .. n : t[k] = s[k]
      /\ t[n + 1] = a
  BY <1>1, AppendProperties DEF IsList
<1>3. PICK f : /\ f[0] = <<>>
               /\ \A k \in 1 .. n : f[k] = Keeping(f[k - 1], s[k])
               /\ KeptFrom(s) = f[n]
  BY <1>1, KeptSteps
<1> HIDE DEF t
<1>4. PICK g : /\ g[0] = <<>>
               /\ \A k \in 1 .. n + 1 : g[k] = Keeping(g[k - 1], t[k])
               /\ KeptFrom(t) = g[n + 1]
  BY <1>2, KeptSteps
<1> DEFINE T == {m \in Nat : m <= n => g[m] = f[m]}
<1>5. 0 \in T
  BY <1>3, <1>4
<1>6. ASSUME NEW m \in T PROVE m + 1 \in T
  <2> SUFFICES ASSUME m + 1 <= n PROVE g[m + 1] = f[m + 1]
    OBVIOUS
  <2>1. m + 1 \in 1 .. n /\ m + 1 \in 1 .. n + 1 /\ (m + 1) - 1 = m /\ m <= n
    BY <1>6
  <2>2. g[m] = f[m]
    BY <1>6, <2>1
  <2>3. g[m + 1] = Keeping(g[m], t[m + 1]) /\ f[m + 1] = Keeping(f[m], s[m + 1])
    BY <1>3, <1>4, <2>1
  <2> QED
    BY <1>2, <2>1, <2>2, <2>3
<1>7. n \in T
  <2> HIDE DEF T
  <2>1. T \in SUBSET Nat
    BY DEF T
  <2> QED
    BY <1>5, <1>6, <2>1, SetInduction
<1>8. g[n] = f[n]
  BY <1>7
<1>9. n + 1 \in 1 .. n + 1 /\ (n + 1) - 1 = n
  OBVIOUS
<1>10. g[n + 1] = Keeping(g[n], t[n + 1])
  BY <1>4, <1>9
<1> QED
  BY <1>2, <1>3, <1>4, <1>8, <1>10 DEF t

\* The entry of `done` is one of the kept ones, and the last of them that is.
LEMMA DoneIsKept ==
  ASSUME IsList(Kept), \E a \in Range(Kept) : IsDone(a)
  PROVE  DoneAt \in 1 .. Len(Kept) /\ IsDone(Kept[DoneAt])
<1>1. PICK n \in Nat : n = Len(Kept) /\ Range(Kept) = {Kept[k] : k \in 1 .. n}
  BY ListMeans
<1> DEFINE D == {k \in 1 .. n : IsDone(Kept[k])}
<1>2. D # {} /\ D \in SUBSET (1 .. n)
  BY <1>1
<1>3. Max(D) \in D
  BY <1>2, GreatestExists
<1>4. DoneAt = Max(D)
  BY <1>1, <1>2 DEF DoneAt, SelectLastInSeq
<1> QED
  BY <1>1, <1>3, <1>4

-------------------------------------------------------------------------------
(***************************************************************************)
(* What the steps claim and act on.                                        *)
(***************************************************************************)
\* A claim that names the template, if it does, where a text is looked for.
Bindable(c) == IsClaim(c) /\ (c.of = PARAM => c.check \in {"text", "field", "url"})

\* The kept attempts are a list of attempts.
KeptOK ==
  /\ IsList(Kept)
  /\ \A k \in 1 .. Len(Kept) : AttemptOK(Kept[k])

\* A claim is one, about what it says.
LEMMA ClaimMeans ==
  ASSUME NEW check, NEW of
  PROVE  /\ IsClaim(Claim(check, of))
         /\ Claim(check, of).of = of /\ Claim(check, of).check = check
BY DEF Claim, IsClaim

\* What a step is trusted to claim is a plan's or an observation's.
LEMMA TrustworthyMeans ==
  ASSUME KeptOK, NEW i \in 1 .. Len(Kept)
  PROVE  IsClaim(Trustworthy(i)) /\ Trustworthy(i).of # PARAM
<1> DEFINE a == Kept[i]
           new == ObservedAfter(i)
           k == Appeared(a.before, new)
<1>1. IsClaim(a.intent.plan.claim) /\ a.intent.plan.claim.of # PARAM
  BY PlanMeans DEF KeptOK, AttemptOK
<1>2. CASE a.held \/ i = Len(Kept)
  BY <1>1, <1>2 DEF Trustworthy
<1>3. CASE ~(a.held \/ i = Len(Kept))
  <2>1. i + 1 \in 1 .. Len(Kept)
    BY <1>3, ListMeans DEF KeptOK
  <2>2. new \in Pages
    BY <2>1 DEF KeptOK, AttemptOK, ObservedAfter
  <2>3. new.path # PARAM
    BY <2>2, PageMeans
  <2>4. k # 0 => new.elements[k].text # PARAM
    <3> SUFFICES ASSUME k # 0 PROVE k \in DOMAIN new.elements
      BY <2>2, PageMeans
    <3>1. PICK n \in Nat : n = Len(new.elements) /\ DOMAIN new.elements = 1 .. n
      BY <2>2, PageMeans, ListMeans
    <3> DEFINE I == {j \in 1 .. n : \A o \in Range(a.before.elements) :
                                      o.text # new.elements[j].text}
    <3>2. k = IF I # {} THEN Min(I) ELSE 0
      BY <3>1 DEF Appeared, SelectInSeq
    <3>3. I \in SUBSET Nat /\ I # {}
      BY <3>2
    <3>4. Min(I) \in I
      BY <3>3, LeastExists
    <3> QED
      BY <3>1, <3>2, <3>3, <3>4
  <2>5. Trustworthy(i) = IF new.path # a.before.path THEN Claim("url", new.path)
                         ELSE IF k # 0 THEN Claim("text", new.elements[k].text)
                         ELSE a.intent.plan.claim
    BY <1>3 DEF Trustworthy
  <2> HIDE DEF a, new, k
  <2> QED
    BY <1>1, <2>3, <2>4, <2>5, ClaimMeans
<1> QED
  BY <1>2, <1>3

\* The template gets into a claim where a text or a field is looked for.
LEMMA SanitisedMeans ==
  ASSUME NEW c, IsClaim(c), c.of # PARAM, NEW value
  PROVE  Bindable(Sanitised(c, value))
<1> DEFINE d == [c EXCEPT !.of = PARAM]
<1>1. d = [check |-> c.check, of |-> PARAM, role |-> c.role]
  BY DEF IsClaim
<1>2. IsClaim(d) /\ d.check = c.check
  BY <1>1 DEF IsClaim
<1> HIDE DEF d
<1>3. \/ Sanitised(c, value) = c
      \/ Sanitised(c, value) = d /\ c.check \in {"text", "field"}
  BY DEF Sanitised, d
<1> QED
  BY <1>2, <1>3 DEF Bindable

\* A claim that quoted what is read names an element instead.
LEMMA UnquotedMeans ==
  ASSUME NEW c, Bindable(c), NEW target, target.anchor # PARAM, target.name # PARAM, NEW got
  PROVE  Bindable(Unquoted(c, target, got))
<1> DEFINE found(name) == [check |-> "element", of |-> name, role |-> target.role]
<1>1. \A name : IsClaim(found(name)) /\ found(name).of = name
  BY DEF IsClaim
<1>2. Unquoted(c, target, got) \in {c, found(target.anchor), found(target.name)}
  BY DEF Unquoted
<1> HIDE DEF found
<1> QED
  BY <1>1, <1>2 DEF Bindable

\* What a step acts on is described in words of the page, and only a `done` acts
\* on nothing.
LEMMA TargetMeans ==
  ASSUME NEW a, AttemptOK(a)
  PROVE  /\ TargetOf(a).name # PARAM /\ TargetOf(a).anchor # PARAM
         /\ ~IsDone(a) => TargetOf(a) # NoTarget
<1>1. CASE IsDone(a)
  <2>1. TargetOf(a) = NoTarget /\ a.intent.plan.action = "done"
    BY <1>1 DEF TargetOf, IsDone
  <2> QED
    BY <1>1, <2>1 DEF NoTarget, Nothing, PARAM
<1>2. CASE ~IsDone(a)
  <2> DEFINE elements == a.before.elements
             k == a.intent.ref
             offset == AnchorOffset(elements, k)
             anchor == IF offset = 0 THEN Nothing ELSE elements[k - offset].name
  <2>1. a.before \in Pages /\ k \in DOMAIN elements
    BY <1>2 DEF AttemptOK
  <2>2. PICK n \in Nat : n = Len(elements) /\ DOMAIN elements = 1 .. n
    BY <2>1, PageMeans, ListMeans
  <2>3. offset # 0 => k - offset \in DOMAIN elements
    <3> DEFINE L == {j \in 1 .. k - 1 : elements[j].name \notin ValueShaped \cup {Nothing}}
               label == IF L # {} THEN Max(L) ELSE 0
    <3>1. offset = IF elements[k].name \in ValueShaped /\ label # 0 THEN k - label ELSE 0
      BY DEF AnchorOffset, SelectLastInSubSeq
    <3>2. k - 1 \in Nat /\ L \in SUBSET (1 .. k - 1)
      BY <2>1, <2>2
    <3>3. label # 0 => label \in 1 .. k - 1
      BY <3>2, GreatestExists
    <3> HIDE DEF label
    <3>4. label # 0 => label \in 1 .. n /\ k - (k - label) = label
      BY <2>1, <2>2, <3>3
    <3> QED
      BY <2>2, <3>1, <3>4
  <2> HIDE DEF elements, k, offset
  <2>4. anchor # PARAM
    <3>1. Nothing # PARAM
      BY DEF Nothing, PARAM
    <3>2. offset # 0 => elements[k - offset].name # PARAM
      BY <2>1, <2>3, PageMeans DEF elements
    <3> QED
      BY <3>1, <3>2
  <2>5. elements[k].name # PARAM /\ elements[k].role # Nothing
    BY <2>1, PageMeans DEF elements
  <2>6. TargetOf(a) = [role |-> elements[k].role, name |-> elements[k].name,
                       index |-> MatchIndex(elements, k), offset |-> offset,
                       anchor |-> anchor]
    BY <1>2 DEF TargetOf, elements, k, offset
  <2> HIDE DEF anchor
  <2>7. NoTarget.role = Nothing
    BY DEF NoTarget
  <2> QED
    BY <2>4, <2>5, <2>6, <2>7
<1> QED
  BY <1>1, <1>2

-------------------------------------------------------------------------------
(***************************************************************************)
(* The capability.                                                         *)
(***************************************************************************)
\* A step is in order, what it claims can be bound, and a value that is the
\* parameter's was typed as the one the goal mentions.
LEMMA StepOfMeans ==
  ASSUME KeptOK, NEW i \in 1 .. Len(Kept)
  PROVE  /\ StepOK(StepOf(i)) /\ Bindable(StepOf(i).claim)
         /\ StepOf(i).value = PARAM =>
              /\ Kept[i].intent.plan.action = "type"
              /\ Kept[i].intent.plan.value = Example
<1> DEFINE a == Kept[i]
           trusted == Trustworthy(i)
           claim == Sanitised(trusted, StepValue(a))
<1>1. AttemptOK(a)
  BY DEF KeptOK
<1>2. a.intent.plan.value \in Values /\ a.intent.plan.value # PARAM
  BY <1>1, PlanMeans DEF AttemptOK
<1>3. StepValue(a) = IF a.intent.plan.action = "type" /\ a.intent.plan.value = Example
                     THEN PARAM ELSE a.intent.plan.value
  BY DEF StepValue
<1>4. IsClaim(trusted) /\ trusted.of # PARAM
  BY TrustworthyMeans
<1>5. StepOf(i) = [action |-> a.intent.plan.action, target |-> TargetOf(a),
                   value |-> StepValue(a),
                   claim |-> Unquoted(claim, TargetOf(a), a.got)]
  BY DEF StepOf
<1> HIDE DEF a, trusted
<1>6. Bindable(claim)
  BY <1>4, SanitisedMeans
<1> HIDE DEF claim
<1>7. /\ TargetOf(a).name # PARAM /\ TargetOf(a).anchor # PARAM
      /\ a.intent.plan.action \in {"click", "type"} => TargetOf(a) # NoTarget
  BY <1>1, TargetMeans DEF IsDone
<1>8. Bindable(Unquoted(claim, TargetOf(a), a.got))
  BY <1>6, <1>7, UnquotedMeans
<1>9. StepOK(StepOf(i))
  BY <1>2, <1>3, <1>5, <1>7 DEF StepOK
<1>10. Bindable(StepOf(i).claim)
  BY <1>5, <1>8
<1>11. StepOf(i).value = PARAM =>
         a.intent.plan.action = "type" /\ a.intent.plan.value = Example
  BY <1>2, <1>3, <1>5
<1> QED
  BY <1>9, <1>10, <1>11 DEF a

\* The steps are those of the kept attempts but for the `done`.
LEMMA StepsMean ==
  ASSUME KeptOK, DoneAt \in 1 .. Len(Kept)
  PROVE  /\ IsList(Steps)
         /\ \A s \in Range(Steps) : \E i \in 1 .. Len(Kept) : i # DoneAt /\ s = StepOf(i)
<1> DEFINE all == [i \in 1 .. Len(Kept) |-> StepOf(i)]
<1>1. PICK n \in Nat : n = Len(Kept)
  BY ListMeans DEF KeptOK
<1>2. Range(all) = {all[i] : i \in 1 .. n}
  BY <1>1 DEF Range
<1>3. all \in [1 .. n -> Range(all)]
  BY <1>1, <1>2
<1>4. all \in Seq(Range(all)) /\ Len(all) = n
  <2> HIDE DEF all
  <2>1. DOMAIN all = 1 .. n
    BY <1>3
  <2> QED
    BY <1>1, <1>3, <2>1
<1>5. \A i \in 1 .. n : all[i] = StepOf(i)
  BY <1>1
<1>6. Steps = RemoveAt(all, DoneAt)
  BY DEF Steps
<1> HIDE DEF all
<1>7. /\ IsList(RemoveAt(all, DoneAt))
      /\ \A x \in Range(RemoveAt(all, DoneAt)) :
           \E i \in 1 .. Len(all) : i # DoneAt /\ x = all[i]
  BY <1>1, <1>4, Removed DEF IsList
<1> QED
  BY <1>1, <1>4, <1>5, <1>6, <1>7

\* What the checkpoint is taken from can be bound.
LEMMA ResolvedMeans ==
  ASSUME KeptOK, DoneAt \in 1 .. Len(Kept)
  PROVE  Bindable(Resolved)
<1> DEFINE own == Kept[DoneAt].intent.plan.claim
           other == SelectLastInSeq(Steps, LAMBDA s : Quoted(s.claim) \notin ReadValues)
<1>1. IsClaim(own) /\ own.of # PARAM
  BY PlanMeans DEF KeptOK, AttemptOK
<1>2. PICK n \in Nat : /\ n = Len(Steps) /\ DOMAIN Steps = 1 .. n
                       /\ Range(Steps) = {Steps[k] : k \in 1 .. n}
  BY StepsMean, ListMeans
<1>3. other # 0 => other \in 1 .. n
  <2> DEFINE I == {k \in 1 .. n : Quoted(Steps[k].claim) \notin ReadValues}
  <2>1. other = IF I # {} THEN Max(I) ELSE 0
    BY <1>2 DEF SelectLastInSeq
  <2>2. I \in SUBSET (1 .. n)
    OBVIOUS
  <2> HIDE DEF other
  <2>3. I # {} => Max(I) \in I
    BY <2>2, GreatestExists
  <2> QED
    BY <2>1, <2>3
<1>4. Resolved = IF Quoted(own) \in ReadValues /\ other # 0 THEN Steps[other].claim ELSE own
  BY DEF Resolved
<1> HIDE DEF own, other
<1>5. other # 0 => Bindable(Steps[other].claim)
  <2> SUFFICES ASSUME other # 0 PROVE Bindable(Steps[other].claim)
    OBVIOUS
  <2>1. Steps[other] \in Range(Steps)
    BY <1>2, <1>3
  <2> QED
    BY <2>1, StepsMean, StepOfMeans
<1> QED
  BY <1>1, <1>4, <1>5 DEF Bindable

\* A capability that takes a member is bound to it.
LEMMA CheckpointMeans ==
  ASSUME KeptOK, DoneAt \in 1 .. Len(Kept), Takes(Steps)
  PROVE  Names(Checkpoint)
<1>1. PICK i \in 1 .. Len(Kept) : i # DoneAt /\ StepOf(i).value = PARAM
  BY StepsMean DEF Takes
<1>2. Kept[i].intent.plan.action = "type" /\ Kept[i].intent.plan.value = Example
  BY <1>1, StepOfMeans
<1>3. Kept[i] \in Range(Body)
  BY <1>1, Removed DEF Body, KeptOK
<1>4. Parameterised
  BY <1>2, <1>3 DEF Parameterised
<1>5. CASE Resolved.of # PARAM
  <2>1. Checkpoint = Claim("url", PARAM)
    BY <1>4, <1>5 DEF Checkpoint, MustBind
  <2> QED
    BY <2>1, ClaimMeans DEF Names
<1>6. CASE Resolved.of = PARAM
  <2>1. Checkpoint = Resolved
    BY <1>6 DEF Checkpoint, MustBind
  <2> QED
    BY <1>6, <2>1, ResolvedMeans DEF Names, Bindable
<1> QED
  BY <1>5, <1>6

\* A label changes a claim of a step and nothing else.
LEMMA WeakenedMeans ==
  ASSUME NEW s, StepOK(s), NEW url
  PROVE  StepOK(Weakened(s, url)) /\ Weakened(s, url).value = s.value
<1> DEFINE c == CHOOSE c \in Demoted(s, url) : TRUE
           w == [s EXCEPT !.claim = c]
<1>1. Weakened(s, url) \in {s, w}
  BY DEF Weakened
<1> HIDE DEF c
<1>2. w = [action |-> s.action, target |-> s.target, value |-> s.value, claim |-> c]
  BY DEF StepOK
<1> HIDE DEF w
<1>3. StepOK(w) /\ w.value = s.value
  BY <1>2 DEF StepOK
<1> QED
  BY <1>1, <1>3

-------------------------------------------------------------------------------
(***************************************************************************)
(* Init and the actions.                                                   *)
(***************************************************************************)
\* A recording starts with nothing, on the page it starts from.
LEMMA InitIInv == Init => IInv
<1> SUFFICES ASSUME Init PROVE IInv
  OBVIOUS
<1>1. TraceInv
  <2>1. IsList(<<>>) /\ Range(<<>>) = {}
    BY DEF IsList, Range
  <2> QED
    BY <2>1, HomeAssumption DEF Init, TraceInv
<1>2. CapabilityInv /\ RunInv /\ RightRecord
  BY DEF Init, CapabilityInv, RunInv, RightRecord, Nothing
<1> QED
  BY <1>1, <1>2 DEF IInv

\* An attempt is one that could be stated, and whether it ran and held.
LEMMA AttemptMeans ==
  ASSUME TraceInv, Attempt
  PROVE  \E i \in Stated, ran, held \in BOOLEAN :
           /\ AttemptLeaves(i, ran, held)
           /\ ran => Found(i)
           /\ held => ran
           /\ stage # "retry" => Meant(i, page)
           /\ i.plan \in Plans /\ Snapshot \in Pages
           /\ i.plan.action # "done" => i.ref \in DOMAIN Snapshot.elements
<1>0. PICK i \in Stated, works \in BOOLEAN, slow \in BOOLEAN :
        /\ LET ran == Found(i) /\ works
               judged == IF slow THEN page ELSE Reached(i, ran)
           IN AttemptLeaves(i, ran, ran /\ Holds(i.plan.claim, judged))
        /\ stage # "retry" => Meant(i, page)
  BY Zenon DEF Attempt
<1> DEFINE r == Found(i) /\ works
           h == r /\ Holds(i.plan.claim, IF slow THEN page ELSE Reached(i, r))
<1>1. AttemptLeaves(i, r, h)
  BY <1>0
<1>2. (r => Found(i)) /\ (h => r) /\ r \in BOOLEAN /\ h \in BOOLEAN
  OBVIOUS
<1> HIDE DEF r, h
<1>3. /\ i.plan \in Plans /\ Snapshot \in Pages
      /\ i.plan.action # "done" => i.ref \in DOMAIN Snapshot.elements
  <2>1. CASE stage = "retry"
    <3>1. Last(trace) \in Range(trace)
      BY <2>1, LastMeans DEF TraceInv
    <3>2. AttemptOK(Last(trace)) /\ i = Last(trace).intent /\ Snapshot = Last(trace).before
      BY <1>0, <2>1, <3>1 DEF TraceInv, Stated, Snapshot
    <3> QED
      BY <3>2 DEF AttemptOK, IsDone
  <2>2. CASE stage # "retry"
    <3>1. page \in Pages /\ i \in Intents(page) /\ Snapshot = page
      BY <1>0, <2>2 DEF TraceInv, Stated, Snapshot
    <3>2. 1 .. Len(page.elements) = DOMAIN page.elements
      BY <3>1, PageMeans, ListMeans
    <3>3. \/ \E q \in Plans : q.action = "done" /\ i = [plan |-> q, ref |-> 0]
          \/ \E q \in Plans, k \in DOMAIN page.elements : i = [plan |-> q, ref |-> k]
      BY <3>1, <3>2 DEF Intents
    <3> QED
      BY <3>1, <3>3
  <2> QED
    BY <2>1, <2>2
<1> QED
  BY <1>0, <1>1, <1>2, <1>3

\* An attempt is one for a page, with a plan, and leads to a page.
LEMMA AttemptIsOne ==
  ASSUME TraceInv, Attempt
  PROVE  /\ page' \in Pages
         /\ \E a : /\ AttemptOK(a)
                   /\ trace' = Append(trace, a)
                   /\ phase' = "compile" => a.ran /\ IsDone(a)
         /\ phase' \in {"record", "compile", "ended"}
         /\ result' \in {result, "dead end"}
<1>1. PICK i \in Stated, ran \in BOOLEAN, held \in BOOLEAN :
        /\ AttemptLeaves(i, ran, held)
        /\ ran => Found(i)
        /\ held => ran
        /\ stage # "retry" => Meant(i, page)
        /\ i.plan \in Plans /\ Snapshot \in Pages
        /\ i.plan.action # "done" => i.ref \in DOMAIN Snapshot.elements
  BY AttemptMeans
<1>2. Reached(i, ran) \in Pages
  <2>1. page \in Pages
    BY DEF TraceInv
  <2>2. i.plan.value \in Values
    BY <1>1, PlanMeans
  <2>3. CASE ran
    <3>1. i.plan.action \in {"click", "type"} => i.ref \in DOMAIN page.elements
      BY <1>1, <2>3 DEF Found
    <3> QED
      BY <2>1, <2>2, <2>3, <3>1, AfterIsAPage DEF Reached
  <2>4. CASE ~ran
    BY <2>1, <2>4 DEF Reached
  <2> QED
    BY <2>3, <2>4
<1>3. /\ Tried(i, ran, held).intent = i /\ Tried(i, ran, held).before = Snapshot
      /\ Tried(i, ran, held).ran = ran
  BY DEF Tried
<1>4. AttemptOK(Tried(i, ran, held))
  BY <1>1, <1>3 DEF AttemptOK, IsDone
<1>5. phase' = "compile" => Tried(i, ran, held).ran /\ IsDone(Tried(i, ran, held))
  BY <1>1, <1>3 DEF AttemptLeaves, IsDone
<1>6. /\ phase' \in {"record", "compile", "ended"}
      /\ result' \in {result, "dead end"}
  BY <1>1 DEF AttemptLeaves
<1>7. page' = Reached(i, ran) /\ trace' = Append(trace, Tried(i, ran, held))
  BY <1>1 DEF AttemptLeaves
<1> QED
  BY <1>2, <1>4, <1>5, <1>6, <1>7

\* The recording stays in order where a step leaves it alone, stays on the pages
\* of the application and does not start the compiler.
LEMMA TraceStays ==
  ASSUME TraceInv, UNCHANGED recording, page' \in Pages, phase' # "compile"
  PROVE  TraceInv'
BY DEF TraceInv, recording

\* An attempt adds itself to the recording, and never ends it in success.
LEMMA AttemptStep ==
  ASSUME IInv, Attempt
  PROVE  IInv'
<1>1. TraceInv /\ RunInv
  BY DEF IInv
<1>2. PICK a : /\ AttemptOK(a)
               /\ trace' = Append(trace, a)
               /\ phase' = "compile" => a.ran /\ IsDone(a)
  BY <1>1, AttemptIsOne
<1>3. /\ page' \in Pages
      /\ phase' \in {"record", "compile", "ended"}
      /\ result' \in {result, "dead end"}
  BY <1>1, AttemptIsOne
<1>4. IsList(trace') /\ trace' # <<>> /\ Range(trace') = Range(trace) \cup {a}
  BY <1>1, <1>2, Appended DEF TraceInv
<1>5. \A b \in Range(trace') : AttemptOK(b)
  BY <1>1, <1>2, <1>4 DEF TraceInv
<1>6. TraceInv'
  BY <1>2, <1>3, <1>4, <1>5 DEF TraceInv, AttemptOK, IsDone
<1>7. result' # "success" /\ phase' \notin {"compiled", "labelled", "replay"}
  BY <1>1, <1>3 DEF RunInv, Attempt
<1> QED
  BY <1>1, <1>6, <1>7 DEF IInv, CapabilityInv, RunInv, RightRecord, Attempt

\* The compiler starts on a recording in which a `done` ran.
LEMMA CompileStep ==
  ASSUME IInv, Compile
  PROVE  IInv'
<1>1. TraceInv /\ RunInv /\ phase = "compile"
  BY DEF IInv, Compile
<1>2. page' = page /\ UNCHANGED <<recording, at>> /\ phase' \in {"ended", "compiled"}
  BY DEF Compile
<1>3. TraceInv'
  BY <1>1, <1>2, TraceStays DEF TraceInv
<1>4. result' # "success"
  BY <1>1 DEF Compile, RunInv
<1>5. KeptOK /\ DoneAt \in 1 .. Len(Kept)
  <2>1. /\ IsList(Kept) /\ Range(Kept) \subseteq Range(trace)
        /\ \E a \in Range(Kept) : IsDone(a)
    BY <1>1, KeptMeans DEF TraceInv, KeptOf, Kept
  <2>2. \A k \in 1 .. Len(Kept) : Kept[k] \in Range(Kept)
    BY <2>1, ListMeans
  <2>3. \A k \in 1 .. Len(Kept) : AttemptOK(Kept[k])
    BY <1>1, <2>1, <2>2 DEF TraceInv
  <2> QED
    BY <2>1, <2>3, DoneIsKept DEF KeptOK
<1>6. CapabilityInv'
  <2> SUFFICES ASSUME phase' = "compiled"
               PROVE  /\ IsList(capability'.steps)
                      /\ \A s \in Range(capability'.steps) : StepOK(s)
                      /\ Takes(capability'.steps) => Names(capability'.checkpoint)
    BY <1>2 DEF CapabilityInv, StepOK, Takes, Names, IsClaim
  <2>1. capability' = [steps |-> Steps, checkpoint |-> Checkpoint]
    BY DEF Compile
  <2>2. \A s \in Range(Steps) : StepOK(s)
    BY <1>5, StepsMean, StepOfMeans
  <2> QED
    BY <1>5, <2>1, <2>2, StepsMean, CheckpointMeans
<1> QED
  BY <1>1, <1>2, <1>3, <1>4, <1>6 DEF IInv, RunInv, RightRecord

\* Labels leave the values of the steps, and a checkpoint that names the
\* parameter, as they are.
LEMMA LabelStep ==
  ASSUME IInv, Label
  PROVE  IInv'
<1>1. TraceInv /\ CapabilityInv /\ RunInv /\ phase = "compiled"
  BY DEF IInv, Label
<1>2. /\ page' = page /\ UNCHANGED <<recording, at>>
      /\ phase' = "labelled" /\ result' = result
  BY DEF Label
<1>3. TraceInv'
  BY <1>1, <1>2, TraceStays DEF TraceInv
<1>4. result' # "success"
  BY <1>1, <1>2 DEF RunInv
<1> DEFINE steps == capability.steps
           checkpoint == capability.checkpoint
<1>5. PICK labels \in SUBSET (DOMAIN steps), fitted \in BOOLEAN : Generalise(labels, fitted)
  BY DEF Label
<1> DEFINE labelled == [i \in DOMAIN steps |->
                          IF i \in labels THEN Weakened(steps[i], StepUrls[i]) ELSE steps[i]]
<1>6. /\ capability'.steps = labelled
      /\ capability'.checkpoint \in {checkpoint, Claim("url", PARAM)}
  BY <1>5 DEF Generalise
<1>7. /\ IsList(steps)
      /\ \A s \in Range(steps) : StepOK(s)
      /\ Takes(steps) => Names(checkpoint)
  BY <1>1 DEF CapabilityInv
<1> HIDE DEF steps, checkpoint
<1>8. PICK n \in Nat : DOMAIN steps = 1 .. n /\ n = Len(steps)
  BY <1>7, ListMeans
<1>9. \A i \in DOMAIN steps : StepOK(labelled[i]) /\ labelled[i].value = steps[i].value
  <2> SUFFICES ASSUME NEW i \in DOMAIN steps
               PROVE  StepOK(labelled[i]) /\ labelled[i].value = steps[i].value
    OBVIOUS
  <2>1. StepOK(steps[i])
    BY <1>7 DEF Range
  <2>2. labelled[i] = IF i \in labels THEN Weakened(steps[i], StepUrls[i]) ELSE steps[i]
    OBVIOUS
  <2> HIDE DEF labelled
  <2> QED
    BY <2>1, <2>2, WeakenedMeans
<1>10. DOMAIN labelled = 1 .. n /\ labelled = [i \in 1 .. n |-> labelled[i]]
  BY <1>8
<1> HIDE DEF labelled
<1>11. IsList(labelled)
  BY <1>10 DEF IsList, Range
<1>12. \A s \in Range(labelled) : StepOK(s)
  BY <1>8, <1>9, <1>10 DEF Range
<1>13. Takes(labelled) => Takes(steps)
  BY <1>8, <1>9, <1>10 DEF Takes, Range
<1>14. Takes(labelled) => Names(capability'.checkpoint)
  BY <1>6, <1>7, <1>13, ClaimMeans DEF Names
<1>15. CapabilityInv'
  BY <1>6, <1>11, <1>12, <1>14 DEF CapabilityInv, StepOK, Takes, Names, IsClaim
<1> QED
  BY <1>1, <1>2, <1>3, <1>4, <1>15 DEF IInv, RunInv, RightRecord

\* A replay starts on the page of the recording, for a member.
LEMMA InvokeStep ==
  ASSUME IInv, Invoke
  PROVE  IInv'
<1>1. TraceInv /\ CapabilityInv /\ RunInv /\ phase \in {"compiled", "labelled"}
  BY DEF IInv, Invoke
<1>2. /\ page' = Home /\ phase' = "replay"
      /\ UNCHANGED <<recording, capability, at, result>>
  BY DEF Invoke
<1>3. TraceInv'
  BY <1>1, <1>2, HomeAssumption, TraceStays
<1>4. result' # "success"
  BY <1>1, <1>2 DEF RunInv
<1>5. member' \in Members
  BY ExampleAssumption DEF Invoke
<1>6. CapabilityInv'
  BY <1>1, <1>2 DEF CapabilityInv, StepOK, Takes, Names, IsClaim
<1> QED
  BY <1>1, <1>2, <1>3, <1>4, <1>5, <1>6 DEF IInv, RunInv, RightRecord

\* The first of some numbers, if there is one, is one of them.
LEMMA FirstOfMeans ==
  ASSUME NEW ks \in SUBSET Nat, FirstOf(ks) # 0
  PROVE  FirstOf(ks) \in ks
BY LeastExists DEF FirstOf

\* A target is found at an element of the page or not at all.
LEMMA LocateMeans ==
  ASSUME NEW elements, IsList(elements), NEW t, Locate(t, elements) # 0
  PROVE  Locate(t, elements) \in DOMAIN elements
<1> DEFINE candidates == {k \in DOMAIN elements : elements[k].role = t.role}
           anchored == {k \in candidates : PastAnchor(t, k, elements)}
           named == {k \in candidates : elements[k].name = t.name}
           alike == {k \in candidates : Occurs(t.name, elements[k].name)}
<1>1. DOMAIN elements \in SUBSET Nat
  BY ListMeans
<1>2. \A ks \in SUBSET (DOMAIN elements) : FirstOf(ks) # 0 => FirstOf(ks) \in DOMAIN elements
  BY <1>1, FirstOfMeans
<1>3. \A n : \A ks \in SUBSET (DOMAIN elements) :
        Nth(ks, n) # 0 => Nth(ks, n) \in DOMAIN elements
  <2> SUFFICES ASSUME NEW ks \in SUBSET (DOMAIN elements), NEW n, Nth(ks, n) # 0
               PROVE  Nth(ks, n) \in DOMAIN elements
    OBVIOUS
  <2> DEFINE js == {k \in ks : Cardinality({j \in ks : j < k}) = n}
  <2>1. js \in SUBSET (DOMAIN elements) /\ Nth(ks, n) = FirstOf(js)
    BY DEF Nth
  <2> HIDE DEF js
  <2> QED
    BY <1>2, <2>1
<1>4. /\ anchored \in SUBSET (DOMAIN elements)
      /\ named \in SUBSET (DOMAIN elements)
      /\ alike \in SUBSET (DOMAIN elements)
  OBVIOUS
<1>5. Locate(t, elements) \in {FirstOf(anchored), Nth(named, t.index), Nth(alike, t.index)}
  BY DEF Locate
<1> HIDE DEF anchored, named, alike
<1> QED
  BY <1>2, <1>3, <1>4, <1>5

\* A step that is found and performed leads from a page to a page.
LEMMA PerformedStep ==
  ASSUME IInv, StepPerformed
  PROVE  IInv'
<1>1. /\ TraceInv /\ CapabilityInv /\ RunInv /\ phase = "replay"
      /\ at < Len(capability.steps)
  BY DEF IInv, StepPerformed
<1>2. /\ UNCHANGED recording /\ UNCHANGED request
      /\ UNCHANGED <<phase, result>> \/ (phase' = "ended" /\ result' = "claim failed")
  BY DEF StepPerformed
<1>3. page' \in Pages
  <2> DEFINE step == capability.steps[at + 1]
             k == IF step.target = NoTarget THEN 0 ELSE Here
             v == Bound(step.value)
  <2>1. page' = ByNow(After(page, step.action, k, v)) /\ (step.target # NoTarget => k # 0)
    BY DEF StepPerformed
  <2>2. step \in Range(capability.steps)
    <3>1. IsList(capability.steps)
      BY <1>1 DEF CapabilityInv
    <3>2. at \in Nat
      BY <1>1 DEF RunInv
    <3>3. PICK n \in Nat : n = Len(capability.steps) /\ DOMAIN capability.steps = 1 .. n
      BY <3>1, ListMeans
    <3>4. at + 1 \in 1 .. n
      BY <1>1, <3>2, <3>3
    <3> QED
      BY <3>3, <3>4 DEF Range
  <2>3. StepOK(step)
    BY <1>1, <2>2 DEF CapabilityInv
  <2>4. v \in Values
    BY <1>1, <2>3 DEF Bound, StepOK, RunInv, Values
  <2>5. step.action \in {"click", "type"} => k \in DOMAIN page.elements
    <3> SUFFICES ASSUME step.action \in {"click", "type"} PROVE k \in DOMAIN page.elements
      OBVIOUS
    <3>1. k = Here /\ Here # 0
      BY <2>1, <2>3 DEF StepOK
    <3>2. IsList(page.elements)
      BY <1>1, PageMeans DEF TraceInv
    <3> QED
      BY <3>1, <3>2, LocateMeans DEF Here
  <2> HIDE DEF step, k, v
  <2>6. After(page, step.action, k, v) \in Pages
    BY <1>1, <2>4, <2>5, AfterIsAPage DEF TraceInv
  <2> QED
    BY <2>1, <2>6, ApplicationAssumption DEF ByNow
<1>4. phase' # "compile" /\ result' # "success"
  BY <1>1, <1>2 DEF RunInv
<1>5. TraceInv'
  BY <1>1, <1>2, <1>3, <1>4, TraceStays
<1>6. CapabilityInv'
  BY <1>1, <1>2 DEF CapabilityInv, StepOK, Takes, Names, IsClaim, request
<1>7. RunInv'
  <2>1. at' = at + 1 /\ member' = member
    BY <1>2 DEF StepPerformed, request
  <2>2. at' \in Nat
    BY <1>1, <2>1 DEF RunInv
  <2> QED
    BY <1>1, <1>2, <1>4, <2>1, <2>2 DEF RunInv
<1> QED
  BY <1>4, <1>5, <1>6, <1>7 DEF IInv, RightRecord

\* A step that is not found ends the replay and changes nothing else.
LEMMA NotFoundStep ==
  ASSUME IInv, StepNotFound
  PROVE  IInv'
<1>1. TraceInv /\ RunInv /\ page' = page /\ UNCHANGED <<recording, at>>
  BY DEF IInv, StepNotFound
<1>2. phase' = "ended" /\ result' = "not found"
  BY DEF StepNotFound
<1>3. TraceInv'
  BY <1>1, <1>2, TraceStays DEF TraceInv
<1> QED
  BY <1>1, <1>2, <1>3 DEF IInv, CapabilityInv, RunInv, RightRecord

\* A claim that names the member holds only of a record of theirs.
LEMMA NamedHolds ==
  ASSUME RecordsAreTheirs, page \in Pages, member \in Members,
         NEW c, Names(c), Holds(BoundClaim(c), page)
  PROVE  RecordOf[page] \in {member, Nothing}
<1> DEFINE d == BoundClaim(c)
<1>1. d.of = member /\ d.check = c.check
  BY DEF BoundClaim, Bound, Names, IsClaim
<1>2. /\ Claim(c.check, member).of = member
      /\ Claim(c.check, member).check = c.check
  BY ClaimMeans
<1>3. c.check \in {"text", "field", "url"}
  BY DEF Names
<1>4. Holds(d, page)
  OBVIOUS
<1> HIDE DEF d
<1>5. Holds(Claim(c.check, member), page)
  <2>1. CASE c.check = "text"
    BY <1>1, <1>2, <1>4, <2>1 DEF Holds
  <2>2. CASE c.check = "field"
    BY <1>1, <1>2, <1>4, <2>2 DEF Holds
  <2>3. CASE c.check = "url"
    BY <1>1, <1>2, <1>4, <2>3 DEF Holds
  <2> QED
    BY <1>3, <2>1, <2>2, <2>3
<1> QED
  BY <1>3, <1>5 DEF RecordsAreTheirs

\* Here it is decided: success means that the bound checkpoint holds.
LEMMA AssertStep ==
  ASSUME IInv, AssertCheckpoint
  PROVE  IInv'
<1>1. TraceInv /\ CapabilityInv /\ RunInv /\ phase = "replay"
  BY DEF IInv, AssertCheckpoint
<1>2. page' = page /\ UNCHANGED <<recording, request, at>> /\ phase' = "ended"
  BY DEF AssertCheckpoint
<1>3. TraceInv'
  BY <1>1, <1>2, TraceStays DEF TraceInv
<1>4. RecordsAreTheirs => RightRecord'
  <2> SUFFICES ASSUME RecordsAreTheirs, result' = "success", Takes(capability.steps)
               PROVE  RecordOf[page] \in {member, Nothing}
    BY <1>2 DEF RightRecord, Takes, request
  <2>1. Holds(BoundClaim(capability.checkpoint), page)
    BY DEF AssertCheckpoint
  <2>2. Names(capability.checkpoint) /\ member \in Members /\ page \in Pages
    BY <1>1 DEF CapabilityInv, RunInv, TraceInv
  <2> QED
    BY <2>1, <2>2, NamedHolds
<1> QED
  BY <1>1, <1>2, <1>3, <1>4 DEF IInv, CapabilityInv, RunInv

\* Where nothing changes the invariant stays.
LEMMA StutterStep ==
  ASSUME IInv, UNCHANGED vars
  PROVE  IInv'
<1>1. TraceInv'
  BY DEF IInv, TraceInv, vars, recording, AttemptOK, IsDone
<1>2. CapabilityInv' /\ RunInv'
  BY DEF IInv, CapabilityInv, RunInv, vars, request, StepOK, Takes, Names, IsClaim
<1>3. RecordsAreTheirs => RightRecord'
  BY DEF IInv, RightRecord, vars, request
<1> QED
  BY <1>1, <1>2, <1>3 DEF IInv

-------------------------------------------------------------------------------
(***************************************************************************)
(* The theorems.                                                           *)
(***************************************************************************)
\* The recording, the capability and the run stay in order.
\* (loop.py:_run_one_attempt, compiler.py:compile_capability, generalize.py:apply,
\* engine.py:_run_step)
THEOREM InductiveInvariant == LabelledSpec => []IInv
<1>1. Init => IInv
  BY InitIInv
<1>2. IInv /\ [LabelledNext]_vars => IInv'
  <2> SUFFICES ASSUME IInv, [LabelledNext]_vars PROVE IInv'
    OBVIOUS
  <2>1. CASE Attempt
    BY <2>1, AttemptStep
  <2>2. CASE Compile
    BY <2>2, CompileStep
  <2>3. CASE Label
    BY <2>3, LabelStep
  <2>4. CASE Invoke
    BY <2>4, InvokeStep
  <2>5. CASE StepNotFound
    BY <2>5, NotFoundStep
  <2>6. CASE StepPerformed
    BY <2>6, PerformedStep
  <2>7. CASE AssertCheckpoint
    BY <2>7, AssertStep
  <2>8. CASE UNCHANGED vars
    BY <2>8, StutterStep
  <2> QED
    BY <2>1, <2>2, <2>3, <2>4, <2>5, <2>6, <2>7, <2>8 DEF LabelledNext, Next
<1> QED
  BY <1>1, <1>2, PTL DEF LabelledSpec

\* While a capability waits for its replay and during it: if it takes the
\* caller's member, its checkpoint names them, whatever was recorded and however
\* it was labelled.  Of the application's pages nothing is assumed.
\* (_bind_checkpoint_to_record, generalize.py:apply)
THEOREM CheckpointNamesTheMember == LabelledSpec => []CapabilityInv
<1>1. IInv => CapabilityInv
  BY DEF IInv
<1> QED
  BY <1>1, InductiveInvariant, PTL

\* Where records alone show their members' values, a capability that takes a
\* member never reports success on the record of another one.
\* (_bind_checkpoint_to_record, engine.py:_assert_checkpoint)
THEOREM SuccessIsOnTheRightRecord ==
  ASSUME RecordsAreTheirs
  PROVE  LabelledSpec => []RightRecord
<1>1. IInv => RightRecord
  BY DEF IInv
<1> QED
  BY <1>1, InductiveInvariant, PTL

-------------------------------------------------------------------------------
(***************************************************************************)
(* The second invariant: what a recording that can be followed is, and     *)
(* what a replay of it does.                                               *)
(***************************************************************************)
\* An attempt that was made where it was decided, and did what it says.
AsDecided(a) ==
  LET p == a.intent.plan
  IN /\ AttemptOK(a)
     /\ Meant(a.intent, a.before)
     /\ a.on = a.before
     /\ a.after = After(a.before, p.action, a.intent.ref, p.value)
     /\ p.action = "type" => a.before.elements[a.intent.ref].role = "textbox"
     /\ p.action = "read" => a.got = ReadOf(a.before, a.intent.ref)
     /\ p.action # "read" => a.got = Nothing

\* Where some attempts lead.
ReachedBy(kept) == IF kept = <<>> THEN Home ELSE Last(kept).after

\* Each was made where the one before it had led.
Chained(kept) ==
  /\ IsList(kept)
  /\ \A k \in 1 .. Len(kept) :
       /\ AsDecided(kept[k])
       /\ kept[k].before = IF k = 1 THEN Home ELSE kept[k - 1].after

\* They end with the one `done` among them.
EndsDone(kept) ==
  /\ kept # <<>>
  /\ \A k \in 1 .. Len(kept) : IsDone(kept[k]) <=> k = Len(kept)

LastExecuted(n) == n \in Executed /\ \A o \in Executed : o <= n

\* What was executed last is kept, or repeats what is.
KeptTracks ==
  /\ Kept # <<>> => \E n \in Executed : LastExecuted(n)
  /\ \A n \in Executed : LastExecuted(n) =>
       /\ Kept # <<>>
       /\ SameAction(Last(Kept), trace[n])
       /\ RepeatsAreIdle => /\ trace[n].after = Last(Kept).after
                            /\ trace[n].got = Last(Kept).got

\* What was read is read by what is kept.
ReadsKept ==
  RepeatsAreIdle => \A n \in Executed : \E b \in Range(Kept) : b.got = trace[n].got

RecordInv ==
  /\ phase = "record" /\ stage = "retry" => Last(trace).ran \/ Last(trace).before = page
  /\ \A a \in Range(trace) : Meant(a.intent, a.before)
  /\ KeptTracks
  /\ ReadsKept
  /\ RepeatsAreIdle => /\ Chained(Kept)
                       /\ phase \in {"record", "compile"} => page = ReachedBy(Kept)

Finished == phase # "record" /\ result # "dead end"

DoneInv ==
  /\ phase # "ended" => result = Nothing
  /\ Finished /\ OneDone => EndsDone(Kept) /\ Last(Kept) = Last(trace)

\* A capability does what was kept, but for the `done`.
Performs(steps, kept) ==
  /\ Len(steps) = Len(kept) - 1
  /\ \A k \in 1 .. Len(kept) - 1 :
       /\ steps[k].action = kept[k].intent.plan.action
       /\ steps[k].target = TargetOf(kept[k])
       /\ steps[k].value = StepValue(kept[k])

PerformsInv ==
  phase \in {"compiled", "labelled", "replay"} \/ Replayed =>
    (OneDone => Performs(capability.steps, Kept))

\* The replay has come to where the recording was, and read what stands where
\* the recording read.
FollowsInv ==
  /\ phase # "ended" /\ phase # "replay" => at = 0 /\ outputs = <<>>
  /\ phase = "replay" \/ Replayed =>
       /\ member \in Members
       /\ Followable =>
            /\ at < Len(Kept)
            /\ result # "not found"
            /\ IsList(outputs) /\ Len(outputs) = at
            /\ \A i \in 1 .. at :
                 Kept[i].intent.plan.action = "read" =>
                   outputs[i] = ReadOf(Seen(Kept[i].before), Kept[i].intent.ref)
            /\ page = Seen(Kept[at + 1].before)
            /\ result \in {"success", "checkpoint failed"} => at + 1 = Len(Kept)

FollowInv == RecordInv /\ DoneInv /\ PerformsInv /\ FollowsInv

\* A label there is for an element is before it, and no value.
LEMMA AnchorMeans ==
  ASSUME NEW elements, IsList(elements), NEW k \in DOMAIN elements,
         AnchorOffset(elements, k) # 0
  PROVE  \E label \in 1 .. k - 1 :
           /\ label \in DOMAIN elements
           /\ AnchorOffset(elements, k) = k - label
           /\ k - AnchorOffset(elements, k) = label
           /\ elements[label].name \notin ValueShaped
           /\ elements[label].name # Nothing
<1> DEFINE L == {j \in 1 .. k - 1 : elements[j].name \notin ValueShaped \cup {Nothing}}
           label == IF L # {} THEN Max(L) ELSE 0
<1>1. AnchorOffset(elements, k) =
        IF elements[k].name \in ValueShaped /\ label # 0 THEN k - label ELSE 0
  BY DEF AnchorOffset, SelectLastInSubSeq
<1>2. PICK n \in Nat : n = Len(elements) /\ DOMAIN elements = 1 .. n
  BY ListMeans
<1>3. k - 1 \in Nat /\ L \in SUBSET (1 .. k - 1)
  BY <1>2
<1>4. label # 0 /\ AnchorOffset(elements, k) = k - label
  BY <1>1
<1>5. label \in L
  BY <1>3, <1>4, GreatestExists
<1>6. label \in 1 .. k - 1 /\ elements[label].name \notin ValueShaped \cup {Nothing}
  BY <1>5
<1> HIDE DEF label, L
<1>7. label \in 1 .. n /\ k - (k - label) = label
  BY <1>2, <1>6
<1> QED
  BY <1>2, <1>4, <1>6, <1>7

\* A position is found by how many are before it.
LEMMA NthMeans ==
  ASSUME NEW n \in Nat, NEW S \in SUBSET (1 .. n), NEW k \in S
  PROVE  Nth(S, NumberBefore(S, k)) = k
<1> DEFINE js == {i \in S : NumberBefore(S, i) = NumberBefore(S, k)}
<1>1. js = {k}
  <2>1. \A i \in S : NumberBefore(S, i) = NumberBefore(S, k) => i = k
    BY OccurrenceIsOne
  <2> QED
    BY <2>1
<1>2. Nth(S, NumberBefore(S, k)) = FirstOf(js)
  BY DEF Nth, NumberBefore
<1>3. Min({k}) = k
  BY MinOfOne
<1> QED
  BY <1>1, <1>2, <1>3 DEF FirstOf

\* On a page with the same elements, but for the values among them, a target is
\* found where it was described: past its label, or by a name that is the same.
LEMMA TargetIsFound ==
  ASSUME NEW a, ~IsDone(a), NEW p, p = a.before, NEW k, k = a.intent.ref,
         IsList(p.elements), k \in DOMAIN p.elements,
         NEW q, IsList(q.elements), Alike(p, q),
         \A j \in DOMAIN p.elements :
           LET label == k - AnchorOffset(p.elements, k)
           IN label # k /\ p.elements[j].name = p.elements[label].name => j = label,
         \/ AnchorOffset(p.elements, k) # 0
         \/ q.elements[k].name = p.elements[k].name
  PROVE  Locate(TargetOf(a), q.elements) = k
<1> DEFINE old == p.elements
           new == q.elements
           offset == AnchorOffset(old, k)
           t == TargetOf(a)
           candidates == {j \in DOMAIN new : new[j].role = t.role}
           anchored == {j \in candidates : PastAnchor(t, j, new)}
           named == {j \in candidates : new[j].name = t.name}
           exact == Nth(named, t.index)
<1>1. PICK n \in Nat : n = Len(old) /\ DOMAIN old = 1 .. n
  BY ListMeans
<1>2. n = Len(new) /\ DOMAIN new = 1 .. n
  BY <1>1, ListMeans DEF Alike
<1>3. \A i \in 1 .. n : /\ new[i].role = old[i].role
                        /\ new[i].name # old[i].name => old[i].name \in ValueShaped
                        /\ new[i].name = old[i].name =>
                             \A j \in 1 .. n : new[j].name = old[i].name <=> old[j].name = old[i].name
  BY <1>1 DEF Alike
<1>4. t = [role |-> old[k].role, name |-> old[k].name,
           index |-> MatchIndex(old, k), offset |-> offset,
           anchor |-> IF offset = 0 THEN Nothing ELSE old[k - offset].name]
  BY DEF TargetOf
<1>5. /\ t.role = old[k].role /\ t.name = old[k].name /\ t.index = MatchIndex(old, k)
      /\ t.offset = offset
      /\ t.anchor = IF offset = 0 THEN Nothing ELSE old[k - offset].name
  BY <1>4
<1>6. k \in 1 .. n
  BY <1>1
<1>7. Locate(t, new) =
        IF t.anchor # Nothing /\ anchored # {} THEN FirstOf(anchored)
        ELSE IF exact # 0 THEN exact
        ELSE Nth({j \in candidates : Occurs(t.name, new[j].name)}, t.index)
  BY DEF Locate
<1>8. CASE offset # 0
  <2>1. PICK label \in 1 .. k - 1 : /\ label \in DOMAIN old
                                    /\ offset = k - label /\ k - offset = label
                                    /\ old[label].name \notin ValueShaped
                                    /\ old[label].name # Nothing
    BY <1>8, AnchorMeans
  <2>2. label \in 1 .. n /\ label # k /\ k > offset
    BY <1>1, <1>6, <2>1
  <2>3. t.anchor = old[label].name
    BY <1>5, <1>8, <2>1
  <2>4. new[label].name = old[label].name
    BY <1>3, <2>1, <2>2
  <2>5. \A j \in 1 .. n : new[j].name = old[label].name => j = label
    <3>1. \A j \in 1 .. n : old[j].name = old[label].name => j = label
      BY <1>1, <2>1, <2>2
    <3> QED
      BY <1>3, <2>2, <2>4, <3>1
  <2>6. k \in anchored
    BY <1>2, <1>3, <1>5, <1>6, <2>1, <2>2, <2>3, <2>4 DEF PastAnchor
  <2>7. \A j \in anchored : j = k
    <3> SUFFICES ASSUME NEW j \in anchored PROVE j = k
      OBVIOUS
    <3>1. j \in 1 .. n /\ PastAnchor(t, j, new)
      BY <1>2
    <3>2. j > offset /\ new[j - offset].name = old[label].name
      BY <1>5, <2>3, <3>1 DEF PastAnchor
    <3> HIDE DEF offset, t, old, new
    <3>3. j - offset \in 1 .. n
      BY <1>6, <2>1, <3>1, <3>2
    <3>4. j - offset = label
      BY <2>5, <3>2, <3>3
    <3> QED
      BY <1>6, <2>1, <3>1, <3>4
  <2>8. anchored = {k}
    BY <2>6, <2>7
  <2>9. Min({k}) = k
    BY <1>6, MinOfOne
  <2> HIDE DEF anchored, exact, candidates, t, old, new
  <2> QED
    BY <1>7, <2>1, <2>3, <2>8, <2>9 DEF FirstOf, t, new
<1>9. CASE offset = 0
  <2>1. t.anchor = Nothing
    BY <1>5, <1>9
  <2>2. new[k].name = old[k].name
    BY <1>9
  <2>3. named = {j \in 1 .. n : old[j].role = old[k].role /\ old[j].name = old[k].name}
    <3>1. named = {j \in 1 .. n : new[j].role = old[k].role /\ new[j].name = old[k].name}
      BY <1>2, <1>5
    <3>2. \A j \in 1 .. n : /\ new[j].role = old[j].role
                            /\ new[j].name = old[k].name <=> old[j].name = old[k].name
      BY <1>3, <1>6, <2>2
    <3> HIDE DEF named, old, new
    <3> QED
      BY <3>1, <3>2
  <2>4. t.index = NumberBefore(named, k)
    <3>1. {j \in 1 .. k - 1 : old[j].role = old[k].role /\ old[j].name = old[k].name}
            = {j \in named : j < k}
      <4>1. \A j : j \in 1 .. k - 1 <=> j \in 1 .. n /\ j < k
        BY <1>6
      <4> HIDE DEF named
      <4> QED
        BY <2>3, <4>1
    <3> QED
      BY <1>5, <3>1 DEF MatchIndex, NumberBefore
  <2>5. named \in SUBSET (1 .. n) /\ k \in named
    BY <1>6, <2>3
  <2> HIDE DEF named
  <2>6. exact = k
    BY <2>4, <2>5, NthMeans
  <2>7. k # 0
    BY <1>6
  <2> HIDE DEF exact, candidates, anchored, t, old, new
  <2> QED
    BY <1>7, <2>1, <2>6, <2>7 DEF t, new
<1> QED
  BY <1>8, <1>9

\* An application is regular page by page, and member by member.
LEMMA RegularMeans ==
  ASSUME ApplicationIsRegular, NEW p \in Pages, NEW m \in Members
  PROVE  /\ Renewed[p] \in Pages /\ Renewed[Renewed[p]] = Renewed[p]
         /\ Mirror[p][m] \in Pages /\ Mirror[p][Example] = p
         /\ Alike(p, Mirror[p][m]) /\ Alike(p, Renewed[Mirror[p][m]])
         /\ Mirror[Home][m] = Home /\ Renewed[Home] = Home
BY ApplicationAssumption DEF ApplicationIsRegular

\* What is done to a page leads to the same whether the figures in it have changed.
LEMMA LeadsMeans ==
  ASSUME ApplicationIsRegular, NEW p \in Pages, NEW action \in {"click", "type"},
         NEW k \in DOMAIN p.elements, NEW v \in Values
  PROVE  Renewed[Leads[Renewed[p]][action][k][v]] = Renewed[Leads[p][action][k][v]]
BY DEF ApplicationIsRegular

\* A recorded page is seen with the same elements, by now and for the member.
LEMMA SeenMeans ==
  ASSUME ApplicationIsRegular, member \in Members, NEW p \in Pages
  PROVE  /\ Seen(p) \in Pages /\ Alike(p, Seen(p))
         /\ ~ForAnother => Seen(p) = p
         /\ Seen(Home) = Home
<1>1. /\ Mirror[p][member] \in Pages /\ Mirror[p][Example] = p
      /\ Alike(p, Mirror[p][member]) /\ Alike(p, Renewed[Mirror[p][member]])
      /\ Mirror[Home][member] = Home /\ Renewed[Home] = Home
  BY RegularMeans
<1>2. Renewed[Mirror[p][member]] \in Pages
  BY <1>1, RegularMeans
<1> QED
  BY <1>1, <1>2 DEF Seen, ByNow, ForAnother

\* What is told to the page for the member is a value.
LEMMA ToldMeans ==
  ASSUME member \in Members, NEW v \in Values
  PROVE  Told(v) \in Values /\ (member = Example => Told(v) = v)
BY DEF Told, Values

\* Pages alike have the same positions.
LEMMA AlikeMeans ==
  ASSUME NEW p \in Pages, NEW q \in Pages, Alike(p, q)
  PROVE  /\ DOMAIN q.elements = DOMAIN p.elements
         /\ \A k \in DOMAIN p.elements :
              /\ q.elements[k].role = p.elements[k].role
              /\ p.elements[k].name \notin ValueShaped =>
                   q.elements[k].name = p.elements[k].name
<1>1. IsList(p.elements) /\ IsList(q.elements)
  BY PageMeans
<1>2. DOMAIN q.elements = DOMAIN p.elements
  BY <1>1, ListMeans DEF Alike
<1> QED
  BY <1>2 DEF Alike

\* What an attempt led to, done for the member: its mirror image.
LEMMA MirrorAfter ==
  ASSUME ApplicationIsRegular, member \in Members,
         NEW a, AsDecided(a), ForAnother => GoesAsRecorded(a)
  PROVE  /\ a.after \in Pages /\ Told(a.intent.plan.value) \in Values
         /\ After(Mirror[a.before][member], a.intent.plan.action, a.intent.ref,
                  Told(a.intent.plan.value))
              = Mirror[a.after][member]
<1> DEFINE p == a.before
           action == a.intent.plan.action
           k == a.intent.ref
           v == Told(a.intent.plan.value)
           mp == Mirror[p][member]
<1>1. /\ p \in Pages /\ a.intent.plan \in Plans
      /\ action # "done" => k \in DOMAIN p.elements
      /\ a.after = After(p, action, k, a.intent.plan.value)
      /\ a.on = p
  BY DEF AsDecided, AttemptOK, IsDone
<1>2. v \in Values /\ (member = Example => v = a.intent.plan.value)
  BY <1>1, PlanMeans, ToldMeans
<1>3. Mirror[p][Example] = p
  BY <1>1, ExampleAssumption, RegularMeans
<1>4. a.after \in Pages
  <2>1. action \in {"click", "type"} => k \in DOMAIN p.elements /\ a.intent.plan.value \in Values
    BY <1>1, PlanMeans
  <2> QED
    BY <1>1, <2>1, AfterIsAPage
<1>5. After(mp, action, k, v) = Mirror[a.after][member]
  <2>1. CASE ForAnother
    BY <1>1, <2>1 DEF GoesAsRecorded
  <2>2. CASE ~ForAnother
    <3>1. member = Example
      BY <2>2 DEF ForAnother
    <3>2. Mirror[a.after][Example] = a.after
      BY <1>4, RegularMeans
    <3> QED
      BY <1>1, <1>2, <1>3, <3>1, <3>2
  <2> QED
    BY <2>1, <2>2
<1> QED
  BY <1>2, <1>4, <1>5

\* Done for the member what the recording did leads where the recording led.
LEMMA SeenAfter ==
  ASSUME ApplicationIsRegular, member \in Members,
         NEW a, AsDecided(a), ForAnother => GoesAsRecorded(a)
  PROVE  ByNow(After(Seen(a.before), a.intent.plan.action, a.intent.ref,
                     Told(a.intent.plan.value)))
           = Seen(a.after)
<1> DEFINE p == a.before
           action == a.intent.plan.action
           k == a.intent.ref
           v == Told(a.intent.plan.value)
           mp == Mirror[p][member]
<1>1. /\ p \in Pages /\ a.intent.plan \in Plans
      /\ action # "done" => k \in DOMAIN p.elements
  BY DEF AsDecided, AttemptOK, IsDone
<1>2. v \in Values
  BY MirrorAfter
<1>3. /\ mp \in Pages /\ Alike(p, mp)
      /\ Renewed[Renewed[mp]] = Renewed[mp]
  BY <1>1, RegularMeans
<1>5. After(mp, action, k, v) = Mirror[a.after][member]
  BY MirrorAfter
<1> HIDE DEF p, action, k, v, mp
<1>6. Renewed[After(Renewed[mp], action, k, v)] = Renewed[After(mp, action, k, v)]
  <2>1. CASE action \in {"click", "type"}
    <3>1. k \in DOMAIN mp.elements
      BY <1>1, <1>3, <2>1, AlikeMeans
    <3>2. Renewed[Leads[Renewed[mp]][action][k][v]] = Renewed[Leads[mp][action][k][v]]
      BY <1>2, <1>3, <2>1, <3>1, LeadsMeans
    <3> QED
      BY <2>1, <3>2 DEF After
  <2>2. CASE action \notin {"click", "type"}
    BY <1>3, <2>2 DEF After
  <2> QED
    BY <2>1, <2>2
<1>7. CASE renewed
  <2>1. Seen(p) = Renewed[mp] /\ Seen(a.after) = Renewed[Mirror[a.after][member]]
    BY <1>7 DEF Seen, ByNow, mp
  <2>2. ByNow(After(Seen(p), action, k, v)) = Renewed[After(Renewed[mp], action, k, v)]
    BY <1>7, <2>1 DEF ByNow
  <2> QED
    BY <1>5, <1>6, <2>1, <2>2 DEF p, action, k, v
<1>8. CASE ~renewed
  <2>1. Seen(p) = mp /\ Seen(a.after) = Mirror[a.after][member]
    BY <1>8 DEF Seen, ByNow, mp
  <2>2. ByNow(After(Seen(p), action, k, v)) = After(mp, action, k, v)
    BY <1>8, <2>1 DEF ByNow
  <2> QED
    BY <1>5, <2>1, <2>2 DEF p, action, k, v
<1> QED
  BY <1>7, <1>8

\* What an attempt acted on is found on the page the member sees.
LEMMA TargetIsSeen ==
  ASSUME ApplicationIsRegular, PlansAreRegular, member \in Members,
         NEW a, AsDecided(a), ~IsDone(a), ForAnother => GoesAsRecorded(a)
  PROVE  Locate(TargetOf(a), Seen(a.before).elements) = a.intent.ref
<1> DEFINE p == a.before
           q == Seen(p)
           k == a.intent.ref
<1>1. p \in Pages /\ k \in DOMAIN p.elements /\ a.intent.plan \in Plans
  BY DEF AsDecided, AttemptOK
<1>2. q \in Pages /\ Alike(p, q) /\ (~ForAnother => q = p)
  BY <1>1, SeenMeans
<1>3. IsList(p.elements) /\ IsList(q.elements)
  BY <1>1, <1>2, PageMeans
<1>4. \A j \in DOMAIN p.elements :
        LET label == k - AnchorOffset(p.elements, k)
        IN label # k /\ p.elements[j].name = p.elements[label].name => j = label
  BY <1>1 DEF ApplicationIsRegular
<1>5. AnchorOffset(p.elements, k) # 0 \/ q.elements[k].name = p.elements[k].name
  <2>1. CASE a.intent.plan.action \in {"click", "type"}
    <3>1. p.elements[k].name \notin ValueShaped
      BY <1>1, <2>1 DEF AsDecided, Meant, PlansAreRegular
    <3> QED
      BY <1>1, <1>2, <3>1, AlikeMeans
  <2>2. CASE a.intent.plan.action = "read"
    BY <1>2, <2>2 DEF GoesAsRecorded
  <2>3. a.intent.plan.action \in {"click", "type", "read"}
    BY <1>1, PlanMeans DEF IsDone
  <2> QED
    BY <2>1, <2>2, <2>3
<1> HIDE DEF p, q, k
<1> QED
  BY <1>1, <1>2, <1>3, <1>4, <1>5, TargetIsFound DEF p, q, k

\* A step of a capability is bound to what is told for the member.
LEMMA BoundMeans ==
  ASSUME PlansAreRegular, member \in Members, NEW a, AttemptOK(a)
  PROVE  Bound(StepValue(a)) = Told(a.intent.plan.value)
<1>1. a.intent.plan \in Plans /\ a.intent.plan.value # PARAM
  BY PlanMeans DEF AttemptOK
<1>2. a.intent.plan.action # "type" => a.intent.plan.value # Example
  BY <1>1 DEF PlansAreRegular
<1> QED
  BY <1>1, <1>2 DEF Bound, StepValue, Told

\* A recording with one attempt more.
LEMMA TraceGrows ==
  ASSUME IsList(trace), NEW a, trace' = Append(trace, a), NEW n \in Nat, n = Len(trace),
         NEW m, m = n + 1
  PROVE  /\ DOMAIN trace = 1 .. n /\ DOMAIN trace' = 1 .. m
         /\ \A k \in 1 .. n : trace'[k] = trace[k]
         /\ trace'[m] = a /\ Last(trace') = a
         /\ IsList(trace') /\ Range(trace') = Range(trace) \cup {a}
         /\ Kept' = Keeping(Kept, a)
         /\ Executed' = Executed \cup (IF a.ran THEN {m} ELSE {})
         /\ Executed \subseteq 1 .. n
         /\ RepeatsAreIdle' => RepeatsAreIdle
<1>1. /\ IsList(trace') /\ Range(trace') = Range(trace) \cup {a} /\ Last(trace') = a
  BY Appended
<1>2. /\ Len(trace') = m /\ \A k \in 1 .. n : trace'[k] = trace[k]
      /\ trace'[m] = a
  BY AppendProperties DEF IsList
<1>3. DOMAIN trace = 1 .. n /\ DOMAIN trace' = 1 .. m
  BY <1>1, <1>2, ListMeans
<1>4. Kept' = Keeping(Kept, a)
  BY KeptGrows DEF Kept
<1>5. \A k : k \in 1 .. m <=> k \in 1 .. n \/ k = m
  OBVIOUS
<1>6. Executed' = Executed \cup (IF a.ran THEN {m} ELSE {}) /\ Executed \subseteq 1 .. n
  BY <1>2, <1>3, <1>5 DEF Executed
<1>7. ASSUME RepeatsAreIdle' PROVE RepeatsAreIdle
  <2> SUFFICES ASSUME NEW j \in Executed, NEW k \in Executed, j < k,
                      \A o \in Executed : o <= j \/ k <= o,
                      SameAction(trace[j], trace[k])
               PROVE  trace[k].after = trace[j].after /\ trace[k].got = trace[j].got
    BY DEF RepeatsAreIdle
  <2>1. j \in Executed' /\ k \in Executed'
    BY <1>6
  <2>2. \A o \in Executed' : o <= j \/ k <= o
    <3>1. k <= m
      BY <1>6
    <3> QED
      BY <1>6, <3>1
  <2>3. trace'[j] = trace[j] /\ trace'[k] = trace[k]
    BY <1>2, <1>6
  <2>4. SameAction(trace'[j], trace'[k]) =>
          trace'[k].after = trace'[j].after /\ trace'[k].got = trace'[j].got
    BY <1>7, <2>1, <2>2 DEF RepeatsAreIdle, SameAction
  <2> QED
    BY <2>3, <2>4
<1> QED
  BY <1>1, <1>2, <1>3, <1>4, <1>6, <1>7

\* One attempt more, made where those before it had led.
LEMMA ChainGrows ==
  ASSUME NEW kept, Chained(kept), NEW a, AsDecided(a), a.before = ReachedBy(kept)
  PROVE  Chained(Append(kept, a)) /\ ReachedBy(Append(kept, a)) = a.after
<1> DEFINE more == Append(kept, a)
<1>1. PICK n \in Nat : n = Len(kept)
  BY ListMeans DEF Chained
<1>2. IsList(more) /\ more # <<>> /\ Last(more) = a
  BY Appended DEF Chained
<1>3. Len(more) = n + 1 /\ more[n + 1] = a /\ \A k \in 1 .. n : more[k] = kept[k]
  BY <1>1, AppendProperties DEF Chained, IsList
<1>4. ASSUME NEW k \in 1 .. n
      PROVE  AsDecided(more[k]) /\ more[k].before = IF k = 1 THEN Home ELSE more[k - 1].after
  <2>1. AsDecided(kept[k]) /\ kept[k].before = IF k = 1 THEN Home ELSE kept[k - 1].after
    BY <1>1 DEF Chained
  <2>2. k # 1 => k - 1 \in 1 .. n
    OBVIOUS
  <2> HIDE DEF more
  <2> QED
    BY <1>3, <2>1, <2>2
<1>5. ASSUME NEW k, k = n + 1
      PROVE  AsDecided(more[k]) /\ more[k].before = IF k = 1 THEN Home ELSE more[k - 1].after
  <2>1. more[k] = a
    BY <1>3, <1>5
  <2>2. CASE n = 0
    <3>1. kept = <<>>
      <4>1. kept \in Seq(Range(kept)) /\ Len(kept) = 0
        BY <1>1, <2>2 DEF Chained, IsList
      <4> QED
        BY <4>1, EmptySeq
    <3>2. k = 1
      BY <1>5, <2>2
    <3> HIDE DEF more
    <3> QED
      BY <2>1, <3>1, <3>2 DEF ReachedBy
  <2>3. CASE n # 0
    <3>1. kept # <<>> /\ Last(kept) = kept[n]
      BY <1>1, <2>3, EmptySeq DEF Chained, IsList, Last
    <3>2. k # 1 /\ k - 1 = n /\ n \in 1 .. n
      BY <1>5, <2>3
    <3>3. more[n] = kept[n]
      BY <1>3, <3>2
    <3> HIDE DEF more
    <3> QED
      BY <2>1, <3>1, <3>2, <3>3 DEF ReachedBy
  <2> QED
    BY <2>2, <2>3
<1>6. \A k \in 1 .. n + 1 : k \in 1 .. n \/ k = n + 1
  OBVIOUS
<1> HIDE DEF more
<1>7. Chained(more)
  BY <1>2, <1>3, <1>4, <1>5, <1>6 DEF Chained
<1> QED
  BY <1>2, <1>7 DEF ReachedBy, more

\* An attempt that ran where it was decided is one that does what it says; and
\* that is where every attempt is made that does not repeat what ran.
LEMMA TriedMeans ==
  ASSUME TraceInv, RecordInv, phase = "record",
         NEW i \in Stated, NEW ran \in BOOLEAN, NEW held \in BOOLEAN,
         ran => Found(i), stage # "retry" => Meant(i, page),
         i.plan \in Plans, Snapshot \in Pages,
         i.plan.action # "done" => i.ref \in DOMAIN Snapshot.elements
  PROVE  LET a == Tried(i, ran, held)
         IN /\ a.intent = i /\ a.ran = ran /\ a.held = held /\ a.before = Snapshot
            /\ a.after = Reached(i, ran)
            /\ AttemptOK(a) /\ Meant(a.intent, a.before)
            /\ ran /\ a.before = page => AsDecided(a)
            /\ \/ a.before = page
               \/ stage = "retry" /\ Last(trace).ran /\ SameAction(Last(trace), a)
<1> DEFINE a == Tried(i, ran, held)
<1>1. /\ a.intent = i /\ a.ran = ran /\ a.held = held /\ a.before = Snapshot
      /\ a.after = Reached(i, ran) /\ a.on = page
      /\ a.got = IF ran /\ i.plan.action = "read" THEN ReadOf(Snapshot, i.ref) ELSE Nothing
  BY DEF Tried
<1> HIDE DEF a
<1>2. AttemptOK(a)
  BY <1>1 DEF AttemptOK, IsDone
<1>3. stage = "retry" => /\ i = Last(trace).intent /\ Snapshot = Last(trace).before
                         /\ Last(trace) \in Range(trace)
  BY LastMeans DEF TraceInv, Stated, Snapshot
<1>4. stage # "retry" => Snapshot = page
  BY DEF Snapshot
<1>5. Meant(a.intent, a.before)
  BY <1>1, <1>3, <1>4 DEF RecordInv
<1>6. ASSUME ran, a.before = page PROVE AsDecided(a)
  <2>1. a.after = After(a.before, i.plan.action, i.ref, i.plan.value)
    BY <1>1, <1>6 DEF Reached
  <2>2. i.plan.action = "type" => page.elements[i.ref].role = "textbox"
    BY <1>6 DEF Found
  <2> QED
    BY <1>1, <1>2, <1>5, <1>6, <2>1, <2>2 DEF AsDecided
<1>7. a.before = page \/ (stage = "retry" /\ Last(trace).ran /\ SameAction(Last(trace), a))
  <2>1. CASE stage = "retry"
    BY <1>1, <1>3, <2>1 DEF RecordInv, SameAction
  <2>2. CASE stage # "retry"
    BY <1>1, <1>4, <2>2
  <2> QED
    BY <2>1, <2>2
<1> QED
  BY <1>1, <1>2, <1>5, <1>6, <1>7 DEF a

\* What ran last, if it is what was tried last.
LEMMA LastIsLastExecuted ==
  ASSUME IsList(trace), trace # <<>>, Last(trace).ran
  PROVE  LastExecuted(Len(trace)) /\ trace[Len(trace)] = Last(trace)
<1>1. PICK n \in Nat : n = Len(trace) /\ DOMAIN trace = 1 .. n
  BY ListMeans
<1>2. n # 0
  BY <1>1, EmptySeq DEF IsList
<1>3. Last(trace) = trace[n]
  BY <1>1 DEF Last
<1>4. n \in Executed /\ \A o \in Executed : o <= n
  BY <1>1, <1>2, <1>3 DEF Executed
<1> QED
  BY <1>1, <1>3, <1>4 DEF LastExecuted

\* It is the same to do the same as the same.
LEMMA SameActionMeans ==
  ASSUME NEW a, NEW b, NEW c
  PROVE  /\ SameAction(a, a)
         /\ SameAction(a, b) => SameAction(b, a)
         /\ SameAction(a, b) /\ SameAction(b, c) => SameAction(a, c)
BY DEF SameAction

\* What an attempt that did not run leaves of the record.
LEMMA IdleAttempt ==
  ASSUME TraceInv, RecordInv, phase = "record",
         NEW a, ~a.ran, trace' = Append(trace, a), page' = page
  PROVE  /\ KeptTracks' /\ ReadsKept'
         /\ RepeatsAreIdle' => Chained(Kept') /\ page' = ReachedBy(Kept')
<1>1. PICK n \in Nat : n = Len(trace)
  BY ListMeans DEF TraceInv
<1>2. /\ \A k \in Executed : trace'[k] = trace[k]
      /\ Kept' = Keeping(Kept, a) /\ Executed' = Executed
      /\ RepeatsAreIdle' => RepeatsAreIdle
  BY <1>1, TraceGrows DEF TraceInv
<1>3. Kept' = Kept
  BY <1>2 DEF Keeping
<1>4. \A k : LastExecuted(k)' <=> LastExecuted(k)
  BY <1>2 DEF LastExecuted
<1>5. KeptTracks'
  <2>1. Kept' # <<>> => \E k \in Executed' : LastExecuted(k)'
    BY <1>2, <1>3, <1>4 DEF RecordInv, KeptTracks
  <2>2. ASSUME NEW k \in Executed', LastExecuted(k)'
        PROVE  /\ Kept' # <<>>
               /\ SameAction(Last(Kept'), trace'[k])
               /\ RepeatsAreIdle' => /\ trace'[k].after = Last(Kept').after
                                     /\ trace'[k].got = Last(Kept').got
    BY <1>2, <1>3, <1>4, <2>2 DEF RecordInv, KeptTracks
  <2> QED
    BY <2>1, <2>2 DEF KeptTracks, SameAction, LastExecuted
<1>6. ReadsKept'
  BY <1>2, <1>3 DEF RecordInv, ReadsKept
<1> QED
  BY <1>2, <1>3, <1>5, <1>6 DEF RecordInv

\* And what one that did.
LEMMA BusyAttempt ==
  ASSUME TraceInv, RecordInv, phase = "record",
         NEW a, a.ran, trace' = Append(trace, a), page' = a.after,
         a.before = page => AsDecided(a),
         \/ a.before = page
         \/ stage = "retry" /\ Last(trace).ran /\ SameAction(Last(trace), a)
  PROVE  /\ KeptTracks' /\ ReadsKept'
         /\ RepeatsAreIdle' => Chained(Kept') /\ page' = ReachedBy(Kept')
<1>1. PICK n \in Nat : n = Len(trace)
  BY ListMeans DEF TraceInv
<1>2. PICK m : m = n + 1
  OBVIOUS
<1>3. /\ \A k \in Executed : trace'[k] = trace[k]
      /\ trace'[m] = a
      /\ Kept' = Keeping(Kept, a) /\ Executed' = Executed \cup {m}
      /\ \A k \in Executed : k < m /\ k \in Nat
      /\ RepeatsAreIdle' => RepeatsAreIdle
  BY <1>1, <1>2, TraceGrows DEF TraceInv
<1>4. \A k : LastExecuted(k)' <=> k = m
  BY <1>1, <1>2, <1>3 DEF LastExecuted
<1>5. ASSUME Kept' # <<>>, SameAction(Last(Kept'), a),
             RepeatsAreIdle' => a.after = Last(Kept').after /\ a.got = Last(Kept').got
      PROVE  KeptTracks'
  <2>1. \E k \in Executed' : LastExecuted(k)'
    <3>1. m \in Executed' /\ LastExecuted(m)'
      BY <1>3, <1>4
    <3> QED
      BY <3>1
  <2>2. ASSUME NEW k \in Executed', LastExecuted(k)'
        PROVE  /\ Kept' # <<>>
               /\ SameAction(Last(Kept'), trace'[k])
               /\ RepeatsAreIdle' => /\ trace'[k].after = Last(Kept').after
                                     /\ trace'[k].got = Last(Kept').got
    <3>1. k = m /\ trace'[k] = a
      BY <1>3, <1>4, <2>2
    <3> QED
      BY <1>5, <3>1
  <2> QED
    BY <2>1, <2>2 DEF KeptTracks, SameAction, LastExecuted
<1>6. IsList(Kept)
  BY KeptMeans DEF Kept, KeptOf, TraceInv
<1>7. ASSUME Range(Kept) \subseteq Range(Kept'),
             RepeatsAreIdle' => \E b \in Range(Kept') : b.got = a.got
      PROVE  ReadsKept'
  <2> SUFFICES ASSUME RepeatsAreIdle', NEW k \in Executed'
               PROVE  \E b \in Range(Kept') : b.got = trace'[k].got
    BY DEF ReadsKept
  <2>1. CASE k = m
    BY <1>3, <1>7, <2>1
  <2>2. CASE k \in Executed
    BY <1>3, <1>7, <2>2 DEF RecordInv, ReadsKept
  <2> QED
    BY <1>3, <2>1, <2>2
<1>8. CASE Kept = <<>> \/ ~SameAction(Last(Kept), a)
  <2>1. Kept' = Append(Kept, a)
    BY <1>3, <1>8 DEF Keeping
  <2>2. Kept' # <<>> /\ Last(Kept') = a /\ Range(Kept') = Range(Kept) \cup {a}
    BY <1>6, <2>1, Appended
  <2>6. ReadsKept'
    BY <1>7, <2>2
  <2>3. a.before = page
    <3> SUFFICES ASSUME stage = "retry", Last(trace).ran, SameAction(Last(trace), a)
                 PROVE  FALSE
      OBVIOUS
    <3>1. LastExecuted(n) /\ trace[n] = Last(trace)
      BY <1>1, LastIsLastExecuted DEF TraceInv
    <3>2. Kept # <<>> /\ SameAction(Last(Kept), trace[n])
      BY <3>1 DEF RecordInv, KeptTracks, LastExecuted
    <3> QED
      BY <1>8, <3>1, <3>2, SameActionMeans
  <2>4. KeptTracks'
    BY <1>5, <2>2, SameActionMeans
  <2>5. ASSUME RepeatsAreIdle' PROVE Chained(Kept') /\ page' = ReachedBy(Kept')
    <3>1. Chained(Kept) /\ page = ReachedBy(Kept)
      BY <1>3, <2>5 DEF RecordInv
    <3> QED
      BY <2>1, <2>3, <3>1, ChainGrows
  <2> QED
    BY <2>4, <2>5, <2>6
<1>9. CASE Kept # <<>> /\ SameAction(Last(Kept), a)
  <2>1. Kept' = Kept
    BY <1>3, <1>9 DEF Keeping
  <2>2. PICK k \in Executed : LastExecuted(k)
    BY <1>9 DEF RecordInv, KeptTracks
  <2>3. /\ SameAction(Last(Kept), trace[k])
        /\ RepeatsAreIdle => trace[k].after = Last(Kept).after /\ trace[k].got = Last(Kept).got
    BY <2>2 DEF RecordInv, KeptTracks
  <2>4. ASSUME RepeatsAreIdle' PROVE a.after = trace[k].after /\ a.got = trace[k].got
    <3>1. k \in Executed' /\ m \in Executed' /\ k < m /\ trace'[k] = trace[k] /\ trace'[m] = a
      BY <1>3
    <3>2. \A o \in Executed' : o <= k \/ m <= o
      BY <1>1, <1>2, <1>3, <2>2 DEF LastExecuted
    <3>3. SameAction(trace[k], a)
      BY <1>9, <2>3, SameActionMeans
    <3>4. SameAction(trace'[k], trace'[m]) =>
            trace'[m].after = trace'[k].after /\ trace'[m].got = trace'[k].got
      BY <2>4, <3>1, <3>2 DEF RepeatsAreIdle, SameAction
    <3> QED
      BY <3>1, <3>3, <3>4
  <2>5. KeptTracks'
    BY <1>3, <1>5, <1>9, <2>1, <2>3, <2>4
  <2>6. ASSUME RepeatsAreIdle' PROVE Chained(Kept') /\ page' = ReachedBy(Kept')
    BY <1>3, <1>9, <2>1, <2>3, <2>4, <2>6 DEF RecordInv, ReachedBy
  <2>7. ReadsKept'
    <3>1. Last(Kept) \in Range(Kept)
      BY <1>6, <1>9, LastMeans
    <3>2. RepeatsAreIdle' => Last(Kept).got = a.got
      BY <1>3, <2>3, <2>4
    <3> QED
      BY <1>7, <2>1, <3>1, <3>2
  <2> QED
    BY <2>5, <2>6, <2>7
<1> QED
  BY <1>8, <1>9

\* The one `done` that ran, where it is the last attempt, is kept as the last.
LEMMA DoneEnds ==
  ASSUME TraceInv, NEW a, a.ran, IsDone(a), trace' = Append(trace, a), OneDone'
  PROVE  EndsDone(Kept') /\ Last(Kept') = Last(trace')
<1>1. PICK n \in Nat : n = Len(trace) /\ DOMAIN trace = 1 .. n
                       /\ Range(trace) = {trace[k] : k \in 1 .. n}
  BY ListMeans DEF TraceInv
<1>2. PICK m : m = n + 1
  OBVIOUS
<1>3. /\ \A k \in Executed : trace'[k] = trace[k] /\ k # m
      /\ trace'[m] = a
      /\ Kept' = Keeping(Kept, a) /\ Executed' = Executed \cup {m}
  BY <1>1, <1>2, TraceGrows DEF TraceInv
<1>4. \A k \in Executed : ~IsDone(trace[k])
  <2>1. PICK d \in Executed' : \A k \in Executed' : IsDone(trace'[k]) <=> k = d
    BY DEF OneDone, IsDone
  <2>2. d = m
    BY <1>3, <2>1
  <2> QED
    BY <1>3, <2>1, <2>2
<1>5. KeptOf(Kept, Range(trace))
  BY KeptMeans DEF Kept, TraceInv
<1>6. IsList(Kept) /\ \A x \in Range(Kept) : ~IsDone(x)
  <2>1. ASSUME NEW x \in Range(Kept) PROVE ~IsDone(x)
    <3>1. x \in Range(trace) /\ x.ran
      BY <1>5 DEF KeptOf
    <3>2. PICK k \in 1 .. n : x = trace[k]
      BY <1>1, <3>1
    <3>3. k \in Executed
      BY <1>1, <3>1, <3>2 DEF Executed
    <3> QED
      BY <1>4, <3>2, <3>3
  <2> QED
    BY <1>5, <2>1 DEF KeptOf
<1>7. Kept' = Append(Kept, a)
  <2>1. ASSUME Kept # <<>> PROVE ~SameAction(Last(Kept), a)
    <3>1. ~IsDone(Last(Kept))
      BY <1>6, <2>1, LastMeans
    <3> QED
      BY <3>1 DEF SameAction, IsDone
  <2> QED
    BY <1>3, <2>1 DEF Keeping
<1>8. PICK q \in Nat : q = Len(Kept) /\ Range(Kept) = {Kept[k] : k \in 1 .. q}
  BY <1>6, ListMeans
<1>9. /\ Len(Kept') = q + 1 /\ Kept'[q + 1] = a /\ Kept' # <<>>
      /\ \A k \in 1 .. q : Kept'[k] = Kept[k]
  BY <1>6, <1>7, <1>8, AppendProperties, Appended DEF IsList
<1>10. \A k \in 1 .. q : ~IsDone(Kept'[k]) /\ k # q + 1
  BY <1>6, <1>8, <1>9
<1>11. \A k \in 1 .. q + 1 : k \in 1 .. q \/ k = q + 1
  OBVIOUS
<1>12. Last(Kept') = a /\ Last(trace') = a
  BY <1>6, <1>7, Appended DEF TraceInv
<1> QED
  BY <1>9, <1>10, <1>11, <1>12 DEF EndsDone

\* An attempt leaves the record in order.
LEMMA AttemptFollows ==
  ASSUME IInv, FollowInv, Attempt
  PROVE  FollowInv'
<1>1. TraceInv /\ RecordInv /\ DoneInv /\ phase = "record"
  BY DEF IInv, FollowInv, Attempt
<1>2. PICK i \in Stated, ran \in BOOLEAN, held \in BOOLEAN :
        /\ AttemptLeaves(i, ran, held)
        /\ ran => Found(i)
        /\ held => ran
        /\ stage # "retry" => Meant(i, page)
        /\ i.plan \in Plans /\ Snapshot \in Pages
        /\ i.plan.action # "done" => i.ref \in DOMAIN Snapshot.elements
  BY <1>1, AttemptMeans
<1>3. PICK a : a = Tried(i, ran, held)
  OBVIOUS
<1>4. /\ a.intent = i /\ a.ran = ran /\ a.before = Snapshot /\ a.after = Reached(i, ran)
      /\ Meant(a.intent, a.before)
      /\ ran /\ a.before = page => AsDecided(a)
      /\ \/ a.before = page
         \/ stage = "retry" /\ Last(trace).ran /\ SameAction(Last(trace), a)
  BY <1>1, <1>2, <1>3, TriedMeans
<1>5. /\ page' = a.after /\ trace' = Append(trace, a) /\ stage' = NextStage(held)
      /\ phase' = IF held /\ i.plan.action = "done" THEN "compile"
                  ELSE IF ~held /\ stage = "replan" THEN "ended" ELSE "record"
      /\ result' = IF ~held /\ stage = "replan" THEN "dead end" ELSE result
  BY <1>2, <1>3, <1>4 DEF AttemptLeaves
<1>6. /\ KeptTracks' /\ ReadsKept'
      /\ RepeatsAreIdle' => Chained(Kept') /\ page' = ReachedBy(Kept')
  <2>1. CASE ran
    BY <1>1, <1>4, <1>5, <2>1, BusyAttempt
  <2>2. CASE ~ran
    <3>1. page' = page
      BY <1>4, <1>5, <2>2 DEF Reached
    <3> QED
      BY <1>1, <1>4, <1>5, <2>2, <3>1, IdleAttempt
  <2> QED
    BY <2>1, <2>2
<1>7. Range(trace') = Range(trace) \cup {a} /\ Last(trace') = a
  BY <1>1, <1>5, Appended DEF TraceInv
<1>8. stage' = "retry" => Last(trace').ran \/ Last(trace').before = page'
  <2> SUFFICES ASSUME stage' = "retry", ~ran PROVE a.before = page'
    BY <1>4, <1>7
  <2>1. stage = "original"
    BY <1>5 DEF NextStage
  <2> QED
    BY <1>4, <1>5, <2>1 DEF Reached
<1>9. RecordInv'
  <2>1. \A b \in Range(trace') : Meant(b.intent, b.before)
    BY <1>1, <1>4, <1>7 DEF RecordInv
  <2> QED
    BY <1>6, <1>8, <2>1 DEF RecordInv, Meant
<1>10. DoneInv'
  <2>1. phase' # "ended" => result' = Nothing
    BY <1>1, <1>5 DEF DoneInv
  <2>2. ASSUME Finished', OneDone' PROVE EndsDone(Kept') /\ Last(Kept') = Last(trace')
    <3>1. held /\ i.plan.action = "done"
      BY <1>5, <2>2 DEF Finished
    <3>2. a.ran /\ IsDone(a)
      BY <1>2, <1>4, <3>1 DEF IsDone
    <3> QED
      BY <1>1, <1>5, <2>2, <3>2, DoneEnds
  <2> QED
    BY <2>1, <2>2 DEF DoneInv
<1>11. ~(phase' \in {"compiled", "labelled", "replay"} \/ Replayed')
  BY <1>5 DEF Replayed
<1>12. PerformsInv'
  BY <1>11 DEF PerformsInv, Replayed
<1>13. FollowsInv'
  <2>1. at = 0 /\ outputs = <<>>
    BY <1>1 DEF FollowInv, FollowsInv
  <2>2. at' = 0 /\ outputs' = <<>>
    BY <2>1 DEF Attempt
  <2> QED
    BY <1>11, <2>2 DEF FollowsInv, Replayed
<1> QED
  BY <1>9, <1>10, <1>12, <1>13 DEF FollowInv

\* What a recording that stays as it is says stays as it is.
LEMMA RecordingStays ==
  ASSUME trace' = trace
  PROVE  /\ Kept' = Kept /\ Executed' = Executed
         /\ OneDone' <=> OneDone
         /\ RepeatsAreIdle' <=> RepeatsAreIdle
         /\ KeptTracks' <=> KeptTracks
         /\ ReadsKept' <=> ReadsKept
<1>1. Kept' = Kept /\ Executed' = Executed
  BY DEF Kept, Executed
<1>2. OneDone' <=> OneDone
  BY <1>1 DEF OneDone, IsDone
<1>3. RepeatsAreIdle' <=> RepeatsAreIdle
  BY <1>1 DEF RepeatsAreIdle, SameAction
<1>4. KeptTracks' <=> KeptTracks
  BY <1>1, <1>3 DEF KeptTracks, LastExecuted, SameAction
<1>5. ReadsKept' <=> ReadsKept
  BY <1>1, <1>3 DEF ReadsKept
<1> QED
  BY <1>1, <1>2, <1>3, <1>4, <1>5

\* Once the recording is over.
LEMMA RecordStays ==
  ASSUME RecordInv, trace' = trace, phase' \notin {"record", "compile"}
  PROVE  RecordInv'
<1>1. KeptTracks' /\ ReadsKept' /\ (RepeatsAreIdle' => Chained(Kept'))
  BY RecordingStays DEF RecordInv
<1>2. \A a \in Range(trace') : Meant(a.intent, a.before)
  BY DEF RecordInv
<1> QED
  BY <1>1, <1>2 DEF RecordInv, Meant

\* What is kept ends with the `done`, so that every other is a step.
LEMMA EndsMean ==
  ASSUME IsList(Kept), EndsDone(Kept), NEW n \in Nat, n = Len(Kept)
  PROVE  /\ n # 0 /\ DoneAt = n /\ Last(Kept) = Kept[n]
         /\ Len(Steps) = n - 1 /\ \A k \in 1 .. n - 1 : Steps[k] = StepOf(k)
<1>1. n # 0
  BY EmptySeq DEF EndsDone, IsList
<1>2. Last(Kept) = Kept[n]
  BY DEF Last
<1> DEFINE I == {i \in 1 .. n : IsDone(Kept[i])}
<1>3. I = {n}
  BY <1>1 DEF EndsDone
<1>4. Max({n}) = n
  <2>1. {n} \in SUBSET (1 .. n) /\ {n} # {}
    BY <1>1
  <2> QED
    BY <2>1, GreatestExists
<1>5. DoneAt = IF I # {} THEN Max(I) ELSE 0
  BY DEF DoneAt, SelectLastInSeq
<1>6. DoneAt = n
  BY <1>3, <1>4, <1>5
<1> DEFINE all == [i \in 1 .. n |-> StepOf(i)]
<1>7. Steps = RemoveAt(all, n)
  BY <1>6 DEF Steps
<1>8. Range(all) = {all[i] : i \in 1 .. n}
  BY DEF Range
<1>9. IsList(all) /\ Len(all) = n
  <2>1. all \in [1 .. n -> Range(all)]
    BY <1>8
  <2> HIDE DEF all
  <2>2. all \in Seq(Range(all))
    BY <2>1
  <2>3. DOMAIN all = 1 .. n
    BY <2>1
  <2> QED
    BY <2>2, <2>3 DEF IsList
<1>10. \A i \in 1 .. n - 1 : all[i] = StepOf(i)
  OBVIOUS
<1> HIDE DEF all
<1>11. Len(Steps) = n - 1 /\ \A k \in 1 .. n - 1 : Steps[k] = all[k]
  BY <1>1, <1>7, <1>9, LastRemoved
<1> QED
  BY <1>1, <1>2, <1>6, <1>10, <1>11

\* So a capability does what was kept.
LEMMA StepsPerform ==
  ASSUME IsList(Kept), EndsDone(Kept)
  PROVE  Performs(Steps, Kept)
<1>1. PICK n \in Nat : n = Len(Kept)
  BY ListMeans
<1>2. Len(Steps) = n - 1 /\ \A k \in 1 .. n - 1 : Steps[k] = StepOf(k)
  BY <1>1, EndsMean
<1>3. \A k : /\ StepOf(k).action = Kept[k].intent.plan.action
             /\ StepOf(k).target = TargetOf(Kept[k])
             /\ StepOf(k).value = StepValue(Kept[k])
  BY DEF StepOf
<1> QED
  BY <1>1, <1>2, <1>3 DEF Performs

\* The compiler leaves the record as it is and makes a capability of it.
LEMMA CompileFollows ==
  ASSUME IInv, FollowInv, Compile
  PROVE  FollowInv'
<1>1. /\ TraceInv /\ RecordInv /\ DoneInv /\ FollowsInv /\ phase = "compile"
      /\ trace' = trace /\ phase' \in {"compiled", "ended"}
      /\ at' = at /\ outputs' = outputs
      /\ phase' = "ended" => result' = "refused"
      /\ phase' = "compiled" => /\ result' = result
                                /\ capability' = [steps |-> Steps, checkpoint |-> Checkpoint]
  BY DEF IInv, FollowInv, Compile, recording
<1>2. RecordInv'
  BY <1>1, RecordStays
<1>3. result = Nothing /\ Finished
  BY <1>1 DEF DoneInv, Finished, Nothing
<1>4. Kept' = Kept /\ (OneDone' <=> OneDone)
  BY <1>1, RecordingStays
<1>5. IsList(Kept)
  BY <1>1, KeptMeans DEF Kept, KeptOf, TraceInv
<1>6. DoneInv'
  BY <1>1, <1>3, <1>4 DEF DoneInv, EndsDone, IsDone
<1>7. ~Replayed'
  BY <1>1 DEF Replayed
<1>8. PerformsInv'
  <2>1. ASSUME phase' = "compiled", OneDone PROVE Performs(capability'.steps, Kept')
    <3>1. EndsDone(Kept)
      BY <1>1, <1>3, <2>1 DEF DoneInv
    <3> QED
      BY <1>1, <1>4, <1>5, <2>1, <3>1, StepsPerform
  <2>2. phase' \notin {"labelled", "replay"}
    BY <1>1
  <2> QED
    BY <1>4, <1>7, <2>1, <2>2 DEF PerformsInv, Performs, TargetOf, StepValue
<1>9. FollowsInv'
  <2>1. at' = 0 /\ outputs' = <<>>
    BY <1>1 DEF FollowsInv
  <2>2. phase' # "replay"
    BY <1>1
  <2> QED
    BY <1>7, <2>1, <2>2 DEF FollowsInv
<1> QED
  BY <1>2, <1>6, <1>8, <1>9 DEF FollowInv

\* A label changes what is claimed, and what is done stays.
LEMMA WeakenedPerforms ==
  ASSUME NEW s, StepOK(s), NEW url
  PROVE  /\ Weakened(s, url).action = s.action
         /\ Weakened(s, url).target = s.target
         /\ Weakened(s, url).value = s.value
<1> DEFINE c == CHOOSE c \in Demoted(s, url) : TRUE
           w == [s EXCEPT !.claim = c]
<1>1. Weakened(s, url) \in {s, w}
  BY DEF Weakened
<1> HIDE DEF c
<1>2. w = [action |-> s.action, target |-> s.target, value |-> s.value, claim |-> c]
  BY DEF StepOK
<1> QED
  BY <1>1, <1>2

\* What a step changes that leaves the recording alone, and when.
LEMMA LabelFollows ==
  ASSUME IInv, FollowInv, Label
  PROVE  FollowInv'
<1>1. /\ TraceInv /\ CapabilityInv /\ RecordInv /\ DoneInv /\ PerformsInv /\ FollowsInv
      /\ phase = "compiled" /\ phase' = "labelled" /\ trace' = trace
      /\ at' = at /\ outputs' = outputs /\ result' = result
  BY DEF IInv, FollowInv, Label, recording
<1>2. RecordInv'
  BY <1>1, RecordStays
<1>3. Kept' = Kept /\ (OneDone' <=> OneDone)
  BY <1>1, RecordingStays
<1>4. DoneInv'
  BY <1>1, <1>3 DEF DoneInv, Finished, EndsDone, IsDone
<1>5. ~Replayed'
  BY <1>1 DEF Replayed
<1> DEFINE steps == capability.steps
           labelled == capability'.steps
<1>6. PICK labels : labelled = [i \in DOMAIN steps |->
                       IF i \in labels THEN Weakened(steps[i], StepUrls[i]) ELSE steps[i]]
  BY DEF Label, Generalise
<1>7. IsList(steps) /\ \A s \in Range(steps) : StepOK(s)
  BY <1>1 DEF CapabilityInv
<1> HIDE DEF steps, labelled
<1>8. PICK n \in Nat : DOMAIN steps = 1 .. n /\ n = Len(steps)
  BY <1>7, ListMeans
<1>9. Len(labelled) = n
  BY <1>6, <1>8
<1>10. ASSUME NEW i \in 1 .. n
       PROVE  /\ labelled[i].action = steps[i].action
              /\ labelled[i].target = steps[i].target
              /\ labelled[i].value = steps[i].value
  <2>1. StepOK(steps[i])
    BY <1>7, <1>8 DEF Range
  <2>2. labelled[i] = IF i \in labels THEN Weakened(steps[i], StepUrls[i]) ELSE steps[i]
    BY <1>6, <1>8
  <2> QED
    BY <2>1, <2>2, WeakenedPerforms
<1>11. PerformsInv'
  <2>1. ASSUME OneDone PROVE Performs(labelled, Kept)
    <3>1. Performs(steps, Kept)
      BY <1>1, <2>1 DEF PerformsInv, steps
    <3> QED
      BY <1>8, <1>9, <1>10, <3>1 DEF Performs
  <2> QED
    BY <1>3, <2>1 DEF PerformsInv, labelled, Performs, TargetOf, StepValue
<1>12. FollowsInv'
  BY <1>1, <1>5 DEF FollowsInv
<1> QED
  BY <1>2, <1>4, <1>11, <1>12 DEF FollowInv

\* A recording that can be followed: each kept attempt as it was decided, the
\* `done` last, and for the member the same as recorded.
LEMMA FollowableMeans ==
  ASSUME TraceInv, RecordInv, DoneInv, Finished, Followable
  PROVE  /\ Chained(Kept) /\ EndsDone(Kept)
         /\ Kept[1].before = Home
         /\ \A k \in 1 .. Len(Kept) - 1 :
              /\ k \in 1 .. Len(Kept) /\ ~IsDone(Kept[k]) /\ k + 1 \in 1 .. Len(Kept)
              /\ AsDecided(Kept[k]) /\ Kept[k].before \in Pages
              /\ ForAnother => GoesAsRecorded(Kept[k])
              /\ Kept[k + 1].before = Kept[k].after
<1>1. Chained(Kept) /\ EndsDone(Kept)
  BY DEF RecordInv, DoneInv, Followable
<1>2. PICK n \in Nat : n = Len(Kept) /\ Range(Kept) = {Kept[k] : k \in 1 .. n}
  BY <1>1, ListMeans DEF Chained
<1>3. n # 0
  BY <1>1, <1>2, EndsMean DEF Chained
<1>4. Kept[1].before = Home
  BY <1>1, <1>2, <1>3 DEF Chained
<1>5. ASSUME NEW k \in 1 .. n - 1
      PROVE  /\ k \in 1 .. n /\ ~IsDone(Kept[k]) /\ k + 1 \in 1 .. n
             /\ AsDecided(Kept[k]) /\ Kept[k].before \in Pages
             /\ ForAnother => GoesAsRecorded(Kept[k])
             /\ Kept[k + 1].before = Kept[k].after
  <2>1. k \in 1 .. n /\ k + 1 \in 1 .. n /\ k # n /\ k + 1 # 1 /\ (k + 1) - 1 = k
    BY <1>3
  <2>2. ~IsDone(Kept[k])
    BY <1>1, <1>2, <2>1 DEF EndsDone
  <2>3. AsDecided(Kept[k]) /\ Kept[k].before \in Pages
    BY <1>1, <1>2, <2>1 DEF Chained, AsDecided, AttemptOK
  <2>4. Kept[k + 1].before = Kept[k].after
    BY <1>1, <1>2, <2>1 DEF Chained
  <2>5. ASSUME ForAnother PROVE GoesAsRecorded(Kept[k])
    <3>1. Kept[k] \in Range(trace) /\ Kept[k].ran
      BY <1>2, <2>1, KeptMeans DEF Kept, KeptOf, TraceInv
    <3>2. PICK j \in DOMAIN trace : trace[j] = Kept[k]
      BY <3>1 DEF Range
    <3>3. j \in Executed
      BY <3>1, <3>2 DEF Executed
    <3> QED
      BY <2>5, <3>2, <3>3 DEF Followable
  <2> QED
    BY <2>1, <2>2, <2>3, <2>4, <2>5
<1> QED
  BY <1>1, <1>2, <1>4, <1>5

\* A replay starts where the recording started.
LEMMA InvokeFollows ==
  ASSUME ApplicationIsRegular, IInv, FollowInv, Invoke
  PROVE  FollowInv'
<1>1. /\ TraceInv /\ CapabilityInv /\ RecordInv /\ DoneInv /\ PerformsInv /\ FollowsInv
      /\ phase \in {"compiled", "labelled"} /\ phase' = "replay" /\ trace' = trace
      /\ at' = at /\ outputs' = outputs /\ result' = result
      /\ capability' = capability /\ page' = Home
  BY DEF IInv, FollowInv, Invoke, recording
<1>2. RecordInv'
  BY <1>1, RecordStays
<1>3. /\ Kept' = Kept /\ (OneDone' <=> OneDone) /\ Executed' = Executed
      /\ RepeatsAreIdle' <=> RepeatsAreIdle
  BY <1>1, RecordingStays
<1>4. result = Nothing /\ Finished
  BY <1>1 DEF DoneInv, Finished, Nothing
<1>5. DoneInv'
  BY <1>1, <1>3, <1>4 DEF DoneInv, Finished, EndsDone, IsDone
<1>6. ~Replayed'
  BY <1>1 DEF Replayed
<1>7. PerformsInv'
  BY <1>1, <1>3 DEF PerformsInv, Performs, TargetOf, StepValue
<1>8. member' \in Members
  BY ExampleAssumption DEF Invoke
<1>9. at' = 0 /\ outputs' = <<>>
  BY <1>1 DEF FollowsInv
<1>10. Seen(Home)' = Home
  BY <1>8, HomeAssumption, RegularMeans DEF Seen, ByNow
<1>11. ASSUME RepeatsAreIdle, OneDone
       PROVE  Len(Kept) \in Nat /\ 0 < Len(Kept) /\ Kept[1].before = Home
  <2>1. Chained(Kept) /\ EndsDone(Kept)
    BY <1>1, <1>4, <1>11 DEF RecordInv, DoneInv
  <2>2. PICK n \in Nat : n = Len(Kept)
    BY <2>1, ListMeans DEF Chained
  <2>3. n # 0
    BY <2>1, <2>2, EndsMean DEF Chained
  <2> QED
    BY <2>1, <2>2, <2>3 DEF Chained
<1>12. FollowsInv'
  <2> SUFFICES ASSUME Followable'
               PROVE  /\ at' < Len(Kept') /\ result' # "not found"
                      /\ IsList(outputs') /\ Len(outputs') = at'
                      /\ page' = Seen(Home)' /\ Kept[at' + 1].before = Home
                      /\ result' \notin {"success", "checkpoint failed"}
                      /\ 1 .. at' = {}
    BY <1>1, <1>3, <1>8, <1>9, HomeAssumption DEF FollowsInv, Seen, ByNow
  <2>1. RepeatsAreIdle /\ OneDone
    BY <1>3 DEF Followable
  <2>2. IsList(<<>>) /\ Len(<<>>) = 0 /\ 0 + 1 = 1
    BY DEF IsList, Range
  <2> QED
    BY <1>1, <1>3, <1>4, <1>9, <1>10, <1>11, <2>1, <2>2 DEF Nothing
<1> QED
  BY <1>2, <1>5, <1>7, <1>12 DEF FollowInv

\* What stays during a replay.
LEMMA ReplayStays ==
  ASSUME IInv, FollowInv, phase = "replay", UNCHANGED recording, UNCHANGED request,
         phase' \in {"replay", "ended"}, phase' = "replay" => result' = result
  PROVE  /\ TraceInv /\ RecordInv /\ DoneInv /\ Finished /\ result = Nothing
         /\ member \in Members
         /\ OneDone => Performs(capability.steps, Kept)
         /\ RecordInv' /\ DoneInv' /\ PerformsInv' /\ member' \in Members
         /\ Kept' = Kept /\ (Followable' <=> Followable)
         /\ \A p : Seen(p)' = Seen(p)
<1>1. /\ TraceInv /\ RecordInv /\ DoneInv /\ PerformsInv /\ FollowsInv
      /\ trace' = trace /\ capability' = capability /\ member' = member /\ renewed' = renewed
  BY DEF IInv, FollowInv, recording, request
<1>2. /\ member \in Members
      /\ OneDone => Performs(capability.steps, Kept)
  BY <1>1 DEF FollowsInv, PerformsInv
<1>3. RecordInv'
  BY <1>1, RecordStays
<1>4. /\ Kept' = Kept /\ (OneDone' <=> OneDone) /\ Executed' = Executed
      /\ RepeatsAreIdle' <=> RepeatsAreIdle
  BY <1>1, RecordingStays
<1>5. result = Nothing /\ Finished
  BY <1>1 DEF DoneInv, Finished, Nothing
<1>6. DoneInv'
  BY <1>1, <1>4, <1>5 DEF DoneInv, EndsDone, IsDone
<1>7. PerformsInv'
  BY <1>1, <1>2, <1>4 DEF PerformsInv, Performs, TargetOf, StepValue
<1>8. \A p : Seen(p)' = Seen(p)
  BY <1>1 DEF Seen, ByNow
<1>9. Followable' <=> Followable
  <2>1. ForAnother' <=> ForAnother
    BY <1>1 DEF ForAnother
  <2>2. \A n : GoesAsRecorded(trace[n])' <=> GoesAsRecorded(trace[n])
    BY <1>1, <1>8 DEF GoesAsRecorded, Told
  <2> QED
    BY <1>1, <1>4, <2>1, <2>2 DEF Followable
<1> QED
  BY <1>1, <1>2, <1>3, <1>4, <1>5, <1>6, <1>7, <1>8, <1>9

\* Where the replay is at a step, it finds what the recording acted on.
LEMMA StepIsSeen ==
  ASSUME ApplicationIsRegular, PlansAreRegular, IInv, FollowInv, phase = "replay",
         Followable, at < Len(capability.steps), NEW i, i = at + 1
  PROVE  /\ i \in 1 .. Len(Kept) - 1 /\ Len(Kept) \in Nat
         /\ capability.steps[i].action = Kept[i].intent.plan.action
         /\ capability.steps[i].target # NoTarget
         /\ page = Seen(Kept[i].before)
         /\ Here = Kept[i].intent.ref /\ Here # 0
         /\ ByNow(After(page, Kept[i].intent.plan.action, Here,
                        Bound(capability.steps[i].value))) = Seen(Kept[i + 1].before)
<1>1. /\ TraceInv /\ RecordInv /\ DoneInv /\ Finished /\ member \in Members
      /\ at \in Nat /\ OneDone
      /\ Performs(capability.steps, Kept)
      /\ page = Seen(Kept[i].before)
  BY DEF IInv, RunInv, FollowInv, FollowsInv, DoneInv, PerformsInv, Finished, Followable, Nothing
<1>2. PICK n \in Nat : n = Len(Kept)
  BY KeptMeans, ListMeans, <1>1 DEF Kept, KeptOf, TraceInv
<1>3. i \in 1 .. n - 1
  BY <1>1, <1>2 DEF Performs
<1>4. PICK a : a = Kept[i]
  OBVIOUS
<1>5. /\ ~IsDone(a) /\ AsDecided(a) /\ a.before \in Pages
      /\ ForAnother => GoesAsRecorded(a)
      /\ Kept[i + 1].before = a.after
  BY <1>1, <1>2, <1>3, <1>4, FollowableMeans
<1>6. /\ capability.steps[i].action = a.intent.plan.action
      /\ capability.steps[i].target = TargetOf(a)
      /\ capability.steps[i].value = StepValue(a)
  BY <1>1, <1>2, <1>3, <1>4 DEF Performs
<1>7. AttemptOK(a)
  BY <1>5 DEF AsDecided
<1>8. TargetOf(a) # NoTarget
  BY <1>5, <1>7, TargetMeans
<1>9. Here = a.intent.ref
  BY <1>1, <1>4, <1>5, <1>6, TargetIsSeen DEF Here
<1>10. Here # 0
  <2>1. a.intent.ref \in DOMAIN a.before.elements
    BY <1>5, <1>7 DEF AttemptOK
  <2>2. a.intent.ref \in 1 .. Len(a.before.elements)
    BY <1>5, <2>1, PageMeans, ListMeans
  <2> QED
    BY <1>9, <2>2
<1>11. Bound(capability.steps[i].value) = Told(a.intent.plan.value)
  BY <1>1, <1>6, <1>7, BoundMeans
<1>12. ByNow(After(page, a.intent.plan.action, Here, Bound(capability.steps[i].value)))
         = Seen(Kept[i + 1].before)
  BY <1>1, <1>4, <1>5, <1>9, <1>11, SeenAfter
<1> QED
  BY <1>1, <1>2, <1>3, <1>4, <1>6, <1>8, <1>9, <1>10, <1>12

\* A step performed leads to where the recording went on, and reads what stands
\* where the recording read.
LEMMA PerformedFollows ==
  ASSUME ApplicationIsRegular, PlansAreRegular, IInv, FollowInv, StepPerformed
  PROVE  FollowInv'
<1>1. /\ phase = "replay" /\ UNCHANGED recording /\ UNCHANGED request
      /\ phase' \in {"replay", "ended"} /\ result' \in {result, "claim failed"}
      /\ phase' = "replay" => result' = result
      /\ at' = at + 1 /\ at < Len(capability.steps)
  BY DEF StepPerformed
<1>2. /\ result = Nothing
      /\ RecordInv' /\ DoneInv' /\ PerformsInv' /\ member' \in Members
      /\ Kept' = Kept /\ (Followable' <=> Followable)
      /\ \A p : Seen(p)' = Seen(p)
  BY <1>1, ReplayStays
<1>3. PICK i : i = at + 1
  OBVIOUS
<1>4. ASSUME Followable
      PROVE  /\ i < Len(Kept)
             /\ IsList(outputs') /\ Len(outputs') = i
             /\ \A j \in 1 .. i :
                  Kept[j].intent.plan.action = "read" =>
                    outputs'[j] = ReadOf(Seen(Kept[j].before), Kept[j].intent.ref)
             /\ page' = Seen(Kept[i + 1].before)
  <2>1. /\ i \in 1 .. Len(Kept) - 1 /\ Len(Kept) \in Nat
        /\ capability.steps[i].action = Kept[i].intent.plan.action
        /\ capability.steps[i].target # NoTarget
        /\ page = Seen(Kept[i].before)
        /\ Here = Kept[i].intent.ref
        /\ ByNow(After(page, Kept[i].intent.plan.action, Here,
                       Bound(capability.steps[i].value))) = Seen(Kept[i + 1].before)
    BY <1>1, <1>3, <1>4, StepIsSeen
  <2>2. /\ page' = ByNow(After(page, capability.steps[i].action, Here,
                               Bound(capability.steps[i].value)))
        /\ outputs' = Append(outputs, IF capability.steps[i].action = "read"
                                      THEN ReadOf(page, Here) ELSE Nothing)
    BY <1>3, <2>1 DEF StepPerformed
  <2>3. /\ at \in Nat /\ IsList(outputs) /\ Len(outputs) = at
        /\ \A j \in 1 .. at :
             Kept[j].intent.plan.action = "read" =>
               outputs[j] = ReadOf(Seen(Kept[j].before), Kept[j].intent.ref)
    BY <1>1, <1>4 DEF IInv, RunInv, FollowInv, FollowsInv
  <2>4. PICK got : /\ outputs' = Append(outputs, got)
                   /\ Kept[i].intent.plan.action = "read" =>
                        got = ReadOf(Seen(Kept[i].before), Kept[i].intent.ref)
    BY <2>1, <2>2
  <2>5. IsList(outputs')
    BY <2>3, <2>4, Appended
  <2>6. Len(outputs') = i /\ outputs'[i] = got /\ \A j \in 1 .. at : outputs'[j] = outputs[j]
    BY <1>3, <2>3, <2>4, AppendProperties DEF IsList
  <2>7. \A j \in 1 .. i : j \in 1 .. at \/ j = i
    BY <1>3, <2>3
  <2>8. \A j \in 1 .. i :
          Kept[j].intent.plan.action = "read" =>
            outputs'[j] = ReadOf(Seen(Kept[j].before), Kept[j].intent.ref)
    BY <2>3, <2>4, <2>6, <2>7
  <2>9. i < Len(Kept)
    BY <2>1
  <2> QED
    BY <2>1, <2>2, <2>5, <2>6, <2>8, <2>9
<1>5. FollowsInv'
  <2>1. result' \notin {"not found", "success", "checkpoint failed"}
    BY <1>1, <1>2 DEF Nothing
  <2>2. phase' # "ended" /\ phase' # "replay" => FALSE
    BY <1>1
  <2> QED
    BY <1>1, <1>2, <1>3, <1>4, <2>1, <2>2 DEF FollowsInv, ReadOf
<1> QED
  BY <1>2, <1>5 DEF FollowInv

\* A replay that can follow its recording does not fail to find an element.
LEMMA NotFoundFollows ==
  ASSUME ApplicationIsRegular, PlansAreRegular, IInv, FollowInv, StepNotFound
  PROVE  FollowInv'
<1>1. /\ phase = "replay" /\ UNCHANGED recording /\ UNCHANGED request
      /\ phase' = "ended" /\ at < Len(capability.steps) /\ Here = 0
  BY DEF StepNotFound
<1>2. /\ RecordInv' /\ DoneInv' /\ PerformsInv' /\ member' \in Members
      /\ Followable' <=> Followable
  BY <1>1, ReplayStays
<1>3. ~Followable
  BY <1>1, StepIsSeen
<1>4. FollowsInv'
  BY <1>1, <1>2, <1>3 DEF FollowsInv
<1> QED
  BY <1>2, <1>4 DEF FollowInv

\* The checkpoint is asserted where the recording ended.
LEMMA AssertFollows ==
  ASSUME IInv, FollowInv, AssertCheckpoint
  PROVE  FollowInv'
<1>1. /\ phase = "replay" /\ UNCHANGED recording /\ UNCHANGED request
      /\ phase' = "ended" /\ at = Len(capability.steps)
      /\ result' \in {"success", "checkpoint failed"}
      /\ at' = at /\ outputs' = outputs /\ page' = page
  BY DEF AssertCheckpoint, request
<1>2. /\ TraceInv /\ RecordInv /\ DoneInv /\ Finished
      /\ OneDone => Performs(capability.steps, Kept)
      /\ RecordInv' /\ DoneInv' /\ PerformsInv' /\ member' \in Members
      /\ Kept' = Kept /\ (Followable' <=> Followable)
      /\ \A p : Seen(p)' = Seen(p)
  BY <1>1, ReplayStays
<1>3. ASSUME Followable PROVE at + 1 = Len(Kept)
  <2>1. PICK n \in Nat : n = Len(Kept)
    BY KeptMeans, ListMeans, <1>2 DEF Kept, KeptOf, TraceInv
  <2>2. at = n - 1
    BY <1>1, <1>2, <1>3, <2>1 DEF Followable, Performs
  <2> QED
    BY <2>1, <2>2
<1>4. FollowsInv'
  <2>1. Followable => /\ at < Len(Kept)
                      /\ IsList(outputs) /\ Len(outputs) = at
                      /\ \A i \in 1 .. at :
                           Kept[i].intent.plan.action = "read" =>
                             outputs[i] = ReadOf(Seen(Kept[i].before), Kept[i].intent.ref)
                      /\ page = Seen(Kept[at + 1].before)
    BY <1>1 DEF FollowInv, FollowsInv
  <2> QED
    BY <1>1, <1>2, <1>3, <2>1 DEF FollowsInv, ReadOf
<1> QED
  BY <1>2, <1>4 DEF FollowInv

\* Where nothing changes what was followed stays.
LEMMA StutterFollows ==
  ASSUME FollowInv, UNCHANGED vars
  PROVE  FollowInv'
<1>1. /\ trace' = trace /\ page' = page /\ phase' = phase /\ stage' = stage
      /\ capability' = capability /\ member' = member /\ renewed' = renewed
      /\ at' = at /\ outputs' = outputs /\ result' = result
  BY DEF vars, recording, request
<1>2. /\ Kept' = Kept /\ Executed' = Executed
      /\ OneDone' <=> OneDone
      /\ RepeatsAreIdle' <=> RepeatsAreIdle
      /\ KeptTracks' <=> KeptTracks
      /\ ReadsKept' <=> ReadsKept
  BY <1>1, RecordingStays
<1>3. /\ RecordInv /\ DoneInv /\ PerformsInv /\ FollowsInv
  BY DEF FollowInv
<1>4. RecordInv'
  <2>1. /\ phase' = "record" /\ stage' = "retry" => Last(trace').ran \/ Last(trace').before = page'
        /\ \A a \in Range(trace') : Meant(a.intent, a.before)
        /\ RepeatsAreIdle' => /\ Chained(Kept')
                              /\ phase' \in {"record", "compile"} => page' = ReachedBy(Kept')
    BY <1>1, <1>2, <1>3 DEF RecordInv
  <2> QED
    BY <1>2, <1>3, <2>1 DEF RecordInv, Meant
<1>5. DoneInv'
  BY <1>1, <1>2, <1>3 DEF DoneInv, Finished, EndsDone, IsDone
<1>6. PerformsInv'
  BY <1>1, <1>2, <1>3 DEF PerformsInv, Replayed, Performs, TargetOf, StepValue
<1>7. \A p : Seen(p)' = Seen(p)
  BY <1>1 DEF Seen, ByNow
<1>8. Followable' <=> Followable
  <2>1. ForAnother' <=> ForAnother
    BY <1>1 DEF ForAnother
  <2>2. \A n : GoesAsRecorded(trace[n])' <=> GoesAsRecorded(trace[n])
    BY <1>1, <1>7 DEF GoesAsRecorded, Told
  <2> QED
    BY <1>1, <1>2, <2>1, <2>2 DEF Followable
<1>9. FollowsInv'
  BY <1>1, <1>2, <1>3, <1>7, <1>8 DEF FollowsInv, Replayed, ReadOf
<1> QED
  BY <1>4, <1>5, <1>6, <1>9 DEF FollowInv

\* A recording starts on the page it starts from, with nothing.
LEMMA InitFollows == Init => FollowInv
<1> SUFFICES ASSUME Init PROVE FollowInv
  OBVIOUS
<1>1. /\ trace = <<>> /\ page = Home /\ phase = "record" /\ result = Nothing /\ stage = "original"
      /\ at = 0 /\ outputs = <<>>
  BY DEF Init
<1>2. IsList(<<>>) /\ Range(<<>>) = {} /\ Len(<<>>) = 0
  BY DEF IsList, Range
<1>3. Kept = <<>>
  BY <1>1, <1>2, KeptSteps DEF Kept
<1>4. Executed = {}
  BY <1>1 DEF Executed
<1>5. RecordInv
  BY <1>1, <1>2, <1>3, <1>4 DEF RecordInv, KeptTracks, ReadsKept, Chained, ReachedBy
<1>6. DoneInv /\ PerformsInv /\ FollowsInv
  BY <1>1 DEF DoneInv, PerformsInv, FollowsInv, Finished, Replayed
<1> QED
  BY <1>5, <1>6 DEF FollowInv

\* In a regular application the replay of a recording that can be followed is,
\* step by step, on the page the recording was on, as the member sees it.
THEOREM FollowInvariant ==
  ASSUME ApplicationIsRegular, PlansAreRegular
  PROVE  LabelledSpec => []FollowInv
<1>1. Init => FollowInv
  BY InitFollows
<1>2. IInv /\ FollowInv /\ [LabelledNext]_vars => FollowInv'
  <2> SUFFICES ASSUME IInv, FollowInv, [LabelledNext]_vars PROVE FollowInv'
    OBVIOUS
  <2>1. CASE Attempt
    BY <2>1, AttemptFollows
  <2>2. CASE Compile
    BY <2>2, CompileFollows
  <2>3. CASE Label
    BY <2>3, LabelFollows
  <2>4. CASE Invoke
    BY <2>4, InvokeFollows
  <2>5. CASE StepNotFound
    BY <2>5, NotFoundFollows
  <2>6. CASE StepPerformed
    BY <2>6, PerformedFollows
  <2>7. CASE AssertCheckpoint
    BY <2>7, AssertFollows
  <2>8. CASE UNCHANGED vars
    BY <2>8, StutterFollows
  <2> QED
    BY <2>1, <2>2, <2>3, <2>4, <2>5, <2>6, <2>7, <2>8 DEF LabelledNext, Next
<1> QED
  BY <1>1, <1>2, InductiveInvariant, PTL DEF LabelledSpec

\* Every value the replay of a reliable recording returns is the member's own,
\* from the row the recording read: for every application that shows every
\* member the same pages but for figures and URLs, and any number of pages,
\* members, plans and attempts.
\* (compiler.py:_derive_anchor, engine.py:_match_by_anchor, _output_for)
THEOREM ReadsTheRightRow ==
  ASSUME ApplicationIsRegular, PlansAreRegular
  PROVE  LabelledSpec => []ReadsTheRecordedRow
<1>1. FollowInv => ReadsTheRecordedRow
  BY DEF FollowInv, FollowsInv, ReadsTheRecordedRow, Reliable, ReliableBut
<1> QED
  BY <1>1, FollowInvariant, PTL

\* Where the replay ends, if no step's claim stops it.
EndsWhereRecorded ==
  Replayed /\ Followable =>
    /\ result # "not found"
    /\ result \in {"success", "checkpoint failed"} => page = Seen(Last(Kept).before)

\* Such a replay finds the element of every step, and comes to the page the
\* recording ended on, as the member sees it by now: no step that mattered was
\* dropped, doubled or done to another element.
\* (compiler.py:_executed_steps, _build_target, engine.py:_match_element)
THEOREM ReplayEndsWhereRecorded ==
  ASSUME ApplicationIsRegular, PlansAreRegular
  PROVE  LabelledSpec => []EndsWhereRecorded
<1>1. ASSUME FollowInv PROVE EndsWhereRecorded
  <2> SUFFICES ASSUME Replayed, Followable
               PROVE  /\ result # "not found"
                      /\ result \in {"success", "checkpoint failed"} => page = Seen(Last(Kept).before)
    BY DEF EndsWhereRecorded
  <2>1. /\ result # "not found"
        /\ page = Seen(Kept[at + 1].before)
        /\ result \in {"success", "checkpoint failed"} => at + 1 = Len(Kept)
    BY <1>1 DEF FollowInv, FollowsInv
  <2> QED
    BY <2>1 DEF Last
<1> QED
  BY <1>1, FollowInvariant, PTL

-------------------------------------------------------------------------------
(***************************************************************************)
(* The third invariant: what a capability claims, and that what it claims  *)
(* holds of the pages the replay comes to.                                 *)
(***************************************************************************)
\* A claim with something else in it.
About(c, x) == [check |-> c.check, of |-> x, role |-> c.role]

\* What a step claims: what was compiled, or what that was weakened to.
ClaimKept(i) ==
  \/ capability.steps[i].claim = StepOf(i).claim
  \/ /\ StepOf(i).action # "read"
     /\ capability.steps[i].claim \in Demoted(StepOf(i), ObservedAfter(i).path)

CheckpointKept ==
  \/ capability.checkpoint = Checkpoint
  \/ capability.checkpoint = Claim("url", PARAM) /\ Templatable(FinalPath)

Claimed == phase \in {"compiled", "labelled", "replay"} \/ Replayed

ClaimedInv ==
  /\ phase = "compiled" => capability = [steps |-> Steps, checkpoint |-> Checkpoint]
  /\ Claimed =>
       /\ ~Refused
       /\ OneDone => \A i \in 1 .. Len(Kept) - 1 : ClaimKept(i)
       /\ CheckpointKept
  /\ phase = "replay" \/ Replayed => (member # Example => Parameterised)

Reliably == ReliableBut(Generalised) /\ EntryClaimsHold /\ SubstituteStands

\* A replay ends in one of four ways, and that of what is reliable not in a
\* claim that fails.
OutcomeInv ==
  Replayed =>
    /\ result \in {"not found", "claim failed", "success", "checkpoint failed"}
    /\ Reliably => result \notin {"claim failed", "checkpoint failed"}

\* A claim is what it says, about what it says.
LEMMA AboutMeans ==
  ASSUME NEW c, IsClaim(c), NEW x
  PROVE  /\ [c EXCEPT !.of = x] = About(c, x) /\ About(c, c.of) = c
         /\ About(c, x).check = c.check /\ About(c, x).of = x /\ About(c, x).role = c.role
         /\ BoundClaim(c) = About(c, Bound(c.of)) /\ IsClaim(About(c, x))
<1>1. c = [check |-> c.check, of |-> c.of, role |-> c.role]
  BY DEF IsClaim
<1>2. [c EXCEPT !.of = x] = About(c, x)
  BY <1>1 DEF About
<1>3. BoundClaim(c) = About(c, Bound(c.of))
  BY <1>1 DEF About, BoundClaim
<1>4. About(c, c.of) = c
  BY <1>1 DEF About
<1> QED
  BY <1>2, <1>3, <1>4 DEF About, IsClaim

\* What each kind of claim says of a page.
LEMMA HoldsMeans ==
  ASSUME NEW c, NEW p
  PROVE  /\ c.check = "text" /\ (\E e \in Range(p.elements) : c.of = e.text) => Holds(c, p)
         /\ c.check = "field" /\ (\E e \in Range(p.elements) : e.value = c.of) => Holds(c, p)
         /\ c.check = "url" => (Holds(c, p) <=> Occurs(c.of, p.path))
         /\ c.check = "element" /\ (\E e \in Range(p.elements) : e.role = c.role /\ e.name = c.of) =>
              Holds(c, p)
BY DEF Holds, Occurs

\* The URL of a page the member sees: theirs, where it names the recorded one.
LEMMA PathSeen ==
  ASSUME ApplicationIsRegular, member \in Members, NEW p \in Pages
  PROVE  /\ Occurs(Example, p.path) => Occurs(member, Seen(p).path)
         /\ ~Occurs(Example, p.path) \/ member = Example => Seen(p).path = p.path
<1>1. /\ Mirror[p][Example] = p
      /\ IF Occurs(Example, p.path) THEN Occurs(member, Mirror[p][member].path)
                                    ELSE Mirror[p][member].path = p.path
      /\ Mirror[p][member] \in Pages
  BY DEF ApplicationIsRegular
<1>2. Renewed[Mirror[p][member]].path = Mirror[p][member].path
  BY <1>1 DEF ApplicationIsRegular
<1>3. Seen(p).path = Mirror[p][member].path
  BY <1>2 DEF Seen, ByNow
<1> QED
  BY <1>1, <1>3

\* What was typed for the member is shown in the field.
LEMMA TypedIsShown ==
  ASSUME ApplicationIsRegular, PlansAreRegular, member \in Members,
         NEW a, AsDecided(a), ForAnother => GoesAsRecorded(a), a.intent.plan.action = "type"
  PROVE  \E e \in Range(Seen(a.after).elements) :
           /\ e.role = "textbox" /\ e.name = a.before.elements[a.intent.ref].name
           /\ e.value = Told(a.intent.plan.value)
<1> DEFINE p == a.before
           k == a.intent.ref
           v == Told(a.intent.plan.value)
           mp == Mirror[p][member]
           mq == Mirror[a.after][member]
<1>1. /\ p \in Pages /\ a.intent.plan \in Plans /\ k \in DOMAIN p.elements
      /\ p.elements[k].role = "textbox" /\ p.elements[k].name \notin ValueShaped
  BY DEF AsDecided, AttemptOK, IsDone, Meant, PlansAreRegular
<1>2. v \in Values /\ After(mp, "type", k, v) = mq
  BY MirrorAfter
<1>3. mp \in Pages /\ Alike(p, mp)
  BY <1>1, RegularMeans
<1>4. /\ k \in DOMAIN mp.elements /\ mp.elements[k].role = "textbox"
      /\ mp.elements[k].name = p.elements[k].name
  BY <1>1, <1>3, AlikeMeans
<1>5. Leads[mp]["type"][k][v] = mq
  BY <1>2 DEF After
<1>6. Seen(a.after) \in {mq, Renewed[mq]}
  BY DEF Seen, ByNow
<1> HIDE DEF mp, mq, v, k, p
<1>7. \A q \in {mq, Renewed[mq]} :
        \E e \in Range(q.elements) :
          e.role = "textbox" /\ e.name = mp.elements[k].name /\ e.value = v
  BY <1>2, <1>3, <1>4, <1>5 DEF ApplicationIsRegular
<1> QED
  BY <1>4, <1>6, <1>7 DEF p, k, v

\* The text that appeared is that of an element of the new page, and of none of
\* the old one.
LEMMA AppearedMeans ==
  ASSUME NEW old, NEW new \in Pages, NEW k, k = Appeared(old, new), k # 0
  PROVE  /\ k \in DOMAIN new.elements
         /\ \A o \in Range(old.elements) : o.text # new.elements[k].text
<1>1. PICK n \in Nat : n = Len(new.elements) /\ DOMAIN new.elements = 1 .. n
  BY PageMeans, ListMeans
<1> DEFINE I == {j \in 1 .. n : \A o \in Range(old.elements) : o.text # new.elements[j].text}
<1>2. k = IF I # {} THEN Min(I) ELSE 0
  BY <1>1 DEF Appeared, SelectInSeq
<1>3. I \in SUBSET Nat /\ I # {}
  BY <1>2
<1>4. Min(I) \in I
  BY <1>3, LeastExists
<1> QED
  BY <1>1, <1>2, <1>3, <1>4

\* What a step is trusted to claim was borne out where the step led.
LEMMA HoldsTrusted ==
  ASSUME KeptOK, NEW i \in 1 .. Len(Kept), i # Len(Kept), NEW a, a = Kept[i],
         BornOut(a), a.after \in Pages, ObservedAfter(i) = a.after
  PROVE  /\ Holds(Trustworthy(i), a.after)
         /\ a.held => Trustworthy(i) = a.intent.plan.claim
<1> DEFINE new == a.after
           k == Appeared(a.before, new)
           text == new.elements[k].text
<1>1. Trustworthy(i) = IF a.held THEN a.intent.plan.claim
                       ELSE IF new.path # a.before.path THEN Claim("url", new.path)
                       ELSE IF k # 0 THEN Claim("text", text)
                       ELSE a.intent.plan.claim
  BY DEF Trustworthy
<1>2. Holds(a.intent.plan.claim, new) \/ (~a.held /\ (new.path # a.before.path \/ k # 0))
  BY DEF BornOut
<1>3. Holds(Claim("url", new.path), new)
  <2>1. Claim("url", new.path).check = "url" /\ Claim("url", new.path).of = new.path
    BY ClaimMeans
  <2> QED
    BY <2>1, HoldsMeans DEF Occurs
<1>4. k # 0 => Holds(Claim("text", text), new)
  <2> SUFFICES ASSUME k # 0 PROVE Holds(Claim("text", text), new)
    OBVIOUS
  <2>1. Claim("text", text).check = "text" /\ Claim("text", text).of = text
    BY ClaimMeans
  <2>2. new.elements[k] \in Range(new.elements)
    BY AppearedMeans DEF Range
  <2> QED
    BY <2>1, <2>2, HoldsMeans
<1> HIDE DEF new, k, text
<1> QED
  BY <1>1, <1>2, <1>3, <1>4 DEF new

\* A claim as the replay binds it: for the member what it was for the recorded
\* one, or that the field has what was typed.
LEMMA SanitisedBinds ==
  ASSUME PlansAreRegular, member \in Members, member # Example => Parameterised,
         NEW a, AttemptOK(a), NEW c, IsClaim(c), c.of # PARAM,
         c = a.intent.plan.claim \/ member = Example,
         NEW bound, bound = BoundClaim(Sanitised(c, StepValue(a)))
  PROVE  \/ bound = About(c, Told(c.of))
         \/ /\ a.intent.plan.action = "type" /\ a.intent.plan.value = Example
            /\ bound = About(c, member) /\ c.check = "field"
<1> DEFINE q == a.intent.plan
           v == StepValue(a)
<1>1. q \in Plans /\ q.value # PARAM
  BY PlanMeans DEF AttemptOK
<1>2. v = PARAM <=> q.action = "type" /\ q.value = Example
  BY <1>1 DEF StepValue
<1>3. Bound(PARAM) = member /\ Bound(c.of) = c.of /\ Told(Example) = member
  BY DEF Bound, Told
<1>4. Sanitised(c, v) = IF \/ c.check = "text" /\ Parameterised /\ c.of = Example
                           \/ c.check = "field" /\ v = PARAM
                        THEN About(c, PARAM) ELSE c
  BY AboutMeans DEF Sanitised
<1>5. BoundClaim(About(c, PARAM)) = About(c, member) /\ BoundClaim(c) = About(c, c.of)
  <2>1. BoundClaim(About(c, PARAM)) = About(About(c, PARAM), member)
    BY <1>3, AboutMeans
  <2> QED
    BY <1>3, <2>1, AboutMeans DEF About
<1>6. CASE c.check = "field" /\ v = PARAM
  BY <1>2, <1>4, <1>5, <1>6
<1>7. CASE c.check = "text" /\ Parameterised /\ c.of = Example
  BY <1>3, <1>4, <1>5, <1>7
<1>8. CASE /\ ~(c.check = "field" /\ v = PARAM)
           /\ ~(c.check = "text" /\ Parameterised /\ c.of = Example)
  <2>1. bound = About(c, c.of)
    BY <1>4, <1>5, <1>8
  <2>2. Told(c.of) = c.of
    <3> SUFFICES ASSUME c.of = Example, member # Example PROVE FALSE
      BY DEF Told
    <3>1. \/ c.check = "text"
          \/ c.check = "field" /\ q.action = "type" /\ q.value = Example
      BY <1>1 DEF PlansAreRegular
    <3> QED
      BY <1>2, <1>8, <3>1
  <2> QED
    BY <2>1, <2>2
<1> QED
  BY <1>6, <1>7, <1>8
\* What was compiled for a step holds where the step leads the member.
LEMMA CompiledClaimHolds ==
  ASSUME ApplicationIsRegular, PlansAreRegular, KeptOK,
         member \in Members, member # Example => Parameterised,
         NEW i \in 1 .. Len(Kept), i # Len(Kept), NEW a, a = Kept[i],
         AsDecided(a), ObservedAfter(i) = a.after, a.intent.plan.action # "read",
         BornOut(a),
         ForAnother => /\ GoesAsRecorded(a) /\ a.held
                       /\ Holds(About(a.intent.plan.claim, Told(a.intent.plan.claim.of)),
                                Seen(a.after))
  PROVE  Holds(BoundClaim(StepOf(i).claim), Seen(a.after))
<1> DEFINE c == Trustworthy(i)
           bound == BoundClaim(Sanitised(c, StepValue(a)))
           q == Seen(a.after)
<1>1. AttemptOK(a) /\ a.got = Nothing /\ a.after \in Pages
  BY MirrorAfter DEF AsDecided
<1>2. StepOf(i).claim = Sanitised(c, StepValue(a))
  BY <1>1 DEF StepOf, Unquoted
<1>3. IsClaim(c) /\ c.of # PARAM
  BY TrustworthyMeans
<1>4. Holds(c, a.after) /\ (a.held => c = a.intent.plan.claim)
  BY <1>1, HoldsTrusted
<1>5. ~ForAnother => member = Example /\ q = a.after
  BY <1>1, SeenMeans DEF ForAnother
<1> HIDE DEF c, q
<1>6. \/ bound = About(c, Told(c.of))
      \/ /\ a.intent.plan.action = "type" /\ a.intent.plan.value = Example
         /\ bound = About(c, member) /\ c.check = "field"
  <2>1. c = a.intent.plan.claim \/ member = Example
    BY <1>4, <1>5
  <2> HIDE DEF bound
  <2> QED
    BY <1>1, <1>3, <2>1, SanitisedBinds DEF bound
<1> HIDE DEF bound
<1>7. Holds(bound, q)
  <2>1. CASE bound = About(c, Told(c.of)) /\ ForAnother
    BY <1>4, <2>1 DEF q
  <2>2. CASE bound = About(c, Told(c.of)) /\ ~ForAnother
    <3>1. Told(c.of) = c.of
      BY <1>5, <2>2 DEF Told
    <3> QED
      BY <1>3, <1>4, <1>5, <2>2, <3>1, AboutMeans
  <2>3. CASE /\ a.intent.plan.action = "type" /\ a.intent.plan.value = Example
             /\ bound = About(c, member) /\ c.check = "field"
    <3>1. \E e \in Range(q.elements) : e.value = member
      BY <2>3, TypedIsShown DEF Told, q
    <3>2. bound.check = "field" /\ bound.of = member
      BY <1>3, <2>3, AboutMeans
    <3> QED
      BY <3>1, <3>2, HoldsMeans
  <2> QED
    BY <1>6, <2>1, <2>2, <2>3
<1> QED
  BY <1>2, <1>7 DEF bound, q

\* And what a label put in its place.
LEMMA WeakenedClaimHolds ==
  ASSUME ApplicationIsRegular, PlansAreRegular,
         member \in Members, member # Example => Parameterised,
         NEW i, NEW a, a = Kept[i], AsDecided(a), ForAnother => GoesAsRecorded(a),
         NEW c \in Demoted(StepOf(i), a.after.path),
         c = Claim("url", EntryPath) => Occurs(EntryPath, a.after.path)
  PROVE  Holds(BoundClaim(c), Seen(a.after))
<1> DEFINE q == Seen(a.after)
           name == TargetOf(a).name
           role == TargetOf(a).role
           shown == [check |-> "element", of |-> name, role |-> role]
           url == a.after.path
<1>1. AttemptOK(a) /\ a.after \in Pages
  BY MirrorAfter DEF AsDecided
<1>2. StepOf(i).action = a.intent.plan.action /\ StepOf(i).target = TargetOf(a)
  BY DEF StepOf
<1>3. Bound(PARAM) = member
  BY DEF Bound
<1>4. CASE a.intent.plan.action = "type"
  <2>1. c = shown
    BY <1>2, <1>4 DEF Demoted
  <2>2. /\ name = a.before.elements[a.intent.ref].name
        /\ role = a.before.elements[a.intent.ref].role
        /\ a.before.elements[a.intent.ref].role = "textbox"
    BY <1>4 DEF AsDecided, TargetOf, IsDone
  <2>3. IsClaim(c) /\ c.of = name /\ c.check = "element" /\ c.role = role
    BY <2>1 DEF IsClaim
  <2>4. Bound(name) = name
    BY <1>1, TargetMeans DEF Bound
  <2>5. BoundClaim(c) = c
    BY <2>3, <2>4, AboutMeans
  <2>6. \E e \in Range(q.elements) : e.role = role /\ e.name = name
    BY <1>4, <2>2, TypedIsShown
  <2> QED
    BY <2>3, <2>5, <2>6, HoldsMeans
<1>5. CASE a.intent.plan.action = "click" /\ Templatable(url)
  <2>1. c = Claim("url", PARAM)
    BY <1>2, <1>5 DEF Demoted
  <2>2. /\ BoundClaim(c) = About(c, member) /\ About(c, member).check = "url"
        /\ About(c, member).of = member
    BY <1>3, <2>1, ClaimMeans, AboutMeans
  <2>3. Occurs(member, q.path)
    BY <1>1, <1>5, PathSeen DEF Templatable
  <2> QED
    BY <2>2, <2>3, HoldsMeans
<1>6. CASE a.intent.plan.action = "click" /\ ~Templatable(url)
  <2>1. c = Claim("url", EntryPath)
    BY <1>2, <1>6 DEF Demoted
  <2>2. EntryPath # PARAM
    BY HomeAssumption, PageMeans DEF EntryPath, Nothing, PARAM
  <2>3. BoundClaim(c) = About(c, EntryPath) /\ About(c, EntryPath).check = "url"
        /\ About(c, EntryPath).of = EntryPath
    BY <2>1, <2>2, ClaimMeans, AboutMeans DEF Bound
  <2>4. url # Nothing
    BY <1>1, TemplateAssumption
  <2>5. q.path = url
    <3>1. ~Occurs(Example, url) \/ member = Example
      BY <1>6, <2>4 DEF Templatable
    <3> QED
      BY <1>1, <3>1, PathSeen
  <2>6. Occurs(EntryPath, q.path)
    BY <2>1, <2>5
  <2> QED
    BY <2>3, <2>6, HoldsMeans
<1>7. a.intent.plan.action \in {"type", "click"}
  <2>1. a.intent.plan.action \notin {"type", "click"} => Demoted(StepOf(i), url) = {}
    BY <1>2 DEF Demoted
  <2> QED
    BY <2>1
<1> QED
  BY <1>4, <1>5, <1>6, <1>7
\* The kept attempts but for the `done`, what is compiled of them and where they
\* led are numbered alike.
LEMMA BodyMeans ==
  ASSUME IsList(Kept), EndsDone(Kept), NEW n \in Nat, n = Len(Kept)
  PROVE  /\ DOMAIN Body = 1 .. n - 1 /\ DOMAIN Steps = 1 .. n - 1
         /\ \A k \in 1 .. n - 1 : /\ Body[k] = Kept[k]
                                  /\ Steps[k] = StepOf(k)
                                  /\ StepUrls[k] = ObservedAfter(k).path
<1>1. /\ n # 0 /\ DoneAt = n /\ Len(Steps) = n - 1
      /\ \A k \in 1 .. n - 1 : Steps[k] = StepOf(k)
  BY EndsMean
<1>2. n \in 1 .. n
  BY <1>1
<1>3. ASSUME NEW s, IsList(s), Len(s) = n
      PROVE  /\ DOMAIN RemoveAt(s, n) = 1 .. n - 1
             /\ \A k \in 1 .. n - 1 : RemoveAt(s, n)[k] = s[k]
  <2>1. Len(RemoveAt(s, n)) = n - 1 /\ \A k \in 1 .. n - 1 : RemoveAt(s, n)[k] = s[k]
    BY <1>1, <1>3, LastRemoved
  <2>2. IsList(RemoveAt(s, n))
    BY <1>2, <1>3, Removed
  <2> QED
    BY <2>1, <2>2, ListMeans
<1>4. DOMAIN Body = 1 .. n - 1 /\ \A k \in 1 .. n - 1 : Body[k] = Kept[k]
  BY <1>1, <1>3 DEF Body
<1> DEFINE all == [i \in 1 .. n |-> StepOf(i)]
           urls == [i \in 1 .. n |-> IF i < n THEN ObservedAfter(i).path ELSE Nothing]
<1>5. Steps = RemoveAt(all, n) /\ StepUrls = RemoveAt(urls, n)
  BY <1>1 DEF Steps, StepUrls
<1>6. ASSUME NEW f, f \in [1 .. n -> Range(f)]
      PROVE  IsList(f) /\ Len(f) = n
  <2>1. f \in Seq(Range(f)) /\ DOMAIN f = 1 .. n
    BY <1>6
  <2> QED
    BY <2>1 DEF IsList
<1>7. all \in [1 .. n -> Range(all)] /\ urls \in [1 .. n -> Range(urls)]
  BY DEF Range
<1>8. \A k \in 1 .. n - 1 : urls[k] = ObservedAfter(k).path
  OBVIOUS
<1> HIDE DEF all, urls
<1>9. DOMAIN Steps = 1 .. n - 1
  BY <1>3, <1>5, <1>6, <1>7
<1>10. \A k \in 1 .. n - 1 : StepUrls[k] = urls[k]
  BY <1>3, <1>5, <1>6, <1>7
<1> QED
  BY <1>1, <1>4, <1>8, <1>9, <1>10

\* An attempt whose claim stands as it was compiled is not one whose claim was
\* put in other terms; and where the claim became one of the entry path, the
\* attempt led there.
LEMMA ClaimStands ==
  ASSUME IsList(Kept), EndsDone(Kept), NEW n \in Nat, n = Len(Kept)
  PROVE  /\ \A k \in 1 .. n - 1 :
              /\ capability.steps[k].claim = StepOf(k).claim => Kept[k] \notin Generalised
              /\ EntryClaimsHold /\ capability.steps[k].claim # StepOf(k).claim
                   /\ capability.steps[k].claim = Claim("url", EntryPath) =>
                   Occurs(EntryPath, Kept[k].after.path)
         /\ capability.checkpoint = Checkpoint => Kept[n] \notin Generalised
<1>1. /\ DOMAIN Body = 1 .. n - 1 /\ DOMAIN Steps = 1 .. n - 1
      /\ \A k \in 1 .. n - 1 : Body[k] = Kept[k] /\ Steps[k] = StepOf(k)
  BY BodyMeans
<1>2. DoneAt = n /\ n # 0
  BY EndsMean
<1>3. \A k \in 1 .. n - 1 : k \in Changed <=> capability.steps[k].claim # StepOf(k).claim
  BY <1>1 DEF Changed
<1>4. Changed \subseteq 1 .. n - 1
  BY <1>1 DEF Changed
<1>5. \A k \in 1 .. n - 1 : Kept[k] # Kept[n]
  <2>1. \A k \in 1 .. n - 1 : k \in 1 .. n /\ k # n /\ n \in 1 .. n
    BY <1>2
  <2> QED
    BY <2>1 DEF EndsDone
<1>6. ASSUME NEW k \in 1 .. n - 1, capability.steps[k].claim = StepOf(k).claim
      PROVE  Kept[k] \notin Generalised
  <2>1. k \in DOMAIN Body \ Changed /\ Body[k] = Kept[k] /\ Kept[k] # Kept[DoneAt]
    BY <1>1, <1>2, <1>3, <1>5, <1>6
  <2> QED
    BY <2>1 DEF Generalised
<1>7. ASSUME capability.checkpoint = Checkpoint PROVE Kept[n] \notin Generalised
  <2>1. \A k \in Changed : Body[k] # Kept[n]
    BY <1>1, <1>4, <1>5
  <2> QED
    BY <1>7, <2>1 DEF Generalised
<1>8. ASSUME NEW k \in 1 .. n - 1, EntryClaimsHold,
             capability.steps[k].claim # StepOf(k).claim,
             capability.steps[k].claim = Claim("url", EntryPath)
      PROVE  Occurs(EntryPath, Kept[k].after.path)
  <2>1. k \in Changed /\ Body[k] = Kept[k]
    BY <1>1, <1>3, <1>8
  <2> QED
    BY <1>8, <2>1 DEF EntryClaimsHold
<1> QED
  BY <1>6, <1>7, <1>8

\* What is kept was executed.
LEMMA KeptIsExecuted ==
  ASSUME TraceInv, NEW a \in Range(Kept)
  PROVE  \E m \in Executed : trace[m] = a
<1>1. a \in Range(trace) /\ a.ran
  BY KeptMeans DEF Kept, KeptOf, TraceInv
<1>2. PICK j \in DOMAIN trace : trace[j] = a
  BY <1>1 DEF Range
<1> QED
  BY <1>1, <1>2 DEF Executed
\* What is kept of a recording are attempts.
LEMMA KeptIsOK ==
  ASSUME TraceInv
  PROVE  KeptOK
<1>1. IsList(Kept) /\ Range(Kept) \subseteq Range(trace)
  BY KeptMeans DEF Kept, KeptOf, TraceInv
<1>2. \A k \in 1 .. Len(Kept) : Kept[k] \in Range(Kept)
  BY <1>1, ListMeans
<1> QED
  BY <1>1, <1>2 DEF KeptOK, TraceInv

\* What is relied on, of an attempt that is kept.
LEMMA ReliedOn ==
  ASSUME TraceInv, ReliableBut(Generalised), NEW a \in Range(Kept)
  PROVE  /\ BornOut(a)
         /\ ForAnother =>
              /\ a.held
              /\ \/ a \in Generalised
                 \/ ClaimCarriesOver(a, {trace[n].got : n \in Executed} \ {Nothing})
<1>1. PICK m \in Executed : trace[m] = a
  BY KeptIsExecuted
<1> QED
  BY <1>1 DEF ReliableBut

\* Every claim of a reliable capability holds on the page its step leads to.
LEMMA StepClaimHolds ==
  ASSUME ApplicationIsRegular, PlansAreRegular, IInv, FollowInv, ClaimedInv,
         phase = "replay", Reliably, NEW i \in 1 .. Len(Kept) - 1,
         Kept[i].intent.plan.action # "read"
  PROVE  Holds(BoundClaim(capability.steps[i].claim), Seen(Kept[i + 1].before))
<1>1. /\ TraceInv /\ RecordInv /\ DoneInv /\ Finished /\ member \in Members
      /\ Followable /\ OneDone
      /\ member # Example => Parameterised
      /\ ClaimKept(i)
  BY DEF IInv, FollowInv, FollowsInv, DoneInv, Finished, Nothing, ClaimedInv, Claimed,
         Reliably, ReliableBut, Followable
<1>2. KeptOK /\ IsList(Kept) /\ EndsDone(Kept)
  BY <1>1, KeptIsOK, FollowableMeans DEF KeptOK
<1>3. PICK n \in Nat : n = Len(Kept) /\ Range(Kept) = {Kept[k] : k \in 1 .. n}
  BY <1>2, ListMeans
<1>4. PICK a : a = Kept[i]
  OBVIOUS
<1>5. /\ i \in 1 .. n /\ i # n /\ a \in Range(Kept)
  BY <1>3, <1>4
<1>6. /\ AsDecided(a) /\ ~IsDone(a)
      /\ ForAnother => GoesAsRecorded(a)
      /\ Kept[i + 1].before = a.after
  BY <1>1, <1>4, FollowableMeans
<1>7. ObservedAfter(i) = a.after
  BY <1>6 DEF ObservedAfter
<1>8. /\ BornOut(a)
      /\ ForAnother =>
           /\ a.held
           /\ \/ a \in Generalised
              \/ ClaimCarriesOver(a, {trace[k].got : k \in Executed} \ {Nothing})
  BY <1>1, <1>5, ReliedOn DEF Reliably
<1>9. CASE capability.steps[i].claim = StepOf(i).claim
  <2>1. a \notin Generalised
    BY <1>2, <1>3, <1>4, <1>9, ClaimStands
  <2>2. IsClaim(a.intent.plan.claim)
    BY <1>6, PlanMeans DEF AsDecided, AttemptOK
  <2>3. ForAnother => Holds(About(a.intent.plan.claim, Told(a.intent.plan.claim.of)),
                            Seen(a.after))
    BY <1>4, <1>6, <1>8, <2>1, <2>2, AboutMeans DEF ClaimCarriesOver, IsDone
  <2>4. Holds(BoundClaim(StepOf(i).claim), Seen(a.after))
    BY <1>1, <1>2, <1>3, <1>4, <1>5, <1>6, <1>7, <1>8, <2>3, CompiledClaimHolds
  <2> QED
    BY <1>6, <1>9, <2>4
<1>10. CASE capability.steps[i].claim # StepOf(i).claim
  <2>1. PICK c \in Demoted(StepOf(i), a.after.path) : c = capability.steps[i].claim
    BY <1>1, <1>7, <1>10 DEF ClaimKept
  <2>2. c = Claim("url", EntryPath) => Occurs(EntryPath, a.after.path)
    BY <1>2, <1>3, <1>4, <1>10, <2>1, ClaimStands DEF Reliably
  <2>3. Holds(BoundClaim(c), Seen(a.after))
    BY <1>1, <1>4, <1>6, <2>2, WeakenedClaimHolds
  <2> QED
    BY <1>6, <2>1, <2>3
<1> QED
  BY <1>9, <1>10

\* What is read by an attempt is read by a step of the capability.
LEMMA ReadsAreSteps ==
  ASSUME TraceInv, RecordInv, RepeatsAreIdle, EndsDone(Kept), Chained(Kept)
  PROVE  {trace[n].got : n \in Executed} \ {Nothing} \subseteq ReadValues
<1>1. PICK n \in Nat : n = Len(Kept) /\ Range(Kept) = {Kept[k] : k \in 1 .. n}
  BY ListMeans DEF Chained
<1>2. /\ DOMAIN Body = 1 .. n - 1 /\ \A k \in 1 .. n - 1 : Body[k] = Kept[k]
  BY <1>1, BodyMeans DEF Chained
<1> SUFFICES ASSUME NEW m \in Executed, trace[m].got # Nothing
             PROVE  trace[m].got \in ReadValues
  OBVIOUS
<1>3. PICK k \in 1 .. n : Kept[k].got = trace[m].got
  BY <1>1 DEF RecordInv, ReadsKept
<1>4. AsDecided(Kept[k])
  BY <1>1 DEF Chained
<1>5. ~IsDone(Kept[k])
  BY <1>3, <1>4 DEF AsDecided, IsDone
<1>6. k # n
  BY <1>1, <1>5 DEF EndsDone
<1>7. k \in 1 .. n - 1
  BY <1>6
<1>8. Kept[k] \in Range(Body)
  BY <1>2, <1>7 DEF Range
<1> QED
  BY <1>3, <1>8 DEF ReadValues

\* The checkpoint of a reliable capability holds where the recording ended.
LEMMA CheckpointHolds ==
  ASSUME ApplicationIsRegular, PlansAreRegular, IInv, FollowInv, ClaimedInv,
         phase = "replay", Reliably
  PROVE  Holds(BoundClaim(capability.checkpoint), Seen(Kept[Len(Kept)].before))
<1>1. /\ TraceInv /\ RecordInv /\ DoneInv /\ Finished /\ member \in Members
      /\ Followable /\ OneDone /\ RepeatsAreIdle
      /\ member # Example => Parameterised
      /\ ~Refused /\ CheckpointKept /\ SubstituteStands
  BY DEF IInv, FollowInv, FollowsInv, DoneInv, Finished, Nothing, ClaimedInv, Claimed,
         Reliably, ReliableBut, Followable
<1>2. Chained(Kept) /\ EndsDone(Kept) /\ IsList(Kept)
  BY <1>1, FollowableMeans DEF Chained
<1>3. PICK n \in Nat : n = Len(Kept) /\ Range(Kept) = {Kept[k] : k \in 1 .. n}
  BY <1>2, ListMeans
<1>4. DoneAt = n /\ n \in 1 .. n
  BY <1>2, <1>3, EndsMean
<1>5. PICK d : d = Kept[n]
  OBVIOUS
<1>6. /\ AsDecided(d) /\ IsDone(d) /\ d \in Range(Kept)
  BY <1>2, <1>3, <1>4, <1>5 DEF Chained, EndsDone
<1>7. d.before \in Pages /\ d.after = d.before
  BY <1>6 DEF AsDecided, AttemptOK, After, IsDone
<1> DEFINE q == Seen(d.before)
           own == d.intent.plan.claim
<1>8. FinalPath = d.before.path
  BY <1>4, <1>5 DEF FinalPath
<1>9. ASSUME Occurs(Example, FinalPath) PROVE Holds(BoundClaim(Claim("url", PARAM)), q)
  <2>1. Occurs(member, q.path)
    BY <1>1, <1>7, <1>8, <1>9, PathSeen
  <2>2. /\ BoundClaim(Claim("url", PARAM)) = About(Claim("url", PARAM), member)
        /\ About(Claim("url", PARAM), member).check = "url"
        /\ About(Claim("url", PARAM), member).of = member
    BY ClaimMeans, AboutMeans DEF Bound
  <2> QED
    BY <2>1, <2>2, HoldsMeans
<1>10. CASE capability.checkpoint # Checkpoint
  BY <1>1, <1>3, <1>5, <1>9, <1>10 DEF CheckpointKept, Templatable
<1>11. CASE capability.checkpoint = Checkpoint /\ MustBind
  BY <1>1, <1>3, <1>5, <1>9, <1>11 DEF Checkpoint, Refused
<1>12. CASE capability.checkpoint = Checkpoint /\ ~MustBind
  <2>1. capability.checkpoint = Resolved
    BY <1>12 DEF Checkpoint
  <2> DEFINE others == {k \in 1 .. Len(Steps) : Quoted(Steps[k].claim) \notin ReadValues}
  <2>2. Resolved = IF Quoted(own) \in ReadValues /\ (IF others # {} THEN Max(others) ELSE 0) # 0
                   THEN Steps[IF others # {} THEN Max(others) ELSE 0].claim ELSE own
    BY <1>4, <1>5 DEF Resolved, SelectLastInSeq
  <2>3. Len(Steps) = n - 1 /\ DOMAIN Steps = 1 .. n - 1
    BY <1>2, <1>3, EndsMean, BodyMeans
  <2>4. CASE Quoted(own) \in ReadValues
    <3>1. /\ others # {}
          /\ Holds(BoundClaim(Steps[Max(others)].claim), q)
      BY <1>1, <1>4, <1>5, <1>7, <2>3, <2>4 DEF SubstituteStands
    <3>2. Max(others) # 0
      <4>1. n - 1 \in Nat /\ others \in SUBSET (1 .. n - 1)
        BY <1>4, <2>3
      <4>2. Max(others) \in 1 .. n - 1
        BY <3>1, <4>1, GreatestExists
      <4> QED
        BY <4>2
    <3> HIDE DEF others
    <3>3. Resolved = Steps[Max(others)].claim
      BY <2>2, <2>4, <3>1, <3>2
    <3> QED
      BY <1>3, <1>5, <2>1, <3>1, <3>3
  <2>5. CASE Quoted(own) \notin ReadValues
    <3>1. Resolved = own
      BY <2>2, <2>5
    <3>2. IsClaim(own) /\ own.of # PARAM
      BY <1>6, PlanMeans DEF AsDecided, AttemptOK
    <3>3. member = Example
      BY <1>1, <1>12, <3>1, <3>2 DEF MustBind
    <3>4. BoundClaim(own) = own
      BY <3>2, AboutMeans DEF Bound
    <3>5. /\ BornOut(d)
          /\ ForAnother =>
               \/ d \in Generalised
               \/ ClaimCarriesOver(d, {trace[k].got : k \in Executed} \ {Nothing})
      BY <1>1, <1>6, ReliedOn DEF Reliably
    <3>6. Holds(own, q)
      <4>1. CASE ForAnother
        <5>1. d \notin Generalised
          BY <1>2, <1>3, <1>5, <1>12, ClaimStands
        <5>2. Quoted(own) \notin {trace[k].got : k \in Executed} \ {Nothing}
          BY <1>1, <1>2, <2>5, ReadsAreSteps
        <5>3. Holds(About(own, Told(own.of)), q)
          BY <1>7, <3>2, <3>5, <4>1, <5>1, <5>2, AboutMeans DEF ClaimCarriesOver
        <5>4. Told(own.of) = own.of
          BY <3>3 DEF Told
        <5> QED
          BY <3>2, <5>3, <5>4, AboutMeans
      <4>2. CASE ~ForAnother
        <5>1. q = d.before
          BY <1>1, <1>7, <4>2, SeenMeans
        <5>2. Appeared(d.before, d.before) = 0
          <6> SUFFICES ASSUME NEW k, k = Appeared(d.before, d.before), k # 0 PROVE FALSE
            OBVIOUS
          <6>1. /\ k \in DOMAIN d.before.elements
                /\ \A o \in Range(d.before.elements) : o.text # d.before.elements[k].text
            BY <1>7, AppearedMeans
          <6> QED
            BY <6>1 DEF Range
        <5>3. Holds(own, d.after)
          BY <1>7, <3>5, <5>2 DEF BornOut
        <5> QED
          BY <1>7, <5>1, <5>3
      <4> QED
        BY <4>1, <4>2
    <3> QED
      BY <1>3, <1>5, <2>1, <3>1, <3>4, <3>6
  <2> QED
    BY <2>4, <2>5
<1> QED
  BY <1>10, <1>11, <1>12
\* What the compiler makes of a recording that stays as it is stays as it is.
LEMMA CompiledStays ==
  ASSUME trace' = trace
  PROVE  /\ Kept' = Kept /\ DoneAt' = DoneAt /\ Body' = Body
         /\ Parameterised' = Parameterised /\ ReadValues' = ReadValues
         /\ Steps' = Steps /\ StepUrls' = StepUrls
         /\ Checkpoint' = Checkpoint /\ Refused' = Refused /\ FinalPath' = FinalPath
         /\ \A u : Templatable(u)' = Templatable(u)
         /\ \A i : StepOf(i)' = StepOf(i) /\ ObservedAfter(i)' = ObservedAfter(i)
<1>1. Kept' = Kept
  BY DEF Kept
<1>2. DoneAt' = DoneAt
  BY <1>1 DEF DoneAt, SelectLastInSeq, IsDone
<1>3. Body' = Body
  BY <1>1, <1>2 DEF Body
<1>4. Parameterised' = Parameterised
  BY <1>3 DEF Parameterised
<1>5. ReadValues' = ReadValues
  BY <1>3 DEF ReadValues
<1>6. \A i : ObservedAfter(i)' = ObservedAfter(i)
  BY <1>1 DEF ObservedAfter
<1>7. \A i : Trustworthy(i)' = Trustworthy(i)
  BY <1>1, <1>6 DEF Trustworthy, Appeared, SelectInSeq, Claim
<1>8. \A i : /\ TargetOf(Kept[i])' = TargetOf(Kept[i])
             /\ StepValue(Kept[i])' = StepValue(Kept[i])
  BY <1>1 DEF TargetOf, StepValue, IsDone
<1>9. \A i : StepOf(i)' = StepOf(i)
  <2>1. \A i : Sanitised(Trustworthy(i), StepValue(Kept[i]))'
                = Sanitised(Trustworthy(i), StepValue(Kept[i]))
    BY <1>4, <1>7, <1>8 DEF Sanitised
  <2> QED
    BY <1>1, <1>8, <2>1 DEF StepOf, Unquoted
<1>10. Steps' = Steps
  BY <1>1, <1>2, <1>9 DEF Steps
<1>11. StepUrls' = StepUrls
  BY <1>1, <1>2, <1>6 DEF StepUrls
<1>12. Resolved' = Resolved
  BY <1>1, <1>2, <1>5, <1>10 DEF Resolved, SelectLastInSeq, Quoted
<1>13. FinalPath' = FinalPath
  BY <1>1, <1>2 DEF FinalPath
<1>14. MustBind' = MustBind
  BY <1>4, <1>12 DEF MustBind
<1>15. Checkpoint' = Checkpoint
  BY <1>12, <1>14 DEF Checkpoint, Claim
<1>16. Refused' = Refused
  BY <1>13, <1>14 DEF Refused, Occurs
<1>17. \A u : Templatable(u)' = Templatable(u)
  BY <1>4 DEF Templatable, Occurs
<1> QED
  BY <1>1, <1>2, <1>3, <1>4, <1>5, <1>6, <1>9, <1>10, <1>11, <1>13, <1>15, <1>16, <1>17

\* What a capability that stays as it is claims of a recording that does.
LEMMA ClaimsStay ==
  ASSUME trace' = trace, capability' = capability
  PROVE  /\ Kept' = Kept /\ Parameterised' = Parameterised /\ Refused' = Refused
         /\ \A i : ClaimKept(i)' <=> ClaimKept(i)
         /\ CheckpointKept' <=> CheckpointKept
         /\ Changed' = Changed /\ Generalised' = Generalised
         /\ EntryClaimsHold' <=> EntryClaimsHold
<1>1. /\ Kept' = Kept /\ DoneAt' = DoneAt /\ Body' = Body
      /\ Parameterised' = Parameterised
      /\ Steps' = Steps
      /\ Checkpoint' = Checkpoint /\ Refused' = Refused /\ FinalPath' = FinalPath
      /\ \A u : Templatable(u)' = Templatable(u)
      /\ \A i : StepOf(i)' = StepOf(i) /\ ObservedAfter(i)' = ObservedAfter(i)
  BY CompiledStays
<1>2. ASSUME NEW i PROVE ClaimKept(i)' <=> ClaimKept(i)
  <2>1. Demoted(StepOf(i), ObservedAfter(i).path)' = Demoted(StepOf(i), ObservedAfter(i).path)
    BY <1>1 DEF Demoted, Claim
  <2> QED
    BY <1>1, <2>1 DEF ClaimKept
<1>3. CheckpointKept' <=> CheckpointKept
  BY <1>1 DEF CheckpointKept, Claim
<1>4. Changed' = Changed
  BY <1>1 DEF Changed
<1>5. Generalised' = Generalised
  BY <1>1, <1>4 DEF Generalised
<1>6. EntryClaimsHold' <=> EntryClaimsHold
  BY <1>1, <1>4 DEF EntryClaimsHold, Claim, Occurs
<1> QED
  BY <1>1, <1>2, <1>3, <1>4, <1>5, <1>6

\* A recording, its capability and the replay's request decide what is reliable.
LEMMA ReliablyStays ==
  ASSUME trace' = trace, capability' = capability, member' = member, renewed' = renewed
  PROVE  Reliably' <=> Reliably
<1>1. /\ Kept' = Kept /\ Generalised' = Generalised
      /\ EntryClaimsHold' <=> EntryClaimsHold
  BY ClaimsStay
<1>2. /\ Steps' = Steps /\ ReadValues' = ReadValues /\ DoneAt' = DoneAt
  BY CompiledStays
<1>3. /\ Executed' = Executed /\ (OneDone' <=> OneDone)
      /\ RepeatsAreIdle' <=> RepeatsAreIdle
  BY RecordingStays
<1>4. \A p : Seen(p)' = Seen(p)
  BY DEF Seen, ByNow
<1>5. SubstituteStands' <=> SubstituteStands
  BY <1>1, <1>2, <1>4 DEF SubstituteStands, Quoted, BoundClaim, Bound, Holds, Occurs
<1>6. ForAnother' <=> ForAnother
  BY DEF ForAnother
<1>7. \A n : GoesAsRecorded(trace[n])' <=> GoesAsRecorded(trace[n])
  BY <1>4 DEF GoesAsRecorded, Told
<1>8. Followable' <=> Followable
  BY <1>3, <1>6, <1>7 DEF Followable
<1>9. ASSUME NEW n, NEW read
      PROVE  ClaimCarriesOver(trace[n], read)' <=> ClaimCarriesOver(trace[n], read)
  <2> DEFINE told == [trace[n].intent.plan.claim EXCEPT !.of = Told(trace[n].intent.plan.claim.of)]
             shown == Holds(told, Seen(trace[n].after))
  <2>1. told' = told /\ Seen(trace[n].after)' = Seen(trace[n].after)
    BY <1>4 DEF Told
  <2> HIDE DEF told
  <2>2. shown' <=> shown
    BY <2>1 DEF Holds, Occurs
  <2>3. ClaimCarriesOver(trace[n], read) <=>
          \/ shown
          \/ /\ trace[n].intent.plan.action \in {"read", "done"}
             /\ Quoted(trace[n].intent.plan.claim) \in read
    BY DEF ClaimCarriesOver, told
  <2>4. ClaimCarriesOver(trace[n], read)' <=>
          \/ shown'
          \/ /\ trace[n].intent.plan.action \in {"read", "done"}
             /\ Quoted(trace[n].intent.plan.claim) \in read
    BY DEF ClaimCarriesOver, told, Quoted
  <2> HIDE DEF shown
  <2> QED
    BY <2>2, <2>3, <2>4
<1>10. \A n : BornOut(trace[n])' <=> BornOut(trace[n])
  BY DEF BornOut, Holds, Occurs, Appeared, SelectInSeq
<1>11. ReliableBut(Generalised)' <=> ReliableBut(Generalised)
  BY <1>1, <1>3, <1>6, <1>8, <1>9, <1>10 DEF ReliableBut
<1> QED
  BY <1>1, <1>5, <1>11 DEF Reliably

\* A recording makes no claims yet, and ends in no replay.
LEMMA AttemptClaims ==
  ASSUME IInv, FollowInv, Attempt
  PROVE  ClaimedInv' /\ OutcomeInv'
<1>1. TraceInv /\ phase = "record" /\ result = Nothing
  BY DEF IInv, FollowInv, DoneInv, Attempt
<1>2. PICK i \in Stated, ran \in BOOLEAN, held \in BOOLEAN : AttemptLeaves(i, ran, held)
  BY <1>1, AttemptMeans
<1>3. /\ phase' \in {"record", "compile", "ended"}
      /\ phase' = "ended" => result' = "dead end"
  BY <1>2 DEF AttemptLeaves
<1>4. ~Claimed' /\ ~Replayed'
  BY <1>3 DEF Claimed, Replayed
<1> QED
  BY <1>3, <1>4 DEF ClaimedInv, OutcomeInv

\* What is compiled is claimed.
LEMMA CompileClaims ==
  ASSUME IInv, FollowInv, Compile
  PROVE  ClaimedInv' /\ OutcomeInv'
<1>1. /\ TraceInv /\ DoneInv /\ phase = "compile" /\ trace' = trace
      /\ \/ phase' = "ended" /\ result' = "refused"
         \/ /\ ~Refused /\ phase' = "compiled" /\ result' = result
            /\ capability' = [steps |-> Steps, checkpoint |-> Checkpoint]
  BY DEF IInv, FollowInv, Compile, recording
<1>2. ~Replayed'
  BY <1>1 DEF Replayed
<1>3. OutcomeInv'
  BY <1>2 DEF OutcomeInv
<1>4. CASE phase' = "ended"
  <2>1. ~Claimed' /\ phase' \notin {"compiled", "replay"}
    BY <1>2, <1>4 DEF Claimed
  <2> QED
    BY <1>2, <1>3, <2>1 DEF ClaimedInv
<1>5. CASE phase' = "compiled"
  <2>1. ~Refused /\ capability' = [steps |-> Steps, checkpoint |-> Checkpoint]
    BY <1>1, <1>5
  <2>2. /\ Kept' = Kept /\ Steps' = Steps /\ Checkpoint' = Checkpoint /\ Refused' = Refused
        /\ \A i : StepOf(i)' = StepOf(i)
    BY <1>1, CompiledStays
  <2>3. OneDone' <=> OneDone
    BY <1>1, RecordingStays
  <2>4. CheckpointKept'
    BY <2>1, <2>2 DEF CheckpointKept
  <2>5. ASSUME OneDone, NEW i \in 1 .. Len(Kept) - 1
        PROVE  ClaimKept(i)'
    <3>1. result = Nothing /\ Finished
      BY <1>1 DEF DoneInv, Finished, Nothing
    <3>2. IsList(Kept) /\ EndsDone(Kept)
      BY <1>1, <2>5, <3>1, KeptMeans DEF Kept, KeptOf, TraceInv, DoneInv
    <3>3. PICK n \in Nat : n = Len(Kept)
      BY <3>2, ListMeans
    <3>4. Steps[i] = StepOf(i)
      BY <2>5, <3>2, <3>3, EndsMean
    <3>5. capability'.steps[i].claim = StepOf(i)'.claim
      BY <2>1, <2>2, <3>4
    <3> QED
      BY <3>5 DEF ClaimKept
  <2>6. ~Refused' /\ capability' = [steps |-> Steps, checkpoint |-> Checkpoint]'
    BY <2>1, <2>2
  <2>7. phase' # "replay"
    BY <1>5
  <2> QED
    BY <1>2, <1>3, <2>2, <2>3, <2>4, <2>5, <2>6, <2>7 DEF ClaimedInv
<1> QED
  BY <1>1, <1>3, <1>4, <1>5

\* A label changes a claim, if it does, to what it is weakened to.
LEMMA WeakenedClaim ==
  ASSUME NEW s, StepOK(s), NEW url
  PROVE  \/ Weakened(s, url).claim = s.claim
         \/ s.action # "read" /\ Weakened(s, url).claim \in Demoted(s, url)
<1> DEFINE c == CHOOSE c \in Demoted(s, url) : TRUE
           w == [s EXCEPT !.claim = c]
<1>1. \/ Weakened(s, url) = s
      \/ Weakened(s, url) = w /\ s.action # "read" /\ Demoted(s, url) # {}
  BY DEF Weakened
<1>2. Demoted(s, url) # {} => c \in Demoted(s, url)
  OBVIOUS
<1> HIDE DEF c
<1>3. w = [action |-> s.action, target |-> s.target, value |-> s.value, claim |-> c]
  BY DEF StepOK
<1> QED
  BY <1>1, <1>2, <1>3

\* Labels leave every claim as it was compiled, or weakened.
LEMMA LabelClaims ==
  ASSUME IInv, FollowInv, ClaimedInv, Label
  PROVE  ClaimedInv' /\ OutcomeInv'
<1>1. /\ TraceInv /\ CapabilityInv /\ DoneInv /\ phase = "compiled" /\ phase' = "labelled"
      /\ trace' = trace /\ ~Refused
      /\ capability = [steps |-> Steps, checkpoint |-> Checkpoint]
  BY DEF IInv, FollowInv, Label, recording, ClaimedInv, Claimed
<1>2. ~Replayed'
  BY <1>1 DEF Replayed
<1> DEFINE steps == capability.steps
           labelled == capability'.steps
<1>3. PICK labels, fitted :
        /\ labelled = [i \in DOMAIN steps |->
                         IF i \in labels THEN Weakened(steps[i], StepUrls[i]) ELSE steps[i]]
        /\ capability'.checkpoint =
             IF fitted /\ ~InputFollowing(capability.checkpoint) /\ Templatable(FinalPath)
             THEN Claim("url", PARAM) ELSE capability.checkpoint
  BY DEF Label, Generalise
<1>4. steps = Steps /\ capability.checkpoint = Checkpoint
  BY <1>1
<1>5. /\ Kept' = Kept /\ Steps' = Steps /\ Checkpoint' = Checkpoint /\ Refused' = Refused
      /\ FinalPath' = FinalPath
      /\ \A u : Templatable(u)' = Templatable(u)
      /\ \A i : StepOf(i)' = StepOf(i) /\ ObservedAfter(i)' = ObservedAfter(i)
  BY <1>1, CompiledStays
<1>6. OneDone' <=> OneDone
  BY <1>1, RecordingStays
<1>7. CheckpointKept'
  BY <1>3, <1>4, <1>5 DEF CheckpointKept, Claim
<1>8. IsList(steps) /\ \A s \in Range(steps) : StepOK(s)
  BY <1>1 DEF CapabilityInv
<1>9. ASSUME OneDone, NEW i \in 1 .. Len(Kept) - 1
      PROVE  ClaimKept(i)'
  <2>1. result = Nothing /\ Finished
    BY <1>1 DEF DoneInv, Finished, Nothing
  <2>2. IsList(Kept) /\ EndsDone(Kept)
    BY <1>1, <1>9, <2>1, KeptMeans DEF Kept, KeptOf, TraceInv, DoneInv
  <2>3. PICK n \in Nat : n = Len(Kept)
    BY <2>2, ListMeans
  <2>4. i \in DOMAIN steps /\ steps[i] = StepOf(i) /\ StepUrls[i] = ObservedAfter(i).path
    BY <1>4, <1>9, <2>2, <2>3, BodyMeans
  <2>5. StepOK(steps[i])
    BY <1>8, <2>4 DEF Range
  <2>6. labelled[i] = IF i \in labels THEN Weakened(steps[i], StepUrls[i]) ELSE steps[i]
    BY <1>3, <2>4
  <2> HIDE DEF steps, labelled
  <2>7. \/ labelled[i].claim = StepOf(i).claim
        \/ /\ StepOf(i).action # "read"
           /\ labelled[i].claim \in Demoted(StepOf(i), ObservedAfter(i).path)
    BY <2>4, <2>5, <2>6, WeakenedClaim
  <2>8. Demoted(StepOf(i), ObservedAfter(i).path)' = Demoted(StepOf(i), ObservedAfter(i).path)
    BY <1>5 DEF Demoted, Claim
  <2> QED
    BY <1>5, <2>7, <2>8 DEF ClaimKept, labelled
<1> QED
  BY <1>1, <1>2, <1>5, <1>6, <1>7, <1>9 DEF ClaimedInv, Claimed, OutcomeInv

\* A replay is for a member the capability takes.
LEMMA InvokeClaims ==
  ASSUME ClaimedInv, Invoke
  PROVE  ClaimedInv' /\ OutcomeInv'
<1>1. /\ phase \in {"compiled", "labelled"} /\ phase' = "replay"
      /\ trace' = trace /\ capability' = capability
      /\ member' \in IF Parameterised THEN Members ELSE {Example}
  BY DEF Invoke, recording
<1>2. /\ ~Refused /\ CheckpointKept
      /\ OneDone => \A i \in 1 .. Len(Kept) - 1 : ClaimKept(i)
  BY <1>1 DEF ClaimedInv, Claimed
<1>3. /\ Kept' = Kept /\ Parameterised' = Parameterised /\ Refused' = Refused
      /\ \A i : ClaimKept(i)' <=> ClaimKept(i)
      /\ CheckpointKept' <=> CheckpointKept
  BY <1>1, ClaimsStay
<1>4. OneDone' <=> OneDone
  BY <1>1, RecordingStays
<1>5. ~Replayed'
  BY <1>1 DEF Replayed
<1>6. OutcomeInv'
  BY <1>5 DEF OutcomeInv
<1> QED
  BY <1>1, <1>2, <1>3, <1>4, <1>6 DEF ClaimedInv

\* What was claimed stays claimed during a replay.
LEMMA ReplayClaims ==
  ASSUME ClaimedInv, phase = "replay", UNCHANGED recording, UNCHANGED request,
         phase' \in {"replay", "ended"}
  PROVE  ClaimedInv' /\ (Reliably' <=> Reliably)
<1>1. /\ trace' = trace /\ capability' = capability /\ member' = member /\ renewed' = renewed
  BY DEF recording, request
<1>2. /\ ~Refused /\ CheckpointKept
      /\ OneDone => \A i \in 1 .. Len(Kept) - 1 : ClaimKept(i)
      /\ member # Example => Parameterised
  BY DEF ClaimedInv, Claimed
<1>3. /\ Kept' = Kept /\ Parameterised' = Parameterised /\ Refused' = Refused
      /\ \A i : ClaimKept(i)' <=> ClaimKept(i)
      /\ CheckpointKept' <=> CheckpointKept
  BY <1>1, ClaimsStay
<1>4. OneDone' <=> OneDone
  BY <1>1, RecordingStays
<1>5. Reliably' <=> Reliably
  BY <1>1, ReliablyStays
<1>6. phase' # "compiled"
  OBVIOUS
<1> QED
  BY <1>1, <1>2, <1>3, <1>4, <1>5, <1>6 DEF ClaimedInv

\* A step of a reliable capability does not fail in its claim.
LEMMA PerformedClaims ==
  ASSUME ApplicationIsRegular, PlansAreRegular, IInv, FollowInv, ClaimedInv, StepPerformed
  PROVE  ClaimedInv' /\ OutcomeInv'
<1>1. /\ phase = "replay" /\ UNCHANGED recording /\ UNCHANGED request
      /\ phase' \in {"replay", "ended"} /\ at < Len(capability.steps)
      /\ phase' = "ended" => result' = "claim failed"
  BY DEF StepPerformed
<1>2. ClaimedInv' /\ (Reliably' <=> Reliably)
  BY <1>1, ReplayClaims
<1>3. ASSUME Reliably PROVE phase' # "ended"
  <2>1. Followable
    BY <1>3 DEF Reliably, ReliableBut
  <2>2. PICK i : i = at + 1
    OBVIOUS
  <2>3. /\ i \in 1 .. Len(Kept) - 1
        /\ capability.steps[i].action = Kept[i].intent.plan.action
        /\ capability.steps[i].target # NoTarget
        /\ ByNow(After(page, Kept[i].intent.plan.action, Here,
                       Bound(capability.steps[i].value))) = Seen(Kept[i + 1].before)
    BY <1>1, <2>1, <2>2, StepIsSeen
  <2>4. \/ capability.steps[i].action = "read"
        \/ Holds(BoundClaim(capability.steps[i].claim), Seen(Kept[i + 1].before))
    BY <1>1, <1>3, <2>3, StepClaimHolds
  <2>5. \/ capability.steps[i].action = "read"
        \/ Holds(BoundClaim(capability.steps[i].claim),
                 ByNow(After(page, capability.steps[i].action, Here,
                             Bound(capability.steps[i].value))))
    BY <2>3, <2>4
  <2>6. phase' = phase
    BY <2>2, <2>3, <2>5 DEF StepPerformed
  <2> QED
    BY <1>1, <2>6
<1>4. OutcomeInv'
  BY <1>1, <1>2, <1>3 DEF OutcomeInv, Replayed
<1> QED
  BY <1>2, <1>4

\* Nor does it fail in its checkpoint.
LEMMA AssertClaims ==
  ASSUME ApplicationIsRegular, PlansAreRegular, IInv, FollowInv, ClaimedInv, AssertCheckpoint
  PROVE  ClaimedInv' /\ OutcomeInv'
<1>1. /\ phase = "replay" /\ UNCHANGED recording /\ UNCHANGED request
      /\ phase' = "ended" /\ at = Len(capability.steps)
      /\ result' \in {"success", "checkpoint failed"}
  BY DEF AssertCheckpoint
<1>2. ClaimedInv' /\ (Reliably' <=> Reliably)
  BY <1>1, ReplayClaims
<1>3. ASSUME Reliably PROVE result' = "success"
  <2>1. Followable
    BY <1>3 DEF Reliably, ReliableBut
  <2>2. /\ TraceInv /\ page = Seen(Kept[at + 1].before)
        /\ Performs(capability.steps, Kept)
    BY <1>1, <2>1 DEF IInv, FollowInv, FollowsInv, PerformsInv, Followable
  <2>3. PICK n \in Nat : n = Len(Kept)
    BY <2>2, KeptMeans, ListMeans DEF Kept, KeptOf, TraceInv
  <2>4. at + 1 = Len(Kept)
    <3>1. at = n - 1
      BY <1>1, <2>2, <2>3 DEF Performs
    <3> QED
      BY <2>3, <3>1
  <2>5. Holds(BoundClaim(capability.checkpoint), page)
    BY <1>1, <1>3, <2>2, <2>4, CheckpointHolds
  <2> QED
    BY <2>5 DEF AssertCheckpoint
<1>4. OutcomeInv'
  BY <1>1, <1>2, <1>3 DEF OutcomeInv
<1> QED
  BY <1>2, <1>4

\* Not to find an element is no failed claim.
LEMMA NotFoundClaims ==
  ASSUME ClaimedInv, StepNotFound
  PROVE  ClaimedInv' /\ OutcomeInv'
<1>1. /\ phase = "replay" /\ UNCHANGED recording /\ UNCHANGED request
      /\ phase' = "ended" /\ result' = "not found"
  BY DEF StepNotFound
<1>2. ClaimedInv'
  BY <1>1, ReplayClaims
<1>3. OutcomeInv'
  BY <1>1 DEF OutcomeInv
<1> QED
  BY <1>2, <1>3

\* Where nothing changes what was claimed stays.
LEMMA StutterClaims ==
  ASSUME ClaimedInv, OutcomeInv, UNCHANGED vars
  PROVE  ClaimedInv' /\ OutcomeInv'
<1>1. /\ trace' = trace /\ phase' = phase /\ result' = result
      /\ capability' = capability /\ member' = member /\ renewed' = renewed
  BY DEF vars, recording, request
<1>2. /\ Kept' = Kept /\ Parameterised' = Parameterised /\ Refused' = Refused
      /\ \A i : ClaimKept(i)' <=> ClaimKept(i)
      /\ CheckpointKept' <=> CheckpointKept
  BY <1>1, ClaimsStay
<1>3. (OneDone' <=> OneDone) /\ (Reliably' <=> Reliably)
      /\ Steps' = Steps /\ Checkpoint' = Checkpoint
  BY <1>1, RecordingStays, ReliablyStays, CompiledStays
<1>4. (Replayed' <=> Replayed) /\ (Claimed' <=> Claimed)
  BY <1>1 DEF Replayed, Claimed
<1>5. OutcomeInv'
  BY <1>1, <1>3, <1>4 DEF OutcomeInv
<1>6. ClaimedInv'
  BY <1>1, <1>2, <1>3, <1>4 DEF ClaimedInv
<1> QED
  BY <1>5, <1>6

\* In a regular application everything a capability claims is what was compiled
\* or what that was weakened to, and a replay of a reliable one fails in no claim.
THEOREM ClaimInvariant ==
  ASSUME ApplicationIsRegular, PlansAreRegular
  PROVE  LabelledSpec => [](ClaimedInv /\ OutcomeInv)
<1>1. Init => ClaimedInv /\ OutcomeInv
  BY DEF Init, ClaimedInv, OutcomeInv, Claimed, Replayed
<1>2. IInv /\ FollowInv /\ ClaimedInv /\ OutcomeInv /\ [LabelledNext]_vars
        => ClaimedInv' /\ OutcomeInv'
  <2> SUFFICES ASSUME IInv, FollowInv, ClaimedInv, OutcomeInv, [LabelledNext]_vars
               PROVE  ClaimedInv' /\ OutcomeInv'
    OBVIOUS
  <2>1. CASE Attempt
    BY <2>1, AttemptClaims
  <2>2. CASE Compile
    BY <2>2, CompileClaims
  <2>3. CASE Label
    BY <2>3, LabelClaims
  <2>4. CASE Invoke
    BY <2>4, InvokeClaims
  <2>5. CASE StepNotFound
    BY <2>5, NotFoundClaims
  <2>6. CASE StepPerformed
    BY <2>6, PerformedClaims
  <2>7. CASE AssertCheckpoint
    BY <2>7, AssertClaims
  <2>8. CASE UNCHANGED vars
    BY <2>8, StutterClaims
  <2> QED
    BY <2>1, <2>2, <2>3, <2>4, <2>5, <2>6, <2>7, <2>8 DEF LabelledNext, Next
<1> QED
  BY <1>1, <1>2, InductiveInvariant, FollowInvariant, PTL DEF LabelledSpec

\* A reliable recording's capability succeeds: for every member, however the
\* figures have changed and whichever of its expectations a model called fitted
\* to the record, on the page the recording ended on, as that member sees it.
\* (compiler.py:compile_capability, generalize.py:apply, engine.py:_run_step)
THEOREM ReliableReplaysSucceed ==
  ASSUME ApplicationIsRegular, PlansAreRegular
  PROVE  LabelledSpec => []CleanRecordingReplays
<1>1. ASSUME FollowInv, OutcomeInv, IInv PROVE CleanRecordingReplays
  <2> SUFFICES ASSUME Replayed, Reliably
               PROVE  result = "success" /\ page = Seen(trace[Len(trace)].after)
    BY DEF CleanRecordingReplays, Reliably
  <2>1. Followable /\ OneDone /\ Finished /\ TraceInv /\ RecordInv /\ DoneInv
    BY <1>1 DEF Reliably, ReliableBut, Followable, Finished, Replayed, IInv, FollowInv
  <2>2. /\ result # "not found" /\ page = Seen(Kept[at + 1].before)
        /\ result = "success" => at + 1 = Len(Kept)
    BY <1>1, <2>1 DEF FollowInv, FollowsInv
  <2>3. result = "success"
    BY <1>1, <2>2 DEF OutcomeInv
  <2>4. page = Seen(Last(Kept).before)
    BY <2>2, <2>3 DEF Last
  <2>5. Chained(Kept) /\ EndsDone(Kept) /\ Last(Kept) = trace[Len(trace)]
    BY <2>1, FollowableMeans DEF DoneInv, Last
  <2>6. PICK n \in Nat : n = Len(Kept)
    BY <2>5, ListMeans DEF Chained
  <2>7. n # 0 /\ Last(Kept) = Kept[n]
    BY <2>5, <2>6, EndsMean DEF Chained
  <2>8. AsDecided(Last(Kept)) /\ IsDone(Last(Kept))
    BY <2>5, <2>6, <2>7 DEF Chained, EndsDone
  <2>9. Last(Kept).after = Last(Kept).before
    BY <2>8 DEF AsDecided, After, IsDone
  <2> QED
    BY <2>3, <2>4, <2>5, <2>9
<1> QED
  BY <1>1, ClaimInvariant, FollowInvariant, InductiveInvariant, PTL
===============================================================================

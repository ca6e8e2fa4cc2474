---------------------------- MODULE RecorderProofs ----------------------------
(***************************************************************************)
(* Proofs about Recorder, for any frames, places and number of handoffs.   *)
(***************************************************************************)
EXTENDS Recorder, TLAPS, SequenceTheorems, FiniteSetTheorems

Listening == {"pumping", "polling", "stopping", "over"}

\* The acts told in a list.
Told(list) == {list[k].id : k \in ActsIn(list)}

\* What is told in a list is told in the order it was done; what is told in one
\* list was done before what is told in another.
InOrder(list) == \A j, k \in ActsIn(list) : j < k => list[j].id < list[k].id
Before(list, later) == \A id \in Told(list), next \in Told(later) : id < next

\* Everything told in a list was done by a person in a handoff.
TheirsIn(list, r) == \A id \in Told(list) : acts[id] = [by |-> "person", in |-> r]

\* The last navigation of a list went to a place.
EndsAt(list, url) ==
  \E k \in NavigationsIn(list) :
    /\ list[k].url = url
    /\ \A j \in NavigationsIn(list) : j <= k

(***************************************************************************)
(* The inductive invariant, in named parts.                                *)
(***************************************************************************)
\* One recorder listens for navigations, while it waits; the recorder of the
\* first handoff is behind the binding for good.
PlaceInv ==
  /\ pc # "driving" => round \in Rounds
  /\ heeding = IF pc \in Listening THEN {round} ELSE {}
  /\ bound = Nobody <=> round = 0 \/ (round = 1 /\ pc = "exposing")
  /\ bound # Nobody => bound = 1

\* A document that the recorder found and that does not report is one it has yet
\* to come to.
FoundInv ==
  /\ pc # "evaluating" => todo = {}
  /\ \A f \in Frames \ late : docs[f].url # Absent => docs[f].listeners = 1 \/ f \in todo

\* What is told is told in the order it was done, and by the first recorder.
OrderInv ==
  /\ InOrder(queue) /\ Told(queue) \subseteq DOMAIN acts
  /\ bound = Nobody => Told(queue) = {}
  /\ \A r \in Rounds :
       /\ InOrder(log[r]) /\ Told(log[r]) \subseteq DOMAIN acts /\ Before(log[r], queue)
       /\ r # bound => Told(log[r]) = {}

\* During the first handoff nothing is told but what a person does in it.
TheirsInv ==
  /\ round = 1 /\ pc # "driving" => TheirsIn(queue, 1) /\ TheirsIn(log[1], 1)
  /\ \A r \in Rounds :
       /\ Told(written[r]) \subseteq DOMAIN acts
       /\ TheirsIn(written[r], r) /\ InOrder(written[r])

\* The last navigation heard of is where the page is.
EndsInv ==
  Waiting /\ moves.last # NoUrl =>
    /\ docs[Main].url = moves.last
    /\ IF NavigationsIn(queue) = {} THEN EndsAt(log[round], moves.last)
                                    ELSE EndsAt(queue, moves.last)

IInv ==
  /\ TypeOK
  /\ PlaceInv
  /\ FoundInv
  /\ OrderInv
  /\ TheirsInv
  /\ FoundIsHeardAtFirst
  /\ EndsInv

-------------------------------------------------------------------------------
(***************************************************************************)
(* Lemmas about lists of reports.                                          *)
(***************************************************************************)
\* Both kinds of report are reports.
LEMMA ReportKinds ==
  /\ \A id \in Nat : Acted(id) \in Reports /\ Acted(id).kind = "act" /\ Acted(id).id = id
  /\ \A url \in Urls : /\ Navigated(url) \in Reports
                       /\ Navigated(url).kind = "navigate"
                       /\ Navigated(url).url = url
BY DEF Acted, Navigated, Reports

\* The entries of a list are reports, numbered up to its length.
LEMMA Listed ==
  ASSUME NEW list \in Seq(Reports)
  PROVE  /\ Len(list) \in Nat
         /\ DOMAIN list = 1 .. Len(list)
         /\ \A k \in DOMAIN list : list[k] \in Reports
<1>1. Len(list) \in Nat /\ DOMAIN list = 1 .. Len(list)
  BY LenProperties
<1>2. \A k \in 1 .. Len(list) : list[k] \in Reports
  BY ElementOfSeq
<1> QED
  BY <1>1, <1>2

\* One more entry at the end of a list of whatever there is.
LEMMA Lengthened ==
  ASSUME NEW S, NEW list \in Seq(S), NEW x \in S, NEW n \in Nat, n = Len(list)
  PROVE  /\ DOMAIN list = 1 .. n
         /\ Append(list, x) \in Seq(S)
         /\ Len(Append(list, x)) = n + 1
         /\ DOMAIN Append(list, x) = 1 .. n + 1
         /\ \A k \in 1 .. n : Append(list, x)[k] = list[k]
         /\ Append(list, x)[n + 1] = x
<1>1. /\ Append(list, x) \in Seq(S)
      /\ Len(Append(list, x)) = n + 1
      /\ \A k \in 1 .. n : Append(list, x)[k] = list[k]
      /\ Append(list, x)[n + 1] = x
  BY AppendProperties
<1>2. DOMAIN list = 1 .. n
  BY LenProperties
<1>3. DOMAIN Append(list, x) = 1 .. n + 1
  BY <1>1, LenProperties
<1> QED
  BY <1>1, <1>2, <1>3

\* What a report at the end of a list adds to it.
LEMMA Appended ==
  ASSUME NEW list \in Seq(Reports), NEW x \in Reports, NEW n \in Nat, n = Len(list)
  PROVE  /\ ActsIn(list) \subseteq 1 .. n
         /\ NavigationsIn(list) \subseteq 1 .. n
         /\ Append(list, x) \in Seq(Reports)
         /\ \A k \in 1 .. n : Append(list, x)[k] = list[k]
         /\ Append(list, x)[n + 1] = x
         /\ ActsIn(Append(list, x)) =
              ActsIn(list) \cup (IF x.kind = "act" THEN {n + 1} ELSE {})
         /\ NavigationsIn(Append(list, x)) =
              NavigationsIn(list) \cup (IF x.kind = "navigate" THEN {n + 1} ELSE {})
<1>1. /\ DOMAIN list = 1 .. n
      /\ Append(list, x) \in Seq(Reports)
      /\ DOMAIN Append(list, x) = 1 .. n + 1
      /\ \A k \in 1 .. n : Append(list, x)[k] = list[k]
      /\ Append(list, x)[n + 1] = x
  BY Lengthened
<1>2. /\ 1 .. n + 1 = (1 .. n) \cup {n + 1}
      /\ n + 1 \notin 1 .. n
  OBVIOUS
<1>3. /\ ActsIn(list) \subseteq 1 .. n
      /\ NavigationsIn(list) \subseteq 1 .. n
  BY <1>1 DEF ActsIn, NavigationsIn
<1>4. ActsIn(Append(list, x)) = ActsIn(list) \cup (IF x.kind = "act" THEN {n + 1} ELSE {})
  BY <1>1, <1>2 DEF ActsIn
<1>5. NavigationsIn(Append(list, x)) =
        NavigationsIn(list) \cup (IF x.kind = "navigate" THEN {n + 1} ELSE {})
  BY <1>1, <1>2 DEF NavigationsIn
<1> QED
  BY <1>1, <1>3, <1>4, <1>5

\* What is left of a list when its first report is taken from it.
LEMMA Shortened ==
  ASSUME NEW list \in Seq(Reports), list # <<>>
  PROVE  /\ Tail(list) \in Seq(Reports)
         /\ Head(list) = list[1] /\ list[1] \in Reports
         /\ 1 \in ActsIn(list) <=> list[1].kind = "act"
         /\ 1 \in NavigationsIn(list) <=> list[1].kind = "navigate"
         /\ \A k \in ActsIn(Tail(list)) :
              k \in Nat /\ k >= 1 /\ k + 1 \in ActsIn(list) /\ Tail(list)[k] = list[k + 1]
         /\ \A k \in NavigationsIn(Tail(list)) :
              k \in Nat /\ k >= 1 /\ k + 1 \in NavigationsIn(list) /\ Tail(list)[k] = list[k + 1]
         /\ \A k \in ActsIn(list) :
              k # 1 => k - 1 \in ActsIn(Tail(list)) /\ Tail(list)[k - 1] = list[k]
         /\ \A k \in NavigationsIn(list) :
              k # 1 => k - 1 \in NavigationsIn(Tail(list)) /\ Tail(list)[k - 1] = list[k]
<1> DEFINE n == Len(list)
<1>1. n \in Nat /\ DOMAIN list = 1 .. n /\ \A k \in DOMAIN list : list[k] \in Reports
  BY Listed
<1>2. n # 0
  BY <1>1, EmptySeq
<1>3. /\ Tail(list) \in Seq(Reports)
      /\ Len(Tail(list)) = n - 1
      /\ \A k \in 1 .. Len(Tail(list)) : Tail(list)[k] = list[k + 1]
      /\ Head(list) = list[1]
  BY HeadTailProperties
<1>4. DOMAIN Tail(list) = 1 .. n - 1
  BY <1>3, LenProperties
<1> HIDE DEF n
<1>5. 1 \in DOMAIN list
  BY <1>1, <1>2
<1>6. /\ \A k \in 1 .. n - 1 : k \in Nat /\ k >= 1 /\ k + 1 \in 1 .. n /\ Tail(list)[k] = list[k + 1]
      /\ \A k \in 1 .. n : k # 1 => k - 1 \in 1 .. n - 1 /\ Tail(list)[k - 1] = list[k]
  <2>1. \A k \in 1 .. n - 1 : k \in Nat /\ k >= 1 /\ k + 1 \in 1 .. n
    BY <1>1
  <2>2. \A k \in 1 .. n - 1 : Tail(list)[k] = list[k + 1]
    BY <1>3
  <2>3. ASSUME NEW k \in 1 .. n, k # 1
        PROVE  k - 1 \in 1 .. n - 1 /\ Tail(list)[k - 1] = list[k]
    <3>1. k - 1 \in 1 .. n - 1 /\ (k - 1) + 1 = k
      BY <1>1, <2>3
    <3> QED
      BY <3>1, <2>2
  <2> QED
    BY <2>1, <2>2, <2>3
<1>7. /\ 1 \in ActsIn(list) <=> list[1].kind = "act"
      /\ 1 \in NavigationsIn(list) <=> list[1].kind = "navigate"
  BY <1>5 DEF ActsIn, NavigationsIn
<1>8. /\ \A k \in ActsIn(Tail(list)) :
           k \in Nat /\ k >= 1 /\ k + 1 \in ActsIn(list) /\ Tail(list)[k] = list[k + 1]
      /\ \A k \in ActsIn(list) :
           k # 1 => k - 1 \in ActsIn(Tail(list)) /\ Tail(list)[k - 1] = list[k]
  BY <1>1, <1>4, <1>6 DEF ActsIn
<1>9. /\ \A k \in NavigationsIn(Tail(list)) :
           k \in Nat /\ k >= 1 /\ k + 1 \in NavigationsIn(list) /\ Tail(list)[k] = list[k + 1]
      /\ \A k \in NavigationsIn(list) :
           k # 1 => k - 1 \in NavigationsIn(Tail(list)) /\ Tail(list)[k - 1] = list[k]
  BY <1>1, <1>4, <1>6 DEF NavigationsIn
<1> QED
  BY <1>1, <1>3, <1>5, <1>7, <1>8, <1>9

\* What is told in a list, once another report is at its end.
LEMMA ToldAppended ==
  ASSUME NEW list \in Seq(Reports), NEW x \in Reports
  PROVE  Told(Append(list, x)) = Told(list) \cup (IF x.kind = "act" THEN {x.id} ELSE {})
<1>1. PICK n \in Nat : n = Len(list)
  BY Listed
<1>2. \A k \in ActsIn(list) : Append(list, x)[k] = list[k]
  BY <1>1, Appended
<1>3. /\ Append(list, x)[n + 1] = x
      /\ ActsIn(Append(list, x)) =
           ActsIn(list) \cup (IF x.kind = "act" THEN {n + 1} ELSE {})
  BY <1>1, Appended
<1> QED
  BY <1>2, <1>3 DEF Told

\* It is still in order, when that report is of a later act.
LEMMA OrderAppended ==
  ASSUME NEW list \in Seq(Reports), NEW x \in Reports, InOrder(list),
         x.kind = "act" => \A id \in Told(list) : id < x.id
  PROVE  InOrder(Append(list, x))
<1> DEFINE longer == Append(list, x)
<1>1. PICK n \in Nat : n = Len(list)
  BY Listed
<1>2. /\ ActsIn(list) \subseteq 1 .. n
      /\ \A k \in 1 .. n : longer[k] = list[k]
      /\ longer[n + 1] = x
      /\ ActsIn(longer) = ActsIn(list) \cup (IF x.kind = "act" THEN {n + 1} ELSE {})
  BY <1>1, Appended
<1> HIDE DEF longer
<1>3. ASSUME NEW j \in ActsIn(longer), NEW k \in ActsIn(longer), j < k
      PROVE  longer[j].id < longer[k].id
  <2>1. CASE k \in ActsIn(list)
    <3>1. j \in ActsIn(list)
      BY <1>2, <1>3, <2>1
    <3> QED
      BY <1>2, <1>3, <2>1, <3>1 DEF InOrder
  <2>2. CASE k \notin ActsIn(list)
    <3>1. x.kind = "act" /\ k = n + 1
      BY <1>2, <2>2
    <3>2. j \in ActsIn(list)
      BY <1>2, <1>3, <3>1
    <3>3. list[j].id \in Told(list)
      BY <3>2 DEF Told
    <3> QED
      BY <1>2, <3>1, <3>2, <3>3
  <2> QED
    BY <2>1, <2>2
<1> QED
  BY <1>3 DEF InOrder, longer

\* What is told in a list is its first report, and what is told in the rest.
LEMMA ToldShortened ==
  ASSUME NEW list \in Seq(Reports), list # <<>>
  PROVE  Told(list) =
           Told(Tail(list)) \cup (IF Head(list).kind = "act" THEN {Head(list).id} ELSE {})
<1>1. /\ Head(list) = list[1]
      /\ 1 \in ActsIn(list) <=> list[1].kind = "act"
      /\ \A k \in ActsIn(Tail(list)) : k + 1 \in ActsIn(list) /\ Tail(list)[k] = list[k + 1]
      /\ \A k \in ActsIn(list) :
           k # 1 => k - 1 \in ActsIn(Tail(list)) /\ Tail(list)[k - 1] = list[k]
  BY Shortened
<1>2. ASSUME NEW id \in Told(Tail(list))
      PROVE  id \in Told(list)
  <2>1. PICK k \in ActsIn(Tail(list)) : id = Tail(list)[k].id
    BY <1>2 DEF Told
  <2>2. k + 1 \in ActsIn(list) /\ id = list[k + 1].id
    BY <1>1, <2>1
  <2> QED
    BY <2>2 DEF Told
<1>3. ASSUME Head(list).kind = "act"
      PROVE  Head(list).id \in Told(list)
  BY <1>1, <1>3 DEF Told
<1>4. ASSUME NEW id \in Told(list)
      PROVE  id \in Told(Tail(list)) \/ (Head(list).kind = "act" /\ id = Head(list).id)
  <2>1. PICK k \in ActsIn(list) : id = list[k].id
    BY <1>4 DEF Told
  <2>2. CASE k = 1
    BY <1>1, <2>1, <2>2
  <2>3. CASE k # 1
    <3>1. k - 1 \in ActsIn(Tail(list)) /\ id = Tail(list)[k - 1].id
      BY <1>1, <2>1, <2>3
    <3> QED
      BY <3>1 DEF Told
  <2> QED
    BY <2>2, <2>3
<1> QED
  BY <1>2, <1>3, <1>4

\* The rest of a list in order is in order, and after its first report.
LEMMA OrderShortened ==
  ASSUME NEW list \in Seq(Reports), list # <<>>, InOrder(list)
  PROVE  /\ InOrder(Tail(list))
         /\ Head(list).kind = "act" => \A id \in Told(Tail(list)) : Head(list).id < id
<1>1. /\ Head(list) = list[1]
      /\ 1 \in ActsIn(list) <=> list[1].kind = "act"
      /\ \A k \in ActsIn(Tail(list)) :
           k \in Nat /\ k >= 1 /\ k + 1 \in ActsIn(list) /\ Tail(list)[k] = list[k + 1]
  BY Shortened
<1>2. ASSUME NEW j \in ActsIn(Tail(list)), NEW k \in ActsIn(Tail(list)), j < k
      PROVE  Tail(list)[j].id < Tail(list)[k].id
  <2>1. j + 1 < k + 1
    BY <1>1, <1>2
  <2>2. list[j + 1].id < list[k + 1].id
    BY <1>1, <2>1 DEF InOrder
  <2> QED
    BY <1>1, <2>2
<1>3. ASSUME Head(list).kind = "act", NEW id \in Told(Tail(list))
      PROVE  Head(list).id < id
  <2>1. PICK k \in ActsIn(Tail(list)) : id = Tail(list)[k].id
    BY <1>3 DEF Told
  <2>2. 1 \in ActsIn(list) /\ k + 1 \in ActsIn(list) /\ 1 < k + 1
    BY <1>1, <1>3
  <2>3. list[1].id < list[k + 1].id
    BY <2>2 DEF InOrder
  <2> QED
    BY <1>1, <2>1, <2>3
<1> QED
  BY <1>2, <1>3 DEF InOrder

\* A navigation at the end of a list is where it ends; a report that is none
\* does not change that.
LEMMA EndAppended ==
  ASSUME NEW list \in Seq(Reports), NEW x \in Reports
  PROVE  /\ x.kind = "navigate" =>
              NavigationsIn(Append(list, x)) # {} /\ EndsAt(Append(list, x), x.url)
         /\ x.kind # "navigate" =>
              /\ NavigationsIn(Append(list, x)) = NavigationsIn(list)
              /\ \A url : EndsAt(list, url) => EndsAt(Append(list, x), url)
<1> DEFINE longer == Append(list, x)
<1>1. PICK n \in Nat : n = Len(list)
  BY Listed
<1>2. /\ NavigationsIn(list) \subseteq 1 .. n
      /\ \A k \in 1 .. n : longer[k] = list[k]
      /\ longer[n + 1] = x
      /\ NavigationsIn(longer) =
           NavigationsIn(list) \cup (IF x.kind = "navigate" THEN {n + 1} ELSE {})
  BY <1>1, Appended
<1> HIDE DEF longer
<1>3. ASSUME x.kind = "navigate"
      PROVE  NavigationsIn(longer) # {} /\ EndsAt(longer, x.url)
  <2>1. n + 1 \in NavigationsIn(longer) /\ \A j \in NavigationsIn(longer) : j <= n + 1
    BY <1>2, <1>3
  <2> QED
    BY <1>2, <2>1 DEF EndsAt
<1>4. ASSUME x.kind # "navigate"
      PROVE  /\ NavigationsIn(longer) = NavigationsIn(list)
             /\ \A url : EndsAt(list, url) => EndsAt(longer, url)
  <2>1. NavigationsIn(longer) = NavigationsIn(list)
    BY <1>2, <1>4
  <2>2. \A k \in NavigationsIn(list) : longer[k] = list[k]
    BY <1>2
  <2> QED
    BY <2>1, <2>2 DEF EndsAt
<1> QED
  BY <1>3, <1>4 DEF longer

\* Where a list ends, the rest of it ends, if there is a navigation left; or its
\* first report went there.
LEMMA EndShortened ==
  ASSUME NEW list \in Seq(Reports), list # <<>>, NEW url, EndsAt(list, url)
  PROVE  IF NavigationsIn(Tail(list)) = {}
         THEN Head(list).kind = "navigate" /\ Head(list).url = url
         ELSE EndsAt(Tail(list), url)
<1>1. /\ Head(list) = list[1]
      /\ 1 \in NavigationsIn(list) <=> list[1].kind = "navigate"
      /\ \A k \in NavigationsIn(Tail(list)) :
           k \in Nat /\ k >= 1 /\ k + 1 \in NavigationsIn(list) /\ Tail(list)[k] = list[k + 1]
      /\ \A k \in NavigationsIn(list) :
           k # 1 => k - 1 \in NavigationsIn(Tail(list)) /\ Tail(list)[k - 1] = list[k]
  BY Shortened
<1>2. PICK last \in NavigationsIn(list) :
        list[last].url = url /\ \A j \in NavigationsIn(list) : j <= last
  BY DEF EndsAt
<1>3. CASE NavigationsIn(Tail(list)) = {}
  BY <1>1, <1>2, <1>3
<1>4. CASE NavigationsIn(Tail(list)) # {}
  <2>1. PICK k \in NavigationsIn(Tail(list)) : TRUE
    BY <1>4
  <2>2. last # 1 /\ last \in Nat
    <3>1. k + 1 <= last /\ k \in Nat /\ k >= 1
      BY <1>1, <1>2, <2>1
    <3>2. last \in Nat
      BY Listed DEF NavigationsIn
    <3> QED
      BY <3>1, <3>2
  <2>3. last - 1 \in NavigationsIn(Tail(list)) /\ Tail(list)[last - 1].url = url
    BY <1>1, <1>2, <2>2
  <2>4. ASSUME NEW j \in NavigationsIn(Tail(list))
        PROVE  j <= last - 1
    <3>1. j + 1 <= last /\ j \in Nat
      BY <1>1, <1>2
    <3> QED
      BY <2>2, <3>1
  <2> QED
    BY <1>4, <2>3, <2>4 DEF EndsAt
<1> QED
  BY <1>3, <1>4

\* A list whose last report went to a place ends there.
LEMMA RepeatedEnds ==
  ASSUME NEW list \in Seq(Reports), NEW url \in Urls, Repeated(list, url)
  PROVE  EndsAt(list, url)
<1> DEFINE n == Len(list)
<1>1. n \in Nat \ {0} /\ DOMAIN list = 1 .. n
  BY Listed, EmptySeq DEF Repeated
<1>2. list[n].kind = "navigate" /\ list[n].url = url
  BY ReportKinds DEF Repeated
<1> HIDE DEF n
<1>3. n \in NavigationsIn(list) /\ \A j \in NavigationsIn(list) : j <= n
  BY <1>1, <1>2 DEF NavigationsIn
<1> QED
  BY <1>2, <1>3 DEF EndsAt

\* Nothing is told in an empty list.
LEMMA EmptyList ==
  /\ <<>> \in Seq(Reports)
  /\ ActsIn(<<>>) = {} /\ NavigationsIn(<<>>) = {} /\ Told(<<>>) = {}
<1>1. <<>> \in Seq(Reports) /\ Len(<<>>) = 0
  BY EmptySeq
<1>2. DOMAIN <<>> = {}
  BY <1>1, Listed
<1> QED
  BY <1>1, <1>2 DEF ActsIn, NavigationsIn, Told

\* A document with one listener reports an act once, one with none does not.
LEMMA ReportedByListeners ==
  ASSUME NEW list \in Seq(Reports), NEW x \in Reports
  PROVE  /\ list \o [k \in 1 .. 0 |-> x] = list
         /\ list \o [k \in 1 .. 1 |-> x] = Append(list, x)
<1>1. [k \in 1 .. 0 |-> x] \in Seq(Reports) /\ Len([k \in 1 .. 0 |-> x]) = 0
  BY SeqDef
<1>2. [k \in 1 .. 0 |-> x] = <<>>
  BY <1>1, EmptySeq
<1>3. list \o [k \in 1 .. 0 |-> x] = list
  BY <1>2, ConcatEmptySeq
<1>4. [k \in 1 .. 1 |-> x] \in Seq(Reports) /\ Len([k \in 1 .. 1 |-> x]) = 1
  BY SeqDef
<1>5. PICK n \in Nat : n = Len(list)
  BY Listed
<1>6. /\ list \o [k \in 1 .. 1 |-> x] \in Seq(Reports)
      /\ Len(list \o [k \in 1 .. 1 |-> x]) = n + 1
      /\ \A i \in 1 .. n + 1 :
           (list \o [k \in 1 .. 1 |-> x])[i] =
             IF i <= n THEN list[i] ELSE [k \in 1 .. 1 |-> x][i - n]
  BY <1>4, <1>5, ConcatProperties
<1>7. /\ Append(list, x) \in Seq(Reports)
      /\ Len(Append(list, x)) = n + 1
      /\ \A i \in 1 .. n : Append(list, x)[i] = list[i]
      /\ Append(list, x)[n + 1] = x
  BY <1>5, Lengthened
<1>8. \A i \in 1 .. n + 1 : (list \o [k \in 1 .. 1 |-> x])[i] = Append(list, x)[i]
  <2>1. ASSUME NEW i \in 1 .. n
        PROVE  (list \o [k \in 1 .. 1 |-> x])[i] = Append(list, x)[i]
    BY <1>6, <1>7
  <2>2. (list \o [k \in 1 .. 1 |-> x])[n + 1] = Append(list, x)[n + 1]
    <3>1. (list \o [k \in 1 .. 1 |-> x])[n + 1] = [k \in 1 .. 1 |-> x][1]
      BY <1>6
    <3> QED
      BY <1>7, <3>1
  <2>3. \A i \in 1 .. n + 1 : i \in 1 .. n \/ i = n + 1
    OBVIOUS
  <2> QED
    BY <2>1, <2>2, <2>3
<1>9. list \o [k \in 1 .. 1 |-> x] = Append(list, x)
  BY <1>6, <1>7, <1>8, SeqEqual
<1> QED
  BY <1>3, <1>9

-------------------------------------------------------------------------------
(***************************************************************************)
(* Lemmas about the actions.                                               *)
(***************************************************************************)
\* What an act in the page changes: the history, and what the page reports.
LEMMA ActInMeans ==
  ASSUME TypeOK, NEW f \in Frames, ActIn(f)
  PROVE  \E n \in Nat, deed \in Deeds :
           /\ n = Len(acts) /\ n + 1 <= MaxActs
           /\ acts' = Append(acts, deed)
           /\ \/ PersonHolds /\ deed = [by |-> "person", in |-> round]
              \/ AutomationHolds
           /\ seen' = IF Waiting /\ f \notin late THEN seen \cup {n + 1} ELSE seen
           /\ queue' = IF bound = Nobody \/ docs[f].listeners = 0 THEN queue
                       ELSE Append(queue, Acted(n + 1))
<1> DEFINE deed == IF PersonHolds THEN [by |-> "person", in |-> round]
                                  ELSE [by |-> "automation", in |-> round]
<1>1. PICK n \in Nat : n = Len(acts)
  BY LenProperties DEF TypeOK
<1>2. /\ deed \in Deeds
      /\ acts' = Append(acts, deed)
      /\ \/ PersonHolds /\ deed = [by |-> "person", in |-> round]
         \/ AutomationHolds
  BY DEF ActIn, Deeds, TypeOK, PersonHolds, AutomationHolds
<1> HIDE DEF deed
<1>3. Len(acts') = n + 1
  BY <1>1, <1>2, Lengthened DEF TypeOK
<1>4. n < MaxActs
  BY <1>1 DEF ActIn
<1>5. seen' = IF Waiting /\ f \notin late THEN seen \cup {n + 1} ELSE seen
  BY <1>3 DEF ActIn, Waiting
<1>6. queue' = IF bound = Nobody THEN queue
               ELSE queue \o [k \in 1 .. docs[f].listeners |-> Acted(n + 1)]
  BY <1>3 DEF ActIn
<1>7. docs[f].listeners \in {0, 1}
  BY DEF TypeOK
<1>8. queue \in Seq(Reports) /\ Acted(n + 1) \in Reports
  BY ReportKinds DEF TypeOK
<1>9. /\ queue \o [k \in 1 .. 0 |-> Acted(n + 1)] = queue
      /\ queue \o [k \in 1 .. 1 |-> Acted(n + 1)] = Append(queue, Acted(n + 1))
  BY <1>8, ReportedByListeners
<1>10. queue' = IF bound = Nobody \/ docs[f].listeners = 0 THEN queue
                ELSE Append(queue, Acted(n + 1))
  BY <1>6, <1>7, <1>9
<1>11. n + 1 <= MaxActs
  BY <1>4, BoundsAssumption
<1> QED
  BY <1>1, <1>2, <1>5, <1>10, <1>11

\* What was done before an act stays as it was, in the history.
LEMMA ActsAppended ==
  ASSUME TypeOK, NEW n \in Nat, n = Len(acts), NEW deed \in Deeds,
         acts' = Append(acts, deed)
  PROVE  /\ acts' \in Seq(Deeds) /\ Len(acts') = n + 1
         /\ DOMAIN acts = 1 .. n /\ DOMAIN acts' = (DOMAIN acts) \cup {n + 1}
         /\ n + 1 \notin DOMAIN acts
         /\ \A id \in DOMAIN acts : acts'[id] = acts[id] /\ id < n + 1
         /\ acts'[n + 1] = deed
<1>1. /\ DOMAIN acts = 1 .. n
      /\ acts' \in Seq(Deeds) /\ Len(acts') = n + 1
      /\ DOMAIN acts' = 1 .. n + 1
      /\ \A id \in 1 .. n : acts'[id] = acts[id]
      /\ acts'[n + 1] = deed
  BY Lengthened DEF TypeOK
<1>2. /\ 1 .. n + 1 = (1 .. n) \cup {n + 1}
      /\ n + 1 \notin 1 .. n
      /\ \A id \in 1 .. n : id < n + 1
  OBVIOUS
<1> QED
  BY <1>1, <1>2

\* What dispatching a report adds to which list.
LEMMA DispatchMeans ==
  ASSUME TypeOK, PlaceInv, OrderInv, Dispatch
  PROVE  /\ queue \in Seq(Reports) /\ queue # <<>> /\ queue' = Tail(queue)
         /\ Head(queue) \in Reports
         /\ log' \in [Rounds -> Seq(Reports)]
         /\ Head(queue).kind = "act" =>
              /\ bound = 1 /\ 1 \in Rounds
              /\ log'[1] = Append(log[1], Head(queue))
              /\ \A r \in Rounds : r # 1 => log'[r] = log[r]
         /\ Head(queue).kind # "act" =>
              /\ Head(queue).kind = "navigate"
              /\ \A r \in Rounds :
                   log'[r] = log[r] \/ log'[r] = Append(log[r], Head(queue))
              /\ pc \in Listening =>
                   log'[round] = IF Repeated(log[round], Head(queue).url) THEN log[round]
                                 ELSE Append(log[round], Head(queue))
<1> DEFINE report == Head(queue)
           to == IF report.kind = "act" THEN {bound} ELSE heeding
<1>1. queue \in Seq(Reports) /\ queue # <<>> /\ queue' = Tail(queue)
  BY DEF TypeOK, Dispatch
<1>2. report \in Reports /\ (report.kind = "act" => Told(queue) # {})
  BY <1>1, Shortened, ToldShortened
<1>3. log' = [r \in Rounds |->
        IF r \notin to \/ (report.kind = "navigate" /\ Repeated(log[r], report.url))
        THEN log[r] ELSE Append(log[r], report)]
  BY DEF Dispatch
<1>4. report.kind = "act" => bound = 1 /\ 1 \in Rounds
  BY <1>2 DEF OrderInv, PlaceInv, TypeOK, Nobody
<1>5. report.kind = "act" \/ report.kind = "navigate"
  BY <1>2 DEF Reports
<1>6. \A r \in Rounds : log[r] \in Seq(Reports) /\ Append(log[r], report) \in Seq(Reports)
  BY <1>2, AppendProperties DEF TypeOK
<1>7. log' \in [Rounds -> Seq(Reports)]
  BY <1>3, <1>6
<1>8. pc \in Listening => round \in Rounds /\ heeding = {round}
  BY DEF PlaceInv, Listening
<1> HIDE DEF report
<1> QED
  BY <1>1, <1>2, <1>3, <1>4, <1>5, <1>7, <1>8 DEF report

-------------------------------------------------------------------------------
(***************************************************************************)
(* Every step keeps the invariant.                                         *)
(***************************************************************************)
\* Only the recorder of the handoff under way listens for navigations, and the
\* first recorder's name stays behind the binding.
LEMMA PlaceStep ==
  ASSUME TypeOK, PlaceInv, [Next]_vars
  PROVE  PlaceInv'
<1>1. ASSUME NEW f \in Frames, ActIn(f)
      PROVE  PlaceInv'
  BY <1>1
  DEF ActIn, pageVars, recorderVars, runVars, PlaceInv, Listening, TypeOK, Rounds, Nobody
<1>2. ASSUME NEW f \in Frames, NEW u \in Urls, Navigate(f, u)
      PROVE  PlaceInv'
  BY <1>2
  DEF Navigate, Moved, recorderVars, runVars, PlaceInv, Listening, TypeOK, Rounds, Nobody
<1>3. ASSUME Resume
      PROVE  PlaceInv'
  BY <1>3
  DEF Resume, pageVars, recorderVars, runVars, history, PlaceInv, Listening, TypeOK,
      Rounds, Nobody
<1>4. ASSUME Dispatch
      PROVE  PlaceInv'
  BY <1>4
  DEF Dispatch, pageVars, runVars, history, PlaceInv, Listening, TypeOK, Rounds, Nobody
<1>5. ASSUME Announce
      PROVE  PlaceInv'
  <2>1. round + 1 \in Rounds /\ round \in Nat
    BY <1>5, BoundsAssumption DEF Announce, TypeOK, Rounds
  <2> QED
    BY <1>5, <2>1 DEF Announce, pageVars, recorderVars, PlaceInv, Listening, TypeOK,
       Nobody, AutomationHolds
<1>6. ASSUME ExposeBinding
      PROVE  PlaceInv'
  BY <1>6
  DEF ExposeBinding, recorderVars, history, PlaceInv, Listening, TypeOK, Rounds, Nobody
<1>7. ASSUME AddInitScript
      PROVE  PlaceInv'
  BY <1>7
  DEF AddInitScript, pageVars, recorderVars, PlaceInv, Listening, TypeOK, Rounds, Nobody
<1>8. ASSUME EvaluateInFrame
      PROVE  PlaceInv'
  BY <1>8
  DEF EvaluateInFrame, recorderVars, history, PlaceInv, Listening, TypeOK, Rounds, Nobody
<1>9. ASSUME HeedNavigations
      PROVE  PlaceInv'
  BY <1>9
  DEF HeedNavigations, pageVars, PlaceInv, Listening, TypeOK, Rounds, Nobody
<1>10. ASSUME ReadLease
       PROVE  PlaceInv'
  BY <1>10
  DEF ReadLease, pageVars, recorderVars, history, PlaceInv, Listening, TypeOK, Rounds,
      Nobody
<1>11. ASSUME PumpAgain
       PROVE  PlaceInv'
  BY <1>11
  DEF PumpAgain, pageVars, recorderVars, history, PlaceInv, Listening, TypeOK, Rounds,
      Nobody
<1>12. ASSUME WaitEnds
       PROVE  PlaceInv'
  BY <1>12
  DEF WaitEnds, pageVars, recorderVars, history, PlaceInv, Listening, TypeOK, Rounds, Nobody
<1>13. ASSUME Stop
       PROVE  PlaceInv'
  BY <1>13
  DEF Stop, pageVars, history, PlaceInv, Listening, TypeOK, Rounds, Nobody
<1>14. ASSUME UNCHANGED vars
       PROVE  PlaceInv'
  BY <1>14
  DEF vars, pageVars, recorderVars, runVars, history, PlaceInv, Listening, TypeOK, Rounds,
      Nobody
<1>15. ASSUME NEW u \in Urls, MoveWithin(u)
       PROVE  PlaceInv'
  BY <1>15
  DEF MoveWithin, Moved, recorderVars, runVars, PlaceInv, Listening, TypeOK, Rounds, Nobody
<1>16. ASSUME WaitRaises
       PROVE  PlaceInv'
  BY <1>16
  DEF WaitRaises, pageVars, recorderVars, history, PlaceInv, Listening, TypeOK, Rounds,
      Nobody
<1> QED
  BY <1>1, <1>2, <1>3, <1>4, <1>5, <1>6, <1>7, <1>8, <1>9, <1>10, <1>11, <1>12, <1>13,
     <1>14, <1>15, <1>16 DEF Next

\* Reaching a frame installs the recorder in the document there, if there is one.
LEMMA EvaluateMeans ==
  ASSUME TypeOK, EvaluateInFrame
  PROVE  \E f \in todo :
           /\ todo' = todo \ {f}
           /\ \A g \in Frames : g # f => docs'[g] = docs[g]
           /\ docs'[f] = IF docs[f].url = Absent THEN docs[f]
                         ELSE [url |-> docs[f].url, listeners |-> 1]
           /\ docs' \in [Frames -> [url : Urls \cup {Absent}, listeners : 0 .. 1]]
<1>1. PICK f \in todo :
        /\ todo' = todo \ {f}
        /\ docs' = IF docs[f].url = Absent THEN docs
                   ELSE [docs EXCEPT ![f] = [docs[f] EXCEPT !.listeners = 1]]
  BY DEF EvaluateInFrame, Install
<1>2. /\ docs \in [Frames -> [url : Urls \cup {Absent}, listeners : 0 .. 1]]
      /\ f \in Frames
  BY DEF TypeOK
<1>3. [docs[f] EXCEPT !.listeners = 1] = [url |-> docs[f].url, listeners |-> 1]
  BY <1>2
<1>4. [url |-> docs[f].url, listeners |-> 1] \in [url : Urls \cup {Absent}, listeners : 0 .. 1]
  BY <1>2
<1>5. \/ docs' = docs
      \/ docs' = [docs EXCEPT ![f] = [url |-> docs[f].url, listeners |-> 1]]
  BY <1>1, <1>3
<1>6. docs' \in [Frames -> [url : Urls \cup {Absent}, listeners : 0 .. 1]]
  BY <1>2, <1>4, <1>5
<1>7. \A g \in Frames : g # f => docs'[g] = docs[g]
  BY <1>2, <1>5
<1>8. docs'[f] = IF docs[f].url = Absent THEN docs[f]
                 ELSE [url |-> docs[f].url, listeners |-> 1]
  BY <1>1, <1>2, <1>3
<1> QED
  BY <1>1, <1>6, <1>7, <1>8

\* The types, in groups.
PageTypes ==
  /\ docs \in [Frames -> [url : Urls \cup {Absent}, listeners : 0 .. 1]]
  /\ moves \in [made : 0 .. MaxMoves, last : Urls \cup {NoUrl}]

RunTypes ==
  /\ bound \in Rounds \cup {Nobody}
  /\ round \in 0 .. Handoffs
  /\ pc \in {"driving", "exposing", "scripting", "evaluating", "heeding"} \cup Listening
  /\ todo \subseteq Frames
  /\ resumed \in BOOLEAN

ListTypes ==
  /\ queue \in Seq(Reports)
  /\ log \in [Rounds -> Seq(Reports)]
  /\ written \in [Rounds -> Seq(Reports)]

HistoryTypes ==
  /\ acts \in Seq(Deeds) /\ Len(acts) <= MaxActs
  /\ late \subseteq Frames /\ seen \subseteq DOMAIN acts

\* The page keeps its type.
LEMMA PageTypesStep ==
  ASSUME TypeOK, [Next]_vars
  PROVE  PageTypes'
<1>1. ASSUME NEW f \in Frames, ActIn(f)
      PROVE  PageTypes'
  BY <1>1
  DEF ActIn, pageVars, recorderVars, runVars, PageTypes, TypeOK
<1>2. ASSUME NEW f \in Frames, NEW u \in Urls, Navigate(f, u)
      PROVE  PageTypes'
  <2>1. Loaded(u) \in [url : Urls \cup {Absent}, listeners : 0 .. 1]
    BY DEF Loaded
  <2>2. docs' \in [Frames -> [url : Urls \cup {Absent}, listeners : 0 .. 1]]
    BY <1>2, <2>1 DEF Navigate, Moved, TypeOK
  <2>3. moves' \in [made : 0 .. MaxMoves, last : Urls \cup {NoUrl}]
    BY <1>2, BoundsAssumption DEF Navigate, Moved, TypeOK
  <2> QED
    BY <1>2, <2>2, <2>3 DEF Navigate, Moved, PageTypes, TypeOK
<1>3. ASSUME Resume
      PROVE  PageTypes'
  BY <1>3
  DEF Resume, pageVars, recorderVars, runVars, history, PageTypes, TypeOK
<1>4. ASSUME Dispatch
      PROVE  PageTypes'
  BY <1>4
  DEF Dispatch, pageVars, runVars, history, PageTypes, TypeOK
<1>5. ASSUME Announce
      PROVE  PageTypes'
  BY <1>5
  DEF Announce, pageVars, recorderVars, history, PageTypes, TypeOK
<1>6. ASSUME ExposeBinding
      PROVE  PageTypes'
  BY <1>6
  DEF ExposeBinding, recorderVars, history, PageTypes, TypeOK
<1>7. ASSUME AddInitScript
      PROVE  PageTypes'
  BY <1>7
  DEF AddInitScript, pageVars, recorderVars, PageTypes, TypeOK
<1>8. ASSUME EvaluateInFrame
      PROVE  PageTypes'
  <2>1. docs' \in [Frames -> [url : Urls \cup {Absent}, listeners : 0 .. 1]]
    BY <1>8, EvaluateMeans
  <2> QED
    BY <1>8, <2>1 DEF EvaluateInFrame, history, PageTypes, TypeOK
<1>9. ASSUME HeedNavigations
      PROVE  PageTypes'
  BY <1>9
  DEF HeedNavigations, pageVars, PageTypes, TypeOK
<1>10. ASSUME ReadLease
       PROVE  PageTypes'
  BY <1>10
  DEF ReadLease, pageVars, recorderVars, history, PageTypes, TypeOK
<1>11. ASSUME PumpAgain
       PROVE  PageTypes'
  BY <1>11
  DEF PumpAgain, pageVars, recorderVars, history, PageTypes, TypeOK
<1>12. ASSUME WaitEnds
       PROVE  PageTypes'
  BY <1>12
  DEF WaitEnds, pageVars, recorderVars, history, PageTypes, TypeOK
<1>13. ASSUME Stop
       PROVE  PageTypes'
  BY <1>13
  DEF Stop, pageVars, history, PageTypes, TypeOK
<1>14. ASSUME UNCHANGED vars
       PROVE  PageTypes'
  BY <1>14
  DEF vars, pageVars, recorderVars, runVars, history, PageTypes, TypeOK
<1>15. ASSUME NEW u \in Urls, MoveWithin(u)
       PROVE  PageTypes'
  <2>1. docs' \in [Frames -> [url : Urls \cup {Absent}, listeners : 0 .. 1]]
    BY <1>15 DEF MoveWithin, TypeOK
  <2>2. moves' \in [made : 0 .. MaxMoves, last : Urls \cup {NoUrl}]
    BY <1>15, BoundsAssumption DEF MoveWithin, Moved, TypeOK
  <2> QED
    BY <2>1, <2>2 DEF PageTypes
<1>16. ASSUME WaitRaises
       PROVE  PageTypes'
  BY <1>16
  DEF WaitRaises, pageVars, recorderVars, history, PageTypes, TypeOK
<1> QED
  BY <1>1, <1>2, <1>3, <1>4, <1>5, <1>6, <1>7, <1>8, <1>9, <1>10, <1>11, <1>12, <1>13,
     <1>14, <1>15, <1>16 DEF Next

\* The run keeps its type.
LEMMA RunTypesStep ==
  ASSUME TypeOK, PlaceInv, [Next]_vars
  PROVE  RunTypes'
<1>1. ASSUME NEW f \in Frames, ActIn(f)
      PROVE  RunTypes'
  BY <1>1
  DEF ActIn, pageVars, recorderVars, runVars, RunTypes, TypeOK, PlaceInv, Listening,
      Rounds, Nobody
<1>2. ASSUME NEW f \in Frames, NEW u \in Urls, Navigate(f, u)
      PROVE  RunTypes'
  BY <1>2
  DEF Navigate, Moved, recorderVars, runVars, RunTypes, TypeOK, PlaceInv, Listening, Rounds, Nobody
<1>3. ASSUME Resume
      PROVE  RunTypes'
  BY <1>3
  DEF Resume, pageVars, recorderVars, runVars, history, RunTypes, TypeOK, PlaceInv,
      Listening, Rounds, Nobody
<1>4. ASSUME Dispatch
      PROVE  RunTypes'
  BY <1>4
  DEF Dispatch, pageVars, runVars, history, RunTypes, TypeOK, PlaceInv, Listening, Rounds,
      Nobody
<1>5. ASSUME Announce
      PROVE  RunTypes'
  <2>1. round + 1 \in 0 .. Handoffs
    BY <1>5, BoundsAssumption DEF Announce, TypeOK
  <2> QED
    BY <1>5, <2>1 DEF Announce, pageVars, recorderVars, RunTypes, TypeOK, Rounds, Nobody
<1>6. ASSUME ExposeBinding
      PROVE  RunTypes'
  BY <1>6
  DEF ExposeBinding, recorderVars, history, RunTypes, TypeOK, PlaceInv, Listening, Rounds,
      Nobody
<1>7. ASSUME AddInitScript
      PROVE  RunTypes'
  BY <1>7
  DEF AddInitScript, pageVars, recorderVars, RunTypes, TypeOK, PlaceInv, Listening, Rounds,
      Nobody
<1>8. ASSUME EvaluateInFrame
      PROVE  RunTypes'
  BY <1>8
  DEF EvaluateInFrame, recorderVars, history, RunTypes, TypeOK, PlaceInv, Listening,
      Rounds, Nobody
<1>9. ASSUME HeedNavigations
      PROVE  RunTypes'
  BY <1>9
  DEF HeedNavigations, pageVars, RunTypes, TypeOK, PlaceInv, Listening, Rounds, Nobody
<1>10. ASSUME ReadLease
       PROVE  RunTypes'
  BY <1>10
  DEF ReadLease, pageVars, recorderVars, history, RunTypes, TypeOK, PlaceInv, Listening,
      Rounds, Nobody
<1>11. ASSUME PumpAgain
       PROVE  RunTypes'
  BY <1>11
  DEF PumpAgain, pageVars, recorderVars, history, RunTypes, TypeOK, PlaceInv, Listening,
      Rounds, Nobody
<1>12. ASSUME WaitEnds
       PROVE  RunTypes'
  BY <1>12
  DEF WaitEnds, pageVars, recorderVars, history, RunTypes, TypeOK, PlaceInv, Listening,
      Rounds, Nobody
<1>13. ASSUME Stop
       PROVE  RunTypes'
  BY <1>13
  DEF Stop, pageVars, history, RunTypes, TypeOK, PlaceInv, Listening, Rounds, Nobody
<1>14. ASSUME UNCHANGED vars
       PROVE  RunTypes'
  BY <1>14
  DEF vars, pageVars, recorderVars, runVars, history, RunTypes, TypeOK, PlaceInv,
      Listening, Rounds, Nobody
<1>15. ASSUME NEW u \in Urls, MoveWithin(u)
       PROVE  RunTypes'
  BY <1>15
  DEF MoveWithin, Moved, recorderVars, runVars, RunTypes, TypeOK, PlaceInv, Listening,
      Rounds, Nobody
<1>16. ASSUME WaitRaises
       PROVE  RunTypes'
  BY <1>16
  DEF WaitRaises, pageVars, recorderVars, history, RunTypes, TypeOK, PlaceInv, Listening,
      Rounds, Nobody
<1> QED
  BY <1>1, <1>2, <1>3, <1>4, <1>5, <1>6, <1>7, <1>8, <1>9, <1>10, <1>11, <1>12, <1>13,
     <1>14, <1>15, <1>16 DEF Next

\* The lists stay lists of reports.
LEMMA ListTypesStep ==
  ASSUME TypeOK, PlaceInv, OrderInv, [Next]_vars
  PROVE  ListTypes'
<1>1. ASSUME NEW f \in Frames, ActIn(f)
      PROVE  ListTypes'
  <2>1. PICK n \in Nat : queue' = queue \/ queue' = Append(queue, Acted(n + 1))
    BY <1>1, ActInMeans
  <2>2. queue \in Seq(Reports) /\ Acted(n + 1) \in Reports
    BY ReportKinds DEF TypeOK
  <2>3. queue' \in Seq(Reports)
    BY <2>1, <2>2, AppendProperties
  <2> QED
    BY <1>1, <2>3 DEF ActIn, recorderVars, runVars, ListTypes, TypeOK
<1>2. ASSUME NEW f \in Frames, NEW u \in Urls, Navigate(f, u)
      PROVE  ListTypes'
  <2>1. queue' \in Seq(Reports)
    BY <1>2, ReportKinds, AppendProperties DEF Navigate, Moved, TypeOK
  <2> QED
    BY <1>2, <2>1 DEF Navigate, Moved, recorderVars, runVars, ListTypes, TypeOK
<1>3. ASSUME Resume
      PROVE  ListTypes'
  BY <1>3
  DEF Resume, pageVars, recorderVars, runVars, history, ListTypes, TypeOK
<1>4. ASSUME Dispatch
      PROVE  ListTypes'
  <2>1. queue' \in Seq(Reports) /\ log' \in [Rounds -> Seq(Reports)]
    BY <1>4, DispatchMeans, Shortened
  <2> QED
    BY <1>4, <2>1 DEF Dispatch, runVars, ListTypes, TypeOK
<1>5. ASSUME Announce
      PROVE  ListTypes'
  BY <1>5
  DEF Announce, pageVars, recorderVars, history, ListTypes, TypeOK
<1>6. ASSUME ExposeBinding
      PROVE  ListTypes'
  BY <1>6
  DEF ExposeBinding, recorderVars, history, ListTypes, TypeOK
<1>7. ASSUME AddInitScript
      PROVE  ListTypes'
  BY <1>7
  DEF AddInitScript, pageVars, recorderVars, ListTypes, TypeOK
<1>8. ASSUME EvaluateInFrame
      PROVE  ListTypes'
  BY <1>8
  DEF EvaluateInFrame, recorderVars, history, ListTypes, TypeOK
<1>9. ASSUME HeedNavigations
      PROVE  ListTypes'
  BY <1>9
  DEF HeedNavigations, pageVars, ListTypes, TypeOK
<1>10. ASSUME ReadLease
       PROVE  ListTypes'
  BY <1>10
  DEF ReadLease, pageVars, recorderVars, history, ListTypes, TypeOK
<1>11. ASSUME PumpAgain
       PROVE  ListTypes'
  BY <1>11
  DEF PumpAgain, pageVars, recorderVars, history, ListTypes, TypeOK
<1>12. ASSUME WaitEnds
       PROVE  ListTypes'
  BY <1>12
  DEF WaitEnds, pageVars, recorderVars, history, ListTypes, TypeOK
<1>13. ASSUME Stop
       PROVE  ListTypes'
  <2>1. round \in Rounds
    BY <1>13 DEF Stop, PlaceInv
  <2> QED
    BY <1>13, <2>1 DEF Stop, ListTypes, TypeOK
<1>14. ASSUME UNCHANGED vars
       PROVE  ListTypes'
  BY <1>14
  DEF vars, pageVars, recorderVars, runVars, history, ListTypes, TypeOK
<1>15. ASSUME NEW u \in Urls, MoveWithin(u)
       PROVE  ListTypes'
  <2>1. queue' \in Seq(Reports)
    BY <1>15, ReportKinds, AppendProperties DEF MoveWithin, Moved, TypeOK
  <2> QED
    BY <1>15, <2>1 DEF MoveWithin, Moved, recorderVars, runVars, ListTypes, TypeOK
<1>16. ASSUME WaitRaises
       PROVE  ListTypes'
  BY <1>16
  DEF WaitRaises, pageVars, recorderVars, history, ListTypes, TypeOK
<1> QED
  BY <1>1, <1>2, <1>3, <1>4, <1>5, <1>6, <1>7, <1>8, <1>9, <1>10, <1>11, <1>12, <1>13,
     <1>14, <1>15, <1>16 DEF Next

\* The histories keep their types.
LEMMA HistoryTypesStep ==
  ASSUME TypeOK, [Next]_vars
  PROVE  HistoryTypes'
<1>1. ASSUME NEW f \in Frames, ActIn(f)
      PROVE  HistoryTypes'
  <2>1. PICK n \in Nat, deed \in Deeds :
          /\ n = Len(acts) /\ n + 1 <= MaxActs /\ acts' = Append(acts, deed)
          /\ seen' = IF Waiting /\ f \notin late THEN seen \cup {n + 1} ELSE seen
    BY <1>1, ActInMeans
  <2>2. /\ acts' \in Seq(Deeds) /\ Len(acts') = n + 1
        /\ DOMAIN acts' = (DOMAIN acts) \cup {n + 1}
    BY <2>1, ActsAppended
  <2>3. late' \subseteq Frames /\ seen' \subseteq DOMAIN acts'
    BY <1>1, <2>1, <2>2 DEF ActIn, TypeOK
  <2> QED
    BY <2>1, <2>2, <2>3 DEF HistoryTypes
<1>2. ASSUME NEW f \in Frames, NEW u \in Urls, Navigate(f, u)
      PROVE  HistoryTypes'
  BY <1>2
  DEF Navigate, Moved, recorderVars, runVars, HistoryTypes, TypeOK
<1>3. ASSUME Resume
      PROVE  HistoryTypes'
  BY <1>3
  DEF Resume, pageVars, recorderVars, runVars, history, HistoryTypes, TypeOK
<1>4. ASSUME Dispatch
      PROVE  HistoryTypes'
  BY <1>4
  DEF Dispatch, pageVars, runVars, history, HistoryTypes, TypeOK
<1>5. ASSUME Announce
      PROVE  HistoryTypes'
  BY <1>5
  DEF Announce, pageVars, recorderVars, history, HistoryTypes, TypeOK
<1>6. ASSUME ExposeBinding
      PROVE  HistoryTypes'
  BY <1>6
  DEF ExposeBinding, recorderVars, history, HistoryTypes, TypeOK
<1>7. ASSUME AddInitScript
      PROVE  HistoryTypes'
  BY <1>7
  DEF AddInitScript, pageVars, recorderVars, HistoryTypes, TypeOK
<1>8. ASSUME EvaluateInFrame
      PROVE  HistoryTypes'
  BY <1>8
  DEF EvaluateInFrame, recorderVars, history, HistoryTypes, TypeOK
<1>9. ASSUME HeedNavigations
      PROVE  HistoryTypes'
  BY <1>9
  DEF HeedNavigations, pageVars, HistoryTypes, TypeOK
<1>10. ASSUME ReadLease
       PROVE  HistoryTypes'
  BY <1>10
  DEF ReadLease, pageVars, recorderVars, history, HistoryTypes, TypeOK
<1>11. ASSUME PumpAgain
       PROVE  HistoryTypes'
  BY <1>11
  DEF PumpAgain, pageVars, recorderVars, history, HistoryTypes, TypeOK
<1>12. ASSUME WaitEnds
       PROVE  HistoryTypes'
  BY <1>12
  DEF WaitEnds, pageVars, recorderVars, history, HistoryTypes, TypeOK
<1>13. ASSUME Stop
       PROVE  HistoryTypes'
  BY <1>13
  DEF Stop, pageVars, history, HistoryTypes, TypeOK
<1>14. ASSUME UNCHANGED vars
       PROVE  HistoryTypes'
  BY <1>14
  DEF vars, pageVars, recorderVars, runVars, history, HistoryTypes, TypeOK
<1>15. ASSUME NEW u \in Urls, MoveWithin(u)
       PROVE  HistoryTypes'
  BY <1>15
  DEF MoveWithin, Moved, recorderVars, runVars, HistoryTypes, TypeOK
<1>16. ASSUME WaitRaises
       PROVE  HistoryTypes'
  BY <1>16
  DEF WaitRaises, pageVars, recorderVars, history, HistoryTypes, TypeOK
<1> QED
  BY <1>1, <1>2, <1>3, <1>4, <1>5, <1>6, <1>7, <1>8, <1>9, <1>10, <1>11, <1>12, <1>13,
     <1>14, <1>15, <1>16 DEF Next

\* Types are kept.
LEMMA TypeStep ==
  ASSUME TypeOK, PlaceInv, OrderInv, [Next]_vars
  PROVE  TypeOK'
<1>1. PageTypes'
  BY PageTypesStep
<1>2. RunTypes'
  BY RunTypesStep
<1>3. ListTypes'
  BY ListTypesStep
<1>4. HistoryTypes'
  BY HistoryTypesStep
<1>5. heeding' \subseteq Rounds' /\ Cardinality(heeding') <= 1
  <2>1. PlaceInv'
    BY PlaceStep
  <2>2. heeding' = {} \/ (heeding' = {round'} /\ round' \in Rounds')
    BY <2>1 DEF PlaceInv, Listening
  <2>3. Cardinality({}) = 0 /\ Cardinality({round'}) = 1
    BY FS_EmptySet, FS_Singleton
  <2> QED
    BY <2>2, <2>3
<1>6. pc' \in {"driving", "exposing", "scripting", "evaluating", "heeding", "pumping",
               "polling", "stopping", "over"}
  BY <1>2 DEF RunTypes, Listening
<1> QED
  BY <1>1, <1>2, <1>3, <1>4, <1>5, <1>6
  DEF TypeOK, PageTypes, RunTypes, ListTypes, HistoryTypes

\* A document that was found reports, or is still to be come to.
LEMMA FoundStep ==
  ASSUME TypeOK, FoundInv, [Next]_vars
  PROVE  FoundInv'
<1>1. ASSUME NEW f \in Frames, ActIn(f)
      PROVE  FoundInv'
  BY <1>1
  DEF ActIn, pageVars, recorderVars, runVars, FoundInv, Listening, TypeOK
<1>2. ASSUME NEW f \in Frames, NEW u \in Urls, Navigate(f, u)
      PROVE  FoundInv'
  <2>1. todo' = todo /\ pc' = pc
    BY <1>2 DEF Navigate, runVars
  <2>2. ASSUME NEW g \in Frames \ late', docs'[g].url # Absent
        PROVE  docs'[g].listeners = 1 \/ g \in todo
    <3>1. g \notin late /\ (g = f => g \in todo) /\ (f = Main => g \in todo)
      BY <1>2, <2>2 DEF Navigate
    <3>2. g \in todo \/ docs'[g] = docs[g]
      BY <1>2, <3>1 DEF Navigate
    <3> QED
      BY <2>2, <3>1, <3>2 DEF FoundInv
  <2> QED
    BY <2>1, <2>2 DEF FoundInv
<1>3. ASSUME Resume
      PROVE  FoundInv'
  BY <1>3
  DEF Resume, pageVars, recorderVars, runVars, history, FoundInv, Listening, TypeOK
<1>4. ASSUME Dispatch
      PROVE  FoundInv'
  BY <1>4
  DEF Dispatch, pageVars, runVars, history, FoundInv, Listening, TypeOK
<1>5. ASSUME Announce
      PROVE  FoundInv'
  BY <1>5
  DEF Announce, AutomationHolds, pageVars, recorderVars, history, FoundInv, Listening
<1>6. ASSUME ExposeBinding
      PROVE  FoundInv'
  BY <1>6
  DEF ExposeBinding, recorderVars, history, FoundInv, Listening, TypeOK
<1>7. ASSUME AddInitScript
      PROVE  FoundInv'
  BY <1>7
  DEF AddInitScript, pageVars, recorderVars, FoundInv, Listening, TypeOK
<1>8. ASSUME EvaluateInFrame
      PROVE  FoundInv'
  <2>1. PICK f \in todo :
          /\ todo' = todo \ {f}
          /\ \A g \in Frames : g # f => docs'[g] = docs[g]
          /\ docs'[f] = IF docs[f].url = Absent THEN docs[f]
                        ELSE [url |-> docs[f].url, listeners |-> 1]
    BY <1>8, EvaluateMeans
  <2>2. \A g \in Frames \ late : docs'[g].url # Absent =>
          docs'[g].listeners = 1 \/ g \in todo'
    BY <2>1 DEF FoundInv
  <2>3. late' = late /\ pc' = IF todo' = {} THEN "heeding" ELSE "evaluating"
    BY <1>8 DEF EvaluateInFrame, history
  <2> QED
    BY <2>2, <2>3 DEF FoundInv
<1>9. ASSUME HeedNavigations
      PROVE  FoundInv'
  BY <1>9
  DEF HeedNavigations, pageVars, FoundInv, Listening, TypeOK
<1>10. ASSUME ReadLease
       PROVE  FoundInv'
  BY <1>10
  DEF ReadLease, pageVars, recorderVars, history, FoundInv, Listening, TypeOK
<1>11. ASSUME PumpAgain
       PROVE  FoundInv'
  BY <1>11
  DEF PumpAgain, pageVars, recorderVars, history, FoundInv, Listening, TypeOK
<1>12. ASSUME WaitEnds
       PROVE  FoundInv'
  BY <1>12
  DEF WaitEnds, pageVars, recorderVars, history, FoundInv, Listening, TypeOK
<1>13. ASSUME Stop
       PROVE  FoundInv'
  BY <1>13
  DEF Stop, pageVars, history, FoundInv, Listening, TypeOK
<1>14. ASSUME UNCHANGED vars
       PROVE  FoundInv'
  BY <1>14
  DEF vars, pageVars, recorderVars, runVars, history, FoundInv, Listening, TypeOK
<1>15. ASSUME NEW u \in Urls, MoveWithin(u)
       PROVE  FoundInv'
  <2>1. todo' = todo /\ pc' = pc /\ late' = late /\ docs[Main].url # Absent
    BY <1>15 DEF MoveWithin, runVars
  <2>2. \A g \in Frames :
          /\ docs'[g].listeners = docs[g].listeners
          /\ g # Main => docs'[g] = docs[g]
    BY <1>15 DEF MoveWithin, TypeOK
  <2> QED
    BY <2>1, <2>2 DEF FoundInv
<1>16. ASSUME WaitRaises
       PROVE  FoundInv'
  BY <1>16
  DEF WaitRaises, pageVars, recorderVars, history, FoundInv, Listening, TypeOK
<1> QED
  BY <1>1, <1>2, <1>3, <1>4, <1>5, <1>6, <1>7, <1>8, <1>9, <1>10, <1>11, <1>12, <1>13,
     <1>14, <1>15, <1>16 DEF Next

\* What is told stays in the order it was done, and with the first recorder.
LEMMA OrderStep ==
  ASSUME TypeOK, PlaceInv, OrderInv, [Next]_vars
  PROVE  OrderInv'
<1>1. ASSUME NEW f \in Frames, ActIn(f)
      PROVE  OrderInv'
  <2>1. PICK n \in Nat, deed \in Deeds :
          /\ n = Len(acts) /\ acts' = Append(acts, deed)
          /\ queue' = IF bound = Nobody \/ docs[f].listeners = 0 THEN queue
                      ELSE Append(queue, Acted(n + 1))
    BY <1>1, ActInMeans
  <2>2. /\ DOMAIN acts' = (DOMAIN acts) \cup {n + 1}
        /\ \A id \in DOMAIN acts : id < n + 1
    BY <2>1, ActsAppended
  <2>3. log' = log /\ bound' = bound
    BY <1>1 DEF ActIn, pageVars, recorderVars
  <2>4. CASE queue' = queue
    BY <2>2, <2>3, <2>4 DEF OrderInv
  <2>5. CASE bound # Nobody /\ queue' = Append(queue, Acted(n + 1))
    <3>1. /\ queue \in Seq(Reports) /\ Acted(n + 1) \in Reports
          /\ Acted(n + 1).kind = "act" /\ Acted(n + 1).id = n + 1
      BY ReportKinds DEF TypeOK
    <3>2. Told(queue') = Told(queue) \cup {n + 1}
      BY <2>5, <3>1, ToldAppended
    <3>3. InOrder(queue')
      BY <2>2, <2>5, <3>1, OrderAppended DEF OrderInv
    <3>4. \A r \in Rounds : Before(log[r], queue')
      BY <2>2, <3>2 DEF OrderInv, Before
    <3> QED
      BY <2>2, <2>3, <2>5, <3>2, <3>3, <3>4 DEF OrderInv
  <2> QED
    BY <2>1, <2>4, <2>5
<1>2. ASSUME NEW f \in Frames, NEW u \in Urls, Navigate(f, u)
      PROVE  OrderInv'
  <2>1. log' = log /\ bound' = bound /\ acts' = acts
    BY <1>2 DEF Navigate, Moved, recorderVars
  <2>2. CASE queue' = queue
    BY <2>1, <2>2 DEF OrderInv
  <2>3. CASE queue' = Append(queue, Navigated(u))
    <3>1. /\ queue \in Seq(Reports) /\ Navigated(u) \in Reports
          /\ Navigated(u).kind = "navigate"
      BY ReportKinds DEF TypeOK
    <3>2. Told(queue') = Told(queue)
      BY <2>3, <3>1, ToldAppended
    <3>3. InOrder(queue')
      BY <2>3, <3>1, OrderAppended DEF OrderInv
    <3> QED
      BY <2>1, <3>2, <3>3 DEF OrderInv, Before
  <2> QED
    BY <1>2, <2>2, <2>3 DEF Navigate, Moved
<1>3. ASSUME Resume
      PROVE  OrderInv'
  BY <1>3
  DEF Resume, pageVars, recorderVars, runVars, history, OrderInv
<1>4. ASSUME Dispatch
      PROVE  OrderInv'
  <2> DEFINE report == Head(queue)
  <2>1. /\ queue \in Seq(Reports) /\ queue # <<>> /\ queue' = Tail(queue)
        /\ report \in Reports /\ bound' = bound /\ acts' = acts
    BY <1>4, DispatchMeans DEF Dispatch, pageVars, history
  <2>2. \A r \in Rounds : log[r] \in Seq(Reports)
    BY DEF TypeOK
  <2>3. /\ Told(queue) =
             Told(queue') \cup (IF report.kind = "act" THEN {report.id} ELSE {})
        /\ InOrder(queue')
        /\ report.kind = "act" => \A id \in Told(queue') : report.id < id
    BY <2>1, ToldShortened, OrderShortened DEF OrderInv
  <2>4. CASE report.kind = "act"
    <3>1. /\ bound = 1 /\ 1 \in Rounds
          /\ log'[1] = Append(log[1], report)
          /\ \A r \in Rounds : r # 1 => log'[r] = log[r]
      BY <1>4, <2>4, DispatchMeans
    <3>2. Told(log'[1]) = Told(log[1]) \cup {report.id}
      BY <2>1, <2>2, <2>4, <3>1, ToldAppended
    <3>3. \A id \in Told(log[1]) : id < report.id
      BY <2>3, <2>4, <3>1 DEF OrderInv, Before
    <3>4. InOrder(log'[1])
      BY <2>1, <2>2, <3>1, <3>3, OrderAppended DEF OrderInv
    <3>5. \A r \in Rounds : Before(log'[r], queue')
      BY <2>3, <2>4, <3>1, <3>2 DEF OrderInv, Before
    <3>6. \A r \in Rounds : Told(log'[r]) \subseteq DOMAIN acts
      BY <2>3, <2>4, <3>1, <3>2 DEF OrderInv
    <3> QED
      BY <2>1, <2>3, <3>1, <3>4, <3>5, <3>6 DEF OrderInv
  <2>5. CASE report.kind # "act"
    <3>1. \A r \in Rounds : log'[r] = log[r] \/ log'[r] = Append(log[r], report)
      BY <1>4, <2>5, DispatchMeans
    <3>2. \A r \in Rounds : Told(log'[r]) = Told(log[r])
      BY <2>1, <2>2, <2>5, <3>1, ToldAppended
    <3>3. \A r \in Rounds : InOrder(log'[r])
      BY <2>1, <2>2, <2>5, <3>1, OrderAppended DEF OrderInv
    <3> QED
      BY <2>1, <2>3, <2>5, <3>2, <3>3 DEF OrderInv, Before
  <2> QED
    BY <2>4, <2>5
<1>5. ASSUME Announce
      PROVE  OrderInv'
  BY <1>5
  DEF Announce, pageVars, recorderVars, history, OrderInv
<1>6. ASSUME ExposeBinding
      PROVE  OrderInv'
  <2>1. round \in Rounds /\ 0 \notin Rounds
    BY <1>6 DEF ExposeBinding, PlaceInv, Rounds
  <2> QED
    BY <1>6, <2>1 DEF ExposeBinding, recorderVars, history, OrderInv, Nobody
<1>7. ASSUME AddInitScript
      PROVE  OrderInv'
  BY <1>7
  DEF AddInitScript, pageVars, recorderVars, OrderInv
<1>8. ASSUME EvaluateInFrame
      PROVE  OrderInv'
  BY <1>8
  DEF EvaluateInFrame, recorderVars, history, OrderInv
<1>9. ASSUME HeedNavigations
      PROVE  OrderInv'
  BY <1>9
  DEF HeedNavigations, pageVars, OrderInv
<1>10. ASSUME ReadLease
       PROVE  OrderInv'
  BY <1>10
  DEF ReadLease, pageVars, recorderVars, history, OrderInv
<1>11. ASSUME PumpAgain
       PROVE  OrderInv'
  BY <1>11
  DEF PumpAgain, pageVars, recorderVars, history, OrderInv
<1>12. ASSUME WaitEnds
       PROVE  OrderInv'
  BY <1>12
  DEF WaitEnds, pageVars, recorderVars, history, OrderInv
<1>13. ASSUME Stop
       PROVE  OrderInv'
  BY <1>13
  DEF Stop, pageVars, history, OrderInv
<1>14. ASSUME UNCHANGED vars
       PROVE  OrderInv'
  BY <1>14
  DEF vars, pageVars, recorderVars, runVars, history, OrderInv
<1>15. ASSUME NEW u \in Urls, MoveWithin(u)
       PROVE  OrderInv'
  <2>1. log' = log /\ bound' = bound /\ acts' = acts
    BY <1>15 DEF MoveWithin, Moved, recorderVars
  <2>2. CASE queue' = queue
    BY <2>1, <2>2 DEF OrderInv
  <2>3. CASE queue' = Append(queue, Navigated(u))
    <3>1. /\ queue \in Seq(Reports) /\ Navigated(u) \in Reports
          /\ Navigated(u).kind = "navigate"
      BY ReportKinds DEF TypeOK
    <3>2. Told(queue') = Told(queue)
      BY <2>3, <3>1, ToldAppended
    <3>3. InOrder(queue')
      BY <2>3, <3>1, OrderAppended DEF OrderInv
    <3> QED
      BY <2>1, <3>2, <3>3 DEF OrderInv, Before
  <2> QED
    BY <1>15, <2>2, <2>3 DEF MoveWithin, Moved
<1>16. ASSUME WaitRaises
       PROVE  OrderInv'
  BY <1>16
  DEF WaitRaises, pageVars, recorderVars, history, OrderInv
<1> QED
  BY <1>1, <1>2, <1>3, <1>4, <1>5, <1>6, <1>7, <1>8, <1>9, <1>10, <1>11, <1>12, <1>13,
     <1>14, <1>15, <1>16 DEF Next

\* What the first recorder is told during its handoff, and what is written of any,
\* is what a person did in it.
LEMMA TheirsStep ==
  ASSUME TypeOK, PlaceInv, OrderInv, TheirsInv, [Next]_vars
  PROVE  TheirsInv'
<1>1. ASSUME NEW f \in Frames, ActIn(f)
      PROVE  TheirsInv'
  <2>1. PICK n \in Nat, deed \in Deeds :
          /\ n = Len(acts) /\ acts' = Append(acts, deed)
          /\ \/ PersonHolds /\ deed = [by |-> "person", in |-> round]
             \/ AutomationHolds
          /\ queue' = IF bound = Nobody \/ docs[f].listeners = 0 THEN queue
                      ELSE Append(queue, Acted(n + 1))
    BY <1>1, ActInMeans
  <2>2. /\ DOMAIN acts' = (DOMAIN acts) \cup {n + 1}
        /\ \A id \in DOMAIN acts : acts'[id] = acts[id]
        /\ acts'[n + 1] = deed
    BY <2>1, ActsAppended
  <2>3. log' = log /\ written' = written /\ round' = round /\ pc' = pc
    BY <1>1 DEF ActIn, recorderVars, runVars
  <2>4. Told(queue') \subseteq Told(queue) \cup {n + 1}
    <3>1. /\ queue \in Seq(Reports) /\ Acted(n + 1) \in Reports
          /\ Acted(n + 1).id = n + 1
      BY ReportKinds DEF TypeOK
    <3>2. Told(Append(queue, Acted(n + 1))) \subseteq Told(queue) \cup {n + 1}
      BY <3>1, ToldAppended
    <3> QED
      BY <2>1, <3>2
  <2>5. ASSUME round = 1, pc # "driving"
        PROVE  TheirsIn(queue, 1)' /\ TheirsIn(log[1], 1)'
    <3>1. deed = [by |-> "person", in |-> 1]
      BY <2>1, <2>5 DEF AutomationHolds
    <3>2. Told(queue) \subseteq DOMAIN acts
      BY DEF OrderInv
    <3>3. TheirsIn(queue, 1)'
      BY <2>2, <2>4, <2>5, <3>1, <3>2 DEF TheirsInv, TheirsIn
    <3>4. 1 \in Rounds
      BY <2>5 DEF PlaceInv
    <3>5. Told(log[1]) \subseteq DOMAIN acts
      BY <3>4 DEF OrderInv
    <3>6. TheirsIn(log[1], 1)'
      BY <2>2, <2>3, <2>5, <3>5 DEF TheirsInv, TheirsIn
    <3> QED
      BY <3>3, <3>6
  <2>6. ASSUME NEW r \in Rounds
        PROVE  /\ Told(written'[r]) \subseteq DOMAIN acts'
               /\ TheirsIn(written[r], r)' /\ InOrder(written'[r])
    BY <2>2, <2>3 DEF TheirsInv, TheirsIn
  <2> QED
    BY <2>3, <2>5, <2>6 DEF TheirsInv
<1>2. ASSUME NEW f \in Frames, NEW u \in Urls, Navigate(f, u)
      PROVE  TheirsInv'
  <2>1. /\ log' = log /\ acts' = acts /\ written' = written
        /\ round' = round /\ pc' = pc
    BY <1>2 DEF Navigate, Moved, recorderVars, runVars
  <2>2. Told(queue') = Told(queue)
    <3>1. /\ queue \in Seq(Reports) /\ Navigated(u) \in Reports
          /\ Navigated(u).kind = "navigate"
      BY ReportKinds DEF TypeOK
    <3>2. Told(Append(queue, Navigated(u))) = Told(queue)
      BY <3>1, ToldAppended
    <3> QED
      BY <1>2, <3>2 DEF Navigate, Moved
  <2> QED
    BY <2>1, <2>2 DEF TheirsInv, TheirsIn
<1>3. ASSUME Resume
      PROVE  TheirsInv'
  BY <1>3
  DEF Resume, pageVars, recorderVars, runVars, history, TheirsInv, TheirsIn
<1>4. ASSUME Dispatch
      PROVE  TheirsInv'
  <2> DEFINE report == Head(queue)
  <2>1. /\ queue \in Seq(Reports) /\ queue # <<>> /\ queue' = Tail(queue)
        /\ report \in Reports /\ acts' = acts /\ written' = written
        /\ round' = round /\ pc' = pc
    BY <1>4, DispatchMeans DEF Dispatch, runVars, history
  <2>2. Told(queue) =
          Told(queue') \cup (IF report.kind = "act" THEN {report.id} ELSE {})
    BY <2>1, ToldShortened
  <2>3. ASSUME 1 \in Rounds
        PROVE  Told(log'[1]) \subseteq Told(log[1]) \cup Told(queue)
    <3>1. log[1] \in Seq(Reports)
      BY <2>3 DEF TypeOK
    <3>2. log'[1] = log[1] \/ log'[1] = Append(log[1], report)
      BY <1>4, <2>3, DispatchMeans
    <3> QED
      BY <2>1, <2>2, <3>1, <3>2, ToldAppended
  <2>4. ASSUME round = 1, pc # "driving"
        PROVE  TheirsIn(queue, 1)' /\ TheirsIn(log[1], 1)'
    <3>1. 1 \in Rounds
      BY <2>4 DEF PlaceInv
    <3> QED
      BY <2>1, <2>2, <2>3, <2>4, <3>1 DEF TheirsInv, TheirsIn
  <2> QED
    BY <2>1, <2>4 DEF TheirsInv, TheirsIn
<1>5. ASSUME Announce
      PROVE  TheirsInv'
  <2>1. /\ queue' = queue /\ log' = log /\ acts' = acts /\ written' = written
        /\ round' = round + 1 /\ round \in Nat /\ round < Handoffs
    BY <1>5 DEF Announce, recorderVars, history, TypeOK
  <2>2. ASSUME round' = 1
        PROVE  Told(queue) = {} /\ Told(log[1]) = {}
    <3>1. round = 0 /\ bound = Nobody /\ 1 \in Rounds
      BY <2>1, <2>2, BoundsAssumption DEF PlaceInv, Rounds
    <3> QED
      BY <3>1 DEF OrderInv, Nobody
  <2> QED
    BY <2>1, <2>2 DEF TheirsInv, TheirsIn
<1>6. ASSUME ExposeBinding
      PROVE  TheirsInv'
  BY <1>6
  DEF ExposeBinding, recorderVars, history, TheirsInv, TheirsIn
<1>7. ASSUME AddInitScript
      PROVE  TheirsInv'
  BY <1>7
  DEF AddInitScript, pageVars, recorderVars, TheirsInv, TheirsIn
<1>8. ASSUME EvaluateInFrame
      PROVE  TheirsInv'
  BY <1>8
  DEF EvaluateInFrame, recorderVars, history, TheirsInv, TheirsIn
<1>9. ASSUME HeedNavigations
      PROVE  TheirsInv'
  BY <1>9
  DEF HeedNavigations, pageVars, TheirsInv, TheirsIn
<1>10. ASSUME ReadLease
       PROVE  TheirsInv'
  BY <1>10
  DEF ReadLease, pageVars, recorderVars, history, TheirsInv, TheirsIn
<1>11. ASSUME PumpAgain
       PROVE  TheirsInv'
  BY <1>11
  DEF PumpAgain, pageVars, recorderVars, history, TheirsInv, TheirsIn
<1>12. ASSUME WaitEnds
       PROVE  TheirsInv'
  BY <1>12
  DEF WaitEnds, pageVars, recorderVars, history, TheirsInv, TheirsIn
<1>13. ASSUME Stop
       PROVE  TheirsInv'
  <2>1. /\ queue' = queue /\ log' = log /\ acts' = acts /\ round' = round
        /\ pc # "driving" /\ pc' = "driving" /\ round \in Rounds
        /\ written' = [written EXCEPT ![round] = log[round]]
    BY <1>13 DEF Stop, history, PlaceInv
  <2>2. Told(log[round]) \subseteq DOMAIN acts /\ InOrder(log[round])
    BY <2>1 DEF OrderInv
  <2>3. TheirsIn(log[round], round)
    <3>1. CASE round = 1
      BY <2>1, <3>1 DEF TheirsInv
    <3>2. CASE round # 1
      <4>1. round # bound
        BY <2>1, <3>2 DEF PlaceInv, Nobody, Rounds
      <4>2. Told(log[round]) = {}
        BY <2>1, <4>1 DEF OrderInv
      <4> QED
        BY <4>2 DEF TheirsIn
    <3> QED
      BY <3>1, <3>2
  <2>4. \A r \in Rounds : written'[r] = IF r = round THEN log[round] ELSE written[r]
    BY <2>1 DEF TypeOK
  <2> QED
    BY <2>1, <2>2, <2>3, <2>4 DEF TheirsInv, TheirsIn
<1>14. ASSUME UNCHANGED vars
       PROVE  TheirsInv'
  BY <1>14
  DEF vars, pageVars, recorderVars, runVars, history, TheirsInv, TheirsIn
<1>15. ASSUME NEW u \in Urls, MoveWithin(u)
       PROVE  TheirsInv'
  <2>1. /\ log' = log /\ acts' = acts /\ written' = written
        /\ round' = round /\ pc' = pc
    BY <1>15 DEF MoveWithin, Moved, recorderVars, runVars
  <2>2. Told(queue') = Told(queue)
    <3>1. /\ queue \in Seq(Reports) /\ Navigated(u) \in Reports
          /\ Navigated(u).kind = "navigate"
      BY ReportKinds DEF TypeOK
    <3>2. Told(Append(queue, Navigated(u))) = Told(queue)
      BY <3>1, ToldAppended
    <3> QED
      BY <1>15, <3>2 DEF MoveWithin, Moved
  <2> QED
    BY <2>1, <2>2 DEF TheirsInv, TheirsIn
<1>16. ASSUME WaitRaises
       PROVE  TheirsInv'
  BY <1>16
  DEF WaitRaises, pageVars, recorderVars, history, TheirsInv, TheirsIn
<1> QED
  BY <1>1, <1>2, <1>3, <1>4, <1>5, <1>6, <1>7, <1>8, <1>9, <1>10, <1>11, <1>12, <1>13,
     <1>14, <1>15, <1>16 DEF Next

\* What is heard is told in a list, or about to be.
LEMMA HeardMeans ==
  ASSUME NEW r, NEW id
  PROVE  HeardBy(r, id) <=> id \in Told(log[r]) \/ id \in Told(queue)
BY DEF HeardBy, Told

\* The same after a step.
LEMMA HeardMeansNext ==
  ASSUME NEW CONSTANT r, NEW CONSTANT id
  PROVE  HeardBy(r, id)' <=> id \in Told(log'[r]) \/ id \in Told(queue')
BY DEF HeardBy, Told

\* A step that loses nothing that is told, and adds no act, loses nothing heard.
LEMMA HeardStays ==
  ASSUME FoundIsHeardAtFirst, seen' = seen, acts' = acts,
         Told(log[1]) \cup Told(queue) \subseteq Told(log'[1]) \cup Told(queue')
  PROVE  FoundIsHeardAtFirst'
<1>1. ASSUME NEW CONSTANT id \in seen', acts'[id].in = 1
      PROVE  HeardBy(1, id)'
  <2>1. HeardBy(1, id)
    BY <1>1 DEF FoundIsHeardAtFirst
  <2> QED
    BY <2>1, HeardMeans, HeardMeansNext
<1> QED
  BY <1>1 DEF FoundIsHeardAtFirst

\* Nothing heard of the first handoff is lost, and everything new is heard.
LEMMA HeardStep ==
  ASSUME TypeOK, PlaceInv, FoundInv, OrderInv, FoundIsHeardAtFirst, [Next]_vars
  PROVE  FoundIsHeardAtFirst'
<1>1. ASSUME NEW f \in Frames, ActIn(f)
      PROVE  FoundIsHeardAtFirst'
  <2>1. PICK n \in Nat, deed \in Deeds :
          /\ n = Len(acts) /\ acts' = Append(acts, deed)
          /\ \/ PersonHolds /\ deed = [by |-> "person", in |-> round]
             \/ AutomationHolds
          /\ seen' = IF Waiting /\ f \notin late THEN seen \cup {n + 1} ELSE seen
          /\ queue' = IF bound = Nobody \/ docs[f].listeners = 0 THEN queue
                      ELSE Append(queue, Acted(n + 1))
    BY <1>1, ActInMeans
  <2>2. /\ \A id \in DOMAIN acts : acts'[id] = acts[id]
        /\ acts'[n + 1] = deed
    BY <2>1, ActsAppended
  <2>3. log' = log /\ docs[f].url # Absent
    BY <1>1 DEF ActIn, recorderVars
  <2>4. Told(Append(queue, Acted(n + 1))) = Told(queue) \cup {n + 1}
    <3>1. /\ queue \in Seq(Reports) /\ Acted(n + 1) \in Reports
          /\ Acted(n + 1).kind = "act" /\ Acted(n + 1).id = n + 1
      BY ReportKinds DEF TypeOK
    <3> QED
      BY <3>1, ToldAppended
  <2>5. ASSUME NEW CONSTANT id \in seen', acts'[id].in = 1
        PROVE  id \in Told(log'[1]) \/ id \in Told(queue')
    <3>1. CASE id \in seen
      <4>1. acts[id].in = 1
        BY <2>2, <2>5, <3>1 DEF TypeOK
      <4>2. id \in Told(log[1]) \/ id \in Told(queue)
        BY <3>1, <4>1, HeardMeans DEF FoundIsHeardAtFirst
      <4> QED
        BY <2>1, <2>3, <2>4, <4>2
    <3>2. CASE id \notin seen
      <4>1. Waiting /\ f \notin late /\ id = n + 1
        BY <2>1, <2>5, <3>2
      <4>2. round = 1 /\ bound # Nobody
        <5>1. deed.in = round
          BY <2>1, <4>1 DEF Waiting, AutomationHolds
        <5>2. round = 1
          BY <2>2, <2>5, <4>1, <5>1
        <5> QED
          BY <4>1, <5>2 DEF Waiting, PlaceInv
      <4>3. docs[f].listeners = 1
        BY <2>3, <4>1 DEF Waiting, FoundInv
      <4>4. queue' = Append(queue, Acted(n + 1))
        BY <2>1, <4>2, <4>3
      <4> QED
        BY <2>4, <4>1, <4>4
    <3> QED
      BY <3>1, <3>2
  <2> QED
    BY <2>5, HeardMeansNext DEF FoundIsHeardAtFirst
<1>2. ASSUME NEW f \in Frames, NEW u \in Urls, Navigate(f, u)
      PROVE  FoundIsHeardAtFirst'
  <2>1. seen' = seen /\ acts' = acts /\ log' = log
    BY <1>2 DEF Navigate, Moved, recorderVars
  <2>2. Told(queue') = Told(queue)
    <3>1. /\ queue \in Seq(Reports) /\ Navigated(u) \in Reports
          /\ Navigated(u).kind = "navigate"
      BY ReportKinds DEF TypeOK
    <3>2. Told(Append(queue, Navigated(u))) = Told(queue)
      BY <3>1, ToldAppended
    <3> QED
      BY <1>2, <3>2 DEF Navigate, Moved
  <2> QED
    BY <2>1, <2>2, HeardStays
<1>3. ASSUME Resume
      PROVE  FoundIsHeardAtFirst'
  <2>1. seen' = seen /\ acts' = acts /\ log' = log /\ queue' = queue
    BY <1>3 DEF Resume, pageVars, recorderVars, runVars, history
  <2> QED
    BY <2>1, HeardStays
<1>4. ASSUME Dispatch
      PROVE  FoundIsHeardAtFirst'
  <2> DEFINE report == Head(queue)
  <2>1. /\ queue \in Seq(Reports) /\ queue # <<>> /\ queue' = Tail(queue)
        /\ report \in Reports /\ acts' = acts /\ seen' = seen
    BY <1>4, DispatchMeans DEF Dispatch, history
  <2>2. Told(queue) =
          Told(queue') \cup (IF report.kind = "act" THEN {report.id} ELSE {})
    BY <2>1, ToldShortened
  <2>3. CASE 1 \in Rounds
    <3>1. log[1] \in Seq(Reports)
      BY <2>3 DEF TypeOK
    <3>2. CASE report.kind = "act"
      <4>1. log'[1] = Append(log[1], report)
        BY <1>4, <3>2, DispatchMeans
      <4>2. Told(log'[1]) = Told(log[1]) \cup {report.id}
        BY <2>1, <3>1, <3>2, <4>1, ToldAppended
      <4> QED
        BY <2>1, <2>2, <3>2, <4>2, HeardStays
    <3>3. CASE report.kind # "act"
      <4>1. log'[1] = log[1] \/ log'[1] = Append(log[1], report)
        BY <1>4, <2>3, <3>3, DispatchMeans
      <4>2. Told(log'[1]) = Told(log[1])
        BY <2>1, <3>1, <3>3, <4>1, ToldAppended
      <4> QED
        BY <2>1, <2>2, <3>3, <4>2, HeardStays
    <3> QED
      BY <3>2, <3>3
  <2>4. CASE 1 \notin Rounds
    <3>1. \A id \in seen : acts[id] \in Deeds
      BY LenProperties, ElementOfSeq DEF TypeOK
    <3>2. \A id \in seen : acts[id].in # 1
      BY <2>4, <3>1, BoundsAssumption DEF Deeds, Rounds
    <3> QED
      BY <2>1, <3>2 DEF FoundIsHeardAtFirst
  <2> QED
    BY <2>3, <2>4
<1>5. ASSUME Announce
      PROVE  FoundIsHeardAtFirst'
  <2>1. seen' = seen /\ acts' = acts /\ log' = log /\ queue' = queue
    BY <1>5 DEF Announce, pageVars, recorderVars, history
  <2> QED
    BY <2>1, HeardStays
<1>6. ASSUME ExposeBinding
      PROVE  FoundIsHeardAtFirst'
  <2>1. seen' = seen /\ acts' = acts /\ log' = log /\ queue' = queue
    BY <1>6 DEF ExposeBinding, recorderVars, history
  <2> QED
    BY <2>1, HeardStays
<1>7. ASSUME AddInitScript
      PROVE  FoundIsHeardAtFirst'
  <2>1. seen' = seen /\ acts' = acts /\ log' = log /\ queue' = queue
    BY <1>7 DEF AddInitScript, pageVars, recorderVars
  <2> QED
    BY <2>1, HeardStays
<1>8. ASSUME EvaluateInFrame
      PROVE  FoundIsHeardAtFirst'
  <2>1. seen' = seen /\ acts' = acts /\ log' = log /\ queue' = queue
    BY <1>8 DEF EvaluateInFrame, recorderVars, history
  <2> QED
    BY <2>1, HeardStays
<1>9. ASSUME HeedNavigations
      PROVE  FoundIsHeardAtFirst'
  <2>1. seen' = seen /\ acts' = acts /\ log' = log /\ queue' = queue
    BY <1>9 DEF HeedNavigations, pageVars
  <2> QED
    BY <2>1, HeardStays
<1>10. ASSUME ReadLease
       PROVE  FoundIsHeardAtFirst'
  <2>1. seen' = seen /\ acts' = acts /\ log' = log /\ queue' = queue
    BY <1>10 DEF ReadLease, pageVars, recorderVars, history
  <2> QED
    BY <2>1, HeardStays
<1>11. ASSUME PumpAgain
       PROVE  FoundIsHeardAtFirst'
  <2>1. seen' = seen /\ acts' = acts /\ log' = log /\ queue' = queue
    BY <1>11 DEF PumpAgain, pageVars, recorderVars, history
  <2> QED
    BY <2>1, HeardStays
<1>12. ASSUME WaitEnds
       PROVE  FoundIsHeardAtFirst'
  <2>1. seen' = seen /\ acts' = acts /\ log' = log /\ queue' = queue
    BY <1>12 DEF WaitEnds, pageVars, recorderVars, history
  <2> QED
    BY <2>1, HeardStays
<1>13. ASSUME Stop
       PROVE  FoundIsHeardAtFirst'
  <2>1. seen' = seen /\ acts' = acts /\ log' = log /\ queue' = queue
    BY <1>13 DEF Stop, pageVars, history
  <2> QED
    BY <2>1, HeardStays
<1>14. ASSUME UNCHANGED vars
       PROVE  FoundIsHeardAtFirst'
  <2>1. seen' = seen /\ acts' = acts /\ log' = log /\ queue' = queue
    BY <1>14 DEF vars, pageVars, recorderVars, runVars, history
  <2> QED
    BY <2>1, HeardStays
<1>15. ASSUME NEW u \in Urls, MoveWithin(u)
       PROVE  FoundIsHeardAtFirst'
  <2>1. seen' = seen /\ acts' = acts /\ log' = log
    BY <1>15 DEF MoveWithin, Moved, recorderVars
  <2>2. Told(queue') = Told(queue)
    <3>1. /\ queue \in Seq(Reports) /\ Navigated(u) \in Reports
          /\ Navigated(u).kind = "navigate"
      BY ReportKinds DEF TypeOK
    <3>2. Told(Append(queue, Navigated(u))) = Told(queue)
      BY <3>1, ToldAppended
    <3> QED
      BY <1>15, <3>2 DEF MoveWithin, Moved
  <2> QED
    BY <2>1, <2>2, HeardStays
<1>16. ASSUME WaitRaises
       PROVE  FoundIsHeardAtFirst'
  <2>1. seen' = seen /\ acts' = acts /\ log' = log /\ queue' = queue
    BY <1>16 DEF WaitRaises, pageVars, recorderVars, history
  <2> QED
    BY <2>1, HeardStays
<1> QED
  BY <1>1, <1>2, <1>3, <1>4, <1>5, <1>6, <1>7, <1>8, <1>9, <1>10, <1>11, <1>12, <1>13,
     <1>14, <1>15, <1>16 DEF Next

\* The last navigation heard of stays where the page is.
LEMMA EndsStep ==
  ASSUME TypeOK, PlaceInv, OrderInv, EndsInv, [Next]_vars
  PROVE  EndsInv'
<1>1. ASSUME NEW f \in Frames, ActIn(f)
      PROVE  EndsInv'
  <2>1. PICK n \in Nat : queue' = queue \/ queue' = Append(queue, Acted(n + 1))
    BY <1>1, ActInMeans
  <2>2. /\ log' = log /\ docs' = docs /\ moves' = moves /\ pc' = pc /\ round' = round
    BY <1>1 DEF ActIn, pageVars, recorderVars, runVars
  <2>3. /\ queue \in Seq(Reports) /\ Acted(n + 1) \in Reports
        /\ Acted(n + 1).kind # "navigate"
    BY ReportKinds DEF TypeOK
  <2>4. /\ NavigationsIn(queue') = NavigationsIn(queue)
        /\ \A url : EndsAt(queue, url) => EndsAt(queue', url)
    BY <2>1, <2>3, EndAppended
  <2> QED
    BY <2>2, <2>4 DEF EndsInv, Waiting
<1>2. ASSUME NEW f \in Frames, NEW u \in Urls, Navigate(f, u)
      PROVE  EndsInv'
  <2>1. log' = log /\ pc' = pc /\ round' = round
    BY <1>2 DEF Navigate, Moved, recorderVars, runVars
  <2>2. CASE f = Main
    <3>1. docs'[Main] = Loaded(u)
      BY <1>2, <2>2 DEF Navigate, Moved, Frames
    <3>2. docs'[Main].url = u /\ moves'.last = u
      BY <1>2, <2>2, <3>1 DEF Navigate, Moved, Loaded, Install
    <3>3. queue' = Append(queue, Navigated(u))
      BY <1>2, <2>2 DEF Navigate, Moved
    <3>4. NavigationsIn(queue') # {} /\ EndsAt(queue', u)
      <4>1. /\ queue \in Seq(Reports) /\ Navigated(u) \in Reports
            /\ Navigated(u).kind = "navigate" /\ Navigated(u).url = u
        BY ReportKinds DEF TypeOK
      <4> QED
        BY <3>3, <4>1, EndAppended
    <3> QED
      BY <3>2, <3>4 DEF EndsInv
  <2>3. CASE f # Main
    <3>1. docs'[Main] = docs[Main] /\ queue' = queue /\ moves'.last = moves.last
      BY <1>2, <2>3 DEF Navigate, Moved, Frames
    <3> QED
      BY <2>1, <3>1 DEF EndsInv, Waiting
  <2> QED
    BY <2>2, <2>3
<1>3. ASSUME Resume
      PROVE  EndsInv'
  BY <1>3
  DEF Resume, pageVars, recorderVars, runVars, history, EndsInv, Waiting
<1>4. ASSUME Dispatch
      PROVE  EndsInv'
  <2> DEFINE report == Head(queue)
  <2>1. /\ queue \in Seq(Reports) /\ queue # <<>> /\ queue' = Tail(queue)
        /\ report \in Reports
        /\ docs' = docs /\ moves' = moves /\ pc' = pc /\ round' = round
    BY <1>4, DispatchMeans DEF Dispatch, pageVars, runVars, history
  <2>2. ASSUME Waiting, moves.last # NoUrl
        PROVE  IF NavigationsIn(queue') = {} THEN EndsAt(log'[round], moves.last)
                                             ELSE EndsAt(queue', moves.last)
    <3>1. pc \in Listening /\ round \in Rounds /\ log[round] \in Seq(Reports)
      BY <2>2 DEF Waiting, Listening, PlaceInv, TypeOK
    <3>2. CASE NavigationsIn(queue) = {}
      <4>1. EndsAt(log[round], moves.last)
        BY <2>2, <3>2 DEF EndsInv
      <4>2. report.kind # "navigate" /\ NavigationsIn(queue') = {}
        BY <2>1, <3>2, Shortened
      <4>3. log'[round] = log[round] \/ log'[round] = Append(log[round], report)
        BY <1>4, <3>1, DispatchMeans
      <4> QED
        BY <2>1, <3>1, <4>1, <4>2, <4>3, EndAppended
    <3>3. CASE NavigationsIn(queue) # {}
      <4>1. EndsAt(queue, moves.last)
        BY <2>2, <3>3 DEF EndsInv
      <4>2. CASE NavigationsIn(queue') # {}
        BY <2>1, <4>1, <4>2, EndShortened
      <4>3. CASE NavigationsIn(queue') = {}
        <5>1. report.kind = "navigate" /\ report.url = moves.last
          BY <2>1, <4>1, <4>3, EndShortened
        <5>2. \/ log'[round] = log[round] /\ Repeated(log[round], report.url)
              \/ log'[round] = Append(log[round], report)
          BY <1>4, <3>1, <5>1, DispatchMeans
        <5>3. moves.last \in Urls
          BY <2>2 DEF TypeOK
        <5> QED
          BY <2>1, <3>1, <4>3, <5>1, <5>2, <5>3, RepeatedEnds, EndAppended
      <4> QED
        BY <4>2, <4>3
    <3> QED
      BY <3>2, <3>3
  <2> QED
    BY <2>1, <2>2 DEF EndsInv, Waiting
<1>5. ASSUME Announce
      PROVE  EndsInv'
  BY <1>5 DEF Announce, EndsInv, Waiting
<1>6. ASSUME ExposeBinding
      PROVE  EndsInv'
  BY <1>6 DEF ExposeBinding, EndsInv, Waiting
<1>7. ASSUME AddInitScript
      PROVE  EndsInv'
  BY <1>7 DEF AddInitScript, EndsInv, Waiting
<1>8. ASSUME EvaluateInFrame
      PROVE  EndsInv'
  BY <1>8 DEF EvaluateInFrame, EndsInv, Waiting
<1>9. ASSUME HeedNavigations
      PROVE  EndsInv'
  <2>1. moves'.last = NoUrl
    BY <1>9 DEF HeedNavigations, TypeOK
  <2> QED
    BY <2>1 DEF EndsInv
<1>10. ASSUME ReadLease
       PROVE  EndsInv'
  BY <1>10
  DEF ReadLease, pageVars, recorderVars, history, EndsInv, Waiting
<1>11. ASSUME PumpAgain
       PROVE  EndsInv'
  BY <1>11
  DEF PumpAgain, pageVars, recorderVars, history, EndsInv, Waiting
<1>12. ASSUME WaitEnds
       PROVE  EndsInv'
  BY <1>12
  DEF WaitEnds, pageVars, recorderVars, history, EndsInv, Waiting
<1>13. ASSUME Stop
       PROVE  EndsInv'
  BY <1>13
  DEF Stop, pageVars, history, EndsInv, Waiting
<1>14. ASSUME UNCHANGED vars
       PROVE  EndsInv'
  BY <1>14
  DEF vars, pageVars, recorderVars, runVars, history, EndsInv, Waiting
<1>15. ASSUME NEW u \in Urls, MoveWithin(u)
       PROVE  EndsInv'
  <2>1. docs'[Main].url = u /\ moves'.last = u
    BY <1>15 DEF MoveWithin, Moved, TypeOK, Frames
  <2>2. queue' = Append(queue, Navigated(u))
    BY <1>15 DEF MoveWithin, Moved
  <2>3. NavigationsIn(queue') # {} /\ EndsAt(queue', u)
    <3>1. /\ queue \in Seq(Reports) /\ Navigated(u) \in Reports
          /\ Navigated(u).kind = "navigate" /\ Navigated(u).url = u
      BY ReportKinds DEF TypeOK
    <3> QED
      BY <2>2, <3>1, EndAppended
  <2> QED
    BY <2>1, <2>3 DEF EndsInv
<1>16. ASSUME WaitRaises
       PROVE  EndsInv'
  BY <1>16
  DEF WaitRaises, pageVars, recorderVars, history, EndsInv, Waiting
<1> QED
  BY <1>1, <1>2, <1>3, <1>4, <1>5, <1>6, <1>7, <1>8, <1>9, <1>10, <1>11, <1>12, <1>13,
     <1>14, <1>15, <1>16 DEF Next

-------------------------------------------------------------------------------
(***************************************************************************)
(* The theorems.                                                           *)
(***************************************************************************)
\* The invariant holds at the start.
LEMMA InitIInv ==
  ASSUME Init
  PROVE  IInv
<1>1. TypeOK
  <2>1. /\ docs \in [Frames -> [url : Urls \cup {Absent}, listeners : 0 .. 1]]
        /\ late \subseteq Frames
        /\ moves \in [made : 0 .. MaxMoves, last : Urls \cup {NoUrl}]
        /\ round \in 0 .. Handoffs
    BY BoundsAssumption DEF Init
  <2>2. /\ queue \in Seq(Reports)
        /\ log \in [Rounds -> Seq(Reports)] /\ written \in [Rounds -> Seq(Reports)]
    BY EmptyList DEF Init
  <2>3. acts \in Seq(Deeds) /\ Len(acts) = 0 /\ Len(acts) <= MaxActs
    BY EmptySeq, BoundsAssumption DEF Init
  <2>4. heeding \subseteq Rounds /\ Cardinality(heeding) <= 1
    BY FS_EmptySet DEF Init
  <2> QED
    BY <2>1, <2>2, <2>3, <2>4 DEF Init, TypeOK, Nobody
<1>2. PlaceInv /\ FoundInv
  BY DEF Init, PlaceInv, FoundInv, Listening, Nobody
<1>3. /\ Told(queue) = {} /\ ActsIn(queue) = {}
      /\ \A r \in Rounds : /\ Told(log[r]) = {} /\ ActsIn(log[r]) = {}
                           /\ Told(written[r]) = {} /\ ActsIn(written[r]) = {}
  BY EmptyList DEF Init
<1>4. OrderInv /\ TheirsInv
  BY <1>3 DEF Init, OrderInv, TheirsInv, TheirsIn, InOrder, Before
<1>5. FoundIsHeardAtFirst /\ EndsInv
  BY DEF Init, FoundIsHeardAtFirst, EndsInv, Waiting
<1> QED
  BY <1>1, <1>2, <1>4, <1>5 DEF IInv

\* Every step of the page, the person and the recorder keeps it.
LEMMA StepIInv ==
  ASSUME IInv, [Next]_vars
  PROVE  IInv'
<1>1. /\ TypeOK /\ PlaceInv /\ FoundInv /\ OrderInv /\ TheirsInv
      /\ FoundIsHeardAtFirst /\ EndsInv
  BY DEF IInv
<1>2. TypeOK' /\ PlaceInv' /\ FoundInv' /\ OrderInv'
  BY <1>1, TypeStep, PlaceStep, FoundStep, OrderStep
<1>3. TheirsInv' /\ FoundIsHeardAtFirst' /\ EndsInv'
  BY <1>1, TheirsStep, HeardStep, EndsStep
<1> QED
  BY <1>2, <1>3 DEF IInv

\* The inductive invariant holds in every reachable state.
THEOREM InductiveInvariant == Spec => []IInv
<1>1. Init => IInv
  BY InitIInv
<1>2. IInv /\ [Next]_vars => IInv'
  BY StepIInv
<1> QED
  BY <1>1, <1>2, PTL DEF Spec

\* Every part of the state has its type, and one recorder at most hears of
\* navigations.
THEOREM TypeCorrect == Spec => []TypeOK
<1>1. IInv => TypeOK
  BY DEF IInv
<1> QED
  BY <1>1, InductiveInvariant, PTL

\* Once the recorder has started, every document it found reports, and once,
\* however often the page was instrumented, and whatever loaded meanwhile.
THEOREM FoundDocumentsReport == Spec => []DocumentsFoundReport
<1>1. IInv => DocumentsFoundReport
  BY DEF IInv, FoundInv, DocumentsFoundReport, Waiting
<1> QED
  BY <1>1, InductiveInvariant, PTL

\* What is written beside a handoff is what a person did in it, once and in
\* order: nothing of automation's, nothing of another handoff's.
THEOREM WrittenAreTheirs == Spec => []WrittenIsTheirs
<1>1. IInv => WrittenIsTheirs
  <2> SUFFICES ASSUME IInv, NEW r \in Rounds
               PROVE  /\ \A k \in ActsIn(written[r]) :
                           acts[written[r][k].id] = [by |-> "person", in |-> r]
                      /\ \A j, k \in ActsIn(written[r]) :
                           j < k => written[r][j].id < written[r][k].id
    BY DEF WrittenIsTheirs
  <2>1. TheirsIn(written[r], r) /\ InOrder(written[r])
    BY DEF IInv, TheirsInv
  <2> QED
    BY <2>1 DEF TheirsIn, InOrder, Told
<1> QED
  BY <1>1, InductiveInvariant, PTL

\* Nothing a person does in the first handoff, to a document its recorder found,
\* is lost on the way once it has started.
THEOREM FoundHeardAtFirst == Spec => []FoundIsHeardAtFirst
<1>1. IInv => FoundIsHeardAtFirst
  BY DEF IInv
<1> QED
  BY <1>1, InductiveInvariant, PTL

\* Once a recorder has been told of the navigations of its handoff, its last one
\* is where the page is.
THEOREM EndsRight == Spec => []EndsWhereTheyEnded
<1>1. IInv => EndsWhereTheyEnded
  <2> SUFFICES ASSUME IInv, Waiting, NavigationsIn(queue) = {}, moves.last # NoUrl
               PROVE  \E k \in NavigationsIn(log[round]) :
                        /\ log[round][k].url = docs[Main].url
                        /\ \A j \in NavigationsIn(log[round]) : j <= k
    BY DEF EndsWhereTheyEnded
  <2>1. docs[Main].url = moves.last /\ EndsAt(log[round], moves.last)
    BY DEF IInv, EndsInv
  <2> QED
    BY <2>1 DEF EndsAt
<1> QED
  BY <1>1, InductiveInvariant, PTL

==============================================================================

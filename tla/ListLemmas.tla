------------------------------ MODULE ListLemmas ------------------------------
(***************************************************************************)
(* Lemmas about numbers and lists that the proofs about recursions over a  *)
(* page or a recording share.                                              *)
(***************************************************************************)
EXTENDS SequencesExt, Integers, TLAPS, SequenceTheorems, FiniteSetTheorems,
        WellFoundedInduction

(***************************************************************************)
(* Induction, and least elements.                                          *)
(***************************************************************************)
\* Among any natural numbers there is a least one.
LEMMA LeastExists ==
  ASSUME NEW S \in SUBSET Nat, S # {}
  PROVE  Min(S) \in S /\ \A y \in S : Min(S) <= y
<1>1. PICK x \in S : \A y \in S : ~(<<y, x>> \in OpToRel(<, Nat))
  BY NatLessThanWellFounded, WFMin
<1>2. \A y \in S : ~(y < x)
  BY <1>1 DEF OpToRel
<1>3. \A y \in S : x <= y
  BY <1>2
<1> QED
  BY <1>1, <1>3 DEF Min

\* A set of numbers with 0 and with every successor has them all.
LEMMA SetInduction ==
  ASSUME NEW T \in SUBSET Nat, 0 \in T, \A n \in T : n + 1 \in T
  PROVE  T = Nat
<1> SUFFICES ASSUME Nat \ T # {} PROVE FALSE
  OBVIOUS
<1> DEFINE x == Min(Nat \ T)
<1>1. x \in Nat \ T /\ \A y \in Nat \ T : x <= y
  BY LeastExists
<1> HIDE DEF x
<1>2. x # 0 /\ x - 1 \in Nat /\ ~(x <= x - 1) /\ (x - 1) + 1 = x
  BY <1>1
<1>3. x - 1 \in T
  BY <1>1, <1>2
<1> QED
  BY <1>1, <1>2, <1>3

-------------------------------------------------------------------------------
(***************************************************************************)
(* Lists.                                                                  *)
(***************************************************************************)
IsList(s) == s \in Seq(Range(s))

\* The entries of a list are numbered up to its length.
LEMMA ListMeans ==
  ASSUME NEW s, IsList(s)
  PROVE  /\ Len(s) \in Nat /\ DOMAIN s = 1 .. Len(s)
         /\ Range(s) = {s[k] : k \in 1 .. Len(s)}
<1>1. s \in Seq(Range(s))
  BY DEF IsList
<1>2. Len(s) \in Nat /\ DOMAIN s = 1 .. Len(s)
  BY <1>1, LenProperties
<1> QED
  BY <1>2 DEF Range

\* One list after another has the entries of the one and then of the other.
LEMMA Concatenated ==
  ASSUME NEW s, NEW t, IsList(s), IsList(t),
         NEW m \in Nat, m = Len(s), NEW n \in Nat, n = Len(t)
  PROVE  /\ IsList(s \o t)
         /\ Len(s \o t) = m + n /\ DOMAIN (s \o t) = 1 .. m + n
         /\ \A k \in 1 .. m : (s \o t)[k] = s[k]
         /\ \A k \in 1 .. n : (s \o t)[m + k] = t[k]
         /\ Range(s \o t) = Range(s) \cup Range(t)
<1> DEFINE S == Range(s) \cup Range(t)
           st == s \o t
<1>1. s \in Seq(S) /\ t \in Seq(S)
  BY SeqMonotonic DEF IsList
<1>2. /\ st \in Seq(S) /\ Len(st) = m + n
      /\ \A k \in 1 .. m + n : st[k] = IF k <= m THEN s[k] ELSE t[k - m]
  BY <1>1, ConcatProperties
<1>3. DOMAIN st = 1 .. m + n
  BY <1>2, LenProperties
<1>4. \A k \in 1 .. m : st[k] = s[k]
  BY <1>2
<1>5. \A k \in 1 .. n : st[m + k] = t[k]
  <2> SUFFICES ASSUME NEW k \in 1 .. n PROVE st[m + k] = t[k]
    OBVIOUS
  <2>1. m + k \in 1 .. m + n /\ ~(m + k <= m) /\ (m + k) - m = k
    OBVIOUS
  <2> QED
    BY <1>2, <2>1
<1>6. Range(st) = Range(s) \cup Range(t)
  <2>1. Range(s) = {s[k] : k \in 1 .. m} /\ Range(t) = {t[k] : k \in 1 .. n}
    BY ListMeans
  <2>2. Range(st) = {st[k] : k \in 1 .. m + n}
    BY <1>3 DEF Range
  <2>3. \A k \in 1 .. m + n : k \in 1 .. m \/ (k - m \in 1 .. n /\ m + (k - m) = k)
    OBVIOUS
  <2>4. /\ \A k \in 1 .. m : k \in 1 .. m + n
        /\ \A k \in 1 .. n : m + k \in 1 .. m + n
    OBVIOUS
  <2> HIDE DEF st
  <2>5. ASSUME NEW x \in Range(st) PROVE x \in Range(s) \cup Range(t)
    <3>1. PICK k \in 1 .. m + n : x = st[k]
      BY <2>2, <2>5
    <3> QED
      BY <1>4, <1>5, <2>1, <2>3, <3>1
  <2>6. ASSUME NEW x \in Range(s) PROVE x \in Range(st)
    BY <1>4, <2>1, <2>2, <2>4, <2>6
  <2>7. ASSUME NEW x \in Range(t) PROVE x \in Range(st)
    BY <1>5, <2>1, <2>2, <2>4, <2>7
  <2> QED
    BY <2>5, <2>6, <2>7
<1>7. IsList(st)
  BY <1>2, <1>6 DEF IsList
<1> HIDE DEF st
<1> QED
  BY <1>2, <1>3, <1>4, <1>5, <1>6, <1>7 DEF st

\* A list with one entry more has those before and the new one.
LEMMA Appended ==
  ASSUME NEW s, IsList(s), NEW x
  PROVE  /\ IsList(Append(s, x))
         /\ Append(s, x) # <<>>
         /\ Last(Append(s, x)) = x
         /\ Range(Append(s, x)) = Range(s) \cup {x}
<1> DEFINE S == Range(s) \cup {x}
           sx == Append(s, x)
<1>1. PICK n \in Nat : n = Len(s) /\ DOMAIN s = 1 .. n /\ Range(s) = {s[k] : k \in 1 .. n}
  BY ListMeans
<1>2. s \in Seq(S) /\ x \in S
  BY SeqMonotonic DEF IsList
<1>3. /\ sx \in Seq(S) /\ Len(sx) = n + 1 /\ sx[n + 1] = x
      /\ \A k \in 1 .. n : sx[k] = s[k]
  BY <1>1, <1>2, AppendProperties
<1>4. DOMAIN sx = 1 .. n + 1
  BY <1>3, LenProperties
<1> HIDE DEF sx
<1>5. Range(sx) = S
  <2>1. Range(sx) = {sx[k] : k \in 1 .. n + 1}
    BY <1>4 DEF Range
  <2>2. /\ \A k \in 1 .. n + 1 : k \in 1 .. n \/ k = n + 1
        /\ n + 1 \in 1 .. n + 1
        /\ \A k \in 1 .. n : k \in 1 .. n + 1
    OBVIOUS
  <2> QED
    BY <1>1, <1>3, <2>1, <2>2
<1>6. sx # <<>>
  BY <1>3
<1>7. Last(sx) = x
  BY <1>3 DEF Last
<1>8. IsList(sx)
  BY <1>3, <1>5 DEF IsList
<1> QED
  BY <1>5, <1>6, <1>7, <1>8 DEF sx

\* The last entry of a list that has one is among its entries.
LEMMA LastMeans ==
  ASSUME NEW s, IsList(s), s # <<>>
  PROVE  Last(s) \in Range(s)
<1>1. PICK n \in Nat : n = Len(s) /\ DOMAIN s = 1 .. n /\ Range(s) = {s[k] : k \in 1 .. n}
  BY ListMeans
<1>2. n # 0
  BY <1>1, EmptySeq DEF IsList
<1>3. n \in 1 .. n /\ Last(s) = s[n]
  BY <1>1, <1>2 DEF Last
<1> QED
  BY <1>1, <1>3

\* A list without its k-th entry has the others.
LEMMA Removed ==
  ASSUME NEW s, IsList(s), NEW k \in 1 .. Len(s)
  PROVE  /\ IsList(RemoveAt(s, k))
         /\ \A x \in Range(RemoveAt(s, k)) : \E i \in 1 .. Len(s) : i # k /\ x = s[i]
         /\ \A i \in 1 .. Len(s) : i # k => s[i] \in Range(RemoveAt(s, k))
<1>1. PICK n \in Nat : n = Len(s) /\ DOMAIN s = 1 .. n /\ Range(s) = {s[i] : i \in 1 .. n}
  BY ListMeans
<1> DEFINE front == SubSeq(s, 1, k - 1)
           back == SubSeq(s, k + 1, n)
<1>2. /\ front \in Seq(Range(s)) /\ Len(front) = k - 1
      /\ \A i \in 1 .. k - 1 : front[i] = s[i]
  <2>1. \A i \in 1 .. k - 1 : s[i] \in Range(s)
    BY <1>1
  <2>2. k - 1 \in Int /\ (IF 1 <= k - 1 THEN (k - 1) - 1 + 1 ELSE 0) = k - 1
    BY <1>1
  <2>3. /\ front \in Seq(Range(s)) /\ Len(front) = IF 1 <= k - 1 THEN (k - 1) - 1 + 1 ELSE 0
        /\ \A i \in 1 .. (k - 1) - 1 + 1 : front[i] = s[1 + i - 1]
    BY <2>1, <2>2, SubSeqProperties
  <2> HIDE DEF front
  <2>4. \A i \in 1 .. k - 1 : i \in 1 .. (k - 1) - 1 + 1 /\ 1 + i - 1 = i
    BY <1>1
  <2> QED
    BY <2>2, <2>3, <2>4
<1>3. /\ back \in Seq(Range(s)) /\ Len(back) = n - k
      /\ \A i \in 1 .. n - k : back[i] = s[k + i]
  <2>1. \A i \in k + 1 .. n : s[i] \in Range(s)
    BY <1>1
  <2>2. k + 1 \in Int /\ n \in Int /\ (IF k + 1 <= n THEN n - (k + 1) + 1 ELSE 0) = n - k
    BY <1>1
  <2>3. /\ back \in Seq(Range(s)) /\ Len(back) = IF k + 1 <= n THEN n - (k + 1) + 1 ELSE 0
        /\ \A i \in 1 .. n - (k + 1) + 1 : back[i] = s[k + 1 + i - 1]
    BY <2>1, <2>2, SubSeqProperties
  <2> HIDE DEF back
  <2>4. \A i \in 1 .. n - k : i \in 1 .. n - (k + 1) + 1 /\ k + 1 + i - 1 = k + i
    BY <1>1
  <2> QED
    BY <2>2, <2>3, <2>4
<1>4. RemoveAt(s, k) = front \o back
  BY <1>1 DEF RemoveAt
<1>5. k - 1 \in Nat /\ n - k \in Nat
  BY <1>1
<1> HIDE DEF front, back
<1>6. Range(front) = {front[i] : i \in 1 .. k - 1} /\ Range(back) = {back[i] : i \in 1 .. n - k}
  BY <1>2, <1>3, LenProperties DEF Range
<1>7. IsList(front) /\ IsList(back)
  <2>1. front \in [1 .. k - 1 -> Range(front)] /\ back \in [1 .. n - k -> Range(back)]
    BY <1>2, <1>3, <1>6, LenProperties
  <2> QED
    BY <1>5, <2>1 DEF IsList
<1>8. /\ IsList(RemoveAt(s, k))
      /\ Range(RemoveAt(s, k)) = Range(front) \cup Range(back)
  BY <1>2, <1>3, <1>4, <1>5, <1>7, Concatenated
<1>9. ASSUME NEW x \in Range(RemoveAt(s, k))
      PROVE  \E i \in 1 .. n : i # k /\ x = s[i]
  <2>1. CASE x \in Range(front)
    <3>1. PICK i \in 1 .. k - 1 : x = s[i]
      BY <1>2, <1>6, <2>1
    <3>2. i \in 1 .. n /\ i # k
      BY <1>1
    <3> QED
      BY <3>1, <3>2
  <2>2. CASE x \in Range(back)
    <3>1. PICK i \in 1 .. n - k : x = s[k + i]
      BY <1>3, <1>6, <2>2
    <3>2. k + i \in 1 .. n /\ k + i # k
      BY <1>1
    <3> QED
      BY <3>1, <3>2
  <2> QED
    BY <1>8, <2>1, <2>2
<1>10. ASSUME NEW i \in 1 .. n, i # k PROVE s[i] \in Range(RemoveAt(s, k))
  <2>1. CASE i < k
    <3>1. i \in 1 .. k - 1
      BY <1>1, <2>1
    <3> QED
      BY <1>2, <1>6, <1>8, <3>1
  <2>2. CASE ~(i < k)
    <3>1. i - k \in 1 .. n - k /\ k + (i - k) = i
      BY <1>1, <1>10, <2>2
    <3>2. back[i - k] = s[i]
      BY <1>3, <3>1
    <3> QED
      BY <1>6, <1>8, <3>1, <3>2
  <2> QED
    BY <2>1, <2>2
<1> QED
  BY <1>1, <1>8, <1>9, <1>10

\* A list without its last entry has those before.
LEMMA LastRemoved ==
  ASSUME NEW s, IsList(s), NEW n \in Nat, n = Len(s), n # 0
  PROVE  /\ Len(RemoveAt(s, n)) = n - 1
         /\ \A k \in 1 .. n - 1 : RemoveAt(s, n)[k] = s[k]
<1> DEFINE front == SubSeq(s, 1, n - 1)
           back == SubSeq(s, n + 1, n)
<1>1. \A k \in 1 .. n : s[k] \in Range(s)
  BY ListMeans
<1>2. /\ front \in Seq(Range(s)) /\ Len(front) = n - 1
      /\ \A i \in 1 .. n - 1 : front[i] = s[i]
  <2>1. \A i \in 1 .. n - 1 : s[i] \in Range(s)
    BY <1>1
  <2>2. n - 1 \in Int /\ (IF 1 <= n - 1 THEN (n - 1) - 1 + 1 ELSE 0) = n - 1
    OBVIOUS
  <2>3. /\ front \in Seq(Range(s)) /\ Len(front) = IF 1 <= n - 1 THEN (n - 1) - 1 + 1 ELSE 0
        /\ \A i \in 1 .. (n - 1) - 1 + 1 : front[i] = s[1 + i - 1]
    BY <2>1, <2>2, SubSeqProperties
  <2> HIDE DEF front
  <2>4. \A i \in 1 .. n - 1 : i \in 1 .. (n - 1) - 1 + 1 /\ 1 + i - 1 = i
    OBVIOUS
  <2> QED
    BY <2>2, <2>3, <2>4
<1>3. back \in Seq(Range(s)) /\ Len(back) = 0
  <2>1. \A i \in n + 1 .. n : s[i] \in Range(s)
    OBVIOUS
  <2>2. n + 1 \in Int /\ n \in Int /\ (IF n + 1 <= n THEN n - (n + 1) + 1 ELSE 0) = 0
    OBVIOUS
  <2> QED
    BY <2>1, <2>2, SubSeqProperties
<1>4. RemoveAt(s, n) = front \o back
  BY DEF RemoveAt
<1>5. n - 1 \in Nat
  OBVIOUS
<1> HIDE DEF front, back
<1>6. IsList(front) /\ IsList(back)
  <2>1. Range(front) = {front[i] : i \in 1 .. n - 1}
    BY <1>2, LenProperties DEF Range
  <2>2. front \in [1 .. n - 1 -> Range(front)]
    BY <1>2, <2>1, LenProperties
  <2>3. back = <<>>
    BY <1>3, EmptySeq
  <2>4. IsList(<<>>)
    BY DEF IsList, Range
  <2>5. IsList(front)
    BY <1>5, <2>2 DEF IsList
  <2> QED
    BY <2>3, <2>4, <2>5
<1> QED
  BY <1>2, <1>3, <1>4, <1>5, <1>6, Concatenated

\* The last position of a list that passes a test is a position, if there is one.
LEMMA GreatestExists ==
  ASSUME NEW n \in Nat, NEW S \in SUBSET (1 .. n), S # {}
  PROVE  Max(S) \in S /\ \A y \in S : y <= Max(S)
<1> DEFINE T == {n - y : y \in S}
<1>1. T \in SUBSET Nat /\ T # {}
  <2>1. \A y \in S : n - y \in Nat
    OBVIOUS
  <2>2. PICK y : y \in S
    OBVIOUS
  <2>3. n - y \in T
    BY <2>2
  <2> QED
    BY <2>1, <2>3
<1>2. Min(T) \in T /\ \A z \in T : Min(T) <= z
  BY <1>1, LeastExists
<1>3. PICK x \in S : n - x = Min(T)
  BY <1>2
<1>4. \A y \in S : n - x <= n - y
  BY <1>2, <1>3
<1>5. \A y \in S : y <= x
  BY <1>4
<1> QED
  BY <1>5 DEF Max
-------------------------------------------------------------------------------
(***************************************************************************)
(* Positions, and how many are before one.                                 *)
(***************************************************************************)
NumberBefore(S, k) == Cardinality({j \in S : j < k})

\* The least of one number.
LEMMA MinOfOne ==
  ASSUME NEW a \in Nat
  PROVE  Min({a}) = a
<1>1. {a} \in SUBSET Nat /\ {a} # {}
  OBVIOUS
<1> QED
  BY <1>1, LeastExists

\* Positions up to n are finitely many, and so are those before one.
LEMMA PositionsBefore ==
  ASSUME NEW n \in Nat, NEW S \in SUBSET (1 .. n), NEW k
  PROVE  IsFiniteSet({j \in S : j < k}) /\ NumberBefore(S, k) \in Nat
<1>1. IsFiniteSet(1 .. n)
  BY FS_Interval
<1>2. {j \in S : j < k} \subseteq 1 .. n
  OBVIOUS
<1>3. IsFiniteSet({j \in S : j < k})
  BY <1>1, <1>2, FS_Subset
<1> QED
  BY <1>3, FS_CardinalityType DEF NumberBefore

\* More positions are before a later one.
LEMMA BeforeGrows ==
  ASSUME NEW n \in Nat, NEW S \in SUBSET (1 .. n), NEW a \in S, NEW b \in S, a < b
  PROVE  NumberBefore(S, a) < NumberBefore(S, b)
<1> DEFINE A == {j \in S : j < a}
           B == {j \in S : j < b}
<1>1. /\ IsFiniteSet(A) /\ IsFiniteSet(B)
      /\ NumberBefore(S, a) \in Nat /\ NumberBefore(S, b) \in Nat
  BY PositionsBefore
<1>2. NumberBefore(S, a) = Cardinality(A) /\ NumberBefore(S, b) = Cardinality(B)
  BY DEF NumberBefore
<1>3. a \notin A /\ A \cup {a} \subseteq B
  <2>1. a \in Nat /\ b \in Nat /\ \A j \in S : j \in Nat
    OBVIOUS
  <2>2. \A j \in S : j < a => j < b
    BY <2>1
  <2>3. ~(a < a)
    BY <2>1
  <2> QED
    BY <2>2, <2>3
<1> HIDE DEF A, B
<1>4. Cardinality(A \cup {a}) = Cardinality(A) + 1
  BY <1>1, <1>3, FS_AddElement
<1>5. Cardinality(A \cup {a}) <= Cardinality(B)
  BY <1>1, <1>3, FS_Subset
<1> QED
  BY <1>1, <1>2, <1>4, <1>5

\* So each has a number of its own before it.
LEMMA OccurrenceIsOne ==
  ASSUME NEW n \in Nat, NEW S \in SUBSET (1 .. n), NEW a \in S
  PROVE  \A k \in S : NumberBefore(S, k) = NumberBefore(S, a) => k = a
<1> SUFFICES ASSUME NEW k \in S, NumberBefore(S, k) = NumberBefore(S, a), k # a
             PROVE  FALSE
  OBVIOUS
<1>1. NumberBefore(S, k) \in Nat /\ NumberBefore(S, a) \in Nat /\ k \in Nat /\ a \in Nat
  <2>1. NumberBefore(S, k) \in Nat /\ NumberBefore(S, a) \in Nat
    BY PositionsBefore
  <2>2. k \in Nat /\ a \in Nat
    OBVIOUS
  <2> QED
    BY <2>1, <2>2
<1>2. /\ ~(NumberBefore(S, k) < NumberBefore(S, a))
      /\ ~(NumberBefore(S, a) < NumberBefore(S, k))
  BY <1>1
<1>3. ~(k < a)
  BY <1>2, BeforeGrows
<1>4. ~(a < k)
  BY <1>2, BeforeGrows
<1> QED
  BY <1>1, <1>3, <1>4
===============================================================================

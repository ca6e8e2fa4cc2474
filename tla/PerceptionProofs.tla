--------------------------- MODULE PerceptionProofs ---------------------------
(***************************************************************************)
(* What Perception makes of a page, for any page: lemmas for the proofs    *)
(* about what rests on it.  Selected and Perceived are recursions over the *)
(* nodes of a document and over the frames of a page; that they compute    *)
(* what their equations say, and what they compute, is by induction, here  *)
(* from the well-foundedness of the natural numbers.                       *)
(***************************************************************************)
EXTENDS Perception, ListLemmas

(***************************************************************************)
(* Which nodes become elements.                                            *)
(***************************************************************************)
\* The recursion of Selected goes from node to node.
LEMMA SelectedSteps ==
  ASSUME NEW nodes, NEW n \in Nat, n = Len(nodes)
  PROVE  \E kept : /\ kept[0] = <<>>
                   /\ \A k \in 1 .. n : kept[k] = Kept(nodes, kept[k - 1], k)
                   /\ Selected(nodes) = kept[n]
<1> DEFINE Def(g, m) ==
             g = [k \in 0 .. m |-> IF k = 0 THEN <<>> ELSE Kept(nodes, g[k - 1], k)]
           T == {m \in Nat : \E g : Def(g, m)}
<1>1. 0 \in T
  <2> DEFINE g == [k \in 0 .. 0 |-> <<>>]
  <2>1. Def(g, 0)
    OBVIOUS
  <2> QED
    BY <2>1
<1>2. ASSUME NEW m \in T PROVE m + 1 \in T
  <2>1. PICK g : Def(g, m)
    BY <1>2
  <2> DEFINE h == [k \in 0 .. m + 1 |->
                     IF k = m + 1 THEN Kept(nodes, g[m], m + 1) ELSE g[k]]
  <2>2. \A k \in 0 .. m + 1 : h[k] = IF k = 0 THEN <<>> ELSE Kept(nodes, h[k - 1], k)
    <3>1. \A k \in 0 .. m : g[k] = IF k = 0 THEN <<>> ELSE Kept(nodes, g[k - 1], k)
      BY <2>1
    <3>2. \A k \in 0 .. m : h[k] = g[k]
      OBVIOUS
    <3>3. h[m + 1] = Kept(nodes, h[m], m + 1)
      OBVIOUS
    <3> HIDE DEF h
    <3>4. ASSUME NEW k \in 0 .. m
          PROVE  h[k] = IF k = 0 THEN <<>> ELSE Kept(nodes, h[k - 1], k)
      <4>1. CASE k = 0
        BY <3>1, <3>2, <4>1
      <4>2. CASE k # 0
        <5>1. k - 1 \in 0 .. m
          BY <4>2
        <5>2. h[k] = Kept(nodes, g[k - 1], k)
          BY <3>1, <3>2, <4>2
        <5> QED
          BY <3>2, <4>2, <5>1, <5>2
      <4> QED
        BY <4>1, <4>2
    <3>5. ASSUME NEW k \in 0 .. m + 1, k = m + 1
          PROVE  h[k] = IF k = 0 THEN <<>> ELSE Kept(nodes, h[k - 1], k)
      <4>1. k # 0 /\ k - 1 = m
        BY <3>5
      <4> QED
        BY <3>3, <3>5, <4>1
    <3> QED
      <4>1. \A k \in 0 .. m + 1 : k \in 0 .. m \/ k = m + 1
        OBVIOUS
      <4> QED
        BY <3>4, <3>5, <4>1
  <2>3. Def(h, m + 1)
    <3>1. h = [i \in 0 .. m + 1 |-> h[i]]
      OBVIOUS
    <3> HIDE DEF h
    <3> QED
      BY <2>2, <3>1
  <2>4. \E f : Def(f, m + 1)
    BY <2>3
  <2> HIDE DEF Def
  <2> QED
    BY <2>4
<1>3. T = Nat
  <2> HIDE DEF T
  <2>1. T \in SUBSET Nat
    BY DEF T
  <2> QED
    BY <1>1, <1>2, <2>1, SetInduction
<1>4. \E g : Def(g, n)
  BY <1>3
<1> DEFINE kept == CHOOSE g : Def(g, n)
<1>5. Def(kept, n)
  BY <1>4
<1>6. Selected(nodes) = kept[n]
  BY DEF Selected
<1> HIDE DEF kept
<1>7. /\ kept[0] = <<>>
      /\ \A k \in 1 .. n : kept[k] = Kept(nodes, kept[k - 1], k)
  <2>1. \A k \in 0 .. n : kept[k] = IF k = 0 THEN <<>> ELSE Kept(nodes, kept[k - 1], k)
    BY <1>5
  <2> HIDE DEF Def
  <2> QED
    BY <2>1
<1> QED
  BY <1>6, <1>7

\* One more node may be kept, after those before it.
LEMMA KeptMeans ==
  ASSUME NEW nodes, NEW m \in Nat, NEW kept \in Seq(1 .. m), NEW n \in Nat, n = Len(kept)
  PROVE  /\ Kept(nodes, kept, m + 1) \in Seq(1 .. m + 1)
         /\ \/ /\ Kept(nodes, kept, m + 1) = kept
               /\ ~(nodes[m + 1].shown /\ Addressable(nodes[m + 1]))
            \/ /\ nodes[m + 1].shown
               /\ Len(Kept(nodes, kept, m + 1)) = n + 1
               /\ \A j \in 1 .. n : Kept(nodes, kept, m + 1)[j] = kept[j]
               /\ Kept(nodes, kept, m + 1)[n + 1] = m + 1
<1> DEFINE new == Append(kept, m + 1)
<1>1. kept \in Seq(1 .. m + 1)
  <2>1. 1 .. m \subseteq 1 .. m + 1
    OBVIOUS
  <2> QED
    BY <2>1, SeqMonotonic
<1>2. m + 1 \in 1 .. m + 1
  OBVIOUS
<1>3. /\ new \in Seq(1 .. m + 1) /\ Len(new) = n + 1
      /\ \A j \in 1 .. n : new[j] = kept[j]
      /\ new[n + 1] = m + 1
  BY <1>1, <1>2, AppendProperties
<1> HIDE DEF new
<1>4. CASE Chosen(nodes, kept, m + 1)
  <2>1. Kept(nodes, kept, m + 1) = new
    BY <1>4 DEF Kept, new
  <2>2. nodes[m + 1].shown
    BY <1>4 DEF Chosen
  <2> QED
    BY <1>3, <2>1, <2>2
<1>5. CASE ~Chosen(nodes, kept, m + 1)
  <2>1. Kept(nodes, kept, m + 1) = kept
    BY <1>5 DEF Kept
  <2>2. ~(nodes[m + 1].shown /\ Addressable(nodes[m + 1]))
    BY <1>5 DEF Chosen
  <2> QED
    BY <1>1, <2>1, <2>2
<1> QED
  BY <1>4, <1>5

\* What of the first m nodes is kept: nodes that are shown, in order, and each
\* addressable control among them.
KeptOf(nodes, m, kept) ==
  /\ kept \in Seq(1 .. m)
  /\ \A j \in 1 .. Len(kept) : nodes[kept[j]].shown
  /\ \A i, j \in 1 .. Len(kept) : i < j => kept[i] < kept[j]
  /\ \A k \in 1 .. m :
       nodes[k].shown /\ Addressable(nodes[k]) => \E j \in 1 .. Len(kept) : kept[j] = k

\* Another node keeps it so.
LEMMA KeptOfNext ==
  ASSUME NEW nodes, NEW m \in Nat, NEW kept, KeptOf(nodes, m, kept)
  PROVE  KeptOf(nodes, m + 1, Kept(nodes, kept, m + 1))
<1> DEFINE new == Kept(nodes, kept, m + 1)
<1>1. kept \in Seq(1 .. m)
  BY DEF KeptOf
<1>2. PICK n \in Nat : n = Len(kept)
  BY <1>1, LenProperties
<1>3. /\ new \in Seq(1 .. m + 1)
      /\ \/ new = kept /\ ~(nodes[m + 1].shown /\ Addressable(nodes[m + 1]))
         \/ /\ nodes[m + 1].shown
            /\ Len(new) = n + 1
            /\ \A j \in 1 .. n : new[j] = kept[j]
            /\ new[n + 1] = m + 1
  <2> HIDE DEF new
  <2>1. \A seq \in Seq(1 .. m) : \A len \in Nat : len = Len(seq) =>
          /\ Kept(nodes, seq, m + 1) \in Seq(1 .. m + 1)
          /\ \/ /\ Kept(nodes, seq, m + 1) = seq
                /\ ~(nodes[m + 1].shown /\ Addressable(nodes[m + 1]))
             \/ /\ nodes[m + 1].shown
                /\ Len(Kept(nodes, seq, m + 1)) = len + 1
                /\ \A j \in 1 .. len : Kept(nodes, seq, m + 1)[j] = seq[j]
                /\ Kept(nodes, seq, m + 1)[len + 1] = m + 1
    BY KeptMeans
  <2> QED
    BY <1>1, <1>2, <2>1 DEF new
<1>4. /\ \A j \in 1 .. n : kept[j] \in 1 .. m /\ nodes[kept[j]].shown
      /\ \A i, j \in 1 .. n : i < j => kept[i] < kept[j]
      /\ \A k \in 1 .. m :
           nodes[k].shown /\ Addressable(nodes[k]) => \E j \in 1 .. n : kept[j] = k
  BY <1>1, <1>2, ElementOfSeq DEF KeptOf
<1>5. \A k \in 1 .. m + 1 : k \in 1 .. m \/ k = m + 1
  OBVIOUS
<1> HIDE DEF new
<1>6. CASE new = kept /\ ~(nodes[m + 1].shown /\ Addressable(nodes[m + 1]))
  BY <1>2, <1>3, <1>4, <1>5, <1>6 DEF KeptOf, new
<1>7. CASE /\ nodes[m + 1].shown
           /\ Len(new) = n + 1
           /\ \A j \in 1 .. n : new[j] = kept[j]
           /\ new[n + 1] = m + 1
  <2>1. \A j \in 1 .. n + 1 : j \in 1 .. n \/ j = n + 1
    OBVIOUS
  <2>2. \A j \in 1 .. n + 1 : nodes[new[j]].shown
    BY <1>4, <1>7, <2>1
  <2>3. ASSUME NEW i \in 1 .. n + 1, NEW j \in 1 .. n + 1, i < j
        PROVE  new[i] < new[j]
    <3>1. i \in 1 .. n /\ new[i] = kept[i] /\ kept[i] \in 1 .. m
      BY <1>4, <1>7, <2>1, <2>3
    <3>2. CASE j \in 1 .. n
      BY <1>4, <1>7, <2>3, <3>1, <3>2
    <3>3. CASE j = n + 1
      BY <1>7, <3>1, <3>3
    <3> QED
      BY <2>1, <3>2, <3>3
  <2>4. ASSUME NEW k \in 1 .. m + 1, nodes[k].shown, Addressable(nodes[k])
        PROVE  \E j \in 1 .. n + 1 : new[j] = k
    <3>1. CASE k \in 1 .. m
      <4>1. PICK j \in 1 .. n : kept[j] = k
        BY <1>4, <2>4, <3>1
      <4>2. j \in 1 .. n + 1 /\ new[j] = k
        BY <1>7, <4>1
      <4> QED
        BY <4>2
    <3>2. CASE k = m + 1
      <4>1. n + 1 \in 1 .. n + 1
        OBVIOUS
      <4> QED
        BY <1>7, <3>2, <4>1
    <3> QED
      BY <1>5, <3>1, <3>2
  <2> QED
    BY <1>3, <1>7, <2>2, <2>3, <2>4 DEF KeptOf, new
<1> QED
  BY <1>3, <1>6, <1>7

\* So it is of all the nodes.
LEMMA SelectedMeans ==
  ASSUME NEW nodes, NEW n \in Nat, n = Len(nodes)
  PROVE  KeptOf(nodes, n, Selected(nodes))
<1>1. PICK kept : /\ kept[0] = <<>>
                  /\ \A k \in 1 .. n : kept[k] = Kept(nodes, kept[k - 1], k)
                  /\ Selected(nodes) = kept[n]
  BY SelectedSteps
<1> DEFINE T == {m \in Nat : m <= n => KeptOf(nodes, m, kept[m])}
<1>2. 0 \in T
  <2>1. <<>> \in Seq(1 .. 0) /\ Len(<<>>) = 0
    BY EmptySeq
  <2>2. KeptOf(nodes, 0, <<>>)
    BY <2>1 DEF KeptOf
  <2> QED
    BY <1>1, <2>2
<1>3. ASSUME NEW m \in T PROVE m + 1 \in T
  <2> SUFFICES ASSUME m + 1 <= n PROVE KeptOf(nodes, m + 1, kept[m + 1])
    OBVIOUS
  <2>1. m \in Nat /\ m <= n /\ m + 1 \in 1 .. n /\ (m + 1) - 1 = m
    BY <1>3
  <2>2. KeptOf(nodes, m, kept[m])
    BY <1>3, <2>1
  <2>3. kept[m + 1] = Kept(nodes, kept[m], m + 1)
    BY <1>1, <2>1
  <2> QED
    BY <2>1, <2>2, <2>3, KeptOfNext
<1>4. T = Nat
  <2> HIDE DEF T
  <2>1. T \in SUBSET Nat
    BY DEF T
  <2> QED
    BY <1>2, <1>3, <2>1, SetInduction
<1>5. KeptOf(nodes, n, kept[n])
  BY <1>4
<1> QED
  BY <1>1, <1>5

-------------------------------------------------------------------------------
(***************************************************************************)
(* What a frame adds.                                                      *)
(***************************************************************************)
\* The tree of a frame is that of a frame of the page, or there is none; that of
\* the main frame is its own when it answers.
LEMMA TreeIsAFrame ==
  ASSUME NEW page, IsPage(page), NEW i \in DOMAIN page
  PROVE  /\ TreeOf(page, i) = 0 \/ TreeOf(page, i) \in DOMAIN page
         /\ 0 \notin DOMAIN page
         /\ i = 1 /\ page[i].answers => TreeOf(page, i) = i
         /\ TreeOf(page, i) # 0 => page[TreeOf(page, i)].url = page[i].url
<1> DEFINE same == Listed(page, i)
           asked == IF i = 1 THEN 1 ELSE IF same = {} THEN 0 ELSE Min(same)
<1>1. DOMAIN page = 1 .. Len(page) /\ Len(page) \in Nat
  BY ListMeans DEF IsPage, IsList
<1>2. same # {} => Min(same) \in DOMAIN page /\ page[Min(same)].url = page[i].url
  <2>1. same \in SUBSET Nat
    BY <1>1 DEF Listed
  <2>2. \A j \in same : j \in DOMAIN page /\ page[j].url = page[i].url
    BY DEF Listed
  <2> HIDE DEF same
  <2> QED
    BY <2>1, <2>2, LeastExists
<1>3. TreeOf(page, i) = IF asked # 0 /\ page[asked].answers THEN asked ELSE 0
  BY DEF TreeOf, Answer
<1> HIDE DEF same
<1> QED
  BY <1>1, <1>2, <1>3

\* An element is read off a node that is shown, in the tree of some frame.
ReadOff(page, i, e) ==
  /\ TreeOf(page, i) # 0
  /\ e.scope = Scope(page, i)
  /\ e.frame = page[i].id
  /\ \E n \in Range(page[TreeOf(page, i)].nodes) :
       /\ n.shown /\ e.node = n.id /\ e.role = n.role
       /\ e.handle = Interactive(n) /\ e.marked = (Interactive(n) /\ n.held)

\* Every control the tree of a frame shows is among some elements.
AllShown(page, i, elements) ==
  TreeOf(page, i) # 0 =>
    \A n \in Range(page[TreeOf(page, i)].nodes) :
      n.shown /\ Addressable(n) =>
        \E e \in Range(elements) : e.node = n.id /\ e.handle /\ ReadOff(page, i, e)

\* What a frame adds is read off its tree, all of it, numbered on.
LEMMA ElementsOfMeans ==
  ASSUME NEW page, IsPage(page), NEW i \in DOMAIN page, NEW refs \in Nat
  PROVE  LET new == ElementsOf(page, i, refs)
         IN /\ IsList(new)
            /\ \A j \in 1 .. Len(new) : new[j].ref = refs + j /\ ReadOff(page, i, new[j])
            /\ \A j, k \in 1 .. Len(new) : new[j].node = new[k].node => j = k
            /\ AllShown(page, i, new)
<1> DEFINE tree == TreeOf(page, i)
           nodes == IF tree = 0 THEN <<>> ELSE page[tree].nodes
           kept == Selected(nodes)
           new == ElementsOf(page, i, refs)
<1>1. tree = 0 \/ tree \in DOMAIN page
  BY TreeIsAFrame
<1>2. IsList(nodes)
  <2>1. CASE tree = 0
    BY <2>1, EmptySeq DEF IsList
  <2>2. CASE tree # 0
    <3>1. page[tree] \in Range(page)
      BY <1>1, <2>2 DEF Range
    <3> QED
      BY <2>2, <3>1 DEF IsPage, IsList
  <2> QED
    BY <2>1, <2>2
<1>3. PICK n \in Nat : n = Len(nodes)
  BY <1>2, ListMeans
<1>4. DOMAIN nodes = 1 .. n /\ Range(nodes) = {nodes[k] : k \in 1 .. n}
  BY <1>2, <1>3, ListMeans
<1>5. KeptOf(nodes, n, kept)
  BY <1>3, SelectedMeans
<1>6. PICK m \in Nat : m = Len(kept)
  BY <1>5, LenProperties DEF KeptOf
<1>7. DOMAIN kept = 1 .. m /\ \A j \in 1 .. m : kept[j] \in 1 .. n
  BY <1>5, <1>6, LenProperties, ElementOfSeq DEF KeptOf
<1>8. new = [j \in 1 .. m |->
               [ref |-> refs + j, role |-> nodes[kept[j]].role,
                name |-> NameOf(nodes[kept[j]], nodes[kept[j]].held /\ tree = i),
                scope |-> Scope(page, i), handle |-> Interactive(nodes[kept[j]]),
                marked |-> Interactive(nodes[kept[j]]) /\ nodes[kept[j]].held,
                frame |-> page[i].id, node |-> nodes[kept[j]].id]]
  BY <1>7 DEF ElementsOf
<1>9. tree = 0 => n = 0 /\ m = 0
  <2>1. ASSUME tree = 0 PROVE n = 0
    BY <1>3, <2>1, EmptySeq
  <2> QED
    BY <1>7, <2>1
<1> HIDE DEF nodes, kept, new
<1>10. DOMAIN new = 1 .. m
  BY <1>8
<1>11. new \in Seq(Range(new)) /\ Len(new) = m
  <2>1. new \in [1 .. m -> Range(new)]
    BY <1>8, <1>10 DEF Range
  <2>2. new \in Seq(Range(new))
    BY <2>1, SeqDef
  <2>3. Len(new) \in Nat /\ 1 .. Len(new) = 1 .. m
    BY <1>10, <2>2, LenProperties
  <2> QED
    BY <2>2, <2>3
<1>12. ASSUME NEW j \in 1 .. m
       PROVE  /\ new[j].ref = refs + j /\ new[j].scope = Scope(page, i)
              /\ new[j].frame = page[i].id /\ new[j].node = nodes[kept[j]].id
              /\ new[j].role = nodes[kept[j]].role
              /\ new[j].handle = Interactive(nodes[kept[j]])
              /\ new[j].marked = (Interactive(nodes[kept[j]]) /\ nodes[kept[j]].held)
              /\ kept[j] \in 1 .. n /\ nodes[kept[j]].shown
              /\ tree # 0 /\ nodes[kept[j]] \in Range(page[tree].nodes)
  <2>1. /\ new[j].ref = refs + j /\ new[j].scope = Scope(page, i)
        /\ new[j].frame = page[i].id /\ new[j].node = nodes[kept[j]].id
        /\ new[j].role = nodes[kept[j]].role
        /\ new[j].handle = Interactive(nodes[kept[j]])
        /\ new[j].marked = (Interactive(nodes[kept[j]]) /\ nodes[kept[j]].held)
    BY <1>8
  <2>2. kept[j] \in 1 .. n /\ nodes[kept[j]].shown
    BY <1>5, <1>6, <1>7 DEF KeptOf
  <2>3. tree # 0
    BY <1>9
  <2>4. nodes[kept[j]] \in Range(page[tree].nodes)
    BY <1>4, <2>2, <2>3 DEF nodes
  <2> QED
    BY <2>1, <2>2, <2>3, <2>4
<1>13. \A j \in 1 .. m : new[j].ref = refs + j /\ ReadOff(page, i, new[j])
  BY <1>12 DEF ReadOff
<1>14. ASSUME NEW j \in 1 .. m, NEW k \in 1 .. m, new[j].node = new[k].node
       PROVE  j = k
  <2>1. /\ kept[j] \in 1 .. n /\ kept[k] \in 1 .. n /\ tree # 0
        /\ nodes[kept[j]].id = nodes[kept[k]].id
    BY <1>12, <1>14
  <2>2. tree \in DOMAIN page /\ nodes = page[tree].nodes
    BY <1>1, <2>1 DEF nodes
  <2>3. kept[j] = kept[k]
    <3>1. \A k1 \in DOMAIN page[tree].nodes, k2 \in DOMAIN page[tree].nodes :
            page[tree].nodes[k1].id = page[tree].nodes[k2].id => <<tree, k1>> = <<tree, k2>>
      BY <2>2 DEF IsPage
    <3>2. kept[j] \in DOMAIN page[tree].nodes /\ kept[k] \in DOMAIN page[tree].nodes
      BY <1>4, <2>1, <2>2
    <3>3. <<tree, kept[j]>> = <<tree, kept[k]>>
      BY <2>1, <2>2, <3>1, <3>2
    <3> QED
      BY <3>3
  <2>4. \A a, b \in 1 .. m : a < b => kept[a] < kept[b]
    BY <1>5, <1>6 DEF KeptOf
  <2>5. ~(kept[j] < kept[k]) /\ ~(kept[k] < kept[j])
    BY <2>1, <2>3
  <2> QED
    BY <2>4, <2>5
<1>15. AllShown(page, i, new)
  <2> SUFFICES ASSUME tree # 0, NEW node \in Range(page[tree].nodes),
                      node.shown, Addressable(node)
               PROVE  \E e \in Range(new) : e.node = node.id /\ e.handle /\ ReadOff(page, i, e)
    BY DEF AllShown
  <2>1. PICK k \in 1 .. n : node = nodes[k]
    BY <1>4 DEF nodes
  <2>2. PICK j \in 1 .. m : kept[j] = k
    BY <1>5, <1>6, <2>1 DEF KeptOf
  <2>3. new[j] \in Range(new) /\ new[j].node = node.id /\ new[j].handle /\ ReadOff(page, i, new[j])
    BY <1>10, <1>12, <1>13, <2>1, <2>2 DEF Range, Addressable
  <2> QED
    BY <2>3
<1> QED
  BY <1>11, <1>13, <1>14, <1>15 DEF new, IsList

-------------------------------------------------------------------------------
(***************************************************************************)
(* What a frame leaves in the page.                                        *)
(***************************************************************************)
\* What stands in a frame of a page stands in the page.
LEMMA IdsOfPage ==
  ASSUME NEW page, NEW i \in DOMAIN page
  PROVE  /\ Ids(page[i]) \subseteq NodesOf(page)
         /\ \A n \in Range(page[i].nodes) : n.id \in Ids(page[i])
<1>1. page[i] \in Range(page)
  BY DEF Range
<1> QED
  BY <1>1 DEF NodesOf, Ids

\* What is read off a frame stands in the page, and in the frame itself when
\* the tree is the frame's own.
LEMMA ReadOffStands ==
  ASSUME NEW page, IsPage(page), NEW i \in DOMAIN page, NEW e, ReadOff(page, i, e)
  PROVE  /\ e.node \in NodesOf(page)
         /\ TreeOf(page, i) \in {0, i} => e.node \in Ids(page[i])
<1>1. TreeOf(page, i) \in DOMAIN page
  BY TreeIsAFrame DEF ReadOff
<1>2. PICK n \in Range(page[TreeOf(page, i)].nodes) : e.node = n.id
  BY DEF ReadOff
<1>3. e.node \in Ids(page[TreeOf(page, i)])
  BY <1>1, <1>2, IdsOfPage
<1>4. e.node \in NodesOf(page)
  BY <1>1, <1>3, IdsOfPage
<1>5. TreeOf(page, i) # 0
  BY DEF ReadOff
<1> QED
  BY <1>3, <1>4, <1>5

\* A node stands in one frame.
LEMMA InOneFrame ==
  ASSUME NEW page, IsPage(page), NEW i \in DOMAIN page, NEW j \in DOMAIN page,
         NEW d, d \in Ids(page[i]), d \in Ids(page[j])
  PROVE  i = j
<1>1. PICK k \in DOMAIN page[i].nodes : page[i].nodes[k].id = d
  BY DEF Ids, Range
<1>2. PICK l \in DOMAIN page[j].nodes : page[j].nodes[l].id = d
  BY DEF Ids, Range
<1>3. <<i, k>> = <<j, l>>
  BY <1>1, <1>2 DEF IsPage
<1> QED
  BY <1>3

\* The i-th frame is passed over: `new` is what it adds, the stamps of the page
\* come from `stamps` to `after`.
PassOver(page, i, refs, D, stamps, new, after) ==
  /\ i \in DOMAIN page /\ refs \in Nat
  /\ NodesOf(page) \subseteq D /\ stamps \in [D -> Nat]
  /\ new = ElementsOf(page, i, refs)
  /\ after = Stamped(Cleared(stamps, page[i]), Marked(new))

\* The elements of a frame get their numbers stamped, all other nodes of the
\* frame lose theirs, and the nodes of other frames keep theirs when the tree
\* is the frame's own.
LEMMA StampedMeans ==
  ASSUME NEW page, IsPage(page), NEW i, NEW refs, NEW D, NEW stamps, NEW new, NEW after,
         PassOver(page, i, refs, D, stamps, new, after)
  PROVE  /\ after \in [D -> Nat]
         /\ \A e \in Range(new) : e.marked => after[e.node] = e.ref
         /\ \A d \in D : after[d] # 0 => stamps[d] # 0 \/ d \in NodesOf(page)
         /\ \A d \in Ids(page[i]) :
              after[d] # 0 => \E e \in Range(new) : e.marked /\ e.node = d
         /\ TreeOf(page, i) \in {0, i} => \A d \in D \ Ids(page[i]) : after[d] = stamps[d]
<1> DEFINE cleared == Cleared(stamps, page[i])
           marked == Marked(new)
<1> USE DEF PassOver
<1>1. /\ IsList(new)
      /\ \A j \in 1 .. Len(new) : new[j].ref = refs + j /\ ReadOff(page, i, new[j])
      /\ \A j, k \in 1 .. Len(new) : new[j].node = new[k].node => j = k
  BY ElementsOfMeans
<1>2. Len(new) \in Nat /\ Range(new) = {new[j] : j \in 1 .. Len(new)}
  BY <1>1, ListMeans
<1>3. \A e \in Range(new) : e.ref \in Nat /\ ReadOff(page, i, e)
  BY <1>1, <1>2
<1>4. \A e, f \in Range(new) : e.node = f.node => e = f
  BY <1>1, <1>2
<1>5. marked = {e \in Range(new) : e.marked}
  BY DEF Marked
<1>6. /\ cleared \in [D -> Nat]
      /\ \A d \in D : cleared[d] = IF d \in Ids(page[i]) THEN 0 ELSE stamps[d]
  BY DEF Cleared, NoRef
<1> HIDE DEF cleared, marked
<1>7. after = [d \in D |-> IF \E e \in marked : e.node = d
                           THEN (CHOOSE e \in marked : e.node = d).ref
                           ELSE cleared[d]]
  BY <1>6 DEF Stamped, cleared, marked
<1>8. ASSUME NEW e \in marked
      PROVE  e.node \in D /\ after[e.node] = e.ref
  <2>1. e.node \in NodesOf(page)
    BY <1>3, <1>5, ReadOffStands
  <2>2. (CHOOSE f \in marked : f.node = e.node) = e
    BY <1>4, <1>5
  <2> QED
    BY <1>7, <2>1, <2>2
<1>9. ASSUME NEW d \in D, ~\E e \in marked : e.node = d
      PROVE  after[d] = cleared[d]
  BY <1>7, <1>9
<1>10. ASSUME NEW d \in D PROVE after[d] \in Nat
  <2>1. CASE \E e \in marked : e.node = d
    BY <1>3, <1>5, <1>8, <2>1
  <2>2. CASE ~\E e \in marked : e.node = d
    BY <1>6, <1>9, <2>2
  <2> QED
    BY <2>1, <2>2
<1>11. after \in [D -> Nat]
  BY <1>7, <1>10
<1>12. \A e \in Range(new) : e.marked => after[e.node] = e.ref
  BY <1>5, <1>8
<1>13. ASSUME NEW d \in D, after[d] # 0, stamps[d] = 0 PROVE d \in NodesOf(page)
  <2>1. PICK e \in marked : e.node = d
    BY <1>6, <1>9, <1>13
  <2> QED
    BY <1>3, <1>5, <2>1, ReadOffStands
<1>14. ASSUME NEW d \in Ids(page[i]), after[d] # 0
       PROVE  \E e \in Range(new) : e.marked /\ e.node = d
  <2>1. d \in D
    BY IdsOfPage
  <2> QED
    BY <1>5, <1>6, <1>9, <1>14, <2>1
<1>15. ASSUME TreeOf(page, i) \in {0, i}, NEW d \in D \ Ids(page[i])
       PROVE  after[d] = stamps[d]
  <2>1. \A e \in marked : e.node \in Ids(page[i])
    BY <1>3, <1>5, <1>15, ReadOffStands
  <2> QED
    BY <1>6, <1>9, <2>1
<1> QED
  BY <1>11, <1>12, <1>13, <1>14, <1>15

-------------------------------------------------------------------------------
(***************************************************************************)
(* What perceive returns.                                                  *)
(***************************************************************************)
\* Each frame that is queried is answered with its own tree.
OwnTrees(page) == \A i \in DOMAIN page : TreeOf(page, i) \in {0, i}

\* The elements of the first m frames: numbered by their places, each read off
\* one of those frames, and every control those frames show among them.
ElementsOfFrames(page, m, elements) ==
  /\ IsList(elements)
  /\ \A k \in 1 .. Len(elements) :
       elements[k].ref = k /\ \E i \in 1 .. m : ReadOff(page, i, elements[k])
  /\ \A i \in 1 .. m : AllShown(page, i, elements)

\* The page carries the numbers of the elements whose node could be
\* stamped, and in the first m frames no others.
StampsOfFrames(page, m, elements, stamps) ==
  OwnTrees(page) =>
    /\ \A e \in Range(elements) : e.marked => stamps[e.node] = e.ref
    /\ \A i \in 1 .. m : \A d \in Ids(page[i]) :
         stamps[d] # 0 => \E e \in Range(elements) : e.marked /\ e.node = d

\* Only nodes of the page carry numbers.
OnThePage(page, stamps) == \A d \in DOMAIN stamps : stamps[d] # 0 => d \in NodesOf(page)

\* What is known after m frames.
SeenOf(page, m, D, seen) ==
  /\ ElementsOfFrames(page, m, seen.elements)
  /\ seen.refs = Len(seen.elements)
  /\ seen.empty = {} => \A i \in 1 .. m : i # 1 => TreeOf(page, i) # 0
  /\ seen.stamps \in [D -> Nat]
  /\ OnThePage(page, seen.stamps)
  /\ StampsOfFrames(page, m, seen.elements, seen.stamps)

\* The i-th frame adds the elements `new` to those of the m frames before it.
Adds(page, m, i, elements, refs, new) ==
  /\ m \in Nat /\ i \in DOMAIN page /\ i = m + 1
  /\ ElementsOfFrames(page, m, elements)
  /\ refs \in Nat /\ refs = Len(elements)
  /\ new = ElementsOf(page, i, refs)

\* One more frame adds its elements to those before it.
LEMMA ElementsNext ==
  ASSUME NEW page, IsPage(page), NEW m, NEW i, NEW elements, NEW refs, NEW new,
         Adds(page, m, i, elements, refs, new)
  PROVE  /\ ElementsOfFrames(page, i, elements \o new)
         /\ Len(elements \o new) = refs + Len(new)
         /\ Range(elements \o new) = Range(elements) \cup Range(new)
<1> DEFINE all == elements \o new
<1> m \in Nat /\ i \in DOMAIN page /\ i = m + 1 /\ refs \in Nat /\ refs = Len(elements)
  BY DEF Adds
<1>0. ElementsOfFrames(page, m, elements) /\ new = ElementsOf(page, i, refs)
  BY DEF Adds
<1>1. /\ IsList(new)
      /\ \A j \in 1 .. Len(new) : new[j].ref = refs + j /\ ReadOff(page, i, new[j])
      /\ AllShown(page, i, new)
  BY <1>0, ElementsOfMeans
<1>2. IsList(elements)
  BY <1>0 DEF ElementsOfFrames
<1>3. PICK n \in Nat : n = Len(new)
  BY <1>1, ListMeans
<1>4. /\ IsList(all) /\ Len(all) = refs + n
      /\ \A k \in 1 .. refs : all[k] = elements[k]
      /\ \A k \in 1 .. n : all[refs + k] = new[k]
      /\ Range(all) = Range(elements) \cup Range(new)
  BY <1>1, <1>2, <1>3, Concatenated
<1> HIDE DEF all
<1>5. ASSUME NEW k \in 1 .. refs + n
      PROVE  all[k].ref = k /\ \E j \in 1 .. i : ReadOff(page, j, all[k])
  <2>1. CASE k \in 1 .. refs
    <3>1. PICK j \in 1 .. m : elements[k].ref = k /\ ReadOff(page, j, elements[k])
      BY <1>0, <2>1 DEF ElementsOfFrames
    <3>2. j \in 1 .. i
      OBVIOUS
    <3> QED
      BY <1>4, <2>1, <3>1, <3>2
  <2>2. CASE k \notin 1 .. refs
    <3>1. k - refs \in 1 .. n /\ refs + (k - refs) = k
      BY <2>2
    <3>2. all[k] = new[k - refs]
      BY <1>4, <3>1
    <3>3. all[k].ref = k /\ ReadOff(page, i, all[k])
      BY <1>1, <1>3, <3>1, <3>2
    <3>4. i \in 1 .. i
      OBVIOUS
    <3> QED
      BY <3>3, <3>4
  <2> QED
    BY <2>1, <2>2
<1>6. ASSUME NEW j \in 1 .. i PROVE AllShown(page, j, all)
  <2>1. CASE j \in 1 .. m
    <3>1. AllShown(page, j, elements)
      BY <1>0, <2>1 DEF ElementsOfFrames
    <3> QED
      BY <1>4, <3>1 DEF AllShown
  <2>2. CASE j = i
    BY <1>1, <1>4, <2>2 DEF AllShown
  <2> QED
    BY <2>1, <2>2
<1> QED
  BY <1>3, <1>4, <1>5, <1>6 DEF ElementsOfFrames, all

\* One more frame takes nothing from the numbers of the frames before it.
LEMMA StampsNext ==
  ASSUME NEW page, IsPage(page), OwnTrees(page), NEW m \in Nat, NEW i \in DOMAIN page, i = m + 1,
         NEW elements, ElementsOfFrames(page, m, elements),
         NEW stamps, StampsOfFrames(page, m, elements, stamps),
         NEW refs, NEW D, NEW new, NEW after, PassOver(page, i, refs, D, stamps, new, after),
         NEW all, Range(all) = Range(elements) \cup Range(new)
  PROVE  StampsOfFrames(page, i, all, after)
<1>1. /\ \A e \in Range(new) : e.marked => after[e.node] = e.ref
      /\ \A d \in Ids(page[i]) :
           after[d] # 0 => \E e \in Range(new) : e.marked /\ e.node = d
      /\ \A d \in D \ Ids(page[i]) : after[d] = stamps[d]
  <2>1. TreeOf(page, i) \in {0, i}
    BY DEF OwnTrees
  <2>2. \A e \in Range(new) : e.marked => after[e.node] = e.ref
    BY StampedMeans
  <2>3. \A d \in Ids(page[i]) :
          after[d] # 0 => \E e \in Range(new) : e.marked /\ e.node = d
    BY StampedMeans
  <2>4. \A d \in D \ Ids(page[i]) : after[d] = stamps[d]
    BY <2>1, StampedMeans
  <2> QED
    BY <2>2, <2>3, <2>4
<1>2. /\ \A e \in Range(elements) : e.marked => stamps[e.node] = e.ref
      /\ \A j \in 1 .. m : \A d \in Ids(page[j]) :
           stamps[d] # 0 => \E e \in Range(elements) : e.marked /\ e.node = d
  BY DEF StampsOfFrames
<1>3. \A j \in 1 .. m : j \in DOMAIN page /\ j # i
  BY ListMeans DEF IsPage, IsList
<1>4. ASSUME NEW j \in 1 .. m, NEW d \in Ids(page[j])
      PROVE  d \in D /\ after[d] = stamps[d]
  <2>1. d \notin Ids(page[i])
    BY <1>3, InOneFrame
  <2>2. d \in D
    BY <1>3, IdsOfPage DEF PassOver
  <2> QED
    BY <1>1, <2>1, <2>2
<1>5. ASSUME NEW e \in Range(all), e.marked PROVE after[e.node] = e.ref
  <2>1. CASE e \in Range(new)
    BY <1>1, <1>5, <2>1
  <2>2. CASE e \in Range(elements)
    <3>1. PICK k \in 1 .. Len(elements) : e = elements[k]
      BY <2>2, ListMeans DEF ElementsOfFrames
    <3>2. PICK j \in 1 .. m : ReadOff(page, j, e)
      BY <3>1 DEF ElementsOfFrames
    <3>3. e.node \in Ids(page[j])
      BY <1>3, <3>2, ReadOffStands DEF OwnTrees
    <3> QED
      BY <1>2, <1>4, <1>5, <2>2, <3>3
  <2> QED
    BY <2>1, <2>2
<1>6. ASSUME NEW j \in 1 .. i, NEW d \in Ids(page[j]), after[d] # 0
      PROVE  \E e \in Range(all) : e.marked /\ e.node = d
  <2>1. CASE j \in 1 .. m
    <3>1. stamps[d] # 0
      BY <1>4, <1>6, <2>1
    <3> QED
      BY <1>2, <2>1, <3>1
  <2>2. CASE j = i
    BY <1>1, <1>6, <2>2
  <2> QED
    BY <2>1, <2>2
<1> QED
  BY <1>5, <1>6 DEF StampsOfFrames

\* So what is known after m frames is known after one more.
LEMMA SeenNext ==
  ASSUME NEW page, IsPage(page), NEW m \in Nat, NEW i \in DOMAIN page, i = m + 1,
         NEW D, NodesOf(page) \subseteq D, NEW seen, SeenOf(page, m, D, seen)
  PROVE  SeenOf(page, i, D, PerceiveFrame(page, seen, i))
<1> DEFINE refs == seen.refs
           new == ElementsOf(page, i, refs)
           after == Stamped(Cleared(seen.stamps, page[i]), Marked(new))
           all == seen.elements \o new
           next == PerceiveFrame(page, seen, i)
<1>1. /\ ElementsOfFrames(page, m, seen.elements) /\ refs = Len(seen.elements)
      /\ seen.stamps \in [D -> Nat] /\ OnThePage(page, seen.stamps)
      /\ StampsOfFrames(page, m, seen.elements, seen.stamps)
      /\ seen.empty = {} => \A j \in 1 .. m : j # 1 => TreeOf(page, j) # 0
  BY DEF SeenOf
<1>2. refs \in Nat
  BY <1>1, ListMeans DEF ElementsOfFrames
<1>3. /\ next.elements = all /\ next.refs = refs + Len(new) /\ next.stamps = after
      /\ next.empty = IF i # 1 /\ Acting(new) = {}
                      THEN seen.empty \cup {Scope(page, i)} ELSE seen.empty
  BY DEF PerceiveFrame
<1> HIDE DEF next, new, after, all, refs
<1>4. /\ ElementsOfFrames(page, i, all)
      /\ Len(all) = refs + Len(new)
      /\ Range(all) = Range(seen.elements) \cup Range(new)
      /\ PassOver(page, i, refs, D, seen.stamps, new, after)
  <2>1. new = ElementsOf(page, i, refs) /\ all = seen.elements \o new
    BY DEF new, all
  <2>2. PassOver(page, i, refs, D, seen.stamps, new, after)
    BY <1>1, <1>2 DEF new, after, PassOver
  <2>3. Adds(page, m, i, seen.elements, refs, new)
    BY <1>1, <1>2, <2>1 DEF Adds
  <2>4. /\ ElementsOfFrames(page, i, seen.elements \o new)
        /\ Len(seen.elements \o new) = refs + Len(new)
        /\ Range(seen.elements \o new) = Range(seen.elements) \cup Range(new)
    BY <2>3, ElementsNext
  <2> QED
    BY <2>1, <2>2, <2>4
<1>5. /\ after \in [D -> Nat]
      /\ \A d \in D : after[d] # 0 => seen.stamps[d] # 0 \/ d \in NodesOf(page)
  BY <1>4, StampedMeans
<1>6. OnThePage(page, after)
  <2>1. DOMAIN after = D /\ DOMAIN seen.stamps = D
    BY <1>1, <1>5
  <2> QED
    BY <1>1, <1>5, <2>1 DEF OnThePage
<1>7. StampsOfFrames(page, i, all, after)
  <2>1. CASE OwnTrees(page)
    BY <1>1, <1>4, <2>1, StampsNext
  <2>2. CASE ~OwnTrees(page)
    BY <2>2 DEF StampsOfFrames
  <2> QED
    BY <2>1, <2>2
<1>8. ASSUME next.empty = {}, NEW j \in 1 .. i, j # 1 PROVE TreeOf(page, j) # 0
  <2>1. seen.empty = {} /\ ~(i # 1 /\ Acting(new) = {})
    BY <1>3, <1>8
  <2>2. CASE j \in 1 .. m
    BY <1>1, <1>8, <2>1, <2>2
  <2>3. CASE j = i
    <3>1. PICK e \in Range(new) : e.handle
      BY <1>8, <2>1, <2>3 DEF Acting
    <3>2. IsList(new) /\ \A k \in 1 .. Len(new) : ReadOff(page, i, new[k])
      BY <1>2, ElementsOfMeans DEF new
    <3>3. ReadOff(page, i, e)
      BY <3>1, <3>2, ListMeans
    <3> QED
      BY <2>3, <3>3 DEF ReadOff
  <2> QED
    BY <2>2, <2>3
<1> QED
  BY <1>3, <1>4, <1>5, <1>6, <1>7, <1>8 DEF SeenOf, next

\* What a frame adds does not depend on the numbers there are.
LEMMA FrameAdds ==
  ASSUME NEW page, NEW seen, NEW i
  PROVE  LET new == ElementsOf(page, i, seen.refs)
         IN /\ PerceiveFrame(page, seen, i).elements = seen.elements \o new
            /\ PerceiveFrame(page, seen, i).refs = seen.refs + Len(new)
  BY DEF PerceiveFrame

Nothing(stamps) == [elements |-> <<>>, refs |-> 0, empty |-> {}, stamps |-> stamps]

\* The recursion of Perceived goes from frame to frame.
LEMMA PerceivedSteps ==
  ASSUME NEW page, NEW stamps, NEW n \in Nat, n = Len(page)
  PROVE  \E seen : /\ seen[0] = Nothing(stamps)
                   /\ \A i \in 1 .. n : seen[i] = PerceiveFrame(page, seen[i - 1], i)
                   /\ Perceived(page, stamps) = seen[n]
<1> DEFINE first == [elements |-> <<>>, refs |-> 0, empty |-> {}, stamps |-> stamps]
           Def(g, m) ==
             g = [i \in 0 .. m |-> IF i = 0 THEN first ELSE PerceiveFrame(page, g[i - 1], i)]
           T == {m \in Nat : \E g : Def(g, m)}
<1>1. 0 \in T
  <2> HIDE DEF first
  <2> DEFINE g == [i \in 0 .. 0 |-> first]
  <2>1. Def(g, 0)
    OBVIOUS
  <2> QED
    BY <2>1
<1>2. ASSUME NEW m \in T PROVE m + 1 \in T
  <2> HIDE DEF first
  <2>1. PICK g : Def(g, m)
    BY <1>2
  <2> DEFINE h == [i \in 0 .. m + 1 |->
                     IF i = m + 1 THEN PerceiveFrame(page, g[m], m + 1) ELSE g[i]]
  <2>2. \A i \in 0 .. m + 1 : h[i] = IF i = 0 THEN first ELSE PerceiveFrame(page, h[i - 1], i)
    <3>1. \A i \in 0 .. m : g[i] = IF i = 0 THEN first ELSE PerceiveFrame(page, g[i - 1], i)
      BY <2>1
    <3>2. \A i \in 0 .. m : h[i] = g[i]
      OBVIOUS
    <3>3. h[m + 1] = PerceiveFrame(page, h[m], m + 1)
      OBVIOUS
    <3> HIDE DEF h
    <3>4. ASSUME NEW i \in 0 .. m
          PROVE  h[i] = IF i = 0 THEN first ELSE PerceiveFrame(page, h[i - 1], i)
      <4>1. CASE i = 0
        BY <3>1, <3>2, <4>1
      <4>2. CASE i # 0
        <5>1. i - 1 \in 0 .. m
          BY <4>2
        <5>2. h[i] = PerceiveFrame(page, g[i - 1], i)
          BY <3>1, <3>2, <4>2
        <5> QED
          BY <3>2, <4>2, <5>1, <5>2
      <4> QED
        BY <4>1, <4>2
    <3>5. ASSUME NEW i \in 0 .. m + 1, i = m + 1
          PROVE  h[i] = IF i = 0 THEN first ELSE PerceiveFrame(page, h[i - 1], i)
      <4>1. i # 0 /\ i - 1 = m
        BY <3>5
      <4> QED
        BY <3>3, <3>5, <4>1
    <3> QED
      <4>1. \A i \in 0 .. m + 1 : i \in 0 .. m \/ i = m + 1
        OBVIOUS
      <4> QED
        BY <3>4, <3>5, <4>1
  <2>3. Def(h, m + 1)
    <3>1. h = [i \in 0 .. m + 1 |-> h[i]]
      OBVIOUS
    <3> HIDE DEF h
    <3> QED
      BY <2>2, <3>1
  <2>4. \E f : Def(f, m + 1)
    BY <2>3
  <2> HIDE DEF Def
  <2> QED
    BY <2>4
<1>3. T = Nat
  <2> HIDE DEF T
  <2>1. T \in SUBSET Nat
    BY DEF T
  <2> QED
    BY <1>1, <1>2, <2>1, SetInduction
<1>4. \E g : Def(g, n)
  BY <1>3
<1> DEFINE seen == CHOOSE g : Def(g, n)
<1>5. Def(seen, n)
  BY <1>4
<1>6. Perceived(page, stamps) = seen[n]
  BY DEF Perceived
<1> HIDE DEF seen
<1>7. seen[0] = first /\ \A i \in 1 .. n : seen[i] = PerceiveFrame(page, seen[i - 1], i)
  <2> HIDE DEF first
  <2>1. \A i \in 0 .. n : seen[i] = IF i = 0 THEN first ELSE PerceiveFrame(page, seen[i - 1], i)
    BY <1>5
  <2> HIDE DEF Def
  <2> QED
    BY <2>1
<1> QED
  BY <1>6, <1>7 DEF Nothing

\* The elements come frame by frame.
InOrder(page, m, elements) ==
  \E at \in [1 .. Len(elements) -> 1 .. m] :
    /\ \A k \in 1 .. Len(elements) : elements[k].scope = Scope(page, at[k])
    /\ \A j, k \in 1 .. Len(elements) : j <= k => at[j] <= at[k]

\* One more frame comes after those before it.
LEMMA InOrderNext ==
  ASSUME NEW page, IsPage(page), NEW m \in Nat, NEW i \in DOMAIN page, i = m + 1,
         NEW elements, ElementsOfFrames(page, m, elements), InOrder(page, m, elements),
         NEW refs \in Nat, refs = Len(elements),
         NEW new, new = ElementsOf(page, i, refs)
  PROVE  InOrder(page, i, elements \o new)
<1> DEFINE all == elements \o new
<1>1. IsList(new) /\ \A j \in 1 .. Len(new) : new[j].scope = Scope(page, i)
  BY ElementsOfMeans DEF ReadOff
<1>2. PICK n \in Nat : n = Len(new)
  BY <1>1, ListMeans
<1>3. /\ Len(all) = refs + n
      /\ \A k \in 1 .. refs : all[k] = elements[k]
      /\ \A k \in 1 .. n : all[refs + k] = new[k]
  BY <1>1, <1>2, Concatenated DEF ElementsOfFrames
<1>4. PICK at \in [1 .. refs -> 1 .. m] :
        /\ \A k \in 1 .. refs : elements[k].scope = Scope(page, at[k])
        /\ \A j, k \in 1 .. refs : j <= k => at[j] <= at[k]
  BY DEF InOrder
<1> DEFINE to == [k \in 1 .. refs + n |-> IF k \in 1 .. refs THEN at[k] ELSE i]
<1> HIDE DEF all
<1>5. to \in [1 .. refs + n -> 1 .. i]
  <2>1. \A k \in 1 .. refs : at[k] \in 1 .. i
    OBVIOUS
  <2>2. i \in 1 .. i
    OBVIOUS
  <2> QED
    BY <2>1, <2>2
<1>6. ASSUME NEW k \in 1 .. refs + n PROVE all[k].scope = Scope(page, to[k])
  <2>1. CASE k \in 1 .. refs
    BY <1>3, <1>4, <2>1
  <2>2. CASE k \notin 1 .. refs
    <3>1. k - refs \in 1 .. n /\ refs + (k - refs) = k
      BY <2>2
    <3>2. all[k] = new[k - refs]
      BY <1>3, <3>1
    <3>3. to[k] = i
      BY <2>2
    <3> QED
      BY <1>1, <1>2, <3>1, <3>2, <3>3
  <2> QED
    BY <2>1, <2>2
<1>7. ASSUME NEW j \in 1 .. refs + n, NEW k \in 1 .. refs + n, j <= k
      PROVE  to[j] <= to[k]
  <2>1. CASE k \in 1 .. refs
    BY <1>4, <1>7, <2>1
  <2>2. CASE k \notin 1 .. refs
    <3>1. to[k] = i /\ to[j] \in 1 .. i
      BY <1>5, <2>2
    <3> HIDE DEF to
    <3> QED
      BY <3>1
  <2> QED
    BY <2>1, <2>2
<1> HIDE DEF to
<1>8. InOrder(page, i, all)
  BY <1>3, <1>5, <1>6, <1>7 DEF InOrder
<1> QED
  BY <1>8 DEF all

\* For any page, whatever numbers its nodes carry, perceive returns elements
\* numbered by their places and frame by frame, each read off a node that a
\* frame shows, every control among them that a tree shows and the document has
\* a node for, and no good report for a child frame without a tree; and it
\* leaves the page with the numbers of those elements whose nodes it could stamp
\* and, on its own nodes, no others.  (perceive,
\* _perceive_frame)
THEOREM PerceiveReturns ==
  ASSUME NEW page, IsPage(page), NEW D, NodesOf(page) \subseteq D,
         NEW stamps \in [D -> Nat], OnThePage(page, stamps)
  PROVE  /\ SeenOf(page, Len(page), D, Perceived(page, stamps))
         /\ InOrder(page, Len(page), Perceived(page, stamps).elements)
<1>1. PICK n \in Nat : n = Len(page) /\ DOMAIN page = 1 .. n
  BY ListMeans DEF IsPage, IsList
<1>2. PICK seen : /\ seen[0] = Nothing(stamps)
                  /\ \A i \in 1 .. n : seen[i] = PerceiveFrame(page, seen[i - 1], i)
                  /\ Perceived(page, stamps) = seen[n]
  BY <1>1, PerceivedSteps
<1> DEFINE T == {m \in Nat : m <= n => /\ SeenOf(page, m, D, seen[m])
                                      /\ InOrder(page, m, seen[m].elements)}
<1>3. 0 \in T
  <2>1. /\ seen[0].elements = <<>> /\ seen[0].refs = 0 /\ seen[0].stamps = stamps
    BY <1>2 DEF Nothing
  <2>2. <<>> \in Seq({}) /\ Len(<<>>) = 0 /\ Range(<<>>) = {}
    BY EmptySeq DEF Range
  <2>3. ElementsOfFrames(page, 0, <<>>)
    BY <2>2 DEF ElementsOfFrames, IsList
  <2>4. StampsOfFrames(page, 0, <<>>, stamps)
    BY <2>2 DEF StampsOfFrames
  <2>5. InOrder(page, 0, <<>>)
    <3>1. <<>> \in [1 .. 0 -> 1 .. 0]
      BY EmptySeq, SeqDef
    <3>2. 1 .. Len(<<>>) = 1 .. 0 /\ \A k \in 1 .. 0 : FALSE
      BY <2>2
    <3> QED
      BY <3>1, <3>2 DEF InOrder
  <2>6. SeenOf(page, 0, D, seen[0]) /\ InOrder(page, 0, seen[0].elements)
    BY <2>1, <2>2, <2>3, <2>4, <2>5 DEF SeenOf
  <2> QED
    BY <2>6
<1>4. ASSUME NEW m \in T PROVE m + 1 \in T
  <2> SUFFICES ASSUME m + 1 <= n
               PROVE  /\ SeenOf(page, m + 1, D, seen[m + 1])
                      /\ InOrder(page, m + 1, seen[m + 1].elements)
    OBVIOUS
  <2>1. m \in Nat /\ m <= n /\ m + 1 \in 1 .. n /\ (m + 1) - 1 = m
    BY <1>4
  <2>2. SeenOf(page, m, D, seen[m]) /\ InOrder(page, m, seen[m].elements)
    BY <1>4, <2>1
  <2>3. PICK i \in DOMAIN page : i = m + 1
    BY <1>1, <2>1
  <2>4. seen[i] = PerceiveFrame(page, seen[m], i)
    BY <1>2, <2>1, <2>3
  <2>5. SeenOf(page, i, D, seen[i])
    BY <2>1, <2>2, <2>3, <2>4, SeenNext
  <2>6. InOrder(page, i, seen[i].elements)
    <3>1. PICK refs \in Nat : refs = seen[m].refs /\ refs = Len(seen[m].elements)
      BY <2>2, ListMeans DEF SeenOf, ElementsOfFrames
    <3>2. PICK new : new = ElementsOf(page, i, refs)
      OBVIOUS
    <3>3. seen[i].elements = seen[m].elements \o new
      <4>1. PerceiveFrame(page, seen[m], i).elements =
              seen[m].elements \o ElementsOf(page, i, seen[m].refs)
        BY FrameAdds
      <4> QED
        BY <2>4, <3>1, <3>2, <4>1
    <3>4. ElementsOfFrames(page, m, seen[m].elements)
      BY <2>2 DEF SeenOf
    <3>5. InOrder(page, i, seen[m].elements \o new)
      BY <2>1, <2>2, <2>3, <3>1, <3>2, <3>4, InOrderNext
    <3> QED
      BY <3>3, <3>5
  <2> QED
    BY <2>3, <2>5, <2>6
<1>5. T = Nat
  <2> HIDE DEF T
  <2>1. T \in SUBSET Nat
    BY DEF T
  <2> QED
    BY <1>3, <1>4, <2>1, SetInduction
<1>6. SeenOf(page, n, D, seen[n]) /\ InOrder(page, n, seen[n].elements)
  BY <1>5
<1> QED
  BY <1>1, <1>2, <1>6

\* What elements a page has does not depend on the numbers it carries: two
\* passes over the same page see the same.
THEOREM PassesSeeTheSame ==
  ASSUME NEW page, IsPage(page), NEW before, NEW later
  PROVE  Perceived(page, before).elements = Perceived(page, later).elements
<1>1. PICK n \in Nat : n = Len(page)
  BY ListMeans DEF IsPage, IsList
<1>2. PICK f : /\ f[0] = Nothing(before)
               /\ \A i \in 1 .. n : f[i] = PerceiveFrame(page, f[i - 1], i)
               /\ Perceived(page, before) = f[n]
  BY <1>1, PerceivedSteps
<1>3. PICK g : /\ g[0] = Nothing(later)
               /\ \A i \in 1 .. n : g[i] = PerceiveFrame(page, g[i - 1], i)
               /\ Perceived(page, later) = g[n]
  BY <1>1, PerceivedSteps
<1> DEFINE T == {m \in Nat : m <= n => f[m].elements = g[m].elements /\ f[m].refs = g[m].refs}
<1>4. 0 \in T
  BY <1>2, <1>3 DEF Nothing
<1>5. ASSUME NEW m \in T PROVE m + 1 \in T
  <2> SUFFICES ASSUME m + 1 <= n
               PROVE  /\ f[m + 1].elements = g[m + 1].elements
                      /\ f[m + 1].refs = g[m + 1].refs
    OBVIOUS
  <2>1. m \in Nat /\ m <= n /\ m + 1 \in 1 .. n /\ (m + 1) - 1 = m
    BY <1>5
  <2>2. f[m].elements = g[m].elements /\ f[m].refs = g[m].refs
    BY <1>5, <2>1
  <2>3. /\ f[m + 1] = PerceiveFrame(page, f[m], m + 1)
        /\ g[m + 1] = PerceiveFrame(page, g[m], m + 1)
    BY <1>2, <1>3, <2>1
  <2>4. \A seen : /\ PerceiveFrame(page, seen, m + 1).elements =
                      seen.elements \o ElementsOf(page, m + 1, seen.refs)
                 /\ PerceiveFrame(page, seen, m + 1).refs =
                      seen.refs + Len(ElementsOf(page, m + 1, seen.refs))
    BY FrameAdds
  <2>5. /\ f[m + 1].elements = f[m].elements \o ElementsOf(page, m + 1, f[m].refs)
        /\ f[m + 1].refs = f[m].refs + Len(ElementsOf(page, m + 1, f[m].refs))
    BY <2>3, <2>4
  <2>6. /\ g[m + 1].elements = g[m].elements \o ElementsOf(page, m + 1, g[m].refs)
        /\ g[m + 1].refs = g[m].refs + Len(ElementsOf(page, m + 1, g[m].refs))
    BY <2>3, <2>4
  <2> QED
    BY <2>2, <2>5, <2>6
<1>6. T = Nat
  <2> HIDE DEF T
  <2>1. T \in SUBSET Nat
    BY DEF T
  <2> QED
    BY <1>4, <1>5, <2>1, SetInduction
<1>7. f[n].elements = g[n].elements
  BY <1>6
<1> QED
  BY <1>2, <1>3, <1>7

===============================================================================

------------------------------ MODULE Perception ------------------------------
(***************************************************************************)
(* What the web surface makes of a live page (src/surface/                 *)
(* web_perception.py): frames are paired with accessibility trees, nodes   *)
(* become numbered elements, and the numbers are stamped into the page so  *)
(* that an element can be found again.                                     *)
(*                                                                         *)
(* A page is a sequence of frames, the main one first, as Page.frames has  *)
(* them; a frame has its nodes in document order, and a tree that answers  *)
(* when it is read or does not.  A node has the text of the accessibility  *)
(* tree, the label the document gives it otherwise, its parent's position  *)
(* (0 for none), whether the tree shows it, whether the document has a     *)
(* node for it, and whether that node is still there to be stamped.        *)
(***************************************************************************)
EXTENDS Naturals, Sequences, FiniteSetsExt

CONSTANTS
  MaxReadable,      \* MAX_READABLE_ELEMENTS
  MinInteractive,   \* min_interactive_elements
  UnnamedTenths,    \* max_unnamed_ratio, in tenths
  Short,            \* texts shorter than MIN_READABLE_LENGTH
  Normal            \* text -> what _normalise makes of it

ASSUME BoundsAssumption ==
  /\ MaxReadable \in Nat /\ MinInteractive \in Nat /\ UnnamedTenths \in 0 .. 10

INTERACTIVE_ROLES ==
  {"button", "checkbox", "combobox", "link", "listbox", "menuitem", "menuitemcheckbox",
   "menuitemradio", "option", "radio", "searchbox", "slider", "spinbutton", "switch",
   "tab", "textbox"}
READABLE_ROLES == {"StaticText", "heading"}

NoName == ""
NoRef == 0

Ids(frame) == {n.id : n \in Range(frame.nodes)}
NodesOf(page) == UNION {Ids(f) : f \in Range(page)}

\* A node is in one place of one frame.
IsPage(page) ==
  /\ page \in Seq(Range(page))
  /\ \A f \in Range(page) : f.nodes \in Seq(Range(f.nodes))
  /\ \A i, j \in DOMAIN page : \A k \in DOMAIN page[i].nodes, l \in DOMAIN page[j].nodes :
       page[i].nodes[k].id = page[j].nodes[l].id => <<i, k>> = <<j, l>>

(***************************************************************************)
(* Frames                                                                  *)
(***************************************************************************)
Listed(page, i) == {j \in DOMAIN page : page[j].listed /\ page[j].url = page[i].url}
Answer(page, asked) == IF asked # 0 /\ page[asked].answers THEN asked ELSE 0

\* A mutant: a frame without a tree is queried all the same, which answers
\* with the main one.
TreeOfOrMain(page, i) ==
  Answer(page, IF i = 1 \/ Listed(page, i) = {} THEN 1 ELSE Min(Listed(page, i)))

\* The frame whose tree is read for frame i: the first that the frame tree
\* lists under the same URL; 0 when it lists none, or when the tree cannot be
\* read, the main frame's as well.
TreeOf(page, i) ==
  Answer(page, IF i = 1 THEN 1 ELSE IF Listed(page, i) = {} THEN 0 ELSE Min(Listed(page, i)))

\* A frame goes by its name, or by its position when it has none.
Scope(page, i) ==
  IF i = 1 THEN <<"main", 0, NoName>>
  ELSE IF page[i].name # NoName THEN <<"frame", 0, page[i].name>>
  ELSE <<"frame", i - 1, NoName>>

(***************************************************************************)
(* Which nodes of a tree become elements                                   *)
(***************************************************************************)
Interactive(n) == n.role \in INTERACTIVE_ROLES
Readable(n) == n.role \in READABLE_ROLES

\* A control the document has a node for.
Addressable(n) == Interactive(n) /\ n.backed

\* The nearest ancestor that has become an element, 0 for none.
NearestKept(nodes, kept, k) ==
  LET up[j \in DOMAIN nodes] ==
        LET p == nodes[j].parent
        IN IF p = 0 \/ p \in Range(kept) THEN p ELSE up[p]
  IN up[k]

\* _echoes_ancestor
Echoes(nodes, kept, k) ==
  LET a == NearestKept(nodes, kept, k)
  IN a # 0 /\ Normal[nodes[a].text] = Normal[nodes[k].text]

Chosen(nodes, kept, k) ==
  LET n == nodes[k]
  IN /\ n.shown
     /\ \/ Addressable(n)
        \/ /\ Readable(n)
           /\ n.text \notin Short
           /\ Cardinality({j \in Range(kept) : Readable(nodes[j])}) < MaxReadable
           /\ ~Echoes(nodes, kept, k)

\* Positions of the nodes that become elements, in document order.
Kept(nodes, kept, k) == IF Chosen(nodes, kept, k) THEN Append(kept, k) ELSE kept

Selected(nodes) ==
  LET kept[k \in 0 .. Len(nodes)] ==
        IF k = 0 THEN <<>> ELSE Kept(nodes, kept[k - 1], k)
  IN kept[Len(nodes)]

(***************************************************************************)
(* One pass over the frames                                                *)
(***************************************************************************)
\* A mutant: the stamps of the last pass stay where they are.
ClearedNowhere(stamps, frame) == stamps

\* CLEAR_REFS_JS
Cleared(stamps, frame) ==
  [d \in DOMAIN stamps |-> IF d \in Ids(frame) THEN NoRef ELSE stamps[d]]

\* The label is looked for among the stamped nodes of the frame itself.
NameOf(n, stamped) == IF n.text = NoName /\ stamped THEN n.label ELSE n.text

\* The elements a frame adds, numbered on from those before it.
ElementsOf(page, i, refs) ==
  LET tree == TreeOf(page, i)
      nodes == IF tree = 0 THEN <<>> ELSE page[tree].nodes
      kept == Selected(nodes)
  IN [j \in DOMAIN kept |->
        LET n == nodes[kept[j]]
        IN [ref |-> refs + j, role |-> n.role, name |-> NameOf(n, n.held /\ tree = i),
            scope |-> Scope(page, i), handle |-> Interactive(n),
            marked |-> Interactive(n) /\ n.held, frame |-> page[i].id, node |-> n.id]]

Acting(elements) == {e \in Range(elements) : e.handle}

\* Those whose node took the stamp; one that is gone by then keeps its handle,
\* which finds nothing.
Marked(elements) == {e \in Range(elements) : e.marked}

Stamped(stamps, marked) ==
  [d \in DOMAIN stamps |-> IF \E e \in marked : e.node = d
                           THEN (CHOOSE e \in marked : e.node = d).ref
                           ELSE stamps[d]]

PerceiveFrame(page, seen, i) ==
  LET new == ElementsOf(page, i, seen.refs)
  IN [elements |-> seen.elements \o new,
      refs |-> seen.refs + Len(new),
      empty |-> IF i # 1 /\ Acting(new) = {} THEN seen.empty \cup {Scope(page, i)} ELSE seen.empty,
      stamps |-> Stamped(Cleared(seen.stamps, page[i]), Marked(new))]

\* perceive: the elements of a page, and the stamps it carries afterwards.
Perceived(page, stamps) ==
  LET nothing == [elements |-> <<>>, refs |-> 0, empty |-> {}, stamps |-> stamps]
      seen[i \in 0 .. Len(page)] ==
        IF i = 0 THEN nothing ELSE PerceiveFrame(page, seen[i - 1], i)
  IN seen[Len(page)]

\* compute_coverage
CoverageOk(seen) ==
  LET acting == {k \in DOMAIN seen.elements : seen.elements[k].handle}
      unnamed == {k \in acting : seen.elements[k].name = NoName}
  IN /\ Cardinality(acting) >= MinInteractive
     /\ 10 * Cardinality(unnamed) <= UnnamedTenths * Cardinality(acting)
     /\ seen.empty = {}

\* What the locator of an element finds on a page: nodes of its frame that
\* carry its number.
Located(page, stamps, e) ==
  UNION {{d \in Ids(f) : stamps[d] = e.ref} : f \in {g \in Range(page) : g.id = e.frame}}

\* The node an action through the element's handle lands on: the one there is,
\* if the page shows it.
Landing(page, stamps, e) ==
  {d \in Located(page, stamps, e) :
     /\ Located(page, stamps, e) = {d}
     /\ \E f \in Range(page) : \E n \in Range(f.nodes) : n.id = d /\ n.shown}
===============================================================================

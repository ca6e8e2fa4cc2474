------------------------------ MODULE MCTargeting ------------------------------
EXTENDS Targeting

Node(id, role, text) ==
  [id |-> id, role |-> role, text |-> text, label |-> NoName, parent |-> 0, shown |-> TRUE,
   backed |-> TRUE, held |-> TRUE]
Under(k, n) == [n EXCEPT !.parent = k]
Labelled(l, n) == [n EXCEPT !.label = l]
Hidden(n) == [n EXCEPT !.shown = FALSE]
Unbacked(n) == [n EXCEPT !.backed = FALSE]
Vanishing(n) == [n EXCEPT !.held = FALSE]
Text(id, t) == Node(id, "StaticText", t)
Link(id, t) == Node(id, "link", t)

Child(id, name, url, nodes) ==
  [id |-> id, name |-> name, url |-> url, listed |-> TRUE, answers |-> TRUE, nodes |-> nodes]
Doc(nodes) == Child("main", NoName, "/member", nodes)
Unlisted(f) == [f EXCEPT !.listed = FALSE]
Unread(f) == [f EXCEPT !.answers = FALSE]

\* A record with two accounts, links of one name, a link that repeats its text
\* inside, a menu that is shut, a dash between, and one text too many.
Open1 == Link("open1", "Open")
Open2 == Link("open2", "Open")
Accounts ==
  << Doc(<<Open1, Under(1, Text("echo", "Open")), Hidden(Node("menu", "button", "Menu")),
           Text("savings", "Savings"), Text("date", "2024-01-31"), Text("dash", "-"),
           Text("one", "$1"), Open2, Text("checking", "Checking"), Text("two", "$2")>>) >>
\* The same with the menu open and a row put in front.
Grown ==
  << Doc(<<Node("menu", "button", "Menu"), Text("date0", "2024-01-31"), Open1,
           Text("savings", "Savings"), Text("date", "2024-01-31"), Text("one", "$1"),
           Open2>>) >>
\* Renamed in case, and by a longer name; and a button of the old one.
Renamed ==
  << Doc(<<Link("open1", "OPEN"), Link("open2", "Open Record"), Node("btn", "button", "Open"),
           Text("savings", "savings")>>) >>
\* Two accounts of one kind, a tie their label does not break.
Twins ==
  << Doc(<<Text("savings", "Savings"), Text("one", "$1"), Text("savings2", "Savings"),
           Text("two", "$2"), Open1, Open2>>) >>
\* The directory frame of the search page, its field without a name of its own;
\* the label before its first value is in the document, and comes again later.
Directory(nodes) == Child("dir", "directory", "/frame", nodes)
Field == Labelled("Member", Node("field", "textbox", NoName))
Framed ==
  << Doc(<<Open1, Text("savings", "Savings")>>),
     Directory(<<Text("one", "$1"), Field, Link("find", "Open"), Text("two", "$2"),
                 Text("savings2", "Savings"), Text("date", "2024-01-31")>>) >>
\* A frame without a name put before it, which shifts no name; and one whose
\* tree is another process's.
Inserted ==
  << Doc(<<Open1, Text("savings", "Savings")>>),
     Child("ad", NoName, "/ad", <<Link("adopen", "Open")>>),
     Directory(<<Field, Link("find", "Open")>>) >>
Challenged ==
  << Doc(<<Open1, Open2, Text("one", "$1")>>),
     Unlisted(Child("turnstile", NoName, "/challenge", <<Node("box", "checkbox", "Human")>>)) >>
\* Two frames that show the same document.
Mirrored ==
  << Doc(<<Open1>>),
     Child("left", "left", "/frame", <<Link("find", "Open")>>),
     Child("right", "right", "/frame", <<Link("find2", "Open")>>) >>

\* Two frames of one name, a label in the one and its value in the other.
Namesakes ==
  << Doc(<<Open1>>),
     Child("dir", "directory", "/frame", <<Text("savings", "Savings")>>),
     Child("ad", NoName, "/ad", <<Text("date", "2024-01-31")>>),
     Child("dir2", "directory", "/frame2", <<Text("one", "$1"), Text("two", "$2")>>) >>

\* A document whose tree does not answer, beside a frame whose tree does: one
\* link of it is gone before it is stamped, one the document has no node for.
Halved ==
  << Unread(Doc(<<Open1, Text("savings", "Savings")>>)),
     Directory(<<Field, Link("find", "Open"), Vanishing(Open2),
                 Unbacked(Node("btn", "button", "Open"))>>) >>
\* The same with the document answering and the frame not.
Darkened ==
  << Doc(<<Open1, Text("savings", "Savings"), Open2>>), Unread(Directory(<<Field>>)) >>

MCPages == {Accounts, Grown, Renamed, Twins, Framed, Inserted, Challenged, Mirrored,
            Namesakes, Halved, Darkened}

MCValueShaped == {"$1", "$2", "2024-01-31"}
MCNormal ==
  [t \in {"Open", "OPEN", "Open Record", "Savings", "savings", "Checking", "Menu", "Member",
          "Human", "-", "$1", "$2", "2024-01-31", NoName} |->
     CASE t \in {"Open", "OPEN"} -> "open" [] t = "Open Record" -> "open record"
       [] t \in {"Savings", "savings"} -> "savings" [] OTHER -> t]
MCWithin == {<<"open", "open record">>}
===============================================================================

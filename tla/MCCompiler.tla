----------------------------- MODULE MCCompiler -----------------------------
EXTENDS Generalize

CONSTANT Other        \* the member the recording was not made for
ASSUME OtherAssumption == Other \in {"22841", "1234"}

\* A member is looked up by number: the search page, its field filled in or
\* not, and the member's record.  A search for nothing says so, and leads back.
Recorded == "12345"
MCMembers == {Recorded, Other}
Balance(m) == IF m = Recorded THEN "$4,812.55" ELSE "$99.00"
RecordPath(m) == IF m = Recorded THEN "/member/12345"
                 ELSE IF m = "1234" THEN "/member/1234" ELSE "/member/22841"
Filled(m) == IF m = Recorded THEN "Member ID 12345"
             ELSE IF m = "1234" THEN "Member ID 1234" ELSE "Member ID 22841"
Later == "$7.00"

Element(role, name, value, text) ==
  [role |-> role, name |-> name, value |-> value, text |-> text]
Cell(name) == Element("cell", name, name, name)

Field(v) == Element("textbox", "Member ID", v, IF v = Nothing THEN "Member ID" ELSE Filled(v))
Search(v) ==
  [path |-> "/search",
   elements |-> <<Field(v), Element("button", "Find", Nothing, "Find"),
                  Element("button", "Last viewed", Nothing, "Last viewed")>>]
NotFound ==
  [path |-> "/no-match", elements |-> <<Cell("Not found"), Element("button", "Again", Nothing, "Again")>>]
RecordShowing(m, balance) ==
  [path |-> RecordPath(m),
   elements |-> <<Cell(m), Cell("Savings"), Cell("2024-01-31"), Cell(balance)>>]
Record(m) == RecordShowing(m, Balance(m))

Balances == {Balance(m) : m \in MCMembers} \cup {Later}
MCHome == Search(Nothing)
MCPages == {Search(v) : v \in MCMembers \cup {Nothing}} \cup {NotFound}
             \cup {RecordShowing(m, b) : m \in MCMembers, b \in Balances}

\* Last viewed is a shortcut to the record that was open before.
MCLeads ==
  [p \in MCPages |-> [action \in {"click", "type"} |-> [k \in 1 .. 4 |->
    [v \in MCMembers \cup {Nothing} |->
      CASE p = NotFound -> IF action = "click" /\ k = 2 THEN MCHome ELSE p
        [] p # NotFound /\ (p.path # "/search" \/ k > Len(p.elements)) -> p
        [] action = "type" /\ k = 1 -> Search(v)
        [] action = "click" /\ p.elements[k].name = "Find" ->
             IF p.elements[1].value = Nothing THEN NotFound
             ELSE Record(p.elements[1].value)
        [] action = "click" /\ p.elements[k].name = "Last viewed" ->
             Record(Recorded)
        [] OTHER -> p]]]]

MCRecordOf ==
  [p \in MCPages |->
     IF \E m \in MCMembers : p.path = RecordPath(m)
     THEN CHOOSE m \in MCMembers : p.path = RecordPath(m) ELSE Nothing]
MCMirror ==
  [p \in MCPages |-> [m \in MCMembers |->
     IF p = Record(Recorded) THEN Record(m)
     ELSE IF p.path = RecordPath(Recorded) THEN RecordShowing(m, p.elements[4].name)
     ELSE IF p = Search(Recorded) THEN Search(m) ELSE p]]
MCRenewed ==
  [p \in MCPages |->
     IF MCRecordOf[p] = Nothing THEN p ELSE RecordShowing(MCRecordOf[p], Later)]

MCValueShaped == MCMembers \cup Balances \cup {"2024-01-31"}
\* The number 1234 is the beginning of 12345, and occurs wherever it does.
MCWithin ==
  {<<m, RecordPath(m)>> : m \in MCMembers} \cup {<<m, Filled(m)>> : m \in MCMembers}
    \cup {<<"Member ID", Filled(m)>> : m \in MCMembers}
    \cup {"1234"} \X {Recorded, RecordPath(Recorded), Filled(Recorded)}

Plan(action, name, described, value, claim) ==
  [action |-> action, name |-> name, described |-> described, value |-> value,
   claim |-> claim]
Said(check, of) == Claim(check, of)

\* The reader's way through the application, with claims that are true, claims
\* that are not, and claims that quote what is about to be read.
MCPlans ==
  { Plan("type", "Member ID", "the field", Recorded, Said("field", Recorded)),
    Plan("type", "Member ID", "the field", Other, Said("field", Other)),
    Plan("click", "Find", "find", Nothing, Said("text", "Savings")),
    Plan("click", "Find", "find", Nothing, Said("text", "12345")),
    Plan("click", "Find", "find", Nothing, Said("text", "$4,812.55")),
    Plan("click", "Find", "find", Nothing, Said("text", "Not found")),
    Plan("click", "Find", "find", Nothing, Said("text", "Welcome")),
    Plan("click", "Find", "find", Nothing, Said("absent", "Find")),
    Plan("click", "Again", "again", Nothing, Said("text", "Find")),
    Plan("click", "Last viewed", "last", Nothing, Said("text", "Savings")),
    Plan("read", "$4,812.55", "balance", Nothing, Said("text", "$4,812.55")),
    Plan("read", "$4,812.55", "balance", Nothing, Said("text", "Savings")),
    Plan("read", "12345", "number", Nothing, Said("text", "12345")),
    Plan("done", Nothing, Nothing, Nothing, Said("text", "$4,812.55")),
    Plan("done", Nothing, Nothing, Nothing, Said("text", "Welcome")),
    Plan("done", Nothing, Nothing, Nothing, Said("text", "Not found")),
    Plan("done", Nothing, Nothing, Nothing, Said("text", "Savings")) }

\* A record of 12345 shows 1234 too, as a part of its number; 22841 is shown in
\* its own records alone.
ASSUME RecordsAssumption == RecordsAreTheirs <=> Other # "1234"
ASSUME RegularAssumption == ApplicationIsRegular /\ PlansAreRegular
===============================================================================

----------------------------- MODULE MCDiscovery -----------------------------
EXTENDS Discovery

At(node, name) == [node |-> node, name |-> name]
Submit == At("submit", "Continue")

\* A form, and the same form with a message's link put in front: what a legacy
\* page does with a field it did not like.
Form ==
  [digest |-> "form", origin |-> "app", elements |-> <<At("field", "Amount"), Submit>>]
FormWithNotice ==
  [digest |-> "notice", origin |-> "app",
   elements |-> <<At("help", "Help"), At("field", "Amount"), Submit>>]

\* The form with a warning in front, whose button now asks to confirm: the same
\* node by another name.
FormConfirming ==
  [digest |-> "confirming", origin |-> "app",
   elements |-> <<At("warning", "Limit exceeded"), At("field", "Amount"),
                  At("submit", "Confirm Transfer")>>]

\* A page of its own that asks to confirm, and a page of another site.
Review ==
  [digest |-> "review", origin |-> "app",
   elements |-> <<At("change", "Change"), At("confirm", "Confirm Transfer")>>]
Advert ==
  [digest |-> "advert", origin |-> "elsewhere", elements |-> <<At("offer", "Offer")>>]

MCPages == {Form, FormConfirming, Advert}

\* Pages on which every node keeps its name.
SteadyPages == {Form, FormWithNotice, Review, Advert}
MCSafe == {"navigate", "type", "read", "wait", "done"}
===============================================================================

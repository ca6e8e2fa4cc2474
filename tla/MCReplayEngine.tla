--------------------------- MODULE MCReplayEngine ---------------------------
EXTENDS ReplayEngine

\* Use a stored password, open the account, read the answer.
SignInAndRead ==
  << [action |-> "type", targeted |-> TRUE, credential |-> TRUE, declared |-> FALSE],
     [action |-> "navigate", targeted |-> FALSE, credential |-> FALSE, declared |-> FALSE],
     [action |-> "read", targeted |-> TRUE, credential |-> FALSE, declared |-> TRUE] >>

\* Read one value.
ReadOne ==
  << [action |-> "read", targeted |-> TRUE, credential |-> FALSE, declared |-> TRUE] >>
===============================================================================

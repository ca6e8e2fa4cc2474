----------------------------- MODULE ControlLease -----------------------------
(***************************************************************************)
(* The control lease of a session (src/session/lease.py): one small file   *)
(* that says who may drive the browser.  This module holds the values the  *)
(* file can have and the pure decisions taken on them; Handoff says who    *)
(* reads and writes the file, and when.                                    *)
(***************************************************************************)

CONSTANT Operator        \* the people (OS users) who run `cua operator ...`

(***************************************************************************)
(* Holder ids that are not operators: the run itself, and the placeholder  *)
(* written when an intervention is raised and nobody has claimed it yet.   *)
(***************************************************************************)
Run == "run"
UNCLAIMED == "awaiting-operator"

\* getpass.getuser() (or --as) never yields one of the two reserved ids.
ASSUME ReservedHolders == {Run, UNCLAIMED} \cap Operator = {}

Holder == Operator \cup {Run, UNCLAIMED}

AUTOMATION == "automation"
HUMAN == "human"

(***************************************************************************)
(* What a reader of lease.json can find.  `write` truncates the file and   *)
(* then fills it, so besides a whole lease a reader may find no file, or   *)
(* one it cannot parse ("torn").                                           *)
(***************************************************************************)
LeaseFile == [owner : {AUTOMATION, HUMAN, "absent", "torn"}, holder : Holder]

Absent == [owner |-> "absent", holder |-> Run]
Torn == [owner |-> "torn", holder |-> Run]
HeldByRun == [owner |-> AUTOMATION, holder |-> Run]
HeldBy(h) == [owner |-> HUMAN, holder |-> h]

-------------------------------------------------------------------------------
\* A torn file does not validate: model_validate_json raises.
Readable(file) == file.owner # "torn"

\* LeaseStore.read: a missing file means that automation holds the session.
Read(file) == IF file.owner = "absent" THEN HeldByRun ELSE file

\* LeaseStore.require_automation: may an automated action go ahead?
AutomationMayAct(file) == Readable(file) /\ Read(file).owner = AUTOMATION

\* LeaseStore.acquire(HUMAN, me): refused when a different person has it.
ClaimRefused(file, me) ==
  LET current == Read(file)
  IN  /\ current.owner = HUMAN
      /\ current.holder # me
      /\ current.holder # UNCLAIMED
===============================================================================

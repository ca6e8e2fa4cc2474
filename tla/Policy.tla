-------------------------------- MODULE Policy --------------------------------
(***************************************************************************)
(* The guard stage (src/policy/check.py): may this intent be acted on, as  *)
(* far as the snapshot it was decided on can tell.  The lists it consults  *)
(* are configuration (config/default.yaml).                                *)
(*                                                                         *)
(* An intent is [action, ref, destination]; a snapshot has an origin and   *)
(* elements, numbered by their refs, each with a name.                     *)
(***************************************************************************)
EXTENDS Naturals, Sequences

CONSTANTS
  AllowedOrigins,        \* allowlist.origins
  AllowedActions,        \* allowlist.action_types
  IrreversibleNames,     \* the names irreversible_name_pattern finds
  ConsequentialActions,  \* risk_policy.consequential_actions
  SafeActions            \* risk_policy.safe_actions

NoRef == 0
NoName == "no name"
Nowhere == "nowhere"

\* A name that is not there matches no pattern (`if target_name and ...`).
ASSUME NamesAssumption == NoName \notin IrreversibleNames

ActionKinds == {"navigate", "click", "type", "select", "read", "wait", "done"}

ACTIONS_CHECKED_FOR_IRREVERSIBLE_NAME == {"click", "select"}

\* resolve_target_name: no target, or a stale ref, has no name.
TargetName(intent, snapshot) ==
  IF intent.ref \in DOMAIN snapshot.elements THEN snapshot.elements[intent.ref].name ELSE NoName

NamedIrreversible(intent, snapshot) ==
  /\ intent.action \in ACTIONS_CHECKED_FOR_IRREVERSIBLE_NAME
  /\ TargetName(intent, snapshot) \in IrreversibleNames

\* Variant of Tier that goes by the kind of action alone.
TierByAction(intent, snapshot) ==
  IF intent.action \in ConsequentialActions THEN "consequential"
  ELSE IF intent.action \in SafeActions THEN "safe" ELSE "irreversible"

\* The risk tier policy derives itself.  The name is looked at first, and an
\* action nobody classified counts as irreversible.
Tier(intent, snapshot) ==
  IF NamedIrreversible(intent, snapshot) THEN "irreversible"
  ELSE IF intent.action \in ConsequentialActions THEN "consequential"
  ELSE IF intent.action \in SafeActions THEN "safe" ELSE "irreversible"

\* Where the page is, and where a navigation would lead.
OriginViolation(intent, snapshot) ==
  \/ snapshot.origin \notin AllowedOrigins
  \/ /\ intent.action = "navigate"
     /\ intent.destination # Nowhere
     /\ intent.destination \notin AllowedOrigins

\* Policy.check: the rule that decides, the first miss winning.
Rule(intent, snapshot) ==
  IF OriginViolation(intent, snapshot) THEN "origin_allowlist"
  ELSE IF intent.action \notin AllowedActions THEN "action_allowlist"
  ELSE IF Tier(intent, snapshot) = "irreversible" THEN "risk.irreversible" ELSE "allow"

Allowed(intent, snapshot) == Rule(intent, snapshot) = "allow"
===============================================================================

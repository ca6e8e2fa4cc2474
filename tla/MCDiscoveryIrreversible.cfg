CONSTANTS
  Pages <- MCPages
  Actions = {"navigate", "click", "wait", "done"}
  MaxSteps = 3
  AllowedOrigins = {"app"}
  AllowedActions = {"navigate", "click", "type", "select", "read", "done"}
  IrreversibleNames = {"Confirm Transfer"}
  ConsequentialActions = {"click", "select"}
  SafeActions <- MCSafe
SPECIFICATION FairSpec
INVARIANT NothingIrreversibleIsTouched

SPECIFICATION Spec
CONSTANTS
  Boilers <- MCBoilers
  Values <- MCValues
INVARIANTS
  ShownIsCurrent
  RemovedIsDeaf
  StateIsSound
  StandbyAgrees
  SchemesAgree

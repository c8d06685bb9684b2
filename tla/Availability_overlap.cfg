SPECIFICATION Spec
CONSTANTS
  Entities = {e1, e2}
  Readers = {tick, command}
  Ticker = tick
  MinWindow = 2
  Interval = 2
  RefreshBound = 1
SYMMETRY Symmetry
INVARIANTS
  HonestAge
  PollInv
  NeverUnavailable
PROPERTY
  RecoveryRendersEveryEntity

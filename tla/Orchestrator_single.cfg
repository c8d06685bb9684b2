SPECIFICATION FairSpec
CONSTANTS
  Slots = {a}
  refresh_interval = 2
  retry_base_interval = 1
  retry_max_interval = 4
  MaxAttempt = 3
  SlotBound = 2
INVARIANT
  TypeOK
PROPERTIES
  RetriesBackOff
  ResetMeansBack
  KeepsRetrying

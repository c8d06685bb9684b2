SPECIFICATION Spec
CONSTANTS
  Readings <- MCReadings
  RowSets = {{"setting"}, {"circuit"}}
  Absent = Absent
  Unusable = Unusable
  None = None
INVARIANTS
  SlotInv
  NumberIsCurrent
  SwitchIsCurrent
  LastSeenIsKept

SPECIFICATION EntrySpec
CONSTANT MaxSystems = 3
INVARIANTS
  QuietAfterwards
  LoadedIsAlive
CHECK_DEADLOCK FALSE

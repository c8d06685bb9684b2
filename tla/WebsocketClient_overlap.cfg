SPECIFICATION FairSpec
CONSTANTS
  setup = setup
  tick = tick
  r1 = r1
  r2 = r2
  Callers <- MCCallers
  Runs <- MCRuns
  NoRun = NoRun
INVARIANTS
  NoUnseenRun
  HonestFlag
PROPERTIES
  ImplementsChannel
  CallersReturn

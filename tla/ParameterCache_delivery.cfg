SPECIFICATION FairSpec
CONSTANTS
  setting = setting
  tick = tick
  command = command
  Telemetry <- MCTelemetry
  Events = Events
  Rows = Rows
  ValueOf <- MCValueOf
  Polls = {tick}
  Commands = {command}
  MaxVersion <- MCMaxVersion
  MaxFrames = 1
INVARIANTS
  DeliveryInv
  HonestOutcome
PROPERTIES
  PollIsCurrent
  ImplementsView

SPECIFICATION Spec
CONSTANTS
  Families = {"peltec2", "biopl"}
  Identity = {"B_VER", "B_KONF", "B_STATE"}
  Mapped <- MCMapped
  Circuits = {"K1B_P"}
  Direct <- MCDirect
  Strict = {"peltec2"}
  Noise = {"PING"}
  Synthetic <- MCSynthetic
  Late <- MCLate
  Commanded <- MCCommanded
  Needs <- MCNeeds
  Twins <- MCTwins
  Editable = {"PVAL_67_0"}
  ReadOnly = {"PVAL_70_0"}
  Reportable <- MCReportable
  Earlier = {"B_Tk1", "B_bup", "B_BRAND", "PVAL_67_0", "PVAL_70_0", "Device_Type", "Weather_Forecast"}
  Foreign = {"websocket"}
INVARIANTS
  CleanupInv
  MappedIsKept
  RetiredIsGone
PROPERTIES
  IncompleteKeepsAll

CONSTANTS
  Job = {"r", "n", "o"}
  Trunk = {"A", "cloudA", "B"}
  Change = {"c"}
  MaxRev = 2
  Push <- PushDef
  Cases <- CasesDef
  Last0 <- Last0Def
  Faults <- FaultsDef
SPECIFICATION Spec
INVARIANTS TrunkSound RowsAccounted DependenciesCome

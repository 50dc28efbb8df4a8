CONSTANTS
  NSub = 2
  Job <- SharedJob
  Commit <- CommitDef
  Own <- SharedOwn
  Rev <- SharedRev
  Anc <- AncDef
  Forced = {}
  Trunk0 <- Trunk0Def
  ListLimit = 3
  Faults = {}
  NoRow = NoRow
SPECIFICATION Spec
INVARIANTS GateForAll

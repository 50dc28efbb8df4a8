CONSTANTS
  NSub = 2
  Job <- MixedJob
  Commit <- CommitDef
  Own <- MixedOwn
  Rev <- MixedRev
  Anc <- AncDef
  Forced = {"f"}
  Trunk0 <- MixedTrunk0
  ListLimit = 2
  Faults = {"sql", "pop"}
  NoRow = NoRow
SPECIFICATION Spec
INVARIANTS GateSound PromotedLanded
PROPERTIES KeepsPromise

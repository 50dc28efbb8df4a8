CONSTANTS
  NSub = 3
  Job <- GroupJob
  Commit <- CommitDef
  Own <- GroupOwn
  Rev <- GroupRev
  Anc <- AncDef
  Forced = {}
  Trunk0 <- Trunk0Def
  ListLimit = 3
  Faults = {"abort"}
  NoRow = NoRow
SPECIFICATION FairSpec
INVARIANTS TypeOK NoMutualRefusal OvertakenBySurvivor
PROPERTIES GroupPromoted

CONSTANTS
  Name <- NameDef
  Base = {"build"}
  Requests <- RequestsDef
  Gerrit = {"il", "log"}
  INames <- INamesDef
  Externals <- ExternalsDef
SPECIFICATION FairSpec
INVARIANTS ResolvedExactly PlacedOrDropped
PROPERTIES Ends

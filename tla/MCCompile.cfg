CONSTANTS
  NMod = 3
  NForeign = 1
  Thread = 2
  Own = 1
  Product = 3
  Configs <- ConfigsDef
  Ref = {"trunk", "branch", "c", "d"}
  ConfigRef <- ConfigRefDef
  Change = "c"
  Groups <- GroupsDef
  Depends <- DependsDef
  Tasks = {"compile", "ut"}
  Cloud = {TRUE, FALSE}
  Merged = {TRUE, FALSE}
SPECIFICATION FairSpec
INVARIANTS BuildsWanted RevTrue ProductCurrent
PROPERTIES Ends

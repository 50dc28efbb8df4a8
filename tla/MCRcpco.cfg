CONSTANTS
  NMod = 3
  Thread = 2
  MaxRetry = 3
  Gitlab = {TRUE, FALSE}
  Ref = {"c1", "c2", "c3", "b"}
  Change = {"c1", "c2", "c3"}
  Tests <- TestsDef
  Depends <- DependsDef
SPECIFICATION FairSpec
INVARIANTS TokenBalance ExternalComplete OnOwnBranch RequestKept
PROPERTIES Ends

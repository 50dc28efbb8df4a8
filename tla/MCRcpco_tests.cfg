CONSTANTS
  NMod = 2
  Thread = 2
  MaxRetry = 3
  Gitlab = {TRUE, FALSE}
  Ref = {"c1", "c2", "c3", "b"}
  Change = {"c1", "c2", "c3"}
  Tests <- ShortDef
  Depends <- DependsDef
SPECIFICATION Spec
INVARIANTS OwnDependenciesOnly

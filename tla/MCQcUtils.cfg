CONSTANTS
  Uploader = {"u1", "u2"}
  Reporter = {"r1", "r2", "r3", "r4", "r5"}
  Tc = {"a"}
  Path = {"p", "q"}
  Upload <- UploadDef
  Results <- ResultsDef
  SetId <- SetIdDef
  Tests0 <- Tests0Def
  Sets0 <- Sets0Def
  MaxAttempt = 1
  Teams <- TeamsDef
  Flaky = {"u1", "r1", "r2", "r5"}
  MaxLost = 1
SPECIFICATION FairSpec
INVARIANTS UploadedOnce OneSet OneInstance RunsBelong
PROPERTIES ReportedInFull Ends

CONSTANTS
  NTask = 4
  NWorker = 3
  NServer = 2
  Endings = {"passed", "failed", "error"}
  Faults <- AllFaults
  Extra = {TRUE, FALSE}
  Withins <- WithinsDef
  FtFaults = {"create", "status", "jenkins", "download"}
SPECIFICATION EitherFairSpec
INVARIANTS PromotedIfPassed MailsTrue CollectedOnce CollectedOver FailedForAReason
PROPERTIES Ends FtEnds

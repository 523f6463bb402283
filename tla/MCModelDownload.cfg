SPECIFICATION FairSpec
CONSTANTS
  Files = {"digit.param", "digit.bin"}
  MaxAttempts = 3
  MaxCrashes = 1
INVARIANTS
  SuccessMeansFiles
  RejectedIsRemoved
  CleanV1Succeeds
PROPERTIES
  DownloadReturns

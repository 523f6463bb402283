SPECIFICATION Spec
CONSTANTS
  V1Files = {"digit.param", "digit.bin"}
  MaxAttempts = 3
  AutoDownload = TRUE
  Checksums = {{"digit.param"}, {"digit.param", "digit.bin"}}
  HasPython = TRUE
  MaxKills = 0
INVARIANT V2Bootstrapped

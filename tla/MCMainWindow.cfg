SPECIFICATION Spec
CONSTANTS
  Listings <- MCListings
  LaunchTags = {"t1"}
  ModelDirs = {"dir1", "dir2"}
  Backbones = {"mobilenet"}
  Precisions = {"fp16", "fp32"}
  HasVulkan = FALSE
  V1Stems = {"digit"}
  V2Stems = {"mobilenet"}
  Directories <- MCDirectories
  LocalImages = {"file"}
  WebImages = {"captcha"}
  None = None
  MaxDepth = 2
  MaxItems = 1
INVARIANTS
  OneDownloadAtATime
  ButtonsComeBack
  EngineIsCurrent

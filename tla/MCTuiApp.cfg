SPECIFICATION FairSpec
CONSTANTS
  Replies <- MCReplies
  Options = {"ncnn", "onnx"}
  Artifact <- MCArtifact
  None = None
INVARIANTS
  ExitIsClean
  GuardsAreReleased
  ModelsFollowSelection
  DownloadIsHonest
PROPERTY UiComesBack

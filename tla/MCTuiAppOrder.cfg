SPECIFICATION Spec
CONSTANTS
  Replies <- MCOrderReplies
  Options = {"ncnn", "onnx"}
  Artifact <- MCArtifact
  None = None
INVARIANT ListIsNewestFirst

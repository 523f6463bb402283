SPECIFICATION Spec
CONSTANTS
  Replies <- MCReplies
  Options = {"ncnn", "onnx"}
  Artifact <- MCArtifact
  None = None
INVARIANT ShownModelsLive

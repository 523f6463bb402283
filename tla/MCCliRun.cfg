SPECIFICATION MCSpec
CONSTANTS
  Invocations <- MCInvocations
  Content <- MCContent
  NoTag = NoTag
  TagReplies <- MCTagReplies
  Fallback <- MCFallback
  Manifests <- MCManifests
  Leftovers <- MCLeftovers
  V1Stems <- MCV1Stems
  V2Stems <- MCV2Stems
  Precisions = {"fp16", "fp32"}
  Threads = {0}
  HasVulkan = TRUE
  MaxWeights = 3
  MaxRuns = 3
INVARIANTS
  EngineMatchesState
  DocumentedLayoutsLoad
  ReportAddsUp
  ServerReadsTheFile
  LatestHasHighestNumbers
  DownloadedModelLoads
PROPERTY OnlyWholeModels

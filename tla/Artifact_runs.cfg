SPECIFICATION Spec
CONSTANTS
  FileCount = 2
  Name <- MCName
  Text <- MCText
  Packed <- MCPacked
  Paths = {"p", "q"}
  Sources <- AllSources
  Configs <- AllConfigs
INVARIANTS ArtifactInv StageIsRecorded DamageShows NoSpuriousRebuild

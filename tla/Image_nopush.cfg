SPECIFICATION Spec
CONSTANTS
  Tags = {"t1"}
  Configs <- NoPushConfig
  MaxEdits = 0
PROPERTIES UnpushedTagNotTracked

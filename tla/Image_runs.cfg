SPECIFICATION Spec
CONSTANTS
  Tags = {"t1", "t2"}
  Configs <- AllConfigs
  MaxEdits = 1
INVARIANTS ImageInv PushedAsDeclared RecordedWasThere StateComplete
PROPERTIES DropOnlyIfGone

SPECIFICATION Spec
CONSTANTS
  Paths <- MCPaths
  Parent <- MCParent
  Name <- MCName
  IgnoreFile = 1
  Contents <- MCContents
  Lines <- MCLines
  Dangling = Dangling
  Unreadable = Unreadable
  Absent = Absent
  Missing = Missing
  Modes = {6, 7}
  Trees <- MCTrees
  Edits <- MCEdits
  Setups <- MCSetups
  MaxChanges = 2
  MaxHashes = 3
INVARIANTS Incorporates
CHECK_DEADLOCK FALSE

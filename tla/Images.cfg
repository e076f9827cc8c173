SPECIFICATION Spec
CONSTANTS
  Paths <- MCPaths
  Root = "/"
  Parent <- MCParent
  Numbered <- MCNumbered
  Ids <- MCIds
  FieldMax = 31
  Word = 256
  Images <- MCImages
  WithInit <- MCWithInit
  Init0 = "init"
  Tables <- MCTables
  Installed <- MCInstalled
  MaxBuilds = 3
INVARIANTS ImageAsFirst TableApplied
PROPERTY AllMade
CHECK_DEADLOCK FALSE

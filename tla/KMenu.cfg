SPECIFICATION Spec
CONSTANTS
  SymType <- TypesHere
  Symbols = {"A", "T"}
  ChoiceSyms = {"CH"}
  Optional = {}
  AutoSyms = {}
  Deps <- DepsHere
  Conditions <- ConditionsHere
  Selectable = {"T"}
  Defaults <- DefaultsHere
  Declarations <- DeclarationsHere
  MaxEntries = 4
  MaxAttributes = 4
CHECK_DEADLOCK FALSE
INVARIANTS TreeKeepsOrder RecursionReported VisibleIsReachable ConditionsKept PrintsBack

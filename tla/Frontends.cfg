SPECIFICATION Spec
CONSTANTS
  SymType <- TypesHere
  Symbols = {"V1", "V2", "A", "L", "N", "modules_sym"}
  ChoiceSyms = {"CH"}
  Optional = {}
  Parsed <- ParsedHere
  Order <- OrderHere
  AutoSyms = {"modules_sym"}
  Number <- NumberHere
  InitialFiles <- FilesHere
  Texts = {"1", "9"}
  MaxChanges = 2
CHECK_DEADLOCK FALSE
INVARIANTS ShownIsCurrent ChoiceHasOne NothingLostIfFound

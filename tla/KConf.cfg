SPECIFICATION Spec
CONSTANTS
  SymType <- TypesHere
  Symbols <- SymbolsHere
  ChoiceSyms = {"CH1", "CH2"}
  Optional = {}
  Parsed <- ParsedHere
  Order <- OrderHere
  AutoSyms = {"modules_sym"}
  Number <- NumberHere
  InitialFiles <- FilesHere
  InitialAutos <- AutosHere
  Modes = {"oldaskconfig", "oldconfig", "silentoldconfig", "listnewconfig", "oldnoconfig", "savedefconfig", "defconfig", "allyesconfig", "allnoconfig", "alldefconfig", "randconfig"}
  PackageSets = {{}, {"A", "B"}}
  Draws <- DrawsHere
  Texts = {"3"}
  MaxRuns = 2
INVARIANTS CacheFresh OneValue ReadsBack DefconfigRestores KeepsAnswers AutoMatches KeptAside
PROPERTIES HeadersTouched FilesSpec ConfEnds

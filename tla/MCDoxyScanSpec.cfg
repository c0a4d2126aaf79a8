CONSTANTS
  Tree <- MCTree
  Dirs <- MCDirs
  DOXY_FILE_PATTERNS <- MCDefault
  ParsChoices <- MCPars
  InputChoices <- MCInputs
SPECIFICATION Spec
INVARIANT ScanMatchesSpec

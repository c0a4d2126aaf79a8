CONSTANTS
  TaskGens <- MCTaskGens
  UseChoices <- MCUseStrings
  StoreChoices <- MCStores
  RootChoices <- MCRoots
SPECIFICATION Spec
INVARIANT TypeOK
INVARIANT MandatoryHonoured

CONSTANTS
  Candidates <- MCCandidates
  BldDir <- MCBldDir
  OutChoices <- MCOutChoices
SPECIFICATION Spec
INVARIANT HarvestsWhereDoxygenWrites

CONSTANTS
  MaxBuilds = 3
  MaxEdits = 2
  Faults = {"kill", "interrupt", "tar_crash", "delete"}
  EditKinds = {"input", "pars"}
SPECIFICATION Spec
INVARIANT CleanBuildLeavesFreshOutputs

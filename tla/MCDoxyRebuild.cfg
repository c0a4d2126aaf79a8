CONSTANTS
  MaxBuilds = 4
  MaxEdits = 2
  Faults = {"kill", "interrupt", "tar_crash"}
  EditKinds = {"input", "doxyfile", "env"}
SPECIFICATION Spec
INVARIANT CleanBuildLeavesFreshDocs
INVARIANT SignaturesVouchForOutputs

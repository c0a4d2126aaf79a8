CONSTANTS
  Compilers <- MCCompilers
  Versions <- MCVersions
  Platforms <- MCPlatforms
  Machines <- MCMachines
  UserCxxChoices <- MCUserCxx
  UserLinkChoices <- MCUserLink
  RejectChoices <- MCRejects
SPECIFICATION Spec
INVARIANT LinkDefaultsFollowLinkflags

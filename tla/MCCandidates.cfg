SPECIFICATION CandidatesSpec
CONSTANTS
  PlatformTunnels <- MCTunnels
  ResolutionIDs = {"r1"}
  ProfileIDs = {"p1", "p2"}
  Providers = {"vk", "wb"}
  Artifacts <- MCArtifacts
  Remotes <- MCRemotes
  Materials <- MCMaterials
  StoreEnabled = TRUE
INVARIANTS
  StartableCandidatesStart
  AcceptedStartsAreCurrent

  

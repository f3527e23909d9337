SPECIFICATION Spec
CONSTANTS
  PlatformTunnels <- MCTunnels
  Modes = {"linux_tun", "windows_wintun", "android_vpn_service"}
  MaxCalls = 3
  MaxOverlaps = 1
  Requests <- MCRequests
  StoredResolution <- MCResolution
  StoredProfile <- MCProfile
INVARIANT
  ProfileFailureNeedsNoCleanup
CHECK_DEADLOCK FALSE

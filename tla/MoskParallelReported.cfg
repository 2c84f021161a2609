SPECIFICATION Spec
CONSTANTS
  Session <- MCSession
  Line <- MCLine
  HostOf <- MCHostOf
  Base = {"lo"}
  Admin = {"vpn"}
  Entries <- MCEntries
  Cidr <- MCCidr
  ClusterCidr <- MCClusterCidr
  PublicCidr <- MCPublicCidr
  Parallel = TRUE
  CanFail = {}
INVARIANTS ReportedRestored
CHECK_DEADLOCK FALSE

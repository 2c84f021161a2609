SPECIFICATION Spec
CONSTANTS
  Session <- MCSession
  Line <- MCLine
  HostOf <- MCHostOf
  Base = {"lo"}
  Admin = {}
  Entries <- MCEntries
  Cidr <- MCCidr
  ClusterCidr <- MCClusterCidr
  PublicCidr <- MCPublicCidr
  Parallel = FALSE
  CanFail = {"backup", "append", "route", "unroute", "restore"}
INVARIANTS LeakExplained RoutesExplained ReportedRestored
CHECK_DEADLOCK FALSE

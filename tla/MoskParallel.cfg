SPECIFICATION Spec
CONSTANTS
  Session <- MCSession
  Line <- MCLine
  HostOf <- MCHostOf
  Base = {"lo"}
  Admin = {"vpn"}
  Entries <- MCEntries
  Cidr <- MCCidr
  ClusterCidr <- MCSameClusterCidr
  PublicCidr <- MCPublicCidr
  Parallel = TRUE
  CanFail = {"backup", "restore"}
INVARIANTS TypeOK KeptLinesSurvive BackupHasOwner
CHECK_DEADLOCK FALSE

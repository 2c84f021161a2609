SPECIFICATION Spec
CONSTANTS
  Agg = {"a1", "a2"}
  AggHost = {"cmp1", "cmp10", "ironic1"}
  Listing <- MCListing
  BeginsWith <- MCBeginsWith
  MaxEdits = 1
  Caller = {"a", "b", "c"}
  NumCpu = 2
  NovaVolume = {"v1", "v2"}
  Device = {"vdb", "vdc"}
  StackSize = 3
  Hostname = {"node", "gtw"}
  Addresses <- MCAddresses
  Message = {1, 2, 3}
  Topic = {"notifications", "other"}
  TopicOf <- MCTopicOf
  Runs = 2
  NovaServer = {"s1", "s2"}
  Providers = 2
  Migration <- MCMigration
  Host = {"h1", "h2"}
  Minor <- MCMinor
  Swap = {0, 1024}
  MaxDisk = 3
  Rounds = 2
  Instances = 3
INVARIANTS TypeOK FixConverges LoadListed BothSwapsDone DetachedFirst LeftIsLone
INVARIANTS AlarmsExact EveryServerAccounted AckedAreWritten ServersKeepAllocations FailsExact LeftExplained LeftoversExplained
CHECK_DEADLOCK FALSE

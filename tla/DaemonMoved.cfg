SPECIFICATION FairSpec
CONSTANTS
  NilMap = NilMap
  Absent = Absent
  Tombstone = Tombstone
  NoDevice = NoDevice
  Configs <- MovedConfigs
  localIP = "n1"
  localSubnet = "l1"
  nonClusterSubnet = {"x1"}
  insideNAT = {}
  remap <- MCRemap
  Network <- MCNetwork
  tunnelled = {"l2"}
  conflict = {"k1"}
  lookalike <- MCLookalike
  Devices = {"eth0"}
  Budget <- MoveBudget
PROPERTIES RemoteSubnetsRouted
CHECK_DEADLOCK FALSE

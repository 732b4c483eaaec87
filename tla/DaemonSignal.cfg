SPECIFICATION Spec
CONSTANTS
  NilMap = NilMap
  Absent = Absent
  Tombstone = Tombstone
  NoDevice = NoDevice
  Configs <- TwoConfigs
  localIP = "n1"
  localSubnet = "l1"
  nonClusterSubnet = {"x1"}
  insideNAT = {}
  remap <- MCRemap
  Network <- MCNetwork
  tunnelled = {"l2"}
  conflict = {"k1"}
  lookalike <- MCLookalike
  Devices = {"eth0", "tunl0"}
  Budget <- SignalBudget
PROPERTIES SignalHandlerCleansUp
CHECK_DEADLOCK FALSE

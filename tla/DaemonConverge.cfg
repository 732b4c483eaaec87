SPECIFICATION FairSpec
CONSTANTS
  NilMap = NilMap
  Absent = Absent
  Tombstone = Tombstone
  NoDevice = NoDevice
  Configs <- OddConfigs
  localIP = "n1"
  localSubnet = "l1"
  nonClusterSubnet = {"x1"}
  insideNAT = {}
  remap <- MCRemap
  Network <- MCNetwork
  tunnelled = {"l2"}
  conflict = {"k1"}
  lookalike <- MCLookalike
  Devices = {"eth0"}
  Budget <- HelmBudget
INVARIANTS ExactWhenIdle SavedMatchesOld DuplicatesPerCrash
PROPERTIES Converges RestartHeals
CHECK_DEADLOCK FALSE

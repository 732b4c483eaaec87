SPECIFICATION Spec
CONSTANTS
  NilMap = NilMap
  Absent = Absent
  Tombstone = Tombstone
  NoDevice = NoDevice
  Configs <- UpdateConfigs
  localIP = "n1"
  localSubnet = "l1"
  nonClusterSubnet = {"x1"}
  insideNAT = {}
  remap <- MCRemap
  Network <- MCNetwork
  tunnelled = {"l2"}
  conflict = {"k1"}
  lookalike <- MCLookalike
  Devices = {"eth0"}
  Budget <- UpdateBudget
INVARIANTS TypeOK ExactWhenIdle OneConfiguration DuplicatesPerCrash FailureStaysLocal
PROPERTIES ShutdownClean WakeAfterSNAT ImplementsRouteSync
CHECK_DEADLOCK FALSE

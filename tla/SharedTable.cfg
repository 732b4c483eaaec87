SPECIFICATION Spec
CONSTANTS
  NilMap = NilMap
  Absent = Absent
  Tombstone = Tombstone
  NoDevice = NoDevice
  ConfigsA <- MCConfigsA
  ConfigsB <- MCConfigsB
  BudgetA <- MCBudgetA
  BudgetB <- MCBudgetB
  localIP = "n1"
  localSubnet = "l1"
  nonClusterSubnet = {}
  insideNAT = {}
  remap <- MCRemap
  Network <- MCRemap
  tunnelled = {"l2"}
  conflict = {}
  lookalike <- MCLookalike
  Devices = {"eth0"}
INVARIANTS SharedExact
CHECK_DEADLOCK FALSE

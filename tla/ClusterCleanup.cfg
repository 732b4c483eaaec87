SPECIFICATION FairSpec
CONSTANTS
  N = 2
  Nodes = {"n1"}
  nodeOf <- OnNode
  connectUsingVip = TRUE
  poolSubnets = {}
  gateway = "gw"
  monitoring = TRUE
  Budget <- CleanupBudget
INVARIANTS TypeOK PoolsCleanedUp
PROPERTIES SignalEndsPod
CHECK_DEADLOCK FALSE

SPECIFICATION KubeletSpec
CONSTANTS
  N = 3
  Nodes = {"n1"}
  nodeOf <- OnNode
  connectUsingVip = TRUE
  poolSubnets = {}
  gateway = "gw"
  monitoring = FALSE
  Budget <- RolloutBudget
INVARIANTS WakeUpComes
PROPERTIES IpsecAfterSNAT RollsOut
CHECK_DEADLOCK FALSE

SPECIFICATION KubeletSpec
CONSTANTS
  N = 1
  Nodes = {"n1"}
  nodeOf <- OnNode
  connectUsingVip = TRUE
  poolSubnets = {}
  gateway = "gw"
  monitoring = FALSE
  Budget <- ProbeBudget
PROPERTIES VpnComesBack
CHECK_DEADLOCK FALSE

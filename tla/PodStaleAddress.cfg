SPECIFICATION Spec
CONSTANTS
  Addr <- MCAddr
  Subnet <- MCSubnet
  InSubnet <- MCInSubnet
  NotNumber = {"abc"}
  Size <- MCSize
  Settings <- MCSettings
  PodIP = "pod"
  WorkerIP = "node"
  LBAddr = {"lb1", "lb2"}
  Table <- MCTable
  Aligned <- MCAligned
  HostSubnet <- MCHostSubnet
  podRetryCount = 3
  serviceRetryCount = 2
  Pending = Pending
  Hostname = Hostname
  Faults = 1
INVARIANTS RequestedAddress
CHECK_DEADLOCK FALSE

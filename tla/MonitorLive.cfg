SPECIFICATION FairSpec
CONSTANTS
  SAs = {"sa1", "sa2"}
  Tests = {"ping"}
  Warmup = 1
  Grace = 3
  Delay = 4
INVARIANTS TypeOK
PROPERTIES DownAfterGrace DownOncePerReport TestsWhileUp StopsWhenDown
CHECK_DEADLOCK FALSE

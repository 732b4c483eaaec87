--------------------------- MODULE MCSharedTable ---------------------------
(* Two releases on the node n1: the VPN pod of A is on n2 or here, that of B *)
(* on n3, then here.  Both have table 200.                                   *)
EXTENDS SharedTable, TLC

Config(worker, pod, remote, local, gw) ==
  [worker |-> worker, pod |-> pod, remote |-> {remote}, local |-> local,
   table |-> 200, usingLB |-> TRUE, gw |-> gw, lbip |-> "lb", workerSubnet |-> "l1"]

MCConfigsA == {Config("n2", "p1", "r1", {"l2"}, "gw1"), Config("n1", "p2", "r1", {"l2"}, "gw1")}
MCConfigsB == {Config("n3", "p3", "r2", {"l1"}, "gw1"), Config("n1", "p4", "r2", {"l1"}, "gw1")}

MCSubnets == {"r1", "r2", "l1", "l2"}
MCRemap == [s \in MCSubnets |-> s]
MCLookalike == [s \in MCSubnets \cup {"all"} |-> {s}]

Bound(b) ==
  [e \in {"publish", "helm", "kill", "signal", "relist", "calico", "fail"} |->
     IF e \in DOMAIN b THEN b[e] ELSE 0]

MCBudgetA == Bound([publish |-> 2, signal |-> 1])
RaceBudgetA == Bound([publish |-> 2])
MCBudgetB == Bound([publish |-> 1, helm |-> 1])
=============================================================================

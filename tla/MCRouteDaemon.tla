--------------------------- MODULE MCRouteDaemon ---------------------------
(* Instances of RouteDaemon for TLC: the node n1, the worker nodes n2, n3. *)
EXTENDS RouteDaemon, TLC

Config(worker, pod, remote, table, usingLB) ==
  [worker |-> worker, pod |-> pod, remote |-> remote, local |-> {"l1", "l2"},
   table |-> table, usingLB |-> usingLB, gw |-> "gw", lbip |-> "lb",
   workerSubnet |-> "l1"]

\* the VPN pod here; here again after it was replaced; on another node
Here == Config("n1", "p1", {"r2"}, 200, TRUE)
HereAgain == Config("n1", "p2", {"r1"}, 200, TRUE)
There == Config("n2", "p3", {"r1", "r2"}, 200, TRUE)
ThereFewer == Config("n2", "p3", {"r1"}, 200, TRUE)
ThereToo == Config("n3", "p4", {"r1", "r2"}, 200, FALSE)
HostNet == Config("n1", "n1", {"r1", "r2"}, 200, FALSE)
Clash == Config("n2", "p5", {"k1"}, 200, FALSE)

Incomplete == [There EXCEPT !.workerSubnet = ""]

UpdateConfigs == {Here, ThereFewer, HostNet}
OddConfigs == {HereAgain, Clash, Incomplete}
MovedConfigs == {There, ThereToo}
TwoConfigs == {HereAgain, There}

MCSubnets == {"r1", "r2", "m2", "k1", "l1", "l2", "x1"}
MCRemap == [s \in MCSubnets |-> IF s = "r2" THEN "m2" ELSE s]
MCNetwork == [s \in MCSubnets |-> s]
MCLookalike == [s \in MCSubnets \cup {"all"} |-> {s}]

Events == {"publish", "helm", "kill", "signal", "relist", "calico", "fail"}
Bound(b) == [e \in Events |-> IF e \in DOMAIN b THEN b[e] ELSE 0]

\* callbacks and the signal handler, nothing failing
SignalBudget == Bound([publish |-> 3, signal |-> 1])
\* the config map is deleted and created again, events are lost
HelmBudget == Bound([publish |-> 2, helm |-> 2, kill |-> 1, signal |-> 1, relist |-> 1])
\* a crash, a signal, a command that fails, a route to a worker node that moves
UpdateBudget == Bound([publish |-> 2, helm |-> 1, kill |-> 1, signal |-> 1, calico |-> 1, fail |-> 1])
\* the VPN pod moves, and Calico withdraws the route to its old node
MoveBudget == Bound([publish |-> 2, calico |-> 1])
=============================================================================

---------------------------- MODULE MCVpnCluster ----------------------------
(* Instances of VpnCluster for TLC: one to three revisions on one node, as   *)
(* a daemon is concerned with the pods of its own node.                      *)
EXTENDS VpnCluster

OnNode == [p \in Pods |-> "n1"]

Bound(b) == [e \in Events |-> IF e \in DOMAIN b THEN b[e] ELSE 0]

\* one upgrade that does not wait for a ready pod, one command of calicoctl that
\* fails, one watch that breaks
RolloutBudget == Bound([early |-> 1, fail |-> 1, relist |-> 1])
\* a crash of ipsec or of a container, and a probe that fails
CleanupBudget == Bound([crash |-> 1, probe |-> 1])
\* a crash; the liveness probe fails as often as need be
ProbeBudget == Bound([crash |-> 1, probe |-> -1])
=============================================================================

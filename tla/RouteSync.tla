----------------------------- MODULE RouteSync -----------------------------
(***************************************************************************)
(* What a route daemon promises, without its goroutines, its commands, its *)
(* config map or its crashes: the entries in the kernel of a worker node   *)
(* go from one configuration to the next through the empty kernel.  First  *)
(* entries are only removed, until there are none; then those of the next  *)
(* configuration are added, until all are there.  No entry is removed and  *)
(* added again, and no two configurations are ever mixed.                  *)
(*                                                                         *)
(* When something has happened that the code makes no provision for (a     *)
(* crash between two commands, a signal during a callback, a route that    *)
(* Calico moved) the promise is off: the state is "spoilt" from then on.   *)
(***************************************************************************)
CONSTANT Configurations    \* sets of entries the kernel may be asked to hold

VARIABLES
  phase,    \* "settled", "removing", "adding" or "spoilt"
  want,     \* the configuration that is, or is to be, in the kernel
  kernel    \* the entries in the kernel

vars == <<phase, want, kernel>>

Init == phase = "settled" /\ want = {} /\ kernel = {}

StartRemoving ==
  /\ phase = "settled" /\ phase' = "removing"
  /\ want' = {} /\ UNCHANGED kernel

Remove ==
  /\ phase = "removing"
  /\ \E e \in kernel : kernel' = kernel \ {e}
  /\ UNCHANGED <<phase, want>>

StartAdding ==
  /\ phase \in {"settled", "removing"} /\ kernel = {}
  /\ phase' = "adding" /\ want' \in Configurations \cup {{}}
  /\ UNCHANGED kernel

Add ==
  /\ phase = "adding"
  /\ \E e \in want \ kernel : kernel' = kernel \cup {e}
  /\ UNCHANGED <<phase, want>>

Settle ==
  /\ phase = "adding" /\ kernel = want
  /\ phase' = "settled" /\ UNCHANGED <<want, kernel>>

\* The daemon stops, or has nothing to serve
Rest ==
  /\ kernel = {} /\ phase # "spoilt"
  /\ phase' = "settled" /\ want' = {} /\ UNCHANGED kernel

Spoil == phase' = "spoilt" /\ want' = {} /\ kernel' = {}

Next == StartRemoving \/ Remove \/ StartAdding \/ Add \/ Settle \/ Rest \/ Spoil

Spec == Init /\ [][Next]_vars

-----------------------------------------------------------------------------
\* Type invariant, and what it comes to: a settled kernel holds one whole
\* configuration, and one that is being added to holds nothing else.
TypeOK ==
  /\ phase \in {"settled", "removing", "adding", "spoilt"}
  /\ want \in Configurations \cup {{}}
  /\ phase = "settled" => kernel = want
  /\ phase = "adding" => kernel \subseteq want
=============================================================================

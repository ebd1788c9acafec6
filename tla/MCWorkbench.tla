----------------------------- MODULE MCWorkbench -----------------------------
(* Instances of the workbench: two decisions over three starts, so that one   *)
(* write carries what another left in memory and leases outlive two restarts. *)
EXTENDS Workbench, TLC

CONSTANTS d1, d2

Alike == Permutations(Digest)
=============================================================================

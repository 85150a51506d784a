---------------------------- MODULE MCController ----------------------------
(* Instances of ProvisionController for TLC. *)
EXTENDS ProvisionController, TLC

\* For runs of safety properties only.
Symmetry == Permutations(Controllers) \cup Permutations(Ops) \cup Permutations(Assets)
=============================================================================

----------------------------- MODULE MCZmfCore -----------------------------
(***************************************************************************)
(* ZmfCore on a small instance.  Dependencies are model values that no     *)
(* definition tells apart, so permuting them is sound for the invariants.  *)
(***************************************************************************)
EXTENDS ZmfCore, TLC

DependencySymmetry == Permutations(Dependencies)
=============================================================================

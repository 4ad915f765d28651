---------------------------- MODULE MCWorkspace ----------------------------
(* Model-checking instance of Workspace. *)
EXTENDS Workspace, TLC

CONSTANTS v1, v2

Symmetry == Permutations(Views)

\* A threshold below the maximum and one above it.
SmallLimits == {<<3, 2>>, <<3, 4>>}
=============================================================================

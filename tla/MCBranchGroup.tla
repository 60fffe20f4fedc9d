--------------------------- MODULE MCBranchGroup ---------------------------
(* Two branches of two requests each; see the .cfg files for the bounds.   *)
EXTENDS BranchGroup, TLC

BranchSymmetry == Permutations(Branches)

=============================================================================

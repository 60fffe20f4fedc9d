------------------------ MODULE MCFactoryTransaction ------------------------
(* Two factory processes, two releases, a chat of two messages and two     *)
(* faults: enough for a fault inside the recovery from a fault.            *)
EXTENDS FactoryTransaction, TLC

CONSTANTS p1, p2, a, b

Symmetry == Permutations(Procs) \cup Permutations(Releases)
=============================================================================

--------------------------- MODULE MCLockFreeQueue ---------------------------
(* LockFreeQueue on three producers, two values and five cells: a cell is   *)
(* reused while other pushes are half finished.                            *)
EXTENDS LockFreeQueue, TLC

Symmetry == Permutations(Producers) \cup Permutations(Items) \cup Permutations(Cells)

=============================================================================

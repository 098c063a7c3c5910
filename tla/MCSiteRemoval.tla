--------------------------- MODULE MCSiteRemoval ----------------------------
(* Instances of SiteRemoval for TLC.                                       *)
EXTENDS SiteRemoval, TLC

Symmetry == Permutations(Worker) \cup Permutations(Task) \cup Permutations(Sweeper)
=============================================================================

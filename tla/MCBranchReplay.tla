--------------------------- MODULE MCBranchReplay ---------------------------
(* Three branches and two forks at a time: a fork of a fork, of itself and of *)
(* a branch nobody wrote to, each overtaken by another.                       *)
EXTENDS BranchReplay, TLC

Symmetry == Permutations(Branches) \cup Permutations(Forkers)
=============================================================================

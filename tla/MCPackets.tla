----------------------------- MODULE MCPackets -----------------------------
(* Two branches and texts of two lengths: one that always fits and one that   *)
(* no packet has room for.  Lengths are scaled down: a body may have eight    *)
(* (an envelope of twelve less margin and head), large text starts above      *)
(* three, and an event is stale after two others.                             *)
EXTENDS Packets, TLC

Symmetry == Permutations(Branches)
=============================================================================

------------------------------- MODULE MCDream -------------------------------
(***************************************************************************)
(* A small process for TLC, and the views of what it has recorded.         *)
(***************************************************************************)
EXTENDS Dream, TLC

CONSTANT Task

Turn  == [topics |-> {TurnTopic}, size |-> 2]
Consult == [topics |-> {Task}, size |-> 3]

MCWritings == {Turn, Consult}

RequestSymmetry == Permutations(Requests)

=============================================================================

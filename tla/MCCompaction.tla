---------------------------- MODULE MCCompaction ----------------------------
(***************************************************************************)
(* A small session for TLC.  The replies are every tree of up to four nodes *)
(* in every pattern of equal ids, and some that are wrong otherwise.        *)
(***************************************************************************)
EXTENDS Compaction, SequencesExt

\* The parents of a tree's nodes, children first.
Shapes == {
  <<0>>,
  <<2, 0>>,
  <<3, 3, 0>>,       <<2, 3, 0>>,
  <<2, 4, 4, 0>>,    <<4, 3, 4, 0>>}

\* A node gets the id of an earlier one or the next unused id.
IdPatterns(n) ==
  {ids \in [1..n -> 1..n] :
     \A i \in 1..n : ids[i] = 1 \/ \E j \in 1..(i - 1) : ids[j] \in {ids[i], ids[i] - 1}}

Tier == <<"root", "section", "cluster", "event", "event">>

Tree(shape, ids) ==
  LET bare == [i \in DOMAIN shape |-> [up |-> shape[i]]]
  IN  [i \in DOMAIN shape |->
         [id |-> ids[i], kind |-> Tier[Level(bare)[i] + 1], up |-> shape[i],
          refs |-> {i} \cap {1}, sound |-> TRUE]]

Trees == UNION {{Tree(shape, ids) : ids \in IdPatterns(Len(shape))} : shape \in Shapes}

Chain == Tree(<<2, 3, 0>>, <<1, 2, 3>>)

WrongReplies == {
  [Chain EXCEPT ![3].kind = "section"],
  [Chain EXCEPT ![1].kind = "event"],
  [Chain EXCEPT ![2].kind = "chapter"],
  [Chain EXCEPT ![1].sound = FALSE],
  Tree(<<2, 3, 4, 5, 0>>, <<1, 2, 3, 4, 5>>)}

MCReplies == Trees \cup WrongReplies

\* Which branch is which makes no difference.
BranchSymmetry == Permutations(Branches)

\* The response schema does not make a reply valid, and valid ones exist.
ASSUME SchemaIsNotEnough ==
  /\ \E r \in MCReplies : SchemaAdmits(r) /\ ~Valid(Parse(r))
  /\ \E r \in MCReplies : Len(r) = 4 /\ Valid(Parse(r))

=============================================================================

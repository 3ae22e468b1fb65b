------------------------------ MODULE Leaflet ------------------------------
(***************************************************************************)
(* The memory leaflet: internal/compactor/schema.go.  A model's reply is a *)
(* tree of nodes; ParseGeminiResponse flattens it into a map from ids to   *)
(* leaves and Validate walks that map from the root.                       *)
(*                                                                         *)
(* A reply is the sequence of its nodes in the order flattenGeminiNode     *)
(* stores them: children first, the root last.  Of a node it keeps the id, *)
(* the kind, the place of its parent in the sequence (0 for the root), the *)
(* events it refers to, and whether its content passes MemoryLeaf.Validate *)
(* (an id, some content, an importance within bounds).  Ids are compared   *)
(* only, refs are collected.                                               *)
(***************************************************************************)
EXTENDS Naturals, Sequences, FiniteSets

CONSTANT NoParent   \* the empty parent id

\* MaxASTDepth
MaxDepth == 4

\* The kinds with the depth each must have.
KindDepth == [event |-> 0, cluster |-> 1, section |-> 2, root |-> 3]
LeafKinds == DOMAIN KindDepth

-----------------------------------------------------------------------------
(* Replies *)

\* What flattenGeminiNode's order makes of any nested reply: a node comes after
\* its children, the root after all others.  MemoryLeaf.Validate lets no empty id
\* pass.
IsTree(reply) ==
  /\ Len(reply) \in Nat \ {0} /\ DOMAIN reply = 1..Len(reply)
  /\ \A i \in DOMAIN reply :
       /\ reply[i].up \in IF i = Len(reply) THEN {0} ELSE (i + 1)..Len(reply)
       /\ reply[i].sound => reply[i].id # NoParent

\* How far below the root a node is.
Level(reply) ==
  LET level[i \in DOMAIN reply] ==
        IF reply[i].up = 0 THEN 0 ELSE level[reply[i].up] + 1
  IN  level

\* A set of places as the sequence of them in their order.
InOrder(places) ==
  [k \in 1..Cardinality(places) |->
     CHOOSE i \in places : Cardinality({j \in places : j < i}) = k - 1]

\* The places of a node's children, in the reply's order.
ChildrenAt(reply, i) == InOrder({j \in DOMAIN reply : reply[j].up = i})

\* What the response schema admits, whose nodes are nested at most to the
\* depth of the leaves and have one of the four kinds; ids are not unique by
\* it and a kind may stand at any depth.
SchemaAdmits(reply) ==
  \A i \in DOMAIN reply :
    /\ reply[i].kind \in LeafKinds
    /\ Level(reply)[i] < MaxDepth

-----------------------------------------------------------------------------
(* ParseGeminiResponse *)

\* parseLeafKind fails on a kind that is none of the four.
Parses(reply) == \A i \in DOMAIN reply : reply[i].kind \in LeafKinds

\* Depth counts from the events up; deeper levels all get depth 0.
FibDepth(level) == IF level < MaxDepth THEN MaxDepth - 1 - level ELSE 0

LeafAt(reply, i) ==
  [kind     |-> reply[i].kind,
   depth    |-> FibDepth(Level(reply)[i]),
   parent   |-> IF reply[i].up = 0 THEN NoParent ELSE reply[reply[i].up].id,
   children |-> [c \in DOMAIN ChildrenAt(reply, i) |-> reply[ChildrenAt(reply, i)[c]].id],
   refs     |-> reply[i].refs,
   sound    |-> reply[i].sound]

\* Leaves are stored under their ids: of two nodes with one id the later stays.
Leaves(reply) ==
  [id \in {reply[i].id : i \in DOMAIN reply} |->
     LeafAt(reply, CHOOSE i \in DOMAIN reply :
                     /\ reply[i].id = id
                     /\ \A j \in DOMAIN reply : reply[j].id = id => j <= i)]

Parse(reply) == [root |-> reply[Len(reply)].id, leaves |-> Leaves(reply)]

\* EventCoverage, as a set.
EventCoverage(ast) == UNION {ast.leaves[id].refs : id \in DOMAIN ast.leaves}

-----------------------------------------------------------------------------
(* Validate *)

LeafValid(leaf) == leaf.sound /\ leaf.depth = KindDepth[leaf.kind]

ParentFits(leaves, leaf) ==
  leaf.parent # NoParent =>
    /\ leaf.parent \in DOMAIN leaves
    /\ leaves[leaf.parent].depth = leaf.depth + 1

\* Mutant of ValidSubtree: an id is remembered on the way down only, so it
\* finds circles and no id that stands twice.
ValidSubtreeByPath(leaves, id) ==
  LET walk[at \in DOMAIN leaves, path \in SUBSET DOMAIN leaves] ==
        /\ at \notin path
        /\ LeafValid(leaves[at])
        /\ ParentFits(leaves, leaves[at])
        /\ \A c \in DOMAIN leaves[at].children :
             walk[leaves[at].children[c], path \cup {at}]
  IN  walk[id, {}]

\* validateSubtree, with the stack of its recursion: what is still to be
\* visited, and the ids visited so far in the whole walk.
ValidSubtree(leaves, id) ==
  LET walk[at \in Seq(DOMAIN leaves) \X SUBSET DOMAIN leaves] ==
        LET todo    == at[1]
            visited == at[2]
            leaf    == leaves[Head(todo)]
        IN  todo # <<>> =>
              /\ Head(todo) \notin visited
              /\ LeafValid(leaf)
              /\ ParentFits(leaves, leaf)
              /\ walk[<<leaf.children \o Tail(todo), visited \cup {Head(todo)}>>]
  IN  walk[<<<<id>>, {}>>]

\* TokenAST.Validate
Valid(ast) ==
  /\ ast.root \in DOMAIN ast.leaves
  /\ LeafValid(ast.leaves[ast.root])
  /\ ast.leaves[ast.root].kind = "root"
  /\ ValidSubtree(ast.leaves, ast.root)

-----------------------------------------------------------------------------
(* What validation is for *)

\* A tree of the four tiers: ids are unique and every node is sound and of the
\* kind of its tier.
IsLeaflet(reply) ==
  /\ \A i, j \in DOMAIN reply : reply[i].id = reply[j].id => i = j
  /\ \A i \in DOMAIN reply :
       /\ reply[i].sound
       /\ reply[i].kind \in LeafKinds
       /\ Level(reply)[i] + KindDepth[reply[i].kind] = MaxDepth - 1

=============================================================================

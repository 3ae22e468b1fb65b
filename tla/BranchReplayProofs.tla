------------------------- MODULE BranchReplayProofs -------------------------
(***************************************************************************)
(* The branch graph for any number of branches and forks and a spine of    *)
(* any length: a forest, stable under growth, whose heads are the spine's. *)
(***************************************************************************)
EXTENDS BranchReplay, WellFoundedInduction, TLAPS

\* A dirty range, if the branch has one, ends at the branch's head.
EndsAtHead(b) == b.dirty # <<>> => b.dirty[2] = b.head

Typed(g) == DOMAIN g \subseteq Branches /\ \A b \in DOMAIN g : g[b] \in Branch

\* A new branch of h hangs below the parent that the fork e names.
Hangs(g, e, h, b) ==
  /\ b = e.branch /\ e.kind = "branch.fork" /\ b # e.parent
  /\ e.parent \in DOMAIN h
  /\ h[b].parent = e.parent /\ h[b].forkEvent = e.point
  /\ h[b].head = h[e.parent].head /\ h[b].base = h[e.parent].base
  /\ h[b].dirty = h[e.parent].dirty
  /\ e.parent \notin DOMAIN g => h[e.parent] = NewBranch

\* h is g with the branches of the event e.
OpensTo(g, e, h) ==
  /\ Typed(h)
  /\ DOMAIN g \subseteq DOMAIN h /\ e.branch \in DOMAIN h
  /\ \A b \in DOMAIN g : h[b] = g[b]
  /\ \A b \in DOMAIN h \ DOMAIN g :
       (h[b] = NewBranch /\ b \in {e.branch, e.parent}) \/ Hangs(g, e, h, b)

\* k is h with the event e, of this id, counted.
ObservesTo(h, e, id, k) ==
  /\ Typed(k) /\ DOMAIN k = DOMAIN h
  /\ \A b \in DOMAIN h : b # e.branch => k[b] = h[b]
  /\ k[e.branch].parent = h[e.branch].parent
  /\ k[e.branch].forkEvent = h[e.branch].forkEvent
  /\ k[e.branch].head \in {id, e.basis, h[e.branch].head}
  /\ k[e.branch].base \in {id, h[e.branch].base}
  /\ EndsAtHead(h[e.branch]) => EndsAtHead(k[e.branch])
  /\ e.kind \in {"other", "branch.fork"} =>
       k[e.branch].head = id /\ k[e.branch].dirty # <<>>
  /\ e.kind = "summary.rebuild" =>
       k[e.branch].head = IF e.basis = 0 THEN id ELSE e.basis
  /\ e.kind = "summary.checkpoint" => k[e.branch].head = h[e.branch].head

-----------------------------------------------------------------------------
(* Sequences and sets of event ids *)

\* What Append adds to the spine, by index.
LEMMA AppendIndices ==
  ASSUME NEW s \in Seq(Event), NEW e \in Event
  PROVE  /\ Append(s, e) \in Seq(Event) /\ Len(Append(s, e)) = Len(s) + 1
         /\ Len(s) \in Nat /\ DOMAIN s = 1..Len(s)
         /\ DOMAIN Append(s, e) = DOMAIN s \cup {Len(s) + 1}
         /\ \A i \in DOMAIN s : Append(s, e)[i] = s[i]
         /\ Append(s, e)[Len(s) + 1] = e
<1>1. Len(s) \in Nat /\ DOMAIN s = 1..Len(s)
  OBVIOUS
<1>2. Append(s, e) \in Seq(Event) /\ Len(Append(s, e)) = Len(s) + 1
  OBVIOUS
<1>3. DOMAIN Append(s, e) = 1..(Len(s) + 1)
  BY <1>2
<1>4. 1..(Len(s) + 1) = 1..Len(s) \cup {Len(s) + 1}
  BY <1>1
<1>5. \A i \in 1..Len(s) : Append(s, e)[i] = s[i]
  OBVIOUS
<1>6. Append(s, e)[Len(s) + 1] = e
  OBVIOUS
<1> QED
  BY <1>1, <1>2, <1>3, <1>4, <1>5, <1>6, Zenon

\* A set of ids that is not empty has a last one.
LEMMA LastExists ==
  ASSUME NEW n \in Nat, NEW S \in SUBSET (1..n), S # {}
  PROVE  Last(S) \in S /\ \A k \in S : k <= Last(S)
<1> DEFINE T == {n - i : i \in S}
<1>0. PICK x \in S : TRUE
  OBVIOUS
<1>1. T \subseteq Nat /\ T # {}
  <2>1. n - x \in T
    OBVIOUS
  <2>2. \A i \in S : n - i \in Nat
    OBVIOUS
  <2> QED
    BY <2>1, <2>2, Zenon
<1>2. PICK m \in T : \A y \in T : <<y, m>> \notin OpToRel(<, Nat)
  BY <1>1, WFMin, NatLessThanWellFounded, Zenon
<1>3. \A y \in T : ~(y < m)
  BY <1>1, <1>2, Zenon DEF OpToRel
<1>4. PICK i \in S : m = n - i
  OBVIOUS
<1>5. \A k \in S : k <= i
  <2> SUFFICES ASSUME NEW k \in S, ~(k <= i)
               PROVE  FALSE
    OBVIOUS
  <2>1. n - k \in T
    OBVIOUS
  <2>2. n - k < m
    BY <1>4
  <2> QED
    BY <1>3, <2>1, <2>2, Zenon
<1> QED
  BY <1>5 DEF Last

\* It has a first one too.
LEMMA FirstExists ==
  ASSUME NEW S \in SUBSET Nat, S # {}
  PROVE  \E i \in S : \A k \in S : i <= k
<1>1. PICK i \in S : \A k \in S : <<k, i>> \notin OpToRel(<, Nat)
  BY WFMin, NatLessThanWellFounded, Zenon
<1>2. \A k \in S : ~(k < i)
  BY <1>1, Zenon DEF OpToRel
<1> QED
  BY <1>2

\* The last of the ids is the one above all others.
LEMMA LastIs ==
  ASSUME NEW S \in SUBSET Nat, NEW m \in S, \A k \in S : k <= m
  PROVE  Last(S) = m
<1>1. Last(S) \in S /\ \A k \in S : k <= Last(S)
  BY Zenon DEF Last
<1> HIDE DEF Last
<1>2. Last(S) \in Nat /\ Last(S) <= m /\ m <= Last(S)
  BY <1>1
<1> QED
  BY <1>2

-----------------------------------------------------------------------------
(* The graph's operations *)

LEMMA EnsureFacts ==
  ASSUME NEW g, Typed(g), NEW n \in Branches
  PROVE  /\ Typed(EnsureBranch(g, n))
         /\ DOMAIN EnsureBranch(g, n) = DOMAIN g \cup {n}
         /\ \A b \in DOMAIN g : EnsureBranch(g, n)[b] = g[b]
         /\ n \notin DOMAIN g => EnsureBranch(g, n)[n] = NewBranch
<1>1. NewBranch \in Branch
  BY DEF NewBranch, Branch, Ranges
<1> QED
  BY <1>1 DEF EnsureBranch, With, Typed

\* A fork leaves the branches that exist alone, its child too if it exists.
LEMMA ForkFacts ==
  ASSUME NEW g, Typed(g), NEW child \in Branches, NEW parent \in DOMAIN g,
         NEW point \in Nat
  PROVE  /\ Typed(ForkBranch(g, child, parent, point))
         /\ DOMAIN ForkBranch(g, child, parent, point) = DOMAIN g \cup {child}
         /\ \A b \in DOMAIN g : ForkBranch(g, child, parent, point)[b] = g[b]
<1> DEFINE c == [g[parent] EXCEPT !.parent = parent, !.forkEvent = point]
<1>1. g[parent] \in Branch /\ parent \in Branches
  BY DEF Typed
<1>2. c \in Branch
  BY <1>1 DEF Branch
<1>3. ForkBranch(g, child, parent, point) = IF child \in DOMAIN g THEN g ELSE With(g, child, c)
  BY DEF ForkBranch
<1> HIDE DEF c
<1> QED
  BY <1>2, <1>3 DEF With, Typed

\* A new child hangs below its parent and starts where the parent stands.
LEMMA ForkChild ==
  ASSUME NEW g, Typed(g), NEW child \in Branches, child \notin DOMAIN g,
         NEW parent \in DOMAIN g, NEW point \in Nat
  PROVE  /\ ForkBranch(g, child, parent, point)[child].parent = parent
         /\ ForkBranch(g, child, parent, point)[child].forkEvent = point
         /\ ForkBranch(g, child, parent, point)[child].head = g[parent].head
         /\ ForkBranch(g, child, parent, point)[child].base = g[parent].base
         /\ ForkBranch(g, child, parent, point)[child].dirty = g[parent].dirty
<1> DEFINE c == [g[parent] EXCEPT !.parent = parent, !.forkEvent = point]
<1>1. g[parent] \in Branch
  BY DEF Typed
<1>2. /\ c.parent = parent /\ c.forkEvent = point
      /\ c.head = g[parent].head /\ c.base = g[parent].base
      /\ c.dirty = g[parent].dirty
  BY <1>1 DEF Branch
<1>3. ForkBranch(g, child, parent, point) = With(g, child, c)
  BY DEF ForkBranch
<1> HIDE DEF c
<1>4. With(g, child, c)[child] = c
  BY DEF With
<1> QED
  BY <1>2, <1>3, <1>4

\* What the branches of an event are before the event itself is counted.
LEMMA OpenedFacts ==
  ASSUME NEW g, Typed(g), NEW e, e.branch \in Branches,
         e.parent \in Branches \cup {None}, e.point \in Nat
  PROVE  OpensTo(g, e, Opened(g, e))
<1>0. e.branch \in Branches /\ e.point \in Nat /\ e.parent \in Branches \cup {None}
  OBVIOUS
<1>1. CASE e.kind = "branch.fork" /\ e.parent # None
  <2>0. PICK k, h : /\ k = EnsureBranch(g, e.parent)
                    /\ h = ForkBranch(k, e.branch, e.parent, e.point)
    OBVIOUS
  <2>1. /\ Typed(k) /\ DOMAIN k = DOMAIN g \cup {e.parent}
        /\ \A b \in DOMAIN g : k[b] = g[b]
        /\ e.parent \notin DOMAIN g => k[e.parent] = NewBranch
    BY <1>0, <1>1, <2>0, EnsureFacts
  <2>2. Opened(g, e) = h
    BY <1>1, <2>0 DEF Opened
  <2>3. /\ Typed(h) /\ DOMAIN h = DOMAIN k \cup {e.branch}
        /\ \A b \in DOMAIN k : h[b] = k[b]
        /\ e.branch \notin DOMAIN k =>
             /\ h[e.branch].parent = e.parent /\ h[e.branch].forkEvent = e.point
             /\ h[e.branch].head = k[e.parent].head /\ h[e.branch].base = k[e.parent].base
             /\ h[e.branch].dirty = k[e.parent].dirty
    <3>1. PICK c, p, q : c = e.branch /\ p = e.parent /\ q = e.point
      OBVIOUS
    <3>2. /\ c \in Branches /\ p \in DOMAIN k /\ q \in Nat
          /\ Typed(k) /\ h = ForkBranch(k, c, p, q)
      BY <1>0, <2>0, <2>1, <3>1
    <3>3. /\ Typed(h) /\ DOMAIN h = DOMAIN k \cup {c}
          /\ \A b \in DOMAIN k : h[b] = k[b]
      BY <3>2, ForkFacts
    <3>4. ASSUME c \notin DOMAIN k
          PROVE  /\ h[c].parent = p /\ h[c].forkEvent = q
                 /\ h[c].head = k[p].head /\ h[c].base = k[p].base
                 /\ h[c].dirty = k[p].dirty
      BY <3>2, <3>4, ForkChild
    <3> QED
      BY <3>1, <3>3, <3>4
  <2>4. \A b \in DOMAIN h \ DOMAIN g : b \in {e.branch, e.parent}
    BY <2>1, <2>3
  <2>5. \A b \in DOMAIN g : h[b] = g[b]
    BY <2>1, <2>3
  <2>6. ASSUME NEW b \in DOMAIN h \ DOMAIN g
        PROVE  (h[b] = NewBranch /\ b \in {e.branch, e.parent}) \/ Hangs(g, e, h, b)
    <3>1. CASE b = e.parent
      BY <2>1, <2>3, <2>6, <3>1, Zenon
    <3>2. CASE b # e.parent
      <4>1. b = e.branch /\ e.branch \notin DOMAIN k
        BY <2>1, <2>4, <2>6, <3>2, Zenon
      <4> QED
        BY <1>1, <2>1, <2>3, <3>2, <4>1, Zenon DEF Hangs
    <3> QED
      BY <3>1, <3>2
  <2> QED
    BY <2>1, <2>2, <2>3, <2>5, <2>6, Zenon DEF OpensTo
<1>2. CASE ~(e.kind = "branch.fork" /\ e.parent # None)
  <2> DEFINE h == EnsureBranch(g, e.branch)
  <2>1. Opened(g, e) = h
    BY <1>2 DEF Opened
  <2>2. /\ Typed(h) /\ DOMAIN h = DOMAIN g \cup {e.branch}
        /\ \A b \in DOMAIN g : h[b] = g[b]
        /\ e.branch \notin DOMAIN g => h[e.branch] = NewBranch
    BY <1>0, EnsureFacts
  <2> HIDE DEF h
  <2> QED
    BY <2>1, <2>2, Zenon DEF OpensTo
<1> QED
  BY <1>1, <1>2

\* The event itself changes its branch only, and not its place in the lineage.
LEMMA ObserveFacts ==
  ASSUME NEW g, Typed(g), NEW e \in Event, NEW id \in Nat
  PROVE  ObservesTo(Opened(g, e), e, id, Observe(g, e, id))
<1> DEFINE h == Opened(g, e)
           b == h[e.branch]
           a == AppendToBranch(b, id)
           c == CASE e.kind = "summary.checkpoint" -> [b EXCEPT !.base = id]
                  [] e.kind = "summary.rebuild" -> RebaseOnSummary(a, id, e.basis)
                  [] OTHER -> a
<1>1. Typed(h) /\ e.branch \in DOMAIN h /\ b \in Branch
  <2>1. e.branch \in Branches /\ e.point \in Nat /\ e.parent \in Branches \cup {None}
    BY DEF Event
  <2> HIDE DEF h
  <2>2. Typed(h) /\ e.branch \in DOMAIN h
    BY <2>1, OpenedFacts DEF h, OpensTo
  <2> QED
    BY <2>2 DEF Typed
<1> HIDE DEF b
<1>2. /\ a \in Branch /\ a.parent = b.parent /\ a.forkEvent = b.forkEvent
      /\ a.head = id /\ a.base = b.base /\ a.dirty # <<>> /\ a.dirty[2] = id
  <2> DEFINE range == IF b.dirty = <<>> THEN <<id, id>> ELSE <<b.dirty[1], id>>
  <2>1. b.dirty \in Ranges
    BY <1>1 DEF Branch
  <2>2. range \in Ranges /\ range # <<>> /\ range[2] = id
    BY <2>1 DEF Ranges
  <2>3. a = [b EXCEPT !.head = id, !.dirty = range]
    BY DEF AppendToBranch
  <2> HIDE DEF range, a
  <2> QED
    BY <1>1, <2>2, <2>3 DEF Branch
<1> HIDE DEF a
<1>3. /\ c \in Branch /\ c.parent = b.parent /\ c.forkEvent = b.forkEvent
      /\ c.head \in {id, e.basis, b.head} /\ c.base \in {id, b.base}
      /\ EndsAtHead(b) => EndsAtHead(c)
      /\ e.kind \in {"other", "branch.fork"} => c.head = id /\ c.dirty # <<>>
      /\ e.kind = "summary.rebuild" => c.head = IF e.basis = 0 THEN id ELSE e.basis
      /\ e.kind = "summary.checkpoint" => c.head = b.head
  <2>0. e.basis \in Nat /\ <<>> \in Ranges /\ e.kind \in Kinds
    BY DEF Event, Ranges
  <2>1. CASE e.kind = "summary.checkpoint"
    BY <1>1, <2>0, <2>1 DEF Branch, EndsAtHead
  <2>2. CASE e.kind = "summary.rebuild"
    BY <1>2, <2>0, <2>2 DEF Branch, RebaseOnSummary, EndsAtHead
  <2>3. CASE e.kind \in {"other", "branch.fork"}
    BY <1>2, <2>3 DEF EndsAtHead
  <2> QED
    BY <2>0, <2>1, <2>2, <2>3 DEF Kinds
<1>4. Observe(g, e, id) = With(h, e.branch, c)
  BY DEF Observe, a, b
<1> HIDE DEF c
<1>5. /\ DOMAIN With(h, e.branch, c) = DOMAIN h
      /\ With(h, e.branch, c)[e.branch] = c
      /\ \A n \in DOMAIN h : n # e.branch => With(h, e.branch, c)[n] = h[n]
  BY <1>1 DEF With
<1>6. Typed(With(h, e.branch, c))
  BY <1>1, <1>3, <1>5 DEF Typed
<1> HIDE DEF h
<1> QED
  BY <1>3, <1>4, <1>5, <1>6 DEF b, h, ObservesTo

\* Opening and observing together, for the lineage.
LEMMA LineageFacts ==
  ASSUME NEW g, NEW e, NEW h, NEW id, NEW k, OpensTo(g, e, h), ObservesTo(h, e, id, k),
         NEW b \in DOMAIN h
  PROVE  k[b].parent = h[b].parent /\ k[b].forkEvent = h[b].forkEvent
<1>1. CASE b = e.branch
  BY <1>1 DEF ObservesTo
<1>2. CASE b # e.branch
  BY <1>2 DEF ObservesTo
<1> QED
  BY <1>1, <1>2

\* A forest remains one: what is new has no parent, or one that is not new or
\* has none itself.
LEMMA ForestKept ==
  ASSUME NEW g, NEW e, NEW h, NEW id, NEW k, OpensTo(g, e, h), ObservesTo(h, e, id, k),
         \A b \in DOMAIN g : g[b].parent # None => g[b].parent \in DOMAIN g,
         \A S \in (SUBSET DOMAIN g) \ {{}} : \E b \in S : g[b].parent \notin S,
         NEW S \in (SUBSET DOMAIN k) \ {{}}
  PROVE  \E b \in S : k[b].parent \notin S
<1>0. None \notin S
  BY NoneAssumption DEF ObservesTo, Typed
<1>1. S \subseteq DOMAIN h /\ \A b \in S : k[b].parent = h[b].parent
  BY LineageFacts DEF ObservesTo
<1>2. \A b \in DOMAIN g : h[b] = g[b]
  BY DEF OpensTo
<1>3. CASE S \cap DOMAIN g # {}
  <2>1. PICK b \in S \cap DOMAIN g : g[b].parent \notin S \cap DOMAIN g
    BY <1>3
  <2>2. g[b].parent \notin S
    BY <1>0, <2>1
  <2> QED
    BY <1>1, <1>2, <2>1, <2>2
<1>4. CASE S \cap DOMAIN g = {}
  <2>1. ASSUME NEW b \in S
        PROVE  (h[b] = NewBranch /\ b \in {e.branch, e.parent}) \/ Hangs(g, e, h, b)
    BY <1>1, <1>4 DEF OpensTo
  <2>2. NewBranch.parent = None
    BY DEF NewBranch
  <2>3. CASE e.parent \in S
    <3>1. h[e.parent] = NewBranch
      BY <2>1, <2>3 DEF Hangs
    <3> QED
      BY <1>0, <1>1, <2>2, <2>3, <3>1
  <2>4. CASE e.parent \notin S
    <3>1. PICK b \in S : TRUE
      OBVIOUS
    <3>2. h[b].parent \in {None, e.parent}
      BY <2>1, <2>2 DEF Hangs
    <3> QED
      BY <1>0, <1>1, <2>4, <3>2
  <2> QED
    BY <2>3, <2>4
<1> QED
  BY <1>3, <1>4

-----------------------------------------------------------------------------
(* The steps: every event appended, whatever its writer *)

LEMMA AppendFacts ==
  ASSUME TypeOK, NEW e \in Event, AppendEvent(e)
  PROVE  /\ \E h : OpensTo(graph, e, h) /\ ObservesTo(h, e, Len(spine) + 1, graph')
         /\ Len(spine) \in Nat /\ DOMAIN spine = 1..Len(spine)
         /\ spine' \in Seq(Event) /\ Len(spine') = Len(spine) + 1
         /\ Len(spine') <= MaxEvents
         /\ DOMAIN spine' = DOMAIN spine \cup {Len(spine) + 1}
         /\ \A i \in DOMAIN spine : spine'[i] = spine[i]
         /\ spine'[Len(spine) + 1] = e
<1>1. /\ e.branch \in Branches /\ e.point \in Nat
      /\ e.parent \in Branches \cup {None}
  BY DEF Event
<1>2. spine \in Seq(Event) /\ Typed(graph)
  BY DEF TypeOK, Typed
<1>3. /\ Len(spine) < MaxEvents /\ spine' = Append(spine, e)
      /\ graph' = Observe(graph, e, Len(spine) + 1)
  BY DEF AppendEvent
<1>4. Len(spine) \in Nat
  BY <1>2
<1>5. OpensTo(graph, e, Opened(graph, e))
  BY <1>1, <1>2, OpenedFacts
<1>6. ObservesTo(Opened(graph, e), e, Len(spine) + 1, Observe(graph, e, Len(spine) + 1))
  <2>1. Len(spine) + 1 \in Nat
    BY <1>4
  <2> QED
    BY <1>2, <2>1, ObserveFacts
<1>7. /\ spine' \in Seq(Event) /\ Len(spine') = Len(spine) + 1
      /\ DOMAIN spine = 1..Len(spine)
      /\ DOMAIN spine' = DOMAIN spine \cup {Len(spine) + 1}
      /\ \A i \in DOMAIN spine : spine'[i] = spine[i]
      /\ spine'[Len(spine) + 1] = e
  BY <1>2, <1>3, AppendIndices, Zenon
<1>8. Len(spine') <= MaxEvents
  BY <1>3, <1>4, <1>7, BoundAssumption
<1> QED
  BY <1>3, <1>4, <1>5, <1>6, <1>7, <1>8, Zenon

\* A fork's event names its parent and an event of the parent, a summary's a
\* basis that is on the spine.
Sound(e) ==
  /\ e.basis <= Len(spine)
  /\ e.kind = "branch.fork" =>
       /\ e.point <= Len(spine)
       /\ e.point # 0 => spine[e.point].branch = e.parent

LEMMA PointsKept ==
  ASSUME TypeOK, ForkPointsAtParent, NEW e \in Event, AppendEvent(e), Sound(e)
  PROVE  ForkPointsAtParent'
<1> DEFINE id == Len(spine) + 1
<1>1. PICK h : OpensTo(graph, e, h) /\ ObservesTo(h, e, id, graph')
  BY AppendFacts
<1>2. /\ Len(spine) \in Nat /\ DOMAIN spine = 1..Len(spine) /\ Len(spine') = id
      /\ DOMAIN spine' = DOMAIN spine \cup {id}
      /\ \A i \in DOMAIN spine : spine'[i] = spine[i]
      /\ spine'[id] = e
  BY AppendFacts
<1>3. Typed(graph) /\ Typed(h) /\ DOMAIN graph' = DOMAIN h /\ DOMAIN graph \subseteq DOMAIN h
  BY <1>1 DEF OpensTo, ObservesTo, TypeOK, Typed
<1>4. ASSUME NEW b \in DOMAIN h
      PROVE  h[b].head \in 0..Len(spine) /\ h[b].base \in 0..Len(spine)
  <2>1. \A n \in DOMAIN graph : /\ h[n] = graph[n]
                                /\ graph[n].head \in 0..Len(spine)
                                /\ graph[n].base \in 0..Len(spine)
    BY <1>1, <1>2, <1>3 DEF OpensTo, ForkPointsAtParent, Typed, Branch
  <2>2. NewBranch.head \in 0..Len(spine) /\ NewBranch.base \in 0..Len(spine)
    BY <1>2 DEF NewBranch
  <2>3. CASE b \in DOMAIN graph
    BY <2>1, <2>3
  <2>4. CASE b \notin DOMAIN graph
    <3>1. h[b] = NewBranch \/ Hangs(graph, e, h, b)
      BY <1>1, <2>4 DEF OpensTo
    <3> QED
      BY <2>1, <2>2, <3>1, Zenon DEF Hangs
  <2> QED
    BY <2>3, <2>4
<1>5. ASSUME NEW b \in DOMAIN graph'
      PROVE  graph'[b].head <= Len(spine') /\ graph'[b].base <= Len(spine')
  <2>0. e.basis \in 0..Len(spine)
    BY <1>2 DEF Sound, Event
  <2>1. CASE b # e.branch
    <3>1. graph'[b] = h[b] /\ b \in DOMAIN h
      BY <1>1, <1>3, <2>1 DEF ObservesTo
    <3> QED
      BY <1>2, <1>4, <3>1
  <2>2. CASE b = e.branch
    <3>1. /\ graph'[b].head \in {id, e.basis, h[b].head}
          /\ graph'[b].base \in {id, h[b].base} /\ b \in DOMAIN h
      BY <1>1, <1>3, <2>2 DEF ObservesTo
    <3>2. h[b].head \in 0..Len(spine) /\ h[b].base \in 0..Len(spine)
      BY <1>4, <3>1
    <3> QED
      BY <1>2, <2>0, <3>1, <3>2
  <2> QED
    BY <2>1, <2>2
<1>6. ASSUME NEW b \in DOMAIN graph', graph'[b].parent # None
      PROVE  graph'[b].parent \in DOMAIN graph'
  <2>1. b \in DOMAIN h /\ h[b].parent # None /\ graph'[b].parent = h[b].parent
    BY <1>1, <1>3, <1>6, LineageFacts
  <2>2. CASE b \in DOMAIN graph
    <3>1. h[b] = graph[b]
      BY <1>1, <2>2 DEF OpensTo
    <3>2. graph[b].parent \in DOMAIN graph
      BY <2>1, <2>2, <3>1 DEF ForkPointsAtParent
    <3> QED
      BY <1>3, <2>1, <3>1, <3>2
  <2>3. CASE b \notin DOMAIN graph
    <3>1. h[b] = NewBranch \/ Hangs(graph, e, h, b)
      BY <1>1, <2>1, <2>3 DEF OpensTo
    <3> QED
      BY <1>3, <2>1, <3>1 DEF Hangs, NewBranch
  <2> QED
    BY <2>2, <2>3
<1>7. ASSUME NEW b \in DOMAIN graph', graph'[b].forkEvent # 0
      PROVE  \E i \in DOMAIN spine' :
               /\ spine'[i].kind = "branch.fork" /\ spine'[i].branch = b
               /\ graph'[b].forkEvent < i
               /\ spine'[graph'[b].forkEvent].branch = graph'[b].parent
  <2>1. /\ b \in DOMAIN h /\ h[b].forkEvent # 0 /\ h[b].forkEvent \in Nat
        /\ graph'[b].parent = h[b].parent /\ graph'[b].forkEvent = h[b].forkEvent
    <3>1. b \in DOMAIN h /\ h[b] \in Branch
      BY <1>3 DEF Typed
    <3> QED
      BY <1>1, <1>7, <3>1, LineageFacts DEF Branch
  <2>2. CASE b \in DOMAIN graph
    <3>1. h[b] = graph[b]
      BY <1>1, <2>2 DEF OpensTo
    <3>2. PICK i \in DOMAIN spine : /\ spine[i].kind = "branch.fork" /\ spine[i].branch = b
                                    /\ graph[b].forkEvent < i
                                    /\ spine[graph[b].forkEvent].branch = graph[b].parent
      BY <2>1, <2>2, <3>1 DEF ForkPointsAtParent
    <3>3. h[b].forkEvent \in DOMAIN spine
      BY <1>2, <2>1, <3>1, <3>2
    <3> QED
      BY <1>2, <2>1, <3>1, <3>2, <3>3
  <2>3. CASE b \notin DOMAIN graph
    <3>1. Hangs(graph, e, h, b)
      BY <1>1, <2>1, <2>3 DEF OpensTo, NewBranch
    <3>2. h[b].forkEvent = e.point /\ h[b].parent = e.parent /\ b = e.branch
          /\ e.kind = "branch.fork"
      BY <3>1 DEF Hangs
    <3>3. e.point \in DOMAIN spine /\ spine[e.point].branch = e.parent
      BY <1>2, <2>1, <3>2 DEF Sound
    <3> QED
      BY <1>2, <2>1, <3>2, <3>3
  <2> QED
    BY <2>2, <2>3
<1> QED
  BY <1>5, <1>6, <1>7 DEF ForkPointsAtParent

LEMMA HeadsKept ==
  ASSUME TypeOK, ForkPointsAtParent, HeadsAgree, NEW e \in Event, AppendEvent(e), Sound(e)
  PROVE  HeadsAgree'
<1> DEFINE id == Len(spine) + 1
<1>1. PICK h : OpensTo(graph, e, h) /\ ObservesTo(h, e, id, graph')
  BY AppendFacts
<1>2. /\ Len(spine) \in Nat /\ DOMAIN spine = 1..Len(spine)
      /\ DOMAIN spine' = DOMAIN spine \cup {id}
      /\ \A i \in DOMAIN spine : spine'[i] = spine[i]
      /\ spine'[id] = e
  BY AppendFacts
<1>3. SUFFICES ASSUME NEW b \in DOMAIN BranchHeads'
               PROVE  /\ b \in DOMAIN graph'
                      /\ IF TakesHead(spine'[BranchHeads'[b]])
                           THEN graph'[b].head = BranchHeads'[b]
                           ELSE graph'[b].head < BranchHeads'[b]
  BY DEF HeadsAgree
<1>4. BranchHeads'[b] = Last(EventsOf(b)')
  BY DEF BranchHeads
<1>5. DOMAIN graph' = DOMAIN h /\ DOMAIN graph \subseteq DOMAIN h /\ e.branch \in DOMAIN h
  BY <1>1 DEF OpensTo, ObservesTo
<1>6. CASE b = e.branch
  <2>1. id \in EventsOf(b)' /\ EventsOf(b)' \in SUBSET Nat
        /\ \A k \in EventsOf(b)' : k <= id
    BY <1>2, <1>6 DEF EventsOf
  <2>2. BranchHeads'[b] = id
    BY <1>4, <2>1, LastIs
  <2>3. TakesHead(spine'[id]) <=> \/ e.kind \in {"other", "branch.fork"}
                                  \/ e.kind = "summary.rebuild" /\ e.basis = 0
    BY <1>2 DEF TakesHead, Counted
  <2>4. e.kind \in {"other", "branch.fork", "summary.checkpoint", "summary.rebuild"}
        /\ e.basis \in Nat /\ e.basis <= Len(spine)
    BY DEF Event, Kinds, Sound
  <2>5. CASE e.kind = "summary.checkpoint"
    <3>1. graph'[b].head = h[b].head
      BY <1>1, <1>6, <2>5 DEF ObservesTo
    <3>2. h[b].head = 0 \/ (b \in DOMAIN graph /\ h[b] = graph[b])
      BY <1>1, <1>5, <1>6, <2>5 DEF OpensTo, Hangs, NewBranch
    <3>3. b \in DOMAIN graph => graph[b].head \in Nat /\ graph[b].head <= Len(spine)
      BY DEF ForkPointsAtParent, TypeOK, Branch
    <3>4. graph'[b].head < id
      BY <1>2, <3>1, <3>2, <3>3
    <3> QED
      BY <1>5, <1>6, <2>2, <2>3, <2>5, <3>4
  <2>6. CASE e.kind # "summary.checkpoint"
    <3>1. graph'[b].head =
            IF e.kind = "summary.rebuild" /\ e.basis # 0 THEN e.basis ELSE id
      BY <1>1, <1>6, <2>4, <2>6 DEF ObservesTo
    <3>2. e.basis < id
      BY <1>2, <2>4
    <3> HIDE DEF id
    <3> QED
      BY <1>5, <1>6, <2>2, <2>3, <2>4, <2>6, <3>1, <3>2
  <2> QED
    BY <2>5, <2>6
<1>7. CASE b # e.branch
  <2>1. EventsOf(b)' = EventsOf(b)
    BY <1>2, <1>7 DEF EventsOf
  <2>2. b \in DOMAIN BranchHeads
    BY <1>2, <1>7 DEF BranchHeads
  <2>3. BranchHeads[b] = Last(EventsOf(b)) /\ BranchHeads'[b] = BranchHeads[b]
    BY <1>4, <2>1, <2>2 DEF BranchHeads
  <2>4. b \in DOMAIN graph
    BY <2>2 DEF HeadsAgree
  <2>5. graph'[b] = graph[b]
    BY <1>1, <1>5, <1>7, <2>4 DEF OpensTo, ObservesTo
  <2>6. spine'[BranchHeads[b]] = spine[BranchHeads[b]]
    <3>1. EventsOf(b) \in SUBSET (1..Len(spine)) /\ EventsOf(b) # {}
      BY <1>2, <2>2 DEF EventsOf, BranchHeads
    <3>2. BranchHeads[b] \in DOMAIN spine
      BY <1>2, <2>3, <3>1, LastExists
    <3> QED
      BY <1>2, <3>2
  <2> QED
    BY <1>5, <2>2, <2>3, <2>4, <2>5, <2>6 DEF HeadsAgree
<1> QED
  BY <1>6, <1>7

\* A new branch has its parent's range or none; the event's own branch gets one
\* that ends at the event.
LEMMA DirtyKept ==
  ASSUME TypeOK, HeadsAgree, DirtyEndsAtHead, NEW e \in Event, AppendEvent(e)
  PROVE  DirtyEndsAtHead'
<1> DEFINE id == Len(spine) + 1
<1>1. PICK h : OpensTo(graph, e, h) /\ ObservesTo(h, e, id, graph')
  BY AppendFacts
<1>2. /\ Len(spine) \in Nat /\ DOMAIN spine = 1..Len(spine)
      /\ DOMAIN spine' = DOMAIN spine \cup {id}
      /\ \A i \in DOMAIN spine : spine'[i] = spine[i]
      /\ spine'[id] = e
  BY AppendFacts
<1>3. DOMAIN graph' = DOMAIN h /\ \A b \in DOMAIN graph : b \in DOMAIN h /\ h[b] = graph[b]
  BY <1>1 DEF OpensTo, ObservesTo
<1>4. \A b \in DOMAIN graph : EndsAtHead(graph[b])
  BY DEF DirtyEndsAtHead, EndsAtHead
<1>5. EndsAtHead(NewBranch)
  BY DEF NewBranch, EndsAtHead
<1>6. \A b \in DOMAIN h : EndsAtHead(h[b])
  <2> SUFFICES ASSUME NEW b \in DOMAIN h \ DOMAIN graph
               PROVE  EndsAtHead(h[b])
    BY <1>3, <1>4
  <2>1. CASE h[b] = NewBranch
    BY <1>5, <2>1
  <2>2. CASE Hangs(graph, e, h, b)
    <3>1. EndsAtHead(h[e.parent])
      BY <1>3, <1>4, <1>5, <2>2, Zenon DEF Hangs
    <3> QED
      BY <2>2, <3>1 DEF Hangs, EndsAtHead
  <2> QED
    BY <1>1, <2>1, <2>2 DEF OpensTo
<1>7. \A b \in DOMAIN graph' : EndsAtHead(graph'[b])
  BY <1>1, <1>3, <1>6, Zenon DEF ObservesTo
<1>8. ASSUME NEW b \in DOMAIN graph', EventsOf(b)' # {},
             Counted(spine'[Last(EventsOf(b)')])
      PROVE  graph'[b].dirty # <<>>
  <2>1. CASE b = e.branch
    <3>1. id \in EventsOf(b)' /\ EventsOf(b)' \in SUBSET Nat
          /\ \A k \in EventsOf(b)' : k <= id
      BY <1>2, <2>1 DEF EventsOf
    <3>2. Last(EventsOf(b)') = id
      BY <3>1, LastIs
    <3>3. e.kind \in {"other", "branch.fork"}
      BY <1>2, <1>8, <3>2 DEF Counted
    <3> QED
      BY <1>1, <2>1, <3>3, Zenon DEF ObservesTo
  <2>2. CASE b # e.branch
    <3>1. EventsOf(b)' = EventsOf(b)
      BY <1>2, <2>2 DEF EventsOf
    <3>2. EventsOf(b) \in SUBSET (1..Len(spine)) /\ EventsOf(b) # {}
      BY <1>2, <1>8, <3>1 DEF EventsOf
    <3>3. Last(EventsOf(b)) \in DOMAIN spine
      BY <1>2, <3>2, LastExists
    <3>4. Counted(spine[Last(EventsOf(b))])
      BY <1>2, <1>8, <3>1, <3>3 DEF Counted
    <3>5. b \in DOMAIN graph
      BY <3>2 DEF HeadsAgree, BranchHeads, EventsOf
    <3>6. graph'[b] = graph[b]
      BY <1>1, <1>3, <2>2, <3>5 DEF ObservesTo
    <3> QED
      BY <3>2, <3>4, <3>5, <3>6 DEF DirtyEndsAtHead
  <2> QED
    BY <2>1, <2>2
<1> QED
  BY <1>7, <1>8 DEF DirtyEndsAtHead, EndsAtHead

\* What a request is does not change what is on the spine and in the graph.
LEMMA AppendKeeps ==
  ASSUME BranchInv, NEW e \in Event, AppendEvent(e), Sound(e)
  PROVE  /\ spine' \in Seq(Event) /\ Len(spine') <= MaxEvents
         /\ Typed(graph')
         /\ ForkPointsAtParent' /\ LineageIsForest' /\ HeadsAgree' /\ DirtyEndsAtHead'
<1>1. TypeOK /\ ForkPointsAtParent /\ LineageIsForest /\ HeadsAgree /\ DirtyEndsAtHead
  BY DEF BranchInv
<1>2. LineageIsForest'
  <2>1. PICK h : OpensTo(graph, e, h) /\ ObservesTo(h, e, Len(spine) + 1, graph')
    BY <1>1, AppendFacts
  <2>2. \A b \in DOMAIN graph : graph[b].parent # None => graph[b].parent \in DOMAIN graph
    BY <1>1 DEF ForkPointsAtParent
  <2>3. \A S \in (SUBSET DOMAIN graph) \ {{}} : \E b \in S : graph[b].parent \notin S
    BY <1>1 DEF LineageIsForest
  <2>4. ASSUME NEW S \in (SUBSET DOMAIN graph') \ {{}}
        PROVE  \E b \in S : graph'[b].parent \notin S
    BY <2>1, <2>2, <2>3, <2>4, ForestKept
  <2> QED
    BY <2>4 DEF LineageIsForest
<1>3. ForkPointsAtParent'
  BY <1>1, PointsKept
<1>4. HeadsAgree' /\ DirtyEndsAtHead'
  BY <1>1, HeadsKept, DirtyKept
<1>5. spine' \in Seq(Event) /\ Len(spine') <= MaxEvents /\ Typed(graph')
  BY <1>1, AppendFacts DEF ObservesTo
<1> QED
  BY <1>2, <1>3, <1>4, <1>5

\* An append leaves what the waiting forks have read where it was.
LEMMA ReadsKept ==
  ASSUME BranchInv, NEW e \in Event, AppendEvent(e), NEW f \in Forkers,
         fork[f] # None, fork'[f] = fork[f]
  PROVE  /\ fork'[f].point <= Len(spine')
         /\ fork'[f].point # 0 => spine'[fork'[f].point].branch = fork'[f].parent
<1>1. /\ fork[f].point <= Len(spine)
      /\ fork[f].point # 0 => spine[fork[f].point].branch = fork[f].parent
  BY DEF BranchInv, ReadsFromParent
<1>2. fork[f].point \in Nat
  BY DEF BranchInv, TypeOK, Requests
<1>3. /\ Len(spine) \in Nat /\ DOMAIN spine = 1..Len(spine) /\ Len(spine') = Len(spine) + 1
      /\ \A i \in DOMAIN spine : spine'[i] = spine[i]
  BY AppendFacts DEF BranchInv
<1>4. fork[f].point # 0 => fork[f].point \in DOMAIN spine
  BY <1>1, <1>2, <1>3
<1> QED
  BY <1>1, <1>2, <1>3, <1>4

\* Turns, summaries and whatever else does not touch the forks.
LEMMA WritersKeep ==
  ASSUME BranchInv, NEW e \in Event, AppendEvent(e), e.basis <= Len(spine),
         e.kind # "branch.fork", UNCHANGED fork
  PROVE  BranchInv'
<1>1. /\ spine' \in Seq(Event) /\ Len(spine') <= MaxEvents /\ Typed(graph')
      /\ ForkPointsAtParent' /\ LineageIsForest' /\ HeadsAgree' /\ DirtyEndsAtHead'
  BY AppendKeeps DEF Sound
<1>2. TypeOK'
  BY <1>1 DEF BranchInv, TypeOK, Typed
<1>3. ReadsFromParent'
  BY ReadsKept DEF ReadsFromParent
<1> QED
  BY <1>1, <1>2, <1>3 DEF BranchInv

LEMMA ForkAppendsKeeps ==
  ASSUME BranchInv, NEW f \in Forkers, ForkAppends(f)
  PROVE  BranchInv'
<1> DEFINE e == [kind |-> "branch.fork", branch |-> fork[f].child,
                 parent |-> fork[f].parent, point |-> fork[f].point, basis |-> 0]
<1>1. fork[f] \in Requests /\ fork[f] # None
  BY DEF BranchInv, TypeOK, ForkAppends
<1>2. e \in Event
  BY <1>1 DEF Requests, Event, Kinds
<1>3. AppendEvent(e) /\ fork' = [fork EXCEPT ![f] = None]
  BY DEF ForkAppends
<1>4. Sound(e)
  <2>1. Len(spine) \in Nat
    BY DEF BranchInv, TypeOK
  <2> QED
    BY <1>1, <2>1 DEF Sound, BranchInv, ReadsFromParent
<1> HIDE DEF e
<1>5. /\ spine' \in Seq(Event) /\ Len(spine') <= MaxEvents /\ Typed(graph')
      /\ ForkPointsAtParent' /\ LineageIsForest' /\ HeadsAgree' /\ DirtyEndsAtHead'
  BY <1>2, <1>3, <1>4, AppendKeeps
<1>6. TypeOK'
  BY <1>3, <1>5 DEF BranchInv, TypeOK, Typed
<1>7. ReadsFromParent'
  <2> SUFFICES ASSUME NEW g \in Forkers, fork'[g] # None
               PROVE  /\ fork'[g].point <= Len(spine')
                      /\ fork'[g].point # 0 => spine'[fork'[g].point].branch = fork'[g].parent
    BY DEF ReadsFromParent
  <2>1. fork'[g] = fork[g] /\ fork[g] # None
    BY <1>3 DEF BranchInv, TypeOK
  <2> QED
    BY <1>2, <1>3, <2>1, ReadsKept
<1> QED
  BY <1>5, <1>6, <1>7 DEF BranchInv

\* Steps that append nothing change nothing of the graph.
LEMMA GraphKept ==
  ASSUME ForkPointsAtParent, LineageIsForest, HeadsAgree, DirtyEndsAtHead,
         spine' = spine, graph' = graph
  PROVE  ForkPointsAtParent' /\ LineageIsForest' /\ HeadsAgree' /\ DirtyEndsAtHead'
<1>1. ForkPointsAtParent'
  BY DEF ForkPointsAtParent
<1>2. LineageIsForest'
  BY DEF LineageIsForest
<1>3. BranchHeads' = BranchHeads
  BY DEF BranchHeads, EventsOf
<1>4. HeadsAgree'
  BY <1>3 DEF HeadsAgree
<1>5. DirtyEndsAtHead'
  BY DEF DirtyEndsAtHead, EventsOf
<1> QED
  BY <1>1, <1>2, <1>4, <1>5

LEMMA ForkReadsKeeps ==
  ASSUME BranchInv, NEW f \in Forkers, ForkReads(f)
  PROVE  BranchInv'
<1>1. PICK p \in Branches, c \in Branches :
        fork' = [fork EXCEPT ![f] = [parent |-> p, child |-> c,
                                     point |-> IF EventsOf(p) = {} THEN 0
                                               ELSE Last(EventsOf(p))]]
  BY DEF ForkReads
<1> DEFINE q == IF EventsOf(p) = {} THEN 0 ELSE Last(EventsOf(p))
<1>2. spine' = spine /\ graph' = graph
  BY DEF ForkReads
<1>3. Len(spine) \in Nat /\ DOMAIN spine = 1..Len(spine)
  BY DEF BranchInv, TypeOK
<1>4. q \in Nat /\ q <= Len(spine) /\ (q # 0 => spine[q].branch = p)
  <2>1. CASE EventsOf(p) = {}
    BY <1>3, <2>1
  <2>2. CASE EventsOf(p) # {}
    <3>1. EventsOf(p) \in SUBSET (1..Len(spine))
      BY <1>3 DEF EventsOf
    <3>2. Last(EventsOf(p)) \in EventsOf(p)
      BY <1>3, <2>2, <3>1, LastExists
    <3> QED
      BY <1>3, <2>2, <3>1, <3>2 DEF EventsOf
  <2> QED
    BY <2>1, <2>2
<1> HIDE DEF q
<1>5. fork' = [fork EXCEPT ![f] = [parent |-> p, child |-> c, point |-> q]]
  BY <1>1 DEF q
<1>6. [parent |-> p, child |-> c, point |-> q] \in Requests
  BY <1>4 DEF Requests
<1>7. fork' \in [Forkers -> Requests \cup {None}]
  BY <1>5, <1>6 DEF BranchInv, TypeOK
<1>8. ReadsFromParent'
  <2> SUFFICES ASSUME NEW g \in Forkers, fork'[g] # None
               PROVE  /\ fork'[g].point <= Len(spine)
                      /\ fork'[g].point # 0 => spine[fork'[g].point].branch = fork'[g].parent
    BY <1>2 DEF ReadsFromParent
  <2>1. CASE g = f
    BY <1>4, <1>5, <2>1 DEF BranchInv, TypeOK
  <2>2. CASE g # f
    BY <1>5, <2>2 DEF BranchInv, TypeOK, ReadsFromParent
  <2> QED
    BY <2>1, <2>2
<1>9. TypeOK'
  BY <1>2, <1>7 DEF BranchInv, TypeOK
<1>10. ForkPointsAtParent' /\ LineageIsForest' /\ HeadsAgree' /\ DirtyEndsAtHead'
  BY <1>2, GraphKept DEF BranchInv
<1> QED
  BY <1>8, <1>9, <1>10 DEF BranchInv

LEMMA ForkFailsKeeps ==
  ASSUME BranchInv, NEW f \in Forkers, ForkFails(f)
  PROVE  BranchInv'
<1>1. spine' = spine /\ graph' = graph /\ fork' = [fork EXCEPT ![f] = None]
  BY DEF ForkFails
<1>2. TypeOK' /\ ReadsFromParent'
  BY <1>1 DEF BranchInv, TypeOK, ReadsFromParent
<1>3. ForkPointsAtParent' /\ LineageIsForest' /\ HeadsAgree' /\ DirtyEndsAtHead'
  BY <1>1, GraphKept DEF BranchInv
<1> QED
  BY <1>2, <1>3 DEF BranchInv

-----------------------------------------------------------------------------
(* The specification *)

LEMMA InitInv == Init => BranchInv
<1> SUFFICES ASSUME Init
             PROVE  BranchInv
  OBVIOUS
<1>1. spine = <<>> /\ fork = [f \in Forkers |-> None] /\ graph = [b \in {} |-> NewBranch]
  BY DEF Init
<1>2. spine \in Seq(Event) /\ Len(spine) = 0 /\ DOMAIN spine = {} /\ DOMAIN graph = {}
  BY <1>1
<1>3. TypeOK
  BY <1>1, <1>2, BoundAssumption DEF TypeOK
<1>4. ReadsFromParent
  BY <1>1 DEF ReadsFromParent
<1>5. ForkPointsAtParent /\ LineageIsForest
  BY <1>2 DEF ForkPointsAtParent, LineageIsForest
<1>6. DOMAIN BranchHeads = {}
  BY <1>2 DEF BranchHeads
<1>7. HeadsAgree /\ DirtyEndsAtHead
  BY <1>2, <1>6 DEF HeadsAgree, DirtyEndsAtHead
<1> QED
  BY <1>3, <1>4, <1>5, <1>7 DEF BranchInv

\* Every step but a fork's read and its failure appends one event.
LEMMA NextInv ==
  ASSUME BranchInv, [Next]_vars
  PROVE  BranchInv'
<1>0. Len(spine) \in Nat
  BY DEF BranchInv, TypeOK
<1>1. ASSUME NEW b \in Branches, AppendOther(b)
      PROVE  BranchInv'
  <2> DEFINE e == [kind |-> "other", branch |-> b, parent |-> None, point |-> 0,
                   basis |-> 0]
  <2>1. e \in Event /\ e.basis <= Len(spine) /\ e.kind # "branch.fork"
    BY <1>0 DEF Event, Kinds
  <2>2. AppendEvent(e) /\ UNCHANGED fork
    BY <1>1 DEF AppendOther
  <2> HIDE DEF e
  <2> QED
    BY <2>1, <2>2, WritersKeep
<1>2. ASSUME NEW b \in Branches, AppendCheckpoint(b)
      PROVE  BranchInv'
  <2> DEFINE e == [kind |-> "summary.checkpoint", branch |-> b, parent |-> None,
                   point |-> 0, basis |-> 0]
  <2>1. e \in Event /\ e.basis <= Len(spine) /\ e.kind # "branch.fork"
    BY <1>0 DEF Event, Kinds
  <2>2. AppendEvent(e) /\ UNCHANGED fork
    BY <1>2 DEF AppendCheckpoint
  <2> HIDE DEF e
  <2> QED
    BY <2>1, <2>2, WritersKeep
<1>3. ASSUME NEW b \in Branches, AppendRebuild(b)
      PROVE  BranchInv'
  <2>1. PICK basis \in EventsOf(b) \cup {0} :
          AppendEvent([kind |-> "summary.rebuild", branch |-> b, parent |-> None,
                       point |-> 0, basis |-> basis])
    BY <1>3 DEF AppendRebuild
  <2> DEFINE e == [kind |-> "summary.rebuild", branch |-> b, parent |-> None,
                   point |-> 0, basis |-> basis]
  <2>2. basis \in Nat /\ basis <= Len(spine)
    <3>1. DOMAIN spine = 1..Len(spine)
      BY DEF BranchInv, TypeOK
    <3> QED
      BY <1>0, <3>1 DEF EventsOf
  <2>3. e \in Event /\ e.basis <= Len(spine) /\ e.kind # "branch.fork"
    BY <2>2 DEF Event, Kinds
  <2>4. AppendEvent(e) /\ UNCHANGED fork
    BY <1>3, <2>1 DEF AppendRebuild
  <2> HIDE DEF e
  <2> QED
    BY <2>3, <2>4, WritersKeep
<1>4. CASE UNCHANGED vars
  BY <1>4, GraphKept DEF vars, BranchInv, TypeOK, ReadsFromParent
<1> QED
  BY <1>1, <1>2, <1>3, <1>4, ForkReadsKeeps, ForkAppendsKeeps, ForkFailsKeeps DEF Next

\* A branch's place in the lineage survives every event that follows.
LEMMA AppendStable ==
  ASSUME TypeOK, NEW e \in Event, AppendEvent(e), NEW b \in DOMAIN graph
  PROVE  /\ b \in DOMAIN graph'
         /\ graph'[b].parent = graph[b].parent /\ graph'[b].forkEvent = graph[b].forkEvent
<1>1. PICK h : OpensTo(graph, e, h) /\ ObservesTo(h, e, Len(spine) + 1, graph')
  BY AppendFacts
<1>2. b \in DOMAIN h /\ h[b] = graph[b] /\ DOMAIN graph' = DOMAIN h
  BY <1>1 DEF OpensTo, ObservesTo
<1> QED
  BY <1>1, <1>2, LineageFacts

\* Whatever is appended, by whichever action.
LEMMA NextAppends ==
  ASSUME TypeOK, Next
  PROVE  graph' = graph \/ \E e \in Event : AppendEvent(e)
<1>1. ASSUME NEW b \in Branches, AppendOther(b)
      PROVE  \E e \in Event : AppendEvent(e)
  <2> DEFINE e == [kind |-> "other", branch |-> b, parent |-> None, point |-> 0,
                   basis |-> 0]
  <2>1. e \in Event
    BY DEF Event, Kinds
  <2>2. AppendEvent(e)
    BY <1>1 DEF AppendOther
  <2> HIDE DEF e
  <2> QED
    BY <2>1, <2>2
<1>2. ASSUME NEW b \in Branches, AppendCheckpoint(b)
      PROVE  \E e \in Event : AppendEvent(e)
  <2> DEFINE e == [kind |-> "summary.checkpoint", branch |-> b, parent |-> None,
                   point |-> 0, basis |-> 0]
  <2>1. e \in Event
    BY DEF Event, Kinds
  <2>2. AppendEvent(e)
    BY <1>2 DEF AppendCheckpoint
  <2> HIDE DEF e
  <2> QED
    BY <2>1, <2>2
<1>3. ASSUME NEW b \in Branches, AppendRebuild(b)
      PROVE  \E e \in Event : AppendEvent(e)
  <2>1. PICK basis \in EventsOf(b) \cup {0} :
          AppendEvent([kind |-> "summary.rebuild", branch |-> b, parent |-> None,
                       point |-> 0, basis |-> basis])
    BY <1>3 DEF AppendRebuild
  <2> DEFINE e == [kind |-> "summary.rebuild", branch |-> b, parent |-> None,
                   point |-> 0, basis |-> basis]
  <2>2. e \in Event
    <3>1. DOMAIN spine \subseteq Nat
      BY DEF TypeOK
    <3> QED
      BY <3>1 DEF Event, Kinds, EventsOf
  <2>3. AppendEvent(e)
    BY <2>1
  <2> HIDE DEF e
  <2> QED
    BY <2>2, <2>3
<1>4. ASSUME NEW f \in Forkers, ForkAppends(f)
      PROVE  \E e \in Event : AppendEvent(e)
  <2> DEFINE e == [kind |-> "branch.fork", branch |-> fork[f].child,
                   parent |-> fork[f].parent, point |-> fork[f].point, basis |-> 0]
  <2>1. e \in Event
    BY <1>4 DEF TypeOK, ForkAppends, Requests, Event, Kinds
  <2>2. AppendEvent(e)
    BY <1>4 DEF ForkAppends
  <2> HIDE DEF e
  <2> QED
    BY <2>1, <2>2
<1> QED
  BY <1>1, <1>2, <1>3, <1>4 DEF Next, ForkReads, ForkFails

\* However requests interleave, the spine and the rebuilt graph are in order:
\* typed, a forest, its fork points on the parents' branches, and the two
\* rebuilds of the heads agree.
THEOREM BranchInvariant == Spec => []BranchInv
<1>1. Init => BranchInv
  BY InitInv
<1>2. BranchInv /\ [Next]_vars => BranchInv'
  BY NextInv
<1> QED
  BY <1>1, <1>2, PTL DEF Spec

\* No chain of forks makes a branch its own ancestor (replay.go, the ignored
\* ErrBranchExists).
THEOREM LineageForest == Spec => []LineageIsForest
<1>1. BranchInv => LineageIsForest
  BY DEF BranchInv
<1> QED
  BY <1>1, BranchInvariant, PTL

\* A branch's fork event is an event of its parent, though the fork was
\* appended later than it was read (session.go, ForkBranch).
THEOREM ForkPoints == Spec => []ForkPointsAtParent
<1>1. BranchInv => ForkPointsAtParent
  BY DEF BranchInv
<1> QED
  BY <1>1, BranchInvariant, PTL

\* RebuildSession and RebuildBranchStateFromEvents name the same head for a
\* branch unless its last event is a checkpoint or a rebuild with a basis, and
\* then the graph's head is an earlier event.
THEOREM HeadsOfReplay == Spec => []HeadsAgree
<1>1. BranchInv => HeadsAgree
  BY DEF BranchInv
<1> QED
  BY <1>1, BranchInvariant, PTL

\* The shorter rebuild, from any event of a branch that a checkpoint may name,
\* with summaries before and after it: the full replay's head and dirty end
\* where the branch's last event takes the head, a later head elsewhere.
THEOREM DeltasAgree == Spec => []DeltaAgrees
<1>1. BranchInv => DeltaAgrees
  <2> SUFFICES ASSUME BranchInv, NEW b \in DOMAIN graph, NEW basis \in EventsOf(b)
               PROVE  LET d == RebuildFromSummary(b, basis) IN
                      /\ IF TakesHead(spine[Last(EventsOf(b))])
                           THEN /\ d.head = graph[b].head
                                /\ d.dirty # <<>> /\ graph[b].dirty # <<>> =>
                                     d.dirty[2] = graph[b].dirty[2]
                           ELSE graph[b].head < d.head
                      /\ d.dirty # <<>> => d.dirty[1] > basis
    BY DEF DeltaAgrees
  <2> DEFINE D == Delta(b, basis)
             first == CHOOSE i \in D : \A k \in D : i <= k
             last == Last(EventsOf(b))
             r == RebuildFromSummary(b, basis)
  <2>1. /\ Len(spine) \in Nat /\ EventsOf(b) \in SUBSET (1..Len(spine))
        /\ EventsOf(b) # {} /\ basis \in Nat
    BY DEF BranchInv, TypeOK, EventsOf
  <2>2. graph[b] \in Branch
    BY DEF BranchInv, TypeOK
  <2>3. last \in EventsOf(b) /\ \A k \in EventsOf(b) : k <= last
    BY <2>1, LastExists
  <2>4. IF TakesHead(spine[last]) THEN graph[b].head = last ELSE graph[b].head < last
    BY <2>1 DEF BranchInv, HeadsAgree, BranchHeads, EventsOf
  <2>5. graph[b].dirty # <<>> => graph[b].dirty[2] = graph[b].head
    BY DEF BranchInv, DirtyEndsAtHead
  <2>6. CASE D = {}
    <3>1. r = [graph[b] EXCEPT !.head = basis, !.dirty = <<>>]
      BY <2>6 DEF RebuildFromSummary
    <3>2. last = basis
      BY <2>1, <2>3, <2>6 DEF Delta
    <3>3. r.head = last /\ r.dirty = <<>>
      BY <2>2, <3>1, <3>2 DEF Branch
    <3> HIDE DEF r, last
    <3> QED
      BY <2>4, <3>3 DEF r, last
  <2>7. CASE D # {}
    <3>1. r = [graph[b] EXCEPT !.head = Last(D), !.dirty = <<first, Last(D)>>]
      BY <2>7 DEF RebuildFromSummary
    <3>2. last \in D /\ D \in SUBSET Nat /\ \A k \in D : k <= last
      BY <2>1, <2>3, <2>7 DEF Delta
    <3>3. Last(D) = last
      BY <3>2, LastIs
    <3>4. first > basis
      <4>1. \E i \in D : \A k \in D : i <= k
        BY <2>7, <3>2, FirstExists, Zenon
      <4>2. first \in D
        BY <4>1, Zenon
      <4> QED
        BY <4>2 DEF Delta
    <3> HIDE DEF D, first, last, r
    <3>5. r.head = last /\ r.dirty = <<first, last>>
      BY <2>2, <3>1, <3>3 DEF Branch
    <3>6. r.dirty[1] = first /\ r.dirty[2] = last
      BY <3>5
    <3> QED
      BY <2>4, <2>5, <3>4, <3>5, <3>6 DEF r, last
  <2> QED
    BY <2>6, <2>7
<1> QED
  BY <1>1, BranchInvariant, PTL

\* A branch keeps its parent and its fork event for good, whoever forks it
\* again.
THEOREM LineageNeverRevised == Spec => LineageStable
<1>1. BranchInv /\ [Next]_vars =>
        [\A b \in DOMAIN graph :
           /\ b \in DOMAIN graph'
           /\ graph'[b].parent = graph[b].parent
           /\ graph'[b].forkEvent = graph[b].forkEvent]_vars
  <2> SUFFICES ASSUME BranchInv, Next, NEW b \in DOMAIN graph
               PROVE  /\ b \in DOMAIN graph'
                      /\ graph'[b].parent = graph[b].parent
                      /\ graph'[b].forkEvent = graph[b].forkEvent
    BY Zenon
  <2>1. TypeOK
    BY DEF BranchInv
  <2> QED
    BY <2>1, NextAppends, AppendStable
<1> QED
  BY <1>1, BranchInvariant, PTL DEF Spec, LineageStable

=============================================================================

---------------------------- MODULE BranchReplay ----------------------------
(***************************************************************************)
(* Branches: the forks that handlers write to the spine                    *)
(* (internal/runtime/session.go, ForkBranch) and the branch graph that a   *)
(* replay rebuilds from it (internal/replay, internal/branchdag).          *)
(*                                                                         *)
(* A fork reads the parent branch and appends branch.fork later, without   *)
(* looking at the branches that exist; other requests append in between.   *)
(* What a fork means is decided by the replay, one event after the other.  *)
(* An event's id is its place on the spine, 0 is the empty id.             *)
(***************************************************************************)
EXTENDS Naturals, Sequences, FiniteSets

CONSTANTS
  Branches,    \* branch names
  Forkers,     \* requests of /v1/branch/fork at a time
  MaxEvents,   \* bound: the events appended to the spine
  None         \* no branch

ASSUME NoneAssumption == None \notin Branches
ASSUME BoundAssumption == MaxEvents \in Nat

VARIABLES
  spine,       \* the session's events
  fork,        \* fork[f]: what a request asks and has read, None between requests
  graph        \* the graph RebuildBranchStateFromEvents builds of the spine

vars == <<spine, fork, graph>>

\* parent is Meta["parent_branch_id"], point is ParentEventID, basis the
\* basis_event_id of a summary.rebuild; a summary's own id is its event's.
Kinds == {"other", "branch.fork", "summary.checkpoint", "summary.rebuild"}
Event == [kind : Kinds, branch : Branches, parent : Branches \cup {None},
          point : Nat, basis : Nat]

\* A branch's dirty ranges: none, or the one range that appends extend.
Ranges == {<<>>} \cup (Nat \X Nat)
Branch == [parent : Branches \cup {None}, forkEvent : Nat, head : Nat,
           base : Nat, dirty : Ranges]

Requests == [parent : Branches, child : Branches, point : Nat]

TypeOK ==
  /\ spine \in Seq(Event) /\ Len(spine) <= MaxEvents
  /\ fork \in [Forkers -> Requests \cup {None}]
  /\ DOMAIN graph \subseteq Branches
  /\ \A b \in DOMAIN graph : graph[b] \in Branch

-----------------------------------------------------------------------------
(* internal/branchdag *)

NewBranch == [parent |-> None, forkEvent |-> 0, head |-> 0, base |-> 0, dirty |-> <<>>]

AppendToBranch(b, id) ==
  [b EXCEPT !.head  = id,
            !.dirty = IF @ = <<>> THEN <<id, id>> ELSE <<@[1], id>>]

\* Graph.CreateBranch and the branches' updates write one entry of the map.
With(g, name, b) == [n \in DOMAIN g \cup {name} |-> IF n = name THEN b ELSE g[n]]

\* Mutant of ForkBranch: an existing child is forked again.
ForkBranchAgain(g, child, parent, point) ==
  With(g, child, [g[parent] EXCEPT !.parent = parent, !.forkEvent = point])

\* The child takes over the parent's head, base and dirty ranges.  An existing
\* child is left alone: the replay ignores ErrBranchExists.
ForkBranch(g, child, parent, point) ==
  IF child \in DOMAIN g THEN g
  ELSE With(g, child, [g[parent] EXCEPT !.parent = parent, !.forkEvent = point])

\* A basis is taken as the new head when the event names one.
RebaseOnSummary(b, id, basis) ==
  [b EXCEPT !.base = id, !.dirty = <<>>, !.head = IF basis # 0 THEN basis ELSE @]

-----------------------------------------------------------------------------
(* internal/replay *)

\* Mutant of EnsureBranch: an existing branch is created anew.
EnsureBranchAnew(g, name) == With(g, name, NewBranch)

EnsureBranch(g, name) == IF name \in DOMAIN g THEN g ELSE With(g, name, NewBranch)

Opened(g, e) ==
  IF e.kind = "branch.fork" /\ e.parent # None
    THEN ForkBranch(EnsureBranch(g, e.parent), e.branch, e.parent, e.point)
    ELSE EnsureBranch(g, e.branch)

\* Mutant of Observe: a fork opens its child and is not counted among its events.
ObserveForkOpensOnly(g, e, id) ==
  LET h == Opened(g, e)
  IN  IF e.kind = "branch.fork" THEN h
      ELSE With(h, e.branch, AppendToBranch(h[e.branch], id))

\* One turn of the loop of RebuildBranchStateFromEvents.
Observe(g, e, id) ==
  LET h == Opened(g, e)
      b == h[e.branch]
  IN  CASE e.kind = "summary.checkpoint" ->
             With(h, e.branch, [b EXCEPT !.base = id])
        [] e.kind = "summary.rebuild" ->
             With(h, e.branch, RebaseOnSummary(AppendToBranch(b, id), id, e.basis))
        [] OTHER ->
             With(h, e.branch, AppendToBranch(b, id))

\* RebuildSession: the branches' heads are their last events of any kind.
EventsOf(b) == {i \in DOMAIN spine : spine[i].branch = b}
Last(S) == CHOOSE i \in S : \A k \in S : k <= i
BranchHeads == [b \in {spine[i].branch : i \in DOMAIN spine} |-> Last(EventsOf(b))]

\* Mutant of Delta: the basis itself is taken for an event after it.
DeltaWithBasis(b, basis) == {i \in EventsOf(b) : i >= basis}

Delta(b, basis) == {i \in EventsOf(b) : i > basis}

\* RebuildBranchFromSummaryAndEvents, of a checkpoint with this basis: the
\* events of the branch after it are appended one by one.
RebuildFromSummary(b, basis) ==
  LET d == Delta(b, basis)
  IN  IF d = {} THEN [graph[b] EXCEPT !.head = basis, !.dirty = <<>>]
      ELSE [graph[b] EXCEPT !.head = Last(d),
                            !.dirty = <<CHOOSE i \in d : \A k \in d : i <= k, Last(d)>>]

-----------------------------------------------------------------------------
(* Actions *)

Init ==
  /\ spine = <<>>
  /\ fork = [f \in Forkers |-> None]
  /\ graph = [b \in {} |-> NewBranch]

AppendEvent(e) ==
  /\ Len(spine) < MaxEvents
  /\ spine' = Append(spine, e)
  /\ graph' = Observe(graph, e, Len(spine) + 1)

\* Turns, consults, the sidecar: any event that says nothing of branches.
AppendOther(b) ==
  /\ AppendEvent([kind |-> "other", branch |-> b, parent |-> None, point |-> 0,
                  basis |-> 0])
  /\ UNCHANGED fork

\* Summary events come from other writers of the spine: no code in src/ writes
\* them, replay reads them.
AppendCheckpoint(b) ==
  /\ AppendEvent([kind |-> "summary.checkpoint", branch |-> b, parent |-> None,
                  point |-> 0, basis |-> 0])
  /\ UNCHANGED fork

AppendRebuild(b) ==
  /\ \E basis \in EventsOf(b) \cup {0} :
       AppendEvent([kind |-> "summary.rebuild", branch |-> b, parent |-> None,
                    point |-> 0, basis |-> basis])
  /\ UNCHANGED fork

\* Mutant of ForkReads: the latest event of the session, not of the parent.
ForkReadsSession(f) ==
  /\ fork[f] = None
  /\ Len(spine) < MaxEvents
  /\ \E parent, child \in Branches :
       fork' = [fork EXCEPT ![f] = [parent |-> parent, child |-> child,
                                    point |-> Len(spine)]]
  /\ UNCHANGED <<spine, graph>>

\* ForkBranch lists the parent's events; a parent nobody wrote to has no head.
ForkReads(f) ==
  /\ fork[f] = None
  /\ Len(spine) < MaxEvents
  /\ \E parent, child \in Branches :
       fork' = [fork EXCEPT ![f] = [parent |-> parent, child |-> child,
                                    point |-> IF EventsOf(parent) = {} THEN 0
                                              ELSE Last(EventsOf(parent))]]
  /\ UNCHANGED <<spine, graph>>

\* The append, which the backend may refuse.
ForkAppends(f) ==
  /\ fork[f] # None
  /\ AppendEvent([kind |-> "branch.fork", branch |-> fork[f].child,
                  parent |-> fork[f].parent, point |-> fork[f].point, basis |-> 0])
  /\ fork' = [fork EXCEPT ![f] = None]

ForkFails(f) ==
  /\ fork[f] # None
  /\ fork' = [fork EXCEPT ![f] = None]
  /\ UNCHANGED <<spine, graph>>

Next ==
  \/ \E b \in Branches : AppendOther(b) \/ AppendCheckpoint(b) \/ AppendRebuild(b)
  \/ \E f \in Forkers : ForkReads(f) \/ ForkAppends(f) \/ ForkFails(f)

Spec == Init /\ [][Next]_vars

-----------------------------------------------------------------------------
(* Properties *)

\* The graph is a forest however forks name their branches, existing or not,
\* themselves included: in every set of branches one has its parent outside.
LineageIsForest ==
  \A S \in (SUBSET DOMAIN graph) \ {{}} : \E b \in S : graph[b].parent \notin S

\* Everything a branch points at is on the spine: its parent is a branch, its
\* fork event lies on the parent's branch, before the fork that made it.
ForkPointsAtParent ==
  \A b \in DOMAIN graph :
    /\ graph[b].head <= Len(spine) /\ graph[b].base <= Len(spine)
    /\ graph[b].parent # None => graph[b].parent \in DOMAIN graph
    /\ graph[b].forkEvent # 0 =>
         \E i \in DOMAIN spine :
           /\ spine[i].kind = "branch.fork" /\ spine[i].branch = b
           /\ graph[b].forkEvent < i
           /\ spine[graph[b].forkEvent].branch = graph[b].parent

\* The events that replay makes the head of their branch: not a checkpoint,
\* which it skips, nor a rebuild that names a basis, which becomes the head.
Counted(e)   == e.kind \in {"other", "branch.fork"}
TakesHead(e) == Counted(e) \/ (e.kind = "summary.rebuild" /\ e.basis = 0)

\* ReplaySession returns the heads of both rebuilds.  They are the same if a
\* branch's last event takes the head; after a checkpoint and after a rebuild
\* with a basis the graph's head is an earlier event (replay.go:108-116, :123).
HeadsAgree ==
  \A b \in DOMAIN BranchHeads :
    /\ b \in DOMAIN graph
    /\ IF TakesHead(spine[BranchHeads[b]]) THEN graph[b].head = BranchHeads[b]
                                           ELSE graph[b].head < BranchHeads[b]

\* Rebuilding a branch from a checkpoint and what came after it counts every
\* event, summaries too (replay.go:158-170).  Whatever branches a spine has
\* and whatever summaries lie before or after the basis, its head is the full
\* replay's if the branch's last event takes the head, and its dirty range
\* ends where the full replay's ends; otherwise the full replay stays behind
\* it.  The range it leaves dirty begins after the basis.
DeltaAgrees ==
  \A b \in DOMAIN graph : \A basis \in EventsOf(b) :
    LET d == RebuildFromSummary(b, basis) IN
    /\ IF TakesHead(spine[Last(EventsOf(b))])
         THEN /\ d.head = graph[b].head
              /\ d.dirty # <<>> /\ graph[b].dirty # <<>> => d.dirty[2] = graph[b].dirty[2]
         ELSE graph[b].head < d.head
    /\ d.dirty # <<>> => d.dirty[1] > basis

\* The dirty range that a branch has ends at its head, and a branch whose last
\* event is no summary has one.
DirtyEndsAtHead ==
  \A b \in DOMAIN graph :
    /\ graph[b].dirty # <<>> => graph[b].dirty[2] = graph[b].head
    /\ EventsOf(b) # {} /\ Counted(spine[Last(EventsOf(b))]) => graph[b].dirty # <<>>

\* A fork that waits for its append has read an event of its parent.
ReadsFromParent ==
  \A f \in Forkers : fork[f] # None =>
    /\ fork[f].point <= Len(spine)
    /\ fork[f].point # 0 => spine[fork[f].point].branch = fork[f].parent

\* The inductive invariant.
BranchInv ==
  /\ TypeOK
  /\ ReadsFromParent
  /\ ForkPointsAtParent
  /\ LineageIsForest
  /\ HeadsAgree
  /\ DirtyEndsAtHead

\* What was replayed is not revised by what follows: a branch keeps its parent
\* and its fork event, and no branch disappears.
LineageStable ==
  [][\A b \in DOMAIN graph :
       /\ b \in DOMAIN graph'
       /\ graph'[b].parent = graph[b].parent
       /\ graph'[b].forkEvent = graph[b].forkEvent]_vars

=============================================================================

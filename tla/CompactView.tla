----------------------------- MODULE CompactView -----------------------------
(***************************************************************************)
(* The views that leave events out: internal/memory/compaction.go and, of  *)
(* memory.go, the RAM index, its scores and BuildCompactView.              *)
(*                                                                         *)
(* Events are the places 1..n of a spine, in the order of their times, and *)
(* a view is the set of the places it keeps.  Of a text only its size      *)
(* counts, of a score only which is larger.  A configuration cfg has the   *)
(* fields KeepRecent and MaxCompactEvents.                                 *)
(***************************************************************************)
EXTENDS Naturals, Sequences, FiniteSets

-----------------------------------------------------------------------------
(* Layer 1: the RAM index *)

\* IndexEvent: the newest MaxIndexEntries entries stay.
Indexed(index, i, maxEntries) ==
  LET longer == Append(index, i)
      excess == IF Len(longer) > maxEntries THEN Len(longer) - maxEntries ELSE 0
  IN  SubSeq(longer, excess + 1, Len(longer))

\* ScoreEvents without an embedder: the later the higher, and 0 for an event
\* the index does not have.
ScoreEvents(n, index) ==
  [i \in 1..n |-> IF \E e \in DOMAIN index : index[e] = i THEN i ELSE 0]

-----------------------------------------------------------------------------
(* Helpers *)

\* The place in a sort of s that puts i before j where Ahead(i, j).
RankIn(s, i, Ahead(_, _)) == Cardinality({j \in s : Ahead(j, i)})

TotalSize(size, s) ==
  LET total[places \in SUBSET s] ==
        IF places = {} THEN 0
        ELSE LET i == CHOOSE i \in places : TRUE IN size[i] + total[places \ {i}]
  IN  total[s]

Least(a, b) == IF a <= b THEN a ELSE b

Recent(n, cfg) == {i \in 1..n : i + cfg.KeepRecent > n}
Older(n, cfg)  == (1..n) \ Recent(n, cfg)

-----------------------------------------------------------------------------
(* compaction.go *)

\* Mutant of ToRemove: nothing of the older events need stay.
ToRemoveAll(older, cfg) == Least(Cardinality(older), cfg.MaxCompactEvents)

\* Half of the older events instead of all.
ToRemove(older, cfg) ==
  LET count == Cardinality(older)
  IN  IF count <= cfg.MaxCompactEvents THEN count \div 2 ELSE cfg.MaxCompactEvents

\* Sorted with the lowest score first, and cut at the end: the highest go.
CompactByScore(n, score, cfg) ==
  LET older == Older(n, cfg)
      ahead(i, j) == score[i] < score[j] \/ (score[i] = score[j] /\ i < j)
      kept == Cardinality(older) - ToRemove(older, cfg)
  IN  Recent(n, cfg) \cup {i \in older : RankIn(older, i, ahead) < kept}

\* Equal sizes may come in any order; the earlier one first stands for it.
Largest(older, size, count) ==
  LET ahead(i, j) == size[i] > size[j] \/ (size[i] = size[j] /\ i < j)
  IN  {i \in older : RankIn(older, i, ahead) < count}

\* Mutant of CompactByTextSize: the recent events are sorted with the rest.
CompactByTextSizeOfAll(n, size, budget, cfg) ==
  LET left(count) == TotalSize(size, (1..n) \ Largest(1..n, size, count))
      enough(count) == left(count) <= budget \/ count = Least(n, cfg.MaxCompactEvents)
      removed == CHOOSE c \in 0..n : enough(c) /\ \A d \in 0..c : enough(d) => d = c
  IN  (1..n) \ Largest(1..n, size, removed)

\* The largest go first, until the rest fits.
CompactByTextSize(n, size, budget, cfg) ==
  LET older == Older(n, cfg)
      most == Least(Cardinality(older), cfg.MaxCompactEvents)
      left(count) == TotalSize(size, (1..n) \ Largest(older, size, count))
      enough(count) == left(count) <= budget \/ count = most
      removed == CHOOSE c \in 0..most : enough(c) /\ \A d \in 0..c : enough(d) => d = c
  IN  (1..n) \ Largest(older, size, removed)

\* The scan ends with the last old event that may be removed; what comes after
\* it and before the recent events is dropped and not counted.
Scanned(n, old, cfg) ==
  {i \in Older(n, cfg) :
     Cardinality({j \in old : j < i}) < cfg.MaxCompactEvents}

CompactAgeThreshold(n, old, cfg) == Recent(n, cfg) \cup (Scanned(n, old, cfg) \ old)

-----------------------------------------------------------------------------
(* memory.go *)

\* The highest score first, the later of equal ones; it stops at the first
\* event that does not fit.
BuildCompactView(n, score, size, budget) ==
  LET ahead(i, j) == score[i] > score[j] \/ (score[i] = score[j] /\ i > j)
      upto(i) == {j \in 1..n : j = i \/ ahead(j, i)}
  IN  {i \in 1..n : TotalSize(size, upto(i)) <= budget}

-----------------------------------------------------------------------------
(* What the views keep and what they drop, of any events, scores and sizes *)

\* The first k events are those before a cutoff.
Old(k) == 1..k

\* CompactByScore drops no recent event, at most MaxCompactEvents of the
\* others and never all of them.  Those it drops are the ones with the highest
\* scores, of equal ones the later: the comments at compaction.go:42 and :72
\* say the lowest, and the loop at :91 keeps those.
HighestScoresGo(n, score, cfg) ==
  LET older == Older(n, cfg)
      kept == CompactByScore(n, score, cfg)
      gone == (1..n) \ kept
  IN  /\ gone \subseteq older
      /\ Cardinality(gone) <= cfg.MaxCompactEvents
      /\ older # {} => kept \cap older # {}
      /\ \A i \in gone, j \in kept \cap older :
           score[j] < score[i] \/ (score[j] = score[i] /\ j < i)

\* CompactAgeThreshold drops the old events and no other while fewer than
\* MaxCompactEvents are old.  Once that many are, it drops everything but the
\* recent events, however many there are and whether old or not: the loop at
\* :247 ends, and what it has not come to is not kept.  The field's comment
\* (:19) calls MaxCompactEvents the limit of a pass.
AgeDropsOldOrAll(n, k, cfg) ==
  LET older == Older(n, cfg)
      kept == CompactAgeThreshold(n, Old(k), cfg)
  IN  /\ Recent(n, cfg) \subseteq kept
      /\ kept \cap older = IF k < cfg.MaxCompactEvents THEN older \ Old(k) ELSE {}

\* CompactByTextSize drops no recent event and of the others the largest, at
\* most MaxCompactEvents, no more than the budget needs and as many as it
\* needs if there are that many.
LargestGo(n, size, budget, cfg) ==
  LET older == Older(n, cfg)
      kept == CompactByTextSize(n, size, budget, cfg)
      gone == (1..n) \ kept
  IN  /\ gone \subseteq older
      /\ Cardinality(gone) <= cfg.MaxCompactEvents
      /\ TotalSize(size, kept) <= budget
         \/ Cardinality(gone) = Least(Cardinality(older), cfg.MaxCompactEvents)
      /\ gone # {} => \E i \in gone : TotalSize(size, kept \cup {i}) > budget
      /\ \A i \in gone, j \in kept \cap older : size[j] <= size[i]

\* BuildCompactView keeps its budget, and from the top: no event it leaves out
\* has a higher score than one it keeps, nor is it the later of equal ones.
HighestScoresStay(n, score, size, budget) ==
  LET view == BuildCompactView(n, score, size, budget)
  IN  /\ TotalSize(size, view) <= budget
      /\ \A i \in (1..n) \ view, j \in view :
           score[i] < score[j] \/ (score[i] = score[j] /\ i < j)

=============================================================================

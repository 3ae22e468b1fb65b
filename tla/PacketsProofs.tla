--------------------------- MODULE PacketsProofs ---------------------------
(***************************************************************************)
(* What a packet may and must hold, for any number of branches, any        *)
(* lengths and any byte limits: what the selector lets pass is followed    *)
(* through the compaction stages.                                          *)
(***************************************************************************)
EXTENDS Packets, WellFoundedInduction, TLAPS

Items  == [ord : Nat, kind : Kinds, text : Nat, sref : BOOLEAN, blob : BOOLEAN,
           provenance : Nat, required : BOOLEAN]
Bodies == [items : SUBSET Items, external : Nat, debug : Nat, provenance : Nat,
           checkpoint : BOOLEAN]

\* j is i, possibly without a text that a reference stands for.
Cuts(i, j) ==
  /\ j.ord = i.ord /\ j.kind = i.kind /\ j.sref = i.sref /\ j.blob = i.blob
  /\ j.text \in {0, i.text}
  /\ ~i.sref /\ ~i.blob => j.text = i.text

OneEach(S) == \A i, j \in S : i.ord = j.ord => i = j

\* The items T are items of S, cut; all of S are among them.
SomeOf(S, T) == (OneEach(S) => OneEach(T)) /\ \A j \in T : \E i \in S : Cuts(i, j)
AllOf(S, T)  == \A i \in S : \E j \in T : Cuts(i, j)

\* c is the body b with items cut and possibly fields dropped.
Trims(b, c) ==
  /\ c \in Bodies
  /\ c.external = b.external /\ c.checkpoint = b.checkpoint
  /\ SomeOf(b.items, c.items)
  /\ AllOf(b.items, c.items)

-----------------------------------------------------------------------------
(* The stages *)

LEMMA CutsCompose ==
  ASSUME NEW i, NEW j, NEW k, Cuts(i, j), Cuts(j, k)
  PROVE  Cuts(i, k)
  BY DEF Cuts

LEMMA SomeOfCompose ==
  ASSUME NEW S, NEW T, NEW U, SomeOf(S, T), SomeOf(T, U)
  PROVE  SomeOf(S, U)
<1>1. ASSUME NEW k \in U PROVE \E i \in S : Cuts(i, k)
  <2>1. PICK j \in T : Cuts(j, k)
    BY DEF SomeOf
  <2>2. PICK i \in S : Cuts(i, j)
    BY DEF SomeOf
  <2> QED
    BY <2>1, <2>2, CutsCompose
<1> QED
  BY <1>1 DEF SomeOf

LEMMA TrimsCompose ==
  ASSUME NEW b, NEW c, NEW d, Trims(b, c), Trims(c, d)
  PROVE  Trims(b, d)
<1>1. SomeOf(b.items, d.items)
  BY SomeOfCompose DEF Trims
<1>2. ASSUME NEW i \in b.items PROVE \E k \in d.items : Cuts(i, k)
  <2>1. PICK j \in c.items : Cuts(i, j)
    BY DEF Trims, AllOf
  <2>2. PICK k \in d.items : Cuts(j, k)
    BY DEF Trims, AllOf
  <2> QED
    BY <2>1, <2>2, CutsCompose
<1> QED
  BY <1>1, <1>2 DEF Trims, AllOf

LEMMA TrimsSelf ==
  ASSUME NEW b \in Bodies
  PROVE  Trims(b, b)
  BY DEF Trims, SomeOf, AllOf, Cuts, Bodies, Items

\* Rewriting each item by a cut of it trims the body.
LEMMA RewriteTrims ==
  ASSUME NEW b \in Bodies, NEW F \in [b.items -> Items],
         \A i \in b.items : Cuts(i, F[i])
  PROVE  LET c == [b EXCEPT !.items = {F[i] : i \in b.items}]
         IN  Trims(b, c) /\ c.items = {F[i] : i \in b.items}
<1> DEFINE X == {F[i] : i \in b.items}
<1>1. X \in SUBSET Items
  OBVIOUS
<1>2. \A i \in b.items : F[i] \in X
  OBVIOUS
<1>3. \A j \in X : \E i \in b.items : j = F[i]
  OBVIOUS
<1> HIDE DEF X
<1> DEFINE c == [b EXCEPT !.items = X]
<1>4. c \in Bodies /\ c.external = b.external /\ c.checkpoint = b.checkpoint /\ c.items = X
  BY <1>1 DEF Bodies
<1> HIDE DEF c
<1>5. ASSUME OneEach(b.items), NEW j \in X, NEW k \in X, j.ord = k.ord
      PROVE  j = k
  <2>1. PICK i \in b.items : j = F[i]
    BY <1>3
  <2>2. PICK l \in b.items : k = F[l]
    BY <1>3
  <2>3. i.ord = l.ord
    BY <1>5, <2>1, <2>2 DEF Cuts
  <2> QED
    BY <1>5, <2>1, <2>2, <2>3 DEF OneEach
<1>6. SomeOf(b.items, X)
  BY <1>3, <1>5 DEF SomeOf, OneEach
<1>7. AllOf(b.items, X)
  BY <1>2 DEF AllOf
<1>8. Trims(b, c)
  BY <1>4, <1>6, <1>7 DEF Trims
<1> QED
  BY <1>4, <1>8 DEF c, X

LEMMA DropDebugTrims ==
  ASSUME NEW b \in Bodies
  PROVE  Trims(b, DropDebug(b))
<1>1. DropDebug(b) \in Bodies
  BY DEF DropDebug, Bodies
<1> QED
  BY <1>1, TrimsSelf DEF DropDebug, Trims, Bodies

LEMMA DropProvenanceTrims ==
  ASSUME NEW b \in Bodies
  PROVE  Trims(b, DropProvenance(b))
<1> DEFINE f(i) == IF i.required THEN i ELSE [i EXCEPT !.provenance = 0]
           F == [i \in b.items |-> f(i)]
           X == {F[i] : i \in b.items}
           c == [b EXCEPT !.items = X]
<1>1. \A i \in Items : f(i) \in Items /\ Cuts(i, f(i))
  BY DEF Items, Cuts
<1>2. b.items \subseteq Items
  BY DEF Bodies
<1>3. F \in [b.items -> Items] /\ \A i \in b.items : Cuts(i, F[i])
  BY <1>1, <1>2
<1>4. Trims(b, c) /\ c.items = X
  BY <1>3, RewriteTrims
<1>5. {f(i) : i \in b.items} = X
  OBVIOUS
<1>6. DropProvenance(b) = [b EXCEPT !.provenance = 0, !.items = X]
  BY <1>5 DEF DropProvenance
<1> HIDE DEF X, F, f
<1>7. [b EXCEPT !.provenance = 0, !.items = X] = [c EXCEPT !.provenance = 0]
  BY DEF Bodies
<1> HIDE DEF c
<1>8. LET d == [c EXCEPT !.provenance = 0]
      IN  d \in Bodies /\ d.external = c.external /\ d.checkpoint = c.checkpoint
          /\ d.items = c.items
  BY <1>4 DEF Trims, Bodies
<1> QED
  BY <1>4, <1>6, <1>7, <1>8 DEF Trims

LEMMA SummarizedTrims ==
  ASSUME NEW b \in Bodies
  PROVE  /\ Trims(b, SummarizedByRef(b))
         /\ \A j \in SummarizedByRef(b).items : j.sref => j.text = 0
<1> DEFINE f(i) == IF i.sref THEN WithoutText(i) ELSE i
           F == [i \in b.items |-> f(i)]
           X == {F[i] : i \in b.items}
<1>1. \A i \in Items : f(i) \in Items /\ Cuts(i, f(i)) /\ (f(i).sref => f(i).text = 0)
  BY DEF Items, Cuts, WithoutText
<1>2. b.items \subseteq Items
  BY DEF Bodies
<1>3. F \in [b.items -> Items] /\ \A i \in b.items : Cuts(i, F[i])
  BY <1>1, <1>2
<1>4. LET c == [b EXCEPT !.items = X] IN Trims(b, c) /\ c.items = X
  BY <1>3, RewriteTrims
<1>5. {f(i) : i \in b.items} = X
  OBVIOUS
<1>6. SummarizedByRef(b) = [b EXCEPT !.items = X]
  BY <1>5 DEF SummarizedByRef
<1>7. \A j \in X : j.sref => j.text = 0
  BY <1>1, <1>2
<1> QED
  BY <1>4, <1>6, <1>7

LEMMA BlobsTrims ==
  ASSUME NEW b \in Bodies
  PROVE  /\ Trims(b, BlobsByRef(b))
         /\ \A j \in BlobsByRef(b).items : j.blob => j.text = 0
<1> DEFINE f(i) == IF i.blob THEN WithoutText(i) ELSE i
           F == [i \in b.items |-> f(i)]
           X == {F[i] : i \in b.items}
<1>1. \A i \in Items : f(i) \in Items /\ Cuts(i, f(i)) /\ (f(i).blob => f(i).text = 0)
  BY DEF Items, Cuts, WithoutText
<1>2. b.items \subseteq Items
  BY DEF Bodies
<1>3. F \in [b.items -> Items] /\ \A i \in b.items : Cuts(i, F[i])
  BY <1>1, <1>2
<1>4. LET c == [b EXCEPT !.items = X] IN Trims(b, c) /\ c.items = X
  BY <1>3, RewriteTrims
<1>5. {f(i) : i \in b.items} = X
  OBVIOUS
<1>6. BlobsByRef(b) = [b EXCEPT !.items = X]
  BY <1>5 DEF BlobsByRef
<1>7. \A j \in X : j.blob => j.text = 0
  BY <1>1, <1>2
<1> QED
  BY <1>4, <1>6, <1>7

LEMMA NewestFacts ==
  ASSUME NEW b \in Bodies
  PROVE  /\ NewestOnly(b) \in Bodies
         /\ NewestOnly(b).external = b.external
         /\ SomeOf(b.items, NewestOnly(b).items)
         /\ NewestOnly(b).items = {i \in b.items : \A j \in b.items : j.ord <= i.ord}
<1> DEFINE X == {i \in b.items : \A j \in b.items : j.ord <= i.ord}
<1>1. X \in SUBSET Items /\ X \subseteq b.items
  BY DEF Bodies
<1>2. NewestOnly(b) = [b EXCEPT !.items = X]
  BY DEF NewestOnly
<1> HIDE DEF X
<1>3. NewestOnly(b) \in Bodies /\ NewestOnly(b).external = b.external
      /\ NewestOnly(b).items = X
  BY <1>1, <1>2 DEF Bodies
<1>4. \A i \in X : Cuts(i, i)
  BY <1>1 DEF Cuts, Items
<1>5. SomeOf(b.items, X)
  BY <1>1, <1>4 DEF SomeOf, OneEach
<1> QED
  BY <1>3, <1>5 DEF X

\* The body after s stages, where there is no checkpoint to collapse into.
CompactsTo(b, s, c) ==
  /\ c \in Bodies
  /\ c.external = b.external
  /\ SomeOf(b.items, c.items)
  /\ s < 5 => AllOf(b.items, c.items)
  /\ s >= 5 =>
       /\ \A j \in c.items, i \in b.items : i.ord <= j.ord
       /\ \A i \in b.items :
            (\A k \in b.items : k.ord <= i.ord) => \E j \in c.items : Cuts(i, j)
  /\ s >= 6 => \A j \in c.items : j.sref \/ j.blob => j.text = 0

\* Cuts keep the order.
LEMMA TrimsOrder ==
  ASSUME NEW b \in Bodies, NEW c, Trims(b, c), NEW j \in c.items,
         \A k \in c.items : k.ord <= j.ord
  PROVE  \A i \in b.items : i.ord <= j.ord
<1>1. ASSUME NEW i \in b.items PROVE i.ord <= j.ord
  <2>1. PICK k \in c.items : Cuts(i, k)
    BY DEF Trims, AllOf
  <2> QED
    BY <2>1 DEF Cuts
<1> QED
  BY <1>1

LEMMA CompactedFacts ==
  ASSUME NEW b \in Bodies, b.checkpoint = FALSE, NEW s \in 0..7
  PROVE  CompactsTo(b, s, Compacted(b, s))
<1> DEFINE b1 == IF s >= 1 THEN DropDebug(b)           ELSE b
           b2 == IF s >= 2 THEN DropProvenance(b1)        ELSE b1
           b3 == IF s >= 3 THEN SummarizedByRef(b2)       ELSE b2
           b4 == IF s >= 4 THEN CollapsedToCheckpoint(b3) ELSE b3
           b5 == IF s >= 5 THEN NewestOnly(b4)            ELSE b4
           b6 == IF s >= 6 THEN BlobsByRef(b5) ELSE b5
<1>0. Compacted(b, s) = b6
  BY DEF Compacted
<1>1. Trims(b, b1)
  BY TrimsSelf, DropDebugTrims
<1> HIDE DEF b1
<1>2. Trims(b, b2)
  <2>1. b1 \in Bodies
    BY <1>1 DEF Trims
  <2>2. Trims(b1, b2)
    BY <2>1, TrimsSelf, DropProvenanceTrims
  <2> QED
    BY <1>1, <2>2, TrimsCompose
<1> HIDE DEF b2
<1>3. Trims(b, b3) /\ (s >= 3 => \A j \in b3.items : j.sref => j.text = 0)
  <2>1. b2 \in Bodies
    BY <1>2 DEF Trims
  <2>2. Trims(b2, b3) /\ (s >= 3 => \A j \in b3.items : j.sref => j.text = 0)
    BY <2>1, TrimsSelf, SummarizedTrims
  <2>3. Trims(b, b3)
    BY <1>2, <2>2, TrimsCompose
  <2> QED
    BY <2>2, <2>3
<1> HIDE DEF b3
<1>4. b4 = b3
  BY <1>3 DEF CollapsedToCheckpoint, Trims
<1>5. CASE s < 5
  <2>1. b6 = b3
    BY <1>4, <1>5
  <2> QED
    BY <1>0, <1>3, <1>5, <2>1 DEF CompactsTo, Trims
<1>6. CASE s >= 5
  <2> DEFINE n == NewestOnly(b3)
  <2>1. b5 = n
    BY <1>4, <1>6
  <2>2. b3 \in Bodies
    BY <1>3 DEF Trims
  <2>3. /\ n \in Bodies /\ n.external = b3.external /\ SomeOf(b3.items, n.items)
        /\ n.items = {i \in b3.items : \A j \in b3.items : j.ord <= i.ord}
    BY <2>2, NewestFacts
  <2> HIDE DEF n, b5
  <2>4. SomeOf(b.items, n.items)
    BY <1>3, <2>3, SomeOfCompose DEF Trims
  <2>5. \A j \in n.items, i \in b.items : i.ord <= j.ord
    BY <1>3, <2>3, TrimsOrder
  <2>6. ASSUME NEW i \in b.items, \A k \in b.items : k.ord <= i.ord
        PROVE  \E j \in n.items : Cuts(i, j)
    <3>1. PICK j \in b3.items : Cuts(i, j)
      BY <1>3 DEF Trims, AllOf
    <3>2. ASSUME NEW k \in b3.items PROVE k.ord <= j.ord
      <4>1. PICK l \in b.items : Cuts(l, k)
        BY <1>3 DEF Trims, SomeOf
      <4> QED
        BY <2>6, <3>1, <4>1 DEF Cuts
    <3> QED
      BY <2>3, <3>1, <3>2
  <2>7. \A j \in n.items : j.sref => j.text = 0
    BY <1>3, <1>6, <2>3
  <2>8. Trims(n, b6) /\ (s >= 6 => \A j \in b6.items : j.blob => j.text = 0)
    BY <2>1, <2>3, TrimsSelf, BlobsTrims
  <2> HIDE DEF b6
  <2>9. SomeOf(b.items, b6.items)
    BY <2>4, <2>8, SomeOfCompose DEF Trims
  <2>10. ASSUME NEW j \in b6.items PROVE \E k \in n.items : Cuts(k, j)
    BY <2>8, <2>10 DEF Trims, SomeOf
  <2>11. \A j \in b6.items, i \in b.items : i.ord <= j.ord
    BY <2>5, <2>10 DEF Cuts
  <2>12. \A j \in b6.items : j.sref => j.text = 0
    <3> SUFFICES ASSUME NEW j \in b6.items, j.sref PROVE j.text = 0
      OBVIOUS
    <3>1. PICK k \in n.items : Cuts(k, j)
      BY <2>10
    <3> QED
      BY <2>7, <3>1 DEF Cuts
  <2>13. ASSUME NEW i \in b.items, \A k \in b.items : k.ord <= i.ord
         PROVE  \E j \in b6.items : Cuts(i, j)
    <3>1. PICK k \in n.items : Cuts(i, k)
      BY <2>6, <2>13
    <3>2. PICK j \in b6.items : Cuts(k, j)
      BY <2>8 DEF Trims, AllOf
    <3> QED
      BY <3>1, <3>2, CutsCompose
  <2>14. b6 \in Bodies /\ b6.external = b.external
    BY <1>3, <2>3, <2>8 DEF Trims
  <2> QED
    BY <1>0, <1>6, <2>8, <2>9, <2>11, <2>12, <2>13, <2>14 DEF CompactsTo
<1> QED
  BY <1>5, <1>6

-----------------------------------------------------------------------------
(* Assemble *)

\* A request as sessions make it: no checkpoint, and every tool's result has
\* its summary reference.
OfSession(b) ==
  /\ b \in Bodies /\ b.checkpoint = FALSE
  /\ \A i \in b.items : i.kind = "tool.result" => i.sref

NoToolText(S) == \A j \in S : j.kind = "tool.result" => j.text = 0

LEMMA NormalizeFacts ==
  ASSUME NEW b, OfSession(b)
  PROVE  Trims(b, Normalize(b)) /\ NoToolText(Normalize(b).items)
<1> DEFINE F == [i \in b.items |-> Inline(Excerpt(i))]
           X == {F[i] : i \in b.items}
<1>1. ASSUME NEW i \in Items, i.kind = "tool.result" => i.sref
      PROVE  /\ Inline(Excerpt(i)) \in Items /\ Cuts(i, Inline(Excerpt(i)))
             /\ Inline(Excerpt(i)).kind = "tool.result" => Inline(Excerpt(i)).text = 0
  <2>1. WithoutText(i) \in Items /\ Cuts(i, i)
        /\ WithoutText(i).ord = i.ord /\ WithoutText(i).kind = i.kind
        /\ WithoutText(i).text = 0
        /\ WithoutText(i).sref = i.sref /\ WithoutText(i).blob = i.blob
    BY DEF WithoutText, Items, Cuts
  <2>2. CASE i.kind = "tool.result"
    <3>1. Excerpt(i) = WithoutText(i)
      BY <1>1, <2>2 DEF Excerpt
    <3>2. 0 > InlineBytes \/ Inline(WithoutText(i)) = WithoutText(i)
      BY <2>1 DEF Inline
    <3>3. ~(0 > InlineBytes)
      BY BytesAssumption
    <3> QED
      BY <1>1, <2>1, <2>2, <3>1, <3>2, <3>3 DEF Cuts
  <2>3. CASE i.kind # "tool.result"
    <3>1. Excerpt(i) = i
      BY <2>3 DEF Excerpt
    <3>2. Inline(i) = i \/ (i.blob /\ Inline(i) = WithoutText(i))
      BY DEF Inline
    <3> QED
      BY <2>1, <2>3, <3>1, <3>2 DEF Cuts
  <2> QED
    BY <2>2, <2>3
<1>2. b.items \subseteq Items /\ b \in Bodies
  BY DEF Bodies, OfSession
<1>3. F \in [b.items -> Items] /\ \A i \in b.items : Cuts(i, F[i])
  BY <1>1, <1>2 DEF OfSession
<1>4. LET c == [b EXCEPT !.items = X] IN Trims(b, c) /\ c.items = X
  BY <1>2, <1>3, RewriteTrims
<1>5. {Inline(Excerpt(i)) : i \in b.items} = X
  OBVIOUS
<1>6. Normalize(b) = [b EXCEPT !.items = X]
  BY <1>5 DEF Normalize
<1>7. NoToolText(X)
  BY <1>1, <1>2 DEF NoToolText, OfSession
<1> QED
  BY <1>4, <1>6, <1>7

\* Cutting gives no tool's result a text back.
LEMMA CutsNoToolText ==
  ASSUME NEW S, NEW T, SomeOf(S, T), NoToolText(S)
  PROVE  NoToolText(T)
<1> SUFFICES ASSUME NEW j \in T, j.kind = "tool.result"
             PROVE  j.text = 0
  BY DEF NoToolText
<1>1. PICK i \in S : Cuts(i, j)
  BY DEF SomeOf
<1> QED
  BY <1>1 DEF Cuts, NoToolText

LEMMA WithinBudgetFacts ==
  ASSUME NEW b \in Bodies
  PROVE  LET w == WithinBudget(b)
         IN  /\ w \in Bodies /\ w.items = b.items /\ w.checkpoint = b.checkpoint
             /\ w.external \in {0, b.external}
             /\ w.external # 0 => w = b /\ Fits(b)
<1> DEFINE d == [b EXCEPT !.external = 0]
<1>1. d \in Bodies /\ d.items = b.items /\ d.checkpoint = b.checkpoint /\ d.external = 0
  BY DEF Bodies
<1>2. (WithinBudget(b) = b /\ Fits(b)) \/ WithinBudget(b) = d
  BY DEF WithinBudget
<1> HIDE DEF d
<1> QED
  BY <1>1, <1>2

\* The stages that fit have a first one.
LEMMA LeastStage ==
  ASSUME NEW S \in SUBSET (0..7), S # {}
  PROVE  \E s \in S : \A t \in S : s <= t
<1>1. S \subseteq Nat
  OBVIOUS
<1>2. PICK s \in S : \A t \in S : <<t, s>> \notin OpToRel(<, Nat)
  BY <1>1, WFMin, NatLessThanWellFounded, Zenon
<1>3. \A t \in S : ~(t < s)
  BY <1>1, <1>2, Zenon DEF OpToRel
<1> QED
  BY <1>1, <1>3

LEMMA AssembleFacts ==
  ASSUME NEW b, OfSession(b)
  PROVE  LET r == Assemble(b)
         IN  /\ r.stage \in 0..7
             /\ r.ok => Fits(r.body)
             /\ ~r.ok => r.stage = 7 /\ ~Fits(r.body) /\ r.body.external = 0
             /\ CompactsTo([b EXCEPT !.external = r.body.external], r.stage, r.body)
             /\ r.body.external > 0 => r.stage = 0
             /\ NoToolText(r.body.items)
<1> DEFINE r == Assemble(b)
           n == Normalize(b)
           w == WithinBudget(n)
           S == FittingStages(n)
           least == CHOOSE s \in S : \A t \in S : s <= t
<1>1. Trims(b, n) /\ NoToolText(n.items) /\ n \in Bodies
      /\ n.checkpoint = FALSE /\ n.external = b.external
  BY NormalizeFacts DEF Trims, OfSession
<1>2. /\ w \in Bodies /\ w.items = n.items /\ w.checkpoint = FALSE
      /\ w.external \in {0, b.external} /\ (w.external # 0 => w = n /\ Fits(n))
  BY <1>1, WithinBudgetFacts
<1>3. S \subseteq 0..7 /\ \A s \in 0..7 : s \in S <=> Fits(Compacted(w, s))
  BY DEF FittingStages
<1>4. S # {} => least \in S /\ \A t \in S : least <= t
  BY <1>3, LeastStage
<1>5. /\ r.ok <=> S # {}
      /\ S = {} => r.stage = 7
      /\ S # {} => r.stage = least
      /\ r.body = Compacted(w, r.stage)
  BY DEF Assemble
<1> HIDE DEF r, n, w, S, least
<1>6. r.stage \in 0..7
  <2>1. S # {} => least \in 0..7
    BY <1>3, <1>4
  <2> QED
    BY <1>5, <2>1
<1>7. r.ok => Fits(r.body)
  BY <1>3, <1>4, <1>5
<1>8. ~r.ok => r.stage = 7 /\ ~Fits(r.body)
  BY <1>3, <1>5
<1>9. CompactsTo(w, r.stage, r.body)
  BY <1>2, <1>5, <1>6, CompactedFacts
<1>10. r.body.external = w.external
  BY <1>9 DEF CompactsTo
<1>11. w.external # 0 => r.ok /\ r.stage = 0
  <2> SUFFICES ASSUME w.external # 0
               PROVE  r.ok /\ r.stage = 0
    OBVIOUS
  <2>1. Compacted(w, 0) = w
    BY DEF Compacted
  <2>2. 0 \in S
    BY <1>2, <1>3, <2>1
  <2>3. least \in 0..7 /\ least <= 0
    BY <1>3, <1>4, <2>2
  <2>4. r.stage = least /\ r.ok
    BY <1>5, <2>2
  <2> QED
    BY <2>3, <2>4
<1>12. NoToolText(r.body.items)
  <2>1. SomeOf(n.items, r.body.items)
    BY <1>2, <1>9 DEF CompactsTo
  <2> QED
    BY <1>1, <2>1, CutsNoToolText
<1>13. CompactsTo([b EXCEPT !.external = r.body.external], r.stage, r.body)
  <2> DEFINE e == [b EXCEPT !.external = r.body.external]
  <2>1. e.items = b.items /\ e.external = r.body.external
    BY DEF OfSession, Bodies
  <2>2. b \in Bodies
    BY DEF OfSession
  <2> HIDE DEF e
  <2>3. SomeOf(b.items, r.body.items)
    BY <1>1, <1>2, <1>9, SomeOfCompose DEF Trims, CompactsTo
  <2>4. ASSUME r.stage < 5 PROVE AllOf(b.items, r.body.items)
    <3> SUFFICES ASSUME NEW i \in b.items
                 PROVE  \E k \in r.body.items : Cuts(i, k)
      BY DEF AllOf
    <3>1. PICK j \in n.items : Cuts(i, j)
      BY <1>1 DEF Trims, AllOf
    <3>2. PICK k \in r.body.items : Cuts(j, k)
      BY <1>2, <1>9, <2>4 DEF CompactsTo, AllOf
    <3> QED
      BY <3>1, <3>2, CutsCompose
  <2>5. ASSUME r.stage >= 5, NEW j \in r.body.items, NEW i \in b.items PROVE i.ord <= j.ord
    <3>1. PICK k \in n.items : Cuts(i, k)
      BY <1>1 DEF Trims, AllOf
    <3> QED
      BY <1>2, <1>9, <2>5, <3>1 DEF CompactsTo, Cuts
  <2>6. ASSUME r.stage >= 5, NEW i \in b.items, \A k \in b.items : k.ord <= i.ord
        PROVE  \E j \in r.body.items : Cuts(i, j)
    <3>1. PICK k \in n.items : Cuts(i, k)
      BY <1>1 DEF Trims, AllOf
    <3>2. ASSUME NEW l \in n.items PROVE l.ord <= k.ord
      <4>1. PICK m \in b.items : Cuts(m, l)
        BY <1>1 DEF Trims, SomeOf
      <4> QED
        BY <2>6, <3>1, <4>1 DEF Cuts
    <3>3. PICK j \in r.body.items : Cuts(k, j)
      BY <1>2, <1>9, <2>6, <3>2 DEF CompactsTo
    <3> QED
      BY <3>1, <3>3, CutsCompose
  <2> QED
    BY <1>9, <2>1, <2>3, <2>4, <2>5, <2>6 DEF CompactsTo
<1>14. r.body.external \in Nat
  BY <1>9 DEF CompactsTo, Bodies
<1> QED
  BY <1>6, <1>7, <1>8, <1>10, <1>11, <1>12, <1>13, <1>14 DEF r

-----------------------------------------------------------------------------
(* What the selector lets pass *)

\* i is what the working set of branch b has of the event at i.ord.
Shows(i, b) ==
  LET e == spine[i.ord]
  IN  /\ i.ord \in DOMAIN spine
      /\ i.kind = e.kind
      /\ i.kind \notin SpineOnlyKinds
      /\ e.branch = b => i.kind \notin DebugKinds \cup {"tool.request", "tool.failure"}
      /\ e.branch # b => i.blob /\ i.text = 0
      /\ i.kind = "tool.result" => i.sref

\* A turn of the branch is in the working set, with its text where the packet
\* is about it or it is not both large and stale.
HasTurn(S, t) ==
  \E i \in S :
    /\ i.ord = t /\ ~i.sref /\ ~i.blob
    /\ \/ i.text = spine[t].text
       \/ /\ ~IsLatest(t, "turn.user")
          /\ spine[t].text > LargeTextBytes /\ Len(spine) - t > StaleDistance

LEMMA SpineFacts ==
  ASSUME TypeOK
  PROVE  /\ Len(spine) \in Nat /\ DOMAIN spine = 1..Len(spine)
         /\ \A i \in DOMAIN spine : spine[i] \in Events /\ i \in Nat
<1>1. spine \in Seq(Events)
  BY DEF TypeOK
<1> QED
  BY <1>1

LEMMA RequestFacts ==
  ASSUME TypeOK, PayloadsOfWriters, NEW b \in Branches, NEW ext \in Nat, NEW found
  PROVE  LET r == Request(b, ext, found)
         IN  /\ OfSession(r) /\ r.external = ext
             /\ OneEach(r.items)
             /\ \A i \in r.items : Shows(i, b)
             /\ \A t \in DOMAIN spine :
                  IsTurn(t) /\ spine[t].branch = b => HasTurn(r.items, t)
<1> DEFINE r == Request(b, ext, found)
           latest == Len(spine)
           c(i) == Candidate(i, b, found)
           why(i) == Reason(c(i), latest)
           w(i) == WorkingItem(Item(c(i), latest))
           chosen == {i \in DOMAIN spine : why(i) \notin Excluding}
<1>1. r.items = {w(i) : i \in chosen}
  BY DEF Request, WorkingSet, Select
<1>2. /\ r.external = ext /\ r.debug = 0 /\ r.provenance = 0 /\ r.checkpoint = FALSE
  BY DEF Request
<1>3. ASSUME NEW i \in DOMAIN spine
      PROVE  /\ w(i).ord = i /\ w(i).kind = spine[i].kind
             /\ w(i).sref = (spine[i].ref /\ spine[i].kind \in {"tool.result", "summary.checkpoint"})
             /\ w(i).blob = spine[i].blob
             /\ w(i).text = IF why(i) \in Passthrough THEN spine[i].text ELSE 0
             /\ w(i).provenance = 0 /\ w(i).required = FALSE
  BY DEF WorkingItem, Item, Candidate
<1>4. ASSUME NEW i \in DOMAIN spine PROVE w(i) \in Items
  <2>1. spine[i] \in Events /\ i \in Nat
    BY SpineFacts
  <2>2. w(i) = [ord |-> i, kind |-> spine[i].kind,
                text |-> IF why(i) \in Passthrough THEN spine[i].text ELSE 0,
                sref |-> spine[i].ref /\ spine[i].kind \in {"tool.result", "summary.checkpoint"},
                blob |-> spine[i].blob, provenance |-> 0, required |-> FALSE]
    BY DEF WorkingItem, Item, Candidate
  <2> HIDE DEF w, why
  <2> QED
    BY <2>1, <2>2 DEF Events, Items
<1> HIDE DEF w
<1>5. ASSUME NEW i \in chosen PROVE Shows(w(i), b)
  <2>1. i \in DOMAIN spine /\ why(i) \notin Excluding
    OBVIOUS
  <2>2. spine[i].kind \notin SpineOnlyKinds
    BY <2>1 DEF Reason, Candidate, Excluding
  <2>3. spine[i].branch = b => spine[i].kind \notin DebugKinds \cup {"tool.request", "tool.failure"}
    BY <2>1, <2>2 DEF Reason, Candidate, Excluding
  <2>4. spine[i].branch # b => spine[i].blob /\ why(i) = "global_relevant"
    BY <2>1, <2>2 DEF Reason, Candidate, Excluding
  <2>5. spine[i].kind = "tool.result" => spine[i].ref
    BY <2>1 DEF PayloadsOfWriters
  <2> HIDE DEF why
  <2> QED
    BY <1>3, <2>1, <2>2, <2>3, <2>4, <2>5 DEF Shows, Passthrough
<1>6. ASSUME NEW t \in DOMAIN spine, IsTurn(t), spine[t].branch = b
      PROVE  HasTurn(r.items, t)
  <2>1. spine[t].kind \in {"turn.user", "turn.agent"} /\ ~spine[t].ref /\ ~spine[t].blob
    BY <1>6 DEF IsTurn, PayloadsOfWriters
  <2>2. spine[t].kind \notin SpineOnlyKinds \cup DebugKinds
    BY <2>1 DEF SpineOnlyKinds, DebugKinds
  <2>3. IF IsLatest(t, "turn.user") THEN why(t) = "recent_turn"
        ELSE why(t) = IF LargeAndStale(c(t), latest) THEN "budget_fit" ELSE "branch_locality"
    BY <1>6, <2>1, <2>2 DEF Reason, Candidate, IsLatest
  <2>4. LargeAndStale(c(t), latest) =>
          spine[t].text > LargeTextBytes /\ Len(spine) - t > StaleDistance
    BY DEF LargeAndStale, Candidate
  <2> HIDE DEF why, c, latest
  <2>5. t \in chosen
    BY <2>3 DEF Excluding
  <2>6. w(t) \in r.items
    BY <1>1, <2>5
  <2>7. w(t).text = spine[t].text \/ why(t) = "budget_fit"
    BY <1>3, <2>3 DEF Passthrough
  <2>8. w(t).ord = t /\ w(t).blob = spine[t].blob
        /\ w(t).sref = (spine[t].ref /\ spine[t].kind \in {"tool.result", "summary.checkpoint"})
    BY <1>3, Zenon
  <2>10. w(t).ord = t /\ ~w(t).sref /\ ~w(t).blob
    BY <2>1, <2>8, Zenon
  <2>9. \/ w(t).text = spine[t].text
        \/ /\ ~IsLatest(t, "turn.user")
           /\ spine[t].text > LargeTextBytes /\ Len(spine) - t > StaleDistance
    BY <2>3, <2>4, <2>7
  <2> HIDE DEF r
  <2> QED
    BY <2>6, <2>9, <2>10 DEF HasTurn
<1>7. OneEach(r.items)
  <2> SUFFICES ASSUME NEW j \in r.items, NEW k \in r.items, j.ord = k.ord
               PROVE  j = k
    BY DEF OneEach
  <2>1. PICK i \in chosen : j = w(i)
    BY <1>1
  <2>2. PICK l \in chosen : k = w(l)
    BY <1>1
  <2>3. i \in DOMAIN spine /\ l \in DOMAIN spine
    OBVIOUS
  <2>4. w(i).ord = i /\ w(l).ord = l
    BY <1>3, <2>3
  <2>5. w(i).ord = w(l).ord
    BY <2>1, <2>2
  <2> QED
    BY <2>1, <2>2, <2>4, <2>5
<1>8. \A i \in r.items : Shows(i, b)
  BY <1>1, <1>5
<1>9. r.items \in SUBSET Items
  BY <1>1, <1>4
<1>10. r \in Bodies
  BY <1>9 DEF Request, Bodies
<1> HIDE DEF r
<1>11. OfSession(r)
  BY <1>2, <1>8, <1>10 DEF OfSession, Shows
<1> QED
  BY <1>2, <1>6, <1>7, <1>8, <1>11 DEF r

-----------------------------------------------------------------------------
(* A step that assembles *)

\* What all the packet's properties come to, by positions of the spine.
PacketProps ==
  /\ RejectionIsLastResort /\ QuestionReaches
  /\ NothingPrivateSent /\ ToolOutputByReference /\ ContextDisplacesNothing

LEMMA AssemblyKeepsSpine ==
  ASSUME TypeOK, NEW found, AssembleForBranch(found)
  PROVE  /\ \A i \in DOMAIN spine : i \in DOMAIN spine' /\ spine'[i] = spine[i]
         /\ packet' = Built(found) /\ turn # None /\ turn \in Turns
<1>1. turn # None /\ packet' = Built(found)
  BY DEF AssembleForBranch, Running
<1>2. turn \in Turns /\ spine \in Seq(Events)
  BY <1>1 DEF TypeOK
<1>3. spine' = spine \/ \E e \in Events : spine' = Append(spine, e)
  <2>1. ASSUME NEW kind \in DebugKinds PROVE Event(kind, turn.branch, 0, FALSE, FALSE) \in Events
    BY <1>2 DEF Event, Events, Turns, Kinds
  <2>2. {"packet.candidate", "packet.rejected_budget"} \subseteq DebugKinds
    BY DEF DebugKinds
  <2> QED
    BY <2>1, <2>2 DEF AssembleForBranch, Append1
<1>4. ASSUME NEW e \in Events, spine' = Append(spine, e), NEW i \in DOMAIN spine
      PROVE  i \in DOMAIN spine' /\ spine'[i] = spine[i]
  BY <1>2, <1>4
<1> QED
  BY <1>1, <1>2, <1>3, <1>4

\* Where the question's event is the newest the packet could hold, it is
\* what the last stages keep.
LEMMA QuestionSurvives ==
  ASSUME NEW b \in Bodies, NEW s \in 0..7, NEW c, CompactsTo(b, s, c),
         NEW q \in b.items, ~q.sref, ~q.blob, OneEach(b.items),
         \A i \in b.items : i.ord \in Nat,
         s >= 5 => \E m \in b.items : \A k \in b.items : k.ord <= m.ord
  PROVE  \/ \E i \in c.items : i.ord = q.ord /\ i.text = q.text
         \/ s >= 5 /\ \E i \in c.items : i.ord > q.ord
<1>1. CASE s < 5
  <2>1. PICK i \in c.items : Cuts(q, i)
    BY <1>1 DEF CompactsTo, AllOf
  <2> QED
    BY <2>1 DEF Cuts
<1>2. CASE s >= 5
  <2>1. PICK m \in b.items : \A k \in b.items : k.ord <= m.ord
    BY <1>2
  <2>2. PICK i \in c.items : Cuts(m, i)
    BY <1>2, <2>1 DEF CompactsTo
  <2>3. CASE m.ord = q.ord
    BY <2>2, <2>3 DEF Cuts, OneEach
  <2>4. CASE m.ord # q.ord
    BY <1>2, <2>1, <2>2, <2>4 DEF Cuts
  <2> QED
    BY <2>3, <2>4
<1> QED
  BY <1>1, <1>2

\* A set of positions that is not empty has a last one.
LEMMA LastItem ==
  ASSUME NEW n \in Nat, NEW S, NEW q \in S, \A i \in S : i.ord \in 1..n
  PROVE  \E m \in S : \A k \in S : k.ord <= m.ord
<1> DEFINE T == {n - i.ord : i \in S}
<1>1. \A i \in S : n - i.ord \in Nat /\ n - i.ord \in T
  OBVIOUS
<1>2. T \subseteq Nat /\ T # {}
  BY <1>1
<1>3. PICK y \in T : \A z \in T : <<z, y>> \notin OpToRel(<, Nat)
  BY <1>2, WFMin, NatLessThanWellFounded, Zenon
<1>4. \A z \in T : ~(z < y)
  BY <1>2, <1>3, Zenon DEF OpToRel
<1>5. PICK m \in S : y = n - m.ord
  OBVIOUS
<1>6. ASSUME NEW k \in S PROVE k.ord <= m.ord
  <2>1. ~(n - k.ord < n - m.ord)
    BY <1>1, <1>4, <1>5
  <2> QED
    BY <2>1
<1> QED
  BY <1>6

LEMMA AssembleStep ==
  ASSUME PacketInv, NEW found, AssembleForBranch(found)
  PROVE  PacketProps'
<1> DEFINE req == Request(turn.branch, turn.external, found)
           p == packet'
           same == [req EXCEPT !.external = p.body.external]
<1>1. TypeOK /\ AskIsCurrent /\ PayloadsOfWriters
  BY DEF PacketInv
<1>2. /\ \A i \in DOMAIN spine : i \in DOMAIN spine' /\ spine'[i] = spine[i]
      /\ p = Built(found) /\ turn # None /\ turn \in Turns
  BY <1>1, AssemblyKeepsSpine
<1>3. turn.branch \in Branches /\ turn.external \in Nat /\ turn.ask \in Nat
  BY <1>2 DEF Turns
<1>4. /\ OfSession(req) /\ req.external = turn.external
      /\ OneEach(req.items)
      /\ \A i \in req.items : Shows(i, turn.branch)
      /\ \A t \in DOMAIN spine :
           IsTurn(t) /\ spine[t].branch = turn.branch => HasTurn(req.items, t)
  BY <1>1, <1>3, RequestFacts
<1>5. /\ p.ok = Assemble(req).ok /\ p.stage = Assemble(req).stage
      /\ p.body = Assemble(req).body /\ p.branch = turn.branch
      /\ p.ask = turn.ask /\ p.read = Len(spine)
  BY <1>2 DEF Built
<1> HIDE DEF req, p
<1>6. /\ p.stage \in 0..7
      /\ p.ok => Fits(p.body)
      /\ ~p.ok => p.stage = 7 /\ ~Fits(p.body) /\ p.body.external = 0
      /\ CompactsTo(same, p.stage, p.body)
      /\ p.body.external > 0 => p.stage = 0
      /\ NoToolText(p.body.items)
  BY <1>4, <1>5, AssembleFacts
<1>7. same.items = req.items /\ same \in Bodies
  <2>1. p.body.external \in Nat
    BY <1>6 DEF CompactsTo, Bodies
  <2> QED
    BY <1>4, <2>1 DEF OfSession, Bodies
<1> HIDE DEF same
<1>8. SomeOf(req.items, p.body.items) /\ p.body \in Bodies
  BY <1>6, <1>7 DEF CompactsTo
<1>9. turn.ask \in DOMAIN spine /\ spine[turn.ask].branch = turn.branch
      /\ IsLatest(turn.ask, "turn.user") /\ IsTurn(turn.ask)
  BY <1>1, <1>2 DEF AskIsCurrent, OnBranch, IsLatest, IsTurn
<1>10. Len(spine) \in Nat /\ DOMAIN spine = 1..Len(spine)
  BY <1>1, SpineFacts
<1>12. RejectionIsLastResort'
  <2> SUFFICES ASSUME ~p.ok
               PROVE  /\ ~Fits(p.body) /\ p.body.external = 0
                      /\ \A i, j \in p.body.items : i = j
                      /\ \A i \in p.body.items : i.blob \/ i.sref => i.text = 0
    BY DEF RejectionIsLastResort, Fits, BodyBytes, p
  <2>1. ASSUME NEW i \in p.body.items, NEW j \in p.body.items PROVE i = j
    <3>1. PICK k \in req.items : Cuts(k, i)
      BY <1>8 DEF SomeOf
    <3>2. PICK l \in req.items : Cuts(l, j)
      BY <1>8 DEF SomeOf
    <3>3. k.ord <= j.ord /\ l.ord <= i.ord
      BY <1>6, <1>7 DEF CompactsTo
    <3>4. k.ord \in Nat /\ l.ord \in Nat
      BY <1>4 DEF OfSession, Bodies, Items
    <3>5. i.ord = j.ord
      BY <3>1, <3>2, <3>3, <3>4 DEF Cuts
    <3> QED
      BY <1>4, <1>8, <3>5 DEF SomeOf, OneEach
  <2>2. \A i \in p.body.items : i.blob \/ i.sref => i.text = 0
    BY <1>6 DEF CompactsTo
  <2> QED
    BY <1>6, <2>1, <2>2
<1>13. QuestionReaches'
  <2> SUFFICES \/ \E i \in p.body.items : i.ord = turn.ask /\ i.text = spine[turn.ask].text
               \/ p.stage >= 5 /\ \E i \in p.body.items : i.ord > turn.ask
    BY <1>2, <1>5, <1>9 DEF QuestionReaches, p
  <2>1. PICK q \in req.items : /\ q.ord = turn.ask /\ ~q.sref /\ ~q.blob
                               /\ q.text = spine[turn.ask].text
    BY <1>4, <1>9 DEF HasTurn
  <2>2. \A i \in req.items : i.ord \in 1..Len(spine) /\ i.ord \in Nat
    BY <1>4, <1>10 DEF Shows
  <2>3. \E m \in req.items : \A k \in req.items : k.ord <= m.ord
    BY <1>10, <2>1, <2>2, LastItem
  <2>4. \/ \E i \in p.body.items : i.ord = q.ord /\ i.text = q.text
        \/ p.stage >= 5 /\ \E i \in p.body.items : i.ord > q.ord
    BY <1>4, <1>6, <1>7, <2>1, <2>2, <2>3, QuestionSurvives
  <2> QED
    BY <2>1, <2>4
<1>14. ASSUME NEW i \in p.body.items
       PROVE  Shows(i, turn.branch) /\ spine'[i.ord] = spine[i.ord]
  <2>1. PICK k \in req.items : Cuts(k, i)
    BY <1>8 DEF SomeOf
  <2>2. Shows(k, turn.branch)
    BY <1>4
  <2> QED
    BY <1>2, <2>1, <2>2 DEF Shows, Cuts
<1>15. NothingPrivateSent'
  BY <1>5, <1>14 DEF NothingPrivateSent, Shows, p
<1>16. ToolOutputByReference'
  BY <1>6, <1>14 DEF ToolOutputByReference, Shows, NoToolText, p
<1>17. ContextDisplacesNothing'
  <2> SUFFICES ASSUME p.body.external > 0, NEW t \in 1..Len(spine),
                      IsTurn(t)', spine'[t].branch = turn.branch
               PROVE  \E i \in p.body.items :
                        /\ i.ord = t
                        /\ \/ i.text = spine'[t].text
                           \/ spine'[t].text > LargeTextBytes /\ Len(spine) - t > StaleDistance
    BY <1>5 DEF ContextDisplacesNothing, Packed, p
  <2>1. t \in DOMAIN spine /\ spine'[t] = spine[t]
    BY <1>2, <1>10
  <2>2. IsTurn(t) /\ spine[t].branch = turn.branch
    BY <2>1 DEF IsTurn
  <2>3. PICK q \in req.items :
          /\ q.ord = t /\ ~q.sref /\ ~q.blob
          /\ \/ q.text = spine[t].text
             \/ spine[t].text > LargeTextBytes /\ Len(spine) - t > StaleDistance
    BY <1>4, <2>1, <2>2 DEF HasTurn
  <2>4. PICK i \in p.body.items : Cuts(q, i)
    BY <1>6, <1>7 DEF CompactsTo, AllOf
  <2> QED
    BY <2>1, <2>3, <2>4 DEF Cuts
<1> QED
  BY <1>12, <1>13, <1>15, <1>16, <1>17 DEF PacketProps

-----------------------------------------------------------------------------
(* The invariant *)

\* A step that appends an event other than a question keeps the invariant.
LEMMA AppendStep ==
  ASSUME PacketInv, NEW e \in Events, spine' = Append(spine, e),
         e.kind # "turn.user",
         e.kind = "turn.agent" => ~e.ref /\ ~e.blob,
         e.kind = "tool.result" => e.ref,
         indexed' \subseteq DOMAIN spine',
         turn' # None =>
           turn' \in Turns /\ turn # None /\ turn'.branch = turn.branch /\ turn'.ask = turn.ask
  PROVE  PacketInv'
<1>1. TypeOK /\ AskIsCurrent /\ PayloadsOfWriters
  BY DEF PacketInv
<1>2. spine \in Seq(Events) /\ Len(spine) \in Nat
  BY <1>1 DEF TypeOK
<1>3. /\ spine' \in Seq(Events) /\ DOMAIN spine' = 1..(Len(spine) + 1)
      /\ DOMAIN spine = 1..Len(spine)
      /\ \A i \in DOMAIN spine : i \in DOMAIN spine' /\ spine'[i] = spine[i]
      /\ spine'[Len(spine) + 1] = e
  BY <1>2
<1>4. \A i \in DOMAIN spine' : i \in DOMAIN spine \/ spine'[i] = e
  BY <1>2, <1>3
<1>5. TypeOK'
  BY <1>3 DEF TypeOK
<1>6. AskIsCurrent'
  <2> SUFFICES ASSUME turn' # None
               PROVE  /\ turn'.ask \in DOMAIN spine'
                      /\ spine'[turn'.ask].branch = turn'.branch
                      /\ spine'[turn'.ask].kind = "turn.user"
                      /\ \A j \in DOMAIN spine' :
                           j > turn'.ask =>
                             ~(/\ spine'[j].kind = "turn.user"
                               /\ spine'[j].branch = spine'[turn'.ask].branch)
    BY DEF AskIsCurrent, OnBranch, IsLatest
  <2>1. turn'.ask = turn.ask /\ turn'.branch = turn.branch
    OBVIOUS
  <2>2. turn.ask \in DOMAIN spine /\ spine[turn.ask].branch = turn.branch
        /\ IsLatest(turn.ask, "turn.user")
    BY <1>1 DEF AskIsCurrent, OnBranch
  <2> QED
    BY <1>3, <1>4, <2>1, <2>2 DEF IsLatest
<1>7. PayloadsOfWriters'
  <2> SUFFICES ASSUME NEW i \in DOMAIN spine'
               PROVE  /\ IsTurn(i)' => ~spine'[i].ref /\ ~spine'[i].blob
                      /\ spine'[i].kind = "tool.result" => spine'[i].ref
    BY DEF PayloadsOfWriters, IsTurn
  <2>1. CASE i \in DOMAIN spine
    BY <1>1, <1>3, <2>1 DEF PayloadsOfWriters, IsTurn
  <2>2. CASE spine'[i] = e
    BY <2>2 DEF IsTurn
  <2> QED
    BY <1>4, <2>1, <2>2
<1> QED
  BY <1>5, <1>6, <1>7 DEF PacketInv

\* A step that appends nothing keeps it.
LEMMA QuietStep ==
  ASSUME PacketInv, UNCHANGED spine, indexed' \subseteq DOMAIN spine,
         turn' # None =>
           turn' \in Turns /\ turn # None /\ turn'.branch = turn.branch /\ turn'.ask = turn.ask
  PROVE  PacketInv'
<1>1. TypeOK'
  BY DEF PacketInv, TypeOK
<1>2. AskIsCurrent'
  BY DEF PacketInv, AskIsCurrent, OnBranch, IsLatest
<1>3. PayloadsOfWriters'
  BY DEF PacketInv, PayloadsOfWriters, IsTurn
<1> QED
  BY <1>1, <1>2, <1>3 DEF PacketInv

\* The turn goes on, on its branch and about its question.
LEMMA TurnGoesOn ==
  ASSUME PacketInv, turn # None, NEW step \in Steps
  PROVE  /\ [turn EXCEPT !.step = step] \in Turns
         /\ [turn EXCEPT !.step = step].branch = turn.branch
         /\ [turn EXCEPT !.step = step].ask = turn.ask
         /\ [turn EXCEPT !.step = step, !.round = @ + 1] \in Turns
         /\ [turn EXCEPT !.step = step, !.round = @ + 1].branch = turn.branch
         /\ [turn EXCEPT !.step = step, !.round = @ + 1].ask = turn.ask
<1> DEFINE on == [turn EXCEPT !.step = step]
           next == [turn EXCEPT !.step = step, !.round = @ + 1]
<1>1. turn \in [branch : Branches, external : Nat, ask : Nat, step : Steps, round : Nat]
  BY DEF PacketInv, TypeOK, Turns
<1> HIDE DEF Steps
<1>2. on \in Turns /\ on.branch = turn.branch /\ on.ask = turn.ask
  BY <1>1 DEF Turns
<1>3. turn.round + 1 \in Nat
  BY <1>1
<1>4. next = [on EXCEPT !.round = turn.round + 1]
  BY <1>1
<1>5. next \in Turns /\ next.branch = on.branch /\ next.ask = on.ask
  BY <1>2, <1>3, <1>4 DEF Turns
<1> QED
  BY <1>2, <1>5

\* The events a turn appends.
LEMMA TurnEvents ==
  ASSUME PacketInv, turn # None, NEW text \in Nat, NEW blob \in BOOLEAN
  PROVE  /\ \A kind \in DebugKinds \cup {"tool.failure"}, x, y \in BOOLEAN :
               Event(kind, turn.branch, 0, x, y) \in Events
         /\ Event("turn.agent", turn.branch, text, FALSE, FALSE) \in Events
         /\ Event("tool.request", turn.branch, 0, TRUE, FALSE) \in Events
         /\ Event("tool.result", turn.branch, text, TRUE, blob) \in Events
<1>1. turn.branch \in Branches
  BY DEF PacketInv, TypeOK, Turns
<1> QED
  BY <1>1 DEF Event, Events, Kinds

LEMMA BeginTurnStep ==
  ASSUME PacketInv, NEW b \in Branches, NEW text \in Nat, NEW external \in Nat,
         BeginTurn(b, text, external)
  PROVE  PacketInv'
<1> DEFINE e == Event("turn.user", b, text, FALSE, FALSE)
           n == Len(spine) + 1
<1>1. TypeOK /\ PayloadsOfWriters
  BY DEF PacketInv
<1>2. e \in Events
  BY DEF Event, Events, Kinds
<1>3. e.kind = "turn.user" /\ e.branch = b /\ ~e.ref /\ ~e.blob
  BY DEF Event
<1>4. spine' = Append(spine, e)
  BY DEF BeginTurn, Append1
<1>5. spine \in Seq(Events) /\ Len(spine) \in Nat
  BY <1>1 DEF TypeOK
<1> HIDE DEF e
<1>6. /\ spine' \in Seq(Events) /\ DOMAIN spine' = 1..n
      /\ DOMAIN spine = 1..Len(spine)
      /\ \A i \in DOMAIN spine : spine'[i] = spine[i]
      /\ spine'[n] = e
  BY <1>2, <1>4, <1>5
<1>7. turn' = [branch |-> b, external |-> external, ask |-> n, step |-> "assemble", round |-> 1]
  BY DEF BeginTurn
<1>8. turn' \in Turns
  BY <1>5, <1>7 DEF Turns, Steps
<1>9. indexed' = indexed \cup {n}
  BY DEF BeginTurn, Add
<1>10. TypeOK'
  BY <1>1, <1>5, <1>6, <1>8, <1>9 DEF TypeOK
<1>11. AskIsCurrent'
  <2>1. n \in DOMAIN spine' /\ \A j \in DOMAIN spine' : ~(j > n)
    BY <1>5, <1>6
  <2>2. turn'.ask = n /\ turn'.branch = b
    BY <1>7
  <2> HIDE DEF n
  <2> QED
    BY <1>3, <1>6, <2>1, <2>2 DEF AskIsCurrent, OnBranch, IsLatest
<1>12. PayloadsOfWriters'
  <2> SUFFICES ASSUME NEW i \in DOMAIN spine'
               PROVE  /\ IsTurn(i)' => ~spine'[i].ref /\ ~spine'[i].blob
                      /\ spine'[i].kind = "tool.result" => spine'[i].ref
    BY DEF PayloadsOfWriters, IsTurn
  <2>1. CASE i \in DOMAIN spine
    BY <1>1, <1>6, <2>1 DEF PayloadsOfWriters, IsTurn
  <2>2. CASE i = n
    BY <1>3, <1>6, <2>2
  <2> QED
    BY <1>5, <1>6, <2>1, <2>2
<1> QED
  BY <1>10, <1>11, <1>12 DEF PacketInv

\* Every action keeps the invariant.
LEMMA InvStep ==
  ASSUME PacketInv, [Next]_vars
  PROVE  PacketInv'
<1>1. TypeOK /\ indexed \subseteq DOMAIN spine /\ spine \in Seq(Events)
  BY DEF PacketInv, TypeOK
<1>2. CASE StartSession
  BY <1>1, <1>2, QuietStep DEF StartSession, Add
<1>3. ASSUME NEW b \in Branches, NEW text \in Texts, NEW external \in Externals,
             BeginTurn(b, text, external)
      PROVE  PacketInv'
  BY <1>3, LengthAssumption, BeginTurnStep
<1>4. ASSUME NEW e \in Events, Append1(e), UNCHANGED indexed
      PROVE  spine' = Append(spine, e) /\ indexed' \subseteq DOMAIN spine'
  BY <1>1, <1>4 DEF Append1
<1>5. 0 \in Nat /\ {"packet.candidate", "packet.rejected_budget", "packet.sent",
                    "response.received", "response.invalid_schema"} \subseteq DebugKinds
  BY DEF DebugKinds
<1>6. ASSUME turn # None, UNCHANGED indexed, NEW kind \in DebugKinds \cup {"tool.failure"},
             NEW ref \in BOOLEAN, NEW blob \in BOOLEAN,
             Append1(Event(kind, turn.branch, 0, ref, blob)),
             turn' = None \/ \E step \in Steps : Goto(step)
      PROVE  PacketInv'
  <2> DEFINE e == Event(kind, turn.branch, 0, ref, blob)
  <2>1. e \in Events
    BY <1>5, <1>6, TurnEvents
  <2>2. e.kind \notin {"turn.user", "turn.agent", "tool.result"}
    BY <1>6 DEF Event, DebugKinds
  <2>3. spine' = Append(spine, e) /\ indexed' \subseteq DOMAIN spine'
    BY <1>4, <1>6, <2>1
  <2>4. turn' # None =>
          turn' \in Turns /\ turn'.branch = turn.branch /\ turn'.ask = turn.ask
    <3>1. SUFFICES ASSUME NEW step \in Steps, Goto(step)
                   PROVE  turn' \in Turns /\ turn'.branch = turn.branch /\ turn'.ask = turn.ask
      BY <1>6
    <3> QED
      BY <1>6, <3>1, TurnGoesOn DEF Goto
  <2> HIDE DEF e
  <2> QED
    BY <1>6, <2>1, <2>2, <2>3, <2>4, AppendStep
<1>7. ASSUME turn # None, NextRound, UNCHANGED <<spine, indexed>>
      PROVE  PacketInv'
  <2>1. turn' # None =>
          turn' \in Turns /\ turn'.branch = turn.branch /\ turn'.ask = turn.ask
    BY <1>7, TurnGoesOn DEF NextRound, Steps
  <2> QED
    BY <1>1, <1>7, <2>1, QuietStep
<1>8. ASSUME NEW found, AssembleForBranch(found) PROVE PacketInv'
  <2>1. turn # None /\ UNCHANGED indexed
    BY <1>8 DEF AssembleForBranch, Running
  <2>2. CASE Append1(Event("packet.candidate", turn.branch, 0, FALSE, FALSE)) /\ Goto("send")
    BY <1>5, <1>6, <2>1, <2>2 DEF Steps
  <2>3. CASE /\ Append1(Event("packet.rejected_budget", turn.branch, 0, FALSE, FALSE))
             /\ turn' = None
    BY <1>5, <1>6, <2>1, <2>3
  <2>4. CASE UNCHANGED spine /\ turn' = None
    BY <1>1, <2>1, <2>4, QuietStep
  <2> QED
    BY <1>8, <2>2, <2>3, <2>4 DEF AssembleForBranch
<1>9. CASE SendPacket
  BY <1>5, <1>6, <1>9 DEF SendPacket, Running, Steps
<1>10. CASE ModelResponds
  BY <1>5, <1>6, <1>10 DEF ModelResponds, Running, Steps
<1>11. CASE ModelFails
  BY <1>5, <1>6, <1>11 DEF ModelFails, Running
<1>12. ASSUME NEW text \in Texts, DecideAnswer(text) PROVE PacketInv'
  <2> DEFINE e == Event("turn.agent", turn.branch, text, FALSE, FALSE)
  <2>1. turn # None /\ spine' = Append(spine, e) /\ turn' = None
        /\ indexed' = indexed \cup {Len(spine) + 1}
    BY <1>12 DEF DecideAnswer, Running, Append1, Add
  <2>2. text \in Nat
    BY LengthAssumption
  <2>3. e \in Events
    BY <2>1, <2>2, TurnEvents
  <2>4. e.kind = "turn.agent" /\ ~e.ref /\ ~e.blob
    BY DEF Event
  <2> HIDE DEF e
  <2>5. indexed' \subseteq DOMAIN spine'
    BY <1>1, <2>1, <2>3
  <2> QED
    BY <2>1, <2>3, <2>4, <2>5, AppendStep
<1>13. CASE DecideContinue
  BY <1>7, <1>13 DEF DecideContinue, Running
<1>14. ASSUME NEW e \in Events, turn # None, UNCHANGED indexed, Append1(e),
              e.kind \notin {"turn.user", "turn.agent"}, e.ref,
              NEW step \in Steps, Goto(step)
       PROVE  PacketInv'
  <2>1. spine' = Append(spine, e) /\ indexed' \subseteq DOMAIN spine'
    BY <1>4, <1>14
  <2>2. turn' \in Turns /\ turn'.branch = turn.branch /\ turn'.ask = turn.ask
    BY <1>14, TurnGoesOn DEF Goto
  <2> QED
    BY <1>14, <2>1, <2>2, AppendStep
<1>15. CASE RequestTool
  <2> DEFINE e == Event("tool.request", turn.branch, 0, TRUE, FALSE)
  <2>1. turn # None /\ UNCHANGED indexed /\ Append1(e) /\ Goto("tool")
    BY <1>15 DEF RequestTool, Running
  <2>2. e \in Events
    BY <1>5, <2>1, TurnEvents
  <2>3. e.kind = "tool.request" /\ e.ref
    BY DEF Event
  <2> HIDE DEF e
  <2> QED
    BY <1>14, <2>1, <2>2, <2>3 DEF Steps
<1>16. ASSUME NEW text \in Texts, NEW blob \in BOOLEAN, ToolSucceeds(text, blob)
       PROVE  PacketInv'
  <2> DEFINE e == Event("tool.result", turn.branch, text, TRUE, blob)
  <2>1. turn # None /\ UNCHANGED indexed /\ Append1(e) /\ Goto("calls")
    BY <1>16 DEF ToolSucceeds, ToolSettles, Running
  <2>2. text \in Nat
    BY LengthAssumption
  <2>3. e \in Events
    BY <2>1, <2>2, TurnEvents
  <2>4. e.kind = "tool.result" /\ e.ref
    BY DEF Event
  <2> HIDE DEF e
  <2> QED
    BY <1>14, <2>1, <2>3, <2>4 DEF Steps
<1>17. CASE ToolFails
  BY <1>5, <1>6, <1>17 DEF ToolFails, ToolSettles, Running, Steps
<1>18. CASE CallsEnd
  BY <1>7, <1>18 DEF CallsEnd, Running
<1>19. CASE TurnFails
  BY <1>1, <1>19, QuietStep DEF TurnFails
<1>20. ASSUME NEW kind \in OtherKinds, NEW b \in Branches, NEW blob \in BOOLEAN,
              AppendOther(kind, b, blob)
       PROVE  PacketInv'
  <2> DEFINE e == Event(kind, b, 0, kind = "summary.checkpoint", blob)
  <2>1. Append1(e) /\ UNCHANGED <<indexed, turn>>
    BY <1>20 DEF AppendOther
  <2>2. e \in Events
    BY KindsAssumption DEF Event, Events, Kinds
  <2>3. e.kind \notin {"turn.user", "turn.agent", "tool.result"}
    BY KindsAssumption DEF Event, SpineOnlyKinds, PassingKinds
  <2> HIDE DEF e
  <2>4. spine' = Append(spine, e) /\ indexed' \subseteq DOMAIN spine'
    BY <1>4, <2>1, <2>2
  <2>5. turn' # None => turn' \in Turns
    BY <1>1, <2>1 DEF TypeOK
  <2> QED
    BY <2>1, <2>2, <2>3, <2>4, <2>5, AppendStep
<1>21. CASE UNCHANGED vars
  BY <1>21 DEF vars, PacketInv, TypeOK, AskIsCurrent, OnBranch, IsLatest, PayloadsOfWriters, IsTurn
<1> QED
  BY <1>2, <1>3, <1>8, <1>9, <1>10, <1>11, <1>12, <1>13, <1>15, <1>16, <1>17, <1>18,
     <1>19, <1>20, <1>21 DEF Next

\* Every other action clears the packet, about which nothing is said then.
LEMMA NoPacket ==
  ASSUME packet' = None
  PROVE  PacketProps'
  BY DEF PacketProps, RejectionIsLastResort, QuestionReaches,
         NothingPrivateSent, ToolOutputByReference, ContextDisplacesNothing, Packed

LEMMA PacketStep ==
  ASSUME PacketInv, PacketProps, [Next]_vars
  PROVE  PacketProps'
<1>1. ASSUME NEW found, AssembleForBranch(found) PROVE PacketProps'
  BY <1>1, AssembleStep
<1>2. CASE UNCHANGED vars
  BY <1>2 DEF vars, PacketProps, RejectionIsLastResort, QuestionReaches,
              NothingPrivateSent, ToolOutputByReference, ContextDisplacesNothing, Packed,
              IsTurn
<1>3. CASE Next /\ ~\E found \in Search : AssembleForBranch(found)
  <2>1. packet' = None
    BY <1>3 DEF Next, StartSession, BeginTurn, SendPacket, ModelResponds, ModelFails,
                DecideAnswer, DecideContinue, RequestTool, ToolSucceeds, ToolFails,
                ToolSettles, CallsEnd, TurnFails, AppendOther
  <2> QED
    BY <2>1, NoPacket
<1> QED
  BY <1>1, <1>2, <1>3

-----------------------------------------------------------------------------
(* The results *)

\* The spine has the payloads its writers make, and a turn is about the last
\* question of its branch, also while others append (handleUserTurn).
THEOREM SpecPacketInv == Spec => []PacketInv
<1>1. Init => PacketInv
  BY DEF Init, PacketInv, TypeOK, AskIsCurrent, PayloadsOfWriters
<1>2. PacketInv /\ [Next]_vars => PacketInv'
  BY InvStep
<1> QED
  BY <1>1, <1>2, PTL DEF Spec

\* All five properties of what assembleForBranch sends or refuses.
THEOREM SpecPacketProps == Spec => []PacketProps
<1>1. Init => PacketProps
  BY DEF Init, PacketProps, RejectionIsLastResort, QuestionReaches,
         NothingPrivateSent, ToolOutputByReference, ContextDisplacesNothing, Packed
<1>2. PacketInv /\ PacketProps /\ [Next]_vars => PacketProps'
  BY PacketStep
<1> QED
  BY <1>1, <1>2, SpecPacketInv, PTL DEF Spec

\* A turn is refused for its size (ErrPacketRejectedBudget) only when the last
\* stage, one event without what references stand for, is too large.
THEOREM SpecRejectionIsLastResort == Spec => []RejectionIsLastResort
<1>1. PacketProps => RejectionIsLastResort
  BY DEF PacketProps
<1> QED
  BY <1>1, SpecPacketProps, PTL

\* A packet has its question in full, but for a last stage that keeps one later
\* event instead (Assemble, stage 5).
THEOREM SpecQuestionReaches == Spec => []QuestionReaches
<1>1. PacketProps => QuestionReaches
  BY DEF PacketProps
<1> QED
  BY <1>1, SpecPacketProps, PTL

\* Events only the local side may see never reach the model, and from another
\* branch only references do (SelectWorkingSet).
THEOREM SpecNothingPrivateSent == Spec => []NothingPrivateSent
<1>1. PacketProps => NothingPrivateSent
  BY DEF PacketProps
<1> QED
  BY <1>1, SpecPacketProps, PTL

\* A tool's output is never sent inline (normalizeToolResultItem).
THEOREM SpecToolOutputByReference == Spec => []ToolOutputByReference
<1>1. PacketProps => ToolOutputByReference
  BY DEF PacketProps
<1> QED
  BY <1>1, SpecPacketProps, PTL

\* A packet with external context has every turn of its branch with its whole
\* text, but for large stale ones (Assemble drops the context first).
THEOREM SpecContextDisplacesNothing == Spec => []ContextDisplacesNothing
<1>1. PacketProps => ContextDisplacesNothing
  BY DEF PacketProps
<1> QED
  BY <1>1, SpecPacketProps, PTL
=============================================================================

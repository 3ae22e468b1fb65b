----------------------------- MODULE Assembler -----------------------------
(***************************************************************************)
(* Fitting a packet into the byte budget: internal/assembler/assembler.go, *)
(* a pure function.                                                        *)
(*                                                                         *)
(* A body holds its working set, as a set of items told apart by their     *)
(* ordinals, and the lengths of its other parts; sorting changes neither.  *)
(* Its size is a weighted sum, so texts and references count with their    *)
(* own lengths and all else with a fixed frame: the frame of the body is   *)
(* the JSON around it, compact_stage included, and the head is the request *)
(* line and the headers.                                                   *)
(***************************************************************************)
EXTENDS Integers, FiniteSets, FiniteSetsExt

CONSTANTS
  MaxEnvelopeBytes,   \* 14336
  SafetyMarginBytes,  \* 768
  InlineBytes,        \* LargeTextInlineThresholdBytes, 1024
  ExcerptBytes,       \* ToolResultExcerptBytes, 256
  HeadBytes,          \* of the request line and the headers
  BodyFrame,          \* of a body without any of its parts
  ItemFrame,          \* of an item without text and references
  RefBytes            \* of a reference

WithoutText(i) == [i EXCEPT !.text = 0]

ItemBytes(i) ==
  ItemFrame + i.text + i.provenance + (IF i.sref THEN RefBytes ELSE 0)
                                    + (IF i.blob THEN RefBytes ELSE 0)

BodyBytes(body) ==
  BodyFrame + body.external + body.debug + body.provenance
    + (IF body.checkpoint THEN RefBytes ELSE 0)
    + MapThenSumSet(ItemBytes, body.items)

BodyBudget ==
  IF MaxEnvelopeBytes - SafetyMarginBytes < HeadBytes THEN 0
  ELSE MaxEnvelopeBytes - SafetyMarginBytes - HeadBytes

Fits(body) ==
  /\ BodyBytes(body) <= BodyBudget
  /\ HeadBytes + BodyBytes(body) <= MaxEnvelopeBytes

\* Mutant of Excerpt: an excerpt beside the reference.
ExcerptAnyway(i) ==
  IF i.kind # "tool.result" THEN i
  ELSE [i EXCEPT !.text = IF @ > ExcerptBytes THEN ExcerptBytes ELSE @]

\* normalizeToolResultItem: an excerpt, or nothing beside a summary reference.
Excerpt(i) ==
  IF i.kind # "tool.result" THEN i
  ELSE IF i.sref THEN WithoutText(i)
  ELSE [i EXCEPT !.text = IF @ > ExcerptBytes THEN ExcerptBytes ELSE @]

\* Large text is never sent inline when a blob has it.
Inline(i) == IF i.blob /\ i.text > InlineBytes THEN WithoutText(i) ELSE i

Normalize(body) == [body EXCEPT !.items = {Inline(Excerpt(i)) : i \in @}]

\* The compaction stages 1 to 6; stage 7 changes nothing.
DropDebug(body) == [body EXCEPT !.debug = 0]

DropProvenance(body) ==
  [body EXCEPT !.provenance = 0,
               !.items = {IF i.required THEN i ELSE [i EXCEPT !.provenance = 0] : i \in @}]

SummarizedByRef(body) ==
  [body EXCEPT !.items = {IF i.sref THEN WithoutText(i) ELSE i : i \in @}]

CheckpointItem ==
  [ord |-> 0, kind |-> "summary.checkpoint", text |-> 0, sref |-> TRUE,
   blob |-> FALSE, provenance |-> 0, required |-> FALSE]

CollapsedToCheckpoint(body) ==
  IF body.checkpoint /\ Cardinality(body.items) > 1
  THEN [body EXCEPT !.items = {CheckpointItem}] ELSE body

\* Mutant of NewestOnly: the comparison is the other way round.
OldestOnly(body) ==
  [body EXCEPT !.items = {i \in @ : \A j \in @ : j.ord >= i.ord}]

NewestOnly(body) ==
  [body EXCEPT !.items = {i \in @ : \A j \in @ : j.ord <= i.ord}]

BlobsByRef(body) ==
  [body EXCEPT !.items = {IF i.blob THEN WithoutText(i) ELSE i : i \in @}]

\* The body after the first s stages.
Compacted(body, s) ==
  LET b1 == IF s >= 1 THEN DropDebug(body)           ELSE body
      b2 == IF s >= 2 THEN DropProvenance(b1)        ELSE b1
      b3 == IF s >= 3 THEN SummarizedByRef(b2)       ELSE b2
      b4 == IF s >= 4 THEN CollapsedToCheckpoint(b3) ELSE b3
      b5 == IF s >= 5 THEN NewestOnly(b4)            ELSE b4
  IN  IF s >= 6 THEN BlobsByRef(b5) ELSE b5

\* Mutant of WithinBudget: the context is compacted like the rest, never dropped.
WithinBudgetKept(body) == body

\* The external context goes before anything else is compacted.
WithinBudget(body) == IF Fits(body) THEN body ELSE [body EXCEPT !.external = 0]

\* Mutant of FittingStages: the loop gives up before the working set shrinks.
FittingStagesEarly(body) == {s \in 0..4 : Fits(Compacted(WithinBudget(body), s))}

FittingStages(body) == {s \in 0..7 : Fits(Compacted(WithinBudget(body), s))}

\* The first stage that fits, or ErrPacketRejectedBudget.
Assemble(request) ==
  LET body   == Normalize(request)
      stages == FittingStages(body)
  IN  IF stages = {} THEN [ok |-> FALSE, stage |-> 7, body |-> Compacted(WithinBudget(body), 7)]
      ELSE LET s == CHOOSE s \in stages : \A t \in stages : s <= t
           IN  [ok |-> TRUE, stage |-> s, body |-> Compacted(WithinBudget(body), s)]
=============================================================================

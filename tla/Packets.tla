------------------------------ MODULE Packets ------------------------------
(***************************************************************************)
(* What a turn sends to the model: assembleForBranch of                    *)
(* internal/runtime/session.go over the selector (Egress) and the          *)
(* assembler (Assembler), inside the turns that call it again and again    *)
(* as they use tools, on a session with several branches.                  *)
(*                                                                         *)
(* Handlers of one Session object run one at a time under its mutex, so    *)
(* there is one turn here; the sidecar and other components append to the  *)
(* session's spine meanwhile.  (Session has the handlers of different      *)
(* objects interleaved, and the ids.)  Texts are lengths.  Any call on the *)
(* backend may fail and end the turn.                                      *)
(***************************************************************************)
EXTENDS Egress, Assembler, Sequences

CONSTANTS
  Branches,
  Texts,       \* lengths of questions, answers and tool summaries
  Externals,   \* lengths of the caller's external context, 0 for none
  OtherKinds,  \* kinds of the events other components append
  MaxRounds,   \* maxReasoningTurns, 4 in the code
  MaxEvents,   \* bound of the model on the spine
  MaxTurns,    \* bound of the model on the turns
  MaxOther,    \* bound of the model on the events of other components
  None

\* The kinds of the sidecar and of compaction; the selector has no case for them.
PassingKinds == {"preprocess.extraction", "compaction.request", "compaction.complete",
                 "compaction.failure", "ast.persisted"}

ASSUME LengthAssumption == Texts \cup Externals \subseteq Nat
ASSUME BytesAssumption ==
  {MaxEnvelopeBytes, SafetyMarginBytes, InlineBytes, ExcerptBytes, HeadBytes,
   BodyFrame, ItemFrame, RefBytes, LargeTextBytes, StaleDistance} \subseteq Nat
ASSUME BoundsAssumption == {MaxRounds, MaxEvents, MaxTurns, MaxOther} \subseteq Nat
ASSUME NoneAssumption   == None \notin Branches
ASSUME KindsAssumption  ==
  OtherKinds \subseteq {"summary.checkpoint"} \cup SpineOnlyKinds \cup PassingKinds

VARIABLES
  spine,     \* the session's events
  indexed,   \* positions of the events in the memory manager's search index
  turn,      \* the turn being handled, None between turns
  packet     \* the packet just assembled or refused, None otherwise

vars == <<spine, indexed, turn, packet>>

Steps == {"assemble", "send", "model", "decided", "tool", "calls"}

\* Of an event's payload: the length of its text (or summary), whether it
\* names a tool call or a summary, and whether a blob is stored with it.
Event(kind, branch, text, ref, blob) ==
  [kind |-> kind, branch |-> branch, text |-> text, ref |-> ref, blob |-> blob]

Kinds == {"turn.user", "turn.agent", "tool.request", "tool.result", "tool.failure",
          "summary.checkpoint"} \cup PassingKinds \cup SpineOnlyKinds \cup DebugKinds

Events == [kind : Kinds, branch : Branches, text : Nat, ref : BOOLEAN, blob : BOOLEAN]
Turns  == [branch : Branches, external : Nat, ask : Nat, step : Steps, round : Nat]

TypeOK ==
  /\ spine   \in Seq(Events)
  /\ indexed \subseteq DOMAIN spine
  /\ turn    \in Turns \cup {None}

Init ==
  /\ spine   = <<>>
  /\ indexed = {}
  /\ turn    = None
  /\ packet  = None

-----------------------------------------------------------------------------
(* assembleForBranch *)

OnBranch(b) == {i \in DOMAIN spine : spine[i].branch = b}

\* The last event of a kind on its branch.
IsLatest(i, kind) ==
  /\ spine[i].kind = kind
  /\ \A j \in DOMAIN spine :
       j > i => ~(spine[j].kind = kind /\ spine[j].branch = spine[i].branch)

\* Marks of the branch's own events change nothing: these are the events whose
\* marks do.
Foreign == IF turn = None THEN {} ELSE indexed \ OnBranch(turn.branch)

\* What a search of the index may return: which words an event has, and how it
\* scores, are not told apart; 50 results are more than the model has events.
Search == SUBSET Foreign

\* found: the events the search for the question's words returned, or that
\* are marked relevant for all branches.
Candidate(i, b, found) ==
  LET e == spine[i]
      active == e.branch = b
  IN  [ord        |-> i,
       kind       |-> e.kind,
       text       |-> e.text,
       sref       |-> e.ref /\ e.kind \in {"tool.result", "summary.checkpoint"},
       blob       |-> e.blob,
       active     |-> active,
       global     |-> i \in found,
       current    |-> active /\ IsLatest(i, "turn.user"),
       latestTool |-> active /\ IsLatest(i, "tool.result"),
       nearest    |-> active /\ IsLatest(i, "summary.checkpoint"),
       checkpoint |-> active /\ e.kind = "summary.checkpoint",
       sensitive  |-> e.kind \in {"tool.request", "tool.failure"}]

WorkingItem(sel) ==
  [ord |-> sel.ord, kind |-> sel.kind, text |-> sel.text, sref |-> sel.sref,
   blob |-> sel.blob, provenance |-> 0, required |-> FALSE]

WorkingSet(b, found) ==
  {WorkingItem(sel) : sel \in
     Select({Candidate(i, b, found) : i \in DOMAIN spine}, Len(spine))}

\* Sessions set neither debug nor provenance fields nor a checkpoint.
Request(b, external, found) ==
  [items |-> WorkingSet(b, found), external |-> external,
   debug |-> 0, provenance |-> 0, checkpoint |-> FALSE]

-----------------------------------------------------------------------------
Room == Len(spine) < MaxEvents

Count(kinds) == Cardinality({i \in DOMAIN spine : spine[i].kind \in kinds})

Append1(e) == spine' = Append(spine, e)

\* Events enter the index for good; one that is added again stays one event.
Add(events) == indexed' = indexed \cup events

Running(step) == turn # None /\ turn.step = step
Goto(step)    == turn' = [turn EXCEPT !.step = step]

\* A new Session object reads the spine into the search index.
StartSession ==
  /\ turn = None
  /\ Add(DOMAIN spine)
  /\ packet' = None
  /\ UNCHANGED <<spine, turn>>

\* Mutant of BeginTurn: the question's position is the length before it.
BeginTurnOffByOne(b, text, external) ==
  /\ turn = None
  /\ Room
  /\ Count({"turn.user"}) < MaxTurns
  /\ Append1(Event("turn.user", b, text, FALSE, FALSE))
  /\ Add({Len(spine) + 1})
  /\ turn' = [branch |-> b, external |-> external, ask |-> Len(spine),
              step |-> "assemble", round |-> 1]
  /\ packet' = None

BeginTurn(b, text, external) ==
  /\ turn = None
  /\ Room
  /\ Count({"turn.user"}) < MaxTurns
  /\ Append1(Event("turn.user", b, text, FALSE, FALSE))
  /\ Add({Len(spine) + 1})
  /\ turn' = [branch |-> b, external |-> external, ask |-> Len(spine) + 1,
              step |-> "assemble", round |-> 1]
  /\ packet' = None

\* What the turn's packet was made of and what became of it.
Built(found) ==
  LET result == Assemble(Request(turn.branch, turn.external, found))
  IN  [ok |-> result.ok, stage |-> result.stage, body |-> result.body,
       branch |-> turn.branch, ask |-> turn.ask, read |-> Len(spine)]

\* A rejection is recorded if the backend takes it, and ends the turn.
AssembleForBranch(found) ==
  /\ Running("assemble")
  /\ Room
  /\ packet' = Built(found)
  /\ \/ /\ packet'.ok
        /\ Append1(Event("packet.candidate", turn.branch, 0, FALSE, FALSE))
        /\ Goto("send")
     \/ /\ ~packet'.ok
        /\ \/ Append1(Event("packet.rejected_budget", turn.branch, 0, FALSE, FALSE))
           \/ UNCHANGED spine
        /\ turn' = None
  /\ UNCHANGED indexed

SendPacket ==
  /\ Running("send")
  /\ Room
  /\ Append1(Event("packet.sent", turn.branch, 0, FALSE, FALSE))
  /\ Goto("model")
  /\ packet' = None
  /\ UNCHANGED indexed

\* ExecuteAndPersist keeps the raw response as a blob.
ModelResponds ==
  /\ Running("model")
  /\ Room
  /\ Append1(Event("response.received", turn.branch, 0, FALSE, TRUE))
  /\ Goto("decided")
  /\ packet' = None
  /\ UNCHANGED indexed

ModelFails ==
  /\ Running("model")
  /\ Room
  /\ Append1(Event("response.invalid_schema", turn.branch, 0, FALSE, FALSE))
  /\ turn' = None
  /\ packet' = None
  /\ UNCHANGED indexed

DecideAnswer(text) ==
  /\ Running("decided")
  /\ Room
  /\ Append1(Event("turn.agent", turn.branch, text, FALSE, FALSE))
  /\ Add({Len(spine) + 1})
  /\ turn' = None
  /\ packet' = None

\* The next round, or the end of the turn after the last one.
NextRound ==
  turn' = IF turn.round < MaxRounds
          THEN [turn EXCEPT !.step = "assemble", !.round = @ + 1] ELSE None

DecideContinue ==
  /\ Running("decided")
  /\ NextRound
  /\ packet' = None
  /\ UNCHANGED <<spine, indexed>>

\* executeToolCalls, one call after the other; a call always has an id.
RequestTool ==
  /\ Running("decided") \/ Running("calls")
  /\ Room
  /\ Append1(Event("tool.request", turn.branch, 0, TRUE, FALSE))
  /\ Goto("tool")
  /\ packet' = None
  /\ UNCHANGED indexed

ToolSettles(e) ==
  /\ Running("tool")
  /\ Room
  /\ Append1(e)
  /\ Goto("calls")
  /\ packet' = None
  /\ UNCHANGED indexed

\* The result's blob is best effort.
ToolSucceeds(text, blob) ==
  ToolSettles(Event("tool.result", turn.branch, text, TRUE, blob))

ToolFails == ToolSettles(Event("tool.failure", turn.branch, 0, TRUE, FALSE))

CallsEnd ==
  /\ Running("calls")
  /\ NextRound
  /\ packet' = None
  /\ UNCHANGED <<spine, indexed>>

\* A call on the backend fails.
TurnFails ==
  /\ turn # None
  /\ turn' = None
  /\ packet' = None
  /\ UNCHANGED <<spine, indexed>>

\* The sidecar's extraction, a consult, a fork, a checkpoint.  A checkpoint
\* names its summary and may have a blob.
AppendOther(kind, b, blob) ==
  /\ Room
  /\ Count(OtherKinds) < MaxOther
  /\ blob => kind = "summary.checkpoint"
  /\ Append1(Event(kind, b, 0, kind = "summary.checkpoint", blob))
  /\ packet' = None
  /\ UNCHANGED <<indexed, turn>>

Next ==
  \/ StartSession
  \/ \E b \in Branches, text \in Texts, external \in Externals : BeginTurn(b, text, external)
  \/ \E found \in Search : AssembleForBranch(found)
  \/ SendPacket
  \/ ModelResponds
  \/ ModelFails
  \/ \E text \in Texts : DecideAnswer(text)
  \/ DecideContinue
  \/ RequestTool
  \/ \E text \in Texts, blob \in BOOLEAN : ToolSucceeds(text, blob)
  \/ ToolFails
  \/ CallsEnd
  \/ TurnFails
  \/ \E kind \in OtherKinds, b \in Branches, blob \in BOOLEAN : AppendOther(kind, b, blob)

Spec == Init /\ [][Next]_vars

-----------------------------------------------------------------------------
\* The turn's question is the last user turn of its branch, and the payloads
\* are those their writers make: a question or an answer has neither reference
\* nor blob, a tool's result always names its call.
AskIsCurrent ==
  turn # None =>
    /\ turn.ask \in OnBranch(turn.branch)
    /\ IsLatest(turn.ask, "turn.user")

IsTurn(i) == spine[i].kind \in {"turn.user", "turn.agent"}

PayloadsOfWriters ==
  \A i \in DOMAIN spine :
    /\ IsTurn(i) => ~spine[i].ref /\ ~spine[i].blob
    /\ spine[i].kind = "tool.result" => spine[i].ref

PacketInv == TypeOK /\ AskIsCurrent /\ PayloadsOfWriters

Packed == packet # None /\ packet.ok

\* A turn is refused for its size only when one event alone, without the text
\* that a blob or a summary stands for and without external context, is too
\* large (ErrPacketRejectedBudget).
RejectionIsLastResort ==
  packet # None /\ ~packet.ok =>
    /\ ~Fits(packet.body)
    /\ packet.body.external = 0
    /\ \A i, j \in packet.body.items : i = j
    /\ \A i \in packet.body.items : i.blob \/ i.sref => i.text = 0

\* A packet has the whole question it is about.  Only the last stages leave it
\* out, and then in favour of one later event (stage 5).
QuestionReaches ==
  Packed =>
    \/ \E i \in packet.body.items : i.ord = packet.ask /\ i.text = spine[packet.ask].text
    \/ packet.stage >= 5 /\ \E i \in packet.body.items : i.ord > packet.ask

\* Events that only the local side may see never reach the model: consults,
\* forks and the like of any branch, the branch's own packets, responses, tool
\* requests and failures.  What comes from another branch is a reference to a
\* blob, without text (the selector's classes).
NothingPrivateSent ==
  Packed => \A i \in packet.body.items :
    /\ i.kind \notin SpineOnlyKinds
    /\ spine[i.ord].branch = packet.branch =>
         i.kind \notin DebugKinds \cup {"tool.request", "tool.failure"}
    /\ spine[i.ord].branch # packet.branch => i.blob /\ i.text = 0

\* The output of a tool is never sent inline, in the round after the call or in
\* a later turn; its summary reference is (normalizeToolResultItem).
ToolOutputByReference ==
  Packed => \A i \in packet.body.items :
    i.kind = "tool.result" => i.sref /\ i.text = 0

\* The caller's external context displaces nothing of the branch's own
\* conversation: where it is sent, so is every turn with its whole text, but
\* for large ones that are stale anyway (Assemble drops the context first).
ContextDisplacesNothing ==
  Packed /\ packet.body.external > 0 =>
    \A t \in 1..packet.read :
      IsTurn(t) /\ spine[t].branch = packet.branch =>
        \E i \in packet.body.items :
          /\ i.ord = t
          /\ \/ i.text = spine[t].text
             \/ spine[t].text > LargeTextBytes /\ packet.read - t > StaleDistance

\* The event kinds new in v0.3.0 are never sent (the selector's comment); the
\* sidecar's extractions are among them.
NewKindsStayLocal ==
  Packed => \A i \in packet.body.items :
    i.kind \notin SpineOnlyKinds \cup {"preprocess.extraction"}
=============================================================================

----------------------------- MODULE Compaction -----------------------------
(***************************************************************************)
(* Compaction of a session: the hook after an answered turn                *)
(* (internal/runtime/session.go, recordTurnAndMaybeCompact and             *)
(* runCompaction), the scheduler that decides (internal/compactor/         *)
(* scheduler.go) and the pipeline that asks the model                      *)
(* (internal/compactor/compactor.go over gemini.go and Leaflet).           *)
(*                                                                         *)
(* The hook runs inside the turn, under the Session object's mutex, so one *)
(* turn and one pass are under way at a time; other components append to   *)
(* the spine meanwhile.  The turn itself is one step (Session and Packets  *)
(* have its interior).  Every call on the backend or the model may fail.   *)
(***************************************************************************)
EXTENDS Leaflet

CONSTANTS
  Branches,
  Replies,          \* what the model may answer
  TriggerTurns,     \* ScheduleConfig, 0 when turns do not trigger
  CooldownTurns,
  MinEvents,
  MaxChunkEvents,   \* 200 in the code
  MaxTurns,         \* bound of the model on the turns
  MaxOther,         \* bound of the model on the events of other components
  None

ASSUME ScheduleAssumption ==
  {TriggerTurns, CooldownTurns, MinEvents, MaxTurns, MaxOther} \subseteq Nat

ASSUME RepliesAssumption == \A r \in Replies : IsTree(r)

ASSUME ChunkAssumption == MaxChunkEvents \in Nat \ {0}

VARIABLES
  spine,     \* the session's events
  sched,     \* the scheduler's fields
  pc,        \* where the turn's hook is
  pass,      \* the answered turn's branch and the pass after it, None otherwise
  input,     \* what the pass is about
  turns,     \* history: the answered turns that reached the scheduler
  attempts   \* history: the passes that were begun

vars == <<spine, sched, pc, pass, input, turns, attempts>>

Steps == {"idle", "answered", "request", "begin", "call", "merge", "failed",
          "blob", "ast", "complete"}

Kinds == {"turn", "compaction.request", "compaction.failure", "ast.persisted",
          "compaction.complete"}

\* attempt: the pass a compaction's event is about, 0 for other events.
Event(kind, branch, attempt) == [kind |-> kind, branch |-> branch, attempt |-> attempt]
Events == [kind : Kinds, branch : Branches, attempt : Nat]

\* Of the last budget ratio only whether it reaches BudgetPressureRatio counts.
Ratios == {"low", "high"}

\* The other statistics are never read.
Scheduler == [turnsSinceCompact : Nat, turnsSinceLastFire : Nat, eventCount : Nat,
              lastBudgetRatio : Ratios, totalFirings : Nat]

Outcomes == {"running", "refused", "failed", "done"}
Attempts == [turn : Nat, branch : Branches, listed : BOOLEAN,
             reason : {"turn_count", "budget_pressure"}, outcome : Outcomes]

\* next: the call that is due.  reply: what validation passed.  covered: the
\* event coverage so far.
Coverable == UNION {EventCoverage(Parse(r)) : r \in Replies}
Passes == [branch : Branches, next : Nat, reply : Replies \cup {None},
           covered : SUBSET Coverable]

\* No pass is not one.
ASSUME NoneAssumption == None \notin Passes

\* events: places on the spine.  calls: the chunks the model is asked about one
\* after the other.
NoInput == [events |-> <<>>, calls |-> <<>>]

TypeOK ==
  /\ spine    \in Seq(Events)
  /\ sched    \in Scheduler
  /\ pc       \in Steps
  /\ pass     \in Passes \cup {None}
  /\ turns    \in Seq([branch : Branches, listed : BOOLEAN])
  /\ attempts \in Seq(Attempts)

Init ==
  /\ spine    = <<>>
  /\ sched    = [turnsSinceCompact |-> 0, turnsSinceLastFire |-> 0,
                 eventCount |-> 0, lastBudgetRatio |-> "low", totalFirings |-> 0]
  /\ pc       = "idle"
  /\ pass     = None
  /\ input    = NoInput
  /\ turns    = <<>>
  /\ attempts = <<>>

-----------------------------------------------------------------------------
(* The scheduler *)

RecordTurn(s) ==
  [s EXCEPT !.turnsSinceCompact = @ + 1, !.turnsSinceLastFire = @ + 1]

RecordBudgetPressure(s, ratio) == [s EXCEPT !.lastBudgetRatio = ratio]

SetEventCount(s, n) == [s EXCEPT !.eventCount = n]

Cooling(s) == s.totalFirings > 0 /\ s.turnsSinceLastFire < CooldownTurns

TurnsDue(s) == TriggerTurns > 0 /\ s.turnsSinceCompact >= TriggerTurns

ShouldCompact(s) ==
  /\ s.eventCount >= MinEvents
  /\ ~Cooling(s)
  /\ TurnsDue(s) \/ s.lastBudgetRatio = "high"

Reason(s) == IF TurnsDue(s) THEN "turn_count" ELSE "budget_pressure"

\* Mutant of MarkCompacted: the cooldown is not started again.
MarkCompactedNoCooldown(s) ==
  [s EXCEPT !.turnsSinceCompact = 0, !.totalFirings = @ + 1]

\* The budget's last ratio stays as it was reported.
MarkCompacted(s) ==
  [s EXCEPT !.turnsSinceCompact = 0, !.turnsSinceLastFire = 0, !.totalFirings = @ + 1]

\* Mutant of MarkCompactionFailed: a failure counts as a compaction.
MarkCompactionFailedAsDone(s) ==
  [s EXCEPT !.turnsSinceCompact = 0, !.turnsSinceLastFire = 0]

\* The cooldown is over at once, and the turns go on counting.
MarkCompactionFailed(s) == [s EXCEPT !.turnsSinceLastFire = CooldownTurns]

-----------------------------------------------------------------------------
(* The turn and the decision after it *)

\* The numbers of a branch's events, in order: ListEventsByBranch, and how many.
EventCount(b) == Cardinality({i \in DOMAIN spine : spine[i].branch = b})

EventsOf(b) == InOrder({i \in DOMAIN spine : spine[i].branch = b})

AppendEvent(kind, branch, attempt) ==
  spine' = Append(spine, Event(kind, branch, attempt))

Goto(from, to) == pc = from /\ pc' = to

\* A turn that is answered has reported its packets' size to the scheduler.
TurnAnswers(b, ratio) ==
  /\ Goto("idle", "answered")
  /\ Len(turns) < MaxTurns
  /\ AppendEvent("turn", b, 0)
  /\ sched' = RecordBudgetPressure(sched, ratio)
  /\ pass' = [branch |-> b, next |-> 1, reply |-> None, covered |-> {}]
  /\ UNCHANGED <<input, turns, attempts>>

\* So has one that fails, but the scheduler does not count it.
TurnFails(b, ratio) ==
  /\ pc = "idle"
  /\ Len(spine) < MaxOther
  /\ AppendEvent("turn", b, 0)
  /\ sched' = RecordBudgetPressure(sched, ratio)
  /\ UNCHANGED <<pc, pass, input, turns, attempts>>

OtherAppends(b) ==
  /\ Len(spine) < MaxOther
  /\ AppendEvent("turn", b, 0)
  /\ UNCHANGED <<sched, pc, pass, input, turns, attempts>>

\* What the scheduler knows once the turn is recorded.  A list that fails
\* leaves the count of the turn before, and the pass without events.
Informed(listed) ==
  IF listed THEN SetEventCount(RecordTurn(sched), EventCount(pass.branch))
            ELSE RecordTurn(sched)

Listed(listed) == IF listed THEN EventsOf(pass.branch) ELSE <<>>

RecordTurnAndMaybeCompact(listed) ==
  /\ pc = "answered"
  /\ sched' = Informed(listed)
  /\ turns' = Append(turns, [branch |-> pass.branch, listed |-> listed])
  /\ \/ /\ ShouldCompact(sched')
        /\ pc' = "request"
        /\ input' = [NoInput EXCEPT !.events = Listed(listed)]
        /\ attempts' = Append(attempts,
             [turn |-> Len(turns'), branch |-> pass.branch, listed |-> listed,
              reason |-> Reason(sched'), outcome |-> "running"])
        /\ UNCHANGED pass
     \/ /\ ~ShouldCompact(sched')
        /\ pc' = "idle"
        /\ pass' = None
        /\ UNCHANGED <<input, attempts>>
  /\ UNCHANGED spine

-----------------------------------------------------------------------------
(* runCompaction *)

Current == Len(attempts)

Concluded(outcome) ==
  /\ attempts' = [attempts EXCEPT ![Current].outcome = outcome]
  /\ pass' = None
  /\ input' = NoInput

\* Without its request on the spine the pass is given up, and not marked.
RequestRefused ==
  /\ Goto("request", "idle")
  /\ Concluded("refused")
  /\ UNCHANGED <<spine, sched, turns>>

RequestRecorded ==
  /\ Goto("request", "begin")
  /\ AppendEvent("compaction.request", pass.branch, Current)
  /\ UNCHANGED <<sched, pass, input, turns, attempts>>

\* An event of a pass that is refused is forgotten.
RecordFailure ==
  /\ Goto("failed", "idle")
  /\ \/ AppendEvent("compaction.failure", pass.branch, Current)
     \/ UNCHANGED spine
  /\ sched' = MarkCompactionFailed(sched)
  /\ Concluded("failed")
  /\ UNCHANGED turns

\* Nothing that follows depends on whether the blob was stored; nothing in the
\* program reads it.
StoreTree ==
  /\ Goto("blob", "ast")
  /\ UNCHANGED <<spine, sched, pass, input, turns, attempts>>

RecordTree ==
  /\ Goto("ast", "complete")
  /\ \/ AppendEvent("ast.persisted", pass.branch, Current)
     \/ UNCHANGED spine
  /\ UNCHANGED <<sched, pass, input, turns, attempts>>

RecordComplete ==
  /\ Goto("complete", "idle")
  /\ \/ AppendEvent("compaction.complete", pass.branch, Current)
     \/ UNCHANGED spine
  /\ sched' = MarkCompacted(sched)
  /\ Concluded("done")
  /\ UNCHANGED turns

-----------------------------------------------------------------------------
(* CompactContext *)

\* Mutant of SplitIntoChunks: the last chunk must be full.
SplitFullChunksOnly(events) ==
  [c \in 1..(Len(events) \div MaxChunkEvents) |->
     SubSeq(events, (c - 1) * MaxChunkEvents + 1, c * MaxChunkEvents)]

SplitIntoChunks(events) ==
  LET n == Len(events)
      end(c) == IF c * MaxChunkEvents < n THEN c * MaxChunkEvents ELSE n
  IN  [c \in 1..((n + MaxChunkEvents - 1) \div MaxChunkEvents) |->
         SubSeq(events, (c - 1) * MaxChunkEvents + 1, end(c))]

\* big: the events' text exceeds ChunkThresholdBytes.  It makes no difference:
\* chunks are cut by number, so few events are one chunk and go out whole.
Calls(events, big) ==
  IF ~big /\ Len(events) <= MaxChunkEvents THEN <<events>> ELSE SplitIntoChunks(events)

BeginPass(big) ==
  /\ pc = "begin"
  /\ \/ /\ input.events = <<>>
        /\ pc' = "failed"
        /\ UNCHANGED input
     \/ /\ input.events # <<>>
        /\ pc' = "call"
        /\ input' = [input EXCEPT !.calls = Calls(input.events, big)]
  /\ UNCHANGED <<spine, sched, pass, turns, attempts>>

\* Either call of the model may come to nothing: no answer, one the API calls
\* unfinished or leaves empty.  The chunks before it are lost with the pass.
CallFails ==
  /\ Goto("call", "failed")
  /\ UNCHANGED <<spine, sched, pass, input, turns, attempts>>

MergeFails ==
  /\ Goto("merge", "failed")
  /\ UNCHANGED <<spine, sched, pass, input, turns, attempts>>

Covering(reply) == pass.covered \cup EventCoverage(Parse(reply))

\* The pipeline's last reply is the tree of the session, if it is valid.
Validated(reply) ==
  IF Valid(Parse(reply))
    THEN /\ pc' = "blob"
         /\ pass' = [pass EXCEPT !.reply = reply, !.covered = Covering(reply)]
    ELSE /\ pc' = "failed"
         /\ UNCHANGED pass

\* Of a chunk's tree only its coverage and what the merge is told of it is
\* used, and it is not validated.
ChunkReply(reply) ==
  /\ pc = "call"
  /\ \/ /\ ~Parses(reply)
        /\ pc' = "failed"
        /\ UNCHANGED pass
     \/ /\ Parses(reply)
        /\ Len(input.calls) = 1
        /\ Validated(reply)
     \/ /\ Parses(reply)
        /\ Len(input.calls) > 1
        /\ pc' = IF pass.next = Len(input.calls) THEN "merge" ELSE "call"
        /\ pass' = [pass EXCEPT !.next = @ + 1, !.covered = Covering(reply)]
  /\ UNCHANGED <<spine, sched, input, turns, attempts>>

\* mergeChunks: the merged tree has the coverage of its chunks as well.
MergeReply(reply) ==
  /\ pc = "merge"
  /\ \/ /\ ~Parses(reply)
        /\ pc' = "failed"
        /\ UNCHANGED pass
     \/ /\ Parses(reply)
        /\ Validated(reply)
  /\ UNCHANGED <<spine, sched, input, turns, attempts>>

Hook ==
  \/ \E listed \in BOOLEAN : RecordTurnAndMaybeCompact(listed)
  \/ RequestRefused
  \/ RequestRecorded
  \/ \E big \in BOOLEAN : BeginPass(big)
  \/ CallFails
  \/ MergeFails
  \/ \E reply \in Replies : ChunkReply(reply) \/ MergeReply(reply)
  \/ StoreTree
  \/ RecordTree
  \/ RecordComplete
  \/ RecordFailure

Next ==
  \/ \E b \in Branches, ratio \in Ratios :
       TurnAnswers(b, ratio) \/ TurnFails(b, ratio)
  \/ \E b \in Branches : OtherAppends(b)
  \/ Hook

Spec == Init /\ [][Next]_vars

-----------------------------------------------------------------------------
(* Properties *)

Done(i) == attempts[i].outcome = "done"

\* A pass is under way exactly from its turn's decision to its outcome.
PassUnderWay ==
  /\ pc = "idle" <=> pass = None
  /\ \A i \in DOMAIN attempts :
       attempts[i].outcome = "running" <=> i = Current /\ pc \notin {"idle", "answered"}
  /\ pc \notin {"idle", "answered"} => attempts # <<>> /\ attempts[Current].turn = Len(turns)

\* A turn begins one pass at most.
AttemptsInOrder ==
  /\ \A i \in DOMAIN attempts : attempts[i].turn \in DOMAIN turns
  /\ \A i, j \in DOMAIN attempts : i < j => attempts[i].turn < attempts[j].turn

\* The cooldown's counter is never ahead of the turns since a compaction.
CooldownCounted ==
  /\ sched.totalFirings > 0 <=> \E i \in DOMAIN attempts : Done(i)
  /\ \A i \in DOMAIN attempts :
       Done(i) => attempts[i].turn + sched.turnsSinceLastFire <= Len(turns)

\* After a pass that came to nothing the scheduler still has its reasons.
RetryPending ==
  attempts # <<>> =>
    LET last == attempts[Current]
    IN  last.outcome \in {"running", "refused", "failed"} /\ last.turn = Len(turns) =>
          /\ last.reason = "turn_count" => TurnsDue(sched)
          /\ sched.eventCount >= MinEvents
          /\ ~Cooling(sched)
          /\ last.listed => EventCount(last.branch) >= sched.eventCount

\* The scheduler's counters agree with the passes that were begun
\* (scheduler.go's RecordTurn, MarkCompacted and MarkCompactionFailed against
\* session.go's runCompaction): what the two properties below rest on.
CompactionInv ==
  /\ TypeOK
  /\ PassUnderWay
  /\ AttemptsInOrder
  /\ CooldownCounted
  /\ RetryPending

\* However turns, budget pressure, failures and refusals alternate, after a
\* compaction none is begun for CooldownTurns turns (scheduler.go:25, "prevents
\* compaction from firing again within N turns after the last compaction").
CooldownHolds ==
  \A i, j \in DOMAIN attempts :
    i < j /\ Done(i) => attempts[j].turn - attempts[i].turn >= CooldownTurns

\* A pass due by turns that fails, or is refused its request, is begun again by
\* the very next answered turn (PLANS.md:568, "scheduler allows immediate
\* retry"), unless the count of another branch's events is too low for it.
RetriedAtOnce ==
  \A i \in DOMAIN attempts :
    LET t == attempts[i].turn + 1
    IN  /\ attempts[i].outcome \in {"refused", "failed"}
        /\ attempts[i].reason = "turn_count"
        /\ t \in DOMAIN turns
        /\ turns[t].listed => attempts[i].listed /\ turns[t].branch = attempts[i].branch
        => i < Current /\ attempts[i + 1].turn = t

Joined(calls) ==
  LET upto[n \in 0..Len(calls)] == IF n = 0 THEN <<>> ELSE upto[n - 1] \o calls[n]
  IN  upto[Len(calls)]

\* What is stored as a session's tree (schema.go's Validate after
\* flattenGeminiNode, compactor.go's split and merge): it has each node of the
\* model's reply, although the map of leaves drops nodes and the walk sees the
\* map only; each stands in the tier of its kind; the nodes' events are covered;
\* and the model was shown every event of the branch once, in order, in chunks
\* that are not too large.
ValidatedIsWhole ==
  pc \in {"blob", "ast", "complete"} =>
    /\ IsLeaflet(pass.reply)
    /\ \A i \in DOMAIN pass.reply : pass.reply[i].refs \subseteq pass.covered
    /\ Joined(input.calls) = input.events
    /\ \A c \in DOMAIN input.calls : Len(input.calls[c]) <= MaxChunkEvents

=============================================================================

------------------------------ MODULE Session ------------------------------
(***************************************************************************)
(* User turns on one branch of one session: internal/runtime/session.go,   *)
(* handleUserTurn and what it calls, over the append-only backend.         *)
(*                                                                         *)
(* The server builds a new Session object for every request.  Its counter  *)
(* starts at the number of events read then and is its own from there on,  *)
(* and so is its mutex: handlers of one session interleave at every call   *)
(* on the backend.  An event id is the counter's next number with the      *)
(* event's kind, so the backend refuses an id that another handler has     *)
(* used.  Numbers are also drawn for ids that never reach the spine: the   *)
(* consult id of a turn and the id of a tool call the model did not name.  *)
(*                                                                         *)
(* A call on the backend under the request's context fails once it is      *)
(* over.  Its caller then ends the turn (a tool's blob is followed by an   *)
(* append under the same context), so every such call may fail and no      *)
(* later one is made; the audit event alone is appended under a context    *)
(* of its own.                                                             *)
(***************************************************************************)
EXTENDS Naturals, Sequences, FiniteSets

CONSTANTS
  Requests,    \* the turns, each in a handler of its own
  ToolUsers,   \* those with a tool runner
  CallNames,   \* call ids the model may choose
  Unnamed,     \* whether the model may leave a call id out
  MaxRounds,   \* maxReasoningTurns, 4 in the code
  MaxCalls,    \* tool calls in one response; the code has no bound
  MaxActive,   \* handlers at once; the code has no bound
  MaxOther,    \* events of other components, see AppendOther
  None

ASSUME ConstantsAssumption ==
  /\ ToolUsers \subseteq Requests
  /\ Unnamed \in BOOLEAN
  /\ MaxRounds \in Nat \ {0}
  /\ {MaxCalls, MaxActive, MaxOther} \subseteq Nat

VARIABLES
  spine,       \* the session's events
  blobs,       \* the blobs stored: a reference and the handler that stored it
  pc,          \* pc[r]: the next backend call of handler r
  counter,     \* counter[r]: Session.counter
  round,       \* round[r]: the reasoning turn, from 1
  decision,    \* decision[r]: the model's decision in this round
  left,        \* left[r]: tool calls of this round still to be settled
  tool,        \* tool[r]: the call being run and what became of it
  fate,        \* fate[r]: how the turn ends, None before
  seen,        \* seen[r]: whose turn.user the last packet took as current
  trace,       \* trace[r]: whose packet and response r's trace shows
  shared       \* history: the handlers that ran while another one did

local == <<counter, round, decision, left, tool, seen, trace, shared>>
vars  == <<spine, blobs, pc, fate, local>>

Decisions == {"answer", "tool_calls", "continue"}
Kinds == {"turn.user", "turn.agent", "packet.candidate", "packet.rejected",
          "packet.sent", "response.received", "response.invalid",
          "tool.request", "tool.result", "tool.failure", "audit.decision",
          "other"}
Steps == {"idle", "user", "list", "candidate", "sent", "model", "invalid",
          "received", "audit", "tool", "run", "result", "agent", "trace",
          "done"}
ToolEnds == {"tool.result", "tool.failure"}
Fates == {None, "answered", "failed", "duplicate"}

\* Blob references: one per response number, one per tool call.
ModelBlob(n) == <<"model", n>>
ToolBlob(c)  == <<"tool", c>>

\* An id is a number and a kind; number 0 stands for the ids other components
\* make, which are unique.  note is what the properties need of the payload.
Event(r, n, kind, note, blob) ==
  [by |-> r, n |-> n, kind |-> kind, note |-> note, blob |-> blob]

CallIds == CallNames \cup Nat
Refs    == ({"model"} \X Nat) \cup ({"tool"} \X CallIds)

\* The note is the response's decision, or the call id of a tool's event.
Responses == [by : Requests, n : Nat, kind : {"response.received"},
              note : Decisions, blob : Refs]
Events    == Responses \cup
             [by : Requests \cup {None}, n : Nat, kind : Kinds \ {"response.received"},
              note : CallIds \cup {None}, blob : Refs \cup {None}]

ASSUME SentinelAssumption ==
  None \notin Requests \cup Decisions \cup Refs \cup {"answered", "failed", "duplicate"}

TypeOK ==
  /\ spine    \in Seq(Events)
  /\ blobs    \subseteq [ref : Refs, by : Requests]
  /\ pc       \in [Requests -> Steps]
  /\ counter  \in [Requests -> Nat]
  /\ round    \in [Requests -> Nat]
  /\ decision \in [Requests -> Decisions \cup {None}]
  /\ left     \in [Requests -> Nat]
  /\ tool     \in [Requests -> [call : CallIds \cup {None},
                              end : ToolEnds \cup {None},
                              blob : Refs \cup {None}]]
  /\ fate     \in [Requests -> Fates]
  /\ seen     \in [Requests -> Requests \cup {None}]
  /\ trace    \in [Requests -> SUBSET (Requests \cup {None})]
  /\ shared   \subseteq Requests

NoTool == [call |-> None, end |-> None, blob |-> None]

Init ==
  /\ spine    = <<>>
  /\ blobs    = {}
  /\ pc       = [r \in Requests |-> "idle"]
  /\ counter  = [r \in Requests |-> 0]
  /\ round    = [r \in Requests |-> 1]
  /\ decision = [r \in Requests |-> None]
  /\ left     = [r \in Requests |-> 0]
  /\ tool     = [r \in Requests |-> NoTool]
  /\ fate     = [r \in Requests |-> None]
  /\ seen     = [r \in Requests |-> None]
  /\ trace    = [r \in Requests |-> {}]
  /\ shared   = {}

-----------------------------------------------------------------------------
(* The backend *)

Used(n, kind) ==
  \E i \in DOMAIN spine : spine[i].n = n /\ spine[i].n # 0 /\ spine[i].kind = kind

\* Mutant of LatestBy: the search runs forwards.
EarliestBy(kind) ==
  LET at == {i \in DOMAIN spine : spine[i].kind = kind} IN
  IF at = {} THEN None
  ELSE spine[CHOOSE i \in at : \A j \in at : i <= j].by

\* Whose event is the latest of its kind on the branch.
LatestBy(kind) ==
  LET at == {i \in DOMAIN spine : spine[i].kind = kind} IN
  IF at = {} THEN None
  ELSE spine[CHOOSE i \in at : \A j \in at : j <= i].by

Stored(ref) == \E b \in blobs : b.ref = ref

Goto(r, to) == pc' = [pc EXCEPT ![r] = to]

End(r, f) == Goto(r, "done") /\ fate' = [fate EXCEPT ![r] = f]

\* An append that succeeds, and one that fails: the number is taken or the
\* context is over.
Appended(e) ==
  /\ ~Used(e.n, e.kind)
  /\ spine' = Append(spine, e)

Refusal(taken) == IF taken THEN "duplicate" ELSE "failed"

Refused(r, e) ==
  /\ fate' = [fate EXCEPT ![r] = Refusal(Used(e.n, e.kind))]
  /\ UNCHANGED spine

\* AppendEvent in the middle of a turn: go on at to, or end the turn.
AppendThen(r, e, to) ==
  \/ Appended(e) /\ Goto(r, to) /\ UNCHANGED fate
  \/ Refused(r, e) /\ Goto(r, "done")

Active == {r \in Requests : pc[r] \notin {"idle", "done"}}

-----------------------------------------------------------------------------
(* The turn, up to the model call *)

\* Mutant of Start: the counter is not moved past the events that exist.
StartAtZero(r) ==
  /\ pc[r] = "idle"
  /\ Cardinality(Active) < MaxActive
  /\ Goto(r, "user")
  /\ shared' = IF Active = {} THEN shared ELSE shared \cup Active \cup {r}
  /\ UNCHANGED <<spine, blobs, counter, round, decision, left, tool, fate, seen,
                 trace>>

\* StartSession, under the background context, which does not end.
Start(r) ==
  /\ pc[r] = "idle"
  /\ Cardinality(Active) < MaxActive
  /\ Goto(r, "user")
  /\ counter' = [counter EXCEPT ![r] = Len(spine)]
  /\ shared' = IF Active = {} THEN shared ELSE shared \cup Active \cup {r}
  /\ UNCHANGED <<spine, blobs, round, decision, left, tool, fate, seen, trace>>

\* The user's turn, and the consult id, which is drawn but never appended.
AppendUser(r) ==
  /\ pc[r] = "user"
  /\ AppendThen(r, Event(r, counter[r] + 1, "turn.user", None, None), "list")
  /\ counter' = [counter EXCEPT ![r] = @ + 2]
  /\ UNCHANGED <<blobs, round, decision, left, tool, seen, trace, shared>>

\* assembleForBranch reads the spine; the latest turn.user of the branch
\* becomes the packet's current turn.
ListEvents(r) ==
  /\ pc[r] = "list"
  /\ \/ /\ Goto(r, "candidate")
        /\ seen' = [seen EXCEPT ![r] = LatestBy("turn.user")]
        /\ UNCHANGED fate
     \/ End(r, "failed") /\ UNCHANGED seen
  /\ UNCHANGED <<spine, blobs, counter, round, decision, left, tool, trace, shared>>

\* No staged compaction fits the packet in the budget.  Whether the event is
\* appended or refused, the turn fails.
RejectPacket(r) ==
  /\ pc[r] = "candidate"
  /\ End(r, "failed")
  /\ \/ Appended(Event(r, counter[r] + 1, "packet.rejected", None, None))
     \/ UNCHANGED spine
  /\ counter' = [counter EXCEPT ![r] = @ + 1]
  /\ UNCHANGED <<blobs, round, decision, left, tool, seen, trace, shared>>

AppendCandidate(r) ==
  /\ pc[r] = "candidate"
  /\ AppendThen(r, Event(r, counter[r] + 1, "packet.candidate", None, None), "sent")
  /\ counter' = [counter EXCEPT ![r] = @ + 1]
  /\ UNCHANGED <<blobs, round, decision, left, tool, seen, trace, shared>>

\* The response's number is drawn before the packet's.
AppendSent(r) ==
  /\ pc[r] = "sent"
  /\ AppendThen(r, Event(r, counter[r] + 2, "packet.sent", None, None), "model")
  /\ counter' = [counter EXCEPT ![r] = @ + 2]
  /\ UNCHANGED <<blobs, round, decision, left, tool, seen, trace, shared>>

ResponseNo(r) == counter[r] - 1

-----------------------------------------------------------------------------
(* model.ExecuteAndPersist: an error ends the turn after the audit event *)

ModelFails(r) ==
  /\ pc[r] = "model"
  /\ Goto(r, "audit")
  /\ fate' = [fate EXCEPT ![r] = "failed"]
  /\ UNCHANGED <<spine, blobs, local>>

ModelMalformed(r) ==
  /\ pc[r] = "model"
  /\ Goto(r, "invalid")
  /\ fate' = [fate EXCEPT ![r] = "failed"]
  /\ UNCHANGED <<spine, blobs, local>>

AppendInvalid(r) ==
  /\ pc[r] = "invalid"
  /\ Goto(r, "audit")
  /\ \/ Appended(Event(r, ResponseNo(r), "response.invalid", None, None))
     \/ UNCHANGED spine
  /\ UNCHANGED <<blobs, fate, local>>

\* A well-formed response: its raw bytes are stored before its event.
StoreResponse(r, d) ==
  /\ pc[r] = "model"
  /\ decision' = [decision EXCEPT ![r] = d]
  /\ \/ /\ ~Stored(ModelBlob(ResponseNo(r)))
        /\ blobs' = blobs \cup {[ref |-> ModelBlob(ResponseNo(r)), by |-> r]}
        /\ Goto(r, "received")
        /\ UNCHANGED fate
     \/ /\ fate' = [fate EXCEPT ![r] = Refusal(Stored(ModelBlob(ResponseNo(r))))]
        /\ Goto(r, "audit")
        /\ UNCHANGED blobs
  /\ UNCHANGED <<spine, counter, round, left, tool, seen, trace, shared>>

AppendReceived(r) ==
  /\ pc[r] = "received"
  /\ Goto(r, "audit")
  /\ LET e == Event(r, ResponseNo(r), "response.received", decision[r],
                    ModelBlob(ResponseNo(r)))
     IN  (Appended(e) /\ UNCHANGED fate) \/ Refused(r, e)
  /\ UNCHANGED <<blobs, local>>

-----------------------------------------------------------------------------
(* After the model call *)

\* Mutant of NextRound: a turn that has used up its rounds is not ended.
NextRoundOnly(r) ==
  /\ round' = [round EXCEPT ![r] = @ + 1]
  /\ round[r] < MaxRounds
  /\ Goto(r, "list")
  /\ UNCHANGED fate

\* continue, and the end of a round of tool calls: the next round, or
\* ErrMaxReasoningTurns.
NextRound(r) ==
  /\ round' = [round EXCEPT ![r] = @ + 1]
  /\ IF round[r] < MaxRounds THEN Goto(r, "list") /\ UNCHANGED fate
                             ELSE End(r, "failed")

\* The audit event has an id and a context of its own; its tracker never ends
\* a turn, AutoTerminateOnAuditComplete being off in every session the server
\* starts.
Audit(r) ==
  /\ pc[r] = "audit"
  /\ spine' = Append(spine, Event(r, 0, "audit.decision", None, None))
  /\ IF fate[r] # None
       THEN Goto(r, "done") /\ UNCHANGED <<fate, round, left>>
       ELSE \/ /\ decision[r] = "answer"
               /\ Goto(r, "agent") /\ UNCHANGED <<fate, round, left>>
            \/ /\ decision[r] = "continue"
               /\ NextRound(r) /\ UNCHANGED left
            \/ /\ decision[r] = "tool_calls" /\ r \notin ToolUsers
               /\ End(r, "failed") /\ UNCHANGED <<round, left>>
            \/ /\ decision[r] = "tool_calls" /\ r \in ToolUsers
               /\ \E k \in 1..MaxCalls : left' = [left EXCEPT ![r] = k]
               /\ Goto(r, "tool") /\ UNCHANGED <<fate, round>>
  /\ UNCHANGED <<blobs, counter, decision, tool, seen, trace, shared>>

\* One call of executeToolCalls: it runs only once its request is appended.
RequestTool(r) ==
  /\ pc[r] = "tool"
  /\ \E named \in IF Unnamed THEN BOOLEAN ELSE {TRUE} :
       \E c \in IF named THEN CallNames ELSE {counter[r] + 1} :
         LET n == counter[r] + (IF named THEN 1 ELSE 2) IN
           /\ AppendThen(r, Event(r, n, "tool.request", c, None), "run")
           /\ counter' = [counter EXCEPT ![r] = n]
           /\ tool' = [tool EXCEPT ![r] = [NoTool EXCEPT !.call = c]]
  /\ UNCHANGED <<blobs, round, decision, left, seen, trace, shared>>

\* Mutant of ToolSucceeds: the result names its blob whether or not it could
\* be stored.
ToolSucceedsAnyway(r) ==
  /\ pc[r] = "run"
  /\ Goto(r, "result")
  /\ LET ref == ToolBlob(tool[r].call) IN
       /\ tool' = [tool EXCEPT ![r].end = "tool.result", ![r].blob = ref]
       /\ blobs' = IF Stored(ref) THEN blobs
                   ELSE blobs \cup {[ref |-> ref, by |-> r]}
  /\ UNCHANGED <<spine, counter, round, decision, left, fate, seen, trace, shared>>

\* The call succeeds and its raw result is stored; if the reference is taken
\* the result goes without.  A context that is over fails the blob and then
\* the result's append: to the spine and the blobs that is ToolFails and a
\* refusal.
ToolSucceeds(r) ==
  /\ pc[r] = "run"
  /\ Goto(r, "result")
  /\ LET ref == ToolBlob(tool[r].call) IN
       IF Stored(ref)
         THEN /\ tool' = [tool EXCEPT ![r].end = "tool.result"]
              /\ UNCHANGED blobs
         ELSE /\ tool' = [tool EXCEPT ![r].end = "tool.result", ![r].blob = ref]
              /\ blobs' = blobs \cup {[ref |-> ref, by |-> r]}
  /\ UNCHANGED <<spine, counter, round, decision, left, fate, seen, trace, shared>>

ToolFails(r) ==
  /\ pc[r] = "run"
  /\ Goto(r, "result")
  /\ tool' = [tool EXCEPT ![r].end = "tool.failure"]
  /\ UNCHANGED <<spine, blobs, counter, round, decision, left, fate, seen, trace,
                 shared>>

\* Mutant of AppendToolEnd: the loop goes on when the append is refused.
AppendToolEndAnyway(r) ==
  /\ pc[r] = "result"
  /\ counter' = [counter EXCEPT ![r] = @ + 1]
  /\ \/ Appended(Event(r, counter[r] + 1, tool[r].end, tool[r].call, tool[r].blob))
     \/ UNCHANGED spine
  /\ left' = [left EXCEPT ![r] = @ - 1]
  /\ IF left[r] > 1 THEN Goto(r, "tool") /\ UNCHANGED <<fate, round>>
                    ELSE NextRound(r)
  /\ tool' = [tool EXCEPT ![r] = NoTool]
  /\ UNCHANGED <<blobs, decision, seen, trace, shared>>

\* The result or the failure is appended; then the next call or round.
AppendToolEnd(r) ==
  /\ pc[r] = "result"
  /\ counter' = [counter EXCEPT ![r] = @ + 1]
  /\ LET t == tool[r]
         e == Event(r, counter[r] + 1, t.end, t.call, t.blob)
     IN  \/ /\ Appended(e)
            /\ left' = [left EXCEPT ![r] = @ - 1]
            /\ IF left[r] > 1 THEN Goto(r, "tool") /\ UNCHANGED <<fate, round>>
                              ELSE NextRound(r)
         \/ Refused(r, e) /\ Goto(r, "done") /\ UNCHANGED <<left, round>>
  /\ tool' = [tool EXCEPT ![r] = NoTool]
  /\ UNCHANGED <<blobs, decision, seen, trace, shared>>

\* Mutant of AppendAgent: the append's error is not looked at.
AppendAgentAnyway(r) ==
  /\ pc[r] = "agent"
  /\ counter' = [counter EXCEPT ![r] = @ + 1]
  /\ \/ Appended(Event(r, counter[r] + 1, "turn.agent", None, None))
     \/ UNCHANGED spine
  /\ Goto(r, "trace")
  /\ fate' = [fate EXCEPT ![r] = "answered"]
  /\ UNCHANGED <<blobs, round, decision, left, tool, seen, trace, shared>>

AppendAgent(r) ==
  /\ pc[r] = "agent"
  /\ counter' = [counter EXCEPT ![r] = @ + 1]
  /\ LET e == Event(r, counter[r] + 1, "turn.agent", None, None)
     IN  \/ /\ Appended(e)
            /\ Goto(r, "trace")
            /\ fate' = [fate EXCEPT ![r] = "answered"]
         \/ Refused(r, e) /\ Goto(r, "done")
  /\ UNCHANGED <<blobs, round, decision, left, tool, seen, trace, shared>>

\* findTrace, in the handler of /v1/agent-call once the turn has returned.
FindTrace(r) ==
  /\ pc[r] = "trace"
  /\ Goto(r, "done")
  /\ trace' = [trace EXCEPT ![r] = {LatestBy("packet.sent"),
                                    LatestBy("response.received")}]
  /\ UNCHANGED <<spine, blobs, counter, round, decision, left, tool, fate, seen,
                 shared>>

\* The sidecar's extract, the handlers' consult events: ids that do not come
\* from the counter, appended at any time.
AppendOther ==
  /\ Cardinality({i \in DOMAIN spine : spine[i].kind = "other"}) < MaxOther
  /\ spine' = Append(spine, Event(None, 0, "other", None, None))
  /\ UNCHANGED <<blobs, pc, fate, local>>

-----------------------------------------------------------------------------

Step(r) ==
  \/ AppendUser(r)
  \/ ListEvents(r)
  \/ RejectPacket(r)
  \/ AppendCandidate(r)
  \/ AppendSent(r)
  \/ ModelFails(r)
  \/ ModelMalformed(r)
  \/ AppendInvalid(r)
  \/ \E d \in Decisions : StoreResponse(r, d)
  \/ AppendReceived(r)
  \/ Audit(r)
  \/ RequestTool(r)
  \/ ToolSucceeds(r)
  \/ ToolFails(r)
  \/ AppendToolEnd(r)
  \/ AppendAgent(r)
  \/ FindTrace(r)

Next == AppendOther \/ \E r \in Requests : Start(r) \/ Step(r)

\* A handler goes on until it is done: the adapter and the tools answer or
\* fail, the request's context bounding both.
Spec == Init /\ [][Next]_vars /\ \A r \in Requests : WF_vars(Step(r))

-----------------------------------------------------------------------------
(* Properties *)

EventsOf(r, kind) == {i \in DOMAIN spine : spine[i].by = r /\ spine[i].kind = kind}

OwnBlob(i) == [ref |-> spine[i].blob, by |-> spine[i].by] \in blobs

\* A turn is answered exactly if its turn.agent is on the spine, once, and
\* then it has a durable history of its own, whatever other handlers appended
\* in between: the user's turn, a packet, and an answer of the model whose raw
\* bytes are stored.
AnsweredIffRecorded ==
  \A r \in Requests :
    LET agent == EventsOf(r, "turn.agent") IN
    IF fate[r] # "answered" THEN agent = {}
    ELSE /\ Cardinality(agent) = 1
         /\ \E u \in EventsOf(r, "turn.user"), c \in EventsOf(r, "packet.candidate"),
              s \in EventsOf(r, "packet.sent"), m \in EventsOf(r, "response.received"),
              a \in agent :
              /\ u < c /\ c < s /\ s < m /\ m < a
              /\ spine[m].note = "answer"
              /\ spine[s].n = spine[m].n + 1
              /\ OwnBlob(m)

\* A blob an event names was stored by the handler that appended the event,
\* although response numbers and call ids are reused across handlers.
BlobsAreOwn ==
  \A i \in DOMAIN spine : spine[i].blob # None => OwnBlob(i)

\* The events at i and j are neighbours in the turn of one handler.
Follows(i, j) ==
  /\ spine[i].by = spine[j].by
  /\ spine[i].by # None
  /\ \A k \in (i + 1)..(j - 1) : spine[k].by # spine[i].by

\* Within a turn a tool request and the result or failure of the same call
\* follow each other; only the turn's last request may stay without one.
ToolCallsPaired ==
  \A i \in DOMAIN spine : \A j \in (i + 1)..Len(spine) :
    /\ spine[i].kind = "tool.request" \/ spine[j].kind \in ToolEnds
    /\ Follows(i, j)
    => /\ spine[i].kind = "tool.request"
       /\ spine[j].kind \in ToolEnds
       /\ spine[i].note = spine[j].note

\* Tool calls of r that the model gave no id: theirs is the number drawn just
\* before their request's.
UnnamedCalls(r) == {i \in EventsOf(r, "tool.request") : spine[i].note = spine[i].n - 1}

\* A turn no other handler overlaps is refused no id, although the counter
\* restarts at the number of events and not at the last number drawn.  It
\* takes a turn of three calls without an id before it: each draws a number
\* that no event has, and its ids then run so far ahead of the number of
\* events that the next turn, which starts from that, draws one of them again.
AloneNeverRefused ==
  \A r \in Requests :
    fate[r] = "duplicate" =>
      r \in shared \/ \E q \in Requests : Cardinality(UnnamedCalls(q)) > 2

\* The packet of a turn no other handler overlaps takes that turn's text as
\* the current one, and its trace shows its own packet and response.
AloneSeesOwn ==
  \A r \in Requests \ shared : seen[r] \in {None, r} /\ trace[r] \subseteq {r}

\* Every turn that starts ends: a model that continues or calls tools in every
\* round is cut off after MaxRounds (session.go:208), and a refused id, a failed
\* tool or a malformed response leaves no handler behind.
EveryTurnEnds == \A r \in Requests : pc[r] # "idle" ~> pc[r] = "done"

\* What TestPostAgentCallOverlappingDifferentRequestsDoNotCrossBleed expects
\* of two different requests on one session (server_test.go:973): no turn
\* fails for the other's sake.
NoTurnRefused == \A r \in Requests : fate[r] # "duplicate"

=============================================================================

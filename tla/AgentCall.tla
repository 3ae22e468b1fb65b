----------------------------- MODULE AgentCall -----------------------------
(***************************************************************************)
(* POST /v1/agent-call: internal/server/server.go, handleAgentCall, over   *)
(* the in-flight coalescer.                                                *)
(*                                                                         *)
(* Every request runs in a goroutine of its own.  A request that passes    *)
(* preflight enters the coalescer with its fingerprint.  The leader runs   *)
(* the turn, appends its consult event, publishes what it will answer to   *)
(* the followers and writes its own response; on every error it publishes  *)
(* the error.  A follower waits; if it was handed a resolved response it   *)
(* appends a consult event of its own, linked to the leader's, before it   *)
(* writes the response.                                                    *)
(*                                                                         *)
(* The turn, from starting the session on, is one step here: it appends    *)
(* the agent's answer or fails (the steps inside it are Session's), and    *)
(* its errors share one code.  A step on the backend fails when the        *)
(* request's context is over or the backend refuses.                       *)
(***************************************************************************)
EXTENDS Naturals, Sequences, FiniteSets

CONSTANTS
  Requests,   \* HTTP requests, each one handler goroutine
  Keys,       \* fingerprints of normalised requests
  None,
  Expired     \* the coalescer's answer to a wait whose context ended

ASSUME SentinelAssumption ==
  /\ None \notin Requests
  /\ None \notin Keys

VARIABLES
  calls, key, call, stage, value, waited,   \* the coalescer
  pc,         \* pc[r]: where r's handler is
  pending,    \* pending[r]: what leader r is about to publish
  drawn,      \* drawn[r]: the number in r's consult event id, 0 before
  reply,      \* reply[r]: what was written to the client
  counter,    \* Server.consultCounter
  spine       \* the session's events, those this handler is about

flightVars == <<calls, key, call, stage, value, waited>>
vars == <<flightVars, pc, pending, drawn, reply, counter, spine>>

\* The coalesced result.  answer names the request whose turn produced the
\* payload, consult the number of the leader's consult event.
LeaderErrors == {"agent_call_failed", "consult_manifest_failed",
                 "consult_event_failed"}
Resolved == [code : {"ok"}, answer : Requests, consult : Nat]
Failed   == [code : LeaderErrors]
Outs     == Resolved \cup Failed

\* A handler's own errors, never published to anybody.
OwnErrors == {"not_resolved", "inflight_wait_failed", "consult_event_failed"}
Replies  == Outs \cup [code : OwnErrors]

\* The sentinels are no results and no replies.
ASSUME ResultAssumption == {None, Expired} \cap Replies = {} /\ Expired # None

Flight == INSTANCE Inflight WITH Values <- Outs

\* One session's spine, reduced to the agent's answers and the consult events.
TurnEvents    == [kind : {"turn.agent"}, by : Requests]
ConsultEvents == [kind : {"consult.resolved"}, by : Requests,
                  role : {"leader", "follower"}, id : Nat,
                  leader : Nat, key : Keys]
Events        == TurnEvents \cup ConsultEvents

\* LeaderConsultEventID of a leader's own event is empty.
NoEvent == 0

Steps == {"idle", "turn", "draw", "append", "publish", "write", "wait", "done"}

TypeOK ==
  /\ Flight!TypeOK
  /\ pc      \in [Requests -> Steps]
  /\ pending \in [Requests -> Outs \cup {None}]
  /\ drawn   \in [Requests -> Nat]
  /\ reply   \in [Requests -> Replies \cup {None}]
  /\ counter \in Nat
  /\ spine   \in Seq(Events)

Init ==
  /\ Flight!Init
  /\ pc      = [r \in Requests |-> "idle"]
  /\ pending = [r \in Requests |-> None]
  /\ drawn   = [r \in Requests |-> 0]
  /\ reply   = [r \in Requests |-> None]
  /\ counter = 0
  /\ spine   = <<>>

-----------------------------------------------------------------------------
(* Helpers *)

Error(code) == [code |-> code]

Goto(r, from, to) ==
  /\ pc[r] = from
  /\ pc' = [pc EXCEPT ![r] = to]

Answer(r, out) == reply' = [reply EXCEPT ![r] = out]

ConsultIds == {spine[i].id : i \in {j \in DOMAIN spine :
                                      spine[j].kind = "consult.resolved"}}

\* AppendEvent: an id that is on the spine already is refused.
AppendConsult(r, role, leader) ==
  /\ drawn[r] \notin ConsultIds
  /\ spine' = Append(spine, [kind |-> "consult.resolved", by |-> r,
                             role |-> role, id |-> drawn[r],
                             leader |-> leader, key |-> key[r]])

-----------------------------------------------------------------------------
(* Arrival *)

\* The body is malformed, or preflight calls the request unresolved, which it
\* does only when no branch is given, and without a branch no consult event is
\* appended either.
Refuse(r) ==
  /\ Goto(r, "idle", "done")
  /\ Answer(r, Error("not_resolved"))
  /\ UNCHANGED <<flightVars, pending, drawn, counter, spine>>

Lead(r, k) ==
  /\ Goto(r, "idle", "turn")
  /\ Flight!EnterLeader(r, k)
  /\ UNCHANGED <<pending, drawn, reply, counter, spine>>

Follow(r, k) ==
  /\ Goto(r, "idle", "wait")
  /\ Flight!EnterFollower(r, k)
  /\ UNCHANGED <<pending, drawn, reply, counter, spine>>

-----------------------------------------------------------------------------
(* The leader *)

TurnAnswers(r) ==
  /\ Goto(r, "turn", "draw")
  /\ spine' = Append(spine, [kind |-> "turn.agent", by |-> r])
  /\ UNCHANGED <<flightVars, pending, drawn, reply, counter>>

\* Mutant of LeaderFails: one early return that forgets to publish.
LeaderFailsSilently(r) ==
  /\ pc[r] = "turn"
  /\ pending' = [pending EXCEPT ![r] = Error("agent_call_failed")]
  /\ pc' = [pc EXCEPT ![r] = "write"]
  /\ UNCHANGED <<flightVars, drawn, reply, counter, spine>>

\* Whatever goes wrong before the consult event is drawn is published: the
\* turn fails, or the manifest of its answer cannot be built.
LeaderFails(r) ==
  /\ Flight!Leader(r)
  /\ \E code \in LeaderErrors :
       /\ \/ pc[r] = "turn" /\ code = "agent_call_failed"
          \/ pc[r] = "draw" /\ code = "consult_manifest_failed"
       /\ pending' = [pending EXCEPT ![r] = Error(code)]
  /\ pc' = [pc EXCEPT ![r] = "publish"]
  /\ UNCHANGED <<flightVars, drawn, reply, counter, spine>>

\* Mutant of DrawConsultId: the counter moves only when the id is used up.
DrawConsultIdUncounted(r) ==
  /\ Goto(r, "draw", "append")
  /\ drawn' = [drawn EXCEPT ![r] = counter + 1]
  /\ UNCHANGED <<flightVars, pending, reply, counter, spine>>

\* nextConsultEventID: an atomic increment; the append comes later.
DrawConsultId(r) ==
  /\ Goto(r, "draw", "append")
  /\ counter' = counter + 1
  /\ drawn' = [drawn EXCEPT ![r] = counter + 1]
  /\ UNCHANGED <<flightVars, pending, reply, spine>>

\* Mutant of LeaderRecords: the answer is published without waiting for the
\* consult event to be appended.
LeaderRecordsLazily(r) ==
  /\ Flight!Leader(r)
  /\ Goto(r, "append", "publish")
  /\ pending' = [pending EXCEPT ![r] = [code |-> "ok", answer |-> r,
                                        consult |-> drawn[r]]]
  /\ UNCHANGED <<flightVars, drawn, reply, counter, spine>>

LeaderRecords(r) ==
  /\ Flight!Leader(r)
  /\ Goto(r, "append", "publish")
  /\ AppendConsult(r, "leader", NoEvent)
  /\ pending' = [pending EXCEPT ![r] = [code |-> "ok", answer |-> r,
                                        consult |-> drawn[r]]]
  /\ UNCHANGED <<flightVars, drawn, reply, counter>>

LeaderRecordFails(r) ==
  /\ Flight!Leader(r)
  /\ Goto(r, "append", "publish")
  /\ pending' = [pending EXCEPT ![r] = Error("consult_event_failed")]
  /\ UNCHANGED <<flightVars, drawn, reply, counter, spine>>

\* publish(out): the three steps of ticket.Complete.
PublishStores(r) ==
  /\ pc[r] = "publish"
  /\ Flight!Store(r, pending[r])
  /\ UNCHANGED <<pc, pending, drawn, reply, counter, spine>>

PublishCloses(r) ==
  /\ pc[r] = "publish"
  /\ Flight!CloseDone(r)
  /\ UNCHANGED <<pc, pending, drawn, reply, counter, spine>>

\* Mutant of PublishFrees: the key stays registered.
PublishKeepsKey(r) ==
  /\ Goto(r, "publish", "write")
  /\ stage[r] = "closed"
  /\ UNCHANGED <<flightVars, pending, drawn, reply, counter, spine>>

PublishFrees(r) ==
  /\ Goto(r, "publish", "write")
  /\ Flight!Delete(r)
  /\ UNCHANGED <<pending, drawn, reply, counter, spine>>

\* Mutant of LeaderReplies: the leader answers its own client with the turn's
\* answer although its consult event was refused.
LeaderRepliesAnyway(r) ==
  /\ Goto(r, "write", "done")
  /\ Answer(r, IF pending[r] = Error("consult_event_failed")
                 THEN [code |-> "ok", answer |-> r, consult |-> drawn[r]]
                 ELSE pending[r])
  /\ UNCHANGED <<flightVars, pending, drawn, counter, spine>>

LeaderReplies(r) ==
  /\ Goto(r, "write", "done")
  /\ Answer(r, pending[r])
  /\ UNCHANGED <<flightVars, pending, drawn, counter, spine>>

-----------------------------------------------------------------------------
(* A follower *)

\* An error is passed on as it is; a resolved response is recorded first.
FollowerGetsResult(r) ==
  /\ Flight!WaitDone(r)
  /\ IF waited'[r].code = "ok"
       THEN Goto(r, "wait", "draw") /\ UNCHANGED reply
       ELSE Goto(r, "wait", "done") /\ Answer(r, waited'[r])
  /\ UNCHANGED <<pending, drawn, counter, spine>>

FollowerGivesUp(r) ==
  /\ Flight!WaitExpired(r)
  /\ Goto(r, "wait", "done")
  /\ Answer(r, Error("inflight_wait_failed"))
  /\ UNCHANGED <<pending, drawn, counter, spine>>

\* Mutant of FollowerRecords: the event links to the follower's own id.
FollowerRecordsItself(r) ==
  /\ Flight!Follower(r)
  /\ Goto(r, "append", "done")
  /\ AppendConsult(r, "follower", drawn[r])
  /\ Answer(r, waited[r])
  /\ UNCHANGED <<flightVars, pending, drawn, counter>>

FollowerRecords(r) ==
  /\ Flight!Follower(r)
  /\ Goto(r, "append", "done")
  /\ AppendConsult(r, "follower", waited[r].consult)
  /\ Answer(r, waited[r])
  /\ UNCHANGED <<flightVars, pending, drawn, counter>>

FollowerRecordFails(r) ==
  /\ Flight!Follower(r)
  /\ Goto(r, "append", "done")
  /\ Answer(r, Error("consult_event_failed"))
  /\ UNCHANGED <<flightVars, pending, drawn, counter, spine>>

-----------------------------------------------------------------------------

Arrive(r) == Refuse(r) \/ \E k \in Keys : Lead(r, k) \/ Follow(r, k)

LeaderStep(r) ==
  \/ TurnAnswers(r)
  \/ LeaderFails(r)
  \/ LeaderRecords(r)
  \/ LeaderRecordFails(r)
  \/ PublishStores(r)
  \/ PublishCloses(r)
  \/ PublishFrees(r)
  \/ LeaderReplies(r)

FollowerStep(r) ==
  \/ FollowerGetsResult(r)
  \/ FollowerGivesUp(r)
  \/ FollowerRecords(r)
  \/ FollowerRecordFails(r)

Next ==
  \E r \in Requests :
    Arrive(r) \/ LeaderStep(r) \/ FollowerStep(r) \/ DrawConsultId(r)

\* Handlers do not stop between steps.  Of the environment this assumes only
\* that a turn ends: the model adapter and the tools run under the request's
\* context.  Nothing makes a follower's context end.
Fairness ==
  \A r \in Requests :
    /\ WF_vars(LeaderStep(r))
    /\ WF_vars(FollowerGetsResult(r))
    /\ WF_vars(FollowerRecords(r) \/ FollowerRecordFails(r))
    /\ WF_vars(DrawConsultId(r))

Spec == Init /\ [][Next]_vars /\ Fairness

-----------------------------------------------------------------------------
(* Properties *)

IsConsult(i) == spine[i].kind = "consult.resolved"

TurnRecorded(r) ==
  \E i \in DOMAIN spine : spine[i].kind = "turn.agent" /\ spine[i].by = r

LeaderRecorded(r, out) ==
  \E i \in DOMAIN spine :
    spine[i] = [kind |-> "consult.resolved", by |-> r, role |-> "leader",
                id |-> out.consult, leader |-> NoEvent, key |-> key[r]]

\* "Every resolved /v1/agent-call leaves a durable consult event"
\* (README.md:36), and only a resolved one does: the event carries the
\* request's role, fingerprint and id.
ResolvedLeavesConsult ==
  \A r \in Requests :
    reply[r] # None =>
      (reply[r].code = "ok" <=>
         \E i \in DOMAIN spine :
           /\ IsConsult(i)
           /\ spine[i].by = r
           /\ spine[i].key = key[r]
           /\ spine[i].id = drawn[r]
           /\ spine[i].role = IF Flight!Leader(r) THEN "leader" ELSE "follower")

\* A follower's consult event links to the consult event its leader appended
\* earlier for the same fingerprint (CHANGELOG.md:74).
FollowerEventsLinkBack ==
  \A i \in DOMAIN spine :
    IsConsult(i) /\ spine[i].role = "follower" =>
      \E j \in 1..(i - 1) :
        /\ IsConsult(j)
        /\ spine[j].role = "leader"
        /\ spine[j].by = call[spine[i].by]
        /\ spine[j].id = spine[i].leader
        /\ spine[j].key = spine[i].key

\* "all waiters receive the exact same completed payload" (README.md:364):
\* leader and followers of one call write the published result, save for a
\* follower's own timeout or refused consult event, and a resolved result
\* stands for a turn whose answer is on the spine.
OnePayloadPerCall ==
  \A r \in Requests :
    call[r] # None /\ reply[r] # None =>
      \/ Flight!Follower(r) /\ reply[r].code \in OwnErrors
      \/ /\ Flight!DoneClosed(call[r])
         /\ reply[r] = value[call[r]]
         /\ reply[r].code = "ok" =>
              /\ reply[r].answer = call[r]
              /\ TurnRecorded(call[r])

\* "concurrent normalized-equivalent requests coalesce to one execution": two
\* turns of one fingerprint never run at the same time.
NoOverlappingTurns ==
  \A q, r \in Requests :
    pc[q] = "turn" /\ pc[r] = "turn" /\ key[q] = key[r] => q = r

\* AppendEvent never refuses a consult event as a duplicate: a number drawn
\* and not used yet is on no event and in no other handler's hands.
DrawnIdsAreFresh ==
  \A r \in Requests :
    pc[r] = "append" =>
      /\ drawn[r] \notin ConsultIds
      /\ \A q \in Requests \ {r} : pc[q] = "append" => drawn[q] # drawn[r]

\* A request never joins a call whose leader has answered its client: nobody
\* is served an answer that was complete before the request came in.
NeverJoinsAnswered ==
  [][\A r \in Requests :
       call[r] = None /\ call'[r] \notin {None, r} => reply[call'[r]] = None]_vars

\* What a handler's position says of its ticket: a leader has released nothing
\* before it publishes and everything before it writes, a follower records
\* only after it was handed a resolved result.
Control ==
  \A r \in Requests :
    /\ pc[r] = "idle" => call[r] = None
    /\ pc[r] \in {"turn", "publish", "write"} => Flight!Leader(r)
    /\ pc[r] \in {"draw", "append"} => call[r] # None
    /\ pc[r] = "wait" => Flight!Follower(r) /\ waited[r] = None
    /\ Flight!Follower(r) /\ pc[r] \in {"draw", "append"} => waited[r] \in Resolved
    /\ pc[r] \in {"turn", "draw", "append"} => stage[r] = "fresh"
    /\ Flight!Leader(r) => (stage[r] = "deleted" <=> pc[r] \in {"write", "done"})
    /\ pc[r] \in {"publish", "write"} => pending[r] \in Outs
    /\ stage[r] # "fresh" => value[r] = pending[r]
    /\ reply[r] # None <=> pc[r] = "done"

\* A leader holds a resolved result only of its own turn, whose answer and
\* whose consult event are on the spine.
Provenance ==
  \A r \in Requests :
    /\ Flight!Leader(r) /\ pc[r] \in {"draw", "append"} => TurnRecorded(r)
    /\ pending[r] \in Resolved =>
         /\ Flight!Leader(r)
         /\ pending[r].answer = r
         /\ TurnRecorded(r)
         /\ LeaderRecorded(r, pending[r])

\* The inductive invariant behind OnePayloadPerCall, FollowerEventsLinkBack,
\* NoOverlappingTurns and NeverJoinsAnswered.
CallInv ==
  /\ TypeOK
  /\ Flight!IInv
  /\ Control
  /\ Provenance
  /\ FollowerEventsLinkBack
  /\ OnePayloadPerCall

\* A number is drawn once, by whoever is past drawing, and the counter has
\* passed it.
DrawnOnce ==
  \A r \in Requests :
    /\ drawn[r] <= counter
    /\ pc[r] \in {"idle", "turn", "draw", "wait"} => drawn[r] = 0
    /\ pc[r] = "append" => drawn[r] # 0
    /\ \A q \in Requests \ {r} : drawn[q] = drawn[r] => drawn[r] = 0

\* A consult event tells the truth about the request it is of: a leader that
\* holds a resolved result, or a follower that was answered one.
ConsultsTrue ==
  \A i \in DOMAIN spine : \A q \in Requests :
    IsConsult(i) /\ spine[i].by = q =>
      /\ call[q] # None
      /\ spine[i].id = drawn[q] /\ drawn[q] # 0
      /\ IF Flight!Leader(q)
           THEN pc[q] \in {"publish", "write", "done"} /\ pending[q] \in Resolved
           ELSE pc[q] = "done" /\ reply[q].code = "ok"

\* Whoever was answered a resolved result without leading has recorded it.
FollowersRecord ==
  \A r \in Requests :
    ~Flight!Leader(r) /\ reply[r] # None /\ reply[r].code = "ok" =>
      \E i \in DOMAIN spine :
        /\ IsConsult(i)
        /\ spine[i].by = r
        /\ spine[i].key = key[r]
        /\ spine[i].id = drawn[r]
        /\ spine[i].role = "follower"

\* CallInv, strengthened for DrawnIdsAreFresh and ResolvedLeavesConsult.
RecordInv ==
  /\ CallInv
  /\ DrawnOnce
  /\ ConsultsTrue
  /\ FollowersRecord

\* Every call is answered once its leader's turn ends, however it ends.
EveryCallAnswered ==
  \A r \in Requests : pc[r] # "idle" ~> pc[r] = "done"

=============================================================================

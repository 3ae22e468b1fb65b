-------------------------- MODULE AgentCallProofs --------------------------
(***************************************************************************)
(* AgentCall for every set of requests and fingerprints: the inductive     *)
(* invariant CallInv and the properties that follow from it.  What the     *)
(* coalescer itself keeps is taken from InflightProofs: every step of a    *)
(* handler is a step of the coalescer or leaves it alone.                  *)
(***************************************************************************)
EXTENDS AskedCall, FiniteSetTheorems, TLAPS

Base == INSTANCE InflightProofs WITH Values <- Outs

-----------------------------------------------------------------------------
(* The coalescer under the handlers *)

LEMMA Sentinels == Base!SentinelAssumption
  BY SentinelAssumption, ResultAssumption DEF Base!SentinelAssumption, Replies

\* Flight and Base are the same instance of Inflight.
LEMMA SameInvariant == Base!IInv <=> Flight!IInv
  BY DEF Base!IInv, Base!TypeOK, Base!Stages, Base!RegistryExact, Base!Leader,
         Base!TicketsShareKey, Base!StoredHasValue, Base!OnlyFollowersWait,
         Base!Follower, Base!WaiterGetsPublished, Base!DoneClosed,
         Flight!IInv, Flight!TypeOK, Flight!Stages, Flight!RegistryExact,
         Flight!Leader, Flight!TicketsShareKey, Flight!StoredHasValue,
         Flight!OnlyFollowersWait, Flight!Follower,
         Flight!WaiterGetsPublished, Flight!DoneClosed

LEMMA SameNext == [Flight!Next]_flightVars <=> [Base!Next]_(Base!vars)
  BY DEF Base!Next, Base!Enter, Base!EnterLeader, Base!EnterFollower, Base!Store,
         Base!CloseDone, Base!Delete, Base!WaitDone, Base!WaitExpired,
         Base!Leader, Base!Follower, Base!DoneClosed, Base!vars,
         Flight!Next, Flight!Enter, Flight!EnterLeader, Flight!EnterFollower,
         Flight!Store, Flight!CloseDone, Flight!Delete, Flight!WaitDone,
         Flight!WaitExpired, Flight!Leader, Flight!Follower,
         Flight!DoneClosed, flightVars

LEMMA FlightStepKeepsIInv == Flight!IInv /\ [Flight!Next]_flightVars => Flight!IInv'
<1> SUFFICES ASSUME Flight!IInv, [Flight!Next]_flightVars
             PROVE  Flight!IInv'
  OBVIOUS
<1>1. Base!IInv'
  BY Base!StepKeepsIInv, Sentinels, SameInvariant, SameNext
<1> QED
  BY <1>1, SameInvariant, PTL

-----------------------------------------------------------------------------
(* What every step may rely on *)

\* The position of a handler, the coalescer's types and the ticket's key.
LEMMA Known ==
  ASSUME CallInv, NEW r \in Requests
  PROVE  /\ pc[r] \in Steps
         /\ call[r] # None => call[r] \in Requests /\ key[r] \in Keys
                              /\ key[call[r]] = key[r]
         /\ call[r] # None => Flight!Leader(call[r])
         /\ drawn[r] \in Nat
         /\ None \notin Outs
  BY SentinelAssumption, ResultAssumption
     DEF CallInv, TypeOK, Flight!IInv, Flight!TypeOK, Flight!TicketsShareKey,
         Flight!RegistryExact, Flight!Leader, Replies

\* Every handler's step moves the coalescer by one of its own steps or not.
LEMMA StepIsFlightStep == CallInv /\ [Next]_vars => [Flight!Next]_flightVars
<1> SUFFICES ASSUME CallInv, [Next]_vars
             PROVE  [Flight!Next]_flightVars
  OBVIOUS
<1>1. CASE UNCHANGED vars
  BY <1>1 DEF vars, flightVars
<1>2. ASSUME NEW r \in Requests, Arrive(r)
      PROVE  [Flight!Next]_flightVars
  BY <1>2 DEF Arrive, Refuse, Lead, Follow, Flight!Next, Flight!Enter, flightVars
<1>3. ASSUME NEW r \in Requests, PublishStores(r)
      PROVE  [Flight!Next]_flightVars
  BY <1>3 DEF PublishStores, CallInv, Control, Flight!Next
<1>4. ASSUME NEW r \in Requests, PublishCloses(r) \/ PublishFrees(r)
      PROVE  [Flight!Next]_flightVars
  BY <1>4 DEF PublishCloses, PublishFrees, Flight!Next
<1>5. ASSUME NEW r \in Requests,
             TurnAnswers(r) \/ LeaderFails(r) \/ LeaderRecords(r)
               \/ LeaderRecordFails(r) \/ LeaderReplies(r) \/ DrawConsultId(r)
      PROVE  UNCHANGED flightVars
  BY <1>5 DEF TurnAnswers, LeaderFails, LeaderRecords, LeaderRecordFails,
              LeaderReplies, DrawConsultId
<1>6. ASSUME NEW r \in Requests, FollowerStep(r)
      PROVE  [Flight!Next]_flightVars
  BY <1>6 DEF FollowerStep, FollowerGetsResult, FollowerGivesUp, FollowerRecords,
              FollowerRecordFails, Flight!Next, flightVars
<1> QED
  BY <1>1, <1>2, <1>3, <1>4, <1>5, <1>6 DEF Next, LeaderStep

LEMMA StepKeepsFlight == CallInv /\ [Next]_vars => Flight!IInv'
  BY StepIsFlightStep, FlightStepKeepsIInv DEF CallInv

\* A request holds the ticket and the key it entered with for good.
LEMMA TicketsStay ==
  ASSUME CallInv, [Next]_vars, NEW r \in Requests, call[r] # None
  PROVE  call'[r] = call[r] /\ key'[r] = key[r]
<1>1. [Flight!Next]_flightVars
  BY StepIsFlightStep
<1> QED
  BY <1>1 DEF CallInv, Flight!IInv, Flight!TypeOK, Flight!Next, Flight!Enter,
              Flight!EnterLeader, Flight!EnterFollower, Flight!Store,
              Flight!CloseDone, Flight!Delete, Flight!WaitDone,
              Flight!WaitExpired, flightVars

\* The spine after an append.
LEMMA SpineAfterAppend ==
  ASSUME spine \in Seq(Events), NEW e \in Events, spine' = Append(spine, e)
  PROVE  /\ Len(spine) \in Nat /\ DOMAIN spine = 1..Len(spine)
         /\ DOMAIN spine' = 1..(Len(spine) + 1)
         /\ \A i \in DOMAIN spine : spine'[i] = spine[i]
         /\ spine'[Len(spine) + 1] = e
         /\ spine' \in Seq(Events)
  OBVIOUS

\* What a leader publishes and what a handler records are well formed.
LEMMA RecordsTyped ==
  ASSUME CallInv, NEW r \in Requests, call[r] # None
  PROVE  /\ [code |-> "ok", answer |-> r, consult |-> drawn[r]] \in Resolved
         /\ \A role \in {"leader", "follower"}, leader \in Nat :
              [kind |-> "consult.resolved", by |-> r, role |-> role, id |-> drawn[r],
               leader |-> leader, key |-> key[r]] \in Events
         /\ [kind |-> "turn.agent", by |-> r] \in Events
  BY Known DEF Resolved, Events, ConsultEvents, TurnEvents

LEMMA ErrorsTyped ==
  /\ \A code \in LeaderErrors : Error(code) \in Outs
  /\ \A code \in OwnErrors : Error(code) \in Replies
  BY DEF Error, Outs, Failed, Replies

LEMMA RepliesAreReplies ==
  /\ None \notin Replies
  /\ Outs \subseteq Replies
  /\ \A code \in OwnErrors : Error(code) # None
  BY ErrorsTyped, ResultAssumption DEF Replies

\* What WaitDone hands a follower is a result, its leader's.
LEMMA WaitHandsResult ==
  ASSUME CallInv, NEW r \in Requests, Flight!WaitDone(r)
  PROVE  waited'[r] \in Outs /\ waited'[r] = value[call[r]]
  BY Known DEF Flight!WaitDone, CallInv, Flight!IInv, Flight!TypeOK,
               Flight!StoredHasValue, Flight!Follower, Flight!DoneClosed

LEMMA StepKeepsTypes == CallInv /\ [Next]_vars => TypeOK'
<1> SUFFICES ASSUME CallInv, [Next]_vars
             PROVE  TypeOK'
  OBVIOUS
<1>1. Flight!TypeOK'
  BY StepKeepsFlight DEF Flight!IInv
<1> USE <1>1 DEF TypeOK
<1>2. CASE UNCHANGED vars
  BY <1>2 DEF vars, CallInv
<1>3. ASSUME NEW r \in Requests, Arrive(r)
      PROVE  TypeOK'
  BY <1>3, ErrorsTyped DEF CallInv, Arrive, Refuse, Lead, Follow, Goto, Answer,
                           Steps, OwnErrors
<1>4. ASSUME NEW r \in Requests, TurnAnswers(r)
      PROVE  TypeOK'
  <2>1. spine' \in Seq(Events)
    <3>1. [kind |-> "turn.agent", by |-> r] \in Events
      BY DEF Events, TurnEvents
    <3> QED
      BY <1>4, <3>1, SpineAfterAppend DEF TurnAnswers, CallInv
  <2> QED
    BY <1>4, <2>1 DEF CallInv, TurnAnswers, Goto, Steps
<1>5. ASSUME NEW r \in Requests,
             LeaderFails(r) \/ LeaderRecordFails(r) \/ DrawConsultId(r)
      PROVE  TypeOK'
  <2>1. CASE LeaderFails(r)
    BY <2>1, ErrorsTyped DEF CallInv, LeaderFails, Steps
  <2>2. CASE LeaderRecordFails(r)
    <3>1. Error("consult_event_failed") \in Outs
      BY ErrorsTyped DEF LeaderErrors
    <3> QED
      BY <2>2, <3>1 DEF CallInv, LeaderRecordFails, Goto, Steps
  <2>3. CASE DrawConsultId(r)
    BY <2>3 DEF CallInv, DrawConsultId, Goto, Steps
  <2> QED
    BY <1>5, <2>1, <2>2, <2>3
<1>6. ASSUME NEW r \in Requests, LeaderRecords(r)
      PROVE  TypeOK'
  <2>1. call[r] # None
    BY <1>6 DEF LeaderRecords, Goto, CallInv, Control
  <2>2. spine' \in Seq(Events)
    BY <1>6, <2>1, RecordsTyped, SpineAfterAppend
       DEF LeaderRecords, AppendConsult, CallInv, NoEvent
  <2> QED
    BY <1>6, <2>1, <2>2, RecordsTyped DEF CallInv, LeaderRecords, Goto, Steps, Outs
<1>7. ASSUME NEW r \in Requests,
             PublishStores(r) \/ PublishCloses(r) \/ PublishFrees(r) \/ LeaderReplies(r)
      PROVE  TypeOK'
  BY <1>7 DEF CallInv, Control, PublishStores, PublishCloses, PublishFrees,
              LeaderReplies, Goto, Answer, Steps, Replies
<1>8. ASSUME NEW r \in Requests, FollowerGetsResult(r)
      PROVE  TypeOK'
  BY <1>8, WaitHandsResult DEF CallInv, FollowerGetsResult, Goto, Answer, Steps,
                               Replies
<1>9. ASSUME NEW r \in Requests, FollowerGivesUp(r) \/ FollowerRecordFails(r)
      PROVE  TypeOK'
  BY <1>9, ErrorsTyped DEF CallInv, FollowerGivesUp, FollowerRecordFails, Goto,
                           Answer, Steps, OwnErrors
<1>10. ASSUME NEW r \in Requests, FollowerRecords(r)
       PROVE  TypeOK'
  <2>1. call[r] # None /\ waited[r] \in Resolved
    BY <1>10 DEF FollowerRecords, Goto, CallInv, Control, Flight!Follower
  <2>2. waited[r].consult \in Nat
    BY <2>1 DEF Resolved
  <2>3. spine' \in Seq(Events)
    BY <1>10, <2>1, <2>2, RecordsTyped, SpineAfterAppend
       DEF FollowerRecords, AppendConsult, CallInv
  <2> QED
    BY <1>10, <2>1, <2>3 DEF CallInv, FollowerRecords, Goto, Answer, Steps, Replies,
                             Outs
<1> QED
  BY <1>2, <1>3, <1>4, <1>5, <1>6, <1>7, <1>8, <1>9, <1>10
     DEF Next, LeaderStep, FollowerStep

\* Everything a handler's position says of its ticket.  A leader's call is
\* deleted by the very step that lets it write, and only its own steps touch
\* its call.
LEMMA StepKeepsControl == CallInv /\ [Next]_vars => Control'
<1> SUFFICES ASSUME CallInv, [Next]_vars
             PROVE  Control'
  OBVIOUS
<1> USE SentinelAssumption DEF Control, TypeOK, Flight!Leader, Flight!Follower
<1>t. TypeOK /\ Flight!TypeOK /\ Control /\ Flight!RegistryExact
  BY DEF CallInv, Flight!IInv
<1> USE <1>t DEF Flight!TypeOK
<1>1. CASE UNCHANGED vars
  BY <1>1 DEF vars, flightVars
<1>2. ASSUME NEW r \in Requests, Refuse(r)
      PROVE  Control'
  BY <1>2, RepliesAreReplies DEF Refuse, Goto, Answer, OwnErrors, flightVars
<1>3. ASSUME NEW r \in Requests, NEW k \in Keys, Lead(r, k)
      PROVE  Control'
  BY <1>3 DEF Lead, Goto, Flight!EnterLeader, Flight!RegistryExact
<1>4. ASSUME NEW r \in Requests, NEW k \in Keys, Follow(r, k)
      PROVE  Control'
  <2>1. calls[k] # r
    BY <1>4 DEF Follow, Goto, Flight!EnterFollower, Flight!RegistryExact
  <2> QED
    BY <1>4, <2>1 DEF Follow, Goto, Flight!EnterFollower, Flight!RegistryExact,
                      Flight!IInv, Flight!OnlyFollowersWait, CallInv
<1>5. ASSUME NEW r \in Requests, TurnAnswers(r) \/ DrawConsultId(r)
      PROVE  Control'
  BY <1>5 DEF TurnAnswers, DrawConsultId, Goto, flightVars
<1>6. ASSUME NEW r \in Requests, LeaderFails(r)
      PROVE  Control'
  BY <1>6, ErrorsTyped DEF LeaderFails, flightVars
<1>7. ASSUME NEW r \in Requests, LeaderRecords(r)
      PROVE  Control'
  BY <1>7, RecordsTyped DEF LeaderRecords, Goto, flightVars, Outs
<1>8. ASSUME NEW r \in Requests, LeaderRecordFails(r)
      PROVE  Control'
  BY <1>8, ErrorsTyped DEF LeaderRecordFails, Goto, flightVars, LeaderErrors
<1>9. ASSUME NEW r \in Requests, PublishStores(r)
      PROVE  Control'
  BY <1>9 DEF PublishStores, Flight!Store
<1>10. ASSUME NEW r \in Requests, PublishCloses(r)
       PROVE  Control'
  BY <1>10 DEF PublishCloses, Flight!CloseDone
<1>11. ASSUME NEW r \in Requests, PublishFrees(r)
       PROVE  Control'
  BY <1>11 DEF PublishFrees, Flight!Delete, Goto
<1>12. ASSUME NEW r \in Requests, LeaderReplies(r)
       PROVE  Control'
  BY <1>12, RepliesAreReplies DEF LeaderReplies, Goto, Answer, flightVars
<1>13. ASSUME NEW r \in Requests, FollowerGetsResult(r)
       PROVE  Control'
  <2>1. waited'[r] \in Outs
    BY <1>13, WaitHandsResult DEF FollowerGetsResult
  <2>2. waited'[r].code = "ok" => waited'[r] \in Resolved
    BY <2>1 DEF Outs, Failed, LeaderErrors
  <2>3. waited'[r] # None /\ r \in Requests
    BY <2>1, RepliesAreReplies
  <2>4. CASE waited'[r].code = "ok"
    BY <1>13, <2>2, <2>3, <2>4
       DEF FollowerGetsResult, Flight!WaitDone, Flight!RegistryExact, Goto
  <2>5. CASE waited'[r].code # "ok"
    BY <1>13, <2>3, <2>5 DEF FollowerGetsResult, Flight!WaitDone, Goto, Answer
  <2> QED
    BY <2>4, <2>5
<1>14. ASSUME NEW r \in Requests, FollowerGivesUp(r)
       PROVE  Control'
  BY <1>14, RepliesAreReplies
     DEF FollowerGivesUp, Flight!WaitExpired, Goto, Answer, OwnErrors
<1>15. ASSUME NEW r \in Requests, FollowerRecords(r)
       PROVE  Control'
  <2>1. waited[r] # None
    BY <1>15, RepliesAreReplies DEF FollowerRecords, Goto, Outs
  <2> QED
    BY <1>15, <2>1 DEF FollowerRecords, Goto, Answer, flightVars
<1>16. ASSUME NEW r \in Requests, FollowerRecordFails(r)
       PROVE  Control'
  BY <1>16, RepliesAreReplies
     DEF FollowerRecordFails, Goto, Answer, flightVars, OwnErrors
<1> QED
  BY <1>1, <1>2, <1>3, <1>4, <1>5, <1>6, <1>7, <1>8, <1>9, <1>10, <1>11, <1>12,
     <1>13, <1>14, <1>15, <1>16
  DEF Next, Arrive, LeaderStep, FollowerStep

\* The spine is only ever appended to.
LEMMA SpineGrows ==
  ASSUME CallInv, [Next]_vars
  PROVE  /\ DOMAIN spine \subseteq DOMAIN spine'
         /\ \A i \in DOMAIN spine : spine'[i] = spine[i]
         /\ DOMAIN spine = 1..Len(spine) /\ DOMAIN spine' = 1..Len(spine')
         /\ Len(spine) \in Nat /\ Len(spine') \in Nat
<1>1. spine \in Seq(Events) /\ spine' \in Seq(Events)
  BY StepKeepsTypes DEF CallInv, TypeOK
<1>2. CASE UNCHANGED spine
  BY <1>1, <1>2
<1>3. ASSUME NEW r \in Requests, TurnAnswers(r)
      PROVE  \E e : spine' = Append(spine, e)
  BY <1>3 DEF TurnAnswers
<1>4. ASSUME NEW r \in Requests, LeaderRecords(r) \/ FollowerRecords(r)
      PROVE  \E e : spine' = Append(spine, e)
  BY <1>4 DEF LeaderRecords, FollowerRecords, AppendConsult
<1>5. UNCHANGED spine \/ \E e : spine' = Append(spine, e)
  BY <1>3, <1>4
  DEF Next, Arrive, Refuse, Lead, Follow, LeaderStep, LeaderFails,
      LeaderRecordFails, PublishStores, PublishCloses, PublishFrees,
      LeaderReplies, FollowerStep, FollowerGetsResult, FollowerGivesUp,
      FollowerRecordFails, DrawConsultId, vars
<1>6. ASSUME NEW e, spine' = Append(spine, e)
      PROVE  /\ DOMAIN spine \subseteq DOMAIN spine'
             /\ \A i \in DOMAIN spine : spine'[i] = spine[i]
  BY <1>1, <1>6
<1> QED
  BY <1>1, <1>2, <1>5, <1>6

\* So what is recorded stays recorded.
LEMMA RecordsStay ==
  ASSUME CallInv, [Next]_vars, NEW r \in Requests
  PROVE  /\ TurnRecorded(r) => TurnRecorded(r)'
         /\ \A out : LeaderRecorded(r, out) /\ call[r] # None => LeaderRecorded(r, out)'
<1>1. TurnRecorded(r) => TurnRecorded(r)'
  BY SpineGrows DEF TurnRecorded
<1>2. ASSUME NEW out, LeaderRecorded(r, out), call[r] # None
      PROVE  LeaderRecorded(r, out)'
  <2>1. PICK i \in DOMAIN spine :
          spine[i] = [kind |-> "consult.resolved", by |-> r, role |-> "leader",
                      id |-> out.consult, leader |-> NoEvent, key |-> key[r]]
    BY <1>2 DEF LeaderRecorded
  <2>2. i \in DOMAIN spine' /\ spine'[i] = spine[i] /\ key'[r] = key[r]
    BY <1>2, SpineGrows, TicketsStay
  <2> QED
    BY <2>1, <2>2 DEF LeaderRecorded
<1> QED
  BY <1>1, <1>2

\* What a leader holds it has recorded: its turn before it draws a consult id,
\* its consult event before it holds a resolved result.
LEMMA StepKeepsProvenance == CallInv /\ [Next]_vars => Provenance'
<1> DEFINE Draws(q) == Flight!Leader(q) /\ pc[q] \in {"draw", "append"}
           Holds(q) == /\ Flight!Leader(q)
                       /\ pending[q].answer = q
                       /\ TurnRecorded(q)
                       /\ LeaderRecorded(q, pending[q])
<1> SUFFICES ASSUME CallInv, [Next]_vars, NEW q \in Requests
             PROVE  /\ Draws(q)' => TurnRecorded(q)'
                    /\ pending'[q] \in Resolved => Holds(q)'
  BY DEF Provenance
<1>t. /\ pc \in [Requests -> Steps] /\ pending \in [Requests -> Outs \cup {None}]
      /\ spine \in Seq(Events)
  BY DEF CallInv, TypeOK
<1>1. Draws(q) => TurnRecorded(q)'
  BY RecordsStay DEF CallInv, Provenance
<1>2. pending[q] \in Resolved /\ pending'[q] = pending[q] => Holds(q)'
  <2>1. pending[q] \in Resolved => Holds(q)
    BY DEF CallInv, Provenance
  <2>2. Flight!Leader(q) => call[q] # None /\ Flight!Leader(q)'
    BY TicketsStay, SentinelAssumption DEF Flight!Leader
  <2> QED
    BY <2>1, <2>2, RecordsStay DEF LeaderRecorded
<1> HIDE DEF Holds
<1>3. ASSUME NEW r \in Requests, TurnAnswers(r)
      PROVE  /\ Draws(q)' => TurnRecorded(q)'
             /\ pending'[q] \in Resolved => Holds(q)'
  <2>1. TurnRecorded(r)'
    <3>1. [kind |-> "turn.agent", by |-> r] \in Events
      BY DEF Events, TurnEvents
    <3> QED
      BY <1>3, <1>t, <3>1, SpineAfterAppend DEF TurnAnswers, TurnRecorded
  <2>2. q # r /\ Draws(q)' => Draws(q)
    BY <1>3, <1>t DEF TurnAnswers, Goto, flightVars, Flight!Leader
  <2> QED
    BY <1>1, <1>2, <1>3, <2>1, <2>2 DEF TurnAnswers
<1>4. ASSUME NEW r \in Requests, LeaderFails(r) \/ LeaderRecordFails(r)
      PROVE  /\ Draws(q)' => TurnRecorded(q)'
             /\ pending'[q] \in Resolved => Holds(q)'
  <2>1. Draws(q)' => Draws(q)
    BY <1>4, <1>t DEF LeaderFails, LeaderRecordFails, Goto, flightVars, Flight!Leader
  <2>2. pending'[q] = pending[q] \/ pending'[q] \notin Resolved
    BY <1>4, <1>t DEF LeaderFails, LeaderRecordFails, Error, Resolved, LeaderErrors
  <2> QED
    BY <1>1, <1>2, <2>1, <2>2
<1>5. ASSUME NEW r \in Requests, LeaderRecords(r)
      PROVE  /\ Draws(q)' => TurnRecorded(q)'
             /\ pending'[q] \in Resolved => Holds(q)'
  <2>1. Draws(q)' => Draws(q)
    BY <1>5, <1>t DEF LeaderRecords, Goto, flightVars, Flight!Leader
  <2>2. pending'[r] = [code |-> "ok", answer |-> r, consult |-> drawn[r]]
    BY <1>5, <1>t DEF LeaderRecords
  <2>3. Draws(r) /\ call[r] # None
    BY <1>5, SentinelAssumption DEF LeaderRecords, Goto, Flight!Leader
  <2>4. TurnRecorded(r)'
    BY <2>3, RecordsStay DEF CallInv, Provenance
  <2>5. LeaderRecorded(r, pending[r])'
    BY <1>5, <1>t, <2>2, <2>3, RecordsTyped, SpineAfterAppend
       DEF LeaderRecords, AppendConsult, LeaderRecorded, NoEvent, flightVars
  <2>6. Holds(r)'
    BY <2>2, <2>3, <2>4, <2>5, TicketsStay DEF Holds, Flight!Leader
  <2>7. q # r => pending'[q] = pending[q]
    BY <1>5, <1>t DEF LeaderRecords
  <2> QED
    BY <1>1, <1>2, <2>1, <2>6, <2>7
<1>6. ASSUME NEW r \in Requests,
             \/ Arrive(r) \/ DrawConsultId(r) \/ FollowerStep(r)
             \/ PublishStores(r) \/ PublishCloses(r) \/ PublishFrees(r)
             \/ LeaderReplies(r)
      PROVE  (Draws(q)' => Draws(q)) /\ pending' = pending
  BY <1>6, <1>t
  DEF Arrive, Refuse, Lead, Follow, DrawConsultId, PublishStores, PublishCloses,
      PublishFrees, LeaderReplies, FollowerStep, FollowerGetsResult,
      FollowerGivesUp, FollowerRecords, FollowerRecordFails, Goto, flightVars,
      Flight!EnterLeader, Flight!EnterFollower, Flight!Store, Flight!CloseDone,
      Flight!Delete, Flight!WaitDone, Flight!WaitExpired, Flight!Leader,
      Flight!Follower, CallInv, Flight!IInv, Flight!TypeOK, Flight!RegistryExact
<1>7. UNCHANGED vars => (Draws(q)' => Draws(q)) /\ pending' = pending
  BY DEF vars, flightVars, Flight!Leader
<1> QED
  BY <1>1, <1>2, <1>3, <1>4, <1>5, <1>6, <1>7 DEF Next, LeaderStep

\* The consult event a follower's links to was there before: the leader
\* appended it before it published the result the follower was handed.
LEMMA StepKeepsLinks == CallInv /\ [Next]_vars => FollowerEventsLinkBack'
<1> DEFINE Linked(i) == \E j \in 1..(i - 1) :
                          /\ IsConsult(j)
                          /\ spine[j].role = "leader"
                          /\ spine[j].by = call[spine[i].by]
                          /\ spine[j].id = spine[i].leader
                          /\ spine[j].key = spine[i].key
           FollowerEvent(i) == IsConsult(i) /\ spine[i].role = "follower"
<1> SUFFICES ASSUME CallInv, [Next]_vars, NEW i \in DOMAIN spine', FollowerEvent(i)'
             PROVE  Linked(i)'
  BY DEF FollowerEventsLinkBack
<1>t. spine \in Seq(Events) /\ spine' \in Seq(Events)
  BY StepKeepsTypes DEF CallInv, TypeOK
<1>1. CASE i \in DOMAIN spine
  <2>1. spine'[i] = spine[i] /\ i \in 1..Len(spine) /\ FollowerEvent(i)
    BY <1>1, SpineGrows DEF IsConsult
  <2>2. PICK j \in 1..(i - 1) :
          /\ IsConsult(j)
          /\ spine[j].role = "leader"
          /\ spine[j].by = call[spine[i].by]
          /\ spine[j].id = spine[i].leader
          /\ spine[j].key = spine[i].key
    BY <1>1, <2>1 DEF CallInv, FollowerEventsLinkBack
  <2>3. j \in DOMAIN spine /\ spine'[j] = spine[j]
    BY <2>1, <2>2, SpineGrows
  <2>4. spine[i].by \in Requests /\ spine[j].by \in Requests
    BY <1>t, <2>1, <2>2, <2>3 DEF IsConsult, Events, ConsultEvents, TurnEvents
  <2>5. call'[spine[i].by] = call[spine[i].by]
    BY <2>2, <2>4, TicketsStay, SentinelAssumption
  <2> QED
    BY <2>1, <2>2, <2>3, <2>5 DEF IsConsult
<1>2. CASE i \notin DOMAIN spine
  <2>1. PICK r \in Requests : FollowerRecords(r)
    <3>1. spine' # spine
      BY <1>2
    <3>2. ASSUME NEW r \in Requests, TurnAnswers(r) \/ LeaderRecords(r)
          PROVE  FALSE
      <4>1. i = Len(spine) + 1
        BY <1>2, <1>t, <3>2 DEF TurnAnswers, LeaderRecords, AppendConsult
      <4>2. spine'[i].kind = "turn.agent" \/ spine'[i].role = "leader"
        BY <1>t, <3>2, <4>1 DEF TurnAnswers, LeaderRecords, AppendConsult
      <4> QED
        BY <4>2 DEF IsConsult
    <3> QED
      BY <3>1, <3>2
      DEF Next, Arrive, Refuse, Lead, Follow, LeaderStep, LeaderFails,
          LeaderRecordFails, PublishStores, PublishCloses, PublishFrees,
          LeaderReplies, FollowerStep, FollowerGetsResult, FollowerGivesUp,
          FollowerRecordFails, DrawConsultId, vars
  <2> DEFINE l == call[r]
  <2>2. /\ l \in Requests /\ l # r /\ waited[r] \in Resolved
        /\ Flight!Leader(l) /\ key[l] = key[r]
    BY <2>1, Known DEF FollowerRecords, Goto, CallInv, Control, Flight!Follower
  <2>3. waited[r] = pending[l]
    <3>1. waited[r] \notin {None, Expired}
      BY <2>2, ResultAssumption DEF Replies, Outs
    <3>2. stage[l] # "fresh" /\ waited[r] = value[l]
      BY <3>1 DEF CallInv, Flight!IInv, Flight!WaiterGetsPublished, Flight!DoneClosed
    <3> QED
      BY <2>2, <3>2 DEF CallInv, Control
  <2>4. PICK j \in DOMAIN spine :
          spine[j] = [kind |-> "consult.resolved", by |-> l, role |-> "leader",
                      id |-> waited[r].consult, leader |-> NoEvent, key |-> key[l]]
    BY <2>2, <2>3 DEF CallInv, Provenance, LeaderRecorded
  <2>5. /\ i = Len(spine) + 1
        /\ spine'[i] = [kind |-> "consult.resolved", by |-> r, role |-> "follower",
                        id |-> drawn[r], leader |-> waited[r].consult,
                        key |-> key[r]]
        /\ call' = call
    BY <1>2, <1>t, <2>1 DEF FollowerRecords, AppendConsult, flightVars
  <2>6. j \in 1..(i - 1) /\ spine'[j] = spine[j]
    BY <2>4, <2>5, SpineGrows
  <2> QED
    BY <2>2, <2>4, <2>5, <2>6 DEF IsConsult
<1> QED
  BY <1>1, <1>2

\* A published result stays as it is.
LEMMA PublishedStays ==
  ASSUME CallInv, [Next]_vars, NEW l \in Requests, stage[l] \in {"closed", "deleted"}
  PROVE  value'[l] = value[l] /\ stage'[l] \in {"closed", "deleted"}
<1>t. stage \in [Requests -> Flight!Stages] /\ value \in [Requests -> Outs \cup {None}]
  BY DEF CallInv, Flight!IInv, Flight!TypeOK
<1>1. CASE UNCHANGED flightVars
  BY <1>1 DEF flightVars
<1>2. ASSUME NEW r \in Requests,
             \/ \E k \in Keys : Flight!Enter(r, k)
             \/ Flight!WaitDone(r) \/ Flight!WaitExpired(r)
      PROVE  UNCHANGED <<stage, value>>
  BY <1>2 DEF Flight!Enter, Flight!EnterLeader, Flight!EnterFollower,
              Flight!WaitDone, Flight!WaitExpired
<1>3. ASSUME NEW r \in Requests, NEW v \in Outs, Flight!Store(r, v)
      PROVE  value'[l] = value[l] /\ stage'[l] = stage[l]
  BY <1>3, <1>t DEF Flight!Store
<1>4. ASSUME NEW r \in Requests, Flight!CloseDone(r) \/ Flight!Delete(r)
      PROVE  value'[l] = value[l] /\ stage'[l] \in {"closed", "deleted"}
  BY <1>4, <1>t DEF Flight!CloseDone, Flight!Delete
<1> QED
  BY <1>1, <1>2, <1>3, <1>4, StepIsFlightStep DEF Flight!Next

\* The steps that answer a client.
LEMMA Answerers ==
  ASSUME CallInv, [Next]_vars, NEW q \in Requests, reply[q] = None, reply'[q] # None
  PROVE  \/ LeaderReplies(q) \/ FollowerGetsResult(q) \/ FollowerRecords(q)
         \/ FollowerGivesUp(q) \/ FollowerRecordFails(q) \/ Refuse(q)
<1>t. reply \in [Requests -> Replies \cup {None}]
  BY DEF CallInv, TypeOK
<1>1. PICK r \in Requests :
        Arrive(r) \/ LeaderStep(r) \/ FollowerStep(r) \/ DrawConsultId(r)
  BY DEF Next, vars
<1>2. CASE reply' = reply
  BY <1>2
<1>3. CASE LeaderReplies(r) \/ FollowerRecords(r) \/ FollowerGivesUp(r)
             \/ FollowerRecordFails(r) \/ Refuse(r) \/ FollowerGetsResult(r)
  <2>1. r = q
    BY <1>3, <1>t
    DEF LeaderReplies, FollowerRecords, FollowerGivesUp, FollowerRecordFails,
        Refuse, FollowerGetsResult, Answer
  <2> QED
    BY <1>3, <2>1
<1> QED
  BY <1>1, <1>2, <1>3
  DEF Arrive, Lead, Follow, LeaderStep, TurnAnswers, LeaderFails, LeaderRecords,
      LeaderRecordFails, PublishStores, PublishCloses, PublishFrees,
      FollowerStep, DrawConsultId

\* A handler that has written its response does nothing more.
LEMMA DoneStays ==
  ASSUME CallInv, [Next]_vars, NEW q \in Requests, pc[q] = "done"
  PROVE  /\ pc'[q] = "done" /\ reply'[q] = reply[q] /\ drawn'[q] = drawn[q]
         /\ pending'[q] = pending[q] /\ call'[q] = call[q] /\ key'[q] = key[q]
<1>t. /\ pc \in [Requests -> Steps] /\ reply \in [Requests -> Replies \cup {None}]
      /\ drawn \in [Requests -> Nat] /\ pending \in [Requests -> Outs \cup {None}]
      /\ call \in [Requests -> Requests \cup {None}]
      /\ key \in [Requests -> Keys \cup {None}]
  BY DEF CallInv, TypeOK, Flight!TypeOK
<1> DEFINE Stays == /\ pc'[q] = "done" /\ reply'[q] = reply[q] /\ drawn'[q] = drawn[q]
                    /\ pending'[q] = pending[q] /\ call'[q] = call[q] /\ key'[q] = key[q]
\* Every action needs its handler in another position.
<1>1. ASSUME NEW r \in Requests, Arrive(r) PROVE Stays
  <2>1. pc[r] = "idle"
    BY <1>1 DEF Arrive, Refuse, Lead, Follow, Goto
  <2>2. CASE Refuse(r)
    BY <1>t, <2>1, <2>2 DEF Refuse, Goto, Answer, flightVars
  <2>3. ASSUME NEW k \in Keys, Lead(r, k) PROVE Stays
    BY <1>t, <2>1, <2>3 DEF Lead, Goto, Flight!EnterLeader
  <2>4. ASSUME NEW k \in Keys, Follow(r, k) PROVE Stays
    BY <1>t, <2>1, <2>4 DEF Follow, Goto, Flight!EnterFollower
  <2> QED
    BY <1>1, <2>2, <2>3, <2>4 DEF Arrive
<1>2. ASSUME NEW r \in Requests, LeaderStep(r) PROVE Stays
  <2>1. CASE TurnAnswers(r) \/ LeaderReplies(r)
    BY <1>t, <2>1 DEF TurnAnswers, LeaderReplies, Goto, Answer, flightVars
  <2>2. CASE LeaderFails(r)
    BY <1>t, <2>2 DEF LeaderFails, flightVars
  <2>3. CASE LeaderRecords(r) \/ LeaderRecordFails(r)
    BY <1>t, <2>3 DEF LeaderRecords, LeaderRecordFails, Goto, flightVars
  <2>4. CASE PublishStores(r) \/ PublishCloses(r) \/ PublishFrees(r)
    BY <1>t, <2>4
    DEF PublishStores, PublishCloses, PublishFrees, Goto, Flight!Store, Flight!CloseDone,
        Flight!Delete
  <2> QED
    BY <1>2, <2>1, <2>2, <2>3, <2>4 DEF LeaderStep
<1>3. ASSUME NEW r \in Requests, FollowerStep(r) PROVE Stays
  <2>1. CASE FollowerGetsResult(r)
    BY <1>t, <2>1 DEF FollowerGetsResult, Goto, Answer, Flight!WaitDone
  <2>2. CASE FollowerGivesUp(r)
    BY <1>t, <2>2 DEF FollowerGivesUp, Goto, Answer, Flight!WaitExpired
  <2>3. CASE FollowerRecords(r) \/ FollowerRecordFails(r)
    BY <1>t, <2>3 DEF FollowerRecords, FollowerRecordFails, Goto, Answer, flightVars
  <2> QED
    BY <1>3, <2>1, <2>2, <2>3 DEF FollowerStep
<1>4. ASSUME NEW r \in Requests, DrawConsultId(r) PROVE Stays
  BY <1>t, <1>4 DEF DrawConsultId, Goto, flightVars
<1>5. ASSUME UNCHANGED vars PROVE Stays
  BY <1>5 DEF vars, flightVars
<1>6. Stays
  <2> HIDE DEF Stays
  <2> QED
    BY <1>1, <1>2, <1>3, <1>4, <1>5 DEF Next
<1> QED
  BY <1>6

\* A reply is the published result or the handler's own error, and stays so:
\* a published value is stored once.
LEMMA StepKeepsPayload == CallInv /\ [Next]_vars => OnePayloadPerCall'
<1> DEFINE Served(q) == /\ Flight!DoneClosed(call[q])
                        /\ reply[q] = value[call[q]]
                        /\ reply[q].code = "ok" =>
                             /\ reply[q].answer = call[q]
                             /\ TurnRecorded(call[q])
           Own(q) == Flight!Follower(q) /\ reply[q].code \in OwnErrors
<1> SUFFICES ASSUME CallInv, [Next]_vars, NEW q \in Requests,
                    call'[q] # None, reply'[q] # None
             PROVE  Own(q)' \/ Served(q)'
  BY DEF OnePayloadPerCall
<1>t. /\ pc \in [Requests -> Steps] /\ reply \in [Requests -> Replies \cup {None}]
      /\ call \in [Requests -> Requests \cup {None}]
  BY DEF CallInv, TypeOK, Flight!TypeOK
<1>p. Control' /\ Flight!IInv' /\ Provenance'
  BY StepKeepsControl, StepKeepsFlight, StepKeepsProvenance
\* Whoever was answered before keeps the reply, and the value stays.
<1>1. CASE reply[q] # None /\ call[q] # None
  <2>1. reply'[q] = reply[q] /\ call'[q] = call[q]
    <3>1. pc[q] = "done"
      BY <1>1 DEF CallInv, Control
    <3> QED
      BY <3>1, DoneStays
  <2>2. CASE Own(q)
    BY <2>1, <2>2, <1>1 DEF Flight!Follower
  <2>3. CASE Served(q)
    <3>1. PICK l \in Requests : l = call[q] /\ stage[l] \in {"closed", "deleted"}
      BY <2>3, <1>1, Known DEF Flight!DoneClosed
    <3>2. value'[l] = value[l] /\ stage'[l] \in {"closed", "deleted"}
      BY <3>1, PublishedStays
    <3>3. TurnRecorded(l) => TurnRecorded(l)'
      BY RecordsStay
    <3>4. Flight!DoneClosed(call[q])' /\ reply'[q] = value'[call'[q]]
      BY <2>1, <2>3, <3>1, <3>2 DEF Flight!DoneClosed
    <3>5. reply'[q].code = "ok" => reply'[q].answer = call'[q] /\ TurnRecorded(call[q])'
      BY <2>1, <2>3, <3>1, <3>3 DEF TurnRecorded
    <3> QED
      BY <3>4, <3>5
  <2> QED
    BY <1>1, <2>2, <2>3 DEF CallInv, OnePayloadPerCall
\* Nobody gets a ticket after the reply.
<1>2. ASSUME reply[q] # None, call[q] = None
      PROVE  FALSE
  <2>1. pc[q] = "done"
    BY <1>2 DEF CallInv, Control
  <2>2. call'[q] = call[q]
    BY <2>1, DoneStays
  <2> QED
    BY <1>2, <2>2
\* A request that is answered by this very step.
<1>3. CASE reply[q] = None
  <2>1. CASE LeaderReplies(q)
    <3>1. Flight!Leader(q) /\ pending[q] \in Outs /\ stage[q] = "deleted"
      BY <2>1 DEF LeaderReplies, Goto, CallInv, Control
    <3>2. call[q] = q /\ value[q] = pending[q] /\ reply'[q] = pending[q]
      BY <1>t, <2>1, <3>1 DEF LeaderReplies, Answer, CallInv, Control, Flight!Leader
    <3>3. pending[q].code = "ok" => pending[q] \in Resolved
      BY <3>1 DEF Outs, Failed, LeaderErrors
    <3>4. /\ call'[q] = q /\ value'[q] = value[q] /\ stage'[q] = "deleted"
          /\ TurnRecorded(q) => TurnRecorded(q)'
      BY <2>1, <3>1, <3>2, RecordsStay DEF LeaderReplies, flightVars
    <3>5. Flight!DoneClosed(call[q])' /\ reply'[q] = value'[call'[q]]
      BY <3>2, <3>4 DEF Flight!DoneClosed
    <3>6. reply'[q].code = "ok" => reply'[q].answer = call'[q] /\ TurnRecorded(call[q])'
      BY <3>2, <3>3, <3>4 DEF CallInv, Provenance, TurnRecorded
    <3> QED
      BY <3>5, <3>6
  <2>2. CASE FollowerGetsResult(q) \/ FollowerRecords(q)
    <3>1. reply'[q] = waited'[q]
      BY <1>3, <1>t, <2>2
      DEF FollowerGetsResult, FollowerRecords, Answer, Goto, flightVars
    <3>2. waited'[q] \in Outs
      BY <2>2, WaitHandsResult
      DEF FollowerGetsResult, FollowerRecords, Goto, flightVars, CallInv, Control, Outs
    <3>3. Flight!DoneClosed(call[q])' /\ waited'[q] = value'[call'[q]]
      BY <1>p, <3>2, ResultAssumption
      DEF Flight!IInv, Flight!WaiterGetsPublished, Replies
    <3>4. waited'[q].code = "ok" => waited'[q] \in Resolved
      BY <3>2 DEF Outs, Failed, LeaderErrors
    <3>5. call'[q] \in Requests
      BY <1>p DEF Flight!IInv, Flight!TypeOK
    <3>6. value'[call'[q]] = pending'[call'[q]]
      BY <1>p, <3>3, <3>5 DEF Control, Flight!DoneClosed
    <3>7. waited'[q].code = "ok" =>
            waited'[q].answer = call'[q] /\ TurnRecorded(call[q])'
      BY <1>p, <3>3, <3>4, <3>5, <3>6 DEF Provenance, TurnRecorded
    <3> QED
      BY <3>1, <3>3, <3>7
  <2>3. CASE FollowerGivesUp(q) \/ FollowerRecordFails(q)
    BY <1>t, <2>3
    DEF FollowerGivesUp, FollowerRecordFails, Answer, Error, OwnErrors, flightVars,
        Flight!WaitExpired, Flight!Follower
  <2>4. CASE Refuse(q)
    BY <2>4 DEF Refuse, Goto, CallInv, Control, flightVars
  <2>5. \/ LeaderReplies(q) \/ FollowerGetsResult(q) \/ FollowerRecords(q)
        \/ FollowerGivesUp(q) \/ FollowerRecordFails(q) \/ Refuse(q)
    BY <1>3, Answerers
  <2> QED
    BY <2>1, <2>2, <2>3, <2>4, <2>5
<1> QED
  BY <1>1, <1>2, <1>3

-----------------------------------------------------------------------------
(* The theorems *)

LEMMA InitCallInv == Init => CallInv
<1> SUFFICES ASSUME Init
             PROVE  CallInv
  OBVIOUS
<1> USE DEF Init
<1>1. Flight!IInv
  <2>1. Base!Init
    BY DEF Flight!Init, Base!Init
  <2> QED
    BY <2>1, Sentinels, SameInvariant, Base!InitIInv
<1>2. TypeOK
  BY <1>1 DEF TypeOK, Flight!IInv, Steps
<1>3. Control
  BY SentinelAssumption DEF Control, Flight!Init, Flight!Leader, Flight!Follower
<1>4. Provenance
  BY ResultAssumption, SentinelAssumption
  DEF Provenance, Flight!Init, Flight!Leader, Resolved, Outs, Replies
<1>5. FollowerEventsLinkBack /\ OnePayloadPerCall
  BY DEF FollowerEventsLinkBack, OnePayloadPerCall
<1> QED
  BY <1>1, <1>2, <1>3, <1>4, <1>5 DEF CallInv

LEMMA StepKeepsCallInv == CallInv /\ [Next]_vars => CallInv'
  BY StepKeepsTypes, StepKeepsFlight, StepKeepsControl, StepKeepsProvenance,
     StepKeepsLinks, StepKeepsPayload DEF CallInv

\* Every reachable state of the handlers satisfies CallInv.
THEOREM CallInvariant == Spec => []CallInv
  BY InitCallInv, StepKeepsCallInv, PTL DEF Spec

\* Leader and followers of one call write one payload, and a resolved one
\* stands for a turn on the spine.
THEOREM PayloadShared == Spec => []OnePayloadPerCall
<1>1. CallInv => OnePayloadPerCall
  BY DEF CallInv
<1> QED
  BY <1>1, CallInvariant, PTL

\* A follower's consult event comes after the leader's event it names.
THEOREM LinksPointBack == Spec => []FollowerEventsLinkBack
<1>1. CallInv => FollowerEventsLinkBack
  BY DEF CallInv
<1> QED
  BY <1>1, CallInvariant, PTL

\* Two turns of one fingerprint never overlap: the leader of a running turn
\* is the one the registry names under its key.
THEOREM TurnsExclusive == Spec => []NoOverlappingTurns
<1>1. CallInv => NoOverlappingTurns
  <2> SUFFICES ASSUME CallInv, NEW q \in Requests, NEW r \in Requests,
                      pc[q] = "turn", pc[r] = "turn", key[q] = key[r]
               PROVE  q = r
    BY DEF NoOverlappingTurns
  <2>1. \A p \in {q, r} : Flight!Leader(p) /\ stage[p] = "fresh"
    BY DEF CallInv, Control
  <2>2. \A p \in {q, r} : calls[key[p]] = p
    BY <2>1 DEF CallInv, Flight!IInv, Flight!RegistryExact
  <2> QED
    BY <2>2
<1> QED
  BY <1>1, CallInvariant, PTL

\* A request joins only calls whose leader has yet to answer: the registry
\* names none that is over.
THEOREM JoinsOnlyPending == Spec => NeverJoinsAnswered
<1>1. CallInv /\ [Next]_vars =>
        [\A r \in Requests :
           call[r] = None /\ call'[r] \notin {None, r} => reply[call'[r]] = None]_vars
  <2> SUFFICES ASSUME CallInv, [Next]_vars, NEW r \in Requests,
                      call[r] = None, call'[r] \notin {None, r}
               PROVE  reply[call'[r]] = None
    OBVIOUS
  <2>1. PICK k \in Keys : Flight!EnterFollower(r, k)
    BY StepIsFlightStep, SentinelAssumption
    DEF CallInv, Flight!IInv, Flight!TypeOK, Flight!Next, Flight!Enter,
        Flight!EnterLeader, Flight!EnterFollower, Flight!Store, Flight!CloseDone,
        Flight!Delete, Flight!WaitDone, Flight!WaitExpired, flightVars
  <2>2. call'[r] = calls[k] /\ calls[k] \in Requests
    BY <2>1 DEF Flight!EnterFollower, CallInv, Flight!IInv, Flight!TypeOK
  <2>3. Flight!Leader(calls[k]) /\ stage[calls[k]] # "deleted"
    BY <2>1 DEF Flight!EnterFollower, CallInv, Flight!IInv, Flight!RegistryExact
  <2> QED
    BY <2>2, <2>3 DEF CallInv, Control
<1> QED
  BY <1>1, CallInvariant, PTL DEF Spec, NeverJoinsAnswered

\* The coalescer the handlers share is used as its own specification allows.
THEOREM HandlersUseCoalescer == Spec => Flight!Safe
<1>1. Init => Flight!Init
  BY DEF Init
<1> QED
  BY <1>1, StepIsFlightStep, CallInvariant, PTL
     DEF Spec, Flight!Safe, flightVars, Flight!vars

-----------------------------------------------------------------------------
(***************************************************************************)
(* What the handlers leave on the spine: consult ids are never refused as  *)
(* duplicates, and a request is answered a resolved result exactly if its  *)
(* consult event is durable.                                               *)
(***************************************************************************)

\* A leader that is past its consult event keeps what it holds.
LEMMA HeldStays ==
  ASSUME CallInv, [Next]_vars, NEW q \in Requests, Flight!Leader(q),
         pc[q] \in {"publish", "write"}
  PROVE  /\ pc'[q] \in {"publish", "write", "done"}
         /\ pending'[q] = pending[q] /\ drawn'[q] = drawn[q]
<1>t. /\ pc \in [Requests -> Steps] /\ drawn \in [Requests -> Nat]
      /\ pending \in [Requests -> Outs \cup {None}]
  BY DEF CallInv, TypeOK
<1> QED
  BY <1>t
  DEF Next, Arrive, Refuse, Lead, Follow, LeaderStep, TurnAnswers, LeaderFails,
      LeaderRecords, LeaderRecordFails, PublishStores, PublishCloses,
      PublishFrees, LeaderReplies, FollowerStep, FollowerGetsResult,
      FollowerGivesUp, FollowerRecords, FollowerRecordFails, DrawConsultId,
      Goto, vars

-----------------------------------------------------------------------------
(* The numbers *)

LEMMA StepKeepsDrawnOnce == CallInv /\ DrawnOnce /\ [Next]_vars => DrawnOnce'
<1> SUFFICES ASSUME CallInv, DrawnOnce, [Next]_vars
             PROVE  DrawnOnce'
  OBVIOUS
<1>t. pc \in [Requests -> Steps] /\ drawn \in [Requests -> Nat] /\ counter \in Nat
  BY DEF CallInv, TypeOK
<1> USE <1>t DEF DrawnOnce
<1>1. ASSUME NEW r \in Requests, DrawConsultId(r)
      PROVE  DrawnOnce'
  <2>1. /\ drawn' = [drawn EXCEPT ![r] = counter + 1] /\ counter' = counter + 1
        /\ pc[r] = "draw" /\ pc' = [pc EXCEPT ![r] = "append"]
    BY <1>1 DEF DrawConsultId, Goto
  <2>2. \A q \in Requests \ {r} : drawn'[q] = drawn[q] /\ drawn[q] # counter + 1
    BY <2>1
  <2>3. drawn'[r] = counter + 1 /\ counter + 1 # 0
    BY <2>1
  <2> QED
    BY <2>1, <2>2, <2>3
<1>2. ASSUME UNCHANGED <<drawn, counter>>,
             \A q \in Requests : pc'[q] \in {"idle", "turn", "draw", "wait"} =>
                                   pc[q] \in {"idle", "turn", "draw", "wait"},
             \A q \in Requests : pc'[q] = "append" => pc[q] = "append"
      PROVE  DrawnOnce'
  BY <1>2
<1>3. CASE UNCHANGED vars
  BY <1>2, <1>3 DEF vars
<1>4. ASSUME NEW r \in Requests,
             \/ Arrive(r) \/ LeaderStep(r) \/ FollowerStep(r)
      PROVE  DrawnOnce'
  BY <1>2, <1>4
  DEF Arrive, Refuse, Lead, Follow, LeaderStep, TurnAnswers, LeaderFails,
      LeaderRecords, LeaderRecordFails, PublishStores, PublishCloses,
      PublishFrees, LeaderReplies, FollowerStep, FollowerGetsResult,
      FollowerGivesUp, FollowerRecords, FollowerRecordFails, Goto
<1> QED
  BY <1>1, <1>3, <1>4 DEF Next

-----------------------------------------------------------------------------
(* The events *)

\* The two steps that append a consult event.
LEMMA NewConsult ==
  ASSUME CallInv, [Next]_vars, NEW i \in DOMAIN spine', i \notin DOMAIN spine,
         IsConsult(i)'
  PROVE  \E r \in Requests :
           /\ LeaderRecords(r) \/ FollowerRecords(r)
           /\ spine'[i].by = r /\ spine'[i].id = drawn[r]
           /\ spine'[i].key = key[r]
           /\ spine'[i].role = IF Flight!Leader(r) THEN "leader" ELSE "follower"
<1>t. spine \in Seq(Events) /\ spine' \in Seq(Events)
  BY StepKeepsTypes DEF CallInv, TypeOK
<1>1. spine' # spine
  BY SpineGrows
<1>2. ASSUME NEW r \in Requests, TurnAnswers(r)
      PROVE  FALSE
  <2>1. i = Len(spine) + 1 /\ spine'[i].kind = "turn.agent"
    BY <1>t, <1>2 DEF TurnAnswers
  <2> QED
    BY <2>1 DEF IsConsult
<1>3. PICK r \in Requests : LeaderRecords(r) \/ FollowerRecords(r)
  BY <1>1, <1>2
  DEF Next, Arrive, Refuse, Lead, Follow, LeaderStep, LeaderFails,
      LeaderRecordFails, PublishStores, PublishCloses, PublishFrees,
      LeaderReplies, FollowerStep, FollowerGetsResult, FollowerGivesUp,
      FollowerRecordFails, DrawConsultId, vars
<1>4. /\ spine'[i].by = r /\ spine'[i].id = drawn[r] /\ spine'[i].key = key[r]
      /\ spine'[i].role = IF Flight!Leader(r) THEN "leader" ELSE "follower"
  <2>1. PICK role, leader : spine' = Append(spine,
                [kind |-> "consult.resolved", by |-> r, role |-> role,
                 id |-> drawn[r], leader |-> leader, key |-> key[r]])
          /\ role = IF Flight!Leader(r) THEN "leader" ELSE "follower"
    BY <1>3 DEF LeaderRecords, FollowerRecords, AppendConsult, Flight!Follower,
                Flight!Leader
  <2>2. i = Len(spine) + 1
    BY <1>t, <2>1
  <2> QED
    BY <1>t, <2>1, <2>2
<1> QED
  BY <1>3, <1>4

\* Only the steps that draw a number change it, and an event's is drawn.
LEMMA StepKeepsConsultsTrue == RecordInv /\ [Next]_vars => ConsultsTrue'
<1> SUFFICES ASSUME RecordInv, [Next]_vars, NEW i \in DOMAIN spine',
                    NEW q \in Requests, IsConsult(i)', spine'[i].by = q
             PROVE  /\ call'[q] # None
                    /\ spine'[i].id = drawn'[q] /\ drawn'[q] # 0
                    /\ IF Flight!Leader(q)'
                         THEN pc'[q] \in {"publish", "write", "done"}
                              /\ pending'[q] \in Resolved
                         ELSE pc'[q] = "done" /\ reply'[q].code = "ok"
  BY DEF ConsultsTrue
<1> USE DEF RecordInv
<1>t. /\ pc \in [Requests -> Steps] /\ spine \in Seq(Events)
      /\ pending \in [Requests -> Outs \cup {None}]
      /\ reply \in [Requests -> Replies \cup {None}]
  BY DEF CallInv, TypeOK
<1>1. CASE i \in DOMAIN spine
  <2>1. spine'[i] = spine[i] /\ IsConsult(i)
    BY <1>1, SpineGrows DEF IsConsult
  <2>3. /\ call[q] # None
        /\ spine[i].id = drawn[q] /\ drawn[q] # 0
        /\ IF Flight!Leader(q)
             THEN pc[q] \in {"publish", "write", "done"} /\ pending[q] \in Resolved
             ELSE pc[q] = "done" /\ reply[q].code = "ok"
    BY <1>1, <2>1 DEF ConsultsTrue
  <2>4. call'[q] = call[q] /\ (Flight!Leader(q)' <=> Flight!Leader(q))
    BY <2>3, TicketsStay DEF Flight!Leader
  <2>5. CASE pc[q] = "done"
    BY <2>1, <2>3, <2>4, <2>5, DoneStays
  <2>6. CASE pc[q] # "done"
    BY <2>1, <2>3, <2>4, <2>6, HeldStays
  <2> QED
    BY <2>5, <2>6
<1>2. CASE i \notin DOMAIN spine
  <2>1. PICK r \in Requests :
          /\ LeaderRecords(r) \/ FollowerRecords(r)
          /\ spine'[i].by = r /\ spine'[i].id = drawn[r]
    BY <1>2, NewConsult
  <2>r. q = r
    BY <2>1
  <2>2. /\ pc[r] = "append" /\ call[r] # None /\ call' = call /\ drawn' = drawn
        /\ drawn[r] # 0
    BY <2>1 DEF LeaderRecords, FollowerRecords, Goto, flightVars, CallInv, Control,
                DrawnOnce
  <2>3. CASE LeaderRecords(r)
    <3>1. /\ Flight!Leader(r)' /\ pc'[r] = "publish"
          /\ pending'[r] = [code |-> "ok", answer |-> r, consult |-> drawn[r]]
      BY <1>t, <2>3 DEF LeaderRecords, Goto, Flight!Leader, flightVars
    <3> QED
      BY <2>1, <2>r, <2>2, <3>1, RecordsTyped
  <2>4. CASE FollowerRecords(r)
    <3>1. ~Flight!Leader(r)' /\ pc'[r] = "done" /\ reply'[r] = waited[r]
      BY <1>t, <2>4 DEF FollowerRecords, Goto, Answer, Flight!Leader, Flight!Follower,
                        flightVars
    <3>2. waited[r].code = "ok"
      BY <2>2, <2>4 DEF FollowerRecords, CallInv, Control, Resolved
    <3> QED
      BY <2>1, <2>r, <2>2, <3>1, <3>2
  <2> QED
    BY <2>1, <2>3, <2>4
<1> QED
  BY <1>1, <1>2

LEMMA StepKeepsFollowersRecord == RecordInv /\ [Next]_vars => FollowersRecord'
<1> DEFINE Recorded(r) == \E i \in DOMAIN spine :
                            /\ IsConsult(i)
                            /\ spine[i].by = r
                            /\ spine[i].key = key[r]
                            /\ spine[i].id = drawn[r]
                            /\ spine[i].role = "follower"
<1> SUFFICES ASSUME RecordInv, [Next]_vars, NEW r \in Requests,
                    ~Flight!Leader(r)', reply'[r] # None, reply'[r].code = "ok"
             PROVE  Recorded(r)'
  BY DEF FollowersRecord
<1> USE DEF RecordInv
<1>t. /\ pc \in [Requests -> Steps] /\ spine \in Seq(Events)
      /\ reply \in [Requests -> Replies \cup {None}]
  BY DEF CallInv, TypeOK
<1>1. CASE reply[r] # None
  <2>1. /\ reply'[r] = reply[r] /\ drawn'[r] = drawn[r] /\ call'[r] = call[r]
        /\ key'[r] = key[r]
    BY <1>1, DoneStays DEF CallInv, Control
  <2>2. Recorded(r)
    BY <1>1, <2>1 DEF FollowersRecord, Flight!Leader
  <2> QED
    BY <2>1, <2>2, SpineGrows DEF IsConsult
<1>2. CASE reply[r] = None
  <2>1. CASE FollowerRecords(r)
    <3>1. call[r] # None /\ waited[r] \in Resolved
      BY <2>1 DEF FollowerRecords, Goto, CallInv, Control, Flight!Follower
    <3> DEFINE e == [kind |-> "consult.resolved", by |-> r, role |-> "follower",
                     id |-> drawn[r], leader |-> waited[r].consult, key |-> key[r]]
    <3>2. e \in Events
      BY <3>1, RecordsTyped DEF Resolved
    <3>3. spine' = Append(spine, e) /\ key' = key /\ drawn' = drawn
      BY <2>1 DEF FollowerRecords, AppendConsult, flightVars
    <3>4. Len(spine) + 1 \in DOMAIN spine' /\ spine'[Len(spine) + 1] = e
      BY <1>t, <3>2, <3>3, SpineAfterAppend
    <3> QED
      BY <3>3, <3>4 DEF IsConsult
  <2>2. ASSUME LeaderReplies(r)
        PROVE  FALSE
    BY <2>2 DEF LeaderReplies, Goto, CallInv, Control, Flight!Leader, flightVars
  <2>3. ASSUME FollowerGetsResult(r)
        PROVE  FALSE
    BY <1>2, <1>t, <2>3 DEF FollowerGetsResult, Answer
  <2>4. ASSUME FollowerGivesUp(r) \/ FollowerRecordFails(r) \/ Refuse(r)
        PROVE  FALSE
    BY <1>t, <2>4 DEF FollowerGivesUp, FollowerRecordFails, Refuse, Answer, Error
  <2> QED
    BY <1>2, <2>1, <2>2, <2>3, <2>4, Answerers
<1> QED
  BY <1>1, <1>2

-----------------------------------------------------------------------------
(* The theorems *)

LEMMA InitRecordInv == Init => RecordInv
  BY InitCallInv DEF Init, RecordInv, DrawnOnce, ConsultsTrue, FollowersRecord

LEMMA StepKeepsRecordInv == RecordInv /\ [Next]_vars => RecordInv'
  BY StepKeepsCallInv, StepKeepsDrawnOnce, StepKeepsConsultsTrue,
     StepKeepsFollowersRecord DEF RecordInv

\* Every reachable state of the handlers satisfies RecordInv.
THEOREM RecordInvariant == Spec => []RecordInv
  BY InitRecordInv, StepKeepsRecordInv, PTL DEF Spec

\* AppendEvent never refuses a consult event as a duplicate: an event of the
\* same number would be of the same handler, which is past appending.
THEOREM ConsultIdsFresh == Spec => []DrawnIdsAreFresh
<1>1. RecordInv => DrawnIdsAreFresh
  <2> SUFFICES ASSUME RecordInv, NEW r \in Requests, pc[r] = "append"
               PROVE  /\ drawn[r] \notin ConsultIds
                      /\ \A q \in Requests \ {r} : pc[q] = "append" => drawn[q] # drawn[r]
    BY DEF DrawnIdsAreFresh
  <2>1. drawn[r] # 0 /\ \A q \in Requests \ {r} : drawn[q] # drawn[r]
    BY DEF RecordInv, DrawnOnce
  <2>2. ASSUME NEW i \in DOMAIN spine, IsConsult(i), spine[i].id = drawn[r]
        PROVE  FALSE
    <3>1. spine[i].by \in Requests
      BY <2>2 DEF RecordInv, CallInv, TypeOK, IsConsult, Events, ConsultEvents,
                  TurnEvents
    <3>2. spine[i].by = r
      BY <2>1, <2>2, <3>1 DEF RecordInv, ConsultsTrue
    <3> QED
      BY <2>2, <3>2 DEF RecordInv, ConsultsTrue
  <2> QED
    BY <2>1, <2>2 DEF ConsultIds, IsConsult
<1> QED
  BY <1>1, RecordInvariant, PTL

\* A request is answered a resolved result exactly if its consult event, of
\* its role, fingerprint and number, is on the spine.
THEOREM AnswersRecorded == Spec => []ResolvedLeavesConsult
<1>1. RecordInv => ResolvedLeavesConsult
  <2> DEFINE Of(r, i) == /\ IsConsult(i)
                         /\ spine[i].by = r
                         /\ spine[i].key = key[r]
                         /\ spine[i].id = drawn[r]
                         /\ spine[i].role = IF Flight!Leader(r) THEN "leader"
                                            ELSE "follower"
  <2> SUFFICES ASSUME RecordInv, NEW r \in Requests, reply[r] # None
               PROVE  reply[r].code = "ok" <=> \E i \in DOMAIN spine : Of(r, i)
    BY DEF ResolvedLeavesConsult
  <2> USE DEF RecordInv
  <2>1. CASE Flight!Leader(r)
    <3>1. call[r] = r /\ call[r] # None
      BY <2>1, SentinelAssumption DEF Flight!Leader
    <3>2. pc[r] = "done" /\ stage[r] = "deleted"
      BY <2>1 DEF CallInv, Control
    <3>3. reply[r] = pending[r]
      BY <3>1, <3>2 DEF CallInv, Control, OnePayloadPerCall, Flight!Follower
    <3>4. pending[r] \in Outs
      BY <3>3 DEF CallInv, TypeOK
    <3>5. ASSUME reply[r].code = "ok"
          PROVE  \E i \in DOMAIN spine : Of(r, i)
      <4>1. pending[r] \in Resolved
        BY <3>3, <3>4, <3>5 DEF Outs, Failed, LeaderErrors
      <4>2. PICK i \in DOMAIN spine :
              spine[i] = [kind |-> "consult.resolved", by |-> r, role |-> "leader",
                          id |-> pending[r].consult, leader |-> NoEvent,
                          key |-> key[r]]
        BY <4>1 DEF CallInv, Provenance, LeaderRecorded
      <4>3. spine[i].id = drawn[r]
        BY <4>2 DEF ConsultsTrue, IsConsult
      <4> QED
        BY <2>1, <4>2, <4>3 DEF IsConsult
    <3>6. ASSUME NEW i \in DOMAIN spine, Of(r, i)
          PROVE  reply[r].code = "ok"
      BY <2>1, <3>3, <3>6 DEF ConsultsTrue, Resolved
    <3> QED
      BY <3>5, <3>6
  <2>2. CASE ~Flight!Leader(r)
    <3>1. reply[r].code = "ok" => \E i \in DOMAIN spine : Of(r, i)
      BY <2>2 DEF FollowersRecord
    <3>2. ASSUME NEW i \in DOMAIN spine, Of(r, i)
          PROVE  reply[r].code = "ok"
      BY <2>2, <3>2 DEF ConsultsTrue
    <3> QED
      BY <3>1, <3>2
  <2> QED
    BY <2>1, <2>2
<1> QED
  BY <1>1, RecordInvariant, PTL

-----------------------------------------------------------------------------
(* Sorting words *)

Ascending(t) == \A i, j \in DOMAIN t : i <= j => t[i] <= t[j]

\* t has the words of s, each as often as s.
Rearranges(t, s) ==
  /\ Len(t) = Len(s)
  /\ \E p \in Injection(1..Len(s), 1..Len(s)) : \A k \in 1..Len(s) : t[k] = s[p[k]]

\* The words that stand before the i-th in the sort, it included.
Upto(s, i) == {j \in DOMAIN s : s[j] < s[i] \/ (s[j] = s[i] /\ j <= i)}

LEMMA Interval ==
  ASSUME NEW n \in Nat
  PROVE  IsFiniteSet(1..n) /\ Cardinality(1..n) = n
<1>1. IsFiniteSet(1..n) /\ Cardinality(1..n) = IF 1 > n THEN 0 ELSE n - 1 + 1
  BY FS_Interval
<1> QED
  BY <1>1

LEMMA Injects ==
  ASSUME NEW S, NEW p \in [S -> S]
  PROVE  p \in Injection(S, S) <=> \A i, j \in S : p[i] = p[j] => i = j
  BY DEF Injection, IsInjective

\* An injection of places is onto.
LEMMA PlacesOnto ==
  ASSUME NEW n \in Nat, NEW p \in Injection(1..n, 1..n)
  PROVE  \A k \in 1..n : \E i \in 1..n : p[i] = k
<1>1. IsFiniteSet(1..n)
  BY Interval
<1>2. p \in Surjection(1..n, 1..n)
  BY <1>1, FS_Injection
<1> QED
  BY <1>2 DEF Surjection

LEMMA RankFacts ==
  ASSUME NEW s \in Seq(Nat), NEW i \in 1..Len(s)
  PROVE  /\ Rank(s, i) \in 1..Len(s)
         /\ \A j \in 1..Len(s) :
              s[i] < s[j] \/ (s[i] = s[j] /\ i < j) => Rank(s, i) < Rank(s, j)
<1> DEFINE n == Len(s)
<1>1. n \in Nat /\ DOMAIN s = 1..n /\ \A j \in 1..n : s[j] \in Nat
  OBVIOUS
<1>2. IsFiniteSet(1..n) /\ Cardinality(1..n) = n
  BY <1>1, Interval
<1>3. ASSUME NEW j \in 1..n
      PROVE  /\ Upto(s, j) \in SUBSET (1..n) /\ j \in Upto(s, j)
             /\ Rank(s, j) = Cardinality(Upto(s, j))
             /\ IsFiniteSet(Upto(s, j)) /\ Rank(s, j) \in 1..n
  <2>1. Upto(s, j) \in SUBSET (1..n) /\ j \in Upto(s, j)
    BY <1>1, <1>3 DEF Upto
  <2>2. Rank(s, j) = Cardinality(Upto(s, j))
    BY DEF Rank, Upto
  <2>3. IsFiniteSet(Upto(s, j)) /\ Cardinality(Upto(s, j)) <= n
    BY <1>2, <2>1, FS_Subset
  <2>4. Cardinality(Upto(s, j)) \in Nat /\ Cardinality(Upto(s, j)) # 0
    BY <2>1, <2>3, FS_CardinalityType, FS_EmptySet
  <2> QED
    BY <1>1, <2>1, <2>2, <2>3, <2>4
<1>4. ASSUME NEW j \in 1..n, s[i] < s[j] \/ (s[i] = s[j] /\ i < j)
      PROVE  Rank(s, i) < Rank(s, j)
  <2>1. Upto(s, i) \subseteq Upto(s, j) /\ j \notin Upto(s, i)
    BY <1>1, <1>4 DEF Upto
  <2>2. /\ Cardinality(Upto(s, i)) <= Cardinality(Upto(s, j))
        /\ Cardinality(Upto(s, j)) = Cardinality(Upto(s, i)) => Upto(s, j) = Upto(s, i)
    BY <1>3, <2>1, FS_Subset
  <2> QED
    BY <1>1, <1>3, <2>1, <2>2
<1> QED
  BY <1>3, <1>4

\* Sorting rearranges the words in order.
LEMMA SortedFacts ==
  ASSUME NEW s \in Seq(Nat)
  PROVE  /\ Sorted(s) \in Seq(Nat)
         /\ Ascending(Sorted(s))
         /\ Rearranges(Sorted(s), s)
<1> DEFINE n == Len(s)
           r == [i \in 1..n |-> Rank(s, i)]
           p == [k \in 1..n |-> CHOOSE i \in 1..n : Rank(s, i) = k]
<1>1. n \in Nat /\ DOMAIN s = 1..n /\ \A j \in 1..n : s[j] \in Nat
  OBVIOUS
<1>2. r \in Injection(1..n, 1..n)
  <2>1. r \in [1..n -> 1..n]
    BY RankFacts
  <2>2. ASSUME NEW i \in 1..n, NEW j \in 1..n, i # j
        PROVE  Rank(s, i) # Rank(s, j)
    <3>1. \/ s[i] < s[j] \/ (s[i] = s[j] /\ i < j)
          \/ s[j] < s[i] \/ (s[j] = s[i] /\ j < i)
      BY <1>1, <2>2
    <3>2. Rank(s, i) \in 1..Len(s) /\ Rank(s, j) \in 1..Len(s)
      BY RankFacts
    <3>3. Rank(s, i) < Rank(s, j) \/ Rank(s, j) < Rank(s, i)
      BY <3>1, RankFacts
    <3> QED
      BY <3>2, <3>3
  <2>3. \A i, j \in 1..n : r[i] = r[j] => i = j
    BY <2>2
  <2> HIDE DEF r
  <2> QED
    BY <2>1, <2>3, Injects
<1>3. ASSUME NEW k \in 1..n
      PROVE  p[k] \in 1..n /\ Rank(s, p[k]) = k
  <2>1. \E i \in 1..n : r[i] = k
    <3>1. n \in Nat /\ k \in 1..n
      BY <1>1, <1>3
    <3> HIDE DEF r, n
    <3> QED
      BY <1>2, <3>1, PlacesOnto
  <2>2. \E i \in 1..n : Rank(s, i) = k
    BY <2>1
  <2> QED
    BY <2>2
<1>4. Sorted(s) = [k \in 1..n |-> s[p[k]]]
  BY <1>1 DEF Sorted
<1> HIDE DEF p
<1>5. Sorted(s) \in Seq(Nat) /\ Len(Sorted(s)) = n /\ DOMAIN Sorted(s) = 1..n
  BY <1>1, <1>3, <1>4
<1>6. p \in Injection(1..n, 1..n)
  <2>1. p \in [1..n -> 1..n]
    BY <1>3 DEF p
  <2>2. \A k, l \in 1..n : p[k] = p[l] => k = l
    BY <1>3
  <2> QED
    BY <2>1, <2>2, Injects
<1>7. ASSUME NEW k \in 1..n, NEW l \in 1..n, k <= l
      PROVE  s[p[k]] <= s[p[l]]
  <2>1. s[p[l]] < s[p[k]] => Rank(s, p[l]) < Rank(s, p[k])
    BY <1>3, RankFacts
  <2> QED
    BY <1>1, <1>3, <1>7, <2>1
<1>8. Ascending(Sorted(s))
  BY <1>4, <1>5, <1>7 DEF Ascending
<1>9. Rearranges(Sorted(s), s)
  BY <1>4, <1>5, <1>6 DEF Rearranges
<1> QED
  BY <1>5, <1>8, <1>9

LEMMA RearrangesBack ==
  ASSUME NEW s \in Seq(Nat), NEW t \in Seq(Nat), Rearranges(t, s)
  PROVE  Rearranges(s, t)
<1> DEFINE n == Len(s)
<1>1. n \in Nat /\ Len(t) = n
  BY DEF Rearranges
<1>2. PICK p \in Injection(1..n, 1..n) : \A k \in 1..n : t[k] = s[p[k]]
  BY DEF Rearranges
<1> DEFINE q == [k \in 1..n |-> CHOOSE i \in 1..n : p[i] = k]
<1>3. ASSUME NEW k \in 1..n
      PROVE  q[k] \in 1..n /\ p[q[k]] = k
  <2>1. \E i \in 1..n : p[i] = k
    BY <1>1, PlacesOnto
  <2> QED
    BY <2>1
<1>4. q \in [1..n -> 1..n]
  BY <1>3
<1> HIDE DEF q
<1>5. q \in Injection(1..n, 1..n)
  <2>1. \A k, l \in 1..n : q[k] = q[l] => k = l
    BY <1>3
  <2> QED
    BY <1>4, <2>1, Injects
<1>6. \A k \in 1..n : s[k] = t[q[k]]
  BY <1>2, <1>3
<1> QED
  BY <1>1, <1>5, <1>6 DEF Rearranges

LEMMA RearrangesOnwards ==
  ASSUME NEW s \in Seq(Nat), NEW t \in Seq(Nat), NEW u \in Seq(Nat),
         Rearranges(t, s), Rearranges(u, t)
  PROVE  Rearranges(u, s)
<1> DEFINE n == Len(s)
<1>1. n \in Nat /\ Len(t) = n /\ Len(u) = n
  BY DEF Rearranges
<1>2. PICK p \in Injection(1..n, 1..n) : \A k \in 1..n : t[k] = s[p[k]]
  BY DEF Rearranges
<1>3. PICK q \in Injection(1..n, 1..n) : \A k \in 1..n : u[k] = t[q[k]]
  BY <1>1 DEF Rearranges
<1> DEFINE c == [k \in 1..n |-> p[q[k]]]
<1>4. p \in [1..n -> 1..n] /\ q \in [1..n -> 1..n]
  BY DEF Injection
<1>5. c \in Injection(1..n, 1..n)
  <2>1. /\ \A i, j \in 1..n : p[i] = p[j] => i = j
        /\ \A i, j \in 1..n : q[i] = q[j] => i = j
    BY <1>4, Injects
  <2>2. c \in [1..n -> 1..n] /\ \A i, j \in 1..n : c[i] = c[j] => i = j
    BY <1>4, <2>1
  <2> HIDE DEF c
  <2> QED
    BY <2>2, Injects
<1>6. \A k \in 1..n : u[k] = s[c[k]]
  BY <1>2, <1>3, <1>4
<1> QED
  BY <1>1, <1>5, <1>6 DEF Rearranges

\* No place of a sorted sequence holds a larger word than the same place of a
\* sorted rearrangement: fewer places hold smaller ones.
LEMMA NotAbove ==
  ASSUME NEW t \in Seq(Nat), NEW u \in Seq(Nat), Ascending(t), Ascending(u),
         Rearranges(t, u), NEW i \in 1..Len(u)
  PROVE  u[i] <= t[i]
<1> DEFINE n == Len(u)
<1>1. /\ n \in Nat /\ Len(t) = n /\ DOMAIN t = 1..n /\ DOMAIN u = 1..n
      /\ \A k \in 1..n : t[k] \in Nat /\ u[k] \in Nat
  BY DEF Rearranges
<1>2. PICK p \in Injection(1..n, 1..n) : \A k \in 1..n : t[k] = u[p[k]]
  BY DEF Rearranges
<1>3. p \in [1..n -> 1..n]
  BY DEF Injection
<1> SUFFICES ASSUME t[i] < u[i]
             PROVE  FALSE
  BY <1>1
<1>i. i \in 1..n /\ i \in Nat
  BY <1>1
<1> DEFINE f == [k \in 1..i |-> p[k]]
<1>4. ASSUME NEW k \in 1..i
      PROVE  p[k] \in 1..(i - 1)
  <2>1. k \in 1..n /\ k <= i
    BY <1>1, <1>i
  <2>k. p[k] \in 1..n
    BY <1>3, <2>1
  <2>2. u[p[k]] <= t[i]
    <3>1. t[k] <= t[i]
      BY <1>1, <1>i, <2>1 DEF Ascending
    <3> QED
      BY <1>2, <2>1, <3>1
  <2>3. i <= p[k] => u[i] <= u[p[k]]
    BY <1>1, <1>i, <2>k DEF Ascending
  <2> QED
    BY <1>1, <1>i, <2>k, <2>2, <2>3
<1>5. f \in [1..i -> 1..(i - 1)]
  BY <1>4
<1>6. /\ IsFiniteSet(1..i) /\ IsFiniteSet(1..(i - 1))
      /\ Cardinality(1..(i - 1)) < Cardinality(1..i)
  <2>1. i - 1 \in Nat
    BY <1>i
  <2>2. Cardinality(1..i) = i /\ Cardinality(1..(i - 1)) = i - 1
    BY <1>i, <2>1, Interval
  <2> QED
    BY <1>i, <2>1, <2>2, Interval
<1> HIDE DEF f
<1>7. PICK x, y \in 1..i : x # y /\ f[x] = f[y]
  BY <1>5, <1>6, FS_PigeonHole
<1>8. x \in 1..n /\ y \in 1..n /\ p[x] = p[y]
  BY <1>1, <1>7 DEF f
<1> QED
  BY <1>3, <1>7, <1>8, Injects

\* Words that are sorted have one order.
LEMMA OneOrder ==
  ASSUME NEW t \in Seq(Nat), NEW u \in Seq(Nat), Ascending(t), Ascending(u),
         Rearranges(t, u)
  PROVE  t = u
<1>1. Rearranges(u, t) /\ Len(t) = Len(u)
  BY RearrangesBack DEF Rearranges
<1>2. ASSUME NEW i \in 1..Len(u)
      PROVE  t[i] = u[i]
  <2>1. u[i] <= t[i] /\ t[i] <= u[i]
    BY <1>1, NotAbove
  <2>2. t[i] \in Nat /\ u[i] \in Nat
    BY <1>1
  <2> QED
    BY <2>1, <2>2
<1> QED
  BY <1>1, <1>2

\* To sort words that were sorted changes nothing.
LEMMA SortedTwice ==
  ASSUME NEW s \in Seq(Nat)
  PROVE  Sorted(Sorted(s)) = Sorted(s)
<1>1. Sorted(s) \in Seq(Nat) /\ Ascending(Sorted(s))
  BY SortedFacts
<1> QED
  BY <1>1, SortedFacts, OneOrder

\* Rearranged words are sorted alike.
LEMMA SortedAlike ==
  ASSUME NEW s \in Seq(Nat), NEW t \in Seq(Nat), Rearranges(t, s)
  PROVE  Sorted(t) = Sorted(s)
<1> DEFINE a == Sorted(s)
           b == Sorted(t)
<1>1. /\ a \in Seq(Nat) /\ Ascending(a) /\ Rearranges(a, s)
      /\ b \in Seq(Nat) /\ Ascending(b) /\ Rearranges(b, t)
  BY SortedFacts
<1> HIDE DEF a, b
<1>2. Rearranges(s, a)
  BY <1>1, RearrangesBack
<1>3. Rearranges(t, a)
  BY <1>1, <1>2, RearrangesOnwards
<1>4. Rearranges(b, a)
  BY <1>1, <1>3, RearrangesOnwards
<1> QED
  BY <1>1, <1>4, OneOrder DEF a, b

-----------------------------------------------------------------------------
(* What a key stands for *)

Words(b) == [i \in DOMAIN b.refs |-> Trim(b.refs[i])]

LEMMA WordsTyped ==
  ASSUME NEW b \in Bodies
  PROVE  /\ Words(b) \in Seq(Nat) /\ Len(Words(b)) = Len(b.refs) /\ Len(b.refs) \in Nat
         /\ DOMAIN b.refs = 1..Len(b.refs)
         /\ \A i \in 1..Len(b.refs) : Words(b)[i] = Trim(b.refs[i])
<1>1. b.refs \in Seq(Texts)
  BY BodiesAssumption
<1>2. /\ Len(b.refs) \in Nat /\ DOMAIN b.refs = 1..Len(b.refs)
      /\ \A i \in 1..Len(b.refs) : b.refs[i] \in Texts
  BY <1>1
<1>3. \A i \in 1..Len(b.refs) : Trim(b.refs[i]) \in Nat
  BY <1>2 DEF Trim, Texts
<1> QED
  BY <1>2, <1>3 DEF Words

\* A leader asks with refs that are sorted already.
LEMMA AskedSorted ==
  ASSUME NEW req \in Asked
  PROVE  Sorted(req.refs) = req.refs
<1>1. PICK b \in Admissible : req \in IngressRequests(b)
  BY DEF Asked
<1>2. b \in Bodies
  BY DEF Admissible
<1>3. req.refs = Sorted(Words(b))
  BY <1>1 DEF IngressRequests, NormalizeRefs, Words
<1> QED
  BY <1>2, <1>3, WordsTyped, SortedTwice

\* Requests of one fingerprint ask one question.
LEMMA OneQuestion ==
  ASSUME NEW req \in Asked, NEW q \in Asked, Fingerprint(req) = Fingerprint(q)
  PROVE  Question(req) = Question(q)
<1>1. \A p \in {req, q} :
        /\ Fingerprint(p).session = p.session /\ Fingerprint(p).branch = p.branch
        /\ Fingerprint(p).task = p.task /\ Fingerprint(p).refs = Sorted(p.refs)
        /\ Fingerprint(p).constraints = p.constraints /\ Fingerprint(p).tools = p.tools
        /\ Fingerprint(p).external = Trim(p.external)
  BY DEF Fingerprint
<1>2. /\ req.session = q.session /\ req.branch = q.branch /\ req.task = q.task
      /\ Sorted(req.refs) = Sorted(q.refs) /\ req.constraints = q.constraints
      /\ req.tools = q.tools /\ Trim(req.external) = Trim(q.external)
  BY <1>1
<1>3. req.refs = q.refs
  BY <1>2, AskedSorted
<1>4. AgentCallText(req) = AgentCallText(q)
  BY <1>2, <1>3 DEF AgentCallText
<1> QED
  BY <1>2, <1>4 DEF Question

LEMMA OneMeaning ==
  ASSUME NEW f \in Keys, NEW asked \in Meanings[f]
  PROVE  Meanings[f] = {asked}
<1>1. f \in {Fingerprint(req) : req \in Asked}
  BY KeysAssumption DEF Meanings
<1>2. Meanings[f] = {Question(req) : req \in {q \in Asked : Fingerprint(q) = f}}
  BY <1>1 DEF Meanings
<1>3. PICK req \in Asked : Fingerprint(req) = f /\ asked = Question(req)
  BY <1>2
<1>4. \A q \in Asked : Fingerprint(q) = f => Question(q) = asked
  BY <1>3, OneQuestion
<1> QED
  BY <1>2, <1>3, <1>4

\* Bodies that have each ref equally often have rearranged words: the places
\* of one word in one body and in the other are equally many.
LEMMA WordsRearranged ==
  ASSUME NEW b \in Bodies, NEW c \in Bodies, Equivalent(b, c)
  PROVE  Rearranges(Words(b), Words(c))
<1> DEFINE n == Len(b.refs)
           B == Words(b)
           C == Words(c)
           InB(w) == {i \in 1..n : B[i] = w}
           InC(w) == {i \in 1..n : C[i] = w}
<1>1. /\ n \in Nat /\ Len(c.refs) = n
      /\ B \in Seq(Nat) /\ Len(B) = n /\ C \in Seq(Nat) /\ Len(C) = n
  BY WordsTyped DEF Equivalent
<1>2. ASSUME NEW i \in 1..n
      PROVE  ExistsBijection(InB(B[i]), InC(B[i]))
  <2>1. Times(b.refs, B[i]) = Times(c.refs, B[i])
    BY WordsTyped DEF Equivalent
  <2>2. Times(b.refs, B[i]) = Cardinality(InB(B[i]))
    <3>1. {k \in DOMAIN b.refs : Trim(b.refs[k]) = B[i]} = InB(B[i])
      BY WordsTyped
    <3> QED
      BY <3>1 DEF Times
  <2>3. Times(c.refs, B[i]) = Cardinality(InC(B[i]))
    <3>1. {k \in DOMAIN c.refs : Trim(c.refs[k]) = B[i]} = InC(B[i])
      BY <1>1, WordsTyped
    <3> QED
      BY <3>1 DEF Times
  <2>4. IsFiniteSet(InB(B[i])) /\ IsFiniteSet(InC(B[i]))
    <3>1. IsFiniteSet(1..n)
      BY <1>1, Interval
    <3>2. InB(B[i]) \in SUBSET (1..n) /\ InC(B[i]) \in SUBSET (1..n)
      OBVIOUS
    <3> QED
      BY <3>1, <3>2, FS_Subset
  <2> QED
    BY <2>1, <2>2, <2>3, <2>4, FS_SameCardinalityBij
<1> DEFINE g(w) == CHOOSE f : f \in Bijection(InB(w), InC(w))
           p == [i \in 1..n |-> g(B[i])[i]]
<1>3. ASSUME NEW i \in 1..n
      PROVE  /\ g(B[i]) \in [InB(B[i]) -> InC(B[i])]
             /\ \A k, l \in InB(B[i]) : g(B[i])[k] = g(B[i])[l] => k = l
  <2>1. \E f : f \in Bijection(InB(B[i]), InC(B[i]))
    BY <1>2 DEF ExistsBijection
  <2>2. g(B[i]) \in Bijection(InB(B[i]), InC(B[i]))
    BY <2>1, Zenon
  <2> HIDE DEF g
  <2> QED
    BY <2>2 DEF Bijection, Injection, IsInjective
<1> HIDE DEF B, C, n, g
<1>4. ASSUME NEW i \in 1..n
      PROVE  p[i] = g(B[i])[i] /\ p[i] \in 1..n /\ C[p[i]] = B[i]
  <2>1. p[i] = g(B[i])[i]
    OBVIOUS
  <2>2. i \in InB(B[i])
    OBVIOUS
  <2>3. p[i] \in InC(B[i])
    BY <1>3, <2>1, <2>2
  <2> QED
    BY <2>1, <2>3
<1>5. p \in [1..n -> 1..n]
  BY <1>4
<1>6. ASSUME NEW i \in 1..n, NEW k \in 1..n, p[i] = p[k]
      PROVE  i = k
  <2>1. B[i] = B[k] /\ g(B[i])[i] = g(B[i])[k]
    BY <1>4, <1>6
  <2>2. i \in InB(B[i]) /\ k \in InB(B[i])
    BY <2>1
  <2> QED
    BY <1>3, <2>1, <2>2
<1> HIDE DEF p
<1>7. p \in Injection(1..n, 1..n)
  BY <1>5, <1>6, Injects
<1>8. Rearranges(B, C)
  BY <1>1, <1>4, <1>7 DEF Rearranges
<1> QED
  BY <1>8 DEF B, C

\* The constraints of a body that writes each key once keep their values.
LEMMA OneValue ==
  ASSUME NEW raw, Distinct(raw), NEW c \in NormalizeConstraints(raw)
  PROVE  /\ c = [word \in DOMAIN c |-> c[word]]
         /\ \A word : word \in DOMAIN c <=> \E k \in DOMAIN raw : Trim(k) = word
         /\ \A k \in DOMAIN raw : c[Trim(k)] = raw[k]
<1> DEFINE keys == {Trim(k) : k \in DOMAIN raw}
<1>1. /\ c \in [keys -> {raw[k] : k \in DOMAIN raw}]
      /\ \A word \in keys : c[word] \in {raw[k] : k \in {k \in DOMAIN raw : Trim(k) = word}}
  BY DEF NormalizeConstraints
<1>2. ASSUME NEW k \in DOMAIN raw
      PROVE  c[Trim(k)] = raw[k]
  <2>1. Trim(k) \in keys
    OBVIOUS
  <2>2. PICK l \in DOMAIN raw : Trim(l) = Trim(k) /\ c[Trim(k)] = raw[l]
    BY <1>1, <2>1
  <2> QED
    BY <2>2 DEF Distinct
<1> QED
  BY <1>1, <1>2

LEMMA SameConstraints ==
  ASSUME NEW raw, NEW other, Distinct(raw), Distinct(other),
         {<<Trim(k), raw[k]>> : k \in DOMAIN raw}
           = {<<Trim(k), other[k]>> : k \in DOMAIN other},
         NEW c \in NormalizeConstraints(raw), NEW d \in NormalizeConstraints(other)
  PROVE  c = d
<1>1. ASSUME NEW k \in DOMAIN raw
      PROVE  \E l \in DOMAIN other : Trim(l) = Trim(k) /\ other[l] = raw[k]
  <2>1. <<Trim(k), raw[k]>> \in {<<Trim(l), other[l]>> : l \in DOMAIN other}
    OBVIOUS
  <2> QED
    BY <2>1
<1>2. ASSUME NEW l \in DOMAIN other
      PROVE  \E k \in DOMAIN raw : Trim(k) = Trim(l) /\ raw[k] = other[l]
  <2>1. <<Trim(l), other[l]>> \in {<<Trim(k), raw[k]>> : k \in DOMAIN raw}
    OBVIOUS
  <2> QED
    BY <2>1
<1>3. DOMAIN c = DOMAIN d
  BY <1>1, <1>2, OneValue
<1>4. ASSUME NEW word \in DOMAIN c
      PROVE  c[word] = d[word]
  BY <1>1, OneValue
<1> QED
  BY <1>3, <1>4, OneValue

\* Equivalent bodies have one fingerprint.
LEMMA TwinsAreEqual ==
  ASSUME NEW f, NEW h, <<f, h>> \in Twins
  PROVE  f = h
<1> DEFINE plain == {b \in Admissible : Distinct(b.constraints)}
<1>1. PICK pair \in plain \X plain :
        /\ Equivalent(pair[1], pair[2])
        /\ <<f, h>> \in Fingerprints(pair[1]) \X Fingerprints(pair[2])
  BY DEF Twins
<1>2. PICK b, c : b = pair[1] /\ c = pair[2]
  OBVIOUS
<1>3. /\ b \in Bodies /\ Distinct(b.constraints) /\ c \in Bodies /\ Distinct(c.constraints)
      /\ Equivalent(b, c) /\ f \in Fingerprints(b) /\ h \in Fingerprints(c)
  BY <1>1, <1>2 DEF Admissible
<1>4. PICK req \in IngressRequests(b) : f = Fingerprint(req)
  BY <1>3 DEF Fingerprints
<1>5. PICK q \in IngressRequests(c) : h = Fingerprint(q)
  BY <1>3 DEF Fingerprints
<1>6. Sorted(Words(b)) = Sorted(Words(c))
  BY <1>3, WordsTyped, WordsRearranged, SortedAlike
<1>7. /\ req.session = Trim(b.session) /\ req.branch = Trim(b.branch)
      /\ req.task = Trim(b.task) /\ req.refs = Sorted(Words(b)) /\ req.tools = b.tools
      /\ req.external = b.external /\ req.constraints \in NormalizeConstraints(b.constraints)
  BY <1>4 DEF IngressRequests, NormalizeRefs, Words
<1>8. /\ q.session = Trim(c.session) /\ q.branch = Trim(c.branch)
      /\ q.task = Trim(c.task) /\ q.refs = Sorted(Words(c)) /\ q.tools = c.tools
      /\ q.external = c.external /\ q.constraints \in NormalizeConstraints(c.constraints)
  BY <1>5 DEF IngressRequests, NormalizeRefs, Words
<1>9. req.constraints = q.constraints
  BY <1>3, <1>7, <1>8, SameConstraints DEF Equivalent
<1>10. /\ b.tools = c.tools /\ Trim(b.session) = Trim(c.session)
       /\ Trim(b.branch) = Trim(c.branch) /\ Trim(b.task) = Trim(c.task)
       /\ Trim(b.external) = Trim(c.external)
  BY <1>3 DEF Equivalent
<1> QED
  BY <1>4, <1>5, <1>6, <1>7, <1>8, <1>9, <1>10 DEF Fingerprint

\* A client is answered what it asked, by whoever's turn: the answer is that of
\* its own call, the call has one key, and a key stands for one question
\* whatever the bodies were (Request.FingerprintInput of internal/ingress).
THEOREM AnswersFit == Spec => []SharedAnswerFits
<1>1. RecordInv => SharedAnswerFits
  <2> SUFFICES ASSUME RecordInv, NEW r \in Requests, reply[r] # None, reply[r].code = "ok",
                      NEW asked \in Meanings[key[r]]
               PROVE  Meanings[key[reply[r].answer]] = {asked}
    BY DEF SharedAnswerFits
  <2>1. call[r] # None
    <3>1. CASE Flight!Leader(r)
      BY <3>1, SentinelAssumption DEF Flight!Leader
    <3>2. CASE ~Flight!Leader(r)
      <4>1. PICK i \in DOMAIN spine : IsConsult(i) /\ spine[i].by = r
        BY <3>2 DEF RecordInv, FollowersRecord
      <4> QED
        BY <4>1 DEF RecordInv, ConsultsTrue
    <3> QED
      BY <3>1, <3>2
  <2>2. key[call[r]] = key[r] /\ key[r] \in Keys
    <3>1. Flight!TypeOK /\ Flight!RegistryExact /\ Flight!TicketsShareKey
      BY DEF RecordInv, CallInv, Flight!IInv
    <3> QED
      BY <2>1, <3>1 DEF Flight!TypeOK, Flight!RegistryExact, Flight!TicketsShareKey
  <2>3. reply[r].answer = call[r]
    BY <2>1 DEF RecordInv, CallInv, OnePayloadPerCall, OwnErrors
  <2> QED
    BY <2>2, <2>3, OneMeaning
<1> QED
  BY <1>1, RecordInvariant, PTL

\* However two equivalent bodies are written, they are never in two turns at a
\* time: their keys are equal, and a key has one leader.
THEOREM EquivalentsCoalesce == Spec => []TwinsCoalesce
<1>1. NoOverlappingTurns => TwinsCoalesce
  BY TwinsAreEqual DEF NoOverlappingTurns, TwinsCoalesce, Leading
<1> QED
  BY <1>1, TurnsExclusive, PTL

=============================================================================

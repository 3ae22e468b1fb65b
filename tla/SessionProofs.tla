--------------------------- MODULE SessionProofs ---------------------------
(***************************************************************************)
(* Session for any number of turns, overlapping or not, of any number of   *)
(* rounds and tool calls: the inductive invariant SessionInv and the       *)
(* safety properties it implies.                                           *)
(***************************************************************************)
EXTENDS Session, FiniteSetTheorems, WellFoundedInduction, TLAPS

-----------------------------------------------------------------------------
(* The inductive invariant behind the safety properties *)

\* What a handler's position says of its end; one that has not begun has left
\* nothing behind.
FateFits ==
  \A r \in Requests :
    /\ pc[r] \notin {"invalid", "audit", "trace", "done"} => fate[r] = None
    /\ pc[r] = "invalid" => fate[r] = "failed"
    /\ pc[r] = "trace" => fate[r] = "answered"
    /\ pc[r] = "done" => fate[r] # None
    /\ fate[r] = "answered" => pc[r] \in {"trace", "done"}
    /\ pc[r] = "idle" => /\ \A i \in DOMAIN spine : spine[i].by # r
                         /\ \A b \in blobs : b.by # r

\* The turn's user event, then its packet, then the packet sent under the
\* number that follows the response's.
Asked(r) == EventsOf(r, "turn.user") # {}

Packed(r) ==
  \E u \in EventsOf(r, "turn.user"), c \in EventsOf(r, "packet.candidate") : u < c

Sent(r, n) ==
  \E u \in EventsOf(r, "turn.user"), c \in EventsOf(r, "packet.candidate"),
     s \in EventsOf(r, "packet.sent") :
    u < c /\ c < s /\ spine[s].n = n

Received(r, d) ==
  \E u \in EventsOf(r, "turn.user"), c \in EventsOf(r, "packet.candidate"),
     s \in EventsOf(r, "packet.sent"), m \in EventsOf(r, "response.received") :
    /\ u < c /\ c < s /\ s < m
    /\ spine[m].note = d
    /\ spine[s].n = spine[m].n + 1
    /\ OwnBlob(m)

\* What a handler has on the spine when it goes on from where it is.
HistoryFits ==
  \A r \in Requests :
    /\ pc[r] \in {"list", "candidate", "tool", "run", "result"} => Asked(r)
    /\ pc[r] = "sent" => Packed(r)
    /\ pc[r] \in {"model", "received"} => Sent(r, counter[r])
    /\ pc[r] = "received" =>
         /\ decision[r] # None
         /\ [ref |-> ModelBlob(ResponseNo(r)), by |-> r] \in blobs
    /\ pc[r] = "audit" /\ fate[r] = None => Asked(r) /\ Received(r, decision[r])
    /\ pc[r] = "agent" => Received(r, "answer")

\* The call being run is the last thing its turn appended.
ToolFits ==
  \A r \in Requests :
    /\ pc[r] \in {"tool", "run", "result"} => left[r] # 0
    /\ pc[r] = "run" => tool[r].blob = None /\ tool[r].call \in CallIds
    /\ pc[r] = "result" =>
         /\ tool[r].end \in ToolEnds
         /\ tool[r].blob # None => [ref |-> tool[r].blob, by |-> r] \in blobs
    /\ \A i \in DOMAIN spine :
         spine[i].by = r /\ (\A k \in (i + 1)..Len(spine) : spine[k].by # r) =>
           /\ pc[r] \in {"run", "result"} =>
                spine[i].kind = "tool.request" /\ spine[i].note = tool[r].call
           /\ pc[r] \notin {"run", "result", "done"} => spine[i].kind # "tool.request"

\* The latest event of its kind is r's.
Latest(r, kind) ==
  \E i \in EventsOf(r, kind) : \A j \in DOMAIN spine : spine[j].kind = kind => j <= i

\* A handler alone has the latest events of the kinds it looks for.
AloneFits ==
  \A r \in Requests \ shared :
    /\ r \in Active => Active = {r}
    /\ pc[r] \notin {"idle", "user", "done"} => Latest(r, "turn.user")
    /\ pc[r] \in {"model", "received", "agent", "trace"} \/ (pc[r] = "audit" /\ fate[r] = None)
         => Latest(r, "packet.sent")
    /\ pc[r] \in {"agent", "trace"} \/ (pc[r] = "audit" /\ fate[r] = None)
         => Latest(r, "response.received")

UnnamedNo(r) == Cardinality(UnnamedCalls(r))

\* What the numbers of r may be ahead of the number of events between rounds.
Slack(r) == IF UnnamedNo(r) <= 1 THEN 1 ELSE UnnamedNo(r)

\* Every unnamed call puts the counter one further ahead, every round takes
\* one back.
CounterFits ==
  \A r \in Requests :
    /\ pc[r] = "user" => counter[r] <= Len(spine)
    /\ pc[r] \in {"list", "candidate", "sent"} \/ (pc[r] = "audit" /\ fate[r] = None)
         => counter[r] <= Len(spine) + Slack(r)
    /\ pc[r] \in {"model", "invalid", "received"} =>
         2 <= counter[r] /\ counter[r] <= Len(spine) + Slack(r) + 1
    /\ pc[r] \in {"tool", "run", "result", "agent"} =>
         counter[r] <= Len(spine) + UnnamedNo(r)

\* How far an event's number may be ahead of its place, a blob's of the events.
NumbersFit ==
  /\ \A i \in DOMAIN spine : spine[i].by = None => spine[i].n = 0
  /\ \A r \in Requests, i \in DOMAIN spine : spine[i].by = r =>
       /\ spine[i].n <= i + Slack(r) + 1
       /\ spine[i].kind # "packet.sent" => spine[i].n <= i + Slack(r)
       /\ spine[i].kind = "turn.user" => spine[i].n <= i
  /\ \A r \in Requests, b \in blobs : b.by = r /\ b.ref[1] = "model" =>
       b.ref[2] <= Len(spine) + Slack(r)

\* Within a turn numbers are used once: the counter has reached them all, and
\* the response's is not used before its event.
OwnNumbersFit ==
  \A r \in Requests :
    LET bound(unused) ==
          IF unused /\ pc[r] \in {"model", "invalid", "received"}
            THEN counter[r] - 2 ELSE counter[r]
    IN  /\ \A i \in DOMAIN spine : spine[i].by = r =>
             spine[i].n <= bound(spine[i].kind \in {"response.received", "response.invalid"})
        /\ \A b \in blobs : b.by = r /\ b.ref[1] = "model" =>
             b.ref[2] <= bound(pc[r] = "model")

\* The numbers drawn since the turn began, at the least.
Drawn(step) ==
  CASE step = "user"                -> 0
    [] step \in {"list", "candidate"} -> 2
    [] step = "sent"                -> 3
    [] OTHER                        -> 5

\* A handler alone began after all that others have left.
AloneBeganAfter ==
  \A r \in Active \ shared :
    /\ \A i \in DOMAIN spine : spine[i].by \notin {r, None} =>
         i + Drawn(pc[r]) <= counter[r]
    /\ \A q \in Requests, b \in blobs : b.by = q /\ q # r /\ b.ref[1] = "model" =>
         b.ref[2] + Drawn(pc[r]) <= counter[r] + Slack(q)

SessionInv ==
  /\ TypeOK
  /\ FateFits
  /\ HistoryFits
  /\ AnsweredIffRecorded
  /\ ToolFits
  /\ BlobsAreOwn
  /\ ToolCallsPaired
  /\ AloneFits
  /\ AloneSeesOwn
  /\ CounterFits
  /\ NumbersFit
  /\ OwnNumbersFit
  /\ AloneBeganAfter
  /\ AloneNeverRefused

-----------------------------------------------------------------------------
(* Steps, seen from outside *)

\* What was there stays where it was.
Kept ==
  /\ Len(spine) \in Nat /\ Len(spine') \in Nat
  /\ DOMAIN spine = 1..Len(spine) /\ DOMAIN spine' = 1..Len(spine')
  /\ Len(spine) <= Len(spine') /\ Len(spine') <= Len(spine) + 1
  /\ \A i \in DOMAIN spine : i \in DOMAIN spine' /\ spine'[i] = spine[i]
  /\ blobs \subseteq blobs'

FieldsKept(q) ==
  /\ pc'[q] = pc[q] /\ fate'[q] = fate[q] /\ counter'[q] = counter[q]
  /\ decision'[q] = decision[q] /\ left'[q] = left[q] /\ tool'[q] = tool[q]
  /\ seen'[q] = seen[q] /\ trace'[q] = trace[q]

\* The step is not one of q's.
Unmoved(q) ==
  /\ FieldsKept(q)
  /\ \A i \in DOMAIN spine' : spine'[i].by = q => i \in DOMAIN spine
  /\ \A b \in blobs' : b.by = q => b \in blobs

LEMMA AppendFacts ==
  ASSUME NEW S, NEW s \in Seq(S), NEW e \in S
  PROVE  /\ Append(s, e) \in Seq(S) /\ Len(Append(s, e)) = Len(s) + 1
         /\ Len(s) \in Nat /\ DOMAIN s = 1..Len(s)
         /\ DOMAIN Append(s, e) = 1..(Len(s) + 1)
         /\ \A i \in 1..Len(s) : i \in 1..(Len(s) + 1) /\ Append(s, e)[i] = s[i]
         /\ Append(s, e)[Len(s) + 1] = e
         /\ \A i \in 1..(Len(s) + 1) : i \in 1..Len(s) \/ i = Len(s) + 1
  OBVIOUS

LEMMA EventTyped ==
  ASSUME NEW r \in Requests, NEW n \in Nat, NEW kind \in Kinds \ {"response.received"},
         NEW note \in CallIds \cup {None}, NEW blob \in Refs \cup {None}
  PROVE  Event(r, n, kind, note, blob) \in Events
  BY DEF Event, Events

LEMMA ResponseTyped ==
  ASSUME NEW r \in Requests, NEW n \in Nat, NEW note \in Decisions, NEW blob \in Refs
  PROVE  Event(r, n, "response.received", note, blob) \in Events
  BY DEF Event, Events, Responses

LEMMA OtherTyped == Event(None, 0, "other", None, None) \in Events
  BY DEF Event, Events, Kinds

\* The search runs backwards from the last event of its kind, if there is one.
LEMMA LatestTyped ==
  ASSUME TypeOK, NEW kind
  PROVE  LatestBy(kind) \in Requests \cup {None}
<1> DEFINE at == {i \in DOMAIN spine : spine[i].kind = kind}
           back == {Len(spine) - i : i \in at}
<1>t. spine \in Seq(Events) /\ Len(spine) \in Nat /\ DOMAIN spine = 1..Len(spine)
  BY DEF TypeOK
<1>1. CASE at = {}
  BY <1>1 DEF LatestBy
<1>2. CASE at # {}
  <2>1. back \subseteq Nat /\ back # {}
    BY <1>2, <1>t
  <2>2. PICK m \in back : \A y \in back : <<y, m>> \notin OpToRel(<, Nat)
    BY <2>1, WFMin, NatLessThanWellFounded, Zenon
  <2>3. \A y \in back : ~(y < m)
    BY <2>1, <2>2, Zenon DEF OpToRel
  <2>4. PICK i \in at : m = Len(spine) - i
    OBVIOUS
  <2>5. \A j \in at : j <= i
    <3> SUFFICES ASSUME NEW j \in at, ~(j <= i)
                 PROVE  FALSE
      OBVIOUS
    <3>1. Len(spine) - j \in back
      OBVIOUS
    <3>2. Len(spine) - j < m
      BY <2>4, <1>t
    <3> QED
      BY <2>3, <3>1, <3>2, Zenon
  <2>6. (CHOOSE k \in at : \A j \in at : j <= k) \in at
    BY <2>5, Zenon
  <2>7. \A k \in at : spine[k].by \in Requests \cup {None}
    BY <1>t DEF Events, Responses
  <2> QED
    BY <1>2, <2>6, <2>7 DEF LatestBy
<1> QED
  BY <1>1, <1>2

LEMMA GotoTyped ==
  ASSUME TypeOK, NEW r \in Requests, NEW to \in Steps, Goto(r, to)
  PROVE  pc' \in [Requests -> Steps]
  BY DEF Goto, TypeOK

LEMMA FateTyped ==
  ASSUME TypeOK, NEW r \in Requests, NEW f \in Fates, fate' = [fate EXCEPT ![r] = f]
  PROVE  fate' \in [Requests -> Fates]
  BY DEF TypeOK

LEMMA EndTyped ==
  ASSUME TypeOK, NEW r \in Requests, NEW f \in Fates, End(r, f)
  PROVE  pc' \in [Requests -> Steps] /\ fate' \in [Requests -> Fates]
  BY GotoTyped, FateTyped DEF End, Steps

LEMMA AppendTyped ==
  ASSUME TypeOK, NEW e \in Events, Appended(e) \/ UNCHANGED spine
  PROVE  spine' \in Seq(Events)
<1>1. Append(spine, e) \in Seq(Events) /\ spine \in Seq(Events)
  BY DEF TypeOK
<1> QED
  BY <1>1 DEF Appended

LEMMA RefusedTyped ==
  ASSUME TypeOK, NEW r \in Requests, NEW e \in Events, Refused(r, e)
  PROVE  spine' \in Seq(Events) /\ fate' \in [Requests -> Fates]
<1>1. Refusal(Used(e.n, e.kind)) \in Fates
  BY DEF Refusal, Fates
<1> QED
  BY <1>1, AppendTyped, FateTyped DEF Refused

\* An append that may be refused.
LEMMA AttemptTyped ==
  ASSUME TypeOK, NEW r \in Requests, NEW e \in Events, NEW to \in Steps, AppendThen(r, e, to)
  PROVE  /\ spine' \in Seq(Events)
         /\ pc' \in [Requests -> Steps]
         /\ fate' \in [Requests -> Fates]
<1>1. CASE Appended(e) /\ Goto(r, to) /\ UNCHANGED fate
  BY <1>1, AppendTyped, GotoTyped DEF TypeOK
<1>2. CASE Refused(r, e) /\ Goto(r, "done")
  BY <1>2, RefusedTyped, GotoTyped DEF Steps
<1> QED
  BY <1>1, <1>2 DEF AppendThen

LEMMA NextRoundTyped ==
  ASSUME TypeOK, NEW r \in Requests, NextRound(r)
  PROVE  /\ pc' \in [Requests -> Steps] /\ fate' \in [Requests -> Fates]
         /\ round' \in [Requests -> Nat]
<1>1. round' \in [Requests -> Nat]
  BY DEF NextRound, TypeOK
<1>2. pc' \in [Requests -> Steps] /\ fate' \in [Requests -> Fates]
  BY EndTyped, GotoTyped DEF NextRound, TypeOK, Steps, Fates
<1> QED
  BY <1>1, <1>2

LEMMA StepKeepsTypes == SessionInv /\ [Next]_vars => TypeOK'
<1> SUFFICES ASSUME SessionInv, [Next]_vars
             PROVE  TypeOK'
  OBVIOUS
<1>t. TypeOK /\ spine \in Seq(Events) /\ Len(spine) \in Nat
  BY DEF SessionInv, TypeOK
<1>c. /\ ConstantsAssumption /\ SentinelAssumption
  BY ConstantsAssumption, SentinelAssumption
<1>s. \A e \in Events : Append(spine, e) \in Seq(Events)
  BY <1>t
<1>1. CASE UNCHANGED vars
  BY <1>1, <1>t DEF vars, local, TypeOK
<1>2. CASE AppendOther
  BY <1>2, <1>t, <1>s, OtherTyped DEF AppendOther, local, TypeOK
<1>3. ASSUME NEW r \in Requests, Start(r)
      PROVE  TypeOK'
  <2>1. Active \subseteq Requests
    BY DEF Active
  <2> QED
    BY <1>3, <1>t, <2>1 DEF Start, Goto, TypeOK, Steps
<1>4. ASSUME NEW r \in Requests, Step(r)
      PROVE  TypeOK'
  <2> USE <1>t, <1>s
  <2>c. counter[r] \in Nat /\ counter[r] + 1 \in Nat /\ counter[r] + 2 \in Nat
    BY DEF TypeOK
  <2>n. pc[r] \in {"model", "invalid", "received"} => ResponseNo(r) \in Nat
    BY <2>c DEF SessionInv, CounterFits, ResponseNo
  <2>k. \A k \in {"turn.user", "turn.agent", "packet.candidate", "packet.rejected",
                  "packet.sent", "response.invalid", "audit.decision"}, n \in Nat :
          Event(r, n, k, None, None) \in Events
    BY EventTyped, Zenon DEF Kinds
  <2>1. CASE AppendUser(r)
    <3>1. AppendThen(r, Event(r, counter[r] + 1, "turn.user", None, None), "list")
      BY <2>1 DEF AppendUser
    <3> QED
      BY <2>1, <3>1, <2>c, <2>k, AttemptTyped DEF AppendUser, TypeOK, Steps
  <2>2. CASE ListEvents(r)
    <3>1. pc' \in [Requests -> Steps] /\ fate' \in [Requests -> Fates]
      BY <2>2, GotoTyped, EndTyped DEF ListEvents, TypeOK, Steps, Fates
    <3>2. seen' \in [Requests -> Requests \cup {None}]
      BY <2>2, LatestTyped DEF ListEvents, TypeOK
    <3> QED
      BY <2>2, <3>1, <3>2 DEF ListEvents, TypeOK
  <2>3. CASE RejectPacket(r)
    <3>1. pc' \in [Requests -> Steps] /\ fate' \in [Requests -> Fates]
      BY <2>3, EndTyped DEF RejectPacket, Fates
    <3>2. spine' \in Seq(Events)
      BY <2>3, <2>c, <2>k, AppendTyped DEF RejectPacket
    <3> QED
      BY <2>3, <2>c, <3>1, <3>2 DEF RejectPacket, TypeOK
  <2>4. CASE AppendCandidate(r)
    <3>1. AppendThen(r, Event(r, counter[r] + 1, "packet.candidate", None, None), "sent")
      BY <2>4 DEF AppendCandidate
    <3> QED
      BY <2>4, <3>1, <2>c, <2>k, AttemptTyped DEF AppendCandidate, TypeOK, Steps
  <2>5. CASE AppendSent(r)
    <3>1. AppendThen(r, Event(r, counter[r] + 2, "packet.sent", None, None), "model")
      BY <2>5 DEF AppendSent
    <3> QED
      BY <2>5, <3>1, <2>c, <2>k, AttemptTyped DEF AppendSent, TypeOK, Steps
  <2>6. CASE ModelFails(r) \/ ModelMalformed(r)
    <3>1. pc' \in [Requests -> Steps] /\ fate' \in [Requests -> Fates]
      BY <2>6, GotoTyped, FateTyped DEF ModelFails, ModelMalformed, Steps, Fates
    <3> QED
      BY <2>6, <3>1 DEF ModelFails, ModelMalformed, local, TypeOK
  <2>7. CASE AppendInvalid(r)
    <3> DEFINE e == Event(r, ResponseNo(r), "response.invalid", None, None)
    <3>1. e \in Events
      BY <2>7, <2>n, <2>k DEF AppendInvalid
    <3>2. Appended(e) \/ UNCHANGED spine
      BY <2>7 DEF AppendInvalid
    <3> HIDE DEF e
    <3>3. spine' \in Seq(Events)
      BY <3>1, <3>2, AppendTyped
    <3> QED
      BY <2>7, <3>3, GotoTyped DEF AppendInvalid, local, TypeOK, Steps
  <2>8. ASSUME NEW d \in Decisions, StoreResponse(r, d)
        PROVE  TypeOK'
    <3>1. ModelBlob(ResponseNo(r)) \in Refs
      BY <2>8, <2>n DEF StoreResponse, ModelBlob, Refs
    <3>2. [ref |-> ModelBlob(ResponseNo(r)), by |-> r] \in [ref : Refs, by : Requests]
      BY <3>1
    <3>3. Refusal(Stored(ModelBlob(ResponseNo(r)))) \in Fates
      BY DEF Refusal, Fates
    <3>4. pc' \in [Requests -> Steps] /\ fate' \in [Requests -> Fates]
      BY <2>8, <3>3, GotoTyped, FateTyped DEF StoreResponse, TypeOK, Steps
    <3>5. blobs' \subseteq [ref : Refs, by : Requests]
      BY <2>8, <3>2 DEF StoreResponse, TypeOK
    <3>6. decision' \in [Requests -> Decisions \cup {None}]
      BY <2>8 DEF StoreResponse, TypeOK
    <3> QED
      BY <2>8, <3>4, <3>5, <3>6 DEF StoreResponse, TypeOK
  <2>9. CASE AppendReceived(r)
    <3>1. pc[r] = "received" /\ decision[r] \in Decisions /\ ModelBlob(ResponseNo(r)) \in Refs
      BY <2>9, <2>n DEF AppendReceived, SessionInv, HistoryFits, TypeOK, ModelBlob, Refs
    <3> DEFINE e == Event(r, ResponseNo(r), "response.received", decision[r],
                          ModelBlob(ResponseNo(r)))
    <3>2. e \in Events
      BY <2>9, <2>n, <3>1, ResponseTyped DEF AppendReceived
    <3>3. (Appended(e) /\ UNCHANGED fate) \/ Refused(r, e)
      BY <2>9 DEF AppendReceived
    <3>4. Refusal(Used(e.n, e.kind)) \in Fates
      BY DEF Refusal, Fates
    <3> HIDE DEF e
    <3>5. spine' \in Seq(Events) /\ fate' \in [Requests -> Fates]
      BY <3>2, <3>3, <3>4 DEF Appended, Refused, TypeOK
    <3> QED
      BY <2>9, <3>5 DEF AppendReceived, Goto, local, TypeOK, Steps
  <2>10. CASE Audit(r)
    <3>1. \A k \in 1..MaxCalls : k \in Nat
      OBVIOUS
    <3>2. /\ pc' \in [Requests -> Steps] /\ fate' \in [Requests -> Fates]
          /\ round' \in [Requests -> Nat]
      <4>1. \/ \E to \in {"done", "agent", "tool"} :
                 Goto(r, to) /\ UNCHANGED <<fate, round>>
            \/ NextRound(r)
            \/ End(r, "failed") /\ UNCHANGED round
        BY <2>10 DEF Audit
      <4>2. ASSUME NEW to \in {"done", "agent", "tool"}, Goto(r, to), UNCHANGED <<fate, round>>
            PROVE  pc' \in [Requests -> Steps] /\ fate' \in [Requests -> Fates]
                   /\ round' \in [Requests -> Nat]
        BY <4>2, GotoTyped DEF TypeOK, Steps
      <4>3. CASE End(r, "failed") /\ UNCHANGED round
        BY <4>3, EndTyped DEF TypeOK, Fates
      <4> QED
        BY <4>1, <4>2, <4>3, NextRoundTyped
    <3>3. left' \in [Requests -> Nat]
      BY <2>10, <3>1 DEF Audit, TypeOK
    <3>4. spine' \in Seq(Events)
      BY <2>10, <2>k DEF Audit
    <3> QED
      BY <2>10, <3>2, <3>3, <3>4 DEF Audit, TypeOK
  <2>11. CASE RequestTool(r)
    <3>1. PICK c \in CallIds, n \in {counter[r] + 1, counter[r] + 2} :
            /\ AppendThen(r, Event(r, n, "tool.request", c, None), "run")
            /\ counter' = [counter EXCEPT ![r] = n]
            /\ tool' = [tool EXCEPT ![r] = [NoTool EXCEPT !.call = c]]
            /\ UNCHANGED <<blobs, round, decision, left, seen, trace, shared>>
      BY <2>11, <2>c DEF RequestTool, CallIds
    <3>2. Event(r, n, "tool.request", c, None) \in Events /\ n \in Nat
      BY <2>c, EventTyped DEF Kinds
    <3>3. [NoTool EXCEPT !.call = c] \in [call : CallIds \cup {None},
                                         end : ToolEnds \cup {None},
                                         blob : Refs \cup {None}]
      BY DEF NoTool
    <3> QED
      BY <3>1, <3>2, <3>3, AttemptTyped DEF TypeOK, Steps
  <2>12. CASE ToolSucceeds(r)
    <3> DEFINE ref == ToolBlob(tool[r].call)
               t   == [call |-> tool[r].call, end |-> "tool.result", blob |-> tool'[r].blob]
    <3>1. tool[r].blob = None /\ tool[r].call \in CallIds
      BY <2>12 DEF ToolSucceeds, SessionInv, ToolFits
    <3>2. ref \in Refs
      BY <3>1 DEF ToolBlob, Refs
    <3>3. blobs' = blobs \/ blobs' = blobs \cup {[ref |-> ref, by |-> r]}
      BY <2>12 DEF ToolSucceeds
    <3>4. blobs' \subseteq [ref : Refs, by : Requests]
      BY <3>2, <3>3 DEF TypeOK
    <3>5. \/ tool' = [tool EXCEPT ![r].end = "tool.result"]
          \/ tool' = [tool EXCEPT ![r].end = "tool.result", ![r].blob = ref]
      BY <2>12 DEF ToolSucceeds
    <3> HIDE DEF ref
    <3>6. tool' \in [Requests -> [call : CallIds \cup {None},
                                  end : ToolEnds \cup {None}, blob : Refs \cup {None}]]
      <4> DEFINE T == [call : CallIds \cup {None}, end : ToolEnds \cup {None},
                       blob : Refs \cup {None}]
      <4>1. tool \in [Requests -> T] /\ tool[r] \in T
        BY DEF TypeOK
      <4>2. /\ [tool[r] EXCEPT !.end = "tool.result"] \in T
            /\ [tool[r] EXCEPT !.end = "tool.result", !.blob = ref] \in T
        BY <3>2, <4>1 DEF ToolEnds
      <4>3. \/ tool' = [tool EXCEPT ![r] = [tool[r] EXCEPT !.end = "tool.result"]]
            \/ tool' = [tool EXCEPT ![r] = [tool[r] EXCEPT !.end = "tool.result",
                                                          !.blob = ref]]
        BY <3>5, <4>1
      <4> HIDE DEF T
      <4>4. tool' \in [Requests -> T]
        BY <4>1, <4>2, <4>3
      <4> QED
        BY <4>4 DEF T
    <3> QED
      BY <2>12, <3>4, <3>6 DEF ToolSucceeds, Goto, TypeOK, Steps
  <2>13. CASE ToolFails(r)
    BY <2>13 DEF ToolFails, Goto, TypeOK, Steps, ToolEnds
  <2>14. CASE AppendToolEnd(r)
    <3> DEFINE e == Event(r, counter[r] + 1, tool[r].end, tool[r].call, tool[r].blob)
    <3>1. tool[r].end \in ToolEnds /\ left[r] \in Nat \ {0}
      BY <2>14 DEF AppendToolEnd, SessionInv, ToolFits, TypeOK
    <3>2. e \in Events
      BY <3>1, <2>c, EventTyped DEF TypeOK, ToolEnds, Kinds
    <3>3. Refusal(Used(e.n, e.kind)) \in Fates
      BY DEF Refusal, Fates
    <3>4. \/ /\ Appended(e)
             /\ left' = [left EXCEPT ![r] = @ - 1]
             /\ \/ Goto(r, "tool") /\ UNCHANGED <<fate, round>>
                \/ NextRound(r)
          \/ Refused(r, e) /\ Goto(r, "done") /\ UNCHANGED <<left, round>>
      BY <2>14 DEF AppendToolEnd
    <3> HIDE DEF e
    <3>5. spine' \in Seq(Events) /\ left' \in [Requests -> Nat]
      <4>1. left[r] - 1 \in Nat
        BY <3>1
      <4>2. left' \in [Requests -> Nat]
        BY <3>4, <4>1 DEF TypeOK
      <4> QED
        BY <3>2, <3>4, <4>2, AppendTyped, RefusedTyped
    <3>6. /\ pc' \in [Requests -> Steps] /\ fate' \in [Requests -> Fates]
          /\ round' \in [Requests -> Nat]
      <4>1. CASE Goto(r, "tool") /\ UNCHANGED <<fate, round>>
        BY <4>1, GotoTyped DEF TypeOK, Steps
      <4>2. CASE Refused(r, e) /\ Goto(r, "done") /\ UNCHANGED <<left, round>>
        BY <4>2, <3>2, RefusedTyped, GotoTyped DEF TypeOK, Steps
      <4> QED
        BY <3>4, <4>1, <4>2, NextRoundTyped
    <3> QED
      BY <2>14, <2>c, <3>5, <3>6 DEF AppendToolEnd, TypeOK, NoTool
  <2>15. CASE AppendAgent(r)
    <3> DEFINE e == Event(r, counter[r] + 1, "turn.agent", None, None)
    <3>1. e \in Events
      BY <2>c, <2>k
    <3>3. \/ Appended(e) /\ Goto(r, "trace") /\ fate' = [fate EXCEPT ![r] = "answered"]
          \/ Refused(r, e) /\ Goto(r, "done")
      BY <2>15 DEF AppendAgent
    <3> HIDE DEF e
    <3>4. spine' \in Seq(Events)
      BY <3>1, <3>3, AppendTyped, RefusedTyped
    <3>5. pc' \in [Requests -> Steps]
      BY <3>3, GotoTyped DEF Steps
    <3>6. fate' \in [Requests -> Fates]
      BY <3>1, <3>3, FateTyped, RefusedTyped DEF Fates
    <3> QED
      BY <2>15, <2>c, <3>4, <3>5, <3>6 DEF AppendAgent, TypeOK
  <2>16. CASE FindTrace(r)
    BY <2>16, LatestTyped DEF FindTrace, Goto, TypeOK, Steps
  <2> QED
    BY <1>4, <2>1, <2>2, <2>3, <2>4, <2>5, <2>6, <2>7, <2>8, <2>9, <2>10, <2>11, <2>12,
       <2>13, <2>14, <2>15, <2>16 DEF Step
<1> QED
  BY <1>1, <1>2, <1>3, <1>4 DEF Next

-----------------------------------------------------------------------------
(* A handler's step, field by field *)

Put == spine'[Len(spine) + 1]

\* The id that r draws next may be taken.
Clash(r) ==
  \E i \in DOMAIN spine :
    /\ spine[i].n > counter[r]
    /\ pc[r] = "user" => spine[i].kind = "turn.user"
    /\ pc[r] # "sent" => spine[i].kind # "packet.sent"

Wrote(r) ==
  /\ Len(spine') = Len(spine) + 1 /\ Put.by = r
  /\ blobs' = blobs
  /\ decision'[r] = decision[r] /\ seen'[r] = seen[r] /\ trace'[r] = trace[r]
  /\ \/ /\ Put.kind = "turn.user" /\ Put.n = counter[r] + 1 /\ Put.blob = None
        /\ pc[r] = "user" /\ pc'[r] = "list"
        /\ counter'[r] = counter[r] + 2 /\ fate'[r] = fate[r]
     \/ /\ Put.kind = "packet.rejected" /\ Put.n = counter[r] + 1 /\ Put.blob = None
        /\ pc[r] = "candidate" /\ pc'[r] = "done"
        /\ counter'[r] = counter[r] + 1 /\ fate'[r] = "failed"
     \/ /\ Put.kind = "packet.candidate" /\ Put.n = counter[r] + 1 /\ Put.blob = None
        /\ pc[r] = "candidate" /\ pc'[r] = "sent"
        /\ counter'[r] = counter[r] + 1 /\ fate'[r] = fate[r]
     \/ /\ Put.kind = "packet.sent" /\ Put.n = counter[r] + 2 /\ Put.blob = None
        /\ pc[r] = "sent" /\ pc'[r] = "model"
        /\ counter'[r] = counter[r] + 2 /\ fate'[r] = fate[r]
     \/ /\ Put.kind = "response.invalid" /\ Put.n = counter[r] - 1 /\ Put.blob = None
        /\ pc[r] = "invalid" /\ pc'[r] = "audit"
        /\ counter'[r] = counter[r] /\ fate'[r] = fate[r]
     \/ /\ Put.kind = "response.received" /\ Put.n = counter[r] - 1
        /\ Put.note = decision[r] /\ Put.blob = ModelBlob(counter[r] - 1)
        /\ pc[r] = "received" /\ pc'[r] = "audit"
        /\ counter'[r] = counter[r] /\ fate'[r] = fate[r]
     \/ /\ Put.kind = "audit.decision" /\ Put.n = 0 /\ Put.blob = None
        /\ pc[r] = "audit" /\ counter'[r] = counter[r]
        /\ \/ pc'[r] = "done" /\ fate[r] # None /\ fate'[r] = fate[r]
           \/ fate[r] = None /\ pc'[r] = "done" /\ fate'[r] = "failed"
           \/ /\ fate[r] = None /\ fate'[r] = None
              /\ \/ pc'[r] = "agent" /\ decision[r] = "answer"
                 \/ pc'[r] = "list"
                 \/ pc'[r] = "tool" /\ left'[r] # 0
     \/ /\ Put.kind = "tool.request" /\ Put.blob = None
        /\ pc[r] = "tool" /\ pc'[r] = "run" /\ left'[r] = left[r]
        /\ tool'[r].call = Put.note /\ tool'[r].blob = None /\ Put.note \in CallIds
        /\ counter'[r] = Put.n /\ fate'[r] = fate[r]
        /\ \/ Put.n = counter[r] + 1
           \/ Put.n = counter[r] + 2 /\ Put.note = counter[r] + 1
     \/ /\ Put.kind \in ToolEnds /\ Put.n = counter[r] + 1
        /\ Put.note = tool[r].call /\ Put.blob = tool[r].blob
        /\ pc[r] = "result" /\ counter'[r] = counter[r] + 1
        /\ \/ pc'[r] = "tool" /\ fate'[r] = fate[r] /\ left'[r] # 0
           \/ pc'[r] = "list" /\ fate'[r] = fate[r]
           \/ pc'[r] = "done" /\ fate'[r] = "failed"
     \/ /\ Put.kind = "turn.agent" /\ Put.n = counter[r] + 1 /\ Put.blob = None
        /\ pc[r] = "agent" /\ pc'[r] = "trace"
        /\ counter'[r] = counter[r] + 1 /\ fate'[r] = "answered"

Silent(r) ==
  /\ spine' = spine
  /\ \/ /\ pc[r] \in {"user", "candidate", "sent", "tool", "result", "agent"}
        /\ pc'[r] = "done" /\ counter'[r] \in Nat /\ counter'[r] >= counter[r]
        /\ fate'[r] = "failed" \/ (fate'[r] = "duplicate" /\ Clash(r))
        /\ blobs' = blobs /\ seen'[r] = seen[r] /\ trace'[r] = trace[r]
     \/ /\ pc[r] = "list" /\ pc'[r] = "candidate"
        /\ seen'[r] = LatestBy("turn.user") /\ trace'[r] = trace[r]
        /\ blobs' = blobs /\ counter'[r] = counter[r] /\ fate'[r] = fate[r]
     \/ /\ pc[r] = "list" /\ pc'[r] = "done" /\ fate'[r] = "failed"
        /\ seen'[r] = seen[r] /\ trace'[r] = trace[r]
        /\ blobs' = blobs /\ counter'[r] = counter[r]
     \/ /\ pc[r] \in {"model", "received"} /\ pc'[r] \in {"audit", "invalid"}
        /\ \/ fate'[r] = "failed"
           \/ /\ fate'[r] = "duplicate" /\ pc[r] = "model"
              /\ \E b \in blobs : b.ref = ModelBlob(counter[r] - 1)
           \/ /\ fate'[r] = "duplicate" /\ pc[r] = "received"
              /\ \E i \in DOMAIN spine : /\ spine[i].n = counter[r] - 1
                                       /\ spine[i].kind = "response.received"
        /\ pc'[r] = "invalid" => fate'[r] = "failed"
        /\ seen'[r] = seen[r] /\ trace'[r] = trace[r]
        /\ blobs' = blobs /\ counter'[r] = counter[r]
     \/ /\ pc[r] = "model" /\ pc'[r] = "received" /\ decision'[r] \in Decisions
        /\ blobs' = blobs \cup {[ref |-> ModelBlob(counter[r] - 1), by |-> r]}
        /\ seen'[r] = seen[r] /\ trace'[r] = trace[r]
        /\ counter'[r] = counter[r] /\ fate'[r] = fate[r]
     \/ /\ pc[r] = "invalid" /\ pc'[r] = "audit" /\ fate'[r] = fate[r]
        /\ seen'[r] = seen[r] /\ trace'[r] = trace[r]
        /\ blobs' = blobs /\ counter'[r] = counter[r]
     \/ /\ pc[r] = "run" /\ pc'[r] = "result" /\ left'[r] = left[r]
        /\ tool'[r].call = tool[r].call /\ tool'[r].end \in ToolEnds
        /\ \/ tool'[r].blob = None /\ blobs' = blobs
           \/ /\ tool'[r].blob = ToolBlob(tool[r].call)
              /\ blobs' = blobs \cup {[ref |-> ToolBlob(tool[r].call), by |-> r]}
        /\ seen'[r] = seen[r] /\ trace'[r] = trace[r]
        /\ counter'[r] = counter[r] /\ fate'[r] = fate[r]
     \/ /\ pc[r] = "trace" /\ pc'[r] = "done" /\ fate'[r] = fate[r]
        /\ trace'[r] = {LatestBy("packet.sent"), LatestBy("response.received")}
        /\ seen'[r] = seen[r] /\ blobs' = blobs /\ counter'[r] = counter[r]

\* An append that succeeds puts its event at the end.
LEMMA AppendPuts ==
  ASSUME TypeOK, NEW e \in Events, Appended(e)
  PROVE  Len(spine') = Len(spine) + 1 /\ Put = e
<1>1. spine \in Seq(Events)
  BY DEF TypeOK
<1> QED
  BY <1>1, AppendFacts DEF Appended, Put

\* One that is refused as a duplicate has found its number and kind.
LEMMA RefusedFate ==
  ASSUME TypeOK, NEW r \in Requests, NEW e, Refused(r, e)
  PROVE  /\ spine' = spine
         /\ \/ fate'[r] = "failed"
            \/ /\ fate'[r] = "duplicate"
               /\ \E i \in DOMAIN spine : spine[i].n = e.n /\ spine[i].kind = e.kind
  BY DEF Refused, Refusal, Used, TypeOK

LEMMA GotoAt ==
  ASSUME TypeOK, NEW r \in Requests, NEW to, Goto(r, to)
  PROVE  pc'[r] = to
  BY DEF Goto, TypeOK

LEMMA EndAt ==
  ASSUME TypeOK, NEW r \in Requests, NEW f, End(r, f)
  PROVE  pc'[r] = "done" /\ fate'[r] = f
  BY GotoAt DEF End, TypeOK

LEMMA NextRoundAt ==
  ASSUME TypeOK, NEW r \in Requests, NextRound(r)
  PROVE  \/ pc'[r] = "list" /\ fate' = fate
         \/ pc'[r] = "done" /\ fate'[r] = "failed"
  BY GotoAt, EndAt DEF NextRound

\* The two outcomes of an append in the middle of a turn.
LEMMA AttemptAt ==
  ASSUME TypeOK, NEW r \in Requests, NEW e \in Events, NEW to, AppendThen(r, e, to)
  PROVE  \/ /\ Len(spine') = Len(spine) + 1 /\ Put = e
            /\ pc'[r] = to /\ fate' = fate
         \/ /\ spine' = spine /\ pc'[r] = "done"
            /\ \/ fate'[r] = "failed"
               \/ /\ fate'[r] = "duplicate"
                  /\ \E i \in DOMAIN spine : spine[i].n = e.n /\ spine[i].kind = e.kind
<1>1. CASE Appended(e) /\ Goto(r, to) /\ UNCHANGED fate
  BY <1>1, AppendPuts, GotoAt
<1>2. CASE Refused(r, e) /\ Goto(r, "done")
  BY <1>2, RefusedFate, GotoAt
<1> QED
  BY <1>1, <1>2 DEF AppendThen

LEMMA StepRows ==
  ASSUME SessionInv, NEW r \in Requests, Step(r)
  PROVE  Wrote(r) \/ Silent(r)
<1>t. TypeOK
  BY DEF SessionInv
<1>c. counter[r] \in Nat /\ counter[r] + 1 \in Nat /\ counter[r] + 2 \in Nat
  BY <1>t DEF TypeOK
<1>l. spine' = spine => Len(spine') # Len(spine) + 1
  BY <1>t DEF TypeOK
<1>n. pc[r] \in {"model", "invalid", "received"} => counter[r] - 1 \in Nat
  BY <1>c DEF SessionInv, CounterFits
<1>f. pc[r] \notin {"invalid", "audit", "trace", "done"} => fate[r] = None
  BY DEF SessionInv, FateFits
<1>k. \A k \in {"turn.user", "turn.agent", "packet.candidate", "packet.rejected",
                "packet.sent", "response.invalid", "audit.decision"}, n \in Nat :
        /\ Event(r, n, k, None, None) \in Events
        /\ Event(r, n, k, None, None).by = r /\ Event(r, n, k, None, None).n = n
        /\ Event(r, n, k, None, None).kind = k /\ Event(r, n, k, None, None).blob = None
  <2>1. \A k \in {"turn.user", "turn.agent", "packet.candidate", "packet.rejected",
                  "packet.sent", "response.invalid", "audit.decision"}, n \in Nat :
          Event(r, n, k, None, None) \in Events
    BY EventTyped, Zenon DEF Kinds
  <2> QED
    BY <2>1 DEF Event
<1>1. CASE AppendUser(r)
  <2> DEFINE e == Event(r, counter[r] + 1, "turn.user", None, None)
  <2>1. AppendThen(r, e, "list") /\ e \in Events
    BY <1>1, <1>c, <1>k DEF AppendUser
  <2>2. e.by = r /\ e.n = counter[r] + 1 /\ e.kind = "turn.user" /\ e.blob = None
    BY <1>c, <1>k
  <2>3. /\ pc[r] = "user" /\ counter'[r] = counter[r] + 2
        /\ UNCHANGED <<blobs, round, decision, left, tool, seen, trace, shared>>
    BY <1>1, <1>t DEF AppendUser, TypeOK
  <2> HIDE DEF e
  <2> QED
    <3>1. CASE spine' = spine
      <4>1. (\E i \in DOMAIN spine : spine[i].n = e.n /\ spine[i].kind = e.kind) => Clash(r)
        BY <1>c, <2>2, <2>3 DEF Clash
      <4>2. /\ pc'[r] = "done"
            /\ fate'[r] = "failed" \/ (fate'[r] = "duplicate" /\ Clash(r))
        BY <1>t, <1>c, <1>l, <2>1, <3>1, <4>1, AttemptAt
      <4> QED
        BY <1>c, <2>3, <3>1, <4>2 DEF Silent
    <3>2. CASE Len(spine') = Len(spine) + 1 /\ Put = e
      BY <1>t, <1>c, <2>1, <2>2, <2>3, <3>2, AttemptAt DEF Wrote
    <3> QED
      BY <1>t, <2>1, <3>1, <3>2, AttemptAt
<1>2. CASE ListEvents(r)
  BY <1>2, <1>t, GotoAt, EndAt DEF ListEvents, Silent, TypeOK
<1>3. CASE RejectPacket(r)
  <2> DEFINE e == Event(r, counter[r] + 1, "packet.rejected", None, None)
  <2>1. e \in Events /\ e.by = r /\ e.n = counter[r] + 1 /\ e.kind = "packet.rejected"
        /\ e.blob = None
    BY <1>c, <1>k
  <2>2. Appended(e) \/ UNCHANGED spine
    BY <1>3 DEF RejectPacket
  <2>3. /\ pc[r] = "candidate" /\ counter'[r] = counter[r] + 1
        /\ pc'[r] = "done" /\ fate'[r] = "failed"
        /\ UNCHANGED <<blobs, round, decision, left, tool, seen, trace, shared>>
    BY <1>3, <1>t, EndAt DEF RejectPacket, TypeOK
  <2> HIDE DEF e
  <2> QED
    <3>1. CASE Appended(e)
      BY <1>t, <2>1, <2>3, <3>1, AppendPuts DEF Wrote
    <3>2. CASE spine' = spine
      BY <1>c, <2>3, <3>2 DEF Silent
    <3> QED
      BY <2>2, <3>1, <3>2
<1>4. CASE AppendCandidate(r)
  <2> DEFINE e == Event(r, counter[r] + 1, "packet.candidate", None, None)
  <2>1. AppendThen(r, e, "sent") /\ e \in Events
    BY <1>4, <1>c, <1>k DEF AppendCandidate
  <2>2. e.by = r /\ e.n = counter[r] + 1 /\ e.kind = "packet.candidate" /\ e.blob = None
    BY <1>c, <1>k
  <2>3. /\ pc[r] = "candidate" /\ counter'[r] = counter[r] + 1
        /\ UNCHANGED <<blobs, round, decision, left, tool, seen, trace, shared>>
    BY <1>4, <1>t DEF AppendCandidate, TypeOK
  <2> HIDE DEF e
  <2> QED
    <3>1. CASE spine' = spine
      <4>1. (\E i \in DOMAIN spine : spine[i].n = e.n /\ spine[i].kind = e.kind) => Clash(r)
        BY <1>c, <2>2, <2>3 DEF Clash
      <4>2. /\ pc'[r] = "done"
            /\ fate'[r] = "failed" \/ (fate'[r] = "duplicate" /\ Clash(r))
        BY <1>t, <1>c, <1>l, <2>1, <3>1, <4>1, AttemptAt
      <4> QED
        BY <1>c, <2>3, <3>1, <4>2 DEF Silent
    <3>2. CASE Len(spine') = Len(spine) + 1 /\ Put = e
      BY <1>t, <1>c, <2>1, <2>2, <2>3, <3>2, AttemptAt DEF Wrote
    <3> QED
      BY <1>t, <2>1, <3>1, <3>2, AttemptAt
<1>5. CASE AppendSent(r)
  <2> DEFINE e == Event(r, counter[r] + 2, "packet.sent", None, None)
  <2>1. AppendThen(r, e, "model") /\ e \in Events
    BY <1>5, <1>c, <1>k DEF AppendSent
  <2>2. e.by = r /\ e.n = counter[r] + 2 /\ e.kind = "packet.sent" /\ e.blob = None
    BY <1>c, <1>k
  <2>3. /\ pc[r] = "sent" /\ counter'[r] = counter[r] + 2
        /\ UNCHANGED <<blobs, round, decision, left, tool, seen, trace, shared>>
    BY <1>5, <1>t DEF AppendSent, TypeOK
  <2> HIDE DEF e
  <2> QED
    <3>1. CASE spine' = spine
      <4>1. (\E i \in DOMAIN spine : spine[i].n = e.n /\ spine[i].kind = e.kind) => Clash(r)
        BY <1>c, <2>2, <2>3 DEF Clash
      <4>2. /\ pc'[r] = "done"
            /\ fate'[r] = "failed" \/ (fate'[r] = "duplicate" /\ Clash(r))
        BY <1>t, <1>c, <1>l, <2>1, <3>1, <4>1, AttemptAt
      <4> QED
        BY <1>c, <2>3, <3>1, <4>2 DEF Silent
    <3>2. CASE Len(spine') = Len(spine) + 1 /\ Put = e
      BY <1>t, <1>c, <2>1, <2>2, <2>3, <3>2, AttemptAt DEF Wrote
    <3> QED
      BY <1>t, <2>1, <3>1, <3>2, AttemptAt
<1>6. CASE ModelFails(r) \/ ModelMalformed(r)
  BY <1>6, <1>t, GotoAt DEF ModelFails, ModelMalformed, local, Silent, TypeOK
<1>7. CASE AppendInvalid(r)
  <2> DEFINE e == Event(r, counter[r] - 1, "response.invalid", None, None)
  <2>1. e \in Events /\ e.by = r /\ e.n = counter[r] - 1 /\ e.kind = "response.invalid"
        /\ e.blob = None
    BY <1>7, <1>n, <1>k DEF AppendInvalid
  <2>2. Appended(e) \/ UNCHANGED spine
    BY <1>7 DEF AppendInvalid, ResponseNo
  <2>3. pc[r] = "invalid" /\ pc'[r] = "audit" /\ UNCHANGED <<blobs, fate, local>>
    BY <1>7, <1>t, GotoAt DEF AppendInvalid
  <2> HIDE DEF e
  <2> QED
    BY <1>t, <2>1, <2>2, <2>3, AppendPuts DEF Wrote, Silent, local
<1>8. ASSUME NEW d \in Decisions, StoreResponse(r, d)
      PROVE  Wrote(r) \/ Silent(r)
  <2>1. /\ pc[r] = "model" /\ decision'[r] = d
        /\ UNCHANGED <<spine, counter, round, left, tool, seen, trace, shared>>
    BY <1>8, <1>t DEF StoreResponse, TypeOK
  <2>2. \/ /\ blobs' = blobs \cup {[ref |-> ModelBlob(counter[r] - 1), by |-> r]}
           /\ pc'[r] = "received" /\ fate' = fate
        \/ /\ fate'[r] = Refusal(Stored(ModelBlob(counter[r] - 1)))
           /\ pc'[r] = "audit" /\ blobs' = blobs
    BY <1>8, <1>t, GotoAt DEF StoreResponse, ResponseNo, TypeOK
  <2> QED
    BY <2>1, <2>2 DEF Refusal, Stored, Silent
<1>9. CASE AppendReceived(r)
  <2> DEFINE e == Event(r, counter[r] - 1, "response.received", decision[r],
                        ModelBlob(counter[r] - 1))
  <2>1. /\ pc[r] = "received" /\ pc'[r] = "audit" /\ UNCHANGED <<blobs, local>>
        /\ (Appended(e) /\ UNCHANGED fate) \/ Refused(r, e)
    BY <1>9, <1>t, GotoAt DEF AppendReceived, ResponseNo
  <2>2. decision[r] \in Decisions /\ ModelBlob(counter[r] - 1) \in Refs
    BY <2>1, <1>n DEF SessionInv, HistoryFits, TypeOK, ModelBlob, Refs
  <2>3. e \in Events
    BY <2>1, <2>2, <1>n, ResponseTyped
  <2>4. e.by = r /\ e.n = counter[r] - 1 /\ e.kind = "response.received"
        /\ e.note = decision[r] /\ e.blob = ModelBlob(counter[r] - 1)
    BY DEF Event
  <2> HIDE DEF e
  <2>5. \/ Len(spine') = Len(spine) + 1 /\ Put = e /\ fate' = fate
        \/ /\ spine' = spine
           /\ \/ fate'[r] = "failed"
              \/ /\ fate'[r] = "duplicate"
                 /\ \E i \in DOMAIN spine : spine[i].n = e.n /\ spine[i].kind = e.kind
    BY <1>t, <2>1, <2>3, AppendPuts, RefusedFate
  <2> QED
    BY <2>1, <2>4, <2>5 DEF Wrote, Silent, local
<1>10. CASE Audit(r)
  <2> DEFINE e == Event(r, 0, "audit.decision", None, None)
  <2>1. e \in Events /\ e.by = r /\ e.n = 0 /\ e.kind = "audit.decision" /\ e.blob = None
    BY <1>k
  <2>2. pc[r] = "audit" /\ UNCHANGED <<blobs, counter, decision, tool, seen, trace, shared>>
    BY <1>10 DEF Audit
  <2>3. Len(spine') = Len(spine) + 1 /\ Put = e
    BY <1>10, <1>t, <2>1, AppendFacts DEF Audit, Put, TypeOK
  <2>4. \/ fate[r] # None /\ Goto(r, "done") /\ fate' = fate
        \/ fate[r] = None /\ decision[r] = "answer" /\ Goto(r, "agent") /\ fate' = fate
        \/ fate[r] = None /\ NextRound(r)
        \/ fate[r] = None /\ End(r, "failed")
        \/ /\ fate[r] = None /\ Goto(r, "tool") /\ fate' = fate
           /\ \E k \in 1..MaxCalls : left' = [left EXCEPT ![r] = k]
    BY <1>10 DEF Audit
  <2>5. \/ fate[r] # None /\ pc'[r] = "done" /\ fate'[r] = fate[r]
        \/ fate[r] = None /\ pc'[r] = "done" /\ fate'[r] = "failed"
        \/ /\ fate[r] = None /\ fate'[r] = None
           /\ \/ pc'[r] = "agent" /\ decision[r] = "answer"
              \/ pc'[r] = "list"
              \/ /\ pc'[r] = "tool"
                 /\ \E k \in 1..MaxCalls : left' = [left EXCEPT ![r] = k]
    BY <1>t, <2>4, GotoAt, EndAt, NextRoundAt
  <2>6. (\E k \in 1..MaxCalls : left' = [left EXCEPT ![r] = k]) => left'[r] # 0
    BY <1>t DEF TypeOK
  <2> HIDE DEF e
  <2> QED
    BY <2>1, <2>2, <2>3, <2>5, <2>6 DEF Wrote
<1>11. CASE RequestTool(r)
  <2>1. PICK c \in CallIds, n \in {counter[r] + 1, counter[r] + 2} :
          /\ AppendThen(r, Event(r, n, "tool.request", c, None), "run")
          /\ counter' = [counter EXCEPT ![r] = n]
          /\ tool' = [tool EXCEPT ![r] = [NoTool EXCEPT !.call = c]]
          /\ UNCHANGED <<blobs, round, decision, left, seen, trace, shared>>
          /\ pc[r] = "tool"
          /\ n = counter[r] + 2 => c = counter[r] + 1
    <3>0. PICK named \in IF Unnamed THEN BOOLEAN ELSE {TRUE} :
            \E c \in IF named THEN CallNames ELSE {counter[r] + 1} :
              LET n == counter[r] + (IF named THEN 1 ELSE 2) IN
                /\ AppendThen(r, Event(r, n, "tool.request", c, None), "run")
                /\ counter' = [counter EXCEPT ![r] = n]
                /\ tool' = [tool EXCEPT ![r] = [NoTool EXCEPT !.call = c]]
      BY <1>11 DEF RequestTool
    <3>1. PICK c \in IF named THEN CallNames ELSE {counter[r] + 1} :
            LET n == counter[r] + (IF named THEN 1 ELSE 2) IN
              /\ AppendThen(r, Event(r, n, "tool.request", c, None), "run")
              /\ counter' = [counter EXCEPT ![r] = n]
              /\ tool' = [tool EXCEPT ![r] = [NoTool EXCEPT !.call = c]]
      BY <3>0
    <3>2. c \in CallIds
      BY <1>c DEF CallIds
    <3>3. pc[r] = "tool" /\ UNCHANGED <<blobs, round, decision, left, seen, trace, shared>>
      BY <1>11 DEF RequestTool
    <3>4. CASE named
      <4>1. counter[r] + 1 # counter[r] + 2
        BY <1>c
      <4> QED
        BY <3>1, <3>2, <3>3, <3>4, <4>1
    <3>5. CASE ~named
      BY <3>1, <3>2, <3>3, <3>5
    <3> QED
      BY <3>4, <3>5
  <2> DEFINE e == Event(r, n, "tool.request", c, None)
  <2>2. e \in Events
    BY <1>c, EventTyped DEF Kinds
  <2>3. e.by = r /\ e.n = n /\ e.kind = "tool.request" /\ e.note = c /\ e.blob = None
    BY DEF Event
  <2>4. counter'[r] = n /\ tool'[r].call = c /\ tool'[r].blob = None
    BY <1>t, <2>1 DEF TypeOK, NoTool
  <2>5. AppendThen(r, e, "run")
    BY <2>1
  <2> HIDE DEF e
  <2> QED
    <3>1. CASE spine' = spine
      <4>1. (\E i \in DOMAIN spine : spine[i].n = e.n /\ spine[i].kind = e.kind) => Clash(r)
        BY <1>c, <2>1, <2>3 DEF Clash
      <4>2. /\ pc'[r] = "done"
            /\ fate'[r] = "failed" \/ (fate'[r] = "duplicate" /\ Clash(r))
        BY <1>t, <1>l, <2>2, <2>5, <3>1, <4>1, AttemptAt
      <4> QED
        BY <1>c, <2>1, <2>4, <3>1, <4>2 DEF Silent
    <3>2. CASE Len(spine') = Len(spine) + 1 /\ Put = e
      <4>1. pc'[r] = "run" /\ fate'[r] = fate[r]
        BY <1>t, <1>l, <2>2, <2>5, <3>2, AttemptAt
      <4> QED
        BY <1>c, <2>1, <2>3, <2>4, <3>2, <4>1 DEF Wrote
    <3> QED
      BY <1>t, <2>2, <2>5, <3>1, <3>2, AttemptAt
<1>12. CASE ToolSucceeds(r)
  <2>1. pc[r] = "run" /\ tool[r].blob = None
    BY <1>12 DEF ToolSucceeds, SessionInv, ToolFits
  <2>2. /\ pc'[r] = "result"
        /\ UNCHANGED <<spine, counter, round, decision, left, fate, seen, trace, shared>>
    BY <1>12, <1>t, GotoAt DEF ToolSucceeds
  <2>3. \/ tool' = [tool EXCEPT ![r].end = "tool.result"] /\ blobs' = blobs
        \/ /\ tool' = [tool EXCEPT ![r].end = "tool.result",
                                   ![r].blob = ToolBlob(tool[r].call)]
           /\ blobs' = blobs \cup {[ref |-> ToolBlob(tool[r].call), by |-> r]}
    BY <1>12 DEF ToolSucceeds
  <2>4. \/ /\ tool'[r].call = tool[r].call /\ tool'[r].end = "tool.result"
           /\ tool'[r].blob = tool[r].blob /\ blobs' = blobs
        \/ /\ tool'[r].call = tool[r].call /\ tool'[r].end = "tool.result"
           /\ tool'[r].blob = ToolBlob(tool[r].call)
           /\ blobs' = blobs \cup {[ref |-> ToolBlob(tool[r].call), by |-> r]}
    BY <1>t, <2>3 DEF TypeOK
  <2> QED
    BY <2>1, <2>2, <2>4 DEF Silent, ToolEnds
<1>13. CASE ToolFails(r)
  <2>1. pc[r] = "run" /\ tool[r].blob = None
    BY <1>13 DEF ToolFails, SessionInv, ToolFits
  <2>2. /\ tool'[r].call = tool[r].call /\ tool'[r].end = "tool.failure"
        /\ tool'[r].blob = tool[r].blob
    BY <1>13, <1>t DEF ToolFails, TypeOK
  <2> QED
    BY <1>13, <1>t, <2>1, <2>2, GotoAt DEF ToolFails, Silent, ToolEnds
<1>14. CASE AppendToolEnd(r)
  <2> DEFINE e == Event(r, counter[r] + 1, tool[r].end, tool[r].call, tool[r].blob)
  <2>1. /\ pc[r] = "result" /\ counter'[r] = counter[r] + 1
        /\ UNCHANGED <<blobs, decision, seen, trace, shared>>
    BY <1>14, <1>t DEF AppendToolEnd, TypeOK
  <2>2. tool[r].end \in ToolEnds /\ tool[r].end \in Kinds \ {"response.received"}
    BY <2>1 DEF SessionInv, ToolFits, ToolEnds, Kinds
  <2>3. e \in Events
    BY <1>t, <1>c, <2>2, EventTyped DEF TypeOK
  <2>4. e.by = r /\ e.n = counter[r] + 1 /\ e.kind = tool[r].end /\ e.note = tool[r].call
        /\ e.blob = tool[r].blob
    BY DEF Event
  <2>5. \/ /\ Appended(e) /\ left' = [left EXCEPT ![r] = @ - 1]
           /\ (left[r] > 1 /\ Goto(r, "tool") /\ fate' = fate) \/ NextRound(r)
        \/ Refused(r, e) /\ Goto(r, "done")
    BY <1>14 DEF AppendToolEnd
  <2> HIDE DEF e
  <2>6. \/ /\ Len(spine') = Len(spine) + 1 /\ Put = e
           /\ \/ /\ left[r] > 1 /\ left' = [left EXCEPT ![r] = @ - 1]
                 /\ pc'[r] = "tool" /\ fate' = fate
              \/ pc'[r] = "list" /\ fate' = fate
              \/ pc'[r] = "done" /\ fate'[r] = "failed"
        \/ /\ spine' = spine /\ pc'[r] = "done"
           /\ \/ fate'[r] = "failed"
              \/ /\ fate'[r] = "duplicate"
                 /\ \E i \in DOMAIN spine : spine[i].n = e.n /\ spine[i].kind = e.kind
    BY <1>t, <2>3, <2>5, AppendPuts, RefusedFate, GotoAt, NextRoundAt
  <2>7. left[r] > 1 /\ left' = [left EXCEPT ![r] = @ - 1] => left'[r] # 0
    BY <1>t DEF TypeOK
  <2> QED
    <3>1. CASE spine' = spine
      <4>1. (\E i \in DOMAIN spine : spine[i].n = e.n /\ spine[i].kind = e.kind) => Clash(r)
        BY <1>c, <2>1, <2>2, <2>4 DEF Clash, ToolEnds
      <4> QED
        BY <1>c, <1>l, <2>1, <2>6, <3>1, <4>1 DEF Silent
    <3>2. CASE Len(spine') = Len(spine) + 1 /\ Put = e
      BY <1>l, <2>1, <2>2, <2>4, <2>6, <2>7, <3>2 DEF Wrote
    <3> QED
      BY <2>6, <3>1, <3>2
<1>15. CASE AppendAgent(r)
  <2> DEFINE e == Event(r, counter[r] + 1, "turn.agent", None, None)
  <2>1. e \in Events /\ e.by = r /\ e.n = counter[r] + 1 /\ e.kind = "turn.agent"
        /\ e.blob = None
    BY <1>c, <1>k
  <2>2. /\ pc[r] = "agent" /\ counter'[r] = counter[r] + 1
        /\ UNCHANGED <<blobs, round, decision, left, tool, seen, trace, shared>>
        /\ \/ Appended(e) /\ Goto(r, "trace") /\ fate' = [fate EXCEPT ![r] = "answered"]
           \/ Refused(r, e) /\ Goto(r, "done")
    BY <1>15, <1>t DEF AppendAgent, TypeOK
  <2> HIDE DEF e
  <2>3. \/ /\ Len(spine') = Len(spine) + 1 /\ Put = e
           /\ pc'[r] = "trace" /\ fate'[r] = "answered"
        \/ /\ spine' = spine /\ pc'[r] = "done"
           /\ \/ fate'[r] = "failed"
              \/ /\ fate'[r] = "duplicate"
                 /\ \E i \in DOMAIN spine : spine[i].n = e.n /\ spine[i].kind = e.kind
    BY <1>t, <2>1, <2>2, AppendPuts, RefusedFate, GotoAt DEF TypeOK
  <2> QED
    <3>1. CASE spine' = spine
      <4>1. (\E i \in DOMAIN spine : spine[i].n = e.n /\ spine[i].kind = e.kind) => Clash(r)
        BY <1>c, <2>1, <2>2 DEF Clash
      <4> QED
        BY <1>c, <1>l, <2>2, <2>3, <3>1, <4>1 DEF Silent
    <3>2. CASE Len(spine') = Len(spine) + 1 /\ Put = e
      BY <1>l, <2>1, <2>2, <2>3, <3>2 DEF Wrote
    <3> QED
      BY <2>3, <3>1, <3>2
<1>16. CASE FindTrace(r)
  BY <1>16, <1>t, GotoAt DEF FindTrace, Silent, TypeOK
<1> QED
  BY <1>1, <1>2, <1>3, <1>4, <1>5, <1>6, <1>7, <1>8, <1>9, <1>10, <1>11, <1>12,
     <1>13, <1>14, <1>15, <1>16 DEF Step

\* Another handler's fields are not touched.
LEMMA StepFields ==
  ASSUME TypeOK, NEW r \in Requests, NEW q \in Requests, q # r, Step(r)
  PROVE  FieldsKept(q)
<1> USE DEF FieldsKept, Goto, TypeOK
<1>1. CASE AppendUser(r)
  BY <1>1 DEF AppendUser, AppendThen, Refused
<1>2. CASE ListEvents(r)
  BY <1>2 DEF ListEvents, End
<1>3. CASE RejectPacket(r)
  BY <1>3 DEF RejectPacket, End
<1>4. CASE AppendCandidate(r)
  BY <1>4 DEF AppendCandidate, AppendThen, Refused
<1>5. CASE AppendSent(r)
  BY <1>5 DEF AppendSent, AppendThen, Refused
<1>6. CASE ModelFails(r) \/ ModelMalformed(r)
  BY <1>6 DEF ModelFails, ModelMalformed, local
<1>7. CASE AppendInvalid(r)
  BY <1>7 DEF AppendInvalid, local
<1>8. ASSUME NEW d \in Decisions, StoreResponse(r, d)
      PROVE  FieldsKept(q)
  BY <1>8 DEF StoreResponse
<1>9. CASE AppendReceived(r)
  BY <1>9 DEF AppendReceived, Refused, local
<1>10. CASE Audit(r)
  BY <1>10 DEF Audit, NextRound, End
<1>11. CASE RequestTool(r)
  BY <1>11 DEF RequestTool, AppendThen, Refused
<1>12. CASE ToolSucceeds(r)
  BY <1>12 DEF ToolSucceeds
<1>13. CASE ToolFails(r)
  BY <1>13 DEF ToolFails
<1>14. CASE AppendToolEnd(r)
  BY <1>14 DEF AppendToolEnd, NextRound, Refused, End
<1>15. CASE AppendAgent(r)
  BY <1>15 DEF AppendAgent, Refused
<1>16. CASE FindTrace(r)
  BY <1>16 DEF FindTrace
<1> QED
  BY <1>1, <1>2, <1>3, <1>4, <1>5, <1>6, <1>7, <1>8, <1>9, <1>10, <1>11, <1>12,
     <1>13, <1>14, <1>15, <1>16 DEF Step

\* Steps append, and none but Start marks a handler as overlapped.
LEMMA StepAppends ==
  ASSUME NEW r \in Requests, Step(r)
  PROVE  (spine' = spine \/ \E e : spine' = Append(spine, e)) /\ shared' = shared
<1>1. CASE AppendUser(r)
  BY <1>1 DEF AppendUser, AppendThen, Appended, Refused
<1>2. CASE ListEvents(r)
  BY <1>2 DEF ListEvents
<1>3. CASE RejectPacket(r)
  BY <1>3 DEF RejectPacket, Appended
<1>4. CASE AppendCandidate(r)
  BY <1>4 DEF AppendCandidate, AppendThen, Appended, Refused
<1>5. CASE AppendSent(r)
  BY <1>5 DEF AppendSent, AppendThen, Appended, Refused
<1>6. CASE ModelFails(r) \/ ModelMalformed(r)
  BY <1>6 DEF ModelFails, ModelMalformed, local
<1>7. CASE AppendInvalid(r)
  BY <1>7 DEF AppendInvalid, Appended, local
<1>8. ASSUME NEW d \in Decisions, StoreResponse(r, d)
      PROVE  spine' = spine /\ shared' = shared
  BY <1>8 DEF StoreResponse
<1>9. CASE AppendReceived(r)
  BY <1>9 DEF AppendReceived, Appended, Refused, local
<1>10. CASE Audit(r)
  BY <1>10 DEF Audit
<1>11. CASE RequestTool(r)
  BY <1>11 DEF RequestTool, AppendThen, Appended, Refused
<1>12. CASE ToolSucceeds(r)
  BY <1>12 DEF ToolSucceeds
<1>13. CASE ToolFails(r)
  BY <1>13 DEF ToolFails
<1>14. CASE AppendToolEnd(r)
  BY <1>14 DEF AppendToolEnd, Appended, Refused
<1>15. CASE AppendAgent(r)
  BY <1>15 DEF AppendAgent, Appended, Refused
<1>16. CASE FindTrace(r)
  BY <1>16 DEF FindTrace
<1> QED
  BY <1>1, <1>2, <1>3, <1>4, <1>5, <1>6, <1>7, <1>8, <1>9, <1>10, <1>11, <1>12,
     <1>13, <1>14, <1>15, <1>16 DEF Step

\* A step is made by one handler, which begins or goes on, or by none.
Began(r) ==
  /\ spine' = spine /\ blobs' = blobs
  /\ pc[r] = "idle" /\ pc'[r] = "user" /\ counter'[r] = Len(spine)
  /\ fate'[r] = fate[r] /\ seen'[r] = seen[r] /\ trace'[r] = trace[r]
  /\ shared' = IF Active = {} THEN shared ELSE shared \cup Active \cup {r}

Moved(r) ==
  /\ Began(r) \/ ((Wrote(r) \/ Silent(r)) /\ shared' = shared)
  /\ \A q \in Requests : q # r => Unmoved(q)

Outside ==
  /\ \A q \in Requests : Unmoved(q)
  /\ shared' = shared /\ blobs' = blobs
  /\ \/ spine' = spine
     \/ /\ Len(spine') = Len(spine) + 1
        /\ Put.by = None /\ Put.n = 0 /\ Put.kind = "other" /\ Put.blob = None

LEMMA StepMoves ==
  ASSUME SessionInv, [Next]_vars
  PROVE  /\ TypeOK' /\ Kept
         /\ Outside \/ \E r \in Requests : Moved(r)
<1>t. TypeOK /\ TypeOK'
  BY StepKeepsTypes DEF SessionInv
<1>s. /\ spine \in Seq(Events) /\ Len(spine) \in Nat /\ DOMAIN spine = 1..Len(spine)
      /\ spine' \in Seq(Events) /\ Len(spine') \in Nat /\ DOMAIN spine' = 1..Len(spine')
  BY <1>t DEF TypeOK
<1>a. ASSUME NEW e \in Events, spine' = Append(spine, e)
      PROVE  /\ Len(spine') = Len(spine) + 1 /\ Put = e
             /\ \A i \in DOMAIN spine : i \in DOMAIN spine' /\ spine'[i] = spine[i]
             /\ \A i \in DOMAIN spine' : i \in DOMAIN spine \/ i = Len(spine) + 1
  BY <1>s, <1>a, AppendFacts DEF Put
<1>1. CASE UNCHANGED vars
  BY <1>1, <1>t, <1>s DEF vars, local, Kept, Outside, Unmoved, FieldsKept
<1>2. CASE AppendOther
  <2> DEFINE e == Event(None, 0, "other", None, None)
  <2>1. e \in Events /\ e.by = None /\ e.n = 0 /\ e.kind = "other" /\ e.blob = None
    BY OtherTyped DEF Event
  <2>2. spine' = Append(spine, e) /\ UNCHANGED <<blobs, pc, fate, local>>
    BY <1>2 DEF AppendOther
  <2> HIDE DEF e
  <2>3. /\ Len(spine') = Len(spine) + 1 /\ Put = e
        /\ \A i \in DOMAIN spine : i \in DOMAIN spine' /\ spine'[i] = spine[i]
        /\ \A i \in DOMAIN spine' : i \in DOMAIN spine \/ i = Len(spine) + 1
    BY <1>a, <2>1, <2>2
  <2>4. Kept
    BY <1>s, <2>2, <2>3 DEF Kept
  <2>5. \A q \in Requests : q # None
    BY SentinelAssumption
  <2>6. ASSUME NEW q \in Requests
        PROVE  Unmoved(q)
    <3>1. FieldsKept(q)
      BY <2>2 DEF local, FieldsKept
    <3>2. spine'[Len(spine) + 1].by # q
      BY <2>1, <2>3, <2>5 DEF Put
    <3> QED
      BY <2>2, <2>3, <3>1, <3>2 DEF Unmoved
  <2> QED
    BY <1>t, <2>1, <2>2, <2>3, <2>4, <2>6 DEF Outside, local
<1>3. ASSUME NEW r \in Requests, Start(r)
      PROVE  Kept /\ Moved(r)
  <2>1. Began(r)
    BY <1>3, <1>t DEF Start, Goto, Began, TypeOK
  <2>2. \A q \in Requests : q # r => FieldsKept(q)
    BY <1>3, <1>t DEF Start, Goto, FieldsKept, TypeOK
  <2> QED
    BY <1>s, <2>1, <2>2 DEF Kept, Moved, Began, Unmoved
<1>4. ASSUME NEW r \in Requests, Step(r)
      PROVE  Kept /\ Moved(r)
  <2>1. Wrote(r) \/ Silent(r)
    BY <1>4, StepRows
  <2>2. \A q \in Requests : q # r => FieldsKept(q)
    BY <1>4, <1>t, StepFields
  <2>3. shared' = shared
    BY <1>4, StepAppends
  <2>4. CASE Silent(r)
    <3>1. /\ blobs \subseteq blobs' /\ spine' = spine
          /\ \A b \in blobs' : b \in blobs \/ b.by = r
      BY <2>4 DEF Silent
    <3> QED
      BY <1>s, <2>2, <2>3, <2>4, <3>1 DEF Kept, Moved, Unmoved
  <2>5. CASE Wrote(r)
    <3>1. blobs' = blobs /\ Len(spine') = Len(spine) + 1 /\ spine'[Len(spine) + 1].by = r
      BY <2>5 DEF Wrote, Put
    <3>2. \A i \in DOMAIN spine : i \in DOMAIN spine' /\ spine'[i] = spine[i]
      <4>1. PICK e : spine' = Append(spine, e)
        BY <1>4, <1>s, <3>1, StepAppends
      <4> QED
        BY <1>s, <4>1
    <3>3. \A i \in DOMAIN spine' : i \in DOMAIN spine \/ i = Len(spine) + 1
      BY <1>s, <3>1
    <3> QED
      BY <1>s, <2>2, <2>3, <2>5, <3>1, <3>2, <3>3 DEF Kept, Moved, Unmoved
  <2> QED
    BY <2>1, <2>4, <2>5
<1> QED
  BY <1>1, <1>2, <1>3, <1>4, <1>t DEF Next

-----------------------------------------------------------------------------
(* What each handler has on the spine *)

\* The event just written is there, the ones before it have not moved.
LEMMA WrittenAt ==
  ASSUME Kept, NEW r, Wrote(r)
  PROVE  /\ Len(spine) + 1 \in DOMAIN spine' /\ spine'[Len(spine) + 1] = Put /\ Put.by = r
         /\ \A i \in DOMAIN spine : i < Len(spine) + 1
         /\ \A i \in DOMAIN spine' : i \in DOMAIN spine \/ i = Len(spine) + 1
  BY DEF Kept, Wrote, Put

\* A step appends one event at most.
LEMMA GrownAt ==
  ASSUME Kept, NEW i \in DOMAIN spine', i \notin DOMAIN spine
  PROVE  i = Len(spine) + 1 /\ Len(spine') = Len(spine) + 1 /\ spine'[i] = Put
<1>1. /\ Len(spine) \in Nat /\ Len(spine') \in Nat
      /\ i \in 1..Len(spine') /\ i \notin 1..Len(spine) /\ Len(spine') <= Len(spine) + 1
  BY DEF Kept
<1>2. i = Len(spine) + 1 /\ Len(spine') = Len(spine) + 1
  BY <1>1
<1> QED
  BY <1>2 DEF Put

LEMMA FateFitsKept ==
  ASSUME SessionInv, Kept, Outside \/ \E r \in Requests : Moved(r)
  PROVE  FateFits'
<1> SUFFICES ASSUME NEW q \in Requests
             PROVE  FateFits!(q)'
  BY DEF FateFits
<1>1. FateFits!(q)
  BY DEF SessionInv, FateFits
<1>2. CASE Unmoved(q)
  BY <1>1, <1>2 DEF Unmoved, FieldsKept, Kept
<1>3. CASE Moved(q)
  <2>1. None \notin {"answered", "failed", "duplicate"}
    BY SentinelAssumption
  <2>2. CASE Began(q)
    BY <1>1, <2>1, <2>2 DEF Began
  <2>3. CASE Wrote(q)
    BY <1>1, <2>1, <2>3 DEF Wrote
  <2>4. CASE Silent(q)
    BY <1>1, <2>1, <2>4 DEF Silent
  <2> QED
    BY <1>3, <2>2, <2>3, <2>4 DEF Moved
<1> QED
  BY <1>2, <1>3 DEF Outside, Moved

\* What a handler has on the spine it keeps.
LEMMA HistoryStays ==
  ASSUME Kept, NEW q
  PROVE  /\ Asked(q) => Asked(q)'
         /\ Packed(q) => Packed(q)'
         /\ \A n : Sent(q, n) =>
              \E u \in EventsOf(q, "turn.user")', c \in EventsOf(q, "packet.candidate")',
                 x \in EventsOf(q, "packet.sent")' :
                u < c /\ c < x /\ spine'[x].n = n
         /\ \A d : Received(q, d) =>
              \E u \in EventsOf(q, "turn.user")', c \in EventsOf(q, "packet.candidate")',
                 x \in EventsOf(q, "packet.sent")', m \in EventsOf(q, "response.received")' :
                /\ u < c /\ c < x /\ x < m
                /\ spine'[m].note = d
                /\ spine'[x].n = spine'[m].n + 1
                /\ OwnBlob(m)'
<1>1. \A k, i : i \in EventsOf(q, k) =>
        i \in EventsOf(q, k)' /\ spine'[i] = spine[i] /\ (OwnBlob(i) => OwnBlob(i)')
  BY DEF Kept, EventsOf, OwnBlob
<1>2. Asked(q) => Asked(q)'
  BY <1>1 DEF Asked
<1>3. Packed(q) => Packed(q)'
  BY <1>1 DEF Packed
<1>4. ASSUME NEW n, Sent(q, n)
      PROVE  \E u \in EventsOf(q, "turn.user")', c \in EventsOf(q, "packet.candidate")',
                x \in EventsOf(q, "packet.sent")' :
               u < c /\ c < x /\ spine'[x].n = n
  BY <1>1, <1>4 DEF Sent
<1>5. ASSUME NEW d, Received(q, d)
      PROVE  \E u \in EventsOf(q, "turn.user")', c \in EventsOf(q, "packet.candidate")',
                x \in EventsOf(q, "packet.sent")', m \in EventsOf(q, "response.received")' :
               /\ u < c /\ c < x /\ x < m
               /\ spine'[m].note = d
               /\ spine'[x].n = spine'[m].n + 1
               /\ OwnBlob(m)'
  BY <1>1, <1>5 DEF Received
<1> QED
  BY <1>2, <1>3, <1>4, <1>5

\* And adds to it with what it appends.
LEMMA HistoryGrows ==
  ASSUME Kept, NEW r, Wrote(r)
  PROVE  /\ Put.kind = "turn.user" => Asked(r)'
         /\ Put.kind = "packet.candidate" /\ Asked(r) => Packed(r)'
         /\ /\ Put.kind = "response.received" /\ Sent(r, Put.n + 1)
            /\ [ref |-> Put.blob, by |-> r] \in blobs
            => \E u \in EventsOf(r, "turn.user")', c \in EventsOf(r, "packet.candidate")',
                  x \in EventsOf(r, "packet.sent")', m \in EventsOf(r, "response.received")' :
                 /\ u < c /\ c < x /\ x < m
                 /\ spine'[m].note = Put.note
                 /\ spine'[x].n = spine'[m].n + 1
                 /\ OwnBlob(m)'
<1> DEFINE new == Len(spine) + 1
<1>1. \A k, i : i \in EventsOf(r, k) => i \in EventsOf(r, k)' /\ spine'[i] = spine[i] /\ i < new
  BY DEF Kept, EventsOf
<1>2. \A k : k = Put.kind => new \in EventsOf(r, k)'
  BY WrittenAt DEF EventsOf
<1>3. spine'[new] = Put
  BY DEF Put
<1> HIDE DEF new
<1>4. Put.kind = "turn.user" => Asked(r)'
  BY <1>2 DEF Asked
<1>5. Put.kind = "packet.candidate" /\ Asked(r) => Packed(r)'
  BY <1>1, <1>2 DEF Asked, Packed
<1>7. ASSUME Put.kind = "response.received", Sent(r, Put.n + 1),
             [ref |-> Put.blob, by |-> r] \in blobs
      PROVE  \E u \in EventsOf(r, "turn.user")', c \in EventsOf(r, "packet.candidate")',
                x \in EventsOf(r, "packet.sent")', m \in EventsOf(r, "response.received")' :
               /\ u < c /\ c < x /\ x < m
               /\ spine'[m].note = Put.note
               /\ spine'[x].n = spine'[m].n + 1
               /\ OwnBlob(m)'
  <2>1. /\ new \in EventsOf(r, "response.received")'
        /\ [ref |-> spine'[new].blob, by |-> spine'[new].by] \in blobs'
    BY <1>2, <1>3, <1>7, WrittenAt DEF Kept
  <2>2. PICK u \in EventsOf(r, "turn.user"), c \in EventsOf(r, "packet.candidate"),
             x \in EventsOf(r, "packet.sent") :
          u < c /\ c < x /\ spine[x].n = Put.n + 1
    BY <1>7 DEF Sent
  <2> QED
    BY <1>1, <1>3, <2>1, <2>2 DEF OwnBlob
<1> QED
  BY <1>4, <1>5, <1>7

LEMMA SentGrows ==
  ASSUME Kept, NEW r, Wrote(r), Put.kind = "packet.sent", Packed(r)
  PROVE  \E u \in EventsOf(r, "turn.user")', c \in EventsOf(r, "packet.candidate")',
            x \in EventsOf(r, "packet.sent")' :
           u < c /\ c < x /\ spine'[x].n = Put.n
<1> DEFINE new == Len(spine) + 1
<1>1. \A k, i : i \in EventsOf(r, k) => i \in EventsOf(r, k)' /\ i < new
  BY DEF Kept, EventsOf
<1>2. new \in EventsOf(r, "packet.sent")' /\ spine'[new] = Put
  BY WrittenAt DEF EventsOf
<1> HIDE DEF new
<1>3. PICK u \in EventsOf(r, "turn.user"), c \in EventsOf(r, "packet.candidate") : u < c
  BY DEF Packed
<1> QED
  BY <1>1, <1>2, <1>3

LEMMA HistoryFitsKept ==
  ASSUME SessionInv, Kept, Outside \/ \E r \in Requests : Moved(r)
  PROVE  HistoryFits'
<1> SUFFICES ASSUME NEW q \in Requests
             PROVE  HistoryFits!(q)'
  BY DEF HistoryFits
<1>1. HistoryFits!(q) /\ FateFits!(q)
  BY DEF SessionInv, HistoryFits, FateFits
<1>n. None \notin Decisions \cup {"failed", "duplicate", "answered"}
  BY SentinelAssumption
<1>c. counter[q] \in Nat
  BY DEF SessionInv, TypeOK
<1>2. CASE Unmoved(q)
  <2>1. FieldsKept(q) /\ blobs \subseteq blobs'
    BY <1>2 DEF Unmoved, Kept
  <2> QED
    <3>1. pc'[q] \in {"model", "received"} => Sent(q, counter[q])'
      <4>1. ASSUME pc'[q] \in {"model", "received"}
            PROVE  \E u \in EventsOf(q, "turn.user")', c \in EventsOf(q, "packet.candidate")',
                      x \in EventsOf(q, "packet.sent")' :
                     u < c /\ c < x /\ spine'[x].n = counter[q]
        <5>1. Sent(q, counter[q])
          BY <1>1, <2>1, <4>1 DEF FieldsKept
        <5> QED
          BY <5>1, HistoryStays
      <4>2. counter'[q] = counter[q]
        BY <2>1 DEF FieldsKept
      <4> QED
        BY <4>1, <4>2 DEF Sent
    <3>2. ASSUME pc'[q] = "audit", fate'[q] = None
          PROVE  Received(q, decision[q])'
      <4>1. Received(q, decision[q]) /\ decision'[q] = decision[q]
        BY <1>1, <2>1, <3>2 DEF FieldsKept
      <4> QED
        BY <4>1, HistoryStays DEF Received
    <3>3. ASSUME pc'[q] = "agent"
          PROVE  Received(q, "answer")'
      <4>1. Received(q, "answer")
        BY <1>1, <2>1, <3>3 DEF FieldsKept
      <4> QED
        BY <4>1, HistoryStays DEF Received
    <3> QED
      BY <1>1, <2>1, <3>1, <3>2, <3>3, HistoryStays DEF FieldsKept, ResponseNo
<1>3. CASE Began(q)
  BY <1>1, <1>3 DEF Began
<1>4. CASE Wrote(q)
  <2>1. pc'[q] \in {"list", "candidate", "tool", "run", "result"} => Asked(q)'
    BY <1>1, <1>4, HistoryStays, HistoryGrows DEF Wrote
  <2>2. pc'[q] = "sent" => Packed(q)'
    BY <1>1, <1>4, HistoryGrows DEF Wrote
  <2>3. pc'[q] \in {"model", "received"} => Put.kind = "packet.sent" /\ pc'[q] = "model"
                                             /\ Packed(q) /\ Put.n = counter'[q]
    BY <1>1, <1>4 DEF Wrote
  <2>4. ASSUME pc'[q] \in {"model", "received"}
        PROVE  Sent(q, counter[q])'
    <3>1. \E u \in EventsOf(q, "turn.user")', c \in EventsOf(q, "packet.candidate")',
             x \in EventsOf(q, "packet.sent")' :
            u < c /\ c < x /\ spine'[x].n = Put.n
      <4>1. Put.kind = "packet.sent" /\ Packed(q)
        BY <2>3, <2>4
      <4> QED
        BY <1>4, <4>1, SentGrows
    <3> QED
      BY <2>3, <2>4, <3>1 DEF Sent
  <2>5. ASSUME pc'[q] = "audit", fate'[q] = None
        PROVE  Asked(q)' /\ Received(q, decision[q])'
    <3>1. /\ pc[q] = "received" /\ Put.kind = "response.received" /\ Put.n = counter[q] - 1
          /\ Put.note = decision'[q] /\ Put.blob = ModelBlob(counter[q] - 1)
      BY <1>1, <1>4, <1>n, <2>5 DEF Wrote
    <3>2. Sent(q, Put.n + 1)
      BY <1>1, <1>c, <3>1, Put.n + 1 = counter[q]
    <3>3. Asked(q)
      BY <3>2 DEF Sent, Asked
    <3> QED
      BY <1>1, <1>4, <3>1, <3>2, <3>3, HistoryStays, HistoryGrows DEF Received, ResponseNo
  <2>6. ASSUME pc'[q] = "agent"
        PROVE  Received(q, "answer")'
    <3>1. Received(q, "answer")
      BY <1>1, <1>4, <2>6 DEF Wrote
    <3> QED
      BY <3>1, HistoryStays DEF Received
  <2> QED
    BY <2>1, <2>2, <2>3, <2>4, <2>5, <2>6
<1>5. CASE Silent(q)
  <2>1. pc'[q] \in {"list", "candidate", "tool", "run", "result"} => Asked(q)'
    BY <1>1, <1>5, HistoryStays DEF Silent
  <2>2. pc'[q] # "sent" /\ pc'[q] # "agent"
    BY <1>5 DEF Silent
  <2>3. pc'[q] \in {"model", "received"} =>
          /\ pc[q] = "model" /\ pc'[q] = "received" /\ decision'[q] # None
          /\ counter'[q] = counter[q]
          /\ [ref |-> ModelBlob(counter[q] - 1), by |-> q] \in blobs'
    BY <1>5, <1>n DEF Silent
  <2>4. pc'[q] \in {"model", "received"} => Sent(q, counter[q])'
    BY <1>1, <2>3, HistoryStays DEF Sent
  <2>5. ~(pc'[q] = "audit" /\ fate'[q] = None)
    BY <1>1, <1>5, <1>n DEF Silent
  <2> QED
    BY <2>1, <2>2, <2>3, <2>4, <2>5 DEF ResponseNo
<1> QED
  BY <1>2, <1>3, <1>4, <1>5 DEF Outside, Moved

LEMMA AnsweredKept ==
  ASSUME SessionInv, Kept, Outside \/ \E r \in Requests : Moved(r)
  PROVE  AnsweredIffRecorded'
<1> SUFFICES ASSUME NEW q \in Requests
             PROVE  AnsweredIffRecorded!(q)'
  BY DEF AnsweredIffRecorded
<1> DEFINE agent == EventsOf(q, "turn.agent")
<1>1. /\ fate[q] # "answered" => agent = {}
      /\ fate[q] = "answered" =>
           /\ Cardinality(agent) = 1
           /\ \E a \in agent : Received(q, "answer") /\
                \E u \in EventsOf(q, "turn.user"), c \in EventsOf(q, "packet.candidate"),
                   x \in EventsOf(q, "packet.sent"), m \in EventsOf(q, "response.received") :
                  /\ u < c /\ c < x /\ x < m /\ m < a
                  /\ spine[m].note = "answer"
                  /\ spine[x].n = spine[m].n + 1
                  /\ OwnBlob(m)
  BY DEF SessionInv, AnsweredIffRecorded, Received
<1>2. ASSUME agent' = agent, fate'[q] = "answered" <=> fate[q] = "answered"
      PROVE  AnsweredIffRecorded!(q)'
  <2>1. CASE fate[q] # "answered"
    BY <1>1, <1>2, <2>1
  <2>2. CASE fate[q] = "answered"
    <3>1. \A k, i : i \in EventsOf(q, k) =>
            i \in EventsOf(q, k)' /\ spine'[i] = spine[i] /\ (OwnBlob(i) => OwnBlob(i)')
      BY DEF Kept, EventsOf, OwnBlob
    <3>2. PICK a \in agent, u \in EventsOf(q, "turn.user"), c \in EventsOf(q, "packet.candidate"),
               x \in EventsOf(q, "packet.sent"), m \in EventsOf(q, "response.received") :
            /\ u < c /\ c < x /\ x < m /\ m < a
            /\ spine[m].note = "answer"
            /\ spine[x].n = spine[m].n + 1
            /\ OwnBlob(m)
      BY <1>1, <2>2
    <3>3. a \in agent' /\ Cardinality(agent') = 1
      BY <1>1, <1>2, <2>2
    <3> QED
      BY <1>2, <2>2, <3>1, <3>2, <3>3
  <2> QED
    BY <2>1, <2>2
<1>3. CASE Unmoved(q)
  <2>1. agent' = agent
    BY <1>3 DEF Unmoved, Kept, EventsOf
  <2> QED
    BY <1>2, <1>3, <2>1 DEF Unmoved, FieldsKept
<1>4. CASE Began(q)
  BY <1>2, <1>4 DEF Began, EventsOf
<1>5. CASE Silent(q)
  <2>1. fate[q] = "answered" => pc[q] \in {"trace", "done"}
    BY DEF SessionInv, FateFits
  <2>2. fate'[q] = "answered" <=> fate[q] = "answered"
    BY <1>5, <2>1 DEF Silent
  <2> QED
    BY <1>2, <1>5, <2>2 DEF Silent, EventsOf
<1>6. CASE Wrote(q)
  <2>1. fate[q] = "answered" => pc[q] \in {"trace", "done"}
    BY DEF SessionInv, FateFits
  <2>2. CASE Put.kind # "turn.agent"
    <3>1. fate'[q] = "answered" <=> fate[q] = "answered"
      BY <1>6, <2>1, <2>2 DEF Wrote
    <3>2. agent' = agent
      BY <1>6, <2>2, WrittenAt DEF Kept, EventsOf
    <3> QED
      BY <1>2, <3>1, <3>2
  <2>3. CASE Put.kind = "turn.agent"
    <3>1. pc[q] = "agent" /\ fate'[q] = "answered"
      BY <1>6, <2>3 DEF Wrote, ToolEnds
    <3>2. Received(q, "answer") /\ agent = {}
      BY <1>1, <2>1, <3>1 DEF SessionInv, HistoryFits
    <3>3. agent' = {Len(spine) + 1}
      BY <1>6, <2>3, <3>2, WrittenAt DEF Kept, EventsOf
    <3>4. Cardinality(agent') = 1
      BY <3>3, FS_Singleton
    <3>5. PICK u \in EventsOf(q, "turn.user")', c \in EventsOf(q, "packet.candidate")',
               x \in EventsOf(q, "packet.sent")', m \in EventsOf(q, "response.received")' :
            /\ u < c /\ c < x /\ x < m
            /\ spine'[m].note = "answer"
            /\ spine'[x].n = spine'[m].n + 1
            /\ OwnBlob(m)'
      BY <3>2, HistoryStays
    <3>6. m < Len(spine) + 1
      <4>1. m \in DOMAIN spine'
        BY DEF EventsOf
      <4>2. m # Len(spine) + 1
        BY <2>3, <1>6, WrittenAt DEF EventsOf
      <4> QED
        BY <1>6, <4>1, <4>2, WrittenAt
    <3> QED
      BY <3>1, <3>3, <3>4, <3>5, <3>6
  <2> QED
    BY <2>2, <2>3
<1> QED
  BY <1>3, <1>4, <1>5, <1>6 DEF Outside, Moved

LEMMA BlobsKept ==
  ASSUME SessionInv, Kept, Outside \/ \E r \in Requests : Moved(r)
  PROVE  BlobsAreOwn'
<1> SUFFICES ASSUME NEW i \in DOMAIN spine', spine'[i].blob # None
             PROVE  [ref |-> spine'[i].blob, by |-> spine'[i].by] \in blobs'
  BY DEF BlobsAreOwn, OwnBlob
<1>1. CASE i \in DOMAIN spine
  BY <1>1 DEF SessionInv, BlobsAreOwn, OwnBlob, Kept
<1>2. CASE i \notin DOMAIN spine
  <2>1. i = Len(spine) + 1 /\ Len(spine') = Len(spine) + 1 /\ spine'[i] = Put
    BY <1>2, GrownAt
  <2>2. ~Outside
    BY <2>1 DEF Outside, Kept
  <2>3. PICK r \in Requests : Wrote(r)
    BY <2>1, <2>2 DEF Moved, Began, Silent, Kept
  <2>4. \/ pc[r] = "received" /\ Put.blob = ModelBlob(counter[r] - 1)
        \/ pc[r] = "result" /\ Put.blob = tool[r].blob
    BY <2>1, <2>3 DEF Wrote
  <2>5. [ref |-> Put.blob, by |-> r] \in blobs
    BY <2>1, <2>4 DEF SessionInv, HistoryFits, ToolFits, ResponseNo
  <2> QED
    BY <2>1, <2>3, <2>5 DEF Wrote, Kept
<1> QED
  BY <1>1, <1>2

LEMMA ToolFitsKept ==
  ASSUME SessionInv, Kept, Outside \/ \E r \in Requests : Moved(r)
  PROVE  ToolFits'
<1> SUFFICES ASSUME NEW q \in Requests
             PROVE  ToolFits!(q)'
  BY DEF ToolFits
<1>1. ToolFits!(q)
  BY DEF SessionInv, ToolFits
<1>2. CASE Unmoved(q)
  <2>1. FieldsKept(q) /\ blobs \subseteq blobs'
    BY <1>2 DEF Unmoved, Kept
  <2>2. ASSUME NEW i \in DOMAIN spine', spine'[i].by = q,
               \A k \in (i + 1)..Len(spine') : spine'[k].by # q
        PROVE  /\ i \in DOMAIN spine /\ spine'[i] = spine[i]
               /\ spine[i].by = q /\ \A k \in (i + 1)..Len(spine) : spine[k].by # q
    BY <1>2, <2>2 DEF Unmoved, Kept
  <2> QED
    BY <1>1, <2>1, <2>2 DEF FieldsKept
<1>3. CASE Began(q)
  BY <1>1, <1>3 DEF Began
<1>4. CASE Silent(q)
  <2>1. spine' = spine
    BY <1>4 DEF Silent
  <2>2. /\ pc'[q] \in {"tool", "run", "result"} => left'[q] # 0
        /\ pc'[q] = "run" => tool'[q].blob = None /\ tool'[q].call \in CallIds
        /\ pc'[q] = "result" =>
             /\ tool'[q].end \in ToolEnds
             /\ tool'[q].blob # None => [ref |-> tool'[q].blob, by |-> q] \in blobs'
    BY <1>1, <1>4 DEF Silent
  <2>3. /\ pc'[q] \in {"run", "result"} =>
             pc[q] \in {"run", "result"} /\ tool'[q].call = tool[q].call
        /\ pc'[q] \notin {"run", "result", "done"} => pc[q] \notin {"run", "result", "done"}
    BY <1>4 DEF Silent
  <2> QED
    BY <1>1, <2>1, <2>2, <2>3
<1>5. CASE Wrote(q)
  <2>1. ASSUME NEW i \in DOMAIN spine', spine'[i].by = q,
               \A k \in (i + 1)..Len(spine') : spine'[k].by # q
        PROVE  spine'[i] = Put
    <3>1. i \in 1..(Len(spine) + 1) /\ Len(spine) \in Nat /\ Len(spine') = Len(spine) + 1
      BY <1>5 DEF Kept, Wrote
    <3>2. CASE i # Len(spine) + 1
      <4>1. Len(spine) + 1 \in (i + 1)..Len(spine')
        BY <3>1, <3>2
      <4> QED
        BY <1>5, <2>1, <4>1, WrittenAt
    <3> QED
      BY <1>5, <3>2, WrittenAt
  <2>2. /\ pc'[q] \in {"tool", "run", "result"} => left'[q] # 0
        /\ pc'[q] = "run" => tool'[q].blob = None /\ tool'[q].call \in CallIds
        /\ pc'[q] # "result"
    BY <1>1, <1>5 DEF Wrote
  <2>3. /\ pc'[q] = "run" => Put.kind = "tool.request" /\ Put.note = tool'[q].call
        /\ pc'[q] \notin {"run", "result", "done"} => Put.kind # "tool.request"
    BY <1>5 DEF Wrote, ToolEnds
  <2> QED
    BY <2>1, <2>2, <2>3
<1> QED
  BY <1>2, <1>3, <1>4, <1>5 DEF Outside, Moved

LEMMA PairedKept ==
  ASSUME SessionInv, Kept, Outside \/ \E r \in Requests : Moved(r)
  PROVE  ToolCallsPaired'
<1> SUFFICES ASSUME NEW i \in DOMAIN spine', NEW j \in (i + 1)..Len(spine'),
                    spine'[i].kind = "tool.request" \/ spine'[j].kind \in ToolEnds,
                    Follows(i, j)'
             PROVE  /\ spine'[i].kind = "tool.request"
                    /\ spine'[j].kind \in ToolEnds
                    /\ spine'[i].note = spine'[j].note
  BY DEF ToolCallsPaired
<1>1. /\ spine'[i].by = spine'[j].by /\ spine'[i].by # None
      /\ \A k \in (i + 1)..(j - 1) : spine'[k].by # spine'[i].by
  BY DEF Follows
<1>2. /\ i \in DOMAIN spine /\ spine'[i] = spine[i] /\ i \in Nat
      /\ \A k \in (i + 1)..Len(spine) : spine'[k] = spine[k]
      /\ j \in (i + 1)..Len(spine) \/ j = Len(spine) + 1
  BY DEF Kept
<1>3. CASE j \in (i + 1)..Len(spine)
  <2>1. Follows(i, j)
    BY <1>1, <1>2, <1>3 DEF Follows, Kept
  <2> QED
    BY <1>2, <1>3, <2>1 DEF SessionInv, ToolCallsPaired
<1>4. CASE j = Len(spine) + 1
  <2>1. spine'[j] = Put /\ Len(spine') = Len(spine) + 1 /\ Len(spine) \in Nat
    <3>1. j \in DOMAIN spine' /\ j \notin DOMAIN spine /\ Len(spine) \in Nat
      BY <1>2, <1>4 DEF Kept
    <3> QED
      BY <3>1, GrownAt
  <2>2. ~Outside
    BY <1>1, <2>1 DEF Outside, Kept
  <2>3. PICK r \in Requests : Wrote(r)
    BY <2>1, <2>2 DEF Moved, Began, Silent, Kept
  <2>4. spine[i].by = r /\ \A k \in (i + 1)..Len(spine) : spine[k].by # r
    BY <1>1, <1>2, <1>4, <2>1, <2>3 DEF Wrote
  <2>5. /\ pc[r] \in {"run", "result"} =>
             spine[i].kind = "tool.request" /\ spine[i].note = tool[r].call
        /\ pc[r] \notin {"run", "result", "done"} => spine[i].kind # "tool.request"
    BY <1>2, <2>4 DEF SessionInv, ToolFits
  <2>6. CASE Put.kind \in ToolEnds
    <3>1. pc[r] = "result" /\ Put.note = tool[r].call
      BY <2>3, <2>6 DEF Wrote, ToolEnds
    <3> QED
      BY <1>2, <2>1, <2>5, <2>6, <3>1
  <2>7. CASE Put.kind \notin ToolEnds
    <3>1. pc[r] \notin {"run", "result", "done"}
      BY <2>3, <2>7 DEF Wrote
    <3> QED
      BY <1>2, <2>1, <2>5, <2>7, <3>1
  <2> QED
    BY <2>6, <2>7
<1> QED
  BY <1>2, <1>3, <1>4

-----------------------------------------------------------------------------
(* What a handler alone reads *)

\* A handler that is still alone after a step was alone before it, and has
\* made the step itself unless no handler has.
LEMMA AloneMoves ==
  ASSUME SessionInv, Outside \/ \E r \in Requests : Moved(r),
         NEW q \in Requests, q \in Active', q \notin shared'
  PROVE  q \notin shared /\ Active' = {q} /\ (Outside \/ Moved(q))
<1>1. q \notin shared /\ q \in Active => Active = {q}
  BY DEF SessionInv, AloneFits
<1>2. CASE Outside
  <2>1. Active' = Active
    BY <1>2 DEF Outside, Unmoved, FieldsKept, Active
  <2> QED
    BY <1>1, <1>2, <2>1 DEF Outside
<1>3. ASSUME NEW r \in Requests, Moved(r)
      PROVE  q \notin shared /\ Active' = {q} /\ Moved(q)
  <2>1. \A p \in Requests : p # r => (p \in Active' <=> p \in Active)
    BY <1>3 DEF Moved, Unmoved, FieldsKept, Active
  <2>2. CASE Began(r)
    <3>1. r \in Active' /\ Active' \subseteq Requests /\ Active \subseteq Requests
      BY <2>2 DEF Began, Active
    <3>2. Active = {} /\ shared' = shared
      BY <2>1, <2>2, <3>1 DEF Began
    <3> QED
      BY <1>3, <2>1, <3>1, <3>2
  <2>3. CASE (Wrote(r) \/ Silent(r)) /\ shared' = shared
    <3>1. pc[r] \notin {"idle", "done"}
      BY <2>3 DEF Wrote, Silent
    <3>2. r \in Active /\ Active' \subseteq Requests
      BY <3>1 DEF Active
    <3>3. q \in Active
      BY <2>1, <3>2
    <3> QED
      BY <1>1, <1>3, <2>1, <2>3, <3>2, <3>3
  <2> QED
    BY <1>3, <2>2, <2>3 DEF Moved
<1> QED
  BY <1>2, <1>3

LEMMA LatestStays ==
  ASSUME Kept, NEW q, NEW kind, Latest(q, kind),
         spine' = spine \/ Put.kind # kind
  PROVE  Latest(q, kind)'
<1>1. PICK i \in EventsOf(q, kind) : \A j \in DOMAIN spine : spine[j].kind = kind => j <= i
  BY DEF Latest
<1>2. i \in EventsOf(q, kind)'
  BY DEF Kept, EventsOf
<1>3. ASSUME NEW j \in DOMAIN spine', spine'[j].kind = kind
      PROVE  j <= i
  <2>1. CASE j \in DOMAIN spine
    BY <1>1, <1>3, <2>1 DEF Kept
  <2>2. CASE j \notin DOMAIN spine
    BY <1>3, <2>2, GrownAt
  <2> QED
    BY <2>1, <2>2
<1> QED
  BY <1>2, <1>3 DEF Latest

LEMMA LatestPut ==
  ASSUME Kept, NEW q, NEW kind, Wrote(q), Put.kind = kind
  PROVE  Latest(q, kind)'
<1> DEFINE new == Len(spine) + 1
<1>1. /\ new \in DOMAIN spine' /\ spine'[new] = Put /\ Put.by = q
      /\ \A i \in DOMAIN spine' : i <= new
  BY WrittenAt DEF Kept
<1> HIDE DEF new
<1> QED
  BY <1>1 DEF Latest, EventsOf

\* The search finds the latest.
LEMMA LatestFound ==
  ASSUME TypeOK, NEW q, NEW kind, Latest(q, kind)
  PROVE  LatestBy(kind) = q
<1> DEFINE at == {i \in DOMAIN spine : spine[i].kind = kind}
<1>1. PICK i \in EventsOf(q, kind) : \A j \in DOMAIN spine : spine[j].kind = kind => j <= i
  BY DEF Latest
<1>2. i \in at /\ spine[i].by = q /\ \A j \in at : j <= i
  BY <1>1 DEF EventsOf
<1>3. (CHOOSE k \in at : \A j \in at : j <= k) \in at
      /\ \A j \in at : j <= (CHOOSE k \in at : \A j2 \in at : j2 <= k)
  BY <1>2, Zenon
<1>4. \A k \in at : k \in Nat
  BY DEF TypeOK
<1>5. \A k \in at : i <= k /\ k <= i => k = i
  BY <1>2, <1>4
<1>6. (CHOOSE k \in at : \A j \in at : j <= k) = i
  BY <1>2, <1>3, <1>5
<1> QED
  BY <1>2, <1>6 DEF LatestBy

LEMMA AloneFitsKept ==
  ASSUME SessionInv, Kept, Outside \/ \E r \in Requests : Moved(r)
  PROVE  AloneFits'
<1> SUFFICES ASSUME NEW q \in Requests \ shared'
             PROVE  AloneFits!(q)'
  BY DEF AloneFits
<1>1. CASE q \notin Active'
  BY <1>1 DEF Active
<1>2. CASE q \in Active'
  <2>1. q \notin shared /\ Active' = {q} /\ (Outside \/ Moved(q))
    BY <1>2, AloneMoves
  <2>2. AloneFits!(q) /\ FateFits!(q)
    BY <2>1 DEF SessionInv, AloneFits, FateFits
  <2>3. CASE Outside
    <3>1. FieldsKept(q)
      BY <2>3 DEF Outside, Unmoved
    <3>2. \A kind \in {"turn.user", "packet.sent", "response.received"} :
            Latest(q, kind) => Latest(q, kind)'
      BY <2>3, LatestStays DEF Outside
    <3> QED
      BY <2>1, <2>2, <3>1, <3>2 DEF FieldsKept
  <2>4. CASE Began(q)
    BY <2>1, <2>4 DEF Began
  <2>5. CASE Silent(q)
    <3>1. \A kind \in {"turn.user", "packet.sent", "response.received"} :
            Latest(q, kind) => Latest(q, kind)'
      BY <2>5, LatestStays DEF Silent
    <3>2. /\ pc'[q] \notin {"idle", "user", "done"} => pc[q] \notin {"idle", "user", "done"}
          /\ pc'[q] \notin {"agent", "trace"} /\ ~(pc'[q] = "audit" /\ fate'[q] = None)
          /\ pc'[q] \in {"model", "received"} => pc[q] = "model"
      BY <2>2, <2>5, SentinelAssumption DEF Silent
    <3> QED
      BY <2>1, <2>2, <3>1, <3>2
  <2>6. CASE Wrote(q)
    <3>1. \A kind \in {"turn.user", "packet.sent", "response.received"} :
            Latest(q, kind) \/ Put.kind = kind => Latest(q, kind)'
      BY <2>6, LatestStays, LatestPut
    <3>2. pc'[q] \notin {"idle", "user", "done"} => Latest(q, "turn.user") \/ Put.kind = "turn.user"
      BY <2>2, <2>6 DEF Wrote
    <3>3. pc'[q] \in {"model", "received", "agent", "trace"} \/ (pc'[q] = "audit" /\ fate'[q] = None)
            => Latest(q, "packet.sent") \/ Put.kind = "packet.sent"
      BY <2>2, <2>6, SentinelAssumption DEF Wrote
    <3>4. pc'[q] \in {"agent", "trace"} \/ (pc'[q] = "audit" /\ fate'[q] = None)
            => Latest(q, "response.received") \/ Put.kind = "response.received"
      BY <2>2, <2>6, SentinelAssumption DEF Wrote
    <3> QED
      BY <2>1, <3>1, <3>2, <3>3, <3>4
  <2> QED
    BY <2>1, <2>3, <2>4, <2>5, <2>6 DEF Moved
<1> QED
  BY <1>1, <1>2

LEMMA AloneSeesKept ==
  ASSUME SessionInv, Kept, Outside \/ \E r \in Requests : Moved(r)
  PROVE  AloneSeesOwn'
<1> SUFFICES ASSUME NEW q \in Requests, q \notin shared'
             PROVE  seen'[q] \in {None, q} /\ trace'[q] \subseteq {q}
  BY DEF AloneSeesOwn
<1>1. q \notin shared
  BY DEF Outside, Moved, Began
<1>2. seen[q] \in {None, q} /\ trace[q] \subseteq {q}
  BY <1>1 DEF SessionInv, AloneSeesOwn
<1>3. CASE Unmoved(q)
  BY <1>2, <1>3 DEF Unmoved, FieldsKept
<1>4. CASE Began(q) \/ Wrote(q)
  BY <1>2, <1>4 DEF Began, Wrote
<1>5. CASE Silent(q)
  <2>1. CASE pc[q] = "list" /\ seen'[q] = LatestBy("turn.user") /\ trace'[q] = trace[q]
    <3>1. Latest(q, "turn.user")
      BY <1>1, <2>1 DEF SessionInv, AloneFits
    <3> QED
      BY <1>2, <2>1, <3>1, LatestFound DEF SessionInv
  <2>2. CASE /\ pc[q] = "trace" /\ seen'[q] = seen[q]
             /\ trace'[q] = {LatestBy("packet.sent"), LatestBy("response.received")}
    <3>1. Latest(q, "packet.sent") /\ Latest(q, "response.received")
      BY <1>1, <2>2 DEF SessionInv, AloneFits
    <3> QED
      BY <1>2, <2>2, <3>1, LatestFound DEF SessionInv
  <2>3. CASE seen'[q] = seen[q] /\ trace'[q] = trace[q]
    BY <1>2, <2>3
  <2> QED
    BY <1>5, <2>1, <2>2, <2>3 DEF Silent
<1> QED
  BY <1>3, <1>4, <1>5 DEF Outside, Moved

-----------------------------------------------------------------------------
(* The numbers that handlers draw *)

LEMMA UnnamedStep ==
  ASSUME SessionInv, Kept, NEW q \in Requests
  PROVE  /\ UnnamedNo(q) \in Nat
         /\ Unmoved(q) \/ Began(q) \/ Silent(q) => UnnamedNo(q)' = UnnamedNo(q)
         /\ Wrote(q) =>
              UnnamedNo(q)' = UnnamedNo(q) +
                (IF Put.kind = "tool.request" /\ Put.note = Put.n - 1 THEN 1 ELSE 0)
<1> DEFINE U == UnnamedCalls(q)
<1>1. IsFiniteSet(U) /\ Cardinality(U) \in Nat
  <2>1. IsFiniteSet(1..Len(spine))
    BY FS_Interval DEF Kept
  <2>2. U \subseteq 1..Len(spine)
    BY DEF UnnamedCalls, EventsOf, Kept
  <2> QED
    BY <2>1, <2>2, FS_Subset, FS_CardinalityType
<1>2. U' = {i \in DOMAIN spine' : /\ spine'[i].by = q /\ spine'[i].kind = "tool.request"
                                 /\ spine'[i].note = spine'[i].n - 1}
  BY DEF UnnamedCalls, EventsOf
<1>3. U = {i \in DOMAIN spine : /\ spine[i].by = q /\ spine[i].kind = "tool.request"
                               /\ spine[i].note = spine[i].n - 1}
  BY DEF UnnamedCalls, EventsOf
<1> HIDE DEF U
<1>4. CASE Unmoved(q) \/ Began(q) \/ Silent(q)
  <2>1. U' = U
    BY <1>2, <1>3, <1>4 DEF Unmoved, Began, Silent, Kept
  <2>2. ~Wrote(q) \/ ~(Put.kind = "tool.request" /\ Put.note = Put.n - 1)
    <3>1. ASSUME Wrote(q)
          PROVE  FALSE
      BY <1>4, <3>1, WrittenAt DEF Unmoved, Began, Silent, Kept
    <3> QED
      BY <3>1
  <2> QED
    BY <1>1, <2>1, <2>2 DEF UnnamedNo, U
<1>5. CASE Wrote(q)
  <2>1. CASE Put.kind = "tool.request" /\ Put.note = Put.n - 1
    <3>1. U' = U \cup {Len(spine) + 1} /\ Len(spine) + 1 \notin U
      BY <1>2, <1>3, <1>5, <2>1, WrittenAt DEF Kept
    <3>2. Cardinality(U') = Cardinality(U) + 1
      BY <1>1, <3>1, FS_AddElement
    <3> QED
      BY <1>1, <1>4, <2>1, <3>2 DEF UnnamedNo, U
  <2>2. CASE ~(Put.kind = "tool.request" /\ Put.note = Put.n - 1)
    <3>1. U' = U
      BY <1>2, <1>3, <1>5, <2>2, WrittenAt DEF Kept
    <3> QED
      BY <1>1, <1>4, <2>2, <3>1 DEF UnnamedNo, U
  <2> QED
    BY <2>1, <2>2
<1> QED
  BY <1>1, <1>4, <1>5 DEF UnnamedNo, U

LEMMA CountersKept ==
  ASSUME SessionInv, Kept, Outside \/ \E r \in Requests : Moved(r)
  PROVE  CounterFits'
<1> SUFFICES ASSUME NEW q \in Requests
             PROVE  CounterFits!(q)'
  BY DEF CounterFits
<1>1. CounterFits!(q) /\ FateFits!(q)
  BY DEF SessionInv, CounterFits, FateFits
<1>c. counter[q] \in Nat /\ Len(spine) \in Nat /\ Len(spine') \in Nat /\ UnnamedNo(q) \in Nat
  BY UnnamedStep DEF SessionInv, TypeOK, Kept
<1>n. None \notin {"failed", "duplicate", "answered"}
  BY SentinelAssumption
<1>2. CASE Unmoved(q) \/ Silent(q)
  <2>1. UnnamedNo(q)' = UnnamedNo(q) /\ Len(spine) <= Len(spine')
    BY <1>2, UnnamedStep DEF Kept
  <2>2. CASE Unmoved(q)
    BY <1>1, <1>c, <2>1, <2>2 DEF Unmoved, FieldsKept, Slack
  <2>3. CASE Silent(q)
    BY <1>1, <1>c, <1>n, <2>1, <2>3 DEF Silent, Slack
  <2> QED
    BY <1>2, <2>2, <2>3
<1>3. CASE Began(q)
  BY <1>c, <1>3 DEF Began
<1>4. CASE Wrote(q)
  <2>1. /\ Len(spine') = Len(spine) + 1
        /\ UnnamedNo(q)' = UnnamedNo(q) +
             (IF Put.kind = "tool.request" /\ Put.note = Put.n - 1 THEN 1 ELSE 0)
    BY <1>4, UnnamedStep DEF Wrote
  <2>2. Put.kind = "tool.request" =>
          \/ counter'[q] = counter[q] + 1
          \/ counter'[q] = counter[q] + 2 /\ UnnamedNo(q)' = UnnamedNo(q) + 1
    BY <1>4, <1>c, <2>1 DEF Wrote, ToolEnds
  <2>3. UnnamedNo(q)' = UnnamedNo(q) \/ UnnamedNo(q)' = UnnamedNo(q) + 1
    BY <1>c, <2>1
  <2> QED
    <3>1. /\ pc'[q] # "user"
          /\ pc'[q] \in {"list", "candidate", "sent"} \/ (pc'[q] = "audit" /\ fate'[q] = None) =>
               \/ pc[q] = "user" /\ counter'[q] = counter[q] + 2
               \/ pc[q] \in {"candidate", "result"} /\ counter'[q] = counter[q] + 1
               \/ pc[q] = "received" /\ counter'[q] = counter[q]
               \/ pc[q] = "audit" /\ fate[q] = None /\ counter'[q] = counter[q]
          /\ pc'[q] \in {"model", "invalid", "received"} =>
               pc[q] = "sent" /\ counter'[q] = counter[q] + 2
          /\ pc'[q] \in {"tool", "run", "result", "agent"} =>
               \/ pc[q] = "audit" /\ fate[q] = None /\ counter'[q] = counter[q]
               \/ pc[q] = "tool" /\ Put.kind = "tool.request"
               \/ pc[q] = "result" /\ counter'[q] = counter[q] + 1
      BY <1>1, <1>4, <1>n DEF Wrote
    <3> QED
      <4>1. UnnamedNo(q)' \in Nat /\ Slack(q)' \in Nat /\ Slack(q) \in Nat
            /\ Slack(q) <= Slack(q)' /\ Slack(q) <= UnnamedNo(q)' + 1
            /\ UnnamedNo(q) <= UnnamedNo(q)' /\ UnnamedNo(q)' <= Slack(q)' /\ 1 <= Slack(q)'
        BY <1>c, <2>3 DEF Slack
      <4>2. /\ pc[q] = "user" => counter[q] <= Len(spine)
            /\ pc[q] \in {"candidate", "sent"} \/ (pc[q] = "audit" /\ fate[q] = None) =>
                 counter[q] <= Len(spine) + Slack(q)
            /\ pc[q] = "received" => counter[q] <= Len(spine) + Slack(q) + 1
            /\ pc[q] \in {"tool", "result"} => counter[q] <= Len(spine) + UnnamedNo(q)
        BY <1>1
      <4>3. pc'[q] \in {"list", "candidate", "sent"} \/ (pc'[q] = "audit" /\ fate'[q] = None)
              => counter'[q] <= Len(spine') + Slack(q)'
        BY <1>c, <2>1, <3>1, <4>1, <4>2
      <4>4. pc'[q] \in {"model", "invalid", "received"} =>
              2 <= counter'[q] /\ counter'[q] <= Len(spine') + Slack(q)' + 1
        BY <1>c, <2>1, <3>1, <4>1, <4>2
      <4>5. pc'[q] \in {"tool", "run", "result", "agent"} =>
              counter'[q] <= Len(spine') + UnnamedNo(q)'
        <5>1. CASE pc[q] = "audit" /\ fate[q] = None /\ counter'[q] = counter[q]
          BY <1>c, <2>1, <4>1, <4>2, <5>1
        <5>2. CASE pc[q] = "tool" /\ Put.kind = "tool.request"
          <6>1. counter[q] <= Len(spine) + UnnamedNo(q) /\ Len(spine') = Len(spine) + 1
            BY <2>1, <4>2, <5>2
          <6>2. \/ counter'[q] = counter[q] + 1
                \/ counter'[q] = counter[q] + 2 /\ UnnamedNo(q)' = UnnamedNo(q) + 1
            BY <2>2, <5>2
          <6> QED
            BY <1>c, <4>1, <6>1, <6>2
        <5>3. CASE pc[q] = "result" /\ counter'[q] = counter[q] + 1
          BY <1>c, <2>1, <4>1, <4>2, <5>3
        <5> QED
          BY <3>1, <5>1, <5>2, <5>3
      <4> QED
        BY <3>1, <4>3, <4>4, <4>5
<1> QED
  BY <1>2, <1>3, <1>4 DEF Outside, Moved

\* A response's blob is known by its number.
LEMMA BlobNumbered ==
  ASSUME TypeOK, NEW b \in blobs, b.ref[1] = "model"
  PROVE  b.ref[2] \in Nat
<1>1. b.ref \in ({"model"} \X Nat) \cup ({"tool"} \X CallIds)
  BY DEF TypeOK, Refs
<1> QED
  BY <1>1

\* The number of an event just written, against its place.
LEMMA NumberPut ==
  ASSUME SessionInv, Kept, NEW r \in Requests, Wrote(r)
  PROVE  /\ Put.n <= Len(spine) + 1 + Slack(r)' + 1
         /\ Put.kind # "packet.sent" => Put.n <= Len(spine) + 1 + Slack(r)'
         /\ Put.kind = "turn.user" => Put.n <= Len(spine) + 1
<1>1. CounterFits!(r)
  BY DEF SessionInv, CounterFits
<1>c. counter[r] \in Nat /\ Len(spine) \in Nat /\ UnnamedNo(r) \in Nat
  BY UnnamedStep DEF SessionInv, TypeOK, Kept
<1>2. UnnamedNo(r)' = UnnamedNo(r) +
        (IF Put.kind = "tool.request" /\ Put.note = Put.n - 1 THEN 1 ELSE 0)
  BY UnnamedStep
<1>3. UnnamedNo(r)' = UnnamedNo(r) \/ UnnamedNo(r)' = UnnamedNo(r) + 1
  BY <1>c, <1>2
<1>4. \/ pc[r] = "user" /\ Put.n = counter[r] + 1
      \/ pc[r] = "candidate" /\ Put.n = counter[r] + 1 /\ Put.kind # "turn.user"
      \/ pc[r] = "sent" /\ Put.n = counter[r] + 2 /\ Put.kind = "packet.sent"
      \/ pc[r] \in {"invalid", "received"} /\ Put.n = counter[r] - 1 /\ Put.kind # "turn.user"
      \/ pc[r] = "audit" /\ Put.n = 0
      \/ /\ pc[r] = "tool" /\ Put.kind = "tool.request"
         /\ Put.n = counter[r] + 1 \/ (Put.n = counter[r] + 2 /\ Put.note = counter[r] + 1)
      \/ pc[r] \in {"result", "agent"} /\ Put.n = counter[r] + 1 /\ Put.kind # "turn.user"
  BY DEF Wrote, ToolEnds
<1>5. Put.kind = "tool.request" /\ Put.n = counter[r] + 2 /\ Put.note = counter[r] + 1 =>
        UnnamedNo(r)' = UnnamedNo(r) + 1
  BY <1>c, <1>2
<1>6. /\ Slack(r)' \in Nat /\ UnnamedNo(r)' \in Nat
      /\ UnnamedNo(r) <= UnnamedNo(r)' /\ UnnamedNo(r)' <= Slack(r)' /\ 1 <= Slack(r)'
      /\ Slack(r) <= Slack(r)' /\ Slack(r) \in Nat
  BY <1>c, <1>3 DEF Slack
<1>7. /\ pc[r] = "user" => counter[r] <= Len(spine)
      /\ pc[r] \in {"candidate", "sent"} => counter[r] <= Len(spine) + Slack(r)'
      /\ pc[r] \in {"invalid", "received"} => counter[r] <= Len(spine) + Slack(r)' + 1
      /\ pc[r] \in {"tool", "result", "agent"} => counter[r] <= Len(spine) + UnnamedNo(r)
  BY <1>1, <1>c, <1>6
<1>8. CASE pc[r] = "user" /\ Put.n = counter[r] + 1
  BY <1>c, <1>6, <1>7, <1>8
<1>9. CASE pc[r] = "sent" /\ Put.n = counter[r] + 2 /\ Put.kind = "packet.sent"
  BY <1>c, <1>6, <1>7, <1>9
<1>10. CASE pc[r] = "audit" /\ Put.n = 0
  BY <1>c, <1>6, <1>10
<1>11. CASE pc[r] = "tool"
  <2>1. Put.n <= Len(spine) + 1 + UnnamedNo(r)' /\ Put.kind = "tool.request"
    BY <1>c, <1>4, <1>5, <1>6, <1>7, <1>11
  <2> QED
    BY <1>c, <1>4, <1>6, <1>11, <2>1
<1>12. CASE pc[r] \in {"candidate", "invalid", "received", "result", "agent"}
  <2>1. Put.n <= Len(spine) + 1 + Slack(r)' /\ Put.kind # "turn.user"
    BY <1>c, <1>4, <1>6, <1>7, <1>12
  <2>2. Put.n \in Int
    BY <1>c, <1>4, <1>12
  <2> QED
    BY <1>c, <1>6, <2>1, <2>2
<1> QED
  BY <1>4, <1>8, <1>9, <1>10, <1>11, <1>12

\* No slack shrinks.
LEMMA SlackGrows ==
  ASSUME SessionInv, Kept, Outside \/ \E r \in Requests : Moved(r), NEW q \in Requests
  PROVE  /\ Slack(q) \in Nat /\ Slack(q)' \in Nat
         /\ Slack(q) <= Slack(q)'
         /\ Unmoved(q) => Slack(q)' = Slack(q)
<1>1. UnnamedNo(q) \in Nat /\ (Unmoved(q) => UnnamedNo(q)' = UnnamedNo(q))
  BY UnnamedStep
<1>2. UnnamedNo(q)' = UnnamedNo(q) \/ UnnamedNo(q)' = UnnamedNo(q) + 1
  <2>1. Unmoved(q) \/ Began(q) \/ Silent(q) \/ Wrote(q)
    BY DEF Outside, Moved
  <2> QED
    BY <1>1, <2>1, UnnamedStep
<1> QED
  BY <1>1, <1>2 DEF Slack

LEMMA NumbersKept ==
  ASSUME SessionInv, Kept, TypeOK', Outside \/ \E r \in Requests : Moved(r)
  PROVE  NumbersFit'
<1>t. /\ Len(spine) \in Nat /\ Len(spine') \in Nat /\ Len(spine) <= Len(spine')
      /\ DOMAIN spine = 1..Len(spine)
      /\ \A i \in DOMAIN spine : spine[i].n \in Nat
      /\ None \notin Requests
  BY SentinelAssumption DEF Kept, SessionInv, TypeOK, Events, Responses
<1>1. ASSUME NEW i \in DOMAIN spine', spine'[i].by = None
      PROVE  spine'[i].n = 0
  <2>1. CASE i \in DOMAIN spine
    BY <1>1, <2>1 DEF SessionInv, NumbersFit, Kept
  <2>2. CASE i \notin DOMAIN spine
    <3>1. i = Len(spine) + 1 /\ Len(spine') = Len(spine) + 1 /\ spine'[i] = Put
      BY <2>2, GrownAt
    <3>2. CASE Outside
      BY <1>t, <3>1, <3>2 DEF Outside
    <3>3. ASSUME NEW r \in Requests, Moved(r)
          PROVE  FALSE
      <4>1. Wrote(r)
        BY <1>t, <3>1, <3>3 DEF Moved, Began, Silent
      <4> QED
        BY <1>t, <1>1, <3>1, <4>1 DEF Wrote
    <3> QED
      BY <3>2, <3>3
  <2> QED
    BY <2>1, <2>2
<1>2. ASSUME NEW r \in Requests, NEW i \in DOMAIN spine', spine'[i].by = r
      PROVE  /\ spine'[i].n <= i + Slack(r)' + 1
             /\ spine'[i].kind # "packet.sent" => spine'[i].n <= i + Slack(r)'
             /\ spine'[i].kind = "turn.user" => spine'[i].n <= i
  <2>1. Slack(r) \in Nat /\ Slack(r)' \in Nat /\ Slack(r) <= Slack(r)'
    BY SlackGrows
  <2>2. CASE i \in DOMAIN spine
    <3>1. spine'[i] = spine[i]
      BY <2>2 DEF Kept
    <3> QED
      BY <1>t, <1>2, <2>1, <2>2, <3>1 DEF SessionInv, NumbersFit
  <2>3. CASE i \notin DOMAIN spine
    <3>1. i = Len(spine) + 1 /\ Len(spine') = Len(spine) + 1 /\ spine'[i] = Put
      BY <2>3, GrownAt
    <3>2. ~Unmoved(r)
      BY <1>2, <2>3 DEF Unmoved
    <3>3. Moved(r)
      BY <3>2 DEF Outside, Moved
    <3>4. Wrote(r)
      BY <1>t, <3>1, <3>3 DEF Moved, Began, Silent
    <3> QED
      BY <3>1, <3>4, NumberPut
  <2> QED
    BY <2>2, <2>3
<1>3. ASSUME NEW r \in Requests, NEW b \in blobs', b.by = r, b.ref[1] = "model"
      PROVE  b.ref[2] <= Len(spine') + Slack(r)'
  <2>1. Slack(r) \in Nat /\ Slack(r)' \in Nat /\ Slack(r) <= Slack(r)'
    BY SlackGrows
  <2>2. CASE b \in blobs
    <3>1. b.ref[2] \in Nat
      BY <1>3, <2>2, BlobNumbered DEF SessionInv
    <3> QED
      BY <1>t, <1>3, <2>1, <2>2, <3>1 DEF SessionInv, NumbersFit
  <2>3. CASE b \notin blobs
    <3>1. ~Unmoved(r)
      BY <1>3, <2>3 DEF Unmoved
    <3>2. Silent(r)
      BY <2>3, <3>1 DEF Outside, Moved, Began, Wrote
    <3>3. b.ref = ModelBlob(counter[r] - 1) /\ pc[r] = "model"
      BY <1>3, <2>3, <3>2 DEF Silent, ToolBlob
    <3>4. counter[r] <= Len(spine) + Slack(r) + 1 /\ counter[r] \in Nat
      BY <3>3 DEF SessionInv, CounterFits, TypeOK
    <3> QED
      BY <1>t, <2>1, <3>3, <3>4 DEF ModelBlob
  <2> QED
    BY <2>2, <2>3
<1> QED
  BY <1>1, <1>2, <1>3 DEF NumbersFit

LEMMA OwnNumbersKept ==
  ASSUME SessionInv, Kept, TypeOK', Outside \/ \E r \in Requests : Moved(r)
  PROVE  OwnNumbersFit'
<1> SUFFICES ASSUME NEW q \in Requests
             PROVE  OwnNumbersFit!(q)'
  BY DEF OwnNumbersFit
<1> DEFINE late == pc[q] \in {"model", "invalid", "received"}
           kind == {"response.received", "response.invalid"}
<1>t. /\ counter[q] \in Nat /\ counter'[q] \in Nat
      /\ \A i \in DOMAIN spine : spine[i].n \in Nat
      /\ \A i \in DOMAIN spine' : spine'[i].n \in Nat
  BY DEF Kept, SessionInv, TypeOK, Events, Responses
<1>b. \A b \in blobs : b.ref[1] = "model" => b.ref[2] \in Nat
  BY BlobNumbered DEF SessionInv
<1>1. /\ \A i \in DOMAIN spine : spine[i].by = q =>
           /\ spine[i].n <= counter[q]
           /\ spine[i].kind \in kind /\ late => spine[i].n <= counter[q] - 2
      /\ \A b \in blobs : b.by = q /\ b.ref[1] = "model" =>
           /\ b.ref[2] <= counter[q]
           /\ pc[q] = "model" => b.ref[2] <= counter[q] - 2
  BY <1>t, <1>b DEF SessionInv, OwnNumbersFit
<1>2. ASSUME /\ \A i \in DOMAIN spine' : spine'[i].by = q =>
                  /\ spine'[i].n <= counter'[q]
                  /\ spine'[i].kind \in kind /\ late' => spine'[i].n <= counter'[q] - 2
             /\ \A b \in blobs' : b.by = q /\ b.ref[1] = "model" =>
                  /\ b.ref[2] <= counter'[q]
                  /\ pc'[q] = "model" => b.ref[2] <= counter'[q] - 2
      PROVE  OwnNumbersFit!(q)'
  BY <1>2
<1>3. CASE Unmoved(q)
  <2>1. FieldsKept(q)
    BY <1>3 DEF Unmoved
  <2>2. \A i \in DOMAIN spine' : spine'[i].by = q => i \in DOMAIN spine /\ spine'[i] = spine[i]
    BY <1>3 DEF Unmoved, Kept
  <2> QED
    BY <1>1, <1>2, <1>3, <2>1, <2>2 DEF Unmoved, FieldsKept
<1>4. CASE Began(q)
  <2>1. (\A i \in DOMAIN spine : spine[i].by # q) /\ (\A b \in blobs : b.by # q)
    BY <1>4 DEF Began, SessionInv, FateFits
  <2> QED
    BY <1>2, <1>4, <2>1 DEF Began
<1>5. CASE Silent(q)
  <2>1. spine' = spine /\ counter[q] <= counter'[q]
    BY <1>t, <1>5 DEF Silent
  <2>2. late' => late /\ counter'[q] = counter[q]
    BY <1>5 DEF Silent
  <2>3. pc'[q] # "model"
    BY <1>5 DEF Silent
  <2>4. ASSUME NEW b \in blobs', b.by = q, b.ref[1] = "model"
        PROVE  b.ref[2] <= counter'[q]
    <3>1. CASE b \in blobs
      BY <1>1, <1>t, <1>b, <2>1, <2>4, <3>1
    <3>2. CASE b \notin blobs
      <4>1. b.ref = ModelBlob(counter[q] - 1)
        BY <1>5, <2>4, <3>2 DEF Silent, ToolBlob
      <4> QED
        BY <1>t, <2>1, <4>1 DEF ModelBlob
    <3> QED
      BY <3>1, <3>2
  <2>5. ASSUME NEW i \in DOMAIN spine', spine'[i].by = q
        PROVE  /\ spine'[i].n <= counter'[q]
               /\ spine'[i].kind \in kind /\ late' => spine'[i].n <= counter'[q] - 2
    BY <1>1, <1>t, <2>1, <2>2, <2>5
  <2> QED
    BY <1>2, <2>3, <2>4, <2>5
<1>6. CASE Wrote(q)
  <2>1. /\ counter[q] <= counter'[q] /\ blobs' = blobs
        /\ late' => pc'[q] = "model" /\ counter'[q] = counter[q] + 2 /\ Put.kind = "packet.sent"
    BY <1>t, <1>6 DEF Wrote
  <2>2. Put.n <= counter'[q]
    BY <1>t, <1>6 DEF Wrote
  <2>3. ASSUME NEW i \in DOMAIN spine', spine'[i].by = q
        PROVE  /\ spine'[i].n <= counter'[q]
               /\ spine'[i].kind \in kind /\ late' => spine'[i].n <= counter'[q] - 2
    <3>1. CASE i \in DOMAIN spine
      <4>1. spine'[i] = spine[i] /\ spine[i].n <= counter[q] /\ spine[i].n \in Nat
        BY <1>1, <1>t, <2>3, <3>1 DEF Kept
      <4> QED
        BY <1>t, <2>1, <4>1
    <3>2. CASE i \notin DOMAIN spine
      BY <2>1, <2>2, <3>2, GrownAt
    <3> QED
      BY <3>1, <3>2
  <2>4. ASSUME NEW b \in blobs', b.by = q, b.ref[1] = "model"
        PROVE  /\ b.ref[2] <= counter'[q]
               /\ pc'[q] = "model" => b.ref[2] <= counter'[q] - 2
    <3>1. b.ref[2] <= counter[q] /\ b.ref[2] \in Nat
      BY <1>1, <1>b, <2>1, <2>4
    <3> QED
      BY <1>t, <2>1, <3>1
  <2> QED
    BY <1>2, <2>3, <2>4
<1> QED
  BY <1>3, <1>4, <1>5, <1>6 DEF Outside, Moved

LEMMA BeganAfterKept ==
  ASSUME SessionInv, Kept, TypeOK', Outside \/ \E r \in Requests : Moved(r)
  PROVE  AloneBeganAfter'
<1> SUFFICES ASSUME NEW r \in Requests, r \in Active', r \notin shared'
             PROVE  AloneBeganAfter!(r)'
  BY DEF AloneBeganAfter, Active
<1>1. r \notin shared /\ (Outside \/ Moved(r))
  BY AloneMoves
<1>o. \A q \in Requests : q # r => Unmoved(q) /\ Slack(q)' = Slack(q) /\ Slack(q) \in Nat
  BY <1>1, SlackGrows DEF Outside, Moved
<1>t. /\ counter[r] \in Nat /\ counter'[r] \in Nat /\ Len(spine) \in Nat
      /\ DOMAIN spine = 1..Len(spine)
      /\ \A i \in DOMAIN spine : spine[i].by \in Requests \cup {None}
      /\ \A i \in DOMAIN spine : spine'[i] = spine[i]
  BY DEF Kept, SessionInv, TypeOK, Events, Responses
<1>b. \A b \in blobs : b.ref[1] = "model" => b.ref[2] \in Nat
  BY BlobNumbered DEF SessionInv
<1>i. \A i \in DOMAIN spine' : spine'[i].by \notin {r, None} => i \in DOMAIN spine
  <2> SUFFICES ASSUME NEW i \in DOMAIN spine', i \notin DOMAIN spine,
                      spine'[i].by \notin {r, None}
               PROVE  FALSE
    OBVIOUS
  <2>1. spine'[i] = Put /\ Len(spine') = Len(spine) + 1
    BY GrownAt
  <2>2. CASE Outside
    BY <1>t, <2>1, <2>2 DEF Outside
  <2>3. CASE Moved(r)
    BY <1>t, <2>1, <2>3 DEF Moved, Began, Wrote, Silent
  <2> QED
    BY <1>1, <2>2, <2>3
<1>n. \A q \in Requests, b \in blobs' : b.by = q /\ q # r => b \in blobs
  BY <1>o DEF Unmoved
<1>2. ASSUME pc[r] \notin {"idle", "done"}
      PROVE  /\ \A i \in DOMAIN spine : spine[i].by \notin {r, None} =>
                  i + Drawn(pc[r]) <= counter[r]
             /\ \A q \in Requests, b \in blobs : b.by = q /\ q # r /\ b.ref[1] = "model" =>
                  b.ref[2] + Drawn(pc[r]) <= counter[r] + Slack(q)
  BY <1>1, <1>2 DEF SessionInv, AloneBeganAfter, Active
<1>3. ASSUME pc[r] \notin {"idle", "done"},
             NEW d \in Nat, NEW e \in Nat, Drawn(pc[r]) = d, Drawn(pc'[r]) = e,
             e - d <= counter'[r] - counter[r]
      PROVE  AloneBeganAfter!(r)'
  <2>1. ASSUME NEW i \in DOMAIN spine', spine'[i].by \notin {r, None}
        PROVE  i + e <= counter'[r]
    <3>1. i \in DOMAIN spine /\ i \in Nat /\ i + d <= counter[r]
      BY <1>i, <1>t, <1>2, <1>3, <2>1
    <3> QED
      BY <1>t, <1>3, <3>1
  <2>2. ASSUME NEW q \in Requests, NEW b \in blobs', b.by = q, q # r, b.ref[1] = "model"
        PROVE  b.ref[2] + e <= counter'[r] + Slack(q)'
    <3>1. b \in blobs /\ b.ref[2] \in Nat
      BY <1>n, <1>b, <2>2
    <3>2. b.ref[2] + d <= counter[r] + Slack(q)
      BY <1>2, <1>3, <2>2, <3>1
    <3> QED
      <4>1. Slack(q)' = Slack(q) /\ Slack(q) \in Nat
        BY <1>o, <2>2
      <4>2. \A x, y \in Nat : x + d <= counter[r] + y => x + e <= counter'[r] + y
        BY <1>t, <1>3
      <4>3. b.ref[2] + e <= counter'[r] + Slack(q)
        BY <3>1, <3>2, <4>1, <4>2
      <4> QED
        BY <4>1, <4>3
  <2> QED
    BY <1>3, <2>1, <2>2
<1>4. CASE Outside
  <2>1. FieldsKept(r) /\ pc[r] \notin {"idle", "done"}
    BY <1>4 DEF Outside, Unmoved, FieldsKept, Active
  <2>2. Drawn(pc[r]) \in Nat /\ Drawn(pc'[r]) = Drawn(pc[r])
    BY <2>1 DEF FieldsKept, Drawn
  <2> QED
    BY <1>t, <1>3, <2>1, <2>2 DEF FieldsKept
<1>5. CASE Began(r)
  <2>1. counter'[r] = Len(spine) /\ spine' = spine /\ blobs' = blobs /\ Drawn(pc'[r]) = 0
    BY <1>5 DEF Began, Drawn
  <2>2. ASSUME NEW i \in DOMAIN spine', spine'[i].by \notin {r, None}
        PROVE  i + Drawn(pc'[r]) <= counter'[r]
    BY <1>t, <2>1, <2>2
  <2>3. ASSUME NEW q \in Requests, NEW b \in blobs', b.by = q, q # r, b.ref[1] = "model"
        PROVE  b.ref[2] + Drawn(pc'[r]) <= counter'[r] + Slack(q)'
    <3>1. b.ref[2] <= Len(spine) + Slack(q) /\ b.ref[2] \in Nat
      BY <1>b, <2>1, <2>3 DEF SessionInv, NumbersFit
    <3> QED
      BY <1>o, <2>1, <2>3, <3>1
  <2> QED
    BY <2>2, <2>3
<1>6. CASE Wrote(r)
  <2>1. pc'[r] # "done"
    BY DEF Active
  <2>2. /\ pc[r] \notin {"idle", "done"}
        /\ Drawn(pc[r]) \in Nat /\ Drawn(pc'[r]) \in Nat
        /\ Drawn(pc'[r]) - Drawn(pc[r]) <= counter'[r] - counter[r]
    BY <1>t, <1>6, <2>1 DEF Wrote, Drawn
  <2> QED
    BY <1>3, <2>2
<1>7. CASE Silent(r)
  <2>1. pc'[r] # "done"
    BY DEF Active
  <2>2. /\ pc[r] \notin {"idle", "done"}
        /\ Drawn(pc[r]) \in Nat /\ Drawn(pc'[r]) \in Nat
        /\ Drawn(pc'[r]) - Drawn(pc[r]) <= counter'[r] - counter[r]
    BY <1>t, <1>7, <2>1 DEF Silent, Drawn
  <2> QED
    BY <1>3, <2>2
<1> QED
  BY <1>1, <1>4, <1>5, <1>6, <1>7 DEF Moved

\* A handler alone draws no number twice while no turn has three calls without
\* an id.
LEMMA NeverRefusedKept ==
  ASSUME SessionInv, Kept, Outside \/ \E r \in Requests : Moved(r)
  PROVE  AloneNeverRefused'
<1> SUFFICES ASSUME NEW r \in Requests, fate'[r] = "duplicate", r \notin shared',
                    \A q \in Requests : ~(UnnamedNo(q)' > 2)
             PROVE  FALSE
  BY DEF AloneNeverRefused, UnnamedNo
<1>1. r \notin shared
  BY DEF Outside, Moved, Began
<1>2. \A q \in Requests : UnnamedNo(q) \in Nat /\ UnnamedNo(q) <= 2
  <2> SUFFICES ASSUME NEW q \in Requests
               PROVE  UnnamedNo(q) \in Nat /\ UnnamedNo(q) <= 2
    OBVIOUS
  <2>1. UnnamedNo(q) \in Nat
    BY UnnamedStep
  <2>2. UnnamedNo(q)' = UnnamedNo(q) \/ UnnamedNo(q)' = UnnamedNo(q) + 1
    <3>1. Unmoved(q) \/ Began(q) \/ Silent(q) \/ Wrote(q)
      BY DEF Outside, Moved
    <3> QED
      BY <2>1, <3>1, UnnamedStep
  <2> QED
    BY <2>1, <2>2
<1>3. \A q \in Requests : Slack(q) \in {1, 2}
  BY <1>2 DEF Slack
<1>4. fate[r] # "duplicate"
  <2>1. \A q \in Requests : ~(UnnamedNo(q) > 2)
    BY <1>2
  <2> QED
    BY <1>1, <2>1 DEF SessionInv, AloneNeverRefused, UnnamedNo
<1>5. Silent(r)
  BY <1>4, SentinelAssumption DEF Outside, Moved, Unmoved, FieldsKept, Began, Wrote, SessionInv, FateFits
<1>6. /\ counter[r] \in Nat /\ DOMAIN spine = 1..Len(spine)
      /\ \A i \in DOMAIN spine : spine[i].n \in Nat /\ spine[i].by \in Requests \cup {None}
      /\ \A b \in blobs : b.by \in Requests
  BY DEF Kept, SessionInv, TypeOK, Events, Responses
<1>b. \A b \in blobs : b.ref[1] = "model" => b.ref[2] \in Nat
  BY BlobNumbered DEF SessionInv
<1>7. pc[r] \notin {"idle", "done"}
  BY <1>5 DEF Silent
<1>8. /\ \A i \in DOMAIN spine : spine[i].by \notin {r, None} => i + Drawn(pc[r]) <= counter[r]
      /\ \A q \in Requests, b \in blobs : b.by = q /\ q # r /\ b.ref[1] = "model" =>
           b.ref[2] + Drawn(pc[r]) <= counter[r] + Slack(q)
  BY <1>1, <1>7 DEF SessionInv, AloneBeganAfter, Active
<1>9. /\ \A i \in DOMAIN spine : spine[i].by = None => spine[i].n = 0
      /\ \A i \in DOMAIN spine : spine[i].by # None =>
           /\ spine[i].n <= i + 3
           /\ spine[i].kind # "packet.sent" => spine[i].n <= i + 2
           /\ spine[i].kind = "turn.user" => spine[i].n <= i
  BY <1>3, <1>6 DEF SessionInv, NumbersFit
<1>10. \A i \in DOMAIN spine : spine[i].by = r =>
         /\ spine[i].n <= counter[r]
         /\ pc[r] = "received" /\ spine[i].kind = "response.received" =>
              spine[i].n <= counter[r] - 2
  BY <1>6 DEF SessionInv, OwnNumbersFit
<1>11. ASSUME Clash(r), pc[r] \in {"user", "candidate", "sent", "tool", "result", "agent"}
       PROVE  FALSE
  <2>1. PICK i \in DOMAIN spine :
          /\ spine[i].n > counter[r]
          /\ pc[r] = "user" => spine[i].kind = "turn.user"
          /\ pc[r] # "sent" => spine[i].kind # "packet.sent"
    BY <1>11 DEF Clash
  <2>2. spine[i].by \notin {r, None}
    BY <1>6, <1>9, <1>10, <2>1
  <2>3. i + Drawn(pc[r]) <= counter[r] /\ i \in Nat
    BY <1>6, <1>8, <2>2
  <2>4. CASE pc[r] = "user"
    BY <1>6, <1>9, <2>1, <2>2, <2>3, <2>4 DEF Drawn
  <2>5. CASE pc[r] = "sent"
    BY <1>6, <1>9, <2>1, <2>2, <2>3, <2>5 DEF Drawn
  <2>6. CASE pc[r] \in {"candidate", "tool", "result", "agent"}
    <3>1. i + 2 <= counter[r]
      BY <1>6, <2>3, <2>6 DEF Drawn
    <3> QED
      BY <1>6, <1>9, <2>1, <2>2, <2>3, <2>6, <3>1
  <2> QED
    BY <1>11, <2>4, <2>5, <2>6
<1>12. ASSUME NEW b \in blobs, b.ref = ModelBlob(counter[r] - 1), pc[r] = "model"
       PROVE  FALSE
  <2>1. b.ref[1] = "model" /\ b.ref[2] = counter[r] - 1
    BY <1>12 DEF ModelBlob
  <2>2. CASE b.by = r
    <3>1. b.ref[2] <= counter[r] - 2
      BY <1>12, <2>1, <2>2 DEF SessionInv, OwnNumbersFit
    <3> QED
      BY <1>6, <2>1, <3>1
  <2>3. CASE b.by # r
    <3>1. b.ref[2] + 5 <= counter[r] + Slack(b.by)
      BY <1>6, <1>8, <1>12, <2>1, <2>3 DEF Drawn
    <3> QED
      BY <1>3, <1>6, <2>1, <3>1
  <2> QED
    BY <2>2, <2>3
<1>13. ASSUME NEW i \in DOMAIN spine, spine[i].n = counter[r] - 1,
              spine[i].kind = "response.received", pc[r] = "received"
       PROVE  FALSE
  <2>1. 2 <= counter[r]
    BY <1>13 DEF SessionInv, CounterFits
  <2>2. spine[i].by \notin {r, None}
    BY <1>6, <1>9, <1>10, <1>13, <2>1
  <2>3. i + 5 <= counter[r] /\ spine[i].n <= i + 2 /\ i \in Nat
    BY <1>6, <1>8, <1>9, <1>13, <2>2 DEF Drawn
  <2> QED
    BY <1>6, <1>13, <2>3
<1> QED
  BY <1>4, <1>5, <1>11, <1>12, <1>13 DEF Silent

-----------------------------------------------------------------------------
(* The theorems *)

LEMMA SessionInvInit == Init => SessionInv
<1> SUFFICES ASSUME Init
             PROVE  SessionInv
  OBVIOUS
<1>1. spine = <<>> /\ DOMAIN spine = {} /\ blobs = {} /\ Len(spine) = 0
  BY DEF Init
<1>2. \A r \in Requests : /\ pc[r] = "idle" /\ fate[r] = None /\ seen[r] = None
                          /\ trace[r] = {} /\ counter[r] = 0
  BY DEF Init
<1>3. None \notin {"answered", "failed", "duplicate"}
  BY SentinelAssumption
<1>4. TypeOK
  <2>1. spine \in Seq(Events)
    BY <1>1
  <2>2. pc \in [Requests -> Steps] /\ fate \in [Requests -> Fates]
    BY DEF Init, Steps, Fates
  <2> QED
    BY <2>1, <2>2 DEF Init, TypeOK, NoTool
<1>5. \A r, k : EventsOf(r, k) = {}
  BY <1>1 DEF EventsOf
<1>6. FateFits /\ HistoryFits /\ ToolFits /\ BlobsAreOwn /\ ToolCallsPaired
  BY <1>1, <1>2, <1>3 DEF FateFits, HistoryFits, ToolFits, BlobsAreOwn, ToolCallsPaired
<1>7. AnsweredIffRecorded /\ AloneNeverRefused
  BY <1>2, <1>3, <1>5 DEF AnsweredIffRecorded, AloneNeverRefused
<1>8. AloneFits /\ AloneSeesOwn
  BY <1>2 DEF AloneFits, AloneSeesOwn, Active
<1>9. CounterFits /\ NumbersFit /\ OwnNumbersFit /\ AloneBeganAfter
  BY <1>1, <1>2 DEF CounterFits, NumbersFit, OwnNumbersFit, AloneBeganAfter, Active
<1> QED
  BY <1>4, <1>6, <1>7, <1>8, <1>9 DEF SessionInv

LEMMA SessionInvNext == SessionInv /\ [Next]_vars => SessionInv'
<1> SUFFICES ASSUME SessionInv, [Next]_vars
             PROVE  SessionInv'
  OBVIOUS
<1>1. TypeOK' /\ Kept /\ (Outside \/ \E r \in Requests : Moved(r))
  BY StepMoves
<1>2. /\ FateFits' /\ HistoryFits' /\ AnsweredIffRecorded' /\ ToolFits'
      /\ BlobsAreOwn' /\ ToolCallsPaired'
  BY <1>1, FateFitsKept, HistoryFitsKept, AnsweredKept, ToolFitsKept, BlobsKept, PairedKept
<1>3. AloneFits' /\ AloneSeesOwn'
  BY <1>1, AloneFitsKept, AloneSeesKept
<1>4. /\ CounterFits' /\ NumbersFit' /\ OwnNumbersFit' /\ AloneBeganAfter'
      /\ AloneNeverRefused'
  BY <1>1, CountersKept, NumbersKept, OwnNumbersKept, BeganAfterKept, NeverRefusedKept
<1> QED
  BY <1>1, <1>2, <1>3, <1>4 DEF SessionInv

\* The inductive invariant: what every handler has on the spine where it
\* stands, and how far its numbers may be ahead of the events.
THEOREM SessionInvariant == Spec => []SessionInv
  BY SessionInvInit, SessionInvNext, PTL DEF Spec

\* handleUserTurn answers a turn if and only if its turn.agent is on the
\* spine, after its own user event, packet and stored response, whatever the
\* other handlers appended in between.
THEOREM TurnsAreRecorded == Spec => []AnsweredIffRecorded
<1>1. SessionInv => AnsweredIffRecorded
  BY DEF SessionInv
<1> QED
  BY <1>1, SessionInvariant, PTL

\* The blob an event names is the one its own handler stored, although
\* response numbers and call ids are used by several handlers.
THEOREM BlobsStayOwn == Spec => []BlobsAreOwn
<1>1. SessionInv => BlobsAreOwn
  BY DEF SessionInv
<1> QED
  BY <1>1, SessionInvariant, PTL

\* executeToolCalls: within a turn every tool result and failure follows the
\* request of the same call, and nothing comes between them.
THEOREM CallsArePaired == Spec => []ToolCallsPaired
<1>1. SessionInv => ToolCallsPaired
  BY DEF SessionInv
<1> QED
  BY <1>1, SessionInvariant, PTL

\* A turn that no other overlaps sends its own text to the model and reports
\* its own packet and response in its trace.
THEOREM AloneIsOwn == Spec => []AloneSeesOwn
<1>1. SessionInv => AloneSeesOwn
  BY DEF SessionInv
<1> QED
  BY <1>1, SessionInvariant, PTL

\* A turn that no other overlaps is refused no id unless some turn made three
\* tool calls without an id: the counter starts at the number of events, and
\* two numbers that no event has are made up for by those that have one.
THEOREM AloneIsNotRefused == Spec => []AloneNeverRefused
<1>1. SessionInv => AloneNeverRefused
  BY DEF SessionInv
<1> QED
  BY <1>1, SessionInvariant, PTL

=============================================================================

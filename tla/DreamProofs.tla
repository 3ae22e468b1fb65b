----------------------------- MODULE DreamProofs -----------------------------
(***************************************************************************)
(* Dream for any topics, any schedule and any number of concurrent         *)
(* requests and restarts: the manager's mutex and the passes' work stay in *)
(* order, what is in memory is on disk but for failed writes, and dreams   *)
(* nobody forced keep their distance to what has finished.  And which      *)
(* events the compacted views drop, of any scores, ages and sizes.         *)
(***************************************************************************)
EXTENDS Dream, SequenceTheorems, FiniteSetTheorems, WellFoundedInduction, TLAPS

AllInv == DreamInv /\ TopicsDurable /\ ThresholdDreamsSpaced

-----------------------------------------------------------------------------
(* Types *)

\* Whatever is appended, the index stays a sequence of places.
LEMMA IndexedTyped ==
  ASSUME NEW s \in Seq(Nat), NEW i \in Nat, NEW most \in Nat
  PROVE  Indexed(s, i, most) \in Seq(Nat)
<1> DEFINE longer == Append(s, i)
<1> DEFINE excess == IF Len(longer) > most THEN Len(longer) - most ELSE 0
<1>1. longer \in Seq(Nat) /\ Len(longer) \in Nat
  OBVIOUS
<1>2. excess \in Nat
  BY <1>1
<1>3. SubSeq(longer, excess + 1, Len(longer)) \in Seq(Nat)
  <2> HIDE DEF longer, excess
  <2>1. \A k \in (excess + 1)..Len(longer) : longer[k] \in Nat
    BY <1>1, <1>2
  <2> QED
    BY <1>1, <1>2, <2>1
<1> QED
  BY <1>3 DEF Indexed

\* How many events a topic has is a number.
LEMMA SummariesTyped == TypeOK => Summaries \in [Topics -> Nat]
<1> SUFFICES ASSUME TypeOK, NEW t \in Topics
             PROVE  Cardinality({i \in DOMAIN spine : t \in spine[i].topics}) \in Nat
  BY DEF Summaries
<1>1. DOMAIN spine = 1..Len(spine) /\ Len(spine) \in Nat
  BY DEF TypeOK
<1>2. IsFiniteSet(DOMAIN spine)
  BY <1>1, FS_Interval
<1> QED
  BY <1>2, FS_Subset, FS_CardinalityType

\* The variables that only a pass's summary is computed from.
LEMMA AppendedTyped ==
  ASSUME TypeOK, NEW what \in Events, spine' = Append(spine, what)
  PROVE  spine' \in Seq(Events)
BY DEF TypeOK

LEMMA InitTyped == Init => TypeOK
<1> SUFFICES ASSUME Init PROVE TypeOK
  OBVIOUS
<1>1. NewDaemon \in Daemons
  BY DEF NewDaemon, Daemons
<1>2. NoWork \in Works
  BY TopicsAssumption DEF NoWork, Works
<1> QED
  BY <1>1, <1>2 DEF Init, TypeOK, Steps

\* A step's effect on what a pass has of its own.
LEMMA PassTyped ==
  ASSUME TypeOK, NEW r \in Requests, PassStep(r)
  PROVE  /\ pc' \in [Requests -> Steps]
         /\ work' \in [Requests -> Works]
         /\ created' \in [Requests -> SUBSET Topics]
         /\ check' \in [Requests -> [hour : Nat, finished : Nat]]
<1> USE DEF TypeOK, passVars, Goto, Steps
<1>1. work[r] \in Works
  OBVIOUS
<1>2. work[r].topic \in Topics /\ work[r].todo \subseteq Topics
  BY <1>1 DEF Works
<1>3. NoWork \in Works
  BY TopicsAssumption DEF NoWork, Works
<1>4. ASSUME work' = [work EXCEPT ![r].todo = @ \ {work[r].topic}]
      PROVE  work' \in [Requests -> Works]
  BY <1>1, <1>2, <1>4 DEF Works
<1>5. CASE Trigger(r) \/ ThresholdsNotMet(r) \/ ListFails(r) \/ CreateFails(r)
             \/ CreateTopic(r) \/ UpdateTopic(r) \/ AppendDreamEvent(r) \/ Finish(r)
  <2>1. pc' \in [Requests -> Steps]
    BY <1>5 DEF Trigger, ThresholdsNotMet, ListFails, CreateFails, CreateTopic, UpdateTopic,
       AppendDreamEvent, Finish
  <2>2. UNCHANGED passVars
    BY <1>5 DEF Trigger, ThresholdsNotMet, ListFails, CreateFails, CreateTopic, UpdateTopic,
       AppendDreamEvent, Finish
  <2> QED
    BY <2>1, <2>2
<1>6. CASE ThresholdsMet(r)
  BY <1>6 DEF ThresholdsMet
<1>7. CASE ListEvents(r)
  <2>1. [NoWork EXCEPT !.summary = Summaries, !.todo = NewTopics(Summaries)] \in Works
    BY <1>3, SummariesTyped DEF NewTopics, Works
  <2> QED
    BY <1>7, <2>1 DEF ListEvents
<1>8. CASE \E t \in Topics : GetTopic(r, t)
  <2> PICK t \in Topics : GetTopic(r, t)
    BY <1>8
  <2> DEFINE how == IF topics[t] = 0 THEN "create" ELSE "update"
  <2>1. how \in {"create", "update"}
    OBVIOUS
  <2>2. /\ pc' = [pc EXCEPT ![r] = how]
        /\ work' = [work EXCEPT ![r].topic = t, ![r].how = how]
        /\ created' = created /\ check' = check
    BY DEF GetTopic
  <2> HIDE DEF how
  <2>3. work' \in [Requests -> Works]
    BY <1>1, <2>1, <2>2 DEF Works
  <2> QED
    BY <2>1, <2>2, <2>3
<1>9. CASE WriteTopic(r)
  <2>1. work' \in [Requests -> Works]
    BY <1>4, <1>9 DEF WriteTopic, TopicStored
  <2>2. created' \in [Requests -> SUBSET Topics]
    BY <1>2, <1>9 DEF WriteTopic
  <2> QED
    BY <1>9, <2>1, <2>2 DEF WriteTopic
<1>10. CASE UpdateFails(r)
  BY <1>4, <1>10 DEF UpdateFails, TopicStored
<1> QED
  BY <1>5, <1>6, <1>7, <1>8, <1>9, <1>10 DEF PassStep

\* The daemon's fields, after a pass and after a session.
LEMMA FinishedTyped ==
  ASSUME NEW d \in Daemons, NEW h \in Nat
  PROVE  [d EXCEPT !.lastDreamTime = h, !.dreamCount = @ + 1] \in Daemons
<1> DEFINE count == d.dreamCount + 1
<1>1. count \in Nat
  BY DEF Daemons
<1> HIDE DEF count
<1>2. [d EXCEPT !.lastDreamTime = h, !.dreamCount = count] \in Daemons
  BY <1>1 DEF Daemons
<1> QED
  BY <1>2 DEF count

LEMMA ActiveTyped ==
  ASSUME NEW d \in Daemons, NEW h \in Nat
  PROVE  [d EXCEPT !.lastActivityTS = h, !.sessionCount = @ + 1] \in Daemons
<1> DEFINE count == d.sessionCount + 1
<1>1. count \in Nat
  BY DEF Daemons
<1> HIDE DEF count
<1>2. [d EXCEPT !.lastActivityTS = h, !.sessionCount = count] \in Daemons
  BY <1>1 DEF Daemons
<1> QED
  BY <1>2 DEF count

\* A step's effect on what passes share.
LEMMA SharedTyped ==
  ASSUME TypeOK, NEW r \in Requests, PassStep(r)
  PROVE  /\ hour' \in Nat \ {0} /\ starts' \in Nat
         /\ spine' \in Seq(Events) /\ index' \in Seq(Nat)
         /\ topics' \in [Topics -> Nat] /\ disk' \in [Topics -> Nat]
         /\ lock' \in Requests \cup {None}
         /\ unsaved' \subseteq Topics
         /\ daemon' \in Daemons /\ finished' \in Nat
<1> USE DEF TypeOK, sessionVars, topicVars, clockVars
<1>1. work[r].topic \in Topics /\ work[r].summary \in [Topics -> Nat]
  BY DEF Works
<1>2. CASE Trigger(r) \/ ThresholdsNotMet(r) \/ ListFails(r) \/ ThresholdsMet(r)
             \/ ListEvents(r) \/ \E t \in Topics : GetTopic(r, t)
  BY <1>2 DEF Trigger, ThresholdsNotMet, ListFails, ThresholdsMet, ListEvents, GetTopic
<1>3. CASE CreateTopic(r) \/ UpdateTopic(r)
  BY <1>1, <1>3 DEF CreateTopic, UpdateTopic, SetTopic
<1>4. CASE WriteTopic(r)
  BY <1>1, <1>4 DEF WriteTopic
<1>5. CASE CreateFails(r) \/ UpdateFails(r)
  BY <1>1, <1>5 DEF CreateFails, UpdateFails
<1>6. CASE AppendDreamEvent(r)
  <2>1. [topics |-> {DreamTopic}, size |-> 1] \in Events
    BY TopicsAssumption DEF Events
  <2>2. CASE AppendEvent([topics |-> {DreamTopic}, size |-> 1])
    <3>1. spine' \in Seq(Events)
      BY <2>1, <2>2, AppendedTyped DEF AppendEvent
    <3> QED
      BY <1>6, <3>1 DEF AppendDreamEvent
  <2>3. CASE UNCHANGED spine
    BY <1>6, <2>3 DEF AppendDreamEvent
  <2> QED
    BY <1>6, <2>2, <2>3 DEF AppendDreamEvent
<1>7. CASE Finish(r)
  <2>1. daemon' \in Daemons
    BY <1>7, FinishedTyped DEF Finish
  <2> QED
    BY <1>7, <2>1 DEF Finish
<1> QED
  BY <1>2, <1>3, <1>4, <1>5, <1>6, <1>7 DEF PassStep

LEMMA NextTyped == TypeOK /\ [Next]_vars => TypeOK'
<1> SUFFICES ASSUME TypeOK, [Next]_vars PROVE TypeOK'
  OBVIOUS
<1> USE DEF sessionVars, topicVars, passVars, clockVars
<1>1. CASE Tick
  BY <1>1 DEF Tick, TypeOK
<1>2. ASSUME NEW what \in Writings, OtherAppends(what) PROVE TypeOK'
  <2>1. spine' \in Seq(Events)
    BY <1>2, WritingsAssumption, AppendedTyped DEF OtherAppends, AppendEvent
  <2>2. Len(spine) + 1 \in Nat /\ MaxIndexEntries \in Nat
    BY ScheduleAssumption DEF TypeOK
  <2>3. index' \in Seq(Nat)
    BY <1>2, <2>2, IndexedTyped DEF OtherAppends, TypeOK
  <2> QED
    BY <1>2, <2>1, <2>3 DEF OtherAppends, TypeOK
<1>3. CASE RecordActivity
  <2>1. daemon' \in Daemons
    BY <1>3, ActiveTyped DEF RecordActivity, TypeOK
  <2> QED
    BY <1>3, <2>1 DEF RecordActivity, TypeOK
<1>4. CASE Restart
  <2>1. NewDaemon \in Daemons
    BY DEF NewDaemon, Daemons
  <2>2. pc' \in [Requests -> Steps]
    BY <1>4 DEF Restart, TypeOK, Steps
  <2> QED
    BY <1>4, <2>1, <2>2 DEF Restart, TypeOK
<1>5. ASSUME NEW r \in Requests, PassStep(r) PROVE TypeOK'
  BY <1>5, PassTyped, SharedTyped DEF TypeOK
<1>6. CASE UNCHANGED vars
  BY <1>6 DEF vars, TypeOK
<1> QED
  BY <1>1, <1>2, <1>3, <1>4, <1>5, <1>6 DEF Next

-----------------------------------------------------------------------------
(* The mutex and the work *)

\* What a step of one request leaves alone of another.
LEMMA OthersStay ==
  ASSUME TypeOK, NEW r \in Requests, PassStep(r), NEW q \in Requests \ {r}
  PROVE  pc'[q] = pc[q] /\ work'[q] = work[q] /\ created'[q] = created[q] /\ check'[q] = check[q]
<1> USE DEF TypeOK, Goto, passVars
<1>1. CASE Trigger(r) \/ ThresholdsNotMet(r) \/ ListFails(r) \/ ThresholdsMet(r) \/ ListEvents(r)
  BY <1>1 DEF Trigger, ThresholdsNotMet, ListFails, ThresholdsMet, ListEvents
<1>2. CASE \E t \in Topics : GetTopic(r, t)
  BY <1>2 DEF GetTopic
<1>3. CASE CreateTopic(r) \/ UpdateTopic(r) \/ CreateFails(r)
  BY <1>3 DEF CreateTopic, UpdateTopic, CreateFails
<1>4. CASE WriteTopic(r)
  BY <1>4 DEF WriteTopic, TopicStored
<1>5. CASE UpdateFails(r)
  BY <1>5 DEF UpdateFails, TopicStored
<1>6. CASE AppendDreamEvent(r) \/ Finish(r)
  BY <1>6 DEF AppendDreamEvent, Finish
<1> QED
  BY <1>1, <1>2, <1>3, <1>4, <1>5, <1>6 DEF PassStep

\* The steps that take the mutex, give it up, or do neither.
Takes(r) == CreateTopic(r) \/ UpdateTopic(r)
Gives(r) == WriteTopic(r) \/ CreateFails(r) \/ UpdateFails(r)

LEMMA TakesStep ==
  ASSUME TypeOK, NEW r \in Requests, Takes(r)
  PROVE  /\ lock = None /\ lock' = r /\ Writing(r)' /\ ~Writing(r)
         /\ pc[r] \in {"create", "update"}
         /\ topics' = [topics EXCEPT ![work[r].topic] = work[r].summary[work[r].topic]]
         /\ work' = work /\ created' = created /\ check' = check
         /\ disk' = disk /\ unsaved' = unsaved
BY DEF Takes, CreateTopic, UpdateTopic, SetTopic, Goto, Writing, TypeOK, passVars

LEMMA GivesStep ==
  ASSUME TypeOK, NEW r \in Requests, Gives(r)
  PROVE  /\ Writing(r) /\ ~Writing(r)' /\ lock' = None /\ topics' = topics
         /\ \/ pc'[r] = "failed" /\ work' = work
            \/ pc'[r] = "lookup" /\ work' = [work EXCEPT ![r].todo = @ \ {work[r].topic}]
         /\ check' = check
         /\ \/ /\ unsaved' = unsaved \cup {work[r].topic}
               /\ disk' = disk /\ created' = created
            \/ /\ unsaved' = unsaved \ {work[r].topic}
               /\ disk' = [disk EXCEPT ![work[r].topic] = work[r].summary[work[r].topic]]
               /\ created' = created
                  \/ created' = [created EXCEPT ![r] = @ \cup {work[r].topic}]
<1>1. CASE WriteTopic(r)
  BY <1>1 DEF WriteTopic, TopicStored, Goto, Writing, TypeOK
<1>2. CASE CreateFails(r)
  BY <1>2 DEF CreateFails, Writing, TypeOK, passVars
<1>3. CASE UpdateFails(r)
  BY <1>3 DEF UpdateFails, TopicStored, Writing, TypeOK
<1> QED
  BY <1>1, <1>2, <1>3 DEF Gives

\* The other steps: they see to the work of their pass.
LEMMA PlainStep ==
  ASSUME TypeOK, NEW r \in Requests, PassStep(r), ~Takes(r), ~Gives(r)
  PROVE  /\ ~Writing(r) /\ ~Writing(r)'
         /\ lock' = lock /\ topics' = topics /\ disk' = disk /\ unsaved' = unsaved
         /\ created' = created
         /\ \/ pc'[r] \notin {"lookup", "create", "update", "write"}
            \/ /\ pc'[r] = "lookup"
               /\ work'[r].todo = NewTopics(work'[r].summary)
            \/ /\ pc[r] = "lookup" /\ pc'[r] \in {"create", "update"}
               /\ work'[r].todo = work[r].todo /\ work'[r].summary = work[r].summary
               /\ work'[r].topic \in work[r].todo
<1> USE DEF TypeOK, Goto, Writing, topicVars, passVars
<1>1. CASE Trigger(r) \/ ThresholdsNotMet(r) \/ ListFails(r) \/ ThresholdsMet(r)
  BY <1>1 DEF Trigger, ThresholdsNotMet, ListFails, ThresholdsMet
<1>2. CASE ListEvents(r)
  <2>1. work'[r] = [NoWork EXCEPT !.summary = Summaries, !.todo = NewTopics(Summaries)]
    BY <1>2 DEF ListEvents
  <2>2. work'[r].summary = Summaries /\ work'[r].todo = NewTopics(Summaries)
    BY <2>1 DEF NoWork
  <2> QED
    BY <1>2, <2>2 DEF ListEvents
<1>3. CASE \E t \in Topics : GetTopic(r, t)
  <2> PICK t \in Topics : GetTopic(r, t)
    BY <1>3
  <2>1. work[r] \in Works
    OBVIOUS
  <2>2. /\ work'[r].todo = work[r].todo /\ work'[r].summary = work[r].summary
        /\ work'[r].topic = t
    BY <2>1 DEF GetTopic, Works
  <2>3. pc[r] = "lookup" /\ pc'[r] \in {"create", "update"} /\ t \in work[r].todo
    BY DEF GetTopic
  <2> QED
    BY <2>2, <2>3 DEF GetTopic
<1>4. CASE AppendDreamEvent(r) \/ Finish(r)
  BY <1>4 DEF AppendDreamEvent, Finish
<1> QED
  BY <1>1, <1>2, <1>3, <1>4 DEF PassStep, Takes, Gives

\* The passes' part of the invariant.
PassInv == LockHeldWhileWriting /\ WorkInHand /\ TopicsDurable

\* Of a request's part of it only what the request has and what is shared counts.
LEMMA QuietKeepsPassInv ==
  ASSUME PassInv, UNCHANGED <<topicVars, pc, work, created>>
  PROVE  PassInv'
BY DEF PassInv, LockHeldWhileWriting, WorkInHand, TopicsDurable, Writing, NewTopics, topicVars

LEMMA TakesKeepsPassInv ==
  ASSUME TypeOK, TypeOK', PassInv, NEW r \in Requests, Takes(r), PassStep(r)
  PROVE  PassInv'
<1>1. /\ lock = None /\ lock' = r /\ Writing(r)' /\ ~Writing(r)
      /\ pc[r] \in {"create", "update"}
      /\ topics' = [topics EXCEPT ![work[r].topic] = work[r].summary[work[r].topic]]
      /\ work' = work /\ created' = created /\ disk' = disk /\ unsaved' = unsaved
  BY TakesStep
<1>2. \A q \in Requests : ~Writing(q)
  BY <1>1, NoneAssumption DEF PassInv, LockHeldWhileWriting
<1>3. \A q \in Requests \ {r} : pc'[q] = pc[q] /\ ~Writing(q)'
  BY <1>2, OthersStay DEF Writing
<1>4. LockHeldWhileWriting'
  BY <1>1, <1>3 DEF LockHeldWhileWriting
<1>5. work[r].topic \in Topics /\ work[r].todo \subseteq NewTopics(work[r].summary)
      /\ work[r].topic \in work[r].todo
  BY <1>1 DEF TypeOK, Works, PassInv, WorkInHand
<1>6. topics'[work[r].topic] = work[r].summary[work[r].topic]
  BY <1>1, <1>5 DEF TypeOK
<1>7. WorkInHand'
  <2> SUFFICES ASSUME NEW q \in Requests
               PROVE  /\ pc'[q] \in {"lookup", "create", "update", "write"} =>
                           work'[q].todo \subseteq NewTopics(work'[q].summary)
                      /\ pc'[q] \in {"create", "update", "write"} =>
                           work'[q].topic \in work'[q].todo
                      /\ Writing(q)' =>
                           topics'[work'[q].topic] = work'[q].summary[work'[q].topic]
    BY DEF WorkInHand, NewTopics
  <2>1. CASE q = r
    BY <1>1, <1>5, <1>6, <2>1
  <2>2. CASE q # r
    BY <1>1, <1>3, <2>2 DEF PassInv, WorkInHand
  <2> QED
    BY <2>1, <2>2
<1>8. TopicsDurable'
  <2>1. \A q \in Requests : \A t \in created'[q] : disk'[t] # 0
    BY <1>1 DEF PassInv, TopicsDurable
  <2>2. ASSUME NEW t \in Topics, topics'[t] # disk'[t]
        PROVE  t \in unsaved' \/ \E q \in Requests : Writing(q)' /\ work'[q].topic = t
    <3>1. CASE t = work[r].topic
      BY <1>1, <3>1
    <3>2. CASE t # work[r].topic
      BY <1>1, <1>2, <2>2, <3>2 DEF PassInv, TopicsDurable, TypeOK
    <3> QED
      BY <3>1, <3>2
  <2> QED
    BY <2>1, <2>2 DEF TopicsDurable
<1> QED
  BY <1>4, <1>7, <1>8 DEF PassInv

LEMMA GivesKeepsPassInv ==
  ASSUME TypeOK, TypeOK', PassInv, NEW r \in Requests, Gives(r), PassStep(r)
  PROVE  PassInv'
<1> DEFINE topic == work[r].topic
           summary == work[r].summary
<1>1. /\ Writing(r) /\ ~Writing(r)' /\ lock' = None /\ topics' = topics
      /\ \/ pc'[r] = "failed" /\ work' = work
         \/ pc'[r] = "lookup" /\ work' = [work EXCEPT ![r].todo = @ \ {topic}]
  BY GivesStep
<1>2. \/ /\ unsaved' = unsaved \cup {topic}
         /\ disk' = disk /\ created' = created
      \/ /\ unsaved' = unsaved \ {topic}
         /\ disk' = [disk EXCEPT ![topic] = summary[topic]]
         /\ created' = created \/ created' = [created EXCEPT ![r] = @ \cup {topic}]
  BY GivesStep
<1>3. \A q \in Requests \ {r} : pc'[q] = pc[q] /\ work'[q] = work[q]
  BY OthersStay
<1>4. \A q \in Requests \ {r} : ~Writing(q) /\ ~Writing(q)'
  BY <1>1, <1>3 DEF PassInv, LockHeldWhileWriting, Writing
<1>5. LockHeldWhileWriting'
  BY <1>1, <1>4, NoneAssumption DEF LockHeldWhileWriting
<1>6. topic \in Topics /\ topic \in work[r].todo /\ work[r].todo \subseteq NewTopics(summary)
      /\ topics[topic] = summary[topic]
  BY <1>1 DEF TypeOK, Works, PassInv, WorkInHand, Writing
<1>7. summary[topic] \in Nat /\ summary[topic] # 0
  <2>1. summary \in [Topics -> Nat]
    BY DEF TypeOK, Works
  <2>2. topic \in NewTopics(summary)
    BY <1>6
  <2> QED
    BY <2>1, <2>2 DEF NewTopics
<1>8. WorkInHand'
  <2> SUFFICES ASSUME NEW q \in Requests
               PROVE  /\ pc'[q] \in {"lookup", "create", "update", "write"} =>
                           work'[q].todo \subseteq NewTopics(work'[q].summary)
                      /\ pc'[q] \in {"create", "update", "write"} =>
                           work'[q].topic \in work'[q].todo
                      /\ Writing(q)' =>
                           topics'[work'[q].topic] = work'[q].summary[work'[q].topic]
    BY DEF WorkInHand, NewTopics
  <2>1. CASE q = r /\ pc'[r] = "failed"
    BY <1>1, <2>1
  <2>2. CASE q = r /\ pc'[r] # "failed"
    <3>1. pc'[r] = "lookup" /\ work' = [work EXCEPT ![r].todo = @ \ {topic}]
      BY <1>1, <2>2
    <3>2. work'[r].todo = work[r].todo \ {topic} /\ work'[r].summary = summary
      BY <3>1 DEF TypeOK, Works
    <3> QED
      BY <1>1, <1>6, <2>2, <3>1, <3>2
  <2>3. CASE q # r
    BY <1>3, <1>4, <2>3 DEF PassInv, WorkInHand
  <2> QED
    BY <2>1, <2>2, <2>3
<1>9. TopicsDurable'
  <2>1. ASSUME NEW q \in Requests, NEW t \in created'[q] PROVE disk'[t] # 0
    <3>1. t \in Topics
      BY <2>1 DEF TypeOK
    <3>2. CASE t \in created[q]
      BY <1>2, <1>7, <3>1, <3>2 DEF PassInv, TopicsDurable, TypeOK
    <3>3. CASE t \notin created[q]
      <4>1. CASE created' = created
        BY <2>1, <3>3, <4>1
      <4>2. CASE created' # created
        <5> HIDE DEF topic, summary
        <5>1. /\ disk' = [disk EXCEPT ![topic] = summary[topic]]
              /\ created' = [created EXCEPT ![r] = @ \cup {topic}]
          BY <1>2, <4>2
        <5>2. created'[q] \subseteq created[q] \cup {topic}
          BY <5>1 DEF TypeOK
        <5>3. t = topic
          BY <2>1, <3>3, <5>2
        <5> QED
          BY <1>6, <1>7, <5>1, <5>3 DEF TypeOK
      <4> QED
        BY <4>1, <4>2
    <3> QED
      BY <3>2, <3>3
  <2>2. ASSUME NEW t \in Topics, topics'[t] # disk'[t] PROVE t \in unsaved'
    <3>1. CASE t = topic
      BY <1>1, <1>2, <1>6, <2>2, <3>1 DEF TypeOK
    <3>2. CASE t # topic
      <4>1. topics[t] # disk[t]
        BY <1>1, <1>2, <2>2, <3>2 DEF TypeOK
      <4>2. t \in unsaved
        BY <1>4, <3>2, <4>1 DEF PassInv, TopicsDurable
      <4> QED
        BY <1>2, <3>2, <4>2
    <3> QED
      BY <3>1, <3>2
  <2> QED
    BY <2>1, <2>2 DEF TopicsDurable
<1> QED
  BY <1>5, <1>8, <1>9 DEF PassInv

LEMMA PlainKeepsPassInv ==
  ASSUME TypeOK, TypeOK', PassInv, NEW r \in Requests, ~Takes(r), ~Gives(r), PassStep(r)
  PROVE  PassInv'
<1>1. /\ ~Writing(r) /\ ~Writing(r)'
      /\ lock' = lock /\ topics' = topics /\ disk' = disk /\ unsaved' = unsaved
      /\ created' = created
  BY PlainStep
<1>2. \/ pc'[r] \notin {"lookup", "create", "update", "write"}
      \/ pc'[r] = "lookup" /\ work'[r].todo = NewTopics(work'[r].summary)
      \/ /\ pc[r] = "lookup" /\ pc'[r] \in {"create", "update"}
         /\ work'[r].todo = work[r].todo /\ work'[r].summary = work[r].summary
         /\ work'[r].topic \in work[r].todo
  BY PlainStep
<1>3. \A q \in Requests \ {r} : pc'[q] = pc[q] /\ work'[q] = work[q]
  BY OthersStay
<1>4. \A q \in Requests : Writing(q)' <=> Writing(q)
  BY <1>1, <1>3 DEF Writing
<1>5. LockHeldWhileWriting'
  BY <1>1, <1>4 DEF PassInv, LockHeldWhileWriting
<1>6. WorkInHand'
  <2> SUFFICES ASSUME NEW q \in Requests
               PROVE  /\ pc'[q] \in {"lookup", "create", "update", "write"} =>
                           work'[q].todo \subseteq NewTopics(work'[q].summary)
                      /\ pc'[q] \in {"create", "update", "write"} =>
                           work'[q].topic \in work'[q].todo
                      /\ Writing(q)' =>
                           topics'[work'[q].topic] = work'[q].summary[work'[q].topic]
    BY DEF WorkInHand, NewTopics
  <2>1. CASE q = r
    BY <1>1, <1>2, <2>1 DEF PassInv, WorkInHand, Writing
  <2>2. CASE q # r
    BY <1>1, <1>3, <1>4, <2>2 DEF PassInv, WorkInHand
  <2> QED
    BY <2>1, <2>2
<1>7. TopicsDurable'
  <2>1. \A q \in Requests : Writing(q) => work'[q].topic = work[q].topic
    BY <1>1, <1>3
  <2> QED
    BY <1>1, <1>4, <2>1 DEF PassInv, TopicsDurable
<1> QED
  BY <1>5, <1>6, <1>7 DEF PassInv

LEMMA RestartKeepsPassInv ==
  ASSUME TypeOK, PassInv, Restart
  PROVE  PassInv'
<1>1. /\ topics' = disk /\ disk' = disk /\ lock' = None /\ work' = work /\ created' = created
      /\ \A q \in Requests : pc'[q] \in Over
  BY DEF Restart, TypeOK, Over, passVars
<1>2. \A q \in Requests : pc'[q] \notin {"lookup", "create", "update", "write"}
  BY <1>1 DEF Over
<1>3. LockHeldWhileWriting'
  BY <1>1, <1>2, NoneAssumption DEF LockHeldWhileWriting, Writing
<1>4. WorkInHand'
  BY <1>2 DEF WorkInHand, Writing
<1>5. TopicsDurable'
  BY <1>1 DEF PassInv, TopicsDurable
<1> QED
  BY <1>3, <1>4, <1>5 DEF PassInv

LEMMA NextKeepsPassInv == TypeOK /\ TypeOK' /\ PassInv /\ [Next]_vars => PassInv'
<1> SUFFICES ASSUME TypeOK, TypeOK', PassInv, [Next]_vars PROVE PassInv'
  OBVIOUS
<1>1. CASE Tick \/ RecordActivity \/ (\E what \in Writings : OtherAppends(what))
  BY <1>1, QuietKeepsPassInv DEF Tick, RecordActivity, OtherAppends, passVars
<1>2. CASE Restart
  BY <1>2, RestartKeepsPassInv
<1>3. ASSUME NEW r \in Requests, PassStep(r) PROVE PassInv'
  BY <1>3, TakesKeepsPassInv, GivesKeepsPassInv, PlainKeepsPassInv
<1>4. CASE UNCHANGED vars
  BY <1>4, QuietKeepsPassInv DEF vars, topicVars
<1> QED
  BY <1>1, <1>2, <1>3, <1>4 DEF Next

-----------------------------------------------------------------------------
(* The times *)

TimeInv == ClockInOrder /\ ThresholdDreamsSpaced

LEMMA PassKeepsTimeInv ==
  ASSUME TypeOK, TimeInv, NEW r \in Requests, PassStep(r)
  PROVE  TimeInv'
<1>1. CASE ThresholdsMet(r)
  <2>1. daemon \in Daemons /\ hour \in Nat /\ finished \in Nat /\ InactivityHours \in Nat
    BY ScheduleAssumption DEF TypeOK
  <2>2. finished # 0 => hour >= finished + InactivityHours
    BY <1>1, <2>1 DEF ThresholdsMet, ShouldDream, TimeInv, ClockInOrder, Daemons
  <2>3. check' = [check EXCEPT ![r] = [hour |-> hour, finished |-> finished]]
    BY <1>1 DEF ThresholdsMet
  <2>4. ThresholdDreamsSpaced'
    <3> SUFFICES ASSUME NEW q \in Requests, check'[q].finished # 0
                 PROVE  check'[q].hour >= check'[q].finished + InactivityHours
      BY DEF ThresholdDreamsSpaced
    <3>1. CASE q = r
      BY <2>2, <2>3, <3>1 DEF TypeOK
    <3>2. CASE q # r
      BY <2>3, <3>2 DEF TypeOK, TimeInv, ThresholdDreamsSpaced
    <3> QED
      BY <3>1, <3>2
  <2> QED
    BY <1>1, <2>4 DEF ThresholdsMet, TimeInv, ClockInOrder, clockVars
<1>2. CASE Finish(r)
  <2>1. daemon'.lastDreamTime = hour
    BY <1>2 DEF Finish, TypeOK, Daemons
  <2>2. finished' = hour /\ hour' = hour /\ check' = check /\ hour \in Nat
    BY <1>2 DEF Finish, TypeOK, clockVars, passVars
  <2> QED
    BY <2>1, <2>2 DEF TimeInv, ClockInOrder, ThresholdDreamsSpaced
<1>3. ASSUME UNCHANGED <<hour, daemon, check, finished>> PROVE TimeInv'
  BY <1>3 DEF TimeInv, ClockInOrder, ThresholdDreamsSpaced
<1>4. CASE Trigger(r) \/ ThresholdsNotMet(r) \/ ListEvents(r) \/ ListFails(r)
             \/ \E t \in Topics : GetTopic(r, t)
  BY <1>3, <1>4 DEF Trigger, ThresholdsNotMet, ListEvents, ListFails, GetTopic, clockVars, passVars
<1>5. CASE CreateTopic(r) \/ UpdateTopic(r) \/ WriteTopic(r) \/ CreateFails(r)
             \/ UpdateFails(r) \/ AppendDreamEvent(r)
  BY <1>3, <1>5 DEF CreateTopic, UpdateTopic, WriteTopic, CreateFails, UpdateFails,
     AppendDreamEvent, clockVars, passVars
<1> QED
  BY <1>1, <1>2, <1>4, <1>5 DEF PassStep

LEMMA NextKeepsTimeInv == TypeOK /\ TimeInv /\ [Next]_vars => TimeInv'
<1> SUFFICES ASSUME TypeOK, TimeInv, [Next]_vars PROVE TimeInv'
  OBVIOUS
<1> USE DEF TimeInv, ClockInOrder, ThresholdDreamsSpaced
<1>1. CASE Tick
  BY <1>1 DEF Tick, TypeOK, passVars
<1>2. CASE \E what \in Writings : OtherAppends(what)
  BY <1>2 DEF OtherAppends, clockVars, passVars
<1>3. CASE RecordActivity
  <2>1. daemon'.lastActivityTS = hour /\ daemon'.lastDreamTime = daemon.lastDreamTime
    BY <1>3 DEF RecordActivity, TypeOK, Daemons
  <2> QED
    BY <1>3, <2>1 DEF RecordActivity, clockVars, passVars
<1>4. CASE Restart
  <2>1. daemon'.lastActivityTS = 0 /\ daemon'.lastDreamTime = 0
    BY <1>4 DEF Restart, NewDaemon
  <2> QED
    BY <1>4, <2>1 DEF Restart, passVars
<1>5. ASSUME NEW r \in Requests, PassStep(r) PROVE TimeInv'
  BY <1>5, PassKeepsTimeInv
<1>6. CASE UNCHANGED vars
  BY <1>6 DEF vars
<1> QED
  BY <1>1, <1>2, <1>3, <1>4, <1>5, <1>6 DEF Next

-----------------------------------------------------------------------------
(* Sums of sizes *)

Pick(P) == CHOOSE i \in P : TRUE

\* What TotalSize's recursive function is, for the subsets of S.
Sums(f, size, S) ==
  f = [P \in SUBSET S |-> IF P = {} THEN 0 ELSE size[Pick(P)] + f[P \ {Pick(P)}]]

SumOf(size, S) == CHOOSE f : Sums(f, size, S)

\* Of subsets of a finite set one has no other below it.
LEMMA Smallest ==
  ASSUME NEW S, IsFiniteSet(S), NEW D \in SUBSET (SUBSET S), D # {}
  PROVE  \E P \in D : \A Q \in D : Q \subseteq P => Q = P
<1>1. IsWellFoundedOn(StrictSubsetOrdering(S), FiniteSubsetsOf(S))
  BY FS_StrictSubsetOrderingWellFounded
<1>2. D \subseteq FiniteSubsetsOf(S)
  BY FS_FiniteSubsetsOfFinite
<1>3. PICK P \in D : \A Q \in D : <<Q, P>> \notin StrictSubsetOrdering(S)
  BY <1>1, <1>2, WFMin, Zenon
<1>4. \A Q \in D : Q \subseteq P => Q = P
  BY <1>3 DEF StrictSubsetOrdering
<1> QED
  BY <1>4

LEMMA PickIn == \A P : P # {} => Pick(P) \in P
  BY DEF Pick

LEMMA SumsStep ==
  ASSUME NEW S, NEW size, NEW f, Sums(f, size, S)
  PROVE  /\ f[{}] = 0
         /\ \A P \in SUBSET S : P # {} =>
              /\ P \ {Pick(P)} \in SUBSET S
              /\ f[P] = size[Pick(P)] + f[P \ {Pick(P)}]
  BY DEF Sums

\* There is one such function at most.
LEMMA SumsAgree ==
  ASSUME NEW S, IsFiniteSet(S), NEW T \in SUBSET S, NEW size,
         NEW f, Sums(f, size, S), NEW g, Sums(g, size, T)
  PROVE  \A P \in SUBSET T : f[P] = g[P]
<1> DEFINE D == {P \in SUBSET T : f[P] # g[P]}
<1> SUFFICES ASSUME D # {}
             PROVE  FALSE
  OBVIOUS
<1>1. IsFiniteSet(T)
  BY FS_Subset
<1>2. PICK P \in D : \A Q \in D : Q \subseteq P => Q = P
  <2>1. D \in SUBSET (SUBSET T) /\ D # {}
    OBVIOUS
  <2> HIDE DEF D
  <2> QED
    BY <1>1, <2>1, Smallest
<1>3. P # {}
  <2>1. f[{}] = 0 /\ g[{}] = 0
    BY SumsStep
  <2> QED
    BY <2>1
<1>4. P \ {Pick(P)} \notin D
  BY <1>2, <1>3, PickIn
<1>5. /\ f[P] = size[Pick(P)] + f[P \ {Pick(P)}]
      /\ g[P] = size[Pick(P)] + g[P \ {Pick(P)}]
  BY <1>3, SumsStep
<1> QED
  BY <1>4, <1>5

\* And there is one.
LEMMA SumsExist ==
  ASSUME NEW S, IsFiniteSet(S), NEW size
  PROVE  Sums(SumOf(size, S), size, S)
<1> DEFINE D == {P \in SUBSET S : ~ Sums(SumOf(size, P), size, P)}
<1> SUFFICES ASSUME D # {}
             PROVE  FALSE
  OBVIOUS
<1>1. PICK P \in D : \A Q \in D : Q \subseteq P => Q = P
  <2>1. D \in SUBSET (SUBSET S) /\ D # {}
    OBVIOUS
  <2> HIDE DEF D
  <2> QED
    BY <2>1, Smallest
<1>2. \A Q \in SUBSET P : Q # P => Sums(SumOf(size, Q), size, Q) /\ IsFiniteSet(Q)
  BY <1>1, FS_Subset
<1> DEFINE rest(Q) == Q \ {Pick(Q)}
           h == [Q \in SUBSET P |->
                   IF Q = {} THEN 0 ELSE size[Pick(Q)] + SumOf(size, rest(Q))[rest(Q)]]
<1>3. ASSUME NEW Q \in SUBSET P, Q # {}
      PROVE  h[rest(Q)] = SumOf(size, rest(Q))[rest(Q)]
  <2> DEFINE R == rest(Q)
             m == SumOf(size, R)
  <2>1. R \in SUBSET P /\ R # P
    BY <1>3, PickIn
  <2>2. Sums(m, size, R) /\ IsFiniteSet(R)
    BY <1>2, <2>1
  <2>3. CASE R = {}
    <3>1. m[{}] = 0
      BY <2>2, SumsStep
    <3> QED
      BY <2>1, <2>3, <3>1
  <2>4. CASE R # {}
    <3>1. rest(R) \in SUBSET R /\ rest(R) # P
      BY <2>1
    <3>2. Sums(SumOf(size, rest(R)), size, rest(R))
      BY <1>2, <2>1, <3>1
    <3>3. m[rest(R)] = SumOf(size, rest(R))[rest(R)]
      BY <2>2, <3>1, <3>2, SumsAgree
    <3>4. m[R] = size[Pick(R)] + m[rest(R)]
      <4>1. R \in SUBSET R
        OBVIOUS
      <4> HIDE DEF R, m
      <4> QED
        BY <2>2, <2>4, <4>1, SumsStep
    <3> QED
      BY <2>1, <2>4, <3>3, <3>4
  <2> QED
    BY <2>3, <2>4
<1>4. h = [Q \in SUBSET P |-> IF Q = {} THEN 0 ELSE size[Pick(Q)] + h[rest(Q)]]
  <2> HIDE DEF rest
  <2> QED
    BY <1>3
<1>5. Sums(h, size, P)
  <2> HIDE DEF h
  <2> QED
    BY <1>4 DEF Sums
<1>6. Sums(SumOf(size, P), size, P)
  BY <1>5 DEF SumOf
<1> QED
  BY <1>1, <1>6

LEMMA TotalIsSum ==
  ASSUME NEW S, NEW size
  PROVE  TotalSize(size, S) = SumOf(size, S)[S]
  BY DEF TotalSize, SumOf, Sums, Pick

\* What the sum is, told by the sum itself.
LEMMA TotalFacts ==
  ASSUME NEW S, IsFiniteSet(S), NEW size
  PROVE  /\ TotalSize(size, {}) = 0
         /\ \A P \in SUBSET S : P # {} =>
              TotalSize(size, P) = size[Pick(P)] + TotalSize(size, P \ {Pick(P)})
<1>1. TotalSize(size, {}) = 0
  <2>1. Sums(SumOf(size, {}), size, {})
    BY SumsExist, FS_EmptySet
  <2> QED
    BY <2>1, SumsStep, TotalIsSum
<1>2. ASSUME NEW P \in SUBSET S, P # {}
      PROVE  TotalSize(size, P) = size[Pick(P)] + TotalSize(size, P \ {Pick(P)})
  <2> DEFINE R == P \ {Pick(P)}
  <2>1. P \in SUBSET P /\ R \in SUBSET P /\ R \in SUBSET R
    OBVIOUS
  <2>2. IsFiniteSet(P) /\ IsFiniteSet(R)
    BY <2>1, FS_Subset
  <2> HIDE DEF R
  <2>3. Sums(SumOf(size, P), size, P) /\ Sums(SumOf(size, R), size, R)
    BY <2>2, SumsExist
  <2>4. SumOf(size, P)[R] = SumOf(size, R)[R]
    BY <2>1, <2>2, <2>3, SumsAgree
  <2>5. SumOf(size, P)[P] = size[Pick(P)] + SumOf(size, P)[R]
    BY <1>2, <2>1, <2>3, SumsStep DEF R
  <2> QED
    BY <2>4, <2>5, TotalIsSum DEF R
<1> QED
  BY <1>1, <1>2

LEMMA TotalTyped ==
  ASSUME NEW S, IsFiniteSet(S), NEW size \in [S -> Nat]
  PROVE  \A P \in SUBSET S : TotalSize(size, P) \in Nat
<1> DEFINE D == {P \in SUBSET S : TotalSize(size, P) \notin Nat}
<1> SUFFICES ASSUME D # {}
             PROVE  FALSE
  OBVIOUS
<1>1. PICK P \in D : \A Q \in D : Q \subseteq P => Q = P
  <2>1. D \in SUBSET (SUBSET S) /\ D # {}
    OBVIOUS
  <2> HIDE DEF D
  <2> QED
    BY <2>1, Smallest
<1>2. P # {} /\ P \in SUBSET S
  BY TotalFacts
<1>3. P \ {Pick(P)} \notin D /\ Pick(P) \in S
  BY <1>1, <1>2, PickIn
<1>4. TotalSize(size, P) = size[Pick(P)] + TotalSize(size, P \ {Pick(P)})
  BY <1>2, TotalFacts
<1> QED
  BY <1>2, <1>3, <1>4

\* Whichever place is taken out first.
LEMMA TotalWithout ==
  ASSUME NEW S, IsFiniteSet(S), NEW size \in [S -> Nat]
  PROVE  \A P \in SUBSET S : \A j \in P :
           TotalSize(size, P) = size[j] + TotalSize(size, P \ {j})
<1> DEFINE D == {P \in SUBSET S :
                   \E j \in P : TotalSize(size, P) # size[j] + TotalSize(size, P \ {j})}
<1> SUFFICES ASSUME D # {}
             PROVE  FALSE
  OBVIOUS
<1>1. PICK P \in D : \A Q \in D : Q \subseteq P => Q = P
  <2>1. D \in SUBSET (SUBSET S) /\ D # {}
    OBVIOUS
  <2> HIDE DEF D
  <2> QED
    BY <2>1, Smallest
<1>2. PICK j \in P : TotalSize(size, P) # size[j] + TotalSize(size, P \ {j})
  OBVIOUS
<1> DEFINE i == Pick(P)
           both == (P \ {i}) \ {j}
<1>3. i \in P
  BY <1>2, PickIn
<1>4. i # j /\ TotalSize(size, P) = size[i] + TotalSize(size, P \ {i})
  BY <1>2, TotalFacts
<1>5. P \ {i} \notin D /\ P \ {j} \notin D
  BY <1>1, <1>2, <1>3
<1>6. TotalSize(size, P \ {i}) = size[j] + TotalSize(size, both)
  BY <1>2, <1>4, <1>5
<1>7. TotalSize(size, P \ {j}) = size[i] + TotalSize(size, both)
  <2>1. (P \ {j}) \ {i} = both
    OBVIOUS
  <2> HIDE DEF both
  <2> QED
    BY <1>3, <1>4, <1>5, <2>1
<1>8. size[i] \in Nat /\ size[j] \in Nat /\ TotalSize(size, both) \in Nat
  BY <1>2, <1>3, TotalTyped
<1> HIDE DEF i, both, D
<1> QED
  BY <1>2, <1>4, <1>6, <1>7, <1>8

LEMMA TotalGrows ==
  ASSUME NEW S, IsFiniteSet(S), NEW size \in [S -> Nat]
  PROVE  \A P \in SUBSET S : \A Q \in SUBSET P : TotalSize(size, Q) <= TotalSize(size, P)
<1> DEFINE D == {P \in SUBSET S :
                   \E Q \in SUBSET P : ~ (TotalSize(size, Q) <= TotalSize(size, P))}
<1> SUFFICES ASSUME D # {}
             PROVE  FALSE
  OBVIOUS
<1>1. PICK P \in D : \A Q \in D : Q \subseteq P => Q = P
  <2>1. D \in SUBSET (SUBSET S) /\ D # {}
    OBVIOUS
  <2> HIDE DEF D
  <2> QED
    BY <2>1, Smallest
<1>2. PICK Q \in SUBSET P : ~ (TotalSize(size, Q) <= TotalSize(size, P))
  OBVIOUS
<1>3. /\ TotalSize(size, P) \in Nat /\ TotalSize(size, Q) \in Nat
      /\ \A j \in P : TotalSize(size, P \ {j}) \in Nat /\ size[j] \in Nat
  BY <1>1, TotalTyped
<1>4. PICK j \in P : j \notin Q
  BY <1>2, <1>3
<1>5. P \ {j} \notin D /\ Q \in SUBSET (P \ {j}) /\ P \ {j} \in SUBSET S
  BY <1>1, <1>2, <1>4
<1>6. TotalSize(size, Q) <= TotalSize(size, P \ {j})
  BY <1>5
<1>7. TotalSize(size, P) = size[j] + TotalSize(size, P \ {j})
  BY <1>1, TotalWithout
<1> QED
  BY <1>2, <1>3, <1>6, <1>7

-----------------------------------------------------------------------------
(* The first of a finite set *)

\* R puts the members of s in a line.
Orders(R, s) ==
  /\ \A i \in s : <<i, i>> \notin R
  /\ \A i, j, k \in s : <<i, j>> \in R /\ <<j, k>> \in R => <<i, k>> \in R
  /\ \A i, j \in s : i # j => <<i, j>> \in R \/ <<j, i>> \in R

Before(R, s, i) == {j \in s : <<j, i>> \in R}

FirstOf(R, s, count) == {i \in s : Cardinality(Before(R, s, i)) < count}

LEMMA BeforeFacts ==
  ASSUME NEW s, IsFiniteSet(s), NEW R, Orders(R, s)
  PROVE  /\ Cardinality(s) \in Nat
         /\ \A i \in s : Cardinality(Before(R, s, i)) \in 0..(Cardinality(s) - 1)
         /\ \A i, j \in s :
              i # j => Cardinality(Before(R, s, i)) # Cardinality(Before(R, s, j))
<1>1. Cardinality(s) \in Nat
  BY FS_CardinalityType
<1>2. ASSUME NEW i \in s
      PROVE  /\ Before(R, s, i) \in SUBSET s /\ IsFiniteSet(Before(R, s, i))
             /\ Cardinality(Before(R, s, i)) \in 0..(Cardinality(s) - 1)
  <2>1. Before(R, s, i) \in SUBSET s /\ i \notin Before(R, s, i)
    BY <1>2 DEF Before, Orders
  <2>2. /\ IsFiniteSet(Before(R, s, i)) /\ Cardinality(Before(R, s, i)) <= Cardinality(s)
        /\ Cardinality(s) = Cardinality(Before(R, s, i)) => s = Before(R, s, i)
    BY <2>1, FS_Subset
  <2>3. Cardinality(Before(R, s, i)) \in Nat
    BY <2>2, FS_CardinalityType
  <2> QED
    BY <1>1, <2>1, <2>2, <2>3
<1>3. ASSUME NEW i \in s, NEW j \in s, <<i, j>> \in R
      PROVE  Cardinality(Before(R, s, i)) # Cardinality(Before(R, s, j))
  <2>1. Before(R, s, i) \in SUBSET Before(R, s, j)
    BY <1>3 DEF Before, Orders
  <2>2. i \in Before(R, s, j) /\ i \notin Before(R, s, i)
    BY <1>3 DEF Before, Orders
  <2>3. Cardinality(Before(R, s, j)) = Cardinality(Before(R, s, i))
          => Before(R, s, j) = Before(R, s, i)
    BY <1>2, <2>1, FS_Subset
  <2> QED
    BY <2>2, <2>3
<1> QED
  BY <1>1, <1>2, <1>3 DEF Orders

\* Some of them have a last.
LEMMA LastIn ==
  ASSUME NEW s, IsFiniteSet(s), NEW R, Orders(R, s), NEW v \in SUBSET s, v # {}
  PROVE  \E i \in v : \A j \in v : j = i \/ <<j, i>> \in R
<1> DEFINE after(i) == {j \in s : <<i, j>> \in R}
           afters == {after(i) : i \in v}
<1>1. afters \in SUBSET (SUBSET s) /\ afters # {}
  OBVIOUS
<1>2. PICK P \in afters : \A Q \in afters : Q \subseteq P => Q = P
  <2> HIDE DEF afters
  <2> QED
    BY <1>1, Smallest
<1>3. PICK i \in v : P = after(i)
  OBVIOUS
<1>4. ASSUME NEW j \in v, j # i, <<j, i>> \notin R
      PROVE  FALSE
  <2>1. <<i, j>> \in R
    BY <1>4 DEF Orders
  <2>2. after(j) \subseteq after(i) /\ j \in after(i) /\ j \notin after(j)
    BY <1>4, <2>1 DEF Orders
  <2>3. after(j) \in afters
    OBVIOUS
  <2> QED
    BY <1>2, <1>3, <2>2, <2>3
<1> QED
  BY <1>4

\* What is cut off comes after what is left.
LEMMA FirstAhead ==
  ASSUME NEW s, IsFiniteSet(s), NEW R, Orders(R, s), NEW count \in Nat,
         NEW i \in FirstOf(R, s, count), NEW j \in s, j \notin FirstOf(R, s, count)
  PROVE  <<i, j>> \in R
<1> DEFINE early == Before(R, s, i)
           late == Before(R, s, j)
<1>1. i \in s /\ i # j /\ Cardinality(early) < count /\ ~ (Cardinality(late) < count)
  BY DEF FirstOf
<1>2. SUFFICES ASSUME <<j, i>> \in R
               PROVE  FALSE
  BY <1>1 DEF Orders
<1>3. late \in SUBSET early /\ early \in SUBSET s
  BY <1>1, <1>2 DEF Before, Orders
<1> HIDE DEF early, late
<1>4. /\ IsFiniteSet(early) /\ Cardinality(early) \in Nat
      /\ IsFiniteSet(late) /\ Cardinality(late) \in Nat
      /\ Cardinality(late) <= Cardinality(early)
  <2>1. IsFiniteSet(early)
    BY <1>3, FS_Subset
  <2>2. IsFiniteSet(late) /\ Cardinality(late) <= Cardinality(early)
    BY <1>3, <2>1, FS_Subset
  <2> QED
    BY <2>1, <2>2, FS_CardinalityType
<1> QED
  BY <1>1, <1>4

LEMMA FirstFacts ==
  ASSUME NEW s, IsFiniteSet(s), NEW R, Orders(R, s), NEW count \in 0..Cardinality(s)
  PROVE  /\ FirstOf(R, s, count) \in SUBSET s
         /\ IsFiniteSet(FirstOf(R, s, count))
         /\ Cardinality(FirstOf(R, s, count)) = count
         /\ count # 0 =>
              \E i \in s : /\ i \in FirstOf(R, s, count)
                           /\ FirstOf(R, s, count - 1) = FirstOf(R, s, count) \ {i}
<1> DEFINE size == Cardinality(s)
           place == [i \in s |-> Cardinality(Before(R, s, i))]
           part == FirstOf(R, s, count)
           cut == [i \in part |-> place[i]]
<1>1. size \in Nat /\ count \in Nat /\ count <= size
  BY BeforeFacts
<1>2. place \in Injection(s, 0..(size - 1))
  <2>1. place \in [s -> 0..(size - 1)]
    BY BeforeFacts
  <2>2. \A i, j \in s : place[i] = place[j] => i = j
    BY BeforeFacts
  <2> HIDE DEF place
  <2> QED
    BY <2>1, <2>2 DEF Injection, IsInjective
<1>3. IsFiniteSet(0..(size - 1)) /\ Cardinality(0..(size - 1)) = size
  <2> HIDE DEF size
  <2>1. 0 \in Int /\ size - 1 \in Int
    BY <1>1
  <2>2. /\ IsFiniteSet(0..(size - 1))
        /\ Cardinality(0..(size - 1)) = IF 0 > size - 1 THEN 0 ELSE size - 1 - 0 + 1
    BY <2>1, FS_Interval
  <2> QED
    BY <1>1, <2>2
<1>4. place \in Surjection(s, 0..(size - 1))
  BY <1>2, <1>3, FS_Injection
<1>5. \A k \in 0..(size - 1) : \E i \in s : place[i] = k
  BY <1>4 DEF Surjection
<1>6. \A i \in s : place[i] \in 0..(size - 1) /\ \A j \in s : place[i] = place[j] => i = j
  BY BeforeFacts
<1>7. \A c : FirstOf(R, s, c) = {i \in s : place[i] < c}
  BY DEF FirstOf
<1> HIDE DEF place
<1>8. part \in SUBSET s /\ IsFiniteSet(part)
  BY <1>7, FS_Subset
<1>9. Cardinality(part) = count
  <2>1. cut \in [part -> 0..(count - 1)]
    BY <1>1, <1>6, <1>7
  <2>2. \A i, j \in part : cut[i] = cut[j] => i = j
    BY <1>6, <1>8
  <2>3. \A k \in 0..(count - 1) : \E i \in part : cut[i] = k
    <3> SUFFICES ASSUME NEW k \in 0..(count - 1)
                 PROVE  \E i \in part : cut[i] = k
      OBVIOUS
    <3>1. PICK i \in s : place[i] = k
      BY <1>1, <1>5
    <3> QED
      BY <1>7, <3>1
  <2> HIDE DEF cut, part
  <2>4. cut \in Bijection(part, 0..(count - 1))
    BY <2>1, <2>2, <2>3 DEF Bijection, Injection, IsInjective, Surjection
  <2>5. ExistsBijection(part, 0..(count - 1))
    BY <2>4 DEF ExistsBijection
  <2>6. Cardinality(0..(count - 1)) = Cardinality(part)
    BY <1>8, <2>5, FS_Bijection
  <2> QED
    BY <1>1, <2>6, FS_Interval
<1>10. ASSUME count # 0
       PROVE  \E i \in s : /\ i \in part
                           /\ FirstOf(R, s, count - 1) = part \ {i}
  <2>1. PICK i \in s : place[i] = count - 1
    BY <1>1, <1>5, <1>10
  <2> QED
    BY <1>1, <1>6, <1>7, <2>1
<1> QED
  BY <1>8, <1>9, <1>10

-----------------------------------------------------------------------------
(* The views *)

\* The orders that the events are sorted in.
ByScore(score, s) ==
  {p \in s \X s : score[p[1]] < score[p[2]] \/ (score[p[1]] = score[p[2]] /\ p[1] < p[2])}

BySize(size, s) ==
  {p \in s \X s : size[p[1]] > size[p[2]] \/ (size[p[1]] = size[p[2]] /\ p[1] < p[2])}

ByWorth(score, s) ==
  {p \in s \X s : score[p[1]] > score[p[2]] \/ (score[p[1]] = score[p[2]] /\ p[1] > p[2])}

\* By a key, then by a second one that no two share.
ByKeys(first, second, s) ==
  {p \in s \X s : first[p[1]] < first[p[2]]
                  \/ (first[p[1]] = first[p[2]] /\ second[p[1]] < second[p[2]])}

LEMMA KeysOrder ==
  ASSUME NEW s, NEW first \in [s -> Int], NEW second \in [s -> Int],
         \A i, j \in s : second[i] = second[j] => i = j
  PROVE  Orders(ByKeys(first, second, s), s)
<1> DEFINE R == ByKeys(first, second, s)
<1>1. \A i \in s : first[i] \in Int /\ second[i] \in Int
  OBVIOUS
<1>2. \A i, j \in s : <<i, j>> \in R <=>
        first[i] < first[j] \/ (first[i] = first[j] /\ second[i] < second[j])
  BY DEF ByKeys
<1> HIDE DEF R
<1>3. ASSUME NEW i \in s
      PROVE  <<i, i>> \notin R
  BY <1>1, <1>2
<1>4. ASSUME NEW i \in s, NEW j \in s, NEW k \in s, <<i, j>> \in R, <<j, k>> \in R
      PROVE  <<i, k>> \in R
  <2>1. /\ first[i] < first[j] \/ (first[i] = first[j] /\ second[i] < second[j])
        /\ first[j] < first[k] \/ (first[j] = first[k] /\ second[j] < second[k])
    BY <1>2, <1>4
  <2>2. first[i] < first[k] \/ (first[i] = first[k] /\ second[i] < second[k])
    BY <1>1, <2>1
  <2> QED
    BY <1>2, <2>2
<1>5. ASSUME NEW i \in s, NEW j \in s, i # j
      PROVE  <<i, j>> \in R \/ <<j, i>> \in R
  <2>1. second[i] # second[j]
    BY <1>5
  <2>2. \/ first[i] < first[j] \/ (first[i] = first[j] /\ second[i] < second[j])
        \/ first[j] < first[i] \/ (first[j] = first[i] /\ second[j] < second[i])
    BY <1>1, <2>1
  <2> QED
    BY <1>2, <2>2
<1>6. Orders(R, s)
  BY <1>3, <1>4, <1>5 DEF Orders
<1> QED
  BY <1>6 DEF R

LEMMA SortsOrder ==
  ASSUME NEW n \in Nat, NEW s \in SUBSET (1..n), NEW size \in [1..n -> Nat]
  PROVE  Orders(ByScore(size, s), s) /\ Orders(BySize(size, s), s) /\ Orders(ByWorth(size, s), s)
<1> DEFINE up == [i \in s |-> size[i]]
           down == [i \in s |-> -size[i]]
           early == [i \in s |-> i]
           late == [i \in s |-> -i]
<1>1. \A i \in s : i \in Int /\ size[i] \in Int
  OBVIOUS
<1>2. /\ up \in [s -> Int] /\ down \in [s -> Int]
      /\ early \in [s -> Int] /\ late \in [s -> Int]
  BY <1>1
<1>3. /\ \A i, j \in s : early[i] = early[j] => i = j
      /\ \A i, j \in s : late[i] = late[j] => i = j
  BY <1>1
<1>4. \A i, j \in s : /\ size[i] > size[j] <=> down[i] < down[j]
                      /\ size[i] = size[j] <=> down[i] = down[j]
                      /\ i < j <=> early[i] < early[j]
                      /\ i > j <=> late[i] < late[j]
  BY <1>1
<1>5. \A p \in s \X s : p[1] \in s /\ p[2] \in s
  OBVIOUS
<1>6. ByScore(size, s) = ByKeys(up, early, s)
  BY <1>5 DEF ByScore, ByKeys
<1> HIDE DEF up, down, early, late
<1>7. BySize(size, s) = ByKeys(down, early, s)
  BY <1>4, <1>5 DEF BySize, ByKeys
<1>8. ByWorth(size, s) = ByKeys(down, late, s)
  BY <1>4, <1>5 DEF ByWorth, ByKeys
<1>9. /\ Orders(ByKeys(up, early, s), s) /\ Orders(ByKeys(down, early, s), s)
      /\ Orders(ByKeys(down, late, s), s)
  BY <1>2, <1>3, KeysOrder
<1> QED
  BY <1>6, <1>7, <1>8, <1>9

LEMMA LargestFirst ==
  ASSUME NEW s, NEW size, NEW count
  PROVE  Largest(s, size, count) = FirstOf(BySize(size, s), s, count)
<1>1. \A i \in s : {j \in s : size[j] > size[i] \/ (size[j] = size[i] /\ j < i)}
                     = Before(BySize(size, s), s, i)
  BY DEF Before, BySize
<1>2. Largest(s, size, count) =
        {i \in s : Cardinality({j \in s : size[j] > size[i] \/ (size[j] = size[i] /\ j < i)}) < count}
  BY DEF Largest, RankIn
<1> QED
  BY <1>1, <1>2 DEF FirstOf

LEMMA ScoreFirst ==
  ASSUME NEW n, NEW score, NEW cfg
  PROVE  CompactByScore(n, score, cfg) =
           Recent(n, cfg) \cup
           FirstOf(ByScore(score, Older(n, cfg)), Older(n, cfg),
                   Cardinality(Older(n, cfg)) - ToRemove(Older(n, cfg), cfg))
<1> DEFINE s == Older(n, cfg)
           kept == Cardinality(s) - ToRemove(s, cfg)
<1>1. CompactByScore(n, score, cfg) =
        Recent(n, cfg) \cup
        {i \in s : Cardinality({j \in s : score[j] < score[i]
                                          \/ (score[j] = score[i] /\ j < i)}) < kept}
  BY DEF CompactByScore, RankIn
<1> HIDE DEF s, kept
<1>2. \A i \in s : {j \in s : score[j] < score[i] \/ (score[j] = score[i] /\ j < i)}
                     = Before(ByScore(score, s), s, i)
  BY DEF Before, ByScore
<1>3. CompactByScore(n, score, cfg) = Recent(n, cfg) \cup FirstOf(ByScore(score, s), s, kept)
  BY <1>1, <1>2 DEF FirstOf
<1> QED
  BY <1>3 DEF s, kept

View == [KeepRecent : Nat, MaxCompactEvents : Nat]

LEMMA OlderFacts ==
  ASSUME NEW n \in Nat, NEW cfg \in View
  PROVE  /\ IsFiniteSet(1..n)
         /\ Older(n, cfg) \in SUBSET (1..n) /\ Recent(n, cfg) \in SUBSET (1..n)
         /\ Older(n, cfg) \cap Recent(n, cfg) = {}
         /\ Older(n, cfg) \cup Recent(n, cfg) = 1..n
         /\ IsFiniteSet(Older(n, cfg))
         /\ Cardinality(Older(n, cfg)) \in Nat
         /\ Cardinality(Older(n, cfg)) = 0 <=> Older(n, cfg) = {}
<1>1. Older(n, cfg) \in SUBSET (1..n) /\ Recent(n, cfg) \in SUBSET (1..n)
  BY DEF Older, Recent
<1>2. IsFiniteSet(1..n)
  BY FS_Interval
<1>3. IsFiniteSet(Older(n, cfg))
  BY <1>1, <1>2, FS_Subset
<1>4. /\ Cardinality(Older(n, cfg)) \in Nat
      /\ Cardinality(Older(n, cfg)) = 0 <=> Older(n, cfg) = {}
  BY <1>3, FS_CardinalityType, FS_EmptySet
<1>5. Older(n, cfg) \cap Recent(n, cfg) = {} /\ Older(n, cfg) \cup Recent(n, cfg) = 1..n
  BY <1>1 DEF Older
<1> QED
  BY <1>1, <1>2, <1>3, <1>4, <1>5

\* For any events, any scores and any configuration: compaction by score spares
\* the recent events and some of the others, and takes the highest scores of
\* them (compaction.go:44-110).
THEOREM ScoreViewTakesHighest ==
  ASSUME NEW n \in Nat, NEW score \in [1..n -> Nat], NEW cfg \in View
  PROVE  HighestScoresGo(n, score, cfg)
<1> DEFINE older == Older(n, cfg)
           m == Cardinality(older)
           most == cfg.MaxCompactEvents
           removed == ToRemove(older, cfg)
           part == FirstOf(ByScore(score, older), older, m - removed)
<1>1. most \in Nat
  BY DEF View
<1>2. m \in Nat /\ (m = 0 <=> older = {}) /\ IsFiniteSet(older) /\ older \in SUBSET (1..n)
  BY OlderFacts
<1>3. removed \in 0..m /\ removed <= most /\ (m # 0 => removed < m)
  <2> HIDE DEF m, most
  <2>1. removed = IF m <= most THEN m \div 2 ELSE most
    BY DEF m, most, ToRemove
  <2> HIDE DEF removed
  <2> QED
    BY <1>1, <1>2, <2>1
<1>4. Orders(ByScore(score, older), older)
  BY <1>2, SortsOrder
<1>5. part \in SUBSET older /\ Cardinality(part) = m - removed
  <2>1. m - removed \in 0..Cardinality(older)
    BY <1>2, <1>3
  <2> HIDE DEF older, m, removed
  <2> QED
    BY <1>2, <1>4, <2>1, FirstFacts
<1>6. CompactByScore(n, score, cfg) = Recent(n, cfg) \cup part
  BY ScoreFirst
<1>7. (1..n) \ (Recent(n, cfg) \cup part) = older \ part
  BY <1>5, OlderFacts
<1>8. Cardinality(older \ part) = removed
  <2>1. older \cap part = part
    BY <1>5
  <2>2. Cardinality(older \ part) = Cardinality(older) - Cardinality(older \cap part)
    BY <1>2, FS_Difference
  <2>3. Cardinality(older \cap part) = m - removed
    BY <1>5, <2>1
  <2> HIDE DEF older, removed, part
  <2>4. Cardinality(older \ part) = m - (m - removed)
    BY <2>2, <2>3
  <2> HIDE DEF m
  <2>5. m - (m - removed) = removed
    BY <1>2, <1>3
  <2> QED
    BY <2>4, <2>5
<1>9. older # {} => part # {}
  <2>1. part = {} => Cardinality(part) = 0
    BY FS_EmptySet
  <2> QED
    BY <1>2, <1>3, <1>5, <2>1
<1>10. ASSUME NEW i \in older \ part, NEW j \in part
       PROVE  score[j] < score[i] \/ (score[j] = score[i] /\ j < i)
  <2>1. m - removed \in Nat
    <3> HIDE DEF m, removed
    <3> QED
      BY <1>2, <1>3
  <2>2. <<j, i>> \in ByScore(score, older)
    <3> HIDE DEF older, m, removed
    <3> QED
      BY <1>2, <1>4, <1>10, <2>1, FirstAhead
  <2> HIDE DEF older, part
  <2> QED
    BY <2>2 DEF ByScore
<1>11. (Recent(n, cfg) \cup part) \cap older = part
  BY <1>5, OlderFacts
<1> HIDE DEF older, m, most, removed, part
<1> QED
  BY <1>3, <1>5, <1>6, <1>7, <1>8, <1>9, <1>10, <1>11, Zenon DEF HighestScoresGo, older, most

\* How many of the largest go: as few as the budget and MaxCompactEvents allow.
LEMMA LeastRemoved ==
  ASSUME NEW n \in Nat, NEW size \in [1..n -> Nat], NEW cfg \in View, NEW budget \in Nat
  PROVE  LET older == Older(n, cfg)
             most == Least(Cardinality(older), cfg.MaxCompactEvents)
             left(c) == TotalSize(size, (1..n) \ Largest(older, size, c))
         IN  \E c \in 0..most :
               /\ CompactByTextSize(n, size, budget, cfg) = (1..n) \ Largest(older, size, c)
               /\ left(c) <= budget \/ c = most
               /\ c # 0 => ~ (left(c - 1) <= budget)
<1> DEFINE older == Older(n, cfg)
           most == Least(Cardinality(older), cfg.MaxCompactEvents)
           left(c) == TotalSize(size, (1..n) \ Largest(older, size, c))
           enough(c) == left(c) <= budget \/ c = most
           removed == CHOOSE c \in 0..most : enough(c) /\ \A d \in 0..c : enough(d) => d = c
           may == {c \in 0..most : enough(c)}
<1>1. most \in Nat
  BY OlderFacts DEF Least, View
<1>2. may \subseteq Nat /\ may # {}
  BY <1>1
<1>3. PICK c \in may : \A d \in may : <<d, c>> \notin OpToRel(<, Nat)
  <2> HIDE DEF may
  <2> QED
    BY <1>2, WFMin, NatLessThanWellFounded, Zenon
<1>4. \A d \in may : ~ (d < c)
  BY <1>2, <1>3, Zenon DEF OpToRel
<1>5. c \in 0..most /\ enough(c) /\ \A d \in 0..c : enough(d) => d = c
  <2> HIDE DEF enough
  <2> QED
    BY <1>1, <1>4
<1>6. removed \in 0..most /\ enough(removed) /\ \A d \in 0..removed : enough(d) => d = removed
  <2> HIDE DEF enough, most
  <2> QED
    BY <1>5, Zenon
<1>7. CompactByTextSize(n, size, budget, cfg) = (1..n) \ Largest(older, size, removed)
  BY DEF CompactByTextSize
<1>8. removed # 0 => ~ enough(removed - 1)
  <2> HIDE DEF enough, removed
  <2> QED
    BY <1>1, <1>6
<1> HIDE DEF removed, most
<1> QED
  BY <1>6, <1>7, <1>8 DEF most

\* For any events, sizes, budget and configuration: only what the budget needs
\* goes, the largest first, and never a recent event (compaction.go:112-180).
THEOREM SizeViewTakesLargest ==
  ASSUME NEW n \in Nat, NEW size \in [1..n -> Nat], NEW cfg \in View, NEW budget \in Nat
  PROVE  LargestGo(n, size, budget, cfg)
<1> DEFINE older == Older(n, cfg)
           m == Cardinality(older)
           most == Least(m, cfg.MaxCompactEvents)
           R == BySize(size, older)
           kept == CompactByTextSize(n, size, budget, cfg)
           gone == (1..n) \ kept
<1>1. /\ m \in Nat /\ IsFiniteSet(older) /\ older \in SUBSET (1..n)
      /\ Recent(n, cfg) \in SUBSET ((1..n) \ older)
      /\ IsFiniteSet(1..n)
  BY OlderFacts
<1>2. most \in Nat /\ most <= m /\ most <= cfg.MaxCompactEvents
  BY <1>1 DEF Least, View
<1>3. Orders(R, older)
  BY <1>1, SortsOrder
<1>4. PICK c \in 0..most :
        /\ kept = (1..n) \ FirstOf(R, older, c)
        /\ TotalSize(size, (1..n) \ FirstOf(R, older, c)) <= budget \/ c = most
        /\ c # 0 => ~ (TotalSize(size, (1..n) \ FirstOf(R, older, c - 1)) <= budget)
  <2>1. \A count : Largest(older, size, count) = FirstOf(R, older, count)
    BY LargestFirst
  <2>2. \E c \in 0..most :
          /\ kept = (1..n) \ Largest(older, size, c)
          /\ TotalSize(size, (1..n) \ Largest(older, size, c)) <= budget \/ c = most
          /\ c # 0 => ~ (TotalSize(size, (1..n) \ Largest(older, size, c - 1)) <= budget)
    BY LeastRemoved
  <2> HIDE DEF kept, most, R, m, older
  <2> QED
    BY <2>1, <2>2
<1> HIDE DEF kept, most, R, m
<1>5. c \in 0..Cardinality(older) /\ c \in Nat
  BY <1>1, <1>2 DEF m
<1>6. /\ FirstOf(R, older, c) \in SUBSET older
      /\ Cardinality(FirstOf(R, older, c)) = c
      /\ c # 0 => \E i \in older : /\ i \in FirstOf(R, older, c)
                                   /\ FirstOf(R, older, c - 1) = FirstOf(R, older, c) \ {i}
  <2> HIDE DEF older
  <2> QED
    BY <1>1, <1>3, <1>5, FirstFacts
<1>7. gone = FirstOf(R, older, c)
  BY <1>1, <1>4, <1>6
<1>8. gone # {} => \E i \in gone : TotalSize(size, kept \cup {i}) > budget
  <2> SUFFICES ASSUME gone # {}
               PROVE  \E i \in gone : TotalSize(size, kept \cup {i}) > budget
    OBVIOUS
  <2>1. c # 0
    BY <1>1, <1>6, <1>7, FS_Subset, FS_EmptySet
  <2>2. PICK i \in gone : FirstOf(R, older, c - 1) = gone \ {i}
    BY <1>6, <1>7, <2>1
  <2>3. (1..n) \ (gone \ {i}) = kept \cup {i} /\ kept \cup {i} \in SUBSET (1..n)
    BY <1>1, <1>4, <1>6, <1>7
  <2>4. TotalSize(size, kept \cup {i}) \in Nat
    BY <1>1, <2>3, TotalTyped
  <2>5. ~ (TotalSize(size, kept \cup {i}) <= budget)
    BY <1>4, <2>1, <2>2, <2>3
  <2> DEFINE size1 == TotalSize(size, kept \cup {i})
  <2>6. size1 \in Nat /\ ~ (size1 <= budget)
    BY <2>4, <2>5
  <2> HIDE DEF size1
  <2>7. size1 > budget
    BY <2>6
  <2> QED
    BY <2>7 DEF size1
<1>9. Cardinality(gone) = c
  BY <1>6, <1>7
<1>10. gone \subseteq older
  BY <1>6, <1>7
<1>11. c <= cfg.MaxCompactEvents
  BY <1>2, <1>5 DEF View
<1>12. ASSUME NEW i \in gone, NEW j \in kept \cap older
       PROVE  size[j] <= size[i]
  <2>1. i \in FirstOf(R, older, c) /\ j \in older /\ j \notin FirstOf(R, older, c)
    BY <1>7, <1>12
  <2>2. <<i, j>> \in R
    <3> HIDE DEF older, gone
    <3> QED
      BY <1>1, <1>3, <1>5, <2>1, FirstAhead
  <2>3. size[i] > size[j] \/ size[i] = size[j]
    <3> HIDE DEF older, gone
    <3> QED
      BY <2>2 DEF R, BySize
  <2>4. i \in 1..n /\ j \in 1..n
    BY <1>1, <1>6, <1>7, <1>12
  <2> HIDE DEF gone, older
  <2> QED
    BY <2>3, <2>4
<1>13. TotalSize(size, kept) <= budget \/ Cardinality(gone) = most
  BY <1>4, <1>9
<1> HIDE DEF older, gone
<1> QED
  BY <1>8, <1>9, <1>10, <1>11, <1>12, <1>13 DEF LargestGo, m, most, kept, gone, older

\* The scan stops before the view is larger than the budget.
LEMMA ViewFits ==
  ASSUME NEW n \in Nat, NEW size \in [1..n -> Nat], NEW score \in [1..n -> Nat],
         NEW budget \in Nat
  PROVE  TotalSize(size, BuildCompactView(n, score, size, budget)) <= budget
<1> DEFINE R == ByWorth(score, 1..n)
           upto(i) == {j \in 1..n : j = i \/ <<j, i>> \in R}
           view == {i \in 1..n : TotalSize(size, upto(i)) <= budget}
<1>1. IsFiniteSet(1..n)
  BY FS_Interval
<1>2. Orders(R, 1..n)
  <2>1. (1..n) \in SUBSET (1..n)
    OBVIOUS
  <2> QED
    BY <2>1, SortsOrder
<1>3. BuildCompactView(n, score, size, budget) = view
  <2>1. \A i \in 1..n : upto(i) = {j \in 1..n : j = i \/ score[j] > score[i]
                                             \/ (score[j] = score[i] /\ j > i)}
    BY DEF ByWorth
  <2>2. BuildCompactView(n, score, size, budget) =
          {i \in 1..n : TotalSize(size, {j \in 1..n : j = i \/ (score[j] > score[i]
                                             \/ (score[j] = score[i] /\ j > i))}) <= budget}
    BY DEF BuildCompactView
  <2> QED
    BY <2>1, <2>2
<1>4. CASE view = {}
  <2>1. TotalSize(size, {}) = 0
    BY <1>1, TotalFacts
  <2> HIDE DEF view
  <2> QED
    BY <1>3, <1>4, <2>1
<1>5. CASE view # {}
  <2>1. view \in SUBSET (1..n)
    OBVIOUS
  <2>2. PICK i \in view : \A j \in view : j = i \/ <<j, i>> \in R
    <3> HIDE DEF view, R
    <3> QED
      BY <1>1, <1>2, <1>5, <2>1, LastIn
  <2>3. view \in SUBSET upto(i) /\ upto(i) \in SUBSET (1..n)
    <3> HIDE DEF R
    <3> QED
      BY <2>2
  <2>4. /\ TotalSize(size, view) <= TotalSize(size, upto(i))
        /\ TotalSize(size, view) \in Nat /\ TotalSize(size, upto(i)) \in Nat
    <3> HIDE DEF view, upto
    <3> QED
      BY <1>1, <2>1, <2>3, TotalGrows, TotalTyped
  <2>5. TotalSize(size, upto(i)) <= budget
    BY <2>2
  <2> HIDE DEF view, upto
  <2> QED
    BY <1>3, <2>4, <2>5
<1> QED
  BY <1>4, <1>5

\* For any events, scores, sizes and budget: the view of the highest scores fits
\* and has no gap among them (memory.go:383-433).
THEOREM CompactViewKeepsHighest ==
  ASSUME NEW n \in Nat, NEW size \in [1..n -> Nat], NEW score \in [1..n -> Nat],
         NEW budget \in Nat
  PROVE  HighestScoresStay(n, score, size, budget)
<1> DEFINE upto(i) == {j \in 1..n : j = i \/ score[j] > score[i]
                                    \/ (score[j] = score[i] /\ j > i)}
           view == {i \in 1..n : TotalSize(size, upto(i)) <= budget}
<1>1. BuildCompactView(n, score, size, budget) = view
  <2>1. BuildCompactView(n, score, size, budget) =
          {i \in 1..n : TotalSize(size, {j \in 1..n : j = i \/ (score[j] > score[i]
                                             \/ (score[j] = score[i] /\ j > i))}) <= budget}
    BY DEF BuildCompactView
  <2> QED
    BY <2>1
<1>2. ASSUME NEW i \in (1..n) \ view, NEW j \in view
      PROVE  score[i] < score[j] \/ (score[i] = score[j] /\ i < j)
  <2>1. i # j /\ score[i] \in Nat /\ score[j] \in Nat /\ i \in 1..n /\ j \in 1..n
    BY <1>2
  <2>2. SUFFICES ASSUME score[i] > score[j] \/ (score[i] = score[j] /\ i > j)
                 PROVE  FALSE
    <3> HIDE DEF view
    <3> QED
      BY <2>1
  <2>3. upto(i) \in SUBSET upto(j) /\ upto(j) \in SUBSET (1..n)
    <3>1. upto(j) \in SUBSET (1..n)
      OBVIOUS
    <3>2. ASSUME NEW k \in upto(i) PROVE k \in upto(j)
      <4>1. k \in 1..n /\ score[k] \in Nat
        BY <3>2
      <4> QED
        BY <2>1, <2>2, <3>2, <4>1
    <3> HIDE DEF upto
    <3> QED
      BY <3>1, <3>2
  <2>4. IsFiniteSet(1..n)
    BY FS_Interval
  <2>5. TotalSize(size, upto(j)) <= budget /\ ~ (TotalSize(size, upto(i)) <= budget)
    BY <1>2
  <2> HIDE DEF upto, view
  <2>6. upto(i) \in SUBSET (1..n)
    BY <2>3
  <2>7. /\ TotalSize(size, upto(i)) <= TotalSize(size, upto(j))
        /\ TotalSize(size, upto(i)) \in Nat /\ TotalSize(size, upto(j)) \in Nat
    BY <2>3, <2>4, <2>6, TotalGrows, TotalTyped
  <2> DEFINE x == TotalSize(size, upto(i))
             y == TotalSize(size, upto(j))
  <2>8. x <= y /\ x \in Nat /\ y \in Nat /\ y <= budget /\ ~ (x <= budget)
    BY <2>5, <2>7
  <2> HIDE DEF x, y
  <2> QED
    BY <2>8
<1>3. TotalSize(size, BuildCompactView(n, score, size, budget)) <= budget
  BY ViewFits
<1> HIDE DEF view
<1> QED
  BY <1>1, <1>2, <1>3 DEF HighestScoresStay

\* For any number of events, any cutoff and any configuration: compaction by age
\* drops the old events, or all but the recent ones as soon as
\* MaxCompactEvents are old (compaction.go:230-268).
THEOREM AgeViewHasNoLimit ==
  ASSUME NEW n \in Nat, NEW k \in 0..n, NEW cfg \in View
  PROVE  AgeDropsOldOrAll(n, k, cfg)
<1> DEFINE older == Older(n, cfg)
           kept == CompactAgeThreshold(n, Old(k), cfg)
           ahead(i) == {j \in Old(k) : j < i}
<1>1. /\ Recent(n, cfg) \subseteq kept
      /\ kept \cap older = {i \in older : Cardinality(ahead(i)) < cfg.MaxCompactEvents} \ Old(k)
  BY OlderFacts DEF CompactAgeThreshold, Scanned
<1>2. /\ k \in Nat /\ cfg.MaxCompactEvents \in Nat
      /\ IsFiniteSet(Old(k)) /\ Cardinality(Old(k)) = k
  <2>1. k \in Nat /\ 1 \in Int /\ k \in Int
    OBVIOUS
  <2>2. IsFiniteSet(1..k) /\ Cardinality(1..k) = IF 1 > k THEN 0 ELSE k - 1 + 1
    BY <2>1, FS_Interval
  <2>3. (IF 1 > k THEN 0 ELSE k - 1 + 1) = k
    BY <2>1
  <2> QED
    BY <2>1, <2>2, <2>3 DEF Old, View
<1>3. CASE k < cfg.MaxCompactEvents
  <2>1. ASSUME NEW i \in older
        PROVE  Cardinality(ahead(i)) < cfg.MaxCompactEvents
    <3>1. ahead(i) \in SUBSET Old(k)
      OBVIOUS
    <3> HIDE DEF ahead
    <3>2. IsFiniteSet(ahead(i)) /\ Cardinality(ahead(i)) <= k
      BY <1>2, <3>1, FS_Subset
    <3>3. Cardinality(ahead(i)) \in Nat
      BY <3>2, FS_CardinalityType
    <3> QED
      BY <1>2, <1>3, <3>2, <3>3
  <2> HIDE DEF older, kept, ahead
  <2>2. kept \cap older = older \ Old(k)
    BY <1>1, <2>1
  <2> QED
    BY <1>1, <1>3, <2>2 DEF AgeDropsOldOrAll, older, kept
<1>4. CASE ~ (k < cfg.MaxCompactEvents)
  <2>1. ASSUME NEW i \in older, i \notin Old(k)
        PROVE  ~ (Cardinality(ahead(i)) < cfg.MaxCompactEvents)
    <3>1. i \in 1..n
      BY <2>1 DEF Older
    <3>2. \A j \in Old(k) : j < i
      BY <1>2, <2>1, <3>1 DEF Old
    <3>3. ahead(i) = Old(k)
      BY <3>2
    <3> QED
      BY <1>2, <1>4, <3>3
  <2> HIDE DEF older, kept, ahead
  <2>2. kept \cap older = {}
    BY <1>1, <2>1
  <2> QED
    BY <1>1, <1>4, <2>2 DEF AgeDropsOldOrAll, older, kept
<1> QED
  BY <1>3, <1>4

\* Whatever the spine and the index, at any time.
LEMMA ViewsKept == TypeOK => ScoreAndAgeViews /\ BudgetViews
<1> SUFFICES ASSUME TypeOK
             PROVE  ScoreAndAgeViews /\ BudgetViews
  OBVIOUS
<1> DEFINE n == Len(spine)
           size == [i \in 1..n |-> spine[i].size]
           score == ScoreEvents(n, index)
           all == TotalSize(size, 1..n)
<1>1. n \in Nat /\ size \in [1..n -> Nat]
  <2>1. n \in Nat /\ \A i \in 1..n : spine[i] \in Events
    BY DEF TypeOK
  <2>2. \A i \in 1..n : spine[i].size \in Nat
    BY <2>1 DEF Events
  <2> QED
    BY <2>1, <2>2
<1>2. score \in [1..n -> Nat]
  BY <1>1 DEF ScoreEvents
<1>3. all \in Nat
  <2> HIDE DEF n, size
  <2>1. IsFiniteSet(1..n) /\ (1..n) \in SUBSET (1..n)
    BY <1>1, FS_Interval
  <2> QED
    BY <1>1, <2>1, TotalTyped
<1>4. \A budget \in {0, all \div 2, all} : budget \in Nat
  <2> HIDE DEF all
  <2> QED
    BY <1>3
<1>5. Configs \subseteq View
  BY DEF Configs, View
<1> HIDE DEF n, size, score, all
<1>6. ScoreAndAgeViews
  <2>1. ASSUME NEW cfg \in Configs
        PROVE  HighestScoresGo(n, score, cfg)
    BY <1>1, <1>2, <1>5, <2>1, ScoreViewTakesHighest
  <2>2. ASSUME NEW cfg \in Configs, NEW k \in 0..n
        PROVE  AgeDropsOldOrAll(n, k, cfg)
    BY <1>1, <1>5, <2>2, AgeViewHasNoLimit
  <2> QED
    BY <2>1, <2>2, Zenon DEF ScoreAndAgeViews, Scores, n, score
<1>7. BudgetViews
  <2>1. ASSUME NEW cfg \in Configs, NEW budget \in {0, all \div 2, all}
        PROVE  LargestGo(n, size, budget, cfg)
    BY <1>1, <1>4, <1>5, <2>1, SizeViewTakesLargest
  <2>2. ASSUME NEW budget \in {0, all \div 2, all}
        PROVE  HighestScoresStay(n, score, size, budget)
    BY <1>1, <1>2, <1>4, <2>2, CompactViewKeepsHighest
  <2> QED
    BY <2>1, <2>2, Zenon DEF BudgetViews, Sizes, Scores, n, size, score, all
<1> QED
  BY <1>6, <1>7

-----------------------------------------------------------------------------
(* Theorems *)

LEMMA InitAllInv == Init => AllInv
<1> SUFFICES ASSUME Init PROVE AllInv
  OBVIOUS
<1>1. TypeOK
  BY InitTyped
<1>2. LockHeldWhileWriting /\ WorkInHand /\ TopicsDurable
  BY NoneAssumption DEF Init, LockHeldWhileWriting, WorkInHand, TopicsDurable, Writing
<1>3. ClockInOrder /\ ThresholdDreamsSpaced
  BY DEF Init, NewDaemon, ClockInOrder, ThresholdDreamsSpaced
<1> QED
  BY <1>1, <1>2, <1>3 DEF AllInv, DreamInv

\* The invariants hold together, whatever the passes, the clock and the process
\* do (server.go's handleDream and dream/daemon.go over memory.go's topics).
THEOREM SpecKeepsAllInv == Spec => []AllInv
<1>1. Init => AllInv
  BY InitAllInv
<1>2. AllInv /\ [Next]_vars => AllInv'
  BY NextTyped, NextKeepsPassInv, NextKeepsTimeInv
     DEF AllInv, DreamInv, PassInv, TimeInv
<1> QED
  BY <1>1, <1>2, PTL DEF Spec

\* For any requests, topics and schedule: the manager's mutex, the passes' work
\* and the daemon's times stay in order (memory.go's CreateTopic and UpdateTopic
\* under Execute).
THEOREM DreamInvariant == Spec => []DreamInv
<1>1. AllInv => DreamInv
  BY DEF AllInv
<1> QED
  BY <1>1, SpecKeepsAllInv, PTL

\* For any number of concurrent passes, failed writes and restarts: a topic that
\* was reported as created is on disk, and memory is what is on disk
\* (memory.go's writeTopicToDisk under the lock).
THEOREM TopicsAreDurable == Spec => []TopicsDurable
<1>1. AllInv => TopicsDurable
  BY DEF AllInv
<1> QED
  BY <1>1, SpecKeepsAllInv, PTL

\* For any inactivity period: dreams nobody forced are that far from whatever had
\* finished (daemon.go:122).
THEOREM ThresholdDreamsAreSpaced == Spec => []ThresholdDreamsSpaced
<1>1. AllInv => ThresholdDreamsSpaced
  BY DEF AllInv
<1> QED
  BY <1>1, SpecKeepsAllInv, PTL

\* The same of whatever a process has recorded: of the spine, and of the scores
\* that the manager's index gives it (ScoreEvents).
THEOREM ViewsByScoreAndAge == Spec => []ScoreAndAgeViews
<1>1. AllInv => ScoreAndAgeViews
  BY ViewsKept DEF AllInv, DreamInv
<1> QED
  BY <1>1, SpecKeepsAllInv, PTL

\* And of its sizes and any budget (estimateEventTextSize).
THEOREM ViewsByBudget == Spec => []BudgetViews
<1>1. AllInv => BudgetViews
  BY ViewsKept DEF AllInv, DreamInv
<1> QED
  BY <1>1, SpecKeepsAllInv, PTL
=============================================================================

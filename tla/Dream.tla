-------------------------------- MODULE Dream --------------------------------
(***************************************************************************)
(* The dream daemon (internal/dream/daemon.go) behind /v1/dream            *)
(* (server.go, handleDream), the memory manager's topics in memory and on  *)
(* disk (internal/memory/memory.go), and restarts of the process.          *)
(*                                                                         *)
(* Requests run concurrently.  The daemon's mutex covers single reads and  *)
(* writes of its fields; a pass itself runs without it.  The manager's     *)
(* mutex is held from a topic's change in memory until its file is renamed *)
(* into place.  Events are kept by the process, files outlive it.          *)
(***************************************************************************)
EXTENDS CompactView

CONSTANTS
  Topics,            \* topic ids: prefixes of kinds, and words of tasks
  TurnTopic,         \* the prefix of turn.user and turn.agent
  DreamTopic,        \* the prefix of dream.result
  Writings,          \* what other components append: [topics, size]
  Requests,
  InactivityHours,
  MinSessions,
  MaxIndexEntries,
  MaxHour, MaxSessions, MaxEvents, MaxStarts,   \* bounds of the model
  None

ASSUME TopicsAssumption == {TurnTopic, DreamTopic} \subseteq Topics

Events == [topics : SUBSET Topics, size : Nat]

ASSUME WritingsAssumption == Writings \subseteq Events

ASSUME ScheduleAssumption ==
  {InactivityHours, MinSessions, MaxIndexEntries} \subseteq Nat \ {0}

ASSUME NoneAssumption == None \notin Requests

VARIABLES
  hour,       \* the clock, from 1
  starts,     \* how often the process has started
  spine,      \* the session's events
  index,      \* the manager's RAM index
  topics,     \* the manager's topics: 0, or how many events the summary is of
  disk,       \* the same for the topics' files
  lock,       \* the request that holds the manager's mutex for writing
  daemon,     \* the daemon's fields, 0 for a zero time
  pc, work,   \* each request's step, and what its pass is at
  created,    \* the topics its pass reports as created
  check,      \* history: when its threshold check passed, and what had finished
  unsaved,    \* history: topics whose last write failed
  finished    \* history: the hour the last pass of any process finished

sessionVars == <<spine, index>>
topicVars   == <<topics, disk, lock, unsaved>>
passVars    == <<work, created, check>>
clockVars   == <<hour, starts>>

vars == <<hour, starts, spine, index, topics, disk, lock, daemon, pc,
          work, created, check, unsaved, finished>>

Steps == {"idle", "list", "lookup", "create", "update", "write",
          "append", "finish", "done", "failed", "gone"}

Daemons == [lastActivityTS : Nat, sessionCount : Nat, lastDreamTime : Nat, dreamCount : Nat]

\* todo: topics that are still to be stored.  how: whether topic is new.
Works == [summary : [Topics -> Nat], todo : SUBSET Topics, topic : Topics,
          how : {"create", "update"}]

NewDaemon == [lastActivityTS |-> 0, sessionCount |-> 0, lastDreamTime |-> 0, dreamCount |-> 0]

NoWork == [summary |-> [t \in Topics |-> 0], todo |-> {}, topic |-> DreamTopic,
           how |-> "create"]

TypeOK ==
  /\ hour \in Nat \ {0}
  /\ starts \in Nat
  /\ spine \in Seq(Events)
  /\ index \in Seq(Nat)
  /\ topics \in [Topics -> Nat]
  /\ disk \in [Topics -> Nat]
  /\ lock \in Requests \cup {None}
  /\ daemon \in Daemons
  /\ pc \in [Requests -> Steps]
  /\ work \in [Requests -> Works]
  /\ created \in [Requests -> SUBSET Topics]
  /\ check \in [Requests -> [hour : Nat, finished : Nat]]
  /\ unsaved \subseteq Topics
  /\ finished \in Nat

Init ==
  /\ hour = 1
  /\ starts = 1
  /\ spine = <<>>
  /\ index = <<>>
  /\ topics = [t \in Topics |-> 0]
  /\ disk = [t \in Topics |-> 0]
  /\ lock = None
  /\ daemon = NewDaemon
  /\ pc = [r \in Requests |-> "idle"]
  /\ work = [r \in Requests |-> NoWork]
  /\ created = [r \in Requests |-> {}]
  /\ check = [r \in Requests |-> [hour |-> 0, finished |-> 0]]
  /\ unsaved = {}
  /\ finished = 0

-----------------------------------------------------------------------------
(* The session beside it *)

Tick ==
  /\ hour < MaxHour
  /\ hour' = hour + 1
  /\ UNCHANGED <<starts, sessionVars, topicVars, daemon, pc, passVars, finished>>

AppendEvent(what) ==
  /\ Len(spine) < MaxEvents
  /\ spine' = Append(spine, what)

\* A turn indexes its own events after the append, which takes the manager's
\* mutex.
OtherAppends(what) ==
  /\ TurnTopic \in what.topics => lock = None
  /\ AppendEvent(what)
  /\ index' = IF TurnTopic \in what.topics
               THEN Indexed(index, Len(spine) + 1, MaxIndexEntries) ELSE index
  /\ UNCHANGED <<clockVars, topicVars, daemon, pc, passVars, finished>>

\* No part of the server calls it; a program that builds its own daemon may.
RecordActivity ==
  /\ daemon.sessionCount < MaxSessions
  /\ daemon' = [daemon EXCEPT !.lastActivityTS = hour, !.sessionCount = @ + 1]
  /\ UNCHANGED <<clockVars, sessionVars, topicVars, pc, passVars, finished>>

-----------------------------------------------------------------------------
(* handleDream *)

Goto(r, from, to) == pc[r] = from /\ pc' = [pc EXCEPT ![r] = to]

\* Mutant of ShouldDream: only activity is looked at.
ShouldDreamAgain ==
  /\ daemon.lastActivityTS # 0
  /\ hour >= daemon.lastActivityTS + InactivityHours
  /\ daemon.sessionCount >= MinSessions

ShouldDream ==
  /\ daemon.lastActivityTS # 0
  /\ hour >= daemon.lastActivityTS + InactivityHours
  /\ daemon.sessionCount >= MinSessions
  /\ daemon.lastDreamTime # 0 => hour >= daemon.lastDreamTime + InactivityHours

\* trigger=true in the request skips the thresholds.
Trigger(r) ==
  /\ Goto(r, "idle", "list")
  /\ UNCHANGED <<clockVars, sessionVars, topicVars, daemon, passVars, finished>>

ThresholdsMet(r) ==
  /\ ShouldDream
  /\ Goto(r, "idle", "list")
  /\ check' = [check EXCEPT ![r] = [hour |-> hour, finished |-> finished]]
  /\ UNCHANGED <<clockVars, sessionVars, topicVars, daemon, work, created, finished>>

ThresholdsNotMet(r) ==
  /\ ~ShouldDream
  /\ Goto(r, "idle", "done")
  /\ UNCHANGED <<clockVars, sessionVars, topicVars, daemon, passVars, finished>>

-----------------------------------------------------------------------------
(* Execute *)

\* A summary is of the events of the topic, two at least.
Summaries == [t \in Topics |-> Cardinality({i \in DOMAIN spine : t \in spine[i].topics})]
NewTopics(summary) == {t \in Topics : summary[t] >= 2}

\* The topics that exist are listed as well, for a report of those that are
\* written again.
ListEvents(r) ==
  /\ Goto(r, "list", "lookup")
  /\ work' = [work EXCEPT ![r] = [NoWork EXCEPT !.summary = Summaries,
                                                !.todo = NewTopics(Summaries)]]
  /\ UNCHANGED <<clockVars, sessionVars, topicVars, daemon, created, check, finished>>

ListFails(r) ==
  /\ Goto(r, "list", "failed")
  /\ UNCHANGED <<clockVars, sessionVars, topicVars, daemon, passVars, finished>>

\* The topics come in any order.  The lock is free between the look and the
\* change.
GetTopic(r, t) ==
  /\ lock = None
  /\ t \in work[r].todo
  /\ Goto(r, "lookup", IF topics[t] = 0 THEN "create" ELSE "update")
  /\ work' = [work EXCEPT ![r].topic = t,
                          ![r].how = IF topics[t] = 0 THEN "create" ELSE "update"]
  /\ UNCHANGED <<clockVars, sessionVars, topicVars, daemon, created, check, finished>>

\* A topic changes in memory first.
SetTopic(r) ==
  topics' = [topics EXCEPT ![work[r].topic] = work[r].summary[work[r].topic]]

\* Mutant of CreateTopic: the mutex is given up before the file is written.
CreateTopicUnlocked(r) ==
  /\ lock = None
  /\ Goto(r, "create", "write")
  /\ SetTopic(r)
  /\ UNCHANGED <<clockVars, sessionVars, disk, lock, daemon, passVars, unsaved, finished>>

CreateTopic(r) ==
  /\ lock = None
  /\ Goto(r, "create", "write")
  /\ lock' = r
  /\ SetTopic(r)
  /\ UNCHANGED <<clockVars, sessionVars, disk, daemon, passVars, unsaved, finished>>

UpdateTopic(r) ==
  /\ lock = None
  /\ Goto(r, "update", "write")
  /\ lock' = r
  /\ SetTopic(r)
  /\ UNCHANGED <<clockVars, sessionVars, disk, daemon, passVars, unsaved, finished>>

TopicStored(r) == work' = [work EXCEPT ![r].todo = @ \ {work[r].topic}]

\* writeTopicToDisk: the file is written under a name that is not loaded and
\* then renamed.
WriteTopic(r) ==
  /\ Goto(r, "write", "lookup")
  /\ disk' = [disk EXCEPT ![work[r].topic] = work[r].summary[work[r].topic]]
  /\ lock' = None
  /\ unsaved' = unsaved \ {work[r].topic}
  /\ created' = IF work[r].how = "create"
                THEN [created EXCEPT ![r] = @ \cup {work[r].topic}] ELSE created
  /\ TopicStored(r)
  /\ UNCHANGED <<clockVars, sessionVars, topics, daemon, check, finished>>

\* The pass is given up, and the daemon does not hear of it.  The topic stays
\* in memory.
CreateFails(r) ==
  /\ pc[r] = "write" /\ work[r].how = "create"
  /\ pc' = [pc EXCEPT ![r] = "failed"]
  /\ lock' = None
  /\ unsaved' = unsaved \cup {work[r].topic}
  /\ UNCHANGED <<clockVars, sessionVars, topics, disk, daemon, passVars, finished>>

\* Mutant of UpdateFails: the mutex stays with the pass.
UpdateFailsLocked(r) ==
  /\ pc[r] = "write" /\ work[r].how = "update"
  /\ pc' = [pc EXCEPT ![r] = "lookup"]
  /\ unsaved' = unsaved \cup {work[r].topic}
  /\ TopicStored(r)
  /\ UNCHANGED <<clockVars, sessionVars, topics, disk, lock, daemon, created, check, finished>>

\* Reported as an update all the same.
UpdateFails(r) ==
  /\ pc[r] = "write" /\ work[r].how = "update"
  /\ pc' = [pc EXCEPT ![r] = "lookup"]
  /\ lock' = None
  /\ unsaved' = unsaved \cup {work[r].topic}
  /\ TopicStored(r)
  /\ UNCHANGED <<clockVars, sessionVars, topics, disk, daemon, created, check, finished>>

\* The result is an event too, and if it is refused nobody minds.
AppendDreamEvent(r) ==
  /\ work[r].todo = {}
  /\ Goto(r, "lookup", "finish")
  /\ \/ AppendEvent([topics |-> {DreamTopic}, size |-> 1])
     \/ UNCHANGED spine
  /\ UNCHANGED <<clockVars, index, topicVars, daemon, passVars, finished>>

Finish(r) ==
  /\ Goto(r, "finish", "done")
  /\ daemon' = [daemon EXCEPT !.lastDreamTime = hour, !.dreamCount = @ + 1]
  /\ finished' = hour
  /\ UNCHANGED <<clockVars, sessionVars, topicVars, passVars>>

-----------------------------------------------------------------------------
\* The process ends at any point and starts again: the manager loads the files,
\* everything else begins anew.
Over == {"idle", "done", "failed", "gone"}

Restart ==
  /\ starts < MaxStarts
  /\ starts' = starts + 1
  /\ spine' = <<>>
  /\ index' = <<>>
  /\ topics' = disk
  /\ lock' = None
  /\ daemon' = NewDaemon
  /\ pc' = [r \in Requests |-> IF pc[r] \in Over THEN pc[r] ELSE "gone"]
  /\ unsaved' = {}
  /\ UNCHANGED <<hour, disk, passVars, finished>>

PassStep(r) ==
  \/ Trigger(r)
  \/ ThresholdsMet(r)
  \/ ThresholdsNotMet(r)
  \/ ListEvents(r)
  \/ ListFails(r)
  \/ \E t \in Topics : GetTopic(r, t)
  \/ CreateTopic(r)
  \/ UpdateTopic(r)
  \/ WriteTopic(r)
  \/ CreateFails(r)
  \/ UpdateFails(r)
  \/ AppendDreamEvent(r)
  \/ Finish(r)

Next ==
  \/ Tick
  \/ \E what \in Writings : OtherAppends(what)
  \/ RecordActivity
  \/ Restart
  \/ \E r \in Requests : PassStep(r)

Spec == Init /\ [][Next]_vars

-----------------------------------------------------------------------------
(* Properties *)

Writing(r) == pc[r] = "write"

\* The mutex is held exactly while a topic is being written.
LockHeldWhileWriting == \A r \in Requests : lock = r <=> Writing(r)

\* A pass stores summaries of its own, and memory has the one it is writing.
WorkInHand ==
  \A r \in Requests :
    /\ pc[r] \in {"lookup", "create", "update", "write"} =>
         work[r].todo \subseteq NewTopics(work[r].summary)
    /\ pc[r] \in {"create", "update", "write"} => work[r].topic \in work[r].todo
    /\ Writing(r) => topics[work[r].topic] = work[r].summary[work[r].topic]

\* The daemon knows the last pass, or it has not heard of any since its start
\* and of no activity before that pass.
ClockInOrder ==
  /\ finished <= hour
  /\ \/ daemon.lastDreamTime = finished
     \/ /\ daemon.lastDreamTime = 0
        /\ daemon.lastActivityTS # 0 => daemon.lastActivityTS >= finished

\* The manager's mutex, the passes' work and the daemon's times stay in order
\* over concurrent passes, failing writes and restarts (memory.go's CreateTopic
\* and UpdateTopic under Execute): what the properties below rest on.
DreamInv ==
  /\ TypeOK
  /\ LockHeldWhileWriting
  /\ WorkInHand
  /\ ClockInOrder

\* A topic some pass reported as created is on disk from then on.  What a
\* restart would load is what the manager shows, however passes over the same
\* topic overlap; but for a topic that is just being written and for one whose
\* last write failed (memory.go's writeTopicToDisk, under the lock).
TopicsDurable ==
  /\ \A r \in Requests : \A t \in created[r] : disk[t] # 0
  /\ \A t \in Topics :
       topics[t] # disk[t] =>
         t \in unsaved \/ \E r \in Requests : Writing(r) /\ work[r].topic = t

\* A dream that nobody forced begins InactivityHours after whatever dream had
\* finished before, forced ones and those of earlier processes included
\* (daemon.go:122, "don't dream more than once per inactivity period").  Two
\* checks that pass before either dream has finished are not spaced.
ThresholdDreamsSpaced ==
  \A r \in Requests :
    check[r].finished # 0 => check[r].hour >= check[r].finished + InactivityHours

Configs == [KeepRecent : 0..2, MaxCompactEvents : 0..2]

\* Of what the process has recorded, looked at before the first request, which
\* changes neither sizes nor the index.
Sizes  == [i \in 1..Len(spine) |-> spine[i].size]
Scores == ScoreEvents(Len(spine), index)

\* Compaction by score takes the events that matter most and spares the rest,
\* compaction by age what it has not looked at (compaction.go:91, :247); the
\* recent events stay, and of the others scores never cost all.
ScoreAndAgeViews ==
  (\A r \in Requests : pc[r] = "idle") =>
    \A cfg \in Configs :
      /\ HighestScoresGo(Len(spine), Scores, cfg)
      /\ \A k \in 0..Len(spine) : AgeDropsOldOrAll(Len(spine), k, cfg)

\* A byte budget is kept as far as MaxCompactEvents allows and costs no event
\* without need, the largest first (CompactByTextSize); BuildCompactView of
\* memory.go keeps it always, and the highest scores with it.
BudgetViews ==
  (\A r \in Requests : pc[r] = "idle") =>
    LET all == TotalSize(Sizes, 1..Len(spine))
    IN  \A budget \in {0, all \div 2, all} :
          /\ \A cfg \in Configs : LargestGo(Len(spine), Sizes, budget, cfg)
          /\ HighestScoresStay(Len(spine), Scores, Sizes, budget)

=============================================================================

-------------------------- MODULE CompactionProofs --------------------------
(***************************************************************************)
(* Compaction for any schedule, any branches and whatever the model        *)
(* answers: the scheduler's counters agree with the passes begun, a        *)
(* compaction is followed by its cooldown, a pass that comes to nothing is *)
(* begun again at once, and the tree that is stored is whole.              *)
(*                                                                         *)
(* The last is about recursive functions.  That they exist, and what they  *)
(* yield, is shown of explicit ones and from a greatest place or a least   *)
(* set for which it failed, since no induction can be cited.               *)
(***************************************************************************)
EXTENDS Compaction, SequenceTheorems, FiniteSetTheorems, WellFoundedInduction,
        TLAPS

AllInv == CompactionInv /\ CooldownHolds /\ RetriedAtOnce

-----------------------------------------------------------------------------
(* Sequences and counts *)

\* What Append adds, by index.
LEMMA AppendIndices ==
  ASSUME NEW S, NEW s \in Seq(S), NEW e \in S
  PROVE  /\ Append(s, e) \in Seq(S)
         /\ Len(s) \in Nat /\ DOMAIN s = 1..Len(s)
         /\ Len(Append(s, e)) = Len(s) + 1
         /\ DOMAIN Append(s, e) = 1..(Len(s) + 1)
         /\ \A i \in DOMAIN s : Append(s, e)[i] = s[i]
         /\ Append(s, e)[Len(s) + 1] = e
         /\ Append(s, e) # <<>>
  OBVIOUS

\* How many of a spine's events are a branch's.
CountIn(s, b) == Cardinality({i \in DOMAIN s : s[i].branch = b})

LEMMA CountIsNat ==
  ASSUME NEW s \in Seq(Events), NEW b
  PROVE  IsFiniteSet({i \in DOMAIN s : s[i].branch = b}) /\ CountIn(s, b) \in Nat
<1>1. Len(s) \in Nat /\ DOMAIN s = 1..Len(s)
  OBVIOUS
<1>2. IsFiniteSet(1..Len(s))
  BY <1>1, FS_Interval
<1>3. {i \in DOMAIN s : s[i].branch = b} \subseteq 1..Len(s)
  BY <1>1
<1>4. IsFiniteSet({i \in DOMAIN s : s[i].branch = b})
  BY <1>2, <1>3, FS_Subset
<1> QED
  BY <1>4, FS_CardinalityType DEF CountIn

\* The spine only grows, and so does every branch's count.
LEMMA CountGrows ==
  ASSUME NEW s \in Seq(Events), NEW e \in Events, NEW b
  PROVE  Append(s, e) \in Seq(Events) /\ CountIn(Append(s, e), b) >= CountIn(s, b)
<1> DEFINE t == Append(s, e)
<1>1. t \in Seq(Events)
  BY AppendIndices
<1>2. {i \in DOMAIN s : s[i].branch = b} \subseteq {i \in DOMAIN t : t[i].branch = b}
  BY AppendIndices
<1>3. IsFiniteSet({i \in DOMAIN t : t[i].branch = b})
  BY <1>1, CountIsNat
<1>4. CountIn(s, b) <= CountIn(t, b)
  BY <1>2, <1>3, FS_Subset DEF CountIn
<1>5. CountIn(s, b) \in Nat /\ CountIn(t, b) \in Nat
  BY <1>1, CountIsNat
<1> QED
  BY <1>1, <1>4, <1>5

\* What every step does to the spine.
Grows == spine' = spine \/ \E e \in Events : spine' = Append(spine, e)

\* A step that at most appends to the spine lowers no count.
LEMMA StepKeepsCounts ==
  ASSUME spine \in Seq(Events), Grows, NEW b
  PROVE  /\ spine' \in Seq(Events)
         /\ EventCount(b) \in Nat /\ EventCount(b)' \in Nat
         /\ EventCount(b)' >= EventCount(b)
<1>1. EventCount(b) = CountIn(spine, b) /\ EventCount(b)' = CountIn(spine', b)
  BY DEF EventCount, CountIn
<1>2. spine' \in Seq(Events) /\ CountIn(spine', b) >= CountIn(spine, b)
  <2>1. CASE spine' = spine
    <3>1. CountIn(spine, b) \in Nat
      BY CountIsNat
    <3> QED
      BY <2>1, <3>1
  <2>2. ASSUME NEW e \in Events, spine' = Append(spine, e)
        PROVE  spine' \in Seq(Events) /\ CountIn(spine', b) >= CountIn(spine, b)
    BY <2>2, CountGrows
  <2> QED
    BY <2>1, <2>2 DEF Grows
<1>3. CountIn(spine, b) \in Nat /\ CountIn(spine', b) \in Nat
  BY <1>2, CountIsNat
<1> QED
  BY <1>1, <1>2, <1>3

\* What an outcome changes in the history.
LEMMA ConcludeIndices ==
  ASSUME attempts \in Seq(Attempts), attempts # <<>>, NEW o \in Outcomes,
         attempts' = [attempts EXCEPT ![Current].outcome = o]
  PROVE  /\ attempts' \in Seq(Attempts) /\ Current' = Current /\ attempts' # <<>>
         /\ Current \in DOMAIN attempts /\ DOMAIN attempts' = DOMAIN attempts
         /\ attempts'[Current].outcome = o
         /\ \A i \in DOMAIN attempts :
              /\ attempts'[i].turn = attempts[i].turn
              /\ attempts'[i].branch = attempts[i].branch
              /\ attempts'[i].listed = attempts[i].listed
              /\ attempts'[i].reason = attempts[i].reason
              /\ i # Current => attempts'[i].outcome = attempts[i].outcome
<1> DEFINE n == Len(attempts)
<1>1. n \in Nat /\ DOMAIN attempts = 1..n /\ attempts \in [1..n -> Attempts] /\ n \in 1..n
  OBVIOUS
<1>2. attempts[n] \in Attempts
  BY <1>1
<1>3. attempts' = [attempts EXCEPT ![n] = [attempts[n] EXCEPT !.outcome = o]]
  BY <1>1 DEF Current
<1>4. [attempts[n] EXCEPT !.outcome = o] \in Attempts
  BY <1>2 DEF Attempts
<1>5. attempts' \in [1..n -> Attempts]
  BY <1>1, <1>3, <1>4
<1>6. attempts' \in Seq(Attempts) /\ Len(attempts') = n /\ DOMAIN attempts' = 1..n
  BY <1>1, <1>5
<1>7. /\ attempts'[n].outcome = o
      /\ attempts'[n].turn = attempts[n].turn
      /\ attempts'[n].branch = attempts[n].branch
      /\ attempts'[n].listed = attempts[n].listed
      /\ attempts'[n].reason = attempts[n].reason
  BY <1>1, <1>2, <1>3 DEF Attempts
<1>8. \A i \in 1..n : i # n => attempts'[i] = attempts[i]
  BY <1>1, <1>3
<1> QED
  BY <1>1, <1>6, <1>7, <1>8 DEF Current

LEMMA SchedulerFields ==
  ASSUME NEW s \in Scheduler
  PROVE  /\ s.turnsSinceCompact \in Nat /\ s.turnsSinceLastFire \in Nat
         /\ s.eventCount \in Nat /\ s.totalFirings \in Nat
  BY DEF Scheduler

\* What each operation of the scheduler changes.
LEMMA RecordBudgetPressureFields ==
  ASSUME NEW s \in Scheduler, NEW ratio \in Ratios
  PROVE  LET t == RecordBudgetPressure(s, ratio)
         IN  /\ t \in Scheduler
             /\ t.turnsSinceCompact = s.turnsSinceCompact
             /\ t.turnsSinceLastFire = s.turnsSinceLastFire
             /\ t.eventCount = s.eventCount
             /\ t.totalFirings = s.totalFirings
  BY DEF Scheduler, RecordBudgetPressure

LEMMA RecordTurnFields ==
  ASSUME NEW s \in Scheduler
  PROVE  LET t == RecordTurn(s)
         IN  /\ t \in Scheduler
             /\ t.turnsSinceCompact = s.turnsSinceCompact + 1
             /\ t.turnsSinceLastFire = s.turnsSinceLastFire + 1
             /\ t.eventCount = s.eventCount
             /\ t.totalFirings = s.totalFirings
<1>1. s.turnsSinceCompact + 1 \in Nat /\ s.turnsSinceLastFire + 1 \in Nat
  BY SchedulerFields
<1> DEFINE a == s.turnsSinceCompact + 1
           b == s.turnsSinceLastFire + 1
<1>2. RecordTurn(s) = [s EXCEPT !.turnsSinceCompact = a, !.turnsSinceLastFire = b]
  BY DEF RecordTurn
<1> HIDE DEF a, b
<1>3. LET t == [s EXCEPT !.turnsSinceCompact = a, !.turnsSinceLastFire = b]
      IN  /\ t.turnsSinceCompact = a /\ t.turnsSinceLastFire = b
          /\ t.eventCount = s.eventCount /\ t.totalFirings = s.totalFirings
          /\ a \in Nat /\ b \in Nat => t \in Scheduler
  BY DEF Scheduler
<1> QED
  BY <1>1, <1>2, <1>3 DEF a, b

LEMMA SetEventCountFields ==
  ASSUME NEW s \in Scheduler, NEW n \in Nat
  PROVE  LET t == SetEventCount(s, n)
         IN  /\ t \in Scheduler
             /\ t.turnsSinceCompact = s.turnsSinceCompact
             /\ t.turnsSinceLastFire = s.turnsSinceLastFire
             /\ t.eventCount = n
             /\ t.totalFirings = s.totalFirings
  BY DEF Scheduler, SetEventCount

LEMMA MarkFields ==
  ASSUME NEW s \in Scheduler
  PROVE  /\ MarkCompacted(s) \in Scheduler
         /\ MarkCompacted(s).turnsSinceLastFire = 0
         /\ MarkCompacted(s).totalFirings > 0
         /\ MarkCompactionFailed(s) \in Scheduler
         /\ MarkCompactionFailed(s).turnsSinceLastFire = CooldownTurns
         /\ MarkCompactionFailed(s).turnsSinceCompact = s.turnsSinceCompact
         /\ MarkCompactionFailed(s).eventCount = s.eventCount
         /\ MarkCompactionFailed(s).totalFirings = s.totalFirings
<1>1. CooldownTurns \in Nat
  BY ScheduleAssumption
<1> DEFINE f == s.totalFirings + 1
<1>2. f \in Nat /\ f > 0
  BY SchedulerFields
<1>4. MarkCompacted(s)
        = [s EXCEPT !.turnsSinceCompact = 0, !.turnsSinceLastFire = 0, !.totalFirings = f]
  BY DEF MarkCompacted
<1> HIDE DEF f
<1>5. LET t == [s EXCEPT !.turnsSinceCompact = 0, !.turnsSinceLastFire = 0,
                         !.totalFirings = f]
      IN  t.turnsSinceLastFire = 0 /\ t.totalFirings = f /\ (f \in Nat => t \in Scheduler)
  BY DEF Scheduler
<1>3. /\ MarkCompactionFailed(s) \in Scheduler
      /\ MarkCompactionFailed(s).turnsSinceLastFire = CooldownTurns
      /\ MarkCompactionFailed(s).turnsSinceCompact = s.turnsSinceCompact
      /\ MarkCompactionFailed(s).eventCount = s.eventCount
      /\ MarkCompactionFailed(s).totalFirings = s.totalFirings
  BY <1>1 DEF Scheduler, MarkCompactionFailed
<1> QED
  BY <1>2, <1>3, <1>4, <1>5

-----------------------------------------------------------------------------
(* Steps that begin and end no pass *)

\* What such a step may do: the turn's events and the pass's own are appended,
\* the budget's ratio is reported, the pass goes on.
Continues ==
  /\ Grows
  /\ sched' = sched \/ \E ratio \in Ratios : sched' = RecordBudgetPressure(sched, ratio)
  /\ pass' \in Passes \cup {None}
  /\ pc' \in Steps
  /\ pc' = "idle" <=> pass' = None
  /\ pc \in {"idle", "answered"} <=> pc' \in {"idle", "answered"}
  /\ UNCHANGED <<turns, attempts>>

LEMMA ContinuingKeepsInv == AllInv /\ Continues => AllInv'
<1> SUFFICES ASSUME AllInv, Continues
             PROVE  AllInv'
  OBVIOUS
<1> USE DEF AllInv, CompactionInv
<1>1. Grows
  BY DEF Continues
<1>2. sched' = sched \/ \E ratio \in Ratios : sched' = RecordBudgetPressure(sched, ratio)
  BY DEF Continues
<1>3. /\ sched' \in Scheduler
      /\ sched'.turnsSinceCompact = sched.turnsSinceCompact
      /\ sched'.turnsSinceLastFire = sched.turnsSinceLastFire
      /\ sched'.eventCount = sched.eventCount
      /\ sched'.totalFirings = sched.totalFirings
      /\ sched \in Scheduler
  BY <1>2, RecordBudgetPressureFields DEF TypeOK
<1>4. UNCHANGED <<turns, attempts>>
  BY DEF Continues
<1>5. spine' \in Seq(Events)
  BY <1>1, StepKeepsCounts DEF TypeOK
<1>6. TypeOK'
  BY <1>3, <1>4, <1>5 DEF TypeOK, Continues
<1>7. PassUnderWay'
  BY <1>4 DEF PassUnderWay, Continues, Current
<1>8. AttemptsInOrder'
  BY <1>4 DEF AttemptsInOrder
<1>9. CooldownCounted'
  BY <1>3, <1>4 DEF CooldownCounted, Done
<1>10. RetryPending'
  <2> SUFFICES ASSUME attempts # <<>>,
                      attempts[Current].outcome \in {"running", "refused", "failed"},
                      attempts[Current].turn = Len(turns)
               PROVE  /\ attempts[Current].reason = "turn_count" => TurnsDue(sched')
                      /\ sched'.eventCount >= MinEvents
                      /\ ~Cooling(sched')
                      /\ attempts[Current].listed =>
                           EventCount(attempts[Current].branch)' >= sched'.eventCount
    BY <1>4 DEF RetryPending, Current
  <2>1. /\ attempts[Current].reason = "turn_count" => TurnsDue(sched)
        /\ sched.eventCount >= MinEvents
        /\ ~Cooling(sched)
        /\ attempts[Current].listed => EventCount(attempts[Current].branch) >= sched.eventCount
    BY DEF RetryPending
  <2>2. PICK b : b = attempts[Current].branch
    OBVIOUS
  <2>5. EventCount(b) \in Nat /\ EventCount(b)' \in Nat /\ EventCount(b)' >= EventCount(b)
    BY <1>1, StepKeepsCounts DEF TypeOK
  <2>6. /\ EventCount(attempts[Current].branch) = EventCount(b)
        /\ EventCount(attempts[Current].branch)' = EventCount(b)'
    BY <1>4, <2>2 DEF EventCount, Current
  <2>3. TurnsDue(sched') = TurnsDue(sched) /\ Cooling(sched') = Cooling(sched)
    BY <1>3 DEF TurnsDue, Cooling
  <2>4. sched.eventCount \in Nat /\ sched'.eventCount = sched.eventCount
    BY <1>3, SchedulerFields
  <2> QED
    BY <1>4, <2>1, <2>3, <2>4, <2>5, <2>6, ScheduleAssumption DEF Current
<1>11. CooldownHolds'
  BY <1>4 DEF CooldownHolds, Done
<1>12. RetriedAtOnce'
  BY <1>4 DEF RetriedAtOnce, Current
<1> QED
  BY <1>6, <1>7, <1>8, <1>9, <1>10, <1>11, <1>12

-----------------------------------------------------------------------------
(* The outcomes of a pass *)

\* Whatever the outcome, the pass is over and its turn is still the last.
Concludes(o) ==
  /\ pc \notin {"idle", "answered"}
  /\ pc' = "idle"
  /\ Grows
  /\ Concluded(o)
  /\ UNCHANGED turns

LEMMA ConcludingKeepsInv ==
  ASSUME AllInv, NEW o \in Outcomes \ {"running"}, Concludes(o),
         \/ o = "done" /\ sched' = MarkCompacted(sched)
         \/ o = "failed" /\ sched' = MarkCompactionFailed(sched)
         \/ o = "refused" /\ sched' = sched
  PROVE  AllInv'
<1> USE DEF AllInv, CompactionInv
<1>1. Grows
  BY DEF Concludes
<1>2. /\ attempts # <<>> /\ attempts[Current].turn = Len(turns)
      /\ attempts[Current].outcome = "running"
  BY DEF Concludes, PassUnderWay, TypeOK, Current
<1>3. attempts \in Seq(Attempts) /\ turns' = turns
  BY DEF TypeOK, Concludes
<1>4. attempts' = [attempts EXCEPT ![Current].outcome = o] /\ pass' = None
  BY DEF Concludes, Concluded
<1>5. /\ attempts' \in Seq(Attempts) /\ Current' = Current /\ attempts' # <<>>
      /\ Current \in DOMAIN attempts /\ DOMAIN attempts' = DOMAIN attempts
      /\ attempts'[Current].outcome = o
      /\ \A i \in DOMAIN attempts :
           /\ attempts'[i].turn = attempts[i].turn
           /\ attempts'[i].branch = attempts[i].branch
           /\ attempts'[i].listed = attempts[i].listed
           /\ attempts'[i].reason = attempts[i].reason
           /\ i # Current => attempts'[i].outcome = attempts[i].outcome
  BY <1>2, <1>3, <1>4, ConcludeIndices
<1>6. sched \in Scheduler /\ sched' \in Scheduler
  BY MarkFields DEF TypeOK
<1>7. spine' \in Seq(Events)
  BY <1>1, StepKeepsCounts DEF TypeOK
<1>8. TypeOK'
  BY <1>3, <1>4, <1>5, <1>6, <1>7 DEF TypeOK, Concludes, Steps
<1>9. PassUnderWay'
  BY <1>4, <1>5 DEF PassUnderWay, Concludes, Outcomes
<1>10. AttemptsInOrder'
  BY <1>3, <1>5 DEF AttemptsInOrder
<1>11. DOMAIN attempts = 1..Current /\ Current \in Nat /\ Len(turns) \in Nat
  BY <1>3 DEF Current, TypeOK
<1>12. CooldownCounted'
  <2> SUFFICES /\ sched'.totalFirings > 0 <=> \E i \in DOMAIN attempts : Done(i)'
               /\ \A i \in DOMAIN attempts :
                    Done(i)' => attempts[i].turn + sched'.turnsSinceLastFire <= Len(turns)
    BY <1>3, <1>5 DEF CooldownCounted, Done
  <2>1. \A i \in DOMAIN attempts : i # Current => (Done(i)' <=> Done(i))
    BY <1>5 DEF Done
  <2>2. Done(Current)' <=> o = "done"
    BY <1>5 DEF Done
  <2>3. ~Done(Current)
    BY <1>2 DEF Done
  <2>4. /\ sched.totalFirings > 0 <=> \E i \in DOMAIN attempts : Done(i)
        /\ \A i \in DOMAIN attempts :
             Done(i) => attempts[i].turn + sched.turnsSinceLastFire <= Len(turns)
    BY DEF CooldownCounted
  <2>5. \A i \in DOMAIN attempts : attempts[i].turn \in Nat /\ attempts[i].turn <= Len(turns)
    BY DEF AttemptsInOrder, TypeOK
  <2>6. CASE o = "done"
    <3>1. sched'.turnsSinceLastFire = 0 /\ sched'.totalFirings > 0
      BY <1>6, <2>6, MarkFields
    <3> QED
      BY <1>5, <2>2, <2>5, <2>6, <3>1
  <2>7. CASE o = "refused"
    <3>1. sched' = sched
      BY <2>7
    <3>2. \A i \in DOMAIN attempts : Done(i)' <=> Done(i)
      BY <1>2, <1>5, <2>7 DEF Done
    <3> QED
      BY <2>4, <3>1, <3>2
  <2>8. CASE o = "failed"
    <3>1. /\ sched'.turnsSinceLastFire = CooldownTurns
          /\ sched'.totalFirings = sched.totalFirings
      BY <1>6, <2>8, MarkFields
    <3>2. ~Cooling(sched)
      BY <1>2 DEF RetryPending
    <3>3. sched.totalFirings > 0 => CooldownTurns <= sched.turnsSinceLastFire
      BY <1>6, <3>2, SchedulerFields, ScheduleAssumption DEF Cooling
    <3>4. CooldownTurns \in Nat /\ sched.turnsSinceLastFire \in Nat
      BY <1>6, SchedulerFields, ScheduleAssumption
    <3>5. ASSUME NEW i \in DOMAIN attempts, Done(i)
          PROVE  attempts[i].turn + CooldownTurns <= Len(turns)
      <4>1. sched.totalFirings > 0
        BY <2>4, <3>5
      <4>2. attempts[i].turn + sched.turnsSinceLastFire <= Len(turns)
        BY <2>4, <3>5
      <4> QED
        BY <1>11, <2>5, <3>3, <3>4, <4>1, <4>2
    <3>6. \A i \in DOMAIN attempts : Done(i)' <=> Done(i)
      BY <1>2, <1>5, <2>8 DEF Done
    <3> QED
      BY <2>4, <3>1, <3>5, <3>6
  <2> QED
    BY <2>6, <2>7, <2>8 DEF Outcomes
<1>13. RetryPending'
  <2> SUFFICES ASSUME o \in {"refused", "failed"}
               PROVE  /\ attempts[Current].reason = "turn_count" => TurnsDue(sched')
                      /\ sched'.eventCount >= MinEvents
                      /\ ~Cooling(sched')
                      /\ attempts[Current].listed =>
                           EventCount(attempts[Current].branch)' >= sched'.eventCount
    BY <1>5, <1>11 DEF RetryPending
  <2>1. /\ attempts[Current].reason = "turn_count" => TurnsDue(sched)
        /\ sched.eventCount >= MinEvents
        /\ ~Cooling(sched)
        /\ attempts[Current].listed => EventCount(attempts[Current].branch) >= sched.eventCount
    BY <1>2 DEF RetryPending
  <2>2. PICK b : b = attempts[Current].branch
    OBVIOUS
  <2>3. EventCount(b) \in Nat /\ EventCount(b)' \in Nat /\ EventCount(b)' >= EventCount(b)
    BY <1>1, StepKeepsCounts DEF TypeOK
  <2>4. /\ EventCount(attempts[Current].branch) = EventCount(b)
        /\ EventCount(attempts[Current].branch)' = EventCount(b)'
    BY <1>5, <2>2 DEF EventCount
  <2>5. /\ sched'.turnsSinceCompact = sched.turnsSinceCompact
        /\ sched'.eventCount = sched.eventCount
        /\ sched' = sched \/ sched'.turnsSinceLastFire = CooldownTurns
    BY <1>6, MarkFields
  <2>6. TurnsDue(sched') = TurnsDue(sched)
    BY <2>5 DEF TurnsDue
  <2>7. ~Cooling(sched')
    BY <2>1, <2>5, ScheduleAssumption DEF Cooling
  <2>8. sched.eventCount \in Nat
    BY <1>6, SchedulerFields
  <2> QED
    BY <2>1, <2>3, <2>4, <2>5, <2>6, <2>7, <2>8
<1>14. CooldownHolds'
  <2> SUFFICES ASSUME NEW i \in DOMAIN attempts, NEW j \in DOMAIN attempts, i < j, Done(i)'
               PROVE  attempts[j].turn - attempts[i].turn >= CooldownTurns
    BY <1>5 DEF CooldownHolds, Done
  <2>1. i # Current
    BY <1>11
  <2>2. Done(i)
    BY <1>5, <2>1 DEF Done
  <2> QED
    BY <2>2 DEF CooldownHolds
<1>15. RetriedAtOnce'
  <2> SUFFICES ASSUME NEW i \in DOMAIN attempts,
                      attempts'[i].outcome \in {"refused", "failed"},
                      attempts[i].reason = "turn_count",
                      attempts[i].turn + 1 \in DOMAIN turns,
                      turns[attempts[i].turn + 1].listed =>
                        /\ attempts[i].listed
                        /\ turns[attempts[i].turn + 1].branch = attempts[i].branch
               PROVE  i < Current /\ attempts'[i + 1].turn = attempts[i].turn + 1
    BY <1>3, <1>5 DEF RetriedAtOnce
  <2>1. i # Current
    BY <1>2, <1>11 DEF TypeOK
  <2>2. attempts[i].outcome \in {"refused", "failed"}
    BY <1>5, <2>1
  <2>3. i < Current /\ attempts[i + 1].turn = attempts[i].turn + 1
    BY <2>2 DEF RetriedAtOnce
  <2>4. i + 1 \in DOMAIN attempts
    BY <1>11, <2>3
  <2> QED
    BY <1>5, <2>3, <2>4
<1> QED
  BY <1>8, <1>9, <1>10, <1>12, <1>13, <1>14, <1>15

-----------------------------------------------------------------------------
(* The decision *)

\* What the scheduler is told.
LEMMA InformedFields ==
  ASSUME TypeOK, pass # None, NEW listed \in BOOLEAN
  PROVE  LET t == Informed(listed)
         IN  /\ t \in Scheduler
             /\ t.turnsSinceCompact = sched.turnsSinceCompact + 1
             /\ t.turnsSinceLastFire = sched.turnsSinceLastFire + 1
             /\ t.totalFirings = sched.totalFirings
             /\ listed => t.eventCount = EventCount(pass.branch)
             /\ ~listed => t.eventCount = sched.eventCount
<1>1. sched \in Scheduler /\ spine \in Seq(Events) /\ pass \in Passes
  BY DEF TypeOK
<1> DEFINE t == RecordTurn(sched)
<1>2. /\ t \in Scheduler
      /\ t.turnsSinceCompact = sched.turnsSinceCompact + 1
      /\ t.turnsSinceLastFire = sched.turnsSinceLastFire + 1
      /\ t.totalFirings = sched.totalFirings
      /\ t.eventCount = sched.eventCount
  BY <1>1, RecordTurnFields
<1>3. EventCount(pass.branch) \in Nat
  BY <1>1, CountIsNat DEF EventCount, CountIn
<1> DEFINE n == EventCount(pass.branch)
<1> HIDE DEF t, n
<1>4. /\ SetEventCount(t, n) \in Scheduler
      /\ SetEventCount(t, n).turnsSinceCompact = t.turnsSinceCompact
      /\ SetEventCount(t, n).turnsSinceLastFire = t.turnsSinceLastFire
      /\ SetEventCount(t, n).eventCount = n
      /\ SetEventCount(t, n).totalFirings = t.totalFirings
  BY <1>2, <1>3, SetEventCountFields DEF n
<1>5. Informed(listed) = IF listed THEN SetEventCount(t, n) ELSE t
  BY DEF Informed, t, n
<1> QED
  BY <1>2, <1>4, <1>5 DEF n

\* What every answered turn does, whether or not a pass is begun.
LEMMA DecidingCounts ==
  ASSUME AllInv, NEW listed \in BOOLEAN, RecordTurnAndMaybeCompact(listed)
  PROVE  /\ pc = "answered" /\ pass \in Passes /\ pass.branch \in Branches
         /\ sched' \in Scheduler
         /\ sched'.turnsSinceCompact = sched.turnsSinceCompact + 1
         /\ sched'.turnsSinceLastFire = sched.turnsSinceLastFire + 1
         /\ sched'.totalFirings = sched.totalFirings
         /\ listed => sched'.eventCount = EventCount(pass.branch)
         /\ ~listed => sched'.eventCount = sched.eventCount
         /\ turns' \in Seq([branch : Branches, listed : BOOLEAN])
         /\ Len(turns') = Len(turns) + 1 /\ Len(turns) \in Nat
         /\ DOMAIN turns' = 1..(Len(turns) + 1) /\ DOMAIN turns = 1..Len(turns)
         /\ \A i \in DOMAIN turns : turns'[i] = turns[i]
         /\ turns'[Len(turns) + 1] = [branch |-> pass.branch, listed |-> listed]
         /\ DOMAIN attempts = 1..Current /\ Current \in Nat
         /\ \A i \in DOMAIN attempts :
              attempts[i].turn \in 1..Len(turns) /\ attempts[i].outcome # "running"
<1> USE DEF AllInv, CompactionInv
<1>1. pc = "answered" /\ pass # None /\ pass \in Passes
  BY DEF RecordTurnAndMaybeCompact, PassUnderWay, TypeOK
<1>2. pass.branch \in Branches
  BY <1>1 DEF Passes
<1>3. sched' = Informed(listed)
  BY DEF RecordTurnAndMaybeCompact
<1>4. [branch |-> pass.branch, listed |-> listed] \in [branch : Branches, listed : BOOLEAN]
  BY <1>2
<1>5. turns' = Append(turns, [branch |-> pass.branch, listed |-> listed])
  BY DEF RecordTurnAndMaybeCompact
<1>6. /\ turns' \in Seq([branch : Branches, listed : BOOLEAN])
      /\ Len(turns') = Len(turns) + 1 /\ Len(turns) \in Nat
      /\ DOMAIN turns' = 1..(Len(turns) + 1) /\ DOMAIN turns = 1..Len(turns)
      /\ \A i \in DOMAIN turns : turns'[i] = turns[i]
      /\ turns'[Len(turns) + 1] = [branch |-> pass.branch, listed |-> listed]
  <2> DEFINE e == [branch |-> pass.branch, listed |-> listed]
             S == [branch : Branches, listed : BOOLEAN]
  <2>1. turns \in Seq(S) /\ e \in S /\ turns' = Append(turns, e)
    BY <1>4, <1>5 DEF TypeOK
  <2> HIDE DEF e, S
  <2>2. /\ turns' \in Seq(S) /\ Len(turns') = Len(turns) + 1 /\ Len(turns) \in Nat
        /\ DOMAIN turns' = 1..(Len(turns) + 1) /\ DOMAIN turns = 1..Len(turns)
        /\ \A i \in DOMAIN turns : turns'[i] = turns[i]
        /\ turns'[Len(turns) + 1] = e
    BY <2>1, AppendIndices
  <2> QED
    BY <2>2 DEF e, S
<1>7. DOMAIN attempts = 1..Current /\ Current \in Nat
  BY DEF TypeOK, Current
<1>8. \A i \in DOMAIN attempts :
        attempts[i].turn \in 1..Len(turns) /\ attempts[i].outcome # "running"
  BY <1>1, <1>6 DEF AttemptsInOrder, PassUnderWay
<1> QED
  BY <1>1, <1>2, <1>3, <1>6, <1>7, <1>8, InformedFields DEF TypeOK

\* What came to nothing in the turn before is due again.
LEMMA LastIsRetried ==
  ASSUME AllInv, NEW listed \in BOOLEAN, RecordTurnAndMaybeCompact(listed),
         NEW i \in DOMAIN attempts,
         attempts[i].outcome \in {"refused", "failed"},
         attempts[i].reason = "turn_count",
         attempts[i].turn = Len(turns),
         turns'[attempts[i].turn + 1].listed =>
           /\ attempts[i].listed
           /\ turns'[attempts[i].turn + 1].branch = attempts[i].branch
  PROVE  i = Current /\ ShouldCompact(sched')
<1> USE DEF AllInv, CompactionInv
<1>1. /\ pass.branch \in Branches
      /\ sched'.turnsSinceCompact = sched.turnsSinceCompact + 1
      /\ sched'.turnsSinceLastFire = sched.turnsSinceLastFire + 1
      /\ sched'.totalFirings = sched.totalFirings
      /\ listed => sched'.eventCount = EventCount(pass.branch)
      /\ ~listed => sched'.eventCount = sched.eventCount
      /\ Len(turns) \in Nat
      /\ turns'[Len(turns) + 1] = [branch |-> pass.branch, listed |-> listed]
      /\ DOMAIN attempts = 1..Current /\ Current \in Nat
      /\ \A k \in DOMAIN attempts : attempts[k].turn \in 1..Len(turns)
  BY DecidingCounts
<1>2. i = Current
  <2>1. Current \in DOMAIN attempts /\ i <= Current
    BY <1>1
  <2>2. i < Current => attempts[i].turn < attempts[Current].turn
    BY <2>1 DEF AttemptsInOrder
  <2> QED
    BY <1>1, <2>1, <2>2
<1>3. attempts # <<>>
  BY <1>1, <1>2 DEF TypeOK, Current
<1>4. /\ TurnsDue(sched)
      /\ sched.eventCount >= MinEvents
      /\ ~Cooling(sched)
      /\ attempts[i].listed => EventCount(attempts[i].branch) >= sched.eventCount
  BY <1>2, <1>3 DEF RetryPending
<1>5. /\ sched.turnsSinceCompact \in Nat /\ sched.turnsSinceLastFire \in Nat
      /\ sched.eventCount \in Nat /\ sched.totalFirings \in Nat
  BY SchedulerFields DEF TypeOK
<1>6. TurnsDue(sched')
  BY <1>1, <1>4, <1>5, ScheduleAssumption DEF TurnsDue
<1>7. ~Cooling(sched')
  BY <1>1, <1>4, <1>5, ScheduleAssumption DEF Cooling
<1>8. EventCount(pass.branch) \in Nat
  BY CountIsNat DEF EventCount, CountIn, TypeOK
<1>9. sched'.eventCount >= MinEvents
  <2>1. CASE listed
    <3>1. attempts[i].listed /\ pass.branch = attempts[i].branch
      BY <1>1, <2>1
    <3> QED
      BY <1>1, <1>4, <1>5, <1>8, <2>1, <3>1, ScheduleAssumption
  <2>2. CASE ~listed
    BY <1>1, <1>4, <2>2
  <2> QED
    BY <2>1, <2>2
<1> QED
  BY <1>2, <1>6, <1>7, <1>9 DEF ShouldCompact

\* A pass that is not due yet: the counters go on.
LEMMA WaitingKeepsInv ==
  ASSUME AllInv, NEW listed \in BOOLEAN, RecordTurnAndMaybeCompact(listed),
         ~ShouldCompact(sched')
  PROVE  AllInv'
<1> USE DEF AllInv, CompactionInv
<1>1. pc' = "idle" /\ pass' = None /\ attempts' = attempts /\ spine' = spine
  BY DEF RecordTurnAndMaybeCompact
<1>2. /\ pc = "answered" /\ sched' \in Scheduler
      /\ sched'.turnsSinceLastFire = sched.turnsSinceLastFire + 1
      /\ sched'.totalFirings = sched.totalFirings
      /\ turns' \in Seq([branch : Branches, listed : BOOLEAN])
      /\ Len(turns') = Len(turns) + 1 /\ Len(turns) \in Nat
      /\ DOMAIN turns' = 1..(Len(turns) + 1) /\ DOMAIN turns = 1..Len(turns)
      /\ \A i \in DOMAIN turns : turns'[i] = turns[i]
      /\ DOMAIN attempts = 1..Current /\ Current \in Nat
      /\ \A i \in DOMAIN attempts :
           attempts[i].turn \in 1..Len(turns) /\ attempts[i].outcome # "running"
  BY DecidingCounts
<1>3. TypeOK'
  BY <1>1, <1>2 DEF TypeOK, Steps
<1>4. PassUnderWay'
  BY <1>1, <1>2 DEF PassUnderWay
<1>5. AttemptsInOrder'
  BY <1>1, <1>2 DEF AttemptsInOrder
<1>6. CooldownCounted'
  <2>1. sched.turnsSinceLastFire \in Nat
    BY SchedulerFields DEF TypeOK
  <2> QED
    BY <1>1, <1>2, <2>1 DEF CooldownCounted, Done
<1>7. RetryPending'
  <2>1. attempts # <<>> => attempts[Current].turn # Len(turns')
    BY <1>2 DEF Current, TypeOK
  <2> QED
    BY <1>1, <2>1 DEF RetryPending, Current
<1>8. CooldownHolds'
  BY <1>1 DEF CooldownHolds, Done
<1>9. RetriedAtOnce'
  <2> SUFFICES ASSUME NEW i \in DOMAIN attempts,
                      attempts[i].outcome \in {"refused", "failed"},
                      attempts[i].reason = "turn_count",
                      attempts[i].turn + 1 \in DOMAIN turns',
                      turns'[attempts[i].turn + 1].listed =>
                        /\ attempts[i].listed
                        /\ turns'[attempts[i].turn + 1].branch = attempts[i].branch
               PROVE  i < Current /\ attempts[i + 1].turn = attempts[i].turn + 1
    BY <1>1 DEF RetriedAtOnce, Current
  <2>1. CASE attempts[i].turn + 1 \in DOMAIN turns
    BY <1>2, <2>1 DEF RetriedAtOnce
  <2>2. CASE attempts[i].turn = Len(turns)
    <3>1. FALSE
      BY <2>2, LastIsRetried
    <3> QED
      BY <3>1
  <2> QED
    BY <1>2, <2>1, <2>2
<1> QED
  BY <1>3, <1>4, <1>5, <1>6, <1>7, <1>8, <1>9

\* A pass is begun, and it was allowed to.
LEMMA BeginningKeepsInv ==
  ASSUME AllInv, NEW listed \in BOOLEAN, RecordTurnAndMaybeCompact(listed),
         ShouldCompact(sched')
  PROVE  AllInv'
<1> USE DEF AllInv, CompactionInv
<1> DEFINE m == Current
           new == [turn |-> Len(turns'), branch |-> pass.branch, listed |-> listed,
                   reason |-> Reason(sched'), outcome |-> "running"]
<1>1. /\ pc' = "request" /\ pass' = pass /\ spine' = spine
      /\ attempts' = Append(attempts, new)
  BY DEF RecordTurnAndMaybeCompact
<1>2. /\ pc = "answered" /\ pass \in Passes /\ pass.branch \in Branches
      /\ sched' \in Scheduler
      /\ sched'.turnsSinceLastFire = sched.turnsSinceLastFire + 1
      /\ sched'.totalFirings = sched.totalFirings
      /\ listed => sched'.eventCount = EventCount(pass.branch)
      /\ turns' \in Seq([branch : Branches, listed : BOOLEAN])
      /\ Len(turns') = Len(turns) + 1 /\ Len(turns) \in Nat
      /\ DOMAIN turns' = 1..(Len(turns) + 1) /\ DOMAIN turns = 1..Len(turns)
      /\ \A i \in DOMAIN turns : turns'[i] = turns[i]
      /\ turns'[Len(turns) + 1] = [branch |-> pass.branch, listed |-> listed]
      /\ DOMAIN attempts = 1..m /\ m \in Nat
      /\ \A i \in DOMAIN attempts :
           attempts[i].turn \in 1..Len(turns) /\ attempts[i].outcome # "running"
  BY DecidingCounts
<1>3. new \in Attempts
  <2>1. Len(turns') \in Nat /\ Reason(sched') \in {"turn_count", "budget_pressure"}
    BY <1>2 DEF Reason
  <2> QED
    BY <1>2, <2>1 DEF Attempts, Outcomes
<1>4. /\ new.turn = Len(turns) + 1 /\ new.branch = pass.branch /\ new.listed = listed
      /\ new.reason = Reason(sched') /\ new.outcome = "running"
  BY <1>2
<1> HIDE DEF new
<1>5. /\ attempts' \in Seq(Attempts) /\ Len(attempts') = m + 1 /\ attempts' # <<>>
      /\ DOMAIN attempts' = 1..(m + 1)
      /\ \A i \in 1..m : attempts'[i] = attempts[i]
      /\ attempts'[m + 1] = new
  BY <1>1, <1>2, <1>3, AppendIndices DEF TypeOK, Current
<1>6. Current' = m + 1
  BY <1>5 DEF Current
<1> HIDE DEF m
<1> DEFINE L == Len(turns)
<1>20. m \in Nat /\ L \in Nat /\ Len(turns') = L + 1
  BY <1>2
<1>21. \A i \in 1..m :
         /\ i \in 1..(m + 1) /\ i < m + 1 /\ attempts'[i] = attempts[i]
         /\ attempts[i].turn \in Nat /\ attempts[i].turn >= 1 /\ attempts[i].turn <= L
         /\ attempts[i].outcome # "running"
  <2> SUFFICES ASSUME NEW i \in 1..m
               PROVE  /\ i \in 1..(m + 1) /\ i < m + 1 /\ attempts'[i] = attempts[i]
                      /\ attempts[i].turn \in Nat /\ attempts[i].turn >= 1
                      /\ attempts[i].turn <= L /\ attempts[i].outcome # "running"
    OBVIOUS
  <2>1. attempts[i].turn \in 1..Len(turns) /\ attempts[i].outcome # "running"
    BY <1>2
  <2>2. attempts'[i] = attempts[i]
    BY <1>5
  <2>3. i \in 1..(m + 1) /\ i < m + 1
    BY <1>20
  <2> QED
    BY <1>20, <2>1, <2>2, <2>3
<1>22. attempts'[m + 1].turn = L + 1 /\ attempts'[m + 1].outcome = "running"
  BY <1>4, <1>5
<1>23. \A i \in 1..(m + 1) : i \in 1..m \/ i = m + 1
  BY <1>20
<1> HIDE DEF L
<1>7. TypeOK'
  BY <1>1, <1>2, <1>5 DEF TypeOK, Steps
<1>8. PassUnderWay'
  <2>1. \A i \in 1..(m + 1) : attempts'[i].outcome = "running" <=> i = m + 1
    BY <1>20, <1>21, <1>22, <1>23
  <2>2. pass' # None
    BY <1>1, <1>2 DEF PassUnderWay
  <2>3. attempts'[m + 1].turn = Len(turns')
    BY <1>2, <1>4, <1>5
  <2> QED
    BY <1>1, <1>5, <1>6, <2>1, <2>2, <2>3 DEF PassUnderWay
<1>9. AttemptsInOrder'
  <2>1. \A i \in 1..(m + 1) : attempts'[i].turn \in 1..(L + 1)
    BY <1>20, <1>21, <1>22, <1>23
  <2>2. ASSUME NEW i \in 1..(m + 1), NEW j \in 1..(m + 1), i < j
        PROVE  attempts'[i].turn < attempts'[j].turn
    <3>1. i \in 1..m
      BY <1>20, <2>2
    <3>2. CASE j \in 1..m
      BY <1>2, <1>21, <2>2, <3>1, <3>2 DEF AttemptsInOrder
    <3>3. CASE j = m + 1
      BY <1>20, <1>21, <1>22, <3>1, <3>3
    <3> QED
      BY <1>23, <3>2, <3>3
  <2>3. DOMAIN turns' = 1..(L + 1) /\ DOMAIN attempts' = 1..(m + 1)
    BY <1>2, <1>5 DEF L
  <2> QED
    BY <2>1, <2>2, <2>3 DEF AttemptsInOrder
<1>10. \A i \in 1..(m + 1) : attempts'[i].outcome = "done" <=> i \in 1..m /\ Done(i)
  BY <1>2, <1>4, <1>5 DEF Done
<1>11. sched.turnsSinceLastFire \in Nat /\ sched.totalFirings \in Nat
  BY SchedulerFields DEF TypeOK
<1>12. \A i \in 1..m : Done(i) =>
         /\ attempts[i].turn + sched.turnsSinceLastFire <= Len(turns)
         /\ sched.totalFirings > 0
  BY <1>2 DEF CooldownCounted
<1>13. CooldownCounted'
  <2>1. sched'.totalFirings > 0 <=> \E i \in 1..m : Done(i)
    BY <1>2 DEF CooldownCounted
  <2>2. \A i \in 1..m : Done(i) =>
          attempts'[i].turn + sched'.turnsSinceLastFire <= Len(turns')
    <3>1. sched'.turnsSinceLastFire = sched.turnsSinceLastFire + 1
      BY <1>2
    <3> QED
      BY <1>11, <1>12, <1>20, <1>21, <3>1 DEF L
  <2>3. 1..m \subseteq 1..(m + 1)
    BY <1>2
  <2> QED
    BY <1>5, <1>10, <2>1, <2>2, <2>3 DEF CooldownCounted, Done
<1>14. RetryPending'
  <2>1. sched'.eventCount >= MinEvents /\ ~Cooling(sched')
    BY DEF ShouldCompact
  <2>2. new.reason = "turn_count" => TurnsDue(sched')
    BY <1>4 DEF Reason
  <2>3. EventCount(pass.branch)' = EventCount(pass.branch)
    BY <1>1 DEF EventCount
  <2>4. attempts'[m + 1].listed => EventCount(attempts'[m + 1].branch) >= sched'.eventCount
    <3>1. EventCount(pass.branch) \in Nat
      BY CountIsNat DEF EventCount, CountIn, TypeOK
    <3> QED
      BY <1>2, <1>4, <1>5, <3>1
  <2>5. EventCount(attempts[Current].branch)' = EventCount(attempts'[m + 1].branch)
    BY <1>1, <1>6 DEF EventCount
  <2> QED
    BY <1>5, <1>6, <2>1, <2>2, <2>4, <2>5 DEF RetryPending
<1>15. CooldownHolds'
  <2> SUFFICES ASSUME NEW i \in 1..(m + 1), NEW j \in 1..(m + 1), i < j,
                      attempts'[i].outcome = "done"
               PROVE  attempts'[j].turn - attempts'[i].turn >= CooldownTurns
    BY <1>5 DEF CooldownHolds, Done
  <2>1. i \in 1..m /\ Done(i)
    BY <1>10
  <2>2. CASE j \in 1..m
    BY <1>2, <1>5, <2>1, <2>2 DEF CooldownHolds
  <2>3. CASE j = m + 1
    <3>1. ~(sched'.turnsSinceLastFire < CooldownTurns)
      BY <1>2, <1>12, <2>1 DEF ShouldCompact, Cooling
    <3>2. attempts[i].turn \in Nat /\ CooldownTurns \in Nat
      BY <1>21, <2>1, ScheduleAssumption
    <3>3. sched.turnsSinceLastFire + 1 >= CooldownTurns
      BY <1>2, <1>11, <3>1, <3>2
    <3>4. attempts[i].turn + sched.turnsSinceLastFire <= Len(turns)
      BY <1>12, <2>1
    <3> QED
      BY <1>11, <1>20, <1>21, <1>22, <2>1, <2>3, <3>2, <3>3, <3>4 DEF L
  <2> QED
    BY <1>23, <2>2, <2>3
<1>16. RetriedAtOnce'
  <2> SUFFICES ASSUME NEW i \in 1..(m + 1),
                      attempts'[i].outcome \in {"refused", "failed"},
                      attempts'[i].reason = "turn_count",
                      attempts'[i].turn + 1 \in DOMAIN turns',
                      turns'[attempts'[i].turn + 1].listed =>
                        /\ attempts'[i].listed
                        /\ turns'[attempts'[i].turn + 1].branch = attempts'[i].branch
               PROVE  i < m + 1 /\ attempts'[i + 1].turn = attempts'[i].turn + 1
    BY <1>5, <1>6 DEF RetriedAtOnce
  <2>1. i \in 1..m /\ attempts'[i] = attempts[i] /\ i \in DOMAIN attempts
    BY <1>2, <1>4, <1>5
  <2>2. CASE attempts[i].turn + 1 \in DOMAIN turns
    <3>1. i < m /\ attempts[i + 1].turn = attempts[i].turn + 1
      BY <1>2, <2>1, <2>2 DEF RetriedAtOnce, m
    <3> QED
      BY <1>2, <1>5, <2>1, <3>1
  <2>3. CASE attempts[i].turn = Len(turns)
    <3>1. i = m
      BY <2>1, <2>3, LastIsRetried DEF m
    <3> QED
      BY <1>2, <1>4, <1>5, <2>1, <2>3, <3>1
  <2> QED
    BY <1>2, <2>1, <2>2, <2>3
<1> QED
  BY <1>7, <1>8, <1>9, <1>13, <1>14, <1>15, <1>16

-----------------------------------------------------------------------------
(* Every step *)

LEMMA InitAllInv == Init => AllInv
<1> SUFFICES ASSUME Init PROVE AllInv
  OBVIOUS
<1>1. /\ sched \in Scheduler /\ sched.totalFirings = 0
      /\ sched.turnsSinceLastFire = 0
  BY DEF Init, Scheduler, Ratios
<1>2. TypeOK
  BY <1>1 DEF Init, TypeOK, Steps
<1>3. DOMAIN attempts = {}
  BY DEF Init
<1> QED
  BY <1>1, <1>2, <1>3 DEF Init, AllInv, CompactionInv, PassUnderWay, AttemptsInOrder,
     CooldownCounted, RetryPending, CooldownHolds, RetriedAtOnce, Done

\* No pass is None.
LEMMA NoneIsNoPass == ASSUME NEW p \in Passes PROVE p # None
  BY NoneAssumption

\* An event with a known kind and branch is one.
LEMMA AppendsEvent ==
  ASSUME NEW kind \in Kinds, NEW b \in Branches, NEW a \in Nat
  PROVE  Event(kind, b, a) \in Events
  BY DEF Event, Events

\* A reply's coverage is among what replies can cover.
LEMMA CoveringTyped ==
  ASSUME TypeOK, pass # None, NEW reply \in Replies
  PROVE  /\ pass \in Passes /\ pass.next + 1 \in Nat
         /\ [pass EXCEPT !.next = 2, !.reply = reply, !.covered = Covering(reply)] \in Passes
         /\ [pass EXCEPT !.next = @ + 1, !.covered = Covering(reply)] \in Passes
         /\ [pass EXCEPT !.reply = reply, !.covered = Covering(reply)] \in Passes
<1>1. pass \in Passes
  BY DEF TypeOK
<1>2. EventCoverage(Parse(reply)) \subseteq Coverable
  BY DEF Coverable
<1> DEFINE c == Covering(reply)
<1>3. c \in SUBSET Coverable
  BY <1>1, <1>2 DEF Covering, Passes
<1> DEFINE n == pass.next + 1
<1>4. n \in Nat
  BY <1>1 DEF Passes
<1> HIDE DEF c, n
<1>5. /\ [pass EXCEPT !.next = 2, !.reply = reply, !.covered = c] \in Passes
      /\ [pass EXCEPT !.next = n, !.covered = c] \in Passes
      /\ [pass EXCEPT !.reply = reply, !.covered = c] \in Passes
  BY <1>1, <1>3, <1>4 DEF Passes
<1> QED
  BY <1>1, <1>4, <1>5 DEF c, n

LEMMA NextKeepsAllInv == AllInv /\ [Next]_vars => AllInv'
<1> SUFFICES ASSUME AllInv, [Next]_vars PROVE AllInv'
  OBVIOUS
<1>1. TypeOK /\ PassUnderWay
  BY DEF AllInv, CompactionInv
<1>2. attempts \in Seq(Attempts) /\ Current \in Nat
  BY <1>1 DEF TypeOK, Current
<1>3. pc # "idle" => pass # None /\ pass \in Passes /\ pass.branch \in Branches
  BY <1>1 DEF TypeOK, PassUnderWay, Passes
<1>4. ASSUME NEW kind \in Kinds, NEW b \in Branches, NEW a \in Nat, AppendEvent(kind, b, a)
      PROVE  Grows
  BY <1>4, AppendsEvent DEF AppendEvent, Grows
<1> DEFINE Turn(b) == AppendEvent("turn", b, 0)
           Own(kind) == AppendEvent(kind, pass.branch, Current)
<1>5. \A b \in Branches : Turn(b) => Grows
  BY <1>4 DEF Kinds
<1>6. pc # "idle" => \A kind \in Kinds : Own(kind) => Grows
  BY <1>2, <1>3, <1>4
<1>7. spine' = spine => Grows
  BY DEF Grows
<1> HIDE DEF Turn, Own
<1>10. CASE UNCHANGED vars
  <2>1. Continues
    BY <1>1, <1>7, <1>10 DEF Continues, vars, TypeOK, PassUnderWay
  <2> QED
    BY <2>1, ContinuingKeepsInv
<1>11. ASSUME NEW b \in Branches, NEW ratio \in Ratios,
              TurnAnswers(b, ratio) \/ TurnFails(b, ratio)
       PROVE  AllInv'
  <2>1. [branch |-> b, next |-> 1, reply |-> None, covered |-> {}] \in Passes
    BY DEF Passes
  <2>2. [branch |-> b, next |-> 1, reply |-> None, covered |-> {}] # None
    BY NoneIsNoPass, <2>1
  <2>3. Grows
    BY <1>5, <1>11 DEF TurnAnswers, TurnFails, Turn
  <2>4. Continues
    BY <1>1, <1>11, <2>1, <2>2, <2>3
    DEF Continues, TurnAnswers, TurnFails, Goto, TypeOK, PassUnderWay, Steps
  <2> QED
    BY <2>4, ContinuingKeepsInv
<1>12. ASSUME NEW b \in Branches, OtherAppends(b)
       PROVE  AllInv'
  <2>1. Grows
    BY <1>5, <1>12 DEF OtherAppends, Turn
  <2>2. Continues
    BY <1>1, <1>12, <2>1 DEF Continues, OtherAppends, TypeOK, PassUnderWay
  <2> QED
    BY <2>2, ContinuingKeepsInv
<1>13. ASSUME NEW listed \in BOOLEAN, RecordTurnAndMaybeCompact(listed)
       PROVE  AllInv'
  BY <1>13, WaitingKeepsInv, BeginningKeepsInv
<1>14. CASE RequestRefused
  <2>1. Concludes("refused") /\ sched' = sched
    BY <1>7, <1>14 DEF RequestRefused, Concludes, Goto
  <2> QED
    BY <2>1, ConcludingKeepsInv DEF Outcomes
<1>15. CASE RecordFailure
  <2>1. Grows
    BY <1>6, <1>7, <1>15 DEF RecordFailure, Goto, Own, Kinds
  <2>2. Concludes("failed") /\ sched' = MarkCompactionFailed(sched)
    BY <1>15, <2>1 DEF RecordFailure, Concludes, Goto
  <2> QED
    BY <2>2, ConcludingKeepsInv DEF Outcomes
<1>16. CASE RecordComplete
  <2>1. Grows
    BY <1>6, <1>7, <1>16 DEF RecordComplete, Goto, Own, Kinds
  <2>2. Concludes("done") /\ sched' = MarkCompacted(sched)
    BY <1>16, <2>1 DEF RecordComplete, Concludes, Goto
  <2> QED
    BY <2>2, ConcludingKeepsInv DEF Outcomes
<1>17. ASSUME pc \notin {"idle", "answered"}, pc' \in Steps \ {"idle", "answered"},
              Grows, sched' = sched, pass' \in Passes, UNCHANGED <<turns, attempts>>
       PROVE  AllInv'
  <2>1. pass' # None
    BY <1>17, NoneIsNoPass
  <2>2. Continues
    BY <1>17, <2>1 DEF Continues
  <2> QED
    BY <2>2, ContinuingKeepsInv
<1>18. CASE RequestRecorded
  BY <1>3, <1>6, <1>17, <1>18 DEF RequestRecorded, Goto, Own, Kinds, Steps
<1>19. ASSUME NEW big \in BOOLEAN, BeginPass(big)
       PROVE  AllInv'
  BY <1>3, <1>7, <1>17, <1>19 DEF BeginPass, Steps
<1>20. CASE CallFails \/ MergeFails
  BY <1>3, <1>7, <1>17, <1>20 DEF CallFails, MergeFails, Goto, Steps
<1>21. ASSUME NEW reply \in Replies, ChunkReply(reply) \/ MergeReply(reply)
       PROVE  AllInv'
  <2>1. pc \in {"call", "merge"} /\ Grows /\ sched' = sched /\ UNCHANGED <<turns, attempts>>
    BY <1>7, <1>21 DEF ChunkReply, MergeReply
  <2>2. pc' \in Steps \ {"idle", "answered"}
    BY <1>21 DEF ChunkReply, MergeReply, Validated, Steps
  <2>3. pass' \in Passes
    BY <1>1, <1>3, <1>21, <2>1, CoveringTyped DEF ChunkReply, MergeReply, Validated
  <2> QED
    BY <1>17, <2>1, <2>2, <2>3
<1>22. CASE StoreTree
  BY <1>3, <1>7, <1>17, <1>22 DEF StoreTree, Goto, Steps
<1>23. CASE RecordTree
  BY <1>3, <1>6, <1>7, <1>17, <1>23 DEF RecordTree, Goto, Own, Kinds, Steps
<1> QED
  BY <1>10, <1>11, <1>12, <1>13, <1>14, <1>15, <1>16, <1>18, <1>19, <1>20, <1>21,
     <1>22, <1>23 DEF Next, Hook

-----------------------------------------------------------------------------
(* Places in order *)

Earlier(P, i) == {j \in P : j < i}

\* InOrder is a sequence of the places, and misses none.
LEMMA InOrderFacts ==
  ASSUME NEW n \in Nat, NEW P \in SUBSET (1..n)
  PROVE  /\ InOrder(P) \in Seq(P)
         /\ DOMAIN InOrder(P) = 1..Len(InOrder(P))
         /\ \A j \in P : \E k \in DOMAIN InOrder(P) : InOrder(P)[k] = j
<1> DEFINE m == Cardinality(P)
           rank == [i \in P |-> Cardinality(Earlier(P, i))]
<1>1. IsFiniteSet(P) /\ m \in Nat
  <2>1. IsFiniteSet(1..n)
    BY FS_Interval
  <2> QED
    BY <2>1, FS_Subset, FS_CardinalityType
<1>2. ASSUME NEW i \in P
      PROVE  /\ Earlier(P, i) \in SUBSET P /\ i \notin Earlier(P, i)
             /\ IsFiniteSet(Earlier(P, i)) /\ rank[i] \in 0..(m - 1)
  <2>1. Earlier(P, i) \in SUBSET P /\ i \notin Earlier(P, i)
    BY <1>2 DEF Earlier
  <2>2. /\ IsFiniteSet(Earlier(P, i)) /\ Cardinality(Earlier(P, i)) <= m
        /\ m = Cardinality(Earlier(P, i)) => P = Earlier(P, i)
    BY <1>1, <2>1, FS_Subset
  <2>3. Cardinality(Earlier(P, i)) \in Nat
    BY <2>2, FS_CardinalityType
  <2> HIDE DEF m
  <2> QED
    BY <1>1, <1>2, <2>1, <2>2, <2>3
<1>3. ASSUME NEW i \in P, NEW j \in P, i < j
      PROVE  rank[i] # rank[j]
  <2>1. Earlier(P, i) \in SUBSET Earlier(P, j) /\ i \in Earlier(P, j)
    <3>1. \A h \in P : h \in Nat
      OBVIOUS
    <3>2. \A h \in P : h < i => h < j
      BY <1>3, <3>1
    <3> QED
      BY <1>3, <3>2 DEF Earlier
  <2>2. Cardinality(Earlier(P, j)) = Cardinality(Earlier(P, i)) => Earlier(P, j) = Earlier(P, i)
    BY <1>2, <2>1, FS_Subset
  <2> QED
    BY <1>2, <2>1, <2>2
<1>4. \A i, j \in P : rank[i] = rank[j] => i = j
  BY <1>3
<1>5. \A k \in 0..(m - 1) : \E i \in P : rank[i] = k
  <2>1. rank \in [P -> 0..(m - 1)]
    BY <1>2
  <2> HIDE DEF rank, m
  <2>2. rank \in Injection(P, 0..(m - 1))
    BY <1>4, <2>1 DEF Injection, IsInjective
  <2>3. IsFiniteSet(0..(m - 1)) /\ Cardinality(0..(m - 1)) = m
    <3>1. 0 \in Int /\ m - 1 \in Int
      BY <1>1
    <3>2. /\ IsFiniteSet(0..(m - 1))
          /\ Cardinality(0..(m - 1)) = IF 0 > m - 1 THEN 0 ELSE m - 1 - 0 + 1
      BY <3>1, FS_Interval
    <3> QED
      BY <1>1, <3>2
  <2>4. rank \in Surjection(P, 0..(m - 1))
    BY <2>2, <2>3, FS_Injection DEF m
  <2> QED
    BY <2>4 DEF Surjection
<1>6. InOrder(P) = [k \in 1..m |-> CHOOSE i \in P : Cardinality(Earlier(P, i)) = k - 1]
  BY DEF InOrder, Earlier
<1>10. \A i \in P : rank[i] = Cardinality(Earlier(P, i))
  OBVIOUS
<1> HIDE DEF rank, m
<1>7. ASSUME NEW k \in 1..m
      PROVE  InOrder(P)[k] \in P /\ rank[InOrder(P)[k]] = k - 1
  <2>1. \E i \in P : Cardinality(Earlier(P, i)) = k - 1
    BY <1>1, <1>5, <1>7, <1>10
  <2> QED
    BY <1>6, <1>7, <1>10, <2>1
<1>8. InOrder(P) \in Seq(P) /\ DOMAIN InOrder(P) = 1..m /\ Len(InOrder(P)) = m
  BY <1>1, <1>6, <1>7
<1>9. ASSUME NEW j \in P
      PROVE  \E k \in 1..m : InOrder(P)[k] = j
  <2>1. rank[j] \in 0..(m - 1)
    BY <1>2, <1>9
  <2>2. PICK k \in 1..m : k - 1 = rank[j]
    <3>1. rank[j] + 1 \in 1..m /\ (rank[j] + 1) - 1 = rank[j]
      BY <1>1, <2>1
    <3> QED
      BY <3>1
  <2>3. InOrder(P)[k] \in P /\ rank[InOrder(P)[k]] = rank[j]
    BY <1>7, <2>2
  <2> QED
    BY <1>4, <1>9, <2>3
<1> QED
  BY <1>8, <1>9

-----------------------------------------------------------------------------
(* The walk that validates *)

Fits(leaves, id, visited) ==
  /\ id \notin visited
  /\ LeafValid(leaves[id])
  /\ ParentFits(leaves, leaves[id])

Stops(leaves) == Seq(DOMAIN leaves) \X SUBSET DOMAIN leaves

\* Where the walk goes from where it is.
Onward(leaves, at) ==
  <<leaves[Head(at[1])].children \o Tail(at[1]), at[2] \cup {Head(at[1])}>>

\* What ValidSubtree's recursive function is.
Walks(walk, leaves) ==
  walk = [at \in Stops(leaves) |->
            at[1] # <<>> => /\ Fits(leaves, Head(at[1]), at[2])
                            /\ walk[Onward(leaves, at)]]

WalkOf(leaves) == CHOOSE walk : Walks(walk, leaves)

LEMMA SubtreeIsWalk ==
  ASSUME NEW leaves, NEW id
  PROVE  ValidSubtree(leaves, id) = WalkOf(leaves)[<<<<id>>, {}>>]
  BY DEF ValidSubtree, WalkOf, Walks, Fits, Stops, Onward

LEMMA WalksStep ==
  ASSUME NEW leaves, NEW walk, Walks(walk, leaves),
         NEW at \in Stops(leaves), at[1] # <<>>, walk[at]
  PROVE  Fits(leaves, Head(at[1]), at[2]) /\ walk[Onward(leaves, at)]
  BY DEF Walks

\* A way through: from at, each stop fits and leads to the next, and at the last
\* nothing is left to visit.
Way(leaves, at, n, t) ==
  /\ t \in [0..n -> Stops(leaves)]
  /\ t[0] = at
  /\ t[n][1] = <<>>
  /\ \A k \in 0..(n - 1) :
       /\ t[k][1] # <<>>
       /\ Fits(leaves, Head(t[k][1]), t[k][2])
       /\ t[k + 1] = Onward(leaves, t[k])

Passable(leaves, at) == \E n \in Nat : \E t : Way(leaves, at, n, t)

\* The children of a leaf are leaves, or the walk would leave the map.
Closed(leaves) == \A id \in DOMAIN leaves : leaves[id].children \in Seq(DOMAIN leaves)

LEMMA OnwardTyped ==
  ASSUME NEW leaves, Closed(leaves), NEW at \in Stops(leaves), at[1] # <<>>
  PROVE  Onward(leaves, at) \in Stops(leaves) /\ Head(at[1]) \in DOMAIN leaves
<1>1. at[1] \in Seq(DOMAIN leaves) /\ at[2] \in SUBSET DOMAIN leaves
  BY DEF Stops
<1>2. Head(at[1]) \in DOMAIN leaves /\ Tail(at[1]) \in Seq(DOMAIN leaves)
  BY <1>1, HeadTailProperties
<1>3. leaves[Head(at[1])].children \in Seq(DOMAIN leaves)
  BY <1>2 DEF Closed
<1>4. leaves[Head(at[1])].children \o Tail(at[1]) \in Seq(DOMAIN leaves)
  BY <1>2, <1>3
<1> QED
  BY <1>1, <1>2, <1>4 DEF Onward, Stops

\* There is such a function: that there is a way through.
LEMMA PassableStep ==
  ASSUME NEW leaves, Closed(leaves), NEW at \in Stops(leaves)
  PROVE  Passable(leaves, at) <=>
           (at[1] # <<>> => /\ Fits(leaves, Head(at[1]), at[2])
                            /\ Passable(leaves, Onward(leaves, at)))
<1>1. CASE at[1] = <<>>
  <2> DEFINE t == [k \in 0..0 |-> at]
  <2>1. Way(leaves, at, 0, t)
    BY <1>1 DEF Way
  <2> QED
    BY <1>1, <2>1 DEF Passable
<1>2. CASE at[1] # <<>>
  <2>1. ASSUME Passable(leaves, at)
        PROVE  Fits(leaves, Head(at[1]), at[2]) /\ Passable(leaves, Onward(leaves, at))
    <3>1. PICK n \in Nat : \E t : Way(leaves, at, n, t)
      BY <2>1 DEF Passable
    <3>6. PICK t : Way(leaves, at, n, t)
      BY <3>1
    <3>2. n # 0
      BY <1>2, <3>6 DEF Way
    <3>3. 0 \in 0..(n - 1) /\ n - 1 \in Nat /\ 0 + 1 = 1
      BY <3>2
    <3>4. Fits(leaves, Head(at[1]), at[2]) /\ t[1] = Onward(leaves, at)
      BY <3>6, <3>3 DEF Way
    <3> DEFINE u == [k \in 0..(n - 1) |-> t[k + 1]]
    <3>5. Way(leaves, Onward(leaves, at), n - 1, u)
      <4>1. u \in [0..(n - 1) -> Stops(leaves)]
        BY <3>6 DEF Way
      <4>2. u[0] = Onward(leaves, at) /\ u[n - 1][1] = <<>>
        BY <3>6, <3>3, <3>4 DEF Way
      <4>3. ASSUME NEW k \in 0..(n - 1 - 1)
            PROVE  /\ u[k] = t[k + 1] /\ u[k + 1] = t[(k + 1) + 1]
                   /\ k + 1 \in 0..(n - 1)
        BY <3>3, <4>3
      <4> HIDE DEF u
      <4> QED
        BY <3>6, <4>1, <4>2, <4>3 DEF Way
    <3> QED
      BY <3>3, <3>4, <3>5 DEF Passable
  <2>2. ASSUME Fits(leaves, Head(at[1]), at[2]), Passable(leaves, Onward(leaves, at))
        PROVE  Passable(leaves, at)
    <3>1. PICK n \in Nat : \E t : Way(leaves, Onward(leaves, at), n, t)
      BY <2>2 DEF Passable
    <3>4. PICK t : Way(leaves, Onward(leaves, at), n, t)
      BY <3>1
    <3> DEFINE u == [k \in 0..(n + 1) |-> IF k = 0 THEN at ELSE t[k - 1]]
    <3>2. n + 1 \in Nat
      OBVIOUS
    <3>3. Way(leaves, at, n + 1, u)
      <4>1. u \in [0..(n + 1) -> Stops(leaves)]
        BY <3>4 DEF Way
      <4>2. u[0] = at /\ u[n + 1][1] = <<>>
        <5>1. u[n + 1] = t[n]
          OBVIOUS
        <5> QED
          BY <3>4, <5>1 DEF Way
      <4>3. ASSUME NEW k \in 0..(n + 1 - 1)
            PROVE  /\ u[k][1] # <<>>
                   /\ Fits(leaves, Head(u[k][1]), u[k][2])
                   /\ u[k + 1] = Onward(leaves, u[k])
        <5>1. CASE k = 0
          <6>1. u[k] = at /\ u[k + 1] = t[0]
            BY <5>1
          <6> HIDE DEF u
          <6> QED
            BY <1>2, <2>2, <3>4, <6>1 DEF Way
        <5>2. CASE k # 0
          <6>1. PICK l \in 0..(n - 1) : k = l + 1
            <7>1. k - 1 \in 0..(n - 1) /\ k = (k - 1) + 1
              BY <4>3, <5>2
            <7> QED
              BY <7>1
          <6>2. u[k] = t[l] /\ u[k + 1] = t[l + 1]
            BY <6>1
          <6> HIDE DEF u
          <6> QED
            BY <3>4, <6>2 DEF Way
        <5> QED
          BY <5>1, <5>2
      <4> HIDE DEF u
      <4> QED
        BY <4>1, <4>2, <4>3 DEF Way
    <3> QED
      BY <3>2, <3>3 DEF Passable
  <2> QED
    BY <1>2, <2>1, <2>2
<1> QED
  BY <1>1, <1>2

LEMMA WalkExists ==
  ASSUME NEW leaves, Closed(leaves)
  PROVE  Walks(WalkOf(leaves), leaves)
<1> DEFINE h == [at \in Stops(leaves) |-> Passable(leaves, at)]
<1>1. ASSUME NEW at \in Stops(leaves)
      PROVE  h[at] = (at[1] # <<>> => /\ Fits(leaves, Head(at[1]), at[2])
                                      /\ h[Onward(leaves, at)])
  <2>1. CASE at[1] = <<>>
    BY <2>1, PassableStep
  <2>2. CASE at[1] # <<>>
    <3>1. Onward(leaves, at) \in Stops(leaves)
      BY <2>2, OnwardTyped
    <3>2. h[Onward(leaves, at)] = Passable(leaves, Onward(leaves, at))
      BY <3>1
    <3>3. h[at] = Passable(leaves, at)
      OBVIOUS
    <3>4. /\ Passable(leaves, at) \in BOOLEAN
          /\ Passable(leaves, Onward(leaves, at)) \in BOOLEAN
          /\ Fits(leaves, Head(at[1]), at[2]) \in BOOLEAN
      BY DEF Passable, Fits
    <3>5. Passable(leaves, at) <=> /\ Fits(leaves, Head(at[1]), at[2])
                                   /\ Passable(leaves, Onward(leaves, at))
      BY <2>2, PassableStep
    <3> HIDE DEF h
    <3> QED
      BY <2>2, <3>2, <3>3, <3>4, <3>5
  <2> QED
    BY <2>1, <2>2
<1>2. h = [at \in Stops(leaves) |->
            at[1] # <<>> => Fits(leaves, Head(at[1]), at[2]) /\ h[Onward(leaves, at)]]
  BY <1>1
<1> HIDE DEF h
<1>3. Walks(h, leaves)
  BY <1>2 DEF Walks
<1> QED
  BY <1>3 DEF WalkOf

-----------------------------------------------------------------------------
(* Replies and their leaves *)

LEMMA Greatest ==
  ASSUME NEW n \in Nat, NEW D \in SUBSET (0..n), D # {}
  PROVE  \E m \in D : \A k \in D : k <= m
<1> DEFINE back == {n - k : k \in D}
<1>1. back \subseteq Nat /\ back # {}
  <2>1. \A k \in D : n - k \in Nat
    <3>1. \A k \in 0..n : n - k \in Nat
      OBVIOUS
    <3> QED
      BY <3>1
  <2> QED
    BY <2>1
<1>2. PICK b \in back : \A c \in back : <<c, b>> \notin OpToRel(<, Nat)
  <2> HIDE DEF back
  <2> QED
    BY <1>1, WFMin, NatLessThanWellFounded, Zenon
<1>3. \A c \in back : ~ (c < b)
  <2> HIDE DEF back
  <2> QED
    BY <1>1, <1>2, Zenon DEF OpToRel
<1>4. PICK m \in D : b = n - m
  OBVIOUS
<1>5. ASSUME NEW k \in D
      PROVE  k <= m
  <2>1. ~ (n - k < n - m)
    BY <1>3, <1>4
  <2>2. n \in Nat /\ k \in 0..n /\ m \in 0..n
    OBVIOUS
  <2> HIDE DEF back
  <2> QED
    BY <2>1, <2>2
<1> QED
  BY <1>5

\* What Level is, for the nodes after the m-th.
Levels(f, reply, m) ==
  f = [i \in (m + 1)..Len(reply) |->
         IF reply[i].up = 0 THEN 0 ELSE f[reply[i].up] + 1]

LEMMA LevelIsLevels ==
  ASSUME NEW reply, IsTree(reply)
  PROVE  Level(reply) = CHOOSE f : Levels(f, reply, 0)
<1>1. DOMAIN reply = (0 + 1)..Len(reply)
  BY DEF IsTree
<1>2. Level(reply) = CHOOSE f : f = [i \in DOMAIN reply |->
                                      IF reply[i].up = 0 THEN 0 ELSE f[reply[i].up] + 1]
  BY DEF Level
<1>3. Level(reply) = CHOOSE f : f = [i \in (0 + 1)..Len(reply) |->
                                      IF reply[i].up = 0 THEN 0 ELSE f[reply[i].up] + 1]
  BY <1>1, <1>2
<1> QED
  BY <1>3 DEF Levels

LEMMA LevelsExist ==
  ASSUME NEW reply, IsTree(reply)
  PROVE  \E f : Levels(f, reply, 0)
<1> DEFINE n == Len(reply)
           D == {m \in 0..n : ~ \E f : Levels(f, reply, m)}
<1>1. n \in Nat \ {0} /\ DOMAIN reply = 1..n
  BY DEF IsTree
<1>2. SUFFICES ASSUME D # {}
               PROVE  FALSE
  <2>1. 0 \in 0..n
    BY <1>1
  <2> QED
    BY <2>1
<1>3. PICK m \in D : \A k \in D : k <= m
  <2>1. D \in SUBSET (0..n)
    OBVIOUS
  <2> HIDE DEF D
  <2> QED
    BY <1>1, <1>2, <2>1, Greatest
<1>4. m # n
  <2>1. Levels([i \in (n + 1)..n |-> 0], reply, n)
    <3>1. (n + 1)..n = {}
      BY <1>1
    <3> QED
      BY <3>1 DEF Levels
  <2> QED
    BY <2>1
<1>5. m \in 0..n /\ m + 1 \in 0..n /\ m + 1 \in 1..n /\ ~ (m + 1 <= m)
  <2>1. m \in 0..n
    OBVIOUS
  <2> HIDE DEF D, n
  <2> QED
    BY <1>1, <1>4, <2>1
<1>6. PICK f : Levels(f, reply, m + 1)
  BY <1>3, <1>5
<1> DEFINE g == [i \in (m + 1)..n |->
                   IF i = m + 1 THEN IF reply[i].up = 0 THEN 0 ELSE f[reply[i].up] + 1
                   ELSE f[i]]
<1>7. ASSUME NEW i \in (m + 1)..n
      PROVE  g[i] = IF reply[i].up = 0 THEN 0 ELSE g[reply[i].up] + 1
  <2>1. i \in 1..n /\ i \in Nat
    BY <1>5, <1>7
  <2>2. reply[i].up = 0 \/ reply[i].up \in (i + 1)..n
    BY <1>1, <2>1 DEF IsTree
  <2>3. reply[i].up # 0 =>
          reply[i].up \in (m + 1)..n /\ reply[i].up # m + 1
    BY <1>5, <1>7, <2>1, <2>2
  <2>4. reply[i].up # 0 => g[reply[i].up] = f[reply[i].up]
    BY <2>3
  <2>5. CASE i = m + 1
    BY <2>4, <2>5, <1>7
  <2>6. CASE i # m + 1
    <3>1. i \in ((m + 1) + 1)..n
      BY <1>5, <1>7, <2>6
    <3>2. f[i] = IF reply[i].up = 0 THEN 0 ELSE f[reply[i].up] + 1
      BY <1>6, <3>1 DEF Levels
    <3> QED
      BY <1>7, <2>4, <2>6, <3>2
  <2> QED
    BY <2>5, <2>6
<1>8. g = [i \in (m + 1)..n |-> IF reply[i].up = 0 THEN 0 ELSE g[reply[i].up] + 1]
  BY <1>7
<1> HIDE DEF g
<1>9. Levels(g, reply, m)
  BY <1>8 DEF Levels
<1> QED
  BY <1>9

LEMMA LevelFacts ==
  ASSUME NEW reply, IsTree(reply), NEW i \in DOMAIN reply
  PROVE  /\ Level(reply)[i] \in Nat
         /\ Level(reply)[i] = IF reply[i].up = 0 THEN 0 ELSE Level(reply)[reply[i].up] + 1
<1> DEFINE n == Len(reply)
           f == Level(reply)
           D == {m \in 0..n : m # 0 /\ f[m] \notin Nat}
<1>1. n \in Nat \ {0} /\ DOMAIN reply = 1..n
  BY DEF IsTree
<1>2. Levels(f, reply, 0)
  BY LevelIsLevels, LevelsExist
<1>3. ASSUME NEW j \in 1..n
      PROVE  f[j] = IF reply[j].up = 0 THEN 0 ELSE f[reply[j].up] + 1
  <2>1. j \in (0 + 1)..Len(reply)
    BY <1>1
  <2> HIDE DEF f
  <2> QED
    BY <1>2, <2>1 DEF Levels
<1> HIDE DEF f
<1>4. D = {}
  <2> SUFFICES ASSUME D # {}
               PROVE  FALSE
    OBVIOUS
  <2>1. PICK m \in D : \A k \in D : k <= m
    <3>1. D \in SUBSET (0..n)
      OBVIOUS
    <3> HIDE DEF D
    <3> QED
      BY <1>1, <3>1, Greatest
  <2>2. m \in 1..n /\ f[m] \notin Nat
    BY <1>1
  <2>3. reply[m].up = 0 \/ reply[m].up \in (m + 1)..n
    BY <1>1, <2>2 DEF IsTree
  <2>4. reply[m].up # 0 => f[reply[m].up] \in Nat
    BY <1>1, <2>1, <2>2, <2>3
  <2> QED
    BY <1>3, <2>2, <2>4
<1>5. i \in 0..n /\ i # 0 /\ i \in 1..n
  BY <1>1
<1> QED
  BY <1>3, <1>4, <1>5 DEF f

\* The node that gives an id its leaf.
Live(reply, i) == \A j \in DOMAIN reply : reply[j].id = reply[i].id => j <= i

LEMMA LeavesFacts ==
  ASSUME NEW reply, IsTree(reply)
  PROVE  /\ DOMAIN Leaves(reply) = {reply[i].id : i \in DOMAIN reply}
         /\ \A i \in DOMAIN reply : Live(reply, i) =>
              Leaves(reply)[reply[i].id] = LeafAt(reply, i)
         /\ \A i \in DOMAIN reply : \E j \in DOMAIN reply :
              reply[j].id = reply[i].id /\ Live(reply, j) /\ i <= j
<1> DEFINE n == Len(reply)
           at(id) == CHOOSE i \in DOMAIN reply :
                       /\ reply[i].id = id
                       /\ \A j \in DOMAIN reply : reply[j].id = id => j <= i
<1>1. n \in Nat \ {0} /\ DOMAIN reply = 1..n
  BY DEF IsTree
<1>2. Leaves(reply) = [id \in {reply[i].id : i \in DOMAIN reply} |-> LeafAt(reply, at(id))]
  BY DEF Leaves
<1>3. ASSUME NEW i \in DOMAIN reply, Live(reply, i)
      PROVE  at(reply[i].id) = i
  <2>1. at(reply[i].id) \in DOMAIN reply /\ reply[at(reply[i].id)].id = reply[i].id
        /\ \A j \in DOMAIN reply : reply[j].id = reply[i].id => j <= at(reply[i].id)
    BY <1>3 DEF Live
  <2> HIDE DEF at
  <2>2. at(reply[i].id) <= i /\ i <= at(reply[i].id)
    BY <1>3, <2>1 DEF Live
  <2> QED
    BY <1>1, <1>3, <2>1, <2>2
<1> HIDE DEF at
<1>4. ASSUME NEW i \in DOMAIN reply
      PROVE  \E j \in DOMAIN reply : reply[j].id = reply[i].id /\ Live(reply, j) /\ i <= j
  <2> DEFINE D == {j \in DOMAIN reply : reply[j].id = reply[i].id}
  <2>1. D \in SUBSET (0..n) /\ D # {}
    BY <1>1, <1>4
  <2>2. PICK j \in D : \A k \in D : k <= j
    <3> HIDE DEF D
    <3> QED
      BY <1>1, <2>1, Greatest
  <2> QED
    BY <1>4, <2>2 DEF Live
<1> QED
  BY <1>2, <1>3, <1>4

-----------------------------------------------------------------------------
(* A walk that ends *)

\* The places the walk has yet to visit are gone through in the order of seq;
\* the ids are what it sees of them.
Named(reply, seq) == [k \in DOMAIN seq |-> reply[seq[k]].id]

Place(reply, seq, S) == <<Named(reply, seq), {reply[i].id : i \in S}>>

\* A node's place comes up once its parent's leaf has been visited, if the leaf
\* is its parent's and not of a later node of the same id.
Due(reply, S, j) ==
  \/ j = Len(reply)
  \/ reply[j].up # 0 /\ Live(reply, reply[j].up) /\ \E i \in S : reply[i].id = reply[reply[j].up].id

\* S: the places that have been visited.
Ahead(reply, seq, S) ==
  /\ seq \in Seq(DOMAIN reply)
  /\ S \in SUBSET DOMAIN reply
  /\ \A i, j \in S : reply[i].id = reply[j].id => i = j
  /\ \A i \in S : /\ LeafValid(Leaves(reply)[reply[i].id])
                  /\ ParentFits(Leaves(reply), Leaves(reply)[reply[i].id])
  /\ \A j \in DOMAIN reply :
       Due(reply, S, j) => j \in S \/ \E k \in DOMAIN seq : seq[k] = j

LEMMA NamedJoins ==
  ASSUME NEW reply, NEW s \in Seq(DOMAIN reply), NEW t \in Seq(DOMAIN reply)
  PROVE  Named(reply, s \o t) = Named(reply, s) \o Named(reply, t)
<1>1. DOMAIN (s \o t) = 1..(Len(s) + Len(t)) /\ Len(s) \in Nat /\ Len(t) \in Nat
  OBVIOUS
<1>2. /\ Named(reply, s) \in Seq({reply[i].id : i \in DOMAIN reply}) 
      /\ Named(reply, t) \in Seq({reply[i].id : i \in DOMAIN reply})
      /\ Len(Named(reply, s)) = Len(s) /\ Len(Named(reply, t)) = Len(t)
  BY DEF Named
<1>3. DOMAIN (Named(reply, s) \o Named(reply, t)) = 1..(Len(s) + Len(t))
  BY <1>1, <1>2
<1>4. ASSUME NEW k \in 1..(Len(s) + Len(t))
      PROVE  reply[(s \o t)[k]].id = (Named(reply, s) \o Named(reply, t))[k]
  <2>1. CASE k <= Len(s)
    <3>1. (s \o t)[k] = s[k] /\ k \in DOMAIN s
      BY <1>1, <1>4, <2>1
    <3>2. (Named(reply, s) \o Named(reply, t))[k] = Named(reply, s)[k]
      BY <1>1, <1>2, <1>4, <2>1
    <3> QED
      BY <3>1, <3>2 DEF Named
  <2>2. CASE k > Len(s)
    <3>1. (s \o t)[k] = t[k - Len(s)] /\ k - Len(s) \in DOMAIN t
      BY <1>1, <1>4, <2>2
    <3>2. (Named(reply, s) \o Named(reply, t))[k] = Named(reply, t)[k - Len(s)]
      BY <1>1, <1>2, <1>4, <2>2
    <3> QED
      BY <3>1, <3>2 DEF Named
  <2>3. k \in Nat
    BY <1>1, <1>4
  <2>4. k <= Len(s) \/ k > Len(s)
    BY <1>1, <2>3
  <2> QED
    BY <2>1, <2>2, <2>4
<1>5. Named(reply, s \o t) = [k \in 1..(Len(s) + Len(t)) |-> reply[(s \o t)[k]].id]
  BY <1>1 DEF Named
<1>6. Named(reply, s) \o Named(reply, t) \in Seq({reply[i].id : i \in DOMAIN reply})
  BY <1>2
<1>7. Named(reply, s) \o Named(reply, t) =
        [k \in 1..(Len(s) + Len(t)) |-> (Named(reply, s) \o Named(reply, t))[k]]
  <2> DEFINE w == Named(reply, s) \o Named(reply, t)
             I == {reply[i].id : i \in DOMAIN reply}
             m == Len(s) + Len(t)
  <2>1. w \in Seq(I) /\ DOMAIN w = 1..m
    BY <1>3, <1>6
  <2> HIDE DEF w, I, m
  <2>2. w = [k \in DOMAIN w |-> w[k]]
    BY <2>1
  <2>3. w = [k \in 1..m |-> w[k]]
    BY <2>1, <2>2
  <2> QED
    BY <2>3 DEF w, m
<1> QED
  BY <1>4, <1>5, <1>7

\* The children of a leaf are those of the last node of its id.
LEMMA ChildrenFacts ==
  ASSUME NEW reply, IsTree(reply), NEW i \in DOMAIN reply, Live(reply, i)
  PROVE  /\ ChildrenAt(reply, i) \in Seq(DOMAIN reply)
         /\ Leaves(reply)[reply[i].id].children = Named(reply, ChildrenAt(reply, i))
         /\ \A j \in DOMAIN reply : reply[j].up = i =>
              \E k \in DOMAIN ChildrenAt(reply, i) : ChildrenAt(reply, i)[k] = j
<1> DEFINE P == {j \in DOMAIN reply : reply[j].up = i}
<1>1. Len(reply) \in Nat /\ DOMAIN reply = 1..Len(reply)
  BY DEF IsTree
<1>2. P \in SUBSET (1..Len(reply))
  BY <1>1
<1>3. ChildrenAt(reply, i) = InOrder(P)
  BY DEF ChildrenAt
<1>4. \A j \in DOMAIN reply : reply[j].up = i => j \in P
  OBVIOUS
<1>5. P \subseteq DOMAIN reply
  OBVIOUS
<1> HIDE DEF P
<1>6. /\ InOrder(P) \in Seq(P)
      /\ \A j \in P : \E k \in DOMAIN InOrder(P) : InOrder(P)[k] = j
  BY <1>1, <1>2, InOrderFacts
<1>7. ChildrenAt(reply, i) \in Seq(DOMAIN reply)
  BY <1>3, <1>5, <1>6
<1>8. Leaves(reply)[reply[i].id] = LeafAt(reply, i)
  BY LeavesFacts
<1>9. LeafAt(reply, i).children = Named(reply, ChildrenAt(reply, i))
  BY DEF LeafAt, Named
<1> QED
  BY <1>3, <1>4, <1>6, <1>7, <1>8, <1>9

LEMMA NamedTyped ==
  ASSUME NEW reply, IsTree(reply), NEW s \in Seq(DOMAIN reply)
  PROVE  /\ Named(reply, s) \in Seq(DOMAIN Leaves(reply))
         /\ DOMAIN Named(reply, s) = DOMAIN s /\ Len(Named(reply, s)) = Len(s)
<1> DEFINE I == {reply[i].id : i \in DOMAIN reply}
<1>1. DOMAIN Leaves(reply) = I
  BY LeavesFacts
<1>2. \A i \in DOMAIN reply : reply[i].id \in I
  OBVIOUS
<1>3. DOMAIN s = 1..Len(s) /\ Len(s) \in Nat /\ \A k \in 1..Len(s) : s[k] \in DOMAIN reply
  OBVIOUS
<1> HIDE DEF I
<1>4. Named(reply, s) \in [1..Len(s) -> I]
  BY <1>2, <1>3 DEF Named
<1> QED
  BY <1>1, <1>3, <1>4

LEMMA LeavesClosed ==
  ASSUME NEW reply, IsTree(reply)
  PROVE  Closed(Leaves(reply))
<1> SUFFICES ASSUME NEW id \in DOMAIN Leaves(reply)
             PROVE  Leaves(reply)[id].children \in Seq(DOMAIN Leaves(reply))
  BY DEF Closed
<1>1. PICK i \in DOMAIN reply : reply[i].id = id /\ Live(reply, i)
  <2>1. PICK j \in DOMAIN reply : reply[j].id = id
    <3>1. id \in {reply[j].id : j \in DOMAIN reply}
      BY LeavesFacts, Zenon
    <3> QED
      BY <3>1
  <2> QED
    BY <2>1, LeavesFacts
<1> QED
  BY <1>1, ChildrenFacts, NamedTyped

LEMMA TailIs ==
  ASSUME NEW X, NEW w \in Seq(X), w # <<>>
  PROVE  Tail(w) = [k \in 1..(Len(w) - 1) |-> w[k + 1]]
<1>1. /\ Tail(w) \in Seq(X) /\ Len(w) \in Nat /\ Len(w) # 0 /\ Len(Tail(w)) = Len(w) - 1
      /\ \A k \in 1..Len(Tail(w)) : Tail(w)[k] = w[k + 1]
  BY HeadTailProperties
<1>2. DOMAIN Tail(w) = 1..(Len(w) - 1)
  <2>1. DOMAIN Tail(w) = 1..Len(Tail(w))
    BY <1>1
  <2> QED
    BY <1>1, <2>1
<1>3. Tail(w) = [k \in DOMAIN Tail(w) |-> Tail(w)[k]]
  <2> DEFINE u == Tail(w)
  <2>1. u \in Seq(X)
    BY <1>1
  <2> HIDE DEF u
  <2>2. u = [k \in DOMAIN u |-> u[k]]
    BY <2>1
  <2> QED
    BY <2>2 DEF u
<1> QED
  BY <1>1, <1>2, <1>3

LEMMA Smallest ==
  ASSUME NEW X, IsFiniteSet(X), NEW D \in SUBSET (SUBSET X), D # {}
  PROVE  \E P \in D : \A Q \in D : Q \subseteq P => Q = P
<1>1. IsWellFoundedOn(StrictSubsetOrdering(X), FiniteSubsetsOf(X))
  BY FS_StrictSubsetOrderingWellFounded
<1>2. D \subseteq FiniteSubsetsOf(X)
  BY FS_FiniteSubsetsOfFinite
<1>3. PICK P \in D : \A Q \in D : <<Q, P>> \notin StrictSubsetOrdering(X)
  BY <1>1, <1>2, WFMin, Zenon
<1> QED
  BY <1>3 DEF StrictSubsetOrdering

\* A step of the walk visits a place that has not been visited.
LEMMA WalkSettles ==
  ASSUME NEW reply, IsTree(reply), NEW walk, Walks(walk, Leaves(reply)),
         NEW seq, NEW S, Ahead(reply, seq, S), walk[Place(reply, seq, S)], seq # <<>>
  PROVE  \E then : \E T : /\ Ahead(reply, then, T) /\ walk[Place(reply, then, T)]
                          /\ S \subseteq T /\ S # T
<1> DEFINE at == Place(reply, seq, S)
           V  == {reply[i].id : i \in S}
           L  == Leaves(reply)
           v  == reply[Head(seq)].id
           T  == S \cup {Head(seq)}
<1>1. seq \in Seq(DOMAIN reply) /\ S \in SUBSET DOMAIN reply
  BY DEF Ahead
<1>2. /\ Head(seq) \in DOMAIN reply /\ Tail(seq) \in Seq(DOMAIN reply)
      /\ Len(seq) \in Nat \ {0} /\ Head(seq) = seq[1] /\ DOMAIN seq = 1..Len(seq)
      /\ Len(Tail(seq)) = Len(seq) - 1
      /\ \A k \in 1..(Len(seq) - 1) : Tail(seq)[k] = seq[k + 1]
  BY <1>1
<1>3. /\ Named(reply, seq) \in Seq(DOMAIN L) /\ Named(reply, seq) # <<>>
      /\ Head(Named(reply, seq)) = v /\ Tail(Named(reply, seq)) = Named(reply, Tail(seq))
  <2>1. /\ Named(reply, seq) \in Seq(DOMAIN L)
        /\ Len(Named(reply, seq)) = Len(seq) /\ DOMAIN Named(reply, seq) = DOMAIN seq
    BY <1>1, NamedTyped
  <2>2. Named(reply, seq)[1] = v
    BY <1>2 DEF Named
  <2>3. Named(reply, seq) # <<>> /\ Head(Named(reply, seq)) = v
    <3>1. Len(Named(reply, seq)) # 0
      <4> HIDE DEF v, L
      <4> QED
        BY <1>2, <2>1
    <3> HIDE DEF v, L
    <3>2. Named(reply, seq) # <<>>
      BY <3>1
    <3> QED
      BY <2>1, <2>2, <3>2
  <2>4. Tail(Named(reply, seq)) = [k \in 1..(Len(seq) - 1) |-> Named(reply, seq)[k + 1]]
    <3> DEFINE w == Named(reply, seq)
               X == DOMAIN L
    <3>1. w \in Seq(X) /\ Len(w) = Len(seq) /\ w # <<>>
      BY <2>1, <2>3
    <3> HIDE DEF w, X
    <3>2. Tail(w) = [k \in 1..(Len(w) - 1) |-> w[k + 1]]
      BY <3>1, TailIs
    <3> QED
      BY <3>1, <3>2 DEF w
  <2>5. Named(reply, Tail(seq)) = [k \in 1..(Len(seq) - 1) |-> reply[Tail(seq)[k]].id]
    <3>1. DOMAIN Tail(seq) = 1..(Len(seq) - 1)
      BY <1>2
    <3> QED
      BY <3>1 DEF Named
  <2>6. ASSUME NEW k \in 1..(Len(seq) - 1)
        PROVE  Named(reply, seq)[k + 1] = reply[Tail(seq)[k]].id
    <3>1. k + 1 \in DOMAIN seq
      BY <1>2, <2>6
    <3> QED
      BY <1>2, <2>6, <3>1 DEF Named
  <2> QED
    BY <2>1, <2>3, <2>4, <2>5, <2>6
<1>4. V \in SUBSET DOMAIN L
  <2>1. DOMAIN L = {reply[i].id : i \in DOMAIN reply}
    BY LeavesFacts
  <2> HIDE DEF L
  <2> QED
    BY <1>1, <2>1
<1>5. at \in Stops(L) /\ at[1] = Named(reply, seq) /\ at[2] = V
  BY <1>3, <1>4 DEF Stops, Place
<1>6. /\ v \notin V /\ LeafValid(L[v]) /\ ParentFits(L, L[v])
      /\ walk[Onward(L, at)]
  <2>1. walk[at]
    OBVIOUS
  <2>2. Fits(L, Head(at[1]), at[2]) /\ walk[Onward(L, at)]
    <3> HIDE DEF at, V, L, v
    <3> QED
      BY <1>3, <1>5, <2>1, WalksStep DEF L
  <2> QED
    BY <1>3, <1>5, <2>2 DEF Fits
<1>7. PICK r \in DOMAIN reply : reply[r].id = v /\ Live(reply, r)
  BY <1>2, LeavesFacts
<1> DEFINE then == ChildrenAt(reply, r) \o Tail(seq)
<1>8. /\ ChildrenAt(reply, r) \in Seq(DOMAIN reply)
      /\ L[v].children = Named(reply, ChildrenAt(reply, r))
      /\ \A j \in DOMAIN reply : reply[j].up = r =>
           \E k \in DOMAIN ChildrenAt(reply, r) : ChildrenAt(reply, r)[k] = j
  <2> HIDE DEF v
  <2> QED
    BY <1>7, ChildrenFacts
<1>9. Onward(L, at) = Place(reply, then, T)
  <2>1. Named(reply, then) = L[v].children \o Tail(Named(reply, seq))
    <3>1. Named(reply, then) = Named(reply, ChildrenAt(reply, r)) \o Named(reply, Tail(seq))
      BY <1>2, <1>8, NamedJoins
    <3> HIDE DEF then, v, L
    <3> QED
      BY <1>3, <1>8, <3>1
  <2>2. {reply[i].id : i \in T} = V \cup {v}
    OBVIOUS
  <2> HIDE DEF then, V, v, L, T, at
  <2> QED
    BY <1>3, <1>5, <2>1, <2>2 DEF Onward, Place
<1>10. then \in Seq(DOMAIN reply) /\ T \in SUBSET DOMAIN reply
  BY <1>1, <1>2, <1>8
<1>11. /\ Head(seq) \notin S
       /\ \A i \in S : reply[i].id # v
  BY <1>6
<1>12. \A i, j \in T : reply[i].id = reply[j].id => i = j
  <2>1. \A i, j \in S : reply[i].id = reply[j].id => i = j
    BY DEF Ahead
  <2> QED
    BY <1>11, <2>1
<1>13. \A i \in T : LeafValid(L[reply[i].id]) /\ ParentFits(L, L[reply[i].id])
  <2>1. \A i \in S : LeafValid(L[reply[i].id]) /\ ParentFits(L, L[reply[i].id])
    BY DEF Ahead
  <2> HIDE DEF L
  <2> QED
    BY <1>6, <2>1
<1>14. \A k \in DOMAIN ChildrenAt(reply, r) :
         \E l \in DOMAIN then : then[l] = ChildrenAt(reply, r)[k]
  <2> DEFINE c == ChildrenAt(reply, r)
  <2>1. c \in Seq(DOMAIN reply)
    BY <1>8
  <2> HIDE DEF c
  <2>2. ASSUME NEW k \in DOMAIN c
        PROVE  k \in DOMAIN (c \o Tail(seq)) /\ (c \o Tail(seq))[k] = c[k]
    BY <1>2, <2>1, <2>2
  <2> QED
    BY <2>2 DEF c
<1>15. \A k \in 2..Len(seq) : \E l \in DOMAIN then : then[l] = seq[k]
  <2> DEFINE c == ChildrenAt(reply, r)
  <2>1. c \in Seq(DOMAIN reply)
    BY <1>8
  <2> HIDE DEF c
  <2>2. ASSUME NEW k \in 2..Len(seq)
        PROVE  /\ Len(c) + (k - 1) \in DOMAIN (c \o Tail(seq))
               /\ (c \o Tail(seq))[Len(c) + (k - 1)] = seq[k]
    <3>1. /\ Len(c) \in Nat /\ k - 1 \in 1..Len(Tail(seq)) /\ (k - 1) + 1 = k
          /\ k - 1 \in 1..(Len(seq) - 1)
      BY <1>2, <2>1, <2>2
    <3>2. (c \o Tail(seq))[Len(c) + (k - 1)] = Tail(seq)[k - 1]
      BY <1>2, <2>1, <3>1
    <3>3. Len(c) + (k - 1) \in DOMAIN (c \o Tail(seq))
      BY <1>2, <2>1, <3>1
    <3> QED
      BY <1>2, <3>1, <3>2, <3>3
  <2> QED
    BY <2>2 DEF c
<1>16. ASSUME NEW j \in DOMAIN reply, Due(reply, T, j)
       PROVE  j \in T \/ \E l \in DOMAIN then : then[l] = j
  <2>1. CASE Due(reply, S, j)
    <3>1. j \in S \/ \E k \in DOMAIN seq : seq[k] = j
      BY <2>1 DEF Ahead
    <3>2. ASSUME NEW k \in DOMAIN seq, seq[k] = j
          PROVE  j \in T \/ \E l \in DOMAIN then : then[l] = j
      <4>1. k = 1 \/ k \in 2..Len(seq)
        BY <1>2
      <4> HIDE DEF then
      <4> QED
        BY <1>2, <1>15, <3>2, <4>1
    <3> HIDE DEF then
    <3> QED
      BY <3>1, <3>2
  <2>2. CASE ~ Due(reply, S, j)
    <3>1. /\ Live(reply, reply[j].up) /\ reply[reply[j].up].id = v /\ reply[j].up # 0
      BY <1>16, <2>2 DEF Due
    <3>2. reply[j].up \in DOMAIN reply /\ Len(reply) \in Nat /\ DOMAIN reply = 1..Len(reply)
      <4> HIDE DEF then, T, v
      <4> QED
        BY <3>1 DEF IsTree
    <3>3. reply[j].up <= r /\ r <= reply[j].up
      <4> HIDE DEF then, T, v
      <4> QED
        BY <1>7, <3>1, <3>2 DEF Live
    <3>4. reply[j].up = r
      BY <3>2, <3>3, <1>7
    <3> HIDE DEF then, T, v
    <3> QED
      BY <1>8, <1>14, <3>4
  <2> QED
    BY <2>1, <2>2
<1>17. Ahead(reply, then, T)
  <2> HIDE DEF then, T, v
  <2> QED
    BY <1>10, <1>12, <1>13, <1>16 DEF Ahead
<1>18. S \subseteq T /\ S # T
  BY <1>11
<1> HIDE DEF then, T, L, at
<1> QED
  BY <1>6, <1>9, <1>17, <1>18

\* So it comes to its end, where no place is left to visit.
LEMMA WalkEnds ==
  ASSUME NEW reply, IsTree(reply),
         ValidSubtree(Leaves(reply), reply[Len(reply)].id)
  PROVE  \E S : Ahead(reply, <<>>, S)
<1> DEFINE L == Leaves(reply)
           N == Len(reply)
           walk == WalkOf(L)
           Left(S) == (DOMAIN reply) \ S
           Rest == {R \in SUBSET DOMAIN reply : \E S : R = Left(S) /\ \E seq :
                      Ahead(reply, seq, S) /\ walk[Place(reply, seq, S)]}
<1>1. Walks(walk, L)
  BY LeavesClosed, WalkExists
<1>2. N \in Nat \ {0} /\ DOMAIN reply = 1..N
  BY DEF IsTree
<1>3. Ahead(reply, <<N>>, {}) /\ walk[Place(reply, <<N>>, {})]
  <2>1. <<N>> \in Seq(DOMAIN reply) /\ DOMAIN <<N>> = {1} /\ <<N>>[1] = N
    <3>1. N \in DOMAIN reply
      BY <1>2
    <3> QED
      BY <3>1
  <2>2. \A j \in DOMAIN reply : Due(reply, {}, j) => \E k \in DOMAIN <<N>> : <<N>>[k] = j
    BY <2>1 DEF Due
  <2>3. Ahead(reply, <<N>>, {})
    <3> HIDE DEF N
    <3> QED
      BY <2>1, <2>2 DEF Ahead
  <2>4. Place(reply, <<N>>, {}) = <<<<reply[N].id>>, {}>>
    <3>1. Named(reply, <<N>>) = <<reply[N].id>>
      BY <2>1 DEF Named
    <3> QED
      BY <3>1 DEF Place
  <2>5. walk[<<<<reply[N].id>>, {}>>]
    BY SubtreeIsWalk
  <2> QED
    BY <2>3, <2>4, <2>5
<1>4. PICK R \in Rest : \A Q \in Rest : Q \subseteq R => Q = R
  <2>1. Rest # {}
    <3>1. Left({}) \in Rest
      BY <1>3
    <3> QED
      BY <3>1
  <2>2. IsFiniteSet(DOMAIN reply)
    BY <1>2, FS_Interval
  <2>3. Rest \in SUBSET (SUBSET DOMAIN reply)
    OBVIOUS
  <2> HIDE DEF Rest, Left
  <2> QED
    BY <2>1, <2>2, <2>3, Smallest
<1>5. PICK S : R = Left(S) /\ \E seq : Ahead(reply, seq, S) /\ walk[Place(reply, seq, S)]
  OBVIOUS
<1>6. PICK seq : Ahead(reply, seq, S) /\ walk[Place(reply, seq, S)]
  BY <1>5
<1>7. seq = <<>>
  <2> SUFFICES ASSUME seq # <<>>
               PROVE  FALSE
    OBVIOUS
  <2>1. PICK then : \E T : /\ Ahead(reply, then, T) /\ walk[Place(reply, then, T)]
                           /\ S \subseteq T /\ S # T
    <3> HIDE DEF walk, Rest, Left
    <3> QED
      BY <1>1, <1>6, WalkSettles
  <2>2. PICK T : /\ Ahead(reply, then, T) /\ walk[Place(reply, then, T)]
                 /\ S \subseteq T /\ S # T
    BY <2>1
  <2>3. S \in SUBSET DOMAIN reply /\ T \in SUBSET DOMAIN reply
    BY <1>6, <2>2 DEF Ahead
  <2>4. Left(T) \in Rest
    <3> HIDE DEF walk
    <3> QED
      BY <2>2, <2>3
  <2>5. Left(T) \subseteq R /\ Left(T) # R
    <3> HIDE DEF walk, Rest
    <3> QED
      BY <1>5, <2>2, <2>3
  <2> HIDE DEF Rest, Left
  <2> QED
    BY <1>4, <2>4, <2>5
<1> QED
  BY <1>6, <1>7

\* When it ends from above a place on no node has a later twin, each of them has
\* been visited.
LEMMA AllVisited ==
  ASSUME NEW reply, IsTree(reply), NEW S, Ahead(reply, <<>>, S),
         NEW c \in DOMAIN reply, \A j \in DOMAIN reply : c < j => Live(reply, j)
  PROVE  \A j \in DOMAIN reply : c <= j => j \in S
<1> DEFINE n == Len(reply)
           D == {j \in DOMAIN reply : c <= j /\ j \notin S}
<1>1. n \in Nat \ {0} /\ DOMAIN reply = 1..n
  BY DEF IsTree
<1>2. D \in SUBSET (0..n)
  BY <1>1
<1>3. SUFFICES ASSUME D # {}
               PROVE  FALSE
  OBVIOUS
<1>4. PICK m \in D : \A k \in D : k <= m
  <2> HIDE DEF D
  <2> QED
    BY <1>1, <1>2, <1>3, Greatest
<1>5. m \in DOMAIN reply /\ c <= m /\ m \notin S
  OBVIOUS
<1>6. Due(reply, S, m)
  <2>1. CASE m = n
    BY <2>1 DEF Due
  <2>2. CASE m # n
    <3>1. reply[m].up \in (m + 1)..n
      BY <1>1, <1>5, <2>2 DEF IsTree
    <3>2. /\ reply[m].up \in DOMAIN reply /\ c < reply[m].up /\ ~ (reply[m].up <= m)
          /\ c <= reply[m].up /\ reply[m].up # 0
      <4> HIDE DEF D, n
      <4> QED
        BY <1>1, <1>5, <3>1
    <3>3. reply[m].up \in S
      BY <1>4, <3>2
    <3>4. Live(reply, reply[m].up)
      BY <3>2
    <3> QED
      BY <3>2, <3>3, <3>4 DEF Due
  <2> QED
    BY <2>1, <2>2
<1>7. m \in S \/ \E k \in DOMAIN <<>> : <<>>[k] = m
  <2> HIDE DEF D
  <2> QED
    BY <1>5, <1>6 DEF Ahead
<1> QED
  BY <1>5, <1>7

\* So no node has a twin at all.
LEMMA AllLive ==
  ASSUME NEW reply, IsTree(reply), NEW S, Ahead(reply, <<>>, S)
  PROVE  /\ \A j \in DOMAIN reply : Live(reply, j) /\ j \in S
         /\ \A i, j \in DOMAIN reply : reply[i].id = reply[j].id => i = j
<1> DEFINE n == Len(reply)
           D == {j \in DOMAIN reply : ~ Live(reply, j)}
<1>1. n \in Nat \ {0} /\ DOMAIN reply = 1..n
  BY DEF IsTree
<1>2. D \in SUBSET (0..n)
  BY <1>1
<1>3. D = {}
  <2> SUFFICES ASSUME D # {}
               PROVE  FALSE
    OBVIOUS
  <2>1. PICK c \in D : \A k \in D : k <= c
    <3> HIDE DEF D
    <3> QED
      BY <1>1, <1>2, Greatest
  <2>2. c \in DOMAIN reply /\ ~ Live(reply, c)
    OBVIOUS
  <2>3. \A j \in DOMAIN reply : c < j => Live(reply, j)
    <3> SUFFICES ASSUME NEW j \in DOMAIN reply, c < j, j \in D
                 PROVE  FALSE
      OBVIOUS
    <3>1. j <= c
      BY <2>1
    <3> HIDE DEF D, n
    <3> QED
      BY <1>1, <2>2, <3>1
  <2>4. PICK j \in DOMAIN reply : reply[j].id = reply[c].id /\ ~ (j <= c)
    BY <2>2 DEF Live
  <2>5. c <= c /\ c <= j /\ j # c
    <3> HIDE DEF D, n
    <3> QED
      BY <1>1, <2>2, <2>4
  <2>6. c \in S /\ j \in S
    <3> HIDE DEF D
    <3> QED
      BY <2>2, <2>3, <2>4, <2>5, AllVisited
  <2> HIDE DEF D
  <2> QED
    BY <2>4, <2>5, <2>6 DEF Ahead
<1>4. \A j \in DOMAIN reply : Live(reply, j)
  BY <1>3
<1>5. \A j \in DOMAIN reply : j \in S
  <2>1. 1 \in DOMAIN reply /\ \A j \in DOMAIN reply : 1 <= j
    BY <1>1
  <2> HIDE DEF D
  <2> QED
    BY <1>4, <2>1, AllVisited
<1> HIDE DEF D
<1> QED
  BY <1>4, <1>5 DEF Ahead

\* For every reply that is a tree: what TokenAST.Validate lets pass of the map of
\* leaves (schema.go) has unique ids in the reply itself, each node in the tier of
\* its kind, and the coverage has every node's events.
THEOREM ValidIsLeaflet ==
  ASSUME NEW reply, IsTree(reply), Parses(reply), Valid(Parse(reply))
  PROVE  /\ IsLeaflet(reply)
         /\ \A i \in DOMAIN reply : reply[i].refs \subseteq EventCoverage(Parse(reply))
<1> DEFINE L == Leaves(reply)
<1>1. PICK S : Ahead(reply, <<>>, S)
  <2>1. ValidSubtree(L, reply[Len(reply)].id)
    BY DEF Valid, Parse
  <2> QED
    BY <2>1, WalkEnds
<1>2. /\ \A j \in DOMAIN reply : Live(reply, j) /\ j \in S
      /\ \A i, j \in DOMAIN reply : reply[i].id = reply[j].id => i = j
  BY <1>1, AllLive
<1>3. ASSUME NEW i \in DOMAIN reply
      PROVE  /\ LeafValid(LeafAt(reply, i)) /\ ParentFits(L, LeafAt(reply, i))
             /\ L[reply[i].id] = LeafAt(reply, i) /\ reply[i].id \in DOMAIN L
  <2>1. L[reply[i].id] = LeafAt(reply, i) /\ reply[i].id \in DOMAIN L
    <3>1. DOMAIN L = {reply[j].id : j \in DOMAIN reply}
      BY LeavesFacts
    <3>2. L[reply[i].id] = LeafAt(reply, i)
      BY <1>2, LeavesFacts
    <3> HIDE DEF L
    <3> QED
      BY <3>1, <3>2
  <2>2. LeafValid(L[reply[i].id]) /\ ParentFits(L, L[reply[i].id])
    BY <1>1, <1>2 DEF Ahead
  <2> HIDE DEF L
  <2> QED
    BY <2>1, <2>2
<1> HIDE DEF L
<1>4. ASSUME NEW i \in DOMAIN reply
      PROVE  /\ reply[i].sound
             /\ FibDepth(Level(reply)[i]) = KindDepth[reply[i].kind]
             /\ reply[i].refs \subseteq EventCoverage(Parse(reply))
  <2>1. reply[i].sound /\ FibDepth(Level(reply)[i]) = KindDepth[reply[i].kind]
    BY <1>3 DEF LeafValid, LeafAt
  <2>2. L[reply[i].id].refs = reply[i].refs
    <3>1. LeafAt(reply, i).refs = reply[i].refs
      BY DEF LeafAt
    <3> QED
      BY <1>3, <3>1
  <2>3. Parse(reply).leaves = L
    BY DEF Parse, L
  <2> QED
    BY <1>3, <2>1, <2>2, <2>3 DEF EventCoverage
<1>5. ASSUME NEW i \in DOMAIN reply
      PROVE  Level(reply)[i] < MaxDepth
  <2> DEFINE f == Level(reply)
             u == reply[i].up
  <2>1. f[i] \in Nat /\ f[i] = IF u = 0 THEN 0 ELSE f[u] + 1
    BY LevelFacts
  <2> SUFFICES ASSUME ~ (f[i] < 4)
               PROVE  FALSE
    BY DEF MaxDepth
  <2>2. u # 0
    BY <2>1
  <2>3. u \in DOMAIN reply
    <3>1. Len(reply) \in Nat /\ DOMAIN reply = 1..Len(reply)
      BY DEF IsTree
    <3>2. u \in IF i = Len(reply) THEN {0} ELSE (i + 1)..Len(reply)
      BY DEF IsTree
    <3> HIDE DEF f, u
    <3> QED
      BY <2>2, <3>1, <3>2
  <2>4. f[u] \in Nat
    BY <2>3, LevelFacts
  <2>5. LeafAt(reply, i).parent = reply[u].id /\ LeafAt(reply, i).depth = FibDepth(f[i])
    BY <2>2 DEF LeafAt
  <2>6. reply[u].id # NoParent
    BY <1>4, <2>3 DEF IsTree
  <2>7. L[reply[u].id].depth = FibDepth(f[i]) + 1
    BY <1>3, <2>5, <2>6 DEF ParentFits
  <2>8. L[reply[u].id].depth = FibDepth(f[u])
    <3>1. LeafAt(reply, u).depth = FibDepth(f[u])
      BY DEF LeafAt
    <3> HIDE DEF f, u
    <3> QED
      BY <1>3, <2>3, <3>1
  <2> HIDE DEF f, u
  <2> QED
    BY <2>1, <2>2, <2>4, <2>7, <2>8 DEF FibDepth, MaxDepth
<1>6. ASSUME NEW i \in DOMAIN reply
      PROVE  Level(reply)[i] + KindDepth[reply[i].kind] = MaxDepth - 1
  <2>1. Level(reply)[i] \in Nat /\ Level(reply)[i] < 4
    BY <1>5, LevelFacts DEF MaxDepth
  <2>2. KindDepth[reply[i].kind] = 3 - Level(reply)[i]
    BY <1>4, <2>1 DEF FibDepth, MaxDepth
  <2> QED
    BY <2>1, <2>2 DEF MaxDepth
<1>7. \A i \in DOMAIN reply : reply[i].kind \in LeafKinds
  BY DEF Parses
<1> QED
  BY <1>2, <1>4, <1>6, <1>7 DEF IsLeaflet

-----------------------------------------------------------------------------
(* Chunks *)

\* What Joined's recursive function is.
Joins(f, calls) ==
  f = [n \in 0..Len(calls) |-> IF n = 0 THEN <<>> ELSE f[n - 1] \o calls[n]]

LEMMA JoinedIs ==
  ASSUME NEW calls, Len(calls) \in Nat, NEW u, Joins(u, calls)
  PROVE  Joined(calls) = u[Len(calls)]
<1> DEFINE N == Len(calls)
           f == CHOOSE f : Joins(f, calls)
           D == {m \in 0..N : \A k \in 0..m : f[k] = u[k]}
<1>1. Joined(calls) = f[N] /\ Joins(f, calls)
  BY DEF Joined, Joins
<1> HIDE DEF f
<1>2. f[0] = <<>> /\ u[0] = <<>>
  <2>1. 0 \in 0..N
    OBVIOUS
  <2> QED
    BY <1>1, <2>1 DEF Joins
<1>3. ASSUME NEW n \in 1..N
      PROVE  f[n] = f[n - 1] \o calls[n] /\ u[n] = u[n - 1] \o calls[n]
  <2>1. n \in 0..N /\ n # 0
    OBVIOUS
  <2> QED
    BY <1>1, <2>1 DEF Joins
<1>4. 0 \in D
  <2>1. 0 \in 0..N /\ \A k \in 0..0 : k = 0
    OBVIOUS
  <2> QED
    BY <1>2, <2>1
<1>5. PICK m \in D : \A k \in D : k <= m
  <2>1. D \in SUBSET (0..N) /\ D # {}
    BY <1>4
  <2> HIDE DEF D
  <2> QED
    BY <2>1, Greatest
<1>6. m \in 0..N /\ \A k \in 0..m : f[k] = u[k]
  OBVIOUS
<1>7. m = N
  <2> SUFFICES ASSUME m # N
               PROVE  FALSE
    OBVIOUS
  <2>1. /\ m + 1 \in 1..N /\ m + 1 \in 0..N /\ (m + 1) - 1 = m /\ m \in 0..m
        /\ ~ (m + 1 <= m) /\ \A k \in 0..(m + 1) : k \in 0..m \/ k = m + 1
    <3> HIDE DEF D
    <3> QED
      BY <1>6
  <2>2. f[m] = u[m]
    BY <1>6, <2>1
  <2>3. f[m + 1] = u[m + 1]
    BY <1>3, <2>1, <2>2
  <2>4. m + 1 \in D
    BY <1>6, <2>1, <2>3
  <2> HIDE DEF D
  <2> QED
    BY <1>5, <2>1, <2>4
<1>8. N \in 0..m
  BY <1>7
<1> QED
  BY <1>1, <1>6, <1>8

\* How many chunks there are, and where they end.
LEMMA ChunkEnds ==
  ASSUME NEW n \in Nat, NEW M \in Nat \ {0}, NEW C, C = (n + M - 1) \div M
  PROVE  /\ C \in Nat /\ n <= C * M
         /\ \A c \in 1..C : (c - 1) * M < n /\ (c - 1) * M \in Nat
<1>1. C \in Nat /\ C * M <= n + M - 1 /\ n + M - 1 < C * M + M
  OBVIOUS
<1>2. ASSUME NEW c \in 1..C
      PROVE  (c - 1) * M + M <= C * M /\ (c - 1) * M \in Nat
  <2>1. PICK d \in Nat : C = c + d
    <3>1. C - c \in Nat /\ C = c + (C - c)
      BY <1>1
    <3> QED
      BY <3>1
  <2>2. C * M = (c - 1) * M + M + d * M
    BY <1>1, <2>1
  <2>3. d * M \in Nat /\ (c - 1) * M \in Nat
    BY <1>1
  <2> QED
    BY <2>2, <2>3
<1> QED
  BY <1>1, <1>2

\* The chunks are the events, each once and in order, and none is too large.
LEMMA SplitJoins ==
  ASSUME NEW events \in Seq(Nat)
  PROVE  LET calls == SplitIntoChunks(events)
         IN  /\ Joined(calls) = events
             /\ \A c \in DOMAIN calls : Len(calls[c]) <= MaxChunkEvents
<1> DEFINE n == Len(events)
           M == MaxChunkEvents
           C == (n + M - 1) \div M
           end(c) == IF c * M < n THEN c * M ELSE n
           calls == SplitIntoChunks(events)
           u == [c \in 0..C |-> SubSeq(events, 1, end(c))]
<1>1. n \in Nat /\ M \in Nat \ {0}
  BY ChunkAssumption
<1>2. /\ C \in Nat /\ n <= C * M
      /\ \A c \in 1..C : (c - 1) * M < n /\ (c - 1) * M \in Nat
  <2> HIDE DEF n, M
  <2> QED
    BY <1>1, ChunkEnds
<1>3. calls = [c \in 1..C |-> SubSeq(events, (c - 1) * M + 1, end(c))]
  BY DEF SplitIntoChunks
<1> HIDE DEF n, M, C, calls
<1>4. Len(calls) = C /\ DOMAIN calls = 1..C
  BY <1>2, <1>3
<1>5. ASSUME NEW c \in 1..C
      PROVE  /\ end(c - 1) = (c - 1) * M /\ (c - 1) * M \in 0..n
             /\ end(c) \in (c - 1) * M..n /\ end(c) <= (c - 1) * M + M
  <2>1. c * M = (c - 1) * M + M
    BY <1>1, <1>2
  <2>2. (c - 1) * M < n /\ (c - 1) * M \in Nat
    BY <1>2
  <2> DEFINE a == (c - 1) * M
             b == c * M
  <2>3. a \in Nat /\ a < n /\ b = a + M
    BY <2>1, <2>2
  <2>4. end(c - 1) = a /\ end(c) = IF b < n THEN b ELSE n
    BY <2>2
  <2> HIDE DEF a, b, end
  <2>5. end(c - 1) = a /\ a \in 0..n /\ end(c) \in a..n /\ end(c) <= a + M
    BY <1>1, <2>3, <2>4
  <2> QED
    BY <2>5 DEF a
<1>6. ASSUME NEW c \in 1..C
      PROVE  u[c] = u[c - 1] \o calls[c] /\ Len(calls[c]) <= M
  <2> DEFINE a == (c - 1) * M
             b == end(c)
  <2>1. end(c - 1) = a /\ a \in 0..n /\ b \in a..n /\ b <= a + M
    BY <1>5
  <2>2. c \in 0..C /\ c - 1 \in 0..C
    BY <1>2
  <2>3. u[c] = SubSeq(events, 1, b) /\ u[c - 1] = SubSeq(events, 1, a)
        /\ calls[c] = SubSeq(events, a + 1, b)
    BY <1>3, <2>1, <2>2
  <2> HIDE DEF a, b, end, u
  <2>4. SubSeq(events, 1, a) \o SubSeq(events, a + 1, b) = SubSeq(events, 1, b)
    <3>1. 1 \in 1..(Len(events) + 1) /\ a \in 1 - 1..Len(events) /\ b \in a..Len(events)
      BY <1>1, <2>1 DEF n
    <3> QED
      BY <3>1, ConcatAdjacentSubSeq
  <2>5. Len(SubSeq(events, a + 1, b)) <= M
    <3>1. \A i \in (a + 1)..b : events[i] \in Nat
      BY <1>1, <2>1 DEF n
    <3>2. Len(SubSeq(events, a + 1, b)) = IF a + 1 <= b THEN b - (a + 1) + 1 ELSE 0
      <4>1. a + 1 \in Int /\ b \in Int
        BY <1>1, <2>1
      <4> QED
        BY <3>1, <4>1, SubSeqProperties
    <3> QED
      BY <1>1, <2>1, <3>2
  <2> QED
    BY <2>3, <2>4, <2>5
<1>7. u[0] = <<>>
  <2>1. 0 \in 0..C /\ end(0) = 0
    BY <1>1, <1>2
  <2>2. SubSeq(events, 1, 0) = <<>>
    BY SubSeqEmpty
  <2> HIDE DEF end
  <2> QED
    BY <2>1, <2>2
<1>8. u[C] = events
  <2>1. C \in 0..C /\ end(C) = n
    <3>1. C * M \in Nat
      BY <1>1, <1>2
    <3> QED
      BY <1>1, <1>2, <3>1
  <2>2. SubSeq(events, 1, n) = events
    BY SubSeqFull DEF n
  <2> HIDE DEF end
  <2> QED
    BY <2>1, <2>2
<1>9. Joins(u, calls)
  <2>1. u = [c \in 0..C |-> u[c]]
    OBVIOUS
  <2> HIDE DEF u, end
  <2>2. \A c \in 0..C : u[c] = IF c = 0 THEN <<>> ELSE u[c - 1] \o calls[c]
    <3>1. \A c \in 0..C : c = 0 \/ c \in 1..C
      BY <1>2
    <3> QED
      BY <1>6, <1>7, <3>1
  <2>3. u = [c \in 0..C |-> IF c = 0 THEN <<>> ELSE u[c - 1] \o calls[c]]
    BY <2>1, <2>2
  <2> QED
    BY <1>4, <2>3 DEF Joins
<1> HIDE DEF u, end
<1>10. Joined(calls) = events
  BY <1>2, <1>4, <1>8, <1>9, JoinedIs
<1> QED
  BY <1>4, <1>6, <1>10 DEF calls, M

LEMMA CallsJoin ==
  ASSUME NEW events \in Seq(Nat), NEW big \in BOOLEAN
  PROVE  /\ Joined(Calls(events, big)) = events
         /\ \A c \in DOMAIN Calls(events, big) : Len(Calls(events, big)[c]) <= MaxChunkEvents
<1>1. CASE ~big /\ Len(events) <= MaxChunkEvents
  <2> DEFINE calls == <<events>>
             u == [c \in 0..1 |-> IF c = 0 THEN <<>> ELSE events]
  <2>1. Calls(events, big) = calls
    BY <1>1 DEF Calls
  <2>2. Len(calls) = 1 /\ DOMAIN calls = {1} /\ calls[1] = events
    OBVIOUS
  <2>3. u[0] \o calls[1] = events
    <3>1. <<>> \o events = events
      OBVIOUS
    <3> QED
      BY <2>2, <3>1
  <2>4. Joins(u, calls)
    <3>1. u = [c \in 0..1 |-> u[c]]
      OBVIOUS
    <3>2. u[0] = <<>> /\ u[1] = events
      OBVIOUS
    <3> HIDE DEF u
    <3>3. \A c \in 0..1 : u[c] = IF c = 0 THEN <<>> ELSE u[c - 1] \o calls[c]
      <4>1. \A c \in 0..1 : c = 0 \/ (c = 1 /\ c - 1 = 0)
        OBVIOUS
      <4> HIDE DEF calls
      <4> QED
        BY <2>3, <3>2, <4>1
    <3>4. u = [c \in 0..1 |-> IF c = 0 THEN <<>> ELSE u[c - 1] \o calls[c]]
      BY <3>1, <3>3
    <3> HIDE DEF calls
    <3> QED
      BY <2>2, <3>4 DEF Joins
  <2>5. u[1] = events
    OBVIOUS
  <2>6. Joined(calls) = events
    <3>1. Len(calls) \in Nat /\ u[Len(calls)] = events
      BY <2>2, <2>5
    <3> HIDE DEF u, calls
    <3> QED
      BY <2>4, <3>1, JoinedIs
  <2> QED
    BY <1>1, <2>1, <2>2, <2>6
<1>2. CASE ~ (~big /\ Len(events) <= MaxChunkEvents)
  <2>1. Calls(events, big) = SplitIntoChunks(events)
    BY <1>2 DEF Calls
  <2> QED
    BY <2>1, SplitJoins
<1> QED
  BY <1>1, <1>2

-----------------------------------------------------------------------------
(* The tree that is stored *)

\* What the pass holds: the events it is about, the chunks of them, and from
\* validation on a reply that passed it.
InputHeld ==
  /\ input = [events |-> input.events, calls |-> input.calls]
  /\ input.events \in Seq(Nat)
  /\ pc \in {"call", "merge", "blob", "ast", "complete"} =>
       \E big \in BOOLEAN : input.calls = Calls(input.events, big)

TreeHeld ==
  pc \in {"blob", "ast", "complete"} =>
    /\ pass.reply \in Replies
    /\ Parses(pass.reply) /\ Valid(Parse(pass.reply))
    /\ EventCoverage(Parse(pass.reply)) \subseteq pass.covered

WholeInv == InputHeld /\ TreeHeld

LEMMA EventsOfTyped ==
  ASSUME spine \in Seq(Events), NEW b
  PROVE  EventsOf(b) \in Seq(Nat)
<1> DEFINE P == {i \in DOMAIN spine : spine[i].branch = b}
<1>1. Len(spine) \in Nat /\ DOMAIN spine = 1..Len(spine)
  OBVIOUS
<1>2. P \in SUBSET (1..Len(spine))
  BY <1>1
<1>3. \A i \in 1..Len(spine) : i \in Nat
  BY <1>1
<1>4. EventsOf(b) = InOrder(P)
  BY DEF EventsOf
<1> HIDE DEF P
<1>5. InOrder(P) \in Seq(P)
  BY <1>1, <1>2, InOrderFacts
<1>6. \A i \in P : i \in Nat
  BY <1>2, <1>3
<1> DEFINE w == InOrder(P)
<1>7. w \in Seq(P)
  BY <1>5
<1> HIDE DEF w
<1>8. \A k \in 1..Len(w) : w[k] \in Nat
  BY <1>6, <1>7
<1>9. w \in Seq(Nat)
  BY <1>7, <1>8
<1> QED
  BY <1>4, <1>9 DEF w

LEMMA NextKeepsWhole == AllInv /\ WholeInv /\ [Next]_vars => WholeInv'
<1> SUFFICES ASSUME AllInv, WholeInv, [Next]_vars
             PROVE  WholeInv'
  OBVIOUS
<1>1. TypeOK /\ PassUnderWay
  BY DEF AllInv, CompactionInv
<1>2. pc \notin {"idle", "answered"} => pass \in Passes
  BY <1>1 DEF TypeOK, PassUnderWay
<1>3. InputHeld /\ TreeHeld
  BY DEF WholeInv
<1>4. ASSUME input' = input, pc' \notin {"call", "merge", "blob", "ast", "complete"}
      PROVE  WholeInv'
  BY <1>3, <1>4 DEF WholeInv, InputHeld, TreeHeld
<1>5. ASSUME UNCHANGED <<input, pass>>,
             \/ pc' = pc
             \/ pc \in {"blob", "ast"} /\ pc' \in {"ast", "complete"}
      PROVE  WholeInv'
  BY <1>3, <1>5 DEF WholeInv, InputHeld, TreeHeld, Calls, SplitIntoChunks
<1>6. ASSUME input' = NoInput, pc' = "idle"
      PROVE  WholeInv'
  BY <1>6 DEF WholeInv, InputHeld, TreeHeld, NoInput
<1>7. CASE UNCHANGED vars
  BY <1>5, <1>7 DEF vars
<1>8. ASSUME NEW b \in Branches, NEW ratio \in Ratios,
             TurnAnswers(b, ratio) \/ TurnFails(b, ratio)
      PROVE  WholeInv'
  BY <1>4, <1>5, <1>8 DEF TurnAnswers, TurnFails, Goto
<1>9. ASSUME NEW b \in Branches, OtherAppends(b)
      PROVE  WholeInv'
  BY <1>5, <1>9 DEF OtherAppends
<1>10. ASSUME NEW listed \in BOOLEAN, RecordTurnAndMaybeCompact(listed)
       PROVE  WholeInv'
  <2>1. CASE pc' = "idle" /\ input' = input
    BY <1>4, <2>1
  <2>2. CASE pc' = "request" /\ input' = [NoInput EXCEPT !.events = Listed(listed)]
    <3>1. Listed(listed) \in Seq(Nat)
      BY <1>1, EventsOfTyped DEF Listed, TypeOK
    <3>2. input' = [events |-> Listed(listed), calls |-> <<>>]
      BY <2>2 DEF NoInput
    <3>3. input'.events = Listed(listed) /\ input'.calls = <<>>
      BY <3>2
    <3> QED
      BY <2>2, <3>1, <3>2, <3>3 DEF WholeInv, InputHeld, TreeHeld
  <2> QED
    BY <1>10, <2>1, <2>2 DEF RecordTurnAndMaybeCompact
<1>11. CASE RequestRefused \/ RecordFailure \/ RecordComplete
  BY <1>6, <1>11 DEF RequestRefused, RecordFailure, RecordComplete, Concluded, Goto
<1>12. CASE RequestRecorded \/ CallFails \/ MergeFails
  BY <1>4, <1>12 DEF RequestRecorded, CallFails, MergeFails, Goto
<1>13. ASSUME NEW big \in BOOLEAN, BeginPass(big)
       PROVE  WholeInv'
  <2>1. CASE pc' = "failed" /\ input' = input
    BY <1>4, <2>1
  <2>2. CASE pc' = "call" /\ input' = [input EXCEPT !.calls = Calls(input.events, big)]
    <3> DEFINE c == Calls(input.events, big)
               e == input.events
    <3>1. e \in Seq(Nat) /\ input = [events |-> e, calls |-> input.calls]
      BY <1>3 DEF InputHeld
    <3>2. input' = [input EXCEPT !.calls = c]
      BY <2>2
    <3> HIDE DEF c
    <3>3. input' = [events |-> e, calls |-> c]
      BY <3>1, <3>2
    <3>4. input'.events = e /\ input'.calls = c
      BY <3>3
    <3>5. input'.calls = Calls(e, big)
      BY <3>4 DEF c
    <3> HIDE DEF e
    <3>6. InputHeld'
      BY <3>1, <3>3, <3>4, <3>5 DEF InputHeld, Calls, SplitIntoChunks
    <3> QED
      BY <2>2, <3>6 DEF WholeInv, TreeHeld
  <2> QED
    BY <1>13, <2>1, <2>2 DEF BeginPass
<1>14. ASSUME NEW reply \in Replies, ChunkReply(reply) \/ MergeReply(reply)
       PROVE  WholeInv'
  <2>1. pc \in {"call", "merge"} /\ input' = input
    BY <1>14 DEF ChunkReply, MergeReply
  <2>2. InputHeld'
    BY <1>3, <2>1 DEF InputHeld, Calls, SplitIntoChunks
  <2>3. pc' \in {"failed", "merge", "call"} \/ (Parses(reply) /\ pc' = "blob" /\ Validated(reply))
    BY <1>14 DEF ChunkReply, MergeReply, Validated
  <2>4. CASE pc' \in {"failed", "merge", "call"}
    BY <2>2, <2>4 DEF WholeInv, TreeHeld
  <2>5. CASE Parses(reply) /\ pc' = "blob" /\ Validated(reply)
    <3>1. Valid(Parse(reply)) /\ pass' = [pass EXCEPT !.reply = reply, !.covered = Covering(reply)]
      BY <2>5 DEF Validated
    <3>2. pass \in Passes
      BY <1>2, <2>1
    <3>3. pass'.reply = reply /\ pass'.covered = Covering(reply)
      BY <3>1, <3>2 DEF Passes
    <3>4. EventCoverage(Parse(reply)) \subseteq Covering(reply)
      BY DEF Covering
    <3> QED
      BY <2>2, <2>5, <3>1, <3>3, <3>4 DEF WholeInv, TreeHeld
  <2> QED
    BY <2>3, <2>4, <2>5
<1>15. CASE StoreTree \/ RecordTree
  BY <1>5, <1>15 DEF StoreTree, RecordTree, Goto
<1> QED
  BY <1>7, <1>8, <1>9, <1>10, <1>11, <1>12, <1>13, <1>14, <1>15 DEF Next, Hook

LEMMA WholeInvIsWhole == WholeInv => ValidatedIsWhole
<1> SUFFICES ASSUME WholeInv, pc \in {"blob", "ast", "complete"}
             PROVE  /\ IsLeaflet(pass.reply)
                    /\ \A i \in DOMAIN pass.reply : pass.reply[i].refs \subseteq pass.covered
                    /\ Joined(input.calls) = input.events
                    /\ \A c \in DOMAIN input.calls : Len(input.calls[c]) <= MaxChunkEvents
  BY DEF ValidatedIsWhole
<1>1. /\ pass.reply \in Replies /\ Parses(pass.reply) /\ Valid(Parse(pass.reply))
      /\ EventCoverage(Parse(pass.reply)) \subseteq pass.covered
  BY DEF WholeInv, TreeHeld
<1>2. IsTree(pass.reply)
  BY <1>1, RepliesAssumption
<1>3. PICK big \in BOOLEAN : input.calls = Calls(input.events, big)
  BY DEF WholeInv, InputHeld
<1>4. input.events \in Seq(Nat)
  BY DEF WholeInv, InputHeld
<1>5. /\ IsLeaflet(pass.reply)
      /\ \A i \in DOMAIN pass.reply : pass.reply[i].refs \subseteq EventCoverage(Parse(pass.reply))
  BY <1>1, <1>2, ValidIsLeaflet
<1> QED
  BY <1>1, <1>3, <1>4, <1>5, CallsJoin

-----------------------------------------------------------------------------
(* Theorems *)

\* The invariants hold together, whatever the turns, the schedule and the replies
\* (session.go's recordTurnAndMaybeCompact and runCompaction over scheduler.go).
THEOREM SpecKeepsAllInv == Spec => []AllInv
<1>1. Init => AllInv
  BY InitAllInv
<1>2. AllInv /\ [Next]_vars => AllInv'
  BY NextKeepsAllInv
<1> QED
  BY <1>1, <1>2, PTL DEF Spec

\* Whatever the schedule, the replies and the failures, the scheduler's counters
\* agree with the passes begun (scheduler.go and session.go's runCompaction).
THEOREM CompactionInvariant == Spec => []CompactionInv
<1>1. AllInv => CompactionInv
  BY DEF AllInv
<1> QED
  BY <1>1, SpecKeepsAllInv, PTL

\* For any cooldown: after a compaction none is begun for so many turns
\* (scheduler.go:25).
THEOREM CooldownIsKept == Spec => []CooldownHolds
<1>1. AllInv => CooldownHolds
  BY DEF AllInv
<1> QED
  BY <1>1, SpecKeepsAllInv, PTL

\* For any schedule: a pass due by turns that came to nothing is begun again by
\* the next answered turn (PLANS.md:568).
THEOREM FailedIsRetried == Spec => []RetriedAtOnce
<1>1. AllInv => RetriedAtOnce
  BY DEF AllInv
<1> QED
  BY <1>1, SpecKeepsAllInv, PTL

\* For any replies that are trees: what validation lets pass has every node of
\* the reply in the tier of its kind, its events covered, and it was asked for
\* with each event of the branch once, in order, in chunks that are not too
\* large (schema.go's Validate over flattenGeminiNode, compactor.go's
\* splitIntoChunks).
THEOREM StoredTreeIsWhole == Spec => []ValidatedIsWhole
<1>1. Init => WholeInv
  BY DEF Init, NoInput, WholeInv, InputHeld, TreeHeld
<1>2. AllInv /\ WholeInv /\ [Next]_vars => WholeInv'
  BY NextKeepsWhole
<1>3. WholeInv => ValidatedIsWhole
  BY WholeInvIsWhole
<1> QED
  BY <1>1, <1>2, <1>3, SpecKeepsAllInv, PTL DEF Spec

=============================================================================

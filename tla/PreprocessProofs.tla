-------------------------- MODULE PreprocessProofs --------------------------
(***************************************************************************)
(* The preprocessing sidecar for any number of jobs and workers and any    *)
(* channel: no accepted job is lost or done twice, Stop drains, and what   *)
(* is recorded was counted as a success.                                   *)
(***************************************************************************)
EXTENDS PreprocessDaemon, SequenceTheorems, FiniteSetTheorems, TLAPS

Entries == [job : Jobs, ok : BOOLEAN]

-----------------------------------------------------------------------------
(* Sequences *)

\* What Append adds, by index.
LEMMA AppendIndices ==
  ASSUME NEW S, NEW s \in Seq(S), NEW e \in S
  PROVE  /\ Append(s, e) \in Seq(S)
         /\ Len(s) \in Nat /\ DOMAIN s = 1..Len(s)
         /\ DOMAIN Append(s, e) = DOMAIN s \cup {Len(s) + 1}
         /\ Len(s) + 1 \notin DOMAIN s
         /\ \A i \in DOMAIN s : Append(s, e)[i] = s[i]
         /\ Append(s, e)[Len(s) + 1] = e
         /\ Append(s, e) # <<>>
  OBVIOUS

\* What Tail leaves, by index.
LEMMA TailIndices ==
  ASSUME NEW S, NEW s \in Seq(S), s # <<>>
  PROVE  /\ Tail(s) \in Seq(S) /\ Head(s) \in S /\ Head(s) = s[1]
         /\ DOMAIN s = 1..Len(s) /\ Len(s) \in Nat \ {0}
         /\ DOMAIN Tail(s) = 1..(Len(s) - 1)
         /\ \A i \in DOMAIN Tail(s) : i + 1 \in DOMAIN s /\ Tail(s)[i] = s[i + 1]
<1>1. /\ Tail(s) \in Seq(S) /\ Head(s) \in S /\ Len(Tail(s)) = Len(s) - 1
      /\ \A i \in 1..Len(Tail(s)) : Tail(s)[i] = s[i + 1]
  BY HeadTailProperties
<1>2. Len(s) \in Nat \ {0} /\ DOMAIN s = 1..Len(s)
  BY EmptySeq, LenProperties
<1>3. DOMAIN Tail(s) = 1..(Len(s) - 1)
  BY <1>1, LenProperties
<1>4. Head(s) = s[1]
  OBVIOUS
<1> QED
  BY <1>1, <1>2, <1>3, <1>4

LEMMA EmptyIndices ==
  ASSUME NEW S
  PROVE  <<>> \in Seq(S) /\ DOMAIN <<>> = {} /\ Len(<<>>) = 0
  BY EmptySeq

-----------------------------------------------------------------------------
(* Types and the course of Stop *)

LEMMA StepKeepsTypes == TypeOK /\ Lifecycle /\ [Next]_vars => TypeOK'
<1> SUFFICES ASSUME TypeOK, Lifecycle, [Next]_vars
             PROVE  TypeOK'
  OBVIOUS
<1> USE DEF TypeOK, WorkerSteps, SubmitSteps, StopSteps
<1>0. \A w \in Workers : worker[w] \in {"working", "recording"} => job[w] \in Jobs
  BY DEF Lifecycle
<1>1. CASE UNCHANGED vars
  BY <1>1 DEF vars
<1>2. CASE Start
  BY <1>2 DEF Start
<1>6. CASE Stop
  BY <1>6 DEF Stop, StopFlags, StopCloses, StopReturns
<1>3. ASSUME NEW j \in Jobs, Submit(j)
      PROVE  TypeOK'
  <2>1. submit' \in [Jobs -> SubmitSteps]
    BY <1>3 DEF Submit, SubmitChecks, SubmitSends, SubmitPanics
  <2>2. queue' \in Seq(Jobs)
    <3>1. queue' = queue \/ queue' = Append(queue, j)
      BY <1>3 DEF Submit, SubmitChecks, SubmitSends, SubmitPanics
    <3>2. Append(queue, j) \in Seq(Jobs)
      BY AppendIndices
    <3> QED
      BY <3>1, <3>2
  <2>3. UNCHANGED <<running, closed, worker, job, results, okCount, errCount, spine, stop>>
    BY <1>3 DEF Submit, SubmitChecks, SubmitSends, SubmitPanics
  <2> QED
    BY <2>1, <2>2, <2>3
<1>4. ASSUME NEW w \in Workers, Take(w) \/ Exit(w) \/ Record(w)
      PROVE  TypeOK'
  <2>1. CASE Take(w)
    BY <2>1, TailIndices DEF Take
  <2>2. CASE Exit(w)
    BY <2>2 DEF Exit
  <2>3. CASE Record(w)
    <3>1. spine' \in SUBSET Jobs
      BY <1>0, <2>3 DEF Record
    <3> QED
      BY <2>3, <3>1 DEF Record
  <2> QED
    BY <1>4, <2>1, <2>2, <2>3
<1>5. ASSUME NEW w \in Workers, Fail(w) \/ Succeed(w)
      PROVE  TypeOK'
  <2>1. job[w] \in Jobs
    BY <1>0, <1>5 DEF Fail, Succeed
  <2>2. results \in Seq(Entries)
    BY DEF Entries
  <2>3. PICK ok \in BOOLEAN : results' = Append(results, [job |-> job[w], ok |-> ok])
    BY <1>5 DEF Fail, Succeed
  <2>4. [job |-> job[w], ok |-> ok] \in Entries
    BY <2>1 DEF Entries
  <2>5. results' \in Seq(Entries)
    BY <2>2, <2>3, <2>4, AppendIndices
  <2>6. okCount' \in Nat /\ errCount' \in Nat
    <3>1. okCount' = okCount \/ okCount' = okCount + 1
      BY <1>5 DEF Fail, Succeed
    <3>2. errCount' = errCount \/ errCount' = errCount + 1
      BY <1>5 DEF Fail, Succeed
    <3>3. okCount \in Nat /\ errCount \in Nat
      OBVIOUS
    <3> HIDE DEF TypeOK
    <3> QED
      BY <3>1, <3>2, <3>3
  <2>7. UNCHANGED <<running, queue, closed, submit, spine, stop>>
    BY <1>5 DEF Fail, Succeed
  <2>8. /\ worker' \in [Workers -> WorkerSteps]
        /\ job' \in [Workers -> Jobs \cup {None}]
    <3>1. /\ \E to \in WorkerSteps : worker' = [worker EXCEPT ![w] = to]
          /\ job' = job \/ job' = [job EXCEPT ![w] = None]
      BY <1>5 DEF Fail, Succeed
    <3> QED
      BY <3>1
  <2> QED
    BY <2>5, <2>6, <2>7, <2>8 DEF Entries
<1> QED
  BY <1>1, <1>2, <1>3, <1>4, <1>5, <1>6 DEF Next, Work

\* Nothing is sent once the channel is closed, so it stays empty for those who
\* have left.
LEMMA StepKeepsLifecycle == TypeOK /\ Lifecycle /\ [Next]_vars => Lifecycle'
<1> SUFFICES ASSUME TypeOK, Lifecycle, [Next]_vars
             PROVE  Lifecycle'
  OBVIOUS
<1> USE NoneAssumption DEF TypeOK, Lifecycle
<1>1. CASE UNCHANGED vars
  BY <1>1 DEF vars
<1>2. CASE Start
  BY <1>2 DEF Start
<1>3. CASE StopFlags
  BY <1>3 DEF StopFlags
<1>4. CASE StopCloses
  BY <1>4 DEF StopCloses
<1>5. CASE StopReturns
  BY <1>5 DEF StopReturns
<1>6. ASSUME NEW j \in Jobs, Submit(j)
      PROVE  Lifecycle'
  <2>1. \A w \in Workers : worker[w] = "exited" => UNCHANGED queue
    BY <1>6 DEF Submit, SubmitChecks, SubmitSends, SubmitPanics
  <2>2. UNCHANGED <<running, closed, worker, job, stop>>
    BY <1>6 DEF Submit, SubmitChecks, SubmitSends, SubmitPanics
  <2> QED
    BY <2>1, <2>2
<1>7. ASSUME NEW w \in Workers, Take(w)
      PROVE  Lifecycle'
  BY <1>7, TailIndices DEF Take
<1>8. ASSUME NEW w \in Workers, Exit(w)
      PROVE  Lifecycle'
  BY <1>8 DEF Exit
<1>9. ASSUME NEW w \in Workers, Fail(w) \/ Succeed(w) \/ Record(w)
      PROVE  Lifecycle'
  <2>1. /\ UNCHANGED <<running, closed, queue, stop>>
        /\ \A v \in Workers \ {w} : worker'[v] = worker[v] /\ job'[v] = job[v]
        /\ worker[w] \in {"working", "recording"} /\ job[w] # None
        /\ \/ worker'[w] = "idle" /\ job'[w] = None
           \/ worker'[w] = "recording" /\ job'[w] = job[w]
    <3>1. CASE Fail(w)
      BY <3>1 DEF Fail
    <3>2. CASE Succeed(w)
      BY <3>2 DEF Succeed
    <3>3. CASE Record(w)
      BY <3>3 DEF Record
    <3> QED
      BY <1>9, <3>1, <3>2, <3>3
  <2> QED
    BY <2>1
<1> QED
  BY <1>1, <1>2, <1>3, <1>4, <1>5, <1>6, <1>7, <1>8, <1>9 DEF Next, Stop, Work

-----------------------------------------------------------------------------
(* Every accepted job in one place *)

LEMMA SubmitKeepsJobsExact ==
  ASSUME DaemonInv, NEW j \in Jobs, Submit(j)
  PROVE  JobsExact'
<1> USE DEF DaemonInv, TypeOK
<1>1. CASE UNCHANGED queue
  <2>1. \A k \in Jobs : submit'[k] = "accepted" <=> submit[k] = "accepted"
    BY <1>1, AppendIndices DEF Submit, SubmitChecks, SubmitSends, SubmitPanics
  <2> QED
    BY <1>1, <2>1 DEF Submit, SubmitChecks, SubmitSends, SubmitPanics, JobsExact,
                      Waiting, InHand, Settled
<1>2. CASE queue' # queue
  <2>1. /\ submit[j] = "sending" /\ submit' = [submit EXCEPT ![j] = "accepted"]
        /\ queue' = Append(queue, j) /\ UNCHANGED <<worker, job, results>>
    BY <1>2 DEF Submit, SubmitChecks, SubmitSends, SubmitPanics
  <2>2. ~Waiting(j) /\ ~InHand(j) /\ ~Settled(j)
    BY <2>1 DEF JobsExact
  <2>3. \A k \in Jobs : Waiting(k)' <=> Waiting(k) \/ k = j
    BY <2>1, AppendIndices DEF Waiting
  <2>4. \A k \in Jobs : /\ InHand(k)' <=> InHand(k)
                        /\ Settled(k)' <=> Settled(k)
                        /\ submit'[k] = "accepted" <=> submit[k] = "accepted" \/ k = j
    BY <2>1 DEF InHand, Settled
  <2>5. \A i, k \in DOMAIN queue' : queue'[i] = queue'[k] => i = k
    BY <2>1, <2>2, AppendIndices DEF JobsExact, Waiting
  <2> QED
    BY <2>1, <2>2, <2>3, <2>4, <2>5 DEF JobsExact
<1> QED
  BY <1>1, <1>2

LEMMA TakeKeepsJobsExact ==
  ASSUME DaemonInv, NEW w \in Workers, Take(w)
  PROVE  JobsExact'
<1> USE DEF DaemonInv, TypeOK
<1> DEFINE h == Head(queue)
<1>1. /\ worker[w] = "idle" /\ queue # <<>>
      /\ worker' = [worker EXCEPT ![w] = "working"]
      /\ job' = [job EXCEPT ![w] = h]
      /\ queue' = Tail(queue) /\ UNCHANGED <<submit, results>>
  BY DEF Take
<1>2. h \in Jobs /\ h = queue[1] /\ 1 \in DOMAIN queue
  BY <1>1, TailIndices
<1>3. Waiting(h) /\ ~InHand(h) /\ ~Settled(h)
  BY <1>2 DEF JobsExact, Waiting
<1> HIDE DEF h
<1>4. \A i, k \in DOMAIN queue' : queue'[i] = queue'[k] => i = k
  BY <1>1, TailIndices DEF JobsExact
<1>5. \A k \in Jobs : Waiting(k)' <=> Waiting(k) /\ k # h
  <2>1. ASSUME NEW k \in Jobs, NEW i \in DOMAIN queue', queue'[i] = k
        PROVE  Waiting(k) /\ k # h
    <3>1. i + 1 \in DOMAIN queue /\ queue[i + 1] = k /\ i + 1 # 1
      BY <1>1, <2>1, TailIndices
    <3> QED
      BY <1>2, <3>1 DEF Waiting, JobsExact
  <2>2. ASSUME NEW k \in Jobs, k # h, NEW i \in DOMAIN queue, queue[i] = k
        PROVE  Waiting(k)'
    <3>1. i # 1
      BY <1>2, <2>2
    <3>2. i - 1 \in DOMAIN queue' /\ queue'[i - 1] = queue[i]
      <4>1. i - 1 \in DOMAIN Tail(queue) /\ (i - 1) + 1 = i
        BY <1>1, <2>2, <3>1, TailIndices
      <4> QED
        BY <1>1, <4>1, TailIndices
    <3> QED
      BY <2>2, <3>2 DEF Waiting
  <2> QED
    BY <2>1, <2>2 DEF Waiting
<1>6. \A k \in Jobs : InHand(k)' <=> InHand(k) \/ k = h
  BY <1>1 DEF InHand
<1>7. \A u, v \in Workers :
        worker'[u] = "working" /\ worker'[v] = "working" /\ job'[u] = job'[v] => u = v
  BY <1>1, <1>3 DEF JobsExact, InHand
<1>8. \A k \in Jobs : Settled(k)' <=> Settled(k)
  BY <1>1 DEF Settled
<1> QED
  BY <1>1, <1>2, <1>3, <1>4, <1>5, <1>6, <1>7, <1>8 DEF JobsExact

\* Fail and Succeed move the job from the worker's hands to the results.
LEMMA SettleKeepsJobsExact ==
  ASSUME DaemonInv, NEW w \in Workers, Fail(w) \/ Succeed(w)
  PROVE  JobsExact'
<1> USE DEF DaemonInv, TypeOK
<1> DEFINE h == job[w]
<1>1. PICK ok \in BOOLEAN :
        /\ results' = Append(results, [job |-> h, ok |-> ok])
        /\ worker[w] = "working" /\ worker'[w] # "working"
        /\ \A v \in Workers \ {w} : worker'[v] = worker[v] /\ job'[v] = job[v]
        /\ UNCHANGED <<queue, submit>>
  BY DEF Fail, Succeed
<1>2. h \in Jobs
  BY <1>1 DEF Lifecycle
<1>3. InHand(h) /\ ~Waiting(h) /\ ~Settled(h)
  BY <1>1, <1>2 DEF JobsExact, InHand
<1>4. [job |-> h, ok |-> ok] \in Entries
  BY <1>2 DEF Entries
<1>5. results \in Seq(Entries)
  BY DEF Entries
<1>6. \A k \in Jobs : Settled(k)' <=> Settled(k) \/ k = h
  <2> HIDE DEF h
  <2> QED
    BY <1>1, <1>4, <1>5, AppendIndices DEF Settled
<1>7. \A i, k \in DOMAIN results' : results'[i].job = results'[k].job => i = k
  <2> HIDE DEF h
  <2>1. \A i \in DOMAIN results : results[i].job # h
    BY <1>3 DEF Settled
  <2> QED
    BY <1>1, <1>4, <1>5, <2>1, AppendIndices DEF JobsExact
<1>8. \A k \in Jobs : InHand(k)' <=> InHand(k) /\ k # h
  BY <1>1 DEF InHand, JobsExact
<1>9. \A u, v \in Workers :
        worker'[u] = "working" /\ worker'[v] = "working" /\ job'[u] = job'[v] => u = v
  BY <1>1 DEF JobsExact
<1>10. \A k \in Jobs : Waiting(k)' <=> Waiting(k)
  BY <1>1 DEF Waiting
<1> HIDE DEF h
<1> QED
  BY <1>1, <1>2, <1>3, <1>6, <1>7, <1>8, <1>9, <1>10 DEF JobsExact

LEMMA StepKeepsJobsExact == DaemonInv /\ [Next]_vars => JobsExact'
<1> SUFFICES ASSUME DaemonInv, [Next]_vars
             PROVE  JobsExact'
  OBVIOUS
<1>1. ASSUME UNCHANGED <<queue, submit, results>>,
             \A w \in Workers : /\ worker'[w] = "working" <=> worker[w] = "working"
                                /\ worker[w] = "working" => job'[w] = job[w]
      PROVE  JobsExact'
  BY <1>1 DEF DaemonInv, JobsExact, Waiting, InHand, Settled
<1>2. CASE UNCHANGED vars
  BY <1>1, <1>2 DEF vars
<1>3. CASE Stop
  BY <1>1, <1>3 DEF Stop, StopFlags, StopCloses, StopReturns
<1>4. CASE Start
  BY <1>1, <1>4 DEF Start, DaemonInv, Lifecycle
<1>5. ASSUME NEW w \in Workers, Exit(w) \/ Record(w)
      PROVE  JobsExact'
  BY <1>1, <1>5 DEF Exit, Record, DaemonInv, TypeOK
<1> QED
  BY <1>2, <1>3, <1>4, <1>5, SubmitKeepsJobsExact, TakeKeepsJobsExact,
     SettleKeepsJobsExact DEF Next, Work

-----------------------------------------------------------------------------
(* What is counted and recorded *)

Oks == {i \in DOMAIN results : results[i].ok}

LEMMA OksFinite == TypeOK => IsFiniteSet(Oks) /\ Cardinality(Oks) \in Nat
<1> SUFFICES ASSUME TypeOK
             PROVE  IsFiniteSet(Oks)
  BY FS_CardinalityType
<1>1. DOMAIN results = 1..Len(results) /\ Len(results) \in Nat
  BY DEF TypeOK
<1>2. IsFiniteSet(1..Len(results))
  BY <1>1, FS_Interval
<1> QED
  BY <1>1, <1>2, FS_Subset DEF Oks

LEMMA SettleKeepsRecords ==
  ASSUME DaemonInv, NEW w \in Workers, NEW ok \in BOOLEAN,
         IF ok THEN Succeed(w) ELSE Fail(w)
  PROVE  RecordsCounted' /\ ExtractsSucceeded'
<1> USE DEF DaemonInv, TypeOK
<1> DEFINE e == [job |-> job[w], ok |-> ok]
           n == Len(results) + 1
<1>1. /\ results' = Append(results, e) /\ worker[w] = "working"
      /\ UNCHANGED spine
      /\ \A v \in Workers \ {w} : worker'[v] = worker[v] /\ job'[v] = job[v]
      /\ worker'[w] = "recording" => ok /\ job'[w] = job[w]
      /\ okCount' = IF ok THEN okCount + 1 ELSE okCount
      /\ errCount' = IF ok THEN errCount ELSE errCount + 1
  BY DEF Fail, Succeed
<1>2. e \in Entries
  BY <1>1 DEF Lifecycle, Entries
<1>3. results \in Seq(Entries)
  BY DEF Entries
<1> HIDE DEF e
<1>4. /\ DOMAIN results' = DOMAIN results \cup {n} /\ n \notin DOMAIN results
      /\ \A i \in DOMAIN results : results'[i] = results[i]
      /\ results'[n] = e /\ Len(results') = n /\ Len(results) \in Nat
  BY <1>1, <1>2, <1>3, AppendIndices
<1> HIDE DEF n
<1>5. RecordsCounted'
  BY <1>1, <1>4 DEF RecordsCounted, e
<1>6. \A j \in spine' : \E i \in DOMAIN results' : results'[i].job = j /\ results'[i].ok
  <2>1. \A j \in spine : \E i \in DOMAIN results : results[i].job = j /\ results[i].ok
    BY DEF ExtractsSucceeded
  <2> HIDE DEF DaemonInv, TypeOK
  <2>2. spine' = spine /\ DOMAIN results \subseteq DOMAIN results'
    BY <1>1, <1>4
  <2> QED
    BY <1>4, <2>1, <2>2
<1>7. Oks' = IF ok THEN Oks \cup {n} ELSE Oks
  BY <1>4 DEF Oks, e
<1>8. okCount' = Cardinality(Oks')
  <2>1. okCount = Cardinality(Oks)
    BY DEF ExtractsSucceeded, Oks
  <2>2. n \notin Oks
    BY <1>4 DEF Oks
  <2> QED
    BY <1>1, <1>7, <2>1, <2>2, OksFinite, FS_AddElement
<1>9. okCount' + errCount' = Len(results')
  BY <1>1, <1>4 DEF ExtractsSucceeded, n
<1> QED
  BY <1>5, <1>6, <1>8, <1>9 DEF ExtractsSucceeded, Oks

LEMMA StepKeepsRecords ==
  DaemonInv /\ [Next]_vars => RecordsCounted' /\ ExtractsSucceeded'
<1> SUFFICES ASSUME DaemonInv, [Next]_vars
             PROVE  RecordsCounted' /\ ExtractsSucceeded'
  OBVIOUS
<1> USE DEF DaemonInv, TypeOK
<1>1. ASSUME UNCHANGED <<results, okCount, errCount, spine>>,
             \A w \in Workers : worker'[w] = "recording" =>
                                  worker[w] = "recording" /\ job'[w] = job[w]
      PROVE  RecordsCounted' /\ ExtractsSucceeded'
  BY <1>1 DEF RecordsCounted, ExtractsSucceeded
<1>2. CASE UNCHANGED vars
  BY <1>1, <1>2 DEF vars
<1>3. CASE Start \/ Stop
  BY <1>1, <1>3 DEF Start, Stop, StopFlags, StopCloses, StopReturns
<1>4. ASSUME NEW j \in Jobs, Submit(j)
      PROVE  RecordsCounted' /\ ExtractsSucceeded'
  BY <1>1, <1>4 DEF Submit, SubmitChecks, SubmitSends, SubmitPanics
<1>5. ASSUME NEW w \in Workers, Take(w) \/ Exit(w)
      PROVE  RecordsCounted' /\ ExtractsSucceeded'
  BY <1>1, <1>5 DEF Take, Exit
<1>6. ASSUME NEW w \in Workers, Fail(w) \/ Succeed(w)
      PROVE  RecordsCounted' /\ ExtractsSucceeded'
  <2>1. CASE Fail(w)
    BY <2>1, SettleKeepsRecords
  <2>2. CASE Succeed(w)
    BY <2>2, SettleKeepsRecords
  <2> QED
    BY <1>6, <2>1, <2>2
<1>7. ASSUME NEW w \in Workers, Record(w)
      PROVE  RecordsCounted' /\ ExtractsSucceeded'
  <2>1. /\ spine' \subseteq spine \cup {job[w]} /\ worker[w] = "recording"
        /\ UNCHANGED <<results, okCount, errCount>>
        /\ \A v \in Workers : worker'[v] = "recording" =>
                                worker[v] = "recording" /\ job'[v] = job[v]
    BY <1>7 DEF Record
  <2>2. \A j \in spine' : \E i \in DOMAIN results : results[i].job = j /\ results[i].ok
    BY <2>1 DEF RecordsCounted, ExtractsSucceeded
  <2> QED
    BY <2>1, <2>2 DEF RecordsCounted, ExtractsSucceeded
<1> QED
  BY <1>2, <1>3, <1>4, <1>5, <1>6, <1>7 DEF Next, Work

-----------------------------------------------------------------------------
(* The theorems *)

LEMMA InitDaemonInv == Init => DaemonInv
<1> SUFFICES ASSUME Init
             PROVE  DaemonInv
  OBVIOUS
<1>1. queue = <<>> /\ results = <<>>
  BY DEF Init
<1>2. /\ queue \in Seq(Jobs) /\ results \in Seq(Entries)
      /\ DOMAIN queue = {} /\ DOMAIN results = {} /\ Len(results) = 0
  BY <1>1, EmptyIndices
<1>3. TypeOK
  BY <1>2 DEF Init, TypeOK, Entries, SubmitSteps, WorkerSteps, StopSteps
<1>4. JobsExact
  <2>1. \A j \in Jobs : ~Waiting(j) /\ ~InHand(j) /\ ~Settled(j) /\ submit[j] = "new"
    BY <1>2 DEF Init, Waiting, InHand, Settled
  <2>2. \A w \in Workers : worker[w] = "unborn"
    BY DEF Init
  <2> QED
    BY <1>2, <2>1, <2>2 DEF JobsExact
<1>5. Lifecycle /\ RecordsCounted
  BY DEF Init, Lifecycle, RecordsCounted
<1>6. ExtractsSucceeded
  <2>1. {i \in DOMAIN results : results[i].ok} = {}
    BY <1>2
  <2>2. spine = {} /\ okCount = 0 /\ errCount = 0
    BY DEF Init
  <2> QED
    BY <1>2, <2>1, <2>2, FS_EmptySet DEF ExtractsSucceeded
<1> QED
  BY <1>3, <1>4, <1>5, <1>6 DEF DaemonInv

LEMMA StepKeepsDaemonInv == DaemonInv /\ [Next]_vars => DaemonInv'
  BY StepKeepsTypes, StepKeepsLifecycle, StepKeepsJobsExact, StepKeepsRecords
     DEF DaemonInv

\* Every reachable state of the sidecar satisfies DaemonInv.
THEOREM DaemonInvariant == Spec => []DaemonInv
  BY InitDaemonInv, StepKeepsDaemonInv, PTL DEF Spec

\* A set of the places of one thing has one element or none.
LEMMA OneOrNone ==
  ASSUME NEW S, \A x, y \in S : x = y
  PROVE  Cardinality(S) = IF S = {} THEN 0 ELSE 1
<1>1. CASE S = {}
  BY <1>1, FS_EmptySet
<1>2. CASE S # {}
  <2>1. PICK x : S = {x}
    BY <1>2
  <2> QED
    BY <2>1, FS_Singleton
<1> QED
  BY <1>1, <1>2

LEMMA TimesSettled ==
  ASSUME DaemonInv, NEW j \in Jobs
  PROVE  Times(j) = IF Settled(j) THEN 1 ELSE 0
<1> DEFINE S == {i \in DOMAIN results : results[i].job = j}
<1>1. \A x, y \in S : x = y
  BY DEF DaemonInv, JobsExact
<1>2. S = {} <=> ~Settled(j)
  BY DEF Settled
<1>3. Cardinality(S) = IF S = {} THEN 0 ELSE 1
  BY <1>1, OneOrNone
<1> QED
  BY <1>2, <1>3 DEF Times

\* An accepted job is in the channel, in one worker's hands or among the
\* results, exactly once.
THEOREM JobsAccounted == Spec => []AcceptedInOnePlace
<1>1. DaemonInv => AcceptedInOnePlace
  <2> SUFFICES ASSUME DaemonInv, NEW j \in Jobs
               PROVE  Cardinality({i \in DOMAIN queue : queue[i] = j})
                        + Cardinality({w \in Workers : worker[w] = "working" /\ job[w] = j})
                        + Times(j)
                      = (IF submit[j] = "accepted" THEN 1 ELSE 0)
    BY DEF AcceptedInOnePlace
  <2> DEFINE Q == {i \in DOMAIN queue : queue[i] = j}
             W == {w \in Workers : worker[w] = "working" /\ job[w] = j}
  <2>1. Cardinality(Q) = IF Waiting(j) THEN 1 ELSE 0
    <3>1. (\A x, y \in Q : x = y) /\ (Q = {} <=> ~Waiting(j))
      BY DEF DaemonInv, JobsExact, Waiting
    <3> QED
      BY <3>1, OneOrNone
  <2>2. Cardinality(W) = IF InHand(j) THEN 1 ELSE 0
    <3>1. (\A x, y \in W : x = y) /\ (W = {} <=> ~InHand(j))
      BY DEF DaemonInv, JobsExact, InHand
    <3> QED
      BY <3>1, OneOrNone
  <2> HIDE DEF Q, W
  <2>3. /\ submit[j] = "accepted" <=> Waiting(j) \/ InHand(j) \/ Settled(j)
        /\ ~(Waiting(j) /\ InHand(j)) /\ ~(Waiting(j) /\ Settled(j))
        /\ ~(InHand(j) /\ Settled(j))
    BY DEF DaemonInv, JobsExact
  <2>4. Cardinality(Q) + Cardinality(W) + Times(j)
          = (IF submit[j] = "accepted" THEN 1 ELSE 0)
    BY <2>1, <2>2, <2>3, TimesSettled
  <2> QED
    BY <2>4 DEF Q, W
<1> QED
  BY <1>1, DaemonInvariant, PTL

\* When Stop returns, every accepted job has its result and nobody has one to
\* record: a worker that has left found the channel empty.
THEOREM StopLeavesNothing == Spec => []StopDrains
<1>1. DaemonInv => StopDrains
  <2> SUFFICES ASSUME DaemonInv, stop = "returned", NEW j \in Jobs
               PROVE  /\ submit[j] = "accepted" => Times(j) = 1
                      /\ \A w \in Workers : job[w] # j
    BY DEF StopDrains
  <2>1. \A w \in Workers : worker[w] = "exited" /\ job[w] = None /\ queue = <<>>
    BY DEF DaemonInv, Lifecycle
  <2>2. ~Waiting(j) /\ ~InHand(j)
    BY <2>1, WorkersAssumption DEF Waiting, InHand
  <2>3. submit[j] = "accepted" => Settled(j)
    BY <2>2 DEF DaemonInv, JobsExact
  <2> QED
    BY <2>1, <2>3, TimesSettled, NoneAssumption
<1> QED
  BY <1>1, DaemonInvariant, PTL

\* What is on the spine was counted as a success first, and the counters add
\* up.
THEOREM RecordedSucceeded == Spec => []ExtractsSucceeded
<1>1. DaemonInv => ExtractsSucceeded
  BY DEF DaemonInv
<1> QED
  BY <1>1, DaemonInvariant, PTL

=============================================================================

-------------------------- MODULE PreprocessDaemon --------------------------
(***************************************************************************)
(* The preprocessing sidecar: internal/preprocess/daemon.go, with the      *)
(* Start and the deferred Stop of cmd/harness/main.go around it.           *)
(*                                                                         *)
(* Sessions submit jobs from their handlers; workers take them off a       *)
(* bounded channel, call the fast model, count the result and record an    *)
(* extraction on the spine.  Submit reads running under the lock and sends *)
(* after releasing it; Stop clears running under the lock and closes the   *)
(* channel after releasing it.  A send on a closed channel panics, in a    *)
(* select with a default branch too; net/http recovers the handler.        *)
(***************************************************************************)
EXTENDS Naturals, Sequences, FiniteSets

CONSTANTS
  Jobs,        \* jobs, each submitted once
  Workers,     \* MaxWorkers goroutines
  QueueSize,   \* the capacity of the channel
  None

ASSUME QueueAssumption   == QueueSize \in Nat \ {0}
ASSUME WorkersAssumption == Workers # {}
ASSUME NoneAssumption    == None \notin Jobs

VARIABLES
  running,     \* Daemon.running
  queue,       \* the channel's buffer
  closed,      \* whether the channel is closed
  submit,      \* submit[j]: how far Submit(j) has come
  worker,      \* worker[w]: where worker w is
  job,         \* job[w]: the job w holds
  results,     \* Daemon.results: the job and whether it succeeded
  okCount, errCount,   \* totalOK, totalErr; totalJobs is Len(results)
  spine,       \* the jobs whose extraction was recorded
  stop         \* how far Stop has come

vars == <<running, queue, closed, submit, worker, job, results, okCount,
          errCount, spine, stop>>

SubmitSteps == {"new", "sending", "accepted", "refused", "panicked"}
WorkerSteps == {"unborn", "idle", "working", "recording", "exited"}
StopSteps   == {"not called", "flagged", "closed", "returned"}

TypeOK ==
  /\ running \in BOOLEAN
  /\ queue   \in Seq(Jobs)
  /\ closed  \in BOOLEAN
  /\ submit  \in [Jobs -> SubmitSteps]
  /\ worker  \in [Workers -> WorkerSteps]
  /\ job     \in [Workers -> Jobs \cup {None}]
  /\ results \in Seq([job : Jobs, ok : BOOLEAN])
  /\ okCount \in Nat
  /\ errCount \in Nat
  /\ spine   \in SUBSET Jobs
  /\ stop    \in StopSteps

Init ==
  /\ running = FALSE
  /\ queue   = <<>>
  /\ closed  = FALSE
  /\ submit  = [j \in Jobs |-> "new"]
  /\ worker  = [w \in Workers |-> "unborn"]
  /\ job     = [w \in Workers |-> None]
  /\ results = <<>>
  /\ okCount = 0
  /\ errCount = 0
  /\ spine   = {}
  /\ stop    = "not called"

-----------------------------------------------------------------------------
(* The owner *)

\* Start: main calls it once, before it serves.
Start ==
  /\ ~running
  /\ stop = "not called"
  /\ running' = TRUE
  /\ worker' = [w \in Workers |-> "idle"]
  /\ UNCHANGED <<queue, closed, submit, job, results, okCount, errCount, spine, stop>>

\* Stop returns at once when the daemon is not running; that changes nothing.
StopFlags ==
  /\ running
  /\ running' = FALSE
  /\ stop' = "flagged"
  /\ UNCHANGED <<queue, closed, submit, worker, job, results, okCount, errCount, spine>>

StopCloses ==
  /\ stop = "flagged"
  /\ closed' = TRUE
  /\ stop' = "closed"
  /\ UNCHANGED <<running, queue, submit, worker, job, results, okCount, errCount, spine>>

\* Mutant of StopReturns: Stop does not wait for the workers.
StopReturnsAtOnce ==
  /\ stop = "closed"
  /\ stop' = "returned"
  /\ UNCHANGED <<running, queue, closed, submit, worker, job, results, okCount,
                 errCount, spine>>

\* wg.Wait()
StopReturns ==
  /\ stop = "closed"
  /\ \A w \in Workers : worker[w] = "exited"
  /\ stop' = "returned"
  /\ UNCHANGED <<running, queue, closed, submit, worker, job, results, okCount,
                 errCount, spine>>

-----------------------------------------------------------------------------
(* Submit, in a session's handler *)

SubmitChecks(j) ==
  /\ submit[j] = "new"
  /\ submit' = [submit EXCEPT ![j] = IF running THEN "sending" ELSE "refused"]
  /\ UNCHANGED <<running, queue, closed, worker, job, results, okCount, errCount,
                 spine, stop>>

\* Mutant of SubmitSends: accepted although the channel is full.
SubmitSendsOverFull(j) ==
  /\ submit[j] = "sending"
  /\ ~closed
  /\ submit' = [submit EXCEPT ![j] = "accepted"]
  /\ queue' = IF Len(queue) < QueueSize THEN Append(queue, j) ELSE queue
  /\ UNCHANGED <<running, closed, worker, job, results, okCount, errCount, spine, stop>>

SubmitSends(j) ==
  /\ submit[j] = "sending"
  /\ ~closed
  /\ IF Len(queue) < QueueSize
       THEN /\ submit' = [submit EXCEPT ![j] = "accepted"]
            /\ queue' = Append(queue, j)
       ELSE /\ submit' = [submit EXCEPT ![j] = "refused"]
            /\ UNCHANGED queue
  /\ UNCHANGED <<running, closed, worker, job, results, okCount, errCount, spine, stop>>

SubmitPanics(j) ==
  /\ submit[j] = "sending"
  /\ closed
  /\ submit' = [submit EXCEPT ![j] = "panicked"]
  /\ UNCHANGED <<running, queue, closed, worker, job, results, okCount, errCount,
                 spine, stop>>

-----------------------------------------------------------------------------
(* A worker *)

Take(w) ==
  /\ worker[w] = "idle"
  /\ queue # <<>>
  /\ queue' = Tail(queue)
  /\ job' = [job EXCEPT ![w] = Head(queue)]
  /\ worker' = [worker EXCEPT ![w] = "working"]
  /\ UNCHANGED <<running, closed, submit, results, okCount, errCount, spine, stop>>

\* Mutant of Exit: the worker leaves as soon as Stop closes the channel.
ExitAtOnce(w) ==
  /\ worker[w] = "idle"
  /\ closed
  /\ worker' = [worker EXCEPT ![w] = "exited"]
  /\ UNCHANGED <<running, queue, closed, submit, job, results, okCount, errCount,
                 spine, stop>>

\* range over the channel ends when it is closed and empty.
Exit(w) ==
  /\ worker[w] = "idle"
  /\ closed
  /\ queue = <<>>
  /\ worker' = [worker EXCEPT ![w] = "exited"]
  /\ UNCHANGED <<running, queue, closed, submit, job, results, okCount, errCount,
                 spine, stop>>

\* Mutant of Fail: the extraction of a failed call is recorded too.
FailRecords(w) ==
  /\ worker[w] = "working"
  /\ results' = Append(results, [job |-> job[w], ok |-> FALSE])
  /\ errCount' = errCount + 1
  /\ worker' = [worker EXCEPT ![w] = "recording"]
  /\ UNCHANGED <<running, queue, closed, submit, job, okCount, spine, stop>>

\* processJob fails: the call, its timeout, the parser or the validation.
\* Under the lock the result is counted; the spine gets nothing.
Fail(w) ==
  /\ worker[w] = "working"
  /\ results' = Append(results, [job |-> job[w], ok |-> FALSE])
  /\ errCount' = errCount + 1
  /\ worker' = [worker EXCEPT ![w] = "idle"]
  /\ job' = [job EXCEPT ![w] = None]
  /\ UNCHANGED <<running, queue, closed, submit, okCount, spine, stop>>

Succeed(w) ==
  /\ worker[w] = "working"
  /\ results' = Append(results, [job |-> job[w], ok |-> TRUE])
  /\ okCount' = okCount + 1
  /\ worker' = [worker EXCEPT ![w] = "recording"]
  /\ UNCHANGED <<running, queue, closed, submit, job, errCount, spine, stop>>

\* The extraction is recorded after the lock is released, under the daemon's
\* own context; an append that is refused is ignored.
Record(w) ==
  /\ worker[w] = "recording"
  /\ \E refused \in BOOLEAN :
       spine' = IF refused THEN spine ELSE spine \cup {job[w]}
  /\ worker' = [worker EXCEPT ![w] = "idle"]
  /\ job' = [job EXCEPT ![w] = None]
  /\ UNCHANGED <<running, queue, closed, submit, results, okCount, errCount, stop>>

-----------------------------------------------------------------------------

Stop == StopFlags \/ StopCloses \/ StopReturns

Submit(j) == SubmitChecks(j) \/ SubmitSends(j) \/ SubmitPanics(j)

Work(w) == Take(w) \/ Exit(w) \/ Fail(w) \/ Succeed(w) \/ Record(w)

Next ==
  \/ Start
  \/ Stop
  \/ \E j \in Jobs : Submit(j)
  \/ \E w \in Workers : Work(w)

\* A worker never blocks for ever: processJob runs under a timeout.  Once
\* Stop has begun it goes on when it can.  Nothing makes main stop.
Spec ==
  /\ Init /\ [][Next]_vars
  /\ \A w \in Workers : WF_vars(Work(w))
  /\ WF_vars(StopCloses \/ StopReturns)

-----------------------------------------------------------------------------
(* Properties *)

Times(j) == Cardinality({i \in DOMAIN results : results[i].job = j})

\* A job is processed only if Submit accepted it, and once: accepted, it is
\* in the channel, in one worker's hands, or among the results, in exactly one
\* of these.
AcceptedInOnePlace ==
  \A j \in Jobs :
    Cardinality({i \in DOMAIN queue : queue[i] = j})
      + Cardinality({w \in Workers : worker[w] = "working" /\ job[w] = j})
      + Times(j)
    = (IF submit[j] = "accepted" THEN 1 ELSE 0)

\* "Stop drains the queue and shuts down workers" (daemon.go:136): when it
\* returns, every accepted job has its result and no extraction is still to be
\* recorded.
StopDrains ==
  stop = "returned" =>
    \A j \in Jobs :
      /\ submit[j] = "accepted" => Times(j) = 1
      /\ \A w \in Workers : job[w] # j

\* Extractions are recorded on success only (HARNESS.md:282), of jobs that
\* were counted as successes before.
ExtractsSucceeded ==
  /\ \A j \in spine : \E i \in DOMAIN results : results[i].job = j /\ results[i].ok
  /\ okCount = Cardinality({i \in DOMAIN results : results[i].ok})
  /\ okCount + errCount = Len(results)

\* Where an accepted job may be.
Waiting(j) == \E i \in DOMAIN queue : queue[i] = j
InHand(j)  == \E w \in Workers : worker[w] = "working" /\ job[w] = j
Settled(j) == \E i \in DOMAIN results : results[i].job = j

\* AcceptedInOnePlace without counting.
JobsExact ==
  /\ \A i, k \in DOMAIN queue : queue[i] = queue[k] => i = k
  /\ \A v, w \in Workers :
       worker[v] = "working" /\ worker[w] = "working" /\ job[v] = job[w] => v = w
  /\ \A i, k \in DOMAIN results : results[i].job = results[k].job => i = k
  /\ \A j \in Jobs :
       /\ submit[j] = "accepted" <=> Waiting(j) \/ InHand(j) \/ Settled(j)
       /\ ~(Waiting(j) /\ InHand(j))
       /\ ~(Waiting(j) /\ Settled(j))
       /\ ~(InHand(j) /\ Settled(j))

\* How far the workers and Stop have come: a worker has left only with the
\* channel closed and empty, which it stays.
Lifecycle ==
  /\ \A w \in Workers :
       /\ job[w] # None <=> worker[w] \in {"working", "recording"}
       /\ worker[w] = "exited" => closed /\ queue = <<>>
       /\ ~running /\ stop = "not called" => worker[w] = "unborn"
       /\ stop = "returned" => worker[w] = "exited"
  /\ closed <=> stop \in {"closed", "returned"}
  /\ running => stop = "not called"

\* A worker records only what it has counted as a success.
RecordsCounted ==
  \A w \in Workers :
    worker[w] = "recording" =>
      \E i \in DOMAIN results : results[i].job = job[w] /\ results[i].ok

\* The inductive invariant behind AcceptedInOnePlace, StopDrains and
\* ExtractsSucceeded.
DaemonInv ==
  /\ TypeOK
  /\ JobsExact
  /\ Lifecycle
  /\ RecordsCounted
  /\ ExtractsSucceeded

\* Every accepted job comes to a result, through failing calls and through
\* Stop, and a Stop that has begun returns.
AcceptedSettles ==
  /\ \A j \in Jobs : submit[j] = "accepted" ~> Times(j) = 1
  /\ stop = "flagged" ~> stop = "returned"

\* "Submit is non-blocking, so a nil or failing sidecar cannot slow or fail a
\* turn" (session.go:48): no Submit panics in the turn's handler.
SubmitNeverPanics == \A j \in Jobs : submit[j] # "panicked"

=============================================================================

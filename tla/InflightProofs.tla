--------------------------- MODULE InflightProofs ---------------------------
(***************************************************************************)
(* Inflight for every set of callers, keys and values: the inductive       *)
(* invariant IInv, what follows from it, and the safety part of the        *)
(* refinement of Coalesce.                                                 *)
(***************************************************************************)
EXTENDS Inflight, TLAPS

\* The invariant holds before anybody has entered.
LEMMA InitIInv == Init => IInv
  BY SentinelAssumption
     DEF Init, IInv, TypeOK, Stages, RegistryExact, TicketsShareKey,
         StoredHasValue, OnlyFollowersWait, WaiterGetsPublished, Leader, Follower, DoneClosed

\* A new leader registers a key that was free.
LEMMA EnterLeaderKeepsIInv ==
  ASSUME IInv, NEW r \in Requests, NEW k \in Keys, EnterLeader(r, k)
  PROVE  IInv'
<1> USE SentinelAssumption DEF IInv, TypeOK, EnterLeader
<1>1. TypeOK'
  BY DEF Stages
<1>2. RegistryExact'
  BY DEF RegistryExact, Leader, TicketsShareKey
<1>3. TicketsShareKey'
  BY DEF TicketsShareKey, Leader
<1>4. StoredHasValue'
  BY DEF StoredHasValue
<1>5. OnlyFollowersWait' /\ WaiterGetsPublished'
  BY DEF OnlyFollowersWait, WaiterGetsPublished, Follower,
         DoneClosed
<1> QED
  BY <1>1, <1>2, <1>3, <1>4, <1>5

\* A follower gets a ticket on the registered call, whose leader holds the key.
LEMMA EnterFollowerKeepsIInv ==
  ASSUME IInv, NEW r \in Requests, NEW k \in Keys, EnterFollower(r, k)
  PROVE  IInv'
<1> USE SentinelAssumption DEF IInv, TypeOK, EnterFollower
<1>1. TypeOK'
  BY DEF Stages
<1>2. calls[k] # r
  BY DEF RegistryExact, Leader
<1>3. RegistryExact'
  BY <1>2 DEF RegistryExact, Leader
<1>4. TicketsShareKey'
  BY <1>2 DEF TicketsShareKey, RegistryExact, Leader
<1>5. StoredHasValue'
  BY DEF StoredHasValue
<1>6. OnlyFollowersWait' /\ WaiterGetsPublished'
  BY DEF OnlyFollowersWait, WaiterGetsPublished, Follower,
         DoneClosed
<1> QED
  BY <1>1, <1>3, <1>4, <1>5, <1>6

\* The first Complete stores the value nobody can have read yet.
LEMMA StoreKeepsIInv ==
  ASSUME IInv, NEW r \in Requests, NEW v \in Values, Store(r, v)
  PROVE  IInv'
<1> USE SentinelAssumption DEF IInv, TypeOK, Store
<1>1. TypeOK'
  BY DEF Stages
<1>2. RegistryExact'
  BY DEF RegistryExact, Leader
<1>3. TicketsShareKey'
  BY DEF TicketsShareKey, Leader
<1>4. StoredHasValue'
  BY DEF StoredHasValue
<1>5. OnlyFollowersWait' /\ WaiterGetsPublished'
  BY DEF OnlyFollowersWait, WaiterGetsPublished, Follower,
         DoneClosed
<1> QED
  BY <1>1, <1>2, <1>3, <1>4, <1>5

LEMMA CloseDoneKeepsIInv ==
  ASSUME IInv, NEW r \in Requests, CloseDone(r)
  PROVE  IInv'
<1> USE SentinelAssumption DEF IInv, TypeOK, CloseDone
<1>1. TypeOK'
  BY DEF Stages
<1>2. RegistryExact'
  BY DEF RegistryExact, Leader
<1>3. TicketsShareKey'
  BY DEF TicketsShareKey, Leader
<1>4. StoredHasValue'
  BY DEF StoredHasValue
<1>5. OnlyFollowersWait' /\ WaiterGetsPublished'
  BY DEF OnlyFollowersWait, WaiterGetsPublished, Follower,
         DoneClosed
<1> QED
  BY <1>1, <1>2, <1>3, <1>4, <1>5

\* The key that is freed is the leader's own, so no other call loses its
\* registration.
LEMMA DeleteKeepsIInv ==
  ASSUME IInv, NEW r \in Requests, Delete(r)
  PROVE  IInv'
<1> USE SentinelAssumption DEF IInv, TypeOK, Delete
<1>1. /\ Leader(r)
      /\ key[r] \in Keys
      /\ calls[key[r]] = r
  BY DEF RegistryExact, Leader
<1>2. TypeOK'
  BY DEF Stages
<1>3. RegistryExact'
  BY <1>1 DEF RegistryExact, Leader
<1>4. TicketsShareKey'
  BY DEF TicketsShareKey, Leader
<1>5. StoredHasValue'
  BY DEF StoredHasValue
<1>6. OnlyFollowersWait' /\ WaiterGetsPublished'
  BY DEF OnlyFollowersWait, WaiterGetsPublished, Follower,
         DoneClosed
<1> QED
  BY <1>2, <1>3, <1>4, <1>5, <1>6

\* A wait reads the value of a call that is over.
LEMMA WaitDoneKeepsIInv ==
  ASSUME IInv, NEW r \in Requests, WaitDone(r)
  PROVE  IInv'
<1> USE SentinelAssumption DEF IInv, TypeOK, WaitDone
<1>1. call[r] \in Requests
  BY DEF Follower
<1>2. TypeOK'
  BY <1>1 DEF Stages
<1>3. RegistryExact'
  BY DEF RegistryExact, Leader
<1>4. TicketsShareKey'
  BY DEF TicketsShareKey, Leader
<1>5. StoredHasValue'
  BY DEF StoredHasValue
<1>6. OnlyFollowersWait' /\ WaiterGetsPublished'
  BY <1>1 DEF OnlyFollowersWait, WaiterGetsPublished, Follower,
         DoneClosed
<1> QED
  BY <1>2, <1>3, <1>4, <1>5, <1>6

LEMMA WaitExpiredKeepsIInv ==
  ASSUME IInv, NEW r \in Requests, WaitExpired(r)
  PROVE  IInv'
<1> USE SentinelAssumption DEF IInv, TypeOK, WaitExpired
<1>1. TypeOK'
  BY DEF Stages
<1>2. RegistryExact'
  BY DEF RegistryExact, Leader
<1>3. TicketsShareKey'
  BY DEF TicketsShareKey, Leader
<1>4. StoredHasValue'
  BY DEF StoredHasValue
<1>5. OnlyFollowersWait' /\ WaiterGetsPublished'
  BY DEF OnlyFollowersWait, WaiterGetsPublished, Follower,
         DoneClosed
<1> QED
  BY <1>1, <1>2, <1>3, <1>4, <1>5

\* IInv is inductive: every step of Enter, Complete and WaitValue keeps it.
LEMMA StepKeepsIInv == IInv /\ [Next]_vars => IInv'
<1> SUFFICES ASSUME IInv, [Next]_vars PROVE IInv'
  OBVIOUS
<1>1. ASSUME NEW r \in Requests, NEW k \in Keys, Enter(r, k) PROVE IInv'
  BY <1>1, EnterLeaderKeepsIInv, EnterFollowerKeepsIInv DEF Enter
<1>2. ASSUME NEW r \in Requests, NEW v \in Values, Store(r, v) PROVE IInv'
  BY <1>2, StoreKeepsIInv
<1>3. ASSUME NEW r \in Requests, CloseDone(r) PROVE IInv'
  BY <1>3, CloseDoneKeepsIInv
<1>4. ASSUME NEW r \in Requests, Delete(r) PROVE IInv'
  BY <1>4, DeleteKeepsIInv
<1>5. ASSUME NEW r \in Requests, WaitDone(r) PROVE IInv'
  BY <1>5, WaitDoneKeepsIInv
<1>6. ASSUME NEW r \in Requests, WaitExpired(r) PROVE IInv'
  BY <1>6, WaitExpiredKeepsIInv
<1>7. CASE UNCHANGED vars
  BY <1>7 DEF vars, IInv, TypeOK, RegistryExact, TicketsShareKey,
              StoredHasValue, OnlyFollowersWait, WaiterGetsPublished, Leader, Follower,
              DoneClosed
<1> QED
  BY <1>1, <1>2, <1>3, <1>4, <1>5, <1>6, <1>7 DEF Next

\* Every reachable state of the coalescer satisfies IInv.
THEOREM InflightInvariant == Spec => []IInv
  BY InitIInv, StepKeepsIInv, PTL DEF Spec, Safe

\* The coalescer's variables keep their types.
THEOREM InflightTypes == Spec => []TypeOK
<1>1. IInv => TypeOK
  BY DEF IInv
<1> QED
  BY <1>1, InflightInvariant, PTL

\* At most one active leader per key: the registry names the leader of every
\* active call under its key, and a key names one call.
THEOREM SingleLeader == Spec => []OneLeaderPerKey
<1>1. IInv => OneLeaderPerKey
  BY DEF IInv, RegistryExact, OneLeaderPerKey
<1> QED
  BY <1>1, InflightInvariant, PTL

\* Nobody is handed a value other than the one the call's leader published.
THEOREM PublishedValueReachesWaiters == Spec => []WaiterGetsPublished
<1>1. IInv => WaiterGetsPublished
  BY DEF IInv
<1> QED
  BY <1>1, InflightInvariant, PTL

-----------------------------------------------------------------------------
(* Refinement.  Enter begins or joins, close settles, delete retires; the   *)
(* store is invisible because nobody may read the value before the close.   *)

\* A step that moves only r through the phases.
LEMMA PhaseStep ==
  ASSUME NEW r \in Requests, NEW p, phaseAt(r)' = p,
         \A q \in Requests \ {r} : phaseAt(q)' = phaseAt(q)
  PROVE  [q \in Requests |-> phaseAt(q)]' =
           [[q \in Requests |-> phaseAt(q)] EXCEPT ![r] = p]
  OBVIOUS

\* A step that gives only r a result.
LEMMA ResultStep ==
  ASSUME NEW r \in Requests, NEW p, resultAt(r)' = p,
         \A q \in Requests \ {r} : resultAt(q)' = resultAt(q)
  PROVE  [q \in Requests |-> resultAt(q)]' =
           [[q \in Requests |-> resultAt(q)] EXCEPT ![r] = p]
  OBVIOUS

\* The mapping sends the empty coalescer to the abstract initial state.
LEMMA InitMapped == Init => Promise!Init
  BY SentinelAssumption
     DEF Init, Promise!Init, phaseAt, resultAt, DoneClosed

\* Leading a free key begins an execution nobody else of that key is in.
LEMMA EnterLeaderBegins ==
  ASSUME IInv, NEW r \in Requests, NEW k \in Keys, EnterLeader(r, k)
  PROVE  Promise!Begin(r, k)
<1> USE SentinelAssumption DEF IInv, TypeOK, EnterLeader
<1>1. phaseAt(r) = "idle"
  BY DEF phaseAt
<1>2. ASSUME NEW q \in Requests, key[q] = k
      PROVE  phaseAt(q) \notin Promise!Executing
  BY <1>2 DEF phaseAt, LeaderPhase, FollowerPhase, Promise!Executing,
              RegistryExact, Leader
<1>3. stage[r] = "fresh"
  BY DEF RegistryExact, Leader
<1>4. phaseAt(r)' = "executing"
  BY <1>3 DEF phaseAt, LeaderPhase, Leader
<1>5. ASSUME NEW q \in Requests \ {r} PROVE phaseAt(q)' = phaseAt(q)
  BY DEF phaseAt, LeaderPhase, FollowerPhase, Leader
<1>6. ASSUME NEW q \in Requests PROVE resultAt(q)' = resultAt(q)
  BY DEF resultAt, DoneClosed
<1> HIDE DEF IInv, TypeOK
<1> QED
  BY <1>1, <1>2, <1>4, <1>5, <1>6, PhaseStep DEF Promise!Begin

\* Following a registered call joins its leader's execution.
LEMMA EnterFollowerJoins ==
  ASSUME IInv, NEW r \in Requests, NEW k \in Keys, EnterFollower(r, k)
  PROVE  \E q \in Requests : Promise!Join(r, q)
<1> USE SentinelAssumption DEF IInv, TypeOK, EnterFollower
<1> DEFINE q == calls[k]
<1>1. /\ q \in Requests /\ q # r
      /\ Leader(q) /\ key[q] = k /\ stage[q] # "deleted"
  BY DEF RegistryExact, Leader
<1>2. phaseAt(r) = "idle"
  BY DEF phaseAt
<1>3. phaseAt(q) \in Promise!Executing
  BY <1>1 DEF phaseAt, LeaderPhase, Promise!Executing, Leader
<1>4. waited[r] = None
  BY DEF OnlyFollowersWait, Follower
<1>5. phaseAt(r)' = "waiting"
  BY <1>1, <1>4 DEF phaseAt, FollowerPhase, Leader
<1>6. ASSUME NEW p \in Requests \ {r} PROVE phaseAt(p)' = phaseAt(p)
  BY DEF phaseAt, LeaderPhase, FollowerPhase, Leader
<1>7. ASSUME NEW p \in Requests PROVE resultAt(p)' = resultAt(p)
  BY DEF resultAt, DoneClosed
<1> HIDE DEF IInv, TypeOK
<1>8. Promise!Join(r, q)
  BY <1>1, <1>2, <1>3, <1>5, <1>6, <1>7, PhaseStep DEF Promise!Join
<1> QED
  BY <1>1, <1>8

\* Storing the result changes nothing anybody can observe.
LEMMA StoreStutters ==
  ASSUME IInv, NEW r \in Requests, NEW v \in Values, Store(r, v)
  PROVE  UNCHANGED Promise!vars
<1> USE SentinelAssumption DEF IInv, TypeOK, Store
<1>1. ASSUME NEW q \in Requests PROVE phaseAt(q)' = phaseAt(q)
  BY DEF phaseAt, LeaderPhase, FollowerPhase, Leader
<1>2. ASSUME NEW q \in Requests PROVE resultAt(q)' = resultAt(q)
  BY DEF resultAt, DoneClosed
<1> HIDE DEF IInv, TypeOK
<1> QED
  BY <1>1, <1>2 DEF Promise!vars

\* Closing the done channel settles the execution on the stored value.
LEMMA CloseDoneSettles ==
  ASSUME IInv, NEW r \in Requests, CloseDone(r)
  PROVE  \E v \in Values : Promise!Settle(r, v)
<1> USE SentinelAssumption DEF IInv, TypeOK, CloseDone
<1>1. Leader(r)
  BY DEF RegistryExact
<1>2. value[r] \in Values
  BY DEF StoredHasValue
<1>3. phaseAt(r) = "executing"
  BY <1>1 DEF phaseAt, LeaderPhase, Leader
<1>4. phaseAt(r)' = "settled"
  BY <1>1 DEF phaseAt, LeaderPhase, Leader
<1>5. ASSUME NEW q \in Requests \ {r} PROVE phaseAt(q)' = phaseAt(q)
  BY DEF phaseAt, LeaderPhase, FollowerPhase, Leader
<1>6. resultAt(r)' = value[r]
  BY DEF resultAt, DoneClosed
<1>7. ASSUME NEW q \in Requests \ {r} PROVE resultAt(q)' = resultAt(q)
  BY DEF resultAt, DoneClosed
<1> HIDE DEF IInv, TypeOK
<1>8. Promise!Settle(r, value[r])
  BY <1>3, <1>4, <1>5, <1>6, <1>7, PhaseStep, ResultStep DEF Promise!Settle
<1> QED
  BY <1>2, <1>8

LEMMA DeleteRetires ==
  ASSUME IInv, NEW r \in Requests, Delete(r)
  PROVE  Promise!Retire(r)
<1> USE SentinelAssumption DEF IInv, TypeOK, Delete
<1>1. Leader(r)
  BY DEF RegistryExact
<1>2. phaseAt(r) = "settled"
  BY <1>1 DEF phaseAt, LeaderPhase, Leader
<1>3. phaseAt(r)' = "retired"
  BY <1>1 DEF phaseAt, LeaderPhase, Leader
<1>4. ASSUME NEW q \in Requests \ {r} PROVE phaseAt(q)' = phaseAt(q)
  BY DEF phaseAt, LeaderPhase, FollowerPhase, Leader
<1>5. ASSUME NEW q \in Requests PROVE resultAt(q)' = resultAt(q)
  BY DEF resultAt, DoneClosed
<1> HIDE DEF IInv, TypeOK
<1> QED
  BY <1>2, <1>3, <1>4, <1>5, PhaseStep DEF Promise!Retire

\* A wait that sees the closed channel is served what the execution settled on.
LEMMA WaitDoneServes ==
  ASSUME IInv, NEW r \in Requests, WaitDone(r)
  PROVE  Promise!Serve(r)
<1> USE SentinelAssumption DEF IInv, TypeOK, WaitDone
<1> DEFINE q == call[r]
<1>1. /\ q \in Requests /\ q # r /\ Leader(q)
      /\ ~Leader(r) /\ stage[r] = "fresh"
  BY DEF Follower, TicketsShareKey, Leader, RegistryExact
<1>2. value[q] \in Values
  BY <1>1 DEF StoredHasValue, DoneClosed
<1>3. phaseAt(r) = "waiting"
  BY <1>1 DEF phaseAt, FollowerPhase, Follower
<1>4. phaseAt(q) \in {"settled", "retired"}
  BY <1>1 DEF phaseAt, LeaderPhase, Leader, DoneClosed
<1>5. phaseAt(r)' = "served"
  BY <1>1, <1>2 DEF phaseAt, FollowerPhase, Leader
<1>6. ASSUME NEW p \in Requests \ {r} PROVE phaseAt(p)' = phaseAt(p)
  BY DEF phaseAt, LeaderPhase, FollowerPhase, Leader
<1>7. resultAt(r)' = resultAt(q)
  BY <1>1, <1>2 DEF resultAt, DoneClosed
<1>8. ASSUME NEW p \in Requests \ {r} PROVE resultAt(p)' = resultAt(p)
  BY DEF resultAt, DoneClosed
<1> HIDE DEF IInv, TypeOK
<1> QED
  BY <1>1, <1>3, <1>4, <1>5, <1>6, <1>7, <1>8, PhaseStep, ResultStep
     DEF Promise!Serve

LEMMA WaitExpiredExpires ==
  ASSUME IInv, NEW r \in Requests, WaitExpired(r)
  PROVE  Promise!Expire(r)
<1> USE SentinelAssumption DEF IInv, TypeOK, WaitExpired
<1>1. ~Leader(r) /\ stage[r] = "fresh"
  BY DEF Follower, Leader, RegistryExact
<1>2. phaseAt(r) = "waiting"
  BY <1>1 DEF phaseAt, FollowerPhase, Follower
<1>3. phaseAt(r)' = "expired"
  BY <1>1 DEF phaseAt, FollowerPhase, Leader, Follower
<1>4. ASSUME NEW q \in Requests \ {r} PROVE phaseAt(q)' = phaseAt(q)
  BY DEF phaseAt, LeaderPhase, FollowerPhase, Leader
<1>5. ASSUME NEW q \in Requests PROVE resultAt(q)' = resultAt(q)
  BY <1>1 DEF resultAt, DoneClosed
<1> HIDE DEF IInv, TypeOK
<1> QED
  BY <1>2, <1>3, <1>4, <1>5, PhaseStep DEF Promise!Expire

\* Every step of the coalescer is a step of Coalesce or a stutter.
LEMMA StepMapped == IInv /\ [Next]_vars => [Promise!Next]_(Promise!vars)
<1> SUFFICES ASSUME IInv, [Next]_vars PROVE [Promise!Next]_(Promise!vars)
  OBVIOUS
<1>1. ASSUME NEW r \in Requests, NEW k \in Keys, Enter(r, k)
      PROVE  Promise!Next
  BY <1>1, EnterLeaderBegins, EnterFollowerJoins DEF Enter, Promise!Next
<1>2. ASSUME NEW r \in Requests, NEW v \in Values, Store(r, v)
      PROVE  UNCHANGED Promise!vars
  BY <1>2, StoreStutters
<1>3. ASSUME NEW r \in Requests, CloseDone(r) PROVE Promise!Next
  BY <1>3, CloseDoneSettles DEF Promise!Next
<1>4. ASSUME NEW r \in Requests, Delete(r) PROVE Promise!Next
  BY <1>4, DeleteRetires DEF Promise!Next
<1>5. ASSUME NEW r \in Requests, WaitDone(r) PROVE Promise!Next
  BY <1>5, WaitDoneServes DEF Promise!Next
<1>6. ASSUME NEW r \in Requests, WaitExpired(r) PROVE Promise!Next
  BY <1>6, WaitExpiredExpires DEF Promise!Next
<1>7. CASE UNCHANGED vars
  BY <1>7 DEF vars, Promise!vars, phaseAt, resultAt,
              LeaderPhase, FollowerPhase, Leader, DoneClosed
<1> QED
  BY <1>1, <1>2, <1>3, <1>4, <1>5, <1>6, <1>7 DEF Next

\* The coalescer implements the safety part of Coalesce: executions of one key
\* never overlap, nobody is served by a retired execution, and what is served
\* is what the execution settled on.
THEOREM InflightImplementsCoalesce == Spec => Promise!Safe
  BY InitMapped, StepMapped, InflightInvariant, PTL DEF Spec, Safe, Promise!Safe

=============================================================================

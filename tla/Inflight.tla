------------------------------ MODULE Inflight ------------------------------
(***************************************************************************)
(* In-flight coalescing by request key: internal/ingress/inflight.go.      *)
(*                                                                         *)
(* Enter either registers a new call under the key, which makes the caller *)
(* its leader, or hands out a follower ticket on the call registered       *)
(* there.  A call object is named by its leader.  Complete runs its body   *)
(* once: it stores the result, closes the done channel, and only then      *)
(* takes the lock again to delete the key, so a request that enters        *)
(* between the close and the delete follows a call that is already over.   *)
(***************************************************************************)

CONSTANTS
  Requests,   \* callers; each of them enters once
  Keys,       \* request fingerprints
  Values,     \* what a leader may publish
  None,       \* no call, no key, no value
  Expired     \* what WaitValue returns when the caller's context ends first

ASSUME SentinelAssumption ==
  /\ None \notin Requests
  /\ None \notin Keys
  /\ None \notin Values
  /\ Expired \notin Values
  /\ Expired # None

VARIABLES
  calls,      \* calls[k]: the leader of the call registered under k, or None
  key,        \* key[r]: the key r entered with
  call,       \* call[r]: the call r holds a ticket on, r itself for a leader
  stage,      \* stage[r]: how far the release of r's own call has run
  value,      \* value[r]: the value stored in r's call
  waited      \* waited[r]: what WaitValue returned to follower r

vars == <<calls, key, call, stage, value, waited>>

\* "fresh": once.Do has not run; "stored": value and err are set; "closed":
\* the done channel is closed; "deleted": the key is free again.
Stages == {"fresh", "stored", "closed", "deleted"}

TypeOK ==
  /\ calls  \in [Keys -> Requests \cup {None}]
  /\ key    \in [Requests -> Keys \cup {None}]
  /\ call   \in [Requests -> Requests \cup {None}]
  /\ stage  \in [Requests -> Stages]
  /\ value  \in [Requests -> Values \cup {None}]
  /\ waited \in [Requests -> Values \cup {None, Expired}]

Leader(r)   == call[r] = r
Follower(r) == call[r] \notin {r, None}

Init ==
  /\ calls  = [k \in Keys |-> None]
  /\ key    = [r \in Requests |-> None]
  /\ call   = [r \in Requests |-> None]
  /\ stage  = [r \in Requests |-> "fresh"]
  /\ value  = [r \in Requests |-> None]
  /\ waited = [r \in Requests |-> None]

\* Mutant of EnterLeader: the registry is not consulted first.
EnterLeaderUnchecked(r, k) ==
  /\ call[r] = None
  /\ calls' = [calls EXCEPT ![k] = r]
  /\ key'   = [key EXCEPT ![r] = k]
  /\ call'  = [call EXCEPT ![r] = r]
  /\ UNCHANGED <<stage, value, waited>>

\* Enter, the key is free: register a call and lead it.
EnterLeader(r, k) ==
  /\ call[r] = None
  /\ calls[k] = None
  /\ calls' = [calls EXCEPT ![k] = r]
  /\ key'   = [key EXCEPT ![r] = k]
  /\ call'  = [call EXCEPT ![r] = r]
  /\ UNCHANGED <<stage, value, waited>>

\* Enter, a call is registered: share its done channel and its result.
EnterFollower(r, k) ==
  /\ call[r] = None
  /\ calls[k] # None
  /\ key'  = [key EXCEPT ![r] = k]
  /\ call' = [call EXCEPT ![r] = calls[k]]
  /\ UNCHANGED <<calls, stage, value, waited>>

Enter(r, k) == EnterLeader(r, k) \/ EnterFollower(r, k)

\* Mutant of Store: without the sync.Once a second Complete runs the body too.
StoreAgain(r, v) ==
  /\ Leader(r)
  /\ stage[r] \in {"fresh", "closed"}
  /\ value' = [value EXCEPT ![r] = v]
  /\ stage' = [stage EXCEPT ![r] = "stored"]
  /\ UNCHANGED <<calls, key, call, waited>>

\* Complete: once.Do lets the body run for the first call only.
Store(r, v) ==
  /\ Leader(r)
  /\ stage[r] = "fresh"
  /\ value' = [value EXCEPT ![r] = v]
  /\ stage' = [stage EXCEPT ![r] = "stored"]
  /\ UNCHANGED <<calls, key, call, waited>>

\* close(c.done): from here on every wait on the call may return.
CloseDone(r) ==
  /\ stage[r] = "stored"
  /\ stage' = [stage EXCEPT ![r] = "closed"]
  /\ UNCHANGED <<calls, key, call, value, waited>>

\* Mutant of Delete: the key is freed before the done channel is closed.
DeleteBeforeClose(r) ==
  /\ stage[r] = "stored"
  /\ calls' = [calls EXCEPT ![key[r]] = None]
  /\ stage' = [stage EXCEPT ![r] = "deleted"]
  /\ UNCHANGED <<key, call, value, waited>>

\* delete(i.calls, key) under the lock: the next Enter leads again.
Delete(r) ==
  /\ stage[r] = "closed"
  /\ calls' = [calls EXCEPT ![key[r]] = None]
  /\ stage' = [stage EXCEPT ![r] = "deleted"]
  /\ UNCHANGED <<key, call, value, waited>>

DoneClosed(r) == stage[r] \in {"closed", "deleted"}

\* WaitValue, the done branch of the select: read the stored result.
WaitDone(r) ==
  /\ Follower(r)
  /\ waited[r] = None
  /\ DoneClosed(call[r])
  /\ waited' = [waited EXCEPT ![r] = value[call[r]]]
  /\ UNCHANGED <<calls, key, call, stage, value>>

\* WaitValue, the context branch; select may take it even when done is
\* closed as well.
WaitExpired(r) ==
  /\ Follower(r)
  /\ waited[r] = None
  /\ waited' = [waited EXCEPT ![r] = Expired]
  /\ UNCHANGED <<calls, key, call, stage, value>>

Next ==
  \E r \in Requests :
    \/ \E k \in Keys : Enter(r, k)
    \/ \E v \in Values : Store(r, v)
    \/ CloseDone(r)
    \/ Delete(r)
    \/ WaitDone(r)
    \/ WaitExpired(r)

Safe == Init /\ [][Next]_vars

\* Complete does not block between its steps except on the mutex, and a
\* select with a ready branch returns.  Nothing makes a leader complete or a
\* context end.
Spec ==
  /\ Safe
  /\ \A r \in Requests :
       /\ WF_vars(CloseDone(r))
       /\ WF_vars(Delete(r))
       /\ WF_vars(WaitDone(r))

-----------------------------------------------------------------------------
(* Properties *)

\* The registry holds exactly the calls whose release has not finished, each
\* under the key it was entered with: a release never removes a later call.
RegistryExact ==
  /\ \A k \in Keys :
       calls[k] # None =>
         /\ Leader(calls[k])
         /\ key[calls[k]] = k
         /\ stage[calls[k]] # "deleted"
  /\ \A r \in Requests :
       /\ call[r] # None => key[r] # None
       /\ Leader(r) /\ stage[r] # "deleted" => calls[key[r]] = r
       /\ ~Leader(r) => stage[r] = "fresh"

\* A ticket is on a call somebody leads, entered with the same key.
TicketsShareKey ==
  \A r \in Requests :
    call[r] # None => Leader(call[r]) /\ key[call[r]] = key[r]

\* "Exactly one ticket per key is leader while the request is active"
\* (inflight.go:23): active until its leader has deleted it.
OneLeaderPerKey ==
  \A q, r \in Requests :
    /\ Leader(q) /\ stage[q] # "deleted"
    /\ Leader(r) /\ stage[r] # "deleted"
    /\ key[q] = key[r]
    => q = r

\* What a wait returned is what the call's leader published, for good: no
\* follower reads the result before it is stored and none is overwritten.
WaiterGetsPublished ==
  \A r \in Requests :
    waited[r] \notin {None, Expired} =>
      /\ DoneClosed(call[r])
      /\ waited[r] = value[call[r]]

\* A call has a value from the moment it is stored, and only then.
StoredHasValue == \A r \in Requests : value[r] = None <=> stage[r] = "fresh"

OnlyFollowersWait == \A r \in Requests : waited[r] # None => Follower(r)

\* The inductive invariant behind the properties above.
IInv ==
  /\ TypeOK
  /\ RegistryExact
  /\ TicketsShareKey
  /\ StoredHasValue
  /\ OnlyFollowersWait
  /\ WaiterGetsPublished

-----------------------------------------------------------------------------
(* Refinement: a leader executes until its done channel is closed and is   *)
(* retired when its key is deleted; a follower waits on the leader's call. *)

LeaderPhase(r) ==
  IF stage[r] = "deleted" THEN "retired"
  ELSE IF stage[r] = "closed" THEN "settled" ELSE "executing"

FollowerPhase(r) ==
  IF waited[r] = None THEN "waiting"
  ELSE IF waited[r] = Expired THEN "expired" ELSE "served"

phaseAt(r) ==
  IF call[r] = None THEN "idle"
  ELSE IF Leader(r) THEN LeaderPhase(r) ELSE FollowerPhase(r)

resultAt(r) ==
  IF DoneClosed(r) THEN value[r]
  ELSE IF waited[r] = Expired THEN None ELSE waited[r]

Promise == INSTANCE Coalesce WITH
  phase  <- [r \in Requests |-> phaseAt(r)],
  source <- call,
  result <- [r \in Requests |-> resultAt(r)]

\* The coalescer keeps what Coalesce promises, fairness included: a result
\* that was published reaches every follower still waiting, and its key is
\* freed.
Coalesces == Promise!Spec

=============================================================================

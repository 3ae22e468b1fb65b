------------------------------ MODULE Coalesce ------------------------------
(***************************************************************************)
(* What coalescing promises, free of registries, channels and locks.       *)
(*                                                                         *)
(* A request either executes on its own account or is served by the        *)
(* execution of another request with the same fingerprint.  Two executions *)
(* of one fingerprint never overlap, a request is served only by an        *)
(* execution that had not been retired when the request arrived, and what  *)
(* it is served is exactly the result that execution settled on.  Inflight *)
(* is shown to implement this module.                                      *)
(***************************************************************************)

CONSTANTS
  Requests,   \* the requests that may arrive
  Keys,       \* the fingerprints they may carry
  Values,     \* the results an execution may settle on
  None        \* no key, no source, no result

VARIABLES
  phase,      \* phase[r]: where request r stands
  key,        \* key[r]: the fingerprint r arrived with
  source,     \* source[r]: the request whose execution serves r
  result      \* result[r]: what r settled on or was served

vars == <<phase, key, source, result>>

\* Phases of a request that executes, and of one that is served.
Executing == {"executing", "settled"}
Phases    == {"idle", "retired", "waiting", "served", "expired"} \cup Executing

Init ==
  /\ phase  = [r \in Requests |-> "idle"]
  /\ key    = [r \in Requests |-> None]
  /\ source = [r \in Requests |-> None]
  /\ result = [r \in Requests |-> None]

\* r starts an execution of k, which nobody is executing.
Begin(r, k) ==
  /\ phase[r] = "idle"
  /\ \A q \in Requests : key[q] = k => phase[q] \notin Executing
  /\ phase'  = [phase EXCEPT ![r] = "executing"]
  /\ key'    = [key EXCEPT ![r] = k]
  /\ source' = [source EXCEPT ![r] = r]
  /\ UNCHANGED result

\* r joins the execution of q, which has not been retired.
Join(r, q) ==
  /\ phase[r] = "idle"
  /\ phase[q] \in Executing
  /\ phase'  = [phase EXCEPT ![r] = "waiting"]
  /\ key'    = [key EXCEPT ![r] = key[q]]
  /\ source' = [source EXCEPT ![r] = q]
  /\ UNCHANGED result

Settle(q, v) ==
  /\ phase[q] = "executing"
  /\ phase'  = [phase EXCEPT ![q] = "settled"]
  /\ result' = [result EXCEPT ![q] = v]
  /\ UNCHANGED <<key, source>>

\* q's execution stops accepting requests.
Retire(q) ==
  /\ phase[q] = "settled"
  /\ phase' = [phase EXCEPT ![q] = "retired"]
  /\ UNCHANGED <<key, source, result>>

Serve(r) ==
  /\ phase[r] = "waiting"
  /\ phase[source[r]] \in {"settled", "retired"}
  /\ phase'  = [phase EXCEPT ![r] = "served"]
  /\ result' = [result EXCEPT ![r] = result[source[r]]]
  /\ UNCHANGED <<key, source>>

\* r gives up; its context ended first.
Expire(r) ==
  /\ phase[r] = "waiting"
  /\ phase' = [phase EXCEPT ![r] = "expired"]
  /\ UNCHANGED <<key, source, result>>

Next ==
  \E r \in Requests :
    \/ \E k \in Keys : Begin(r, k)
    \/ \E q \in Requests : Join(r, q)
    \/ \E v \in Values : Settle(r, v)
    \/ Retire(r)
    \/ Serve(r)
    \/ Expire(r)

Safe == Init /\ [][Next]_vars

\* An execution that settled is retired, and a request it serves does not wait
\* for ever.  That an execution settles at all is its owner's business.
Spec ==
  /\ Safe
  /\ \A r \in Requests : WF_vars(Retire(r)) /\ WF_vars(Serve(r))

=============================================================================

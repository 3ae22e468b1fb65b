------------------------------ MODULE Egress ------------------------------
(***************************************************************************)
(* Which events of a session may go into a packet for the model, and in    *)
(* what shape: internal/egress/selector.go, a pure function.               *)
(*                                                                         *)
(* A candidate is an event with the flags assembleForBranch gives it.  A   *)
(* text is its length, a reference whether there is one, a position in the *)
(* spine the candidate's FrontierOrdinal.  The selector's verdict is the   *)
(* reason it records; the reason decides whether the candidate is included *)
(* and whether its text goes with it.  The explanation's counts and sample *)
(* of excluded items are reports on these verdicts and are left out.       *)
(***************************************************************************)
EXTENDS Integers

CONSTANTS
  LargeTextBytes,  \* 1024
  StaleDistance    \* 8

\* isNeverEgressKind and isDebugNeverKind name prefixes; these are the event
\* kinds of the repository that have them.
SpineOnlyKinds ==
  {"branch.fork", "consult.resolved", "consult.unresolved", "summary.rebuild",
   "recovery.attempt", "recovery.fallback", "context.compact", "dream.result",
   "audit.decision"}

DebugKinds == {"packet.candidate", "packet.sent", "packet.rejected_budget",
               "response.received", "response.invalid_schema"}

LargeAndStale(c, latest) ==
  /\ c.text > LargeTextBytes
  /\ latest - c.ord > StaleDistance

\* Mutant of Reason: the sensitive case comes after the branch's locality.
ReasonUnguarded(c, latest) ==
  IF c.kind \in SpineOnlyKinds THEN "debug_never"
  ELSE IF ~c.active /\ ~c.global THEN "non_local"
  ELSE IF ~c.active /\ ~c.blob THEN "ref_unavailable"
  ELSE IF ~c.active THEN "global_relevant"
  ELSE IF c.kind \in DebugKinds THEN "debug_never"
  ELSE IF c.current THEN "recent_turn"
  ELSE IF c.latestTool THEN "tool_result"
  ELSE IF c.nearest THEN "summary_checkpoint"
  ELSE IF c.checkpoint THEN "checkpoint_ref"
  ELSE IF LargeAndStale(c, latest) THEN "budget_fit"
  ELSE "branch_locality"

\* The cases of the selector's switch, in its order.  latest is the last
\* candidate's ordinal.
Reason(c, latest) ==
  IF c.kind \in SpineOnlyKinds THEN "debug_never"
  ELSE IF ~c.active /\ ~c.global THEN "non_local"
  ELSE IF ~c.active /\ ~c.blob THEN "ref_unavailable"
  ELSE IF ~c.active THEN "global_relevant"
  ELSE IF c.kind \in DebugKinds THEN "debug_never"
  ELSE IF c.sensitive THEN "sensitive_local"
  ELSE IF c.current THEN "recent_turn"
  ELSE IF c.latestTool THEN "tool_result"
  ELSE IF c.nearest THEN "summary_checkpoint"
  ELSE IF c.checkpoint THEN "checkpoint_ref"
  ELSE IF LargeAndStale(c, latest) THEN "budget_fit"
  ELSE "branch_locality"

Excluding   == {"debug_never", "non_local", "ref_unavailable", "sensitive_local"}
Passthrough == {"recent_turn", "branch_locality"}

\* What the packet gets of an included candidate: its references, and its text
\* only where it passes through.
Item(c, latest) ==
  [ord |-> c.ord, kind |-> c.kind, sref |-> c.sref, blob |-> c.blob,
   text |-> IF Reason(c, latest) \in Passthrough THEN c.text ELSE 0]

Select(candidates, latest) ==
  {Item(c, latest) : c \in {d \in candidates : Reason(d, latest) \notin Excluding}}
=============================================================================

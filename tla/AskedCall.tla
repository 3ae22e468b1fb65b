----------------------------- MODULE AskedCall -----------------------------
(***************************************************************************)
(* The handler of /v1/agent-call with the keys it really uses: AgentCall   *)
(* coalesces by keys it knows nothing of, Ingress makes them of bodies.    *)
(***************************************************************************)
EXTENDS AgentCall, Ingress

\* Every key is made of some body.
ASSUME KeysAssumption == Keys \subseteq DOMAIN Meanings

\* A client is answered what it asked: when the answer to r comes from the turn
\* of another request, that turn asked what r asks, whatever the two bodies
\* were (server.go hands FingerprintRequest one selection of the request's
\* fields and the session another).
SharedAnswerFits ==
  \A r \in Requests :
    reply[r] # None /\ reply[r].code = "ok" =>
      \A asked \in Meanings[key[r]] : Meanings[key[reply[r].answer]] = {asked}

Leading(r) == key[r] # None /\ pc[r] = "turn"

\* Bodies that are logically equivalent are never in two turns at a time
\* (fingerprint.go:27, "deterministic digest for logically equivalent ingress
\* requests", for the coalescer to see one in-flight request).
TwinsCoalesce ==
  \A q, r \in Requests :
    q # r /\ Leading(q) /\ Leading(r) => <<key[q], key[r]>> \notin Twins
=============================================================================

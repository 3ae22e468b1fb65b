---------------------------- MODULE MCAgentCall ----------------------------
(* Three requests over two fingerprints: a leader with two followers, two   *)
(* leaders of one fingerprint in a row, or two fingerprints at once.  The   *)
(* bodies that fingerprints are made of have each field with blanks and     *)
(* without, refs in either order, repeated and empty, constraints of one    *)
(* key or two, of one key written twice and with either value.              *)
EXTENDS AskedCall, TLC

CONSTANTS v, w

one      == Text(1, FALSE)
padded   == Text(1, TRUE)
two      == Text(2, FALSE)
noText   == Text(0, FALSE)
onlyPads == Text(0, TRUE)

MCRefs == {<<>>, <<one>>, <<padded>>, <<one, two>>, <<two, padded>>, <<one, one>>,
           <<onlyPads>>}

MCConstraints == {<<>>, one :> v, padded :> v, one :> w, one :> v @@ two :> w,
                  two :> w @@ padded :> v, one :> v @@ padded :> w, noText :> v}

MCBodies ==
  {Body(session, branch, task, refs, constraints, tools, external) :
     session \in {padded}, branch \in {one, noText}, task \in {one, padded, two},
     refs \in MCRefs, constraints \in MCConstraints, tools \in BOOLEAN,
     external \in {onlyPads, one, padded}}
  \cup {Body(s, s, t, <<>>, <<>>, FALSE, noText) :
          s \in {one, two, onlyPads}, t \in {one, noText}}

\* Two equivalent bodies, and one that asks something else.
MCKeys == UNION
  {Fingerprints(b) : b \in
     {Body(padded, one, one, <<one, two>>, one :> v, TRUE, padded),
      Body(padded, one, padded, <<two, padded>>, padded :> v, TRUE, one),
      Body(padded, one, two, <<>>, <<>>, FALSE, onlyPads)}}
=============================================================================

------------------------------ MODULE Ingress ------------------------------
(***************************************************************************)
(* The key that /v1/agent-call coalesces by: what handleAgentCall makes of *)
(* a body before it enters the coalescer (internal/server/server.go,       *)
(* internal/preflight/validate.go and internal/ingress).                   *)
(*                                                                         *)
(* A string is a word, 0 for none, with or without blanks around it; words *)
(* are ordered as strings are.  A constraint's value is JSON that has been *)
(* encoded anew.  Two digests are equal when what they digest is, which is *)
(* why the digest itself is left out.                                      *)
(***************************************************************************)
EXTENDS Naturals, Sequences, FiniteSets

CONSTANT Bodies    \* the bodies that are compared with each other

\* refs is a sequence of strings, constraints a function from strings (the
\* keys as they were written) to values.
Texts == [word : Nat, padded : BOOLEAN]
Text(word, padded) == [word |-> word, padded |-> padded]
Body(session, branch, task, refs, constraints, tools, external) ==
  [session |-> session, branch |-> branch, task |-> task, refs |-> refs,
   constraints |-> constraints, tools |-> tools, external |-> external]

ASSUME BodiesAssumption == \A b \in Bodies : b.refs \in Seq(Texts)

Trim(s)  == s.word
Blank(s) == Trim(s) = 0

-----------------------------------------------------------------------------
(* Normalisation *)

\* The place of a word in the sort: equal words keep their order.
Rank(words, i) ==
  Cardinality({j \in DOMAIN words :
                 words[j] < words[i] \/ (words[j] = words[i] /\ j <= i)})

Sorted(words) ==
  [k \in DOMAIN words |-> words[CHOOSE i \in DOMAIN words : Rank(words, i) = k]]

\* Mutant of NormalizeRefs: the blanks are trimmed, the order is left.
NormalizeRefsInOrder(refs) == [i \in DOMAIN refs |-> Trim(refs[i])]

NormalizeRefs(refs) == Sorted([i \in DOMAIN refs |-> Trim(refs[i])])

\* Keys that are equal once they are trimmed overwrite each other, in the order
\* in which the map is walked: any of their values may stay.
NormalizeConstraints(raw) ==
  LET keys == {Trim(k) : k \in DOMAIN raw}
      valuesOf(word) == {raw[k] : k \in {k \in DOMAIN raw : Trim(k) = word}}
  IN  {c \in [keys -> {raw[k] : k \in DOMAIN raw}] :
         \A word \in keys : c[word] \in valuesOf(word)}

\* A body is refused without a session, a task, or with a ref or a key that is
\* empty; without a branch its intent is unresolved.
Malformed(b) ==
  \/ Blank(b.session) \/ Blank(b.task)
  \/ \E i \in DOMAIN b.refs : Blank(b.refs[i])
  \/ \E k \in DOMAIN b.constraints : Blank(k)

Admitted(b) == ~Malformed(b) /\ ~Blank(b.branch)

\* What may become of an admitted body.
IngressRequests(b) ==
  {[session |-> Trim(b.session), branch |-> Trim(b.branch), task |-> Trim(b.task),
    refs |-> NormalizeRefs(b.refs), constraints |-> c, tools |-> b.tools,
    external |-> b.external] : c \in NormalizeConstraints(b.constraints)}

-----------------------------------------------------------------------------
(* The key, and what the leader asks *)

\* Mutant of Fingerprint: the external context is a transient field.
FingerprintOfTask(req) ==
  [session |-> req.session, branch |-> req.branch, task |-> req.task,
   refs |-> Sorted(req.refs), constraints |-> req.constraints,
   tools |-> req.tools, external |-> 0]

\* Mutant of Fingerprint: the external context is taken as it was written.
FingerprintAsWritten(req) ==
  [session |-> req.session, branch |-> req.branch, task |-> req.task,
   refs |-> Sorted(req.refs), constraints |-> req.constraints,
   tools |-> req.tools, external |-> req.external]

Fingerprint(req) ==
  [session |-> req.session, branch |-> req.branch, task |-> req.task,
   refs |-> Sorted(req.refs), constraints |-> req.constraints,
   tools |-> req.tools, external |-> Trim(req.external)]

Given(refs) == SelectSeq(refs, LAMBDA r : r # 0)

\* The text of the turn: a line of the task, one of the refs and one of the
\* constraints, by key.
AgentCallText(req) ==
  <<req.task, Given(req.refs), req.constraints>>

\* Everything the leader's turn depends on: the session and the branch it runs
\* on, the text, whether it has tools, and the context it adds to the packet.
Question(req) ==
  [session |-> req.session, branch |-> req.branch, text |-> AgentCallText(req),
   tools |-> req.tools, external |-> Trim(req.external)]

Fingerprints(b) == {Fingerprint(req) : req \in IngressRequests(b)}

-----------------------------------------------------------------------------
(* What requests have in common, whatever their key *)

Admissible == {b \in Bodies : Admitted(b)}
Asked      == UNION {IngressRequests(b) : b \in Admissible}

\* The questions that are asked under a fingerprint.
Meanings ==
  [f \in {Fingerprint(req) : req \in Asked} |->
     {Question(req) : req \in {q \in Asked : Fingerprint(q) = f}}]

\* One key for each key that was written.
Distinct(raw) == \A k, l \in DOMAIN raw : Trim(k) = Trim(l) => k = l

Times(refs, word) == Cardinality({i \in DOMAIN refs : Trim(refs[i]) = word})

\* The bodies differ in blanks and in the order of refs and constraints only.
Equivalent(b, c) ==
  /\ b.tools = c.tools
  /\ Trim(b.session) = Trim(c.session)
  /\ Trim(b.branch) = Trim(c.branch)
  /\ Trim(b.task) = Trim(c.task)
  /\ Trim(b.external) = Trim(c.external)
  /\ Len(b.refs) = Len(c.refs)
  /\ \A i \in DOMAIN b.refs :
       LET word == Trim(b.refs[i]) IN Times(b.refs, word) = Times(c.refs, word)
  /\ {<<Trim(k), b.constraints[k]>> : k \in DOMAIN b.constraints}
       = {<<Trim(k), c.constraints[k]>> : k \in DOMAIN c.constraints}

\* The pairs of fingerprints that equivalent bodies have.  A body that writes
\* one key twice is left out: its value is left to the order of a map.
Twins ==
  LET plain == {b \in Admissible : Distinct(b.constraints)}
      equivalent == {pair \in plain \X plain : Equivalent(pair[1], pair[2])}
  IN  UNION {Fingerprints(pair[1]) \X Fingerprints(pair[2]) : pair \in equivalent}
=============================================================================

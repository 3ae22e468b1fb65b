# Verification of pancakes-harness

TLA+ models of the harness in `src/`, their model-checking configurations, and
machine-checked proofs about the parts everything else depends on: one answer
per in-flight request, what of a session is sent to the model, and what of it
is compacted and remembered.

The harness is an HTTP server in front of a language model.  It keeps every
session as an append-only list of events (the *spine*) with blobs beside it,
assembles a bounded packet from the spine for each turn, calls the model, runs
the tools the model asks for, and appends what happened.  Equal requests that
arrive at the same time share one execution, and every resolved agent call
leaves a *consult event* on the spine.

## 1. The system

| component | source | state it keeps | operations | interacts with |
|---|---|---|---|---|
| in-flight coalescer | `internal/ingress/inflight.go` | `calls`: key to call; per call a result, an error, a `done` channel, a `sync.Once` | `Enter`, `Complete`, `WaitValue` | every `/v1/agent-call` handler |
| agent-call handler | `internal/server/server.go` 269-545 | the handler's position, `consultCounter` | preflight, `Enter`, turn, consult event, publish, respond | coalescer, session runtime, backend |
| other endpoints | `internal/server/server.go` | - | turn, fork, replay, dream, health, metrics | session runtime, dream daemon |
| session runtime | `internal/runtime/session.go` | `counter`, branch bookkeeping, one object per request | start, user turn, tool calls, fork, replay, compaction hook | backend, assembler, model service, sidecar |
| model service | `internal/model/service.go` | none | call, validate, store the raw response, append its event | adapters, backend |
| backend | `internal/backend` | events by session and branch, blobs, manifests, summaries | append, list, put and fetch blob | everybody |
| preprocessing sidecar | `internal/preprocess/daemon.go` | `running`, the channel, results, counters | `Start`, `Submit`, workers, `Stop` | session runtime, backend |
| self-audit | `internal/audit` | tokens, decisions | record, terminate | session runtime |
| egress, assembler | `internal/egress`, `internal/assembler` | none (pure) | select, assemble, compact in stages | session runtime |
| branches, replay | `internal/branchdag`, `internal/replay`, `internal/summaries` | a graph rebuilt from the spine | fork, replay, checkpoint | session runtime |
| fingerprint, preflight | `internal/ingress/fingerprint.go`, `internal/preflight` | none (pure) | normalise, refuse, fingerprint | agent-call handler |
| compaction | `internal/compactor`, the hook in `session.go` | turns, cooldown, failures | `RecordTurn`, `ShouldCompact`, `MarkCompacted`, `MarkCompactionFailed`; split, call, merge, parse, validate | session runtime, Gemini |
| dream daemon | `internal/dream` | last activity, last dream, counts | `RecordActivity`, `ShouldDream`, `Execute` | server, memory manager, backend |
| memory | `internal/memory` | topics and their files, a capped index, a search index | topics, look up, search, compacted views | dream daemon, session runtime (not in the server) |
| self-healing loop | `internal/consultloop` | attempts | retry, fall back | only its tests |
| review, tools, event log, metrics, commands | see PROJECT.json | little or none | | |

PROJECT.json lists all 25 components with what is modelled of each.

What is hard here:

* **Interleaving.** Every HTTP request runs in a goroutine of its own.  The
  coalescer's `Complete` is not atomic: the result is stored, the channel
  closed and the key freed in three steps, and requests may enter between the
  last two.  The server builds a *new* `Session` for every request, so the
  session's mutex orders nothing between requests, and each such object counts
  event numbers from the length of the spine it read.
* **Partial failure.** Almost every call on the backend runs under the
  request's context and may fail after others have succeeded; the spine is
  append-only, so nothing is undone.
* **Ordering.** A follower's consult event names its leader's; a tool runs
  only after its request is recorded; a raw response is stored before the
  event that names it.
* **Lifecycle.** `Stop` of the sidecar races `Submit` in turn handlers.
* **Restarts.** Topic files outlive the process; everything else does not.
* **Long runs of legal calls.** Trigger, cooldown, failure and budget pressure
  of the compaction scheduler meet over many turns.
* **Limits.** A packet has a hard byte budget; what goes into it is decided by
  eleven cases per event and then cut down in stages.
* **Liveness.** Followers depend on a leader that must publish on every path.

What makes each modelled component correct:

* coalescer: one active leader per key; a follower gets exactly what its
  leader published; nobody joins a call after its key was freed; a published
  result reaches every waiting follower.
* agent call: one payload per call; an answer is given iff its consult event is
  durable; followers' events link back; event ids are never refused; every
  call is answered.
* fingerprint: requests that share an answer asked the same question; requests
  that are the same but for blanks and order share it.
* session: an answered turn has its complete history on the spine; no event
  names a blob that another turn stored; tool events pair up; a turn that
  overlaps no other is never refused an event id; every turn ends.
* branches: however forks name their branches, replay rebuilds a forest; a
  fork's event lies on its parent; what was replayed is never revised; the
  different rebuilds agree on a head that a branch's last event takes, and
  otherwise differ in one direction only.
* packets: none refused that could be made to fit; the question is in it, or
  the one later event that displaced it; local events and other branches' texts are not; tool output
  goes by reference; external context displaces nothing.
* sidecar: an accepted job is never lost or processed twice; `Stop` drains;
  only successes are recorded.
* compaction: none within the cooldown of another; one that came to nothing is
  tried again at once; the stored tree is the model's whole reply.
* dreams and memory: what was reported as stored survives a restart; memory is
  what is on disk; dreams nobody forced keep their distance; compacted views
  drop the events that their order of scores, ages or sizes puts last, and no
  recent one.

The hazards, each at its line and with the properties that watch it, are in
PROJECT.json under `hazards`.

## 2. The modules

    Coalesce                what coalescing promises (abstract)
      ^ implemented by
    Inflight                inflight.go
      ^ INSTANCE
    AgentCall               handleAgentCall over the coalescer
      ^ EXTENDS
    AskedCall               the same on the keys bodies really get
      ^ EXTENDS
    Ingress                 what becomes of a body: validate.go, fingerprint.go
    Session                 handleUserTurn, two or more handlers on one spine
    PreprocessDaemon        the sidecar and those who submit to it
    BranchReplay            forks on the spine and the graph rebuilt from it
    Egress, Assembler       selector.go and assembler.go, pure functions
      ^ EXTENDS
    Packets                 assembleForBranch over both, in turns with tools
    Leaflet                 schema.go: replies, parsing, validation
      ^ EXTENDS
    Compaction              scheduler.go, compactor.go and the session's hook
    CompactView             compaction.go and the RAM index, pure functions
      ^ EXTENDS
    Dream                   the dream daemon over the memory manager's topics
    InflightProofs, AgentCallProofs, SessionProofs, PreprocessProofs,
    BranchReplayProofs, PacketsProofs, CompactionProofs, DreamProofs
                            the theorems (those of AskedCall and AgentCall
                            are in AgentCallProofs)
    MC*                     instances for TLC

### Inflight

A call object is named by the request that leads it; `calls[k]` is the map
entry under the mutex, `call[r]` the ticket `r` holds, `stage[r]` how far
`Complete` has run in `r`'s call, `value[r]` its result, `waited[r]` what
`WaitValue` returned.  Each critical section of the code is one action
(`EnterLeader`, `EnterFollower`, `Delete`); the steps of `Complete` outside the
lock (`Store`, `CloseDone`) and the two branches of the `select`
(`WaitDone`, `WaitExpired`) are actions of their own.  `Complete` under the
`sync.Once` runs its body once, which is the guard `stage = "fresh"`.  A call's
value and its error are one value, as they are written and read together.

`Coalesce` says the same without registry, channel or lock: an execution of a
key begins only while no other is active, requests join it until it is retired,
and each of them is served its result or gives up.  `Inflight` implements it
under the mapping at the end of `Inflight.tla`.

### AgentCall

`pc[r]` is the handler's position; the turn is one step that either appends
`turn.agent` or fails (its interior is `Session`).  `pending[r]` is the value
handed to `publish`; `drawn[r]` the number of the consult event, drawn by the
atomic increment and used by a later append; `counter` is
`Server.consultCounter`.  Every early return of the handler is there:
unresolved or malformed requests, a failed turn, a manifest that cannot be
built, a refused consult event, a wait that expires, a follower whose own
consult event is refused.  The whole coalescer is instantiated, so all its
interleavings occur.  The turn's error codes are one code here; the payload is
the name of the request whose turn produced it.

### Ingress and AskedCall

`AgentCall` coalesces by keys it knows nothing of.  `Ingress` is what the
handler does before that: a body is refused (`Malformed`), unresolved (no
branch) or becomes an `IngressRequests` with trimmed words, sorted refs and
constraints by trimmed key, and that gets a `Fingerprint`.  A string is a word
with or without blanks; a digest is equal when its inputs are.  `Question` is
everything the leader's turn is given: session, branch, the text of
`buildAgentCallText`, tools or none, the external context.  `AskedCall` puts the
two together: its keys are fingerprints of bodies, its properties relate the
answers of `AgentCall` to the questions.  A body that writes one constraint key
twice (equal once trimmed) has several `IngressRequests`, one for each order of
the map.

### Session

One action per call on the backend, with everything the code does up to the
next such call.  `counter[r]` is the Session object's counter; an event's
identity is its number and kind, exactly what the backend compares
(`session.go` 605-608), with number 0 for ids that are unique by construction.
Numbers drawn for ids that never reach the spine (the turn's consult id, the id
of an unnamed tool call, refused appends) move the counter as in the code.
`seen[r]` and `trace[r]` record whose `turn.user` the packet took as current
and whose packet and response `findTrace` picked; `shared` is a history
variable, the handlers that ran while another one did.  A backend call under
the request's context may fail; as the code ends the turn at the first failure,
no context variable is needed.

### PreprocessDaemon

`Stop` in its three steps (clear `running` under the lock, close the channel,
wait for the workers), `Submit` in its two (check under the lock, send
afterwards), the workers' loop, and the record on the spine after the lock is
released.  A send on the closed channel panics.  `Start` precedes `Stop`, as in
`cmd/harness/main.go`, the only caller.

### BranchReplay

The spine is a sequence of events; an event's id is its place, 0 the empty id.
A fork (`handleBranchFork`, `Session.ForkBranch`) reads the parent's last event
and appends `branch.fork` in a later step without looking at the branches that
exist; turns, summaries and other forks append in between, and the append may
fail.  `graph` is what `RebuildBranchStateFromEvents` makes of the spine, kept
up to date by `Observe`, one turn of its loop, with the operations of
`branchdag` under it; so `graph` after any number of steps is the replay of
that spine.  `BranchHeads` is the other rebuild that `ReplaySession` returns,
`RebuildFromSummary` the third, from a checkpoint and the events after it.
Summary events are read by the replay though no code in `src/` writes them:
they are the environment's.  A fork request may name branches nobody wrote to,
existing children and its own parent, as the handler checks only that the names
are not empty.

### Egress, Assembler and Packets

`Egress!Reason` is the selector's switch: the reason it gives for an event, in
the order of its cases; `Select` keeps what is not excluded, with its text only
where it passes through.  `Assembler` normalises a body, drops the external
context if the body does not fit, and applies the stages until it does;
`Assemble` takes the least stage that fits, which is the loop's.  The loop drops
the context at stage 0 and measures the body again there, so `WithinBudget`
comes before the stages.  A text is its length and a body's size a sum of
lengths with fixed frames, where the code measures the JSON: only the order of
sizes matters to the stages.  The selector's explanation (counts, a sample of the
excluded) is left out, as are constraints and the frontier, which no caller sets.

`Packets` runs them as the code does.  The spine's events keep what
`assembleForBranch` reads of them: kind, branch, length of text, whether there
is a reference and a blob.  `turn` is the turn being handled, `packet` what was
just assembled or refused.  One turn runs at a time, under the Session object's
mutex; the sidecar, consults, forks and checkpoints append in between
(`AppendOther`).  That turns of *different* Session objects interleave is
`Session`'s subject.  `indexed` is what the memory manager's search index holds;
a search may return any of it.  No session the server starts has a memory
manager or a compactor (`server.go` 782-791); the model allows the former.

Two things a reader of the code may not see at once.  With the session as the
only caller, stages 1, 2, 3, 4, 6 and 7 change nothing: it sets no debug,
provenance or checkpoint fields, and items with references have no text left
after selection and normalisation.  What really happens is: everything; without
the external context; only the newest item; refused.  And a turn whose text is
large and stale stays in the packet as an item without text, blob or reference.

### Leaflet and Compaction

A reply is the sequence of its nodes as `flattenGeminiNode` stores them, children
first; of a node `Leaflet` keeps id, kind, parent, the events it refers to and
whether `MemoryLeaf.Validate` passes it.  `Parse` makes the map of leaves, in
which a later node with the same id replaces an earlier one; `Valid` is the walk
from the root over that map.  `IsLeaflet`, used by the property only, says of the
reply itself what the walk is meant to establish.  A reply may be anything that
nested JSON nodes can be once flattened (`IsTree`, assumed of `Replies`): children
before parents, one root, ids, kinds and contents whatever they are.

`Compaction` has one action per call on the backend or the model in
`recordTurnAndMaybeCompact` and `runCompaction`; `sched` holds the scheduler's
fields, its methods are operators on them.  The turn is one step.  Turns of the
session follow one another (the Session object's mutex covers the hook), other
components append meanwhile.  Every refusal is a choice.  `turns` and `attempts`
are history: the answered turns, and the passes with their reason and outcome.

### CompactView and Dream

`CompactView` has the functions that leave events out, by score, size or age, and
`BuildCompactView`; an event is its place on the spine, a view the set of places
kept.  `Dream` runs requests of `/v1/dream` concurrently: `ShouldDream` and the
end of `Execute` are critical sections of the daemon's mutex, `GetTopic` and the
whole of `CreateTopic` and `UpdateTopic`, file included, of the manager's (`lock`
is who holds it for writing).  `topics` is what the manager has in memory, `disk`
the files; 0 is no topic, another number the events the summary was made from, at
least two.  A write may fail; a failed create ends the pass, a failed update is
reported as an update.  `Restart` ends the process at any point, loads the files
and begins everything else anew; it comes between write and rename as well, where
the file has the old content.  `created`, `check`, `unsaved` and `finished` are
history.  Events are appended and indexed in one step.

## 3. The runs

| run | instance | what it shows |
|---|---|---|
| `inflight` | 4 callers, 2 keys, 2 values | `IInv`, one leader per key with it, and `Coalesces`: the refinement with its fairness |
| `agentcall` | 3 requests, 2 keys, made of three bodies of which two are equivalent; some 2,000 bodies to compare them with | `RecordInv`, `FollowerEventsLinkBack`, `OnePayloadPerCall`, `ResolvedLeavesConsult`, `NoOverlappingTurns`, `SharedAnswerFits`, `TwinsCoalesce`; `NeverJoinsAnswered` as an action property; `EveryCallAnswered` under fairness |
| `session` | 2 overlapping turns, 1 round, 1 tool call under an id both choose | `AnsweredIffRecorded`, `BlobsAreOwn` |
| `session_serial` | 2 turns, one at a time, 2 rounds, up to 2 unnamed calls a round, 1 foreign event | `ToolCallsPaired`, `AloneNeverRefused`, `AloneSeesOwn`; `EveryTurnEnds` under fairness |
| `session_overlap` | 2 overlapping turns, no tools | violation of `NoTurnRefused` |
| `preprocess` | 4 jobs, 2 workers, a channel of 1 | `DaemonInv`, `AcceptedInOnePlace`, `StopDrains`, `AcceptedSettles` |
| `preprocess_stop` | 3 jobs, 2 workers, a channel of 1 | violation of `SubmitNeverPanics` |
| `packets` | 2 branches, 3 turns of up to 2 rounds, 9 events, one of them an extraction or a checkpoint; texts of 1 and 8, context of 3, a body of at most 8 | `PacketInv`, `RejectionIsLastResort`, `QuestionReaches`, `NothingPrivateSent`, `ToolOutputByReference`, `ContextDisplacesNothing` |
| `packets_new_kinds` | the same with 1 turn, 5 events, an extraction | violation of `NewKindsStayLocal` |
| `branches` | 3 branches, 2 forks at a time, 4 events | `BranchInv` (with `ForkPointsAtParent`, `HeadsAgree` and `DirtyEndsAtHead`), `LineageIsForest`, `DeltaAgrees`; `LineageStable` as an action property |
| `compaction` | 2 branches, 4 answered turns, trigger and cooldown of 2 turns, at least 2 events, chunks of 2, 2 events of others; every tree of up to 4 nodes under every pattern of equal ids, and 5 that are wrong otherwise | `CompactionInv`, `CooldownHolds`, `RetriedAtOnce`, `ValidatedIsWhole` |
| `dream` | 2 requests, 3 topics, 3 hours with a period of 1, 4 events, 2 starts, an index of 2; views under every configuration of up to 2 recent events and 2 to drop, every cutoff, three budgets | `DreamInv`, `TopicsDurable`, `ThresholdDreamsSpaced`, `ScoreAndAgeViews`, `BudgetViews` |

**Why the bounds are enough.**  Four callers on two keys give two leaders of
one key in a row with a follower each (one of them late, between close and
delete), three followers on one call, and two keys at once; more callers repeat
these.  Three requests give `AgentCall` a leader with two followers and a second
leader of the same fingerprint.  Two handlers suffice for a session because
every conflict there is between two drawn numbers; two rounds with two calls
move the counter past the spine's length, which is the interesting case for
`AloneNeverRefused`.  `EveryTurnEnds` is checked there too, since only with a
second round does a turn continue or call tools again, and run out of rounds;
ids are refused there as well, after a turn of three or four unnamed calls.
Overlapping turns of two rounds are too many states for TLC: `session` keeps to
one round, and what it checks is proved of any number.  A channel of one is full as soon as the two workers are
busy and a job waits; the fourth job is then refused.  Four events on three branches make a fork of a fork, a
fork of an existing branch, of itself and in a circle, each overtaken by another
event; the proofs need no bound.  For the packets all lengths are scaled down
so that nine events reach every outcome: packets whole, without context, with
the newest item only, refused; large texts fresh and stale; a question displaced
by its own tool's result; events of another branch with and without a blob.  Two keys of equivalent bodies and one of
another show `AskedCall` both ways to go wrong, a key that says too much and one
that says too little; each field of a body comes with and without blanks, refs
in either order, repeated and empty.  Four turns with a trigger and a cooldown
of two give a compaction, its cooldown and the next one, and a failure with its
retry and the turn after it; a reply of four nodes has two children under one
node and a path of full depth, which is what equal ids can break.  Two passes
over one topic, one event short of and past the two a summary needs, and a restart in
either are all that `TopicsDurable` tells apart; three hours put a forced dream
between an activity and the next check.  The values are smaller
than the code's (a channel of 64, four rounds) and the numbers of jobs and
turns are bounds on the environment.

**Deadlock** is not checked: every model stops when its requests are done, and
so does the program; those with a bound on the spine stop there as well.

**Fairness.**  A handler, once started, goes on: its steps are weakly fair,
since goroutines are scheduled and neither the mutex nor the channel operations
block for ever.  That a turn ends is an assumption on the environment: adapters
and tools run under the request's context.  Nothing is assumed to end a
follower's context, so `EveryCallAnswered` does not rest on timeouts.  In
`Inflight` nothing makes a leader complete; that is `AgentCall`'s business.
Workers of the sidecar are fair because `processJob` runs under a timeout; a
`Stop` that has begun goes on, but nothing makes `main` stop.  `Compaction`,
`Dream`, `BranchReplay` and `Packets` state safety only and assume no fairness.

**Each property can fail.**  For every property of every passing run PROJECT.json
names a mutant: a plausible bug, such as a release that frees the key before it
closes the channel, an early return that does not publish, an id used without
moving the counter.  The mutated operators stand beside the definitions they
vary, marked "Mutant of".

### Findings

* `session_overlap`.  Two different requests that overlap on one session start
  with the same counter and draw the same event ids; one of them is refused its
  first event and fails.  `server_test.go:973` expects both to answer 200.
* `packets_new_kinds`.  `selector.go:168` says that the event kinds new in v0.3.0
  are "spine-only, never egress", and `kinds.go` lists `preprocess.extraction`
  among them, but the selector has no case for it: a packet assembled after the
  sidecar has recorded its extraction holds it, and as the newest event it is
  what stage 5 keeps instead of the question.
* `preprocess_stop`.  `Submit` sends after it has released the lock, so a `Stop`
  in between makes it panic in the turn's handler, against the comment at
  `session.go:47-49`.

Four more claims of the repository are not kept by the code.  They have no
run of their own: the first is about code outside the models, the others are
stated as what the code does instead, by the properties named.

* **The byte limit.**  `README.md:64`, `PLANS.md:33` and `HARNESS.md:11` (all of
  `src/`) claim it for the whole outbound request.  `Assemble` measures the
  packet with the request line and headers it was given, and returns none that
  is larger; that is its own guard, so no property repeats it.  The adapters
  build their request around the packet and do not measure that:
  `ollama_adapter.go:79-138` adds a system prompt, a response schema and the
  escaping of the packet as a JSON string, so a packet near the limit leaves in
  a request beyond it.  `Assembler`'s properties speak of the packet only.
* **Which scores go.**  `CompactByScore` says it removes the lowest
  (`compaction.go:42`, `:72`, `:80`; `HARNESS.md:73`, "Trim lowest-value
  messages").  It sorts them to the front and keeps the front (`:91`), so the
  highest go: `HighestScoresGo` in `ScoreAndAgeViews`.
* **How many go by age.**  `MaxCompactEvents` "limits how many events can be
  compacted in one pass" (`compaction.go:19`).  `CompactAgeThreshold` counts to
  it and stops (`:247`), and everything it has not come to but the recent
  events is dropped, old or not, and not counted: `AgeDropsOldOrAll`.
* **Overlapping turns.**  `server_test.go:987-988` expects two overlapping
  requests to get their own answers.  A turn takes the latest `turn.user` of
  its branch as its question (`session.go:409`), so one that lists the spine
  after another has appended answers the other's; `findTrace` picks the latest
  packet and response likewise.  `AloneSeesOwn` says what is left: a turn that
  overlaps no other sees its own.

Known behaviour that no document contradicts, hence no finding: a leader whose
client disconnects fails its followers too; after
a turn of three tool calls to which the model gave no id (`call_id,omitempty`,
`internal/model/types.go:33`) even a turn that overlaps nobody may be refused an
event id.  Each such call draws a number for itself that no event carries
(`session.go:562-565`), so the numbers of that turn's events run ahead of the
number of events, from which the next Session object starts (`session.go:141`).
Two unnamed calls never suffice, which is what `AloneNeverRefused` says and
`AloneIsNotRefused` proves for any number of turns; three do.

Of compaction:

* `ResponseSchema` does not by itself make a reply valid, as its comment has it
  (`schema.go:272`): ids may repeat and a kind stand at the wrong depth
  (`SchemaIsNotEnough` in `MCCompaction`); `Validate` is what keeps such replies
  out.  The trees of chunks are not validated, so repeated ids in them lose
  coverage.
* `ChunkThresholdBytes` (`compactor.go:57`) never splits anything: chunks are cut
  by number of events only.
* When the branch cannot be listed, the scheduler keeps the count of an earlier
  turn and may begin a pass on no events, which fails and is recorded as a failure.
* Appends of the tree's blob, `ast.persisted`, `compaction.complete` and
  `compaction.failure` are ignored when they fail (`PLANS.md:567`), so the spine may
  name a blob that was never stored, against `PLANS.md:569`.
* `lastBudgetRatio` is never reset: after one turn under pressure every cooldown's
  end begins a pass.  The scheduler counts turns of the session, its events are
  those of the branch, so `RetriedAtOnce` excepts turns on another branch.
* The server configures no compactor; the hook runs in programs that do.

Of dreams and memory:

* `RecordActivity` is called by no part of the server, so there only forced
  dreams happen (`HARNESS.md:86` has the thresholds).  `cmd/dream` records activity
  right before it checks, so its thresholds are never met either, and its forced
  pass reads a backend of its own that is empty.
* Two checks that pass before either dream has finished dream twice, against the
  comment at `daemon.go:122`; with no `RecordActivity` nothing reaches it today.
* Without a daemon a request that does not force the trigger dereferences nil
  (`server.go:750`).
* A failed update is reported as done (`daemon.go:155-160`); a topic whose create
  failed stays in memory; overlapping passes may write an older summary over a
  newer; topics are not per session; nobody creates `TopicDir`; `DeleteTopic` leaves
  the file.
* `Execute` reads `sessionCount` without the lock for its report
  (`daemon.go:148`); `LookupByFingerprint` counts its hits under a read lock.
* No program code calls the functions of `compaction.go`, nor `BuildCompactView`,
  the look-ups, `Fork` or `DeleteTopic`.

Of ingress: a body that writes one constraint key twice may get another
fingerprint each time (`server.go:849-866` walks a map), so two equal requests of
that kind may both run.  `TwinsCoalesce` leaves such bodies out.  The sort in
`Fingerprint` is redundant after the one in `normalizeRefs`.

## 4. The proofs

The eight modules `*Proofs` are checked by TLAPS for all sets of requests, keys,
values, jobs, workers, branches, lengths and byte limits.  The assumptions are that the sentinels
`None` and `Expired` are different from one another and from requests, keys,
results, jobs and branches (`SentinelAssumption` in `Inflight` and `AgentCall`,
`ResultAssumption` in `AgentCall`, `NoneAssumption` in `PreprocessDaemon`,
`BranchReplay` and `Packets`), that the sidecar has a worker (`WorkersAssumption`; `NewDaemon`
sets two when none are configured) and a channel of some capacity
(`QueueAssumption`; 64 by default), that lengths, byte limits and the model's
bounds are numbers (`LengthAssumption`, `BytesAssumption`, `BoundsAssumption`,
`BoundAssumption`, `ScheduleAssumption`, `ChunkAssumption`), that a reply is a tree of
nodes in the order they are flattened (`RepliesAssumption`), that `turn` and `dream`
are topics (`TopicsAssumption`), and that the events other components append are of the kinds
they write (`KindsAssumption`, `WritingsAssumption`).  Nothing relates the byte limits to one another.
For a session they are `ConstantsAssumption` (bounds are numbers) and
`SentinelAssumption` (`None` is no request, decision, blob or end of a turn); for the keys
`KeysAssumption` (every key is some body's fingerprint) and `BodiesAssumption` (a body's
refs are a finite sequence of strings).

**The coalescer.**  `OneLeaderPerKey` is not inductive: a free key must also
mean that nobody leads it.  `RegistryExact` says that the registry holds
exactly the calls not yet deleted, each under the key it was entered with;
`TicketsShareKey` that a ticket is on a call somebody leads with that key;
`StoredHasValue`, `OnlyFollowersWait` and `WaiterGetsPublished` tie values to
stages.  Their conjunction with the types is `IInv`.

* `InflightInvariant`: `IInv` holds throughout.
* `SingleLeader`: one active leader per key, from `RegistryExact`.
* `PublishedValueReachesWaiters`: a returned wait holds what the leader
  published, from `IInv`.
* `InflightImplementsCoalesce`: the safety part of the refinement: initial
  states map to initial states, each step to a step or a stutter.

**The handler.**  `CallInv` joins `IInv` with `Control` (what a handler's
position says of its ticket and of the stage of its call), `Provenance` (a
leader holds a resolved result only of its own turn, whose answer and consult
event are on the spine), and the two properties below.

* `CallInvariant`: `CallInv` holds throughout.
* `PayloadShared`, `LinksPointBack`: `OnePayloadPerCall` and
  `FollowerEventsLinkBack`.
* `TurnsExclusive`: `NoOverlappingTurns`, from `Control` and the coalescer's
  `RegistryExact`.
* `JoinsOnlyPending`: `NeverJoinsAnswered`; a registered call is not deleted,
  so its leader has not written.
* `HandlersUseCoalescer`: every step of the handlers is a step of the coalescer
  or leaves it alone, so all its theorems hold of them.

**The records** (in `AgentCallProofs`, as are the keys).  `RecordInv` adds to `CallInv` that consult numbers are drawn
once and lie below the counter (`DrawnOnce`), that a consult event is of a
request that drew its number and holds or was answered a resolved result
(`ConsultsTrue`), and that whoever was answered one without leading has
recorded it (`FollowersRecord`).

* `RecordInvariant`: `RecordInv` holds throughout.
* `ConsultIdsFresh`: `DrawnIdsAreFresh`; an event of the same number would be
  of the same handler, which is past appending.
* `AnswersRecorded`: `ResolvedLeavesConsult`; for a leader by way of
  `Provenance` and the published value, for a follower by `FollowersRecord`.

**The keys.**  Whether two bodies asked the same is decided by what the
fingerprint keeps of them, and that is sorted and trimmed.  The first half of the
argument is about sorting: a rearrangement of a sequence that is in order is
determined by the words in it (`SortedAlike`), because two that differ at a place
would have to put more words into an interval than it has room for
(`PlacesOnto`, a pigeonhole).  `SortedTwice` is the redundant second sort.  The second half goes
through the fields of a body: `OneQuestion` (a fingerprint determines the question),
`OneMeaning` and `TwinsAreEqual` (bodies that differ in blanks and order only have one
fingerprint, if no constraint key is written twice).

* `AnswersFit`: `SharedAnswerFits`; the payload is of a leader with the same
  key by `CallInv`, hence of the same question.
* `EquivalentsCoalesce`: `TwinsCoalesce`, from `TwinsAreEqual` and `NoOverlappingTurns`.

**The session.**  The five properties below hold for any number of handlers, rounds, tool
calls and foreign events.  `SessionInv` joins them with what makes them inductive:

* `FateFits`, `HistoryFits`: what a handler's position says of its end and of its
  events on the spine: `turn.user`, then the packet, then the packet sent under the
  number after the response's, then the response whose blob it stored itself.
* `ToolFits`: the call being run is the last thing its turn has appended.
* `AloneFits`: a handler nobody overlaps has the latest event of every kind that
  `assembleForBranch` and `findTrace` search for.
* `CounterFits`, `NumbersFit`: how far a counter, an event's number and a blob's
  number may be ahead of the number of events.  Every unnamed call puts the counter
  one further ahead, every completed round takes one back; hence `Slack`, and hence
  the bound of two in `AloneNeverRefused`.
* `OwnNumbersFit`: within a turn no number is used twice; `AloneBeganAfter`: a handler
  alone drew all its numbers after what others left.

Nineteen actions and fourteen conjuncts make too many cases to take one by one.  A step
is therefore first described from outside (`Kept`, `Unmoved`, and what it does to the
fields of its own handler), and each conjunct is kept by a lemma of its own that
needs only that description.

* `SessionInvariant`: `SessionInv` holds throughout.
* `TurnsAreRecorded`, `BlobsStayOwn`, `CallsArePaired`: `AnsweredIffRecorded`,
  `BlobsAreOwn` and `ToolCallsPaired`, of overlapping turns as well.
* `AloneIsOwn`, `AloneIsNotRefused`: `AloneSeesOwn` and `AloneNeverRefused`.

**The sidecar.**  `DaemonInv` says, beside the types, that an accepted job is in
the channel, in one worker's hands or among the results, and in no two of them
(`JobsExact`); that a worker leaves only when the channel is closed and empty
and `Stop` goes through its steps in order (`Lifecycle`); and that the counters
are those of the results (`RecordsCounted`).

* `DaemonInvariant`: `DaemonInv` holds throughout.
* `JobsAccounted`: `AcceptedInOnePlace`, each of its counts being one or none.
* `StopLeavesNothing`: `StopDrains`; when all workers have left, `Lifecycle`
  empties the channel and `JobsExact` leaves the results as the only place.
* `RecordedSucceeded`: `ExtractsSucceeded`.

**The branches.**  The heart is a pair of lemmas about one event: `OpenedFacts`
(the event's branches exist, those that did are untouched, a new one is empty or
hangs below its parent) and `ObserveFacts` (only the event's own branch changes,
and not its place in the lineage).  `BranchInv` joins what waiting forks have
read (`ReadsFromParent`) with the properties, so that a fork appended late still
points at an event of its parent.

* `BranchInvariant`: `BranchInv` holds throughout.
* `LineageForest`: `LineageIsForest`; of any set of branches, the old ones
  contain one whose parent is outside, and if all are new the parent is new and
  has none, or is outside.
* `ForkPoints`, `HeadsOfReplay`: `ForkPointsAtParent` and `HeadsAgree`.
* `LineageNeverRevised`: `LineageStable`.
* `DeltasAgree`: `DeltaAgrees`.  The full replay skips a checkpoint and moves its
  head to the basis of a rebuild that names one; the rebuild from a checkpoint
  counts both as events (`replay.go:108-131`, `:158-170`).  So the two name one
  head exactly if the branch's last event is neither (`TakesHead`), and
  otherwise the full replay stays behind; where both have a dirty range and
  agree on the head they agree on its end.  From `HeadsAgree`, which says the
  same of the two rebuilds `ReplaySession` returns, and `DirtyEndsAtHead`.

**The packets.**  Two relations carry the argument.  `Cuts(i, j)`: item `j` is
`i`, possibly without a text that a reference stands for.  `CompactsTo(b, s, c)`:
what `s` stages make of a body, which is all its items cut before stage 5 and the
newest one cut from there.  Each stage is shown to keep them (`RewriteTrims` and
its instances, `NewestFacts`), their composition gives `CompactedFacts`, and
`AssembleFacts` adds that the least stage that fits exists or none does.  On the
other side `RequestFacts` says what the selector lets pass: items that show
events of the spine (`Shows`), and every turn of the branch (`HasTurn`).
`PacketInv` is needed for one thing: payloads are as their writers make them (a
turn has no reference, a tool's result always has one) and the question is the
branch's last, so that the selector's cases fall as they should.

* `SpecPacketInv`: `PacketInv`, one step per action.
* `SpecRejectionIsLastResort`, `SpecQuestionReaches`,
  `SpecNothingPrivateSent`, `SpecToolOutputByReference`,
  `SpecContextDisplacesNothing`: the five properties of the packet, all from
  `AssembleStep`; other steps clear the packet.

**Compaction.**  `CooldownHolds` and `RetriedAtOnce` speak of the history of
passes; what connects them to the scheduler's fields is `CompactionInv`:
`CooldownCounted` (the cooldown's counter is never ahead of the turns since any
finished pass) and `RetryPending` (after a pass that came to nothing, everything
`ShouldCompact` looks at still speaks for one).  `NextKeepsAllInv` shows the three
together, by groups of steps: turns, the decision, steps within a pass, outcomes.
`DecidingCounts` and `LastIsRetried` are the decision's two halves.

What is stored (`ValidatedIsWhole`) rests on two facts about functions, and on
`WholeInv`, which carries them from the chunks and the validation to the end of the
pass.  The first is that the walk of `Validate` over the map of leaves, where of two
nodes with one id only the later is left, finds out any reply with twins.  The walk
exists (`WalkExists`) and comes to an end with nothing left to visit (`WalkEnds`).
It then has visited distinct ids and every place that was `Due`, that is whose
parent's leaf it has visited and which that leaf, not an earlier twin's, lists.
Going down from the root, the first place with a later twin would have been visited
as well as the twin (`AllLive`): two visits of one id, which the walk refuses.  The
second is that the chunks put together are the events (`ChunkEnds`, `SplitJoins`).

* `CompactionInvariant`, `CooldownIsKept`, `FailedIsRetried`: the three, for every
  schedule, any branches and any replies.
* `ValidIsLeaflet`: a tree that passes `Validate` has unique ids and every node in
  the tier of its kind, and its coverage has the events of all nodes.
* `StoredTreeIsWhole`: `ValidatedIsWhole`, of any replies that are trees.

**Dream.**  `DreamInv` ties the manager's mutex to the pass that is writing
(`LockHeldWhileWriting`), the pass's work to what it has in memory (`WorkInHand`) and
the daemon's times to the last finished dream (`ClockInOrder`).  The steps of a
pass fall into three groups, those that take the mutex, those that give it up
and the rest (`TakesStep`, `GivesStep`, `PlainStep`); the lock makes the writing
pass the only one, so that memory and file of a topic change in turns.

* `DreamInvariant`, `TopicsAreDurable`: for any number of concurrent passes,
  failing writes and restarts.
* `ThresholdDreamsAreSpaced`: from `ClockInOrder`; after a restart the daemon
  knows no dream, but it then needs activity, which is later than all of them.
* `ScoreViewTakesHighest`, `AgeViewHasNoLimit`, `SizeViewTakesLargest`,
  `CompactViewKeepsHighest`: what each function of `CompactView` drops, of any number
  of events, any scores, sizes, cutoff and budget and any configuration.  They are
  facts about functions; `ViewsByScoreAndAge` and `ViewsByBudget` state them of
  what a process has recorded, as the run checks them.  All but the cut by age sort
  by a key and cut, or take from the top: `FirstFacts` says that the
  first `count` of a finite ordered set are that many, and that one more adds one.
  `TotalSize` recurs over sets of places; that such a function exists, is the only one
  and does not depend on the order (`SumsExist`, `SumsAgree`, `TotalWithout`, `TotalGrows`)
  is shown by looking at a smallest set for which it fails (`Smallest`).

**Only model-checked.**  Everything about liveness (`EveryCallAnswered`,
`EveryTurnEnds`, `AcceptedSettles` and the fairness part of `Coalesces`), which
is out of the prover's reach.  Every invariant and every action property of a
passing run is stated by a theorem.

## 5. Not modelled, and why

* Restarts of sessions: both backends keep sessions in process memory, the `xs`
  adapter included, so a restart loses them and there is nothing to recover.
  Topic files are the one thing that survives, and `Dream` restarts over them.
* Panics of a turn.  `publish` is not deferred, so a leader that panics leaves
  its key registered and its followers waiting; see the hazard at
  `server.go:439`.
* The self-healing loop (`consultloop`): no program code calls it.  Reading it
  shows that `RecoveryPrompt` is never passed to the turn although the event says
  it was injected, that "context canceled" counts as recoverable, and that a success
  after a retry records a second event.
* The replay endpoint reads the spine twice, for the state and for its consult
  events, so the list of consults may run ahead of the state; `BranchReplay` has
  the state only.
* Adapters, parsers, prompts, metrics, commands: input, output and formats.
  Their outcomes are choices in the models.
* Search scores, embeddings and hit rates: what a search returns is any of what
  is indexed.  The search index is shared by all sessions of a process, and
  bootstrapping it again counts its events again.
* Consult manifests, the review store, the tool gate: records, paging and a table
  of patterns, without concurrency of their own.
* The token budget of the self-audit: its early termination is off in every
  session the server starts.

## 6. What is left

Panics as outcomes of a turn in `AgentCall`, once `publish` is deferred; the tool
gate and the review store as functions.

# TLA+ models of kafkaagentswarm

kafkaagentswarm runs a DAG of LLM agents without a coordinator. A Kubernetes
operator turns an `AgentSwarm` resource into Kafka topics and one Deployment per
Worker node; each pod (`cmd/runner`) consumes its node's input topic, runs an
agent loop and publishes to the input topics of the nodes that depend on it.
This directory models both halves, checks them with TLC on small instances and
proves nearly all of their safety properties with TLAPS for instances of any size.

## 1. Inventory

| Component | Source | State | Operations | Properties that make it correct |
|---|---|---|---|---|
| Consume loop, fan-in join, recovery | `cmd/runner/handler.go`, `join.go`, `main.go` | join buffer, changelog topic, claims, marks, committed offsets | `ConsumeClaim`, `join`, `completeCorrelation`, `publish`, `writeJoinState`, `tombstoneJoinState`, `hydrateJoinState`, recovery loop, shutdown | nothing committed is lost; joins are complete unless an undeclared source stands in; none gets stuck; only published joins are deleted; every task is eventually published |
| Agent loop, MCP tools | `agent.go`, `mcp.go` | tool bindings, conversation, turn | `connectMCPTools`, `agentLoop`, `chat`, `callToolForAgent` | every tool call is answered once; the loop ends; tools are the allowed ones |
| Message format | `envelope.go`, `publish` | none | `parseOrWrapEnvelope`, `newCorrelationID` | an envelope survives a hop; IDs are stable under redelivery |
| Merging | `join.go`, `agent.go` | none | `mergeJoinedData`, `extractJSONObject`, `mergeFinalAnswer` | no source and no field gets lost, in any map order |
| The swarm as a whole | all of these, wired by the reconciler | the topics and changelogs of all nodes | an event travels from the entry node over its branches to the gate | every event is decided; no two events are mixed; what crashes leave behind does no harm |
| Reconciler | `internal/controller` | AgentSwarm, topics, Deployments, caches, work queue | `Reconcile`, `ensureTopic`, `reconcileDeployment`, `buildDeployment` | topics before workers; no request is lost; in the end every node of the spec is applied |
| Resource types | `api/v1alpha1` | the spec's nodes | | (data of the reconciler) |
| Manager process | `cmd/main.go` | | start, leader election | a restart loses no work |

How they interact: the operator and the runners share no memory. The operator
creates topics and Deployments and hands each runner its wiring in environment
variables; the runners meet each other in Kafka only (input topics, consumer
group offsets, changelog topics). A runner talks to an LLM endpoint and to MCP
servers over the network.

What is hard to test here: crashes between two remote calls of
`completeCorrelation`; redelivery after a commit that came too late; rebalances
in the middle of an agent loop that takes minutes; two pods with their own copy
of the join buffer; map iteration order; and, in the operator, edits, stale
caches and partial failures between any two calls of `Reconcile`.
`PROJECT.json` lists each of these hazards at its line, with the properties
that would notice it going wrong.

## 2. Modules

| Module | Models | Used by |
|---|---|---|
| `Runner` | one Worker node: its pods, its input topic, changelog and downstream topics | `MCRunner`, `RunnerProofs` |
| `AtLeastOnce` | abstract: what a node promises to the swarm | `Runner`, which implements it; `AtLeastOnceProofs` |
| `Changelog` | one changelog partition and its hydration, by offsets, under compaction | `MCChangelog`, `ChangelogProofs` |
| `Swarm` | the nodes of a DAG together, each as coarse as `AtLeastOnce` allows | `MCSwarm`, `SwarmProofs` |
| `Controller` | the reconciler, with the API server, caches and Kafka around it | `MCController`, `ControllerProofs` |
| `AgentLoop` | one task's agent loop and the MCP connections | `MCAgentLoop`, `AgentLoopProofs` |
| `Envelope` | parsing, wrapping and publishing one record | `MCEnvelope`, `EnvelopeProofs` |
| `Merge` | a fan-in node's data from contributions to published result | `MCMerge`, `MergeProofs` |

`MCX` instantiates `X` for TLC, `XProofs` has the theorems about `X`.

### Runner

A pod has one goroutine per claimed partition and the main goroutine; `task`
holds where each is in `completeCorrelation`: in the agent loop, publishing the
k-th topic, or between the deletion from the buffer and the tombstone. `joins`
is `handler.joins`, `joinState` the changelog as a map from key to latest value
(what compaction keeps), `pos` and `marked` the claim's delivery position and
`MarkMessage`, `committed` the group's offset. Data is abstract: a contribution
is the event it stems from, a published record the correlation ID with the
contribution of each source. That is all the properties can tell apart; what
merging does to fields is in `Merge`.

Each handler is one action up to its next remote call: `ReceiveJoin` is `join`
under the mutex with its changelog write and the mark that follows, `Publish` is
one `SendMessage`, `ForgetJoin` and `TombstoneJoin` are the end of
`completeCorrelation`. Every `log.Fatalf` is an action that ends the process
(`RecordFails`, `AgentLoopFails`, `PublishFails`; `Crash` for startup), and a
failed send may have landed. `ConsumeClaim` processes a message to its end
before it takes the next one, and `EndSession` and `Shutdown` wait for that.

External, modelled from the way the runner uses it: partitioned logs, hash
partitioning by key, periodic auto-commit of marks (accepted from the owner of
a partition only), and a group coordinator that may hand a partition to another
pod while the first still works on it. Upstream nodes key by correlation ID
(`Keyed`) and may send twice; other producers need not use a key.

### AtLeastOnce

The promise a node makes, without pods, goroutines or offsets in flight: it
commits only records that are *settled*. A record is settled when it was
delivered to every downstream topic; at a fan-in node also while it is held for
its join, or when a later contribution of the same source takes its place.
`Runner!Node` instantiates it: the held records are those the changelog has
(`Held`), a topic has been delivered the contributions its records were made from
(`Delivered`). `ImplementsAtLeastOnce` says that every action of the runner is a
step of `AtLeastOnce` or changes nothing in its view: a crash does nothing at all, a
tombstone is a `Release`, a contribution that overwrites a committed one whose
join is incomplete is nothing it allows. `Hold` may drop delivered records along
with the one it replaces: after a failed tombstone, the next contribution with that
ID starts a new entry over the published one. That is how two pods of a fan-in node fail it.

### Changelog

`log` is everything ever written to the partition, `kept` what compaction has left
of it. `GetNewest` and `ReadRecord` are `hydratePartition`, `Applied` is
`applyHydratedRecord`. The reader sees holes; another pod writes beyond the newest
offset it asked for. `Runner!HydratePartition` copies the latest values in one step;
`HydratedIsCurrent` is why that is right when nobody else writes. Assumed of the broker,
because the operator creates the topic with the compact policy: the last record is
never removed, and tombstones outlive a hydration.

### Swarm

A node's action is a whole `ConsumeClaim` round: `HandleStraight`, `HandlePartial`,
`HandleComplete`, and `Recover` for main's loop. `CrashStraight`, `CrashJoin`,
`CrashRecovering` and `CrashIdle` end a process anywhere in such a round, with the
result in some of the output topics; `RestartFrom` hydrates the buffer and goes on
from any offset that may have been committed (`ResumeFrom`). A node also sends and
receives twice without a crash: `Rebalance` resumes from an earlier offset with the
buffer it has, a pod that lost its partition during an agent loop publishes after
all (`PublishLate`), and the producer retries what had arrived (`Resend`).
`PublishLate` does not remember which record such a pod has in hand; it allows any
record of the topic, which is more than can happen. All of these, and failed
tombstones, count as disruptions. Every key has a partition of its own, which allows every
order that some number of partitions allows. `CorrelationIds` is `Envelope`'s
`NewCorrelationID`: a payload may get another ID whenever the entry node handles
it. Data is the set of events it stems from.

### Controller

`rec` is the program counter of `Reconcile` with its copy of the AgentSwarm: one
step per remote call (`ListTopics`, `CreateTopic`, `GetDeployment`,
`ApplyDeployment`). `seen` and `deploySeen` are the manager's caches, which lag
behind `swarm` and `deployments`; a cached Deployment is absent, current or stale,
which decides between success, AlreadyExists, Conflict and NotFound. `CallFails`
lets any call fail, or succeed with its reply lost. `ObserveSwarm` queues a
request; `ObserveDeployment` does not, because `SetupWithManager` has no `Owns`.
A Deployment is its owner and the wiring that the DAG determines.

### AgentLoop, Envelope, Merge

`AgentLoop` has one action per exit of `agentLoop` and `callToolForAgent`; the
LLM may reply with any sequence of calls. `Envelope` enumerates every payload by
what the code looks at in each field (absent, a string, the empty string, an
object, anything else) and delivers it again. `Merge` visits the sources in every order and
lets payloads have fields named like sources, which the result of an earlier
join has. Of the agent's answer it keeps what each of the three readings of
`extractJSONObject` decodes to: an object, nothing, or `null`, which Go decodes into a
nil map without an error.

## 3. Runs

All cfgs switch deadlock checking off: inputs are bounded, so every instance
comes to rest when its bound of records, edits or turns is used up; the liveness
runs check that it does not rest too early.

| Run | Checks | Bounds |
|---|---|---|
| `fan_in` | `TypeOK`, `NothingLost`, `JoinsComplete`, `NoStuckJoin`, `BufferMatchesChangelog`, `TombstonesArePublished`, `ImplementsAtLeastOnce` | 1 pod, 1 partition, 2 dependencies and 1 source that is none, 3 events of which 2 share an ID, 2 outputs, 3 records, 3 disruptions; symmetry among dependencies and among the events that share the ID |
| `fan_in_partitions` | `NothingLost`, `TombstonesArePublished`, `EveryJoinPublished`, `ImplementsAtLeastOnce` | 1 pod, 2 partitions with 2 records each, 2 outputs, 2 disruptions |
| `straight` | `NothingLost`, `EveryTaskPublished`, `ImplementsAtLeastOnce` | 2 pods, 1 partition, 2 outputs, 2 records, 2 disruptions |
| `changelog` | `TypeOK`, `HydratedIsCurrent`, `HydrationEnds` | 2 keys, 2 states, 4 records, 1 failed hydration |
| `swarm` | `TypeOK`, `LeftoversAreHarmless`, `CleanWithoutDisruption`, `EveryEventDecided` | the 5 nodes of `examples/claims-processing`, 1 event with 2 possible IDs, 2 disruptions |
| `controller` | `TypeOK`, `TopicsBeforeWorkers`, `SettledMeansApplied`, `EventuallyApplied` | 3 nodes, 3 designs, 1 creation, 2 edits, 3 faults |
| `agent_loop` | `TypeOK`, `CallsAreAnswered`, `TaskEnds` | 2 servers, 3 tools, 8 turns of up to 2 calls |
| `envelope` | `TypeOK`, `SurvivesHop`, `ExplicitIdIsStable` | 2 IDs, 2 `*_id` fields, 2 deliveries |
| `merge` | `KeepsEachSource`, `FlattensEveryField`, `AnswerKept` | 2 sources, 2 other fields, 2 values, 2 answers |

Why the bounds are enough to meet the interesting cases: three records in one
partition let a join be completed while another is open, a dependency contribute
twice, a source that is no dependency take the place of one, and a second event with
the ID of the first arrive after that one was published; `fan_in_partitions` lets both joins complete. Three disruptions let the recovery from a failed recovery
fail; two outputs let a publish stop half way; two pods suffice for a takeover
and for the return to a pod with a stale view. Two edits and three faults let a
second edit meet a retry of the first. Four changelog records let a key be written,
deleted and written again beside another key, and two of them be written behind
the reader's back. In `swarm` one event under two IDs is what two events with an
ID each are to the fan-in node, and two disruptions let a recovery be cut short or a retry
follow a crash; more
events only multiply independent keys, except when they share an ID, which is what
`swarm_same_policy` is about. Eight turns is the real value of
`maxAgentTurns`.

### Disagreements between code and documentation

Three runs show that what a comment or a document says does not hold of the code.
`PROJECT.json` quotes each text.

| Run | Shows |
|---|---|
| `two_pods_lose` | with a second pod, a fan-in node can lose a contribution whose offset is committed: pod B hydrates an empty changelog, pod A records a and its offset is committed, the partition moves to B, B receives b and writes an entry with b alone over A's. The single-pod runs and the proof for straight-through nodes show that this needs both a fan-in node and a second pod; but a rolling update brings a second pod also with `replicas: 1`, since the Deployment has no update strategy of its own. |
| `controller_recreate` | delete and re-apply can end without worker Deployments |
| `swarm_same_policy` | two claims on one policy can both be given the policy's ID; the fan-in node then decides one claim from the fraud check of the other |

Three more have no run of their own: a property of a passing run states each as its
exception, or leaves it out, as said here.

- *A source that is not declared counts in a join.* `join` compares the number of
  sources with the number of dependencies (`handler.go:101`). A payload published
  straight to the topic has the empty source, and a node that was dropped from
  `dependsOn` keeps its Deployment; either can stand in for a dependency. The comments
  at `handler.go:68-69` ("once every dependency has reported in") and
  `agentswarm_controller.go:103-105` say otherwise. `fan_in` has such a source, and
  `JoinsComplete` excepts exactly the joins to which one contributed.
- *The answer `null` is discarded.* `tryUnmarshalObject` accepts it (`agent.go:315-320`),
  as the whole content or in a fenced block, so it is merged as an object without
  fields. The comment at `agent.go:264-267` says that an answer without an object is
  "kept verbatim under a "result" key rather than discarded". `AnswerKept` excepts it.
- *A node that becomes a gate, or leaves the spec, keeps its Deployment.* `Reconcile`
  deletes nothing, and the edit of the `controller` run from `Chain` to `Gated` turns a
  worker into a gate. `examples/claims-processing/README.md:102` says that a gate "generates no pods".
  `SpecApplied` is about what the spec has, and says nothing of what it no longer has.

### Fairness

`Runner!Fairness`: weak fairness of each pod's own steps (a running process keeps
running, Kubernetes restarts one that ended, auto-commit ticks) and of the
assignment of partitions. Failures are never obliged to happen, and are finitely
many by `MaxDisruptions`: the code makes no progress past a task that fails
every time, and nothing claims that it does. Weak fairness of the disjunction is
enough because each of a pod's steps consumes something, and upstreams are
bounded. `Controller!Fairness`: watches deliver, the garbage collector runs, the
worker takes requests and finishes them; controller-runtime's retry with
back-off justifies it. `AgentLoop!FairSpec` obliges the loop and, through the
HTTP client's timeout, the LLM call to end, but no MCP server to answer:
`CallTool` has no timeout, which is why `TaskEnds` has its second case. In
`Changelog` the broker answers and delivers, in `Swarm` a running pod takes its
messages; neither assumes anything of writers, compaction or disruptions, which in
`Swarm` too are finitely many.

One part of this the code does not ensure. In `Runner` and `Swarm` fairness obliges an
agent loop that was started to answer or to fail (`AgentLoopAnswers`, `Work`). The code
bounds its turns and the LLM calls, but `CallTool` has no timeout (`agent.go:247`), and
an MCP server that never answers holds the goroutine and its partition for ever.
`EveryTaskPublished`, `EveryJoinPublished` and `EveryEventDecided` therefore hold on the
condition that MCP servers answer, or their connections break, in the end; `TaskEnds`
in `AgentLoop` has the case in which they do not.

## 4. Proofs

Every theorem holds for all values of the constants that satisfy the `ASSUME` of the
component's module: any number of pods, partitions, events, dependencies, outputs,
designs, edits, sources, fields, turns, crashes and failures. All of it is safety.

| Module | Theorem | Statement |
|---|---|---|
| `RunnerProofs` | `TypeCorrect` | `Spec => []TypeOK` |
| | `StraightNothingLost` | with at most one dependency: `Spec => []NothingLost` |
| | `JoinsAreComplete` | `Spec => []JoinsComplete` |
| | `FanInNothingLost` | with `JoinNode`: `Spec => []NothingLost` |
| | `BufferIsChangelog` | with `JoinNode`: `Spec => []BufferMatchesChangelog` |
| | `TombstonesFollowPublish` | with `JoinNode`: `Spec => TombstonesArePublished` |
| | `NoJoinIsStuck` | with `JoinNode`: `Spec => []NoStuckJoin` |
| | `StraightImplements` | with at most one dependency: `Spec => ImplementsAtLeastOnce` |
| | `FanInImplements` | with `JoinNode`: `Spec => ImplementsAtLeastOnce` |
| `AtLeastOnceProofs` | `SettledForGood` | `Spec => []CommittedIsSettled` |
| `ChangelogProofs` | `ChangelogTypeCorrect`, `HydrationIsCurrent` | `Spec => []TypeOK`, `Spec => []HydratedIsCurrent` |
| `SwarmProofs` | `SwarmTypeCorrect` | `Spec => []TypeOK` |
| | `JoinsDoNotMix` | with `DistinctIds`: `Spec => []Coherent` |
| | `RestMeansDecided` | with `DistinctIds`, `EntryDAG`: at rest, every submitted event is `Decided` |
| | `LeftoversHarmless` | with `DistinctIds`, `EntryDAG`: `Spec => []LeftoversAreHarmless` |
| | `CleanSwarm` | with `DistinctIds`, `EntryDAG`, one dependency at the gate: `Spec => []CleanWithoutDisruption` |
| `ControllerProofs` | `TypeCorrect`, `TopicsComeFirst` | `Spec => []TypeOK`, `Spec => []TopicsBeforeWorkers` |
| | `RestMeansDone` | with `OneSwarm`: `Spec => []SettledMeansApplied` |
| `AgentLoopProofs` | `LoopTypeCorrect`, `EveryCallIsAnswered` | `Spec => []TypeOK`, `Spec => []CallsAreAnswered` |
| `EnvelopeProofs` | `EnvelopeTypeCorrect`, `EveryHopKeepsTheId`, `ExplicitIdsAreStable` | `Spec => []TypeOK`, `[]SurvivesHop`, `[]ExplicitIdIsStable` |
| `MergeProofs` | `EachSourceIsKept`, `EveryFieldIsFlattened`, `AnswerIsKept` | `Spec => []KeepsEachSource`, `[]FlattensEveryField`, `[]AnswerKept` |

### Assumptions, and why they are needed

- `JoinNode`: a fan-in node with one pod whose sources all key their messages by
  correlation ID, which every runner does. `two_pods_lose` refutes `NothingLost`
  with a second pod. Without keys the contributions of one ID may lie in several
  partitions, and then no order says which of two from one source is the later.
- `DistinctIds`: no two events can be given the same correlation ID.
  `swarm_same_policy` refutes `Coherent` without it.
- `EntryDAG`: one entry node, no cycle, Workers that depend on Workers only, and a gate
  that depends on some. With two entry nodes an event that is submitted to both may be
  given an ID by each, and a join of the two branches then waits for ever. A cycle, or
  a Worker behind a gate, gets no input. The reconciler checks none of this; the
  claims example has the shape (`MCSwarm` asserts it, and TLC evaluates it).
- One dependency at the gate, in `CleanSwarm`: a gate joins nothing, so with several it
  has one decision of each.
- `OneSwarm`: the AgentSwarm is created at most once, and no design has two nodes of
  one name. `controller_recreate` refutes `SettledMeansApplied` without the
  former. Nothing in the resource's schema ensures the latter; two nodes of one name
  fight over one Deployment, and whichever comes later in the spec wins.

### The arguments

*A straight-through node.* `OffsetInv` says that what a session has marked lies
between the committed offset of a partition its pod owns and the position of its
claim, and that only claims are busy. `NothingLost` alone is not inductive: an offset is committed
from a mark, a mark is set at the end of a task, and the task is right because of
what it sent. `SentInv` says that the topics a goroutine counts as sent have its
record; `StraightInv` that every record below a mark is published and that a busy
goroutine works on the record just below its position. Their conjunction is
inductive. `CompleteInv` says that tasks and published records passed the count of
`join`; if all that contributed are dependencies, which are as many, the count means
that each of them did (`CompleteCounts`).

*A fan-in node.* Here a record below a mark need not be published: it may be in the
changelog, or replaced there. `FanInInv` says that all records of an ID are in one
partition, that a pod hydrates before it consumes, that each record below a mark is
safe in one of these ways, and, for each ID, how the buffer, the changelog and the
one goroutine that may be completing it fit together. That a safe record stays safe
when its entry is overwritten needs the last of these: the pod writes back the entry
it read, with one source replaced. A tombstone deletes only what `SentInv` says has
been sent. `NoStuckJoin` is a step further, because a goroutine that dies takes its
session with it.

*The refinement.* Each step of `Runner` changes at most one of the input topic, the
committed offsets, the changelog and the downstream topics (`StepKinds`), and each of
these four is a step of `AtLeastOnce`: `Commit` by the safety just described, `Deliver`
because all data a node holds has arrived (`ArrivalInv`), `Hold` and `Release` by the
agreement of buffer and changelog. The proof corrected the abstract specification:
`Hold` used to replace one contribution only, and the case it missed is now in the
instance that `fan_in` checks (two events that share an ID).

*AtLeastOnce* itself needs `Colocated`, that at a node that joins, all records of an ID
are in one partition: a record that displaces a committed one from the join is not
committed, so it comes later in the same partition and replaces it for good.

*Changelog.* `HydrationInv` holds in the middle of reading: the last record of a key is
kept, or was a tombstone and nothing of its key is left; what the map has for a key
was written; the last record of a key, once it lies below the read position, has been
applied; a key of which nothing is kept is absent from the map. That the reader, which skips holes, skips nothing that counts uses that
the least kept offset it goes to next is well defined.

*Controller.* `TopicsInv` follows the walk of `Reconcile`: the topics of the nodes it has
passed exist, so at the Deployment step the topics of its node do, and topics are
never deleted. `PlacedInv` is about work: unless a request is queued, the
reconcile under way works from what the cache has now, and every node it has passed,
or every node if none is under way, has its Deployment as specified (`WorkTracked`);
and every Deployment carries the one owner there ever was. At rest the cache is
current and nothing is queued or under way, so nothing is missing.

*Swarm.* `PureInv` follows data by the key it travels under: in a topic, a buffer or a
changelog, what is under an ID stems from one event, and that event can have been
given that ID. If no two events can, a join cannot combine two. A record that is published late or sent again is a copy of one
that is there, or is made from a record of the node's own topic, which keeps all of this.

That every event is decided at rest needs an invariant about single nodes and an
induction over the DAG. `FlowInv` is the first: records come from the node's
dependencies (`SourcesKnown`) and stem from submitted events (`EventsSubmitted`); what
is behind a straight-through node went to all its outputs under one ID (`PassedOn`);
what is behind a fan-in node is in its buffer and its changelog, or the join's result
went to all outputs (`JoinsKept`). No step breaks these, a disruption at any point
included, and they hold for any DAG. At rest everything is behind every node and no
join is complete. The entry node has sent the event on under some ID. Take the nodes
that did not send it on under that ID: if there are any, one comes first in the order
of the DAG, its dependencies all sent the event on to it, and by `FlowInv` it did too
(`AllReached`). So the event is at the gate; and a leftover in a changelog is of an
event that was submitted.

Until the first disruption `Clean` is invariant as well: no record is twice in a topic (`OnceEach`),
every result has its cause behind the node that sent it (`ResultsHaveCause`), and a join
is open exactly as long as contributions are missing (`JoinsOpen`). Each needs the
others: a result is new to the outputs because the message that causes it was not
behind the node before, since it would otherwise be in the topic twice. At rest an open
join would be one whose contributions have all come, by `AllReached`, under the same ID,
by `OnceEach`.

*AgentLoop, Envelope, Merge.* `AnsweredSoFar` says which calls of the turn are answered
while the loop is among them. `FirstIsExplicit` links a delivery to the first one.
`MergeInv` states the properties of a complete merge for the sources visited so far.

The invariants of `Runner`, `Controller`, `Changelog` and `Swarm` were checked with TLC
on the instances above before they were proved.

### Only model-checked

- Liveness (`EveryTaskPublished`, `EveryJoinPublished`, `HydrationEnds`,
  `EveryEventDecided`, `EventuallyApplied`, `TaskEnds`): TLAPS does not reason about fairness
  and `ENABLED` here. Of `EveryEventDecided` the proofs have the part that is safety: rest implies a
  decision (`RestMeansDecided`). That the swarm comes to rest is TLC's.
- The disagreements of section 3: a counterexample needs no proof.

Every invariant and every action property of the passing runs is a theorem.

## 5. Not modelled

- The contents of prompts, tool schemas, tool results, logs; image, LLM and MCP
  settings in a Deployment (copied through unchanged).
- Parsing of environment variables and of comma-separated lists: it gives back
  the lists the operator joined, as node names are part of topic names and so
  hold no comma or blank.
- A changelog topic with the delete policy, whose last record may expire:
  hydration would then wait until the next write.
- Several AgentSwarms, and the names of topics and consumer groups they may share.
- A fan-in node of `Swarm` with several pods (`two_pods_lose` shows what happens),
  a node that lists a dependency twice (its join never completes), and what
  reviewers do with the messages of a gate.
- A task that fails every time: it ends the process again and again, which
  `MaxDisruptions` excludes from the liveness claims.
- Partition counts other than what a run fixes, and topics created by others
  with another cleanup policy than the operator's.
- Leader election (taken as given), metrics, TLS, probes, generated code, the
  example MCP server.

## 6. Open work

1. `JoinNode` without its demand on keys, for the properties that may
   survive it (`TombstonesArePublished`, `BufferMatchesChangelog`).
2. The result of `HydrationIsCurrent` as a refinement: `Changelog` implements the one
   step of `Runner!HydratePartition` when nobody else writes.
3. `EntryDAG` with several entry nodes, for events that are submitted to one of them and
   fan-in nodes that are reached from one only.

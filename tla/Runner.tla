------------------------------- MODULE Runner -------------------------------
(***************************************************************************)
(* One Worker node of an AgentSwarm: the pods of its Deployment, each a    *)
(* process of cmd/runner.  The pods share a consumer group on the node's   *)
(* input topic.  A node with at most one dependency ("straight-through")   *)
(* handles every message on its own; a node with several ("fan-in") joins  *)
(* the contributions of its dependencies by correlation ID and keeps the   *)
(* join's progress in a compacted changelog topic.                         *)
(*                                                                         *)
(* A pod runs one goroutine per claimed partition (ConsumeClaim) and the   *)
(* main goroutine, which hydrates the joins and completes the ones that    *)
(* were left complete by an earlier process before it joins the group.     *)
(*                                                                         *)
(* Kafka itself (topic logs, committed offsets, group ownership) is        *)
(* external and modelled from the way the runner uses it through sarama.   *)
(***************************************************************************)
EXTENDS Integers, Sequences, FiniteSets

CONSTANTS
  Pods,          \* processes of the node's Deployment
  Partitions,    \* partitions of the input topic, and of the changelog
  Events,        \* upstream events travelling through the swarm
  Corr,          \* correlation IDs
  CorrOf,        \* the correlation ID an event's envelopes carry
  PartitionOf,   \* sarama's hash partitioner on the message key
  Sources,       \* values the source field of an incoming envelope can have
  Keyed,         \* the sources that key their messages by correlation ID
  DependsOn,     \* DEPENDS_ON, the sequence of the node's dependencies
  NumOutputs,    \* len(OUTPUT_TOPICS)
  NoEvent, NoCorr, NoPod,
  MaxRecords,    \* bound on the records of one input partition
  MaxDisruptions \* bound on crashes, shutdowns and ended sessions together

\* The main goroutine's identity among a pod's threads.
Main == "main"

ASSUME ConstantsAssumption ==
  /\ CorrOf \in [Events -> Corr]
  /\ PartitionOf \in [Corr -> Partitions]
  /\ DependsOn \in Seq(Sources)
  /\ Keyed \subseteq Sources
  /\ NumOutputs \in Nat
  /\ MaxRecords \in Nat
  /\ MaxDisruptions \in Nat
  /\ NoEvent \notin Events
  /\ NoCorr \notin Corr
  /\ NoPod \notin Pods
  /\ Main \notin Partitions
  /\ IsFiniteSet(Sources)

VARIABLES
  input,       \* the input topic: a log of records per partition
  committed,   \* the group's committed offset per partition
  owner,       \* the group coordinator's view: who owns each partition
  joinState,   \* JOIN_STATE_TOPIC: latest value per key, NoJoin when deleted
  out,         \* the records in each downstream input topic
  phase,       \* what each pod's process is doing
  replayed,    \* changelog partitions a starting pod has hydrated
  joins,       \* handler.joins, each pod's in-memory join buffer
  session,     \* partitions a pod's consumer session claims, in its own view
  pos,         \* next offset a claim delivers
  marked,      \* offset marked as consumed in the session
  task,        \* what each goroutine of each pod is doing
  disruptions  \* crashes, shutdowns and ended sessions so far

kafkaVars == <<input, committed, owner, joinState, out>>
podVars   == <<phase, replayed, joins, session, pos, marked, task>>
vars      == <<kafkaVars, podVars, disruptions>>

Threads == Partitions \cup {Main}
Topics  == 1..NumOutputs
IsFanIn == Len(DependsOn) > 1
Deps    == {DependsOn[i] : i \in DOMAIN DependsOn}

Envelope == [corr : Corr, source : Sources, event : Events]

\* A joinState: for each source the event whose data it contributed.  An entry
\* that is missing from the map is the one with no contribution at all.
Received == [Sources -> Events \cup {NoEvent}]
NoJoin   == [s \in Sources |-> NoEvent]
Have(st) == {s \in Sources : st[s] # NoEvent}

\* Mutant of Complete: an off-by-one in the count.
CompleteOneShort(st) == Cardinality(Have(st)) >= Len(DependsOn) - 1

\* len(st.Received) >= len(cfg.dependsOn)
Complete(st) == Cardinality(Have(st)) >= Len(DependsOn)

OutRecord == [corr : Corr, data : Received]

\* Whether data reached every downstream topic under correlation ID c.
PublishedEverywhere(c, data) == \A k \in Topics : [corr |-> c, data |-> data] \in out[k]

\* What a goroutine is at: nothing, or a step of completeCorrelation with the
\* number of downstream topics it has published to.
Idle     == [stage |-> "idle", corr |-> NoCorr, data |-> NoJoin, sent |-> 0]
BusyTask == [stage : {"loop", "publish", "tombstone"}, corr : Corr, data : Received,
             sent : 0..NumOutputs]
Task     == BusyTask \cup {Idle}
AgentLoop(c, data) == [stage |-> "loop", corr |-> c, data |-> data, sent |-> 0]

TypeOK ==
  /\ input \in [Partitions -> Seq(Envelope)]
  /\ committed \in [Partitions -> Nat]
  /\ owner \in [Partitions -> Pods \cup {NoPod}]
  /\ joinState \in [Corr -> Received]
  /\ out \in [Topics -> SUBSET OutRecord]
  /\ phase \in [Pods -> {"down", "startup", "consuming"}]
  /\ replayed \in [Pods -> SUBSET Partitions]
  /\ joins \in [Pods -> [Corr -> Received]]
  /\ session \in [Pods -> SUBSET Partitions]
  /\ pos \in [Pods -> [Partitions -> Nat]]
  /\ marked \in [Pods -> [Partitions -> Nat]]
  /\ task \in [Pods -> [Threads -> Task]]
  /\ disruptions \in Nat

Init ==
  /\ input = [q \in Partitions |-> <<>>]
  /\ committed = [q \in Partitions |-> 0]
  /\ owner = [q \in Partitions |-> NoPod]
  /\ joinState = [c \in Corr |-> NoJoin]
  /\ out = [k \in Topics |-> {}]
  /\ phase = [p \in Pods |-> "down"]
  /\ replayed = [p \in Pods |-> {}]
  /\ joins = [p \in Pods |-> [c \in Corr |-> NoJoin]]
  /\ session = [p \in Pods |-> {}]
  /\ pos = [p \in Pods |-> [q \in Partitions |-> 0]]
  /\ marked = [p \in Pods |-> [q \in Partitions |-> 0]]
  /\ task = [p \in Pods |-> [t \in Threads |-> Idle]]
  /\ disruptions = 0
-----------------------------------------------------------------------------
(***************************************************************************)
(* The environment: an upstream node publishes an envelope, keyed by its   *)
(* correlation ID, or a producer outside the swarm publishes a payload     *)
(* that lands in any partition.  Upstreams deliver at least once, so the   *)
(* same envelope may be appended again.                                    *)
(***************************************************************************)
UpstreamPublishes(s, e, q) ==
  /\ s \in Keyed => q = PartitionOf[CorrOf[e]]
  /\ Len(input[q]) < MaxRecords
  /\ input' = [input EXCEPT ![q] = Append(@, [corr |-> CorrOf[e], source |-> s, event |-> e])]
  /\ UNCHANGED <<committed, owner, joinState, out, podVars, disruptions>>
-----------------------------------------------------------------------------
(***************************************************************************)
(* A process that ends loses all its memory; the group coordinator drops   *)
(* the member from the group.                                              *)
(***************************************************************************)
Disrupt == disruptions < MaxDisruptions /\ disruptions' = disruptions + 1

ProcessEnds(p) ==
  /\ phase' = [phase EXCEPT ![p] = "down"]
  /\ replayed' = [replayed EXCEPT ![p] = {}]
  /\ joins' = [joins EXCEPT ![p] = [c \in Corr |-> NoJoin]]
  /\ session' = [session EXCEPT ![p] = {}]
  /\ pos' = [pos EXCEPT ![p] = [q \in Partitions |-> 0]]
  /\ marked' = [marked EXCEPT ![p] = [q \in Partitions |-> 0]]
  /\ task' = [task EXCEPT ![p] = [t \in Threads |-> Idle]]
  /\ owner' = [q \in Partitions |-> IF owner[q] = p THEN NoPod ELSE owner[q]]
  /\ Disrupt

\* The process is killed, or meets one of the fatal errors of startup.
Crash(p) ==
  /\ phase[p] # "down"
  /\ ProcessEnds(p)
  /\ UNCHANGED <<input, committed, joinState, out>>

\* SIGTERM while consuming: main cancels the context and group.Close waits for
\* the session's goroutines, whose marks are flushed, before the process exits.
FlushMarks(p) ==
  committed' = [q \in Partitions |-> IF q \in session[p] /\ owner[q] = p
                                     THEN marked[p][q] ELSE committed[q]]

Shutdown(p) ==
  /\ phase[p] = "consuming"
  /\ \A t \in Threads : task[p][t].stage = "idle"
  /\ FlushMarks(p) \/ committed' = committed
  /\ ProcessEnds(p)
  /\ UNCHANGED <<input, joinState, out>>
-----------------------------------------------------------------------------
(***************************************************************************)
(* main: startup, hydration and recovery.                                  *)
(***************************************************************************)

\* Kubernetes (re)starts the container.  Without a changelog topic
\* hydrateJoinState returns an empty map at once.
StartPod(p) ==
  /\ phase[p] = "down"
  /\ phase' = [phase EXCEPT ![p] = "startup"]
  /\ replayed' = [replayed EXCEPT ![p] = IF IsFanIn THEN {} ELSE Partitions]
  /\ UNCHANGED <<kafkaVars, joins, session, pos, marked, task, disruptions>>

\* One changelog partition is replayed up to the newest offset.
HydratePartition(p, q) ==
  /\ phase[p] = "startup"
  /\ q \notin replayed[p]
  /\ joins' = [joins EXCEPT ![p] =
                 [c \in Corr |-> IF PartitionOf[c] = q THEN joinState[c] ELSE joins[p][c]]]
  /\ replayed' = [replayed EXCEPT ![p] = @ \cup {q}]
  /\ UNCHANGED <<kafkaVars, phase, session, pos, marked, task, disruptions>>

\* Mutant of Recoverable: main without its recovery loop.
RecoverNothing(p) == {}

\* The hydrated joins that were complete but not known to be published.
Recoverable(p) == {c \in Corr : Have(joins[p][c]) # {} /\ Complete(joins[p][c])}

RecoverJoin(p, c) ==
  /\ phase[p] = "startup"
  /\ replayed[p] = Partitions
  /\ task[p][Main].stage = "idle"
  /\ c \in Recoverable(p)
  /\ task' = [task EXCEPT ![p][Main] = AgentLoop(c, joins[p][c])]
  /\ UNCHANGED <<kafkaVars, phase, replayed, joins, session, pos, marked, disruptions>>

\* NewConsumerGroup, and the goroutine that calls group.Consume in a loop.
JoinGroup(p) ==
  /\ phase[p] = "startup"
  /\ replayed[p] = Partitions
  /\ task[p][Main].stage = "idle"
  /\ Recoverable(p) = {}
  /\ phase' = [phase EXCEPT ![p] = "consuming"]
  /\ UNCHANGED <<kafkaVars, replayed, joins, session, pos, marked, task, disruptions>>
-----------------------------------------------------------------------------
(***************************************************************************)
(* Consumer sessions.  group.Consume returns when the group rebalances and *)
(* is called again; Setup and Cleanup do nothing, so handler.joins carries *)
(* over from one session to the next.  The coordinator may give away the   *)
(* partitions of a pod that still works on a message (an agent loop can    *)
(* outlast the rebalance timeout): the pod goes on in its own view of the  *)
(* session, but its commits are fenced.                                    *)
(***************************************************************************)
StartSession(p, S) ==
  /\ phase[p] = "consuming"
  /\ session[p] = {}
  /\ S # {}
  /\ \A q \in Partitions \ S : owner[q] \notin {p, NoPod}
  /\ session' = [session EXCEPT ![p] = S]
  /\ owner' = [q \in Partitions |-> IF q \in S THEN p ELSE owner[q]]
  /\ pos' = [pos EXCEPT ![p] = committed]
  /\ marked' = [marked EXCEPT ![p] = committed]
  /\ UNCHANGED <<input, committed, joinState, out, phase, replayed, joins, task, disruptions>>

\* The session ends once each goroutine has finished the message it is on.  The
\* final flush of the marks may fail.
EndSession(p) ==
  /\ session[p] # {}
  /\ \A q \in session[p] : task[p][q].stage = "idle"
  /\ FlushMarks(p) \/ committed' = committed
  /\ session' = [session EXCEPT ![p] = {}]
  /\ Disrupt
  /\ UNCHANGED <<input, owner, joinState, out, phase, replayed, joins, pos, marked, task>>

\* sarama's auto-commit, accepted from the partition's current owner only.
CommitOffset(p, q) ==
  /\ q \in session[p]
  /\ owner[q] = p
  /\ committed[q] # marked[p][q]
  /\ committed' = [committed EXCEPT ![q] = marked[p][q]]
  /\ UNCHANGED <<input, owner, joinState, out, podVars, disruptions>>
-----------------------------------------------------------------------------
(***************************************************************************)
(* ConsumeClaim: one message.                                              *)
(***************************************************************************)

\* A claim's goroutine can take the next message.
Deliverable(p, q) ==
  /\ q \in session[p]
  /\ task[p][q].stage = "idle"
  /\ pos[p][q] < Len(input[q])

\* Mutant of Joined: every contribution starts a new entry.
JoinedAnew(p, env) == [NoJoin EXCEPT ![env.source] = env.event]

\* The join entry once env's contribution is in it.
Joined(p, env) == [joins[p][env.corr] EXCEPT ![env.source] = env.event]

\* Mutant of ReceiveStraight: the message is marked before the agent loop.
ReceiveMarkEarly(p, q) ==
  LET env == input[q][pos[p][q] + 1]
  IN  /\ ~IsFanIn
      /\ Deliverable(p, q)
      /\ pos' = [pos EXCEPT ![p][q] = @ + 1]
      /\ marked' = [marked EXCEPT ![p][q] = pos[p][q] + 1]
      /\ task' = [task EXCEPT ![p][q] =
                    AgentLoop(env.corr, [NoJoin EXCEPT ![env.source] = env.event])]
      /\ UNCHANGED <<kafkaVars, phase, replayed, joins, session, disruptions>>

\* A straight-through node: env.Data is all there is, nothing is marked yet.
ReceiveStraight(p, q) ==
  LET env == input[q][pos[p][q] + 1]
  IN  /\ ~IsFanIn
      /\ Deliverable(p, q)
      /\ pos' = [pos EXCEPT ![p][q] = @ + 1]
      /\ task' = [task EXCEPT ![p][q] =
                    AgentLoop(env.corr, [NoJoin EXCEPT ![env.source] = env.event])]
      /\ UNCHANGED <<kafkaVars, phase, replayed, joins, session, marked, disruptions>>

\* A fan-in node: under the mutex the contribution enters the buffer and the
\* whole entry is written to the changelog; then the message is marked.
ReceiveJoin(p, q) ==
  LET env == input[q][pos[p][q] + 1]
      st  == Joined(p, env)
  IN  /\ IsFanIn
      /\ Deliverable(p, q)
      /\ joins' = [joins EXCEPT ![p][env.corr] = st]
      /\ joinState' = [joinState EXCEPT ![env.corr] = st]
      /\ pos' = [pos EXCEPT ![p][q] = @ + 1]
      /\ marked' = [marked EXCEPT ![p][q] = pos[p][q] + 1]
      /\ task' = [task EXCEPT ![p][q] = IF Complete(st) THEN AgentLoop(env.corr, st) ELSE Idle]
      /\ UNCHANGED <<input, committed, owner, out, phase, replayed, session, disruptions>>

\* writeJoinState returns an error: log.Fatalf.  The record may have landed.
RecordFails(p, q) ==
  LET env == input[q][pos[p][q] + 1]
  IN  /\ IsFanIn
      /\ Deliverable(p, q)
      /\ joinState' \in {joinState, [joinState EXCEPT ![env.corr] = Joined(p, env)]}
      /\ ProcessEnds(p)
      /\ UNCHANGED <<input, committed, out>>
-----------------------------------------------------------------------------
(***************************************************************************)
(* completeCorrelation, run by a claim's goroutine or by main.             *)
(***************************************************************************)

AgentLoopAnswers(p, t) ==
  /\ task[p][t].stage = "loop"
  /\ task' = [task EXCEPT ![p][t].stage = "publish"]
  /\ UNCHANGED <<kafkaVars, phase, replayed, joins, session, pos, marked, disruptions>>

\* No final answer: log.Fatalf, nothing is published.
AgentLoopFails(p, t) ==
  /\ task[p][t].stage = "loop"
  /\ ProcessEnds(p)
  /\ UNCHANGED <<input, committed, joinState, out>>

\* The task's result is appended to the next downstream topic.
Sent(p, t) == [out EXCEPT ![task[p][t].sent + 1] =
                 @ \cup {[corr |-> task[p][t].corr, data |-> task[p][t].data]}]

\* Mutant of Publish: the loop over the topics runs once too often.
PublishTooOften(p, t) ==
  /\ task[p][t].stage = "publish"
  /\ task[p][t].sent <= NumOutputs
  /\ out' = IF task[p][t].sent < NumOutputs THEN Sent(p, t) ELSE out
  /\ task' = [task EXCEPT ![p][t].sent = @ + 1]
  /\ UNCHANGED <<input, committed, owner, joinState, phase, replayed, joins, session, pos,
                 marked, disruptions>>

\* publish: SendMessage to the next of the downstream topics, in order.
Publish(p, t) ==
  /\ task[p][t].stage = "publish"
  /\ task[p][t].sent < NumOutputs
  /\ out' = Sent(p, t)
  /\ task' = [task EXCEPT ![p][t].sent = @ + 1]
  /\ UNCHANGED <<input, committed, owner, joinState, phase, replayed, joins, session, pos,
                 marked, disruptions>>

\* Mutant of PublishFails: the error is logged and the next topic is tried.
PublishSkips(p, t) ==
  /\ task[p][t].stage = "publish"
  /\ task[p][t].sent < NumOutputs
  /\ task' = [task EXCEPT ![p][t].sent = @ + 1]
  /\ Disrupt
  /\ UNCHANGED <<kafkaVars, phase, replayed, joins, session, pos, marked>>

\* SendMessage returns an error: log.Fatalf.  The record may have landed.
PublishFails(p, t) ==
  /\ task[p][t].stage = "publish"
  /\ task[p][t].sent < NumOutputs
  /\ out' \in {out, Sent(p, t)}
  /\ ProcessEnds(p)
  /\ UNCHANGED <<input, committed, joinState>>

\* Straight-through: completeCorrelation returns, the message is marked.
MarkStraight(p, q) ==
  /\ ~IsFanIn
  /\ task[p][q].stage = "publish"
  /\ task[p][q].sent = NumOutputs
  /\ marked' = [marked EXCEPT ![p][q] = pos[p][q]]
  /\ task' = [task EXCEPT ![p][q] = Idle]
  /\ UNCHANGED <<kafkaVars, phase, replayed, joins, session, pos, disruptions>>

\* Mutant of ForgetJoin: the entry is given up before it is published.
ForgetJoinEarly(p, t) ==
  /\ IsFanIn
  /\ task[p][t].stage = "publish"
  /\ joins' = [joins EXCEPT ![p][task[p][t].corr] = NoJoin]
  /\ task' = [task EXCEPT ![p][t].stage = "tombstone"]
  /\ UNCHANGED <<kafkaVars, phase, replayed, session, pos, marked, disruptions>>

\* Fan-in: the entry leaves the buffer under the mutex ...
ForgetJoin(p, t) ==
  /\ IsFanIn
  /\ task[p][t].stage = "publish"
  /\ task[p][t].sent = NumOutputs
  /\ joins' = [joins EXCEPT ![p][task[p][t].corr] = NoJoin]
  /\ task' = [task EXCEPT ![p][t].stage = "tombstone"]
  /\ UNCHANGED <<kafkaVars, phase, replayed, session, pos, marked, disruptions>>

\* ... and is then deleted from the changelog, outside the mutex.  A failure is
\* logged and ignored.
TombstoneJoin(p, t) ==
  /\ task[p][t].stage = "tombstone"
  /\ joinState' \in {joinState, [joinState EXCEPT ![task[p][t].corr] = NoJoin]}
  /\ task' = [task EXCEPT ![p][t] = Idle]
  /\ UNCHANGED <<input, committed, owner, out, phase, replayed, joins, session, pos, marked,
                 disruptions>>
-----------------------------------------------------------------------------
\* What a pod does by itself when nothing fails.
PodProgress(p) ==
  \/ StartPod(p)
  \/ JoinGroup(p)
  \/ \E q \in Partitions : \/ HydratePartition(p, q)
                           \/ ReceiveStraight(p, q)
                           \/ ReceiveJoin(p, q)
                           \/ MarkStraight(p, q)
                           \/ CommitOffset(p, q)
  \/ \E c \in Corr : RecoverJoin(p, c)
  \/ \E t \in Threads : \/ AgentLoopAnswers(p, t)
                        \/ Publish(p, t)
                        \/ ForgetJoin(p, t)
                        \/ TombstoneJoin(p, t)

\* What interrupts a pod.
PodDisrupted(p) ==
  \/ Crash(p)
  \/ Shutdown(p)
  \/ EndSession(p)
  \/ \E q \in Partitions : RecordFails(p, q)
  \/ \E t \in Threads : AgentLoopFails(p, t) \/ PublishFails(p, t)

Next ==
  \/ \E s \in Sources, e \in Events, q \in Partitions : UpstreamPublishes(s, e, q)
  \/ \E p \in Pods : \/ PodProgress(p)
                     \/ \E S \in SUBSET Partitions : StartSession(p, S)
                     \/ PodDisrupted(p)

Spec == Init /\ [][Next]_vars

(***************************************************************************)
(* Fairness: Kubernetes restarts an ended container, the group coordinator *)
(* assigns the partitions, and a running pod's goroutines keep running.    *)
(* Nothing is assumed about upstreams, and a disruption is never required. *)
(***************************************************************************)
Fairness ==
  \A p \in Pods : /\ WF_vars(PodProgress(p))
                  /\ WF_vars(\E S \in SUBSET Partitions : StartSession(p, S))

FairSpec == Spec /\ Fairness
-----------------------------------------------------------------------------
(***************************************************************************)
(* Properties.                                                             *)
(***************************************************************************)

\* A later contribution of the same source to the same correlation ID.
Superseded(q, i) ==
  \E j \in (i + 1)..Len(input[q]) : /\ input[q][j].corr = input[q][i].corr
                                    /\ input[q][j].source = input[q][i].source

\* Every downstream topic has a record of c that was made from s's data of e.
PublishedWith(c, s, e) ==
  \A k \in Topics : \E o \in out[k] : o.corr = c /\ o.data[s] = e

\* NothingLost: a record below the committed offset, which Kafka will never
\* redeliver, has either reached every downstream topic or (fan-in only) is
\* held in the changelog or was overwritten by a later contribution of the same
\* source.  This is what ConsumeClaim's two places for MarkMessage are for.
NothingLost ==
  \A q \in Partitions : \A i \in 1..committed[q] :
    LET r == input[q][i]
    IN  \/ PublishedWith(r.corr, r.source, r.event)
        \/ IsFanIn /\ joinState[r.corr][r.source] = r.event
        \/ IsFanIn /\ Superseded(q, i)

\* JoinsComplete: a fan-in node publishes a result only with a contribution of every
\* declared dependency, whatever crashed, was overwritten or recovered on the way,
\* unless a source it does not depend on has contributed too: join counts sources and
\* does not look at their names, so one of those can stand in for a dependency.
JoinsComplete ==
  IsFanIn => \A k \in Topics : \A o \in out[k] :
    Deps \subseteq Have(o.data) \/ Have(o.data) \ Deps # {}

\* A goroutine of p is running completeCorrelation for c.
Completing(p, c) == \E t \in Threads : task[p][t].stage # "idle" /\ task[p][t].corr = c

\* NoStuckJoin: once a pod consumes, a complete join in the changelog is either
\* being completed by one of its goroutines or has been published already: main
\* completes what an earlier process left before it joins the group.
NoStuckJoin ==
  \A p \in Pods, c \in Corr :
    /\ phase[p] = "consuming"
    /\ Have(joinState[c]) # {}
    /\ Complete(joinState[c])
    => Completing(p, c) \/ PublishedEverywhere(c, joinState[c])

\* TombstonesArePublished: an entry disappears from the changelog only after
\* exactly its contributions were published to every downstream topic.
TombstonesArePublished ==
  [][\A c \in Corr : joinState[c] # NoJoin /\ joinState'[c] = NoJoin
                       => PublishedEverywhere(c, joinState[c])]_vars

\* A contribution of every dependency to c is in the input topic.
AllContributed(c) ==
  \A s \in Deps : \E i \in 1..Len(input[PartitionOf[c]]) :
    LET r == input[PartitionOf[c]][i] IN r.corr = c /\ r.source = s

\* EveryJoinPublished: once every dependency has contributed to a correlation
\* ID, a result for it eventually reaches every downstream topic, whatever
\* crashes, failed writes and session ends come between.
EveryJoinPublished ==
  \A c \in Corr : AllContributed(c) ~>
    \A k \in Topics : \E o \in out[k] : o.corr = c

\* EveryTaskPublished: at a straight-through node every record is eventually
\* published to every downstream topic.
EveryTaskPublished ==
  \A q \in Partitions, r \in Envelope :
    (\E i \in 1..Len(input[q]) : input[q][i] = r) ~> PublishedWith(r.corr, r.source, r.event)
-----------------------------------------------------------------------------
(***************************************************************************)
(* What the swarm relies on.  The node holds what its changelog holds, and *)
(* a published record delivers each contribution it was made from.         *)
(***************************************************************************)
Held == {r \in Envelope : joinState[r.corr][r.source] = r.event}

Delivered(k) == {r \in Envelope : \E o \in out[k] : o.corr = r.corr /\ o.data[r.source] = r.event}

Node == INSTANCE AtLeastOnce WITH
          Records <- Envelope, Joins <- IsFanIn, held <- Held,
          delivered <- [k \in Topics |-> Delivered(k)]

\* ImplementsAtLeastOnce: with its pods, crashes, redeliveries and changelog the
\* node implements AtLeastOnce: every step of the runner commits only settled
\* records, publishes only what has arrived, and drops from the changelog only
\* what was published or is replaced by a contribution still to be committed.
ImplementsAtLeastOnce == Node!Spec
-----------------------------------------------------------------------------
(***************************************************************************)
(* Inductive invariants, for the proofs in RunnerProofs.                   *)
(***************************************************************************)

Busy(p, t) == task[p][t].stage # "idle"

\* Claims, offsets and goroutines of every node, with any number of pods.
OffsetInv ==
  /\ \A q \in Partitions : committed[q] <= Len(input[q])
  /\ \A p \in Pods, q \in Partitions : q \in session[p] =>
       /\ phase[p] = "consuming"
       /\ marked[p][q] <= pos[p][q]
       /\ pos[p][q] <= Len(input[q])
       /\ owner[q] = p => committed[q] <= marked[p][q]
  /\ \A p \in Pods, q \in Partitions : Busy(p, q) => q \in session[p]
  /\ \A p \in Pods : Busy(p, Main) => phase[p] = "startup"

\* What a goroutine has sent is in the downstream topics.
SentInv ==
  \A p \in Pods, t \in Threads :
    /\ \A k \in 1..task[p][t].sent :
         [corr |-> task[p][t].corr, data |-> task[p][t].data] \in out[k]
    /\ task[p][t].stage = "tombstone" => IsFanIn /\ task[p][t].sent = NumOutputs

\* A fan-in node works on joins that passed join's count and publishes no others.
CompleteInv ==
  IsFanIn => /\ \A p \in Pods, t \in Threads : Busy(p, t) => Complete(task[p][t].data)
             /\ \A k \in Topics : \A o \in out[k] : Complete(o.data)

RecordPublished(q, i) ==
  PublishedWith(input[q][i].corr, input[q][i].source, input[q][i].event)

\* A claim of a straight-through node: marked records are published, and the task
\* of a busy goroutine is the record before its position.
StraightClaim(p, q) ==
  /\ \A i \in 1..marked[p][q] : RecordPublished(q, i)
  /\ ~Busy(p, q) => marked[p][q] = pos[p][q]
  /\ Busy(p, q) => LET r == input[q][pos[p][q]]
                   IN  /\ marked[p][q] = pos[p][q] - 1
                       /\ task[p][q].corr = r.corr
                       /\ task[p][q].data[r.source] = r.event

StraightInv ==
  /\ \A q \in Partitions : \A i \in 1..committed[q] : RecordPublished(q, i)
  /\ \A p \in Pods : \A q \in session[p] : StraightClaim(p, q)

\* BufferMatchesChangelog: what a pod that has hydrated a changelog partition
\* holds in memory for a correlation ID is what the changelog holds, except that
\* an entry already published everywhere may outlive its tombstone there.
BufferMatchesChangelog ==
  \A p \in Pods, c \in Corr : PartitionOf[c] \in replayed[p] =>
    \/ joins[p][c] = joinState[c]
    \/ joins[p][c] = NoJoin /\ PublishedEverywhere(c, joinState[c])

\* A goroutine that completes a join works on the changelog's entry.
TaskMatches(p, t) ==
  LET c == task[p][t].corr
  IN  /\ task[p][t].data = joinState[c]
      /\ PartitionOf[c] \in replayed[p]
      /\ t \in Partitions => t = PartitionOf[c]
      /\ joins[p][c] = IF task[p][t].stage = "tombstone" THEN NoJoin ELSE joinState[c]

TasksMatchChangelog == \A p \in Pods, t \in Threads : Busy(p, t) => TaskMatches(p, t)

ContributionSafe(q, i) ==
  \/ RecordPublished(q, i)
  \/ joinState[input[q][i].corr][input[q][i].source] = input[q][i].event
  \/ Superseded(q, i)

\* Keyed records of a correlation ID share a partition.
Colocated == \A q \in Partitions : \A i \in 1..Len(input[q]) : PartitionOf[input[q][i].corr] = q

\* main hydrates every changelog partition before it joins the group.
HydratesFirst == \A p \in Pods : phase[p] = "consuming" => replayed[p] = Partitions

CommittedSafe == \A q \in Partitions : \A i \in 1..committed[q] : ContributionSafe(q, i)

\* A claim marks each message once it is recorded.
ClaimsSafe ==
  \A p \in Pods : \A q \in session[p] :
    /\ marked[p][q] = pos[p][q]
    /\ committed[q] <= marked[p][q]
    /\ \A i \in 1..marked[p][q] : ContributionSafe(q, i)

\* A fan-in node with a single pod and keyed sources.
FanInInv ==
  /\ Colocated
  /\ HydratesFirst
  /\ BufferMatchesChangelog
  /\ TasksMatchChangelog
  /\ CommittedSafe
  /\ ClaimsSafe
=============================================================================

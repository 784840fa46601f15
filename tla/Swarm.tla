------------------------------- MODULE Swarm --------------------------------
(***************************************************************************)
(* The nodes of an AgentSwarm together: a DAG in which events enter at a   *)
(* root, spread over branches, are joined again and end in the input topic *)
(* of a HumanInTheLoop gate, which has no Deployment.  There is no          *)
(* coordinator: what a node does depends on its own topic, changelog and   *)
(* memory only.                                                            *)
(*                                                                         *)
(* Each node is as coarse as AtLeastOnce allows: a message is handled to   *)
(* its end in one step unless the process dies on the way.  Every key of a *)
(* topic has a partition of its own, the least ordered case: with fewer    *)
(* partitions some of these behaviours cannot happen.  A fan-in node has   *)
(* one pod at a time.                                                      *)
(***************************************************************************)
EXTENDS Integers, Sequences, FiniteSets, SequencesExt

CONSTANTS
  NodeOrder,   \* spec.nodes, as a sequence of node names
  DependsOn,   \* the dependencies of each node, a sequence
  Workers,     \* the nodes with a Deployment
  Gate,        \* the last node, of type HumanInTheLoop
  Events,      \* payloads submitted from outside the swarm
  Ids,         \* correlation IDs
  MintedIds,   \* the IDs newCorrelationID may give to each event
  Outside,     \* the source of such a payload
  MaxDisruptions \* bound on what Disrupt counts

Nodes == Range(NodeOrder)
Roots == {n \in Workers : DependsOn[n] = <<>>}
Keys  == Ids \cup Events

ASSUME SwarmAssumption ==
  /\ NodeOrder \in Seq(Nodes)
  /\ DependsOn \in [Nodes -> Seq(Nodes)]
  /\ \A n \in Nodes : IsInjective(DependsOn[n])
  /\ Workers \subseteq Nodes
  /\ Gate \in Nodes \ Workers
  /\ MintedIds \in [Events -> (SUBSET Ids) \ {{}}]
  /\ Events \cap Ids = {}
  /\ Outside \notin Nodes
  /\ MaxDisruptions \in Nat

VARIABLES
  topic,      \* each node's input topic: the records of each key
  pos,        \* the next record a node handles, per key
  committed,  \* the offset it restarted from last; commits lie between
  joins,      \* the join buffer of a fan-in node
  changelog,  \* its changelog topic
  disruptions

vars == <<topic, pos, committed, joins, changelog, disruptions>>

Sources == Nodes \cup {Outside}

\* The events a record's data stems from, and the node that published it.
Message == [source : Sources, data : SUBSET Events]

\* Contributions by source; no events where there is none.
NoJoin   == [s \in Sources |-> {}]
Have(st) == {s \in Sources : st[s] # {}}

FanIns          == {n \in Workers : Len(DependsOn[n]) > 1}
Complete(n, st) == Cardinality(Have(st)) >= Len(DependsOn[n])
Merged(st)      == UNION {st[s] : s \in Sources}

\* The nodes that name n as a dependency, among the first j nodes of the spec.
Outputs(n, j) == {m \in {NodeOrder[i] : i \in 1..j} : n \in Range(DependsOn[m])}

TypeOK ==
  /\ topic \in [Nodes -> [Keys -> Seq(Message)]]
  /\ pos \in [Workers -> [Keys -> Nat]]
  /\ committed \in [Workers -> [Keys -> Nat]]
  /\ joins \in [FanIns -> [Ids -> [Sources -> SUBSET Events]]]
  /\ changelog \in [FanIns -> [Ids -> [Sources -> SUBSET Events]]]
  /\ disruptions \in 0..MaxDisruptions
  /\ \A n \in Workers, k \in Keys : /\ committed[n][k] <= pos[n][k]
                                    /\ pos[n][k] <= Len(topic[n][k])

Init ==
  /\ topic = [n \in Nodes |-> [k \in Keys |-> <<>>]]
  /\ pos = [n \in Workers |-> [k \in Keys |-> 0]]
  /\ committed = pos
  /\ joins = [n \in FanIns |-> [id \in Ids |-> NoJoin]]
  /\ changelog = joins
  /\ disruptions = 0

\* A crash, a rebalance, a retry by a producer, a late pod or a failed tombstone.
Disrupt == disruptions < MaxDisruptions /\ disruptions' = disruptions + 1
-----------------------------------------------------------------------------
\* A payload is published, once and without a key, to the topic of a root.
Submit(n, e) ==
  /\ topic[n][e] = <<>>
  /\ topic' = [topic EXCEPT ![n][e] = <<[source |-> Outside, data |-> {e}]>>]
  /\ UNCHANGED <<pos, committed, joins, changelog, disruptions>>

\* The ID of an envelope is its key; a payload gets one whenever it is handled.
CorrelationIds(k) == IF k \in Ids THEN {k} ELSE MintedIds[k]

\* The topics once a result of n has gone to its outputs, in the order of the spec
\* and as far as node j.
Published(n, id, data, j) ==
  LET result == [source |-> n, data |-> data]
  IN  [m \in Nodes |-> IF m \in Outputs(n, j) THEN [topic[m] EXCEPT ![id] = Append(@, result)]
                                               ELSE topic[m]]

PublishedToAll(n, id, data) == Published(n, id, data, Len(NodeOrder))

HasNext(n, k) == pos[n][k] < Len(topic[n][k])
NextOf(n, k)  == topic[n][k][pos[n][k] + 1]

\* A join with the next record of k in it.
Joined(n, k) == [joins[n][k] EXCEPT ![NextOf(n, k).source] = NextOf(n, k).data]

\* Mutant of Recoverable: main without its recovery loop.
RecoverNothing(n) == {}

\* Joins that main completes before it joins the group.
Recoverable(n) == {id \in Ids : n \in FanIns /\ Complete(n, joins[n][id])}

\* Mutant of Advance: off by one.
AdvanceTwice(n, k) == pos' = [pos EXCEPT ![n][k] = @ + 2] /\ UNCHANGED committed

\* The next record of k is behind the node.
Advance(n, k) == pos' = [pos EXCEPT ![n][k] = @ + 1] /\ UNCHANGED committed

HandleStraight(n, k) ==
  /\ HasNext(n, k)
  /\ \E id \in CorrelationIds(k) : topic' = PublishedToAll(n, id, NextOf(n, k).data)
  /\ Advance(n, k)
  /\ UNCHANGED <<joins, changelog, disruptions>>

\* A contribution that leaves the join incomplete.
HandlePartial(n, k) ==
  /\ Recoverable(n) = {}
  /\ HasNext(n, k)
  /\ ~Complete(n, Joined(n, k))
  /\ joins' = [joins EXCEPT ![n][k] = Joined(n, k)]
  /\ changelog' = [changelog EXCEPT ![n][k] = Joined(n, k)]
  /\ Advance(n, k)
  /\ UNCHANGED <<topic, disruptions>>

\* Mutant of Forgotten: the entry stays in the buffer.
Remembered(n, id) == joins

Forgotten(n, id) == [joins EXCEPT ![n][id] = NoJoin]

\* completeCorrelation of entry st: the result goes out, the buffer forgets the
\* entry, and the tombstone, after st was recorded, may fail.
CompleteJoin(n, id, st) ==
  /\ topic' = PublishedToAll(n, id, Merged(st))
  /\ joins' = Forgotten(n, id)
  /\ \/ changelog' = [changelog EXCEPT ![n][id] = NoJoin] /\ UNCHANGED disruptions
     \/ changelog' = [changelog EXCEPT ![n][id] = st] /\ Disrupt

HandleComplete(n, k) ==
  /\ Recoverable(n) = {}
  /\ HasNext(n, k)
  /\ Complete(n, Joined(n, k))
  /\ CompleteJoin(n, k, Joined(n, k))
  /\ Advance(n, k)

Recover(n, id) ==
  /\ id \in Recoverable(n)
  /\ CompleteJoin(n, id, joins[n][id])
  /\ UNCHANGED <<pos, committed>>
-----------------------------------------------------------------------------
(***************************************************************************)
(* Crashes, rebalances and retries.                                        *)
(***************************************************************************)

\* The group goes on from any offset that may have been committed up to the marked
\* one: the marks of a process that died or of a session that lost its partitions
\* may never have been flushed.
ResumeFrom(n, marked) ==
  LET open == {k \in Keys : committed[n][k] < marked[k]}
  IN  /\ \E r \in [open -> UNION {committed[n][k]..marked[k] : k \in open}] :
           /\ \A k \in open : committed[n][k] <= r[k] /\ r[k] <= marked[k]
           /\ pos' = [pos EXCEPT ![n] = [k \in Keys |-> IF k \in open THEN r[k] ELSE marked[k]]]
      /\ committed' = [committed EXCEPT ![n] = pos'[n]]
      /\ Disrupt

\* The process dies; the next one hydrates its buffer from the changelog.
RestartFrom(n, marked) ==
  /\ ResumeFrom(n, marked)
  /\ joins' = [m \in FanIns |-> IF m = n THEN changelog'[n] ELSE joins[m]]

\* Mutant of StraightMark: the message in hand was marked on receipt.
MarkOnReceipt(n, k) == [pos[n] EXCEPT ![k] = @ + 1]

\* What a straight-through node has marked with a message of k in hand.
StraightMark(n, k) == pos[n]

\* With a message in hand that has gone to some outputs and is not marked: its pod
\* dies, or loses the partition to another pod.
CrashStraight(n, k) ==
  /\ HasNext(n, k)
  /\ \E id \in CorrelationIds(k), j \in 0..Len(NodeOrder) :
       topic' = Published(n, id, NextOf(n, k).data, j)
  /\ UNCHANGED changelog
  /\ RestartFrom(n, StraightMark(n, k))

\* With a contribution that is recorded and may be marked.  If it completed the
\* join, the result may have gone to some outputs.
CrashJoin(n, k) ==
  /\ Recoverable(n) = {}
  /\ HasNext(n, k)
  /\ \E j \in 0..(IF Complete(n, Joined(n, k)) THEN Len(NodeOrder) ELSE 0) :
       topic' = Published(n, k, Merged(Joined(n, k)), j)
  /\ changelog' = [changelog EXCEPT ![n][k] = Joined(n, k)]
  /\ RestartFrom(n, [pos[n] EXCEPT ![k] = @ + 1])

\* During the recovery of an earlier crash.
CrashRecovering(n, id) ==
  /\ id \in Recoverable(n)
  /\ \E j \in 0..Len(NodeOrder) : topic' = Published(n, id, Merged(joins[n][id]), j)
  /\ UNCHANGED changelog
  /\ RestartFrom(n, pos[n])

\* Between two messages.
CrashIdle(n) ==
  /\ UNCHANGED <<topic, changelog>>
  /\ RestartFrom(n, pos[n])

\* A session ends and the next one resumes; the processes keep their buffers.
Rebalance(n) ==
  /\ ResumeFrom(n, pos[n])
  /\ UNCHANGED <<topic, joins, changelog>>

\* A pod of a straight-through node that lost the partition in the middle of an agent
\* loop publishes the record it still has in hand; its mark is fenced.  Which records
\* such pods were given is not remembered: it may be any of them.
PublishLate(n, k) ==
  /\ \E i \in 1..Len(topic[n][k]), id \in CorrelationIds(k), j \in 1..Len(NodeOrder) :
       topic' = Published(n, id, topic[n][k][i].data, j)
  /\ Disrupt
  /\ UNCHANGED <<pos, committed, joins, changelog>>

\* The producer of n did not see the acknowledgement of its last record of id to m
\* and sends it again.
Resend(n, m, id) ==
  /\ \E i \in DOMAIN topic[m][id] :
       /\ topic[m][id][i].source = n
       /\ \A j \in DOMAIN topic[m][id] : topic[m][id][j].source = n => j <= i
       /\ topic' = [topic EXCEPT ![m][id] = Append(@, topic[m][id][i])]
  /\ Disrupt
  /\ UNCHANGED <<pos, committed, joins, changelog>>
-----------------------------------------------------------------------------
Work(n) ==
  \/ n \notin FanIns /\ \E k \in Keys : HandleStraight(n, k)
  \/ n \in FanIns /\ \E id \in Ids : \/ HandlePartial(n, id)
                                     \/ HandleComplete(n, id)
                                     \/ Recover(n, id)

Crash(n) ==
  \/ n \notin FanIns /\ \E k \in Keys : CrashStraight(n, k)
  \/ n \in FanIns /\ \E id \in Ids : CrashJoin(n, id) \/ CrashRecovering(n, id)
  \/ CrashIdle(n)

Redelivery(n) ==
  \/ Rebalance(n)
  \/ n \notin FanIns /\ \E k \in Keys : PublishLate(n, k)
  \/ \E m \in Nodes, id \in Ids : Resend(n, m, id)

Next ==
  \/ \E n \in Roots, e \in Events : Submit(n, e)
  \/ \E n \in Workers : Work(n) \/ Crash(n) \/ Redelivery(n)

Spec == Init /\ [][Next]_vars

\* A running pod takes its messages and its agent loops answer; disruptions are never
\* required.
Fairness == \A n \in Workers : WF_vars(Work(n))

FairSpec == Spec /\ Fairness
-----------------------------------------------------------------------------
MessagesOf(n) == UNION {{topic[n][k][i] : i \in 1..Len(topic[n][k])} : k \in Keys}

\* The gate has a decision that was made from e and nothing else.
Decided(e) == \E m \in MessagesOf(Gate) : m.data = {e}

\* The shape of a pipeline: no cycle, one entry, and only the gate at the end.
EntryDAG ==
  /\ \A r, s \in Roots : r = s
  /\ DependsOn[Gate] # <<>>
  /\ \A n \in Workers \cup {Gate} : Range(DependsOn[n]) \subseteq Workers
  /\ \E rank \in [Nodes -> 1..Len(NodeOrder)] :
       \A n \in Workers : \A d \in Range(DependsOn[n]) : rank[d] < rank[n]

AtRest ==
  \A n \in Workers : /\ Recoverable(n) = {}
                     /\ \A k \in Keys : ~HasNext(n, k)

\* Coherent: the data of one message stems from one event, so no join brings
\* together contributions that two events made (join matches by ID alone).
Coherent == \A n \in Nodes : \A m \in MessagesOf(n) : Cardinality(m.data) = 1

\* EveryEventDecided: a submitted event eventually reaches the gate through all
\* its branches, although the ID it is given may change when the root handles it
\* again, any node may die or lose its partitions at any point and records may be
\* sent twice.
EveryEventDecided ==
  \A n \in Roots, e \in Events : (topic[n][e] # <<>>) ~> Decided(e)

\* LeftoversAreHarmless: what is still in a changelog when nothing is left to do
\* (joins opened by a contribution redelivered after the tombstone, by a branch
\* that got the event under an ID given up since, or kept by a failed tombstone)
\* holds no event that has not been decided.
LeftoversAreHarmless ==
  AtRest => \A n \in FanIns, id \in Ids : \A e \in Merged(changelog[n][id]) : Decided(e)

\* The records of the gate's topic that stem from e.
Decisions(e) ==
  UNION {{k} \X {i \in DOMAIN topic[Gate][k] : e \in topic[Gate][k][i].data} : k \in Keys}

\* CleanWithoutDisruption: duplicates and leftovers come from crashes, rebalances, late
\* pods, producer retries and failed tombstones, and from nothing the nodes do to each
\* other: until the first of these an event that is submitted once reaches the gate at
\* most once, and a swarm at rest has no join open.
CleanWithoutDisruption ==
  disruptions = 0 =>
    /\ \A e \in Events : Cardinality(Decisions(e)) <= 1
    /\ AtRest => \A n \in FanIns, id \in Ids :
                   joins[n][id] = NoJoin /\ changelog[n][id] = NoJoin
=============================================================================

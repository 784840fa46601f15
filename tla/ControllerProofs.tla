-------------------------- MODULE ControllerProofs --------------------------
(***************************************************************************)
(* What holds of the operator for every set of designs and every number of *)
(* edits, faults and restarts.                                             *)
(*                                                                         *)
(* TypeOK is inductive as it stands.  TopicsInv adds what Reconcile has    *)
(* ensured at the step it is at, and PlacedInv what it has put in place    *)
(* since it last read the AgentSwarm.                                      *)
(***************************************************************************)
EXTENDS Controller, TLAPS, FiniteSetTheorems

-----------------------------------------------------------------------------
(***************************************************************************)
(* The operators the model is built from.                                  *)
(***************************************************************************)

\* buildOutputTopics counts finitely many dependsOn entries.
LEMMA DownstreamType ==
  ASSUME NEW nodes \in Seq(Node), NEW n
  PROVE  DownstreamOf(nodes, n) \in [Names -> Nat]
<1> DEFINE row   == [j \in DOMAIN nodes |-> {j} \X (DOMAIN nodes[j].dependsOn)]
           rows  == {{j} \X (DOMAIN nodes[j].dependsOn) : j \in DOMAIN nodes}
           edges == UNION rows
           of(m) == {x \in edges : nodes[x[1]].name = m /\ nodes[x[1]].dependsOn[x[2]] = n}
<1>1. IsFiniteSet(DOMAIN nodes)
  <2>1. DOMAIN nodes = 1..Len(nodes) /\ Len(nodes) \in Nat
    OBVIOUS
  <2>2. QED
    BY <2>1, FS_Interval
<1>2. IsFiniteSet(rows)
  <2>1. row \in Surjection(DOMAIN nodes, rows)
    BY DEF Surjection
  <2>2. QED
    BY <1>1, <2>1, FS_Surjection
<1>3. ASSUME NEW T \in rows PROVE IsFiniteSet(T)
  <2>1. PICK j \in DOMAIN nodes : T = {j} \X (DOMAIN nodes[j].dependsOn)
    OBVIOUS
  <2> nodes[j] \in Node
    OBVIOUS
  <2>2. nodes[j].dependsOn \in Seq(Names)
    BY DEF Node
  <2>3. /\ DOMAIN nodes[j].dependsOn = 1..Len(nodes[j].dependsOn)
        /\ Len(nodes[j].dependsOn) \in Nat
    BY <2>2
  <2>4. IsFiniteSet(DOMAIN nodes[j].dependsOn)
    BY <2>3, FS_Interval
  <2>5. IsFiniteSet({j})
    BY FS_Singleton
  <2>6. QED
    BY <2>1, <2>4, <2>5, FS_Product
<1>4. IsFiniteSet(edges)
  BY <1>2, <1>3, FS_UNION
<1>5. ASSUME NEW m \in Names PROVE Cardinality(of(m)) \in Nat
  BY <1>4, FS_Subset, FS_CardinalityType
<1>6. DownstreamOf(nodes, n) = [m \in Names |-> Cardinality(of(m))]
  BY DEF DownstreamOf
<1>7. QED
  BY <1>5, <1>6

\* buildDeployment makes a wiring.
LEMMA WiringType ==
  ASSUME NEW nodes \in Seq(Node), NEW i \in DOMAIN nodes
  PROVE  BuildDeployment(nodes, i) \in Wiring
<1>1. nodes[i] \in Node
  OBVIOUS
<1>2. DownstreamOf(nodes, nodes[i].name) \in [Names -> Nat]
  BY DownstreamType
<1>3. HasJoin(nodes[i]) \in BOOLEAN
  BY DEF HasJoin
<1>4. QED
  BY <1>1, <1>2, <1>3 DEF BuildDeployment, Wiring, Node

\* Reconcile that runs is on a node of its copy of the AgentSwarm.
LEMMA RecType ==
  ASSUME TypeOK, rec.step # "idle"
  PROVE  /\ rec \in Active /\ rec # Idle
         /\ rec.nodes \in Seq(Node) /\ rec.i \in 1..Len(rec.nodes) /\ rec.i \in DOMAIN rec.nodes
         /\ node \in Node /\ node.name \in Names
         /\ topic \in TopicName
<1>1. rec \in Active /\ rec # Idle
  BY DEF TypeOK, Idle
<1>2. rec.nodes \in Seq(Node) /\ rec.i \in DOMAIN rec.nodes
  BY <1>1 DEF TypeOK, Active
<1>3. node \in Node
  BY <1>2 DEF node
<1>4. node.name \in Names
  BY <1>3 DEF Node
<1>5. rec.i \in 1..Len(rec.nodes)
  BY <1>2
<1>6. topic \in TopicName
  BY <1>1, <1>4 DEF topic, TopicName, Active
<1>7. QED
  BY <1>1, <1>2, <1>3, <1>4, <1>5, <1>6

\* A state Reconcile may be in.
RecOK(r) == r \in Active \cup {Idle} /\ (r # Idle => r.i \in DOMAIN r.nodes)

\* Advance moves on within the nodes or returns.
LEMMA AdvanceType ==
  ASSUME TypeOK, rec.step # "idle"
  PROVE  /\ RecOK(Advance)
         /\ \/ Advance = AtNode(rec.uid, rec.nodes, rec.i + 1)
            \/ Advance = Idle /\ rec.i = Len(rec.nodes)
<1> USE RecType
<1> DEFINE r == AtNode(rec.uid, rec.nodes, rec.i + 1)
<1>1. CASE rec.i < Len(rec.nodes)
  <2>1. r \in Active
    BY DEF AtNode, Active, Copy
  <2>2. r.i \in DOMAIN r.nodes
    BY <1>1 DEF AtNode
  <2>3. r # Idle
    BY DEF AtNode, Idle
  <2>4. Advance = r
    BY <1>1 DEF Advance
  <2>5. QED
    BY <2>1, <2>2, <2>3, <2>4 DEF RecOK, AtNode
<1>2. CASE ~(rec.i < Len(rec.nodes))
  BY <1>2 DEF Advance, RecOK
<1>3. QED
  BY <1>1, <1>2

\* Ensured moves on to the changelog, the Deployment or the next node.
LEMMA EnsuredType ==
  ASSUME TypeOK, rec.step # "idle"
  PROVE  /\ RecOK(Ensured)
         /\ \/ Ensured = Advance /\ rec.kind = "input" /\ IsHITL(node)
            \/ /\ Ensured = [rec EXCEPT !.step = "list", !.kind = "joinstate"]
               /\ rec.kind = "input" /\ HasJoin(node) /\ ~IsHITL(node)
            \/ /\ Ensured = [rec EXCEPT !.step = "get"]
               /\ rec.kind = "joinstate" \/ (~HasJoin(node) /\ ~IsHITL(node))
<1> USE RecType
<1>1. CASE rec.kind = "input" /\ IsHITL(node)
  BY <1>1, AdvanceType DEF Ensured
<1>2. CASE rec.kind = "input" /\ ~IsHITL(node) /\ HasJoin(node)
  BY <1>2 DEF Ensured, RecOK, Active, Idle
<1>3. CASE rec.kind # "input" \/ (~IsHITL(node) /\ ~HasJoin(node))
  <2>1. Ensured = [rec EXCEPT !.step = "get"]
    BY <1>3 DEF Ensured
  <2>2. rec.kind \in {"input", "joinstate"}
    BY DEF Active
  <2>3. RecOK([rec EXCEPT !.step = "get"])
    BY DEF RecOK, Active, Idle
  <2>4. QED
    BY <1>3, <2>1, <2>2, <2>3
<1>4. QED
  BY <1>1, <1>2, <1>3
-----------------------------------------------------------------------------
(***************************************************************************)
(* Types.                                                                  *)
(***************************************************************************)

\* Writes of Deployments and topics, whether their reply arrives or not.
LEMMA WritesType ==
  ASSUME TypeOK, rec.step # "idle"
  PROVE  /\ TopicCreated => topics' \in [TopicName -> {"none", "delete", "compact"}]
         /\ DeploymentCreated \/ DeploymentUpdated =>
              /\ deployments' \in [Names -> Deployment \cup {NoDeployment}]
              /\ deploySeen' \in [Names -> Copy]
<1> USE RecType
<1> DEFINE desired == BuildDeployment(rec.nodes, rec.i)
<1>1. desired \in Wiring
  BY WiringType
<1>2. TopicCreated => topics' \in [TopicName -> {"none", "delete", "compact"}]
  BY DEF TopicCreated, TypeOK
<1>3. Invalidate(node.name) => deploySeen' \in [Names -> Copy]
  BY DEF Invalidate, Outdated, TypeOK, Copy
<1>4. ASSUME DeploymentCreated
      PROVE  deployments' \in [Names -> Deployment \cup {NoDeployment}]
  <2>1. rec.uid \in Nat \ {0}
    BY DEF Active
  <2>2. [owner |-> rec.uid, wiring |-> desired] \in Deployment
    BY <1>1, <2>1 DEF Deployment
  <2>3. QED
    BY <1>4, <2>2 DEF DeploymentCreated, TypeOK
<1>5. ASSUME DeploymentUpdated
      PROVE  deployments' \in [Names -> Deployment \cup {NoDeployment}]
  <2> DEFINE n == node.name
  <2>1. deployments' = [deployments EXCEPT ![n] = [@ EXCEPT !.wiring = desired]]
    BY <1>5 DEF DeploymentUpdated
  <2>2. deployments[n] \in Deployment \cup {NoDeployment}
    BY DEF TypeOK
  <2>3. [deployments[n] EXCEPT !.wiring = desired] \in Deployment \cup {NoDeployment}
    <3>1. CASE deployments[n] \in Deployment
      BY <1>1, <3>1 DEF Deployment
    <3>2. CASE deployments[n] = NoDeployment
      BY <3>2 DEF NoDeployment
    <3>3. QED
      BY <2>2, <3>1, <3>2
  <2>4. QED
    BY <2>1, <2>3 DEF TypeOK
<1>6. DeploymentCreated \/ DeploymentUpdated => deploySeen' \in [Names -> Copy]
  BY <1>3 DEF DeploymentCreated, DeploymentUpdated, TypeOK
<1>7. QED
  BY <1>2, <1>4, <1>5, <1>6

\* Foreign writes only make copies stale.
LEMMA ForeignWriteType ==
  ASSUME TypeOK, NEW n \in Names, ForeignWrite(n)
  PROVE  /\ deploySeen' \in [Names -> Copy]
         /\ RecOK(rec')
         /\ rec' # rec => /\ rec.step = "apply" /\ node.name = n
                          /\ rec' = [rec EXCEPT !.found = Outdated(@)]
<1>1. deploySeen' \in [Names -> Copy]
  BY DEF ForeignWrite, Invalidate, Outdated, TypeOK, Copy
<1>2. CASE rec' = rec
  BY <1>1, <1>2 DEF TypeOK, RecOK
<1>3. CASE rec.step = "apply" /\ node.name = n /\ rec' = [rec EXCEPT !.found = Outdated(@)]
  <2>1. rec \in Active /\ rec.i \in DOMAIN rec.nodes
    BY <1>3, RecType
  <2>2. rec.found \in Copy /\ Outdated(rec.found) \in Copy
    BY <2>1 DEF Active, Outdated, Copy
  <2>3. rec' \in Active /\ rec'.nodes = rec.nodes /\ rec'.i = rec.i
    BY <1>3, <2>1, <2>2 DEF Active
  <2>4. QED
    BY <1>1, <1>3, <2>1, <2>3 DEF RecOK
<1>4. QED
  BY <1>2, <1>3 DEF ForeignWrite, node

\* Every step of the user, of the cluster and of Reconcile keeps the types.
LEMMA TypeStep == TypeOK /\ [Next]_vars => TypeOK'
<1> SUFFICES ASSUME TypeOK, [Next]_vars PROVE TypeOK'
  OBVIOUS
<1> USE DesignsAssumption
<1>1. ASSUME NEW d \in Designs, CreateSwarm(d) PROVE TypeOK'
  BY <1>1 DEF CreateSwarm, TypeOK, Swarm, manager
<1>2. ASSUME NEW d \in Designs, EditSwarm(d) PROVE TypeOK'
  <2>1. swarm' \in Swarm
    <3>1. swarm \in [uid : Nat, exists : BOOLEAN, nodes : Seq(Node)] /\ d \in Seq(Node)
      BY DEF TypeOK, Swarm
    <3>2. swarm.exists => swarm.uid # 0
      BY DEF TypeOK, Swarm
    <3>3. QED
      BY <1>2, <3>1, <3>2 DEF EditSwarm, Swarm
  <2>2. QED
    BY <1>2, <2>1 DEF EditSwarm, TypeOK, manager
<1>3. CASE DeleteSwarm
  <2>1. swarm' \in Swarm
    <3>1. swarm \in [uid : Nat, exists : BOOLEAN, nodes : Seq(Node)] /\ <<>> \in Seq(Node)
      BY DEF TypeOK, Swarm
    <3>2. QED
      BY <1>3, <3>1 DEF DeleteSwarm, Swarm
  <2>2. QED
    BY <1>3, <2>1 DEF DeleteSwarm, TypeOK, manager
<1>4. CASE ObserveSwarm
  BY <1>4 DEF ObserveSwarm, TypeOK, cluster
<1>5. ASSUME NEW n \in Names, ObserveDeployment(n) PROVE TypeOK'
  BY <1>5 DEF ObserveDeployment, Latest, TypeOK, Copy, cluster
<1>6. ASSUME NEW n \in Names, CollectGarbage(n) PROVE TypeOK'
  <2>1. deployments' \in [Names -> Deployment \cup {NoDeployment}]
    BY <1>6 DEF CollectGarbage, TypeOK
  <2>2. deploySeen' \in [Names -> Copy] /\ RecOK(rec')
    BY <1>6, ForeignWriteType DEF CollectGarbage
  <2>3. QED
    BY <1>6, <2>1, <2>2 DEF CollectGarbage, TypeOK, RecOK
<1>7. ASSUME NEW n \in Names, StatusWrite(n) PROVE TypeOK'
  <2>1. deploySeen' \in [Names -> Copy] /\ RecOK(rec')
    BY <1>7, ForeignWriteType DEF StatusWrite
  <2>2. QED
    BY <1>7, <2>1 DEF StatusWrite, Fault, TypeOK, RecOK, cluster
<1>8. ASSUME NEW n \in Names, NEW m \in Names, AutoCreateTopic(n, m) PROVE TypeOK'
  <2>1. <<"input", m>> \in TopicName
    BY DEF TopicName
  <2>2. QED
    BY <1>8, <2>1 DEF AutoCreateTopic, TypeOK, manager
<1>9. CASE RestartManager
  <2>1. swarm.exists \in BOOLEAN
    BY DEF TypeOK, Swarm
  <2>2. deploySeen' \in [Names -> Copy]
    BY <1>9 DEF RestartManager, Latest, Copy
  <2>3. QED
    BY <1>9, <2>1, <2>2 DEF RestartManager, Fault, TypeOK, cluster
<1>10. CASE Reconcile
  <2> DEFINE r == AtNode(seen.uid, seen.nodes, 1)
  <2>1. RecOK(Idle)
    BY DEF RecOK
  <2>2. seen.exists /\ seen.nodes # <<>> => RecOK(r)
    <3>1. SUFFICES ASSUME seen.exists, seen.nodes # <<>> PROVE RecOK(r)
      OBVIOUS
    <3>2. seen.uid \in Nat \ {0} /\ seen.nodes \in Seq(Node)
      BY <3>1 DEF TypeOK, Swarm
    <3>3. 1 \in DOMAIN seen.nodes
      BY <3>1, <3>2
    <3>4. r \in Active
      BY <3>2 DEF AtNode, Active, Copy
    <3>5. QED
      BY <3>3, <3>4 DEF RecOK, AtNode
  <2>3. RecOK(rec')
    BY <1>10, <2>1, <2>2 DEF Reconcile
  <2>4. QED
    BY <1>10, <2>3 DEF Reconcile, TypeOK, RecOK, cluster
<1>11. CASE ListTopics
  <2>1. RecOK([rec EXCEPT !.step = "create"])
    BY <1>11, RecType DEF ListTopics, RecOK, Active, Idle
  <2>2. RecOK(rec')
    BY <1>11, <2>1, EnsuredType DEF ListTopics
  <2>3. QED
    BY <1>11, <2>2 DEF ListTopics, TypeOK, RecOK, cluster
<1>12. CASE CreateTopic
  <2>1. RecOK(rec') /\ topics' \in [TopicName -> {"none", "delete", "compact"}]
    BY <1>12, EnsuredType, WritesType DEF CreateTopic, TopicCreated
  <2>2. QED
    BY <1>12, <2>1 DEF CreateTopic, TopicCreated, TypeOK, RecOK
<1>13. CASE CreateTopicTooLate
  BY <1>13 DEF CreateTopicTooLate, ReconcileError, TypeOK, cluster
<1>14. CASE GetDeployment
  <2>1. deploySeen[node.name] \in Copy
    BY <1>14, RecType DEF GetDeployment, TypeOK
  <2>2. RecOK(rec')
    BY <1>14, <2>1, RecType DEF GetDeployment, RecOK, Active, Idle
  <2>3. QED
    BY <1>14, <2>2 DEF GetDeployment, TypeOK, RecOK, cluster
<1>15. CASE ApplyDeployment
  <2>1. rec.step = "apply" /\ UNCHANGED topics
    BY <1>15 DEF ApplyDeployment, DeploymentCreated, DeploymentUpdated
  <2>2. RecOK(rec') /\ deployments' \in [Names -> Deployment \cup {NoDeployment}]
                    /\ deploySeen' \in [Names -> Copy]
    BY <1>15, <2>1, AdvanceType, WritesType DEF ApplyDeployment
  <2>3. QED
    BY <1>15, <2>1, <2>2 DEF ApplyDeployment, TypeOK, RecOK
<1>16. CASE ApplyRefused
  BY <1>16 DEF ApplyRefused, ReconcileError, TypeOK, cluster
<1>17. CASE CallFails
  <2>1. rec.step # "idle"
    BY <1>17 DEF CallFails, TypeOK, Active, Idle
  <2>2. /\ topics' \in [TopicName -> {"none", "delete", "compact"}]
        /\ deployments' \in [Names -> Deployment \cup {NoDeployment}]
        /\ deploySeen' \in [Names -> Copy]
    <3>1. CASE TopicCreated
      BY <2>1, <3>1, WritesType DEF TopicCreated, TypeOK
    <3>2. CASE DeploymentCreated \/ DeploymentUpdated
      BY <2>1, <3>2, WritesType DEF DeploymentCreated, DeploymentUpdated, TypeOK
    <3>3. CASE UNCHANGED <<topics, deployments, deploySeen>>
      BY <3>3 DEF TypeOK
    <3>4. QED
      BY <1>17, <3>1, <3>2, <3>3 DEF CallFails
  <2>3. QED
    BY <1>17, <2>2 DEF CallFails, Fault, ReconcileError, TypeOK
<1>18. CASE UNCHANGED vars
  BY <1>18 DEF TypeOK, vars, cluster, manager
<1>19. QED
  BY <1>1, <1>2, <1>3, <1>4, <1>5, <1>6, <1>7, <1>8, <1>9, <1>10, <1>11, <1>12, <1>13,
     <1>14, <1>15, <1>16, <1>17, <1>18 DEF Next, ReconcileStep

\* TypeCorrect: in every state the operator and the cluster can reach, Reconcile
\* is idle or on a node of its copy of the spec, and every Deployment has an owner
\* and a wiring.
THEOREM TypeCorrect == Spec => []TypeOK
<1>1. ASSUME Init PROVE TypeOK
  <2>1. [uid |-> 0, exists |-> FALSE, nodes |-> <<>>] \in Swarm
    BY DEF Swarm
  <2>2. deploySeen \in [Names -> Copy] /\ queued \in BOOLEAN /\ rec = Idle
    BY <1>1 DEF Init, Copy
  <2>3. deployments \in [Names -> Deployment \cup {NoDeployment}]
    BY <1>1 DEF Init
  <2>4. topics \in [TopicName -> {"none", "delete", "compact"}]
    BY <1>1 DEF Init
  <2>5. edits \in Nat /\ faults \in Nat
    BY <1>1 DEF Init
  <2>6. QED
    BY <1>1, <2>1, <2>2, <2>3, <2>4, <2>5 DEF Init, TypeOK
<1>2. QED
  BY <1>1, TypeStep, PTL DEF Spec
-----------------------------------------------------------------------------
(***************************************************************************)
(* Topics come before workers.                                             *)
(***************************************************************************)

\* What ensureKafkaTopic and ensureCompactedTopic have done for the node that
\* Reconcile is on.  A changelog is created by nobody else, so it is compacted.
NodeTopics ==
  rec # Idle =>
    /\ rec.kind = "joinstate" \/ rec.step \in {"get", "apply"} =>
         ~IsHITL(node) /\ topics[<<"input", node.name>>] # "none"
    /\ rec.step \in {"get", "apply"} /\ HasJoin(node) => topics[<<"joinstate", node.name>>] # "none"

ChangelogsCompacted == \A n \in Names : topics[<<"joinstate", n>>] # "delete"

TopicsInv == NodeTopics /\ ChangelogsCompacted /\ TopicsBeforeWorkers

\* A topic that exists stays as it is, and a changelog is created compacted.
LEMMA TopicsStay ==
  ASSUME TypeOK, [Next]_vars
  PROVE  /\ \A t \in TopicName : topics[t] # "none" => topics'[t] = topics[t]
         /\ \A n \in Names : LET t == <<"joinstate", n>>
                            IN  topics'[t] = topics[t] \/ topics'[t] = "compact"
<1>0. \A n \in Names : <<"joinstate", n>> \in TopicName
  BY DEF TopicName
<1>1. CASE UNCHANGED topics
  BY <1>1
<1>2. CASE TopicCreated
  <2>1. topic \in TopicName
    BY <1>2, RecType DEF TopicCreated
  <2>2. /\ topics[topic] = "none"
        /\ topics' = [topics EXCEPT ![topic] =
                        IF rec.kind = "joinstate" THEN "compact" ELSE "delete"]
        /\ topics \in [TopicName -> {"none", "delete", "compact"}]
    BY <1>2 DEF TopicCreated, TypeOK
  <2>3. ASSUME NEW n \in Names, <<"joinstate", n>> = topic PROVE rec.kind = "joinstate"
    BY <2>3 DEF topic
  <2>4. QED
    BY <1>0, <2>1, <2>2, <2>3
<1>3. ASSUME NEW n \in Names, NEW m \in Names, AutoCreateTopic(n, m)
      PROVE  /\ \A t \in TopicName : topics[t] # "none" => topics'[t] = topics[t]
             /\ \A k \in Names : topics'[<<"joinstate", k>>] = topics[<<"joinstate", k>>]
  <2>1. \A k \in Names : <<"joinstate", k>> # <<"input", m>>
    OBVIOUS
  <2>2. QED
    BY <1>0, <1>3, <2>1 DEF AutoCreateTopic, TypeOK
<1>4. TopicCreated \/ UNCHANGED topics \/ \E n, m \in Names : AutoCreateTopic(n, m)
  BY DEF Next, ReconcileStep, CreateSwarm, EditSwarm, DeleteSwarm, ObserveSwarm, ObserveDeployment,
         CollectGarbage, StatusWrite, RestartManager, Reconcile, ListTopics, CreateTopic,
         CreateTopicTooLate, GetDeployment, ApplyDeployment, DeploymentCreated, DeploymentUpdated,
         ApplyRefused, CallFails, vars, cluster
<1>5. QED
  BY <1>0, <1>1, <1>2, <1>3, <1>4

\* A Deployment is deleted as garbage, or written by Reconcile on its node, from
\* Reconcile's copy of the spec.
LEMMA DeploymentWrites ==
  ASSUME TypeOK, [Next]_vars, NEW n \in Names
  PROVE  \/ deployments'[n] = deployments[n]
         \/ Garbage(n) /\ deployments'[n] = NoDeployment
         \/ /\ rec.step = "apply" /\ n = node.name /\ Exists(n)'
            /\ deployments'[n].wiring = BuildDeployment(rec.nodes, rec.i)
            /\ deployments'[n].owner = IF Exists(n) THEN deployments[n].owner ELSE rec.uid
<1> DEFINE desired == BuildDeployment(rec.nodes, rec.i)
<1>1. CASE UNCHANGED deployments
  BY <1>1
<1>2. ASSUME NEW m \in Names, CollectGarbage(m)
      PROVE  deployments'[n] = deployments[n] \/ (Garbage(n) /\ deployments'[n] = NoDeployment)
  BY <1>2 DEF CollectGarbage, TypeOK
<1>3. CASE DeploymentCreated
  <2>1. rec \in Active /\ node.name \in Names
    BY <1>3, RecType DEF DeploymentCreated
  <2>2. n # node.name => deployments'[n] = deployments[n]
    BY <1>3 DEF DeploymentCreated, TypeOK
  <2>3. n = node.name => deployments'[n] = [owner |-> rec.uid, wiring |-> desired]
    BY <1>3, <2>1 DEF DeploymentCreated, TypeOK
  <2>4. [owner |-> rec.uid, wiring |-> desired] # NoDeployment
    BY <2>1 DEF NoDeployment, Active
  <2>5. QED
    BY <1>3, <2>2, <2>3, <2>4 DEF DeploymentCreated, Exists
<1>4. CASE DeploymentUpdated
  <2>1. rec \in Active /\ node.name \in Names
    BY <1>4, RecType DEF DeploymentUpdated
  <2>2. n # node.name => deployments'[n] = deployments[n]
    BY <1>4 DEF DeploymentUpdated, TypeOK
  <2>3. n = node.name => deployments'[n] = [deployments[n] EXCEPT !.wiring = desired]
    BY <1>4, <2>1 DEF DeploymentUpdated, TypeOK
  <2>4. deployments[n] \in Deployment \cup {NoDeployment}
    BY DEF TypeOK
  <2>5. CASE deployments[n] = NoDeployment
    <3>1. [deployments[n] EXCEPT !.wiring = desired] = NoDeployment
      BY <2>5 DEF NoDeployment
    <3>2. QED
      BY <2>2, <2>3, <2>5, <3>1
  <2>6. CASE deployments[n] \in Deployment
    <3> DEFINE d == [deployments[n] EXCEPT !.wiring = desired]
    <3>1. d.owner = deployments[n].owner /\ d.wiring = desired /\ d.owner # 0
      BY <2>6 DEF Deployment
    <3>2. d # NoDeployment /\ deployments[n] # NoDeployment
      BY <2>6, <3>1 DEF NoDeployment, Deployment
    <3>3. QED
      BY <1>4, <2>2, <2>3, <3>1, <3>2 DEF DeploymentUpdated, Exists
  <2>7. QED
    BY <2>4, <2>5, <2>6
<1>5. \/ DeploymentCreated \/ DeploymentUpdated \/ UNCHANGED deployments
      \/ \E m \in Names : CollectGarbage(m)
  BY DEF Next, ReconcileStep, CreateSwarm, EditSwarm, DeleteSwarm, ObserveSwarm, ObserveDeployment,
         StatusWrite, AutoCreateTopic, RestartManager, Reconcile, ListTopics, CreateTopic,
         TopicCreated, CreateTopicTooLate, GetDeployment, ApplyDeployment, ApplyRefused, CallFails,
         vars, cluster
<1>6. QED
  BY <1>1, <1>2, <1>3, <1>4, <1>5
\* The ways Reconcile moves.
LEMMA RecMoves ==
  ASSUME TypeOK, [Next]_vars
  PROVE  \/ rec' = rec
         \/ rec' = Idle /\ (queued' \/ Reconcile \/ RestartManager)
         \/ Reconcile /\ rec' = AtNode(seen.uid, seen.nodes, 1)
         \/ rec.step = "list" /\ rec' = [rec EXCEPT !.step = "create"]
         \/ rec.step \in {"list", "create"} /\ topics'[topic] # "none" /\ rec' = Ensured
         \/ GetDeployment
         \/ ApplyDeployment
         \/ rec.step = "apply" /\ rec' = [rec EXCEPT !.found = Outdated(@)]
<1>1. CASE ListTopics
  BY <1>1 DEF ListTopics, cluster
<1>2. CASE CreateTopic
  <2>1. topic \in TopicName
    BY <1>2, RecType DEF CreateTopic, TopicCreated
  <2>2. topics'[topic] # "none"
    BY <1>2, <2>1 DEF CreateTopic, TopicCreated, TypeOK
  <2>3. QED
    BY <1>2, <2>2 DEF CreateTopic, TopicCreated
<1>3. ASSUME NEW n \in Names, ForeignWrite(n)
      PROVE  rec' = rec \/ (rec.step = "apply" /\ rec' = [rec EXCEPT !.found = Outdated(@)])
  BY <1>3 DEF ForeignWrite
<1>4. \/ rec' = rec \/ ListTopics \/ CreateTopic \/ GetDeployment \/ ApplyDeployment
      \/ rec' = Idle /\ (queued' \/ Reconcile \/ RestartManager)
      \/ Reconcile /\ rec' = AtNode(seen.uid, seen.nodes, 1)
      \/ \E n \in Names : ForeignWrite(n)
  BY DEF Next, ReconcileStep, CreateSwarm, EditSwarm, DeleteSwarm, ObserveSwarm, ObserveDeployment,
         CollectGarbage, StatusWrite, AutoCreateTopic, RestartManager, Reconcile,
         CreateTopicTooLate, ApplyRefused, CallFails, ReconcileError, vars, manager
<1>5. QED
  BY <1>1, <1>2, <1>3, <1>4

\* Reconcile reaches a node's Deployment through the node's topics.
LEMMA NodeTopicsStep ==
  ASSUME TypeOK, [Next]_vars, NodeTopics
  PROVE  NodeTopics'
<1> DEFINE in(n) == <<"input", n>>
           log(n) == <<"joinstate", n>>
<1>0. \A n \in Names : in(n) \in TopicName /\ log(n) \in TopicName
  BY DEF TopicName
<1>1. CASE rec' = Idle
  BY <1>1 DEF NodeTopics
<1>2. CASE \E uid, nodes, i : rec' = AtNode(uid, nodes, i)
  <2>1. rec'.step = "list" /\ rec'.kind = "input"
    BY <1>2 DEF AtNode
  <2>2. QED
    BY <2>1 DEF NodeTopics
<1>3. ASSUME rec # Idle, rec'.nodes = rec.nodes, rec'.i = rec.i, rec'.kind = rec.kind,
             \/ rec'.step = "create" \/ rec'.step = rec.step
             \/ rec.step = "get" /\ rec'.step = "apply"
      PROVE  NodeTopics'
  <2>1. node.name \in Names
    BY <1>3, RecType DEF TypeOK, Active, Idle
  <2>2. node' = node
    BY <1>3 DEF node
  <2>3. /\ topics[in(node.name)] # "none" => topics'[in(node.name)] # "none"
        /\ topics[log(node.name)] # "none" => topics'[log(node.name)] # "none"
    BY <1>0, <2>1, TopicsStay
  <2>4. QED
    BY <1>3, <2>2, <2>3 DEF NodeTopics
<1>4. CASE rec' = rec
  BY <1>1, <1>3, <1>4
<1>5. CASE rec.step = "list" /\ rec' = [rec EXCEPT !.step = "create"]
  BY <1>3, <1>5, RecType DEF Active
<1>6. CASE rec.step = "apply" /\ rec' = [rec EXCEPT !.found = Outdated(@)]
  BY <1>3, <1>6, RecType DEF Active
<1>7. CASE GetDeployment
  BY <1>3, <1>7, RecType DEF GetDeployment, Active
<1>8. CASE ApplyDeployment
  <2>1. rec.step = "apply" /\ rec' = Advance
    BY <1>8 DEF ApplyDeployment, DeploymentCreated, DeploymentUpdated
  <2>2. QED
    BY <1>1, <1>2, <2>1, AdvanceType
<1>9. CASE rec.step \in {"list", "create"} /\ topics'[topic] # "none" /\ rec' = Ensured
  <2>1. rec \in Active /\ rec # Idle /\ node.name \in Names
    BY <1>9, RecType
  <2>2. CASE Ensured = Advance
    BY <1>1, <1>2, <1>9, <2>2, AdvanceType
  <2>3. CASE /\ Ensured = [rec EXCEPT !.step = "list", !.kind = "joinstate"]
             /\ rec.kind = "input" /\ HasJoin(node) /\ ~IsHITL(node)
    <3>1. rec'.nodes = rec.nodes /\ rec'.i = rec.i /\ rec'.step = "list"
      BY <1>9, <2>1, <2>3 DEF Active
    <3>2. node' = node
      BY <3>1 DEF node
    <3>3. topics'[in(node.name)] # "none"
      BY <1>9, <2>3 DEF topic
    <3>4. QED
      BY <2>3, <3>1, <3>2, <3>3 DEF NodeTopics
  <2>4. CASE /\ Ensured = [rec EXCEPT !.step = "get"]
             /\ rec.kind = "joinstate" \/ (~HasJoin(node) /\ ~IsHITL(node))
    <3>1. rec'.nodes = rec.nodes /\ rec'.i = rec.i /\ rec'.step = "get" /\ rec'.kind = rec.kind
      BY <1>9, <2>1, <2>4 DEF Active
    <3>2. node' = node
      BY <3>1 DEF node
    <3>3. CASE rec.kind = "joinstate"
      <4>1. ~IsHITL(node) /\ topics[in(node.name)] # "none"
        BY <2>1, <3>3 DEF NodeTopics
      <4>2. topics'[in(node.name)] # "none" /\ topics'[log(node.name)] # "none"
        BY <1>0, <1>9, <2>1, <3>3, <4>1, TopicsStay DEF topic
      <4>3. QED
        BY <3>1, <3>2, <4>1, <4>2 DEF NodeTopics
    <3>4. CASE rec.kind = "input" /\ ~HasJoin(node) /\ ~IsHITL(node)
      BY <1>9, <3>1, <3>2, <3>4 DEF NodeTopics, topic
    <3>5. QED
      BY <2>1, <2>4, <3>3, <3>4 DEF Active
  <2>5. QED
    BY <1>9, <2>2, <2>3, <2>4, EnsuredType
<1>10. QED
  BY <1>1, <1>2, <1>4, <1>5, <1>6, <1>7, <1>8, <1>9, RecMoves

\* A Deployment is written when its topics are there, and they stay.
LEMMA TopicsStep ==
  ASSUME TypeOK, [Next]_vars, TopicsInv
  PROVE  TopicsInv'
<1>1. NodeTopics'
  BY NodeTopicsStep DEF TopicsInv
<1>2. ChangelogsCompacted'
  BY TopicsStay DEF TopicsInv, ChangelogsCompacted
<1>3. ASSUME NEW n \in Names, Exists(n)'
      PROVE  /\ topics'[<<"input", n>>] # "none"
             /\ deployments'[n].wiring.changelog => topics'[<<"joinstate", n>>] = "compact"
  <2>0. <<"input", n>> \in TopicName /\ <<"joinstate", n>> \in TopicName
    BY DEF TopicName
  <2>1. CASE deployments'[n] = deployments[n]
    BY <1>3, <2>0, <2>1, TopicsStay DEF TopicsInv, TopicsBeforeWorkers, Exists
  <2>2. CASE /\ rec.step = "apply" /\ n = node.name
             /\ deployments'[n].wiring = BuildDeployment(rec.nodes, rec.i)
    <3>1. rec # Idle
      BY <2>2, RecType
    <3>2. /\ topics[<<"input", n>>] # "none"
          /\ HasJoin(node) => topics[<<"joinstate", n>>] # "none"
      BY <2>2, <3>1 DEF TopicsInv, NodeTopics
    <3>3. BuildDeployment(rec.nodes, rec.i).changelog = HasJoin(node)
      BY DEF BuildDeployment, node
    <3>4. topics'[<<"joinstate", n>>] # "delete"
      BY <1>2 DEF ChangelogsCompacted
    <3>5. topics'[<<"joinstate", n>>] \in {"none", "delete", "compact"}
      BY <2>0, TypeStep DEF TypeOK
    <3>6. QED
      BY <2>0, <2>2, <3>2, <3>3, <3>4, <3>5, TopicsStay
  <2>3. QED
    BY <1>3, <2>1, <2>2, DeploymentWrites DEF Exists
<1>4. QED
  BY <1>1, <1>2, <1>3 DEF TopicsInv, TopicsBeforeWorkers

\* TopicsComeFirst: whatever is edited, deleted, auto-created or fails between two
\* calls of Reconcile, no worker runs without its input topic, nor a fan-in worker
\* without a compacted changelog.
THEOREM TopicsComeFirst == Spec => []TopicsBeforeWorkers
<1>1. Init => TopicsInv
  BY DEF Init, TopicsInv, NodeTopics, ChangelogsCompacted, TopicsBeforeWorkers, Exists, TopicName
<1>2. TypeOK /\ TopicsInv /\ [Next]_vars => TopicsInv'
  BY TopicsStep
<1>3. TopicsInv => TopicsBeforeWorkers
  BY DEF TopicsInv
<1>4. QED
  BY <1>1, <1>2, <1>3, TypeCorrect, PTL DEF Spec
-----------------------------------------------------------------------------
(***************************************************************************)
(* The operator rests only when its work is done.                          *)
(***************************************************************************)

\* One AgentSwarm, never created again under its name, whose nodes have names of
\* their own.
OneSwarm ==
  /\ MaxCreates <= 1
  /\ \A d \in Designs : \A i, j \in DOMAIN d : d[i].name = d[j].name => i = j

\* Every Deployment belongs to the AgentSwarm there is, or was.
OneOwner ==
  /\ swarm.uid <= 1 /\ seen.uid <= swarm.uid
  /\ rec # Idle => rec.uid = 1
  /\ \A n \in Names : Exists(n) => deployments[n].owner = 1

\* What the manager works from was asked for by the user.
FromDesigns ==
  /\ swarm.nodes \in Designs \cup {<<>>}
  /\ swarm.exists \/ swarm.nodes = <<>>
  /\ seen.nodes \in Designs \cup {<<>>}
  /\ rec # Idle => rec.nodes \in Designs

\* A copy with the API server's resource version is a copy of something.
CopiesExist ==
  /\ \A n \in Names : deploySeen[n] = "current" => Exists(n)
  /\ rec # Idle /\ rec.step = "apply" /\ rec.found = "current" => Exists(node.name)

\* Node j of a spec has its topic and, if it is a worker, its Deployment.
Placed(nodes, j) ==
  /\ topics[<<"input", nodes[j].name>>] # "none"
  /\ ~IsHITL(nodes[j]) => /\ Exists(nodes[j].name)
                          /\ deployments[nodes[j].name].wiring = BuildDeployment(nodes, j)

\* Unless a request is queued, what the cache holds is in place, or the running
\* Reconcile has that spec and has put the nodes before its own in place.
WorkTracked ==
  swarm.exists /\ seen.exists /\ ~queued =>
    /\ rec = Idle => \A j \in DOMAIN seen.nodes : Placed(seen.nodes, j)
    /\ rec # Idle => /\ rec.nodes = seen.nodes
                     /\ \A j \in 1..(rec.i - 1) : Placed(rec.nodes, j)

PlacedInv == OneOwner /\ FromDesigns /\ CopiesExist /\ WorkTracked

\* A Reconcile that goes on keeps its copy of the AgentSwarm.
LEMMA RecKeeps ==
  ASSUME TypeOK, [Next]_vars, rec' # Idle
  PROVE  \/ rec # Idle /\ rec'.uid = rec.uid /\ rec'.nodes = rec.nodes
         \/ /\ Reconcile /\ seen.exists /\ seen.nodes # <<>>
            /\ rec'.uid = seen.uid /\ rec'.nodes = seen.nodes
<1>1. CASE rec' = rec
  BY <1>1
<1>2. CASE Reconcile
  BY <1>2 DEF Reconcile, AtNode
<1>3. ASSUME rec.step # "idle",
             \/ rec' = [rec EXCEPT !.step = "create"] \/ rec' = [rec EXCEPT !.step = "get"]
             \/ rec' = [rec EXCEPT !.step = "list", !.kind = "joinstate"]
             \/ rec' = [rec EXCEPT !.found = Outdated(@)]
             \/ rec' = [rec EXCEPT !.step = "apply", !.found = deploySeen[node.name]]
             \/ rec' = AtNode(rec.uid, rec.nodes, rec.i + 1)
      PROVE  rec # Idle /\ rec'.uid = rec.uid /\ rec'.nodes = rec.nodes
  <2>1. rec \in Active /\ rec # Idle
    BY <1>3, RecType
  <2>2. CASE rec' = [rec EXCEPT !.step = "create"] \/ rec' = [rec EXCEPT !.step = "get"]
    BY <2>1, <2>2 DEF Active
  <2>3. CASE rec' = [rec EXCEPT !.step = "list", !.kind = "joinstate"]
    BY <2>1, <2>3 DEF Active
  <2>4. CASE rec' = [rec EXCEPT !.found = Outdated(@)]
    BY <2>1, <2>4 DEF Active
  <2>5. CASE rec' = [rec EXCEPT !.step = "apply", !.found = deploySeen[node.name]]
    BY <2>1, <2>5 DEF Active
  <2>6. CASE rec' = AtNode(rec.uid, rec.nodes, rec.i + 1)
    BY <2>1, <2>6 DEF AtNode
  <2>7. QED
    BY <1>3, <2>2, <2>3, <2>4, <2>5, <2>6
<1>4. rec.step # "idle" /\ rec' = Advance => rec' = AtNode(rec.uid, rec.nodes, rec.i + 1)
  BY AdvanceType
<1>5. CASE rec.step \in {"list", "create"} /\ rec' = Ensured
  BY <1>3, <1>4, <1>5, EnsuredType
<1>6. CASE GetDeployment
  BY <1>3, <1>6 DEF GetDeployment
<1>7. CASE ApplyDeployment
  BY <1>3, <1>4, <1>7 DEF ApplyDeployment, DeploymentCreated, DeploymentUpdated
<1>8. QED
  BY <1>1, <1>2, <1>3, <1>5, <1>6, <1>7, RecMoves

\* The ways the AgentSwarm and the cache's copy of it change.
LEMMA SwarmMoves ==
  ASSUME [Next]_vars
  PROVE  /\ \/ swarm' = swarm
            \/ \E d \in Designs : CreateSwarm(d) \/ EditSwarm(d)
            \/ DeleteSwarm
         /\ \/ seen' = seen
            \/ ObserveSwarm
            \/ RestartManager
         /\ queued' \/ queued' = queued \/ Reconcile \/ RestartManager
<1> USE DEF CreateSwarm, EditSwarm, DeleteSwarm, ObserveSwarm, ObserveDeployment, CollectGarbage,
            StatusWrite, AutoCreateTopic, RestartManager, Reconcile, ListTopics, CreateTopic,
            CreateTopicTooLate, GetDeployment, ApplyDeployment, ApplyRefused, CallFails,
            ReconcileError, ReconcileStep, Next, vars, cluster, manager
<1>1. swarm' = swarm \/ (\E d \in Designs : CreateSwarm(d) \/ EditSwarm(d)) \/ DeleteSwarm
  OBVIOUS
<1>2. seen' = seen \/ ObserveSwarm \/ RestartManager
  OBVIOUS
<1>3. queued' \/ queued' = queued \/ Reconcile \/ RestartManager
  OBVIOUS
<1>4. QED
  BY <1>1, <1>2, <1>3

\* An AgentSwarm that is created once has one UID, which is all a Reconcile can copy
\* into a Deployment.
LEMMA OneOwnerStep ==
  ASSUME OneSwarm, TypeOK, [Next]_vars, OneOwner
  PROVE  OneOwner'
<1> USE DesignsAssumption
<1>0. /\ swarm.uid \in Nat /\ seen.uid \in Nat
      /\ seen.exists => seen.uid # 0
  BY DEF TypeOK, Swarm
<1>1. swarm'.uid \in Nat /\ swarm'.uid <= 1 /\ swarm.uid <= swarm'.uid
  <2>1. CASE swarm' = swarm
    BY <1>0, <2>1 DEF OneOwner
  <2>2. ASSUME NEW d \in Designs, CreateSwarm(d) PROVE swarm'.uid = swarm.uid + 1 /\ swarm.uid = 0
    BY <1>0, <2>2 DEF CreateSwarm, OneSwarm
  <2>3. ASSUME (\E d \in Designs : EditSwarm(d)) \/ DeleteSwarm PROVE swarm'.uid = swarm.uid
    BY <2>3 DEF EditSwarm, DeleteSwarm, TypeOK, Swarm
  <2>4. QED
    BY <1>0, <2>1, <2>2, <2>3, SwarmMoves DEF OneOwner
<1>2. seen'.uid <= swarm'.uid
  <2>1. CASE seen' = seen
    BY <1>0, <1>1, <2>1 DEF OneOwner
  <2>2. CASE seen' = swarm
    BY <1>0, <1>1, <2>2
  <2>3. QED
    BY <2>1, <2>2, SwarmMoves DEF ObserveSwarm, RestartManager
<1>3. rec' # Idle => rec'.uid = 1
  BY <1>0, RecKeeps DEF OneOwner
<1>4. ASSUME NEW n \in Names, Exists(n)' PROVE deployments'[n].owner = 1
  <2>1. rec.step = "apply" => rec.uid = 1
    BY RecType DEF OneOwner
  <2>2. QED
    BY <1>4, <2>1, DeploymentWrites DEF Exists, OneOwner
<1>5. QED
  BY <1>1, <1>2, <1>3, <1>4 DEF OneOwner

\* Specs are copied, to the cache and to a Reconcile, and never made up.
LEMMA FromDesignsStep ==
  ASSUME TypeOK, [Next]_vars, FromDesigns
  PROVE  FromDesigns'
<1>1. swarm'.nodes \in Designs \cup {<<>>} /\ (swarm'.exists \/ swarm'.nodes = <<>>)
  <2>1. ASSUME NEW d \in Designs, EditSwarm(d) PROVE swarm'.nodes = d /\ swarm'.exists
    BY <2>1 DEF EditSwarm, TypeOK, Swarm
  <2>2. ASSUME NEW d \in Designs, CreateSwarm(d) PROVE swarm'.nodes = d /\ swarm'.exists
    BY <2>2 DEF CreateSwarm
  <2>3. CASE DeleteSwarm
    BY <2>3 DEF DeleteSwarm, TypeOK, Swarm
  <2>4. QED
    BY <2>1, <2>2, <2>3, SwarmMoves DEF FromDesigns
<1>2. seen'.nodes \in Designs \cup {<<>>}
  BY SwarmMoves DEF FromDesigns, ObserveSwarm, RestartManager
<1>3. rec' # Idle => rec'.nodes \in Designs
  BY RecKeeps DEF FromDesigns
<1>4. QED
  BY <1>1, <1>2, <1>3 DEF FromDesigns

\* A write or a deletion of a Deployment makes every copy of it stale.
LEMMA CopiesExistStep ==
  ASSUME TypeOK, [Next]_vars, CopiesExist
  PROVE  CopiesExist'
<1>1. ASSUME NEW n \in Names, deploySeen'[n] = "current" PROVE Exists(n)'
  <2>1. CASE deployments' = deployments /\ deploySeen' = deploySeen
    BY <1>1, <2>1 DEF CopiesExist, Exists
  <2>2. CASE ObserveDeployment(n)
    BY <1>1, <2>2 DEF ObserveDeployment, Latest, Exists, TypeOK, cluster
  <2>3. CASE RestartManager
    BY <1>1, <2>3 DEF RestartManager, Latest, Exists, cluster
  <2>4. ASSUME NEW m \in Names, ObserveDeployment(m), m # n PROVE Exists(n)'
    BY <1>1, <2>4 DEF ObserveDeployment, CopiesExist, Exists, TypeOK, cluster
  <2>5. ASSUME NEW m \in Names, Invalidate(m), m = n \/ deployments'[n] = deployments[n]
        PROVE  Exists(n)'
    BY <1>1, <2>5 DEF Invalidate, Outdated, CopiesExist, Exists, TypeOK
  <2>6. ASSUME NEW m \in Names, CollectGarbage(m) \/ StatusWrite(m) PROVE Exists(n)'
    BY <2>5, <2>6 DEF CollectGarbage, StatusWrite, ForeignWrite, TypeOK, cluster
  <2>7. CASE DeploymentCreated \/ DeploymentUpdated
    <3>1. node.name \in Names
      BY <2>7, RecType DEF DeploymentCreated, DeploymentUpdated
    <3>2. node.name = n \/ deployments'[n] = deployments[n]
      BY <2>7 DEF DeploymentCreated, DeploymentUpdated, TypeOK
    <3>3. Invalidate(node.name) \/ (deployments' = deployments /\ deploySeen' = deploySeen)
      BY <2>7 DEF DeploymentCreated, DeploymentUpdated
    <3>4. QED
      BY <2>1, <2>5, <3>1, <3>2, <3>3
  <2>8. \/ deployments' = deployments /\ deploySeen' = deploySeen
        \/ DeploymentCreated \/ DeploymentUpdated \/ RestartManager
        \/ \E m \in Names : ObserveDeployment(m) \/ CollectGarbage(m) \/ StatusWrite(m)
    BY DEF Next, ReconcileStep, CreateSwarm, EditSwarm, DeleteSwarm, ObserveSwarm,
           AutoCreateTopic, Reconcile, ListTopics, CreateTopic, TopicCreated, CreateTopicTooLate,
           GetDeployment, ApplyDeployment, ApplyRefused, CallFails, vars, cluster, manager
  <2>9. QED
    BY <2>1, <2>2, <2>3, <2>4, <2>6, <2>7, <2>8
<1>2. ASSUME rec' # Idle, rec'.step = "apply", rec'.found = "current" PROVE Exists(node.name)'
  <2>1. CASE GetDeployment
    <3>1. rec \in Active /\ node.name \in Names
      BY <2>1, RecType DEF GetDeployment
    <3>2. /\ rec' = [rec EXCEPT !.step = "apply", !.found = deploySeen[node.name]]
          /\ deployments' = deployments
      BY <2>1 DEF GetDeployment, cluster
    <3>3. rec'.nodes = rec.nodes /\ rec'.i = rec.i /\ rec'.found = deploySeen[node.name]
      BY <3>1, <3>2 DEF Active
    <3>4. QED
      BY <1>2, <3>1, <3>2, <3>3 DEF CopiesExist, Exists, node
  <2>2. CASE rec' = rec
    <3>1. node.name \in Names /\ node' = node /\ Exists(node.name)
      BY <1>2, <2>2, RecType DEF CopiesExist, node
    <3>2. CASE CollectGarbage(node.name)
      <4>1. rec' = [rec EXCEPT !.found = Outdated(@)]
        BY <1>2, <2>2, <3>2 DEF CollectGarbage, ForeignWrite, node
      <4>2. rec \in Active
        BY <1>2, <2>2, RecType
      <4>3. rec'.found = "stale"
        BY <1>2, <2>2, <4>1, <4>2 DEF Outdated, Active
      <4>4. QED
        BY <1>2, <4>3
    <3>3. CASE deployments'[node.name] = deployments[node.name]
      BY <3>1, <3>3 DEF Exists
    <3>4. ASSUME NEW m \in Names, CollectGarbage(m), m # node.name
          PROVE  deployments'[node.name] = deployments[node.name]
      BY <3>1, <3>4 DEF CollectGarbage, TypeOK
    <3>5. CASE DeploymentCreated \/ DeploymentUpdated
      <4>1. deployments'[node.name] # NoDeployment
        <5>1. CASE DeploymentCreated
          BY <3>1, <5>1 DEF DeploymentCreated
        <5>2. CASE DeploymentUpdated
          <6>1. deployments'[node.name] =
                  [deployments[node.name] EXCEPT !.wiring = BuildDeployment(rec.nodes, rec.i)]
            BY <3>1, <5>2 DEF DeploymentUpdated, TypeOK
          <6>2. deployments[node.name] \in Deployment
            BY <3>1 DEF Exists, TypeOK
          <6>3. deployments'[node.name].owner # 0
            BY <6>1, <6>2 DEF Deployment
          <6>4. QED
            BY <6>3 DEF NoDeployment
        <5>3. QED
          BY <3>5, <5>1, <5>2
      <4>2. QED
        BY <3>1, <4>1 DEF Exists
    <3>6. \/ UNCHANGED deployments \/ DeploymentCreated \/ DeploymentUpdated
          \/ \E m \in Names : CollectGarbage(m)
      BY DEF Next, ReconcileStep, CreateSwarm, EditSwarm, DeleteSwarm, ObserveSwarm,
             ObserveDeployment, StatusWrite, AutoCreateTopic, RestartManager, Reconcile,
             ListTopics, CreateTopic, TopicCreated, CreateTopicTooLate, GetDeployment,
             ApplyDeployment, ApplyRefused, CallFails, vars, cluster
    <3>7. QED
      BY <3>2, <3>3, <3>4, <3>5, <3>6
  <2>3. CASE rec.step = "apply" /\ rec' = [rec EXCEPT !.found = Outdated(@)]
    <3>1. rec'.found = Outdated(rec.found)
      BY <2>3, RecType DEF Active
    <3>2. QED
      BY <1>2, <3>1 DEF Outdated
  <2>4. ASSUME \E uid, nodes, i : rec' = AtNode(uid, nodes, i) PROVE FALSE
    BY <1>2, <2>4 DEF AtNode
  <2>5. ASSUME rec.step \in {"list", "create"}, rec' = Ensured PROVE FALSE
    <3>1. rec \in Active
      BY <2>5, RecType
    <3>2. Ensured # Advance
      BY <1>2, <2>4, <2>5, AdvanceType
    <3>3. Ensured # [rec EXCEPT !.step = "get"]
      BY <1>2, <2>5, <3>1 DEF Active
    <3>4. Ensured # [rec EXCEPT !.step = "list", !.kind = "joinstate"]
      BY <1>2, <2>5, <3>1 DEF Active
    <3>5. QED
      BY <2>5, <3>2, <3>3, <3>4, EnsuredType
  <2>6. ASSUME rec.step = "list", rec' = [rec EXCEPT !.step = "create"] PROVE FALSE
    BY <1>2, <2>6, RecType DEF Active
  <2>7. ASSUME ApplyDeployment PROVE FALSE
    BY <1>2, <2>4, <2>7, AdvanceType DEF ApplyDeployment, DeploymentCreated, DeploymentUpdated
  <2>8. QED
    BY <1>2, <2>1, <2>2, <2>3, <2>4, <2>5, <2>6, <2>7, RecMoves
<1>3. QED
  BY <1>1, <1>2 DEF CopiesExist

\* While the AgentSwarm exists, what is in place stays in place: nothing is
\* garbage, and Reconcile on the same spec writes the same wiring.
LEMMA PlacedStays ==
  ASSUME OneSwarm, TypeOK, [Next]_vars, OneOwner, swarm.exists,
         NEW nodes \in Designs, rec.step = "apply" => rec.nodes = nodes,
         NEW j \in DOMAIN nodes, Placed(nodes, j)
  PROVE  Placed(nodes, j)'
<1> DEFINE n == nodes[j].name
<1>1. nodes \in Seq(Node) /\ nodes[j] \in Node /\ n \in Names
  <2>1. nodes \in Seq(Node)
    BY DesignsAssumption
  <2>2. nodes[j] \in Node
    BY <2>1
  <2>3. QED
    BY <2>1, <2>2 DEF Node
<1>2. topics'[<<"input", n>>] # "none"
  BY <1>1, TopicsStay DEF Placed, TopicName
<1>3. ~Garbage(n)
  <2>1. swarm.uid = 1
    BY DEF OneOwner, TypeOK, Swarm
  <2>2. QED
    BY <1>1, <2>1 DEF Garbage, OneOwner
<1>4. ASSUME ~IsHITL(nodes[j])
      PROVE  Exists(n)' /\ deployments'[n].wiring = BuildDeployment(nodes, j)
  <2>1. Exists(n) /\ deployments[n].wiring = BuildDeployment(nodes, j)
    BY <1>4 DEF Placed
  <2>2. CASE deployments'[n] = deployments[n]
    BY <2>1, <2>2 DEF Exists
  <2>3. CASE /\ rec.step = "apply" /\ n = node.name /\ Exists(n)'
             /\ deployments'[n].wiring = BuildDeployment(rec.nodes, rec.i)
    <3>1. rec.nodes = nodes /\ rec.i \in DOMAIN nodes /\ nodes[rec.i].name = nodes[j].name
      BY <2>3, RecType DEF node
    <3>2. rec.i = j
      BY <3>1 DEF OneSwarm
    <3>3. QED
      BY <2>3, <3>1, <3>2
  <2>4. QED
    BY <1>1, <1>3, <2>2, <2>3, DeploymentWrites
<1>5. QED
  BY <1>2, <1>4 DEF Placed

\* When Reconcile leaves a node, the node is in place.
LEMMA LeavesPlaced ==
  ASSUME TypeOK, [Next]_vars, NodeTopics, CopiesExist,
         \/ ApplyDeployment
         \/ rec.step \in {"list", "create"} /\ topics'[topic] # "none" /\ Ensured = Advance,
         NEW nodes, nodes = rec.nodes, NEW j, j = rec.i
  PROVE  Placed(nodes, j)'
<1>1. CASE ApplyDeployment
  <2> DEFINE n == node.name
             desired == BuildDeployment(rec.nodes, rec.i)
  <2>1. rec.step = "apply" /\ rec # Idle /\ rec \in Active /\ n \in Names
    BY <1>1, RecType DEF ApplyDeployment, DeploymentCreated, DeploymentUpdated
  <2>2. topics'[<<"input", n>>] # "none"
    BY <2>1, TopicsStay DEF NodeTopics, TopicName
  <2>3. CASE DeploymentCreated
    <3>1. deployments'[n] = [owner |-> rec.uid, wiring |-> desired]
      BY <2>1, <2>3 DEF DeploymentCreated, TypeOK
    <3>2. deployments'[n] # NoDeployment
      BY <2>1, <3>1 DEF NoDeployment, Active
    <3>3. QED
      BY <2>2, <3>1, <3>2 DEF Placed, Exists, node
  <2>4. CASE DeploymentUpdated
    <3>1. deployments'[n] = [deployments[n] EXCEPT !.wiring = desired]
      BY <2>1, <2>4 DEF DeploymentUpdated, TypeOK
    <3>2. deployments[n] \in Deployment
      BY <2>1, <2>4 DEF DeploymentUpdated, CopiesExist, Exists, TypeOK
    <3>3. deployments'[n].owner # 0 /\ deployments'[n].wiring = desired
      BY <3>1, <3>2 DEF Deployment
    <3>4. deployments'[n] # NoDeployment
      BY <3>3 DEF NoDeployment
    <3>5. QED
      BY <2>2, <3>3, <3>4 DEF Placed, Exists, node
  <2>5. QED
    BY <1>1, <2>3, <2>4 DEF ApplyDeployment
<1>2. CASE rec.step \in {"list", "create"} /\ topics'[topic] # "none" /\ Ensured = Advance
  <2>1. rec \in Active
    BY <1>2, RecType
  <2>2. Ensured # [rec EXCEPT !.step = "get"]
    <3>1. [rec EXCEPT !.step = "get"].step = "get"
      BY <2>1 DEF Active
    <3>2. Advance.step # "get"
      BY <1>2, AdvanceType DEF AtNode, Idle
    <3>3. QED
      BY <1>2, <3>1, <3>2
  <2>3. Ensured # [rec EXCEPT !.step = "list", !.kind = "joinstate"]
    <3>1. /\ [rec EXCEPT !.step = "list", !.kind = "joinstate"].kind = "joinstate"
          /\ [rec EXCEPT !.step = "list", !.kind = "joinstate"].step = "list"
      BY <2>1 DEF Active
    <3>2. Advance.step = "list" => Advance.kind = "input"
      BY <1>2, AdvanceType DEF AtNode, Idle
    <3>3. QED
      BY <1>2, <3>1, <3>2
  <2>4. rec.kind = "input" /\ IsHITL(node)
    BY <1>2, <2>2, <2>3, EnsuredType
  <2>5. QED
    BY <1>2, <2>4 DEF Placed, topic, node
<1>3. QED
  BY <1>1, <1>2

\* No step loses a request: a Reconcile that ends early is queued again.
LEMMA WorkTrackedStep ==
  ASSUME OneSwarm, TypeOK, [Next]_vars, NodeTopics, PlacedInv
  PROVE  WorkTracked'
<1> USE DEF PlacedInv
<1> SUFFICES ASSUME swarm'.exists, seen'.exists, ~queued'
             PROVE  /\ rec' = Idle => \A j \in DOMAIN seen'.nodes : Placed(seen.nodes, j)'
                    /\ rec' # Idle => /\ rec'.nodes = seen'.nodes
                                      /\ \A j \in 1..(rec'.i - 1) : Placed(rec.nodes, j)'
  BY DEF WorkTracked
<1>1. ~RestartManager /\ ~ObserveSwarm
  <2>1. swarm.exists \in BOOLEAN
    BY DEF TypeOK, Swarm
  <2>2. QED
    BY <2>1 DEF RestartManager, ObserveSwarm, cluster
<1>2. seen' = seen /\ seen.exists /\ (~queued \/ Reconcile)
  BY <1>1, SwarmMoves DEF TypeOK
<1>3. swarm.exists
  <2>1. seen.uid # 0 /\ swarm.uid \in Nat /\ seen.uid \in Nat
    BY <1>2 DEF TypeOK, Swarm
  <2>2. ASSUME NEW d \in Designs, CreateSwarm(d) PROVE FALSE
    BY <2>1, <2>2, DesignsAssumption DEF CreateSwarm, OneSwarm, OneOwner
  <2>3. ~DeleteSwarm
    BY DEF DeleteSwarm, TypeOK, Swarm
  <2>4. QED
    BY <2>2, <2>3, SwarmMoves DEF EditSwarm
<1>4. CASE Reconcile
  <2>1. CASE seen.nodes = <<>>
    BY <1>2, <1>4, <2>1 DEF Reconcile
  <2>2. CASE seen.nodes # <<>>
    <3>1. rec' = AtNode(seen.uid, seen.nodes, 1)
      BY <1>2, <1>4, <2>2 DEF Reconcile
    <3>2. rec'.nodes = seen.nodes /\ rec'.i = 1 /\ rec' # Idle
      BY <3>1 DEF AtNode, Idle
    <3>3. QED
      BY <1>2, <3>2
  <2>3. QED
    BY <2>1, <2>2
<1>5. CASE ~Reconcile /\ rec = Idle
  <2>1. rec' = Idle
    BY <1>1, <1>5, RecMoves DEF GetDeployment, ApplyDeployment, DeploymentCreated,
       DeploymentUpdated, Idle
  <2>2. \A j \in DOMAIN seen.nodes : Placed(seen.nodes, j)
    BY <1>2, <1>3, <1>5 DEF WorkTracked
  <2>3. seen.nodes \in Designs \/ DOMAIN seen.nodes = {}
    BY DEF FromDesigns
  <2>4. rec.step # "apply"
    BY <1>5 DEF Idle
  <2>5. ASSUME NEW nodes, nodes = seen.nodes, NEW j \in DOMAIN nodes PROVE Placed(nodes, j)'
    BY <1>3, <2>2, <2>3, <2>4, <2>5, PlacedStays
  <2>6. QED
    BY <1>2, <2>1, <2>5 DEF Placed
<1>6. CASE ~Reconcile /\ rec # Idle
  <2>1. rec.nodes = seen.nodes /\ \A j \in 1..(rec.i - 1) : Placed(rec.nodes, j)
    BY <1>2, <1>3, <1>6 DEF WorkTracked
  <2>2. rec.step # "idle" /\ rec.i \in 1..Len(rec.nodes) /\ rec.nodes \in Seq(Node)
        /\ rec.nodes \in Designs /\ rec \in Active
    BY <1>6, RecType DEF TypeOK, Active, FromDesigns, Idle
  <2>3. ASSUME NEW nodes, nodes = rec.nodes, NEW j \in 1..(rec.i - 1) PROVE Placed(nodes, j)'
    <3>1. j \in DOMAIN nodes /\ nodes \in Designs /\ Placed(nodes, j)
      BY <2>1, <2>2, <2>3
    <3>2. QED
      BY <1>3, <2>3, <3>1, PlacedStays
  <2>4. ASSUME rec'.nodes = rec.nodes, rec'.i = rec.i, rec' # Idle
        PROVE  /\ rec'.nodes = seen'.nodes
               /\ \A j \in 1..(rec'.i - 1) : Placed(rec.nodes, j)'
    BY <1>2, <2>1, <2>3, <2>4 DEF Placed
  <2>5. ASSUME rec' = Advance,
               \/ ApplyDeployment
               \/ rec.step \in {"list", "create"} /\ topics'[topic] # "none" /\ Ensured = Advance
        PROVE  /\ rec' = Idle => \A j \in DOMAIN seen'.nodes : Placed(seen.nodes, j)'
               /\ rec' # Idle => /\ rec'.nodes = seen'.nodes
                                 /\ \A j \in 1..(rec'.i - 1) : Placed(rec.nodes, j)'
    <3>1. ASSUME NEW nodes, nodes = rec.nodes, NEW j \in 1..rec.i PROVE Placed(nodes, j)'
      <4>1. CASE j = rec.i
        BY <2>5, <3>1, <4>1, LeavesPlaced
      <4>2. CASE j \in 1..(rec.i - 1)
        BY <2>3, <3>1, <4>2
      <4>3. QED
        BY <2>2, <4>1, <4>2
    <3>2. CASE rec' = Idle /\ rec.i = Len(rec.nodes)
      <4>1. DOMAIN seen'.nodes = 1..rec.i
        BY <1>2, <2>1, <2>2, <3>2
      <4>2. QED
        BY <1>2, <2>1, <3>1, <3>2, <4>1 DEF Placed
    <3>3. CASE rec' = AtNode(rec.uid, rec.nodes, rec.i + 1)
      <4>1. rec'.nodes = rec.nodes /\ rec'.i = rec.i + 1 /\ rec' # Idle
        BY <3>3 DEF AtNode, Idle
      <4>2. 1..(rec'.i - 1) = 1..rec.i
        BY <2>2, <4>1
      <4>3. QED
        BY <1>2, <2>1, <3>1, <4>1, <4>2 DEF Placed
    <3>4. QED
      BY <2>2, <2>5, <3>2, <3>3, AdvanceType
  <2>6. CASE rec' = rec
    BY <1>6, <2>4, <2>6
  <2>7. CASE rec' = [rec EXCEPT !.step = "create"] \/ rec' = [rec EXCEPT !.step = "get"]
    BY <2>2, <2>4, <2>7 DEF Active, Idle
  <2>8. CASE rec' = [rec EXCEPT !.step = "list", !.kind = "joinstate"]
    BY <2>2, <2>4, <2>8 DEF Active, Idle
  <2>9. CASE rec.step = "apply" /\ rec' = [rec EXCEPT !.found = Outdated(@)]
    BY <2>2, <2>4, <2>9 DEF Active, Idle
  <2>10. CASE GetDeployment
    BY <2>2, <2>4, <2>10 DEF GetDeployment, Active, Idle
  <2>11. CASE ApplyDeployment
    BY <2>5, <2>11 DEF ApplyDeployment
  <2>12. CASE rec.step \in {"list", "create"} /\ topics'[topic] # "none" /\ rec' = Ensured
    BY <2>2, <2>5, <2>7, <2>8, <2>12, EnsuredType
  <2>13. QED
    BY <1>1, <1>6, <2>6, <2>7, <2>9, <2>10, <2>11, <2>12, RecMoves
<1>7. QED
  BY <1>4, <1>5, <1>6

\* RestMeansDone: for one AgentSwarm whose nodes have names of their own, the
\* operator never goes to rest (no request queued or running, caches up to date, no
\* garbage) with a topic or a Deployment missing or out of date, however edits,
\* stale reads, conflicts, lost replies and restarts interleave.
THEOREM RestMeansDone ==
  ASSUME OneSwarm
  PROVE  Spec => []SettledMeansApplied
<1> DEFINE Inv == NodeTopics /\ PlacedInv
<1>1. Init => PlacedInv
  <2> SUFFICES ASSUME Init PROVE PlacedInv
    OBVIOUS
  <2>1. swarm.uid = 0 /\ swarm.exists = FALSE /\ swarm.nodes = <<>> /\ seen = swarm /\ rec = Idle
    BY DEF Init
  <2>2. \A n \in Names : ~Exists(n) /\ deploySeen[n] # "current"
    BY DEF Init, Exists
  <2>3. QED
    BY <2>1, <2>2 DEF PlacedInv, OneOwner, FromDesigns, CopiesExist, WorkTracked
<1>2. Init => NodeTopics
  BY DEF Init, NodeTopics
<1>3. TypeOK /\ Inv /\ [Next]_vars => Inv'
  BY NodeTopicsStep, OneOwnerStep, FromDesignsStep, CopiesExistStep, WorkTrackedStep
     DEF PlacedInv
<1>4. TypeOK /\ Inv => SettledMeansApplied
  <2> SUFFICES ASSUME TypeOK, Inv, Settled PROVE SpecApplied
    BY DEF SettledMeansApplied
  <2>1. rec = Idle /\ ~queued /\ seen = swarm /\ \A n \in Names : ~Garbage(n)
    BY DEF Settled
  <2>2. CASE swarm.exists
    BY <2>1, <2>2 DEF PlacedInv, WorkTracked, Placed, SpecApplied
  <2>3. CASE ~swarm.exists
    <3>1. \A n \in Names : ~Exists(n)
      BY <2>1, <2>3 DEF Garbage
    <3>2. DOMAIN swarm.nodes = {}
      BY <2>3 DEF PlacedInv, FromDesigns
    <3>3. QED
      BY <3>1, <3>2 DEF SpecApplied
  <2>4. QED
    BY <2>2, <2>3
<1>5. QED
  BY <1>1, <1>2, <1>3, <1>4, TypeCorrect, PTL DEF Spec
=============================================================================

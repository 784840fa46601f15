----------------------------- MODULE Controller -----------------------------
(***************************************************************************)
(* The operator: AgentSwarmReconciler turns one AgentSwarm resource into   *)
(* Kafka topics and worker Deployments.                                    *)
(*                                                                         *)
(* Reconcile runs one request at a time and makes one remote call after    *)
(* the other, so the user, the garbage collector, the Deployment           *)
(* controller and the worker pods act between its steps.  It reads         *)
(* resources from the manager's cache, which lags behind the API server,   *)
(* and returns at the first error; the work queue then retries the request.*)
(* It watches the AgentSwarm only, not the Deployments it creates.         *)
(***************************************************************************)
EXTENDS Integers, Sequences, FiniteSets

CONSTANTS
  Names,       \* node names
  Designs,     \* spec.nodes the user may ask for: sequences of nodes
  MaxCreates,  \* bound on how often the user creates the AgentSwarm
  MaxEdits,    \* bound on the user's edits of it
  MaxFaults    \* bound on failed calls, lost replies, restarts and foreign writes

NodeTypes == {"Worker", "HumanInTheLoop"}
Node == [name : Names, type : NodeTypes, dependsOn : Seq(Names), replicas : Nat]

ASSUME DesignsAssumption ==
  /\ IsFiniteSet(Names)
  /\ Designs \subseteq Seq(Node)
  /\ MaxCreates \in Nat /\ MaxEdits \in Nat /\ MaxFaults \in Nat

VARIABLES
  swarm,        \* the AgentSwarm in the API server
  seen,         \* the AgentSwarm in the manager's cache
  queued,       \* whether the work queue holds a request for it
  topics,       \* cleanup policy of each topic in Kafka, "none" if absent
  deployments,  \* the Deployments in the API server
  deploySeen,   \* what the manager's cache holds of each Deployment
  rec,          \* where Reconcile is
  edits, faults

cluster == <<swarm, topics, deployments>>
manager == <<seen, queued, deploySeen, rec>>
vars    == <<cluster, manager, edits, faults>>

Swarm     == {s \in [uid : Nat, exists : BOOLEAN, nodes : Seq(Node)] : s.exists => s.uid # 0}
TopicName == {"input", "joinstate"} \X Names

(***************************************************************************)
(* buildDeployment, as far as the swarm's wiring goes.  OUTPUT_TOPICS has  *)
(* an input topic of a downstream node once per dependsOn entry that names *)
(* this node.                                                              *)
(***************************************************************************)
IsHITL(node)   == node.type = "HumanInTheLoop"
HasJoin(node)  == Len(node.dependsOn) > 1
DownstreamOf(nodes, n) ==
  LET edges == UNION {{j} \X (DOMAIN nodes[j].dependsOn) : j \in DOMAIN nodes}
  IN  [m \in Names |-> Cardinality({x \in edges : /\ nodes[x[1]].name = m
                                                 /\ nodes[x[1]].dependsOn[x[2]] = n})]

Wiring == [replicas : Nat, outputs : [Names -> Nat], dependsOn : Seq(Names), changelog : BOOLEAN]
BuildDeployment(nodes, i) ==
  [replicas  |-> IF nodes[i].replicas = 0 THEN 1 ELSE nodes[i].replicas,
   outputs   |-> DownstreamOf(nodes, nodes[i].name),
   dependsOn |-> nodes[i].dependsOn,
   changelog |-> HasJoin(nodes[i])]

\* A Deployment with its owner's UID, or none.
NoDeployment == [owner |-> 0]
Deployment   == [owner : Nat \ {0}, wiring : Wiring]

\* A copy of a Deployment: there is none, it has the resource version the API
\* server has, or it has an older one.
Copy == {"absent", "current", "stale"}

\* Reconcile: the step it is at, its copy of the AgentSwarm, the node it is on,
\* the topic it ensures, and its copy of the Deployment it found.
Idle   == [step |-> "idle"]
Active == [step : {"list", "create", "get", "apply"}, uid : Nat \ {0}, nodes : Seq(Node),
           i : Nat, kind : {"input", "joinstate"}, found : Copy]

TypeOK ==
  /\ swarm \in Swarm /\ seen \in Swarm
  /\ queued \in BOOLEAN
  /\ topics \in [TopicName -> {"none", "delete", "compact"}]
  /\ deployments \in [Names -> Deployment \cup {NoDeployment}]
  /\ deploySeen \in [Names -> Copy]
  /\ rec \in Active \cup {Idle}
  /\ rec # Idle => rec.i \in DOMAIN rec.nodes
  /\ edits \in Nat /\ faults \in Nat

Init ==
  /\ swarm = [uid |-> 0, exists |-> FALSE, nodes |-> <<>>]
  /\ seen = swarm
  /\ queued = FALSE
  /\ topics = [t \in TopicName |-> "none"]
  /\ deployments = [n \in Names |-> NoDeployment]
  /\ deploySeen = [n \in Names |-> "absent"]
  /\ rec = Idle
  /\ edits = 0
  /\ faults = 0
-----------------------------------------------------------------------------
(***************************************************************************)
(* The user.                                                               *)
(***************************************************************************)
CreateSwarm(d) ==
  /\ ~swarm.exists
  /\ swarm.uid < MaxCreates
  /\ swarm' = [uid |-> swarm.uid + 1, exists |-> TRUE, nodes |-> d]
  /\ UNCHANGED <<topics, deployments, manager, edits, faults>>

EditSwarm(d) ==
  /\ swarm.exists
  /\ edits < MaxEdits
  /\ swarm' = [swarm EXCEPT !.nodes = d]
  /\ edits' = edits + 1
  /\ UNCHANGED <<topics, deployments, manager, faults>>

DeleteSwarm ==
  /\ swarm.exists
  /\ swarm' = [swarm EXCEPT !.exists = FALSE, !.nodes = <<>>]
  /\ UNCHANGED <<topics, deployments, manager, edits, faults>>
-----------------------------------------------------------------------------
(***************************************************************************)
(* The cluster around the operator.                                        *)
(***************************************************************************)
Exists(n)  == deployments[n] # NoDeployment
Garbage(n) == Exists(n) /\ ~(swarm.exists /\ deployments[n].owner = swarm.uid)
Latest(n)  == IF Exists(n) THEN "current" ELSE "absent"
Fault      == faults < MaxFaults /\ faults' = faults + 1

\* The watch on AgentSwarms: the cache catches up and a request is queued.
ObserveSwarm ==
  /\ seen # swarm
  /\ seen' = swarm
  /\ queued' = TRUE
  /\ UNCHANGED <<cluster, deploySeen, rec, edits, faults>>

\* The cache of Deployments catches up.  Nothing is queued: SetupWithManager
\* does not watch Deployments.
ObserveDeployment(n) ==
  /\ deploySeen[n] # Latest(n)
  /\ deploySeen' = [deploySeen EXCEPT ![n] = Latest(n)]
  /\ UNCHANGED <<cluster, seen, queued, rec, edits, faults>>

\* Deployment n was written or deleted: copies of it are out of date.
Outdated(x)  == IF x = "current" THEN "stale" ELSE x
Invalidate(n) == deploySeen' = [deploySeen EXCEPT ![n] = Outdated(@)]
ForeignWrite(n) ==
  /\ Invalidate(n)
  /\ rec' = IF rec.step = "apply" /\ rec.nodes[rec.i].name = n
            THEN [rec EXCEPT !.found = Outdated(@)] ELSE rec

\* The garbage collector deletes a Deployment whose owner is gone.
CollectGarbage(n) ==
  /\ Garbage(n)
  /\ deployments' = [deployments EXCEPT ![n] = NoDeployment]
  /\ ForeignWrite(n)
  /\ UNCHANGED <<swarm, topics, seen, queued, edits, faults>>

\* The Deployment controller writes a status: the resource version changes.
StatusWrite(n) ==
  /\ Exists(n)
  /\ ForeignWrite(n)
  /\ Fault
  /\ UNCHANGED <<cluster, seen, queued, edits>>

\* A pod of node n publishes to an input topic that does not exist yet, and the
\* broker creates it with its defaults.
AutoCreateTopic(n, m) ==
  /\ Exists(n)
  /\ deployments[n].wiring.outputs[m] > 0
  /\ topics[<<"input", m>>] = "none"
  /\ topics' = [topics EXCEPT ![<<"input", m>>] = "delete"]
  /\ UNCHANGED <<swarm, deployments, manager, edits, faults>>

\* The manager process is replaced: its caches are filled anew and every
\* AgentSwarm is queued.
RestartManager ==
  /\ Fault
  /\ seen' = swarm
  /\ deploySeen' = [n \in Names |-> Latest(n)]
  /\ queued' = swarm.exists
  /\ rec' = Idle
  /\ UNCHANGED <<cluster, edits>>
-----------------------------------------------------------------------------
(***************************************************************************)
(* Reconcile.                                                              *)
(***************************************************************************)

\* Mutant of ReconcileError: the error is swallowed.
ErrorSwallowed == rec' = Idle /\ queued' = queued

\* An error is returned: the work queue retries the request.
ReconcileError == rec' = Idle /\ queued' = TRUE

\* The loop over the nodes, about to start with node i.
AtNode(uid, nodes, i) == [step |-> "list", uid |-> uid, nodes |-> nodes, i |-> i,
                          kind |-> "input", found |-> "absent"]

\* The request is taken from the queue and the AgentSwarm read from the cache; one
\* that is not found is ignored.
Reconcile ==
  /\ rec = Idle
  /\ queued
  /\ queued' = FALSE
  /\ rec' = IF seen.exists /\ seen.nodes # <<>>
            THEN AtNode(seen.uid, seen.nodes, 1) ELSE Idle
  /\ UNCHANGED <<cluster, seen, deploySeen, edits, faults>>

node  == rec.nodes[rec.i]
topic == <<rec.kind, node.name>>

\* Mutant of Advance: the loop over the nodes runs once too often.
AdvanceTooFar ==
  IF rec.i <= Len(rec.nodes) THEN AtNode(rec.uid, rec.nodes, rec.i + 1) ELSE Idle

\* On to the next node, or Reconcile returns without an error.
Advance ==
  IF rec.i < Len(rec.nodes) THEN AtNode(rec.uid, rec.nodes, rec.i + 1) ELSE Idle

\* Mutant of Ensured: the Deployment is applied before the changelog is ensured.
EnsuredInputOnly ==
  IF IsHITL(node) THEN Advance ELSE [rec EXCEPT !.step = "get"]

\* After the node's topic was ensured: a gate needs nothing else, a fan-in node
\* needs its changelog, and a worker its Deployment.
Ensured ==
  IF rec.kind = "input" /\ IsHITL(node) THEN Advance
  ELSE IF rec.kind = "input" /\ HasJoin(node)
       THEN [rec EXCEPT !.step = "list", !.kind = "joinstate"]
       ELSE [rec EXCEPT !.step = "get"]

\* ensureTopic: ListTopics, and CreateTopic only for a topic that was not listed.
\* A topic that exists is taken as it is.
ListTopics ==
  /\ rec.step = "list"
  /\ rec' = IF topics[topic] = "none" THEN [rec EXCEPT !.step = "create"] ELSE Ensured
  /\ UNCHANGED <<cluster, seen, queued, deploySeen, edits, faults>>

TopicCreated ==
  /\ rec.step = "create"
  /\ topics[topic] = "none"
  /\ topics' = [topics EXCEPT ![topic] = IF rec.kind = "joinstate" THEN "compact" ELSE "delete"]
  /\ UNCHANGED <<deployments, deploySeen>>

CreateTopic ==
  /\ TopicCreated
  /\ rec' = Ensured
  /\ UNCHANGED <<swarm, seen, queued, edits, faults>>

\* Somebody else created the topic after it was listed.
CreateTopicTooLate ==
  /\ rec.step = "create"
  /\ topics[topic] # "none"
  /\ ReconcileError
  /\ UNCHANGED <<cluster, seen, deploySeen, edits, faults>>

\* reconcileDeployment: Get from the cache ...
GetDeployment ==
  /\ rec.step = "get"
  /\ rec' = [rec EXCEPT !.step = "apply", !.found = deploySeen[node.name]]
  /\ UNCHANGED <<cluster, seen, queued, deploySeen, edits, faults>>

\* ... then Create one that was not found ...
DeploymentCreated ==
  /\ rec.step = "apply"
  /\ rec.found = "absent"
  /\ ~Exists(node.name)
  /\ deployments' = [deployments EXCEPT ![node.name] =
                       [owner |-> rec.uid, wiring |-> BuildDeployment(rec.nodes, rec.i)]]
  /\ Invalidate(node.name)
  /\ UNCHANGED topics

\* Mutant of DeploymentUpdated: only the replica count is carried over.
ReplicasUpdated ==
  /\ rec.step = "apply"
  /\ rec.found = "current"
  /\ deployments' = [deployments EXCEPT ![node.name].wiring.replicas =
                       BuildDeployment(rec.nodes, rec.i).replicas]
  /\ Invalidate(node.name)
  /\ UNCHANGED topics

\* ... or Update the one that was found, with the version that was read: replicas
\* and pod template are replaced, the owner reference stays.  A write that changes
\* nothing leaves the resource version alone.
DeploymentUpdated ==
  LET desired == BuildDeployment(rec.nodes, rec.i)
  IN  /\ rec.step = "apply"
      /\ rec.found = "current"
      /\ deployments' = [deployments EXCEPT ![node.name].wiring = desired]
      /\ IF deployments' = deployments THEN UNCHANGED deploySeen ELSE Invalidate(node.name)
      /\ UNCHANGED topics

ApplyDeployment ==
  /\ DeploymentCreated \/ DeploymentUpdated
  /\ rec' = Advance
  /\ UNCHANGED <<swarm, seen, queued, edits, faults>>

\* The cache was stale: AlreadyExists, Conflict or NotFound.
ApplyRefused ==
  /\ rec.step = "apply"
  /\ rec.found # Latest(node.name)
  /\ ReconcileError
  /\ UNCHANGED <<cluster, seen, deploySeen, edits, faults>>

\* A call fails (connecting to Kafka and reading the cache included), or takes
\* effect and its reply is lost.
CallFails ==
  /\ rec # Idle
  /\ Fault
  /\ \/ TopicCreated
     \/ DeploymentCreated
     \/ DeploymentUpdated
     \/ UNCHANGED <<topics, deployments, deploySeen>>
  /\ ReconcileError
  /\ UNCHANGED <<swarm, seen, edits>>
-----------------------------------------------------------------------------
ReconcileStep ==
  \/ Reconcile
  \/ ListTopics
  \/ CreateTopic
  \/ CreateTopicTooLate
  \/ GetDeployment
  \/ ApplyDeployment
  \/ ApplyRefused

Next ==
  \/ \E d \in Designs : CreateSwarm(d) \/ EditSwarm(d)
  \/ DeleteSwarm
  \/ ObserveSwarm
  \/ \E n \in Names : ObserveDeployment(n) \/ CollectGarbage(n) \/ StatusWrite(n)
  \/ \E n, m \in Names : AutoCreateTopic(n, m)
  \/ RestartManager
  \/ ReconcileStep
  \/ CallFails

Spec == Init /\ [][Next]_vars

(***************************************************************************)
(* Fairness: the watches deliver, the garbage collector runs, and the      *)
(* manager's worker takes queued requests and finishes them.               *)
(***************************************************************************)
Fairness ==
  /\ WF_vars(ObserveSwarm)
  /\ WF_vars(ReconcileStep)
  /\ \A n \in Names : WF_vars(ObserveDeployment(n)) /\ WF_vars(CollectGarbage(n))

FairSpec == Spec /\ Fairness
-----------------------------------------------------------------------------
(***************************************************************************)
(* Properties.                                                             *)
(***************************************************************************)

\* TopicsBeforeWorkers: whatever fails or is edited in between, a Deployment's
\* pods find their input topic and, at a fan-in node, a compacted changelog: the
\* topics are ensured before the Deployment is created or updated.
TopicsBeforeWorkers ==
  \A n \in Names : Exists(n) =>
    /\ topics[<<"input", n>>] # "none"
    /\ deployments[n].wiring.changelog => topics[<<"joinstate", n>>] = "compact"

\* What the spec has is there: every node has its topic and every worker the Deployment
\* its spec describes; without an AgentSwarm there are no Deployments.  Nothing is said
\* of the Deployment of a node that left the spec or became a gate: no step of
\* Reconcile deletes one, and its pods keep running.
SpecApplied ==
  /\ ~swarm.exists => \A n \in Names : ~Exists(n)
  /\ \A i \in DOMAIN swarm.nodes :
       LET nd == swarm.nodes[i]
       IN  /\ topics[<<"input", nd.name>>] # "none"
           /\ ~IsHITL(nd) => /\ Exists(nd.name)
                             /\ deployments[nd.name].wiring = BuildDeployment(swarm.nodes, i)

\* Nothing is left to do: no request is queued or running, the caches are up to
\* date and there is no garbage.
Settled ==
  /\ rec = Idle
  /\ ~queued
  /\ seen = swarm
  /\ \A n \in Names : ~Garbage(n) /\ deploySeen[n] = Latest(n)

\* SettledMeansApplied: the operator never goes to rest with a node of the spec not
\* applied: no interleaving of edits, stale reads, conflicts and failures loses a
\* request.
SettledMeansApplied == Settled => SpecApplied

\* EventuallyApplied: whatever is edited and whatever fails meanwhile, in the end every
\* node of the last spec has its topic, every worker of it the Deployment it describes,
\* and a deleted AgentSwarm none, for good.  Deployments of earlier specs that the last
\* one does not replace may still be there (see SpecApplied).
EventuallyApplied == <>[]SpecApplied
=============================================================================

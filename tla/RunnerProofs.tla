---------------------------- MODULE RunnerProofs ----------------------------
(***************************************************************************)
(* What holds of a Runner node for every number of pods, partitions,       *)
(* events and outputs.                                                     *)
(*                                                                         *)
(* Part 1, all nodes and straight-through ones: each invariant of          *)
(* Runner.tla is shown to be inductive, one step per action: TypeOK, then  *)
(* OffsetInv (claims and offsets), SentInv (what a goroutine has           *)
(* published), StraightInv (marked means published) and CompleteInv (what  *)
(* is worked on has passed join's count).                                  *)
(*                                                                         *)
(* Part 2, fan-in nodes with one pod whose sources all key their messages  *)
(* by correlation ID, for every number of partitions, events, sources and  *)
(* outputs: they lose nothing and no join is stuck.  The run               *)
(* two_pods_lose of MCRunner shows that this does not extend to a second   *)
(* pod.  FanInInv is inductive together with TypeOK, OffsetInv and         *)
(* SentInv: the lemmas first say which steps touch the changelog and the   *)
(* marks, then take the conjuncts of FanInInv one at a time.               *)
(*                                                                         *)
(* Part 3: a Runner node implements AtLeastOnce: a straight-through node   *)
(* with any number of pods, a fan-in node as in part 2.                    *)
(***************************************************************************)
EXTENDS Runner, TLAPS, FiniteSetTheorems

\* A missing map entry is a joinState with no contribution.
LEMMA NoJoinType == NoJoin \in Received
BY DEF NoJoin, Received

\* A goroutine between two messages is a task like the others.
LEMMA IdleType == Idle \in Task
BY DEF Task

\* A goroutine that is not idle is in a step of completeCorrelation.
LEMMA BusyType ==
  ASSUME TypeOK, NEW p \in Pods, NEW t \in Threads, task[p][t].stage # "idle"
  PROVE  task[p][t] \in BusyTask
BY DEF TypeOK, Task, Idle

\* What completeCorrelation starts with is a task.
LEMMA AgentLoopType ==
  ASSUME NEW c \in Corr, NEW d \in Received
  PROVE  AgentLoop(c, d) \in Task
BY ConstantsAssumption DEF AgentLoop, Task, BusyTask

\* A process that ends (log.Fatalf, SIGTERM, a kill) leaves well-typed state.
LEMMA ProcessEndsType ==
  ASSUME TypeOK, NEW p \in Pods, ProcessEnds(p)
  PROVE  /\ owner' \in [Partitions -> Pods \cup {NoPod}]
         /\ phase' \in [Pods -> {"down", "startup", "consuming"}]
         /\ replayed' \in [Pods -> SUBSET Partitions]
         /\ joins' \in [Pods -> [Corr -> Received]]
         /\ session' \in [Pods -> SUBSET Partitions]
         /\ pos' \in [Pods -> [Partitions -> Nat]]
         /\ marked' \in [Pods -> [Partitions -> Nat]]
         /\ task' \in [Pods -> [Threads -> Task]]
         /\ disruptions' \in Nat
BY NoJoinType, IdleType DEF TypeOK, ProcessEnds, Disrupt

\* Flushing the marks of a session writes offsets.
LEMMA FlushMarksType ==
  ASSUME TypeOK, NEW p \in Pods, FlushMarks(p) \/ committed' = committed
  PROVE  committed' \in [Partitions -> Nat]
<1>1. CASE committed' = committed
  BY <1>1 DEF TypeOK
<1>2. CASE FlushMarks(p)
  <2>1. \A q \in Partitions : marked[p][q] \in Nat /\ committed[q] \in Nat
    BY DEF TypeOK
  <2>2. QED
    BY <1>2, <2>1 DEF FlushMarks
<1>3. QED
  BY <1>1, <1>2

\* A contribution put into a join entry (join) makes a join entry.
LEMMA JoinedType ==
  ASSUME TypeOK, NEW p \in Pods, NEW q \in Partitions, Deliverable(p, q)
  PROVE  /\ input[q][pos[p][q] + 1] \in Envelope
         /\ Joined(p, input[q][pos[p][q] + 1]) \in Received
<1> DEFINE env == input[q][pos[p][q] + 1]
<1>1. env \in Envelope
  <2>1. input[q] \in Seq(Envelope) /\ pos[p][q] \in Nat
    BY DEF TypeOK
  <2>2. pos[p][q] + 1 \in 1..Len(input[q])
    BY <2>1 DEF Deliverable
  <2>3. QED
    BY <2>1, <2>2
<1>2. joins[p][env.corr] \in Received /\ env.source \in Sources /\ env.event \in Events
  BY <1>1 DEF TypeOK, Envelope
<1>3. Joined(p, env) \in Received
  BY <1>2 DEF Joined, Received
<1>4. QED
  BY <1>1, <1>3

\* publish appends well-typed records to the downstream topics.
LEMMA SentType ==
  ASSUME TypeOK, NEW p \in Pods, NEW t \in Threads, task[p][t] \in BusyTask
  PROVE  Sent(p, t) \in [Topics -> SUBSET OutRecord]
<1>1. [corr |-> task[p][t].corr, data |-> task[p][t].data] \in OutRecord
  BY DEF BusyTask, OutRecord
<1>2. out \in [Topics -> SUBSET OutRecord]
  BY DEF TypeOK
<1>3. QED
  BY <1>1, <1>2 DEF Sent

\* Every step of every pod, of Kafka and of the upstreams keeps the types.
LEMMA TypeStep == TypeOK /\ [Next]_vars => TypeOK'
<1> SUFFICES ASSUME TypeOK, [Next]_vars PROVE TypeOK'
  OBVIOUS
<1>1. ASSUME NEW s \in Sources, NEW e \in Events, NEW q \in Partitions,
             UpstreamPublishes(s, e, q)
      PROVE  TypeOK'
  <2>1. /\ CorrOf[e] \in Corr
        /\ [corr |-> CorrOf[e], source |-> s, event |-> e] \in Envelope
    BY ConstantsAssumption DEF Envelope
  <2>2. input' \in [Partitions -> Seq(Envelope)]
    BY <1>1, <2>1 DEF UpstreamPublishes, TypeOK
  <2>3. QED
    BY <1>1, <2>2 DEF UpstreamPublishes, TypeOK, podVars
<1>2. ASSUME NEW p \in Pods, StartPod(p) PROVE TypeOK'
  BY <1>2 DEF StartPod, TypeOK, kafkaVars
<1>3. ASSUME NEW p \in Pods, JoinGroup(p) PROVE TypeOK'
  BY <1>3 DEF JoinGroup, TypeOK, kafkaVars
<1>4. ASSUME NEW p \in Pods, NEW q \in Partitions, HydratePartition(p, q) PROVE TypeOK'
  BY <1>4 DEF HydratePartition, TypeOK, kafkaVars
<1>5. ASSUME NEW p \in Pods, NEW q \in Partitions, ReceiveStraight(p, q) PROVE TypeOK'
  <2> DEFINE env == input[q][pos[p][q] + 1]
  <2>1. env \in Envelope
    BY <1>5, JoinedType DEF ReceiveStraight
  <2>2. [NoJoin EXCEPT ![env.source] = env.event] \in Received
    BY <2>1, NoJoinType DEF Received, Envelope
  <2>3. AgentLoop(env.corr, [NoJoin EXCEPT ![env.source] = env.event]) \in Task
    BY <2>1, <2>2, AgentLoopType DEF Envelope
  <2>4. task' \in [Pods -> [Threads -> Task]]
    BY <1>5, <2>3 DEF ReceiveStraight, TypeOK, Threads
  <2>5. QED
    BY <1>5, <2>4 DEF ReceiveStraight, TypeOK, kafkaVars
<1>6. ASSUME NEW p \in Pods, NEW q \in Partitions, ReceiveJoin(p, q) PROVE TypeOK'
  <2> DEFINE env == input[q][pos[p][q] + 1]
             st  == Joined(p, env)
  <2>1. env \in Envelope /\ env.corr \in Corr /\ st \in Received
    BY <1>6, JoinedType DEF ReceiveJoin, Envelope
  <2>2. (IF Complete(st) THEN AgentLoop(env.corr, st) ELSE Idle) \in Task
    BY <2>1, AgentLoopType, IdleType
  <2> HIDE DEF env, st
  <2>3. task' \in [Pods -> [Threads -> Task]]
    BY <1>6, <2>2 DEF ReceiveJoin, TypeOK, Threads, env, st
  <2>4. joins' \in [Pods -> [Corr -> Received]] /\ joinState' \in [Corr -> Received]
    BY <1>6, <2>1 DEF ReceiveJoin, TypeOK, env, st
  <2>5. pos' \in [Pods -> [Partitions -> Nat]] /\ marked' \in [Pods -> [Partitions -> Nat]]
    BY <1>6 DEF ReceiveJoin, TypeOK
  <2>6. QED
    BY <1>6, <2>3, <2>4, <2>5 DEF ReceiveJoin, TypeOK
<1>7. ASSUME NEW p \in Pods, NEW q \in Partitions, MarkStraight(p, q) PROVE TypeOK'
  BY <1>7, IdleType DEF MarkStraight, TypeOK, kafkaVars, Threads
<1>8. ASSUME NEW p \in Pods, NEW q \in Partitions, CommitOffset(p, q) PROVE TypeOK'
  BY <1>8 DEF CommitOffset, TypeOK, podVars
<1>9. ASSUME NEW p \in Pods, NEW c \in Corr, RecoverJoin(p, c) PROVE TypeOK'
  <2>1. AgentLoop(c, joins[p][c]) \in Task
    BY AgentLoopType DEF TypeOK
  <2>2. task' \in [Pods -> [Threads -> Task]]
    BY <1>9, <2>1 DEF RecoverJoin, TypeOK, Threads
  <2>3. QED
    BY <1>9, <2>2 DEF RecoverJoin, TypeOK, kafkaVars
<1>10. ASSUME NEW p \in Pods, NEW t \in Threads, AgentLoopAnswers(p, t) PROVE TypeOK'
  <2>1. [task[p][t] EXCEPT !.stage = "publish"] \in Task
    BY <1>10, BusyType DEF AgentLoopAnswers, Task, BusyTask
  <2>2. task' \in [Pods -> [Threads -> Task]]
    BY <1>10, <2>1 DEF AgentLoopAnswers, TypeOK
  <2>3. QED
    BY <1>10, <2>2 DEF AgentLoopAnswers, TypeOK, kafkaVars
<1>11. ASSUME NEW p \in Pods, NEW t \in Threads, Publish(p, t) PROVE TypeOK'
  <2>1. task[p][t] \in BusyTask
    BY <1>11, BusyType DEF Publish
  <2>2. task[p][t].sent + 1 \in 0..NumOutputs
    BY <1>11, <2>1, ConstantsAssumption DEF Publish, BusyTask
  <2>6. [task[p][t] EXCEPT !.sent = @ + 1] \in Task
    BY <2>1, <2>2 DEF Task, BusyTask
  <2>3. task' \in [Pods -> [Threads -> Task]]
    BY <1>11, <2>6 DEF Publish, TypeOK
  <2>4. out' \in [Topics -> SUBSET OutRecord]
    BY <1>11, <2>1, SentType DEF Publish
  <2>5. QED
    BY <1>11, <2>3, <2>4 DEF Publish, TypeOK
<1>12. ASSUME NEW p \in Pods, NEW t \in Threads, ForgetJoin(p, t) PROVE TypeOK'
  <2>1. [task[p][t] EXCEPT !.stage = "tombstone"] \in Task
    BY <1>12, BusyType DEF ForgetJoin, Task, BusyTask
  <2>2. task' \in [Pods -> [Threads -> Task]]
    BY <1>12, <2>1 DEF ForgetJoin, TypeOK
  <2>3. QED
    BY <1>12, <2>2, NoJoinType DEF ForgetJoin, TypeOK, kafkaVars
<1>13. ASSUME NEW p \in Pods, NEW t \in Threads, TombstoneJoin(p, t) PROVE TypeOK'
  BY <1>13, IdleType, NoJoinType DEF TombstoneJoin, TypeOK
<1>14. ASSUME NEW p \in Pods, NEW S \in SUBSET Partitions, StartSession(p, S) PROVE TypeOK'
  BY <1>14 DEF StartSession, TypeOK
<1>15. ASSUME NEW p \in Pods, Crash(p) PROVE TypeOK'
  BY <1>15, ProcessEndsType DEF Crash, TypeOK
<1>16. ASSUME NEW p \in Pods, Shutdown(p) PROVE TypeOK'
  BY <1>16, ProcessEndsType, FlushMarksType DEF Shutdown, TypeOK
<1>17. ASSUME NEW p \in Pods, EndSession(p) PROVE TypeOK'
  <2>1. committed' \in [Partitions -> Nat]
    BY <1>17, FlushMarksType DEF EndSession
  <2>2. QED
    BY <1>17, <2>1 DEF EndSession, TypeOK, Disrupt
<1>18. ASSUME NEW p \in Pods, NEW q \in Partitions, RecordFails(p, q) PROVE TypeOK'
  <2> DEFINE env == input[q][pos[p][q] + 1]
             st  == Joined(p, env)
  <2>0. env.corr \in Corr /\ st \in Received
    BY <1>18, JoinedType DEF RecordFails, Envelope
  <2> HIDE DEF env, st
  <2>1. joinState' \in [Corr -> Received]
    BY <1>18, <2>0 DEF RecordFails, TypeOK, env, st
  <2>2. QED
    BY <1>18, <2>1, ProcessEndsType DEF RecordFails, TypeOK
<1>19. ASSUME NEW p \in Pods, NEW t \in Threads, AgentLoopFails(p, t) PROVE TypeOK'
  BY <1>19, ProcessEndsType DEF AgentLoopFails, TypeOK
<1>20. ASSUME NEW p \in Pods, NEW t \in Threads, PublishFails(p, t) PROVE TypeOK'
  <2>1. task[p][t] \in BusyTask
    BY <1>20, BusyType DEF PublishFails
  <2>2. out' \in [Topics -> SUBSET OutRecord]
    BY <1>20, <2>1, SentType DEF PublishFails, TypeOK
  <2>3. QED
    BY <1>20, <2>2, ProcessEndsType DEF PublishFails, TypeOK
<1>21. CASE UNCHANGED vars
  BY <1>21 DEF vars, kafkaVars, podVars, TypeOK
<1>22. QED
  BY <1>1, <1>2, <1>3, <1>4, <1>5, <1>6, <1>7, <1>8, <1>9, <1>10, <1>11, <1>12, <1>13, <1>14,
     <1>15, <1>16, <1>17, <1>18, <1>19, <1>20, <1>21
  DEF Next, PodProgress, PodDisrupted

\* The state of a node is well typed in every reachable state: in particular a
\* goroutine never publishes to more topics than OUTPUT_TOPICS lists, whatever the
\* number of pods, partitions, events and outputs.
THEOREM TypeCorrect == Spec => []TypeOK
<1>1. Init => TypeOK
  BY NoJoinType, IdleType, ConstantsAssumption DEF Init, TypeOK
<1>2. QED
  BY <1>1, TypeStep, PTL DEF Spec
-----------------------------------------------------------------------------
\* Flushing a session's marks (group.Close, the end of Consume) moves an offset
\* nowhere but forward, and never past the end of the log.
LEMMA FlushBounds ==
  ASSUME TypeOK, OffsetInv, NEW p \in Pods, FlushMarks(p) \/ committed' = committed
  PROVE  \A q \in Partitions :
           /\ committed'[q] \in Nat
           /\ committed[q] <= committed'[q]
           /\ committed'[q] <= Len(input[q])
           /\ committed'[q] # committed[q] =>
                q \in session[p] /\ owner[q] = p /\ committed'[q] = marked[p][q]
<1> SUFFICES ASSUME NEW q \in Partitions
             PROVE  /\ committed'[q] \in Nat
                    /\ committed[q] <= committed'[q]
                    /\ committed'[q] <= Len(input[q])
                    /\ committed'[q] # committed[q] =>
                         q \in session[p] /\ owner[q] = p /\ committed'[q] = marked[p][q]
  OBVIOUS
<1>1. /\ committed[q] \in Nat /\ marked[p][q] \in Nat /\ pos[p][q] \in Nat
      /\ Len(input[q]) \in Nat
  BY DEF TypeOK
<1>2. CASE committed' = committed
  BY <1>1, <1>2 DEF OffsetInv
<1>3. CASE FlushMarks(p)
  <2>1. committed'[q] = IF q \in session[p] /\ owner[q] = p THEN marked[p][q] ELSE committed[q]
    BY <1>3 DEF FlushMarks
  <2>2. q \in session[p] /\ owner[q] = p =>
          /\ committed[q] <= marked[p][q]
          /\ marked[p][q] <= pos[p][q]
          /\ pos[p][q] <= Len(input[q])
    BY DEF OffsetInv
  <2>3. committed[q] <= Len(input[q])
    BY DEF OffsetInv
  <2>4. QED
    BY <1>1, <2>1, <2>2, <2>3
<1>4. QED
  BY <1>2, <1>3

\* OffsetInv survives the end of a process: its claims and goroutines are gone.
LEMMA OffsetEnds ==
  ASSUME TypeOK, OffsetInv, NEW p \in Pods, ProcessEnds(p), input' = input,
         FlushMarks(p) \/ committed' = committed
  PROVE  OffsetInv'
<1>1. \A q \in Partitions : committed'[q] <= Len(input'[q])
  BY FlushBounds
<1>2. ASSUME NEW r \in Pods, NEW q \in Partitions, q \in session'[r]
      PROVE  /\ phase'[r] = "consuming"
             /\ marked'[r][q] <= pos'[r][q]
             /\ pos'[r][q] <= Len(input'[q])
             /\ owner'[q] = r => committed'[q] <= marked'[r][q]
  <2>1. r # p /\ q \in session[r] /\ phase'[r] = phase[r]
    BY <1>2 DEF ProcessEnds, TypeOK
  <2>2. marked'[r][q] = marked[r][q] /\ pos'[r][q] = pos[r][q]
    BY <2>1 DEF ProcessEnds, TypeOK
  <2>3. owner'[q] = r => owner[q] = r
    BY <2>1, ConstantsAssumption DEF ProcessEnds, TypeOK
  <2>4. owner'[q] = r => committed'[q] = committed[q]
    BY <2>1, <2>3, FlushBounds
  <2>5. QED
    BY <2>1, <2>2, <2>3, <2>4 DEF OffsetInv
<1>3. ASSUME NEW r \in Pods, NEW q \in Partitions, Busy(r, q)'
      PROVE  q \in session'[r]
  <2>1. q \in Threads
    BY DEF Threads
  <2>2. r # p /\ task'[r][q] = task[r][q] /\ session'[r] = session[r]
    BY <1>3, <2>1 DEF ProcessEnds, TypeOK, Busy, Idle
  <2>3. QED
    BY <1>3, <2>2 DEF OffsetInv, Busy
<1>4. ASSUME NEW r \in Pods, Busy(r, Main)'
      PROVE  phase'[r] = "startup"
  <2>1. Main \in Threads
    BY DEF Threads
  <2>2. r # p /\ task'[r][Main] = task[r][Main] /\ phase'[r] = phase[r]
    BY <1>4, <2>1 DEF ProcessEnds, TypeOK, Busy, Idle
  <2>3. QED
    BY <1>4, <2>2 DEF OffsetInv, Busy
<1>5. QED
  BY <1>1, <1>2, <1>3, <1>4 DEF OffsetInv

\* OffsetInv is inductive: what a pod has marked lies between what the group has
\* committed for the partitions it owns and what its claim was delivered.
LEMMA OffsetStep == TypeOK /\ OffsetInv /\ [Next]_vars => OffsetInv'
<1> SUFFICES ASSUME TypeOK, OffsetInv, [Next]_vars PROVE OffsetInv'
  OBVIOUS
<1> USE DEF Busy
<1>1. ASSUME NEW s \in Sources, NEW e \in Events, NEW q \in Partitions,
             UpstreamPublishes(s, e, q)
      PROVE  OffsetInv'
  <2>1. \A r \in Partitions : Len(input[r]) \in Nat /\ Len(input'[r]) \in Nat
                              /\ Len(input[r]) <= Len(input'[r])
    BY <1>1, ConstantsAssumption DEF UpstreamPublishes, TypeOK
  <2>2. \A r \in Partitions : committed[r] \in Nat /\ \A p \in Pods : pos[p][r] \in Nat
    BY DEF TypeOK
  <2>3. QED
    BY <1>1, <2>1, <2>2 DEF UpstreamPublishes, OffsetInv, podVars
<1>2. ASSUME NEW p \in Pods, StartPod(p) PROVE OffsetInv'
  BY <1>2 DEF StartPod, TypeOK, OffsetInv, kafkaVars
<1>3. ASSUME NEW p \in Pods, JoinGroup(p) PROVE OffsetInv'
  BY <1>3 DEF JoinGroup, TypeOK, OffsetInv, kafkaVars
<1>4. ASSUME NEW p \in Pods, NEW q \in Partitions, HydratePartition(p, q) PROVE OffsetInv'
  BY <1>4 DEF HydratePartition, OffsetInv, kafkaVars
<1>5. ASSUME NEW p \in Pods, NEW q \in Partitions, ReceiveStraight(p, q) PROVE OffsetInv'
  BY <1>5, ConstantsAssumption
     DEF ReceiveStraight, Deliverable, TypeOK, OffsetInv, kafkaVars, Threads
<1>6. ASSUME NEW p \in Pods, NEW q \in Partitions, ReceiveJoin(p, q) PROVE OffsetInv'
  BY <1>6, ConstantsAssumption DEF ReceiveJoin, Deliverable, TypeOK, OffsetInv, Threads
<1>7. ASSUME NEW p \in Pods, NEW q \in Partitions, MarkStraight(p, q) PROVE OffsetInv'
  BY <1>7, ConstantsAssumption DEF MarkStraight, TypeOK, OffsetInv, kafkaVars, Threads, Idle
<1>8. ASSUME NEW p \in Pods, NEW q \in Partitions, CommitOffset(p, q) PROVE OffsetInv'
  BY <1>8 DEF CommitOffset, TypeOK, OffsetInv, podVars
<1>9. ASSUME NEW p \in Pods, NEW c \in Corr, RecoverJoin(p, c) PROVE OffsetInv'
  BY <1>9, ConstantsAssumption DEF RecoverJoin, TypeOK, OffsetInv, kafkaVars, Threads
<1>10. ASSUME NEW p \in Pods, NEW t \in Threads, AgentLoopAnswers(p, t) PROVE OffsetInv'
  BY <1>10 DEF AgentLoopAnswers, TypeOK, OffsetInv, kafkaVars, Threads
<1>11. ASSUME NEW p \in Pods, NEW t \in Threads, Publish(p, t) PROVE OffsetInv'
  BY <1>11 DEF Publish, TypeOK, OffsetInv, Threads
<1>12. ASSUME NEW p \in Pods, NEW t \in Threads, ForgetJoin(p, t) PROVE OffsetInv'
  BY <1>12 DEF ForgetJoin, TypeOK, OffsetInv, kafkaVars, Threads
<1>13. ASSUME NEW p \in Pods, NEW t \in Threads, TombstoneJoin(p, t) PROVE OffsetInv'
  BY <1>13 DEF TombstoneJoin, TypeOK, OffsetInv, Threads, Idle
<1>14. ASSUME NEW p \in Pods, NEW S \in SUBSET Partitions, StartSession(p, S) PROVE OffsetInv'
  BY <1>14 DEF StartSession, TypeOK, OffsetInv
<1>15. ASSUME NEW p \in Pods, Crash(p) PROVE OffsetInv'
  BY <1>15, OffsetEnds DEF Crash
<1>16. ASSUME NEW p \in Pods, Shutdown(p) PROVE OffsetInv'
  BY <1>16, OffsetEnds DEF Shutdown
<1>17. ASSUME NEW p \in Pods, EndSession(p) PROVE OffsetInv'
  BY <1>17, FlushBounds DEF EndSession, TypeOK, OffsetInv
<1>18. ASSUME NEW p \in Pods, NEW q \in Partitions, RecordFails(p, q) PROVE OffsetInv'
  BY <1>18, OffsetEnds DEF RecordFails
<1>19. ASSUME NEW p \in Pods, NEW t \in Threads, AgentLoopFails(p, t) PROVE OffsetInv'
  BY <1>19, OffsetEnds DEF AgentLoopFails
<1>20. ASSUME NEW p \in Pods, NEW t \in Threads, PublishFails(p, t) PROVE OffsetInv'
  BY <1>20, OffsetEnds DEF PublishFails
<1>21. CASE UNCHANGED vars
  BY <1>21 DEF vars, kafkaVars, podVars, OffsetInv
<1>22. QED
  BY <1>1, <1>2, <1>3, <1>4, <1>5, <1>6, <1>7, <1>8, <1>9, <1>10, <1>11, <1>12, <1>13, <1>14,
     <1>15, <1>16, <1>17, <1>18, <1>19, <1>20, <1>21
  DEF Next, PodProgress, PodDisrupted

\* An offset is committed only from the mark of a session (MarkMessage) whose pod
\* owns the partition; no other step of the runner touches committed offsets.
LEMMA CommitSource ==
  ASSUME TypeOK, OffsetInv, [Next]_vars, NEW q \in Partitions
  PROVE  \/ committed'[q] = committed[q]
         \/ \E p \in Pods : /\ q \in session[p]
                            /\ owner[q] = p
                            /\ committed'[q] = marked[p][q]
<1> DEFINE Goal == \/ committed'[q] = committed[q]
                   \/ \E p \in Pods : /\ q \in session[p]
                                      /\ owner[q] = p
                                      /\ committed'[q] = marked[p][q]
<1>1. ASSUME NEW p \in Pods, FlushMarks(p) \/ committed' = committed PROVE Goal
  BY <1>1, FlushBounds
<1>2. ASSUME NEW p \in Pods, NEW r \in Partitions, CommitOffset(p, r) PROVE Goal
  BY <1>2 DEF CommitOffset, TypeOK
<1>3. ASSUME NEW p \in Pods, PodProgress(p)
      PROVE  committed' = committed \/ \E r \in Partitions : CommitOffset(p, r)
  BY <1>3 DEF PodProgress, StartPod, JoinGroup, HydratePartition, ReceiveStraight, ReceiveJoin,
              MarkStraight, RecoverJoin, AgentLoopAnswers, Publish, ForgetJoin, TombstoneJoin,
              kafkaVars
<1>4. ASSUME NEW p \in Pods, PodDisrupted(p)
      PROVE  FlushMarks(p) \/ committed' = committed
  BY <1>4 DEF PodDisrupted, Crash, Shutdown, EndSession, RecordFails, AgentLoopFails, PublishFails
<1>5. ASSUME committed' = committed PROVE Goal
  BY <1>5
<1> HIDE DEF Goal
<1>6. ASSUME NEW p \in Pods, PodProgress(p) \/ PodDisrupted(p) PROVE Goal
  BY <1>1, <1>2, <1>3, <1>4, <1>5, <1>6
<1>7. ASSUME NEW p \in Pods, NEW S \in SUBSET Partitions, StartSession(p, S)
      PROVE  committed' = committed
  BY <1>7 DEF StartSession
<1>8. ASSUME NEW s \in Sources, NEW e \in Events, NEW r \in Partitions, UpstreamPublishes(s, e, r)
      PROVE  committed' = committed
  BY <1>8 DEF UpstreamPublishes
<1>9. UNCHANGED vars => committed' = committed
  BY DEF vars, kafkaVars
<1>10. Goal
  BY <1>5, <1>6, <1>7, <1>8, <1>9 DEF Next
<1>11. QED
  BY <1>10 DEF Goal

\* OffsetInv holds before the first pod starts.
LEMMA OffsetInit == Init => OffsetInv
BY DEF Init, OffsetInv, Busy, Idle, Threads
-----------------------------------------------------------------------------
\* No step of the runner takes a record out of a downstream topic.
LEMMA OutGrows ==
  ASSUME TypeOK, [Next]_vars, NEW k \in Topics
  PROVE  out[k] \subseteq out'[k]
<1>1. CASE out' = out
  BY <1>1
<1>2. ASSUME NEW p \in Pods, NEW t \in Threads, out' = Sent(p, t)
      PROVE  out[k] \subseteq out'[k]
  <2>1. out \in [Topics -> SUBSET OutRecord]
    BY DEF TypeOK
  <2>2. QED
    BY <1>2, <2>1 DEF Sent
<1>3. ASSUME NEW p \in Pods, PodProgress(p)
      PROVE  out' = out \/ \E t \in Threads : out' = Sent(p, t)
  BY <1>3 DEF PodProgress, StartPod, JoinGroup, HydratePartition, ReceiveStraight, ReceiveJoin,
              MarkStraight, CommitOffset, RecoverJoin, AgentLoopAnswers, Publish, ForgetJoin,
              TombstoneJoin, kafkaVars
<1>4. ASSUME NEW p \in Pods, PodDisrupted(p)
      PROVE  out' = out \/ \E t \in Threads : out' = Sent(p, t)
  BY <1>4 DEF PodDisrupted, Crash, Shutdown, EndSession, RecordFails, AgentLoopFails, PublishFails
<1>5. QED
  BY <1>1, <1>2, <1>3, <1>4 DEF Next, UpstreamPublishes, StartSession, vars, kafkaVars

\* The input topic only grows; a record keeps its offset.
LEMMA InputGrows ==
  ASSUME TypeOK, [Next]_vars, NEW q \in Partitions
  PROVE  /\ Len(input[q]) \in Nat
         /\ Len(input'[q]) \in Nat
         /\ Len(input[q]) <= Len(input'[q])
         /\ \A i \in 1..Len(input[q]) : input'[q][i] = input[q][i]
<1>1. CASE input' = input
  BY <1>1 DEF TypeOK
<1>2. ASSUME NEW s \in Sources, NEW e \in Events, NEW r \in Partitions, UpstreamPublishes(s, e, r)
      PROVE  /\ Len(input[q]) \in Nat
             /\ Len(input'[q]) \in Nat
             /\ Len(input[q]) <= Len(input'[q])
             /\ \A i \in 1..Len(input[q]) : input'[q][i] = input[q][i]
  <2> DEFINE env == [corr |-> CorrOf[e], source |-> s, event |-> e]
  <2>1. env \in Envelope /\ input[q] \in Seq(Envelope)
    BY ConstantsAssumption DEF Envelope, TypeOK
  <2>2. input'[q] = input[q] \/ input'[q] = Append(input[q], env)
    BY <1>2 DEF UpstreamPublishes, TypeOK
  <2> HIDE DEF env
  <2>3. QED
    BY <2>1, <2>2
<1>3. ASSUME NEW p \in Pods, PodProgress(p) PROVE input' = input
  BY <1>3 DEF PodProgress, StartPod, JoinGroup, HydratePartition, ReceiveStraight, ReceiveJoin,
              MarkStraight, CommitOffset, RecoverJoin, AgentLoopAnswers, Publish, ForgetJoin,
              TombstoneJoin, kafkaVars
<1>4. ASSUME NEW p \in Pods, PodDisrupted(p) PROVE input' = input
  BY <1>4 DEF PodDisrupted, Crash, Shutdown, EndSession, RecordFails, AgentLoopFails, PublishFails
<1>5. QED
  BY <1>1, <1>2, <1>3, <1>4 DEF Next, StartSession, vars, kafkaVars

\* A record that was published (publish) stays published.
LEMMA PublishedStays ==
  ASSUME TypeOK, [Next]_vars, NEW q \in Partitions, NEW i \in 1..Len(input[q]),
         RecordPublished(q, i)
  PROVE  RecordPublished(q, i)'
<1>1. input'[q][i] = input[q][i]
  BY InputGrows
<1>2. \A k \in Topics : out[k] \subseteq out'[k]
  BY OutGrows
<1>3. QED
  BY <1>1, <1>2 DEF RecordPublished, PublishedWith

\* SentInv is inductive: what a goroutine counts as sent is in the topics, and it
\* reaches the tombstone only after the last topic.
LEMMA SentStep == TypeOK /\ SentInv /\ [Next]_vars => SentInv'
<1> SUFFICES ASSUME TypeOK, SentInv, [Next]_vars PROVE SentInv'
  OBVIOUS
<1> DEFINE SentOf(tk, o) == /\ \A k \in 1..tk.sent : [corr |-> tk.corr, data |-> tk.data] \in o[k]
                            /\ tk.stage = "tombstone" => IsFanIn /\ tk.sent = NumOutputs
<1> USE DEF SentInv
<1>1. ASSUME NEW p \in Pods, NEW t \in Threads PROVE SentOf(task[p][t], out')
  <2>1. task[p][t].sent \in 0..NumOutputs
    BY ConstantsAssumption DEF TypeOK, Task, BusyTask, Idle
  <2>2. \A k \in 1..task[p][t].sent : k \in Topics
    BY <2>1, ConstantsAssumption DEF Topics
  <2>3. QED
    BY <2>2, OutGrows
<1>2. SentOf(Idle, out')
  BY DEF Idle
<1>3. \A c \in Corr, d \in Received : SentOf(AgentLoop(c, d), out')
  BY DEF AgentLoop
<1> SUFFICES ASSUME NEW r \in Pods, NEW u \in Threads PROVE SentOf(task'[r][u], out')
  OBVIOUS
<1> HIDE DEF SentInv
<1>4. CASE task' = task
  BY <1>1, <1>4
<1>5. ASSUME NEW p \in Pods, task' = [task EXCEPT ![p] = [t \in Threads |-> Idle]]
      PROVE  SentOf(task'[r][u], out')
  <2>1. task'[r][u] = IF r = p THEN Idle ELSE task[r][u]
    BY <1>5 DEF TypeOK
  <2> HIDE DEF SentOf
  <2>2. QED
    BY <1>1, <1>2, <2>1
<1>6. ASSUME NEW p \in Pods, NEW t \in Threads, NEW x, SentOf(x, out'),
             task' = [task EXCEPT ![p][t] = x]
      PROVE  SentOf(task'[r][u], out')
  <2>1. task'[r][u] = IF r = p /\ u = t THEN x ELSE task[r][u]
    BY <1>6 DEF TypeOK
  <2> HIDE DEF SentOf
  <2>2. QED
    BY <1>1, <1>6, <2>1
<1>7. ASSUME NEW p \in Pods, PodProgress(p) PROVE SentOf(task'[r][u], out')
  <2>1. ASSUME NEW q \in Partitions, ReceiveStraight(p, q) PROVE SentOf(task'[r][u], out')
    <3> DEFINE env == input[q][pos[p][q] + 1]
               x   == AgentLoop(env.corr, [NoJoin EXCEPT ![env.source] = env.event])
    <3>1. SentOf(x, out')
      BY DEF AgentLoop
    <3>2. task' = [task EXCEPT ![p][q] = x] /\ q \in Threads
      BY <2>1 DEF ReceiveStraight, Threads
    <3> HIDE DEF x, SentOf
    <3>3. QED
      BY <1>6, <3>1, <3>2
  <2>2. ASSUME NEW q \in Partitions, ReceiveJoin(p, q) PROVE SentOf(task'[r][u], out')
    <3> DEFINE env == input[q][pos[p][q] + 1]
               st  == Joined(p, env)
               x   == IF Complete(st) THEN AgentLoop(env.corr, st) ELSE Idle
    <3>1. SentOf(x, out')
      BY DEF AgentLoop, Idle
    <3>2. task' = [task EXCEPT ![p][q] = x] /\ q \in Threads
      BY <2>2 DEF ReceiveJoin, Threads
    <3> HIDE DEF x, SentOf
    <3>3. QED
      BY <1>6, <3>1, <3>2
  <2>3. ASSUME NEW q \in Partitions, MarkStraight(p, q) PROVE SentOf(task'[r][u], out')
    <3>1. task' = [task EXCEPT ![p][q] = Idle] /\ q \in Threads
      BY <2>3 DEF MarkStraight, Threads
    <3> HIDE DEF SentOf
    <3>2. QED
      BY <1>2, <1>6, <3>1
  <2>4. ASSUME NEW c \in Corr, RecoverJoin(p, c) PROVE SentOf(task'[r][u], out')
    <3> DEFINE x == AgentLoop(c, joins[p][c])
    <3>1. SentOf(x, out')
      BY DEF AgentLoop
    <3>2. task' = [task EXCEPT ![p][Main] = x] /\ Main \in Threads
      BY <2>4 DEF RecoverJoin, Threads
    <3> HIDE DEF x, SentOf
    <3>3. QED
      BY <1>6, <3>1, <3>2
  <2>5. ASSUME NEW t \in Threads, AgentLoopAnswers(p, t) PROVE SentOf(task'[r][u], out')
    <3> DEFINE x == [task[p][t] EXCEPT !.stage = "publish"]
    <3>1. task[p][t] \in BusyTask
      BY <2>5, BusyType DEF AgentLoopAnswers
    <3>2. x.stage = "publish" /\ x.sent = task[p][t].sent /\ x.corr = task[p][t].corr
          /\ x.data = task[p][t].data
      BY <3>1 DEF BusyTask
    <3>3. SentOf(x, out')
      BY <1>1, <3>2
    <3>4. task' = [task EXCEPT ![p][t] = x]
      BY <2>5 DEF AgentLoopAnswers
    <3> HIDE DEF x, SentOf
    <3>5. QED
      BY <1>6, <3>3, <3>4
  <2>6. ASSUME NEW t \in Threads, Publish(p, t) PROVE SentOf(task'[r][u], out')
    <3> DEFINE x   == [task[p][t] EXCEPT !.sent = @ + 1]
               rec == [corr |-> task[p][t].corr, data |-> task[p][t].data]
    <3>1. task[p][t] \in BusyTask
      BY <2>6, BusyType DEF Publish
    <3>2. /\ x.stage = "publish" /\ x.sent = task[p][t].sent + 1
          /\ x.corr = task[p][t].corr /\ x.data = task[p][t].data
      BY <2>6, <3>1 DEF BusyTask, Publish
    <3>3. task[p][t].sent \in Nat /\ task[p][t].sent + 1 \in Topics
      BY <2>6, <3>1, ConstantsAssumption DEF BusyTask, Publish, Topics
    <3>4. rec \in out'[task[p][t].sent + 1]
      BY <2>6, <3>3 DEF Publish, Sent, TypeOK
    <3>5. \A k \in 1..task[p][t].sent : rec \in out'[k]
      BY <1>1
    <3>6. \A k \in 1..x.sent : rec \in out'[k]
      <4> SUFFICES ASSUME NEW k \in 1..x.sent PROVE rec \in out'[k]
        OBVIOUS
      <4>1. k \in 1..task[p][t].sent \/ k = task[p][t].sent + 1
        BY <3>2, <3>3
      <4> HIDE DEF rec, x
      <4>2. QED
        BY <3>4, <3>5, <4>1
    <3>7. SentOf(x, out')
      BY <3>2, <3>6
    <3>8. task' = [task EXCEPT ![p][t] = x]
      BY <2>6 DEF Publish
    <3> HIDE DEF x, SentOf
    <3>9. QED
      BY <1>6, <3>7, <3>8
  <2>7. ASSUME NEW t \in Threads, ForgetJoin(p, t) PROVE SentOf(task'[r][u], out')
    <3> DEFINE x == [task[p][t] EXCEPT !.stage = "tombstone"]
    <3>1. task[p][t] \in BusyTask
      BY <2>7, BusyType DEF ForgetJoin
    <3>2. x.sent = task[p][t].sent /\ x.corr = task[p][t].corr /\ x.data = task[p][t].data
      BY <3>1 DEF BusyTask
    <3>3. SentOf(x, out')
      BY <1>1, <2>7, <3>2 DEF ForgetJoin
    <3>4. task' = [task EXCEPT ![p][t] = x]
      BY <2>7 DEF ForgetJoin
    <3> HIDE DEF x, SentOf
    <3>5. QED
      BY <1>6, <3>3, <3>4
  <2>8. ASSUME NEW t \in Threads, TombstoneJoin(p, t) PROVE SentOf(task'[r][u], out')
    <3>1. task' = [task EXCEPT ![p][t] = Idle]
      BY <2>8 DEF TombstoneJoin
    <3> HIDE DEF SentOf
    <3>2. QED
      BY <1>2, <1>6, <3>1
  <2> HIDE DEF SentOf
  <2>9. QED
    BY <1>4, <1>7, <2>1, <2>2, <2>3, <2>4, <2>5, <2>6, <2>7, <2>8
    DEF PodProgress, StartPod, JoinGroup, HydratePartition, CommitOffset, podVars
<1>8. ASSUME NEW p \in Pods, PodDisrupted(p) PROVE SentOf(task'[r][u], out')
  <2>1. task' = task \/ task' = [task EXCEPT ![p] = [t \in Threads |-> Idle]]
    BY <1>8 DEF PodDisrupted, Crash, Shutdown, EndSession, RecordFails, AgentLoopFails,
                PublishFails, ProcessEnds
  <2> HIDE DEF SentOf
  <2>2. QED
    BY <1>4, <1>5, <2>1
<1> HIDE DEF SentOf
<1>9. QED
  BY <1>4, <1>7, <1>8 DEF Next, UpstreamPublishes, StartSession, podVars, vars
-----------------------------------------------------------------------------
\* The claim of a straight-through node keeps its invariant in a step that leaves
\* the claim and its goroutine alone.
LEMMA ClaimStays ==
  ASSUME TypeOK, OffsetInv, [Next]_vars, NEW p \in Pods, NEW q \in Partitions,
         q \in session[p], StraightClaim(p, q),
         marked'[p][q] = marked[p][q], pos'[p][q] = pos[p][q], Busy(p, q)' = Busy(p, q),
         task'[p][q].corr = task[p][q].corr, task'[p][q].data = task[p][q].data
  PROVE  StraightClaim(p, q)'
<1>1. /\ marked[p][q] \in Nat /\ pos[p][q] \in Nat
      /\ marked[p][q] <= pos[p][q] /\ pos[p][q] <= Len(input[q])
      /\ Len(input[q]) \in Nat
  BY DEF TypeOK, OffsetInv
<1>2. \A i \in 1..marked[p][q] : i \in 1..Len(input[q]) /\ RecordPublished(q, i)
  BY <1>1 DEF StraightClaim
<1>3. \A i \in 1..marked'[p][q] : RecordPublished(q, i)'
  BY <1>2, PublishedStays
<1>4. Busy(p, q) => input'[q][pos[p][q]] = input[q][pos[p][q]]
  <2>1. Busy(p, q) => pos[p][q] \in 1..Len(input[q])
    BY <1>1 DEF StraightClaim
  <2>2. QED
    BY <2>1, InputGrows
<1>5. QED
  BY <1>3, <1>4 DEF StraightClaim

\* StraightInv is inductive at a straight-through node: ConsumeClaim marks a
\* message only after completeCorrelation has published it to every topic, so all
\* marked and all committed records are published.
LEMMA StraightStep ==
  ASSUME ~IsFanIn
  PROVE  TypeOK /\ OffsetInv /\ SentInv /\ StraightInv /\ [Next]_vars => StraightInv'
<1> SUFFICES ASSUME TypeOK, OffsetInv, SentInv, StraightInv, [Next]_vars PROVE StraightInv'
  OBVIOUS
<1>1. ASSUME NEW q \in Partitions, NEW i \in 1..committed'[q] PROVE RecordPublished(q, i)'
  <2>1. /\ committed[q] \in Nat /\ committed[q] <= Len(input[q]) /\ Len(input[q]) \in Nat
        /\ \A p \in Pods : /\ marked[p][q] \in Nat /\ pos[p][q] \in Nat
                           /\ q \in session[p] => marked[p][q] <= Len(input[q])
    BY DEF TypeOK, OffsetInv
  <2>2. i \in 1..Len(input[q]) /\ RecordPublished(q, i)
    <3>1. CASE committed'[q] = committed[q]
      BY <2>1, <3>1 DEF StraightInv
    <3>2. ASSUME NEW p \in Pods, q \in session[p], committed'[q] = marked[p][q]
          PROVE  i \in 1..Len(input[q]) /\ RecordPublished(q, i)
      BY <2>1, <3>2 DEF StraightInv, StraightClaim
    <3>3. QED
      BY <3>1, <3>2, CommitSource
  <2>3. QED
    BY <2>2, PublishedStays
<1>2. ASSUME NEW r \in Pods, NEW q \in Partitions, q \in session'[r] PROVE StraightClaim(r, q)'
  <2>0. q \in Threads /\ q # Main
    BY ConstantsAssumption DEF Threads
  <2>1. ASSUME q \in session[r], marked'[r][q] = marked[r][q], pos'[r][q] = pos[r][q],
               task'[r][q] = task[r][q]
        PROVE  StraightClaim(r, q)'
    BY <2>1, ClaimStays DEF StraightInv, Busy
  <2>2. CASE UNCHANGED podVars
    BY <1>2, <2>1, <2>2 DEF podVars
  <2>3. ASSUME NEW p \in Pods, StartPod(p) PROVE StraightClaim(r, q)'
    BY <1>2, <2>1, <2>3 DEF StartPod
  <2>4. ASSUME NEW p \in Pods, JoinGroup(p) PROVE StraightClaim(r, q)'
    BY <1>2, <2>1, <2>4 DEF JoinGroup
  <2>5. ASSUME NEW p \in Pods, NEW u \in Partitions, HydratePartition(p, u)
        PROVE  StraightClaim(r, q)'
    BY <1>2, <2>1, <2>5 DEF HydratePartition
  <2>6. ASSUME NEW p \in Pods, NEW u \in Partitions, ReceiveStraight(p, u)
        PROVE  StraightClaim(r, q)'
    <3>1. CASE p # r \/ u # q
      <4>1. pos'[r][q] = pos[r][q] /\ task'[r][q] = task[r][q]
        BY <2>0, <2>6, <3>1 DEF ReceiveStraight, TypeOK, Threads
      <4>2. QED
        BY <1>2, <2>1, <2>6, <4>1 DEF ReceiveStraight
    <3>2. CASE p = r /\ u = q
      <4> DEFINE env == input[q][pos[r][q] + 1]
                 d   == [NoJoin EXCEPT ![env.source] = env.event]
      <4>1. /\ q \in session[r] /\ ~Busy(r, q)
            /\ pos'[r][q] = pos[r][q] + 1 /\ marked'[r][q] = marked[r][q]
            /\ task'[r][q] = AgentLoop(env.corr, d) /\ input' = input
        BY <2>0, <2>6, <3>2 DEF ReceiveStraight, Deliverable, TypeOK, Threads, Busy, kafkaVars
      <4>2. env \in Envelope /\ d[env.source] = env.event
        BY <2>6, <3>2, JoinedType DEF ReceiveStraight, Envelope, NoJoin
      <4>3. marked[r][q] = pos[r][q] /\ pos[r][q] \in Nat /\ pos[r][q] <= Len(input[q])
            /\ Len(input[q]) \in Nat
        BY <4>1 DEF StraightInv, StraightClaim, TypeOK, OffsetInv
      <4>4. \A i \in 1..marked[r][q] : i \in 1..Len(input[q]) /\ RecordPublished(q, i)
        <5>1. \A i \in 1..marked[r][q] : i \in 1..Len(input[q])
          BY <4>3
        <5>2. \A i \in 1..marked[r][q] : RecordPublished(q, i)
          BY <4>1 DEF StraightInv, StraightClaim
        <5>3. QED
          BY <5>1, <5>2
      <4>5. \A i \in 1..marked'[r][q] : RecordPublished(q, i)'
        BY <4>1, <4>4, PublishedStays
      <4>6. Busy(r, q)' /\ task'[r][q].corr = env.corr /\ task'[r][q].data = d
        BY <4>1 DEF Busy, AgentLoop
      <4>7. input'[q][pos'[r][q]] = env /\ marked'[r][q] = pos'[r][q] - 1
        BY <4>1, <4>3
      <4> HIDE DEF env, d
      <4>8. QED
        BY <4>2, <4>5, <4>6, <4>7 DEF StraightClaim
    <3>3. QED
      BY <3>1, <3>2
  <2>7. ASSUME NEW p \in Pods, NEW u \in Partitions, MarkStraight(p, u)
        PROVE  StraightClaim(r, q)'
    <3>1. CASE p # r \/ u # q
      <4>1. marked'[r][q] = marked[r][q] /\ task'[r][q] = task[r][q]
        BY <2>0, <2>7, <3>1 DEF MarkStraight, TypeOK, Threads
      <4>2. QED
        BY <1>2, <2>1, <2>7, <4>1 DEF MarkStraight
    <3>2. CASE p = r /\ u = q
      <4> DEFINE env == input[q][pos[r][q]]
      <4>1. /\ q \in session[r] /\ Busy(r, q) /\ task[r][q].sent = NumOutputs
            /\ pos'[r][q] = pos[r][q] /\ marked'[r][q] = pos[r][q]
            /\ task'[r][q] = Idle /\ input' = input /\ out' = out
        BY <1>2, <2>0, <2>7, <3>2 DEF MarkStraight, TypeOK, Threads, Busy, kafkaVars
      <4>2. /\ marked[r][q] = pos[r][q] - 1 /\ marked[r][q] \in Nat /\ pos[r][q] \in Nat
            /\ pos[r][q] <= Len(input[q]) /\ Len(input[q]) \in Nat
            /\ task[r][q].corr = env.corr /\ task[r][q].data[env.source] = env.event
        BY <4>1 DEF StraightInv, StraightClaim, TypeOK, OffsetInv
      <4>3. \A k \in Topics : [corr |-> task[r][q].corr, data |-> task[r][q].data] \in out[k]
        BY <2>0, <4>1 DEF SentInv, Topics
      <4>4. RecordPublished(q, pos[r][q])
        BY <4>2, <4>3 DEF RecordPublished, PublishedWith
      <4>5. \A i \in 1..pos[r][q] : i \in 1..Len(input[q]) /\ RecordPublished(q, i)
        <5>1. \A i \in 1..pos[r][q] : i \in 1..marked[r][q] \/ i = pos[r][q]
          BY <4>2
        <5>2. \A i \in 1..marked[r][q] : RecordPublished(q, i)
          BY <4>1 DEF StraightInv, StraightClaim
        <5>3. QED
          BY <4>2, <4>4, <5>1, <5>2
      <4>6. \A i \in 1..marked'[r][q] : RecordPublished(q, i)'
        BY <4>1, <4>5, PublishedStays
      <4>7. QED
        BY <4>1, <4>6 DEF StraightClaim, Busy, Idle
    <3>3. QED
      BY <3>1, <3>2
  <2>8. ASSUME NEW p \in Pods, NEW c \in Corr, RecoverJoin(p, c) PROVE StraightClaim(r, q)'
    <3>1. task'[r][q] = task[r][q]
      BY <2>0, <2>8 DEF RecoverJoin, TypeOK
    <3>2. QED
      BY <1>2, <2>1, <2>8, <3>1 DEF RecoverJoin
  <2>9. ASSUME NEW p \in Pods, NEW t \in Threads, AgentLoopAnswers(p, t) \/ Publish(p, t)
        PROVE  StraightClaim(r, q)'
    <3>1. /\ session' = session /\ marked' = marked /\ pos' = pos
      BY <2>9 DEF AgentLoopAnswers, Publish
    <3>2. /\ task'[r][q].corr = task[r][q].corr /\ task'[r][q].data = task[r][q].data
          /\ Busy(r, q)' = Busy(r, q)
      <4> DEFINE x == [task[p][t] EXCEPT !.stage = "publish"]
                 y == [task[p][t] EXCEPT !.sent = @ + 1]
      <4>1. Busy(p, t) /\ task[p][t] \in BusyTask
        BY <2>9, BusyType DEF AgentLoopAnswers, Publish, Busy
      <4>2. /\ x.corr = task[p][t].corr /\ x.data = task[p][t].data /\ x.stage = "publish"
            /\ y.corr = task[p][t].corr /\ y.data = task[p][t].data /\ y.stage = task[p][t].stage
        BY <4>1 DEF BusyTask
      <4>3. \/ task' = [task EXCEPT ![p][t] = x]
            \/ task' = [task EXCEPT ![p][t] = y]
        BY <2>9 DEF AgentLoopAnswers, Publish
      <4> HIDE DEF x, y
      <4>4. task'[r][q] = IF r = p /\ q = t THEN task'[p][t] ELSE task[r][q]
        BY <2>0, <4>3 DEF TypeOK
      <4>5. task'[p][t] = x \/ task'[p][t] = y
        BY <4>3 DEF TypeOK
      <4>6. QED
        BY <4>1, <4>2, <4>4, <4>5 DEF Busy
    <3>3. QED
      BY <1>2, <3>1, <3>2, ClaimStays DEF StraightInv
  <2>10. ASSUME NEW p \in Pods, NEW S \in SUBSET Partitions, StartSession(p, S)
         PROVE  StraightClaim(r, q)'
    <3>1. CASE p # r
      <4>1. q \in session[r] /\ marked'[r][q] = marked[r][q] /\ pos'[r][q] = pos[r][q]
        BY <1>2, <2>10, <3>1 DEF StartSession, TypeOK
      <4>2. QED
        BY <2>1, <2>10, <4>1 DEF StartSession
    <3>2. CASE p = r
      <4>1. /\ marked'[r][q] = committed[q] /\ pos'[r][q] = committed[q]
            /\ task' = task /\ ~Busy(r, q)
        BY <2>10, <3>2 DEF StartSession, TypeOK, OffsetInv
      <4>2. committed[q] \in Nat /\ committed[q] <= Len(input[q]) /\ Len(input[q]) \in Nat
        BY DEF TypeOK, OffsetInv
      <4>3. \A i \in 1..committed[q] : i \in 1..Len(input[q]) /\ RecordPublished(q, i)
        BY <4>2 DEF StraightInv
      <4>4. \A i \in 1..marked'[r][q] : RecordPublished(q, i)'
        BY <4>1, <4>3, PublishedStays
      <4>5. QED
        BY <4>1, <4>4 DEF StraightClaim, Busy
    <3>3. QED
      BY <3>1, <3>2
  <2>11. ASSUME NEW p \in Pods, PodDisrupted(p) PROVE StraightClaim(r, q)'
    <3>1. CASE EndSession(p)
      BY <1>2, <2>1, <3>1 DEF EndSession, TypeOK
    <3>2. CASE ProcessEnds(p)
      <4>1. r # p /\ q \in session[r]
        BY <1>2, <3>2 DEF ProcessEnds, TypeOK
      <4>2. marked'[r] = marked[r] /\ pos'[r] = pos[r] /\ task'[r] = task[r]
        BY <3>2, <4>1 DEF ProcessEnds, TypeOK
      <4>3. QED
        BY <2>1, <4>1, <4>2
    <3>3. QED
      BY <2>11, <3>1, <3>2
      DEF PodDisrupted, Crash, Shutdown, RecordFails, AgentLoopFails, PublishFails
  <2>12. ASSUME NEW p \in Pods, PodProgress(p) PROVE StraightClaim(r, q)'
    <3>1. \A t \in Threads : ~ForgetJoin(p, t) /\ ~TombstoneJoin(p, t)
      BY DEF ForgetJoin, TombstoneJoin, SentInv
    <3>2. \A u \in Partitions : ~ReceiveJoin(p, u) /\ (CommitOffset(p, u) => UNCHANGED podVars)
      BY DEF ReceiveJoin, CommitOffset
    <3>3. QED
      BY <2>2, <2>3, <2>4, <2>5, <2>6, <2>7, <2>8, <2>9, <2>12, <3>1, <3>2 DEF PodProgress
  <2>13. QED
    BY <2>2, <2>10, <2>11, <2>12 DEF Next, UpstreamPublishes, vars
<1>3. QED
  BY <1>1, <1>2, TypeStep DEF StraightInv, TypeOK

\* A straight-through node loses nothing: every record below the committed offset
\* has reached every downstream topic, with any number of pods, crashes at any
\* point of ConsumeClaim and publish, failed sends and zombie goroutines.
THEOREM StraightNothingLost == ASSUME ~IsFanIn PROVE Spec => []NothingLost
<1>1. Init => SentInv /\ StraightInv
  BY DEF Init, SentInv, StraightInv, Idle
<1>2. StraightInv => NothingLost
  BY DEF StraightInv, NothingLost, RecordPublished
<1>3. QED
  BY <1>1, <1>2, TypeCorrect, OffsetInit, OffsetStep, SentStep, StraightStep, PTL DEF Spec
-----------------------------------------------------------------------------
\* CompleteInv is inductive: whoever calls completeCorrelation (ConsumeClaim or
\* the recovery loop of main) does so for a join that passed the count.
LEMMA CompleteStep == TypeOK /\ CompleteInv /\ [Next]_vars => CompleteInv'
<1> SUFFICES ASSUME TypeOK, CompleteInv, [Next]_vars, IsFanIn PROVE CompleteInv'
  BY DEF CompleteInv
<1> DEFINE DataOK(tk) == tk.stage # "idle" => Complete(tk.data)
<1>1. \A p \in Pods, t \in Threads : DataOK(task[p][t])
  BY DEF CompleteInv, Busy
<1>2. DataOK(Idle)
  BY DEF Idle
<1>3. ASSUME NEW k \in Topics, NEW o \in out'[k] PROVE Complete(o.data)
  <2>1. ASSUME NEW p \in Pods, NEW t \in Threads, task[p][t].stage = "publish", out' = Sent(p, t)
        PROVE  Complete(o.data)
    <3>1. o \in out[k] \/ o = [corr |-> task[p][t].corr, data |-> task[p][t].data]
      BY <2>1 DEF Sent, TypeOK
    <3>2. o \in out[k] \/ o.data = task[p][t].data
      BY <3>1
    <3>3. Complete(task[p][t].data)
      BY <1>1, <2>1
    <3>4. QED
      BY <3>2, <3>3 DEF CompleteInv
  <2>2. ASSUME out' = out PROVE Complete(o.data)
    BY <2>2 DEF CompleteInv
  <2>3. ASSUME NEW p \in Pods, PodProgress(p)
        PROVE  \/ out' = out
               \/ \E t \in Threads : task[p][t].stage = "publish" /\ out' = Sent(p, t)
    BY <2>3 DEF PodProgress, StartPod, JoinGroup, HydratePartition, ReceiveStraight, ReceiveJoin,
                MarkStraight, CommitOffset, RecoverJoin, AgentLoopAnswers, Publish, ForgetJoin,
                TombstoneJoin, kafkaVars
  <2>4. ASSUME NEW p \in Pods, PodDisrupted(p)
        PROVE  \/ out' = out
               \/ \E t \in Threads : task[p][t].stage = "publish" /\ out' = Sent(p, t)
    BY <2>4 DEF PodDisrupted, Crash, Shutdown, EndSession, RecordFails, AgentLoopFails, PublishFails
  <2>5. QED
    BY <2>1, <2>2, <2>3, <2>4 DEF Next, UpstreamPublishes, StartSession, vars, kafkaVars
<1>4. ASSUME NEW r \in Pods, NEW u \in Threads PROVE DataOK(task'[r][u])
  <2>1. ASSUME task' = task PROVE DataOK(task'[r][u])
    BY <1>1, <2>1
  <2>2. ASSUME NEW p \in Pods, NEW t \in Threads, NEW x, DataOK(x),
               task' = [task EXCEPT ![p][t] = x]
        PROVE  DataOK(task'[r][u])
    <3>1. task'[r][u] = IF r = p /\ u = t THEN x ELSE task[r][u]
      BY <2>2 DEF TypeOK
    <3> HIDE DEF DataOK
    <3>2. QED
      BY <1>1, <2>2, <3>1
  <2>3. ASSUME NEW p \in Pods, PodProgress(p) PROVE DataOK(task'[r][u])
    <3>1. ASSUME NEW q \in Partitions, ReceiveJoin(p, q) PROVE DataOK(task'[r][u])
      <4> DEFINE env == input[q][pos[p][q] + 1]
                 st  == Joined(p, env)
                 x   == IF Complete(st) THEN AgentLoop(env.corr, st) ELSE Idle
      <4>1. DataOK(x)
        BY <1>2 DEF AgentLoop
      <4>2. task' = [task EXCEPT ![p][q] = x] /\ q \in Threads
        BY <3>1 DEF ReceiveJoin, Threads
      <4> HIDE DEF x, DataOK
      <4>3. QED
        BY <2>2, <4>1, <4>2
    <3>2. ASSUME NEW c \in Corr, RecoverJoin(p, c) PROVE DataOK(task'[r][u])
      <4> DEFINE x == AgentLoop(c, joins[p][c])
      <4>1. DataOK(x)
        BY <3>2 DEF AgentLoop, RecoverJoin, Recoverable
      <4>2. task' = [task EXCEPT ![p][Main] = x] /\ Main \in Threads
        BY <3>2 DEF RecoverJoin, Threads
      <4> HIDE DEF x, DataOK
      <4>3. QED
        BY <2>2, <4>1, <4>2
    <3>3. ASSUME NEW t \in Threads, AgentLoopAnswers(p, t) \/ Publish(p, t) \/ ForgetJoin(p, t)
          PROVE  DataOK(task'[r][u])
      <4>1. task[p][t] \in BusyTask /\ Complete(task[p][t].data)
        BY <1>1, <3>3, BusyType DEF AgentLoopAnswers, Publish, ForgetJoin
      <4>2. \A g : [task[p][t] EXCEPT !.stage = g].data = task[p][t].data
        BY <4>1 DEF BusyTask
      <4>3. \A n : [task[p][t] EXCEPT !.sent = n].data = task[p][t].data
        BY <4>1 DEF BusyTask
      <4>4. \E x : x.data = task[p][t].data /\ task' = [task EXCEPT ![p][t] = x]
        BY <3>3, <4>2, <4>3 DEF AgentLoopAnswers, Publish, ForgetJoin
      <4>5. QED
        BY <2>2, <4>1, <4>4
    <3>4. ASSUME NEW t \in Threads, TombstoneJoin(p, t) PROVE DataOK(task'[r][u])
      <4> HIDE DEF DataOK
      <4>1. QED
        BY <1>2, <2>2, <3>4 DEF TombstoneJoin
    <3> HIDE DEF DataOK
    <3>5. QED
      BY <2>1, <2>3, <3>1, <3>2, <3>3, <3>4
      DEF PodProgress, StartPod, JoinGroup, HydratePartition, ReceiveStraight, MarkStraight,
          CommitOffset, podVars
  <2>4. ASSUME NEW p \in Pods, PodDisrupted(p) PROVE DataOK(task'[r][u])
    <3>1. task' = task \/ task' = [task EXCEPT ![p] = [t \in Threads |-> Idle]]
      BY <2>4 DEF PodDisrupted, Crash, Shutdown, EndSession, RecordFails, AgentLoopFails,
                  PublishFails, ProcessEnds
    <3>2. task'[r][u] = task[r][u] \/ task'[r][u] = Idle
      BY <3>1 DEF TypeOK
    <3> HIDE DEF DataOK
    <3>3. QED
      BY <1>1, <1>2, <3>2
  <2> HIDE DEF DataOK
  <2>5. QED
    BY <2>1, <2>3, <2>4 DEF Next, UpstreamPublishes, StartSession, podVars, vars
<1>5. QED
  BY <1>3, <1>4 DEF CompleteInv, Busy

\* A join that passes join's count (len(Received) against len(dependsOn)) has a
\* contribution of every dependency or one of a source that is no dependency.
LEMMA CompleteCounts ==
  ASSUME NEW st \in Received, Complete(st), Have(st) \subseteq Deps
  PROVE  Deps \subseteq Have(st)
<1> DEFINE N == Len(DependsOn)
<1>1. N \in Nat /\ DOMAIN DependsOn = 1..N
  BY ConstantsAssumption
<1>2. IsFiniteSet(1..N) /\ Cardinality(1..N) = N
  <2> HIDE DEF N
  <2>1. /\ IsFiniteSet(1..N)
        /\ Cardinality(1..N) = IF 1 > N THEN 0 ELSE N - 1 + 1
    BY <1>1, FS_Interval
  <2>2. QED
    BY <1>1, <2>1
<1>3. IsFiniteSet(Deps) /\ Cardinality(Deps) <= N
  <2>1. DependsOn \in Surjection(1..N, Deps)
    BY <1>1, ConstantsAssumption DEF Deps, Surjection
  <2>2. QED
    BY <1>2, <2>1, FS_Surjection
<1>4. /\ IsFiniteSet(Have(st))
      /\ Cardinality(Have(st)) <= Cardinality(Deps)
      /\ Cardinality(Deps) = Cardinality(Have(st)) => Deps = Have(st)
  BY <1>3, FS_Subset
<1>5. Cardinality(Have(st)) \in Nat /\ Cardinality(Deps) \in Nat
  BY <1>3, <1>4, FS_CardinalityType
<1>6. QED
  BY <1>1, <1>3, <1>4, <1>5 DEF Complete

\* A fan-in node publishes a result only with a contribution of every declared
\* dependency or of a source it does not depend on, with any number of pods, sources
\* and dependencies, also if dependsOn lists a name twice.
THEOREM JoinsAreComplete == Spec => []JoinsComplete
<1>1. Init => CompleteInv
  BY DEF Init, CompleteInv, Busy, Idle
<1>2. TypeOK /\ CompleteInv => JoinsComplete
  <2> SUFFICES ASSUME TypeOK, CompleteInv, IsFanIn, NEW k \in Topics, NEW o \in out[k],
                      Have(o.data) \subseteq Deps
               PROVE  Deps \subseteq Have(o.data)
    BY DEF JoinsComplete
  <2>1. o.data \in Received
    BY DEF TypeOK, OutRecord
  <2>2. Complete(o.data)
    BY DEF CompleteInv
  <2>3. QED
    BY <2>1, <2>2, CompleteCounts
<1>3. QED
  BY <1>1, <1>2, TypeCorrect, CompleteStep, PTL DEF Spec
-----------------------------------------------------------------------------
(***************************************************************************)
(* Part 2: fan-in nodes.                                                   *)
(***************************************************************************)
\* The fan-in nodes the results are about.
JoinNode ==
  /\ IsFanIn
  /\ Keyed = Sources
  /\ \A p, r \in Pods : p = r

BaseInv == TypeOK /\ OffsetInv /\ SentInv

\* A goroutine is a claim's goroutine only while the pod consumes and main only
\* while it starts up: at most one of the two kinds runs completeCorrelation.
LEMMA BusyWhen ==
  ASSUME TypeOK, OffsetInv, NEW p \in Pods, NEW t \in Threads, Busy(p, t)
  PROVE  /\ task[p][t] \in BusyTask
         /\ t = Main => phase[p] = "startup"
         /\ t # Main => t \in Partitions /\ t \in session[p] /\ phase[p] = "consuming"
<1>1. task[p][t] \in BusyTask
  BY BusyType DEF Busy
<1>2. t = Main \/ t \in Partitions
  BY DEF Threads
<1>3. QED
  BY <1>1, <1>2 DEF OffsetInv

\* A goroutine that reached the tombstone has published its data everywhere.
LEMMA DoneIsPublished ==
  ASSUME TypeOK, SentInv, NEW p \in Pods, NEW t \in Threads, task[p][t].sent = NumOutputs
  PROVE  PublishedEverywhere(task[p][t].corr, task[p][t].data)
BY DEF SentInv, PublishedEverywhere, Topics

\* Data that is published everywhere delivers each contribution it was made from.
LEMMA PublishedDelivers ==
  ASSUME TypeOK, NEW q \in Partitions, NEW i \in 1..Len(input[q]),
         PublishedEverywhere(input[q][i].corr, joinState[input[q][i].corr]),
         joinState[input[q][i].corr][input[q][i].source] = input[q][i].event
  PROVE  RecordPublished(q, i)
<1> DEFINE r == input[q][i]
           d == joinState[r.corr]
<1>1. \A k \in Topics : [corr |-> r.corr, data |-> d] \in out[k]
  BY DEF PublishedEverywhere
<1>2. d[r.source] = r.event
  OBVIOUS
<1> HIDE DEF d, r
<1>3. PublishedWith(r.corr, r.source, r.event)
  BY <1>1, <1>2 DEF PublishedWith
<1>4. QED
  BY <1>3 DEF RecordPublished, r

\* What was published everywhere stays published everywhere.
LEMMA EverywhereStays ==
  ASSUME TypeOK, [Next]_vars, NEW c, NEW d, PublishedEverywhere(c, d)
  PROVE  PublishedEverywhere(c, d)'
BY OutGrows DEF PublishedEverywhere

\* The changelog entry of c changes in two ways only: writeJoinState records the
\* next message of a claim, or completeCorrelation writes the tombstone.
LEMMA ChangelogChanges ==
  ASSUME TypeOK, [Next]_vars, NEW c \in Corr
  PROVE  \/ joinState'[c] = joinState[c]
         \/ \E p \in Pods, q \in Partitions :
              /\ Deliverable(p, q)
              /\ input[q][pos[p][q] + 1].corr = c
              /\ joinState'[c] = Joined(p, input[q][pos[p][q] + 1])
         \/ \E p \in Pods, t \in Threads :
              /\ task[p][t].stage = "tombstone"
              /\ task[p][t].corr = c
              /\ joinState'[c] = NoJoin
<1> DEFINE Recorded == \E p \in Pods, q \in Partitions :
              /\ Deliverable(p, q)
              /\ input[q][pos[p][q] + 1].corr = c
              /\ joinState'[c] = Joined(p, input[q][pos[p][q] + 1])
           Deleted == \E p \in Pods, t \in Threads :
              /\ task[p][t].stage = "tombstone"
              /\ task[p][t].corr = c
              /\ joinState'[c] = NoJoin
           Goal == joinState'[c] = joinState[c] \/ Recorded \/ Deleted
<1>1. CASE joinState' = joinState
  BY <1>1
<1>2. ASSUME NEW p \in Pods, NEW q \in Partitions, Deliverable(p, q),
             joinState' = [joinState EXCEPT ![input[q][pos[p][q] + 1].corr] =
                             Joined(p, input[q][pos[p][q] + 1])]
      PROVE  Goal
  <2> DEFINE env == input[q][pos[p][q] + 1]
  <2>1. joinState'[c] = IF c = env.corr THEN Joined(p, env) ELSE joinState[c]
    BY <1>2 DEF TypeOK
  <2>2. QED
    BY <1>2, <2>1
<1>3. ASSUME NEW p \in Pods, NEW t \in Threads, TombstoneJoin(p, t) PROVE Goal
  BY <1>3 DEF TombstoneJoin, TypeOK
<1> HIDE DEF Goal
<1>4. ASSUME NEW p \in Pods, PodProgress(p) PROVE Goal
  <2>1. ASSUME NEW q \in Partitions, ReceiveJoin(p, q) PROVE Goal
    BY <1>2, <2>1 DEF ReceiveJoin
  <2>2. \/ joinState' = joinState
        \/ \E q \in Partitions : ReceiveJoin(p, q)
        \/ \E t \in Threads : TombstoneJoin(p, t)
    BY <1>4 DEF PodProgress, StartPod, JoinGroup, HydratePartition, ReceiveStraight, MarkStraight,
                CommitOffset, RecoverJoin, AgentLoopAnswers, Publish, ForgetJoin, kafkaVars
  <2>3. joinState' = joinState => Goal
    BY <1>1 DEF Goal
  <2>4. QED
    BY <1>3, <2>1, <2>2, <2>3
<1>5. ASSUME NEW p \in Pods, PodDisrupted(p) PROVE Goal
  <2>1. ASSUME NEW q \in Partitions, RecordFails(p, q) PROVE joinState' = joinState \/ Goal
    BY <1>2, <2>1 DEF RecordFails
  <2>2. joinState' = joinState \/ \E q \in Partitions : RecordFails(p, q)
    BY <1>5 DEF PodDisrupted, Crash, Shutdown, EndSession, AgentLoopFails, PublishFails
  <2>3. joinState' = joinState => Goal
    BY <1>1 DEF Goal
  <2>4. QED
    BY <2>1, <2>2, <2>3
<1>6. joinState' = joinState => Goal
  BY <1>1 DEF Goal
<1>7. Goal
  BY <1>4, <1>5, <1>6 DEF Next, UpstreamPublishes, StartSession, vars, kafkaVars
<1>8. QED
  BY <1>7 DEF Goal
-----------------------------------------------------------------------------
\* All records of a correlation ID are in its partition: every source is keyed.
LEMMA ColocatedStep ==
  ASSUME JoinNode
  PROVE  TypeOK /\ Colocated /\ [Next]_vars => Colocated'
<1> SUFFICES ASSUME TypeOK, Colocated, [Next]_vars,
                    NEW q \in Partitions, NEW i \in 1..Len(input'[q])
             PROVE  PartitionOf[input'[q][i].corr] = q
  BY DEF Colocated
<1>1. CASE i \in 1..Len(input[q])
  BY <1>1, InputGrows DEF Colocated
<1>2. CASE i \notin 1..Len(input[q])
  <2>1. PICK s \in Sources, e \in Events, r \in Partitions : UpstreamPublishes(s, e, r)
    <3>1. input' # input
      BY <1>2
    <3>2. ASSUME NEW p \in Pods, PodProgress(p) PROVE input' = input
      BY <3>2 DEF PodProgress, StartPod, JoinGroup, HydratePartition, ReceiveStraight, ReceiveJoin,
                  MarkStraight, CommitOffset, RecoverJoin, AgentLoopAnswers, Publish, ForgetJoin,
                  TombstoneJoin, kafkaVars
    <3>3. ASSUME NEW p \in Pods, PodDisrupted(p) PROVE input' = input
      BY <3>3 DEF PodDisrupted, Crash, Shutdown, EndSession, RecordFails, AgentLoopFails,
                  PublishFails
    <3>4. QED
      BY <3>1, <3>2, <3>3 DEF Next, StartSession, vars, kafkaVars
  <2> DEFINE env == [corr |-> CorrOf[e], source |-> s, event |-> e]
  <2>2. env \in Envelope /\ input[q] \in Seq(Envelope)
    BY ConstantsAssumption DEF Envelope, TypeOK
  <2>3. input'[q] = IF q = r THEN Append(input[q], env) ELSE input[q]
    BY <2>1 DEF UpstreamPublishes, TypeOK
  <2>4. q = r /\ input'[q][i] = env
    BY <1>2, <2>2, <2>3
  <2>5. r = PartitionOf[CorrOf[e]]
    BY <2>1 DEF UpstreamPublishes, JoinNode
  <2>6. QED
    BY <2>4, <2>5
<1>3. QED
  BY <1>1, <1>2

\* main joins the group only after every changelog partition was replayed, and a
\* restart begins with none.
LEMMA HydratesFirstStep == TypeOK /\ HydratesFirst /\ [Next]_vars => HydratesFirst'
<1> SUFFICES ASSUME TypeOK, HydratesFirst, [Next]_vars, NEW r \in Pods, phase'[r] = "consuming"
             PROVE  replayed'[r] = Partitions
  BY DEF HydratesFirst
<1>1. ASSUME phase'[r] = phase[r], replayed'[r] = replayed[r] PROVE replayed'[r] = Partitions
  BY <1>1 DEF HydratesFirst
<1>2. ASSUME NEW p \in Pods, PodProgress(p) PROVE replayed'[r] = Partitions
  <2>1. CASE StartPod(p)
    BY <1>1, <2>1 DEF StartPod, TypeOK
  <2>2. CASE JoinGroup(p)
    BY <1>1, <2>2 DEF JoinGroup, TypeOK
  <2>3. ASSUME NEW q \in Partitions, HydratePartition(p, q) PROVE replayed'[r] = Partitions
    BY <1>1, <2>3 DEF HydratePartition, TypeOK
  <2>4. QED
    BY <1>1, <1>2, <2>1, <2>2, <2>3
    DEF PodProgress, ReceiveStraight, ReceiveJoin, MarkStraight, CommitOffset, RecoverJoin,
        AgentLoopAnswers, Publish, ForgetJoin, TombstoneJoin, podVars
<1>3. ASSUME NEW p \in Pods, PodDisrupted(p) PROVE replayed'[r] = Partitions
  <2>1. CASE EndSession(p)
    BY <1>1, <2>1 DEF EndSession
  <2>2. CASE ProcessEnds(p)
    BY <1>1, <2>2 DEF ProcessEnds, TypeOK
  <2>3. QED
    BY <1>3, <2>1, <2>2
    DEF PodDisrupted, Crash, Shutdown, RecordFails, AgentLoopFails, PublishFails
<1>4. QED
  BY <1>1, <1>2, <1>3 DEF Next, UpstreamPublishes, StartSession, vars, podVars
-----------------------------------------------------------------------------
\* A contribution that is safe and marked stays safe: a later record of its source
\* supersedes it, one of another source is added to the same entry (or to a new one,
\* if the old one was published), and a tombstone follows the last publish.
LEMMA SafeStays ==
  ASSUME JoinNode, BaseInv, FanInInv, [Next]_vars,
         NEW q \in Partitions, NEW i \in 1..Len(input[q]), ContributionSafe(q, i),
         \A p \in Pods : q \in session[p] => i <= marked[p][q]
  PROVE  ContributionSafe(q, i)'
<1> DEFINE r == input[q][i]
           c == r.corr
           s == r.source
<1> USE DEF BaseInv
<1>0. r \in Envelope /\ c \in Corr /\ s \in Sources /\ r.event \in Events
  <2>1. input[q] \in Seq(Envelope)
    BY DEF TypeOK
  <2>2. r \in Envelope
    BY <2>1
  <2>3. QED
    BY <2>2 DEF Envelope
<1>1. input'[q][i] = r
  BY InputGrows
<1>2. CASE RecordPublished(q, i)
  BY <1>2, PublishedStays DEF ContributionSafe
<1>3. CASE Superseded(q, i)
  <2>1. PICK j \in (i + 1)..Len(input[q]) : input[q][j].corr = c /\ input[q][j].source = s
    BY <1>3 DEF Superseded
  <2>2. /\ Len(input[q]) \in Nat /\ Len(input'[q]) \in Nat /\ Len(input[q]) <= Len(input'[q])
        /\ input'[q][j] = input[q][j]
    BY InputGrows
  <2>3. j \in (i + 1)..Len(input'[q])
    BY <2>2
  <2>4. Superseded(q, i)'
    BY <1>1, <2>1, <2>2, <2>3 DEF Superseded
  <2>5. QED
    BY <2>4 DEF ContributionSafe
<1>4. CASE joinState[c][s] = r.event
  <2>1. CASE joinState'[c] = joinState[c]
    BY <1>1, <1>4, <2>1 DEF ContributionSafe
  <2>2. ASSUME PublishedEverywhere(c, joinState[c]) PROVE ContributionSafe(q, i)'
    BY <1>2, <1>4, <2>2, PublishedDelivers
  <2>3. ASSUME NEW p \in Pods, NEW u \in Partitions, Deliverable(p, u),
               input[u][pos[p][u] + 1].corr = c,
               joinState'[c] = Joined(p, input[u][pos[p][u] + 1])
        PROVE  ContributionSafe(q, i)'
    <3> DEFINE env == input[u][pos[p][u] + 1]
    <3>1. /\ pos[p][u] \in Nat /\ Len(input[u]) \in Nat /\ pos[p][u] + 1 \in 1..Len(input[u])
          /\ env \in Envelope /\ u \in session[p] /\ marked[p][u] = pos[p][u]
      BY <2>3, JoinedType DEF Deliverable, TypeOK, FanInInv, ClaimsSafe
    <3>2. u = q
      <4>1. PartitionOf[env.corr] = u
        BY <3>1 DEF FanInInv, Colocated
      <4>2. PartitionOf[c] = q
        BY DEF FanInInv, Colocated
      <4>3. QED
        BY <2>3, <4>1, <4>2
    <3>3. CASE env.source = s
      <4>1. pos[p][u] + 1 \in (i + 1)..Len(input[q])
        BY <3>1, <3>2
      <4>2. Superseded(q, i)
        BY <2>3, <3>2, <3>3, <4>1 DEF Superseded
      <4>3. QED
        BY <1>3, <4>2
    <3>4. CASE env.source # s
      <4>1. joinState'[c][s] = joins[p][c][s]
        <5>1. joins[p][c] \in Received
          BY <1>0 DEF TypeOK
        <5>2. joinState'[c] = [joins[p][c] EXCEPT ![env.source] = env.event]
          BY <2>3 DEF Joined
        <5>3. QED
          BY <1>0, <3>4, <5>1, <5>2 DEF Received
      <4>2. PartitionOf[c] \in replayed[p]
        BY <1>0, <3>1, ConstantsAssumption DEF OffsetInv, FanInInv, HydratesFirst
      <4>3. joins[p][c] = joinState[c] \/ PublishedEverywhere(c, joinState[c])
        BY <1>0, <4>2 DEF FanInInv, BufferMatchesChangelog
      <4>4. joins[p][c] = joinState[c] => ContributionSafe(q, i)'
        BY <1>1, <1>4, <4>1 DEF ContributionSafe
      <4>5. QED
        BY <2>2, <4>3, <4>4
    <3>5. QED
      BY <3>3, <3>4
  <2>4. ASSUME NEW p \in Pods, NEW t \in Threads, task[p][t].stage = "tombstone",
               task[p][t].corr = c
        PROVE  ContributionSafe(q, i)'
    <3>1. task[p][t].data = joinState[c] /\ task[p][t].sent = NumOutputs
      BY <2>4 DEF FanInInv, TasksMatchChangelog, TaskMatches, Busy, SentInv
    <3>2. QED
      BY <2>2, <2>4, <3>1, DoneIsPublished
  <2>5. QED
    BY <1>0, <2>1, <2>3, <2>4, ChangelogChanges
<1>5. QED
  BY <1>2, <1>3, <1>4 DEF ContributionSafe

\* What is committed was marked, and what was marked is safe.
LEMMA CommittedSafeStep ==
  ASSUME JoinNode
  PROVE  BaseInv /\ FanInInv /\ [Next]_vars => CommittedSafe'
<1> SUFFICES ASSUME BaseInv, FanInInv, [Next]_vars,
                    NEW q \in Partitions, NEW i \in 1..committed'[q]
             PROVE  ContributionSafe(q, i)'
  BY DEF CommittedSafe
<1> USE DEF BaseInv
<1>1. /\ committed[q] \in Nat /\ committed[q] <= Len(input[q]) /\ Len(input[q]) \in Nat
      /\ \A p \in Pods : marked[p][q] \in Nat /\ pos[p][q] \in Nat
      /\ \A p \in Pods : q \in session[p] => /\ committed[q] <= marked[p][q]
                                             /\ marked[p][q] <= Len(input[q])
  BY DEF TypeOK, OffsetInv, FanInInv, ClaimsSafe
<1>2. /\ i \in 1..Len(input[q])
      /\ ContributionSafe(q, i)
      /\ \A p \in Pods : q \in session[p] => i <= marked[p][q]
  <2>1. CASE committed'[q] = committed[q]
    BY <1>1, <2>1 DEF FanInInv, CommittedSafe
  <2>2. ASSUME NEW p \in Pods, q \in session[p], committed'[q] = marked[p][q]
        PROVE  /\ i \in 1..Len(input[q])
               /\ ContributionSafe(q, i)
               /\ \A r \in Pods : q \in session[r] => i <= marked[r][q]
    <3>1. \A r \in Pods : r = p
      BY DEF JoinNode
    <3>2. i \in 1..marked[p][q]
      BY <2>2
    <3>3. ContributionSafe(q, i)
      BY <2>2, <3>2 DEF FanInInv, ClaimsSafe
    <3>4. QED
      BY <1>1, <2>2, <3>1, <3>2, <3>3
  <2>3. QED
    BY <2>1, <2>2, CommitSource
<1>3. QED
  BY <1>2, SafeStays

\* A claim of a fan-in node comes from the last session start, from a message that
\* was just recorded, or is the claim of the step before.
LEMMA ClaimChanges ==
  ASSUME IsFanIn, TypeOK, OffsetInv, [Next]_vars, NEW p \in Pods, NEW q \in Partitions,
         q \in session'[p]
  PROVE  \/ /\ q \in session[p]
            /\ marked'[p][q] = marked[p][q]
            /\ pos'[p][q] = pos[p][q]
         \/ /\ session[p] = {}
            /\ UNCHANGED <<input, committed, joinState, out>>
            /\ marked'[p][q] = committed[q]
            /\ pos'[p][q] = committed[q]
         \/ ReceiveJoin(p, q)
<1> DEFINE Same  == q \in session[p] /\ marked'[p][q] = marked[p][q] /\ pos'[p][q] = pos[p][q]
           Fresh == /\ session[p] = {}
                    /\ UNCHANGED <<input, committed, joinState, out>>
                    /\ marked'[p][q] = committed[q]
                    /\ pos'[p][q] = committed[q]
           Goal == Same \/ Fresh \/ ReceiveJoin(p, q)
<1>1. UNCHANGED <<session, marked, pos>> => Goal
  OBVIOUS
<1>2. ASSUME NEW r \in Pods, NEW S \in SUBSET Partitions, StartSession(r, S) PROVE Goal
  <2>1. CASE r # p
    BY <2>1, <1>2 DEF StartSession, TypeOK
  <2>2. CASE r = p
    BY <2>2, <1>2 DEF StartSession, TypeOK
  <2>3. QED
    BY <2>1, <2>2
<1>3. ASSUME NEW r \in Pods, NEW u \in Partitions, ReceiveJoin(r, u) PROVE Goal
  <2>1. CASE r = p /\ u = q
    BY <1>3, <2>1
  <2>2. CASE r # p \/ u # q
    BY <1>3, <2>2 DEF ReceiveJoin, TypeOK
  <2>3. QED
    BY <2>1, <2>2
<1>4. ASSUME NEW r \in Pods, PodDisrupted(r) PROVE Goal
  <2>1. CASE EndSession(r)
    BY <2>1 DEF EndSession, TypeOK
  <2>2. CASE ProcessEnds(r)
    BY <2>2 DEF ProcessEnds, TypeOK
  <2> HIDE DEF Goal
  <2>3. QED
    BY <1>4, <2>1, <2>2
    DEF PodDisrupted, Crash, Shutdown, RecordFails, AgentLoopFails, PublishFails
<1> HIDE DEF Goal
<1>5. ASSUME NEW r \in Pods, PodProgress(r) PROVE Goal
  BY <1>1, <1>3, <1>5
  DEF PodProgress, StartPod, JoinGroup, HydratePartition, ReceiveStraight, MarkStraight,
      CommitOffset, RecoverJoin, AgentLoopAnswers, Publish, ForgetJoin, TombstoneJoin, podVars
<1>6. Goal
  BY <1>1, <1>2, <1>4, <1>5 DEF Next, UpstreamPublishes, vars, podVars
<1>7. QED
  BY <1>6 DEF Goal

\* A message of a fan-in node is marked only after its contribution was recorded in
\* the changelog (writeJoinState before MarkMessage).
LEMMA ClaimsSafeStep ==
  ASSUME JoinNode
  PROVE  BaseInv /\ FanInInv /\ [Next]_vars => ClaimsSafe'
<1> SUFFICES ASSUME BaseInv, FanInInv, [Next]_vars, NEW p \in Pods, NEW q \in session'[p]
             PROVE  /\ marked'[p][q] = pos'[p][q]
                    /\ committed'[q] <= marked'[p][q]
                    /\ \A i \in 1..marked'[p][q] : ContributionSafe(q, i)'
  BY DEF ClaimsSafe
<1> USE DEF BaseInv
<1>0. q \in Partitions
  BY TypeStep DEF TypeOK
<1>1. /\ committed[q] \in Nat /\ committed[q] <= Len(input[q]) /\ Len(input[q]) \in Nat
      /\ marked[p][q] \in Nat /\ pos[p][q] \in Nat
      /\ q \in session[p] => /\ committed[q] <= marked[p][q]
                             /\ marked[p][q] = pos[p][q]
                             /\ marked[p][q] <= Len(input[q])
  BY <1>0 DEF TypeOK, OffsetInv, FanInInv, ClaimsSafe
<1>2. \A r \in Pods : r = p
  BY DEF JoinNode
<1>3. ASSUME q \in session[p], NEW i \in 1..marked[p][q] PROVE ContributionSafe(q, i)'
  <2>1. ContributionSafe(q, i)
    BY <1>3 DEF FanInInv, ClaimsSafe
  <2>2. i \in 1..Len(input[q]) /\ \A r \in Pods : i <= marked[r][q]
    BY <1>1, <1>2, <1>3
  <2>3. QED
    BY <1>0, <2>1, <2>2, SafeStays
<1>4. CASE q \in session[p] /\ marked'[p][q] = marked[p][q] /\ pos'[p][q] = pos[p][q]
  <2>1. committed'[q] = committed[q] \/ committed'[q] = marked[p][q]
    BY <1>0, <1>2, CommitSource
  <2>2. QED
    BY <1>1, <1>3, <1>4, <2>1
<1>5. CASE /\ session[p] = {}
           /\ UNCHANGED <<input, committed, joinState, out>>
           /\ marked'[p][q] = committed[q]
           /\ pos'[p][q] = committed[q]
  <2>1. \A i \in 1..committed[q] : ContributionSafe(q, i)
    BY <1>0 DEF FanInInv, CommittedSafe
  <2>2. \A i \in 1..committed[q] : ContributionSafe(q, i)'
    BY <1>5, <2>1 DEF ContributionSafe, RecordPublished, PublishedWith, Superseded
  <2>3. QED
    BY <1>1, <1>5, <2>2
<1>6. CASE ReceiveJoin(p, q)
  <2> DEFINE env == input[q][pos[p][q] + 1]
  <2>1. /\ q \in session[p] /\ marked'[p][q] = pos[p][q] + 1 /\ pos'[p][q] = pos[p][q] + 1
        /\ committed' = committed /\ input' = input
        /\ joinState' = [joinState EXCEPT ![env.corr] = Joined(p, env)]
    BY <1>0, <1>6 DEF ReceiveJoin, Deliverable, TypeOK
  <2>2. env \in Envelope /\ joins[p][env.corr] \in Received /\ env.corr \in Corr
    <3>1. env \in Envelope
      BY <1>0, <1>6, JoinedType DEF ReceiveJoin
    <3>2. env.corr \in Corr
      BY <3>1 DEF Envelope
    <3>3. QED
      BY <3>1, <3>2 DEF TypeOK
  <2>3. joinState'[env.corr][env.source] = env.event
    <3>1. joinState'[env.corr] = [joins[p][env.corr] EXCEPT ![env.source] = env.event]
      BY <2>1, <2>2 DEF Joined, TypeOK
    <3>2. QED
      BY <2>2, <3>1 DEF Received, Envelope
  <2>4. ASSUME NEW i \in Nat, i = pos[p][q] + 1 PROVE ContributionSafe(q, i)'
    BY <2>1, <2>3, <2>4 DEF ContributionSafe
  <2>5. \A i \in 1..marked'[p][q] : i \in 1..marked[p][q] \/ i = pos[p][q] + 1
    BY <1>1, <2>1
  <2>6. \A i \in 1..marked'[p][q] : ContributionSafe(q, i)'
    BY <1>3, <2>1, <2>4, <2>5
  <2>7. QED
    BY <1>1, <2>1, <2>6
<1>7. QED
  BY <1>0, <1>4, <1>5, <1>6, ClaimChanges DEF JoinNode
-----------------------------------------------------------------------------
\* Two goroutines never complete the same correlation ID: a claim's goroutine works
\* on the IDs of its own partition, and main is done before the claims begin.
LEMMA OneCompleter ==
  ASSUME BaseInv, FanInInv, NEW p \in Pods, NEW t \in Threads, NEW u \in Threads,
         Busy(p, t), Busy(p, u), task[p][t].corr = task[p][u].corr
  PROVE  t = u
<1>1. CASE t = Main \/ u = Main
  BY <1>1, BusyWhen DEF BaseInv
<1>2. CASE t # Main /\ u # Main
  <2>1. t \in Partitions /\ u \in Partitions
    BY <1>2, BusyWhen DEF BaseInv
  <2>2. QED
    BY <2>1 DEF FanInInv, TasksMatchChangelog, TaskMatches
<1>3. QED
  BY <1>1, <1>2

\* The pod's buffer, its changelog and its goroutines agree after a step that
\* leaves all of them alone.
LEMMA EntriesUnchanged ==
  ASSUME FanInInv, UNCHANGED <<joins, joinState, replayed, task, out>>
  PROVE  BufferMatchesChangelog' /\ TasksMatchChangelog'
BY DEF FanInInv, BufferMatchesChangelog, TasksMatchChangelog, TaskMatches, PublishedEverywhere, Busy

\* ... and after the pod's process has ended or begun, with nothing hydrated.
LEMMA EntriesEmpty ==
  ASSUME JoinNode, NEW p \in Pods, replayed'[p] = {}, \A t \in Threads : ~Busy(p, t)'
  PROVE  BufferMatchesChangelog' /\ TasksMatchChangelog'
<1>1. \A r \in Pods : r = p
  BY DEF JoinNode
<1>2. BufferMatchesChangelog'
  BY <1>1 DEF BufferMatchesChangelog
<1>3. TasksMatchChangelog'
  BY <1>1 DEF TasksMatchChangelog
<1>4. QED
  BY <1>2, <1>3

\* A process that ends leaves no buffer and no goroutine to disagree with the changelog.
LEMMA EntriesEnd ==
  ASSUME JoinNode, TypeOK, NEW p \in Pods, ProcessEnds(p)
  PROVE  BufferMatchesChangelog' /\ TasksMatchChangelog'
<1>1. replayed'[p] = {} /\ \A t \in Threads : ~Busy(p, t)'
  BY DEF ProcessEnds, TypeOK, Busy, Idle
<1>2. QED
  BY <1>1, EntriesEmpty

\* A pod starts with an empty buffer and nothing hydrated.
LEMMA EntriesStart ==
  ASSUME JoinNode, TypeOK, OffsetInv, NEW p \in Pods, StartPod(p)
  PROVE  BufferMatchesChangelog' /\ TasksMatchChangelog'
<1>1. replayed'[p] = {} /\ task' = task /\ phase[p] = "down"
  BY DEF StartPod, TypeOK, JoinNode
<1>2. \A t \in Threads : ~Busy(p, t)
  BY <1>1, BusyWhen
<1>3. \A t \in Threads : ~Busy(p, t)'
  BY <1>1, <1>2 DEF Busy
<1>4. QED
  BY <1>1, <1>3, EntriesEmpty

\* hydrateJoinState: replaying a changelog partition fills the buffer with its
\* entries; the entry main is completing is in a partition replayed before.
LEMMA EntriesHydrate ==
  ASSUME JoinNode, BaseInv, FanInInv, NEW p \in Pods, NEW q \in Partitions,
         HydratePartition(p, q)
  PROVE  BufferMatchesChangelog' /\ TasksMatchChangelog'
<1> USE DEF BaseInv
<1>1. \A r \in Pods : r = p
  BY DEF JoinNode
<1>2. /\ UNCHANGED <<joinState, out, task>>
      /\ replayed'[p] = replayed[p] \cup {q}
      /\ q \notin replayed[p]
      /\ \A c \in Corr : joins'[p][c] = IF PartitionOf[c] = q THEN joinState[c] ELSE joins[p][c]
  BY DEF HydratePartition, TypeOK, kafkaVars
<1>3. BufferMatchesChangelog'
  BY <1>1, <1>2 DEF BufferMatchesChangelog, PublishedEverywhere, FanInInv
<1>4. ASSUME NEW t \in Threads, Busy(p, t) PROVE task[p][t].corr \in Corr
  BY <1>4, BusyWhen DEF BusyTask
<1>5. TasksMatchChangelog'
  BY <1>1, <1>2, <1>4 DEF TasksMatchChangelog, TaskMatches, FanInInv, Busy
<1>6. QED
  BY <1>3, <1>5

\* main's recovery loop completes the entry the changelog holds.
LEMMA EntriesRecover ==
  ASSUME JoinNode, BaseInv, FanInInv, NEW p \in Pods, NEW c \in Corr, RecoverJoin(p, c)
  PROVE  BufferMatchesChangelog' /\ TasksMatchChangelog'
<1> USE DEF BaseInv
<1>1. \A r \in Pods : r = p
  BY DEF JoinNode
<1>2. /\ UNCHANGED <<joinState, out, replayed, joins>>
      /\ replayed[p] = Partitions
      /\ Have(joins[p][c]) # {}
      /\ \A t \in Threads : task'[p][t] = IF t = Main THEN AgentLoop(c, joins[p][c]) ELSE task[p][t]
  BY DEF RecoverJoin, Recoverable, TypeOK, kafkaVars, Threads
<1>3. BufferMatchesChangelog'
  BY <1>2 DEF BufferMatchesChangelog, PublishedEverywhere, FanInInv
<1>4. joins[p][c] = joinState[c] /\ PartitionOf[c] \in replayed[p]
  <2>1. joins[p][c] # NoJoin
    BY <1>2 DEF Have, NoJoin
  <2>2. QED
    BY <1>2, <2>1, ConstantsAssumption DEF FanInInv, BufferMatchesChangelog
<1>5. TasksMatchChangelog'
  <2> SUFFICES ASSUME NEW t \in Threads, Busy(p, t)' PROVE TaskMatches(p, t)'
    BY <1>1 DEF TasksMatchChangelog
  <2>1. CASE t = Main
    <3>1. /\ task'[p][t].corr = c /\ task'[p][t].data = joins[p][c] /\ task'[p][t].stage = "loop"
      BY <1>2, <2>1 DEF AgentLoop
    <3>2. QED
      BY <1>2, <1>4, <2>1, <3>1, ConstantsAssumption DEF TaskMatches
  <2>2. CASE t # Main
    BY <1>2, <2>2 DEF FanInInv, TasksMatchChangelog, TaskMatches, Busy
  <2>3. QED
    BY <2>1, <2>2
<1>6. QED
  BY <1>3, <1>5

\* join and writeJoinState: under the mutex the same entry goes to the buffer and to
\* the changelog; no other goroutine is completing that correlation ID.
LEMMA EntriesReceive ==
  ASSUME JoinNode, BaseInv, FanInInv, NEW p \in Pods, NEW q \in Partitions, ReceiveJoin(p, q)
  PROVE  BufferMatchesChangelog' /\ TasksMatchChangelog'
<1> DEFINE env == input[q][pos[p][q] + 1]
           st  == Joined(p, env)
           x   == IF Complete(st) THEN AgentLoop(env.corr, st) ELSE Idle
<1> USE DEF BaseInv
<1>1. \A r \in Pods : r = p
  BY DEF JoinNode
<1>2. env \in Envelope /\ env.corr \in Corr
  <2>1. env \in Envelope
    BY JoinedType DEF ReceiveJoin
  <2>2. QED
    BY <2>1 DEF Envelope
<1>3. /\ UNCHANGED <<out, replayed>>
      /\ joins' = [joins EXCEPT ![p][env.corr] = st]
      /\ joinState' = [joinState EXCEPT ![env.corr] = st]
      /\ task' = [task EXCEPT ![p][q] = x]
      /\ q \in session[p] /\ ~Busy(p, q) /\ q \in Threads
  BY DEF ReceiveJoin, Deliverable, Busy, Threads
<1>4. PartitionOf[env.corr] = q
  <2>1. pos[p][q] + 1 \in 1..Len(input[q])
    BY DEF ReceiveJoin, Deliverable, TypeOK
  <2>2. QED
    BY <2>1 DEF FanInInv, Colocated
<1>5. phase[p] = "consuming" /\ q \in replayed[p]
  BY <1>3 DEF OffsetInv, FanInInv, HydratesFirst
<1> HIDE DEF st, x
<1>6. \A c \in Corr : joins'[p][c] = IF c = env.corr THEN st ELSE joins[p][c]
  BY <1>3 DEF TypeOK
<1>7. \A c \in Corr : joinState'[c] = IF c = env.corr THEN st ELSE joinState[c]
  BY <1>3 DEF TypeOK
<1>8. \A t \in Threads : task'[p][t] = IF t = q THEN x ELSE task[p][t]
  BY <1>3 DEF TypeOK
<1> HIDE DEF env
<1>9. BufferMatchesChangelog'
  <2> SUFFICES ASSUME NEW c \in Corr, PartitionOf[c] \in replayed[p]
               PROVE  \/ joins'[p][c] = joinState'[c]
                      \/ joins'[p][c] = NoJoin /\ PublishedEverywhere(c, joinState[c])'
    BY <1>1, <1>3 DEF BufferMatchesChangelog
  <2>1. CASE c = env.corr
    BY <1>6, <1>7, <2>1
  <2>2. CASE c # env.corr
    BY <1>3, <1>6, <1>7, <2>2 DEF FanInInv, BufferMatchesChangelog, PublishedEverywhere
  <2>3. QED
    BY <2>1, <2>2
<1>10. TasksMatchChangelog'
  <2> SUFFICES ASSUME NEW t \in Threads, Busy(p, t)' PROVE TaskMatches(p, t)'
    BY <1>1 DEF TasksMatchChangelog
  <2>1. CASE t = q
    <3>1. task'[p][t] = AgentLoop(env.corr, st)
      BY <1>8, <2>1 DEF Busy, x, Idle
    <3>2. task'[p][t].corr = env.corr /\ task'[p][t].data = st /\ task'[p][t].stage = "loop"
      BY <3>1 DEF AgentLoop
    <3>3. QED
      BY <1>2, <1>3, <1>4, <1>5, <1>6, <1>7, <2>1, <3>2 DEF TaskMatches
  <2>2. CASE t # q
    <3>1. task'[p][t] = task[p][t] /\ Busy(p, t)
      BY <1>8, <2>2 DEF Busy
    <3>2. TaskMatches(p, t) /\ task[p][t].corr \in Corr
      BY <3>1, BusyWhen DEF FanInInv, TasksMatchChangelog, BusyTask
    <3>3. t # Main /\ t \in Partitions
      BY <1>5, <3>1, BusyWhen
    <3>4. task[p][t].corr # env.corr
      BY <1>4, <2>2, <3>2, <3>3 DEF TaskMatches
    <3>5. QED
      BY <1>3, <1>6, <1>7, <3>1, <3>2, <3>4 DEF TaskMatches
  <2>3. QED
    BY <2>1, <2>2
<1>11. QED
  BY <1>9, <1>10

\* The agent loop and publish leave buffer and changelog alone.
LEMMA EntriesWork ==
  ASSUME JoinNode, BaseInv, FanInInv, [Next]_vars, NEW p \in Pods, NEW t \in Threads,
         AgentLoopAnswers(p, t) \/ Publish(p, t)
  PROVE  BufferMatchesChangelog' /\ TasksMatchChangelog'
<1> DEFINE x == [task[p][t] EXCEPT !.stage = "publish"]
           y == [task[p][t] EXCEPT !.sent = @ + 1]
<1> USE DEF BaseInv
<1>1. \A r \in Pods : r = p
  BY DEF JoinNode
<1>2. UNCHANGED <<joins, joinState, replayed>>
  BY DEF AgentLoopAnswers, Publish, kafkaVars
<1>3. Busy(p, t) /\ task[p][t] \in BusyTask /\ task[p][t].stage # "tombstone"
  BY BusyType DEF AgentLoopAnswers, Publish, Busy
<1>4. /\ x.corr = task[p][t].corr /\ x.data = task[p][t].data /\ x.stage = "publish"
      /\ y.corr = task[p][t].corr /\ y.data = task[p][t].data /\ y.stage = task[p][t].stage
  BY <1>3 DEF BusyTask
<1>5. \/ task' = [task EXCEPT ![p][t] = x]
      \/ task' = [task EXCEPT ![p][t] = y]
  BY DEF AgentLoopAnswers, Publish
<1> HIDE DEF x, y
<1>6. \A u \in Threads : task'[p][u] = task[p][u] \/ (u = t /\ task'[p][u] \in {x, y})
  BY <1>5 DEF TypeOK
<1>7. BufferMatchesChangelog'
  BY <1>2, EverywhereStays DEF FanInInv, BufferMatchesChangelog
<1>8. TasksMatchChangelog'
  <2> SUFFICES ASSUME NEW u \in Threads, Busy(p, u)' PROVE TaskMatches(p, u)'
    BY <1>1 DEF TasksMatchChangelog
  <2>1. Busy(p, u) /\ TaskMatches(p, u)
    BY <1>3, <1>6 DEF Busy, FanInInv, TasksMatchChangelog
  <2>2. /\ task'[p][u].corr = task[p][u].corr /\ task'[p][u].data = task[p][u].data
        /\ (task'[p][u].stage = "tombstone") = (task[p][u].stage = "tombstone")
    BY <1>3, <1>4, <1>6
  <2>3. QED
    BY <1>2, <2>1, <2>2 DEF TaskMatches
<1>9. QED
  BY <1>7, <1>8

\* completeCorrelation forgets an entry only after the last publish.
LEMMA EntriesForget ==
  ASSUME JoinNode, BaseInv, FanInInv, NEW p \in Pods, NEW t \in Threads, ForgetJoin(p, t)
  PROVE  BufferMatchesChangelog' /\ TasksMatchChangelog'
<1> DEFINE x == [task[p][t] EXCEPT !.stage = "tombstone"]
           c == task[p][t].corr
<1> USE DEF BaseInv
<1>1. \A r \in Pods : r = p
  BY DEF JoinNode
<1>2. /\ UNCHANGED <<joinState, replayed, out>>
      /\ task' = [task EXCEPT ![p][t] = x]
      /\ joins' = [joins EXCEPT ![p][c] = NoJoin]
      /\ task[p][t].sent = NumOutputs
  BY DEF ForgetJoin, kafkaVars
<1>3. Busy(p, t) /\ task[p][t] \in BusyTask /\ TaskMatches(p, t) /\ c \in Corr
  <2>1. Busy(p, t)
    BY DEF ForgetJoin, Busy
  <2>2. QED
    BY <2>1, BusyType DEF Busy, BusyTask, FanInInv, TasksMatchChangelog
<1>4. x.corr = c /\ x.data = task[p][t].data /\ x.stage = "tombstone"
  BY <1>3 DEF BusyTask
<1>5. PublishedEverywhere(c, joinState[c])
  BY <1>2, <1>3, DoneIsPublished DEF TaskMatches
<1> HIDE DEF x
<1>6. \A u \in Threads : task'[p][u] = IF u = t THEN x ELSE task[p][u]
  BY <1>2 DEF TypeOK
<1>7. \A d \in Corr : joins'[p][d] = IF d = c THEN NoJoin ELSE joins[p][d]
  BY <1>2 DEF TypeOK
<1>8. BufferMatchesChangelog'
  BY <1>1, <1>2, <1>5, <1>7 DEF FanInInv, BufferMatchesChangelog, PublishedEverywhere
<1>9. TasksMatchChangelog'
  <2> SUFFICES ASSUME NEW u \in Threads, Busy(p, u)' PROVE TaskMatches(p, u)'
    BY <1>1 DEF TasksMatchChangelog
  <2>1. CASE u = t
    BY <1>2, <1>3, <1>4, <1>6, <1>7, <2>1 DEF TaskMatches
  <2>2. CASE u # t
    <3>1. task'[p][u] = task[p][u] /\ Busy(p, u)
      BY <1>6, <2>2 DEF Busy
    <3>2. TaskMatches(p, u) /\ task[p][u].corr \in Corr
      BY <3>1, BusyWhen DEF FanInInv, TasksMatchChangelog, BusyTask
    <3>3. task[p][u].corr # c
      BY <1>3, <2>2, <3>1, OneCompleter
    <3>4. QED
      BY <1>2, <1>7, <3>1, <3>2, <3>3 DEF TaskMatches
  <2>3. QED
    BY <2>1, <2>2
<1>10. QED
  BY <1>8, <1>9

\* The tombstone, written or lost, finds no entry in the buffer.
LEMMA EntriesTombstone ==
  ASSUME JoinNode, BaseInv, FanInInv, NEW p \in Pods, NEW t \in Threads, TombstoneJoin(p, t)
  PROVE  BufferMatchesChangelog' /\ TasksMatchChangelog'
<1> DEFINE c == task[p][t].corr
<1> USE DEF BaseInv
<1>1. \A r \in Pods : r = p
  BY DEF JoinNode
<1>2. /\ UNCHANGED <<joins, replayed, out>>
      /\ task' = [task EXCEPT ![p][t] = Idle]
      /\ joinState' \in {joinState, [joinState EXCEPT ![c] = NoJoin]}
  BY DEF TombstoneJoin
<1>3. Busy(p, t) /\ c \in Corr /\ joins[p][c] = NoJoin
  <2>1. Busy(p, t) /\ task[p][t].stage = "tombstone"
    BY DEF TombstoneJoin, Busy
  <2>2. task[p][t] \in BusyTask /\ TaskMatches(p, t)
    BY <2>1, BusyType DEF Busy, FanInInv, TasksMatchChangelog
  <2>3. QED
    BY <2>1, <2>2 DEF BusyTask, TaskMatches
<1>4. \A u \in Threads : task'[p][u] = IF u = t THEN Idle ELSE task[p][u]
  BY <1>2 DEF TypeOK
<1>5. \A d \in Corr : joinState'[d] = joinState[d] \/ (d = c /\ joinState'[d] = NoJoin)
  BY <1>2 DEF TypeOK
<1>6. BufferMatchesChangelog'
  BY <1>1, <1>2, <1>3, <1>5 DEF FanInInv, BufferMatchesChangelog, PublishedEverywhere
<1>7. TasksMatchChangelog'
  <2> SUFFICES ASSUME NEW u \in Threads, Busy(p, u)' PROVE TaskMatches(p, u)'
    BY <1>1 DEF TasksMatchChangelog
  <2>1. u # t /\ task'[p][u] = task[p][u] /\ Busy(p, u)
    BY <1>4 DEF Busy, Idle
  <2>2. TaskMatches(p, u) /\ task[p][u].corr \in Corr
    BY <2>1, BusyWhen DEF FanInInv, TasksMatchChangelog, BusyTask
  <2>3. task[p][u].corr # c
    BY <1>3, <2>1, OneCompleter
  <2>4. QED
    BY <1>2, <1>5, <2>1, <2>2, <2>3 DEF TaskMatches
<1>8. QED
  BY <1>6, <1>7

\* FanInInv is inductive.
LEMMA FanInStep ==
  ASSUME JoinNode
  PROVE  BaseInv /\ FanInInv /\ [Next]_vars => FanInInv'
<1> SUFFICES ASSUME BaseInv, FanInInv, [Next]_vars PROVE FanInInv'
  OBVIOUS
<1> DEFINE Entries == BufferMatchesChangelog' /\ TasksMatchChangelog'
<1>1. UNCHANGED <<joins, joinState, replayed, task, out>> => Entries
  BY EntriesUnchanged
<1>2. ASSUME NEW p \in Pods, PodProgress(p) PROVE Entries
  <2>1. \A q \in Partitions : ~ReceiveStraight(p, q) /\ ~MarkStraight(p, q)
    BY DEF ReceiveStraight, MarkStraight, JoinNode
  <2>2. StartPod(p) => Entries
    BY EntriesStart DEF BaseInv
  <2>3. \A q \in Partitions : HydratePartition(p, q) \/ ReceiveJoin(p, q) => Entries
    BY EntriesHydrate, EntriesReceive
  <2>4. \A c \in Corr : RecoverJoin(p, c) => Entries
    BY EntriesRecover
  <2>5. \A t \in Threads : AgentLoopAnswers(p, t) \/ Publish(p, t) \/ ForgetJoin(p, t)
                           \/ TombstoneJoin(p, t) => Entries
    BY EntriesWork, EntriesForget, EntriesTombstone
  <2>6. JoinGroup(p) \/ (\E q \in Partitions : CommitOffset(p, q))
          => UNCHANGED <<joins, joinState, replayed, task, out>>
    BY DEF JoinGroup, CommitOffset, kafkaVars, podVars
  <2> HIDE DEF Entries
  <2>7. QED
    BY <1>1, <1>2, <2>1, <2>2, <2>3, <2>4, <2>5, <2>6 DEF PodProgress
<1>3. ASSUME NEW p \in Pods, PodDisrupted(p) PROVE Entries
  <2>1. ProcessEnds(p) => Entries
    BY EntriesEnd DEF BaseInv
  <2>2. EndSession(p) => UNCHANGED <<joins, joinState, replayed, task, out>>
    BY DEF EndSession
  <2> HIDE DEF Entries
  <2>3. QED
    BY <1>1, <1>3, <2>1, <2>2
    DEF PodDisrupted, Crash, Shutdown, RecordFails, AgentLoopFails, PublishFails
<1> HIDE DEF Entries
<1>4. Entries
  BY <1>1, <1>2, <1>3 DEF Next, UpstreamPublishes, StartSession, vars, kafkaVars, podVars
<1>5. Colocated' /\ HydratesFirst'
  BY ColocatedStep, HydratesFirstStep DEF BaseInv, FanInInv
<1>6. CommittedSafe' /\ ClaimsSafe'
  BY CommittedSafeStep, ClaimsSafeStep
<1>7. QED
  BY <1>4, <1>5, <1>6 DEF FanInInv, Entries

\* An empty topic, no pod and no entry.
LEMMA FanInInit == Init => BaseInv /\ FanInInv
<1> SUFFICES ASSUME Init PROVE BaseInv /\ FanInInv
  OBVIOUS
<1>1. TypeOK
  BY NoJoinType, IdleType, ConstantsAssumption DEF Init, TypeOK
<1>2. SentInv
  BY DEF Init, SentInv, Idle
<1>3. BufferMatchesChangelog /\ HydratesFirst /\ CommittedSafe /\ ClaimsSafe /\ Colocated
  BY DEF Init, BufferMatchesChangelog, HydratesFirst, CommittedSafe, ClaimsSafe, Colocated
<1>4. TasksMatchChangelog
  BY DEF Init, TasksMatchChangelog, Busy, Idle
<1>5. QED
  BY <1>1, <1>2, <1>3, <1>4, OffsetInit DEF BaseInv, FanInInv

\* The inductive invariant of a fan-in node holds in every reachable state.
LEMMA FanInCorrect ==
  ASSUME JoinNode
  PROVE  Spec => [](BaseInv /\ FanInInv)
<1>1. BaseInv /\ FanInInv /\ [Next]_vars => (BaseInv /\ FanInInv)'
  BY TypeStep, OffsetStep, SentStep, FanInStep DEF BaseInv
<1>2. QED
  BY <1>1, FanInInit, PTL DEF Spec

\* A fan-in node with one pod and keyed sources loses nothing: a record below the
\* committed offset is published everywhere, held in the changelog or superseded,
\* whatever crashes, failed writes, failed sends and lost tombstones come between.
THEOREM FanInNothingLost ==
  ASSUME JoinNode
  PROVE  Spec => []NothingLost
<1>1. FanInInv => NothingLost
  BY DEF JoinNode, FanInInv, CommittedSafe, ContributionSafe, RecordPublished, NothingLost
<1>2. QED
  BY <1>1, FanInCorrect, PTL

\* The join buffer of a hydrated pod is the changelog's, except for an entry that
\* was published everywhere and whose tombstone is outstanding or was lost.
THEOREM BufferIsChangelog ==
  ASSUME JoinNode
  PROVE  Spec => []BufferMatchesChangelog
<1>1. FanInInv => BufferMatchesChangelog
  BY DEF FanInInv
<1>2. QED
  BY <1>1, FanInCorrect, PTL

\* An entry leaves the changelog only after exactly its contributions were
\* published to every downstream topic (completeCorrelation's order of publish,
\* delete and tombstone), at any interleaving of the claims' goroutines.
THEOREM TombstonesFollowPublish ==
  ASSUME JoinNode
  PROVE  Spec => TombstonesArePublished
<1>1. BaseInv /\ FanInInv /\ [Next]_vars
        => [\A c \in Corr : joinState[c] # NoJoin /\ joinState'[c] = NoJoin
                              => PublishedEverywhere(c, joinState[c])]_vars
  <2> SUFFICES ASSUME BaseInv, FanInInv, [Next]_vars, NEW c \in Corr,
                      joinState[c] # NoJoin, joinState'[c] = NoJoin
               PROVE  PublishedEverywhere(c, joinState[c])
    OBVIOUS
  <2>1. ASSUME NEW p \in Pods, NEW q \in Partitions, Deliverable(p, q)
        PROVE  Joined(p, input[q][pos[p][q] + 1]) # NoJoin
    <3> DEFINE env == input[q][pos[p][q] + 1]
    <3>1. env \in Envelope
      BY <2>1, JoinedType DEF BaseInv
    <3>2. env.source \in Sources /\ env.event # NoEvent /\ joins[p][env.corr] \in Received
      <4>1. env.corr \in Corr /\ env.source \in Sources /\ env.event \in Events
        BY <3>1 DEF Envelope
      <4> HIDE DEF env
      <4>2. joins[p][env.corr] \in Received
        BY <4>1 DEF BaseInv, TypeOK
      <4>3. QED
        BY <4>1, <4>2, ConstantsAssumption
    <3>3. Joined(p, env)[env.source] = env.event
      BY <3>2 DEF Joined, Received
    <3> HIDE DEF env
    <3>4. Joined(p, env) # NoJoin
      BY <3>2, <3>3 DEF NoJoin
    <3>5. QED
      BY <3>4 DEF env
  <2>2. PICK p \in Pods, t \in Threads : task[p][t].stage = "tombstone" /\ task[p][t].corr = c
    BY <2>1, ChangelogChanges DEF BaseInv
  <2>3. task[p][t].data = joinState[c] /\ task[p][t].sent = NumOutputs
    BY <2>2 DEF BaseInv, SentInv, FanInInv, TasksMatchChangelog, TaskMatches, Busy
  <2>4. QED
    BY <2>2, <2>3, DoneIsPublished DEF BaseInv
<1>2. QED
  BY <1>1, FanInCorrect, PTL DEF Spec, TombstonesArePublished
-----------------------------------------------------------------------------
\* A goroutine that is completing a correlation ID goes on with it, unless the
\* process ends or the tombstone was its last step.
LEMMA CompleterStays ==
  ASSUME BaseInv, JoinNode, [Next]_vars, NEW p \in Pods, NEW t \in Threads, Busy(p, t)
  PROVE  \/ Busy(p, t)' /\ task'[p][t].corr = task[p][t].corr
         \/ phase'[p] = "down"
         \/ TombstoneJoin(p, t)
<1> DEFINE Goal == \/ Busy(p, t)' /\ task'[p][t].corr = task[p][t].corr
                   \/ phase'[p] = "down"
                   \/ TombstoneJoin(p, t)
<1> USE DEF BaseInv
<1>1. ASSUME task'[p][t] = task[p][t] PROVE Goal
  BY <1>1 DEF Busy
<1>2. ASSUME NEW u \in Threads, AgentLoopAnswers(p, u) \/ Publish(p, u) \/ ForgetJoin(p, u)
      PROVE  Goal
  <2>1. task[p][u] \in BusyTask /\ task[p][u].stage # "idle"
    BY <1>2, BusyType DEF AgentLoopAnswers, Publish, ForgetJoin
  <2>2. \A g : [task[p][u] EXCEPT !.stage = g].corr = task[p][u].corr
               /\ [task[p][u] EXCEPT !.stage = g].stage = g
    BY <2>1 DEF BusyTask
  <2>3. \A n : [task[p][u] EXCEPT !.sent = n].corr = task[p][u].corr
               /\ [task[p][u] EXCEPT !.sent = n].stage = task[p][u].stage
    BY <2>1 DEF BusyTask
  <2>4. PICK x : /\ x.corr = task[p][u].corr /\ x.stage # "idle"
                 /\ task' = [task EXCEPT ![p][u] = x]
    BY <1>2, <2>1, <2>2, <2>3 DEF AgentLoopAnswers, Publish, ForgetJoin
  <2>5. task'[p][t] = IF t = u THEN x ELSE task[p][t]
    BY <2>4 DEF TypeOK
  <2>6. QED
    BY <1>1, <2>4, <2>5 DEF Busy
<1>3. ASSUME NEW u \in Threads, u # t, NEW x, task' = [task EXCEPT ![p][u] = x] PROVE Goal
  BY <1>1, <1>3 DEF TypeOK
<1>4. ASSUME NEW q \in Partitions, ReceiveJoin(p, q) PROVE Goal
  <2>1. q # t /\ q \in Threads
    BY <1>4 DEF ReceiveJoin, Deliverable, Busy, Threads
  <2> HIDE DEF Goal
  <2>2. QED
    BY <1>3, <1>4, <2>1 DEF ReceiveJoin
<1>5. ASSUME NEW c \in Corr, RecoverJoin(p, c) PROVE Goal
  <2>1. Main # t /\ Main \in Threads
    BY <1>5 DEF RecoverJoin, Busy, Threads
  <2> HIDE DEF Goal
  <2>2. QED
    BY <1>3, <1>5, <2>1 DEF RecoverJoin
<1>6. ASSUME NEW u \in Threads, TombstoneJoin(p, u) PROVE Goal
  <2>1. CASE u = t
    BY <1>6, <2>1
  <2>2. CASE u # t
    <3>1. task' = [task EXCEPT ![p][u] = Idle]
      BY <1>6 DEF TombstoneJoin
    <3> HIDE DEF Goal
    <3>2. QED
      BY <1>3, <2>2, <3>1
  <2>3. QED
    BY <2>1, <2>2
<1>7. PodProgress(p) => Goal
  <2>1. \A q \in Partitions : ~ReceiveStraight(p, q) /\ ~MarkStraight(p, q)
    BY DEF ReceiveStraight, MarkStraight, JoinNode
  <2> HIDE DEF Goal
  <2>2. QED
    BY <1>1, <1>2, <1>4, <1>5, <1>6, <2>1
    DEF PodProgress, StartPod, JoinGroup, HydratePartition, CommitOffset, podVars
<1>8. PodDisrupted(p) => Goal
  <2>1. ProcessEnds(p) => phase'[p] = "down"
    BY DEF ProcessEnds, TypeOK
  <2>2. EndSession(p) => task' = task
    BY DEF EndSession
  <2>3. QED
    BY <1>1, <2>1, <2>2
    DEF PodDisrupted, Crash, Shutdown, RecordFails, AgentLoopFails, PublishFails
<1>9. \A r \in Pods : r = p
  BY DEF JoinNode
<1>10. UNCHANGED task => Goal
  BY <1>1
<1> HIDE DEF Goal
<1>11. Goal
  BY <1>7, <1>8, <1>9, <1>10 DEF Next, UpstreamPublishes, StartSession, vars, podVars
<1>12. QED
  BY <1>11 DEF Goal

\* A pod begins to consume by joining the group at the end of main's recovery.
LEMMA ConsumingSince ==
  ASSUME TypeOK, JoinNode, [Next]_vars, NEW p \in Pods, phase'[p] = "consuming"
  PROVE  phase[p] = "consuming" \/ JoinGroup(p)
<1>1. \A r \in Pods : r = p
  BY DEF JoinNode
<1>2. StartPod(p) => phase'[p] = "startup"
  BY DEF StartPod, TypeOK
<1>3. PodProgress(p) => phase' = phase \/ StartPod(p) \/ JoinGroup(p)
  BY DEF PodProgress, HydratePartition, ReceiveStraight, ReceiveJoin, MarkStraight, CommitOffset,
         RecoverJoin, AgentLoopAnswers, Publish, ForgetJoin, TombstoneJoin, podVars
<1>4. PodDisrupted(p) => phase' = phase \/ phase'[p] = "down"
  BY DEF PodDisrupted, EndSession, Crash, Shutdown, RecordFails, AgentLoopFails, PublishFails,
         ProcessEnds, TypeOK
<1>5. QED
  BY <1>1, <1>2, <1>3, <1>4 DEF Next, UpstreamPublishes, StartSession, vars, podVars

\* A step that makes a join complete makes a goroutine busy with it, and a goroutine
\* that stops being busy has published or has taken the process with it.
LEMMA NoStuckStep ==
  ASSUME JoinNode
  PROVE  BaseInv /\ FanInInv /\ NoStuckJoin /\ [Next]_vars => NoStuckJoin'
<1> SUFFICES ASSUME BaseInv, FanInInv, NoStuckJoin, [Next]_vars, NEW p \in Pods, NEW c \in Corr,
                    phase'[p] = "consuming", Have(joinState'[c]) # {}, Complete(joinState'[c])
             PROVE  Completing(p, c)' \/ PublishedEverywhere(c, joinState[c])'
  BY DEF NoStuckJoin, Have, Complete
<1> USE DEF BaseInv
<1> DEFINE Goal == Completing(p, c)' \/ PublishedEverywhere(c, joinState[c])'
<1>1. \A r \in Pods : r = p
  BY DEF JoinNode
<1>2. ASSUME joinState'[c] = joinState[c], PublishedEverywhere(c, joinState[c]) PROVE Goal
  <2>1. \A k \in Topics : [corr |-> c, data |-> joinState[c]] \in out'[k]
    BY <1>2, OutGrows DEF PublishedEverywhere
  <2>2. QED
    BY <1>2, <2>1 DEF PublishedEverywhere
<1>3. CASE JoinGroup(p)
  <2>1. /\ joinState' = joinState
        /\ Recoverable(p) = {}
        /\ PartitionOf[c] \in replayed[p]
    BY <1>3, ConstantsAssumption DEF JoinGroup, kafkaVars
  <2>2. joins[p][c] # joinState[c]
    BY <2>1 DEF Recoverable
  <2>3. PublishedEverywhere(c, joinState[c])
    BY <2>1, <2>2 DEF FanInInv, BufferMatchesChangelog
  <2>4. QED
    BY <1>2, <2>1, <2>3
<1>4. CASE phase[p] = "consuming" /\ joinState'[c] = joinState[c]
  <2>1. Completing(p, c) \/ PublishedEverywhere(c, joinState[c])
    BY <1>4 DEF NoStuckJoin
  <2>2. ASSUME NEW t \in Threads, Busy(p, t), task[p][t].corr = c PROVE Goal
    <3>1. CASE Busy(p, t)' /\ task'[p][t].corr = task[p][t].corr
      BY <2>2, <3>1 DEF Completing, Busy
    <3>2. CASE TombstoneJoin(p, t)
      <4>1. task[p][t].stage = "tombstone"
        BY <3>2 DEF TombstoneJoin
      <4>2. task[p][t].data = joinState[c] /\ task[p][t].sent = NumOutputs
        BY <2>2, <4>1 DEF SentInv, FanInInv, TasksMatchChangelog, TaskMatches
      <4>3. QED
        BY <1>2, <1>4, <2>2, <4>2, DoneIsPublished
    <3>3. QED
      BY <2>2, <3>1, <3>2, CompleterStays
  <2>3. QED
    BY <1>2, <1>4, <2>1, <2>2 DEF Completing, Busy
<1>5. CASE phase[p] = "consuming" /\ joinState'[c] # joinState[c]
  <2>1. joinState'[c] # NoJoin
    BY DEF Have, NoJoin
  <2>2. ASSUME NEW t \in Threads, TombstoneJoin(p, t) PROVE joinState'[c] \in {joinState[c], NoJoin}
    BY <2>2 DEF TombstoneJoin, TypeOK
  <2>3. PICK q \in Partitions : ReceiveJoin(p, q)
    <3>1. joinState' # joinState
      BY <1>5
    <3>2. PodDisrupted(p) => joinState' = joinState \/ phase'[p] = "down"
      BY DEF PodDisrupted, Crash, Shutdown, EndSession, RecordFails, AgentLoopFails, PublishFails,
             ProcessEnds, TypeOK
    <3>3. PodProgress(p) => joinState' = joinState \/ \E q \in Partitions : ReceiveJoin(p, q)
      BY <1>5, <2>1, <2>2
      DEF PodProgress, StartPod, JoinGroup, HydratePartition, ReceiveStraight, MarkStraight,
          CommitOffset, RecoverJoin, AgentLoopAnswers, Publish, ForgetJoin, kafkaVars
    <3>4. QED
      BY <1>1, <3>1, <3>2, <3>3 DEF Next, UpstreamPublishes, StartSession, vars, kafkaVars
  <2> DEFINE env == input[q][pos[p][q] + 1]
             st  == Joined(p, env)
  <2>4. joinState' = [joinState EXCEPT ![env.corr] = st]
    BY <2>3 DEF ReceiveJoin
  <2>5. c = env.corr /\ joinState'[c] = st
    BY <1>5, <2>4 DEF TypeOK
  <2> HIDE DEF st
  <2>6. task' = [task EXCEPT ![p][q] = IF Complete(st) THEN AgentLoop(env.corr, st) ELSE Idle]
    BY <2>3 DEF ReceiveJoin, st
  <2>7. Complete(st) /\ q \in Threads
    BY <2>5 DEF Threads
  <2>8. task'[p][q] = AgentLoop(c, st)
    BY <2>5, <2>6, <2>7 DEF TypeOK
  <2>9. QED
    BY <2>7, <2>8 DEF Completing, AgentLoop
<1>6. QED
  BY <1>3, <1>4, <1>5, ConsumingSince

\* Once a pod consumes, a complete join in the changelog is being completed by one
\* of its goroutines or was published: main's recovery loop leaves none behind, and
\* a claim's goroutine starts completeCorrelation in the step that completes one.
THEOREM NoJoinIsStuck ==
  ASSUME JoinNode
  PROVE  Spec => []NoStuckJoin
<1>1. Init => NoStuckJoin
  BY DEF Init, NoStuckJoin
<1>2. QED
  BY <1>1, FanInCorrect, NoStuckStep, PTL DEF Spec
-----------------------------------------------------------------------------
(***************************************************************************)
(* Part 3: the refinement of AtLeastOnce.                                  *)
(*                                                                         *)
(* Every step of Runner changes at most one of the input topic, the        *)
(* committed offsets, the changelog and the downstream topics (StepKinds); *)
(* each kind maps to a step of AtLeastOnce, or to a stuttering one.  That  *)
(* a result delivers only records that have arrived needs one more         *)
(* invariant, ArrivalInv: all data a node holds comes from its input.      *)
(***************************************************************************)
InTopic(r) == \E q \in Partitions : \E i \in 1..Len(input[q]) : input[q][i] = r

\* Every contribution in the entry d of c is a record of the input topic.
HasArrived(c, d) ==
  \A s \in Sources : d[s] # NoEvent => InTopic([corr |-> c, source |-> s, event |-> d[s]])

ArrivalInv ==
  /\ \A c \in Corr : HasArrived(c, joinState[c])
  /\ \A p \in Pods, c \in Corr : HasArrived(c, joins[p][c])
  /\ \A p \in Pods, t \in Threads : HasArrived(task[p][t].corr, task[p][t].data)
  /\ \A k \in Topics : \A o \in out[k] : HasArrived(o.corr, o.data)

\* A step appends a message, commits offsets, records a contribution, deletes an
\* entry or publishes a result; all others are internal to the pods.
LEMMA StepKinds ==
  ASSUME TypeOK, SentInv, [Next]_vars
  PROVE  \/ /\ UNCHANGED <<committed, joinState, out>>
            /\ \E s \in Sources, e \in Events, q \in Partitions : UpstreamPublishes(s, e, q)
         \/ UNCHANGED <<input, joinState, out>>
         \/ /\ UNCHANGED <<input, committed, out>>
            /\ IsFanIn
            /\ \E p \in Pods, q \in Partitions :
                 /\ Deliverable(p, q)
                 /\ joinState' = [joinState EXCEPT ![input[q][pos[p][q] + 1].corr] =
                                    Joined(p, input[q][pos[p][q] + 1])]
         \/ /\ UNCHANGED <<input, committed, out>>
            /\ IsFanIn
            /\ \E p \in Pods, t \in Threads :
                 /\ task[p][t].stage = "tombstone"
                 /\ joinState' = [joinState EXCEPT ![task[p][t].corr] = NoJoin]
         \/ /\ UNCHANGED <<input, committed, joinState>>
            /\ \E p \in Pods, t \in Threads : /\ task[p][t].stage = "publish"
                                              /\ task[p][t].sent < NumOutputs
                                              /\ out' = Sent(p, t)
<1> DEFINE Arrives == /\ UNCHANGED <<committed, joinState, out>>
                      /\ \E s \in Sources, e \in Events, q \in Partitions :
                           UpstreamPublishes(s, e, q)
           Commits == UNCHANGED <<input, joinState, out>>
           Records == /\ UNCHANGED <<input, committed, out>>
                      /\ IsFanIn
                      /\ \E p \in Pods, q \in Partitions :
                           /\ Deliverable(p, q)
                           /\ joinState' = [joinState EXCEPT ![input[q][pos[p][q] + 1].corr] =
                                              Joined(p, input[q][pos[p][q] + 1])]
           Deletes == /\ UNCHANGED <<input, committed, out>>
                      /\ IsFanIn
                      /\ \E p \in Pods, t \in Threads :
                           /\ task[p][t].stage = "tombstone"
                           /\ joinState' = [joinState EXCEPT ![task[p][t].corr] = NoJoin]
           Publishes == /\ UNCHANGED <<input, committed, joinState>>
                        /\ \E p \in Pods, t \in Threads : /\ task[p][t].stage = "publish"
                                                          /\ task[p][t].sent < NumOutputs
                                                          /\ out' = Sent(p, t)
           Goal == Arrives \/ Commits \/ Records \/ Deletes \/ Publishes
<1>1. ASSUME NEW p \in Pods, NEW q \in Partitions, ReceiveJoin(p, q) \/ RecordFails(p, q)
      PROVE  Commits \/ Records
  BY <1>1 DEF ReceiveJoin, RecordFails
<1>2. ASSUME NEW p \in Pods, NEW t \in Threads, TombstoneJoin(p, t) PROVE Commits \/ Deletes
  BY <1>2 DEF TombstoneJoin, SentInv
<1>3. ASSUME NEW p \in Pods, NEW t \in Threads, Publish(p, t) \/ PublishFails(p, t)
      PROVE  Commits \/ Publishes
  BY <1>3 DEF Publish, PublishFails
<1>4. ASSUME NEW p \in Pods, PodProgress(p) PROVE Goal
  <2>1. StartPod(p) \/ JoinGroup(p) => Commits
    BY DEF StartPod, JoinGroup, kafkaVars
  <2>2. \A q \in Partitions : HydratePartition(p, q) \/ ReceiveStraight(p, q) \/ MarkStraight(p, q)
                              \/ CommitOffset(p, q) => Commits
    BY DEF HydratePartition, ReceiveStraight, MarkStraight, CommitOffset, kafkaVars
  <2>3. \A c \in Corr : RecoverJoin(p, c) => Commits
    BY DEF RecoverJoin, kafkaVars
  <2>4. \A t \in Threads : AgentLoopAnswers(p, t) \/ ForgetJoin(p, t) => Commits
    BY DEF AgentLoopAnswers, ForgetJoin, kafkaVars
  <2> HIDE DEF Arrives, Commits, Records, Deletes, Publishes
  <2>5. QED
    BY <1>1, <1>2, <1>3, <1>4, <2>1, <2>2, <2>3, <2>4 DEF PodProgress
<1>5. ASSUME NEW p \in Pods, PodDisrupted(p) PROVE Goal
  <2>1. Crash(p) \/ Shutdown(p) \/ EndSession(p) => Commits
    BY DEF Crash, Shutdown, EndSession
  <2>2. \A t \in Threads : AgentLoopFails(p, t) => Commits
    BY DEF AgentLoopFails
  <2> HIDE DEF Arrives, Commits, Records, Deletes, Publishes
  <2>3. QED
    BY <1>1, <1>3, <1>5, <2>1, <2>2 DEF PodDisrupted
<1>6. ASSUME NEW p \in Pods, NEW S \in SUBSET Partitions, StartSession(p, S) PROVE Commits
  BY <1>6 DEF StartSession
<1>7. ASSUME NEW s \in Sources, NEW e \in Events, NEW q \in Partitions, UpstreamPublishes(s, e, q)
      PROVE  Arrives
  BY <1>7 DEF UpstreamPublishes
<1>8. UNCHANGED vars => Commits
  BY DEF vars, kafkaVars
<1> HIDE DEF Arrives, Commits, Records, Deletes, Publishes
<1>9. Goal
  BY <1>4, <1>5, <1>6, <1>7, <1>8 DEF Next
<1>10. QED
  BY <1>9 DEF Arrives, Commits, Records, Deletes, Publishes
-----------------------------------------------------------------------------
\* Before any record has arrived the node holds and has delivered nothing.
LEMMA InitImplements == Init => Node!Init
<1> SUFFICES ASSUME Init PROVE Node!Init
  OBVIOUS
<1>1. Held = {}
  BY ConstantsAssumption DEF Init, Held, Envelope, NoJoin
<1>2. \A k \in Topics : Delivered(k) = {}
  BY DEF Init, Delivered
<1>3. QED
  BY <1>1, <1>2 DEF Init, Node!Init
-----------------------------------------------------------------------------
\* The input topic only grows: what has arrived stays there.
LEMMA ArrivedStays ==
  ASSUME TypeOK, [Next]_vars, NEW c, NEW d, HasArrived(c, d)
  PROVE  HasArrived(c, d)'
<1> SUFFICES ASSUME NEW r, InTopic(r) PROVE InTopic(r)'
  BY DEF HasArrived
<1>0. PICK q \in Partitions : \E i \in 1..Len(input[q]) : input[q][i] = r
  BY DEF InTopic
<1>1. PICK i \in 1..Len(input[q]) : input[q][i] = r
  BY <1>0
<1>2. i \in 1..Len(input'[q]) /\ input'[q][i] = r
  BY <1>1, InputGrows
<1>3. QED
  BY <1>2 DEF InTopic

\* An empty entry claims nothing.
LEMMA EmptyArrived == \A c : HasArrived(c, NoJoin)
BY DEF HasArrived, NoJoin

\* The message a claim delivers next, alone or added to its join entry, has arrived.
LEMMA MessageArrived ==
  ASSUME TypeOK, NEW p \in Pods, NEW q \in Partitions, Deliverable(p, q),
         NEW d \in Received, HasArrived(input[q][pos[p][q] + 1].corr, d)
  PROVE  HasArrived(input[q][pos[p][q] + 1].corr,
                    [d EXCEPT ![input[q][pos[p][q] + 1].source] = input[q][pos[p][q] + 1].event])
<1> DEFINE env == input[q][pos[p][q] + 1]
           e   == [d EXCEPT ![env.source] = env.event]
<1>1. env \in Envelope
  BY JoinedType
<1>2. /\ env.source \in Sources
      /\ env = [corr |-> env.corr, source |-> env.source, event |-> env.event]
  BY <1>1 DEF Envelope
<1>3. InTopic(env)
  <2>1. pos[p][q] + 1 \in 1..Len(input[q])
    BY DEF Deliverable, TypeOK
  <2>2. QED
    BY <2>1 DEF InTopic
<1> HIDE DEF env
<1>4. \A s \in Sources : e[s] = IF s = env.source THEN env.event ELSE d[s]
  BY DEF Received
<1> HIDE DEF e
<1>5. ASSUME NEW s \in Sources, e[s] # NoEvent
      PROVE  InTopic([corr |-> env.corr, source |-> s, event |-> e[s]])
  <2>1. CASE s = env.source
    <3>1. [corr |-> env.corr, source |-> s, event |-> e[s]] = env
      BY <1>2, <1>4, <2>1
    <3>2. QED
      BY <1>3, <3>1
  <2>2. CASE s # env.source
    <3>1. e[s] = d[s]
      BY <1>4, <2>2
    <3>2. HasArrived(env.corr, d)
      BY DEF env
    <3>3. QED
      BY <1>5, <3>1, <3>2 DEF HasArrived
  <2>3. QED
    BY <2>1, <2>2
<1>6. HasArrived(env.corr, e)
  BY <1>5 DEF HasArrived
<1>7. QED
  BY <1>6 DEF env, e

\* join puts the message in hand, which has arrived, into an entry of such messages.
LEMMA JoinedArrived ==
  ASSUME TypeOK, ArrivalInv, NEW p \in Pods, NEW q \in Partitions, Deliverable(p, q)
  PROVE  HasArrived(input[q][pos[p][q] + 1].corr, Joined(p, input[q][pos[p][q] + 1]))
<1> DEFINE env == input[q][pos[p][q] + 1]
<1>1. env.corr \in Corr
  BY JoinedType DEF Envelope
<1>2. joins[p][env.corr] \in Received /\ HasArrived(env.corr, joins[p][env.corr])
  <2> HIDE DEF env
  <2>1. QED
    BY <1>1 DEF TypeOK, ArrivalInv
<1>3. QED
  BY <1>2, MessageArrived DEF Joined

\* The buffer entry of c changes when a message enters it, when it is hydrated from
\* the changelog and when it is forgotten.
LEMMA BufferChanges ==
  ASSUME TypeOK, [Next]_vars, NEW r \in Pods, NEW c \in Corr
  PROVE  \/ joins'[r][c] \in {joins[r][c], joinState[c], NoJoin}
         \/ \E q \in Partitions : /\ Deliverable(r, q)
                                  /\ input[q][pos[r][q] + 1].corr = c
                                  /\ joins'[r][c] = Joined(r, input[q][pos[r][q] + 1])
<1> DEFINE Recorded == \E q \in Partitions :
                         /\ Deliverable(r, q)
                         /\ input[q][pos[r][q] + 1].corr = c
                         /\ joins'[r][c] = Joined(r, input[q][pos[r][q] + 1])
           Goal == joins'[r][c] \in {joins[r][c], joinState[c], NoJoin} \/ Recorded
<1>1. joins' = joins => Goal
  OBVIOUS
<1>2. ASSUME NEW p \in Pods, NEW q \in Partitions, HydratePartition(p, q) PROVE Goal
  BY <1>2 DEF HydratePartition, TypeOK
<1>3. ASSUME NEW p \in Pods, NEW q \in Partitions, ReceiveJoin(p, q) PROVE Goal
  <2> DEFINE env == input[q][pos[p][q] + 1]
             st  == Joined(p, env)
  <2>1. joins' = [joins EXCEPT ![p][env.corr] = st] /\ Deliverable(p, q)
    BY <1>3 DEF ReceiveJoin
  <2> HIDE DEF st
  <2>2. joins'[r][c] = IF r = p /\ c = env.corr THEN st ELSE joins[r][c]
    BY <2>1 DEF TypeOK
  <2>3. QED
    BY <2>1, <2>2 DEF st
<1>4. ASSUME NEW p \in Pods, NEW t \in Threads, ForgetJoin(p, t) PROVE Goal
  <2>1. joins'[r][c] \in {joins[r][c], NoJoin}
    BY <1>4 DEF ForgetJoin, TypeOK
  <2>2. QED
    BY <2>1
<1>5. ASSUME NEW p \in Pods, ProcessEnds(p) PROVE Goal
  <2>1. joins'[r][c] \in {joins[r][c], NoJoin}
    BY <1>5 DEF ProcessEnds, TypeOK
  <2>2. QED
    BY <2>1
<1> HIDE DEF Goal
<1>6. ASSUME NEW p \in Pods, PodProgress(p) PROVE Goal
  BY <1>1, <1>2, <1>3, <1>4, <1>6
  DEF PodProgress, StartPod, JoinGroup, ReceiveStraight, MarkStraight, CommitOffset, RecoverJoin,
      AgentLoopAnswers, Publish, TombstoneJoin, podVars
<1>7. ASSUME NEW p \in Pods, PodDisrupted(p) PROVE Goal
  BY <1>1, <1>5, <1>7
  DEF PodDisrupted, EndSession, Crash, Shutdown, RecordFails, AgentLoopFails, PublishFails
<1>8. Goal
  BY <1>1, <1>6, <1>7 DEF Next, UpstreamPublishes, StartSession, vars, podVars
<1>9. QED
  BY <1>8 DEF Goal

\* What a goroutine works on comes from the message it took, from the pod's buffer
\* or from its own previous step.
LEMMA TaskArrived ==
  ASSUME TypeOK, ArrivalInv, [Next]_vars, NEW r \in Pods, NEW u \in Threads
  PROVE  HasArrived(task'[r][u].corr, task'[r][u].data)
<1> DEFINE OK(x) == HasArrived(x.corr, x.data)
<1>1. OK(task[r][u])
  BY DEF ArrivalInv
<1>2. OK(Idle)
  BY EmptyArrived DEF Idle
<1>3. task' = task => OK(task'[r][u])
  BY <1>1
<1>4. ASSUME NEW p \in Pods, NEW t \in Threads, NEW x, OK(x), task' = [task EXCEPT ![p][t] = x]
      PROVE  OK(task'[r][u])
  <2>1. task'[r][u] = IF r = p /\ u = t THEN x ELSE task[r][u]
    BY <1>4 DEF TypeOK
  <2> HIDE DEF OK
  <2>2. QED
    BY <1>1, <1>4, <2>1
<1>5. ASSUME NEW p \in Pods, PodProgress(p) PROVE OK(task'[r][u])
  <2>1. ASSUME NEW q \in Partitions, ReceiveStraight(p, q) PROVE OK(task'[r][u])
    <3> DEFINE env == input[q][pos[p][q] + 1]
               d   == [NoJoin EXCEPT ![env.source] = env.event]
               x   == AgentLoop(env.corr, d)
    <3>1. HasArrived(env.corr, d)
      BY <2>1, MessageArrived, EmptyArrived, NoJoinType DEF ReceiveStraight
    <3> HIDE DEF d
    <3>2. OK(x)
      BY <3>1 DEF AgentLoop
    <3>3. task' = [task EXCEPT ![p][q] = x] /\ q \in Threads
      BY <2>1 DEF ReceiveStraight, Threads, d
    <3> HIDE DEF x, OK
    <3>4. QED
      BY <1>4, <3>2, <3>3
  <2>2. ASSUME NEW q \in Partitions, ReceiveJoin(p, q) PROVE OK(task'[r][u])
    <3> DEFINE env == input[q][pos[p][q] + 1]
               st  == Joined(p, env)
               x   == IF Complete(st) THEN AgentLoop(env.corr, st) ELSE Idle
    <3>1. HasArrived(env.corr, st)
      BY <2>2, JoinedArrived DEF ReceiveJoin
    <3>2. task' = [task EXCEPT ![p][q] = x] /\ q \in Threads
      BY <2>2 DEF ReceiveJoin, Threads
    <3> HIDE DEF st
    <3>3. OK(x)
      BY <1>2, <3>1 DEF AgentLoop
    <3> HIDE DEF x, OK
    <3>4. QED
      BY <1>4, <3>2, <3>3
  <2>3. ASSUME NEW q \in Partitions, MarkStraight(p, q) PROVE OK(task'[r][u])
    <3>1. task' = [task EXCEPT ![p][q] = Idle] /\ q \in Threads
      BY <2>3 DEF MarkStraight, Threads
    <3> HIDE DEF OK
    <3>2. QED
      BY <1>2, <1>4, <3>1
  <2>4. ASSUME NEW c \in Corr, RecoverJoin(p, c) PROVE OK(task'[r][u])
    <3> DEFINE x == AgentLoop(c, joins[p][c])
    <3>1. OK(x)
      BY DEF AgentLoop, ArrivalInv
    <3>2. task' = [task EXCEPT ![p][Main] = x] /\ Main \in Threads
      BY <2>4 DEF RecoverJoin, Threads
    <3> HIDE DEF x, OK
    <3>3. QED
      BY <1>4, <3>1, <3>2
  <2>5. ASSUME NEW t \in Threads, AgentLoopAnswers(p, t) \/ Publish(p, t) \/ ForgetJoin(p, t)
        PROVE  OK(task'[r][u])
    <3>1. task[p][t] \in BusyTask /\ OK(task[p][t])
      BY <2>5, BusyType DEF AgentLoopAnswers, Publish, ForgetJoin, ArrivalInv
    <3>2. \A g : /\ [task[p][t] EXCEPT !.stage = g].corr = task[p][t].corr
                 /\ [task[p][t] EXCEPT !.stage = g].data = task[p][t].data
      BY <3>1 DEF BusyTask
    <3>3. \A n : /\ [task[p][t] EXCEPT !.sent = n].corr = task[p][t].corr
                 /\ [task[p][t] EXCEPT !.sent = n].data = task[p][t].data
      BY <3>1 DEF BusyTask
    <3>4. PICK x : /\ x.corr = task[p][t].corr /\ x.data = task[p][t].data
                   /\ task' = [task EXCEPT ![p][t] = x]
      BY <2>5, <3>2, <3>3 DEF AgentLoopAnswers, Publish, ForgetJoin
    <3>5. OK(x)
      BY <3>1, <3>4
    <3> HIDE DEF OK
    <3>6. QED
      BY <1>4, <3>4, <3>5
  <2>6. ASSUME NEW t \in Threads, TombstoneJoin(p, t) PROVE OK(task'[r][u])
    <3>1. task' = [task EXCEPT ![p][t] = Idle]
      BY <2>6 DEF TombstoneJoin
    <3> HIDE DEF OK
    <3>2. QED
      BY <1>2, <1>4, <3>1
  <2> HIDE DEF OK
  <2>7. QED
    BY <1>3, <1>5, <2>1, <2>2, <2>3, <2>4, <2>5, <2>6
    DEF PodProgress, StartPod, JoinGroup, HydratePartition, CommitOffset, podVars
<1>6. ASSUME NEW p \in Pods, PodDisrupted(p) PROVE OK(task'[r][u])
  <2>1. task' = task \/ task' = [task EXCEPT ![p] = [t \in Threads |-> Idle]]
    BY <1>6 DEF PodDisrupted, Crash, Shutdown, EndSession, RecordFails, AgentLoopFails,
                PublishFails, ProcessEnds
  <2>2. task'[r][u] = task[r][u] \/ task'[r][u] = Idle
    BY <2>1 DEF TypeOK
  <2> HIDE DEF OK
  <2>3. QED
    BY <1>1, <1>2, <2>2
<1> HIDE DEF OK
<1>7. OK(task'[r][u])
  BY <1>3, <1>5, <1>6 DEF Next, UpstreamPublishes, StartSession, podVars, vars
<1>8. QED
  BY <1>7 DEF OK

\* ArrivalInv is inductive: no step invents data.
LEMMA ArrivalStep == TypeOK /\ SentInv /\ ArrivalInv /\ [Next]_vars => ArrivalInv'
<1> SUFFICES ASSUME TypeOK, SentInv, ArrivalInv, [Next]_vars PROVE ArrivalInv'
  OBVIOUS
<1>1. \A c \in Corr : HasArrived(c, joinState'[c])
  BY ChangelogChanges, JoinedArrived, EmptyArrived DEF ArrivalInv
<1>2. \A p \in Pods, c \in Corr : HasArrived(c, joins'[p][c])
  BY BufferChanges, JoinedArrived, EmptyArrived DEF ArrivalInv
<1>3. \A p \in Pods, t \in Threads : HasArrived(task'[p][t].corr, task'[p][t].data)
  BY TaskArrived
<1>4. ASSUME NEW k \in Topics, NEW o \in out'[k] PROVE HasArrived(o.corr, o.data)
  <2>1. CASE o \in out[k]
    BY <2>1 DEF ArrivalInv
  <2>2. ASSUME NEW p \in Pods, NEW t \in Threads, out' = Sent(p, t), o \notin out[k]
        PROVE  HasArrived(o.corr, o.data)
    <3>1. o = [corr |-> task[p][t].corr, data |-> task[p][t].data]
      BY <2>2 DEF Sent, TypeOK
    <3>2. o.corr = task[p][t].corr /\ o.data = task[p][t].data
      BY <3>1
    <3>3. QED
      BY <3>2 DEF ArrivalInv
  <2>3. QED
    BY <2>1, <2>2, StepKinds
<1> DEFINE Then(c, d) == \A s \in Sources : d[s] # NoEvent =>
                           \E q \in Partitions : \E i \in 1..Len(input'[q]) :
                             input'[q][i] = [corr |-> c, source |-> s, event |-> d[s]]
<1>5. ASSUME NEW c, NEW d, HasArrived(c, d) PROVE Then(c, d)
  <2>1. HasArrived(c, d)'
    BY <1>5, ArrivedStays
  <2>2. QED
    BY <2>1 DEF HasArrived, InTopic
<1> HIDE DEF Then
<1>6. /\ \A c \in Corr : Then(c, joinState'[c])
      /\ \A p \in Pods, c \in Corr : Then(c, joins'[p][c])
      /\ \A p \in Pods, t \in Threads : Then(task'[p][t].corr, task'[p][t].data)
      /\ \A k \in Topics : \A o \in out'[k] : Then(o.corr, o.data)
  BY <1>1, <1>2, <1>3, <1>4, <1>5
<1>7. QED
  BY <1>6 DEF ArrivalInv, HasArrived, InTopic, Then

\* No data to begin with.
LEMMA ArrivalInit == Init => ArrivalInv
<1>1. QED
  BY EmptyArrived DEF Init, ArrivalInv, Idle
-----------------------------------------------------------------------------
\* The abstract node's held records are a view of the changelog.
LEMMA HeldSame == joinState' = joinState => Held' = Held
BY DEF Held

\* What the abstract node has delivered is a view of the downstream topics.
LEMMA DeliveredSame ==
  out' = out => [k \in Topics |-> Delivered(k)]' = [k \in Topics |-> Delivered(k)]
BY DEF Delivered

\* A message that an upstream publishes arrives in the partition of its key.
LEMMA ArriveImplements ==
  ASSUME NEW s \in Sources, NEW e \in Events, NEW q \in Partitions, UpstreamPublishes(s, e, q),
         IsFanIn => Keyed = Sources
  PROVE  Node!Next
<1> DEFINE env == [corr |-> CorrOf[e], source |-> s, event |-> e]
<1>1. env \in Envelope
  BY ConstantsAssumption DEF Envelope
<1>2. IsFanIn => q = PartitionOf[env.corr]
  BY DEF UpstreamPublishes
<1>3. input' = [input EXCEPT ![q] = Append(@, env)]
  BY DEF UpstreamPublishes
<1>4. UNCHANGED <<committed, Held, [k \in Topics |-> Delivered(k)]>>
  BY HeldSame, DeliveredSame DEF UpstreamPublishes
<1> HIDE DEF env
<1>5. Node!Arrive(q, env)
  BY <1>2, <1>3, <1>4 DEF Node!Arrive
<1>6. QED
  BY <1>1, <1>5 DEF Node!Next

\* A record that was published everywhere is delivered to every topic.
LEMMA PublishedIsDelivered ==
  ASSUME TypeOK, NEW q \in Partitions, NEW i \in 1..Len(input[q]), RecordPublished(q, i)
  PROVE  Node!DeliveredEverywhere(input[q][i])
<1>1. input[q] \in Seq(Envelope)
  BY DEF TypeOK
<1>2. input[q][i] \in Envelope
  BY <1>1
<1>3. QED
  BY <1>2 DEF RecordPublished, PublishedWith, Node!DeliveredEverywhere, Delivered

\* What the runner may commit is settled.
LEMMA SafeIsSettled ==
  ASSUME TypeOK, NEW q \in Partitions, NEW i \in 1..Len(input[q]),
         RecordPublished(q, i) \/ (IsFanIn /\ ContributionSafe(q, i))
  PROVE  Node!Settled(q, i)
<1>1. input[q] \in Seq(Envelope)
  BY DEF TypeOK
<1>2. input[q][i] \in Envelope
  BY <1>1
<1>3. CASE RecordPublished(q, i)
  BY <1>3, PublishedIsDelivered DEF Node!Settled
<1>4. CASE IsFanIn /\ joinState[input[q][i].corr][input[q][i].source] = input[q][i].event
  BY <1>2, <1>4 DEF Held, Node!Settled
<1>5. CASE IsFanIn /\ Superseded(q, i)
  BY <1>5 DEF Superseded, Node!Settled, Node!SameContribution
<1>6. QED
  BY <1>3, <1>4, <1>5 DEF ContributionSafe

\* Offsets that move to settled records, or do not move, are a commit.
LEMMA CommitImplements ==
  ASSUME TypeOK, OffsetInv, [Next]_vars, UNCHANGED <<input, joinState, out>>,
         \A q \in Partitions : \A i \in 1..committed'[q] :
           i \in 1..Len(input[q]) => RecordPublished(q, i) \/ (IsFanIn /\ ContributionSafe(q, i))
  PROVE  Node!Next
<1>1. UNCHANGED <<input, Held, [k \in Topics |-> Delivered(k)]>>
  BY HeldSame, DeliveredSame
<1>2. committed' \in [Partitions -> Nat]
  BY TypeStep DEF TypeOK
<1>3. ASSUME NEW q \in Partitions
      PROVE  /\ committed'[q] \in committed[q]..Len(input[q])
             /\ \A i \in (committed[q] + 1)..committed'[q] : Node!Settled(q, i)
  <2>1. /\ committed[q] \in Nat /\ committed[q] <= Len(input[q]) /\ Len(input[q]) \in Nat
        /\ \A p \in Pods : /\ marked[p][q] \in Nat /\ pos[p][q] \in Nat
                           /\ q \in session[p] /\ owner[q] = p =>
                                /\ committed[q] <= marked[p][q]
                                /\ marked[p][q] <= Len(input[q])
    BY DEF TypeOK, OffsetInv
  <2>2. committed'[q] \in committed[q]..Len(input[q])
    BY <2>1, CommitSource
  <2>3. \A i \in (committed[q] + 1)..committed'[q] :
          i \in 1..committed'[q] /\ i \in 1..Len(input[q])
    BY <2>1, <2>2
  <2>4. QED
    BY <2>2, <2>3, SafeIsSettled
<1>4. Node!Commit
  BY <1>1, <1>2, <1>3 DEF Node!Commit
<1>5. QED
  BY <1>4 DEF Node!Next

\* A send appends one result, made of records that have arrived, to one topic.
LEMMA DeliverImplements ==
  ASSUME TypeOK, ArrivalInv, UNCHANGED <<input, committed, joinState>>,
         NEW p \in Pods, NEW t \in Threads, task[p][t].stage = "publish",
         task[p][t].sent < NumOutputs, out' = Sent(p, t)
  PROVE  Node!Next
<1> DEFINE c == task[p][t].corr
           d == task[p][t].data
           n == task[p][t].sent + 1
           R == {r \in Envelope : r.corr = c /\ d[r.source] = r.event}
<1>1. task[p][t] \in BusyTask
  BY BusyType
<1>2. n \in Topics
  BY <1>1, ConstantsAssumption DEF BusyTask, Topics
<1>3. \A k \in Topics : out'[k] = IF k = n THEN out[k] \cup {[corr |-> c, data |-> d]} ELSE out[k]
  BY <1>2 DEF Sent, TypeOK
<1>4. HasArrived(c, d)
  BY DEF ArrivalInv
<1> HIDE DEF c, d, n
<1>5. R \subseteq Node!Arrived
  <2> SUFFICES ASSUME NEW r \in R PROVE r \in Node!Arrived
    OBVIOUS
  <2>1. /\ r.source \in Sources /\ r.event \in Events
        /\ r = [corr |-> c, source |-> r.source, event |-> d[r.source]]
    BY DEF Envelope
  <2>2. d[r.source] # NoEvent
    BY <2>1, ConstantsAssumption
  <2>3. InTopic(r)
    BY <1>4, <2>1, <2>2 DEF HasArrived
  <2>4. QED
    BY <2>3 DEF InTopic, Node!Arrived
<1>6. \A k \in Topics : Delivered(k)' = IF k = n THEN Delivered(k) \cup R ELSE Delivered(k)
  <2> SUFFICES ASSUME NEW k \in Topics
               PROVE  Delivered(k)' = IF k = n THEN Delivered(k) \cup R ELSE Delivered(k)
    OBVIOUS
  <2>1. CASE k # n
    BY <1>3, <2>1 DEF Delivered
  <2>2. CASE k = n
    <3>1. out'[k] = out[k] \cup {[corr |-> c, data |-> d]}
      BY <1>3, <2>2
    <3> DEFINE rec == [corr |-> c, data |-> d]
    <3>2. rec.corr = c /\ rec.data = d
      OBVIOUS
    <3> HIDE DEF rec
    <3>3. ASSUME NEW r \in Envelope
          PROVE  (\E o \in out'[k] : o.corr = r.corr /\ o.data[r.source] = r.event) <=>
                 \/ \E o \in out[k] : o.corr = r.corr /\ o.data[r.source] = r.event
                 \/ r.corr = c /\ d[r.source] = r.event
      <4>1. out'[k] = out[k] \cup {rec}
        BY <3>1 DEF rec
      <4>2. QED
        BY <3>2, <4>1
    <3>4. Delivered(k)' = Delivered(k) \cup R
      BY <3>3 DEF Delivered
    <3>5. QED
      BY <2>2, <3>4
  <2>3. QED
    BY <2>1, <2>2
<1>7. [k \in Topics |-> Delivered(k)]'
        = [[k \in Topics |-> Delivered(k)] EXCEPT ![n] = @ \cup R]
  BY <1>2, <1>6
<1>8. Node!Deliver(n)
  <2>1. UNCHANGED <<input, committed, Held>>
    BY HeldSame
  <2> HIDE DEF R
  <2>2. QED
    BY <1>5, <1>7, <2>1 DEF Node!Deliver
<1>9. QED
  BY <1>2, <1>8 DEF Node!Next

\* The contributions of an entry that was published everywhere are delivered.
LEMMA HeldIsDelivered ==
  ASSUME NEW c, PublishedEverywhere(c, joinState[c]), NEW x \in Held, x.corr = c
  PROVE  Node!DeliveredEverywhere(x)
<1> DEFINE rec == [corr |-> c, data |-> joinState[c]]
<1>1. x \in Envelope /\ joinState[c][x.source] = x.event
  BY DEF Held
<1>2. rec.corr = x.corr /\ rec.data[x.source] = x.event
  BY <1>1
<1>3. \A k \in Topics : rec \in out[k]
  BY DEF PublishedEverywhere
<1> HIDE DEF rec
<1>4. \A k \in Topics : x \in Delivered(k)
  BY <1>1, <1>2, <1>3 DEF Delivered
<1>5. QED
  BY <1>4 DEF Node!DeliveredEverywhere

\* Recording a message holds it; the rest of a join that was published already and
\* whose tombstone was lost is left behind.
LEMMA HoldImplements ==
  ASSUME JoinNode, BaseInv, FanInInv, UNCHANGED <<input, committed, out>>,
         NEW p \in Pods, NEW q \in Partitions, Deliverable(p, q),
         joinState' = [joinState EXCEPT ![input[q][pos[p][q] + 1].corr] =
                         Joined(p, input[q][pos[p][q] + 1])]
  PROVE  Node!Next
<1> DEFINE i   == pos[p][q] + 1
           env == input[q][i]
           c   == env.corr
           J   == joins[p][c]
           D   == IF J = joinState[c] THEN {} ELSE {x \in Held : x.corr = c}
<1> USE DEF BaseInv
<1>1. env \in Envelope
  BY JoinedType
<1>2. /\ c \in Corr /\ env.source \in Sources /\ env.event \in Events
      /\ env = [corr |-> c, source |-> env.source, event |-> env.event]
  BY <1>1 DEF Envelope
<1>3. i \in (committed[q] + 1)..Len(input[q]) /\ PartitionOf[c] \in replayed[p]
  <2>1. /\ pos[p][q] \in Nat /\ committed[q] \in Nat /\ Len(input[q]) \in Nat
        /\ pos[p][q] < Len(input[q]) /\ q \in session[p]
    BY DEF Deliverable, TypeOK
  <2>2. committed[q] <= pos[p][q]
    BY <2>1 DEF FanInInv, ClaimsSafe
  <2>3. replayed[p] = Partitions
    BY <2>1 DEF OffsetInv, FanInInv, HydratesFirst
  <2>4. QED
    BY <1>2, <2>1, <2>2, <2>3, ConstantsAssumption
<1>4. joinState' = [joinState EXCEPT ![c] = [J EXCEPT ![env.source] = env.event]]
  BY DEF Joined
<1> HIDE DEF env, i
<1>5. J \in Received /\ (J = joinState[c] \/ (J = NoJoin /\ PublishedEverywhere(c, joinState[c])))
  BY <1>2, <1>3 DEF FanInInv, BufferMatchesChangelog, TypeOK
<1> HIDE DEF c, J
<1>6. ASSUME NEW x \in Envelope
      PROVE  joinState'[x.corr][x.source] =
               IF x.corr = c THEN IF x.source = env.source THEN env.event ELSE J[x.source]
               ELSE joinState[x.corr][x.source]
  <2>1. x.corr \in Corr /\ x.source \in Sources
    BY DEF Envelope
  <2>2. joinState'[x.corr] = IF x.corr = c THEN [J EXCEPT ![env.source] = env.event]
                             ELSE joinState[x.corr]
    BY <1>4, <2>1 DEF TypeOK
  <2>3. [J EXCEPT ![env.source] = env.event][x.source]
          = IF x.source = env.source THEN env.event ELSE J[x.source]
    BY <1>5, <2>1 DEF Received
  <2> DEFINE N == [J EXCEPT ![env.source] = env.event]
  <2>4. CASE x.corr = c
    <3>1. /\ joinState'[x.corr] = N
          /\ N[x.source] = IF x.source = env.source THEN env.event ELSE J[x.source]
      BY <2>2, <2>3, <2>4
    <3> HIDE DEF N
    <3>2. QED
      BY <2>4, <3>1
  <2>5. CASE x.corr # c
    BY <2>2, <2>5
  <2>6. QED
    BY <2>4, <2>5
<1>7. D \subseteq {x \in Held : Node!DeliveredEverywhere(x)}
  BY <1>5, HeldIsDelivered
<1>8. ASSUME NEW x \in Envelope
      PROVE  x \in Held' <=> \/ x \in Held \ D /\ ~Node!SameContribution(x, env)
                             \/ x = env
  <2>1. /\ x.event \in Events
        /\ x = env <=> x.corr = c /\ x.source = env.source /\ x.event = env.event
    BY <1>2 DEF Envelope
  <2>2. x \in Held <=> joinState[x.corr][x.source] = x.event
    BY DEF Held
  <2>3. x \in Held' <=> joinState'[x.corr][x.source] = x.event
    BY DEF Held
  <2>4. Node!SameContribution(x, env) <=> x.corr = c /\ x.source = env.source
    BY DEF Node!SameContribution, c
  <2>5. CASE x.corr = c /\ x.source = env.source
    BY <1>6, <2>1, <2>3, <2>4, <2>5
  <2>6. CASE x.corr # c
    BY <1>6, <2>1, <2>2, <2>3, <2>4, <2>6
  <2>7. CASE x.corr = c /\ x.source # env.source
    <3>1. x \in Held' <=> J[x.source] = x.event
      BY <1>6, <2>3, <2>7
    <3>2. CASE J = joinState[c]
      BY <2>1, <2>2, <2>4, <2>7, <3>1, <3>2
    <3>3. CASE J # joinState[c]
      <4>1. J[x.source] = NoEvent
        BY <1>5, <3>3 DEF NoJoin, Envelope
      <4>2. x \notin Held'
        BY <2>1, <3>1, <4>1, ConstantsAssumption
      <4>3. QED
        BY <2>1, <2>7, <3>3, <4>2
    <3>4. QED
      BY <3>2, <3>3
  <2>8. QED
    BY <2>5, <2>6, <2>7
<1> HIDE DEF D
<1>9. Held' = {x \in Held \ D : ~Node!SameContribution(x, env)} \cup {env}
  <2>1. Held \subseteq Envelope /\ Held' \subseteq Envelope
    BY DEF Held
  <2>2. QED
    BY <1>1, <1>8, <2>1
<1>10. Node!Hold(q, i)
  <2>1. UNCHANGED <<input, committed, [k \in Topics |-> Delivered(k)]>>
    BY DeliveredSame
  <2>2. QED
    BY <1>7, <1>9, <2>1 DEF Node!Hold, JoinNode, env
<1>11. QED
  BY <1>3, <1>10 DEF Node!Next

\* A tombstone releases contributions that were delivered everywhere.
LEMMA ReleaseImplements ==
  ASSUME BaseInv, FanInInv, UNCHANGED <<input, committed, out>>,
         NEW p \in Pods, NEW t \in Threads, task[p][t].stage = "tombstone",
         joinState' = [joinState EXCEPT ![task[p][t].corr] = NoJoin]
  PROVE  Node!Next
<1> DEFINE c == task[p][t].corr
<1>1. PublishedEverywhere(c, joinState[c])
  <2>1. task[p][t].data = joinState[c] /\ task[p][t].sent = NumOutputs
    BY DEF BaseInv, SentInv, FanInInv, TasksMatchChangelog, TaskMatches, Busy
  <2>2. QED
    BY <2>1, DoneIsPublished DEF BaseInv
<1> HIDE DEF c
<1>2. ASSUME NEW x \in Envelope
      PROVE  x \in Held' <=> x \in Held /\ x.corr # c
  <2>1. x.corr \in Corr /\ x.source \in Sources /\ x.event # NoEvent
    BY ConstantsAssumption DEF Envelope
  <2>2. joinState'[x.corr] = IF x.corr = c THEN NoJoin ELSE joinState[x.corr]
    BY <2>1 DEF BaseInv, TypeOK, c
  <2>3. QED
    BY <2>1, <2>2 DEF Held, NoJoin
<1>3. Held' \subseteq Held /\ \A x \in Held \ Held' : x.corr = c
  BY <1>2 DEF Held
<1>4. \A x \in Held \ Held' : Node!DeliveredEverywhere(x)
  BY <1>1, <1>3, HeldIsDelivered
<1>5. Node!Release
  <2>1. UNCHANGED <<input, committed, [k \in Topics |-> Delivered(k)]>>
    BY DeliveredSame
  <2>2. QED
    BY <1>3, <1>4, <2>1 DEF Node!Release
<1>6. QED
  BY <1>5 DEF Node!Next
-----------------------------------------------------------------------------
\* A straight-through node, with any number of pods, is an AtLeastOnce node: it
\* commits what it has published, and publishes what has arrived.
THEOREM StraightImplements ==
  ASSUME ~IsFanIn
  PROVE  Spec => ImplementsAtLeastOnce
<1> DEFINE IInv == TypeOK /\ OffsetInv /\ SentInv /\ StraightInv /\ ArrivalInv
<1>1. Init => IInv
  <2>1. Init => TypeOK /\ OffsetInv /\ SentInv
    BY FanInInit DEF BaseInv
  <2>2. Init => StraightInv
    BY DEF Init, StraightInv
  <2>3. QED
    BY <2>1, <2>2, ArrivalInit
<1>2. IInv /\ [Next]_vars => IInv'
  BY TypeStep, OffsetStep, SentStep, StraightStep, ArrivalStep
<1>3. IInv /\ IInv' /\ [Next]_vars => [Node!Next]_(Node!vars)
  <2> SUFFICES ASSUME IInv, IInv', [Next]_vars PROVE Node!Next
    OBVIOUS
  <2>1. ASSUME UNCHANGED <<input, joinState, out>> PROVE Node!Next
    <3>1. \A q \in Partitions : \A i \in 1..committed'[q] : RecordPublished(q, i)'
      BY DEF StraightInv
    <3>2. \A q \in Partitions : \A i \in 1..committed'[q] : RecordPublished(q, i)
      BY <2>1, <3>1 DEF RecordPublished, PublishedWith
    <3>3. QED
      BY <2>1, <3>2, CommitImplements
  <2>2. QED
    BY <2>1, StepKinds, ArriveImplements, DeliverImplements
<1>4. QED
  BY <1>1, <1>2, <1>3, InitImplements, PTL DEF Spec, ImplementsAtLeastOnce, Node!Spec

\* A fan-in node with one pod and keyed sources is an AtLeastOnce node: it commits
\* what its changelog holds, and drops from the changelog only what was published
\* or is replaced by a contribution still to be committed.
THEOREM FanInImplements ==
  ASSUME JoinNode
  PROVE  Spec => ImplementsAtLeastOnce
<1> DEFINE IInv == BaseInv /\ FanInInv /\ ArrivalInv
<1>1. Init => IInv
  BY FanInInit, ArrivalInit
<1>2. IInv /\ [Next]_vars => IInv'
  BY TypeStep, OffsetStep, SentStep, FanInStep, ArrivalStep DEF BaseInv
<1>3. IInv /\ IInv' /\ [Next]_vars => [Node!Next]_(Node!vars)
  <2> SUFFICES ASSUME IInv, IInv', [Next]_vars PROVE Node!Next
    OBVIOUS
  <2>1. ASSUME UNCHANGED <<input, joinState, out>> PROVE Node!Next
    <3>1. \A q \in Partitions : \A i \in 1..committed'[q] : ContributionSafe(q, i)'
      BY DEF FanInInv, CommittedSafe
    <3>2. \A q \in Partitions : \A i \in 1..committed'[q] : ContributionSafe(q, i)
      BY <2>1, <3>1 DEF ContributionSafe, RecordPublished, PublishedWith, Superseded
    <3>3. QED
      BY <2>1, <3>2, CommitImplements DEF JoinNode, BaseInv
  <2>2. ASSUME NEW s \in Sources, NEW e \in Events, NEW q \in Partitions,
               UpstreamPublishes(s, e, q)
        PROVE  Node!Next
    BY <2>2, ArriveImplements DEF JoinNode
  <2>3. QED
    BY <2>1, <2>2, StepKinds, DeliverImplements, HoldImplements, ReleaseImplements DEF BaseInv
<1>4. QED
  BY <1>1, <1>2, <1>3, InitImplements, PTL DEF Spec, ImplementsAtLeastOnce, Node!Spec
=============================================================================

----------------------------- MODULE SwarmProofs ----------------------------
(***************************************************************************)
(* What holds of every DAG of nodes, with any number of events, crashes,   *)
(* rebalances and retries: types; no join mixes events (JoinsDoNotMix); at *)
(* rest every event is decided (RestMeansDecided, LeftoversHarmless); and  *)
(* until the first disruption it is decided once and nothing is left over  *)
(* (CleanSwarm).                                                           *)
(*                                                                         *)
(* Coherent is not inductive: a message of two events may be on its way    *)
(* although none has been published.  PureInv follows the data through     *)
(* topics, join buffers and changelogs, by the key it travels under.       *)
(***************************************************************************)
EXTENDS Swarm, TLAPS, FiniteSetTheorems, WellFoundedInduction

-----------------------------------------------------------------------------
(***************************************************************************)
(* Types.                                                                  *)
(***************************************************************************)
Topics  == [Nodes -> [Keys -> Seq(Message)]]
Offsets == [Workers -> [Keys -> Nat]]
Entry   == [Sources -> SUBSET Events]
Entries == [FanIns -> [Ids -> Entry]]

\* No topic loses a record.
TopicsGrow ==
  /\ topic' \in Topics
  /\ \A n \in Nodes, k \in Keys : Len(topic[n][k]) <= Len(topic'[n][k])

\* Publishing appends the result, to the records of its key only.
LEMMA PublishedAppends ==
  ASSUME TypeOK, NEW n \in Nodes, NEW id \in Ids, NEW data \in SUBSET Events, NEW j,
         NEW m \in Nodes, NEW k \in Keys
  PROVE  /\ [source |-> n, data |-> data] \in Message
         /\ \/ Published(n, id, data, j)[m][k] = topic[m][k]
            \/ /\ k = id
               /\ Published(n, id, data, j)[m][k] =
                    Append(topic[m][k], [source |-> n, data |-> data])
<1> DEFINE result == [source |-> n, data |-> data]
<1>1. result \in Message
  BY DEF Message, Sources
<1>2. topic[m] \in [Keys -> Seq(Message)] /\ id \in Keys
  BY DEF TypeOK, Keys
<1>3. Published(n, id, data, j)[m] = topic[m]
        \/ Published(n, id, data, j)[m] = [topic[m] EXCEPT ![id] = Append(topic[m][id], result)]
  BY DEF Published
<1>4. QED
  BY <1>1, <1>2, <1>3

\* Publishing takes nothing out of a topic.
LEMMA PublishedGrows ==
  ASSUME TypeOK, NEW n \in Nodes, NEW id \in Ids, NEW data \in SUBSET Events, NEW j,
         topic' = Published(n, id, data, j)
  PROVE  TopicsGrow
<1>1. ASSUME NEW m \in Nodes, NEW k \in Keys
      PROVE  topic'[m][k] \in Seq(Message) /\ Len(topic[m][k]) <= Len(topic'[m][k])
  <2>1. topic[m][k] \in Seq(Message) /\ Len(topic[m][k]) \in Nat
    BY DEF TypeOK
  <2>2. CASE topic'[m][k] = topic[m][k]
    BY <2>1, <2>2
  <2>3. CASE topic'[m][k] = Append(topic[m][k], [source |-> n, data |-> data])
    BY <2>1, <2>3, PublishedAppends
  <2>4. QED
    BY <2>2, <2>3, PublishedAppends
<1>2. ASSUME NEW m \in Nodes PROVE topic'[m] \in [Keys -> Seq(Message)]
  <2>1. topic[m] \in [Keys -> Seq(Message)]
    BY DEF TypeOK
  <2>2. \E x : topic'[m] = [topic[m] EXCEPT ![id] = x] \/ topic'[m] = topic[m]
    BY DEF Published
  <2>3. QED
    BY <1>1, <2>1, <2>2
<1>3. topic' \in [Nodes -> [Keys -> Seq(Message)]]
  BY <1>2 DEF Published
<1>4. QED
  BY <1>1, <1>3 DEF TopicsGrow, Topics

\* A producer sends a record of the topic again.
Repeats(m, id) ==
  \E i \in 1..Len(topic[m][id]) :
    topic' = [topic EXCEPT ![m][id] = Append(topic[m][id], topic[m][id][i])]

\* It goes to the end of the records of its key, and is one of them.
LEMMA RepeatAppends ==
  ASSUME TypeOK, NEW m \in Nodes, NEW id \in Ids, Repeats(m, id), NEW w \in Nodes, NEW k \in Keys
  PROVE  /\ topic' \in Topics
         /\ \/ topic'[w][k] = topic[w][k]
            \/ k = id /\ \E i \in 1..Len(topic[w][k]) :
                           topic'[w][k] = Append(topic[w][k], topic[w][k][i])
<1>1. PICK i \in 1..Len(topic[m][id]) :
        topic' = [topic EXCEPT ![m][id] = Append(topic[m][id], topic[m][id][i])]
  BY DEF Repeats
<1>2. topic \in Topics /\ id \in Keys
  BY DEF TypeOK, Topics, Keys
<1>3. topic[m][id] \in Seq(Message) /\ topic[m][id][i] \in Message
  BY <1>2 DEF Topics
<1>4. Append(topic[m][id], topic[m][id][i]) \in Seq(Message)
  BY <1>3
<1>5. topic' \in Topics
  BY <1>1, <1>2, <1>4 DEF Topics
<1>6. topic'[w][k] = IF w = m /\ k = id THEN Append(topic[m][id], topic[m][id][i])
                                       ELSE topic[w][k]
  BY <1>1, <1>2 DEF Topics
<1>7. QED
  BY <1>5, <1>6

\* Records stay where they are, and what is there was there before.
LEMMA RepeatRecords ==
  ASSUME TypeOK, NEW m \in Nodes, NEW id \in Ids, Repeats(m, id), NEW w \in Nodes, NEW k \in Keys
  PROVE  /\ Len(topic[w][k]) <= Len(topic'[w][k])
         /\ k \notin Ids => topic'[w][k] = topic[w][k]
         /\ \A i \in 1..Len(topic[w][k]) : topic'[w][k][i] = topic[w][k][i]
         /\ \A i \in 1..Len(topic'[w][k]) :
              \E j \in 1..Len(topic[w][k]) : topic'[w][k][i] = topic[w][k][j]
<1>1. topic[w][k] \in Seq(Message) /\ Len(topic[w][k]) \in Nat
  BY DEF TypeOK
<1>2. CASE topic'[w][k] = topic[w][k]
  BY <1>1, <1>2
<1>3. ASSUME k = id, NEW i \in 1..Len(topic[w][k]),
             topic'[w][k] = Append(topic[w][k], topic[w][k][i])
      PROVE  /\ Len(topic'[w][k]) = Len(topic[w][k]) + 1
             /\ topic'[w][k][Len(topic[w][k]) + 1] = topic[w][k][i]
             /\ \A j \in 1..Len(topic[w][k]) : topic'[w][k][j] = topic[w][k][j]
  <2>1. topic[w][k][i] \in Message
    BY <1>1
  <2>2. QED
    BY <1>1, <1>3, <2>1
<1>4. CASE k = id /\ \E i \in 1..Len(topic[w][k]) :
                       topic'[w][k] = Append(topic[w][k], topic[w][k][i])
  <2>1. PICK i \in 1..Len(topic[w][k]) : topic'[w][k] = Append(topic[w][k], topic[w][k][i])
    BY <1>4
  <2>2. /\ Len(topic'[w][k]) = Len(topic[w][k]) + 1
        /\ topic'[w][k][Len(topic[w][k]) + 1] = topic[w][k][i]
        /\ \A j \in 1..Len(topic[w][k]) : topic'[w][k][j] = topic[w][k][j]
    BY <1>3, <1>4, <2>1
  <2>3. \A j \in 1..Len(topic'[w][k]) : j \in 1..Len(topic[w][k]) \/ j = Len(topic[w][k]) + 1
    BY <1>1, <2>2
  <2>4. \A j \in 1..Len(topic'[w][k]) :
          \E l \in 1..Len(topic[w][k]) : topic'[w][k][j] = topic[w][k][l]
    BY <2>2, <2>3
  <2>5. Len(topic[w][k]) <= Len(topic'[w][k])
    BY <1>1, <2>2
  <2>6. QED
    BY <1>4, <2>2, <2>4, <2>5
<1>5. QED
  BY <1>2, <1>4, RepeatAppends

\* A retry takes nothing out of a topic either ...
LEMMA RepeatGrows ==
  ASSUME TypeOK, NEW m \in Nodes, NEW id \in Ids, Repeats(m, id)
  PROVE  TopicsGrow
<1>1. topic' \in Topics
  <2>1. id \in Keys
    BY DEF Keys
  <2>2. QED
    BY <2>1, RepeatAppends
<1>2. QED
  BY <1>1, RepeatRecords DEF TopicsGrow

\* A retry is a step of this kind.
LEMMA ResendRepeats ==
  ASSUME TypeOK, NEW n, NEW m \in Nodes, NEW id \in Ids, Resend(n, m, id)
  PROVE  Repeats(m, id)
<1>1. topic[m][id] \in Seq(Message)
  BY DEF TypeOK, Keys
<1>2. DOMAIN topic[m][id] = 1..Len(topic[m][id])
  BY <1>1
<1>3. QED
  BY <1>2 DEF Resend, Repeats

\* Nor does a step that publishes nothing.
LEMMA SameTopicsGrow ==
  ASSUME TypeOK, UNCHANGED topic
  PROVE  TopicsGrow
<1>1. \A n \in Nodes, k \in Keys : Len(topic[n][k]) \in Nat
  BY DEF TypeOK
<1>2. QED
  BY <1>1 DEF TopicsGrow, Topics, TypeOK

\* The message in hand and the join it is put into.
LEMMA InHand ==
  ASSUME TypeOK, NEW n \in Workers, NEW k \in Keys, HasNext(n, k)
  PROVE  /\ n \in Nodes /\ pos[n][k] \in Nat /\ pos[n][k] + 1 \in 1..Len(topic[n][k])
         /\ NextOf(n, k) \in Message
         /\ NextOf(n, k).source \in Sources /\ NextOf(n, k).data \in SUBSET Events
         /\ n \in FanIns /\ k \in Ids => joins[n][k] \in Entry /\ Joined(n, k) \in Entry
<1>1. n \in Nodes
  BY SwarmAssumption
<1>2. topic[n][k] \in Seq(Message) /\ pos[n][k] \in Nat
  BY <1>1 DEF TypeOK
<1>3. pos[n][k] + 1 \in 1..Len(topic[n][k])
  BY <1>2 DEF HasNext
<1>4. NextOf(n, k) \in Message
  BY <1>2, <1>3 DEF NextOf
<1>5. NextOf(n, k).source \in Sources /\ NextOf(n, k).data \in SUBSET Events
  BY <1>4 DEF Message
<1>6. n \in FanIns /\ k \in Ids => joins[n][k] \in Entry
  BY DEF TypeOK, Entry
<1>7. joins[n][k] \in Entry => Joined(n, k) \in Entry
  BY <1>5 DEF Joined, Entry
<1>8. QED
  BY <1>1, <1>2, <1>3, <1>4, <1>5, <1>6, <1>7

\* A message a late pod has in hand.
LEMMA LateInHand ==
  ASSUME TypeOK, NEW n \in Workers, NEW k \in Keys, NEW i \in 1..Len(topic[n][k])
  PROVE  n \in Nodes /\ topic[n][k][i].data \in SUBSET Events
<1>1. n \in Nodes
  BY SwarmAssumption
<1>2. topic[n][k] \in Seq(Message)
  BY <1>1 DEF TypeOK
<1>3. topic[n][k][i] \in Message
  BY <1>2
<1>4. QED
  BY <1>1, <1>3 DEF Message

\* Merging brings in no events of its own.
LEMMA MergedType == ASSUME NEW st \in Entry PROVE Merged(st) \in SUBSET Events
BY DEF Merged, Entry

\* A message that is handled is behind the node, and still in its topic.
LEMMA AdvanceType ==
  ASSUME TypeOK, NEW n \in Workers, NEW k \in Keys, HasNext(n, k), Advance(n, k), TopicsGrow
  PROVE  /\ pos' \in Offsets /\ committed' \in Offsets
         /\ \A w \in Workers, l \in Keys : /\ committed'[w][l] <= pos'[w][l]
                                           /\ pos'[w][l] <= Len(topic'[w][l])
<1>1. pos' = [pos EXCEPT ![n][k] = pos[n][k] + 1] /\ committed' = committed
  BY DEF Advance
<1>2. pos \in Offsets /\ committed \in Offsets /\ pos[n][k] \in Nat
  BY DEF TypeOK, Offsets
<1>3. pos' \in Offsets
  BY <1>1, <1>2 DEF Offsets
<1>4. ASSUME NEW w \in Workers, NEW l \in Keys
      PROVE  committed'[w][l] <= pos'[w][l] /\ pos'[w][l] <= Len(topic'[w][l])
  <2>1. /\ Len(topic[w][l]) \in Nat /\ Len(topic'[w][l]) \in Nat
        /\ Len(topic[w][l]) <= Len(topic'[w][l])
    <3>1. w \in Nodes
      BY SwarmAssumption
    <3>2. topic[w][l] \in Seq(Message) /\ topic'[w][l] \in Seq(Message)
      BY <3>1 DEF TopicsGrow, Topics, TypeOK
    <3>3. QED
      BY <3>1, <3>2 DEF TopicsGrow
  <2>2. committed[w][l] \in Nat /\ pos[w][l] \in Nat
    BY <1>2 DEF Offsets
  <2>3. committed[w][l] <= pos[w][l] /\ pos[w][l] <= Len(topic[w][l])
    BY DEF TypeOK
  <2>4. pos'[w][l] = IF w = n /\ l = k THEN pos[w][l] + 1 ELSE pos[w][l]
    BY <1>1, <1>2 DEF Offsets
  <2>5. QED
    BY <1>1, <2>1, <2>2, <2>3, <2>4 DEF HasNext
<1>5. QED
  BY <1>1, <1>2, <1>3, <1>4

\* A resumed session goes on from offsets that exist.
LEMMA ResumeType ==
  ASSUME TypeOK, NEW n \in Workers, NEW marked \in [Keys -> Nat], ResumeFrom(n, marked),
         TopicsGrow,
         \A k \in Keys : marked[k] <= Len(topic[n][k])
  PROVE  /\ pos' \in Offsets /\ committed' \in Offsets
         /\ disruptions' \in 0..MaxDisruptions
         /\ \A w \in Workers, l \in Keys : /\ committed'[w][l] <= pos'[w][l]
                                           /\ pos'[w][l] <= Len(topic'[w][l])
<1> DEFINE open == {k \in Keys : committed[n][k] < marked[k]}
<1>1. PICK r \in [open -> UNION {committed[n][k]..marked[k] : k \in open}] :
        /\ \A k \in open : committed[n][k] <= r[k] /\ r[k] <= marked[k]
        /\ pos' = [pos EXCEPT ![n] = [k \in Keys |-> IF k \in open THEN r[k] ELSE marked[k]]]
  BY DEF ResumeFrom
<1>2. pos \in Offsets /\ committed \in Offsets
  BY DEF TypeOK, Offsets
<1>3. ASSUME NEW k \in open PROVE r[k] \in Nat
  <2>1. PICK l \in open : r[k] \in committed[n][l]..marked[l]
    BY <1>1
  <2>2. committed[n][l] \in Nat /\ marked[l] \in Nat
    BY <1>2 DEF Offsets
  <2>3. QED
    BY <2>1, <2>2
<1>4. ASSUME NEW k \in Keys
      PROVE  pos'[n][k] \in Nat /\ pos'[n][k] <= marked[k]
  BY <1>1, <1>2, <1>3 DEF Offsets
<1>5. pos'[n] \in [Keys -> Nat] /\ \A w \in Workers : w # n => pos'[w] = pos[w]
  BY <1>1, <1>2, <1>3 DEF Offsets
<1>6. pos' \in Offsets
  <2>1. pos' = [pos EXCEPT ![n] = pos'[n]]
    BY <1>1, <1>2 DEF Offsets
  <2>2. QED
    BY <1>2, <1>5, <2>1 DEF Offsets
<1>7. committed' = [committed EXCEPT ![n] = pos'[n]]
  BY DEF ResumeFrom
<1>8. committed' \in Offsets
  BY <1>2, <1>5, <1>7 DEF Offsets
<1>9. ASSUME NEW w \in Workers, NEW l \in Keys
      PROVE  committed'[w][l] <= pos'[w][l] /\ pos'[w][l] <= Len(topic'[w][l])
  <2>1. /\ Len(topic[w][l]) \in Nat /\ Len(topic'[w][l]) \in Nat
        /\ Len(topic[w][l]) <= Len(topic'[w][l])
    <3>1. w \in Nodes
      BY SwarmAssumption
    <3>2. topic[w][l] \in Seq(Message) /\ topic'[w][l] \in Seq(Message)
      BY <3>1 DEF TopicsGrow, Topics, TypeOK
    <3>3. QED
      BY <3>1, <3>2 DEF TopicsGrow
  <2>2. pos'[w][l] \in Nat /\ pos[w][l] \in Nat /\ committed[w][l] \in Nat
    BY <1>2, <1>6 DEF Offsets
  <2>3. CASE w = n
    <3>1. committed'[w][l] = pos'[w][l]
      BY <1>2, <1>7, <2>3 DEF Offsets
    <3>2. QED
      BY <1>4, <2>1, <2>2, <2>3, <3>1
  <2>4. CASE w # n
    <3>1. committed'[w][l] = committed[w][l] /\ pos'[w][l] = pos[w][l]
      BY <1>2, <1>5, <1>7, <2>4 DEF Offsets
    <3>2. QED
      BY <2>1, <2>2, <3>1 DEF TypeOK
  <2>5. QED
    BY <2>3, <2>4
<1>10. disruptions' \in 0..MaxDisruptions
  BY SwarmAssumption DEF ResumeFrom, Disrupt, TypeOK
<1>11. QED
  BY <1>6, <1>8, <1>9, <1>10

\* completeCorrelation writes well-typed state.
LEMMA CompleteJoinType ==
  ASSUME TypeOK, NEW n \in FanIns, NEW id \in Ids, NEW st \in Entry, CompleteJoin(n, id, st)
  PROVE  /\ TopicsGrow /\ joins' \in Entries /\ changelog' \in Entries
         /\ disruptions' \in 0..MaxDisruptions
<1>1. n \in Workers /\ n \in Nodes
  BY SwarmAssumption DEF FanIns
<1>2. TopicsGrow
  BY <1>1, MergedType, PublishedGrows DEF CompleteJoin, PublishedToAll
<1>3. NoJoin \in Entry
  BY DEF NoJoin, Entry
<1>4. joins' \in Entries /\ changelog' \in Entries
  <2>1. joins \in Entries /\ changelog \in Entries
    BY DEF TypeOK, Entries, Entry
  <2>2. joins' \in Entries
    BY <1>3, <2>1 DEF CompleteJoin, Forgotten, Entries
  <2>3. \E x \in Entry : changelog' = [changelog EXCEPT ![n][id] = x]
    BY <1>3 DEF CompleteJoin
  <2>4. changelog' \in Entries
    BY <2>1, <2>3 DEF Entries
  <2>5. QED
    BY <2>2, <2>4
<1>5. disruptions' \in 0..MaxDisruptions
  BY SwarmAssumption DEF CompleteJoin, Disrupt, TypeOK
<1>6. QED
  BY <1>2, <1>4, <1>5

\* Every step of every node keeps the types.
LEMMA TypeStep == TypeOK /\ [Next]_vars => TypeOK'
<1> SUFFICES ASSUME TypeOK, [Next]_vars PROVE TypeOK'
  OBVIOUS
<1>0. \A id \in Ids : id \in Keys
  BY DEF Keys
<1>00. \A n \in FanIns : n \in Workers
  BY DEF FanIns
<1>1. ASSUME NEW n \in Roots, NEW e \in Events, Submit(n, e) PROVE TypeOK'
  <2>1. n \in Nodes /\ e \in Keys /\ [source |-> Outside, data |-> {e}] \in Message
    BY SwarmAssumption DEF Roots, Keys, Message, Sources
  <2>2. topic' \in Topics
    BY <1>1, <2>1 DEF Submit, TypeOK, Topics
  <2>3. ASSUME NEW w \in Workers, NEW k \in Keys
        PROVE  committed[w][k] <= pos[w][k] /\ pos[w][k] <= Len(topic'[w][k])
    <3>1. w \in Nodes
      BY SwarmAssumption
    <3>2. CASE w = n /\ k = e
      <4>1. topic[w][k] = <<>> /\ Len(topic'[w][k]) = 1
        BY <1>1, <2>1, <3>1, <3>2 DEF Submit, TypeOK
      <4>2. pos[w][k] \in Nat /\ pos[w][k] <= Len(topic[w][k]) /\ committed[w][k] <= pos[w][k]
        BY DEF TypeOK
      <4>3. QED
        BY <4>1, <4>2
    <3>3. CASE ~(w = n /\ k = e)
      BY <1>1, <2>1, <3>1, <3>3 DEF Submit, TypeOK
    <3>4. QED
      BY <3>2, <3>3
  <2>4. QED
    BY <1>1, <2>2, <2>3 DEF Submit, TypeOK, Topics
<1>2. ASSUME NEW n \in Workers, NEW k \in Keys, HandleStraight(n, k) PROVE TypeOK'
  <2>1. PICK id \in CorrelationIds(k) : topic' = PublishedToAll(n, id, NextOf(n, k).data)
    BY <1>2 DEF HandleStraight
  <2>2. id \in Ids
    BY SwarmAssumption DEF CorrelationIds, Keys
  <2>3. TopicsGrow
    BY <1>2, <2>1, <2>2, InHand, PublishedGrows DEF HandleStraight, PublishedToAll
  <2>4. QED
    BY <1>2, <2>3, AdvanceType DEF HandleStraight, TypeOK, TopicsGrow, Topics, Offsets
<1>3. ASSUME NEW n \in FanIns, NEW id \in Ids, HandlePartial(n, id) PROVE TypeOK'
  <2>1. TopicsGrow /\ Joined(n, id) \in Entry
    BY <1>0, <1>00, <1>3, InHand, SameTopicsGrow DEF HandlePartial
  <2>2. joins' \in Entries /\ changelog' \in Entries
    BY <1>3, <2>1 DEF HandlePartial, TypeOK, Entries, Entry
  <2>3. QED
    BY <1>0, <1>00, <1>3, <2>1, <2>2, AdvanceType
       DEF HandlePartial, TypeOK, TopicsGrow, Topics, Offsets, Entries, Entry
<1>4. ASSUME NEW n \in FanIns, NEW id \in Ids, HandleComplete(n, id) PROVE TypeOK'
  <2>1. Joined(n, id) \in Entry
    BY <1>0, <1>00, <1>4, InHand DEF HandleComplete
  <2>2. /\ TopicsGrow /\ joins' \in Entries /\ changelog' \in Entries
        /\ disruptions' \in 0..MaxDisruptions
    BY <1>4, <2>1, CompleteJoinType DEF HandleComplete
  <2>3. QED
    BY <1>0, <1>00, <1>4, <2>2, AdvanceType
       DEF HandleComplete, TypeOK, TopicsGrow, Topics, Offsets, Entries, Entry
<1>5. ASSUME NEW n \in FanIns, NEW id \in Ids, Recover(n, id) PROVE TypeOK'
  <2>1. joins[n][id] \in Entry
    BY DEF TypeOK, Entry
  <2>2. /\ TopicsGrow /\ joins' \in Entries /\ changelog' \in Entries
        /\ disruptions' \in 0..MaxDisruptions
    BY <1>5, <2>1, CompleteJoinType DEF Recover
  <2>3. ASSUME NEW w \in Workers, NEW k \in Keys
        PROVE  committed'[w][k] <= pos'[w][k] /\ pos'[w][k] <= Len(topic'[w][k])
    <3>1. w \in Nodes
      BY SwarmAssumption
    <3>2. topic[w][k] \in Seq(Message) /\ topic'[w][k] \in Seq(Message) /\ pos[w][k] \in Nat
      BY <2>2, <3>1 DEF TopicsGrow, Topics, TypeOK
    <3>3. pos[w][k] <= Len(topic[w][k]) /\ committed[w][k] <= pos[w][k]
      BY DEF TypeOK
    <3>4. Len(topic[w][k]) <= Len(topic'[w][k])
      BY <2>2, <3>1 DEF TopicsGrow
    <3>5. QED
      BY <1>5, <3>2, <3>3, <3>4 DEF Recover
  <2>4. QED
    BY <1>5, <2>2, <2>3 DEF Recover, TypeOK, TopicsGrow, Topics, Entries, Entry
<1>6. ASSUME NEW n \in Workers, NEW marked \in [Keys -> Nat], RestartFrom(n, marked),
             TopicsGrow, changelog' \in Entries, \A k \in Keys : marked[k] <= Len(topic[n][k])
      PROVE  TypeOK'
  <2>1. joins' \in Entries
    BY <1>6 DEF RestartFrom, TypeOK, Entries, Entry
  <2>2. ResumeFrom(n, marked)
    BY <1>6 DEF RestartFrom
  <2>3. QED
    BY <1>6, <2>1, <2>2, ResumeType DEF TypeOK, TopicsGrow, Topics, Offsets, Entries, Entry
<1>7. ASSUME NEW n \in Workers
      PROVE  pos[n] \in [Keys -> Nat] /\ \A k \in Keys : pos[n][k] <= Len(topic[n][k])
  BY DEF TypeOK
<1>8. changelog \in Entries
  BY DEF TypeOK, Entries, Entry
<1>9. ASSUME NEW n \in Workers, NEW k \in Keys, CrashStraight(n, k) PROVE TypeOK'
  <2>1. PICK id \in CorrelationIds(k), j \in 0..Len(NodeOrder) :
          topic' = Published(n, id, NextOf(n, k).data, j)
    BY <1>9 DEF CrashStraight
  <2>2. id \in Ids
    BY SwarmAssumption DEF CorrelationIds, Keys
  <2>3. TopicsGrow
    BY <1>9, <2>1, <2>2, InHand, PublishedGrows DEF CrashStraight
  <2>4. QED
    BY <1>6, <1>7, <1>8, <1>9, <2>3 DEF CrashStraight, StraightMark
<1>10. ASSUME NEW n \in FanIns, NEW id \in Ids, CrashJoin(n, id) PROVE TypeOK'
  <2>1. n \in Workers /\ n \in Nodes /\ id \in Keys /\ HasNext(n, id)
    BY <1>0, <1>00, <1>10, SwarmAssumption DEF CrashJoin
  <2>2. Joined(n, id) \in Entry /\ pos[n][id] + 1 \in 1..Len(topic[n][id]) /\ pos[n][id] \in Nat
    BY <2>1, InHand
  <2>3. TopicsGrow
    BY <1>10, <2>1, <2>2, MergedType, PublishedGrows DEF CrashJoin
  <2>4. changelog' \in Entries
    BY <1>10, <2>2 DEF CrashJoin, TypeOK, Entries, Entry
  <2> DEFINE marked == [pos[n] EXCEPT ![id] = pos[n][id] + 1]
  <2>5. marked \in [Keys -> Nat] /\ \A k \in Keys : marked[k] <= Len(topic[n][k])
    BY <1>7, <2>1, <2>2
  <2>6. RestartFrom(n, marked)
    BY <1>10 DEF CrashJoin
  <2>7. QED
    BY <1>6, <2>1, <2>3, <2>4, <2>5, <2>6
<1>11. ASSUME NEW n \in FanIns, NEW id \in Ids, CrashRecovering(n, id) PROVE TypeOK'
  <2>1. n \in Workers /\ n \in Nodes /\ joins[n][id] \in Entry
    BY <1>00, SwarmAssumption DEF TypeOK, Entry
  <2>2. TopicsGrow
    BY <1>11, <2>1, MergedType, PublishedGrows DEF CrashRecovering
  <2>3. QED
    BY <1>6, <1>7, <1>8, <1>11, <2>1, <2>2 DEF CrashRecovering
<1>12. ASSUME NEW n \in Workers, CrashIdle(n) PROVE TypeOK'
  BY <1>6, <1>7, <1>8, <1>12, SameTopicsGrow DEF CrashIdle
<1>13. CASE UNCHANGED vars
  BY <1>13 DEF vars, TypeOK
<1>14. ASSUME NEW n \in Workers, Rebalance(n) PROVE TypeOK'
  <2>1. /\ ResumeFrom(n, pos[n])
        /\ UNCHANGED <<topic, joins, changelog>>
    BY <1>14 DEF Rebalance
  <2>2. QED
    BY <1>7, <2>1, SameTopicsGrow, ResumeType DEF TypeOK, Topics, TopicsGrow, Offsets
<1>15. ASSUME TopicsGrow, Disrupt, UNCHANGED <<pos, committed, joins, changelog>> PROVE TypeOK'
  <2>1. disruptions' \in 0..MaxDisruptions
    BY <1>15, SwarmAssumption DEF Disrupt, TypeOK
  <2>2. ASSUME NEW w \in Workers, NEW k \in Keys PROVE pos[w][k] <= Len(topic'[w][k])
    <3>1. w \in Nodes
      BY SwarmAssumption
    <3>2. topic[w][k] \in Seq(Message) /\ topic'[w][k] \in Seq(Message) /\ pos[w][k] \in Nat
      BY <1>15, <3>1 DEF TopicsGrow, Topics, TypeOK
    <3>3. pos[w][k] <= Len(topic[w][k]) /\ Len(topic[w][k]) <= Len(topic'[w][k])
      BY <1>15, <3>1 DEF TopicsGrow, TypeOK
    <3>4. QED
      BY <3>2, <3>3
  <2>3. QED
    BY <1>15, <2>1, <2>2 DEF TypeOK, TopicsGrow, Topics
<1>16. ASSUME NEW n \in Workers, NEW k \in Keys, PublishLate(n, k) PROVE TypeOK'
  <2>1. PICK i \in 1..Len(topic[n][k]), id \in CorrelationIds(k), j \in 1..Len(NodeOrder) :
          topic' = Published(n, id, topic[n][k][i].data, j)
    BY <1>16 DEF PublishLate
  <2>2. id \in Ids
    BY SwarmAssumption DEF CorrelationIds, Keys
  <2>3. TopicsGrow
    BY <2>1, <2>2, LateInHand, PublishedGrows
  <2>4. QED
    BY <1>15, <1>16, <2>3 DEF PublishLate
<1>17. ASSUME NEW n \in Workers, NEW m \in Nodes, NEW id \in Ids, Resend(n, m, id) PROVE TypeOK'
  <2>1. Repeats(m, id)
    BY <1>17, ResendRepeats
  <2>2. TopicsGrow
    BY <2>1, RepeatGrows
  <2>3. QED
    BY <1>15, <1>17, <2>2 DEF Resend
<1>18. ASSUME NEW n \in Workers, Redelivery(n) PROVE TypeOK'
  BY <1>14, <1>16, <1>17, <1>18 DEF Redelivery
<1>19. ASSUME NEW n \in Workers, Work(n) \/ Crash(n) PROVE TypeOK'
  BY <1>2, <1>3, <1>4, <1>5, <1>9, <1>10, <1>11, <1>12, <1>19 DEF Work, Crash
<1>20. QED
  BY <1>1, <1>13, <1>18, <1>19 DEF Next

\* SwarmTypeCorrect: in every DAG, offsets stay within the topics: no node commits
\* past what it handled or handles what was never published.
THEOREM SwarmTypeCorrect == Spec => []TypeOK
<1>1. ASSUME Init PROVE TypeOK
  <2>1. NoJoin \in Entry
    BY DEF NoJoin, Entry
  <2>2. \A w \in Workers : w \in Nodes
    BY SwarmAssumption
  <2>3. topic \in Topics /\ \A n \in Nodes, k \in Keys : Len(topic[n][k]) = 0
    BY <1>1 DEF Init, Topics
  <2>4. pos \in Offsets /\ committed = pos /\ \A w \in Workers, k \in Keys : pos[w][k] = 0
    BY <1>1 DEF Init, Offsets
  <2>5. joins \in Entries /\ changelog \in Entries
    BY <1>1, <2>1 DEF Init, Entries
  <2>6. disruptions \in 0..MaxDisruptions
    BY <1>1, SwarmAssumption DEF Init
  <2>7. QED
    BY <2>2, <2>3, <2>4, <2>5, <2>6 DEF TypeOK, Topics, Offsets, Entries, Entry
<1>2. QED
  BY <1>1, TypeStep, PTL DEF Spec
-----------------------------------------------------------------------------
(***************************************************************************)
(* No join mixes events.                                                   *)
(***************************************************************************)

\* No two payloads may be given the same correlation ID.
DistinctIds ==
  \A e, f \in Events : e # f => MintedIds[e] \cap MintedIds[f] = {}

\* Data of one event, under the event's own key or an ID it may be given.
Pure(k, data) == \E e \in Events : data = {e} /\ (k = e \/ (k \in Ids /\ k \in MintedIds[e]))

TopicsPure ==
  \A n \in Nodes, k \in Keys : \A i \in 1..Len(topic[n][k]) : Pure(k, topic[n][k][i].data)

PureEntry(id, st) == \A s \in Sources : st[s] = {} \/ Pure(id, st[s])

EntriesPure ==
  \A n \in FanIns, id \in Ids : PureEntry(id, joins[n][id]) /\ PureEntry(id, changelog[n][id])

PureInv == TopicsPure /\ EntriesPure

\* What is published under an ID its event may have leaves the topics pure.
LEMMA PublishedPure ==
  ASSUME TypeOK, TopicsPure, NEW n \in Nodes, NEW id \in Ids, NEW data \in SUBSET Events, NEW j,
         topic' = Published(n, id, data, j), Pure(id, data)
  PROVE  TopicsPure'
<1>1. ASSUME NEW m \in Nodes, NEW k \in Keys, NEW i \in 1..Len(topic'[m][k])
      PROVE  Pure(k, topic'[m][k][i].data)
  <2> DEFINE result == [source |-> n, data |-> data]
  <2>0. result \in Message
    BY PublishedAppends
  <2>1. topic[m][k] \in Seq(Message) /\ Len(topic[m][k]) \in Nat /\ result \in Message
    BY <2>0 DEF TypeOK
  <2>2. CASE topic'[m][k] = topic[m][k]
    BY <1>1, <2>2 DEF TopicsPure
  <2>3. CASE k = id /\ topic'[m][k] = Append(topic[m][k], result)
    <3>1. CASE i \in 1..Len(topic[m][k])
      <4>1. topic'[m][k][i] = topic[m][k][i]
        BY <2>1, <2>3, <3>1
      <4>2. QED
        BY <3>1, <4>1 DEF TopicsPure
    <3>2. CASE i = Len(topic[m][k]) + 1
      <4>1. topic'[m][k][i] = result
        BY <2>1, <2>3, <3>2
      <4>2. QED
        BY <2>3, <4>1
    <3>3. QED
      BY <1>1, <2>1, <2>3, <3>1, <3>2
  <2>4. QED
    BY <2>2, <2>3, PublishedAppends
<1>2. QED
  BY <1>1 DEF TopicsPure

\* The message in hand is pure, and so is the join it is put into.
LEMMA InHandPure ==
  ASSUME TypeOK, PureInv, NEW n \in Workers, NEW k \in Keys, HasNext(n, k)
  PROVE  /\ Pure(k, NextOf(n, k).data)
         /\ n \in FanIns /\ k \in Ids => PureEntry(k, Joined(n, k))
<1>1. Pure(k, NextOf(n, k).data)
  BY InHand DEF PureInv, TopicsPure, NextOf
<1>2. ASSUME n \in FanIns, k \in Ids, NEW s \in Sources
      PROVE  Joined(n, k)[s] = {} \/ Pure(k, Joined(n, k)[s])
  <2>1. joins[n][k] \in Entry /\ (joins[n][k][s] = {} \/ Pure(k, joins[n][k][s]))
    BY <1>2, InHand DEF PureInv, EntriesPure, PureEntry
  <2>2. Joined(n, k)[s] = IF s = NextOf(n, k).source THEN NextOf(n, k).data ELSE joins[n][k][s]
    BY <2>1 DEF Joined, Entry
  <2>3. QED
    BY <1>1, <2>1, <2>2
<1>3. QED
  BY <1>1, <1>2 DEF PureEntry

\* A complete join has contributions, since a fan-in node has dependencies ...
LEMMA CompleteHas ==
  ASSUME NEW n \in FanIns, NEW st, Complete(n, st)
  PROVE  Have(st) # {}
<1>1. Len(DependsOn[n]) \in Nat /\ Len(DependsOn[n]) > 1
  BY SwarmAssumption DEF FanIns
<1>2. Cardinality({}) = 0
  BY FS_EmptySet
<1>3. QED
  BY <1>1, <1>2 DEF Complete

\* ... and all of them stem from the one event that may have the ID.
LEMMA MergedPure ==
  ASSUME DistinctIds, NEW id \in Ids, NEW st \in Entry, PureEntry(id, st), Have(st) # {}
  PROVE  Pure(id, Merged(st))
<1>1. PICK s \in Sources : st[s] # {}
  BY DEF Have
<1>2. PICK e \in Events : st[s] = {e} /\ (id = e \/ id \in MintedIds[e])
  BY <1>1 DEF PureEntry, Pure
<1>3. id \notin Events
  BY SwarmAssumption
<1>4. ASSUME NEW t \in Sources PROVE st[t] \subseteq {e}
  <2>1. CASE st[t] = {}
    BY <2>1
  <2>2. CASE Pure(id, st[t])
    <3>1. PICK f \in Events : st[t] = {f} /\ (id = f \/ id \in MintedIds[f])
      BY <2>2 DEF Pure
    <3>2. f = e
      BY <1>2, <1>3, <3>1 DEF DistinctIds
    <3>3. QED
      BY <3>1, <3>2
  <2>3. QED
    BY <2>1, <2>2 DEF PureEntry
<1>5. Merged(st) = {e}
  BY <1>2, <1>4 DEF Merged
<1>6. QED
  BY <1>2, <1>3, <1>5 DEF Pure

\* The ID a straight-through node publishes under is one the event may have.
LEMMA CorrelationPure ==
  ASSUME NEW k \in Keys, NEW data, Pure(k, data), NEW id \in CorrelationIds(k)
  PROVE  id \in Ids /\ Pure(id, data)
<1>1. CASE k \in Ids
  BY <1>1 DEF CorrelationIds
<1>2. CASE k \notin Ids
  <2>1. PICK e \in Events : data = {e} /\ k = e
    BY <1>2 DEF Pure
  <2>2. id \in MintedIds[e] /\ id \in Ids
    BY <1>2, <2>1, SwarmAssumption DEF CorrelationIds
  <2>3. QED
    BY <2>1, <2>2 DEF Pure
<1>3. QED
  BY <1>1, <1>2

\* No step mixes events.
LEMMA PureStep ==
  ASSUME DistinctIds, TypeOK, PureInv, [Next]_vars
  PROVE  PureInv'
<1> USE DEF PureInv
<1>0. (\A id \in Ids : id \in Keys) /\ \A n \in FanIns : n \in Workers /\ n \in Nodes
  BY SwarmAssumption DEF Keys, FanIns
<1>1. ASSUME NEW n \in Roots, NEW e \in Events, Submit(n, e) PROVE PureInv'
  <2>1. ASSUME NEW m \in Nodes, NEW k \in Keys, NEW i \in 1..Len(topic'[m][k])
        PROVE  Pure(k, topic'[m][k][i].data)
    <3>1. n \in Nodes /\ e \in Keys
      BY SwarmAssumption DEF Roots, Keys
    <3>2. CASE m = n /\ k = e
      <4>1. topic'[m][k] = <<[source |-> Outside, data |-> {e}]>>
        BY <1>1, <3>1, <3>2 DEF Submit, TypeOK
      <4>2. topic'[m][k][i].data = {e}
        BY <2>1, <4>1
      <4>3. QED
        BY <3>2, <4>2 DEF Pure
    <3>3. CASE ~(m = n /\ k = e)
      <4>1. topic'[m][k] = topic[m][k]
        BY <1>1, <3>1, <3>3 DEF Submit, TypeOK
      <4>2. QED
        BY <2>1, <4>1 DEF TopicsPure
    <3>4. QED
      BY <3>2, <3>3
  <2>2. QED
    BY <1>1, <2>1 DEF Submit, TopicsPure, EntriesPure
<1>2. ASSUME NEW n \in Workers, NEW k \in Keys, HasNext(n, k), NEW id \in CorrelationIds(k), NEW j,
             topic' = Published(n, id, NextOf(n, k).data, j)
      PROVE  TopicsPure'
  <2>1. id \in Ids /\ Pure(id, NextOf(n, k).data)
    BY <1>2, InHandPure, CorrelationPure
  <2>2. QED
    BY <1>2, <2>1, InHand, PublishedPure
<1>3. ASSUME NEW n \in FanIns, NEW id \in Ids, NEW st \in Entry, PureEntry(id, st), NEW j,
             topic' = Published(n, id, Merged(st), j), Have(st) # {}
      PROVE  TopicsPure'
  BY <1>0, <1>3, MergedPure, MergedType, PublishedPure
<1>4. \A id \in Ids : PureEntry(id, NoJoin)
  BY DEF PureEntry, NoJoin
<1>5. ASSUME NEW n \in FanIns, NEW id \in Ids, NEW st, PureEntry(id, st), NEW x \in Entries,
             \A m \in FanIns, i \in Ids : PureEntry(i, x[m][i])
      PROVE  \A m \in FanIns, i \in Ids : PureEntry(i, [x EXCEPT ![n][id] = st][m][i])
  <2>1. ASSUME NEW m \in FanIns, NEW i \in Ids
        PROVE  [x EXCEPT ![n][id] = st][m][i] = IF m = n /\ i = id THEN st ELSE x[m][i]
    BY DEF Entries
  <2>2. QED
    BY <1>5, <2>1
<1>6. joins \in Entries /\ changelog \in Entries
  BY DEF TypeOK, Entries, Entry
<1>7. ASSUME NEW n \in FanIns, NEW id \in Ids, NEW st \in Entry, PureEntry(id, st), Have(st) # {},
             CompleteJoin(n, id, st)
      PROVE  PureInv'
  <2>1. TopicsPure'
    BY <1>3, <1>7 DEF CompleteJoin, PublishedToAll
  <2>2. \A m \in FanIns, i \in Ids : PureEntry(i, joins'[m][i])
    BY <1>4, <1>5, <1>6, <1>7 DEF CompleteJoin, Forgotten, EntriesPure
  <2>3. \A m \in FanIns, i \in Ids : PureEntry(i, changelog'[m][i])
    BY <1>4, <1>5, <1>6, <1>7 DEF CompleteJoin, EntriesPure
  <2>4. QED
    BY <2>1, <2>2, <2>3 DEF EntriesPure, PureEntry
<1>8. ASSUME NEW n \in Workers, NEW marked, RestartFrom(n, marked), TopicsPure',
             \A m \in FanIns, i \in Ids : PureEntry(i, changelog'[m][i])
      PROVE  PureInv'
  <2>1. \A m \in FanIns : joins'[m] = joins[m] \/ joins'[m] = changelog'[m]
    BY <1>8 DEF RestartFrom
  <2>2. \A m \in FanIns, i \in Ids : PureEntry(i, joins'[m][i])
    BY <1>8, <2>1 DEF EntriesPure
  <2>3. QED
    BY <1>8, <2>2 DEF EntriesPure, PureEntry
<1>9. ASSUME NEW n \in Workers, NEW k \in Keys, HandleStraight(n, k) PROVE PureInv'
  BY <1>2, <1>9 DEF HandleStraight, PublishedToAll, EntriesPure, PureEntry
<1>10. ASSUME NEW n \in FanIns, NEW id \in Ids, HandlePartial(n, id) PROVE PureInv'
  <2>1. PureEntry(id, Joined(n, id))
    BY <1>0, <1>10, InHandPure DEF HandlePartial
  <2>2. TopicsPure'
    BY <1>10 DEF HandlePartial, TopicsPure
  <2>3. \A m \in FanIns, i \in Ids : PureEntry(i, joins'[m][i]) /\ PureEntry(i, changelog'[m][i])
    BY <1>5, <1>6, <1>10, <2>1 DEF HandlePartial, EntriesPure
  <2>4. QED
    BY <2>2, <2>3 DEF EntriesPure, PureEntry
<1>11. ASSUME NEW n \in FanIns, NEW id \in Ids, HandleComplete(n, id) PROVE PureInv'
  BY <1>0, <1>7, <1>11, InHand, InHandPure, CompleteHas DEF HandleComplete
<1>12. ASSUME NEW n \in FanIns, NEW id \in Ids, id \in Recoverable(n)
       PROVE  joins[n][id] \in Entry /\ PureEntry(id, joins[n][id]) /\ Have(joins[n][id]) # {}
  BY <1>12, CompleteHas DEF Recoverable, EntriesPure, TypeOK, Entry
<1>13. ASSUME NEW n \in FanIns, NEW id \in Ids, Recover(n, id) PROVE PureInv'
  BY <1>7, <1>12, <1>13 DEF Recover
<1>14. ASSUME NEW n \in Workers, NEW k \in Keys, CrashStraight(n, k) PROVE PureInv'
  BY <1>2, <1>8, <1>14 DEF CrashStraight, EntriesPure
<1>15. ASSUME NEW n \in FanIns, NEW id \in Ids, CrashJoin(n, id) PROVE PureInv'
  <2>1. Joined(n, id) \in Entry /\ PureEntry(id, Joined(n, id))
    BY <1>0, <1>15, InHand, InHandPure DEF CrashJoin
  <2>2. PICK j \in 0..(IF Complete(n, Joined(n, id)) THEN Len(NodeOrder) ELSE 0) :
          topic' = Published(n, id, Merged(Joined(n, id)), j)
    BY <1>15 DEF CrashJoin
  <2>3. ASSUME Complete(n, Joined(n, id)) PROVE TopicsPure'
    BY <1>3, <2>1, <2>2, <2>3, CompleteHas
  <2>4. ASSUME ~Complete(n, Joined(n, id)) PROVE TopicsPure'
    <3>1. j = 0
      BY <2>2, <2>4
    <3>2. Outputs(n, 0) = {}
      BY DEF Outputs
    <3>3. topic' = [m \in Nodes |-> topic[m]]
      BY <2>2, <3>1, <3>2 DEF Published
    <3>4. QED
      BY <3>3 DEF TopicsPure
  <2>5. TopicsPure'
    BY <2>3, <2>4
  <2>6. \A m \in FanIns, i \in Ids : PureEntry(i, changelog'[m][i])
    BY <1>5, <1>6, <1>15, <2>1 DEF CrashJoin, EntriesPure
  <2>7. QED
    BY <1>0, <1>8, <1>15, <2>5, <2>6 DEF CrashJoin
<1>16. ASSUME NEW n \in FanIns, NEW id \in Ids, CrashRecovering(n, id) PROVE PureInv'
  BY <1>0, <1>3, <1>8, <1>12, <1>16 DEF CrashRecovering, EntriesPure
<1>17. ASSUME NEW n \in Workers, CrashIdle(n) PROVE PureInv'
  BY <1>8, <1>17 DEF CrashIdle, TopicsPure, EntriesPure
<1>18. CASE UNCHANGED vars
  BY <1>18 DEF vars, TopicsPure, EntriesPure, PureEntry
<1>19. ASSUME TopicsPure', UNCHANGED <<joins, changelog>> PROVE PureInv'
  BY <1>19 DEF EntriesPure, PureEntry
<1>20. ASSUME NEW n \in Workers, Rebalance(n) PROVE PureInv'
  BY <1>20 DEF Rebalance, TopicsPure, EntriesPure, PureEntry
<1>21. ASSUME NEW n \in Workers, NEW k \in Keys, PublishLate(n, k) PROVE PureInv'
  <2>1. PICK i \in 1..Len(topic[n][k]), id \in CorrelationIds(k), j \in 1..Len(NodeOrder) :
          topic' = Published(n, id, topic[n][k][i].data, j)
    BY <1>21 DEF PublishLate
  <2>2. n \in Nodes /\ topic[n][k][i].data \in SUBSET Events
    BY LateInHand
  <2>3. PICK data \in SUBSET Events : data = topic[n][k][i].data
    BY <2>2
  <2>4. id \in Ids /\ Pure(id, data)
    BY <2>2, <2>3, CorrelationPure DEF TopicsPure
  <2>5. TopicsPure'
    BY <2>1, <2>2, <2>3, <2>4, PublishedPure
  <2>6. QED
    BY <1>19, <1>21, <2>5 DEF PublishLate
<1>22. ASSUME NEW n \in Workers, NEW m \in Nodes, NEW id \in Ids, Resend(n, m, id) PROVE PureInv'
  <2>1. Repeats(m, id)
    BY <1>22, ResendRepeats
  <2>2. ASSUME NEW w \in Nodes, NEW k \in Keys, NEW i \in 1..Len(topic'[w][k])
        PROVE  Pure(k, topic'[w][k][i].data)
    <3>1. PICK j \in 1..Len(topic[w][k]) : topic'[w][k][i] = topic[w][k][j]
      BY <2>1, RepeatRecords
    <3>2. QED
      BY <3>1 DEF TopicsPure
  <2>3. TopicsPure'
    BY <2>2 DEF TopicsPure
  <2>4. QED
    BY <1>19, <1>22, <2>3 DEF Resend
<1>23. ASSUME NEW n \in Workers, Redelivery(n) PROVE PureInv'
  BY <1>20, <1>21, <1>22, <1>23 DEF Redelivery
<1>24. ASSUME NEW n \in Workers, Work(n) \/ Crash(n) PROVE PureInv'
  BY <1>9, <1>10, <1>11, <1>13, <1>14, <1>15, <1>16, <1>17, <1>24 DEF Work, Crash
<1>25. QED
  BY <1>1, <1>18, <1>23, <1>24 DEF Next

\* JoinsDoNotMix: in every DAG whose events cannot be given the same correlation
\* ID, no message ever combines two events, whatever is redelivered, recovered or
\* given a new ID after a crash.
THEOREM JoinsDoNotMix ==
  ASSUME DistinctIds
  PROVE  Spec => []Coherent
<1>1. Init => PureInv
  <2> SUFFICES ASSUME Init PROVE PureInv
    OBVIOUS
  <2>1. \A n \in Nodes, k \in Keys : Len(topic[n][k]) = 0
    BY DEF Init
  <2>2. \A n \in FanIns, id \in Ids : joins[n][id] = NoJoin /\ changelog[n][id] = NoJoin
    BY DEF Init
  <2>3. QED
    BY <2>1, <2>2 DEF PureInv, TopicsPure, EntriesPure, PureEntry, NoJoin
<1>2. PureInv => Coherent
  <2> SUFFICES ASSUME PureInv, NEW n \in Nodes, NEW m \in MessagesOf(n)
               PROVE  Cardinality(m.data) = 1
    BY DEF Coherent
  <2>1. PICK k \in Keys : \E i \in 1..Len(topic[n][k]) : m = topic[n][k][i]
    BY DEF MessagesOf
  <2>2. PICK e \in Events : m.data = {e}
    BY <2>1 DEF PureInv, TopicsPure, Pure
  <2>3. QED
    BY <2>2, FS_Singleton
<1>3. TypeOK /\ PureInv /\ [Next]_vars => PureInv'
  BY PureStep
<1>4. QED
  BY <1>1, <1>2, <1>3, SwarmTypeCorrect, PTL DEF Spec
-----------------------------------------------------------------------------
(***************************************************************************)
(* Every event is decided when the swarm comes to rest.                    *)
(*                                                                         *)
(* FlowInv says of each node that what is behind it went on to all its     *)
(* outputs, or is in its join buffer and changelog.  At rest everything is *)
(* behind every node, and an event that was submitted has gone all the way *)
(* to the gate: an induction over the DAG from the entry node on, made as  *)
(* the choice of a least counterexample.  With a second entry node an      *)
(* event may get a second ID, and neither join is ever complete.           *)
(***************************************************************************)

\* The result for data went to all outputs of n, under id.
Sent(n, id, data) ==
  \A o \in Outputs(n, Len(NodeOrder)) :
    \E j \in 1..Len(topic[o][id]) : topic[o][id][j] = [source |-> n, data |-> data]

\* The join of id was completed and its result sent.
DoneJoin(n, id) == \E e \in Events : id \in MintedIds[e] /\ Sent(n, id, {e})

\* SourcesKnown: payloads are in the topics of roots, one per key; all else comes
\* from the node's dependencies.
SourceKnown(n, k, i) ==
  IF k \in Events THEN n \in Roots /\ i = 1 /\ topic[n][k][i].source = Outside
                  ELSE topic[n][k][i].source \in Range(DependsOn[n])

SourcesKnown ==
  \A n \in Nodes, k \in Keys : \A i \in 1..Len(topic[n][k]) : SourceKnown(n, k, i)

\* EventsSubmitted: no node makes up an event.
Submitted(e) == \E r \in Roots : topic[r][e] # <<>>

EventsSubmitted ==
  /\ \A n \in Nodes, k \in Keys : \A i \in 1..Len(topic[n][k]) :
       \A e \in topic[n][k][i].data : Submitted(e)
  /\ \A n \in FanIns, id \in Ids : \A e \in Merged(changelog[n][id]) \cup Merged(joins[n][id]) :
       Submitted(e)

\* PassedOn: what is behind a straight-through node went to all its outputs, under
\* one ID.
PassedOn ==
  \A n \in Workers \ FanIns, k \in Keys : \A i \in 1..pos[n][k] :
    \E id \in CorrelationIds(k) : Sent(n, id, topic[n][k][i].data)

\* JoinsKept: what is behind a fan-in node is in its buffer, and in its changelog, or
\* its join is done.
JoinsKept ==
  \A n \in FanIns, id \in Ids :
    \/ DoneJoin(n, id)
    \/ /\ joins[n][id] = changelog[n][id]
       /\ \A i \in 1..pos[n][id] : joins[n][id][topic[n][id][i].source] # {}

FlowInv == SourcesKnown /\ EventsSubmitted /\ PassedOn /\ JoinsKept

\* The outputs of a node are the nodes that name it.
LEMMA AllOutputs ==
  ASSUME NEW n
  PROVE  Outputs(n, Len(NodeOrder)) = {m \in Nodes : n \in Range(DependsOn[m])}
<1>1. Nodes = {NodeOrder[i] : i \in 1..Len(NodeOrder)}
  BY SwarmAssumption DEF Nodes, Range
<1>2. QED
  BY <1>1 DEF Outputs

\* A result that reaches a node comes from one of its dependencies, and goes to the
\* end of the records of its key.
LEMMA PublishedRecords ==
  ASSUME TypeOK, NEW n \in Nodes, NEW id \in Ids, NEW data \in SUBSET Events,
         NEW j \in 0..Len(NodeOrder), topic' = Published(n, id, data, j),
         NEW m \in Nodes, NEW k \in Keys
  PROVE  \/ topic'[m][k] = topic[m][k]
         \/ /\ k = id /\ n \in Range(DependsOn[m])
            /\ Len(topic'[m][k]) = Len(topic[m][k]) + 1
            /\ topic'[m][k][Len(topic[m][k]) + 1] = [source |-> n, data |-> data]
<1> DEFINE result == [source |-> n, data |-> data]
<1>1. result \in Message /\ topic[m][k] \in Seq(Message)
  BY DEF TypeOK, Message, Sources
<1>2. CASE topic'[m][k] = topic[m][k]
  BY <1>2
<1>3. CASE topic'[m][k] # topic[m][k]
  <2>1. m \in Outputs(n, j)
    BY <1>3 DEF Published
  <2>2. n \in Range(DependsOn[m])
    BY <2>1 DEF Outputs
  <2>3. k = id /\ topic'[m][k] = Append(topic[m][k], result)
    BY <1>3, PublishedAppends
  <2>4. QED
    BY <1>1, <2>2, <2>3
<1>4. QED
  BY <1>2, <1>3

\* A node that publishes, and what: a straight-through node a message it was given, a
\* fan-in node a complete join.
Publishes(n, id, data) ==
  \/ n \notin FanIns /\ \E k \in Keys : /\ id \in CorrelationIds(k)
                                         /\ \E i \in 1..Len(topic[n][k]) :
                                              data = topic[n][k][i].data
  \/ /\ n \in FanIns /\ HasNext(n, id) /\ Complete(n, Joined(n, id))
     /\ data = Merged(Joined(n, id))
  \/ /\ n \in FanIns /\ Complete(n, joins[n][id])
     /\ data = Merged(joins[n][id])

\* A payload is submitted, or one node publishes to some of its outputs, or a record is
\* sent again, or no topic changes.
LEMMA TopicChanges ==
  ASSUME TypeOK, [Next]_vars
  PROVE  \/ UNCHANGED topic
         \/ \E n \in Roots, e \in Events : Submit(n, e)
         \/ \E n \in Workers, id \in Ids, j \in 0..Len(NodeOrder) : \E data \in SUBSET Events :
              Publishes(n, id, data) /\ topic' = Published(n, id, data, j)
         \/ \E m \in Nodes, id \in Ids : Repeats(m, id)
<1> DEFINE Goal == \E n \in Workers, id \in Ids, j \in 0..Len(NodeOrder) :
                     \E data \in SUBSET Events :
                       Publishes(n, id, data) /\ topic' = Published(n, id, data, j)
<1>0. /\ \A id \in Ids : id \in Keys
      /\ \A n \in FanIns : n \in Workers
      /\ Len(NodeOrder) \in Nat
  BY SwarmAssumption DEF Keys, FanIns
<1>00. ASSUME NEW n \in Workers, n \notin FanIns, NEW k \in Keys, NEW i \in 1..Len(topic[n][k]),
             NEW id \in CorrelationIds(k), NEW j \in 0..Len(NodeOrder),
             topic' = Published(n, id, topic[n][k][i].data, j)
      PROVE  Goal
  <2>1. id \in Ids
    BY SwarmAssumption DEF CorrelationIds, Keys
  <2>2. topic[n][k][i].data \in SUBSET Events
    BY LateInHand
  <2>3. Publishes(n, id, topic[n][k][i].data)
    BY <1>00 DEF Publishes
  <2>4. QED
    BY <1>00, <2>1, <2>2, <2>3
<1>1. ASSUME NEW n \in Workers, n \notin FanIns, NEW k \in Keys, HasNext(n, k),
             NEW id \in CorrelationIds(k), NEW j \in 0..Len(NodeOrder),
             topic' = Published(n, id, NextOf(n, k).data, j)
      PROVE  Goal
  <2>1. pos[n][k] + 1 \in 1..Len(topic[n][k])
    BY <1>1, InHand
  <2>2. QED
    BY <1>1, <1>00, <2>1 DEF NextOf
<1>2. ASSUME NEW n \in FanIns, NEW id \in Ids, NEW j \in 0..Len(NodeOrder), HasNext(n, id),
             Complete(n, Joined(n, id)), topic' = Published(n, id, Merged(Joined(n, id)), j)
      PROVE  Goal
  <2>1. Joined(n, id) \in Entry
    BY <1>0, <1>2, InHand
  <2>2. Merged(Joined(n, id)) \in SUBSET Events
    BY <2>1, MergedType
  <2>3. Publishes(n, id, Merged(Joined(n, id)))
    BY <1>2, <2>1 DEF Publishes
  <2>4. QED
    BY <1>0, <1>2, <2>2, <2>3
<1>3. ASSUME NEW n \in FanIns, NEW id \in Ids, NEW j \in 0..Len(NodeOrder),
              Complete(n, joins[n][id]), topic' = Published(n, id, Merged(joins[n][id]), j)
       PROVE  Goal
  <2>1. joins[n][id] \in Entry
    BY DEF TypeOK, Entry
  <2>2. Merged(joins[n][id]) \in SUBSET Events
    BY <2>1, MergedType
  <2>3. Publishes(n, id, Merged(joins[n][id]))
    BY <1>3, <2>1 DEF Publishes
  <2>4. QED
    BY <1>0, <1>3, <2>2, <2>3
<1> HIDE DEF Goal
<1>4. ASSUME NEW n \in Workers, n \notin FanIns, NEW k \in Keys, HandleStraight(n, k) PROVE Goal
  BY <1>0, <1>1, <1>4 DEF HandleStraight, PublishedToAll
<1>5. ASSUME NEW n \in FanIns, NEW id \in Ids, HandleComplete(n, id) PROVE Goal
  BY <1>0, <1>2, <1>5 DEF HandleComplete, CompleteJoin, PublishedToAll
<1>6. ASSUME NEW n \in FanIns, NEW id \in Ids, Recover(n, id) PROVE Goal
  <2>1. Complete(n, joins[n][id]) /\ topic' = Published(n, id, Merged(joins[n][id]), Len(NodeOrder))
    BY <1>6 DEF Recover, Recoverable, CompleteJoin, PublishedToAll
  <2>2. QED
    BY <1>0, <1>3, <2>1
<1>7. ASSUME NEW n \in Workers, n \notin FanIns, NEW k \in Keys, CrashStraight(n, k) PROVE Goal
  BY <1>1, <1>7 DEF CrashStraight
<1>8. ASSUME NEW n \in FanIns, NEW id \in Ids, CrashJoin(n, id) PROVE Goal \/ UNCHANGED topic
  <2>1. CASE Complete(n, Joined(n, id))
    BY <1>2, <1>8, <2>1 DEF CrashJoin
  <2>2. CASE ~Complete(n, Joined(n, id))
    <3>1. topic' = Published(n, id, Merged(Joined(n, id)), 0)
      BY <1>8, <2>2 DEF CrashJoin
    <3>2. Outputs(n, 0) = {}
      BY DEF Outputs
    <3>3. topic' = [m \in Nodes |-> topic[m]]
      BY <3>1, <3>2 DEF Published
    <3>4. QED
      BY <3>3 DEF TypeOK
  <2>3. QED
    BY <2>1, <2>2
<1>9. ASSUME NEW n \in FanIns, NEW id \in Ids, CrashRecovering(n, id) PROVE Goal
  <2>1. Complete(n, joins[n][id])
    BY <1>9 DEF CrashRecovering, Recoverable
  <2>2. QED
    BY <1>3, <1>9, <2>1 DEF CrashRecovering
<1>10. ASSUME NEW n \in FanIns, NEW id \in Ids, HandlePartial(n, id) PROVE UNCHANGED topic
  BY <1>10 DEF HandlePartial
<1>11. ASSUME NEW n \in Workers, CrashIdle(n) PROVE UNCHANGED topic
  BY <1>11 DEF CrashIdle
<1>12. CASE UNCHANGED vars
  BY <1>12 DEF vars
<1>13. ASSUME NEW n \in Workers, Work(n) \/ Crash(n) PROVE Goal \/ UNCHANGED topic
  BY <1>4, <1>5, <1>6, <1>7, <1>8, <1>9, <1>10, <1>11, <1>13 DEF Work, Crash
<1>14. ASSUME NEW n \in Workers, Redelivery(n)
       PROVE  \/ Goal
              \/ UNCHANGED topic
              \/ \E m \in Nodes, id \in Ids : Repeats(m, id)
  <2>1. CASE Rebalance(n)
    BY <2>1 DEF Rebalance
  <2>2. ASSUME n \notin FanIns, NEW k \in Keys, PublishLate(n, k) PROVE Goal
    <3>1. \A j \in 1..Len(NodeOrder) : j \in 0..Len(NodeOrder)
      BY <1>0
    <3>2. QED
      BY <1>00, <2>2, <3>1 DEF PublishLate
  <2>3. ASSUME NEW m \in Nodes, NEW id \in Ids, Resend(n, m, id) PROVE Repeats(m, id)
    BY <2>3, ResendRepeats
  <2>4. QED
    BY <1>14, <2>1, <2>2, <2>3 DEF Redelivery
<1>15. QED
  BY <1>12, <1>13, <1>14 DEF Next, Goal

\* Records stay where they are.
LEMMA TopicsExtend ==
  ASSUME TypeOK, [Next]_vars, NEW m \in Nodes, NEW k \in Keys, NEW i \in 1..Len(topic[m][k])
  PROVE  i \in 1..Len(topic'[m][k]) /\ topic'[m][k][i] = topic[m][k][i]
<1>1. ASSUME NEW n \in Roots, NEW e \in Events, Submit(n, e) PROVE topic'[m][k] = topic[m][k]
  BY <1>1 DEF Submit, TypeOK
<1>2. ASSUME NEW n \in Workers, NEW id \in Ids, NEW j \in 0..Len(NodeOrder),
             NEW data \in SUBSET Events, topic' = Published(n, id, data, j)
      PROVE  i \in 1..Len(topic'[m][k]) /\ topic'[m][k][i] = topic[m][k][i]
  <2>1. n \in Nodes
    BY SwarmAssumption
  <2>2. /\ [source |-> n, data |-> data] \in Message
        /\ \/ topic'[m][k] = topic[m][k]
           \/ topic'[m][k] = Append(topic[m][k], [source |-> n, data |-> data])
    BY <1>2, <2>1, PublishedAppends
  <2>3. topic[m][k] \in Seq(Message)
    BY DEF TypeOK
  <2>4. CASE topic'[m][k] = Append(topic[m][k], [source |-> n, data |-> data])
    BY <2>2, <2>3, <2>4
  <2>5. QED
    BY <2>2, <2>4
<1>3. ASSUME NEW w \in Nodes, NEW id \in Ids, Repeats(w, id)
      PROVE  i \in 1..Len(topic'[m][k]) /\ topic'[m][k][i] = topic[m][k][i]
  <2>1. /\ Len(topic[m][k]) <= Len(topic'[m][k])
        /\ topic'[m][k][i] = topic[m][k][i]
    BY <1>3, RepeatRecords
  <2>2. topic[m][k] \in Seq(Message) /\ topic'[m][k] \in Seq(Message)
    BY <1>3, RepeatGrows DEF TopicsGrow, Topics, TypeOK
  <2>3. QED
    BY <2>1, <2>2
<1>4. QED
  BY <1>1, <1>2, <1>3, TopicChanges

\* A resumed session goes on no later than where the last one was, ...
LEMMA ResumeBounds ==
  ASSUME TypeOK, NEW n \in Workers, NEW marked \in [Keys -> Nat], ResumeFrom(n, marked)
  PROVE  /\ \A k \in Keys : pos'[n][k] <= marked[k]
         /\ \A w \in Workers : w # n => pos'[w] = pos[w]
<1> DEFINE open == {k \in Keys : committed[n][k] < marked[k]}
<1>1. PICK r \in [open -> UNION {committed[n][k]..marked[k] : k \in open}] :
        /\ \A k \in open : committed[n][k] <= r[k] /\ r[k] <= marked[k]
        /\ pos' = [pos EXCEPT ![n] = [k \in Keys |-> IF k \in open THEN r[k] ELSE marked[k]]]
  BY DEF ResumeFrom
<1>2. pos'[n] = [k \in Keys |-> IF k \in open THEN r[k] ELSE marked[k]]
  BY <1>1 DEF TypeOK
<1>3. ASSUME NEW k \in Keys PROVE pos'[n][k] <= marked[k]
  BY <1>1, <1>2
<1>4. QED
  BY <1>1, <1>3 DEF TypeOK

\* ... and a restarted process from its changelog.
LEMMA RestartBounds ==
  ASSUME TypeOK, NEW n \in Workers, NEW marked \in [Keys -> Nat], RestartFrom(n, marked)
  PROVE  /\ \A k \in Keys : pos'[n][k] <= marked[k]
         /\ \A w \in Workers : w # n => pos'[w] = pos[w]
         /\ joins' = [m \in FanIns |-> IF m = n THEN changelog'[n] ELSE joins[m]]
BY ResumeBounds DEF RestartFrom

\* What can happen to a key of a straight-through node: its next message is handled,
\* or a crash or a rebalance sets the node back.
LEMMA StraightChanges ==
  ASSUME TypeOK, [Next]_vars, NEW n \in Workers, n \notin FanIns, NEW k \in Keys
  PROVE  \/ pos'[n][k] <= pos[n][k]
         \/ HandleStraight(n, k) /\ pos'[n][k] = pos[n][k] + 1
<1>0. pos \in Offsets /\ pos[n][k] \in Nat /\ pos[n] \in [Keys -> Nat]
  BY DEF TypeOK, Offsets
<1>00. \A id \in Ids : id \in Keys
  BY DEF Keys
<1>1. ASSUME UNCHANGED pos[n] PROVE pos'[n][k] <= pos[n][k]
  BY <1>0, <1>1
<1>2. ASSUME NEW m \in Workers, NEW marked \in [Keys -> Nat], RestartFrom(m, marked),
             m = n => marked = pos[n]
      PROVE  pos'[n][k] <= pos[n][k]
  BY <1>0, <1>1, <1>2, RestartBounds
<1>3. ASSUME NEW m \in Workers, NEW l \in Keys, Advance(m, l), m # n
      PROVE  UNCHANGED pos[n]
  BY <1>0, <1>3 DEF Advance, Offsets
<1>4. ASSUME NEW l \in Keys, HandleStraight(n, l)
      PROVE  \/ pos'[n][k] <= pos[n][k]
             \/ HandleStraight(n, k) /\ pos'[n][k] = pos[n][k] + 1
  <2>1. pos' = [pos EXCEPT ![n][l] = pos[n][l] + 1]
    BY <1>4 DEF HandleStraight, Advance
  <2>2. QED
    BY <1>0, <1>4, <2>1 DEF Offsets
<1>5. ASSUME NEW m \in Workers, m # n, m \notin FanIns, NEW l \in Keys, HandleStraight(m, l)
      PROVE  UNCHANGED pos[n]
  BY <1>3, <1>5 DEF HandleStraight
<1>6. ASSUME NEW m \in Workers, m \in FanIns, NEW id \in Ids,
             HandlePartial(m, id) \/ HandleComplete(m, id)
      PROVE  UNCHANGED pos[n]
  BY <1>00, <1>3, <1>6 DEF HandlePartial, HandleComplete
<1>7. ASSUME NEW m \in Workers, NEW id \in Ids, Recover(m, id) PROVE UNCHANGED pos[n]
  BY <1>7 DEF Recover
<1>8. ASSUME NEW m \in Workers, NEW l \in Keys, CrashStraight(m, l) PROVE pos'[n][k] <= pos[n][k]
  <2>1. pos[m] \in [Keys -> Nat]
    BY <1>0 DEF Offsets
  <2>2. QED
    BY <1>2, <1>8, <2>1 DEF CrashStraight, StraightMark
<1>9. ASSUME NEW m \in FanIns, NEW id \in Ids, CrashJoin(m, id) PROVE pos'[n][k] <= pos[n][k]
  <2>1. m \in Workers /\ m # n
    BY DEF FanIns
  <2>2. [pos[m] EXCEPT ![id] = pos[m][id] + 1] \in [Keys -> Nat]
    BY <1>0, <1>00, <2>1 DEF Offsets
  <2>3. QED
    BY <1>2, <1>9, <2>1, <2>2 DEF CrashJoin
<1>10. ASSUME NEW m \in Workers, NEW id \in Ids, CrashRecovering(m, id)
       PROVE  pos'[n][k] <= pos[n][k]
  <2>1. pos[m] \in [Keys -> Nat]
    BY <1>0 DEF Offsets
  <2>2. QED
    BY <1>2, <1>10, <2>1 DEF CrashRecovering
<1>11. ASSUME NEW m \in Workers, CrashIdle(m) PROVE pos'[n][k] <= pos[n][k]
  <2>1. pos[m] \in [Keys -> Nat]
    BY <1>0 DEF Offsets
  <2>2. QED
    BY <1>2, <1>11, <2>1 DEF CrashIdle
<1>12. ASSUME NEW m \in Roots, NEW e \in Events, Submit(m, e) PROVE UNCHANGED pos[n]
  BY <1>12 DEF Submit
<1>13. CASE UNCHANGED vars
  BY <1>1, <1>13 DEF vars
<1>14. ASSUME NEW m \in Workers, Redelivery(m) PROVE pos'[n][k] <= pos[n][k]
  <2>1. CASE Rebalance(m)
    <3>1. pos[m] \in [Keys -> Nat] /\ ResumeFrom(m, pos[m])
      BY <1>0, <2>1 DEF Offsets, Rebalance
    <3>2. QED
      BY <1>0, <1>1, <3>1, ResumeBounds
  <2>2. QED
    BY <1>1, <1>14, <2>1 DEF Redelivery, PublishLate, Resend
<1>15. ASSUME NEW m \in Workers, Work(m) \/ Crash(m)
       PROVE  \/ pos'[n][k] <= pos[n][k]
              \/ HandleStraight(n, k) /\ pos'[n][k] = pos[n][k] + 1
  BY <1>1, <1>4, <1>5, <1>6, <1>7, <1>8, <1>9, <1>10, <1>11, <1>15 DEF Work, Crash
<1>16. QED
  BY <1>1, <1>12, <1>13, <1>14, <1>15 DEF Next

\* What can happen to a join of a fan-in node: nothing, or a crash or a rebalance sets it
\* back, a crash to its changelog; the next contribution is recorded; its result goes to
\* all outputs.
JoinStays(n, id) ==
  /\ pos'[n][id] <= pos[n][id]
  /\ changelog'[n][id] = changelog[n][id]
  /\ joins'[n][id] \in {joins[n][id], changelog[n][id]}

JoinRecords(n, id) ==
  /\ HasNext(n, id)
  /\ pos'[n][id] <= pos[n][id] + 1
  /\ changelog'[n][id] = Joined(n, id)
  /\ joins'[n][id] = Joined(n, id)

CompletesWith(n, id, st) ==
  /\ Complete(n, st)
  /\ topic' = PublishedToAll(n, id, Merged(st))
  /\ joins'[n][id] = NoJoin
  /\ changelog'[n][id] \in {NoJoin, st}

JoinCompletes(n, id) ==
  \/ CompletesWith(n, id, joins[n][id])
  \/ HasNext(n, id) /\ CompletesWith(n, id, Joined(n, id))

\* Whatever step is taken, a join changes in one of these ways or not at all.
LEMMA JoinChanges ==
  ASSUME TypeOK, [Next]_vars, NEW n \in FanIns, NEW id \in Ids
  PROVE  JoinStays(n, id) \/ JoinRecords(n, id) \/ JoinCompletes(n, id)
<1>0. /\ n \in Workers /\ pos \in Offsets /\ joins \in Entries /\ changelog \in Entries
      /\ pos[n] \in [Keys -> Nat] /\ pos[n][id] \in Nat /\ \A i \in Ids : i \in Keys
  BY DEF TypeOK, Offsets, Entries, Entry, FanIns, Keys
<1>1. ASSUME UNCHANGED <<pos[n], joins[n], changelog[n]>> PROVE JoinStays(n, id)
  BY <1>0, <1>1 DEF JoinStays
<1>2. ASSUME NEW m \in Workers, NEW marked \in [Keys -> Nat], RestartFrom(m, marked),
             m = n => marked[id] = pos[n][id], changelog'[n][id] = changelog[n][id]
      PROVE  JoinStays(n, id)
  <2>1. pos'[n][id] <= pos[n][id]
    BY <1>0, <1>2, RestartBounds
  <2>2. joins'[n][id] = joins[n][id] \/ joins'[n][id] = changelog'[n][id]
    BY <1>2, RestartBounds
  <2>3. QED
    BY <1>2, <2>1, <2>2 DEF JoinStays
<1>3. ASSUME NEW m \in Workers, m # n, NEW k \in Keys, Advance(m, k)
      PROVE  UNCHANGED pos[n]
  BY <1>0, <1>3 DEF Advance, Offsets
<1>4. ASSUME NEW k \in Ids, Advance(n, k)
      PROVE  pos'[n][id] = IF k = id THEN pos[n][id] + 1 ELSE pos[n][id]
  BY <1>0, <1>4 DEF Advance, Offsets
<1>5. ASSUME NEW m \in Workers, m \notin FanIns, NEW k \in Keys, HandleStraight(m, k)
      PROVE  JoinStays(n, id)
  BY <1>1, <1>3, <1>5 DEF HandleStraight
<1>6. ASSUME NEW m \in FanIns, NEW k \in Ids, HandlePartial(m, k)
      PROVE  JoinStays(n, id) \/ JoinRecords(n, id)
  <2>1. /\ Advance(m, k) /\ HasNext(m, k)
        /\ joins' = [joins EXCEPT ![m][k] = Joined(m, k)]
        /\ changelog' = [changelog EXCEPT ![m][k] = Joined(m, k)]
    BY <1>6 DEF HandlePartial
  <2>2. m \in Workers
    BY DEF FanIns
  <2>3. CASE m = n /\ k = id
    BY <1>0, <1>4, <2>1, <2>3 DEF JoinRecords, Entries
  <2>4. CASE m = n /\ k # id
    BY <1>0, <1>4, <2>1, <2>4 DEF JoinStays, Entries
  <2>5. CASE m # n
    BY <1>0, <1>1, <1>3, <2>1, <2>2, <2>5 DEF Entries
  <2>6. QED
    BY <2>3, <2>4, <2>5
<1>7. ASSUME NEW m \in FanIns, NEW k \in Ids, NEW st \in Entry, CompleteJoin(m, k, st),
             m # n \/ k # id
      PROVE  changelog'[n][id] = changelog[n][id] /\ joins'[n][id] = joins[n][id]
  <2>1. \E x : changelog' = [changelog EXCEPT ![m][k] = x]
    BY <1>7 DEF CompleteJoin
  <2>2. joins' = [joins EXCEPT ![m][k] = NoJoin]
    BY <1>7 DEF CompleteJoin, Forgotten
  <2>3. QED
    BY <1>0, <1>7, <2>1, <2>2 DEF Entries
<1>8. ASSUME NEW m \in FanIns, NEW k \in Ids, HandleComplete(m, k)
      PROVE  JoinStays(n, id) \/ JoinCompletes(n, id)
  <2>1. /\ Advance(m, k) /\ HasNext(m, k) /\ Complete(m, Joined(m, k))
        /\ CompleteJoin(m, k, Joined(m, k))
    BY <1>8 DEF HandleComplete
  <2>2. m \in Workers /\ Joined(m, k) \in Entry
    BY <1>0, <2>1, InHand DEF FanIns
  <2>3. CASE m = n /\ k = id
    <3>1. CompletesWith(n, id, Joined(n, id))
      BY <1>0, <2>1, <2>3 DEF CompleteJoin, Forgotten, CompletesWith, Entries
    <3>2. QED
      BY <2>1, <2>3, <3>1 DEF JoinCompletes
  <2>4. CASE m # n \/ k # id
    <3>1. changelog'[n][id] = changelog[n][id] /\ joins'[n][id] = joins[n][id]
      BY <1>7, <2>1, <2>2, <2>4
    <3>2. pos'[n][id] = pos[n][id]
      BY <1>0, <1>3, <1>4, <2>1, <2>2, <2>4
    <3>3. QED
      BY <1>0, <3>1, <3>2 DEF JoinStays
  <2>5. QED
    BY <2>3, <2>4
<1>9. ASSUME NEW m \in FanIns, NEW k \in Ids, Recover(m, k)
      PROVE  JoinStays(n, id) \/ JoinCompletes(n, id)
  <2>1. Complete(m, joins[m][k]) /\ CompleteJoin(m, k, joins[m][k]) /\ UNCHANGED pos
    BY <1>9 DEF Recover, Recoverable
  <2>2. joins[m][k] \in Entry
    BY <1>0 DEF Entries
  <2>3. CASE m = n /\ k = id
    <3>1. CompletesWith(n, id, joins[n][id])
      BY <1>0, <2>1, <2>3 DEF CompleteJoin, Forgotten, CompletesWith, Entries
    <3>2. QED
      BY <3>1 DEF JoinCompletes
  <2>4. CASE m # n \/ k # id
    BY <1>0, <1>7, <2>1, <2>2, <2>4 DEF JoinStays
  <2>5. QED
    BY <2>3, <2>4
<1>10. ASSUME NEW m \in Workers, m \notin FanIns, NEW k \in Keys, CrashStraight(m, k)
       PROVE  JoinStays(n, id)
  <2>1. pos[m] \in [Keys -> Nat]
    BY <1>0 DEF Offsets
  <2>2. QED
    BY <1>2, <1>10, <2>1 DEF CrashStraight, StraightMark
<1>11. ASSUME NEW m \in FanIns, NEW k \in Ids, CrashJoin(m, k)
       PROVE  JoinStays(n, id) \/ JoinRecords(n, id)
  <2> DEFINE marked == [pos[m] EXCEPT ![k] = pos[m][k] + 1]
  <2>1. m \in Workers /\ marked \in [Keys -> Nat] /\ RestartFrom(m, marked) /\ HasNext(m, k)
    BY <1>0, <1>11 DEF FanIns, Offsets, CrashJoin
  <2>2. changelog' = [changelog EXCEPT ![m][k] = Joined(m, k)]
    BY <1>11 DEF CrashJoin
  <2>3. CASE m = n /\ k = id
    <3>1. changelog'[n][id] = Joined(n, id)
      BY <1>0, <2>2, <2>3 DEF Entries
    <3>2. joins'[n][id] = changelog'[n][id] /\ pos'[n][id] <= marked[id]
      BY <1>0, <2>1, <2>3, RestartBounds
    <3>3. marked[id] = pos[n][id] + 1
      BY <1>0, <2>3 DEF Offsets
    <3>4. QED
      BY <2>1, <2>3, <3>1, <3>2, <3>3 DEF JoinRecords
  <2>4. CASE m # n \/ k # id
    <3>1. changelog'[n][id] = changelog[n][id]
      BY <1>0, <2>2, <2>4 DEF Entries
    <3>2. m = n => marked[id] = pos[n][id]
      BY <1>0, <2>4 DEF Offsets
    <3>3. QED
      BY <1>2, <2>1, <3>1, <3>2
  <2>5. QED
    BY <2>3, <2>4
<1>12. ASSUME NEW m \in FanIns, NEW k \in Ids, CrashRecovering(m, k)
       PROVE  JoinStays(n, id)
  <2>1. m \in Workers /\ pos[m] \in [Keys -> Nat]
    BY <1>0 DEF Offsets, FanIns
  <2>2. QED
    BY <1>2, <1>12, <2>1 DEF CrashRecovering
<1>13. ASSUME NEW m \in Workers, CrashIdle(m) PROVE JoinStays(n, id)
  <2>1. pos[m] \in [Keys -> Nat]
    BY <1>0 DEF Offsets
  <2>2. QED
    BY <1>2, <1>13, <2>1 DEF CrashIdle
<1>14. ASSUME NEW m \in Roots, NEW e \in Events, Submit(m, e) PROVE JoinStays(n, id)
  BY <1>1, <1>14 DEF Submit
<1>15. CASE UNCHANGED vars
  BY <1>1, <1>15 DEF vars
<1>16. ASSUME NEW m \in Workers, Redelivery(m) PROVE JoinStays(n, id)
  <2>1. CASE Rebalance(m)
    <3>1. pos[m] \in [Keys -> Nat] /\ ResumeFrom(m, pos[m]) /\ UNCHANGED <<joins, changelog>>
      BY <1>0, <2>1 DEF Offsets, Rebalance
    <3>2. pos'[n][id] <= pos[n][id]
      BY <1>0, <3>1, ResumeBounds
    <3>3. QED
      BY <3>1, <3>2 DEF JoinStays
  <2>2. QED
    BY <1>1, <1>16, <2>1 DEF Redelivery, PublishLate, Resend
<1>17. ASSUME NEW m \in Workers, Work(m) \/ Crash(m)
       PROVE  JoinStays(n, id) \/ JoinRecords(n, id) \/ JoinCompletes(n, id)
  BY <1>5, <1>6, <1>8, <1>9, <1>10, <1>11, <1>12, <1>13, <1>17 DEF Work, Crash
<1>18. QED
  BY <1>14, <1>15, <1>16, <1>17 DEF Next

-----------------------------------------------------------------------------
\* Records of a key come from where they should.
LEMMA SourcesKnownStep ==
  ASSUME TypeOK, SourcesKnown, [Next]_vars
  PROVE  SourcesKnown'
<1>0. SourcesKnown' <=> \A m \in Nodes, k \in Keys : \A i \in 1..Len(topic'[m][k]) :
        IF k \in Events THEN m \in Roots /\ i = 1 /\ topic'[m][k][i].source = Outside
                        ELSE topic'[m][k][i].source \in Range(DependsOn[m])
  BY DEF SourcesKnown, SourceKnown
<1>1. SUFFICES ASSUME NEW m \in Nodes, NEW k \in Keys, NEW i \in 1..Len(topic'[m][k])
               PROVE  IF k \in Events THEN m \in Roots /\ i = 1 /\ topic'[m][k][i].source = Outside
                                      ELSE topic'[m][k][i].source \in Range(DependsOn[m])
  BY <1>0
<1>2. topic[m][k] \in Seq(Message) /\ Len(topic[m][k]) \in Nat
  BY DEF TypeOK
<1>3. CASE topic'[m][k] = topic[m][k]
  BY <1>3 DEF SourcesKnown, SourceKnown
<1>4. ASSUME NEW n \in Roots, NEW e \in Events, Submit(n, e), topic'[m][k] # topic[m][k]
      PROVE  k \in Events /\ m \in Roots /\ i = 1 /\ topic'[m][k][i].source = Outside
  <2>1. m = n /\ k = e /\ topic'[m][k] = <<[source |-> Outside, data |-> {e}]>>
    BY <1>4 DEF Submit, TypeOK
  <2>2. QED
    BY <2>1
<1>5. ASSUME NEW n \in Workers, NEW id \in Ids, NEW j \in 0..Len(NodeOrder),
             NEW data \in SUBSET Events, topic' = Published(n, id, data, j),
             topic'[m][k] # topic[m][k]
      PROVE  k \notin Events /\ topic'[m][k][i].source \in Range(DependsOn[m])
  <2>1. n \in Nodes /\ id \notin Events
    BY SwarmAssumption
  <2>2. /\ k = id /\ n \in Range(DependsOn[m])
        /\ Len(topic'[m][k]) = Len(topic[m][k]) + 1
        /\ topic'[m][k][Len(topic[m][k]) + 1] = [source |-> n, data |-> data]
    BY <1>5, <2>1, PublishedRecords
  <2>3. CASE i = Len(topic[m][k]) + 1
    BY <2>1, <2>2, <2>3
  <2>4. CASE i \in 1..Len(topic[m][k])
    <3>1. topic'[m][k][i] = topic[m][k][i]
      BY <2>4, TopicsExtend
    <3>2. QED
      BY <2>1, <2>2, <2>4, <3>1 DEF SourcesKnown, SourceKnown
  <2>5. i = Len(topic[m][k]) + 1 \/ i \in 1..Len(topic[m][k])
    BY <1>2, <2>2
  <2>6. QED
    BY <2>3, <2>4, <2>5
<1>6. ASSUME NEW w \in Nodes, NEW id \in Ids, Repeats(w, id), topic'[m][k] # topic[m][k]
      PROVE  k \notin Events /\ topic'[m][k][i].source \in Range(DependsOn[m])
  <2>1. k \in Ids
    BY <1>6, RepeatRecords
  <2>2. k \notin Events
    BY <2>1, SwarmAssumption
  <2>3. PICK j \in 1..Len(topic[m][k]) : topic'[m][k][i] = topic[m][k][j]
    BY <1>6, RepeatRecords
  <2>4. QED
    BY <2>2, <2>3 DEF SourcesKnown, SourceKnown
<1>7. QED
  BY <1>3, <1>4, <1>5, <1>6, TopicChanges

\* What went to all outputs is there for good.
LEMMA SentStays ==
  ASSUME TypeOK, [Next]_vars, NEW n, NEW id \in Ids, NEW data, Sent(n, id, data)
  PROVE  Sent(n, id, data)'
<1>1. \A o \in Outputs(n, Len(NodeOrder)) : o \in Nodes
  BY AllOutputs
<1>2. ASSUME NEW o \in Outputs(n, Len(NodeOrder))
      PROVE  \E j \in 1..Len(topic'[o][id]) : topic'[o][id][j] = [source |-> n, data |-> data]
  <2>1. PICK j \in 1..Len(topic[o][id]) : topic[o][id][j] = [source |-> n, data |-> data]
    BY DEF Sent
  <2>2. j \in 1..Len(topic'[o][id]) /\ topic'[o][id][j] = topic[o][id][j]
    BY <1>1, TopicsExtend DEF Keys
  <2>3. QED
    BY <2>1, <2>2
<1>3. QED
  BY <1>2 DEF Sent

\* A result that is published to the end is at all outputs.
LEMMA SentNow ==
  ASSUME TypeOK, NEW n \in Workers, NEW id \in Ids, NEW data \in SUBSET Events,
         topic' = PublishedToAll(n, id, data)
  PROVE  Sent(n, id, data)'
<1> DEFINE result == [source |-> n, data |-> data]
<1>1. ASSUME NEW o \in Outputs(n, Len(NodeOrder))
      PROVE  \E j \in 1..Len(topic'[o][id]) : topic'[o][id][j] = result
  <2>1. o \in Nodes /\ id \in Keys /\ result \in Message
    BY AllOutputs, SwarmAssumption DEF Keys, Message, Sources
  <2>2. topic[o][id] \in Seq(Message) /\ topic[o] \in [Keys -> Seq(Message)]
    BY <2>1 DEF TypeOK
  <2>3. topic'[o] = [topic[o] EXCEPT ![id] = Append(topic[o][id], result)]
    BY <2>1 DEF PublishedToAll, Published
  <2>4. topic'[o][id] = Append(topic[o][id], result)
    BY <2>1, <2>2, <2>3
  <2>5. /\ Len(topic[o][id]) + 1 \in 1..Len(topic'[o][id])
        /\ topic'[o][id][Len(topic[o][id]) + 1] = result
    BY <2>1, <2>2, <2>4
  <2>6. QED
    BY <2>5
<1>2. QED
  BY <1>1 DEF Sent

\* A payload stays submitted.
LEMMA SubmittedStays ==
  ASSUME TypeOK, [Next]_vars, NEW e \in Events, Submitted(e)
  PROVE  Submitted(e)'
<1>1. PICK r \in Roots : topic[r][e] # <<>>
  BY DEF Submitted
<1>2. r \in Nodes /\ e \in Keys
  BY SwarmAssumption DEF Roots, Keys
<1>3. topic[r][e] \in Seq(Message) /\ topic[r][e] # <<>>
  BY <1>1, <1>2 DEF TypeOK
<1>4. 1 \in 1..Len(topic[r][e])
  BY <1>3
<1>5. 1 \in 1..Len(topic'[r][e])
  BY <1>2, <1>4, TopicsExtend
<1>6. topic'[r][e] # <<>>
  BY <1>5
<1>7. QED
  BY <1>6 DEF Submitted

\* What a fan-in node has in an entry, or is about to, was submitted.
LEMMA EntrySubmitted ==
  ASSUME TypeOK, EventsSubmitted, NEW n \in FanIns, NEW id \in Ids
  PROVE  /\ \A e \in Merged(joins[n][id]) : Submitted(e)
         /\ \A e \in Merged(changelog[n][id]) : Submitted(e)
         /\ HasNext(n, id) => \A e \in Merged(Joined(n, id)) : Submitted(e)
         /\ Merged(NoJoin) = {}
<1>1. ASSUME HasNext(n, id), NEW e \in Merged(Joined(n, id)) PROVE Submitted(e)
  <2>1. n \in Workers /\ n \in Nodes /\ id \in Keys /\ joins[n][id] \in Entry
    BY SwarmAssumption DEF FanIns, Keys, TypeOK, Entry
  <2>2. PICK s \in Sources : e \in Joined(n, id)[s]
    BY DEF Merged
  <2>3. Joined(n, id)[s] = IF s = NextOf(n, id).source THEN NextOf(n, id).data ELSE joins[n][id][s]
    BY <2>1 DEF Joined, Entry
  <2>4. CASE e \in NextOf(n, id).data
    BY <1>1, <2>1, <2>4, InHand DEF NextOf, EventsSubmitted
  <2>5. CASE e \in joins[n][id][s]
    BY <2>5 DEF EventsSubmitted, Merged
  <2>6. QED
    BY <2>2, <2>3, <2>4, <2>5
<1>2. QED
  BY <1>1 DEF EventsSubmitted, Merged, NoJoin

\* Events only move from one place to another.
LEMMA EventsSubmittedStep ==
  ASSUME TypeOK, EventsSubmitted, [Next]_vars
  PROVE  EventsSubmitted'
<1>0. /\ TypeOK'
      /\ \A n \in FanIns : n \in Workers /\ n \in Nodes
      /\ \A id \in Ids : id \in Keys
  BY TypeStep, SwarmAssumption DEF FanIns, Keys
<1>1. ASSUME NEW m \in Nodes, NEW k \in Keys, NEW i \in 1..Len(topic'[m][k]),
             NEW e \in topic'[m][k][i].data
      PROVE  Submitted(e)'
  <2>0. /\ topic[m][k] \in Seq(Message) /\ Len(topic[m][k]) \in Nat
        /\ topic'[m][k] \in Seq(Message)
    BY <1>0 DEF TypeOK
  <2>1. topic'[m][k][i] \in Message
    BY <1>1, <2>0
  <2>2. e \in Events
    BY <2>1 DEF Message
  <2>3. CASE topic'[m][k] = topic[m][k]
    <3>1. Submitted(e)
      BY <1>1, <2>3 DEF EventsSubmitted
    <3>2. QED
      BY <2>2, <3>1, SubmittedStays
  <2>4. ASSUME NEW n \in Roots, NEW f \in Events, Submit(n, f), topic'[m][k] # topic[m][k]
        PROVE  Submitted(e)'
    <3>1. n \in Nodes /\ f \in Keys
      BY SwarmAssumption DEF Roots, Keys
    <3>2. m = n /\ k = f /\ topic'[n][f] = <<[source |-> Outside, data |-> {f}]>>
      BY <2>4, <3>1 DEF Submit, TypeOK
    <3>3. i = 1 /\ topic'[m][k][1] = [source |-> Outside, data |-> {f}]
      BY <1>1, <3>2
    <3>4. e = f
      BY <1>1, <3>3
    <3>5. topic'[n][e] = topic'[m][k] /\ topic'[m][k] # <<>>
      BY <1>1, <2>0, <3>2, <3>4
    <3>6. QED
      BY <3>5 DEF Submitted
  <2>5. ASSUME NEW n \in Workers, NEW id \in Ids, NEW j \in 0..Len(NodeOrder),
               NEW data \in SUBSET Events, Publishes(n, id, data),
               topic' = Published(n, id, data, j), topic'[m][k] # topic[m][k]
        PROVE  Submitted(e)'
    <3>1. n \in Nodes
      BY SwarmAssumption
    <3>2. /\ k = id
          /\ Len(topic'[m][k]) = Len(topic[m][k]) + 1
          /\ topic'[m][k][Len(topic[m][k]) + 1] = [source |-> n, data |-> data]
      BY <2>5, <3>1, PublishedRecords
    <3>3. CASE i \in 1..Len(topic[m][k])
      <4>1. topic'[m][k][i] = topic[m][k][i]
        BY <3>3, TopicsExtend
      <4>2. Submitted(e)
        BY <1>1, <3>3, <4>1 DEF EventsSubmitted
      <4>3. QED
        BY <2>2, <4>2, SubmittedStays
    <3>4. CASE i = Len(topic[m][k]) + 1
      <4>1. e \in data
        BY <1>1, <3>2, <3>4
      <4>2. CASE n \notin FanIns
        <5>1. PICK l \in Keys : \E h \in 1..Len(topic[n][l]) : data = topic[n][l][h].data
          BY <2>5, <4>2 DEF Publishes
        <5>2. Submitted(e)
          BY <3>1, <4>1, <5>1 DEF EventsSubmitted
        <5>3. QED
          BY <2>2, <5>2, SubmittedStays
      <4>3. CASE n \in FanIns
        <5>1. Submitted(e)
          BY <2>5, <4>1, <4>3, EntrySubmitted DEF Publishes
        <5>2. QED
          BY <2>2, <5>1, SubmittedStays
      <4>4. QED
        BY <4>2, <4>3
    <3>5. i = Len(topic[m][k]) + 1 \/ i \in 1..Len(topic[m][k])
      BY <1>1, <2>0, <3>2
    <3>6. QED
      BY <3>3, <3>4, <3>5
  <2>6. ASSUME NEW w \in Nodes, NEW id \in Ids, Repeats(w, id) PROVE Submitted(e)'
    <3>1. PICK j \in 1..Len(topic[m][k]) : topic'[m][k][i] = topic[m][k][j]
      BY <1>1, <2>6, RepeatRecords
    <3>2. Submitted(e)
      BY <1>1, <3>1 DEF EventsSubmitted
    <3>3. QED
      BY <2>2, <3>2, SubmittedStays
  <2>7. QED
    BY <2>3, <2>4, <2>5, <2>6, TopicChanges
<1>2. ASSUME NEW n \in FanIns, NEW id \in Ids,
             NEW e \in Merged(changelog'[n][id]) \cup Merged(joins'[n][id])
      PROVE  Submitted(e)'
  <2>1. e \in Events
    BY <1>0, <1>2 DEF TypeOK, Merged
  <2>2. Submitted(e)
    BY <1>2, JoinChanges, EntrySubmitted
       DEF JoinStays, JoinRecords, JoinCompletes, CompletesWith
  <2>3. QED
    BY <2>1, <2>2, SubmittedStays
<1>3. QED
  BY <1>1, <1>2 DEF EventsSubmitted

\* A straight-through node marks a message when its result went to all outputs.
LEMMA PassedOnStep ==
  ASSUME TypeOK, PassedOn, [Next]_vars
  PROVE  PassedOn'
<1>0. PassedOn' <=> \A n \in Workers \ FanIns, k \in Keys : \A i \in 1..pos'[n][k] :
        \E id \in CorrelationIds(k) : \A o \in Outputs(n, Len(NodeOrder)) :
          \E j \in 1..Len(topic'[o][id]) :
            topic'[o][id][j] = [source |-> n, data |-> topic'[n][k][i].data]
  BY DEF PassedOn, Sent
<1>1. SUFFICES ASSUME NEW n \in Workers \ FanIns, NEW k \in Keys, NEW i \in 1..pos'[n][k]
               PROVE  \E id \in CorrelationIds(k) : \E d : /\ d = topic'[n][k][i].data
                                                            /\ Sent(n, id, d)'
  <2>1. ASSUME NEW n \in Workers \ FanIns, NEW k \in Keys, NEW i \in 1..pos'[n][k],
               \E id \in CorrelationIds(k) : \E d : /\ d = topic'[n][k][i].data
                                                     /\ Sent(n, id, d)'
        PROVE  \E id \in CorrelationIds(k) : \A o \in Outputs(n, Len(NodeOrder)) :
                 \E j \in 1..Len(topic'[o][id]) :
                   topic'[o][id][j] = [source |-> n, data |-> topic'[n][k][i].data]
    <3>0. PICK id \in CorrelationIds(k) : \E d : /\ d = topic'[n][k][i].data
                                                  /\ Sent(n, id, d)'
      BY <2>1
    <3>1. PICK d : d = topic'[n][k][i].data /\ Sent(n, id, d)'
      BY <3>0
    <3>2. \A o \in Outputs(n, Len(NodeOrder)) : \E j \in 1..Len(topic'[o][id]) :
            topic'[o][id][j] = [source |-> n, data |-> d]
      BY <3>1 DEF Sent
    <3>3. QED
      BY <3>1, <3>2
  <2>2. QED
    BY <1>0, <1>1, <2>1
<1>2. /\ n \in Nodes /\ CorrelationIds(k) \subseteq Ids
      /\ pos[n][k] \in Nat /\ Len(topic[n][k]) \in Nat
      /\ pos[n][k] <= Len(topic[n][k])
  <2>1. /\ n \in Nodes /\ pos[n][k] \in Nat
        /\ topic[n][k] \in Seq(Message) /\ pos[n][k] <= Len(topic[n][k])
    BY SwarmAssumption DEF TypeOK
  <2>2. CorrelationIds(k) \subseteq Ids
    BY SwarmAssumption DEF CorrelationIds, Keys
  <2>3. QED
    BY <2>1, <2>2
<1>3. CASE i \in 1..pos[n][k]
  <2>1. PICK id \in CorrelationIds(k) : Sent(n, id, topic[n][k][i].data)
    BY <1>3 DEF PassedOn
  <2>2. topic'[n][k][i] = topic[n][k][i]
    BY <1>2, <1>3, TopicsExtend
  <2>3. PICK d : d = topic[n][k][i].data
    OBVIOUS
  <2>4. Sent(n, id, d)'
    BY <1>2, <2>1, <2>3, SentStays
  <2>5. QED
    BY <2>2, <2>3, <2>4
<1>4. CASE HandleStraight(n, k) /\ pos'[n][k] = pos[n][k] + 1 /\ i = pos[n][k] + 1
  <2>1. PICK id \in CorrelationIds(k) : topic' = PublishedToAll(n, id, NextOf(n, k).data)
    BY <1>4 DEF HandleStraight
  <2>2. NextOf(n, k).data \in SUBSET Events /\ i \in 1..Len(topic[n][k])
    BY <1>1, <1>2, <1>4, InHand DEF HandleStraight, HasNext
  <2>3. PICK d \in SUBSET Events : d = NextOf(n, k).data
    BY <2>2
  <2>4. Sent(n, id, d)'
    BY <1>2, <2>1, <2>3, SentNow
  <2>5. topic'[n][k][i].data = d
    BY <1>2, <1>4, <2>2, <2>3, TopicsExtend DEF NextOf
  <2>6. QED
    BY <2>4, <2>5
<1>5. QED
  <2>1. pos'[n][k] \in Nat
    <3>1. TypeOK'
      BY TypeStep
    <3>2. QED
      BY <3>1 DEF TypeOK
  <2>2. QED
    BY <1>1, <1>2, <1>3, <1>4, <2>1, StraightChanges

\* A result that goes out is that of the one event which may have the ID.
LEMMA CompletedIsDone ==
  ASSUME DistinctIds, TypeOK, PureInv, NEW n \in FanIns, NEW id \in Ids, JoinCompletes(n, id)
  PROVE  DoneJoin(n, id)'
<1>0. n \in Workers /\ id \in Keys
  BY DEF FanIns, Keys
<1>1. ASSUME NEW st \in Entry, PureEntry(id, st), CompletesWith(n, id, st)
      PROVE  DoneJoin(n, id)'
  <2>1. Pure(id, Merged(st))
    BY <1>1, CompleteHas, MergedPure DEF CompletesWith
  <2>2. PICK e \in Events : Merged(st) = {e} /\ id \in MintedIds[e]
    BY <2>1, SwarmAssumption DEF Pure
  <2>3. Sent(n, id, {e})'
    BY <1>0, <1>1, <2>2, SentNow DEF CompletesWith
  <2>4. QED
    BY <2>2, <2>3 DEF DoneJoin
<1>2. CASE CompletesWith(n, id, joins[n][id])
  BY <1>1, <1>2 DEF PureInv, EntriesPure, TypeOK, Entry
<1>3. CASE HasNext(n, id) /\ CompletesWith(n, id, Joined(n, id))
  BY <1>0, <1>1, <1>3, InHand, InHandPure
<1>4. QED
  BY <1>2, <1>3 DEF JoinCompletes

\* A fan-in node marks a contribution when it is recorded or its join is done.
LEMMA JoinsKeptStep ==
  ASSUME DistinctIds, TypeOK, PureInv, JoinsKept, [Next]_vars
  PROVE  JoinsKept'
<1>0. SUFFICES ASSUME NEW n \in FanIns, NEW id \in Ids, ~DoneJoin(n, id)'
               PROVE  /\ joins'[n][id] = changelog'[n][id]
                      /\ \A i \in 1..pos'[n][id] : joins'[n][id][topic'[n][id][i].source] # {}
  BY DEF JoinsKept
<1>1. ~DoneJoin(n, id)
  <2>1. SUFFICES ASSUME DoneJoin(n, id) PROVE DoneJoin(n, id)'
    BY <1>0
  <2>2. PICK e \in Events : id \in MintedIds[e] /\ Sent(n, id, {e})
    BY <2>1 DEF DoneJoin
  <2>3. Sent(n, id, {e})'
    BY <2>2, SentStays
  <2>4. QED
    BY <2>2, <2>3 DEF DoneJoin
<1>2. /\ joins[n][id] = changelog[n][id]
      /\ \A i \in 1..pos[n][id] : joins[n][id][topic[n][id][i].source] # {}
  BY <1>1 DEF JoinsKept
<1>3. /\ n \in Workers /\ n \in Nodes /\ id \in Keys
      /\ pos[n][id] \in Nat /\ pos'[n][id] \in Nat
      /\ topic[n][id] \in Seq(Message) /\ Len(topic[n][id]) \in Nat
      /\ pos[n][id] <= Len(topic[n][id])
  <2>1. TypeOK'
    BY TypeStep
  <2>2. n \in Workers /\ n \in Nodes /\ id \in Keys
    BY SwarmAssumption DEF FanIns, Keys
  <2>3. QED
    BY <2>1, <2>2 DEF TypeOK
<1>4. \A i \in 1..pos[n][id] : topic'[n][id][i] = topic[n][id][i]
  BY <1>3, TopicsExtend
<1>5. CASE JoinStays(n, id)
  <2>1. joins'[n][id] = joins[n][id] /\ joins'[n][id] = changelog'[n][id]
    BY <1>2, <1>5 DEF JoinStays
  <2>2. \A i \in 1..pos'[n][id] : i \in 1..pos[n][id]
    BY <1>3, <1>5 DEF JoinStays
  <2>3. QED
    BY <1>2, <1>4, <2>1, <2>2
<1>6. CASE JoinRecords(n, id)
  <2>1. ASSUME NEW i \in 1..pos'[n][id] PROVE Joined(n, id)[topic'[n][id][i].source] # {}
    <3>1. /\ i \in 1..Len(topic[n][id]) /\ (i \in 1..pos[n][id] \/ i = pos[n][id] + 1)
          /\ pos[n][id] + 1 \in 1..Len(topic[n][id])
      BY <1>3, <1>6, <2>1 DEF JoinRecords, HasNext
    <3>2. topic'[n][id][i] = topic[n][id][i] /\ topic[n][id][i].source \in Sources
      <4>1. topic[n][id][i] \in Message
        BY <1>3, <3>1
      <4>2. QED
        BY <1>3, <3>1, <4>1, TopicsExtend DEF Message
    <3>3. NextOf(n, id).data # {}
      <4>1. Pure(id, NextOf(n, id).data)
        BY <1>3, <1>6, InHandPure DEF JoinRecords
      <4>2. QED
        BY <4>1 DEF Pure
    <3>4. joins[n][id] \in Entry
      BY DEF TypeOK, Entry
    <3>5. \A s \in Sources :
            Joined(n, id)[s] = IF s = NextOf(n, id).source THEN NextOf(n, id).data
                                                           ELSE joins[n][id][s]
      BY <3>4 DEF Joined, Entry
    <3>6. CASE i \in 1..pos[n][id]
      BY <1>2, <3>2, <3>3, <3>5, <3>6
    <3>7. CASE i = pos[n][id] + 1
      BY <3>2, <3>3, <3>5, <3>7 DEF NextOf
    <3>8. QED
      BY <3>1, <3>6, <3>7
  <2>2. QED
    BY <1>6, <2>1 DEF JoinRecords
<1>7. CASE JoinCompletes(n, id)
  BY <1>0, <1>7, CompletedIsDone
<1>8. QED
  BY <1>5, <1>6, <1>7, JoinChanges

\* What every swarm keeps to, whatever its DAG.
LEMMA FlowAlways ==
  ASSUME DistinctIds
  PROVE  Spec => [](TypeOK /\ PureInv /\ FlowInv)
<1>1. Init => PureInv /\ FlowInv
  <2> SUFFICES ASSUME Init PROVE PureInv /\ FlowInv
    OBVIOUS
  <2>1. \A n \in Nodes, k \in Keys : Len(topic[n][k]) = 0
    BY DEF Init
  <2>2. \A n \in FanIns, id \in Ids : joins[n][id] = NoJoin /\ changelog[n][id] = NoJoin
    BY DEF Init
  <2>3. \A n \in Workers, k \in Keys : pos[n][k] = 0
    BY DEF Init
  <2>4. PureInv
    BY <2>1, <2>2 DEF PureInv, TopicsPure, EntriesPure, PureEntry, NoJoin
  <2>5. SourcesKnown /\ EventsSubmitted
    BY <2>1, <2>2 DEF SourcesKnown, EventsSubmitted, Merged, NoJoin
  <2>6. PassedOn
    BY <2>3 DEF PassedOn
  <2>7. JoinsKept
    <3>1. \A n \in FanIns, id \in Ids : pos[n][id] = 0
      BY <2>3 DEF FanIns, Keys
    <3>2. QED
      BY <2>2, <3>1 DEF JoinsKept
  <2>8. QED
    BY <2>4, <2>5, <2>6, <2>7 DEF FlowInv
<1>2. TypeOK /\ PureInv /\ FlowInv /\ [Next]_vars => PureInv' /\ FlowInv'
  BY PureStep, SourcesKnownStep, EventsSubmittedStep, PassedOnStep, JoinsKeptStep DEF FlowInv
<1>3. QED
  BY <1>1, <1>2, SwarmTypeCorrect, PTL DEF Spec

-----------------------------------------------------------------------------
\* A relation the backends can expand, unlike OpToRel(<, Nat).
Less == {ss \in Nat \X Nat : ss[1] < ss[2]}

\* There is no infinite descent of ranks.
LEMMA LessWellFounded == IsWellFoundedOn(Less, Nat)
BY NatLessThanWellFounded, Zenon DEF OpToRel, Less

\* Some element of a non-empty set is ranked least.
LEMMA LeastRanked ==
  ASSUME NEW S, NEW rank, \A s \in S : rank[s] \in Nat, S # {}
  PROVE  \E m \in S : \A s \in S : rank[m] <= rank[s]
<1> DEFINE ranks == {rank[s] : s \in S}
<1>1. ranks \subseteq Nat /\ ranks # {}
  OBVIOUS
<1>2. PICK r \in ranks : \A x \in ranks : ~(<<x, r>> \in Less)
  <2> HIDE DEF ranks
  <2>1. QED
    BY <1>1, LessWellFounded, WFMin
<1>3. PICK m \in S : r = rank[m]
  BY <1>2
<1>4. ASSUME NEW s \in S PROVE rank[m] <= rank[s]
  <2>1. rank[s] < rank[m] => <<rank[s], rank[m]>> \in Less
    BY Zenon DEF Less
  <2>2. ~(<<rank[s], rank[m]>> \in Less)
    BY <1>2, <1>3
  <2>3. QED
    BY <2>1, <2>2
<1>5. QED
  BY <1>4

\* A fan-in node has as many dependencies as its list is long, and a join has room
\* for finitely many.
LEMMA DependencyCount ==
  ASSUME NEW n \in Nodes
  PROVE  /\ IsFiniteSet(Range(DependsOn[n]))
         /\ Cardinality(Range(DependsOn[n])) = Len(DependsOn[n])
         /\ \A st : IsFiniteSet(Have(st))
<1> DEFINE deps == DependsOn[n]
<1>1. deps \in Seq(Nodes) /\ IsInjective(deps) /\ Len(deps) \in Nat /\ DOMAIN deps = 1..Len(deps)
  BY SwarmAssumption
<1>2. deps \in Bijection(1..Len(deps), Range(deps))
  BY <1>1 DEF Bijection, Injection, Surjection, Range
<1>3. IsFiniteSet(1..Len(deps)) /\ Cardinality(1..Len(deps)) = Len(deps)
  BY <1>1, FS_Interval
<1>4. IsFiniteSet(Range(deps)) /\ Cardinality(Range(deps)) = Len(deps)
  BY <1>2, <1>3, FS_Bijection DEF ExistsBijection
<1>5. IsFiniteSet(Nodes)
  <2>1. Len(NodeOrder) \in Nat /\ NodeOrder \in [1..Len(NodeOrder) -> Nodes]
    BY SwarmAssumption
  <2>2. NodeOrder \in Surjection(1..Len(NodeOrder), Nodes)
    BY <2>1 DEF Surjection, Nodes, Range
  <2>3. QED
    BY <2>1, <2>2, FS_Interval, FS_Surjection
<1>6. IsFiniteSet(Sources)
  BY <1>5, FS_AddElement DEF Sources
<1>7. \A st : IsFiniteSet(Have(st))
  BY <1>6, FS_Subset DEF Have
<1>8. QED
  BY <1>4, <1>7

\* A join is complete when it has a contribution of each dependency.
LEMMA CompleteWhenAll ==
  ASSUME NEW n \in FanIns, NEW st
  PROVE  /\ Range(DependsOn[n]) \subseteq Have(st) => Complete(n, st)
         /\ Have(st) \subseteq Range(DependsOn[n]) /\ Complete(n, st)
              => Have(st) = Range(DependsOn[n])
<1>1. n \in Nodes
  BY SwarmAssumption DEF FanIns
<1>2. /\ IsFiniteSet(Range(DependsOn[n])) /\ IsFiniteSet(Have(st))
      /\ Cardinality(Range(DependsOn[n])) = Len(DependsOn[n])
      /\ Cardinality(Have(st)) \in Nat /\ Len(DependsOn[n]) \in Nat
  BY <1>1, DependencyCount, FS_CardinalityType
<1>3. ASSUME Range(DependsOn[n]) \subseteq Have(st) PROVE Complete(n, st)
  BY <1>2, <1>3, FS_Subset DEF Complete
<1>4. ASSUME Have(st) \subseteq Range(DependsOn[n]), Complete(n, st)
      PROVE  Have(st) = Range(DependsOn[n])
  <2>1. Cardinality(Have(st)) <= Cardinality(Range(DependsOn[n]))
    BY <1>2, <1>4, FS_Subset
  <2>2. Cardinality(Have(st)) = Cardinality(Range(DependsOn[n]))
    BY <1>2, <1>4, <2>1 DEF Complete
  <2>3. QED
    BY <1>2, <1>4, <2>2, FS_Subset
<1>5. QED
  BY <1>3, <1>4

\* The one record of an event's key is the payload itself, at the entry node.
LEMMA PayloadIsEvent ==
  ASSUME TypeOK, PureInv, FlowInv, NEW n \in Nodes, NEW e \in Events, topic[n][e] # <<>>
  PROVE  /\ Len(topic[n][e]) = 1 /\ topic[n][e][1] = [source |-> Outside, data |-> {e}]
         /\ n \in Roots
<1>1. e \in Keys /\ e \notin Ids
  BY SwarmAssumption DEF Keys
<1>2. topic[n][e] \in Seq(Message) /\ Len(topic[n][e]) \in Nat /\ 1 \in 1..Len(topic[n][e])
  BY <1>1 DEF TypeOK
<1>3. \A i \in 1..Len(topic[n][e]) : i = 1 /\ n \in Roots /\ topic[n][e][i].source = Outside
  BY <1>1 DEF FlowInv, SourcesKnown, SourceKnown
<1>4. Len(topic[n][e]) \in 1..Len(topic[n][e])
  BY <1>2
<1>5. topic[n][e][1].data = {e}
  BY <1>1, <1>2 DEF PureInv, TopicsPure, Pure
<1>6. topic[n][e][1] \in Message
  BY <1>2
<1>7. topic[n][e][1] = [source |-> Outside, data |-> {e}]
  BY <1>2, <1>3, <1>5, <1>6 DEF Message
<1>8. QED
  BY <1>2, <1>3, <1>4, <1>7

\* At rest a submitted event has gone all the way through the DAG under one ID: of
\* the nodes that did not send it on, none can be the first.
LEMMA AllReached ==
  ASSUME DistinctIds, EntryDAG, TypeOK, PureInv, FlowInv, AtRest, NEW e \in Events, Submitted(e)
  PROVE  \E id \in MintedIds[e] : \A n \in Workers : Sent(n, id, {e})
<1>1. PICK r \in Roots : topic[r][e] # <<>>
  BY DEF Submitted
<1>2. /\ r \in Workers /\ r \in Nodes /\ r \notin FanIns /\ DependsOn[r] = <<>>
      /\ e \in Keys /\ e \notin Ids
  BY SwarmAssumption DEF Roots, Keys, FanIns
<1>3. \A n \in Workers, k \in Keys : /\ pos[n][k] = Len(topic[n][k])
                                     /\ \A i \in 1..Len(topic[n][k]) : i \in 1..pos[n][k]
  <2>1. ASSUME NEW n \in Workers, NEW k \in Keys PROVE pos[n][k] = Len(topic[n][k])
    <3>1. n \in Nodes
      BY SwarmAssumption
    <3>2. topic[n][k] \in Seq(Message) /\ Len(topic[n][k]) \in Nat /\ pos[n][k] \in Nat
      BY <3>1 DEF TypeOK
    <3>3. pos[n][k] <= Len(topic[n][k]) /\ ~(pos[n][k] < Len(topic[n][k]))
      BY DEF TypeOK, AtRest, HasNext
    <3>4. QED
      BY <3>2, <3>3
  <2>2. QED
    BY <2>1
<1>4. PICK id \in MintedIds[e] : Sent(r, id, {e})
  <2>1. Len(topic[r][e]) = 1 /\ topic[r][e][1] = [source |-> Outside, data |-> {e}]
    BY <1>1, <1>2, PayloadIsEvent
  <2>2. 1 \in 1..pos[r][e] /\ topic[r][e][1].data = {e}
    BY <1>2, <1>3, <2>1
  <2>3. CorrelationIds(e) = MintedIds[e]
    BY <1>2 DEF CorrelationIds
  <2>4. \E c \in CorrelationIds(e) : Sent(r, c, topic[r][e][1].data)
    BY <1>2, <2>2 DEF FlowInv, PassedOn
  <2>5. QED
    BY <2>2, <2>3, <2>4
<1>5. id \in Ids /\ id \in Keys
  BY SwarmAssumption DEF Keys
<1> DEFINE missing == {n \in Workers : ~Sent(n, id, {e})}
<1>6. SUFFICES ASSUME missing # {} PROVE FALSE
  BY <1>4
<1>7. PICK rank \in [Nodes -> 1..Len(NodeOrder)] :
        \A n \in Workers : \A d \in Range(DependsOn[n]) : rank[d] < rank[n]
  BY DEF EntryDAG
<1>8. \A n \in Nodes : rank[n] \in Nat
  BY <1>7, SwarmAssumption
<1>9. PICK n \in missing : \A m \in missing : rank[n] <= rank[m]
  <2>1. \A m \in missing : rank[m] \in Nat
    BY <1>8, SwarmAssumption
  <2> HIDE DEF missing
  <2>2. QED
    BY <1>6, <2>1, LeastRanked
<1>10. n \in Workers /\ n \in Nodes /\ ~Sent(n, id, {e})
  BY <1>9, SwarmAssumption
<1>11. DependsOn[n] # <<>>
  BY <1>4, <1>10 DEF EntryDAG, Roots
<1>12. ASSUME NEW d \in Range(DependsOn[n])
       PROVE  \E j \in 1..pos[n][id] : topic[n][id][j] = [source |-> d, data |-> {e}]
  <2>1. d \in Workers /\ d \in Nodes
    BY <1>10, SwarmAssumption DEF EntryDAG
  <2>2. rank[d] < rank[n] /\ rank[d] \in Nat /\ rank[n] \in Nat
    BY <1>7, <1>8, <1>10, <2>1
  <2>3. d \notin missing
    <3>1. d \in missing => rank[n] <= rank[d]
      BY <1>9
    <3>2. QED
      BY <2>2, <3>1
  <2>4. Sent(d, id, {e})
    BY <2>1, <2>3
  <2>5. n \in Outputs(d, Len(NodeOrder))
    BY <1>10, AllOutputs
  <2>6. QED
    BY <1>3, <1>5, <1>10, <2>4, <2>5 DEF Sent
<1>13. CASE n \notin FanIns
  <2>1. PICK d : d \in Range(DependsOn[n])
    <3>1. DependsOn[n] \in Seq(Nodes)
      BY <1>10, SwarmAssumption
    <3>2. 1 \in DOMAIN DependsOn[n]
      BY <1>11, <3>1
    <3>3. QED
      BY <3>2 DEF Range
  <2>2. PICK j \in 1..pos[n][id] : topic[n][id][j] = [source |-> d, data |-> {e}]
    BY <1>12, <2>1
  <2>3. topic[n][id][j].data = {e} /\ CorrelationIds(id) = {id}
    BY <1>5, <2>2 DEF CorrelationIds
  <2>4. \E c \in CorrelationIds(id) : Sent(n, c, topic[n][id][j].data)
    BY <1>5, <1>10, <1>13 DEF FlowInv, PassedOn
  <2>5. QED
    BY <1>10, <2>3, <2>4
<1>14. CASE n \in FanIns
  <2>1. CASE DoneJoin(n, id)
    <3>1. PICK f \in Events : id \in MintedIds[f] /\ Sent(n, id, {f})
      BY <2>1 DEF DoneJoin
    <3>2. f = e
      BY <3>1 DEF DistinctIds
    <3>3. QED
      BY <1>10, <3>1, <3>2
  <2>2. CASE \A i \in 1..pos[n][id] : joins[n][id][topic[n][id][i].source] # {}
    <3>1. ASSUME NEW d \in Range(DependsOn[n]) PROVE d \in Have(joins[n][id])
      <4>1. joins[n][id][d] # {}
        <5>1. PICK j \in 1..pos[n][id] : topic[n][id][j] = [source |-> d, data |-> {e}]
          BY <1>12, <3>1
        <5>2. topic[n][id][j].source = d
          BY <5>1
        <5>3. QED
          BY <2>2, <5>2
      <4>2. d \in Sources
        BY <1>10, SwarmAssumption DEF EntryDAG, Sources
      <4>3. QED
        BY <4>1, <4>2 DEF Have
    <3>2. Complete(n, joins[n][id])
      BY <1>14, <3>1, CompleteWhenAll
    <3>3. QED
      BY <1>5, <1>10, <1>14, <3>2 DEF AtRest, Recoverable
  <2>3. QED
    BY <1>5, <1>14, <2>1, <2>2 DEF FlowInv, JoinsKept
<1>15. QED
  BY <1>13, <1>14

\* RestMeansDecided: when the swarm has come to rest, every event that was submitted
\* has its decision at the gate, whatever died on the way and whatever IDs the event
\* was given: what EveryEventDecided says, but for the fairness that brings the rest
\* about.
THEOREM RestMeansDecided ==
  ASSUME DistinctIds, EntryDAG
  PROVE  Spec => [](AtRest => \A e \in Events : Submitted(e) => Decided(e))
<1>1. ASSUME TypeOK, PureInv, FlowInv, AtRest, NEW e \in Events, Submitted(e) PROVE Decided(e)
  <2>1. PICK id \in MintedIds[e] : \A n \in Workers : Sent(n, id, {e})
    BY <1>1, AllReached
  <2>2. Gate \in Nodes /\ id \in Keys /\ DependsOn[Gate] \in Seq(Nodes)
    BY SwarmAssumption DEF Keys
  <2>3. 1 \in DOMAIN DependsOn[Gate]
    BY <2>2 DEF EntryDAG
  <2>4. PICK d \in Workers : d \in Range(DependsOn[Gate])
    BY <2>3 DEF EntryDAG, Range
  <2>5. Gate \in Outputs(d, Len(NodeOrder))
    BY <2>2, <2>4, AllOutputs
  <2>6. PICK j \in 1..Len(topic[Gate][id]) : topic[Gate][id][j] = [source |-> d, data |-> {e}]
    BY <2>1, <2>5 DEF Sent
  <2>7. topic[Gate][id][j] \in MessagesOf(Gate) /\ topic[Gate][id][j].data = {e}
    BY <2>2, <2>6 DEF MessagesOf
  <2>8. QED
    BY <2>7 DEF Decided
<1>2. TypeOK /\ PureInv /\ FlowInv => (AtRest => \A e \in Events : Submitted(e) => Decided(e))
  BY <1>1
<1>3. QED
  BY <1>2, FlowAlways, PTL

\* LeftoversAreHarmless: what is in a changelog came from outside, so at rest it has
\* been decided, in every DAG with one entry and however many processes died.
THEOREM LeftoversHarmless ==
  ASSUME DistinctIds, EntryDAG
  PROVE  Spec => []LeftoversAreHarmless
<1>1. TypeOK /\ FlowInv /\ (AtRest => \A e \in Events : Submitted(e) => Decided(e))
        => LeftoversAreHarmless
  <2> SUFFICES ASSUME TypeOK, FlowInv, \A e \in Events : Submitted(e) => Decided(e),
                      NEW n \in FanIns, NEW id \in Ids, NEW e \in Merged(changelog[n][id])
               PROVE  Decided(e)
    BY DEF LeftoversAreHarmless
  <2>1. changelog[n][id] \in Entry
    BY DEF TypeOK, Entry
  <2>2. e \in Events
    BY <2>1, MergedType
  <2>3. Submitted(e)
    BY DEF FlowInv, EventsSubmitted
  <2>4. QED
    BY <2>2, <2>3
<1>2. QED
  BY <1>1, FlowAlways, RestMeansDecided, PTL

-----------------------------------------------------------------------------
(***************************************************************************)
(* Without disruptions nothing is left over.                               *)
(*                                                                         *)
(* A record that is nowhere twice (OnceEach) was sent on by the message    *)
(* that caused it, and once (ResultsHaveCause); so a join that is open is  *)
(* one whose contributions have not all come (JoinsOpen).                  *)
(***************************************************************************)

\* Handled(n, id): the sources whose contributions to id are behind n.
Handled(n, id) == {topic[n][id][i].source : i \in 1..pos[n][id]}

\* OnceEach: no topic has the same record twice.
OnceEach ==
  \A n \in Nodes, k, l \in Keys :
    \A i \in 1..Len(topic[n][k]), j \in 1..Len(topic[n][l]) :
      topic[n][k][i] = topic[n][l][j] => k = l /\ i = j

\* ResultsHaveCause: what a node has sent is the result of something behind it; at a
\* fan-in node, of all there is to the join.
Caused(n, id, data) ==
  /\ n \in Workers
  /\ IF n \in FanIns THEN Handled(n, id) = Range(DependsOn[n])
                     ELSE \E k \in Keys : \E i \in 1..pos[n][k] : topic[n][k][i].data = data

ResultsHaveCause ==
  \A o \in Nodes, id \in Ids, n \in Nodes, data \in SUBSET Events :
    \A j \in 1..Len(topic[o][id]) :
      topic[o][id][j] = [source |-> n, data |-> data] => Caused(n, id, data)

\* JoinsOpen: a join is open as long as contributions are missing.
JoinsOpen ==
  \A n \in FanIns, id \in Ids :
    /\ joins[n][id] = changelog[n][id]
    /\ \/ Have(joins[n][id]) = Handled(n, id) /\ ~Complete(n, joins[n][id])
       \/ Handled(n, id) = Range(DependsOn[n]) /\ joins[n][id] = NoJoin

Clean    == OnceEach /\ ResultsHaveCause /\ JoinsOpen
CleanInv == disruptions = 0 => Clean

\* The last step of a join whose tombstone is written.
CompletesCleanly(n, id) ==
  HandleComplete(n, id) /\ changelog' = [changelog EXCEPT ![n][id] = NoJoin]

\* The steps that are no disruption.
LEMMA CleanSteps ==
  ASSUME TypeOK, [Next]_vars, disruptions' = 0
  PROVE  /\ disruptions = 0
         /\ \/ \E n \in Roots, e \in Events : Submit(n, e)
            \/ \E n \in Workers \ FanIns, k \in Keys : HandleStraight(n, k)
            \/ \E n \in FanIns, id \in Ids : \/ HandlePartial(n, id)
                                             \/ CompletesCleanly(n, id)
                                             \/ id \in Recoverable(n)
            \/ UNCHANGED vars
<1>1. disruptions \in Nat
  BY SwarmAssumption DEF TypeOK
<1>2. ~Disrupt
  BY <1>1 DEF Disrupt
<1>3. \A n \in Workers : \A marked : ~ResumeFrom(n, marked) /\ ~RestartFrom(n, marked)
  BY <1>2 DEF ResumeFrom, RestartFrom
<1>4. \A n \in Workers : ~Crash(n) /\ ~Redelivery(n)
  BY <1>2, <1>3 DEF Crash, CrashStraight, CrashJoin, CrashRecovering, CrashIdle,
                    Redelivery, Rebalance, PublishLate, Resend
<1>5. ASSUME NEW n \in FanIns, NEW id \in Ids, HandleComplete(n, id)
      PROVE  CompletesCleanly(n, id) /\ UNCHANGED disruptions
  BY <1>2, <1>5 DEF HandleComplete, CompleteJoin, CompletesCleanly
<1>6. ASSUME NEW n \in FanIns, NEW id \in Ids, Recover(n, id)
      PROVE  id \in Recoverable(n) /\ UNCHANGED disruptions
  BY <1>2, <1>6 DEF Recover, CompleteJoin
<1>7. ASSUME NEW n \in Workers, Work(n)
      PROVE  /\ UNCHANGED disruptions
             /\ \/ n \notin FanIns /\ \E k \in Keys : HandleStraight(n, k)
                \/ n \in FanIns /\ \E id \in Ids : \/ HandlePartial(n, id)
                                                   \/ CompletesCleanly(n, id)
                                                   \/ id \in Recoverable(n)
  BY <1>5, <1>6, <1>7 DEF Work, HandleStraight, HandlePartial
<1>8. \A n \in Roots, e \in Events : Submit(n, e) => UNCHANGED disruptions
  BY DEF Submit
<1>9. UNCHANGED vars => UNCHANGED disruptions
  BY DEF vars
<1>10. QED
  BY <1>4, <1>7, <1>8, <1>9 DEF Next

\* A node that stays where it is, or puts one more message behind it.
MovesOn(n, k) ==
  \/ pos'[n][k] = pos[n][k]
  \/ HasNext(n, k) /\ pos'[n][k] = pos[n][k] + 1

\* Handling a message adds its source.
LEMMA HandledGrows ==
  ASSUME TypeOK, [Next]_vars, NEW n \in Workers, NEW id \in Ids, MovesOn(n, id)
  PROVE  /\ pos'[n][id] = pos[n][id] => Handled(n, id)' = Handled(n, id)
         /\ pos'[n][id] = pos[n][id] + 1 =>
              Handled(n, id)' = Handled(n, id) \cup {NextOf(n, id).source}
<1>1. n \in Nodes /\ id \in Keys
  BY SwarmAssumption DEF Keys
<1>2. /\ pos[n][id] \in Nat /\ topic[n][id] \in Seq(Message) /\ Len(topic[n][id]) \in Nat
      /\ pos[n][id] <= Len(topic[n][id])
  BY <1>1 DEF TypeOK
<1>3. \A i \in 1..pos'[n][id] : topic'[n][id][i] = topic[n][id][i]
  <2>1. \A i \in 1..pos'[n][id] : i \in 1..Len(topic[n][id])
    BY <1>2 DEF MovesOn, HasNext
  <2>2. QED
    BY <1>1, <2>1, TopicsExtend
<1>4. Handled(n, id)' = {topic[n][id][i].source : i \in 1..pos'[n][id]}
  BY <1>3 DEF Handled
<1>5. ASSUME pos'[n][id] = pos[n][id] + 1
      PROVE  Handled(n, id)' = Handled(n, id) \cup {NextOf(n, id).source}
  <2>1. 1..pos'[n][id] = (1..pos[n][id]) \cup {pos[n][id] + 1}
    BY <1>2, <1>5
  <2>2. QED
    BY <1>4, <2>1 DEF Handled, NextOf
<1>6. QED
  BY <1>4, <1>5 DEF Handled

\* What is behind a fan-in node came from its dependencies.
LEMMA HandledKnown ==
  ASSUME TypeOK, SourcesKnown, NEW n \in Workers, NEW id \in Ids
  PROVE  /\ Handled(n, id) \subseteq Range(DependsOn[n])
         /\ HasNext(n, id) => NextOf(n, id).source \in Range(DependsOn[n])
<1>1. n \in Nodes /\ id \in Keys /\ id \notin Events
  BY SwarmAssumption DEF Keys
<1>2. /\ pos[n][id] \in Nat /\ Len(topic[n][id]) \in Nat
      /\ pos[n][id] <= Len(topic[n][id])
  BY <1>1 DEF TypeOK
<1>3. \A i \in 1..Len(topic[n][id]) : topic[n][id][i].source \in Range(DependsOn[n])
  BY <1>1 DEF SourcesKnown, SourceKnown
<1>4. \A i \in 1..pos[n][id] : i \in 1..Len(topic[n][id])
  BY <1>2
<1>5. HasNext(n, id) => pos[n][id] + 1 \in 1..Len(topic[n][id])
  BY <1>2 DEF HasNext
<1>6. QED
  BY <1>3, <1>4, <1>5 DEF Handled, NextOf

\* What has a cause keeps it.
LEMMA CausedStays ==
  ASSUME TypeOK, SourcesKnown, [Next]_vars, NEW n \in Nodes, NEW id \in Ids, NEW data,
         Caused(n, id, data), \A k \in Keys : MovesOn(n, k)
  PROVE  Caused(n, id, data)'
<1>1. n \in Workers /\ id \in Keys
  BY DEF Caused, Keys
<1>2. CASE n \in FanIns
  <2>1. Handled(n, id) = Range(DependsOn[n])
    BY <1>2 DEF Caused
  <2>2. MovesOn(n, id)
    BY <1>1
  <2>3. Handled(n, id)' = Range(DependsOn[n])
    <3>1. CASE pos'[n][id] = pos[n][id]
      BY <1>1, <2>1, <2>2, <3>1, HandledGrows
    <3>2. CASE HasNext(n, id) /\ pos'[n][id] = pos[n][id] + 1
      <4>1. Handled(n, id)' = Handled(n, id) \cup {NextOf(n, id).source}
        BY <1>1, <2>2, <3>2, HandledGrows
      <4>2. NextOf(n, id).source \in Range(DependsOn[n])
        BY <1>1, <3>2, HandledKnown
      <4>3. QED
        BY <2>1, <4>1, <4>2
    <3>3. QED
      BY <2>2, <3>1, <3>2 DEF MovesOn
  <2>4. QED
    BY <1>1, <1>2, <2>3 DEF Caused
<1>3. CASE n \notin FanIns
  <2>1. PICK k \in Keys : \E i \in 1..pos[n][k] : topic[n][k][i].data = data
    BY <1>3 DEF Caused
  <2>2. PICK i \in 1..pos[n][k] : topic[n][k][i].data = data
    BY <2>1
  <2>3. /\ pos[n][k] \in Nat /\ Len(topic[n][k]) \in Nat
        /\ pos[n][k] <= Len(topic[n][k])
    BY <1>1 DEF TypeOK
  <2>4. MovesOn(n, k)
    OBVIOUS
  <2>5. i \in 1..pos'[n][k] /\ i \in 1..Len(topic[n][k])
    BY <2>3, <2>4 DEF MovesOn
  <2>6. topic'[n][k][i] = topic[n][k][i]
    BY <2>5, TopicsExtend
  <2>7. QED
    BY <1>1, <1>3, <2>2, <2>5, <2>6 DEF Caused
<1>4. QED
  BY <1>2, <1>3

\* rec goes to the end of key id of some topics, to which it is new.
AppendsFresh(id, rec) ==
  \A m \in Nodes, k \in Keys :
    \/ topic'[m][k] = topic[m][k]
    \/ /\ k = id
       /\ Len(topic'[m][k]) = Len(topic[m][k]) + 1
       /\ topic'[m][k][Len(topic[m][k]) + 1] = rec
       /\ \A l \in Keys : \A i \in 1..Len(topic[m][l]) : topic[m][l][i] # rec

\* Such a record leaves the topics without doubles.
LEMMA FreshKeepsOnce ==
  ASSUME TypeOK, [Next]_vars, OnceEach, NEW id \in Keys, NEW rec, AppendsFresh(id, rec)
  PROVE  OnceEach'
<1>1. SUFFICES ASSUME NEW m \in Nodes, NEW k \in Keys, NEW l \in Keys,
                      NEW i \in 1..Len(topic'[m][k]), NEW j \in 1..Len(topic'[m][l]),
                      topic'[m][k][i] = topic'[m][l][j]
               PROVE  k = l /\ i = j
  BY DEF OnceEach
<1>2. Len(topic[m][k]) \in Nat /\ Len(topic[m][l]) \in Nat
  BY DEF TypeOK
<1> DEFINE Old(x, y) == y \in 1..Len(topic[m][x])
           New(x, y) == /\ x = id /\ y = Len(topic[m][x]) + 1 /\ topic'[m][x][y] = rec
                        /\ \A z \in Keys : \A w \in 1..Len(topic[m][z]) : topic[m][z][w] # rec
<1>3. Old(k, i) => topic'[m][k][i] = topic[m][k][i]
  BY TopicsExtend
<1>4. Old(l, j) => topic'[m][l][j] = topic[m][l][j]
  BY TopicsExtend
<1>5. Old(k, i) \/ New(k, i)
  BY <1>1, <1>2 DEF AppendsFresh
<1>6. Old(l, j) \/ New(l, j)
  BY <1>1, <1>2 DEF AppendsFresh
<1>7. CASE Old(k, i) /\ Old(l, j)
  BY <1>1, <1>3, <1>4, <1>7 DEF OnceEach
<1>8. CASE New(k, i) /\ New(l, j)
  BY <1>8
<1>9. CASE Old(k, i) /\ New(l, j)
  BY <1>1, <1>3, <1>9
<1>10. CASE New(k, i) /\ Old(l, j)
  BY <1>1, <1>4, <1>10
<1>11. QED
  BY <1>5, <1>6, <1>7, <1>8, <1>9, <1>10

\* Data under an ID is that of the one event that may have it.
LEMMA SameData ==
  ASSUME DistinctIds, NEW k \in Ids, NEW d1, NEW d2, Pure(k, d1), Pure(k, d2)
  PROVE  d1 = d2
<1>1. k \notin Events
  BY SwarmAssumption
<1>2. QED
  BY <1>1 DEF Pure, DistinctIds

\* The record in hand, as it lies in its topic.
LEMMA NextRecord ==
  ASSUME TypeOK, NEW n \in Workers, NEW k \in Keys, HasNext(n, k)
  PROVE  /\ pos[n][k] + 1 \in 1..Len(topic[n][k]) /\ pos[n][k] + 1 \notin 1..pos[n][k]
         /\ \A i \in 1..pos[n][k] : i \in 1..Len(topic[n][k])
         /\ NextOf(n, k) = topic[n][k][pos[n][k] + 1]
         /\ NextOf(n, k) \in Message
         /\ \A l \in Keys : \A i \in 1..Len(topic[n][l]) : topic[n][l][i] \in Message
<1>1. n \in Nodes
  BY SwarmAssumption
<1>2. \A l \in Keys : topic[n][l] \in Seq(Message)
  BY <1>1 DEF TypeOK
<1>3. /\ pos[n][k] \in Nat /\ Len(topic[n][k]) \in Nat
      /\ pos[n][k] <= Len(topic[n][k])
  BY <1>1, <1>2 DEF TypeOK
<1>4. \A l \in Keys : \A i \in 1..Len(topic[n][l]) : topic[n][l][i] \in Message
  BY <1>2
<1>5. QED
  BY <1>3, <1>4 DEF HasNext, NextOf

\* A straight-through node hears of one source only.
LEMMA OneSource ==
  ASSUME TypeOK, SourcesKnown, NEW n \in Workers \ FanIns,
         NEW k \in Keys, NEW l \in Keys,
         NEW i \in 1..Len(topic[n][k]), NEW j \in 1..Len(topic[n][l])
  PROVE  topic[n][k][i].source = topic[n][l][j].source
<1>1. /\ n \in Nodes /\ DependsOn[n] \in Seq(Nodes)
      /\ Len(DependsOn[n]) \in Nat /\ ~(Len(DependsOn[n]) > 1)
  BY SwarmAssumption DEF FanIns
<1>2. \A s, t \in Range(DependsOn[n]) : s = t
  <2>1. ASSUME NEW s \in Range(DependsOn[n]) PROVE s = DependsOn[n][1]
    <3>1. PICK x \in 1..Len(DependsOn[n]) : s = DependsOn[n][x]
      BY <1>1 DEF Range
    <3>2. x = 1
      BY <1>1
    <3>3. QED
      BY <3>1, <3>2
  <2>2. QED
    BY <2>1
<1>3. n \in Roots => Range(DependsOn[n]) = {}
  BY <1>1 DEF Roots, Range
<1>4. /\ IF k \in Events THEN n \in Roots /\ topic[n][k][i].source = Outside
                         ELSE topic[n][k][i].source \in Range(DependsOn[n])
      /\ IF l \in Events THEN n \in Roots /\ topic[n][l][j].source = Outside
                         ELSE topic[n][l][j].source \in Range(DependsOn[n])
  BY <1>1 DEF SourcesKnown, SourceKnown
<1>5. QED
  BY <1>2, <1>3, <1>4

\* A result that is already at an output is not published again by a straight-through
\* node, because it was not the message in hand that caused it ...
LEMMA StraightIsFresh ==
  ASSUME TypeOK, FlowInv, Clean, NEW n \in Workers \ FanIns, NEW k \in Keys, HasNext(n, k),
         NEW o \in Nodes, NEW l \in Keys, NEW j \in 1..Len(topic[o][l])
  PROVE  topic[o][l][j] # [source |-> n, data |-> NextOf(n, k).data]
<1> SUFFICES ASSUME topic[o][l][j] = [source |-> n, data |-> NextOf(n, k).data] PROVE FALSE
  OBVIOUS
<1>1. n \in Nodes /\ n # Outside /\ NextOf(n, k).data \in SUBSET Events
  BY SwarmAssumption, InHand
<1>2. l \in Ids
  <2>1. l \in Events => topic[o][l][j].source = Outside
    BY DEF FlowInv, SourcesKnown, SourceKnown
  <2>2. QED
    BY <1>1, <2>1 DEF Keys
<1>3. Caused(n, l, NextOf(n, k).data)
  BY <1>1, <1>2 DEF Clean, ResultsHaveCause
<1>4. PICK m \in Keys : \E i \in 1..pos[n][m] : topic[n][m][i].data = NextOf(n, k).data
  BY <1>3 DEF Caused
<1>5. PICK i \in 1..pos[n][m] : topic[n][m][i].data = NextOf(n, k).data
  BY <1>4
<1>6. i \in 1..Len(topic[n][m])
  <2>1. pos[n][m] \in Nat /\ topic[n][m] \in Seq(Message) /\ pos[n][m] <= Len(topic[n][m])
    BY <1>1 DEF TypeOK
  <2>2. QED
    BY <2>1
<1>7. topic[n][m][i].source = NextOf(n, k).source
  BY <1>6, NextRecord, OneSource DEF FlowInv
<1>8. topic[n][m][i] = NextOf(n, k)
  <2>1. topic[n][m][i] \in Message /\ NextOf(n, k) \in Message
    BY <1>6, NextRecord
  <2>2. QED
    BY <1>5, <1>7, <2>1 DEF Message
<1>9. m = k /\ i = pos[n][k] + 1
  <2>1. topic[n][m][i] = topic[n][k][pos[n][k] + 1] /\ pos[n][k] + 1 \in 1..Len(topic[n][k])
    BY <1>8, NextRecord
  <2>2. QED
    BY <1>1, <1>6, <2>1 DEF Clean, OnceEach
<1>10. QED
  BY <1>9, NextRecord

\* ... and a contribution never comes twice, under whatever ID ...
LEMMA ContributesOnce ==
  ASSUME DistinctIds, TypeOK, PureInv, FlowInv, Clean, NEW n \in FanIns, NEW k \in Ids,
         HasNext(n, k), NEW l \in Ids, Pure(l, NextOf(n, k).data)
  PROVE  NextOf(n, k).source \notin Handled(n, l)
<1> SUFFICES ASSUME NextOf(n, k).source \in Handled(n, l) PROVE FALSE
  OBVIOUS
<1>1. n \in Workers /\ n \in Nodes /\ k \in Keys /\ l \in Keys
  BY SwarmAssumption DEF FanIns, Keys
<1>2. PICK i \in 1..pos[n][l] : topic[n][l][i].source = NextOf(n, k).source
  BY DEF Handled
<1>3. i \in 1..Len(topic[n][l])
  <2>1. pos[n][l] \in Nat /\ topic[n][l] \in Seq(Message) /\ pos[n][l] <= Len(topic[n][l])
    BY <1>1 DEF TypeOK
  <2>2. QED
    BY <2>1
<1>4. topic[n][l][i].data = NextOf(n, k).data
  <2>1. Pure(l, topic[n][l][i].data)
    BY <1>1, <1>3 DEF PureInv, TopicsPure
  <2>2. QED
    BY <2>1, SameData
<1>5. topic[n][l][i] = NextOf(n, k)
  <2>1. topic[n][l][i] \in Message /\ NextOf(n, k) \in Message
    BY <1>1, <1>3, NextRecord
  <2>2. QED
    BY <1>2, <1>4, <2>1 DEF Message
<1>6. l = k /\ i = pos[n][k] + 1
  <2>1. topic[n][l][i] = topic[n][k][pos[n][k] + 1] /\ pos[n][k] + 1 \in 1..Len(topic[n][k])
    BY <1>1, <1>5, NextRecord
  <2>2. QED
    BY <1>1, <1>3, <2>1 DEF Clean, OnceEach
<1>7. QED
  BY <1>1, <1>6, NextRecord

\* ... so that a fan-in node does not either.
LEMMA JoinIsFresh ==
  ASSUME DistinctIds, TypeOK, PureInv, FlowInv, Clean, NEW n \in FanIns, NEW k \in Ids,
         HasNext(n, k), Complete(n, Joined(n, k)),
         NEW o \in Nodes, NEW l \in Keys, NEW j \in 1..Len(topic[o][l])
  PROVE  topic[o][l][j] # [source |-> n, data |-> Merged(Joined(n, k))]
<1> SUFFICES ASSUME topic[o][l][j] = [source |-> n, data |-> Merged(Joined(n, k))] PROVE FALSE
  OBVIOUS
<1>1. n \in Workers /\ n \in Nodes /\ n # Outside /\ k \in Keys
  BY SwarmAssumption DEF FanIns, Keys
<1>2. l \in Ids
  <2>1. l \in Events => topic[o][l][j].source = Outside
    BY DEF FlowInv, SourcesKnown, SourceKnown
  <2>2. QED
    BY <1>1, <2>1 DEF Keys
<1>3. Joined(n, k) \in Entry /\ PureEntry(k, Joined(n, k)) /\ Pure(k, NextOf(n, k).data)
  BY <1>1, InHand, InHandPure
<1>4. Merged(Joined(n, k)) \in SUBSET Events /\ Pure(k, Merged(Joined(n, k)))
  BY <1>3, MergedType, MergedPure, CompleteHas
<1>5. NextOf(n, k).data = Merged(Joined(n, k))
  BY <1>3, <1>4, SameData
<1>6. Pure(l, NextOf(n, k).data)
  BY <1>5 DEF PureInv, TopicsPure
<1>7. Handled(n, l) = Range(DependsOn[n])
  BY <1>1, <1>2, <1>4 DEF Clean, ResultsHaveCause, Caused
<1>8. NextOf(n, k).source \in Range(DependsOn[n])
  BY <1>1, HandledKnown DEF FlowInv
<1>9. QED
  BY <1>2, <1>6, <1>7, <1>8, ContributesOnce

\* Handling a message moves one node on by one.
LEMMA AdvanceMoves ==
  ASSUME TypeOK, NEW n \in Workers, NEW k \in Keys, HasNext(n, k), Advance(n, k)
  PROVE  /\ \A w \in Workers, l \in Keys :
              pos'[w][l] = IF w = n /\ l = k THEN pos[w][l] + 1 ELSE pos[w][l]
         /\ \A w \in Workers, l \in Keys : MovesOn(w, l)
<1>1. pos' = [pos EXCEPT ![n][k] = pos[n][k] + 1] /\ pos \in [Workers -> [Keys -> Nat]]
  BY DEF Advance, TypeOK
<1>2. \A w \in Workers, l \in Keys :
        pos'[w][l] = IF w = n /\ l = k THEN pos[w][l] + 1 ELSE pos[w][l]
  BY <1>1
<1>3. QED
  BY <1>2 DEF MovesOn

\* A result that is published with its cause behind the node adds no result without.
LEMMA CausesStep ==
  ASSUME TypeOK, SourcesKnown, ResultsHaveCause, [Next]_vars,
         \A w \in Workers, k \in Keys : MovesOn(w, k),
         NEW n \in Workers, NEW id \in Ids, NEW data \in SUBSET Events,
         \A o \in Nodes, k \in Ids :
           \/ topic'[o][k] = topic[o][k]
           \/ /\ k = id /\ Caused(n, id, data)'
              /\ Len(topic'[o][k]) = Len(topic[o][k]) + 1
              /\ topic'[o][k][Len(topic[o][k]) + 1] = [source |-> n, data |-> data]
  PROVE  ResultsHaveCause'
<1>1. SUFFICES ASSUME NEW o \in Nodes, NEW k \in Ids, NEW m \in Nodes, NEW d \in SUBSET Events,
                      NEW j \in 1..Len(topic'[o][k]),
                      topic'[o][k][j] = [source |-> m, data |-> d]
               PROVE  Caused(m, k, d)'
  BY DEF ResultsHaveCause
<1>2. k \in Keys /\ topic[o][k] \in Seq(Message) /\ Len(topic[o][k]) \in Nat
  BY DEF TypeOK, Keys
<1>3. CASE j \in 1..Len(topic[o][k])
  <2>1. topic[o][k][j] = [source |-> m, data |-> d]
    BY <1>1, <1>2, <1>3, TopicsExtend
  <2>2. Caused(m, k, d)
    BY <1>3, <2>1 DEF ResultsHaveCause
  <2>3. m \in Workers
    BY <2>2 DEF Caused
  <2>4. QED
    BY <2>2, <2>3, CausedStays
<1>4. CASE /\ k = id /\ Caused(n, id, data)' /\ j = Len(topic[o][k]) + 1
           /\ topic'[o][k][Len(topic[o][k]) + 1] = [source |-> n, data |-> data]
  <2>1. [source |-> m, data |-> d] = [source |-> n, data |-> data]
    BY <1>1, <1>4
  <2>2. m = n /\ d = data
    BY <2>1
  <2>3. QED
    BY <1>4, <2>2
<1>5. j \in 1..Len(topic[o][k]) \/ (topic'[o][k] # topic[o][k] /\ j = Len(topic[o][k]) + 1)
  BY <1>1, <1>2
<1>6. QED
  BY <1>3, <1>4, <1>5

\* A result that is published where it is not yet is there once.
LEMMA PublishKeepsOnce ==
  ASSUME TypeOK, [Next]_vars, OnceEach, NEW n \in Workers, NEW id \in Ids,
         NEW data \in SUBSET Events, topic' = Published(n, id, data, Len(NodeOrder)),
         \A o \in Nodes, l \in Keys : \A j \in 1..Len(topic[o][l]) :
           topic[o][l][j] # [source |-> n, data |-> data]
  PROVE  OnceEach'
<1> DEFINE rec == [source |-> n, data |-> data]
<1>1. n \in Nodes /\ id \in Keys /\ Len(NodeOrder) \in 0..Len(NodeOrder)
  <2>1. Len(NodeOrder) \in Nat
    BY SwarmAssumption
  <2>2. QED
    BY <2>1, SwarmAssumption DEF Keys
<1>2. \A m \in Nodes, k \in Keys :
        \/ topic'[m][k] = topic[m][k]
        \/ /\ k = id
           /\ Len(topic'[m][k]) = Len(topic[m][k]) + 1
           /\ topic'[m][k][Len(topic[m][k]) + 1] = rec
  BY <1>1, PublishedRecords
<1>3. AppendsFresh(id, rec)
  BY <1>2 DEF AppendsFresh
<1> HIDE DEF rec
<1>4. QED
  BY <1>1, <1>3, FreshKeepsOnce

\* A step that publishes none adds no result without a cause either.
LEMMA CausesStay ==
  ASSUME TypeOK, SourcesKnown, ResultsHaveCause, [Next]_vars,
         \A w \in Workers, k \in Keys : MovesOn(w, k),
         \A o \in Nodes, k \in Ids : topic'[o][k] = topic[o][k]
  PROVE  ResultsHaveCause'
<1>1. SUFFICES ASSUME NEW o \in Nodes, NEW k \in Ids, NEW m \in Nodes, NEW d \in SUBSET Events,
                      NEW j \in 1..Len(topic'[o][k]),
                      topic'[o][k][j] = [source |-> m, data |-> d]
               PROVE  Caused(m, k, d)'
  BY DEF ResultsHaveCause
<1>2. Caused(m, k, d)
  BY <1>1 DEF ResultsHaveCause
<1>3. m \in Workers
  BY <1>2 DEF Caused
<1>4. QED
  BY <1>2, <1>3, CausedStays

\* A payload is submitted once.
LEMMA CleanSubmit ==
  ASSUME TypeOK, PureInv, FlowInv, Clean, [Next]_vars, NEW n \in Roots, NEW e \in Events,
         Submit(n, e)
  PROVE  Clean'
<1>0. /\ n \in Workers /\ n \in Nodes /\ e \in Keys
      /\ \A id \in Ids : id \in Keys /\ id # e /\ id \notin Events
  BY SwarmAssumption DEF Roots, Keys
<1>1. /\ topic' = [topic EXCEPT ![n][e] = <<[source |-> Outside, data |-> {e}]>>]
      /\ topic[n][e] = <<>> /\ UNCHANGED <<pos, joins, changelog>>
  BY DEF Submit
<1>2. \A m \in Nodes, k \in Keys :
        topic'[m][k] = IF m = n /\ k = e THEN <<[source |-> Outside, data |-> {e}]>>
                                         ELSE topic[m][k]
  BY <1>0, <1>1 DEF TypeOK
<1>3. OnceEach'
  <2> DEFINE rec == [source |-> Outside, data |-> {e}]
  <2>1. ASSUME NEW l \in Keys, NEW i \in 1..Len(topic[n][l]) PROVE topic[n][l][i] # rec
    <3> SUFFICES ASSUME topic[n][l][i] = rec PROVE FALSE
      OBVIOUS
    <3>1. l \in Events
      <4>1. l \notin Events => Outside \in Nodes
        <5>1. l \notin Events => Outside \in Range(DependsOn[n])
          BY <1>0 DEF FlowInv, SourcesKnown, SourceKnown
        <5>2. Range(DependsOn[n]) \subseteq Nodes
          BY <1>0, SwarmAssumption DEF Range
        <5>3. QED
          BY <5>1, <5>2
      <4>2. QED
        BY <4>1, SwarmAssumption
    <3>2. topic[n][l] \in Seq(Message)
      BY <1>0 DEF TypeOK
    <3>3. topic[n][l] # <<>>
      BY <2>1, <3>2
    <3>4. i = 1 /\ topic[n][l][1] = [source |-> Outside, data |-> {l}]
      BY <1>0, <2>1, <3>1, <3>3, PayloadIsEvent
    <3>5. {l} = {e}
      BY <3>4
    <3>6. QED
      BY <1>1, <3>3, <3>5
  <2>2. ASSUME NEW m \in Nodes, NEW k \in Keys, topic'[m][k] # topic[m][k]
        PROVE  /\ m = n /\ k = e
               /\ Len(topic'[m][k]) = Len(topic[m][k]) + 1
               /\ topic'[m][k][Len(topic[m][k]) + 1] = rec
    <3>1. m = n /\ k = e
      BY <1>2, <2>2
    <3>2. topic'[m][k] = <<rec>> /\ topic[m][k] = <<>>
      BY <1>1, <1>2, <3>1
    <3>3. Len(topic[m][k]) = 0 /\ Len(topic'[m][k]) = 1 /\ topic'[m][k][1] = rec
      BY <3>2
    <3>4. QED
      BY <3>1, <3>3
  <2>3. QED
    <3> HIDE DEF rec
    <3>1. OnceEach
      BY DEF Clean
    <3>2. AppendsFresh(e, rec)
      BY <2>1, <2>2 DEF AppendsFresh
    <3>3. QED
      BY <1>0, <3>1, <3>2, FreshKeepsOnce
<1>4. \A w \in Workers, k \in Keys : MovesOn(w, k)
  BY <1>1 DEF MovesOn
<1>5. ResultsHaveCause'
  <2>1. \A o \in Nodes, k \in Ids : topic'[o][k] = topic[o][k]
    BY <1>0, <1>2
  <2>2. QED
    BY <1>4, <2>1, CausesStay DEF Clean, FlowInv
<1>6. JoinsOpen'
  <2>1. ASSUME NEW m \in FanIns, NEW id \in Ids PROVE Handled(m, id)' = Handled(m, id)
    <3>1. m \in Workers /\ id \in Keys /\ pos'[m][id] = pos[m][id]
      BY <1>0, <1>1 DEF FanIns
    <3>2. QED
      BY <1>4, <3>1, HandledGrows
  <2>2. QED
    BY <1>1, <2>1 DEF Clean, JoinsOpen, Complete, Have
<1>7. QED
  BY <1>3, <1>5, <1>6 DEF Clean

\* A result of the message in hand is sent once.
LEMMA CleanStraight ==
  ASSUME TypeOK, FlowInv, Clean, [Next]_vars, NEW n \in Workers \ FanIns, NEW k \in Keys,
         HandleStraight(n, k)
  PROVE  Clean'
<1>1. /\ HasNext(n, k) /\ Advance(n, k) /\ UNCHANGED <<joins, changelog>>
      /\ \E id \in CorrelationIds(k) : topic' = PublishedToAll(n, id, NextOf(n, k).data)
  BY DEF HandleStraight
<1>2. PICK data \in SUBSET Events : data = NextOf(n, k).data
  BY <1>1, InHand
<1>3. PICK id \in Ids : topic' = Published(n, id, data, Len(NodeOrder))
  <2>1. CorrelationIds(k) \subseteq Ids
    BY SwarmAssumption DEF CorrelationIds, Keys
  <2>2. QED
    BY <1>1, <1>2, <2>1 DEF PublishedToAll
<1>4. n \in Nodes /\ id \in Keys /\ Len(NodeOrder) \in 0..Len(NodeOrder)
  <2>1. Len(NodeOrder) \in Nat
    BY SwarmAssumption
  <2>2. QED
    BY <2>1, SwarmAssumption DEF Keys
<1>5. \A w \in Workers, l \in Keys : MovesOn(w, l)
  BY <1>1, AdvanceMoves
<1>6. \A m \in Nodes, l \in Keys :
        \/ topic'[m][l] = topic[m][l]
        \/ /\ l = id
           /\ Len(topic'[m][l]) = Len(topic[m][l]) + 1
           /\ topic'[m][l][Len(topic[m][l]) + 1] = [source |-> n, data |-> data]
  BY <1>3, <1>4, PublishedRecords
<1>7. OnceEach'
  <2>1. \A m \in Nodes, l \in Keys : \A j \in 1..Len(topic[m][l]) :
          topic[m][l][j] # [source |-> n, data |-> data]
    BY <1>1, <1>2, StraightIsFresh
  <2>2. OnceEach
    BY DEF Clean
  <2>3. QED
    BY <1>3, <2>1, <2>2, PublishKeepsOnce
<1>8. Caused(n, id, data)'
  <2>1. pos'[n][k] = pos[n][k] + 1 /\ pos[n][k] \in Nat
    BY <1>1, AdvanceMoves DEF TypeOK
  <2>2. topic'[n][k][pos[n][k] + 1].data = data
    BY <1>1, <1>2, <1>4, NextRecord, TopicsExtend
  <2>3. pos[n][k] + 1 \in 1..pos'[n][k]
    BY <2>1
  <2>4. QED
    BY <2>2, <2>3 DEF Caused
<1>9. ResultsHaveCause'
  <2>1. ResultsHaveCause /\ SourcesKnown
    BY DEF Clean, FlowInv
  <2>2. \A l \in Ids : l \in Keys
    BY DEF Keys
  <2>3. QED
    BY <1>5, <1>6, <1>8, <2>1, <2>2, CausesStep
<1>10. JoinsOpen'
  <2>1. ASSUME NEW m \in FanIns, NEW l \in Ids PROVE Handled(m, l)' = Handled(m, l)
    <3>1. m \in Workers /\ m # n /\ l \in Keys
      BY DEF FanIns, Keys
    <3>2. pos'[m][l] = pos[m][l]
      BY <1>1, <3>1, AdvanceMoves
    <3>3. QED
      BY <1>5, <3>1, <3>2, HandledGrows
  <2>2. joins' = joins /\ changelog' = changelog /\ JoinsOpen
    BY <1>1 DEF Clean
  <2>3. ASSUME NEW m \in FanIns, NEW l \in Ids
        PROVE  /\ joins'[m][l] = changelog'[m][l]
               /\ \/ Have(joins'[m][l]) = Handled(m, l)' /\ ~Complete(m, joins'[m][l])
                  \/ Handled(m, l)' = Range(DependsOn[m]) /\ joins'[m][l] = NoJoin
    BY <2>1, <2>2 DEF JoinsOpen
  <2>4. QED
    BY <2>3 DEF JoinsOpen, Complete, Have
<1>11. QED
  BY <1>7, <1>9, <1>10 DEF Clean

\* The contribution in hand is the only one of its source, and the join has it next.
LEMMA HandedOver ==
  ASSUME DistinctIds, TypeOK, PureInv, FlowInv, Clean, [Next]_vars,
         NEW n \in FanIns, NEW id \in Ids,
         HasNext(n, id), Advance(n, id)
  PROVE  /\ Have(joins[n][id]) = Handled(n, id)
         /\ Have(Joined(n, id)) = Handled(n, id)'
         /\ Have(Joined(n, id)) \subseteq Range(DependsOn[n])
<1> DEFINE s == NextOf(n, id).source
<1>1. n \in Workers /\ n \in Nodes /\ id \in Keys
  BY SwarmAssumption DEF FanIns, Keys
<1>2. Pure(id, NextOf(n, id).data)
  BY <1>1, InHandPure
<1>3. s \notin Handled(n, id)
  BY <1>2, ContributesOnce
<1>4. s \in Range(DependsOn[n]) /\ Handled(n, id) \subseteq Range(DependsOn[n])
  BY <1>1, HandledKnown DEF FlowInv
<1>5. Have(joins[n][id]) = Handled(n, id)
  BY <1>3, <1>4 DEF Clean, JoinsOpen
<1>6. Handled(n, id)' = Handled(n, id) \cup {s}
  <2>1. MovesOn(n, id) /\ pos'[n][id] = pos[n][id] + 1
    BY <1>1, AdvanceMoves
  <2>2. QED
    BY <1>1, <2>1, HandledGrows
<1>7. Have(Joined(n, id)) = Have(joins[n][id]) \cup {s}
  <2>1. joins[n][id] \in Entry /\ NextOf(n, id).data # {}
    BY <1>2 DEF TypeOK, Entry, Pure
  <2>2. \A t \in Sources : Joined(n, id)[t] = IF t = s THEN NextOf(n, id).data ELSE joins[n][id][t]
    BY <2>1 DEF Joined, Entry
  <2>3. s \in Sources
    BY <1>1, NextRecord DEF Message
  <2>4. QED
    BY <2>1, <2>2, <2>3 DEF Have
<1>8. QED
  BY <1>4, <1>5, <1>6, <1>7

\* What is behind a fan-in node under other IDs, and behind other nodes, stays.
LEMMA OthersHandled ==
  ASSUME TypeOK, [Next]_vars, NEW n \in FanIns, NEW id \in Ids, HasNext(n, id), Advance(n, id),
         NEW m \in FanIns, NEW k \in Ids, ~(m = n /\ k = id)
  PROVE  Handled(m, k)' = Handled(m, k)
<1>1. n \in Workers /\ m \in Workers /\ id \in Keys /\ k \in Keys
  BY DEF FanIns, Keys
<1>2. MovesOn(m, k) /\ pos'[m][k] = pos[m][k]
  BY <1>1, AdvanceMoves
<1>3. QED
  BY <1>1, <1>2, HandledGrows

\* A contribution to a join that stays open.
LEMMA CleanPartial ==
  ASSUME DistinctIds, TypeOK, PureInv, FlowInv, Clean, [Next]_vars,
         NEW n \in FanIns, NEW id \in Ids,
         HandlePartial(n, id)
  PROVE  Clean'
<1>1. /\ HasNext(n, id) /\ Advance(n, id) /\ UNCHANGED topic /\ ~Complete(n, Joined(n, id))
      /\ joins' = [joins EXCEPT ![n][id] = Joined(n, id)]
      /\ changelog' = [changelog EXCEPT ![n][id] = Joined(n, id)]
  BY DEF HandlePartial
<1>2. n \in Workers /\ id \in Keys
  BY DEF FanIns, Keys
<1>3. \A w \in Workers, k \in Keys : MovesOn(w, k)
  BY <1>1, <1>2, AdvanceMoves
<1>4. OnceEach'
  BY <1>1 DEF Clean, OnceEach
<1>5. ResultsHaveCause'
  BY <1>1, <1>3, CausesStay DEF Clean, FlowInv
<1>6. joins \in Entries /\ changelog \in Entries
  BY DEF TypeOK, Entries, Entry
<1>7. ASSUME NEW m \in FanIns, NEW k \in Ids
      PROVE  /\ joins'[m][k] = changelog'[m][k]
             /\ \/ Have(joins'[m][k]) = Handled(m, k)' /\ ~Complete(m, joins'[m][k])
                \/ Handled(m, k)' = Range(DependsOn[m]) /\ joins'[m][k] = NoJoin
  <2>1. CASE m = n /\ k = id
    <3>1. joins'[m][k] = Joined(n, id) /\ changelog'[m][k] = Joined(n, id)
      BY <1>1, <1>6, <2>1 DEF Entries
    <3>2. Have(Joined(n, id)) = Handled(n, id)'
      BY <1>1, HandedOver
    <3>3. QED
      BY <1>1, <2>1, <3>1, <3>2
  <2>2. CASE ~(m = n /\ k = id)
    <3>1. joins'[m][k] = joins[m][k] /\ changelog'[m][k] = changelog[m][k]
      BY <1>1, <1>6, <2>2 DEF Entries
    <3>2. Handled(m, k)' = Handled(m, k)
      BY <1>1, <2>2, OthersHandled
    <3>3. QED
      BY <3>1, <3>2 DEF Clean, JoinsOpen
  <2>3. QED
    BY <2>1, <2>2
<1>8. JoinsOpen'
  BY <1>7 DEF JoinsOpen, Complete, Have
<1>9. QED
  BY <1>4, <1>5, <1>8 DEF Clean

\* A contribution that completes its join, whose result has not gone out before.
LEMMA CleanCompletes ==
  ASSUME DistinctIds, TypeOK, PureInv, FlowInv, Clean, [Next]_vars,
         NEW n \in FanIns, NEW id \in Ids,
         CompletesCleanly(n, id)
  PROVE  Clean'
<1>1. /\ HasNext(n, id) /\ Advance(n, id) /\ Complete(n, Joined(n, id))
      /\ topic' = Published(n, id, Merged(Joined(n, id)), Len(NodeOrder))
      /\ joins' = [joins EXCEPT ![n][id] = NoJoin]
      /\ changelog' = [changelog EXCEPT ![n][id] = NoJoin]
  BY DEF CompletesCleanly, HandleComplete, CompleteJoin, PublishedToAll, Forgotten
<1>2. n \in Workers /\ n \in Nodes /\ id \in Keys /\ Len(NodeOrder) \in 0..Len(NodeOrder)
  <2>1. Len(NodeOrder) \in Nat
    BY SwarmAssumption
  <2>2. QED
    BY <2>1, SwarmAssumption DEF FanIns, Keys
<1>3. PICK data \in SUBSET Events : data = Merged(Joined(n, id))
  <2>1. Joined(n, id) \in Entry
    BY <1>1, <1>2, InHand
  <2>2. QED
    BY <2>1, MergedType
<1>4. topic' = Published(n, id, data, Len(NodeOrder))
  BY <1>1, <1>3
<1>5. \A w \in Workers, k \in Keys : MovesOn(w, k)
  BY <1>1, <1>2, AdvanceMoves
<1>6. OnceEach'
  <2>1. \A o \in Nodes, l \in Keys : \A j \in 1..Len(topic[o][l]) :
          topic[o][l][j] # [source |-> n, data |-> data]
    BY <1>1, <1>3, JoinIsFresh
  <2>2. OnceEach
    BY DEF Clean
  <2>3. QED
    BY <1>2, <1>4, <2>1, <2>2, PublishKeepsOnce
<1>7. Handled(n, id)' = Range(DependsOn[n])
  <2>1. Have(Joined(n, id)) = Handled(n, id)' /\ Have(Joined(n, id)) \subseteq Range(DependsOn[n])
    BY <1>1, HandedOver
  <2>2. Have(Joined(n, id)) = Range(DependsOn[n])
    BY <1>1, <2>1, CompleteWhenAll
  <2>3. QED
    BY <2>1, <2>2
<1>8. ResultsHaveCause'
  <2>1. Caused(n, id, data)'
    BY <1>2, <1>7 DEF Caused
  <2>2. \A m \in Nodes, l \in Keys :
          \/ topic'[m][l] = topic[m][l]
          \/ /\ l = id
             /\ Len(topic'[m][l]) = Len(topic[m][l]) + 1
             /\ topic'[m][l][Len(topic[m][l]) + 1] = [source |-> n, data |-> data]
    BY <1>2, <1>4, PublishedRecords
  <2>3. ResultsHaveCause /\ SourcesKnown /\ \A l \in Ids : l \in Keys
    BY DEF Clean, FlowInv, Keys
  <2>4. QED
    BY <1>2, <1>5, <2>1, <2>2, <2>3, CausesStep
<1>9. joins \in Entries /\ changelog \in Entries
  BY DEF TypeOK, Entries, Entry
<1>10. ASSUME NEW m \in FanIns, NEW k \in Ids
       PROVE  /\ joins'[m][k] = changelog'[m][k]
              /\ \/ Have(joins'[m][k]) = Handled(m, k)' /\ ~Complete(m, joins'[m][k])
                 \/ Handled(m, k)' = Range(DependsOn[m]) /\ joins'[m][k] = NoJoin
  <2>1. CASE m = n /\ k = id
    <3>1. joins'[m][k] = NoJoin /\ changelog'[m][k] = NoJoin
      BY <1>1, <1>9, <2>1 DEF Entries
    <3>2. QED
      BY <1>7, <2>1, <3>1
  <2>2. CASE ~(m = n /\ k = id)
    <3>1. joins'[m][k] = joins[m][k] /\ changelog'[m][k] = changelog[m][k]
      BY <1>1, <1>9, <2>2 DEF Entries
    <3>2. Handled(m, k)' = Handled(m, k)
      BY <1>1, <2>2, OthersHandled
    <3>3. QED
      BY <3>1, <3>2 DEF Clean, JoinsOpen
  <2>3. QED
    BY <2>1, <2>2
<1>11. JoinsOpen'
  BY <1>10 DEF JoinsOpen, Complete, Have
<1>12. QED
  BY <1>6, <1>8, <1>11 DEF Clean

\* No join is there to recover.
LEMMA NothingToRecover ==
  ASSUME Clean, NEW n \in FanIns, NEW id \in Ids
  PROVE  id \notin Recoverable(n)
<1>1. Have(NoJoin) = {}
  BY DEF Have, NoJoin
<1>2. ~Complete(n, NoJoin)
  BY <1>1, CompleteHas
<1>3. QED
  BY <1>2 DEF Recoverable, Clean, JoinsOpen

\* Steps without disruptions leave nothing over.
LEMMA CleanStep ==
  ASSUME DistinctIds, TypeOK, PureInv, FlowInv, CleanInv, [Next]_vars
  PROVE  CleanInv'
<1>1. SUFFICES ASSUME disruptions' = 0 PROVE Clean'
  BY DEF CleanInv
<1>2. disruptions = 0 /\ Clean
  BY <1>1, CleanSteps DEF CleanInv
<1>3. CASE UNCHANGED vars
  <2>1. UNCHANGED <<topic, pos, joins, changelog>>
    BY <1>3 DEF vars
  <2>2. OnceEach'
    BY <1>2, <2>1 DEF Clean, OnceEach
  <2>3. \A w \in Workers, k \in Keys : MovesOn(w, k)
    BY <2>1 DEF MovesOn
  <2>4. ResultsHaveCause'
    BY <1>2, <2>1, <2>3, CausesStay DEF Clean, FlowInv
  <2>5. JoinsOpen'
    <3>1. \A n \in FanIns, id \in Ids : Handled(n, id)' = Handled(n, id)
      BY <2>1 DEF Handled
    <3>2. joins' = joins /\ changelog' = changelog /\ JoinsOpen
      BY <1>2, <2>1 DEF Clean
    <3>3. ASSUME NEW n \in FanIns, NEW id \in Ids
          PROVE  /\ joins'[n][id] = changelog'[n][id]
                 /\ \/ Have(joins'[n][id]) = Handled(n, id)' /\ ~Complete(n, joins'[n][id])
                    \/ Handled(n, id)' = Range(DependsOn[n]) /\ joins'[n][id] = NoJoin
      BY <3>1, <3>2 DEF JoinsOpen
    <3>4. QED
      BY <3>3 DEF JoinsOpen, Complete, Have
  <2>6. QED
    BY <2>2, <2>4, <2>5 DEF Clean
<1>4. QED
  BY <1>1, <1>2, <1>3, CleanSteps, CleanSubmit, CleanStraight, CleanPartial, CleanCompletes,
     NothingToRecover

\* What a swarm without disruptions keeps to.
LEMMA CleanAlways ==
  ASSUME DistinctIds
  PROVE  Spec => [](TypeOK /\ PureInv /\ FlowInv /\ CleanInv)
<1>1. Init => CleanInv
  <2> SUFFICES ASSUME Init PROVE Clean
    BY DEF CleanInv
  <2>1. \A n \in Nodes, k \in Keys : Len(topic[n][k]) = 0
    BY DEF Init
  <2>2. OnceEach
    BY <2>1 DEF OnceEach
  <2>3. ResultsHaveCause
    <3>1. \A id \in Ids : id \in Keys
      BY DEF Keys
    <3>2. QED
      BY <2>1, <3>1 DEF ResultsHaveCause
  <2>4. JoinsOpen
    <3>1. ASSUME NEW n \in FanIns, NEW id \in Ids
          PROVE  /\ joins[n][id] = NoJoin /\ changelog[n][id] = NoJoin
                 /\ Handled(n, id) = {}
      <4>1. pos[n][id] = 0
        BY <3>1 DEF Init, FanIns, Keys
      <4>2. QED
        BY <3>1, <4>1 DEF Init, Handled
    <3>2. Have(NoJoin) = {}
      BY DEF Have, NoJoin
    <3>3. \A n \in FanIns : ~Complete(n, NoJoin)
      BY <3>2, CompleteHas
    <3>4. QED
      BY <3>1, <3>2, <3>3 DEF JoinsOpen
  <2>5. QED
    BY <2>2, <2>3, <2>4 DEF Clean
<1>2. TypeOK /\ PureInv /\ FlowInv /\ CleanInv /\ [Next]_vars => CleanInv'
  BY CleanStep
<1>3. QED
  BY <1>1, <1>2, FlowAlways, PTL DEF Spec

\* An event has one decision: the gate hears of one node, and of each event once.
LEMMA OneDecision ==
  ASSUME TypeOK, PureInv, FlowInv, Clean, Len(DependsOn[Gate]) = 1, NEW e \in Events
  PROVE  Cardinality(Decisions(e)) <= 1
<1>1. Gate \in Nodes /\ Gate \notin Roots
  BY SwarmAssumption DEF Roots
<1>2. PICK d : \A s \in Range(DependsOn[Gate]) : s = d
  <2>1. DOMAIN DependsOn[Gate] = 1..1
    BY <1>1, SwarmAssumption
  <2>2. \A s \in Range(DependsOn[Gate]) : s = DependsOn[Gate][1]
    BY <2>1 DEF Range
  <2>3. QED
    BY <2>2
<1>3. ASSUME NEW k \in Keys, NEW i \in DOMAIN topic[Gate][k], e \in topic[Gate][k][i].data
      PROVE  i \in 1..Len(topic[Gate][k]) /\ topic[Gate][k][i] = [source |-> d, data |-> {e}]
  <2>1. topic[Gate][k] \in Seq(Message)
    BY <1>1 DEF TypeOK
  <2>2. i \in 1..Len(topic[Gate][k]) /\ topic[Gate][k][i] \in Message
    BY <1>3, <2>1
  <2>3. topic[Gate][k][i].source = d
    BY <1>1, <1>2, <2>2 DEF FlowInv, SourcesKnown, SourceKnown
  <2>4. Pure(k, topic[Gate][k][i].data)
    BY <1>1, <2>2 DEF PureInv, TopicsPure
  <2>5. topic[Gate][k][i].data = {e}
    BY <1>3, <2>4 DEF Pure
  <2>6. QED
    BY <2>2, <2>3, <2>5 DEF Message
<1>4. ASSUME NEW x \in Decisions(e), NEW y \in Decisions(e) PROVE x = y
  <2>0. \A z \in Decisions(e) : \E k \in Keys : \E i \in DOMAIN topic[Gate][k] :
          z = <<k, i>> /\ e \in topic[Gate][k][i].data
    BY DEF Decisions
  <2>1. PICK k \in Keys : \E i \in DOMAIN topic[Gate][k] :
          x = <<k, i>> /\ e \in topic[Gate][k][i].data
    BY <2>0
  <2>2. PICK l \in Keys : \E j \in DOMAIN topic[Gate][l] :
          y = <<l, j>> /\ e \in topic[Gate][l][j].data
    BY <2>0
  <2>3. PICK i \in DOMAIN topic[Gate][k] : x = <<k, i>> /\ e \in topic[Gate][k][i].data
    BY <2>1
  <2>4. PICK j \in DOMAIN topic[Gate][l] : y = <<l, j>> /\ e \in topic[Gate][l][j].data
    BY <2>2
  <2>5. k = l /\ i = j
    <3>1. /\ i \in 1..Len(topic[Gate][k]) /\ j \in 1..Len(topic[Gate][l])
          /\ topic[Gate][k][i] = topic[Gate][l][j]
      BY <1>3, <2>3, <2>4
    <3>2. QED
      BY <1>1, <3>1 DEF Clean, OnceEach
  <2>6. QED
    BY <2>3, <2>4, <2>5
<1>5. CASE Decisions(e) = {}
  BY <1>5, FS_EmptySet
<1>6. CASE Decisions(e) # {}
  <2>1. PICK x : x \in Decisions(e)
    BY <1>6
  <2>2. Decisions(e) = {x}
    BY <1>4, <2>1
  <2>3. Cardinality({x}) = 1
    BY FS_Singleton
  <2>4. QED
    BY <2>2, <2>3
<1>7. QED
  BY <1>5, <1>6

\* An open join waits for contributions that are on their way.
LEMMA NoJoinAtRest ==
  ASSUME DistinctIds, EntryDAG, TypeOK, PureInv, FlowInv, Clean, AtRest,
         NEW n \in FanIns, NEW id \in Ids
  PROVE  joins[n][id] = NoJoin /\ changelog[n][id] = NoJoin
<1>0. n \in Workers /\ n \in Nodes /\ id \in Keys
  BY SwarmAssumption DEF FanIns, Keys
<1>1. SUFFICES ASSUME joins[n][id] # NoJoin PROVE FALSE
  BY DEF Clean, JoinsOpen
<1>2. Have(joins[n][id]) = Handled(n, id) /\ ~Complete(n, joins[n][id])
  BY <1>1 DEF Clean, JoinsOpen
<1>3. PICK s \in Sources : joins[n][id][s] # {}
  <2>1. joins[n][id] \in [Sources -> SUBSET Events]
    BY DEF TypeOK
  <2>2. QED
    BY <1>1, <2>1 DEF NoJoin
<1>4. \A k \in Keys : /\ topic[n][k] \in Seq(Message)
                      /\ Len(topic[n][k]) \in Nat
                      /\ pos[n][k] = Len(topic[n][k])
  <2>1. ASSUME NEW k \in Keys
        PROVE  topic[n][k] \in Seq(Message) /\ pos[n][k] \in Nat /\ pos[n][k] <= Len(topic[n][k])
    BY <1>0 DEF TypeOK
  <2>2. \A k \in Keys : ~(pos[n][k] < Len(topic[n][k]))
    BY <1>0 DEF AtRest, HasNext
  <2>3. QED
    BY <2>1, <2>2
<1>5. PICK i \in 1..Len(topic[n][id]) : topic[n][id][i].source = s
  <2>1. s \in Handled(n, id)
    BY <1>2, <1>3 DEF Have
  <2>2. QED
    BY <1>0, <1>4, <2>1 DEF Handled
<1>6. PICK e \in Events : topic[n][id][i] = [source |-> s, data |-> {e}]
  <2>1. PICK e \in Events : topic[n][id][i].data = {e}
    BY <1>0 DEF PureInv, TopicsPure, Pure
  <2>2. topic[n][id][i] \in Message
    BY <1>0, <1>4
  <2>3. QED
    BY <1>5, <2>1, <2>2 DEF Message
<1>7. Submitted(e)
  <2>1. e \in topic[n][id][i].data
    BY <1>6
  <2>2. QED
    BY <1>0, <2>1 DEF FlowInv, EventsSubmitted
<1>8. PICK c \in MintedIds[e] : \A w \in Workers : Sent(w, c, {e})
  BY <1>7, AllReached
<1>9. c \in Ids /\ c \in Keys
  BY SwarmAssumption DEF Keys
<1>10. ASSUME NEW d \in Range(DependsOn[n])
       PROVE  \E j \in 1..Len(topic[n][c]) : topic[n][c][j] = [source |-> d, data |-> {e}]
  <2>1. d \in Workers /\ n \in Outputs(d, Len(NodeOrder))
    BY <1>0, AllOutputs DEF EntryDAG
  <2>2. QED
    BY <1>8, <2>1 DEF Sent
<1>11. c = id
  <2>1. s \in Range(DependsOn[n])
    <3>1. id \notin Events
      BY SwarmAssumption
    <3>2. QED
      BY <1>0, <1>5, <3>1 DEF FlowInv, SourcesKnown, SourceKnown
  <2>2. PICK j \in 1..Len(topic[n][c]) : topic[n][c][j] = [source |-> s, data |-> {e}]
    BY <1>10, <2>1
  <2>3. topic[n][c][j] = topic[n][id][i]
    BY <1>6, <2>2
  <2>4. QED
    BY <1>0, <1>9, <2>3 DEF Clean, OnceEach
<1>12. Range(DependsOn[n]) \subseteq Handled(n, id)
  <2>1. ASSUME NEW d \in Range(DependsOn[n]) PROVE d \in Handled(n, id)
    <3>1. PICK j \in 1..Len(topic[n][id]) : topic[n][id][j] = [source |-> d, data |-> {e}]
      BY <1>10, <1>11
    <3>2. topic[n][id][j].source = d /\ j \in 1..pos[n][id]
      BY <1>0, <1>4, <3>1
    <3>3. QED
      BY <3>2 DEF Handled
  <2>2. QED
    BY <2>1
<1>13. QED
  BY <1>2, <1>12, CompleteWhenAll

\* CleanWithoutDisruption: until the first crash, rebalance, late publish, producer retry
\* or failed tombstone, each event reaches a gate with one predecessor at most once, and
\* a swarm at rest keeps no entry in any buffer or changelog, in every DAG with one entry:
\* nothing the nodes do to each other duplicates a record or leaves a join open.
THEOREM CleanSwarm ==
  ASSUME DistinctIds, EntryDAG, Len(DependsOn[Gate]) = 1
  PROVE  Spec => []CleanWithoutDisruption
<1>1. TypeOK /\ PureInv /\ FlowInv /\ CleanInv => CleanWithoutDisruption
  BY OneDecision, NoJoinAtRest DEF CleanInv, CleanWithoutDisruption
<1>2. QED
  BY <1>1, CleanAlways, PTL
=============================================================================

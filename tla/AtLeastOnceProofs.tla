-------------------------- MODULE AtLeastOnceProofs -------------------------
(***************************************************************************)
(* What AtLeastOnce amounts to: a record that is committed, which Kafka    *)
(* will not deliver again, is settled and stays settled.                   *)
(***************************************************************************)
EXTENDS AtLeastOnce, TLAPS

TypeInv ==
  /\ input \in [Partitions -> Seq(Records)]
  /\ committed \in [Partitions -> Nat]
  /\ \A q \in Partitions : committed[q] <= Len(input[q])
  /\ delivered \in [Topics -> SUBSET Records]
  /\ held \subseteq Records

\* At a node that joins, all records of a correlation ID are in one partition.
Colocated ==
  Joins => \A q \in Partitions : \A i \in 1..Len(input[q]) : PartitionOf[input[q][i].corr] = q

Inv == TypeInv /\ Colocated /\ CommittedIsSettled

\* Records only arrive, and no commit goes past the end of a partition.
LEMMA TypeInvStep == TypeInv /\ [Next]_vars => TypeInv'
<1> SUFFICES ASSUME TypeInv, [Next]_vars PROVE TypeInv'
  OBVIOUS
<1> USE DEF TypeInv
<1>1. ASSUME NEW q \in Partitions, NEW r \in Records, Arrive(q, r) PROVE TypeInv'
  BY <1>1 DEF Arrive
<1>2. ASSUME NEW q \in Partitions, NEW i \in (committed[q] + 1)..Len(input[q]), Hold(q, i)
      PROVE  TypeInv'
  <2>1. input[q][i] \in Records
    OBVIOUS
  <2> QED BY <1>2, <2>1 DEF Hold
<1>3. ASSUME NEW k \in Topics, Deliver(k) PROVE TypeInv'
  <2>1. Arrived \subseteq Records
    BY DEF Arrived
  <2> QED BY <1>3, <2>1 DEF Deliver
<1>4. ASSUME Release PROVE TypeInv'
  BY <1>4 DEF Release
<1>5. ASSUME Commit PROVE TypeInv'
  BY <1>5 DEF Commit
<1>6. ASSUME UNCHANGED vars PROVE TypeInv'
  BY <1>6 DEF vars
<1> QED BY <1>1, <1>2, <1>3, <1>4, <1>5, <1>6 DEF Next

\* A joining node's input is keyed, so an arriving record goes to its ID's partition.
LEMMA ColocatedStep == TypeInv /\ Colocated /\ [Next]_vars => Colocated'
<1> SUFFICES ASSUME TypeInv, Colocated, [Next]_vars, Joins PROVE Colocated'
  BY DEF Colocated
<1>1. ASSUME NEW q \in Partitions, NEW r \in Records, Arrive(q, r) PROVE Colocated'
  <2> SUFFICES ASSUME NEW p \in Partitions, NEW i \in 1..Len(input'[p])
               PROVE  PartitionOf[input'[p][i].corr] = p
    BY DEF Colocated
  <2>1. CASE i \in 1..Len(input[p])
    <3>1. input'[p][i] = input[p][i]
      BY <1>1, <2>1 DEF Arrive, TypeInv
    <3> QED BY <2>1, <3>1 DEF Colocated
  <2>2. CASE i \notin 1..Len(input[p])
    <3>1. p = q /\ input'[p][i] = r
      BY <1>1, <2>2 DEF Arrive, TypeInv
    <3> QED BY <1>1, <3>1 DEF Arrive
  <2> QED BY <2>1, <2>2
<1>2. ASSUME UNCHANGED input PROVE Colocated'
  BY <1>2 DEF Colocated
<1> QED BY <1>1, <1>2 DEF Next, Hold, Deliver, Release, Commit, vars

\* A settled record stays settled as long as it is not displaced from a join by
\* a record that is already in the topic before it.
LEMMA SettledStep ==
  ASSUME TypeInv, Colocated, [Next]_vars,
         NEW q \in Partitions, NEW i \in 1..committed[q], Settled(q, i)
  PROVE  Settled(q, i)'
<1> DEFINE r == input[q][i]
<1> USE DEF TypeInv
<1>0. i \in 1..Len(input[q]) /\ r \in Records
  OBVIOUS
<1>1. ASSUME NEW p \in Partitions, NEW s \in Records, Arrive(p, s) PROVE Settled(q, i)'
  <2>1. /\ Len(input[q]) \in Nat
        /\ Len(input'[q]) >= Len(input[q])
        /\ \A j \in 1..Len(input[q]) : input'[q][j] = input[q][j]
    BY <1>1 DEF Arrive
  <2>2. input'[q][i] = r
    BY <1>0, <2>1
  <2> QED BY <1>0, <1>1, <2>1, <2>2 DEF Arrive, Settled, DeliveredEverywhere, SameContribution
<1>2. ASSUME NEW p \in Partitions, NEW j \in (committed[p] + 1)..Len(input[p]), Hold(p, j)
      PROVE  Settled(q, i)'
  <2> DEFINE x == input[p][j]
  <2>1. UNCHANGED <<input, delivered>> /\ Joins
    BY <1>2 DEF Hold
  <2>2. CASE r \in held /\ ~SameContribution(r, x)
    <3>1. r \in held' \/ DeliveredEverywhere(r)
      BY <1>2, <2>2 DEF Hold
    <3> QED BY <2>1, <3>1 DEF Settled, DeliveredEverywhere
  <2>3. CASE SameContribution(r, x)
    <3>1. p = q
      <4>0. j \in 1..Len(input[p])
        OBVIOUS
      <4>1. PartitionOf[input[q][i].corr] = q /\ PartitionOf[input[p][j].corr] = p
        BY <1>0, <2>1, <4>0 DEF Colocated
      <4> QED BY <2>3, <4>1 DEF SameContribution
    <3>2. j \in (i + 1)..Len(input[q]) /\ SameContribution(input[q][j], input[q][i])
      BY <1>0, <2>3, <3>1 DEF SameContribution
    <3> QED BY <2>1, <3>2 DEF Settled, SameContribution
  <2>4. CASE r \notin held
    BY <2>1, <2>4 DEF Settled, DeliveredEverywhere, SameContribution
  <2> QED BY <2>2, <2>3, <2>4
<1>3. ASSUME NEW k \in Topics, Deliver(k) PROVE Settled(q, i)'
  <2>1. UNCHANGED <<input, held>> /\ \A t \in Topics : delivered[t] \subseteq delivered'[t]
    BY <1>3 DEF Deliver
  <2> QED BY <2>1 DEF Settled, DeliveredEverywhere, SameContribution
<1>4. ASSUME Release PROVE Settled(q, i)'
  BY <1>4 DEF Release, Settled, DeliveredEverywhere, SameContribution
<1>5. ASSUME UNCHANGED <<input, held, delivered>> PROVE Settled(q, i)'
  BY <1>5 DEF Settled, DeliveredEverywhere, SameContribution
<1> QED BY <1>1, <1>2, <1>3, <1>4, <1>5 DEF Next, Commit, vars

\* What is committed stays settled: no step takes the last way out of a committed record.
LEMMA InvStep == Inv /\ [Next]_vars => Inv'
<1> SUFFICES ASSUME Inv, [Next]_vars PROVE CommittedIsSettled'
  BY TypeInvStep, ColocatedStep DEF Inv
<1> SUFFICES ASSUME NEW q \in Partitions, NEW i \in 1..committed'[q] PROVE Settled(q, i)'
  BY DEF CommittedIsSettled
<1>1. CASE i \in 1..committed[q]
  BY <1>1, SettledStep DEF Inv, CommittedIsSettled
<1>2. CASE i \notin 1..committed[q]
  <2>1. Commit
    BY <1>2 DEF Next, Arrive, Hold, Deliver, Release, vars
  <2>2. i \in (committed[q] + 1)..committed'[q]
    BY <1>2, <2>1 DEF Commit, Inv, TypeInv
  <2>3. Settled(q, i)
    BY <2>1, <2>2 DEF Commit
  <2> QED BY <2>1, <2>3 DEF Commit, Settled, DeliveredEverywhere, SameContribution
<1> QED BY <1>1, <1>2

\* SettledForGood: AtLeastOnce keeps its promise for nodes of every size: each
\* record below a committed offset was delivered to all downstream topics, is held
\* for its join, or was replaced by a later contribution of its source.
THEOREM SettledForGood == Spec => []CommittedIsSettled
<1>1. Init => Inv
  BY DEF Init, Inv, TypeInv, Colocated, CommittedIsSettled
<1>2. Inv => CommittedIsSettled
  BY DEF Inv
<1> QED BY <1>1, <1>2, InvStep, PTL DEF Spec
=============================================================================

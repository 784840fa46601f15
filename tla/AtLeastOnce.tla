----------------------------- MODULE AtLeastOnce ----------------------------
(***************************************************************************)
(* What a node promises to the swarm, without pods, goroutines, sessions   *)
(* or a changelog: it commits its input only as far as it has settled it.  *)
(* A record is settled when it was delivered to every downstream topic.    *)
(* A node that joins may also hold it until its join is complete, and may  *)
(* replace it by a later contribution of the same source.  Nothing is      *)
(* delivered that has not arrived, and anything may be delivered again.    *)
(***************************************************************************)
EXTENDS Integers, Sequences

CONSTANTS
  Partitions,   \* partitions of the input topic
  Records,      \* records with a correlation ID (corr) and a source
  PartitionOf,  \* the partition of a correlation ID, at a node that joins
  Topics,       \* downstream topics
  Joins         \* whether the node joins several sources

VARIABLES
  input,      \* the records that have arrived, per partition
  committed,  \* the committed offset per partition
  held,       \* records the node keeps for a join
  delivered   \* the records that went into each downstream topic

vars == <<input, committed, held, delivered>>

Arrived == UNION {{input[q][i] : i \in 1..Len(input[q])} : q \in Partitions}

SameContribution(r, x) == r.corr = x.corr /\ r.source = x.source

DeliveredEverywhere(r) == \A k \in Topics : r \in delivered[k]

Settled(q, i) ==
  \/ DeliveredEverywhere(input[q][i])
  \/ Joins /\ input[q][i] \in held
  \/ Joins /\ \E j \in (i + 1)..Len(input[q]) : SameContribution(input[q][j], input[q][i])

Init ==
  /\ input = [q \in Partitions |-> <<>>]
  /\ committed = [q \in Partitions |-> 0]
  /\ held = {}
  /\ delivered = [k \in Topics |-> {}]

Arrive(q, r) ==
  /\ Joins => q = PartitionOf[r.corr]
  /\ input' = [input EXCEPT ![q] = Append(@, r)]
  /\ UNCHANGED <<committed, held, delivered>>

\* A record that is not committed yet takes the place of its source's last one.
\* Records that were delivered may be left out of the join it enters.
Hold(q, i) ==
  /\ Joins
  /\ \E D \in SUBSET {x \in held : DeliveredEverywhere(x)} :
       held' = {x \in held \ D : ~SameContribution(x, input[q][i])} \cup {input[q][i]}
  /\ UNCHANGED <<input, committed, delivered>>

\* One result is appended to one topic: it is made of arrived records.
Deliver(k) ==
  /\ \E R \in SUBSET Arrived : delivered' = [delivered EXCEPT ![k] = @ \cup R]
  /\ UNCHANGED <<input, committed, held>>

Release ==
  /\ held' \subseteq held
  /\ \A r \in held \ held' : DeliveredEverywhere(r)
  /\ UNCHANGED <<input, committed, delivered>>

Commit ==
  /\ committed' \in [Partitions -> Nat]
  /\ \A q \in Partitions : /\ committed'[q] \in committed[q]..Len(input[q])
                           /\ \A i \in (committed[q] + 1)..committed'[q] : Settled(q, i)
  /\ UNCHANGED <<input, held, delivered>>

Next ==
  \/ \E q \in Partitions, r \in Records : Arrive(q, r)
  \/ \E q \in Partitions : \E i \in (committed[q] + 1)..Len(input[q]) : Hold(q, i)
  \/ \E k \in Topics : Deliver(k)
  \/ Release
  \/ Commit

Spec == Init /\ [][Next]_vars

\* A consequence: what is committed is settled, and stays so.
CommittedIsSettled == \A q \in Partitions : \A i \in 1..committed[q] : Settled(q, i)
=============================================================================

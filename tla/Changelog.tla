----------------------------- MODULE Changelog ------------------------------
(***************************************************************************)
(* One partition of JOIN_STATE_TOPIC and the hydration of a starting pod,  *)
(* offset by offset: hydratePartition reads from the oldest record to the  *)
(* newest one it knew of when it began, while another pod still writes and *)
(* the broker compacts.  Runner takes hydration as one step that copies    *)
(* the latest values; this module is what justifies it.                    *)
(*                                                                         *)
(* The broker is external.  Compaction leaves holes in the offsets: it     *)
(* removes records that a later one of the same key replaces, and          *)
(* tombstones once nothing older of the key is left.  It never removes the *)
(* last record, and keeps tombstones for as long as a hydration takes      *)
(* (delete.retention.ms).                                                  *)
(***************************************************************************)
EXTENDS Integers, Sequences, FiniteSetsExt

CONSTANTS
  Keys,         \* correlation IDs of this partition
  States,       \* encoded join states
  Tombstone,    \* the empty value
  Unreadable,   \* a value that is not a join state
  NoJoin,       \* a key that is not in the map
  MaxRecords,   \* bound on the records written
  MaxRestarts   \* bound on failed hydrations

ASSUME ChangelogAssumption ==
  /\ {Tombstone, Unreadable, NoJoin} \cap States = {} /\ Tombstone # Unreadable
  /\ MaxRecords \in Nat
  /\ MaxRestarts \in Nat

VARIABLES
  log,      \* every record ever written; the offset of log[i] is i - 1
  kept,     \* the indices that compaction has left
  stage,    \* what the starting pod does
  newest,   \* the newest offset when hydration began
  next,     \* the index its reader goes on from
  joins,    \* the map it builds
  restarts

vars == <<log, kept, stage, newest, next, joins, restarts>>

Record == [key : Keys, value : States \cup {Tombstone, Unreadable}]

TypeOK ==
  /\ log \in Seq(Record)
  /\ kept \subseteq 1..Len(log)
  /\ stage \in {"starting", "reading", "done"}
  /\ newest \in 0..Len(log)
  /\ next \in 1..(Len(log) + 1)
  /\ joins \in [Keys -> States \cup {NoJoin}]
  /\ restarts \in 0..MaxRestarts

Empty == [k \in Keys |-> NoJoin]

Init ==
  /\ log = <<>>
  /\ kept = {}
  /\ stage = "starting"
  /\ newest = 0
  /\ next = 1
  /\ joins = Empty
  /\ restarts = 0
-----------------------------------------------------------------------------
\* writeJoinState or tombstoneJoinState of an earlier or of another pod.
Write(r) ==
  /\ Len(log) < MaxRecords
  /\ log' = Append(log, r)
  /\ kept' = kept \cup {Len(log) + 1}
  /\ UNCHANGED <<stage, newest, next, joins, restarts>>

SameKey(i) == {j \in kept : log[j].key = log[i].key}

Compact(i) ==
  /\ \E j \in SameKey(i) : j > i
  /\ kept' = kept \ {i}
  /\ UNCHANGED <<log, stage, newest, next, joins, restarts>>

DropTombstone(i) ==
  /\ stage = "starting"
  /\ log[i].value = Tombstone
  /\ SameKey(i) = {i}
  /\ i < Len(log)
  /\ kept' = kept \ {i}
  /\ UNCHANGED <<log, stage, newest, next, joins, restarts>>
-----------------------------------------------------------------------------
\* GetOffset: an empty partition needs no replay; else read from the oldest.
GetNewest ==
  /\ stage = "starting"
  /\ newest' = Len(log)
  /\ next' = 1
  /\ joins' = Empty
  /\ stage' = IF Len(log) = 0 THEN "done" ELSE "reading"
  /\ UNCHANGED <<log, kept, restarts>>

\* Mutant of Applied: a tombstone is a value like any other.
AppliedAsIs(r) == [joins EXCEPT ![r.key] = r.value]

\* applyHydratedRecord: a tombstone deletes, an unreadable record is skipped.
Applied(r) ==
  [joins EXCEPT ![r.key] = CASE r.value = Tombstone  -> NoJoin
                             [] r.value = Unreadable -> @
                             [] OTHER                -> r.value]

\* Mutants of CaughtUp: the last offset itself, and one record early.
CaughtUpExactly(i) == i = newest
CaughtUpEarly(i)   == i + 1 >= newest

\* msg.Offset+1 >= newest
CaughtUp(i) == i >= newest

\* The consumer delivers the next record that is left.
Ahead == {i \in kept : i >= next}

ReadRecord ==
  /\ stage = "reading"
  /\ Ahead # {}
  /\ LET i == Min(Ahead)
     IN  /\ joins' = Applied(log[i])
         /\ next' = i + 1
         /\ stage' = IF CaughtUp(i) THEN "done" ELSE "reading"
  /\ UNCHANGED <<log, kept, newest, restarts>>

\* An error of the client, a cancelled context or a crash: the next process
\* starts over.
HydrationFails ==
  /\ stage # "done"
  /\ restarts < MaxRestarts
  /\ restarts' = restarts + 1
  /\ stage' = "starting"
  /\ UNCHANGED <<log, kept, newest, next, joins>>
-----------------------------------------------------------------------------
Next ==
  \/ \E r \in Record : Write(r)
  \/ \E i \in kept : Compact(i) \/ DropTombstone(i)
  \/ GetNewest
  \/ ReadRecord
  \/ HydrationFails

Spec == Init /\ [][Next]_vars

\* The brokers answer, and deliver what there is to read.
FairSpec == Spec /\ WF_vars(GetNewest) /\ WF_vars(ReadRecord)
-----------------------------------------------------------------------------
\* The last record written for k.
LastOf(k) == Max({0} \cup {i \in 1..Len(log) : log[i].key = k})

Written(k) == {log[i].value : i \in {j \in 1..Len(log) : log[j].key = k}} \cap States

\* HydratedIsCurrent: a hydrated pod has each key's latest value, unless that
\* was written after it asked for the newest offset or cannot be read: it is not
\* misled by compaction that moves under its reader, nor by the tombstone of a
\* join that it has read already.
HydratedIsCurrent ==
  stage = "done" => \A k \in Keys :
    LET i == LastOf(k)
    IN  /\ joins[k] \in Written(k) \cup {NoJoin}
        /\ i \in 1..newest /\ log[i].value \in States   => joins[k] = log[i].value
        /\ i \in 1..newest /\ log[i].value = Tombstone => joins[k] = NoJoin

\* HydrationEnds: the wait for the newest offset ends, also when the record at
\* that offset has been compacted away in the meantime.
HydrationEnds == <>(stage = "done")
=============================================================================

--------------------------- MODULE ChangelogProofs --------------------------
(***************************************************************************)
(* What hydration yields for every changelog: any number of keys, records, *)
(* compactions and restarts.                                               *)
(*                                                                         *)
(* HydratedIsCurrent speaks of the last record of a key.  Its inductive    *)
(* form follows that record: compaction leaves it (LastIsKept), the reader *)
(* has applied it once it is past it (ReadIsApplied), and a key whose      *)
(* tombstone went before the reader came was never seen                    *)
(* (UnseenIsAbsent).                                                       *)
(***************************************************************************)
EXTENDS Changelog, TLAPS, WellFoundedInduction

-----------------------------------------------------------------------------
(***************************************************************************)
(* Extrema of sets of numbers.                                             *)
(***************************************************************************)

\* A relation the backends can expand, unlike OpToRel(<, Nat).
Less == {ss \in Nat \X Nat : ss[1] < ss[2]}

\* There is no infinite descent of offsets.
LEMMA LessWellFounded == IsWellFoundedOn(Less, Nat)
BY NatLessThanWellFounded, Zenon DEF OpToRel, Less

\* A set of offsets has a least one.
LEMMA LeastExists ==
  ASSUME NEW S, S \subseteq Nat, S # {}
  PROVE  \E m \in S : \A x \in S : m <= x
<1>1. PICK m \in S : \A x \in S : ~(<<x, m>> \in Less)
  BY LessWellFounded, WFMin
<1>2. ASSUME NEW x \in S PROVE m <= x
  <2>1. x < m => <<x, m>> \in Less
    BY Zenon DEF Less
  <2>2. QED
    BY <1>1, <2>1
<1>3. QED
  BY <1>2

\* Min picks it: the next record the reader is given.
LEMMA MinIsLeast ==
  ASSUME NEW S, S \subseteq Nat, S # {}
  PROVE  Min(S) \in S /\ \A x \in S : Min(S) <= x
BY LeastExists DEF Min

\* Max picks the greatest offset of a bounded set: the newest record, a key's last one.
LEMMA MaxIsGreatest ==
  ASSUME NEW N \in Nat, NEW S, S \subseteq 0..N, S # {}
  PROVE  Max(S) \in S /\ \A x \in S : Max(S) >= x
<1> DEFINE T == {N - x : x \in S}
<1>1. T \subseteq Nat
  OBVIOUS
<1>2. T # {}
  OBVIOUS
<1> HIDE DEF T
<1>3. PICK m \in T : \A x \in T : m <= x
  BY <1>1, <1>2, LeastExists
<1>4. PICK g \in S : m = N - g
  BY DEF T
<1>5. ASSUME NEW x \in S PROVE g >= x
  <2>1. N - x \in T
    BY DEF T
  <2>2. QED
    BY <1>3, <1>4, <2>1
<1>6. QED
  BY <1>5 DEF Max
-----------------------------------------------------------------------------
(***************************************************************************)
(* The inductive invariant.                                                *)
(***************************************************************************)

\* Nothing was written for the key of log[i] after it.
IsLast(i) == \A j \in 1..Len(log) : j > i => log[j].key # log[i].key

\* Compaction leaves the last record of a key, unless that is a tombstone; then
\* nothing of the key is left.
LastIsKept ==
  \A i \in 1..Len(log) : IsLast(i) =>
    i \in kept \/ (log[i].value = Tombstone /\ SameKey(i) = {})

\* What the map has to hold once log[i] is read.
Reflects(i) ==
  /\ log[i].value \in States   => joins[log[i].key] = log[i].value
  /\ log[i].value = Tombstone => joins[log[i].key] = NoJoin

ReadIsApplied  == \A i \in 1..Len(log) : IsLast(i) /\ i < next => Reflects(i)
UnseenIsAbsent == \A k \in Keys : (\A j \in kept : log[j].key # k) => joins[k] = NoJoin

JoinsAreWritten == \A k \in Keys : joins[k] \in Written(k) \cup {NoJoin}

HydrationInv ==
  /\ TypeOK
  /\ LastIsKept
  /\ JoinsAreWritten
  /\ stage # "starting" => ReadIsApplied /\ UnseenIsAbsent
  /\ stage = "done" => newest < next

\* The records are well-typed.
LEMMA RecordType ==
  ASSUME TypeOK
  PROVE  /\ Len(log) \in Nat
         /\ \A i \in 1..Len(log) : /\ log[i] \in Record /\ log[i].key \in Keys
                                   /\ log[i].value \in States \cup {Tombstone, Unreadable}
<1>1. log \in Seq(Record) /\ Len(log) \in Nat
  BY DEF TypeOK
<1>2. \A i \in 1..Len(log) : log[i] \in Record
  BY <1>1
<1>3. QED
  BY <1>1, <1>2 DEF Record

\* A record that is appended is the last of its key and ahead of every reader.
LEMMA WriteStep ==
  ASSUME HydrationInv, NEW r \in Record, Write(r)
  PROVE  HydrationInv'
<1> USE DEF HydrationInv
<1> DEFINE n == Len(log)
<1>1. /\ n \in Nat /\ log' = Append(log, r) /\ Len(log') = n + 1 /\ log'[n + 1] = r
      /\ log' \in Seq(Record) /\ \A i \in 1..n : log'[i] = log[i]
      /\ kept' = kept \cup {n + 1} /\ UNCHANGED <<stage, newest, next, joins, restarts>>
  BY DEF Write, TypeOK
<1>2. kept \subseteq 1..n /\ next \in 1..(n + 1) /\ newest \in 0..n
  BY DEF TypeOK
<1>3. TypeOK'
  <2>1. newest' \in 0..Len(log') /\ next' \in 1..(Len(log') + 1)
    BY <1>1, <1>2
  <2>2. kept' \subseteq 1..Len(log')
    <3>1. 1..n \subseteq 1..(n + 1) /\ n + 1 \in 1..(n + 1)
      BY <1>1
    <3>2. QED
      BY <1>1, <1>2, <3>1
  <2>3. QED
    BY <1>1, <2>1, <2>2 DEF TypeOK
<1>4. ASSUME NEW i \in 1..n, IsLast(i)' PROVE IsLast(i) /\ log[i].key # r.key
  <2>1. \A j \in 1..(n + 1) : j > i => log'[j].key # log'[i].key
    BY <1>1, <1>4 DEF IsLast
  <2>2. log'[n + 1].key # log'[i].key
    BY <1>1, <2>1
  <2>3. ASSUME NEW j \in 1..n, j > i PROVE log[j].key # log[i].key
    BY <1>1, <2>1, <2>3
  <2>4. QED
    BY <1>1, <2>2, <2>3 DEF IsLast
<1>5. LastIsKept'
  <2>1. ASSUME NEW i \in 1..n, IsLast(i)'
        PROVE  i \in kept' \/ (log'[i].value = Tombstone /\ SameKey(i)' = {})
    <3>1. CASE i \in kept
      BY <1>1, <3>1
    <3>2. CASE log[i].value = Tombstone /\ SameKey(i) = {}
      <4>1. \A j \in kept : log'[j].key # log'[i].key
        BY <1>1, <1>2, <3>2 DEF SameKey
      <4>2. log'[n + 1].key # log'[i].key
        BY <1>1, <1>4, <2>1
      <4>3. SameKey(i)' = {}
        BY <1>1, <4>1, <4>2 DEF SameKey
      <4>4. QED
        BY <1>1, <3>2, <4>3
    <3>3. QED
      BY <1>4, <2>1, <3>1, <3>2 DEF LastIsKept
  <2>2. QED
    BY <1>1, <2>1 DEF LastIsKept
<1>6. JoinsAreWritten'
  <2>1. ASSUME NEW k \in Keys PROVE Written(k) \subseteq Written(k)'
    <3>1. {j \in 1..n : log[j].key = k} \subseteq {j \in 1..(n + 1) : log'[j].key = k}
      BY <1>1
    <3>2. QED
      BY <1>1, <3>1 DEF Written
  <2>2. QED
    BY <1>1, <2>1 DEF JoinsAreWritten
<1>7. ASSUME stage # "starting" PROVE ReadIsApplied' /\ UnseenIsAbsent'
  <2>1. ASSUME NEW i \in 1..(n + 1), IsLast(i)', i < next PROVE Reflects(i)'
    <3>1. i \in 1..n
      BY <1>1, <1>2, <2>1
    <3>2. Reflects(i)
      BY <1>4, <1>7, <2>1, <3>1 DEF ReadIsApplied
    <3>3. QED
      BY <1>1, <3>1, <3>2 DEF Reflects
  <2>2. ASSUME NEW k \in Keys, \A j \in kept' : log'[j].key # k PROVE joins[k] = NoJoin
    <3>1. \A j \in kept : log[j].key # k
      BY <1>1, <1>2, <2>2
    <3>2. QED
      BY <1>7, <3>1 DEF UnseenIsAbsent
  <2>3. QED
    BY <1>1, <2>1, <2>2 DEF ReadIsApplied, UnseenIsAbsent
<1>8. QED
  BY <1>1, <1>3, <1>5, <1>6, <1>7

\* Compaction removes what is not the last record of its key, or, before the
\* reader comes, a tombstone that is all that is left of it.
LEMMA CompactStep ==
  ASSUME HydrationInv, NEW i \in kept, Compact(i) \/ DropTombstone(i)
  PROVE  HydrationInv'
<1> USE DEF HydrationInv
<1>1. kept' = kept \ {i} /\ UNCHANGED <<log, stage, newest, next, joins, restarts>>
  BY DEF Compact, DropTombstone
<1>2. kept \subseteq 1..Len(log) /\ Len(log) \in Nat
  BY DEF TypeOK
<1>3. TypeOK'
  BY <1>1, <1>2 DEF TypeOK
<1>4. ASSUME NEW l \in 1..Len(log), IsLast(l)
      PROVE  l \in kept' \/ (log[l].value = Tombstone /\ SameKey(l)' = {})
  <2>1. CASE l # i
    <3>1. CASE l \in kept
      BY <1>1, <2>1, <3>1
    <3>2. CASE log[l].value = Tombstone /\ SameKey(l) = {}
      BY <1>1, <3>2 DEF SameKey
    <3>3. QED
      BY <1>4, <3>1, <3>2 DEF LastIsKept
  <2>2. CASE l = i
    <3>1. ~Compact(i)
      BY <1>2, <1>4, <2>2 DEF Compact, SameKey, IsLast
    <3>2. log[l].value = Tombstone /\ SameKey(l) = {l}
      BY <2>2, <3>1 DEF DropTombstone
    <3>3. SameKey(l)' = {}
      BY <1>1, <2>2, <3>2 DEF SameKey
    <3>4. QED
      BY <3>2, <3>3
  <2>3. QED
    BY <2>1, <2>2
<1>5. LastIsKept'
  BY <1>1, <1>4 DEF LastIsKept, IsLast
<1>6. JoinsAreWritten'
  BY <1>1 DEF JoinsAreWritten, Written
<1>7. ASSUME stage # "starting" PROVE ReadIsApplied' /\ UnseenIsAbsent'
  <2>1. PICK m \in kept : log[m].key = log[i].key /\ m > i
    BY <1>7 DEF Compact, DropTombstone, SameKey
  <2>2. m \in kept' /\ m # i
    BY <1>1, <1>2, <2>1
  <2>3. ASSUME NEW k \in Keys, \A j \in kept' : log[j].key # k PROVE joins[k] = NoJoin
    <3>1. \A j \in kept : log[j].key # k
      BY <1>1, <2>1, <2>2, <2>3
    <3>2. QED
      BY <1>7, <3>1 DEF UnseenIsAbsent
  <2>4. ReadIsApplied'
    BY <1>1, <1>7 DEF ReadIsApplied, IsLast, Reflects
  <2>5. QED
    BY <1>1, <2>3, <2>4 DEF UnseenIsAbsent
<1>8. QED
  BY <1>1, <1>3, <1>5, <1>6, <1>7

\* Hydration starts with an empty map before the oldest record.
LEMMA GetNewestStep ==
  ASSUME HydrationInv, GetNewest
  PROVE  HydrationInv'
<1> USE DEF HydrationInv
<1>1. /\ newest' = Len(log) /\ next' = 1 /\ joins' = Empty /\ UNCHANGED <<log, kept, restarts>>
      /\ stage' = IF Len(log) = 0 THEN "done" ELSE "reading"
  BY DEF GetNewest
<1>2. Len(log) \in Nat
  BY DEF TypeOK
<1>3. TypeOK'
  <2>1. joins' \in [Keys -> States \cup {NoJoin}] /\ stage' \in {"starting", "reading", "done"}
    BY <1>1 DEF Empty
  <2>2. QED
    BY <1>1, <1>2, <2>1 DEF TypeOK
<1>4. LastIsKept'
  BY <1>1 DEF LastIsKept, IsLast, SameKey
<1>5. JoinsAreWritten' /\ UnseenIsAbsent'
  BY <1>1 DEF JoinsAreWritten, UnseenIsAbsent, Empty
<1>6. ReadIsApplied'
  BY <1>1, <1>2 DEF ReadIsApplied
<1>7. QED
  BY <1>1, <1>2, <1>3, <1>4, <1>5, <1>6

\* The reader applies the next record that is left.  The last record of a key
\* that it jumps over is a tombstone of a key that it has never seen.
LEMMA ReadStep ==
  ASSUME HydrationInv, ReadRecord
  PROVE  HydrationInv'
<1> USE DEF HydrationInv
<1> DEFINE r == Min(Ahead)
           k0 == log[r].key
<1>1. /\ stage = "reading" /\ joins' = Applied(log[r]) /\ next' = r + 1
      /\ stage' = IF CaughtUp(r) THEN "done" ELSE "reading"
      /\ UNCHANGED <<log, kept, newest, restarts>>
  BY DEF ReadRecord
<1>2. kept \subseteq 1..Len(log) /\ Len(log) \in Nat /\ next \in Nat /\ newest \in Nat
  BY DEF TypeOK
<1>3. r \in Ahead /\ \A i \in Ahead : r <= i
  <2>1. Ahead # {}
    BY DEF ReadRecord
  <2>2. Ahead \subseteq Nat
    <3>1. \A i \in kept : i \in Nat
      BY <1>2
    <3>2. QED
      BY <3>1, Zenon DEF Ahead
  <2>3. QED
    BY <2>1, <2>2, MinIsLeast
<1> HIDE DEF r
<1>4. r \in kept /\ r \in 1..Len(log) /\ r >= next /\ \A i \in kept : i >= next => r <= i
  BY <1>2, <1>3 DEF Ahead
<1>5. log[r] \in Record /\ k0 \in Keys /\ log[r].value \in States \cup {Tombstone, Unreadable}
  BY <1>4, RecordType
<1>6. joins \in [Keys -> States \cup {NoJoin}]
  BY DEF TypeOK
<1>7. /\ \A k \in Keys : k # k0 => joins'[k] = joins[k]
      /\ log[r].value \in States => joins'[k0] = log[r].value
      /\ log[r].value = Tombstone => joins'[k0] = NoJoin
      /\ log[r].value = Unreadable => joins'[k0] = joins[k0]
      /\ DOMAIN joins' = Keys
  <2>1. joins' = [joins EXCEPT ![k0] = CASE log[r].value = Tombstone  -> NoJoin
                                         [] log[r].value = Unreadable -> joins[k0]
                                         [] OTHER                     -> log[r].value]
    BY <1>1 DEF Applied
  <2>2. QED
    BY <1>5, <1>6, <2>1, ChangelogAssumption
<1>8. TypeOK'
  <2>1. joins' \in [Keys -> States \cup {NoJoin}]
    <3>1. \A k \in Keys : joins'[k] \in States \cup {NoJoin}
      BY <1>5, <1>6, <1>7
    <3>2. \E v : joins' = [joins EXCEPT ![k0] = v]
      BY <1>1 DEF Applied
    <3>3. QED
      BY <1>6, <3>1, <3>2
  <2>2. stage' \in {"starting", "reading", "done"} /\ next' \in 1..(Len(log) + 1)
    BY <1>1, <1>2, <1>4
  <2>3. QED
    BY <1>1, <2>1, <2>2 DEF TypeOK
<1>9. LastIsKept'
  BY <1>1 DEF LastIsKept, IsLast, SameKey
<1>10. JoinsAreWritten'
  <2>1. ASSUME NEW k \in Keys PROVE joins'[k] \in Written(k) \cup {NoJoin}
    <3>1. CASE k = k0 /\ log[r].value \in States
      BY <1>4, <1>7, <3>1 DEF Written
    <3>2. CASE k # k0 \/ log[r].value \notin States
      BY <1>5, <1>7, <3>2 DEF JoinsAreWritten
    <3>3. QED
      BY <3>1, <3>2
  <2>2. QED
    BY <1>1, <2>1 DEF JoinsAreWritten, Written
<1>11. UnseenIsAbsent'
  <2>1. ASSUME NEW k \in Keys, \A j \in kept : log[j].key # k PROVE joins'[k] = NoJoin
    BY <1>1, <1>4, <1>7, <2>1 DEF UnseenIsAbsent
  <2>2. QED
    BY <1>1, <2>1 DEF UnseenIsAbsent
<1>12. ReadIsApplied'
  <2>1. ASSUME NEW i \in 1..Len(log), IsLast(i), i < r + 1 PROVE Reflects(i)'
    <3>1. CASE i = r
      BY <1>1, <1>7, <3>1 DEF Reflects
    <3>2. ASSUME i < r PROVE log[i].key # k0 /\ log[i].key \in Keys
      BY <1>4, <2>1, <3>2, RecordType DEF IsLast
    <3>3. CASE i < next
      <4>1. Reflects(i) /\ i < r
        BY <1>1, <1>2, <1>4, <2>1, <3>3 DEF ReadIsApplied
      <4>2. QED
        BY <1>1, <1>7, <3>2, <4>1 DEF Reflects
    <3>4. CASE i >= next /\ i < r
      <4>1. i \notin kept
        BY <1>2, <1>4, <3>4
      <4>2. log[i].value = Tombstone /\ SameKey(i) = {}
        BY <2>1, <4>1 DEF LastIsKept
      <4>3. joins[log[i].key] = NoJoin
        BY <1>1, <3>2, <3>4, <4>2 DEF UnseenIsAbsent, SameKey
      <4>4. log[i].value \notin States
        BY <4>2, ChangelogAssumption
      <4>5. QED
        BY <1>1, <1>7, <3>2, <3>4, <4>3, <4>4 DEF Reflects
    <3>5. QED
      BY <1>2, <1>4, <2>1, <3>1, <3>3, <3>4
  <2>2. QED
    BY <1>1, <2>1 DEF ReadIsApplied, IsLast
<1>13. stage' = "done" => newest' < next'
  BY <1>1, <1>2, <1>4 DEF CaughtUp
<1>14. QED
  BY <1>8, <1>9, <1>10, <1>11, <1>12, <1>13

\* Every step of the writers, of the broker and of the reader.
LEMMA HydrationStep == HydrationInv /\ [Next]_vars => HydrationInv'
<1> SUFFICES ASSUME HydrationInv, [Next]_vars PROVE HydrationInv'
  OBVIOUS
<1>1. CASE HydrationFails
  <2>1. restarts' \in 0..MaxRestarts
    BY <1>1, ChangelogAssumption DEF HydrationFails, HydrationInv, TypeOK
  <2>2. QED
    BY <1>1, <2>1 DEF HydrationFails, HydrationInv, TypeOK, LastIsKept, IsLast, SameKey,
       JoinsAreWritten, Written
<1>2. CASE UNCHANGED vars
  BY <1>2 DEF vars, HydrationInv, TypeOK, LastIsKept, IsLast, SameKey, JoinsAreWritten, Written,
     ReadIsApplied, UnseenIsAbsent, Reflects
<1>3. QED
  BY <1>1, <1>2, WriteStep, CompactStep, GetNewestStep, ReadStep DEF Next

\* The invariant holds of every hydration, also one that failed and started over.
LEMMA HydrationHolds == Spec => []HydrationInv
<1>1. ASSUME Init PROVE HydrationInv
  <2>1. TypeOK
    BY <1>1, ChangelogAssumption DEF Init, TypeOK, Empty
  <2>2. Len(log) = 0 /\ stage = "starting" /\ joins = Empty
    BY <1>1 DEF Init
  <2>3. QED
    BY <2>1, <2>2 DEF HydrationInv, LastIsKept, JoinsAreWritten, Empty
<1>2. QED
  BY <1>1, HydrationStep, PTL DEF Spec

\* ChangelogTypeCorrect: the reader stays within the log, and its map holds join
\* states only, never an encoded tombstone or an unreadable value.
THEOREM ChangelogTypeCorrect == Spec => []TypeOK
BY HydrationHolds, PTL DEF HydrationInv

\* HydrationIsCurrent: whatever is written and compacted while the reader is on
\* its way, and however often it starts over, a hydrated pod has the latest value
\* of every key whose last record was there when hydration began.
THEOREM HydrationIsCurrent == Spec => []HydratedIsCurrent
<1>1. ASSUME HydrationInv PROVE HydratedIsCurrent
  <2> SUFFICES ASSUME stage = "done", NEW k \in Keys
               PROVE  LET i == LastOf(k)
                      IN  /\ joins[k] \in Written(k) \cup {NoJoin}
                          /\ i \in 1..newest /\ log[i].value \in States => joins[k] = log[i].value
                          /\ i \in 1..newest /\ log[i].value = Tombstone => joins[k] = NoJoin
    BY DEF HydratedIsCurrent
  <2> DEFINE i == LastOf(k)
             S == {0} \cup {j \in 1..Len(log) : log[j].key = k}
  <2>1. Len(log) \in Nat /\ newest \in 0..Len(log) /\ newest < next /\ next \in Nat
    BY <1>1 DEF HydrationInv, TypeOK
  <2>2. i \in S /\ \A j \in S : i >= j
    <3>1. S \subseteq 0..Len(log) /\ S # {}
      BY <2>1
    <3>2. i = Max(S)
      BY DEF LastOf
    <3>3. QED
      BY <2>1, <3>1, <3>2, MaxIsGreatest
  <2> HIDE DEF i
  <2>3. joins[k] \in Written(k) \cup {NoJoin}
    BY <1>1 DEF HydrationInv, JoinsAreWritten
  <2>4. ASSUME i \in 1..newest PROVE Reflects(i) /\ log[i].key = k
    <3>1. i \in 1..Len(log) /\ log[i].key = k /\ i < next
      BY <2>1, <2>2, <2>4
    <3>2. IsLast(i)
      <4>1. ASSUME NEW j \in 1..Len(log), j > i, log[j].key = k PROVE FALSE
        BY <2>1, <2>2, <3>1, <4>1
      <4>2. QED
        BY <3>1, <4>1 DEF IsLast
    <3>3. QED
      BY <1>1, <3>1, <3>2 DEF HydrationInv, ReadIsApplied
  <2>5. QED
    BY <2>3, <2>4 DEF Reflects, i
<1>2. QED
  BY <1>1, HydrationHolds, PTL
=============================================================================

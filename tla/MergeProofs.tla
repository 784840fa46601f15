----------------------------- MODULE MergeProofs ----------------------------
(***************************************************************************)
(* What mergeJoinedData and mergeFinalAnswer keep, for every number of     *)
(* sources and fields and every order in which the map of sources is       *)
(* walked.                                                                 *)
(*                                                                         *)
(* MergeInv states the properties for the sources visited so far: the      *)
(* properties themselves only speak of the end of the walk.                *)
(***************************************************************************)
EXTENDS Merge, TLAPS

Visited == Sources \ todo

\* The values the visited sources have for a field.
Given(f) == {received[s][f] : s \in Visited} \ {Absent}

MergeType ==
  /\ received \in [Sources -> Payload]
  /\ todo \subseteq Sources
  /\ merged = [f \in Fields |-> merged[f]]

\* VisitedAreKept: a visited source is under its own name, whatever the sources
\* visited before and after it have there.
VisitedAreKept == \A s \in Visited : merged[s] = Whole(s)

\* VisitedAreFlat: so far, a field is there exactly if a visited source has it.
VisitedAreFlat ==
  \A f \in Names : IF Given(f) = {} THEN merged[f] = Absent ELSE merged[f] \in Given(f)

\* AnswerIsLast: mergeFinalAnswer sees the whole of the joined data.
AnswerIsLast == out # NotDone => todo = {}

MergeInv == MergeType /\ VisitedAreKept /\ VisitedAreFlat /\ AnswerIsLast /\ AnswerKept

\* Nothing is visited and nothing is merged at first.
LEMMA MergeInit == Init => MergeInv
<1> SUFFICES ASSUME Init PROVE MergeInv
  OBVIOUS
<1>1. Visited = {}
  BY DEF Init, Visited
<1>2. MergeType
  BY DEF Init, MergeType
<1>3. VisitedAreKept
  BY <1>1 DEF VisitedAreKept
<1>4. ASSUME NEW f \in Names PROVE Given(f) = {} /\ merged[f] = Absent
  BY <1>1 DEF Given, Init, Fields
<1>5. VisitedAreFlat
  BY <1>4 DEF VisitedAreFlat
<1>6. AnswerIsLast /\ AnswerKept
  BY DEF Init, AnswerIsLast, AnswerKept
<1> QED
  BY <1>2, <1>3, <1>5, <1>6 DEF MergeInv

\* Visiting a source, in whatever order.
LEMMA MergeSourceKeeps ==
  ASSUME MergeInv, NEW s \in Sources, MergeSource(s)
  PROVE  MergeInv'
<1>1. /\ s \in todo
      /\ todo' = todo \ {s}
      /\ received' = received
      /\ out' = out
      /\ merged' = Flattened(s)
  BY DEF MergeSource
<1>2. Visited' = Visited \cup {s}
  BY <1>1 DEF Visited
<1>3. out = NotDone
  BY <1>1 DEF MergeInv, AnswerIsLast
<1>4. MergeType'
  BY <1>1 DEF MergeInv, MergeType, Flattened
<1>5. VisitedAreKept'
  <2> SUFFICES ASSUME NEW r \in Visited' PROVE merged'[r] = Whole(r)
    BY DEF VisitedAreKept, Whole
  <2>1. r \in Fields
    BY DEF Visited, Fields
  <2>2. CASE r = s
    BY <1>1, <2>1, <2>2 DEF Flattened
  <2>3. CASE r # s
    <3>1. merged[r] = Whole(r)
      BY <1>2, <2>3 DEF MergeInv, VisitedAreKept
    <3>2. Whole(r) # Absent
      BY MergeAssumption DEF Visited
    <3> QED
      BY <1>1, <2>1, <2>3, <3>1, <3>2 DEF Flattened
  <2> QED
    BY <2>2, <2>3
<1>6. VisitedAreFlat'
  <2> SUFFICES ASSUME NEW f \in Names
               PROVE  IF Given(f)' = {} THEN merged'[f] = Absent ELSE merged'[f] \in Given(f)'
    BY DEF VisitedAreFlat
  <2>1. f \in Fields /\ f # s
    BY MergeAssumption DEF Fields
  <2>2. merged'[f] = IF merged[f] # Absent THEN merged[f] ELSE received[s][f]
    BY <1>1, <2>1 DEF Flattened
  <2>3. Given(f)' = Given(f) \cup ({received[s][f]} \ {Absent})
    BY <1>1, <1>2 DEF Given
  <2>4. IF Given(f) = {} THEN merged[f] = Absent ELSE merged[f] \in Given(f)
    BY DEF MergeInv, VisitedAreFlat
  <2>5. Absent \notin Given(f)
    BY DEF Given
  <2> QED
    BY <2>2, <2>3, <2>4, <2>5
<1>7. AnswerIsLast' /\ AnswerKept'
  BY <1>1, <1>3 DEF AnswerIsLast, AnswerKept, NotDone
<1> QED
  BY <1>4, <1>5, <1>6, <1>7 DEF MergeInv

\* What an answer becomes: whichever reading extractJSONObject takes, its fields are
\* published if it is an object, and the text is if there is none.
LEMMA AnswerTaken ==
  ASSUME NEW x \in Content
  PROVE  LET result  == MergeFinalAnswer(x)
             objects == {x.whole, x.fenced, x.span} \cap Answers
         IN  /\ \A f \in Fields : merged[f] # Absent => result.data[f] # Absent
             /\ \/ x.whole = Null \/ (x.whole = NoObject /\ x.fenced = Null)
                \/ IF objects # {}
                   THEN \E d \in objects : \A f \in Fields :
                          d[f] # Absent => result.data[f] = d[f]
                   ELSE x.text # "empty" => result.result = "text"
<1> DEFINE parsed == ExtractJSONObject(x)
           result == MergeFinalAnswer(x)
<1>1. /\ x.whole \in Answers \cup {Null, NoObject}
      /\ x.fenced \in Answers \cup {Null, NoObject}
      /\ x.span \in Answers \cup {NoObject}
      /\ x.text \in {"empty", "text"}
  BY DEF Content
<1>2. Null \notin Answers /\ NoObject \notin Answers /\ Null # NoObject
  BY MergeAssumption
<1>3. /\ parsed # NoObject => result.data = Copied(parsed)
      /\ parsed = NoObject => /\ result.data = merged
                             /\ result.result = IF x.text = "empty" THEN "none" ELSE "text"
  BY DEF MergeFinalAnswer
<1>4. \A f \in Fields : merged[f] # Absent => result.data[f] # Absent
  BY <1>3 DEF Copied
<1>5. CASE parsed \in Answers
  <2>1. parsed \in {x.whole, x.fenced, x.span}
    BY DEF ExtractJSONObject
  <2>2. \A f \in Fields : parsed[f] # Absent => result.data[f] = parsed[f]
    BY <1>2, <1>3, <1>5 DEF Copied
  <2> HIDE DEF parsed, result
  <2> QED
    BY <1>4, <1>5, <2>1, <2>2 DEF result
<1>6. CASE parsed = Null
  BY <1>1, <1>2, <1>4, <1>6 DEF ExtractJSONObject
<1>7. CASE parsed = NoObject
  <2>1. x.whole = NoObject /\ x.fenced = NoObject /\ x.span = NoObject
    BY <1>1, <1>2, <1>7 DEF ExtractJSONObject
  <2>2. {x.whole, x.fenced, x.span} \cap Answers = {}
    BY <1>2, <2>1
  <2> QED
    BY <1>3, <1>4, <1>7, <2>2
<1> QED
  BY <1>1, <1>5, <1>6, <1>7 DEF ExtractJSONObject

\* The agent's answer is folded in.
LEMMA FinalAnswerKeeps ==
  ASSUME MergeInv, NEW x \in Content, FinalAnswer(x)
  PROVE  MergeInv'
<1>1. /\ todo = {}
      /\ UNCHANGED <<received, todo, merged>>
      /\ answer' = x
      /\ out' = MergeFinalAnswer(x)
  BY DEF FinalAnswer
<1>2. Visited' = Visited /\ \A f : Given(f)' = Given(f)
  BY <1>1 DEF Visited, Given
<1>3. MergeType' /\ VisitedAreKept' /\ VisitedAreFlat' /\ AnswerIsLast'
  BY <1>1, <1>2 DEF MergeInv, MergeType, VisitedAreKept, VisitedAreFlat, AnswerIsLast, Whole
<1>4. AnswerKept'
  BY <1>1, AnswerTaken DEF AnswerKept, TakenAsNull, Objects, Has
<1> QED
  BY <1>3, <1>4 DEF MergeInv

\* The inductive invariant holds throughout.
LEMMA MergeAlways == Spec => []MergeInv
<1>1. MergeInv /\ UNCHANGED vars => MergeInv'
  <2> SUFFICES ASSUME MergeInv, UNCHANGED vars PROVE MergeInv'
    OBVIOUS
  <2>1. UNCHANGED <<received, todo, merged, answer, out>>
    BY DEF vars
  <2>2. MergeType' /\ VisitedAreKept' /\ VisitedAreFlat' /\ AnswerIsLast'
    BY <2>1 DEF MergeInv, MergeType, VisitedAreKept, VisitedAreFlat, AnswerIsLast, NotDone,
                Visited, Given, Whole
  <2>3. AnswerKept'
    BY <2>1 DEF MergeInv, AnswerKept, TakenAsNull, Objects, Has, NotDone
  <2> QED
    BY <2>2, <2>3 DEF MergeInv
<1>2. MergeInv /\ [Next]_vars => MergeInv'
  BY <1>1, MergeSourceKeeps, FinalAnswerKeeps DEF Next
<1> QED
  BY <1>2, MergeInit, PTL DEF Spec

-----------------------------------------------------------------------------
\* KeepsEachSource: mergeJoinedData puts each source's payload under its own name,
\* for any number of sources, although joins of joins bring fields of that name.
THEOREM EachSourceIsKept == Spec => []KeepsEachSource
<1>1. MergeInv => KeepsEachSource
  BY DEF MergeInv, MergeType, VisitedAreKept, Visited, KeepsEachSource
<1> QED
  BY <1>1, MergeAlways, PTL

\* FlattensEveryField: whichever source is walked first, each field ends up at the
\* top level exactly if some source has it, with the value of such a source.
THEOREM EveryFieldIsFlattened == Spec => []FlattensEveryField
<1>1. MergeInv => FlattensEveryField
  <2> SUFFICES ASSUME MergeInv, todo = {} PROVE FlattensEveryField
    BY DEF FlattensEveryField
  <2>1. \A f \in Names : Given(f) = {received[s][f] : s \in Sources} \ {Absent}
    BY DEF Given, Visited
  <2> QED
    BY <2>1 DEF MergeInv, VisitedAreFlat, FlattensEveryField
<1> QED
  BY <1>1, MergeAlways, PTL

\* AnswerKept: mergeFinalAnswer keeps the fields of an object in the answer, or its
\* text, and the fields of the joined data, whichever reading extractJSONObject takes,
\* unless that reading is null.
THEOREM AnswerIsKept == Spec => []AnswerKept
BY MergeAlways, PTL DEF MergeInv
=============================================================================

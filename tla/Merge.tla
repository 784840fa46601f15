------------------------------- MODULE Merge --------------------------------
(***************************************************************************)
(* What becomes of a task's data at a fan-in node: mergeJoinedData flattens*)
(* the contributions, walking the map of sources in any order, and         *)
(* mergeFinalAnswer folds the agent's final answer into the result.        *)
(***************************************************************************)
EXTENDS Integers

CONSTANTS
  Sources,  \* names of the contributing nodes
  Names,    \* other field names
  Values,   \* field values
  Answers,  \* objects the agent may answer with
  Absent,   \* the field is not there
  Null,     \* text that decodes to null: a nil map, and no error
  NoObject  \* text that decodes to neither

\* A contribution may have a field with the name of another source: the result
\* of an earlier join has one per source.
Fields  == Sources \cup Names
Payload == [Fields -> Values \cup {Absent}]

VARIABLES
  received,  \* the complete join's contributions
  todo,      \* sources mergeJoinedData has not visited yet
  merged,    \* the data handed to the agent loop
  answer,    \* the agent's last message
  out        \* the data that is published, with the "result" field

vars == <<received, todo, merged, answer, out>>

\* The value of a field of merged data that holds the whole payload of a source.
Whole(s) == <<"payload", s>>

\* The agent's last message: what the whole content, its first fenced block and the
\* span from its first to its last brace decode to.  A span starts with a brace: it
\* is never null, and it is the whole content when that is an object.
Content ==
  {x \in [whole : Answers \cup {Null, NoObject}, fenced : Answers \cup {Null, NoObject},
          span : Answers \cup {NoObject}, text : {"empty", "text"}] :
     /\ x.text = "empty" => {x.whole, x.fenced, x.span} = {NoObject}
     /\ x.whole = Null => {x.fenced, x.span} = {NoObject}
     /\ x.whole \in Answers => x.span = x.whole}

NoAnswer == [whole |-> NoObject, fenced |-> NoObject, span |-> NoObject, text |-> "none"]
NotDone  == [result |-> "none", data |-> [f \in Fields |-> Absent]]

ASSUME MergeAssumption ==
  /\ Sources \cap Names = {}
  /\ Answers \subseteq Payload
  /\ {Null, NoObject} \cap Payload = {}
  /\ Null # NoObject
  /\ Absent \notin Values \cup {Whole(s) : s \in Sources}

Init ==
  /\ received \in [Sources -> Payload]
  /\ todo = Sources
  /\ merged = [f \in Fields |-> Absent]
  /\ answer = NoAnswer
  /\ out = NotDone

\* Mutant of Flattened: a source's name is a field like the others.
FlattenedFirstWins(s) ==
  [f \in Fields |-> IF merged[f] # Absent THEN merged[f]
                    ELSE IF f = s THEN Whole(s) ELSE received[s][f]]

\* Mutant of Flattened: a source that shares a field with another is left nested.
FlattenedApart(s) ==
  [f \in Fields |-> IF f = s THEN Whole(s)
                    ELSE IF \E g \in Names : merged[g] # Absent /\ received[s][g] # Absent
                         THEN merged[f]
                    ELSE IF merged[f] # Absent THEN merged[f] ELSE received[s][f]]

\* The data once source s was visited: its payload under its own name, and the
\* fields nobody has provided yet at the top level.
Flattened(s) ==
  [f \in Fields |-> IF f = s THEN Whole(s)
                    ELSE IF merged[f] # Absent THEN merged[f] ELSE received[s][f]]

MergeSource(s) ==
  /\ s \in todo
  /\ todo' = todo \ {s}
  /\ merged' = Flattened(s)
  /\ UNCHANGED <<received, answer, out>>

\* Mutant of ExtractJSONObject: the span stops short of the last brace.
ExtractNoSpan(x) == IF x.whole # NoObject THEN x.whole ELSE x.fenced

\* extractJSONObject: the first of the three readings that decodes, null included.
ExtractJSONObject(x) ==
  IF x.whole # NoObject THEN x.whole
  ELSE IF x.fenced # NoObject THEN x.fenced ELSE x.span

\* maps.Copy: the fields of an answer replace those of the task; null has none.
Copied(parsed) ==
  [f \in Fields |-> IF parsed # Null /\ parsed[f] # Absent THEN parsed[f] ELSE merged[f]]

\* mergeFinalAnswer: an answer that does not decode is kept as it is in the "result"
\* field.
MergeFinalAnswer(x) ==
  LET parsed == ExtractJSONObject(x)
  IN  IF parsed # NoObject THEN [result |-> "object", data |-> Copied(parsed)]
      ELSE [result |-> IF x.text = "empty" THEN "none" ELSE "text", data |-> merged]

FinalAnswer(x) ==
  /\ todo = {}
  /\ out = NotDone
  /\ answer' = x
  /\ out' = MergeFinalAnswer(x)
  /\ UNCHANGED <<received, todo, merged>>

Next ==
  \/ \E s \in Sources : MergeSource(s)
  \/ \E x \in Content : FinalAnswer(x)

Spec == Init /\ [][Next]_vars
-----------------------------------------------------------------------------
\* KeepsEachSource: in whatever order the sources are visited, each source's
\* payload ends up under the source's own name, also when another payload has a
\* field of that name.
KeepsEachSource == todo = {} => \A s \in Sources : merged[s] = Whole(s)

\* FlattensEveryField: a top-level field is there exactly if some source has it,
\* with the value of such a source.
FlattensEveryField ==
  todo = {} => \A f \in Names :
    LET given == {received[s][f] : s \in Sources} \ {Absent}
    IN  IF given = {} THEN merged[f] = Absent ELSE merged[f] \in given

\* The readings of the answer that are objects.
Objects == {answer.whole, answer.fenced, answer.span} \cap Answers

\* The reading that is taken is null: the whole content is, or a fenced block is.
TakenAsNull == answer.whole = Null \/ (answer.whole = NoObject /\ answer.fenced = Null)

Has(d) == \A f \in Fields : d[f] # Absent => out.data[f] = d[f]

\* AnswerKept: no answer is lost.  If it holds an object, in the open, fenced or in
\* prose, all fields of such an object are published; if it holds none, the text
\* itself is; and every field of the joined data is published too unless the answer
\* replaced it.  The exception is an answer that is or fences null, which is neither
\* merged nor kept under "result" (the comment of mergeFinalAnswer only knows of
\* answers with an object and of others).
AnswerKept ==
  out # NotDone =>
    /\ \A f \in Fields : merged[f] # Absent => out.data[f] # Absent
    /\ TakenAsNull \/ (IF Objects # {} THEN \E d \in Objects : Has(d)
                       ELSE answer.text # "empty" => out.result = "text")
=============================================================================

SPECIFICATION Spec
CONSTANTS
  f1 = f1  v1 = v1  v2 = v2
  Sources = {a, b}
  Names = {f1, f2}
  Values = {v1, v2}
  Answers <- TwoAnswers
  Absent = Absent  Null = Null  NoObject = NoObject
INVARIANT KeepsEachSource
INVARIANT FlattensEveryField
INVARIANT AnswerKept
CHECK_DEADLOCK FALSE

SPECIFICATION FairSpec
CONSTANTS
  Kinds = {"local", "after"}
  MaxReq = 2
  SeqSpace = 4
  Cap = 1
  PipeCap = 2
  MaxTicks = 1
INVARIANTS
  AnswerIsOwn
  LocalOnceAlone
PROPERTY
  AllAnswered

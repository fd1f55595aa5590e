SPECIFICATION Spec
CONSTANTS
  SeqSpace = 2
  Capacity = 4
  Faults = {"dataloss"}
  Source <- MCSource
  MaxLines = 2
INVARIANTS TypeOK LinesGetThrough OnlyPipesHoldBack
PROPERTY QuitEndsBoth
\* Both programs end.
CHECK_DEADLOCK FALSE

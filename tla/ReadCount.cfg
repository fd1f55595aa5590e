SPECIFICATION Spec
CONSTANTS
  Test = {t1, t2}
  Reader = {r}
  NoFile = NoFile
  Chunk = 2
  Width = 8
  MaxRead = 3
  MaxTotal = 12
SYMMETRY Symmetry
INVARIANTS CountIsSum AlarmIsTrue OnlyUnlinkBreaks
\* The tests end.
CHECK_DEADLOCK FALSE

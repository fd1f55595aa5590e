SPECIFICATION Spec
CONSTANTS
  Token <- MCToken
  Line <- MCLine
  MaxLines = 2
  MaxProcs = 4
  Existing = {"f", "r"}
  ReadOnly = {"r"}
  Dir = {"/", "h", "d", "e"}
  Root = "/"
  Home = "h"
  Parent <- MCParent
  NoDir = "none"
  Removable = {"e"}
  Faults = {"fork", "pipe", "open"}
INVARIANTS TypeOK FdsRestored FilesAsWritten HopAgrees
PROPERTIES LineEnds
\* The session is bounded, and the shell may crash.
CHECK_DEADLOCK FALSE

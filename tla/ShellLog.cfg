\* Two plain commands, a line that starts with log, "log purge", a command
\* with "; log purge" behind it, and exit.
SPECIFICATION Spec
CONSTANTS
  Line = {a, b, log, purge, a_purge, exit}
  LogLines = {log, purge}
  PurgeLines = {purge, a_purge}
  ExitLines = {exit}
  Cut = Cut
  Blank = Blank
  MaxLog = 3
INVARIANTS TypeOK RingInv NoRepeats SavedAtPrompt SavesInOrder
PROPERTIES KeepsHistory

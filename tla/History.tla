------------------------------ MODULE History -------------------------------
(***************************************************************************)
(* What shell/src/log.c promises: in a session of the shell, the latest    *)
(* MaxLog lines, oldest first, without those that repeat the one before.   *)
(***************************************************************************)
EXTENDS Integers, Sequences

CONSTANTS Text, MaxLog

VARIABLES
  up,       \* a session is running
  recent    \* its history

historyVars == <<up, recent>>

Latest(lines) == lines[Len(lines)]

(* The lines that stay when one more comes.                                *)
Room(lines) == IF Len(lines) < MaxLog THEN lines ELSE Tail(lines)

HistoryInit == ~up /\ recent = <<>>

Record(line) ==
  /\ up
  /\ recent = <<>> \/ Latest(recent) # line
  /\ recent' = Append(Room(recent), line)
  /\ UNCHANGED up

Purge == up /\ recent' = <<>> /\ UNCHANGED up

SessionEnds == up /\ up' = FALSE /\ recent' = <<>>

(* A session starts with what the file holds.                              *)
SessionStarts ==
  /\ ~up
  /\ up' = TRUE
  /\ recent' \in Seq(Text)
  /\ Len(recent') <= MaxLog

HistoryNext ==
  \/ \E line \in Text : Record(line)
  \/ Purge
  \/ SessionEnds
  \/ SessionStarts

HistorySpec == HistoryInit /\ [][HistoryNext]_historyVars

=============================================================================

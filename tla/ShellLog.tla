------------------------------ MODULE ShellLog ------------------------------
(***************************************************************************)
(* The shell's history: the ring buffer of shell/src/log.c, the file it is *)
(* saved to and loaded from, and the order in which shell_loop in main.c   *)
(* executes, logs and saves a line.  The shell may be killed between any   *)
(* two steps.                                                              *)
(*                                                                         *)
(* A line is its text; only three things about it matter to the history,   *)
(* and three constants say which lines they are true of.                   *)
(***************************************************************************)
EXTENDS Integers, Sequences

CONSTANTS
  Line,         \* the lines the user types
  LogLines,     \* those whose first word is log: never logged
  PurgeLines,   \* those that run log purge somewhere
  ExitLines,    \* those that end in exit
  Cut,          \* what is left of a line that was written only in part
  Blank,        \* the text in a slot that was never used
  MaxLog        \* MAX_LOG_SIZE

ASSUME ShellLogAssumption ==
  /\ LogLines \subseteq Line
  /\ PurgeLines \subseteq Line
  /\ ExitLines \subseteq Line
  /\ Cut \notin Line
  /\ MaxLog \in Nat \ {0}

VARIABLES
  pc,           \* the step of shell_loop, or "down" between two sessions
  line,         \* the line that was read
  semi,         \* it began with "; ", and is logged before it is executed
  processed,    \* it has been executed
  log_entries,
  log_count,
  log_start,
  file,         \* the lines of the log file
  writable      \* the log file can be opened for writing

ring == <<log_entries, log_count, log_start>>
vars == <<pc, line, semi, processed, ring, file, writable>>

Text == Line \cup {Cut}

Index == 0 .. MaxLog - 1

TypeOK ==
  /\ pc \in {"down", "prompt", "process", "add", "save", "write"}
  /\ line \in Line \cup {Blank}
  /\ semi \in BOOLEAN
  /\ processed \in BOOLEAN
  /\ log_entries \in [Index -> Text \cup {Blank}]
  /\ log_count \in 0 .. MaxLog
  /\ log_start \in Index
  /\ file \in Seq(Text)
  /\ writable \in BOOLEAN

NoEntries == [k \in Index |-> Blank]

Init ==
  /\ pc = "down"
  /\ line = Blank
  /\ semi = FALSE
  /\ processed = FALSE
  /\ log_entries = NoEntries
  /\ log_count = 0
  /\ log_start = 0
  /\ file = <<>>
  /\ writable \in BOOLEAN

(* The slot of the k-th oldest line, from 0.                               *)
SlotOf(k) == (log_start + k) % MaxLog

(* The history, oldest line first.                                         *)
Logged == [k \in 1 .. log_count |-> log_entries[SlotOf(k - 1)]]

(* load_log, in a new process.                                             *)
Load ==
  /\ pc = "down"
  /\ log_count' = IF Len(file) < MaxLog THEN Len(file) ELSE MaxLog
  /\ log_entries' =
       [k \in Index |-> IF k < log_count' THEN file[k + 1] ELSE log_entries[k]]
  /\ pc' = "prompt"
  /\ UNCHANGED <<line, semi, processed, log_start, file, writable>>

ReadLine ==
  /\ pc = "prompt"
  /\ line' \in Line
  /\ semi' \in BOOLEAN
  /\ processed' = FALSE
  /\ pc' = IF semi' THEN "add" ELSE "process"
  /\ UNCHANGED <<ring, file, writable>>

(* Mutant of Purged: the start is not reset.                               *)
PurgedMutant == log_count' = 0 /\ UNCHANGED <<log_entries, log_start>>

Purged == log_count' = 0 /\ log_start' = 0 /\ UNCHANGED log_entries

(* process_command: what it does to the log, and what shell_loop does with *)
(* its result.                                                             *)
Process ==
  /\ pc = "process"
  /\ IF line \in PurgeLines THEN Purged ELSE UNCHANGED ring
  /\ processed' = TRUE
  /\ pc' = IF line \in ExitLines THEN "save"
           ELSE IF semi THEN "prompt" ELSE "add"
  /\ UNCHANGED <<line, semi, file, writable>>

(* Mutant of LatestSlot: right only until the buffer is full.              *)
LatestSlotMutant == log_count - 1

LatestSlot == SlotOf(log_count - 1)

Repeats == log_count > 0 /\ log_entries[LatestSlot] = line

(* Mutant of Overwrites: the oldest line stays the one overwritten.        *)
OverwritesMutant ==
  /\ log_entries' = [log_entries EXCEPT ![log_start] = line]
  /\ UNCHANGED <<log_count, log_start>>

(* The buffer is full: the new line takes the place of the oldest.         *)
Overwrites ==
  /\ log_entries' = [log_entries EXCEPT ![log_start] = line]
  /\ log_start' = (log_start + 1) % MaxLog
  /\ UNCHANGED log_count

(* Mutant of AddsLine: the test for a full buffer is off by one.            *)
AddsLineMutant ==
  \/ /\ log_count <= MaxLog
     /\ log_entries' = [log_entries EXCEPT ![log_count] = line]
     /\ log_count' = log_count + 1
     /\ UNCHANGED log_start
  \/ log_count = MaxLog /\ Overwrites

AddsLine ==
  \/ /\ log_count < MaxLog
     /\ log_entries' = [log_entries EXCEPT ![log_count] = line]
     /\ log_count' = log_count + 1
     /\ UNCHANGED log_start
  \/ log_count = MaxLog /\ Overwrites

(* add_to_log.                                                             *)
Add ==
  /\ pc = "add"
  /\ \/ (line \in LogLines \/ Repeats) /\ UNCHANGED ring
     \/ line \notin LogLines /\ ~Repeats /\ AddsLine
  /\ pc' = "save"
  /\ UNCHANGED <<line, semi, processed, file, writable>>

(* Where shell_loop goes on after save_log.                                *)
AfterSave ==
  IF ~processed THEN "process"
  ELSE IF line \in ExitLines THEN "down" ELSE "prompt"

(* The process ends, and its buffer with it.                               *)
Forget ==
  /\ log_entries' = NoEntries
  /\ log_count' = 0
  /\ log_start' = 0

Saved ==
  /\ pc' = AfterSave
  /\ IF AfterSave = "down" THEN Forget ELSE UNCHANGED ring

(* save_log: fopen empties the file, or fails.                             *)
OpenFile ==
  /\ pc = "save"
  /\ \/ /\ writable
        /\ file' = <<>>
        /\ pc' = "write"
        /\ UNCHANGED ring
     \/ ~writable /\ Saved /\ UNCHANGED file
  /\ UNCHANGED <<line, semi, processed, writable>>

(* Mutant of Written: the buffer is saved from its first slot on.          *)
WrittenMutant == log_entries[Len(file)]

Written == log_entries[SlotOf(Len(file))]

WriteEntry ==
  /\ pc = "write"
  /\ Len(file) < log_count
  /\ file' = Append(file, Written)
  /\ UNCHANGED <<pc, line, semi, processed, ring, writable>>

(* Mutant of CloseFile: the save ends one line early.                      *)
CloseFileMutant ==
  /\ pc = "write"
  /\ Len(file) + 1 >= log_count
  /\ Saved
  /\ UNCHANGED <<line, semi, processed, file, writable>>

CloseFile ==
  /\ pc = "write"
  /\ Len(file) = log_count
  /\ Saved
  /\ UNCHANGED <<line, semi, processed, file, writable>>

(* The end of input at the prompt, or a kill anywhere: what was to be      *)
(* written next may be there in part.                                      *)
Killed ==
  /\ pc # "down"
  /\ \/ UNCHANGED file
     \/ pc = "write" /\ Len(file) < log_count /\ file' = Append(file, Cut)
  /\ pc' = "down"
  /\ Forget
  /\ UNCHANGED <<line, semi, processed, writable>>

Next ==
  \/ Load
  \/ ReadLine
  \/ Process
  \/ Add
  \/ OpenFile
  \/ WriteEntry
  \/ CloseFile
  \/ Killed

Spec == Init /\ [][Next]_vars

-----------------------------------------------------------------------------
(* What the history promises.                                              *)

(* log.c:26, 33 and 50: add_to_log appends at slot log_count and takes the *)
(* slot before for the latest line; this is only right as long as the      *)
(* buffer starts at 0 whenever it is not full, whatever was loaded,        *)
(* overwritten or purged before.                                           *)
RingInv == log_start # 0 => log_count = MaxLog

(* log.c:24-30: no line is logged behind the same line, also where the two *)
(* lie at the two ends of the buffer; only saves that were cut short may   *)
(* leave two pieces of a line.                                             *)
NoRepeats ==
  \A k \in 1 .. log_count - 1 :
    Logged[k] = Logged[k + 1] => Logged[k] = Cut

(* log.c:42-54 with main.c:55-88: whenever the shell waits for a line, the *)
(* file holds its history, whatever was purged or executed before; the one *)
(* exception is an empty history, since "; log purge" is saved only with   *)
(* the next line.                                                          *)
SavedAtPrompt ==
  pc = "prompt" /\ writable => file = Logged \/ Logged = <<>>

(* log.c:43-51: a shell killed while it saves leaves the oldest lines of   *)
(* its history, in their order and none twice.                             *)
SavesInOrder ==
  pc = "write" =>
    /\ Len(file) <= log_count
    /\ \A k \in 1 .. Len(file) : file[k] = Logged[k]

(* log.c:14-70: the ring buffer is a history of the latest MaxLog lines.   *)
HistorySession == INSTANCE History WITH up <- pc # "down", recent <- Logged

KeepsHistory == HistorySession!HistorySpec

=============================================================================

----------------------------- MODULE ShellLine ------------------------------
(***************************************************************************)
(* What a typed line does: shell/src/main.c and process_command cut it     *)
(* into commands, parse_pipeline opens the files of one, execute_pipeline  *)
(* runs a builtin in the shell itself or forks the stages, connects them   *)
(* with pipes, and waits.  The stages run beside the shell, as do the      *)
(* background commands of the same line.  Job numbers, stops and signals   *)
(* are in ShellJobs, the history is in ShellLog; names of files are        *)
(* absolute, and "log execute" is left out.                                *)
(***************************************************************************)
EXTENDS ShellParse, ShellDirs, FiniteSets

CONSTANTS
  Token, Line,     \* words and operators, and the lines that are typed
  MaxLines,        \* lines of a session
  MaxProcs,        \* processes that one line may start
  Existing,        \* files that are there at first
  Removable,       \* directories that somebody else may remove
  Faults           \* which of fork, pipe and open may fail

ASSUME ShellLineAssumption ==
  /\ MaxLines \in Nat /\ MaxProcs \in Nat
  /\ Line \subseteq Seq(Token) \ {<<>>}
  /\ Existing \subseteq Token /\ ReadOnly \subseteq Existing
  /\ Removable \subseteq Dir \ {Root}
  /\ Faults \subseteq {"fork", "pipe", "open"}

VARIABLES
  pc,              \* where the shell is
  lines,           \* how many lines were typed
  cmds, cmd,       \* the commands of the line, and the one that is executed
  stage,           \* the stage or pipe that the shell has come to
  rin, rout,       \* pipeline->input_redir and pipeline->output_redir
  fds,             \* the shell's own stdin, stdout and pipe ends
  procs,           \* the processes of the line in the order of their forks
  files, before,   \* the files, and those there when the line was typed
  place, dirs,     \* working directory and prev_dir; the directories
  failed           \* history: fork or pipe has failed in a pipeline

vars == <<pc, lines, cmds, cmd, stage, rin, rout, fds, procs, files, before,
          place, dirs, failed>>

Builtin == {"hop", "reveal", "log", "activities", "ping", "fg", "bg", "exit"}

Command == cmds[cmd]

NumStages == Len(Command)

(* The last stage loses a "&" at its end.                                  *)
Argv(i) ==
  LET words == Command[i].words
  IN  IF i = NumStages /\ words # <<>> /\ Last(words) = "&" THEN Front(words) ELSE words

IsBackground ==
  LET words == Last(Command).words IN words # <<>> /\ Last(words) = "&"

IsBuiltin == NumStages = 1 /\ Argv(1) # <<>> /\ Argv(1)[1] \in Builtin

(* Pipe i of the command that is executed, and its two ends.               *)
Pipe(i) == <<lines, cmd, i>>

EndsOf(pipe) == {<<"r", pipe>>, <<"w", pipe>>}

PipeEnds(n) == UNION {EndsOf(Pipe(i)) : i \in 1 .. n}

Tty == <<"tty">>

(* A "zombie" is a process whose end the shell has still to hear of.       *)
ProcState == {"new", "running", "zombie", "ended"}

TypeOK ==
  /\ pc \in {"prompt", "parse", "execute", "redirect", "builtin", "pipes", "fork",
             "close", "wait", "gone", "crashed"}
  /\ lines \in 0 .. MaxLines
  /\ pc \notin {"prompt", "gone", "crashed"} => cmd \in 1 .. Len(cmds) /\ stage \in 0 .. NumStages + 1
  /\ fds.in = Tty \/ fds.in[1] = "file"
  /\ Len(procs) <= MaxProcs
  /\ \A p \in DOMAIN procs :
       /\ procs[p].state \in ProcState
       /\ procs[p].ends \subseteq {"r", "w"} \X ((1 .. lines) \X Nat \X Nat)
  /\ \A f \in Token : files[f] = Absent \/ files[f] \subseteq -1 .. Len(cmds)
  /\ place.cwd \in dirs /\ place.prev \in Dir \cup {NoDir}

Init ==
  /\ pc = "prompt" /\ lines = 0 /\ cmds = <<>> /\ cmd = 0 /\ stage = 0
  /\ rin = Nothing /\ rout = Nothing
  /\ fds = [in |-> Tty, out |-> Tty, ends |-> {}]
  /\ procs = <<>>
  /\ before = Existing
  /\ files = [f \in Token |-> IF f \in Existing THEN {0} ELSE Absent]
  /\ place = [cwd |-> Home, prev |-> NoDir] /\ dirs = Dir
  /\ failed = FALSE

-----------------------------------------------------------------------------
(* shell_loop and process_command.                                         *)

(* The commands of a line.  What follows a "; " is not validated.          *)
Taken(line) ==
  IF line[1] = ";" /\ Len(line) > 1 THEN Commands(Tail(line))
  ELSE IF Valid(line) THEN Commands(line) ELSE <<>>

(* No line has more stages than the bound.                                 *)
StagesOf(commands) ==
  UNION {{k} \X DOMAIN commands[k] : k \in DOMAIN commands}

ASSUME MaxProcsAssumption ==
  \A line \in Line : Cardinality(StagesOf(Taken(line))) <= MaxProcs

(* A line is typed.  Bound: only when the processes of the last have ended.*)
Types(line) ==
  /\ pc = "prompt" /\ lines < MaxLines
  /\ \A p \in DOMAIN procs : procs[p].state = "ended"
  /\ lines' = lines + 1
  /\ cmds' = Taken(line) /\ cmd' = 1 /\ stage' = 1
  /\ pc' = IF Taken(line) = <<>> THEN "prompt" ELSE "parse"
  /\ procs' = <<>>
  /\ before' = {f \in Token : files[f] # Absent}
  /\ files' = [f \in Token |-> IF files[f] = Absent THEN Absent ELSE {0}]
  /\ rin' = Nothing /\ rout' = Nothing
  /\ UNCHANGED <<fds, place, dirs, failed>>

(* The command is done with, and the next one of the line comes.           *)
NextCommand ==
  /\ pc' = IF cmd = Len(cmds) THEN "prompt" ELSE "parse"
  /\ cmd' = IF cmd = Len(cmds) THEN cmd ELSE cmd + 1
  /\ stage' = 1
  /\ rin' = Nothing /\ rout' = Nothing
  /\ UNCHANGED <<lines, cmds, before, dirs>>

(* parse_pipeline takes up a stage and opens all of its files; of the      *)
(* redirections it keeps the first stage's input and the last one's output.*)
ParsesStage ==
  /\ pc = "parse"
  /\ LET scanned == Command[stage]
     IN  /\ files' = FirstPass(files, scanned).files
         /\ rin' = IF stage = 1 THEN InputRedir(files, scanned) ELSE rin
         /\ rout' = IF stage = NumStages THEN OutputRedir(files, scanned) ELSE rout
  /\ IF stage = NumStages THEN pc' = "execute" /\ stage' = 1
     ELSE pc' = pc /\ stage' = stage + 1
  /\ UNCHANGED <<lines, cmds, cmd, fds, procs, before, place, dirs, failed>>

-----------------------------------------------------------------------------
(* execute_pipeline, a command on its own.                                 *)

(* No words, or a builtin in the background.                               *)
Skips ==
  /\ pc = "execute"
  /\ NumStages = 1
  /\ Command[1].words = <<>> \/ (IsBuiltin /\ IsBackground)
  /\ NextCommand
  /\ UNCHANGED <<fds, procs, files, place, failed>>

(* A "&" and nothing else: args[0] is NULL and compared with the builtins. *)
Crashes ==
  /\ pc = "execute"
  /\ NumStages = 1 /\ Command[1].words = <<"&">>
  /\ pc' = "crashed"
  /\ UNCHANGED <<lines, cmds, cmd, stage, rin, rout, fds, procs, files, before,
                 place, dirs, failed>>

(* A file name in the place of stdin or stdout.                            *)
Onto(redir, stream) == IF redir = Nothing THEN stream ELSE <<"file", redir[2]>>

Opened(redir) ==
  IF redir = Nothing THEN files
  ELSE [files EXCEPT ![redir[2]] = OpenedTo(@, redir[1])]

(* apply_redirections fails.                                               *)
Refused == rin[1] = "error" \/ rout[1] = "error"

(* An open that carries a redirection out may fail though the one that     *)
(* parsing tried has not.                                                  *)
OpenFails(redir) == redir # Nothing /\ "open" \in Faults

(* Mutant of Restored: stdout is left where it was.                        *)
RestoredMutant(own) == [own EXCEPT !.in = Tty]

(* The backups of stdin and stdout are put back.                           *)
Restored(own) == [own EXCEPT !.in = Tty, !.out = Tty]

(* A builtin: first the shell's own stdin is replaced, ...                 *)
RedirectsInput ==
  /\ pc = "execute"
  /\ IsBuiltin /\ ~IsBackground
  /\ \/ /\ ~Refused
        /\ pc' = "redirect"
        /\ fds' = [fds EXCEPT !.in = Onto(rin, @)]
        /\ UNCHANGED <<lines, cmds, cmd, stage, rin, rout, before, dirs>>
     \/ /\ Refused \/ OpenFails(rin)
        /\ fds' = Restored(fds)
        /\ NextCommand
  /\ UNCHANGED <<procs, files, place, failed>>

(* ... then its stdout, unless that file does not open now.                *)
RedirectsOutput ==
  /\ pc = "redirect"
  /\ \/ /\ pc' = "builtin"
        /\ fds' = [fds EXCEPT !.out = Onto(rout, @)]
        /\ files' = Opened(rout)
        /\ UNCHANGED <<lines, cmds, cmd, stage, rin, rout, before, dirs>>
     \/ /\ OpenFails(rout)
        /\ fds' = Restored(fds)
        /\ NextCommand
        /\ UNCHANGED files
  /\ UNCHANGED <<procs, place, failed>>

(* Something is written to a stream; only files keep it.                   *)
WrittenTo(stream, what) ==
  IF stream[1] = "file" THEN [files EXCEPT ![stream[2]] = @ \cup {what}] ELSE files

(* The builtin runs, with output or without, and the shell has its stdin   *)
(* and stdout back; exit ends it.                                          *)
RunsBuiltin ==
  /\ pc = "builtin"
  /\ files' \in {files, WrittenTo(fds.out, cmd)}
  /\ place' = IF Argv(1)[1] = "hop" THEN Hop(dirs, place, Tail(Argv(1))) ELSE place
  /\ fds' = Restored(fds)
  /\ IF Argv(1)[1] = "exit"
     THEN pc' = "gone" /\ UNCHANGED <<lines, cmds, cmd, stage, rin, rout, before, dirs>>
     ELSE NextCommand
  /\ UNCHANGED <<procs, failed>>

(* fork: the child has the shell's descriptors and pipe ends.              *)
Child(i) ==
  [cmd |-> cmd, stage |-> i, of |-> NumStages, argv |-> Argv(i),
   rin |-> rin, rout |-> rout, background |-> IsBackground,
   in |-> fds.in, out |-> fds.out, ends |-> fds.ends, state |-> "new"]

(* A command that is not a builtin: it is waited for unless it is in the   *)
(* background.                                                             *)
ForksCommand ==
  /\ pc = "execute"
  /\ NumStages = 1 /\ Argv(1) # <<>> /\ ~IsBuiltin
  /\ \/ /\ procs' = Append(procs, Child(1))
        /\ IF IsBackground THEN NextCommand
           ELSE /\ pc' = "wait"
                /\ UNCHANGED <<lines, cmds, cmd, stage, rin, rout, before, dirs>>
     \/ "fork" \in Faults /\ NextCommand /\ UNCHANGED procs
  /\ UNCHANGED <<fds, files, place, failed>>

-----------------------------------------------------------------------------
(* execute_pipeline, several stages.                                       *)

StartsPipeline ==
  /\ pc = "execute" /\ NumStages > 1
  /\ pc' = "pipes"
  /\ UNCHANGED <<lines, cmds, cmd, stage, rin, rout, fds, procs, files, before,
                 place, dirs, failed>>

(* The pipes, all of them before the first fork; after a failure those     *)
(* that were made stay open.                                               *)
MakesPipe ==
  /\ pc = "pipes"
  /\ \/ /\ fds' = [fds EXCEPT !.ends = @ \cup EndsOf(Pipe(stage))]
        /\ IF stage = NumStages - 1 THEN pc' = "fork" /\ stage' = 1
           ELSE pc' = pc /\ stage' = stage + 1
        /\ UNCHANGED <<lines, cmds, cmd, rin, rout, before, dirs, failed>>
     \/ /\ "pipe" \in Faults
        /\ failed' = TRUE
        /\ NextCommand
        /\ UNCHANGED fds
  /\ UNCHANGED <<procs, files, place>>

(* The forks; after a failure the pipes stay open and the stages that were *)
(* forked are not waited for.                                              *)
ForksStage ==
  /\ pc = "fork"
  /\ \/ /\ procs' = Append(procs, Child(stage))
        /\ IF stage = NumStages THEN pc' = "close" /\ stage' = 1
           ELSE pc' = pc /\ stage' = stage + 1
        /\ UNCHANGED <<lines, cmds, cmd, rin, rout, before, dirs, failed>>
     \/ /\ "fork" \in Faults
        /\ failed' = TRUE
        /\ NextCommand
        /\ UNCHANGED procs
  /\ UNCHANGED <<fds, files, place>>

(* The shell closes its ends, and waits unless it is in the background.    *)
ClosesPipes ==
  /\ pc = "close"
  /\ fds' = [fds EXCEPT !.ends = @ \ PipeEnds(NumStages - 1)]
  /\ IF IsBackground THEN NextCommand
     ELSE /\ pc' = "wait"
          /\ UNCHANGED <<lines, cmds, cmd, stage, rin, rout, before, dirs>>
  /\ UNCHANGED <<procs, files, place, failed>>

(* waitpid for one stage after the other.                                  *)
Waits ==
  /\ pc = "wait"
  /\ \E p \in DOMAIN procs :
       /\ procs[p].cmd = cmd /\ procs[p].stage = stage
       /\ procs[p].state = "ended"
  /\ IF stage < NumStages
     THEN stage' = stage + 1 /\ UNCHANGED <<pc, lines, cmds, cmd, rin, rout, before, dirs>>
     ELSE NextCommand
  /\ UNCHANGED <<fds, procs, files, place, failed>>

-----------------------------------------------------------------------------
(* The processes.                                                          *)

ChildPipe(c, i) == <<lines, c.cmd, i>>

(* The redirections that the child carries out.  In a pipeline the first   *)
(* stage tries the input file again even if parsing found it missing.      *)
InputOf(c) ==
  IF c.stage # 1 \/ c.rin = Nothing THEN Nothing
  ELSE IF c.of > 1 THEN <<"<", c.rin[2]>> ELSE c.rin

OutputOf(c) == IF c.stage = c.of THEN c.rout ELSE Nothing

Fails(c, redir) ==
  redir # Nothing /\ (redir[1] = "error" \/ ~Opens(files, redir))

(* A process that has ended.  The shell waits for those of a command in    *)
(* the foreground; of one in the background it lists the last stage only.  *)
Dead(c) ==
  [c EXCEPT !.state = IF c.background /\ c.stage = c.of THEN "zombie" ELSE "ended",
            !.ends = {}]

(* stdin is the file, /dev/null for a background command, or the pipe.     *)
StdinOf(c) ==
  IF c.stage > 1 THEN <<"pipe", ChildPipe(c, c.stage - 1)>>
  ELSE IF InputOf(c) # Nothing THEN Onto(InputOf(c), c.in)
  ELSE IF c.background THEN <<"null">> ELSE c.in

StdoutOf(c) ==
  IF c.stage < c.of THEN <<"pipe", ChildPipe(c, c.stage)>> ELSE Onto(OutputOf(c), c.out)

(* Mutant of KeptEnds: the child closes the ends that it reads from and    *)
(* writes to, but not those of the other pipes.                            *)
KeptEndsMutant(c) ==
  c.ends \ (EndsOf(ChildPipe(c, c.stage - 1)) \cup EndsOf(ChildPipe(c, c.stage)))

(* The child closes all pipe ends of its pipeline; those that the shell    *)
(* has leaked before it keeps.                                             *)
KeptEnds(c) == c.ends \ UNION {EndsOf(ChildPipe(c, i)) : i \in 1 .. c.of - 1}

(* The child up to exec.  It ends at once when a file does not open or it  *)
(* has no words (strcmp of NULL).                                          *)
Starts(p) ==
  /\ procs[p].state = "new"
  /\ LET c == procs[p]
         mayFail == \E redir \in {InputOf(c), OutputOf(c)} :
                      Fails(c, redir) \/ OpenFails(redir)
         mayOpen == ~Fails(c, InputOf(c)) /\ ~Fails(c, OutputOf(c))
     IN  \/ /\ mayFail
            /\ procs' = [procs EXCEPT ![p] = Dead(c)]
            /\ UNCHANGED files
         \/ /\ mayOpen
            /\ procs' = [procs EXCEPT ![p] =
                           IF c.argv = <<>> THEN Dead(c)
                           ELSE [c EXCEPT !.state = "running", !.in = StdinOf(c),
                                          !.out = StdoutOf(c), !.ends = KeptEnds(c)]]
            /\ files' = Opened(OutputOf(c))
  /\ UNCHANGED <<pc, lines, cmds, cmd, stage, rin, rout, fds, before, place, dirs, failed>>

(* A process writes to its stdout.                                         *)
Writes(p) ==
  /\ procs[p].state = "running"
  /\ files' = WrittenTo(procs[p].out, procs[p].cmd)
  /\ UNCHANGED <<pc, lines, cmds, cmd, stage, rin, rout, fds, procs, before,
                 place, dirs, failed>>

(* A process ends, at any time.                                            *)
Ends(p) ==
  /\ procs[p].state = "running"
  /\ procs' = [procs EXCEPT ![p] = Dead(@)]
  /\ UNCHANGED <<pc, lines, cmds, cmd, stage, rin, rout, fds, files, before,
                 place, dirs, failed>>

(* The SIGCHLD handler reaps the last stage of a background command, and   *)
(* prints so, if it finds it listed, to whatever the shell's stdout is     *)
(* just then.                                                              *)
Reaps(p) ==
  /\ procs[p].state = "zombie"
  /\ procs' = [procs EXCEPT ![p].state = "ended"]
  /\ \/ pc \notin {"gone", "crashed"} /\ files' = WrittenTo(fds.out, Notice)
     \/ UNCHANGED files
  /\ UNCHANGED <<pc, lines, cmds, cmd, stage, rin, rout, fds, before, place, dirs, failed>>

(* Who has an end of a pipe open.                                          *)
Holds(p, end) ==
  \/ end \in procs[p].ends
  \/ procs[p].state = "running" /\ end[1] = "r" /\ procs[p].in = <<"pipe", end[2]>>
  \/ procs[p].state = "running" /\ end[1] = "w" /\ procs[p].out = <<"pipe", end[2]>>

Open(end) == end \in fds.ends \/ \E p \in DOMAIN procs : Holds(p, end)

(* The input of a process is over: a pipe with no writer; a user or a file *)
(* ends in any case.                                                       *)
InputOver(p) == procs[p].in[1] = "pipe" => ~Open(<<"w", procs[p].in[2]>>)

(* Its output is taken: by a process that reads the pipe, or SIGPIPE ends  *)
(* the writer when nobody has it open to read.                             *)
OutputTaken(p) ==
  procs[p].out[1] = "pipe" =>
    \/ \E q \in DOMAIN procs : procs[q].state = "running" /\ procs[q].in = procs[p].out
    \/ ~Open(<<"r", procs[p].out[2]>>)

(* A program that reads its input to the end and writes what it has to.    *)
Finishes(p) == InputOver(p) /\ OutputTaken(p) /\ Ends(p)

(* Somebody else removes a directory with nothing in it.                   *)
Removes(d) ==
  /\ d \in dirs \ {place.cwd}
  /\ \A e \in dirs : Parent[e] # d
  /\ dirs' = dirs \ {d}
  /\ UNCHANGED <<pc, lines, cmds, cmd, stage, rin, rout, fds, procs, files, before,
                 place, failed>>

-----------------------------------------------------------------------------
Shell ==
  \/ ParsesStage \/ Skips \/ Crashes
  \/ RedirectsInput \/ RedirectsOutput \/ RunsBuiltin
  \/ ForksCommand \/ StartsPipeline \/ MakesPipe \/ ForksStage \/ ClosesPipes \/ Waits

Next ==
  \/ \E line \in Line : Types(line)
  \/ Shell
  \/ \E p \in DOMAIN procs : Starts(p) \/ Writes(p) \/ Ends(p) \/ Reaps(p)
  \/ \E d \in Removable : Removes(d)

(* The shell and a forked child run when they can; a program that has no   *)
(* more to read and nobody to wait for ends.                               *)
Fairness ==
  /\ WF_vars(Shell)
  /\ \A p \in 1 .. MaxProcs : WF_vars(p \in DOMAIN procs /\ (Starts(p) \/ Finishes(p)))

Spec == Init /\ [][Next]_vars /\ Fairness

-----------------------------------------------------------------------------
(* Between two commands the shell has its own stdin and stdout back, also  *)
(* when only one of them was replaced before the builtin was given up, and *)
(* holds no pipe end unless fork or pipe has failed in a pipeline          *)
(* (pipes.c:119, 128, 317; the returns at 234 and 311 leave them open).    *)
FdsRestored ==
  pc \in {"prompt", "parse", "execute", "wait", "gone"} =>
    /\ fds.in = Tty /\ fds.out = Tty
    /\ ~failed => fds.ends = {}

(* Every line comes to its end: no stage waits for an end of file that     *)
(* cannot come, since every process closes the ends it does not use        *)
(* (pipes.c:291, 317), whatever pipes an earlier command has leaked.       *)
LineEnds == (pc # "prompt") ~> (pc \in {"prompt", "gone", "crashed"})

(* The redirections of the commands executed so far.                       *)
Redirected(ops) ==
  UNION {UNION {{redir[2] : redir \in {r \in Range(cmds[k][i].redirs) : r[1] \in ops}} :
                  i \in DOMAIN cmds[k]} : k \in (1 .. cmd) \cap DOMAIN cmds}

(* Command k is to write to f, as its text has it: f is the last output    *)
(* file of its last stage.                                                 *)
SendsTo(k, f) ==
  LET redirs == Last(cmds[k]).redirs
  IN  \E i \in DOMAIN redirs :
        /\ redirs[i][1] # "<" /\ redirs[i][2] = f
        /\ \A j \in i + 1 .. Len(redirs) : redirs[j][1] = "<"

RunsInShell(k) ==
  LET words == cmds[k][1].words IN words # <<>> /\ words[1] \in Builtin

(* A file has lost what was in it only if a ">" names it, was created only *)
(* if an output redirection names it, and holds the output of those        *)
(* commands only whose last stage sends it there; a notice of the SIGCHLD  *)
(* handler gets into a file only while a builtin writes to it              *)
(* (redirection.c:64, 86, 180; pipes.c:69, 75, 118, 277).                  *)
FilesAsWritten ==
  \A f \in Token :
    /\ f \in before \ Redirected({">"}) => 0 \in files[f]
    /\ f \notin before \cup Redirected({">", ">>"}) => files[f] = Absent
    /\ f \notin before => 0 \notin files[f]
    /\ \A k \in files[f] \cap 1 .. Len(cmds) : k <= cmd /\ SendsTo(k, f)
    /\ Notice \in files[f] => \E k \in 2 .. Len(cmds) : SendsTo(k, f) /\ RunsInShell(k)

(* reveal lists the directory to which hop would go, whatever hops and     *)
(* removals came before, except that just below the root ".." is the       *)
(* directory itself (commands.c:91-130 against 167-196).                   *)
HopAgrees ==
  \A arg \in Dir \cup {"~", ".", "..", "-"} :
    \/ RevealOf(dirs, place.cwd, place.prev, arg) = HopTo(dirs, place.cwd, place.prev, arg)
    \/ arg = ".." /\ Parent[place.cwd] = Root

=============================================================================

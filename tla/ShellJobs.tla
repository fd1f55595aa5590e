----------------------------- MODULE ShellJobs ------------------------------
(***************************************************************************)
(* The shell's job control: the main loop of shell/src/main.c, the         *)
(* launching of commands in pipes.c, the job table and the commands on it  *)
(* of background.c, the end of input in input.c and the handlers of        *)
(* signals.c.                                                              *)
(*                                                                         *)
(* The handlers run on the main program's thread, at any point of it, for  *)
(* nothing is ever blocked.  The SIGCHLD handler works on the same table   *)
(* as the code it interrupts, so the main program is cut into one action   *)
(* per statement that touches the table (the build does not optimise, so   *)
(* each of them reads job_count and jobs from memory), and the handler     *)
(* into one action per waitpid.                                            *)
(***************************************************************************)
EXTENDS Children, FiniteSetsExt, SequencesExt

CONSTANTS
  Stages,      \* how many commands a pipeline may have
  ForkFails,   \* outcomes of fork that are tried: does it fail?
  Pinged,      \* the signals that the user of a run sends by ping
  MaxNumber    \* the last job number a run gives away

ASSUME ShellJobsAssumption ==
  /\ Stages \subseteq Nat \ {0}
  /\ ForkFails \subseteq BOOLEAN
  /\ Pinged \subseteq {"INT", "TSTP", "KILL", "STOP", "CONT"}
  /\ MaxNumber \in Nat

VARIABLES
  pc,              \* the statement the main program is at
  back,            \* the statement a helper of background.c returns to
  jobs,            \* the job table: slots 0 .. job_count - 1 are in use
  job_count,
  next_job_number,
  foreground_pid,
  command,         \* the command launched: its length, does "&" end it
  pids,            \* the processes it has still to wait for, or to list
  state,           \* the state a process is about to be listed with, or the
                   \* status that check_background_processes has been given
  job_index,       \* the slot check_background_processes, fg and bg are at,
                   \* and the loop at the end of input
  hole,            \* the loop of remove_job
  hpc,             \* where the SIGCHLD handler is
  undercut         \* history: a handler has reaped a child between statements
                   \* of the main program that deal with it or with the table

table == <<jobs, job_count, next_job_number>>
locals == <<back, command, pids, state, job_index, hole>>
vars == <<childVars, pc, table, foreground_pid, locals, hpc, undercut>>

Slot == 0 .. MaxNumber

JobState == {"RUNNING", "STOPPED"}

Job ==
  [pid : Pid \cup {0}, job_number : 0 .. MaxNumber, state : JobState]

(* Where the program is over, or has written outside of its table.         *)
Ended == {"exited", "corrupted"}

MainPc == Ended \cup
  {"check", "found", "read", "next",
   "fork", "foreground", "wait", "waiting", "over",
   "addpid", "addnumber", "addstate", "addcount", "remove",
   "fgcont", "fgpid", "fgtake", "bgcont", "bgmark", "logout"}

TypeOK ==
  /\ ChildrenTypeOK
  /\ pc \in MainPc
  /\ back \in {"check", "next", "wait", "over"}
  /\ jobs \in [Slot -> Job]
  /\ job_count \in -1 .. MaxNumber
  /\ next_job_number \in 1 .. MaxNumber + 1
  /\ foreground_pid \in Pid \cup {0}
  /\ command \in [stages : Stages \cup {1}, background : BOOLEAN]
  /\ pids \in Seq(Pid)
  /\ state \in JobState
  /\ job_index \in Slot
  /\ hole \in Slot
  /\ hpc \in {"idle", "reaping"}
  /\ undercut \in BOOLEAN

Init ==
  /\ ChildrenInit
  /\ pc = "check"
  /\ back = "check"
  /\ jobs = [s \in Slot |-> [pid |-> 0, job_number |-> 0, state |-> "RUNNING"]]
  /\ job_count = 0
  /\ next_job_number = 1
  /\ foreground_pid = 0
  /\ command = [stages |-> 1, background |-> FALSE]
  /\ pids = <<>>
  /\ state = "RUNNING"
  /\ job_index = 0
  /\ hole = 0
  /\ hpc = "idle"
  /\ undercut = FALSE

(* The main program is at this statement, and no handler is on top of it.  *)
At(statement) == pc = statement /\ hpc = "idle"

Goto(statement) == pc' = statement

(* What waitpid(-1, ..., WNOHANG | WUNTRACED) may report, and the child it *)
(* reports: the kernel looks through them in the order of their forks.     *)
Reportable == {p \in Pid : Waitable(p, TRUE)}

NextReport == Min(Reportable)

(* find_job_by_pid: the first slot that lists p, if there is one.          *)
SlotsOf(p) == {s \in 0 .. job_count - 1 : jobs[s].pid = p}

FirstSlotOf(p) == Min(SlotsOf(p))

(* remove_job, by the handler: nothing interrupts it there.                *)
Without(k) ==
  [s \in Slot |-> IF s \in k .. job_count - 2 THEN jobs[s + 1] ELSE jobs[s]]

-----------------------------------------------------------------------------
(* check_background_processes in the main loop.                            *)

(* The functions whose locals these are have returned.                     *)
LocalsGone ==
  /\ back' = "check"
  /\ command' = [stages |-> 1, background |-> FALSE]
  /\ pids' = <<>>
  /\ state' = "RUNNING"
  /\ job_index' = 0
  /\ hole' = 0

NothingToReport ==
  /\ At("check")
  /\ Reportable = {}
  /\ Goto("read")
  /\ LocalsGone
  /\ UNCHANGED <<childVars, table, foreground_pid, hpc, undercut>>

CheckReaps ==
  /\ At("check")
  /\ Reportable # {}
  /\ Reported(NextReport)
  /\ IF SlotsOf(NextReport) = {}
     THEN Goto("check") /\ UNCHANGED <<pids, state, job_index>>
     ELSE /\ Goto("found")
          /\ pids' = <<NextReport>>
          /\ state' = IF proc[NextReport] = "stopped" THEN "STOPPED" ELSE "RUNNING"
          /\ job_index' = FirstSlotOf(NextReport)
  /\ UNCHANGED <<pending, table, foreground_pid, back, command, hole, hpc,
                 undercut>>

(* Mutant of MarksStopped: the report of a stop is not kept.               *)
MarksStoppedMutant(k) == jobs

MarksStopped(k) == [jobs EXCEPT ![k].state = "STOPPED"]

(* Mutant of EntersRemove: the last slot is not removed.                   *)
EntersRemoveMutant(k, returnTo) ==
  /\ back' = returnTo
  /\ hole' = k
  /\ Goto(IF k < job_count - 1 THEN "remove" ELSE returnTo)

(* remove_job's test of the index, and its first statement.                *)
EntersRemove(k, returnTo) ==
  /\ back' = returnTo
  /\ hole' = k
  /\ Goto(IF k < job_count THEN "remove" ELSE returnTo)

(* The status that waitpid has filled in says whether the job has stopped; *)
(* if not it has ended.                                                    *)
FoundJob ==
  /\ At("found")
  /\ \/ /\ state = "RUNNING"
        /\ EntersRemove(job_index, "check")
        /\ UNCHANGED jobs
     \/ /\ state = "STOPPED"
        /\ jobs' = MarksStopped(job_index)
        /\ Goto("check")
        /\ UNCHANGED <<back, hole>>
  /\ pids' = <<>> /\ state' = "RUNNING"
  /\ UNCHANGED <<childVars, job_count, next_job_number, foreground_pid,
                 command, job_index, hpc, undercut>>

(* Mutant of Shift: the last job is put into the hole.                     *)
ShiftMutant ==
  /\ jobs' = [jobs EXCEPT ![hole] = jobs[job_count - 1]]
  /\ hole' = job_count - 1
  /\ UNCHANGED <<job_count, pc>>

(* remove_job's loop, and the statement behind it.                         *)
Shift ==
  /\ jobs' = [jobs EXCEPT ![hole] = jobs[hole + 1]]
  /\ hole' = hole + 1
  /\ UNCHANGED <<job_count, pc>>

RemoveJob ==
  /\ At("remove")
  /\ \/ hole < job_count - 1 /\ Shift
     \/ /\ hole >= job_count - 1
        /\ job_count' = job_count - 1
        /\ Goto(back)
        /\ UNCHANGED <<jobs, hole>>
  /\ UNCHANGED <<childVars, next_job_number, foreground_pid, back, command,
                 pids, state, job_index, hpc, undercut>>

-----------------------------------------------------------------------------
(* add_background_process and add_stopped_process.                         *)

AddsTo(next) ==
  /\ Goto(next)
  /\ UNCHANGED <<childVars, foreground_pid, back, command, state, job_index,
                 hole, hpc, undercut>>

AddPid ==
  /\ At("addpid")
  /\ \/ /\ job_count >= 0
        /\ jobs' = [jobs EXCEPT ![job_count].pid = Last(pids)]
        /\ AddsTo("addnumber")
     \/ /\ job_count < 0
        /\ AddsTo("corrupted")
        /\ UNCHANGED jobs
  /\ UNCHANGED <<job_count, next_job_number, pids>>

(* Mutant of NextJobNumber: incremented before it is used.                 *)
NextJobNumberMutant == next_job_number + 1

NextJobNumber == next_job_number

AddNumber ==
  /\ At("addnumber")
  /\ jobs' = [jobs EXCEPT ![job_count].job_number = NextJobNumber]
  /\ next_job_number' = next_job_number + 1
  /\ AddsTo("addstate")
  /\ UNCHANGED <<job_count, pids>>

AddState ==
  /\ At("addstate")
  /\ jobs' = [jobs EXCEPT ![job_count].state = state]
  /\ AddsTo("addcount")
  /\ UNCHANGED <<job_count, next_job_number, pids>>

AddCount ==
  /\ At("addcount")
  /\ job_count' = job_count + 1
  /\ pids' = <<>>
  /\ AddsTo(back)
  /\ UNCHANGED <<jobs, next_job_number>>

-----------------------------------------------------------------------------
(* The launching of a command.                                             *)

(* The first command of the line the shell reads, or the next one of it,   *)
(* behind a ";".                                                           *)
NextCommand == At("read") \/ At("next")

LineOver ==
  /\ At("next")
  /\ Goto("check")
  /\ UNCHANGED <<childVars, table, foreground_pid, locals, hpc, undercut>>

NoMoreForks(stages) == Cardinality(Forked) + stages > MaxPid

ReadCommand(stages, background) ==
  /\ NextCommand
  /\ ~NoMoreForks(stages)
  /\ next_job_number <= MaxNumber
  /\ command' = [stages |-> stages, background |-> background]
  /\ pids' = <<>>
  /\ Goto("fork")
  /\ UNCHANGED <<childVars, table, foreground_pid, back, state, job_index,
                 hole, hpc, undercut>>

(* Where a command goes whose processes have all been forked.              *)
Launched ==
  IF command.background THEN "addpid"
  ELSE IF command.stages = 1 THEN "foreground" ELSE "wait"

ForkStage ==
  /\ At("fork")
  /\ \E p \in Pid :
       /\ Fork(p, IF command.stages = 1 THEN 0 ELSE Head(Append(pids, p)))
       /\ pids' = Append(pids, p)
  /\ Goto(IF Len(pids') < command.stages THEN "fork" ELSE Launched)
  /\ back' = "next"
  /\ state' = "RUNNING"
  /\ UNCHANGED <<table, foreground_pid, command, job_index, hole, hpc,
                 undercut>>

(* The processes forked so far are left to themselves.                     *)
ForkStageFails ==
  /\ At("fork")
  /\ TRUE \in ForkFails
  /\ pids' = <<>>
  /\ Goto("next")
  /\ UNCHANGED <<childVars, table, foreground_pid, back, command, state,
                 job_index, hole, hpc, undercut>>

(* Mutant of SetForeground: the handlers are not told.                     *)
SetForegroundMutant ==
  /\ At("foreground")
  /\ group' = [group EXCEPT ![Head(pids)] = Head(pids)]
  /\ Goto("wait")
  /\ UNCHANGED <<proc, resume, lead, pending, table, foreground_pid, locals,
                 hpc, undercut>>

SetForeground ==
  /\ At("foreground")
  /\ foreground_pid' = Head(pids)
  /\ group' = [group EXCEPT ![Head(pids)] = Head(pids)]
  /\ Goto("wait")
  /\ UNCHANGED <<proc, resume, lead, pending, table, locals, hpc, undercut>>

(* waitpid, from its call; only a single command is waited for with        *)
(* WUNTRACED.                                                              *)
Untraced == command.stages = 1

WaitReady == Waitable(Head(pids), Untraced) \/ proc[Head(pids)] = "gone"

CallWait ==
  /\ At("wait")
  /\ Goto("waiting")
  /\ UNCHANGED <<childVars, table, foreground_pid, locals, hpc, undercut>>

(* Mutant of WaitEnds: a stopped command is forgotten.                     *)
WaitEndsMutant(stopped) ==
  /\ IF Len(pids) > 1
     THEN pids' = Tail(pids) /\ Goto("wait")
     ELSE pids' = <<>> /\ Goto("over")
  /\ UNCHANGED <<back, state>>

WaitEnds(stopped) ==
  IF stopped
  THEN state' = "STOPPED" /\ back' = "over" /\ Goto("addpid") /\ UNCHANGED pids
  ELSE /\ IF Len(pids) > 1
          THEN pids' = Tail(pids) /\ Goto("wait")
          ELSE pids' = <<>> /\ Goto("over")
       /\ UNCHANGED <<back, state>>

(* waitpid reports the child, or fails because the handler has reaped it:  *)
(* then status was never written and may look like anything.               *)
WaitReturns ==
  /\ At("waiting")
  /\ \/ /\ Waitable(Head(pids), Untraced)
        /\ Reported(Head(pids))
        /\ WaitEnds(proc[Head(pids)] = "stopped")
     \/ /\ proc[Head(pids)] = "gone"
        /\ UNCHANGED <<proc, resume, group, lead>>
        /\ \E stopped \in {FALSE, Untraced} : WaitEnds(stopped)
  /\ UNCHANGED <<pending, table, foreground_pid, command, job_index, hole, hpc,
                 undercut>>

(* Mutant of CommandOver: foreground_pid keeps its value.                  *)
CommandOverMutant ==
  /\ At("over")
  /\ Goto("next")
  /\ UNCHANGED <<childVars, table, foreground_pid, locals, hpc, undercut>>

CommandOver ==
  /\ At("over")
  /\ foreground_pid' = 0
  /\ Goto("next")
  /\ UNCHANGED <<childVars, table, locals, hpc, undercut>>

-----------------------------------------------------------------------------
(* The commands on jobs.                                                   *)

(* find_job_by_number takes the first slot with the number.                *)
Chosen(k) ==
  /\ k \in 0 .. job_count - 1
  /\ \A s \in 0 .. k - 1 : jobs[s].job_number # jobs[k].job_number

ReadFg ==
  /\ NextCommand
  /\ next_job_number <= MaxNumber
  /\ \/ \E k \in Slot :
          /\ Chosen(k) \/ k = job_count - 1
          /\ job_index' = k
          /\ Goto("fgcont")
     \/ job_count < 0 /\ Goto("corrupted") /\ UNCHANGED job_index
  /\ UNCHANGED <<childVars, table, foreground_pid, back, command, pids, state,
                 hole, hpc, undercut>>

FgContinues ==
  /\ At("fgcont")
  /\ IF jobs[job_index].state = "STOPPED"
     THEN Kill({jobs[job_index].pid}, "CONT")
     ELSE UNCHANGED childVars
  /\ Goto("fgpid")
  /\ UNCHANGED <<table, foreground_pid, locals, hpc, undercut>>

FgSetsForeground ==
  /\ At("fgpid")
  /\ foreground_pid' = jobs[job_index].pid
  /\ Goto("fgtake")
  /\ UNCHANGED <<childVars, table, locals, hpc, undercut>>

FgTakesJob ==
  /\ At("fgtake")
  /\ pids' = <<jobs[job_index].pid>>
  /\ command' = [stages |-> 1, background |-> FALSE]
  /\ EntersRemove(job_index, "wait")
  /\ UNCHANGED <<childVars, table, foreground_pid, state, job_index, hpc,
                 undercut>>

LastStopped(k) ==
  /\ k \in 0 .. job_count - 1
  /\ \A s \in k + 1 .. job_count - 1 : jobs[s].state = "RUNNING"

ReadBg ==
  /\ NextCommand
  /\ \E k \in Slot :
       /\ Chosen(k) \/ LastStopped(k)
       /\ jobs[k].state = "STOPPED"
       /\ job_index' = k
  /\ Goto("bgcont")
  /\ UNCHANGED <<childVars, table, foreground_pid, back, command, pids, state,
                 hole, hpc, undercut>>

BgContinues ==
  /\ At("bgcont")
  /\ Kill({jobs[job_index].pid}, "CONT")
  /\ Goto("bgmark")
  /\ UNCHANGED <<table, foreground_pid, locals, hpc, undercut>>

BgMarks ==
  /\ At("bgmark")
  /\ jobs' = [jobs EXCEPT ![job_index].state = "RUNNING"]
  /\ Goto("next")
  /\ UNCHANGED <<childVars, job_count, next_job_number, foreground_pid, locals,
                 hpc, undercut>>

ReadPing ==
  /\ NextCommand
  /\ \E p \in Forked, sig \in Pinged : Kill({p}, sig)
  /\ Goto("next")
  /\ UNCHANGED <<table, foreground_pid, locals, hpc, undercut>>

(* The end of input: SIGKILL to one listed process after the other.        *)
ReadEof ==
  /\ At("read")
  /\ job_index' = 0
  /\ Goto("logout")
  /\ UNCHANGED <<childVars, table, foreground_pid, back, command, pids, state,
                 hole, hpc, undercut>>

LogoutKills ==
  /\ At("logout")
  /\ IF job_index < job_count
     THEN /\ Kill({jobs[job_index].pid}, "KILL")
          /\ job_index' = job_index + 1
          /\ UNCHANGED pc
     ELSE Goto("exited") /\ UNCHANGED <<childVars, job_index>>
  /\ UNCHANGED <<table, foreground_pid, back, command, pids, state, hole, hpc,
                 undercut>>

ReadExit ==
  /\ NextCommand
  /\ Goto("exited")
  /\ UNCHANGED <<childVars, table, foreground_pid, locals, hpc, undercut>>

-----------------------------------------------------------------------------
(* The handlers.                                                           *)

(* A SIGCHLD is delivered between two statements, or to a waitpid that has *)
(* nothing to report yet and is called anew afterwards.                    *)
SigchldStarts ==
  /\ pending
  /\ hpc = "idle"
  /\ pc \notin Ended
  /\ pc = "waiting" => ~WaitReady
  /\ pending' = FALSE
  /\ hpc' = "reaping"
  /\ Goto(IF pc = "waiting" THEN "wait" ELSE pc)
  /\ UNCHANGED <<proc, resume, group, lead, table, foreground_pid, locals,
                 undercut>>

(* The main program is in the middle of using a slot or a loop index, or p *)
(* is the process it is about to wait for or to list.                      *)
Undercuts(p) ==
  \/ pc \in {"found", "remove", "addnumber", "addstate", "addcount",
             "fgcont", "fgpid", "fgtake", "bgcont", "bgmark", "logout"}
  \/ pids # <<>> /\ p = Last(pids)

(* Mutant of SigchldReaps: one child per signal.                           *)
SigchldReapsMutant ==
  /\ hpc = "reaping"
  /\ Reportable # {}
  /\ Reported(NextReport)
  /\ IF SlotsOf(NextReport) = {} THEN UNCHANGED <<jobs, job_count>>
     ELSE IF proc[NextReport] = "zombie"
     THEN /\ jobs' = Without(FirstSlotOf(NextReport))
          /\ job_count' = job_count - 1
     ELSE /\ jobs' = MarksStopped(FirstSlotOf(NextReport))
          /\ UNCHANGED job_count
  /\ undercut' = (undercut \/ Undercuts(NextReport))
  /\ hpc' = "idle"
  /\ UNCHANGED <<pending, pc, next_job_number, foreground_pid, locals>>

SigchldReaps ==
  /\ hpc = "reaping"
  /\ Reportable # {}
  /\ Reported(NextReport)
  /\ IF SlotsOf(NextReport) = {} THEN UNCHANGED <<jobs, job_count>>
     ELSE IF proc[NextReport] = "zombie"
     THEN /\ jobs' = Without(FirstSlotOf(NextReport))
          /\ job_count' = job_count - 1
     ELSE /\ jobs' = MarksStopped(FirstSlotOf(NextReport))
          /\ UNCHANGED job_count
  /\ undercut' = (undercut \/ Undercuts(NextReport))
  /\ UNCHANGED <<pending, pc, next_job_number, foreground_pid, locals, hpc>>

SigchldEnds ==
  /\ hpc = "reaping"
  /\ Reportable = {}
  /\ hpc' = "idle"
  /\ UNCHANGED <<childVars, pc, table, foreground_pid, locals, undercut>>

(* Ctrl-C and Ctrl-Z: the terminal signals the shell's own group, and the  *)
(* shell's handler passes the signal on to the foreground job's group.     *)
KeyReaches ==
  {p \in Pid :
     group[p] = 0 \/ (foreground_pid > 0 /\ group[p] = foreground_pid)}

Key ==
  /\ pc \notin Ended
  /\ \E sig \in {"INT", "TSTP"} : Kill(KeyReaches, sig)
  /\ UNCHANGED <<pc, table, foreground_pid, locals, hpc, undercut>>

-----------------------------------------------------------------------------
Check == NothingToReport \/ CheckReaps \/ FoundJob \/ RemoveJob

Add == AddPid \/ AddNumber \/ AddState \/ AddCount

Launch ==
  LineOver \/ ForkStage \/ ForkStageFails \/ SetForeground
  \/ CallWait \/ WaitReturns \/ CommandOver

FgBg ==
  \/ FgContinues \/ FgSetsForeground \/ FgTakesJob
  \/ BgContinues \/ BgMarks
  \/ LogoutKills

(* What the user types.                                                    *)
Read ==
  \/ \E stages \in Stages, background \in BOOLEAN :
       ReadCommand(stages, background)
  \/ ReadFg
  \/ ReadBg
  \/ ReadPing
  \/ ReadEof
  \/ ReadExit

Sigchld == SigchldStarts \/ SigchldReaps \/ SigchldEnds

Processes ==
  /\ \E p \in Pid : ChildStarts(p) \/ ChildExits(p) \/ ChildStops(p)
  /\ UNCHANGED <<pc, table, foreground_pid, locals, hpc, undercut>>

Main == Check \/ Add \/ Launch \/ FgBg

Next == Main \/ Read \/ Sigchld \/ Key \/ Processes

Spec == Init /\ [][Next]_vars

(* The shell runs when it can, and its pending signals are delivered.      *)
FairSpec == Spec /\ WF_vars(Main) /\ WF_vars(Sigchld)

-----------------------------------------------------------------------------
(* What the shell promises, with a handler that may come between any two   *)
(* statements.  A property with "~undercut" is what is left when no        *)
(* handler reaps a child while the main program is dealing with this child *)
(* or with the table; ShellJobs does not keep it without.                  *)

AtPrompt == At("read")

(* A command that is no part of a pipeline.                                *)
Single(p) == proc[p] # "none" /\ lead[p] = 0

Ghosts == {s \in 0 .. job_count - 1 : proc[jobs[s].pid] = "gone"}

(* pipes.c:181 and 192-198, background.c:184-225: while the shell waits    *)
(* for input every command that has not ended is listed, once, so that fg  *)
(* and bg can reach it.                                                    *)
NoJobLost ==
  AtPrompt /\ ~undercut =>
    \A p \in Pid : Single(p) /\ Alive(p) => Cardinality(SlotsOf(p)) = 1

(* background.c:67-76 and 221-225: a command whose stop has been reported  *)
(* is listed as stopped, so that fg and bg send it SIGCONT.                *)
StopIsKept ==
  AtPrompt /\ ~undercut =>
    \A s \in 0 .. job_count - 1 :
      proc[jobs[s].pid] = "halted" => jobs[s].state = "STOPPED"

(* background.c:64-73: a job whose process has been reaped is not listed.  *)
NoGhosts == AtPrompt /\ ~undercut => Ghosts = {}

(* background.c:28-38 and 190: the jobs are listed in the order of their   *)
(* numbers, no two with the same, so that fg without an argument takes the *)
(* latest.                                                                 *)
NumbersIncrease ==
  AtPrompt /\ ~undercut =>
    \A s \in 0 .. job_count - 1 :
      /\ jobs[s].job_number < next_job_number
      /\ \A r \in 0 .. s - 1 : jobs[r].job_number < jobs[s].job_number

(* pipes.c:184-186 with signals.c:31-32: Ctrl-C and Ctrl-Z reach the       *)
(* command the shell waits for, once it runs.                              *)
KeysReachCommand ==
  pc = "waiting" /\ ~undercut =>
    (Single(Head(pids)) /\ proc[Head(pids)] = "running"
       => Head(pids) \in KeyReaches)

(* signals.c:31-32 with pipes.c:184-200 and background.c:213-228: a listed *)
(* job neither stops nor ends by Ctrl-C and Ctrl-Z, nor keeps a SIGINT for *)
(* the time when it is continued, unless it still is, or is already, the   *)
(* command in the foreground: when its stop has just been listed and       *)
(* foreground_pid is not 0 yet, or when fg is taking it off the list.      *)
InForeground(p) == p = foreground_pid /\ pc \in {"over", "fgtake", "remove"}

KeysSpareJobs ==
  [][Key /\ ~undercut =>
       \A p \in Pid : Single(p) /\ SlotsOf(p) # {} /\ ~InForeground(p) =>
         proc'[p] = proc[p] /\ resume'[p] = resume[p]]_vars

(* background.c:64 with signals.c:53-56: whatever is interrupted where,    *)
(* and however many deaths one SIGCHLD stands for, every child that ends   *)
(* is reaped while the shell runs, even if the user types nothing more.    *)
ZombiesReaped ==
  \A p \in Pid : proc[p] = "zombie" ~> (proc[p] = "gone" \/ pc \in Ended)

(* README.md:16, "Full support for running background processes (&),       *)
(* listing them": no listed job has been reaped long since.                *)
ListedJobsLive == AtPrompt => Ghosts = {}

(* input.c:15, "Send SIGKILL to all child processes": none is left when    *)
(* the end of input ends the shell.                                        *)
LoggedOut == pc = "logout" /\ job_index >= job_count

LogoutKillsAll == LoggedOut => \A p \in Pid : ~Alive(p)

=============================================================================

------------------------------ MODULE Children ------------------------------
(***************************************************************************)
(* The shell's child processes as the kernel keeps them: what fork, kill,  *)
(* setpgid and waitpid do to them, and what they do on their own.  The     *)
(* shell's programs are external; only what the shell can tell apart is    *)
(* kept of them.                                                           *)
(***************************************************************************)
EXTENDS Integers, Sequences, FiniteSets

CONSTANT MaxPid      \* forks of a run

ASSUME ChildrenAssumption == MaxPid \in Nat \ {0}

VARIABLES
  proc,      \* what every process is doing
  resume,    \* what a stopped process does once SIGCONT continues it
  group,     \* its process group: a pid, or 0 for the shell's own group
  lead,      \* the first process of its pipeline, 0 for a command on its own
  pending    \* TRUE while a SIGCHLD waits to be delivered to the shell

childVars == <<proc, resume, group, lead, pending>>

Pid == 1 .. MaxPid

(* "new" is a child that has not reached exec; a process that has stopped  *)
(* is "stopped" until a waitpid with WUNTRACED has reported it, and then   *)
(* "halted"; "gone" is a zombie that a waitpid has reaped.                 *)
ProcState == {"none", "new", "running", "stopped", "halted", "zombie", "gone"}

(* A stopped process goes on where it was, before exec or behind it, or    *)
(* ends, if a SIGINT is pending.                                           *)
Resumed == {"new", "running", "zombie"}

ChildrenTypeOK ==
  /\ proc \in [Pid -> ProcState]
  /\ resume \in [Pid -> Resumed]
  /\ group \in [Pid -> Pid \cup {0}]
  /\ lead \in [Pid -> Pid \cup {0}]
  /\ pending \in BOOLEAN

ChildrenInit ==
  /\ proc = [p \in Pid |-> "none"]
  /\ resume = [p \in Pid |-> "running"]
  /\ group = [p \in Pid |-> 0]
  /\ lead = [p \in Pid |-> 0]
  /\ pending = FALSE

Forked == {p \in Pid : proc[p] # "none"}

Alive(p) == proc[p] \in {"new", "running", "stopped", "halted"}

Stopped(p) == proc[p] \in {"stopped", "halted"}

(* fork: the child starts out in its parent's group.                       *)
Fork(p, first) ==
  /\ p = Cardinality(Forked) + 1
  /\ p \in Pid
  /\ proc' = [proc EXCEPT ![p] = "new"]
  /\ lead' = [lead EXCEPT ![p] = first]
  /\ UNCHANGED <<resume, group, pending>>

(* A process's reaction to a signal.  Until exec a child still has the     *)
(* shell's handlers for SIGINT and SIGTSTP, which leave it as it is.       *)
Reaction(p, sig) ==
  CASE sig = "KILL" /\ Alive(p) -> "zombie"
    [] sig = "INT" /\ proc[p] = "running" -> "zombie"
    [] sig = "TSTP" /\ proc[p] = "running" -> "stopped"
    [] sig = "STOP" /\ proc[p] \in {"new", "running"} -> "stopped"
    [] sig = "CONT" /\ Stopped(p) -> resume[p]
    [] OTHER -> proc[p]

(* What it will go on with: a stopped process keeps a SIGINT until SIGCONT *)
(* and loses any other stop to it.                                         *)
Pends(p, sig) ==
  CASE sig = "STOP" /\ proc[p] = "new" -> "new"
    [] sig = "INT" /\ Stopped(p) /\ resume[p] = "running" -> "zombie"
    [] sig \in {"KILL", "CONT"} -> "running"
    [] OTHER -> resume[p]

(* kill: a death is told by a SIGCHLD, a stop is not (SA_NOCLDSTOP).       *)
Kill(targets, sig) ==
  /\ proc' = [p \in Pid |->
                IF p \in targets THEN Reaction(p, sig) ELSE proc[p]]
  /\ resume' = [p \in Pid |->
                  IF p \in targets THEN Pends(p, sig) ELSE resume[p]]
  /\ pending' = (pending \/ \E p \in targets \cap Pid :
                               proc[p] # "zombie" /\ proc'[p] = "zombie")
  /\ UNCHANGED <<group, lead>>

(* The child between fork and exec: setpgid(0, 0) in the first process of  *)
(* a command, setpgid(0, getpgid(first)) in the others, which fails once   *)
(* the first has been reaped.                                              *)
ChildStarts(p) ==
  /\ proc[p] = "new"
  /\ proc' = [proc EXCEPT ![p] = "running"]
  /\ group' = [group EXCEPT ![p] =
                 IF lead[p] \in {0, p} THEN p
                 ELSE IF proc[lead[p]] # "gone" THEN group[lead[p]]
                 ELSE group[p]]
  /\ UNCHANGED <<resume, lead, pending>>

(* A process ends, or its redirection or its exec fails.                   *)
ChildExits(p) ==
  /\ proc[p] \in {"new", "running"}
  /\ proc' = [proc EXCEPT ![p] = "zombie"]
  /\ pending' = TRUE
  /\ UNCHANGED <<resume, group, lead>>

(* A process stops of its own accord, as one that reads the terminal does: *)
(* the shell never makes a job's group the terminal's foreground group.    *)
ChildStops(p) ==
  /\ proc[p] = "running"
  /\ proc' = [proc EXCEPT ![p] = "stopped"]
  /\ UNCHANGED <<resume, group, lead, pending>>

(* What waitpid has to report of p.                                        *)
Waitable(p, untraced) ==
  proc[p] = "zombie" \/ (untraced /\ proc[p] = "stopped")

(* waitpid reports p.                                                      *)
Reported(p) ==
  /\ proc' = [proc EXCEPT ![p] = IF @ = "zombie" THEN "gone" ELSE "halted"]
  /\ UNCHANGED <<resume, group, lead>>

=============================================================================

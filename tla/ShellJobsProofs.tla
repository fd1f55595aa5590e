--------------------------- MODULE ShellJobsProofs ---------------------------
(***************************************************************************)
(* The shell's job control keeps its promises, for any number of children  *)
(* and of jobs and any length of a pipeline.                               *)
(*                                                                         *)
(* The invariant has two halves.  Inv (the types, the sizes, the pids and  *)
(* the groups) holds of every behaviour.  Sound (the table is in order)    *)
(* holds until a SIGCHLD handler undercuts the main program, for that is   *)
(* what it takes away: ShellJobsGhost.cfg shows a job that stays listed    *)
(* for ever.                                                               *)
(***************************************************************************)
EXTENDS ShellJobs, FiniteSetTheorems, SequenceTheorems, TLAPS

(* The main program lists a job; Filled: it has written the job's pid.     *)
Adding == pc \in {"addpid", "addnumber", "addstate", "addcount"}

Filled == pc \in {"addnumber", "addstate", "addcount"}

(* fg takes its job off the list, to wait for it.                          *)
Taking == pc = "remove" /\ back = "wait"

(* The main program waits for a command, or is about to.                   *)
Waiting == pc \in {"wait", "waiting"} \/ Taking

(* The processes in pids are the main program's own to deal with.          *)
Launching == pc \in {"fork", "foreground"} \/ Waiting \/ Adding

(* fg or bg deals with the job at job_index.                               *)
Choosing == pc \in {"fgcont", "fgpid", "fgtake", "bgcont", "bgmark"}

(* The table is large enough for whatever is on its way into it, and the   *)
(* statements that write behind its end do so at its end.                  *)
CountInv ==
  /\ job_count < next_job_number
  /\ pc \in {"addstate", "addcount"} => job_count < next_job_number - 1
  /\ \/ pc \in {"fork", "foreground", "addpid", "addnumber",
                "fgcont", "fgpid", "fgtake"}
     \/ Waiting
     => next_job_number <= MaxNumber
  /\ pc = "remove" \/ Filled => job_count >= 0

(* The processes of the command that is dealt with, none of them twice.    *)
PidsInv ==
  /\ pc = "found" => Len(pids) = 1
  /\ pc = "fork" => Len(pids) < command.stages
  /\ Launching => Len(pids) <= command.stages
  /\ Launching /\ pc # "fork" => pids # <<>>
  /\ pc = "foreground" => command.stages = 1
  /\ pc = "remove" => back \in {"check", "wait"}
  /\ Adding => back \in {"next", "over"}
  /\ \A i, j \in 1 .. Len(pids) : i < j => pids[i] # pids[j]

(* No slot in use is empty.                                                *)
SlotInv ==
  /\ \A s \in 0 .. job_count - 1 : jobs[s].pid # 0
  /\ Filled => jobs[job_count].pid # 0
  /\ Choosing => jobs[job_index].pid # 0

(* fork gives the pids away in order.                                      *)
OrderedPids == \E n \in 0 .. MaxPid : Forked = 1 .. n

(* A process that is behind exec, running or stopped there.                *)
Behind(p) == proc[p] = "running" \/ (Stopped(p) /\ resume[p] # "new")

(* A command on its own is the leader of its group once it runs: it made   *)
(* itself, or the shell made it.                                           *)
GroupInv ==
  \A p \in Pid :
    /\ proc[p] = "none" => lead[p] = 0
    /\ lead[p] = 0 => group[p] \in {0, p}
    /\ lead[p] = 0 /\ Behind(p) => group[p] = p

(* Only what has been forked is listed or dealt with, and at a fork only   *)
(* stages of a pipeline are there already.                                 *)
ForkedInv ==
  /\ \A s \in Slot : jobs[s].pid # 0 => jobs[s].pid \in Forked
  /\ \A i \in 1 .. Len(pids) : pids[i] \in Forked
  /\ pc = "fork" => \A i \in 1 .. Len(pids) : lead[pids[i]] # 0

ForkInv == OrderedPids /\ GroupInv /\ ForkedInv

(* The slots whose jobs count: while remove_job's loop is under way, all   *)
(* but the hole.                                                           *)
Kept == {s \in 0 .. job_count - 1 : pc = "remove" => s # hole}

(* The slots the main program is at are in use.                            *)
UsedInv ==
  /\ job_count >= 0
  /\ pc = "remove" => hole < job_count
  /\ pc = "found" \/ Choosing => job_index < job_count
  /\ pc = "found" => jobs[job_index].pid = pids[1]

(* The status that check_background_processes holds fits the child.        *)
StatusInv ==
  pc = "found" => (state = "RUNNING" <=> proc[pids[1]] = "gone")

(* No process is listed twice.                                             *)
UniqueInv ==
  \A r, s \in Kept : r # s => jobs[r].pid # jobs[s].pid

(* No listed process has been reaped, unless check_background_processes is *)
(* just looking at it.                                                     *)
LiveInv ==
  \A s \in Kept :
    (pc = "found" => s # job_index) => proc[jobs[s].pid] # "gone"

(* The jobs are in the order of their numbers, and so is the one that is   *)
(* being listed.                                                           *)
OrderInv ==
  /\ \A r, s \in Kept : r < s => jobs[r].job_number < jobs[s].job_number
  /\ \A s \in Kept : jobs[s].job_number < next_job_number
  /\ pc \in {"addstate", "addcount"} =>
       /\ jobs[job_count].job_number = next_job_number - 1
       /\ \A s \in Kept : jobs[s].job_number < next_job_number - 1

(* What is being launched or waited for is not listed, and its last        *)
(* process has not been reaped.                                            *)
LaunchInv ==
  /\ Launching =>
       \A i \in 1 .. Len(pids), s \in Kept : jobs[s].pid # pids[i]
  /\ Launching /\ pids # <<>> => proc[Last(pids)] # "gone"
  /\ Filled => jobs[job_count].pid = Last(pids)

(* A stop that has been reported is kept: in the slot, or, until it is     *)
(* written there, in state.                                                *)
StopInv ==
  /\ \A s \in Kept :
       (pc = "found" => s # job_index) /\ proc[jobs[s].pid] = "halted" =>
         jobs[s].state = "STOPPED"
  /\ pc = "addcount" /\ proc[Last(pids)] = "halted" =>
       jobs[job_count].state = "STOPPED"
  /\ pc \in {"fgpid", "fgtake", "bgmark"} =>
       proc[jobs[job_index].pid] # "halted"
  /\ Launching /\ pids # <<>> /\ proc[Last(pids)] = "halted" =>
       Adding /\ state = "STOPPED"

(* foreground_pid is the command that is waited for, listed as stopped or  *)
(* taken by fg, or still the one that is over, and 0 anywhere else.        *)
FgInv ==
  /\ Waiting => \/ foreground_pid = pids[1] /\ Len(pids) = 1
                \/ /\ foreground_pid = 0
                   /\ \A i \in 1 .. Len(pids) : lead[pids[i]] # 0
  /\ pc = "fgtake" => foreground_pid = jobs[job_index].pid
  /\ Adding /\ back = "over" => foreground_pid \in {0, Last(pids)}
  /\ Adding /\ back = "next" => foreground_pid = 0
  /\ ~(Waiting \/ Adding \/ pc \in {"fgtake", "over"} \cup Ended) =>
       foreground_pid = 0

(* Every command on its own that has not been reaped is listed or dealt    *)
(* with.                                                                   *)
LostInv ==
  \A p \in Pid : Single(p) /\ proc[p] # "gone" =>
     \/ \E s \in Kept : jobs[s].pid = p
     \/ Launching /\ pids # <<>> /\ p = Last(pids)

(* What holds whatever a handler interrupts.                               *)
Inv == TypeOK /\ CountInv /\ PidsInv /\ SlotInv /\ ForkInv

(* What holds until a handler reaps a child between statements that deal   *)
(* with this child or with the table.                                      *)
Sound ==
  /\ UsedInv /\ StatusInv /\ UniqueInv /\ LiveInv /\ OrderInv
  /\ LaunchInv /\ StopInv /\ FgInv /\ LostInv

-----------------------------------------------------------------------------
(* Facts about the sequences, the table and the children.                  *)

(* A set of slots has a least one.                                         *)
LEMMA LeastSlot ==
  ASSUME NEW S \in SUBSET Nat, S # {}
  PROVE  Min(S) \in S
<1> DEFINE Below(n) == 0 .. n - 1
           T == {Below(n) : n \in S}
<1>1. T # {} /\ T \subseteq FiniteSubsetsOf(Nat)
  <2>1. ASSUME NEW n \in S
        PROVE  Below(n) \subseteq Nat /\ IsFiniteSet(Below(n))
    BY FS_Interval
  <2> QED
    BY <2>1 DEF FiniteSubsetsOf
<1>2. PICK t \in T : \A u \in T : <<u, t>> \notin StrictSubsetOrdering(Nat)
  BY <1>1, FS_StrictSubsetOrderingWellFounded, WFMin, Zenon
<1>3. PICK x \in S : t = Below(x)
  OBVIOUS
<1>4. ASSUME NEW y \in S, y < x PROVE FALSE
  <2>1. Below(y) \in T
    BY Zenon
  <2>2. Below(y) \in SUBSET Nat /\ t \in SUBSET Nat /\ Below(y) \subseteq t
    BY <1>3, <1>4
  <2>3. y \in t /\ y \notin Below(y)
    BY <1>3, <1>4
  <2>4. <<Below(y), t>> \in StrictSubsetOrdering(Nat)
    <3> HIDE DEF Below, T
    <3> QED
      BY <2>2, <2>3 DEF StrictSubsetOrdering
  <2> QED
    BY <1>2, <2>1, <2>4
<1>5. x \in S /\ \A y \in S : x =< y
  BY <1>4
<1> QED
  BY <1>5 DEF Min

(* find_job_by_pid finds a slot that is in use and lists the process.      *)
LEMMA FirstSlotListed ==
  ASSUME TypeOK, NEW p, SlotsOf(p) # {}
  PROVE  /\ FirstSlotOf(p) \in 0 .. job_count - 1
         /\ FirstSlotOf(p) \in Slot
         /\ jobs[FirstSlotOf(p)].pid = p
<1>1. SlotsOf(p) \in SUBSET Nat /\ 0 .. job_count - 1 \subseteq Slot
  BY ShellJobsAssumption DEF SlotsOf, TypeOK, Slot
<1>2. FirstSlotOf(p) \in SlotsOf(p)
  BY <1>1, LeastSlot DEF FirstSlotOf
<1> QED
  BY <1>1, <1>2 DEF SlotsOf

(* waitpid(-1, ...) reports a child that has something to report.          *)
LEMMA ReportsAChild ==
  ASSUME Reportable # {}
  PROVE  NextReport \in Pid /\ Waitable(NextReport, TRUE)
<1>1. Pid \in SUBSET Nat
  BY ChildrenAssumption DEF Pid
<1>2. Reportable \in SUBSET Nat
  BY <1>1 DEF Reportable
<1> QED
  BY <1>2, LeastSlot DEF NextReport, Reportable

(* What waitpid does to the child it reports.                              *)
LEMMA ReportTyped ==
  ASSUME ChildrenTypeOK, NEW p \in Pid, Waitable(p, TRUE), Reported(p)
  PROVE  /\ proc' \in [Pid -> ProcState]
         /\ proc'[p] = IF proc[p] = "zombie" THEN "gone" ELSE "halted"
         /\ \A q \in Pid : q # p => proc'[q] = proc[q]
         /\ proc[p] \in {"zombie", "stopped"}
         /\ resume' = resume /\ group' = group /\ lead' = lead
  BY DEF ChildrenTypeOK, Waitable, Reported, ProcState

(* The first and the last process of a command.                            *)
LEMMA LastTyped ==
  ASSUME NEW s \in Seq(Pid), s # <<>>
  PROVE  /\ Len(s) \in Nat \ {0}
         /\ Last(s) = s[Len(s)] /\ Last(s) \in Pid
         /\ Head(s) = s[1] /\ s[1] \in Pid
  BY DEF Last

(* What is left of a pipeline once its first process has been waited for.  *)
LEMMA TailTyped ==
  ASSUME NEW s \in Seq(Pid), Len(s) > 1
  PROVE  /\ Tail(s) \in Seq(Pid) /\ Tail(s) # <<>>
         /\ Len(Tail(s)) = Len(s) - 1
         /\ \A i \in 1 .. Len(s) - 1 : Tail(s)[i] = s[i + 1]
         /\ Last(Tail(s)) = Last(s)
<1>1. s # <<>>
  BY EmptySeq
<1>2. /\ Tail(s) \in Seq(Pid) /\ Len(Tail(s)) = Len(s) - 1
      /\ \A i \in 1 .. Len(s) - 1 : Tail(s)[i] = s[i + 1]
  BY <1>1, HeadTailProperties
<1>3. Tail(s) # <<>>
  <2>1. Len(Tail(s)) # 0 /\ Len(<<>>) = 0
    BY <1>2, EmptySeq
  <2> QED
    BY <2>1, Zenon
<1>4. Last(s) = s[Len(s)] /\ Last(Tail(s)) = Tail(s)[Len(s) - 1]
  BY <1>1, <1>2, <1>3, LastTyped
<1> QED
  BY <1>2, <1>3, <1>4

(* What a fork adds to a command.                                          *)
LEMMA AppendTyped ==
  ASSUME NEW s \in Seq(Pid), NEW p \in Pid
  PROVE  /\ Append(s, p) \in Seq(Pid) /\ Append(s, p) # <<>>
         /\ Len(Append(s, p)) = Len(s) + 1
         /\ \A i \in 1 .. Len(s) : Append(s, p)[i] = s[i]
         /\ Append(s, p)[Len(s) + 1] = p
         /\ Last(Append(s, p)) = p
         /\ Head(Append(s, p)) = Append(s, p)[1]
<1> DEFINE t == Append(s, p)
<1>1. /\ t \in Seq(Pid) /\ t # <<>> /\ Len(t) = Len(s) + 1
      /\ \A i \in 1 .. Len(s) : t[i] = s[i]
      /\ t[Len(s) + 1] = p
  BY AppendProperties
<1>2. Last(t) = t[Len(t)] /\ Head(t) = t[1]
  <2> HIDE DEF t
  <2> QED
    BY <1>1, LastTyped
<1> QED
  BY <1>1, <1>2

(* An assignment to a member of a slot of the table leaves the rest.       *)
LEMMA SetsPid ==
  ASSUME NEW t \in [Slot -> Job], NEW k \in Slot, NEW p \in Pid \cup {0},
         NEW u, u = [t EXCEPT ![k].pid = p]
  PROVE  /\ u \in [Slot -> Job]
         /\ \A s \in Slot : /\ u[s].pid = IF s = k THEN p ELSE t[s].pid
                            /\ u[s].job_number = t[s].job_number
                            /\ u[s].state = t[s].state
  BY DEF Job

(* As SetsPid, for the number.                                             *)
LEMMA SetsNumber ==
  ASSUME NEW t \in [Slot -> Job], NEW k \in Slot, NEW n \in 0 .. MaxNumber,
         NEW u, u = [t EXCEPT ![k].job_number = n]
  PROVE  /\ u \in [Slot -> Job]
         /\ \A s \in Slot :
              /\ u[s].job_number = IF s = k THEN n ELSE t[s].job_number
              /\ u[s].pid = t[s].pid
              /\ u[s].state = t[s].state
  BY DEF Job

(* As SetsPid, for the state.                                              *)
LEMMA SetsState ==
  ASSUME NEW t \in [Slot -> Job], NEW k \in Slot, NEW x \in JobState,
         NEW u, u = [t EXCEPT ![k].state = x]
  PROVE  /\ u \in [Slot -> Job]
         /\ \A s \in Slot : /\ u[s].state = IF s = k THEN x ELSE t[s].state
                            /\ u[s].pid = t[s].pid
                            /\ u[s].job_number = t[s].job_number
  BY DEF Job

(* A report of a stop is written into a slot.                              *)
LEMMA StopTyped ==
  ASSUME TypeOK, NEW k \in Slot
  PROVE  [jobs EXCEPT ![k].state = "STOPPED"] \in [Slot -> Job]
<1>1. jobs \in [Slot -> Job] /\ "STOPPED" \in JobState
  BY DEF TypeOK, JobState
<1> DEFINE u == [jobs EXCEPT ![k].state = "STOPPED"]
<1>2. u = [jobs EXCEPT ![k].state = "STOPPED"]
  OBVIOUS
<1> HIDE DEF u
<1>3. u \in [Slot -> Job]
  BY <1>1, <1>2, SetsState
<1> QED
  BY <1>2, <1>3

(* What remove_job, called by the handler, leaves in every slot.           *)
LEMMA WithoutTyped ==
  ASSUME TypeOK, NEW k \in 0 .. job_count - 1
  PROVE  /\ Without(k) \in [Slot -> Job]
         /\ \A s \in Slot :
              Without(k)[s] =
                IF s \in k .. job_count - 2 THEN jobs[s + 1] ELSE jobs[s]
  BY ShellJobsAssumption DEF Without, TypeOK, Slot

(* fork gives away the pids in their order.                                *)
LEMMA ForkIsNew ==
  ASSUME ChildrenTypeOK, ForkInv, NEW p \in Pid, NEW first \in Pid \cup {0},
         Fork(p, first)
  PROVE  /\ p \notin Forked /\ Forked' = Forked \cup {p}
         /\ \E n \in 0 .. MaxPid : Forked' = 1 .. n
         /\ proc' \in [Pid -> ProcState] /\ lead' \in [Pid -> Pid \cup {0}]
         /\ proc'[p] = "new" /\ lead'[p] = first
         /\ \A q \in Pid : q # p => proc'[q] = proc[q] /\ lead'[q] = lead[q]
         /\ resume' = resume /\ group' = group /\ pending' = pending
<1>1. PICK n \in 0 .. MaxPid : Forked = 1 .. n
  BY DEF ForkInv, OrderedPids
<1>2. p = n + 1
  <2>1. n \in Nat /\ 1 \in Int /\ (1 > n => n = 0)
    BY ChildrenAssumption
  <2>2. Cardinality(1 .. n) = n
    BY <2>1, FS_Interval
  <2> QED
    BY <1>1, <2>2 DEF Fork
<1>3. /\ proc' \in [Pid -> ProcState] /\ lead' \in [Pid -> Pid \cup {0}]
      /\ proc'[p] = "new" /\ lead'[p] = first
      /\ \A q \in Pid : q # p => proc'[q] = proc[q] /\ lead'[q] = lead[q]
      /\ resume' = resume /\ group' = group /\ pending' = pending
  BY DEF Fork, ChildrenTypeOK, ProcState
<1>4. Forked' = Forked \cup {p}
  BY <1>3 DEF Forked
<1>5. p \notin Forked
  BY <1>1, <1>2, ChildrenAssumption
<1>6. n + 1 \in 0 .. MaxPid /\ Forked' = 1 .. n + 1
  BY <1>1, <1>2, <1>4, ChildrenAssumption DEF Pid
<1> QED
  BY <1>3, <1>4, <1>5, <1>6

(* What a signal may do to a process.                                      *)
Answers(p, sig, to) ==
  \/ sig = "CONT" /\ Stopped(p) /\ to = resume[p]
  \/ /\ sig \in {"TSTP", "STOP"} /\ proc[p] \in {"new", "running"}
     /\ (proc[p] = "new" => sig = "STOP")
     /\ to = "stopped"
  \/ sig = "INT" /\ proc[p] = "running" /\ to = "zombie"
  \/ sig = "KILL" /\ to = "zombie"

(* What kill does to a child.                                              *)
LEMMA KillTyped ==
  ASSUME ChildrenTypeOK, NEW targets, NEW sig, Kill(targets, sig)
  PROVE  /\ proc' \in [Pid -> ProcState] /\ pending' \in BOOLEAN
         /\ resume' \in [Pid -> Resumed]
         /\ group' = group /\ lead' = lead
         /\ \A p \in Pid :
              /\ p \notin targets => proc'[p] = proc[p] /\ resume'[p] = resume[p]
              /\ proc[p] \in {"none", "zombie", "gone"} => proc'[p] = proc[p]
              /\ proc'[p] # proc[p] => Answers(p, sig, proc'[p])
<1>1. ASSUME NEW p \in Pid
      PROVE  /\ Reaction(p, sig) \in ProcState /\ Pends(p, sig) \in Resumed
             /\ proc[p] \in {"none", "zombie", "gone"} =>
                  Reaction(p, sig) = proc[p]
             /\ Reaction(p, sig) # proc[p] =>
                  Answers(p, sig, Reaction(p, sig))
  BY DEF Reaction, Pends, Answers, Stopped, Alive, ChildrenTypeOK, ProcState,
     Resumed
<1>2. \A p \in Pid :
        /\ proc'[p] = IF p \in targets THEN Reaction(p, sig) ELSE proc[p]
        /\ resume'[p] = IF p \in targets THEN Pends(p, sig) ELSE resume[p]
  BY DEF Kill
<1>3. proc' \in [Pid -> ProcState] /\ resume' \in [Pid -> Resumed]
  <2> HIDE DEF Reaction, Pends
  <2> QED
    BY <1>1 DEF Kill, ChildrenTypeOK
<1>4. pending' \in BOOLEAN /\ group' = group /\ lead' = lead
  BY DEF Kill, ChildrenTypeOK
<1> QED
  BY <1>1, <1>2, <1>3, <1>4

(* A stage that is forked is one of the command's own.                     *)
LEMMA ForksOne ==
  ASSUME TypeOK, ForkStage
  PROVE  \E p \in Pid, first \in Pid \cup {0} :
           /\ Fork(p, first) /\ pids' = Append(pids, p)
           /\ command.stages # 1 => first # 0
<1>1. PICK p \in Pid :
        /\ Fork(p, IF command.stages = 1 THEN 0 ELSE Head(Append(pids, p)))
        /\ pids' = Append(pids, p)
  BY DEF ForkStage
<1>2. Head(Append(pids, p)) \in Pid
  BY AppendTyped, LastTyped DEF TypeOK
<1>3. CASE command.stages = 1
  BY <1>1, <1>3
<1>4. CASE command.stages # 1
  <2>1. Head(Append(pids, p)) # 0
    BY <1>2 DEF Pid
  <2>2. Fork(p, Head(Append(pids, p)))
    BY <1>1, <1>4
  <2> QED
    BY <1>1, <1>2, <2>1, <2>2
<1> QED
  BY <1>3, <1>4

(* A command has at least one process.                                     *)
LEMMA StagesTyped ==
  ASSUME TypeOK
  PROVE  command.stages \in Nat \ {0}
<1>1. command.stages \in Stages \cup {1}
  BY DEF TypeOK
<1>2. Stages \subseteq Nat \ {0}
  BY ShellJobsAssumption, Zenon
<1>3. Stages \cup {1} \subseteq Nat \ {0}
  BY <1>2
<1> QED
  BY <1>1, <1>3, Zenon

(* A slot is an index of the table.                                        *)
LEMMA SlotsAreNat ==
  ASSUME NEW s \in Slot
  PROVE  s \in Nat /\ s <= MaxNumber
  BY ShellJobsAssumption DEF Slot

(* The slots the program looks at are slots of the table.                  *)
LEMMA UsedSlots ==
  ASSUME TypeOK, CountInv
  PROVE  /\ \A s \in 0 .. job_count - 1 : s \in Slot
         /\ Filled => job_count \in Slot
         /\ job_count < 0 \/ job_count \in Slot
         /\ job_index \in Slot /\ hole \in Slot
         /\ job_count \in Int /\ next_job_number \in Int
         /\ pc = "addnumber" => next_job_number \in 0 .. MaxNumber
  BY ShellJobsAssumption DEF TypeOK, CountInv, Filled, Slot

(* Where check_background_processes goes with a job it has found.          *)
LEMMA FoundJobGoes ==
  ASSUME FoundJob
  PROVE  /\ pc = "found" /\ UNCHANGED <<job_count, next_job_number>>
         /\ \/ pc' = "check"
            \/ pc' = "remove" /\ back' = "check" /\ job_index < job_count
  BY DEF FoundJob, EntersRemove, At, Goto

(* The counts fit when it goes there.                                      *)
LEMMA FoundJobCounts ==
  ASSUME FoundJob, TypeOK, CountInv
  PROVE  CountInv'
<1>1. /\ UNCHANGED <<job_count, next_job_number>>
      /\ \/ pc' = "check"
         \/ pc' = "remove" /\ back' = "check" /\ job_index < job_count
      /\ job_index \in Nat /\ job_count \in Int
  BY FoundJobGoes, SlotsAreNat, UsedSlots
<1>2. job_count < next_job_number /\ (pc' = "remove" => job_count' >= 0)
  BY <1>1 DEF CountInv
<1> QED
  BY <1>1, <1>2 DEF CountInv, Filled, Waiting, Taking

(* The statement behind remove_job's loop.                                 *)
LEMMA RemoveJobEnds ==
  ASSUME RemoveJob, hole >= job_count - 1, TypeOK, CountInv, PidsInv
  PROVE  /\ pc = "remove" /\ back \in {"check", "wait"} /\ job_count \in Int
         /\ UNCHANGED <<jobs, job_index>> /\ job_count' = job_count - 1
         /\ pc' = back
<1>1. job_count \in Int /\ hole \in Int
  BY UsedSlots, SlotsAreNat
<1>2. ~(hole < job_count - 1)
  BY <1>1
<1> QED
  BY <1>1, <1>2 DEF RemoveJob, At, Goto, PidsInv

(* CountInv is inductive.                                                  *)
LEMMA CountStep ==
  ASSUME Inv, [Next]_vars
  PROVE  CountInv'
<1> USE ShellJobsAssumption, ChildrenAssumption DEF Inv, TypeOK, CountInv,
      PidsInv, Waiting, Taking, Filled
<1>1. CASE NothingToReport
  BY <1>1 DEF NothingToReport, At, Goto, LocalsGone, childVars, table,
     locals
<1>2. CASE CheckReaps
  <2>1. pc = "check" /\ pc' \in {"check", "found"} /\ UNCHANGED table
    BY <1>2 DEF CheckReaps, At, Goto
  <2> QED
    BY <2>1 DEF table
<1>3. CASE FoundJob
  BY <1>3, FoundJobCounts DEF TypeOK
<1>4. CASE RemoveJob
  BY <1>4 DEF RemoveJob, At, Goto, Shift, childVars
<1>5. CASE AddPid
  BY <1>5 DEF AddPid, At, AddsTo, Goto, childVars
<1>6. CASE AddNumber
  BY <1>6 DEF AddNumber, At, AddsTo, Goto, childVars, NextJobNumber
<1>7. CASE AddState
  BY <1>7 DEF AddState, At, AddsTo, Goto, childVars
<1>8. CASE AddCount
  <2>1. back \in {"next", "over"} /\ pc = "addcount" /\ pc' = back
    BY <1>8 DEF AddCount, AddsTo, At, Goto, Adding
  <2> QED
    BY <1>8, <2>1 DEF AddCount, AddsTo
<1>9. CASE LineOver
  BY <1>9 DEF LineOver, At, Goto, childVars, table, locals
<1>10. CASE ForkStage
  BY <1>10 DEF ForkStage, At, Goto, Launched, table, childVars, locals
<1>11. CASE ForkStageFails
  BY <1>11 DEF ForkStageFails, At, Goto, childVars, table, locals
<1>12. CASE SetForeground
  BY <1>12 DEF SetForeground, At, Goto, table, childVars, locals
<1>13. CASE CallWait
  BY <1>13 DEF CallWait, At, Goto, childVars, table, locals
<1>14. CASE WaitReturns
  BY <1>14 DEF WaitReturns, At, Untraced, WaitEnds, Goto, table, childVars,
     locals
<1>15. CASE CommandOver
  BY <1>15 DEF CommandOver, At, Goto, childVars, table, locals
<1>16. CASE FgContinues
  BY <1>16 DEF FgContinues, At, Goto, childVars, table, locals
<1>17. CASE FgSetsForeground
  BY <1>17 DEF FgSetsForeground, At, Goto, childVars, table, locals
<1>18. CASE FgTakesJob
  <2>1. next_job_number <= MaxNumber /\ UNCHANGED table
    BY <1>18 DEF FgTakesJob, At
  <2>2. job_count >= 0 \/ pc' = "wait"
    BY <1>18, SlotsAreNat DEF FgTakesJob, EntersRemove, Goto
  <2>3. pc' \in {"remove", "wait"}
    BY <1>18 DEF FgTakesJob, EntersRemove, Goto
  <2> QED
    BY <2>1, <2>2, <2>3 DEF table
<1>19. CASE BgContinues
  BY <1>19 DEF BgContinues, At, Goto, table, childVars, locals
<1>20. CASE BgMarks
  BY <1>20 DEF BgMarks, At, Goto, childVars, locals, table
<1>21. CASE LogoutKills
  BY <1>21 DEF LogoutKills, At, Goto, childVars, table, locals
<1>22. CASE \E stages \in Stages, background \in BOOLEAN :
                ReadCommand(stages, background)
  BY <1>22 DEF ReadCommand, Goto, NextCommand, At, childVars, table, locals
<1>23. CASE ReadFg
  BY <1>23 DEF ReadFg, Goto, NextCommand, At, childVars, table, locals
<1>24. CASE ReadBg
  BY <1>24 DEF ReadBg, Goto, NextCommand, At, childVars, table, locals
<1>25. CASE ReadPing
  BY <1>25 DEF ReadPing, Goto, NextCommand, At, table, childVars, locals
<1>26. CASE ReadEof
  BY <1>26 DEF ReadEof, At, Goto, childVars, table, locals
<1>27. CASE ReadExit
  BY <1>27 DEF ReadExit, Goto, NextCommand, At, childVars, table, locals
<1>28. CASE SigchldStarts
  BY <1>28 DEF SigchldStarts, Goto, Untraced, table, childVars, locals,
     Ended
<1>29. CASE SigchldReaps
  <2>1. SlotsOf(NextReport) # {} => job_count > 0
    BY FirstSlotListed
  <2>2. job_count' = job_count \/ (job_count > 0 /\ job_count' = job_count - 1)
    BY <1>29, <2>1 DEF SigchldReaps
  <2> QED
    BY <1>29, <2>2 DEF SigchldReaps, locals
<1>30. CASE SigchldEnds
  BY <1>30 DEF SigchldEnds, childVars, table, locals
<1>31. CASE Key
  BY <1>31 DEF Key, table, childVars, locals, Ended
<1>32. CASE Processes
  BY <1>32 DEF Processes, table, childVars, locals
<1>33. CASE UNCHANGED vars
  BY <1>33 DEF vars, childVars, table, locals
<1> QED
  BY <1>1, <1>2, <1>3, <1>4, <1>5, <1>6, <1>7, <1>8, <1>9, <1>10, <1>11,
     <1>12, <1>13, <1>14, <1>15, <1>16, <1>17, <1>18, <1>19, <1>20, <1>21,
     <1>22, <1>23, <1>24, <1>25, <1>26, <1>27, <1>28, <1>29, <1>30, <1>31,
     <1>32, <1>33 DEF Next, Main, Check, Add, Launch, FgBg, Read, Sigchld

(* PidsInv is inductive.                                                   *)
LEMMA PidsStep ==
  ASSUME Inv, [Next]_vars
  PROVE  PidsInv'
<1> USE ShellJobsAssumption, ChildrenAssumption DEF Inv, TypeOK, PidsInv,
      Waiting, Taking, Adding, Launching
<1>1. CASE NothingToReport
  BY <1>1 DEF NothingToReport, At, Goto, LocalsGone, childVars, table,
     locals
<1>2. CASE CheckReaps
  BY <1>2 DEF CheckReaps, At, Goto, table, childVars, locals
<1>3. CASE FoundJob
  BY <1>3 DEF FoundJob, At, Goto, EntersRemove, childVars
<1>4. CASE RemoveJob
  BY <1>4 DEF RemoveJob, At, Goto, Shift, childVars
<1>5. CASE AddPid
  BY <1>5 DEF AddPid, At, AddsTo, Goto, childVars
<1>6. CASE AddNumber
  BY <1>6 DEF AddNumber, At, AddsTo, Goto, childVars, NextJobNumber
<1>7. CASE AddState
  BY <1>7 DEF AddState, At, AddsTo, Goto, childVars
<1>8. CASE AddCount
  BY <1>8 DEF AddCount, At, AddsTo, Goto, childVars
<1>9. CASE LineOver
  BY <1>9 DEF LineOver, At, Goto, childVars, table, locals
<1>10. CASE ForkStage
  <2>1. PICK p \in Pid, first \in Pid \cup {0} :
          Fork(p, first) /\ pids' = Append(pids, p)
    BY <1>10, ForksOne
  <2>2. /\ pids' # <<>> /\ Len(pids') = Len(pids) + 1 /\ Len(pids) \in Nat
        /\ \A i \in 1 .. Len(pids) : pids'[i] = pids[i]
        /\ pids'[Len(pids) + 1] = p
    BY <2>1, AppendTyped
  <2>3. \A i \in 1 .. Len(pids) : pids[i] # p
    BY <2>1, ForkIsNew DEF ForkInv, ForkedInv
  <2>4. \A i, j \in 1 .. Len(pids') : i < j => pids'[i] # pids'[j]
    BY <2>2, <2>3
  <2>5. /\ pc = "fork" /\ Len(pids') <= command.stages
        /\ command' = command /\ command.stages \in Nat \ {0} /\ back' = "next"
        /\ pc' = IF Len(pids') < command.stages THEN "fork" ELSE Launched
    BY <1>10, <2>2, StagesTyped DEF ForkStage, At, Goto
  <2> QED
    BY <2>2, <2>4, <2>5 DEF Launched
<1>11. CASE ForkStageFails
  BY <1>11 DEF ForkStageFails, At, Goto, childVars, table, locals
<1>12. CASE SetForeground
  BY <1>12 DEF SetForeground, At, Goto, table, childVars, locals
<1>13. CASE CallWait
  BY <1>13 DEF CallWait, At, Goto, childVars, table, locals
<1>14. CASE WaitReturns
  <2>1. PICK stopped \in BOOLEAN : WaitEnds(stopped)
    BY <1>14 DEF WaitReturns, Untraced
  <2>2. CASE stopped
    BY <1>14, <2>1, <2>2 DEF WaitReturns, WaitEnds, At, Goto
  <2>3. CASE ~stopped /\ Len(pids) > 1
    <3>1. /\ pids' # <<>> /\ Len(pids') = Len(pids) - 1 /\ Len(pids) \in Nat
          /\ \A i \in 1 .. Len(pids') : pids'[i] = pids[i + 1]
      BY <2>1, <2>3, TailTyped DEF WaitEnds
    <3>2. \A i, j \in 1 .. Len(pids') : i < j => pids'[i] # pids'[j]
      BY <3>1
    <3>3. /\ Len(pids) <= command.stages /\ command' = command
          /\ pc' = "wait" /\ command.stages \in Nat
      BY <1>14, <2>1, <2>3, StagesTyped DEF WaitReturns, WaitEnds, At, Goto
    <3> QED
      BY <3>1, <3>2, <3>3
  <2>4. CASE ~stopped /\ Len(pids) <= 1
    BY <1>14, <2>1, <2>4 DEF WaitReturns, WaitEnds, At, Goto
  <2> QED
    BY <2>2, <2>3, <2>4
<1>15. CASE CommandOver
  BY <1>15 DEF CommandOver, At, Goto, childVars, table, locals
<1>16. CASE FgContinues
  BY <1>16 DEF FgContinues, At, Goto, childVars, table, locals
<1>17. CASE FgSetsForeground
  BY <1>17 DEF FgSetsForeground, At, Goto, childVars, table, locals
<1>18. CASE FgTakesJob
  BY <1>18 DEF FgTakesJob, At, EntersRemove, Goto, childVars, table, locals
<1>19. CASE BgContinues
  BY <1>19 DEF BgContinues, At, Goto, table, childVars, locals
<1>20. CASE BgMarks
  BY <1>20 DEF BgMarks, At, Goto, childVars, locals, table
<1>21. CASE LogoutKills
  BY <1>21 DEF LogoutKills, At, Goto, childVars, table, locals
<1>22. CASE \E stages \in Stages, background \in BOOLEAN :
                ReadCommand(stages, background)
  BY <1>22 DEF ReadCommand, Goto, NextCommand, At, childVars, table, locals
<1>23. CASE ReadFg
  BY <1>23 DEF ReadFg, Goto, NextCommand, At, childVars, table, locals
<1>24. CASE ReadBg
  BY <1>24 DEF ReadBg, Goto, NextCommand, At, childVars, table, locals
<1>25. CASE ReadPing
  BY <1>25 DEF ReadPing, Goto, NextCommand, At, table, childVars, locals
<1>26. CASE ReadEof
  BY <1>26 DEF ReadEof, At, Goto, childVars, table, locals
<1>27. CASE ReadExit
  BY <1>27 DEF ReadExit, Goto, NextCommand, At, childVars, table, locals
<1>28. CASE SigchldStarts
  BY <1>28 DEF SigchldStarts, Goto, Untraced, table, childVars, locals,
     Ended
<1>29. CASE SigchldReaps
  BY <1>29 DEF SigchldReaps, locals, childVars, table
<1>30. CASE SigchldEnds
  BY <1>30 DEF SigchldEnds, childVars, table, locals
<1>31. CASE Key
  BY <1>31 DEF Key, table, childVars, locals, Ended
<1>32. CASE Processes
  BY <1>32 DEF Processes, table, childVars, locals
<1>33. CASE UNCHANGED vars
  BY <1>33 DEF vars, childVars, table, locals
<1> QED
  BY <1>1, <1>2, <1>3, <1>4, <1>5, <1>6, <1>7, <1>8, <1>9, <1>10, <1>11,
     <1>12, <1>13, <1>14, <1>15, <1>16, <1>17, <1>18, <1>19, <1>20, <1>21,
     <1>22, <1>23, <1>24, <1>25, <1>26, <1>27, <1>28, <1>29, <1>30, <1>31,
     <1>32, <1>33 DEF Next, Main, Check, Add, Launch, FgBg, Read, Sigchld

(* SlotInv is inductive: nothing empty comes into use.                     *)
LEMMA SlotStep ==
  ASSUME Inv, [Next]_vars
  PROVE  SlotInv'
<1> USE ShellJobsAssumption, ChildrenAssumption DEF Inv, TypeOK, CountInv,
      SlotInv, Filled, Choosing
<1>1. CASE NothingToReport
  BY <1>1 DEF NothingToReport, At, Goto, LocalsGone, childVars, table,
     locals
<1>2. CASE CheckReaps
  BY <1>2 DEF CheckReaps, At, Goto, table, childVars, locals
<1>3. CASE FoundJob
  <2>1. \A s \in Slot : jobs'[s].pid = jobs[s].pid
    <3>1. jobs' = jobs \/ jobs' = [jobs EXCEPT ![job_index].state = "STOPPED"]
      BY <1>3 DEF FoundJob, MarksStopped
    <3> QED
      BY <3>1, SetsState DEF JobState
  <2>2. pc' \in {"check", "remove"}
    BY <1>3 DEF FoundJob, EntersRemove, Goto
  <2> QED
    BY <1>3, <2>1, <2>2, UsedSlots DEF FoundJob
<1>4. CASE RemoveJob
  <2>1. CASE hole < job_count - 1 /\ Shift
    <3>1. hole \in Nat /\ hole \in Slot /\ hole + 1 \in 0 .. job_count - 1
      BY <2>1, SlotsAreNat
    <3>2. \A s \in Slot : jobs'[s] =
            IF s = hole THEN jobs[hole + 1] ELSE jobs[s]
      BY <2>1, <3>1 DEF Shift
    <3>3. pc = "remove" /\ UNCHANGED <<pc, job_count>> /\ job_count \in Int
      BY <1>4, <2>1, UsedSlots DEF RemoveJob, At, Shift
    <3>4. \A s \in 0 .. job_count - 1 : s \in Slot /\ jobs[s].pid # 0
      BY UsedSlots
    <3>5. \A s \in 0 .. job_count - 1 : jobs'[s].pid # 0
      BY <3>1, <3>2, <3>4
    <3> QED
      BY <3>3, <3>5
  <2>2. CASE hole >= job_count - 1
    <3>1. /\ pc = "remove" /\ back \in {"check", "wait"} /\ job_count \in Int
          /\ UNCHANGED <<jobs, job_index>> /\ job_count' = job_count - 1
          /\ pc' = back
      BY <1>4, <2>2, RemoveJobEnds
    <3> QED
      BY <3>1
  <2> QED
    BY <1>4, <2>1, <2>2 DEF RemoveJob
<1>5. CASE AddPid
  <2>1. CASE job_count >= 0
    <3>1. Last(pids) \in Pid /\ Last(pids) # 0
      BY <1>5, LastTyped DEF AddPid, At, PidsInv, Launching, Adding, Pid
    <3>2. job_count \in Slot
      BY <1>5, <2>1 DEF AddPid, At, Slot
    <3>3. \A s \in Slot :
            jobs'[s].pid = IF s = job_count THEN Last(pids) ELSE jobs[s].pid
      BY <1>5, <2>1, <3>1, <3>2, SetsPid DEF AddPid
    <3> QED
      BY <1>5, <2>1, <3>1, <3>2, <3>3, UsedSlots DEF AddPid, AddsTo, At, Goto
  <2>2. CASE job_count < 0
    BY <1>5, <2>2 DEF AddPid, AddsTo, At, Goto
  <2> QED
    BY <2>1, <2>2
<1>6. CASE AddNumber
  BY <1>6 DEF AddNumber, At, AddsTo, Goto, childVars, NextJobNumber
<1>7. CASE AddState
  BY <1>7 DEF AddState, At, AddsTo, Goto, childVars
<1>8. CASE AddCount
  BY <1>8 DEF AddCount, At, AddsTo, Goto, childVars
<1>9. CASE LineOver
  BY <1>9 DEF LineOver, At, Goto, childVars, table, locals
<1>10. CASE ForkStage
  BY <1>10 DEF ForkStage, At, Goto, Launched, table, childVars, locals
<1>11. CASE ForkStageFails
  BY <1>11 DEF ForkStageFails, At, Goto, childVars, table, locals
<1>12. CASE SetForeground
  BY <1>12 DEF SetForeground, At, Goto, table, childVars, locals
<1>13. CASE CallWait
  BY <1>13 DEF CallWait, At, Goto, childVars, table, locals
<1>14. CASE WaitReturns
  BY <1>14 DEF WaitReturns, At, Untraced, WaitEnds, Goto, table, childVars,
     locals
<1>15. CASE CommandOver
  BY <1>15 DEF CommandOver, At, Goto, childVars, table, locals
<1>16. CASE FgContinues
  BY <1>16 DEF FgContinues, At, Goto, childVars, table, locals
<1>17. CASE FgSetsForeground
  BY <1>17 DEF FgSetsForeground, At, Goto, childVars, table, locals
<1>18. CASE FgTakesJob
  BY <1>18 DEF FgTakesJob, At, EntersRemove, Goto, childVars, table, locals
<1>19. CASE BgContinues
  BY <1>19 DEF BgContinues, At, Goto, table, childVars, locals
<1>20. CASE BgMarks
  BY <1>20 DEF BgMarks, At, Goto, childVars, locals, table
<1>21. CASE LogoutKills
  BY <1>21 DEF LogoutKills, At, Goto, childVars, table, locals
<1>22. CASE \E stages \in Stages, background \in BOOLEAN :
                ReadCommand(stages, background)
  BY <1>22 DEF ReadCommand, Goto, NextCommand, At, childVars, table, locals
<1>23. CASE ReadFg
  <2>1. CASE Goto("corrupted")
    BY <1>23, <2>1 DEF ReadFg, Goto, table
  <2>2. ASSUME NEW k \in Slot, Chosen(k) \/ k = job_count - 1, job_index' = k,
               Goto("fgcont")
        PROVE  SlotInv'
    <3>1. jobs[k].pid # 0
      BY <2>2, SlotsAreNat DEF Chosen
    <3> QED
      BY <1>23, <2>2, <3>1 DEF ReadFg, Goto, table
  <2> QED
    BY <1>23, <2>1, <2>2 DEF ReadFg
<1>24. CASE ReadBg
  <2>1. PICK k \in Slot : (Chosen(k) \/ LastStopped(k)) /\ job_index' = k
    BY <1>24 DEF ReadBg
  <2>2. jobs[k].pid # 0
    BY <2>1 DEF Chosen, LastStopped
  <2> QED
    BY <1>24, <2>1, <2>2 DEF ReadBg, Goto, table
<1>25. CASE ReadPing
  BY <1>25 DEF ReadPing, Goto, NextCommand, At, table, childVars, locals
<1>26. CASE ReadEof
  BY <1>26 DEF ReadEof, At, Goto, childVars, table, locals
<1>27. CASE ReadExit
  BY <1>27 DEF ReadExit, Goto, NextCommand, At, childVars, table, locals
<1>28. CASE SigchldStarts
  BY <1>28 DEF SigchldStarts, Goto, Untraced, table, childVars, locals,
     Ended
<1>29. CASE SigchldReaps
  <2>1. CASE UNCHANGED <<jobs, job_count>>
    BY <1>29, <2>1 DEF SigchldReaps, locals
  <2>2. CASE SlotsOf(NextReport) # {}
    <3> DEFINE k == FirstSlotOf(NextReport)
    <3>1. k \in 0 .. job_count - 1 /\ k \in Slot
      BY <2>2, FirstSlotListed
    <3>2. CASE jobs' = Without(k) /\ job_count' = job_count - 1
      <4>1. \A s \in Slot : jobs'[s].pid =
               IF s \in k .. job_count - 2 THEN jobs[s + 1].pid
               ELSE jobs[s].pid
        BY <3>1, <3>2, WithoutTyped
      <4>2. \A s \in Slot : jobs[s].pid # 0 => jobs'[s].pid # 0
        <5>1. \A s \in k .. job_count - 2 : jobs[s + 1].pid # 0
          BY <3>1
        <5> HIDE DEF k
        <5> TAKE s \in Slot
        <5>2. CASE s \in k .. job_count - 2
          <6>1. jobs'[s].pid = jobs[s + 1].pid
            BY <4>1, <5>2
          <6> QED
            BY <5>1, <5>2, <6>1, Zenon
        <5>3. CASE s \notin k .. job_count - 2
          <6>1. jobs'[s].pid = jobs[s].pid
            BY <4>1, <5>3
          <6> QED
            BY <6>1, Zenon
        <5> QED
          BY <5>2, <5>3
      <4> HIDE DEF k
      <4> QED
        BY <1>29, <3>1, <3>2, <4>1, <4>2, UsedSlots DEF SigchldReaps, locals
    <3>3. CASE jobs' = MarksStopped(k) /\ UNCHANGED job_count
      <4>1. \A s \in Slot : jobs'[s].pid = jobs[s].pid
        BY <3>1, <3>3, SetsState DEF MarksStopped, JobState
      <4> HIDE DEF k
      <4> QED
        BY <1>29, <3>3, <4>1, UsedSlots DEF SigchldReaps, locals
    <3> QED
      BY <1>29, <2>2, <3>2, <3>3 DEF SigchldReaps
  <2> QED
    BY <1>29, <2>1, <2>2 DEF SigchldReaps
<1>30. CASE SigchldEnds
  BY <1>30 DEF SigchldEnds, childVars, table, locals
<1>31. CASE Key
  BY <1>31 DEF Key, table, childVars, locals, Ended
<1>32. CASE Processes
  BY <1>32 DEF Processes, table, childVars, locals
<1>33. CASE UNCHANGED vars
  BY <1>33 DEF vars, childVars, table, locals
<1> QED
  BY <1>1, <1>2, <1>3, <1>4, <1>5, <1>6, <1>7, <1>8, <1>9, <1>10, <1>11,
     <1>12, <1>13, <1>14, <1>15, <1>16, <1>17, <1>18, <1>19, <1>20, <1>21,
     <1>22, <1>23, <1>24, <1>25, <1>26, <1>27, <1>28, <1>29, <1>30, <1>31,
     <1>32, <1>33 DEF Next, Main, Check, Add, Launch, FgBg, Read, Sigchld

(* The children stay children, whatever is done to them.                   *)
LEMMA ChildrenStep ==
  ASSUME Inv, [Next]_vars
  PROVE  ChildrenTypeOK'
<1>. ChildrenTypeOK /\ TypeOK /\ ForkInv /\ PidsInv
  BY DEF Inv, TypeOK
<1> USE DEF ChildrenTypeOK
<1>1. CASE NothingToReport
  BY <1>1 DEF NothingToReport, childVars
<1>2. CASE CheckReaps
  BY <1>2, ReportsAChild, ReportTyped DEF CheckReaps
<1>3. CASE FoundJob
  BY <1>3 DEF FoundJob, childVars
<1>4. CASE RemoveJob
  BY <1>4 DEF RemoveJob, childVars
<1>5. CASE AddPid
  BY <1>5 DEF AddPid, childVars, AddsTo
<1>6. CASE AddNumber
  BY <1>6 DEF AddNumber, childVars, AddsTo
<1>7. CASE AddState
  BY <1>7 DEF AddState, childVars, AddsTo
<1>8. CASE AddCount
  BY <1>8 DEF AddCount, childVars, AddsTo
<1>9. CASE LineOver
  BY <1>9 DEF LineOver, childVars
<1>10. CASE ForkStage
  BY <1>10, ForksOne, ForkIsNew
<1>11. CASE ForkStageFails
  BY <1>11 DEF ForkStageFails, childVars
<1>12. CASE SetForeground
  <2>1. Head(pids) \in Pid
    BY <1>12, LastTyped DEF SetForeground, At, PidsInv, Launching, TypeOK
  <2> QED
    BY <1>12, <2>1 DEF SetForeground
<1>13. CASE CallWait
  BY <1>13 DEF CallWait, childVars
<1>14. CASE WaitReturns
  <2>1. Head(pids) \in Pid
    BY <1>14, LastTyped DEF WaitReturns, At, PidsInv, Launching, Waiting,
       TypeOK
  <2> QED
    BY <1>14, <2>1, ReportTyped DEF WaitReturns, Waitable
<1>15. CASE CommandOver
  BY <1>15 DEF CommandOver, childVars
<1>16. CASE FgContinues
  BY <1>16, KillTyped DEF FgContinues, childVars
<1>17. CASE FgSetsForeground
  BY <1>17 DEF FgSetsForeground, childVars
<1>18. CASE FgTakesJob
  BY <1>18 DEF FgTakesJob, childVars
<1>19. CASE BgContinues
  BY <1>19, KillTyped DEF BgContinues, childVars
<1>20. CASE BgMarks
  BY <1>20 DEF BgMarks, childVars
<1>21. CASE LogoutKills
  BY <1>21, KillTyped DEF LogoutKills, childVars
<1>22. CASE \E stages \in Stages, background \in BOOLEAN :
                ReadCommand(stages, background)
  BY <1>22 DEF ReadCommand, childVars
<1>23. CASE ReadFg
  BY <1>23 DEF ReadFg, childVars
<1>24. CASE ReadBg
  BY <1>24 DEF ReadBg, childVars
<1>25. CASE ReadPing
  BY <1>25, KillTyped DEF ReadPing, childVars
<1>26. CASE ReadEof
  BY <1>26 DEF ReadEof, childVars
<1>27. CASE ReadExit
  BY <1>27 DEF ReadExit, childVars
<1>28. CASE SigchldStarts
  BY <1>28 DEF SigchldStarts, childVars
<1>29. CASE SigchldReaps
  BY <1>29, ReportsAChild, ReportTyped DEF SigchldReaps
<1>30. CASE SigchldEnds
  BY <1>30 DEF SigchldEnds, childVars
<1>31. CASE Key
  <2>1. PICK sig \in {"INT", "TSTP"} : Kill(KeyReaches, sig)
    BY <1>31 DEF Key
  <2> QED
    BY <2>1, KillTyped
<1>32. CASE Processes
  <2>1. PICK p \in Pid : ChildStarts(p) \/ ChildExits(p) \/ ChildStops(p)
    BY <1>32 DEF Processes
  <2>2. CASE ChildStarts(p)
    <3>1. /\ group[p] \in Pid \cup {0}
          /\ (lead[p] \notin {0, p} => lead[p] \in Pid)
      BY <2>1
    <3>2. lead[p] \in Pid => group[lead[p]] \in Pid \cup {0}
      BY <2>1
    <3> QED
      BY <2>1, <2>2, <3>1, <3>2 DEF ChildStarts, ProcState
  <2>3. CASE ChildExits(p) \/ ChildStops(p)
    BY <2>1, <2>3 DEF ChildExits, ChildStops, ProcState
  <2> QED
    BY <2>1, <2>2, <2>3
<1>33. CASE UNCHANGED vars
  BY <1>33 DEF vars, childVars, table, locals
<1> QED
  BY <1>1, <1>2, <1>3, <1>4, <1>5, <1>6, <1>7, <1>8, <1>9, <1>10, <1>11,
     <1>12, <1>13, <1>14, <1>15, <1>16, <1>17, <1>18, <1>19, <1>20, <1>21,
     <1>22, <1>23, <1>24, <1>25, <1>26, <1>27, <1>28, <1>29, <1>30, <1>31,
     <1>32, <1>33 DEF Next, Main, Check, Add, Launch, FgBg, Read, Sigchld

(* Every variable keeps its type: no step leaves the table.                *)
LEMMA TypeStep ==
  ASSUME Inv, [Next]_vars
  PROVE  TypeOK'
<1>. Inv /\ TypeOK /\ CountInv /\ PidsInv /\ SlotInv
  BY DEF Inv
<1>. ChildrenTypeOK'
  BY ChildrenStep
<1> USE ShellJobsAssumption DEF TypeOK, MainPc, Ended
<1>1. CASE NothingToReport
  BY <1>1, EmptySeq DEF NothingToReport, LocalsGone, Goto, table, Slot,
     JobState
<1>2. CASE CheckReaps
  <2>1. CASE SlotsOf(NextReport) = {}
    BY <1>2, <2>1 DEF CheckReaps, Goto, table
  <2>2. CASE SlotsOf(NextReport) # {}
    <3>1. FirstSlotOf(NextReport) \in Slot /\ NextReport \in Pid
      BY <1>2, <2>2, FirstSlotListed, ReportsAChild DEF CheckReaps
    <3>2. <<NextReport>> \in Seq(Pid)
      BY <3>1
    <3> QED
      BY <1>2, <2>2, <3>1, <3>2 DEF CheckReaps, Goto, table, JobState
  <2> QED
    BY <2>1, <2>2
<1>3. CASE FoundJob
  <2>1. jobs' = jobs \/ jobs' = [jobs EXCEPT ![job_index].state = "STOPPED"]
    BY <1>3 DEF FoundJob, MarksStopped
  <2>2. jobs' \in [Slot -> Job]
    BY <2>1, SetsState DEF JobState
  <2> QED
    BY <1>3, <2>2, EmptySeq DEF FoundJob, At, Goto, EntersRemove, JobState
<1>4. CASE RemoveJob
  <2>1. CASE hole < job_count - 1 /\ Shift
    <3>1. hole + 1 \in Slot
      BY <2>1, SlotsAreNat, UsedSlots
    <3>2. jobs' \in [Slot -> Job]
      BY <2>1, <3>1 DEF Shift
    <3> QED
      BY <1>4, <2>1, <3>1, <3>2 DEF RemoveJob, Shift
  <2>2. CASE hole >= job_count - 1
    BY <1>4, <2>2 DEF RemoveJob, At, Goto, CountInv
  <2> QED
    BY <1>4, <2>1, <2>2 DEF RemoveJob
<1>5. CASE AddPid
  <2>1. jobs' \in [Slot -> Job]
    <3>1. Last(pids) \in Pid
      BY <1>5, LastTyped DEF AddPid, At, PidsInv, Launching, Adding
    <3> QED
      BY <1>5, <3>1, UsedSlots, SetsPid DEF AddPid
  <2> QED
    BY <1>5, <2>1 DEF AddPid, AddsTo, At, Goto
<1>6. CASE AddNumber
  <2>1. job_count \in Slot /\ next_job_number \in 0 .. MaxNumber
    BY <1>6, UsedSlots DEF AddNumber, At, Filled, CountInv
  <2>2. jobs' \in [Slot -> Job]
    BY <1>6, <2>1, SetsNumber DEF AddNumber, NextJobNumber
  <2> QED
    BY <1>6, <2>1, <2>2 DEF AddNumber, AddsTo, At, Goto
<1>7. CASE AddState
  <2>1. job_count \in Slot
    BY <1>7, UsedSlots DEF AddState, At, Filled
  <2>2. jobs' \in [Slot -> Job]
    BY <1>7, <2>1, SetsState DEF AddState
  <2> QED
    BY <1>7, <2>2 DEF AddState, AddsTo, At, Goto
<1>8. CASE AddCount
  <2>1. job_count' \in -1 .. MaxNumber
    BY <1>8 DEF AddCount, At, CountInv, Filled
  <2> QED
    BY <1>8, <2>1, EmptySeq DEF AddCount, AddsTo, Goto
<1>9. CASE LineOver
  BY <1>9 DEF LineOver, At, Goto, childVars, table, locals
<1>10. CASE ForkStage
  <2>1. pids' \in Seq(Pid)
    BY <1>10, AppendTyped DEF ForkStage
  <2> QED
    BY <1>10, <2>1 DEF ForkStage, Goto, Launched, JobState, table
<1>11. CASE ForkStageFails
  BY <1>11 DEF ForkStageFails, At, Goto, childVars, table, locals
<1>12. CASE SetForeground
  <2>1. Head(pids) \in Pid
    BY <1>12, LastTyped DEF SetForeground, At, PidsInv, Launching
  <2> QED
    BY <1>12, <2>1 DEF SetForeground, Goto, table, locals
<1>13. CASE CallWait
  BY <1>13 DEF CallWait, At, Goto, childVars, table, locals
<1>14. CASE WaitReturns
  <2>1. PICK stopped \in BOOLEAN : WaitEnds(stopped)
    BY <1>14 DEF WaitReturns, Untraced
  <2>2. pids' \in Seq(Pid)
    <3>1. \/ pids' = pids \/ pids' = <<>>
          \/ pids' = Tail(pids) /\ Len(pids) > 1
      BY <2>1 DEF WaitEnds
    <3>2. pids \in Seq(Pid) /\ <<>> \in Seq(Pid)
      BY EmptySeq
    <3>3. Len(pids) > 1 => Tail(pids) \in Seq(Pid)
      BY <3>2, TailTyped
    <3> QED
      BY <3>1, <3>2, <3>3, Zenon
  <2>3. /\ pc' \in MainPc
        /\ back' \in {"check", "next", "wait", "over"}
        /\ state' \in JobState
    BY <2>1 DEF WaitEnds, Goto, JobState
  <2> QED
    <3>1. UNCHANGED <<table, foreground_pid, command, job_index, hole, hpc,
                      undercut>>
      BY <1>14 DEF WaitReturns
    <3> QED
      BY <2>2, <2>3, <3>1 DEF table
<1>15. CASE CommandOver
  BY <1>15 DEF CommandOver, At, Goto, childVars, table, locals
<1>16. CASE FgContinues
  BY <1>16 DEF FgContinues, Goto, table, locals
<1>17. CASE FgSetsForeground
  <2>1. jobs[job_index] \in Job /\ jobs[job_index].pid # 0
    BY <1>17 DEF FgSetsForeground, At, SlotInv, Choosing
  <2>2. jobs[job_index].pid \in Pid
    BY <2>1 DEF Job
  <2> QED
    BY <1>17, <2>2 DEF FgSetsForeground, Goto, locals, table
<1>18. CASE FgTakesJob
  <2>1. jobs[job_index] \in Job /\ jobs[job_index].pid # 0
    BY <1>18 DEF FgTakesJob, At, SlotInv, Choosing
  <2>2. <<jobs[job_index].pid>> \in Seq(Pid)
    BY <2>1 DEF Job
  <2> QED
    BY <1>18, <2>2 DEF FgTakesJob, Goto, EntersRemove, table
<1>19. CASE BgContinues
  BY <1>19 DEF BgContinues, Goto, table, locals
<1>20. CASE BgMarks
  <2>1. jobs' \in [Slot -> Job]
    <3>1. /\ jobs' = [jobs EXCEPT ![job_index].state = "RUNNING"]
          /\ "RUNNING" \in JobState
      BY <1>20 DEF BgMarks, JobState
    <3> HIDE DEF JobState
    <3> QED
      BY <3>1, SetsState
  <2> QED
    BY <1>20, <2>1 DEF BgMarks, Goto, locals
<1>21. CASE LogoutKills
  <2>1. job_index < job_count => job_index + 1 \in Slot
    BY ShellJobsAssumption DEF Slot
  <2> QED
    BY <1>21, <2>1 DEF LogoutKills, Goto, table, childVars
<1>22. CASE \E stages \in Stages, background \in BOOLEAN :
                ReadCommand(stages, background)
  BY <1>22 DEF ReadCommand, Goto, NextCommand, At, childVars, table, locals
<1>23. CASE ReadFg
  BY <1>23 DEF ReadFg, Goto, NextCommand, At, childVars, table, locals
<1>24. CASE ReadBg
  BY <1>24 DEF ReadBg, Goto, NextCommand, At, childVars, table, locals
<1>25. CASE ReadPing
  BY <1>25 DEF ReadPing, Goto, table, locals
<1>26. CASE ReadEof
  BY <1>26 DEF ReadEof, Goto, table, childVars, Slot
<1>27. CASE ReadExit
  BY <1>27 DEF ReadExit, Goto, table, locals
<1>28. CASE SigchldStarts
  BY <1>28 DEF SigchldStarts, Goto, table, locals
<1>29. CASE SigchldReaps
  <2>1. CASE UNCHANGED <<jobs, job_count>>
    BY <1>29, <2>1 DEF SigchldReaps, locals
  <2>2. CASE SlotsOf(NextReport) # {}
    <3>1. /\ FirstSlotOf(NextReport) \in 0 .. job_count - 1
          /\ FirstSlotOf(NextReport) \in Slot
      BY <2>2, FirstSlotListed
    <3>2. jobs' \in [Slot -> Job]
      <4>1. \/ jobs' = Without(FirstSlotOf(NextReport))
            \/ jobs' = [jobs EXCEPT ![FirstSlotOf(NextReport)].state =
                          "STOPPED"]
        BY <1>29, <2>2 DEF SigchldReaps, MarksStopped
      <4>2. [jobs EXCEPT ![FirstSlotOf(NextReport)].state = "STOPPED"]
              \in [Slot -> Job]
        BY <3>1, StopTyped
      <4>3. Without(FirstSlotOf(NextReport)) \in [Slot -> Job]
        BY <3>1, WithoutTyped
      <4> QED
        BY <4>1, <4>2, <4>3, Zenon
    <3>3. job_count' \in {job_count, job_count - 1} /\ job_count > 0
      BY <1>29, <2>2, <3>1 DEF SigchldReaps
    <3>4. job_count' \in -1 .. MaxNumber
      BY <3>3
    <3>5. /\ UNCHANGED <<pc, next_job_number, foreground_pid, locals, hpc>>
          /\ undercut' \in BOOLEAN
      <4>1. undercut' = (undercut \/ Undercuts(NextReport))
        BY <1>29 DEF SigchldReaps
      <4> QED
        BY <1>29, <4>1 DEF SigchldReaps, Undercuts
    <3> QED
      BY <3>2, <3>4, <3>5 DEF locals
  <2> QED
    BY <1>29, <2>1, <2>2 DEF SigchldReaps
<1>30. CASE SigchldEnds
  BY <1>30 DEF SigchldEnds, childVars, table, locals
<1>31. CASE Key
  BY <1>31 DEF Key, table, locals
<1>32. CASE Processes
  BY <1>32 DEF Processes, table, locals
<1>33. CASE UNCHANGED vars
  BY <1>33 DEF vars, childVars, table, locals
<1> QED
  BY <1>1, <1>2, <1>3, <1>4, <1>5, <1>6, <1>7, <1>8, <1>9, <1>10, <1>11,
     <1>12, <1>13, <1>14, <1>15, <1>16, <1>17, <1>18, <1>19, <1>20, <1>21,
     <1>22, <1>23, <1>24, <1>25, <1>26, <1>27, <1>28, <1>29, <1>30, <1>31,
     <1>32, <1>33 DEF Next, Main, Check, Add, Launch, FgBg, Read, Sigchld

(* What a step does to the children: one is forked, one is reported by a   *)
(* waitpid, or none is either.                                             *)
Calm ==
  /\ lead' = lead
  /\ \A p \in Pid :
       /\ (proc'[p] = "none") <=> (proc[p] = "none")
       /\ (proc'[p] = "gone") <=> (proc[p] = "gone")
       /\ proc'[p] = "halted" => proc[p] = "halted"

Tells(p) ==
  /\ lead' = lead /\ group' = group
  /\ proc[p] \in {"zombie", "stopped"}
  /\ proc'[p] = IF proc[p] = "zombie" THEN "gone" ELSE "halted"
  /\ \A q \in Pid : q # p => proc'[q] = proc[q]

(* kill forks nobody and reaps nobody.                                     *)
LEMMA KillCalm ==
  ASSUME ChildrenTypeOK, NEW targets, NEW sig, Kill(targets, sig)
  PROVE  Calm
<1>1. lead' = lead
  BY KillTyped
<1>2. ASSUME NEW p \in Pid
      PROVE  /\ proc[p] \in {"none", "zombie", "gone"} => proc'[p] = proc[p]
             /\ proc'[p] # proc[p] =>
                  proc'[p] \in Resumed \cup {"stopped"}
  BY KillTyped DEF Answers, ChildrenTypeOK, Resumed
<1> QED
  BY <1>1, <1>2 DEF Calm, Resumed

(* Every step is of one of these kinds.                                    *)
LEMMA KindsOfStep ==
  ASSUME Inv, [Next]_vars
  PROVE  \/ Calm
         \/ ForkStage
         \/ /\ CheckReaps \/ SigchldReaps
            /\ NextReport \in Pid /\ Tells(NextReport)
         \/ WaitReturns /\ Head(pids) \in Pid /\ Tells(Head(pids))
<1>. ChildrenTypeOK /\ TypeOK /\ ForkInv /\ PidsInv
  BY DEF Inv, TypeOK
<1>1. CASE NothingToReport
  BY <1>1 DEF NothingToReport, childVars, Calm
<1>2. CASE CheckReaps
  BY <1>2, ReportsAChild, ReportTyped DEF CheckReaps, Tells
<1>3. CASE FoundJob
  BY <1>3 DEF FoundJob, childVars, Calm
<1>4. CASE RemoveJob
  BY <1>4 DEF RemoveJob, childVars, Calm
<1>5. CASE AddPid
  BY <1>5 DEF AddPid, childVars, Calm, AddsTo
<1>6. CASE AddNumber
  BY <1>6 DEF AddNumber, childVars, Calm, AddsTo
<1>7. CASE AddState
  BY <1>7 DEF AddState, childVars, Calm, AddsTo
<1>8. CASE AddCount
  BY <1>8 DEF AddCount, childVars, Calm, AddsTo
<1>9. CASE LineOver
  BY <1>9 DEF LineOver, childVars, Calm
<1>10. CASE ForkStage
  BY <1>10
<1>11. CASE ForkStageFails
  BY <1>11 DEF ForkStageFails, childVars, Calm
<1>12. CASE SetForeground
  BY <1>12 DEF SetForeground, Calm
<1>13. CASE CallWait
  BY <1>13 DEF CallWait, childVars, Calm
<1>14. CASE WaitReturns
  <2>1. Head(pids) \in Pid
    BY <1>14, LastTyped DEF WaitReturns, At, PidsInv, Launching, Waiting,
       TypeOK
  <2>2. CASE Reported(Head(pids)) /\ Waitable(Head(pids), Untraced)
    <3>1. Waitable(Head(pids), TRUE)
      BY <2>2 DEF Waitable
    <3> QED
      BY <1>14, <2>1, <2>2, <3>1, ReportTyped DEF Tells
  <2>3. CASE UNCHANGED <<proc, lead>>
    BY <2>3 DEF Calm
  <2> QED
    BY <1>14, <2>2, <2>3 DEF WaitReturns
<1>15. CASE CommandOver
  BY <1>15 DEF CommandOver, childVars, Calm
<1>16. CASE FgContinues
  BY <1>16, KillCalm DEF FgContinues, childVars, Calm
<1>17. CASE FgSetsForeground
  BY <1>17 DEF FgSetsForeground, childVars, Calm
<1>18. CASE FgTakesJob
  BY <1>18 DEF FgTakesJob, childVars, Calm
<1>19. CASE BgContinues
  BY <1>19, KillCalm DEF BgContinues, childVars, Calm
<1>20. CASE BgMarks
  BY <1>20 DEF BgMarks, childVars, Calm
<1>21. CASE LogoutKills
  BY <1>21, KillCalm DEF LogoutKills, childVars, Calm
<1>22. CASE \E stages \in Stages, background \in BOOLEAN :
                ReadCommand(stages, background)
  BY <1>22 DEF ReadCommand, childVars, Calm
<1>23. CASE ReadFg
  BY <1>23 DEF ReadFg, childVars, Calm
<1>24. CASE ReadBg
  BY <1>24 DEF ReadBg, childVars, Calm
<1>25. CASE ReadPing
  BY <1>25, KillCalm DEF ReadPing, childVars, Calm
<1>26. CASE ReadEof
  BY <1>26 DEF ReadEof, childVars, Calm
<1>27. CASE ReadExit
  BY <1>27 DEF ReadExit, childVars, Calm
<1>28. CASE SigchldStarts
  BY <1>28 DEF SigchldStarts, Calm
<1>29. CASE SigchldReaps
  BY <1>29, ReportsAChild, ReportTyped DEF SigchldReaps, Tells
<1>30. CASE SigchldEnds
  BY <1>30 DEF SigchldEnds, childVars, Calm
<1>31. CASE Key
  BY <1>31, KillCalm DEF Key, childVars, Calm
<1>32. CASE Processes
  <2>1. PICK p \in Pid : ChildStarts(p) \/ ChildExits(p) \/ ChildStops(p)
    BY <1>32 DEF Processes
  <2>2. /\ lead' = lead /\ proc[p] \in {"new", "running"}
        /\ proc'[p] \in {"running", "stopped", "zombie"}
        /\ \A q \in Pid : q # p => proc'[q] = proc[q]
    BY <2>1 DEF ChildStarts, ChildExits, ChildStops, ChildrenTypeOK
  <2> QED
    BY <2>2 DEF Calm
<1>33. CASE UNCHANGED vars
  BY <1>33 DEF vars, childVars, Calm
<1> QED
  BY <1>1, <1>2, <1>3, <1>4, <1>5, <1>6, <1>7, <1>8, <1>9, <1>10, <1>11,
     <1>12, <1>13, <1>14, <1>15, <1>16, <1>17, <1>18, <1>19, <1>20, <1>21,
     <1>22, <1>23, <1>24, <1>25, <1>26, <1>27, <1>28, <1>29, <1>30, <1>31,
     <1>32, <1>33 DEF Next, Main, Check, Add, Launch, FgBg, Read, Sigchld

(* A process once forked is never forked again, and keeps its command.     *)
LEMMA NobodyVanishes ==
  ASSUME Inv, [Next]_vars
  PROVE  /\ OrderedPids'
         /\ \A p \in Forked : p \in Forked' /\ lead'[p] = lead[p]
<1>. ChildrenTypeOK /\ TypeOK /\ ForkInv
  BY DEF Inv, TypeOK
<1>1. CASE Calm \/ \E p \in Pid : Tells(p)
  <2>1. Forked' = Forked /\ lead' = lead
    BY <1>1 DEF Forked, Calm, Tells
  <2> QED
    BY <2>1 DEF ForkInv, OrderedPids
<1>2. CASE ForkStage
  <2>1. PICK p \in Pid, first \in Pid \cup {0} : Fork(p, first)
    BY <1>2, ForksOne
  <2>2. /\ p \notin Forked /\ Forked' = Forked \cup {p} /\ OrderedPids'
        /\ \A q \in Pid : q # p => lead'[q] = lead[q]
    BY <2>1, ForkIsNew DEF OrderedPids
  <2> QED
    BY <2>2 DEF Forked
<1> QED
  BY <1>1, <1>2, KindsOfStep

(* kill changes no process group.                                          *)
LEMMA KillKeepsGroups ==
  ASSUME ChildrenTypeOK, GroupInv, NEW targets, NEW sig, Kill(targets, sig)
  PROVE  GroupInv'
<1>1. group' = group /\ lead' = lead
  BY KillTyped
<1>2. ASSUME NEW p \in Pid
      PROVE  /\ (proc'[p] = "none") <=> (proc[p] = "none")
             /\ (Behind(p))' => Behind(p)
  <2>1. (proc'[p] = "none") <=> (proc[p] = "none")
    BY KillCalm DEF Calm
  <2>2. /\ proc[p] \in ProcState /\ resume[p] \in Resumed
        /\ \/ proc'[p] = proc[p] /\ resume'[p] = resume[p]
           \/ proc'[p] = Reaction(p, sig) /\ resume'[p] = Pends(p, sig)
    BY DEF Kill, ChildrenTypeOK
  <2>3. ASSUME (Behind(p))', ~Behind(p)
        PROVE  FALSE
    <3>1. CASE proc[p] = "new"
      <4>1. /\ Reaction(p, sig) \in {"new", "stopped", "zombie"}
            /\ Reaction(p, sig) = "stopped" => sig = "STOP"
        BY <3>1 DEF Reaction, Stopped
      <4>2. sig = "STOP" => Pends(p, sig) = "new"
        BY <3>1 DEF Pends
      <4> QED
        BY <2>2, <2>3, <3>1, <4>1, <4>2 DEF Behind, Stopped
    <3>2. CASE Stopped(p) /\ resume[p] = "new"
      <4>1. \/ Reaction(p, sig) \in {"new", "zombie"}
            \/ Reaction(p, sig) = proc[p] /\ sig \notin {"KILL", "CONT"}
        BY <3>2 DEF Reaction, Stopped, Alive
      <4>2. sig \notin {"KILL", "CONT"} => Pends(p, sig) = "new"
        BY <3>2 DEF Pends, Stopped
      <4> QED
        BY <2>2, <2>3, <3>2, <4>1, <4>2 DEF Behind, Stopped
    <3>3. CASE proc[p] \in {"none", "zombie", "gone"}
      BY <2>2, <2>3, <3>3 DEF Behind, Stopped, Reaction, Alive
    <3> QED
      BY <2>2, <2>3, <3>1, <3>2, <3>3 DEF ProcState, Behind, Stopped
  <2> QED
    BY <2>1, <2>3
<1> QED
  BY <1>1, <1>2 DEF GroupInv

(* Nor does waitpid.                                                       *)
LEMMA ReportKeepsGroups ==
  ASSUME ChildrenTypeOK, GroupInv, NEW p \in Pid, Waitable(p, TRUE),
         Reported(p)
  PROVE  GroupInv'
<1>1. /\ proc[p] \in {"zombie", "stopped"}
      /\ UNCHANGED <<resume, group, lead>>
      /\ proc'[p] = IF proc[p] = "zombie" THEN "gone" ELSE "halted"
      /\ \A q \in Pid : q # p => proc'[q] = proc[q]
  BY ReportTyped
<1>2. ASSUME NEW q \in Pid
      PROVE  /\ (proc'[q] = "none") <=> (proc[q] = "none")
             /\ (Behind(q))' => Behind(q)
  BY <1>1 DEF Behind, Stopped
<1> QED
  BY <1>1, <1>2 DEF GroupInv

(* GroupInv is inductive: setpgid by the child and by the shell agree.     *)
LEMMA GroupStep ==
  ASSUME Inv, [Next]_vars
  PROVE  GroupInv'
<1>. ChildrenTypeOK /\ TypeOK /\ ForkInv /\ PidsInv /\ GroupInv
  BY DEF Inv, TypeOK, ForkInv
<1> USE DEF GroupInv, Behind, Stopped
<1>1. CASE NothingToReport
  BY <1>1 DEF NothingToReport, childVars
<1>2. CASE CheckReaps
  BY <1>2, ReportsAChild, ReportKeepsGroups DEF CheckReaps
<1>3. CASE FoundJob
  BY <1>3 DEF FoundJob, childVars
<1>4. CASE RemoveJob
  BY <1>4 DEF RemoveJob, childVars
<1>5. CASE AddPid
  BY <1>5 DEF AddPid, childVars, AddsTo
<1>6. CASE AddNumber
  BY <1>6 DEF AddNumber, childVars, AddsTo
<1>7. CASE AddState
  BY <1>7 DEF AddState, childVars, AddsTo
<1>8. CASE AddCount
  BY <1>8 DEF AddCount, childVars, AddsTo
<1>9. CASE LineOver
  BY <1>9 DEF LineOver, childVars
<1>10. CASE ForkStage
  <2>1. PICK p \in Pid, first \in Pid \cup {0} : Fork(p, first)
    BY <1>10, ForksOne
  <2>2. /\ p \notin Forked /\ proc'[p] = "new"
        /\ group' = group /\ resume' = resume
        /\ \A q \in Pid : q # p => proc'[q] = proc[q] /\ lead'[q] = lead[q]
    BY <2>1, ForkIsNew
  <2> QED
    BY <2>2 DEF Forked
<1>11. CASE ForkStageFails
  BY <1>11 DEF ForkStageFails, childVars
<1>12. CASE SetForeground
  <2>1. Head(pids) \in Pid
    BY <1>12, LastTyped DEF SetForeground, At, PidsInv, Launching, TypeOK
  <2> QED
    BY <1>12, <2>1 DEF SetForeground, ChildrenTypeOK
<1>13. CASE CallWait
  BY <1>13 DEF CallWait, childVars
<1>14. CASE WaitReturns
  <2>1. Head(pids) \in Pid
    BY <1>14, LastTyped DEF WaitReturns, At, PidsInv, Launching, Waiting,
       TypeOK
  <2>2. CASE Reported(Head(pids)) /\ Waitable(Head(pids), Untraced)
    <3>1. Waitable(Head(pids), TRUE)
      BY <2>2 DEF Waitable
    <3> QED
      BY <2>1, <2>2, <3>1, ReportKeepsGroups
  <2>3. CASE UNCHANGED <<proc, resume, group, lead>>
    BY <2>3
  <2> QED
    BY <1>14, <2>2, <2>3 DEF WaitReturns
<1>15. CASE CommandOver
  BY <1>15 DEF CommandOver, childVars
<1>16. CASE FgContinues
  BY <1>16, KillKeepsGroups DEF FgContinues, childVars
<1>17. CASE FgSetsForeground
  BY <1>17 DEF FgSetsForeground, childVars
<1>18. CASE FgTakesJob
  BY <1>18 DEF FgTakesJob, childVars
<1>19. CASE BgContinues
  BY <1>19, KillKeepsGroups DEF BgContinues, childVars
<1>20. CASE BgMarks
  BY <1>20 DEF BgMarks, childVars
<1>21. CASE LogoutKills
  BY <1>21, KillKeepsGroups DEF LogoutKills, childVars
<1>22. CASE \E stages \in Stages, background \in BOOLEAN :
                ReadCommand(stages, background)
  BY <1>22 DEF ReadCommand, childVars
<1>23. CASE ReadFg
  BY <1>23 DEF ReadFg, childVars
<1>24. CASE ReadBg
  BY <1>24 DEF ReadBg, childVars
<1>25. CASE ReadPing
  BY <1>25, KillKeepsGroups DEF ReadPing, childVars
<1>26. CASE ReadEof
  BY <1>26 DEF ReadEof, childVars
<1>27. CASE ReadExit
  BY <1>27 DEF ReadExit, childVars
<1>28. CASE SigchldStarts
  BY <1>28 DEF SigchldStarts
<1>29. CASE SigchldReaps
  BY <1>29, ReportsAChild, ReportKeepsGroups DEF SigchldReaps
<1>30. CASE SigchldEnds
  BY <1>30 DEF SigchldEnds, childVars
<1>31. CASE Key
  BY <1>31, KillKeepsGroups DEF Key, childVars
<1>32. CASE Processes
  <2>1. PICK p \in Pid : ChildStarts(p) \/ ChildExits(p) \/ ChildStops(p)
    BY <1>32 DEF Processes
  <2>2. CASE ChildStarts(p)
    BY <2>2 DEF ChildStarts, ChildrenTypeOK
  <2>3. CASE ChildExits(p) \/ ChildStops(p)
    BY <2>3 DEF ChildExits, ChildStops, ChildrenTypeOK
  <2> QED
    BY <2>1, <2>2, <2>3
<1>33. CASE UNCHANGED vars
  BY <1>33 DEF vars, childVars, table, locals
<1> QED
  BY <1>1, <1>2, <1>3, <1>4, <1>5, <1>6, <1>7, <1>8, <1>9, <1>10, <1>11,
     <1>12, <1>13, <1>14, <1>15, <1>16, <1>17, <1>18, <1>19, <1>20, <1>21,
     <1>22, <1>23, <1>24, <1>25, <1>26, <1>27, <1>28, <1>29, <1>30, <1>31,
     <1>32, <1>33 DEF Next, Main, Check, Add, Launch, FgBg, Read, Sigchld

(* ForkedInv is inductive: only what was forked is listed or waited for.   *)
LEMMA ForkedStep ==
  ASSUME Inv, [Next]_vars
  PROVE  ForkedInv'
<1>. Inv /\ TypeOK /\ CountInv /\ PidsInv /\ SlotInv /\ ForkedInv /\ ForkInv
  BY DEF Inv, ForkInv
<1>. /\ ChildrenTypeOK /\ pids \in Seq(Pid) /\ jobs \in [Slot -> Job]
     /\ job_index \in Slot /\ hole \in Int /\ job_count \in Int
  BY UsedSlots, SlotsAreNat DEF TypeOK
<1>. \A p \in Forked : p \in Forked' /\ lead'[p] = lead[p]
  BY NobodyVanishes
<1> USE DEF PidsInv, ForkedInv
<1>1. CASE NothingToReport
  BY <1>1, EmptySeq DEF NothingToReport, LocalsGone, table
<1>2. CASE CheckReaps
  <2>1. NextReport \in Forked
    BY <1>2, ReportsAChild DEF CheckReaps, Waitable, Forked
  <2>2. \A i \in 1 .. Len(pids') : pids'[i] = NextReport \/ pids' = pids
    BY <1>2 DEF CheckReaps
  <2> QED
    BY <1>2, <2>1, <2>2 DEF CheckReaps, Goto, table
<1>3. CASE FoundJob
  <2>1. \A s \in Slot : jobs'[s].pid = jobs[s].pid
    <3>1. jobs' = jobs \/ jobs' = [jobs EXCEPT ![job_index].state = "STOPPED"]
      BY <1>3 DEF FoundJob, MarksStopped
    <3> QED
      BY <3>1, SetsState DEF JobState
  <2>2. pc' # "fork" /\ pids' = <<>>
    BY <1>3 DEF FoundJob, EntersRemove, Goto
  <2> QED
    BY <2>1, <2>2, EmptySeq
<1>4. CASE RemoveJob
  <2>1. CASE hole < job_count - 1 /\ Shift
    <3>1. hole + 1 \in Slot
      BY <2>1, UsedSlots, SlotsAreNat
    <3>2. \A s \in Slot : jobs'[s] = jobs[s] \/ jobs'[s] = jobs[hole + 1]
      BY <2>1 DEF Shift
    <3> QED
      BY <1>4, <2>1, <3>1, <3>2 DEF RemoveJob, Shift
  <2>2. CASE hole >= job_count - 1
    <3>1. pc' # "fork" /\ UNCHANGED <<jobs, pids>>
      BY <1>4, <2>2 DEF RemoveJob, At, Goto
    <3> QED
      BY <3>1
  <2> QED
    BY <1>4, <2>1, <2>2 DEF RemoveJob
<1>5. CASE AddPid
  <2>1. Last(pids) \in Forked /\ Last(pids) \in Pid
    BY <1>5, LastTyped DEF AddPid, At, Launching, Adding
  <2>2. \A s \in Slot : jobs'[s].pid \in {jobs[s].pid, Last(pids)}
    BY <1>5, <2>1, UsedSlots, SetsPid DEF AddPid
  <2> QED
    BY <1>5, <2>1, <2>2 DEF AddPid, AddsTo, Goto
<1>6. CASE AddNumber
  <2>1. job_count \in Slot /\ next_job_number \in 0 .. MaxNumber
    BY <1>6, UsedSlots DEF AddNumber, At, Filled
  <2>2. \A s \in Slot : jobs'[s].pid = jobs[s].pid
    BY <1>6, <2>1, SetsNumber DEF AddNumber, NextJobNumber
  <2> QED
    BY <1>6, <2>2 DEF AddNumber, AddsTo, Goto
<1>7. CASE AddState
  <2>1. \A s \in Slot : jobs'[s].pid = jobs[s].pid
    BY <1>7, UsedSlots, SetsState DEF AddState, At, Filled
  <2> QED
    BY <1>7, <2>1 DEF AddState, AddsTo, Goto
<1>8. CASE AddCount
  <2>1. pc' # "fork" /\ pids' = <<>> /\ jobs' = jobs
    BY <1>8 DEF AddCount, AddsTo, At, Goto, Adding
  <2> QED
    BY <2>1, EmptySeq
<1>9. CASE LineOver
  BY <1>9 DEF LineOver, Goto, At, table, locals
<1>10. CASE ForkStage
  <2>1. PICK p \in Pid, first \in Pid \cup {0} :
          /\ Fork(p, first) /\ pids' = Append(pids, p)
          /\ command.stages # 1 => first # 0
    BY <1>10, ForksOne
  <2>2. p \in Forked' /\ lead'[p] = first
    BY <2>1, ForkIsNew
  <2>3. /\ Len(pids') = Len(pids) + 1 /\ Len(pids) \in Nat
        /\ \A i \in 1 .. Len(pids) : pids'[i] = pids[i]
        /\ pids'[Len(pids) + 1] = p
    BY <2>1, AppendTyped
  <2>4. \A i \in 1 .. Len(pids') : pids'[i] \in Forked'
    BY <2>2, <2>3
  <2>5. pc' = "fork" => first # 0
    BY <1>10, <2>1, <2>3, StagesTyped DEF ForkStage, Goto, Launched
  <2>6. pc' = "fork" => \A i \in 1 .. Len(pids') : lead'[pids'[i]] # 0
    BY <1>10, <2>2, <2>3, <2>5 DEF ForkStage, At
  <2> QED
    BY <1>10, <2>4, <2>6 DEF ForkStage, table
<1>11. CASE ForkStageFails
  BY <1>11, EmptySeq DEF ForkStageFails, table
<1>12. CASE SetForeground
  BY <1>12 DEF SetForeground, Goto, At, table, locals
<1>13. CASE CallWait
  BY <1>13 DEF CallWait, Goto, At, table, locals
<1>14. CASE WaitReturns
  <2>1. PICK stopped \in BOOLEAN : WaitEnds(stopped)
    BY <1>14 DEF WaitReturns, Untraced
  <2>2. \A i \in 1 .. Len(pids') : pids'[i] \in Forked
    <3>1. CASE pids' = pids \/ pids' = <<>>
      BY <3>1, EmptySeq
    <3>2. CASE Len(pids) > 1 /\ pids' = Tail(pids)
      <4>1. /\ Len(pids') = Len(pids) - 1 /\ Len(pids) \in Nat
            /\ \A i \in 1 .. Len(pids) - 1 : pids'[i] = pids[i + 1]
        BY <3>2, TailTyped
      <4> QED
        BY <4>1
    <3> QED
      BY <2>1, <3>1, <3>2 DEF WaitEnds
  <2>3. pc' # "fork" /\ jobs' = jobs
    BY <1>14, <2>1 DEF WaitReturns, WaitEnds, Goto, table
  <2> QED
    BY <2>2, <2>3
<1>15. CASE CommandOver
  BY <1>15 DEF CommandOver, Goto, At, table, locals
<1>16. CASE FgContinues
  BY <1>16 DEF FgContinues, Goto, At, table, locals
<1>17. CASE FgSetsForeground
  BY <1>17 DEF FgSetsForeground, Goto, At, table, locals
<1>18. CASE FgTakesJob
  <2>1. jobs[job_index].pid \in Forked /\ pids' = <<jobs[job_index].pid>>
    BY <1>18 DEF FgTakesJob, At, SlotInv, Choosing
  <2>2. pc' # "fork" /\ jobs' = jobs
    BY <1>18 DEF FgTakesJob, EntersRemove, Goto, table
  <2> QED
    BY <2>1, <2>2
<1>19. CASE BgContinues
  BY <1>19 DEF BgContinues, Goto, At, table, locals
<1>20. CASE BgMarks
  <2>1. \A s \in Slot : jobs'[s].pid = jobs[s].pid
    BY <1>20, SetsState DEF BgMarks, JobState
  <2> QED
    BY <1>20, <2>1 DEF BgMarks, Goto, locals
<1>21. CASE LogoutKills
  BY <1>21 DEF LogoutKills, Goto, At, table, locals
<1>22. CASE \E stages \in Stages, background \in BOOLEAN :
                ReadCommand(stages, background)
  BY <1>22, EmptySeq DEF ReadCommand, table
<1>23. CASE ReadFg
  BY <1>23 DEF ReadFg, Goto, table
<1>24. CASE ReadBg
  BY <1>24 DEF ReadBg, Goto, At, table, locals
<1>25. CASE ReadPing
  BY <1>25 DEF ReadPing, Goto, At, table, locals
<1>26. CASE ReadEof
  BY <1>26 DEF ReadEof, Goto, At, table, locals
<1>27. CASE ReadExit
  BY <1>27 DEF ReadExit, Goto, At, table, locals
<1>28. CASE SigchldStarts
  BY <1>28 DEF SigchldStarts, Goto, table, locals
<1>29. CASE SigchldReaps
  <2>1. ASSUME NEW s \in Slot
        PROVE  jobs'[s].pid # 0 => jobs'[s].pid \in Forked
    <3>1. CASE jobs' = jobs
      BY <3>1
    <3>2. CASE SlotsOf(NextReport) # {}
      <4> DEFINE k == FirstSlotOf(NextReport)
      <4>1. k \in 0 .. job_count - 1 /\ k \in Slot
        BY <3>2, FirstSlotListed
      <4>2. CASE jobs' = Without(k)
        <5> HIDE DEF k
        <5>1. jobs'[s] = jobs[s] \/ (s + 1 \in Slot /\ jobs'[s] = jobs[s + 1])
          BY <4>1, <4>2, WithoutTyped, UsedSlots, SlotsAreNat
        <5> QED
          BY <5>1
      <4>3. CASE jobs' = MarksStopped(k)
        BY <4>1, <4>3, SetsState DEF MarksStopped, JobState
      <4> QED
        BY <1>29, <3>2, <4>2, <4>3 DEF SigchldReaps
    <3> QED
      BY <1>29, <3>1, <3>2 DEF SigchldReaps
  <2>2. pc' = pc /\ pids' = pids
    BY <1>29 DEF SigchldReaps, locals
  <2> QED
    BY <2>1, <2>2
<1>30. CASE SigchldEnds
  BY <1>30 DEF SigchldEnds, Goto, At, table, locals
<1>31. CASE Key
  BY <1>31 DEF Key, table, locals
<1>32. CASE Processes
  BY <1>32 DEF Processes, table, locals
<1>33. CASE UNCHANGED vars
  BY <1>33 DEF vars, childVars, table, locals
<1> QED
  BY <1>1, <1>2, <1>3, <1>4, <1>5, <1>6, <1>7, <1>8, <1>9, <1>10, <1>11,
     <1>12, <1>13, <1>14, <1>15, <1>16, <1>17, <1>18, <1>19, <1>20, <1>21,
     <1>22, <1>23, <1>24, <1>25, <1>26, <1>27, <1>28, <1>29, <1>30, <1>31,
     <1>32, <1>33 DEF Next, Main, Check, Add, Launch, FgBg, Read, Sigchld

(* The first half of the invariant is inductive.                           *)
LEMMA InvStep ==
  ASSUME Inv, [Next]_vars
  PROVE  Inv'
<1>1. ForkInv'
  BY NobodyVanishes, GroupStep, ForkedStep DEF ForkInv
<1> QED
  BY <1>1, TypeStep, CountStep, PidsStep, SlotStep DEF Inv

(* A handler that does not undercut the main program comes while it is at  *)
(* none of the statements that use a slot, and reports another child than  *)
(* the one it deals with.                                                  *)
LEMMA ReapsApart ==
  ASSUME SigchldReaps, ~undercut'
  PROVE  /\ pc \notin {"found", "remove", "addnumber", "addstate", "addcount",
                       "fgcont", "fgpid", "fgtake", "bgcont", "bgmark",
                       "logout"}
         /\ pids # <<>> => NextReport # Last(pids)
         /\ ~undercut
         /\ UNCHANGED <<pc, pids, back, command, foreground_pid, state,
                       next_job_number, job_index, hole>>
  BY DEF SigchldReaps, Undercuts, locals

(* UsedInv stays true until a handler undercuts the main program.          *)
LEMMA UsedStep ==
  ASSUME Inv, UsedInv, ~undercut', [Next]_vars
  PROVE  UsedInv'
<1>. /\ TypeOK /\ CountInv /\ PidsInv
     /\ job_count \in Int /\ hole \in Nat /\ job_index \in Nat
  BY UsedSlots, SlotsAreNat DEF Inv
<1> USE DEF UsedInv, Choosing
<1>1. CASE NothingToReport
  BY <1>1 DEF NothingToReport, Goto, At, table, locals
<1>2. CASE CheckReaps
  <2>1. CASE SlotsOf(NextReport) = {}
    BY <1>2, <2>1 DEF CheckReaps, At, Goto, table
  <2>2. CASE SlotsOf(NextReport) # {}
    <3>1. /\ FirstSlotOf(NextReport) < job_count
          /\ jobs[FirstSlotOf(NextReport)].pid = NextReport
      BY <2>2, FirstSlotListed
    <3> QED
      BY <1>2, <2>2, <3>1 DEF CheckReaps, Goto, table
  <2> QED
    BY <2>1, <2>2
<1>3. CASE FoundJob
  <2>1. /\ pc' \in {"check", "remove"}
        /\ job_count' = job_count
        /\ (pc' = "remove" => hole' < job_count)
    BY <1>3 DEF FoundJob, EntersRemove, Goto
  <2> QED
    BY <2>1
<1>4. CASE RemoveJob
  <2>1. pc = "remove" /\ back \in {"check", "wait"}
    BY <1>4 DEF RemoveJob, At, PidsInv
  <2> QED
    BY <1>4, <2>1 DEF RemoveJob, Shift, Goto
<1>5. CASE AddPid
  BY <1>5 DEF AddPid, AddsTo, Goto
<1>6. CASE AddNumber
  BY <1>6 DEF AddNumber, AddsTo, Goto
<1>7. CASE AddState
  BY <1>7 DEF AddState, AddsTo, Goto
<1>8. CASE AddCount
  <2>1. pc' \in {"next", "over"} /\ job_count' = job_count + 1
    BY <1>8 DEF AddCount, AddsTo, At, Goto, Adding, PidsInv
  <2> QED
    BY <2>1
<1>9. CASE LineOver
  BY <1>9 DEF LineOver, Goto, At, table, locals
<1>10. CASE ForkStage
  BY <1>10 DEF ForkStage, Goto, Launched, table
<1>11. CASE ForkStageFails
  BY <1>11 DEF ForkStageFails, Goto, At, table, locals
<1>12. CASE SetForeground
  BY <1>12 DEF SetForeground, Goto, At, table, locals
<1>13. CASE CallWait
  BY <1>13 DEF CallWait, Goto, At, table, locals
<1>14. CASE WaitReturns
  <2>1. pc' \in {"addpid", "wait", "over"} /\ job_count' = job_count
    BY <1>14 DEF WaitReturns, WaitEnds, Goto, table
  <2> QED
    BY <2>1
<1>15. CASE CommandOver
  BY <1>15 DEF CommandOver, Goto, At, table, locals
<1>16. CASE FgContinues
  BY <1>16 DEF FgContinues, Goto, At, table, locals
<1>17. CASE FgSetsForeground
  BY <1>17 DEF FgSetsForeground, Goto, At, table, locals
<1>18. CASE FgTakesJob
  <2>1. /\ pc' \in {"wait", "remove"}
        /\ job_count' = job_count
        /\ (pc' = "remove" => hole' < job_count)
    BY <1>18 DEF FgTakesJob, EntersRemove, Goto, table
  <2> QED
    BY <2>1
<1>19. CASE BgContinues
  BY <1>19 DEF BgContinues, Goto, At, table, locals
<1>20. CASE BgMarks
  BY <1>20 DEF BgMarks, Goto, locals
<1>21. CASE LogoutKills
  BY <1>21 DEF LogoutKills, Goto, At, table, locals
<1>22. CASE \E stages \in Stages, background \in BOOLEAN :
                ReadCommand(stages, background)
  BY <1>22 DEF ReadCommand, Goto, At, table, locals
<1>23. CASE ReadFg
  <2>1. \/ Goto("corrupted")
        \/ \E k \in Slot : Goto("fgcont") /\ job_index' = k /\ k < job_count
    BY <1>23, SlotsAreNat DEF ReadFg, Chosen
  <2> QED
    BY <1>23, <2>1 DEF ReadFg, table, Goto
<1>24. CASE ReadBg
  <2>1. pc' = "bgcont" /\ job_index' < job_count
    BY <1>24 DEF ReadBg, Chosen, LastStopped, Goto
  <2> QED
    BY <1>24, <2>1 DEF ReadBg, table
<1>25. CASE ReadPing
  BY <1>25 DEF ReadPing, Goto, At, table, locals
<1>26. CASE ReadEof
  BY <1>26 DEF ReadEof, Goto, At, table, locals
<1>27. CASE ReadExit
  BY <1>27 DEF ReadExit, Goto, At, table, locals
<1>28. CASE SigchldStarts
  BY <1>28 DEF SigchldStarts, Goto, table, locals
<1>29. CASE SigchldReaps
  <2>1. SlotsOf(NextReport) # {} => job_count > 0
    BY FirstSlotListed
  <2>2. job_count' \in {job_count, job_count - 1} /\ job_count' >= 0
    BY <1>29, <2>1 DEF SigchldReaps
  <2> QED
    BY <1>29, <2>2, ReapsApart
<1>30. CASE SigchldEnds
  BY <1>30 DEF SigchldEnds, Goto, At, table, locals
<1>31. CASE Key
  BY <1>31 DEF Key, table, locals
<1>32. CASE Processes
  BY <1>32 DEF Processes, table, locals
<1>33. CASE UNCHANGED vars
  BY <1>33 DEF vars, childVars, table, locals
<1> QED
  BY <1>1, <1>2, <1>3, <1>4, <1>5, <1>6, <1>7, <1>8, <1>9, <1>10, <1>11,
     <1>12, <1>13, <1>14, <1>15, <1>16, <1>17, <1>18, <1>19, <1>20, <1>21,
     <1>22, <1>23, <1>24, <1>25, <1>26, <1>27, <1>28, <1>29, <1>30, <1>31,
     <1>32, <1>33 DEF Next, Main, Check, Add, Launch, FgBg, Read, Sigchld

(* What a step does to the jobs that are kept: each that is listed after   *)
(* it has been listed before, in the same order.                           *)
SameJob(r, s) ==
  /\ jobs'[r].pid = jobs[s].pid
  /\ jobs'[r].job_number = jobs[s].job_number
  /\ \/ jobs'[r].state \in {jobs[s].state, "STOPPED"}
     \/ pc = "bgmark" /\ s = job_index

Dropped(s) ==
  proc'[jobs[s].pid] = "gone" \/ (FgTakesJob /\ s = job_index)

Carried ==
  \E m \in [Slot -> Slot] :
    /\ \A s \in Kept' : m[s] \in Kept /\ SameJob(s, m[s])
    /\ \A r, s \in Kept' : r < s => m[r] < m[s]
    /\ \A t \in Kept : Dropped(t) \/ \E s \in Kept' : m[s] = t

(* The slots that are kept are slots in use.                               *)
LEMMA KeptSlots ==
  ASSUME Inv
  PROVE  /\ \A s \in Kept : s \in Slot /\ s \in Nat /\ s < job_count
         /\ Kept = {s \in Slot : s < job_count /\ (pc = "remove" => s # hole)}
<1>. TypeOK /\ CountInv
  BY DEF Inv
<1>1. /\ \A s \in 0 .. job_count - 1 : s \in Slot
      /\ job_count \in Int
  BY UsedSlots
<1> QED
  BY <1>1, SlotsAreNat DEF Kept

(* A step that moves no job carries the jobs.                              *)
LEMMA StaysCarried ==
  ASSUME Inv, Kept' \subseteq Kept, \A s \in Kept' : SameJob(s, s),
         \A s \in Kept \ Kept' : Dropped(s)
  PROVE  Carried
<1> DEFINE m == [s \in Slot |-> s]
<1>1. m \in [Slot -> Slot]
  OBVIOUS
<1>2. \A s \in Kept : m[s] = s
  BY KeptSlots
<1> HIDE DEF m
<1> QED
  BY <1>1, <1>2 DEF Carried

(* Every step carries the jobs, except the one that lists a new one:       *)
(* remove_job's loop, half way through or in the handler, neither loses a  *)
(* job nor doubles it, nor changes the order.                              *)
LEMMA CarriedStep ==
  ASSUME Inv, UsedInv, StatusInv, ~undercut', [Next]_vars
  PROVE  Carried \/ AddCount
<1>. /\ TypeOK /\ ChildrenTypeOK /\ CountInv /\ PidsInv
     /\ jobs \in [Slot -> Job]
     /\ job_index \in Slot
     /\ job_count \in Int /\ hole \in Nat /\ hole \in Slot
  BY UsedSlots, SlotsAreNat DEF Inv, TypeOK
<1>1. CASE NothingToReport
  <2>1. Kept' = Kept /\ jobs' = jobs
    BY <1>1 DEF NothingToReport, At, Goto, table, locals, Kept
  <2> QED
    BY <2>1, StaysCarried DEF SameJob
<1>2. CASE CheckReaps
  <2>1. Kept' = Kept /\ jobs' = jobs
    BY <1>2 DEF CheckReaps, At, Goto, table, Kept
  <2> QED
    BY <2>1, StaysCarried DEF SameJob
<1>3. CASE FoundJob
  <2>1. /\ pc = "found" /\ job_index < job_count
        /\ UNCHANGED <<proc, job_count>>
        /\ jobs[job_index].pid = pids[1]
        /\ state = "RUNNING" => proc[pids[1]] = "gone"
    BY <1>3 DEF FoundJob, At, UsedInv, StatusInv, childVars
  <2>2. CASE state = "RUNNING"
    <3>1. jobs' = jobs /\ Kept' = Kept \ {job_index}
      BY <1>3, <2>1, <2>2 DEF FoundJob, EntersRemove, Goto, Kept
    <3>2. Dropped(job_index)
      BY <2>1, <2>2 DEF Dropped
    <3> QED
      BY <3>1, <3>2, StaysCarried DEF SameJob
  <2>3. CASE state = "STOPPED"
    <3>1. Kept' = Kept
      BY <1>3, <2>1, <2>3 DEF FoundJob, Goto, Kept
    <3>2. \A s \in Slot : SameJob(s, s)
      BY <1>3, <2>3, SetsState DEF FoundJob, MarksStopped, JobState, SameJob
    <3> QED
      BY <3>1, <3>2, StaysCarried, KeptSlots
  <2> QED
    BY <1>3, <2>2, <2>3 DEF FoundJob
<1>4. CASE RemoveJob
  <2>1. CASE hole < job_count - 1 /\ Shift
    <3> DEFINE m == [s \in Slot |-> IF s = hole THEN hole + 1 ELSE s]
    <3>1. hole + 1 \in Slot
      BY <2>1, UsedSlots
    <3>2. \A s \in Slot : jobs'[s] =
            IF s = hole THEN jobs[hole + 1] ELSE jobs[s]
      BY <2>1 DEF Shift
    <3>3. /\ Kept = 0 .. job_count - 1 \ {hole}
          /\ Kept' = 0 .. job_count - 1 \ {hole + 1}
      BY <1>4, <2>1 DEF RemoveJob, Shift, At, Kept
    <3>4. m \in [Slot -> Slot] /\ \A s \in Slot : m[s] =
            IF s = hole THEN hole + 1 ELSE s
      BY <3>1
    <3>5. \A s \in 0 .. job_count - 1 : s \in Slot
      BY UsedSlots
    <3> HIDE DEF m
    <3>6. \A s \in Kept' : m[s] \in Kept /\ SameJob(s, m[s])
      BY <2>1, <3>1, <3>2, <3>3, <3>4, <3>5 DEF SameJob
    <3>7. \A r, s \in Kept' : r < s => m[r] < m[s]
      BY <2>1, <3>3, <3>4, <3>5
    <3>8. \A t \in Kept : \E s \in Kept' : m[s] = t
      <4> TAKE t \in Kept
      <4>1. CASE t = hole + 1
        <5>1. hole \in Kept' /\ m[hole] = t
          BY <2>1, <3>3, <3>4, <4>1
        <5> QED
          BY <5>1
      <4>2. CASE t # hole + 1
        <5>1. t \in Kept' /\ m[t] = t
          BY <2>1, <3>3, <3>4, <3>5, <4>2
        <5> QED
          BY <5>1
      <4> QED
        BY <4>1, <4>2
    <3> QED
      BY <3>4, <3>6, <3>7, <3>8 DEF Carried
  <2>2. CASE hole >= job_count - 1
    <3>1. Kept' = Kept /\ jobs' = jobs
      BY <1>4, <2>2 DEF RemoveJob, At, Goto, Kept, UsedInv, PidsInv
    <3> QED
      BY <3>1, StaysCarried DEF SameJob
  <2> QED
    BY <1>4, <2>1, <2>2 DEF RemoveJob
<1>5. CASE AddPid
  <2>1. Kept' = Kept /\ \A s \in Kept : s # job_count
    BY <1>5 DEF AddPid, AddsTo, At, Goto, Kept
  <2>2. Last(pids) \in Pid \cup {0}
    BY <1>5, LastTyped DEF AddPid, At, PidsInv, Launching, Adding, TypeOK
  <2>3. \A s \in Kept : SameJob(s, s)
    BY <1>5, <2>1, <2>2, KeptSlots, SetsPid, UsedSlots DEF AddPid, SameJob
  <2> QED
    BY <2>1, <2>3, StaysCarried
<1>6. CASE AddNumber
  <2>1. Kept' = Kept /\ \A s \in Kept : s # job_count
    BY <1>6 DEF AddNumber, AddsTo, At, Goto, Kept
  <2>2. next_job_number \in 0 .. MaxNumber
    BY <1>6, UsedSlots DEF AddNumber, At
  <2>3. \A s \in Kept : SameJob(s, s)
    BY <1>6, <2>1, <2>2, KeptSlots, SetsNumber, UsedSlots
       DEF AddNumber, NextJobNumber, At, Filled, SameJob
  <2> QED
    BY <2>1, <2>3, StaysCarried
<1>7. CASE AddState
  <2>1. Kept' = Kept
    BY <1>7 DEF AddState, AddsTo, At, Goto, Kept
  <2>2. \A s \in Kept : SameJob(s, s)
    BY <1>7, KeptSlots, SetsState, UsedSlots DEF AddState, At, Filled, SameJob
  <2> QED
    BY <2>1, <2>2, StaysCarried
<1>8. CASE AddCount
  BY <1>8
<1>9. CASE LineOver
  <2>1. Kept' = Kept /\ jobs' = jobs
    BY <1>9 DEF LineOver, At, Goto, table, locals, Kept
  <2> QED
    BY <2>1, StaysCarried DEF SameJob
<1>10. CASE ForkStage
  <2>1. Kept' = Kept /\ jobs' = jobs
    BY <1>10 DEF ForkStage, Launched, At, Goto, table, Kept
  <2> QED
    BY <2>1, StaysCarried DEF SameJob
<1>11. CASE ForkStageFails
  <2>1. Kept' = Kept /\ jobs' = jobs
    BY <1>11 DEF ForkStageFails, At, Goto, table, locals, Kept
  <2> QED
    BY <2>1, StaysCarried DEF SameJob
<1>12. CASE SetForeground
  <2>1. Kept' = Kept /\ jobs' = jobs
    BY <1>12 DEF SetForeground, At, Goto, table, locals, Kept
  <2> QED
    BY <2>1, StaysCarried DEF SameJob
<1>13. CASE CallWait
  <2>1. Kept' = Kept /\ jobs' = jobs
    BY <1>13 DEF CallWait, At, Goto, table, locals, Kept
  <2> QED
    BY <2>1, StaysCarried DEF SameJob
<1>14. CASE WaitReturns
  <2>1. Kept' = Kept /\ jobs' = jobs
    BY <1>14 DEF WaitReturns, WaitEnds, At, Goto, table, Kept
  <2> QED
    BY <2>1, StaysCarried DEF SameJob
<1>15. CASE CommandOver
  <2>1. Kept' = Kept /\ jobs' = jobs
    BY <1>15 DEF CommandOver, At, Goto, table, locals, Kept
  <2> QED
    BY <2>1, StaysCarried DEF SameJob
<1>16. CASE FgContinues
  <2>1. Kept' = Kept /\ jobs' = jobs
    BY <1>16 DEF FgContinues, At, Goto, table, locals, Kept
  <2> QED
    BY <2>1, StaysCarried DEF SameJob
<1>17. CASE FgSetsForeground
  <2>1. Kept' = Kept /\ jobs' = jobs
    BY <1>17 DEF FgSetsForeground, At, Goto, table, locals, Kept
  <2> QED
    BY <2>1, StaysCarried DEF SameJob
<1>18. CASE FgTakesJob
  <2>1. jobs' = jobs /\ pc = "fgtake" /\ job_count' = job_count
    BY <1>18 DEF FgTakesJob, At, table
  <2>2. Kept' = Kept \ {job_index}
    BY <1>18, <2>1 DEF FgTakesJob, EntersRemove, Goto, Kept, UsedInv, Choosing
  <2> QED
    BY <1>18, <2>1, <2>2, StaysCarried DEF SameJob, Dropped
<1>19. CASE BgContinues
  <2>1. Kept' = Kept /\ jobs' = jobs
    BY <1>19 DEF BgContinues, At, Goto, table, locals, Kept
  <2> QED
    BY <2>1, StaysCarried DEF SameJob
<1>20. CASE BgMarks
  <2>1. Kept' = Kept
    BY <1>20 DEF BgMarks, At, Goto, Kept
  <2>2. \A s \in Kept : SameJob(s, s)
    BY <1>20, KeptSlots, SetsState DEF BgMarks, At, SameJob, JobState
  <2> QED
    BY <2>1, <2>2, StaysCarried
<1>21. CASE LogoutKills
  <2>1. Kept' = Kept /\ jobs' = jobs
    BY <1>21 DEF LogoutKills, At, Goto, table, locals, Kept
  <2> QED
    BY <2>1, StaysCarried DEF SameJob
<1>22. CASE \E stages \in Stages, background \in BOOLEAN :
                ReadCommand(stages, background)
  <2>1. Kept' = Kept /\ jobs' = jobs
    BY <1>22 DEF ReadCommand, At, Goto, table, locals, NextCommand, Kept
  <2> QED
    BY <2>1, StaysCarried DEF SameJob
<1>23. CASE ReadFg
  <2>1. Kept' = Kept /\ jobs' = jobs
    BY <1>23 DEF ReadFg, At, Goto, table, locals, NextCommand, Kept
  <2> QED
    BY <2>1, StaysCarried DEF SameJob
<1>24. CASE ReadBg
  <2>1. Kept' = Kept /\ jobs' = jobs
    BY <1>24 DEF ReadBg, At, Goto, table, locals, NextCommand, Kept
  <2> QED
    BY <2>1, StaysCarried DEF SameJob
<1>25. CASE ReadPing
  <2>1. Kept' = Kept /\ jobs' = jobs
    BY <1>25 DEF ReadPing, At, Goto, table, locals, NextCommand, Kept
  <2> QED
    BY <2>1, StaysCarried DEF SameJob
<1>26. CASE ReadEof
  <2>1. Kept' = Kept /\ jobs' = jobs
    BY <1>26 DEF ReadEof, At, Goto, table, locals, NextCommand, Kept
  <2> QED
    BY <2>1, StaysCarried DEF SameJob
<1>27. CASE ReadExit
  <2>1. Kept' = Kept /\ jobs' = jobs
    BY <1>27 DEF ReadExit, At, Goto, table, locals, NextCommand, Kept
  <2> QED
    BY <2>1, StaysCarried DEF SameJob
<1>28. CASE SigchldStarts
  <2>1. Kept' = Kept /\ jobs' = jobs
    BY <1>28 DEF SigchldStarts, Goto, table, locals, Kept
  <2> QED
    BY <2>1, StaysCarried DEF SameJob
<1>29. CASE SigchldReaps
  <2>1. pc # "remove" /\ pc' = pc
    BY <1>29, ReapsApart
  <2>2. CASE UNCHANGED <<jobs, job_count>>
    <3>1. Kept' = Kept
      BY <2>1, <2>2 DEF Kept
    <3> QED
      BY <2>2, <3>1, StaysCarried DEF SameJob
  <2>3. CASE SlotsOf(NextReport) # {}
    <3> DEFINE k == FirstSlotOf(NextReport)
    <3>1. k \in 0 .. job_count - 1 /\ k \in Slot
      BY <2>3, FirstSlotListed
    <3>2. jobs[k].pid = NextReport
      BY <2>3, FirstSlotListed
    <3>3. proc[NextReport] = "zombie" => proc'[NextReport] = "gone"
      BY <1>29, ReportsAChild, ReportTyped DEF SigchldReaps
    <3>4. CASE /\ jobs' = Without(k) /\ job_count' = job_count - 1
               /\ proc[NextReport] = "zombie"
      <4> DEFINE m == [s \in Slot |->
                        IF s \in k .. job_count - 2 THEN s + 1 ELSE s]
      <4>1. \A s \in Slot :
              jobs'[s] =
                IF s \in k .. job_count - 2 THEN jobs[s + 1] ELSE jobs[s]
        BY <3>1, <3>4, WithoutTyped
      <4>2. Kept = 0 .. job_count - 1 /\ Kept' = 0 .. job_count - 2
        BY <2>1, <3>4 DEF Kept
      <4> HIDE DEF k
      <4>3. \A s \in 0 .. job_count - 1 : s \in Slot
        BY UsedSlots
      <4>4. /\ m \in [Slot -> Slot]
            /\ \A s \in Slot : m[s] =
                 IF s \in k .. job_count - 2 THEN s + 1 ELSE s
        <5>1. \A s \in k .. job_count - 2 : s + 1 \in Slot
          BY <3>1, <4>3
        <5> QED
          BY <5>1
      <4> HIDE DEF m
      <4>5. \A s \in Kept' : m[s] \in Kept /\ SameJob(s, m[s])
        BY <3>1, <4>1, <4>2, <4>3, <4>4 DEF SameJob
      <4>6. \A r, s \in Kept' : r < s => m[r] < m[s]
        BY <3>1, <4>2, <4>3, <4>4
      <4>7. \A t \in Kept : t = k \/ \E s \in Kept' : m[s] = t
        <5> TAKE t \in Kept
        <5>1. CASE t > k
          <6>1. t - 1 \in Kept' /\ t - 1 \in Slot /\ m[t - 1] = t
            BY <3>1, <4>2, <4>3, <4>4, <5>1
          <6> QED
            BY <6>1
        <5>2. CASE t < k
          <6>1. t \in Kept' /\ t \in Slot /\ m[t] = t
            BY <3>1, <4>2, <4>3, <4>4, <5>2
          <6> QED
            BY <6>1
        <5> QED
          BY <3>1, <4>2, <5>1, <5>2
      <4> QED
        BY <3>2, <3>3, <3>4, <4>4, <4>5, <4>6, <4>7 DEF Carried, Dropped
    <3>5. CASE jobs' = MarksStopped(k) /\ UNCHANGED job_count
      <4>1. Kept' = Kept
        BY <2>1, <3>5 DEF Kept
      <4>2. \A s \in Slot : SameJob(s, s)
        BY <3>1, <3>5, SetsState DEF MarksStopped, SameJob, JobState
      <4> HIDE DEF k
      <4> QED
        BY <4>1, <4>2, KeptSlots, StaysCarried
    <3> QED
      BY <1>29, <2>3, <3>4, <3>5 DEF SigchldReaps
  <2> QED
    BY <1>29, <2>2, <2>3 DEF SigchldReaps
<1>30. CASE SigchldEnds
  <2>1. Kept' = Kept /\ jobs' = jobs
    BY <1>30 DEF SigchldEnds, At, Goto, table, locals, Kept
  <2> QED
    BY <2>1, StaysCarried DEF SameJob
<1>31. CASE Key
  <2>1. Kept' = Kept /\ jobs' = jobs
    BY <1>31 DEF Key, table, locals, Kept
  <2> QED
    BY <2>1, StaysCarried DEF SameJob
<1>32. CASE Processes
  <2>1. Kept' = Kept /\ jobs' = jobs
    BY <1>32 DEF Processes, table, locals, Kept
  <2> QED
    BY <2>1, StaysCarried DEF SameJob
<1>33. CASE UNCHANGED vars
  <2>1. Kept' = Kept /\ jobs' = jobs
    BY <1>33 DEF vars, table, locals, Kept
  <2> QED
    BY <2>1, StaysCarried DEF SameJob
<1> QED
  BY <1>1, <1>2, <1>3, <1>4, <1>5, <1>6, <1>7, <1>8, <1>9, <1>10, <1>11,
     <1>12, <1>13, <1>14, <1>15, <1>16, <1>17, <1>18, <1>19, <1>20, <1>21,
     <1>22, <1>23, <1>24, <1>25, <1>26, <1>27, <1>28, <1>29, <1>30, <1>31,
     <1>32, <1>33 DEF Next, Main, Check, Add, Launch, FgBg, Read, Sigchld

(* What a step must have been, from where the main program is behind it.   *)
LEMMA StepKinds ==
  ASSUME Inv, ~undercut', [Next]_vars
  PROVE  /\ next_job_number' >= next_job_number
         /\ Filled' => \/ AddPid \/ AddNumber \/ AddState
                       \/ pc' = pc /\ UNCHANGED <<table, pids>>
         /\ Launching' => \/ Launching /\ pids' = pids
                          \/ pids' = <<>>
                          \/ ForkStage \/ WaitReturns \/ FgTakesJob
         /\ Adding /\ Launching' =>
              Adding' /\ UNCHANGED <<state, pids, back, foreground_pid>>
         /\ pc = "found" \/ pc' = "found" =>
              \/ CheckReaps \/ FoundJob
              \/ UNCHANGED <<pc, table, job_index, pids, state>>
         /\ pc' \in {"fgpid", "fgtake", "bgmark"} =>
              \/ FgContinues \/ FgSetsForeground \/ BgContinues
              \/ UNCHANGED <<pc, table, job_index, foreground_pid>>
<1>. TypeOK /\ PidsInv /\ next_job_number \in Int
  BY UsedSlots DEF Inv
<1> USE DEF PidsInv, table, Filled, Launching, Adding, Waiting, Taking
<1>1. CASE NothingToReport
  BY <1>1 DEF NothingToReport, At, Goto, LocalsGone, childVars, table,
     locals
<1>2. CASE CheckReaps
  BY <1>2 DEF CheckReaps, Goto, table
<1>3. CASE FoundJob
  BY <1>3 DEF FoundJob, EntersRemove, Goto
<1>4. CASE RemoveJob
  BY <1>4 DEF RemoveJob, At, Goto, Shift, childVars
<1>5. CASE AddPid
  BY <1>5 DEF AddPid, AddsTo, At, Goto
<1>6. CASE AddNumber
  BY <1>6 DEF AddNumber, At, AddsTo, Goto, childVars, NextJobNumber
<1>7. CASE AddState
  BY <1>7 DEF AddState, At, AddsTo, Goto, childVars
<1>8. CASE AddCount
  <2>1. pc = "addcount" /\ pc' \in {"next", "over"}
    BY <1>8 DEF AddCount, AddsTo, At, Goto, Adding
  <2> QED
    BY <1>8, <2>1 DEF AddCount
<1>9. CASE LineOver
  BY <1>9 DEF LineOver, At, Goto, childVars, table, locals
<1>10. CASE ForkStage
  BY <1>10 DEF ForkStage, At, Goto, Launched
<1>11. CASE ForkStageFails
  BY <1>11 DEF ForkStageFails, At, Goto, childVars, table, locals
<1>12. CASE SetForeground
  BY <1>12 DEF SetForeground, At, Goto, table, childVars, locals
<1>13. CASE CallWait
  BY <1>13 DEF CallWait, At, Goto, childVars, table, locals
<1>14. CASE WaitReturns
  BY <1>14 DEF WaitReturns, WaitEnds, At, Goto
<1>15. CASE CommandOver
  BY <1>15 DEF CommandOver, At, Goto, childVars, table, locals
<1>16. CASE FgContinues
  BY <1>16 DEF FgContinues, At, Goto, childVars, table, locals
<1>17. CASE FgSetsForeground
  BY <1>17 DEF FgSetsForeground, At, Goto, childVars, table, locals
<1>18. CASE FgTakesJob
  BY <1>18 DEF FgTakesJob, EntersRemove, At, Goto
<1>19. CASE BgContinues
  BY <1>19 DEF BgContinues, At, Goto, table, childVars, locals
<1>20. CASE BgMarks
  BY <1>20 DEF BgMarks, At, Goto, childVars, locals, table
<1>21. CASE LogoutKills
  BY <1>21 DEF LogoutKills, At, Goto, childVars, table, locals
<1>22. CASE \E stages \in Stages, background \in BOOLEAN :
                ReadCommand(stages, background)
  BY <1>22 DEF ReadCommand, Goto, NextCommand, At, childVars, table, locals
<1>23. CASE ReadFg
  BY <1>23 DEF ReadFg, Goto, NextCommand, At, childVars, table, locals
<1>24. CASE ReadBg
  BY <1>24 DEF ReadBg, Goto, NextCommand, At, childVars, table, locals
<1>25. CASE ReadPing
  BY <1>25 DEF ReadPing, Goto, NextCommand, At, table, childVars, locals
<1>26. CASE ReadEof
  BY <1>26 DEF ReadEof, At, Goto, childVars, table, locals
<1>27. CASE ReadExit
  BY <1>27 DEF ReadExit, Goto, NextCommand, At, childVars, table, locals
<1>28. CASE SigchldStarts
  BY <1>28 DEF SigchldStarts, Goto, table, locals
<1>29. CASE SigchldReaps
  BY <1>29, ReapsApart
<1>30. CASE SigchldEnds
  BY <1>30 DEF SigchldEnds, childVars, table, locals
<1>31. CASE Key
  BY <1>31 DEF Key, table, locals
<1>32. CASE Processes
  BY <1>32 DEF Processes, table, locals
<1>33. CASE UNCHANGED vars
  BY <1>33 DEF vars, childVars, table, locals
<1> HIDE DEF PidsInv, table, Filled, Launching
<1> QED
  BY <1>1, <1>2, <1>3, <1>4, <1>5, <1>6, <1>7, <1>8, <1>9, <1>10, <1>11,
     <1>12, <1>13, <1>14, <1>15, <1>16, <1>17, <1>18, <1>19, <1>20, <1>21,
     <1>22, <1>23, <1>24, <1>25, <1>26, <1>27, <1>28, <1>29, <1>30, <1>31,
     <1>32, <1>33 DEF Next, Main, Check, Add, Launch, FgBg, Read, Sigchld

(* No process comes to be listed twice.                                    *)
LEMMA UniqueStep ==
  ASSUME Inv, UsedInv, StatusInv, UniqueInv, LaunchInv, [Next]_vars,
         ~undercut'
  PROVE  UniqueInv'
<1>1. CASE Carried
  <2>1. PICK m \in [Slot -> Slot] :
          /\ \A s \in Kept' : m[s] \in Kept /\ jobs'[s].pid = jobs[m[s]].pid
          /\ \A r, s \in Kept' : r < s => m[r] < m[s]
    BY <1>1 DEF Carried, SameJob
  <2>2. \A s \in Kept' : s \in Int /\ m[s] \in Int
    BY <2>1, InvStep, KeptSlots DEF Kept
  <2>3. \A r, s \in Kept' : r # s => m[r] # m[s]
    BY <2>1, <2>2
  <2> QED
    BY <2>1, <2>3 DEF UniqueInv
<1>2. CASE AddCount
  <2>1. /\ jobs' = jobs /\ Kept' \subseteq Kept \cup {job_count}
        /\ pc = "addcount"
    <3>1. job_count \in Int
      BY UsedSlots DEF Inv
    <3> QED
      BY <1>2, <3>1 DEF AddCount, AddsTo, At, Goto, Kept
  <2>2. /\ jobs[job_count].pid = Last(pids) /\ Last(pids) = pids[Len(pids)]
        /\ Len(pids) \in 1 .. Len(pids)
    BY <2>1, LastTyped DEF LaunchInv, Filled, Inv, PidsInv, Launching,
       Adding, TypeOK
  <2>3. \A s \in Kept : jobs[s].pid # jobs[job_count].pid
    BY <2>1, <2>2 DEF LaunchInv, Launching, Adding
  <2> QED
    BY <2>1, <2>3 DEF UniqueInv
<1> QED
  BY <1>1, <1>2, CarriedStep

(* The jobs stay in the order of their numbers.                            *)
LEMMA OrderStep ==
  ASSUME Inv, UsedInv, StatusInv, OrderInv, [Next]_vars, ~undercut'
  PROVE  OrderInv'
<1>. /\ TypeOK /\ CountInv /\ PidsInv /\ Inv'
     /\ job_count \in Int /\ next_job_number \in Int
     /\ next_job_number' \in Int
     /\ \A s \in Kept : jobs[s].job_number \in Int
  <2>1. \A s \in Slot : jobs[s].job_number \in 0 .. MaxNumber
    BY DEF Inv, TypeOK, Job
  <2>2. \A s \in Kept : jobs[s].job_number \in Int
    BY <2>1, KeptSlots, ShellJobsAssumption
  <2>3. Inv' /\ next_job_number' \in Int
    BY InvStep, ShellJobsAssumption DEF Inv, TypeOK
  <2> QED
    BY <2>2, <2>3, UsedSlots DEF Inv
<1>1. CASE Carried
  <2>1. PICK m \in [Slot -> Slot] :
          /\ \A s \in Kept' :
               /\ m[s] \in Kept
               /\ jobs'[s].job_number = jobs[m[s]].job_number
          /\ \A r, s \in Kept' : r < s => m[r] < m[s]
    BY <1>1 DEF Carried, SameJob
  <2>2. \A r, s \in Kept' : r < s => jobs'[r].job_number < jobs'[s].job_number
    BY <2>1 DEF OrderInv
  <2>3. \A s \in Kept' : jobs'[s].job_number < next_job_number
    BY <2>1 DEF OrderInv
  <2>4. \A s \in Kept' : jobs'[s].job_number < next_job_number'
    BY <2>1, <2>3, StepKinds
  <2>5. CASE pc' \in {"addstate", "addcount"}
    <3>1. CASE AddNumber
      <4>1. /\ next_job_number' = next_job_number + 1 /\ job_count' = job_count
            /\ job_count \in Slot /\ next_job_number \in 0 .. MaxNumber
        BY <3>1, UsedSlots DEF AddNumber, At, Filled
      <4>2. jobs'[job_count].job_number = next_job_number
        BY <3>1, <4>1, SetsNumber DEF AddNumber, NextJobNumber, TypeOK
      <4> QED
        BY <2>2, <2>3, <2>4, <4>1, <4>2 DEF OrderInv
    <3>2. CASE AddState
      <4>1. /\ UNCHANGED <<next_job_number, job_count>> /\ pc = "addstate"
            /\ job_count \in Slot
        BY <3>2, UsedSlots DEF AddState, At, Filled
      <4>2. jobs'[job_count].job_number = jobs[job_count].job_number
        BY <3>2, <4>1, SetsState DEF AddState, TypeOK
      <4>3. \A s \in Kept' : jobs'[s].job_number < next_job_number - 1
        BY <2>1, <4>1 DEF OrderInv
      <4> QED
        BY <2>2, <2>4, <4>1, <4>2, <4>3 DEF OrderInv
    <3>3. CASE pc' = pc /\ UNCHANGED table
      <4>1. \A s \in Kept' : jobs'[s].job_number < next_job_number - 1
        BY <2>1, <2>5, <3>3 DEF OrderInv
      <4> QED
        BY <2>2, <2>4, <2>5, <3>3, <4>1 DEF OrderInv, table
    <3>4. ~AddPid
      BY <2>5 DEF AddPid, AddsTo, Goto
    <3> QED
      BY <2>5, <3>1, <3>2, <3>3, <3>4, StepKinds DEF Filled
  <2> QED
    BY <2>2, <2>4, <2>5 DEF OrderInv
<1>2. CASE AddCount
  <2>1. /\ jobs' = jobs /\ next_job_number' = next_job_number
        /\ pc = "addcount" /\ pc' \in {"next", "over"}
        /\ Kept' \subseteq Kept \cup {job_count}
        /\ \A s \in Kept : s < job_count
    BY <1>2, KeptSlots DEF AddCount, AddsTo, At, Goto, Kept, PidsInv, Adding
  <2>2. /\ jobs[job_count].job_number = next_job_number - 1
        /\ \A s \in Kept : jobs[s].job_number < next_job_number - 1
    BY <2>1 DEF OrderInv
  <2>3. \A r, s \in Kept' : r < s => jobs[r].job_number < jobs[s].job_number
    <3> TAKE r, s \in Kept'
    <3>1. CASE s \in Kept
      <4>1. r < s => r \in Kept
        BY <2>1, <3>1, KeptSlots
      <4> QED
        BY <3>1, <4>1 DEF OrderInv
    <3>2. CASE s = job_count
      BY <2>1, <2>2, <3>2
    <3> QED
      BY <2>1, <3>1, <3>2
  <2> QED
    BY <2>1, <2>2, <2>3 DEF OrderInv
<1> QED
  BY <1>1, <1>2, CarriedStep

(* What a waitpid reports while it is listed: check_background_processes   *)
(* turns to its slot, the handler has dealt with the slot already.         *)
LEMMA ReportedJob ==
  ASSUME Inv, UniqueInv, ~undercut',
         NEW s \in Kept', jobs'[s].pid = NextReport
  PROVE  /\ CheckReaps => pc' = "found" /\ s = job_index'
         /\ SigchldReaps =>
              proc[NextReport] = "stopped" /\ jobs'[s].state = "STOPPED"
<1>. TypeOK /\ CountInv /\ jobs \in [Slot -> Job] /\ job_count \in Int
  BY UsedSlots DEF Inv, TypeOK
<1> DEFINE k == FirstSlotOf(NextReport)
<1>1. ASSUME SlotsOf(NextReport) # {}
      PROVE  k \in 0 .. job_count - 1 /\ k \in Slot /\ jobs[k].pid = NextReport
  BY <1>1, FirstSlotListed
<1>2. ASSUME CheckReaps PROVE pc' = "found" /\ s = job_index'
  <2>1. Kept = 0 .. job_count - 1 /\ s \in Kept /\ jobs[s].pid = NextReport
    BY <1>2 DEF CheckReaps, At, table, Kept
  <2>2. SlotsOf(NextReport) # {}
    BY <2>1 DEF SlotsOf
  <2>3. pc' = "found" /\ job_index' = k
    BY <1>2, <2>2 DEF CheckReaps, Goto
  <2> HIDE DEF k
  <2> QED
    BY <1>1, <2>1, <2>2, <2>3 DEF UniqueInv
<1>3. ASSUME SigchldReaps
      PROVE  proc[NextReport] = "stopped" /\ jobs'[s].state = "STOPPED"
  <2>1. Kept = 0 .. job_count - 1 /\ Kept' = 0 .. job_count' - 1
    BY <1>3, ReapsApart DEF Kept
  <2>2. SlotsOf(NextReport) # {}
    BY <1>3, <2>1 DEF SigchldReaps, SlotsOf
  <2>3. k \in Kept /\ \A r \in Kept : r # k => jobs[r].pid # NextReport
    BY <1>1, <2>1, <2>2 DEF UniqueInv
  <2>4. ASSUME jobs' = Without(k), job_count' = job_count - 1 PROVE FALSE
    <3>1. s \in Slot
      BY <2>1, <2>4, UsedSlots
    <3>2. jobs'[s] = IF s \in k .. job_count - 2 THEN jobs[s + 1] ELSE jobs[s]
      BY <1>1, <2>2, <2>4, <3>1, WithoutTyped
    <3> HIDE DEF k
    <3> QED
      BY <1>1, <2>1, <2>2, <2>3, <2>4, <3>2
  <2>5. /\ proc[NextReport] # "zombie"
        /\ jobs' = MarksStopped(k) /\ job_count' = job_count
    BY <1>3, <2>2, <2>4 DEF SigchldReaps
  <2>6. proc[NextReport] = "stopped"
    BY <1>3, <2>5, ReportsAChild DEF SigchldReaps, Waitable
  <2>7. \A r \in Slot : /\ jobs'[r].pid = jobs[r].pid
                        /\ r = k => jobs'[r].state = "STOPPED"
    BY <1>1, <2>2, <2>5, SetsState DEF MarksStopped, JobState
  <2>8. s \in Kept /\ s \in Slot
    BY <2>1, <2>5, UsedSlots
  <2> HIDE DEF k
  <2> QED
    BY <2>3, <2>6, <2>7, <2>8
<1> QED
  BY <1>2, <1>3

(* The child the main program waits for is no job.                         *)
LEMMA WaitedFor ==
  ASSUME Inv, LaunchInv, WaitReturns
  PROVE  /\ jobs' = jobs /\ Kept' = Kept
         /\ pids # <<>> /\ Head(pids) = pids[1] /\ 1 \in 1 .. Len(pids)
         /\ Last(pids) = pids[Len(pids)]
         /\ \A s \in Kept : jobs[s].pid # Head(pids)
<1>1. jobs' = jobs /\ Kept' = Kept
  BY DEF WaitReturns, WaitEnds, At, Goto, table, Kept
<1>2. Launching /\ pids # <<>> /\ pids \in Seq(Pid)
  BY DEF WaitReturns, At, Inv, PidsInv, Launching, Waiting, TypeOK
<1>3. /\ Head(pids) = pids[1] /\ 1 \in 1 .. Len(pids)
      /\ Last(pids) = pids[Len(pids)]
  BY <1>2, LastTyped
<1> QED
  BY <1>1, <1>2, <1>3 DEF LaunchInv

(* A job that is kept is a child that has been forked.                     *)
LEMMA KeptPids ==
  ASSUME Inv
  PROVE  \A s \in Kept : jobs[s].pid \in Pid /\ jobs[s].pid \in Forked
<1>. TypeOK /\ SlotInv /\ ForkedInv
  BY DEF Inv, ForkInv
<1>1. \A s \in Slot : jobs[s].pid \in Pid \cup {0}
  BY DEF TypeOK, Job
<1>2. \A s \in Kept : s \in Slot /\ jobs[s].pid # 0
  BY KeptSlots DEF Kept, SlotInv
<1> QED
  BY <1>1, <1>2 DEF ForkedInv

(* The status that check_background_processes holds stays true.            *)
LEMMA StatusStep ==
  ASSUME Inv, StatusInv, [Next]_vars, ~undercut'
  PROVE  StatusInv'
<1>. SUFFICES ASSUME pc' = "found"
              PROVE  state' = "RUNNING" <=> proc'[pids'[1]] = "gone"
  BY DEF StatusInv
<1>1. CASE CheckReaps
  <2>1. /\ pids'[1] = NextReport
        /\ state' = IF proc[NextReport] = "stopped" THEN "STOPPED"
                    ELSE "RUNNING"
    BY <1>1 DEF CheckReaps, At, Goto
  <2>2. /\ proc[NextReport] \in {"zombie", "stopped"}
        /\ proc'[NextReport] =
             IF proc[NextReport] = "zombie" THEN "gone" ELSE "halted"
    BY <1>1, ReportsAChild, ReportTyped DEF CheckReaps, Inv, TypeOK
  <2> QED
    BY <2>1, <2>2
<1>2. CASE FoundJob
  BY <1>2 DEF FoundJob, EntersRemove, Goto
<1>3. CASE UNCHANGED <<pc, pids, state>>
  <2>1. ~ForkStage /\ ~CheckReaps /\ ~WaitReturns /\ ~SigchldReaps
    BY <1>3, ReapsApart DEF ForkStage, CheckReaps, WaitReturns, At
  <2>2. Calm
    BY <2>1, KindsOfStep
  <2>3. Len(pids) = 1 /\ pids[1] \in Pid
    BY <1>3 DEF Inv, PidsInv, TypeOK
  <2> QED
    BY <1>3, <2>2, <2>3 DEF Calm, StatusInv
<1> QED
  BY <1>1, <1>2, <1>3, StepKinds

(* No job is left listed that has been reaped.                             *)
LEMMA LiveStep ==
  ASSUME Inv, Sound, [Next]_vars, ~undercut'
  PROVE  LiveInv'
<1>. /\ UsedInv /\ StatusInv /\ UniqueInv /\ LiveInv /\ LaunchInv
     /\ \A s \in Kept : jobs[s].pid \in Pid
  BY KeptPids DEF Sound
<1> SUFFICES ASSUME NEW s \in Kept', pc' = "found" => s # job_index'
             PROVE  proc'[jobs'[s].pid] # "gone"
  BY DEF LiveInv
<1>1. CASE AddCount
  <2>1. /\ jobs' = jobs /\ proc' = proc /\ pc = "addcount"
        /\ s \in Kept \/ s = job_count
    <3>1. job_count \in Int
      BY UsedSlots DEF Inv
    <3> QED
      BY <1>1, <3>1 DEF AddCount, AddsTo, At, Goto, Kept, childVars
  <2>2. pids # <<>>
    BY <2>1 DEF Inv, PidsInv, Launching, Adding
  <2> QED
    BY <2>1, <2>2 DEF LiveInv, LaunchInv, Filled, Launching, Adding
<1>2. CASE Carried /\ pc # "found"
  <2>1. PICK t \in Kept : jobs'[s].pid = jobs[t].pid
    BY <1>2 DEF Carried, SameJob
  <2>2. proc[jobs[t].pid] # "gone"
    BY <1>2 DEF LiveInv
  <2>3. CASE Calm
    BY <2>1, <2>2, <2>3 DEF Calm
  <2>4. CASE ForkStage
    <3>1. PICK p \in Pid, first \in Pid \cup {0} : Fork(p, first)
      BY <2>4, ForksOne DEF Inv
    <3>2. proc'[p] = "new" /\ \A q \in Pid : q # p => proc'[q] = proc[q]
      BY <3>1, ForkIsNew DEF Inv, TypeOK
    <3> QED
      BY <2>1, <2>2, <3>2
  <2>5. CASE (CheckReaps \/ SigchldReaps) /\ Tells(NextReport)
    <3>1. CASE jobs'[s].pid = NextReport
      BY <2>5, <3>1, ReportedJob DEF Tells
    <3>2. CASE jobs'[s].pid # NextReport
      BY <2>1, <2>2, <2>5, <3>2 DEF Tells
    <3> QED
      BY <3>1, <3>2
  <2>6. CASE WaitReturns /\ Tells(Head(pids))
    BY <2>1, <2>2, <2>6, WaitedFor DEF Tells
  <2> QED
    BY <2>3, <2>4, <2>5, <2>6, KindsOfStep
<1>3. CASE FoundJob
  <2>1. /\ pc = "found" /\ job_index < job_count
        /\ UNCHANGED <<proc, job_count>>
        /\ jobs[job_index].pid = pids[1]
        /\ state = "STOPPED" => proc[pids[1]] # "gone"
    BY <1>3 DEF FoundJob, At, UsedInv, StatusInv, childVars
  <2>2. s \in Kept /\ \A r \in Slot : jobs'[r].pid = jobs[r].pid
    <3>1. jobs' = jobs \/ jobs' = [jobs EXCEPT ![job_index].state = "STOPPED"]
      BY <1>3 DEF FoundJob, MarksStopped
    <3>2. \A r \in Slot : jobs'[r].pid = jobs[r].pid
      BY <3>1, SetsState DEF JobState, Inv, TypeOK
    <3> QED
      BY <2>1, <3>2 DEF Kept
  <2>3. s = job_index => proc[pids[1]] # "gone"
    BY <1>3, <2>1 DEF FoundJob, EntersRemove, Goto, Kept
  <2> QED
    BY <2>1, <2>2, <2>3, KeptSlots DEF LiveInv
<1>4. CASE UNCHANGED <<pc, table, job_index>> /\ pc = "found"
  <2>1. s \in Kept /\ jobs'[s].pid = jobs[s].pid
    BY <1>4 DEF Kept, table
  <2>2. proc[jobs[s].pid] # "gone"
    BY <1>4, <2>1 DEF LiveInv
  <2>3. ~ForkStage /\ ~CheckReaps /\ ~WaitReturns
    BY <1>4 DEF ForkStage, CheckReaps, WaitReturns, At
  <2>4. ~SigchldReaps
    BY <1>4, ReapsApart
  <2> QED
    BY <2>1, <2>2, <2>3, <2>4, KindsOfStep DEF Calm
<1>5. CASE CheckReaps /\ pc = "found"
  BY <1>5 DEF CheckReaps, At
<1> QED
  BY <1>1, <1>2, <1>3, <1>4, <1>5, CarriedStep, StepKinds

(* What has been launched stays apart from the jobs until it is one.       *)
LEMMA LaunchStep ==
  ASSUME Inv, Sound, [Next]_vars, ~undercut'
  PROVE  LaunchInv'
<1>. /\ UsedInv /\ StatusInv /\ UniqueInv /\ LiveInv /\ LaunchInv
     /\ TypeOK /\ CountInv /\ PidsInv /\ PidsInv' /\ pids \in Seq(Pid)
     /\ \A s \in Kept : jobs[s].pid \in Pid /\ jobs[s].pid \in Forked
  BY KeptPids, InvStep DEF Sound, Inv, TypeOK
<1>1. CASE pids' = <<>>
  <2>1. Len(pids') = 0
    BY <1>1, EmptySeq
  <2>2. ~Filled'
    BY <1>1 DEF PidsInv, Launching, Filled, Adding
  <2> QED
    BY <1>1, <2>1, <2>2 DEF LaunchInv
<1>2. CASE ForkStage
  <2>1. PICK p \in Pid, first \in Pid \cup {0} :
          Fork(p, first) /\ pids' = Append(pids, p)
    BY <1>2, ForksOne
  <2>2. p \notin Forked /\ proc'[p] = "new"
    BY <2>1, ForkIsNew DEF Inv, TypeOK
  <2>3. /\ Launching /\ jobs' = jobs /\ Kept' = Kept /\ ~Filled'
    BY <1>2 DEF ForkStage, At, Goto, Launched, Launching, Filled, Kept, table
  <2>4. /\ Last(pids') = p /\ Len(pids') = Len(pids) + 1
        /\ \A i \in 1 .. Len(pids) : pids'[i] = pids[i]
        /\ pids'[Len(pids) + 1] = p
    BY <2>1, AppendTyped
  <2>5. ASSUME NEW i \in 1 .. Len(pids'), NEW s \in Kept
        PROVE  jobs[s].pid # pids'[i]
    <3>1. CASE i = Len(pids) + 1
      BY <2>2, <2>4, <3>1
    <3>2. CASE i # Len(pids) + 1
      BY <2>3, <2>4, <3>2 DEF LaunchInv
    <3> QED
      BY <3>1, <3>2
  <2> QED
    BY <2>2, <2>3, <2>4, <2>5 DEF LaunchInv
<1>3. CASE WaitReturns /\ pids' # <<>>
  <2>1. /\ jobs' = jobs /\ Kept' = Kept /\ pids # <<>>
        /\ Head(pids) = pids[1] /\ Last(pids) = pids[Len(pids)]
        /\ Len(pids) \in Nat \ {0} /\ Launching /\ ~Filled'
    BY <1>3, WaitedFor, LastTyped
    DEF WaitReturns, WaitEnds, At, Goto, Launching, Waiting, Filled
  <2>2. CASE pids' = Tail(pids) /\ Len(pids) > 1
    <3>1. /\ Len(pids') = Len(pids) - 1 /\ Last(pids') = Last(pids)
          /\ \A i \in 1 .. Len(pids) - 1 : pids'[i] = pids[i + 1]
      BY <2>2, TailTyped
    <3>2. Head(pids) # Last(pids) /\ Last(pids) \in Pid
      BY <2>1, <2>2, LastTyped DEF PidsInv
    <3>3. proc'[Last(pids)] = proc[Last(pids)]
      BY <1>3, <2>1, <3>2 DEF WaitReturns, Reported, Inv, TypeOK,
         ChildrenTypeOK
    <3>4. ASSUME NEW i \in 1 .. Len(pids'), NEW s \in Kept
          PROVE  jobs[s].pid # pids'[i]
      BY <2>1, <3>1 DEF LaunchInv
    <3> QED
      BY <2>1, <3>1, <3>3, <3>4 DEF LaunchInv
  <2>3. CASE pids' = pids /\ Untraced
    <3>1. Head(pids) = Last(pids) /\ Last(pids) \in Pid
      BY <2>1, <2>3, LastTyped DEF Untraced, PidsInv
    <3>2. proc[Last(pids)] # "gone"
      BY <2>1 DEF LaunchInv
    <3>3. Reported(Last(pids)) /\ Waitable(Last(pids), TRUE)
      BY <1>3, <3>1, <3>2 DEF WaitReturns, Waitable
    <3>4. proc[Last(pids)] = "stopped"
      BY <1>3, <2>1, <2>3, <3>1, <3>2 DEF WaitReturns, WaitEnds,
         PidsInv, Untraced
    <3>5. proc'[Last(pids)] = "halted"
      BY <3>1, <3>3, <3>4, ReportTyped DEF TypeOK
    <3> QED
      BY <2>1, <2>3, <3>5 DEF LaunchInv
  <2>4. CASE Waitable(Head(pids), Untraced)
             /\ WaitEnds(proc[Head(pids)] = "stopped")
    BY <1>3, <2>2, <2>3, <2>4 DEF WaitEnds, Waitable
  <2>5. CASE WaitEnds(FALSE)
    BY <1>3, <2>2, <2>5 DEF WaitEnds
  <2>6. CASE WaitEnds(Untraced) /\ Untraced
    BY <1>3, <2>3, <2>6 DEF WaitEnds, Untraced
  <2>7. Untraced \in BOOLEAN
    BY DEF Untraced
  <2> QED
    BY <1>3, <2>4, <2>5, <2>6, <2>7, Zenon DEF WaitReturns
<1>4. CASE FgTakesJob
  <2> DEFINE p == jobs[job_index].pid
  <2>1. /\ pc = "fgtake" /\ job_index < job_count /\ pids' = <<p>>
        /\ UNCHANGED <<proc, jobs, job_count>>
    BY <1>4 DEF FgTakesJob, At, UsedInv, Choosing, table, childVars
  <2>2. Kept' = Kept \ {job_index} /\ job_index \in Kept /\ ~Filled'
    <3>1. job_index \in Nat /\ job_count \in Int
      BY UsedSlots, SlotsAreNat
    <3>2. pc' = "remove" /\ hole' = job_index
      BY <1>4, <2>1 DEF FgTakesJob, EntersRemove, Goto
    <3> QED
      BY <2>1, <3>1, <3>2 DEF Kept, Filled
  <2>3. p \in Pid /\ proc[p] # "gone" /\ \A s \in Kept' : jobs[s].pid # p
    BY <2>1, <2>2 DEF UniqueInv, LiveInv
  <2>4. Len(pids') = 1 /\ pids'[1] = p /\ Last(pids') = p
    <3>1. p \in Pid /\ pids' = <<p>>
      BY <2>1, <2>3
    <3> HIDE DEF p
    <3>2. Len(<<p>>) = 1 /\ <<p>>[1] = p
      BY <3>1
    <3>3. Len(pids') = 1 /\ pids'[1] = p
      BY <3>1, <3>2, Zenon
    <3>4. Last(pids') = pids'[Len(pids')]
      BY Zenon DEF Last
    <3> QED
      BY <3>3, <3>4
  <2> QED
    BY <2>1, <2>2, <2>3, <2>4 DEF LaunchInv
<1>5. CASE Launching /\ Launching' /\ pids' = pids /\ Carried
           /\ ~ForkStage /\ ~WaitReturns
  <2>1. ASSUME NEW s \in Kept', NEW i \in 1 .. Len(pids')
        PROVE  jobs'[s].pid # pids'[i]
    BY <1>5 DEF Carried, SameJob, LaunchInv
  <2>2. ASSUME pids # <<>> PROVE proc'[Last(pids)] # "gone"
    <3>1. proc[Last(pids)] # "gone" /\ Last(pids) \in Pid
      BY <1>5, <2>2, LastTyped DEF LaunchInv
    <3>2. ~CheckReaps
      BY <1>5 DEF CheckReaps, At, Launching, Adding, Waiting, Taking
    <3>3. SigchldReaps => NextReport # Last(pids)
      BY <2>2, ReapsApart
    <3> QED
      BY <1>5, <3>1, <3>2, <3>3, KindsOfStep DEF Calm, Tells
  <2>3. ASSUME Filled' PROVE jobs'[job_count'].pid = Last(pids)
    <3>1. CASE AddPid
      <4>1. pids # <<>> /\ job_count >= 0 /\ job_count' = job_count
        BY <2>3, <3>1 DEF AddPid, AddsTo, At, Goto, Filled, PidsInv,
           Launching, Adding
      <4>2. job_count \in Slot /\ Last(pids) \in Pid \cup {0}
        BY <4>1, UsedSlots, LastTyped
      <4>3. jobs' = [jobs EXCEPT ![job_count].pid = Last(pids)]
        BY <3>1, <4>1, UsedSlots DEF AddPid
      <4> QED
        BY <4>1, <4>2, <4>3, SetsPid DEF TypeOK
    <3>2. CASE AddNumber
      <4>1. Filled /\ job_count' = job_count
        BY <3>2 DEF AddNumber, At, Filled
      <4>2. job_count \in Slot /\ next_job_number \in 0 .. MaxNumber
        BY <3>2, <4>1, UsedSlots DEF AddNumber, At
      <4>3. jobs'[job_count].pid = jobs[job_count].pid
        BY <3>2, <4>2, SetsNumber DEF AddNumber, NextJobNumber, TypeOK
      <4> QED
        BY <4>1, <4>3 DEF LaunchInv
    <3>3. CASE AddState
      <4>1. Filled /\ job_count' = job_count
        BY <3>3 DEF AddState, At, Filled
      <4>2. job_count \in Slot
        BY <4>1, UsedSlots
      <4>3. jobs'[job_count].pid = jobs[job_count].pid
        BY <3>3, <4>2, SetsState DEF AddState, TypeOK
      <4> QED
        BY <4>1, <4>3 DEF LaunchInv
    <3>4. CASE pc' = pc /\ UNCHANGED table
      BY <2>3, <3>4 DEF Filled, table, LaunchInv
    <3> QED
      BY <2>3, <3>1, <3>2, <3>3, <3>4, StepKinds
  <2> QED
    BY <1>5, <2>1, <2>2, <2>3 DEF LaunchInv
<1>6. CASE ~Launching'
  BY <1>6 DEF LaunchInv, Launching, Filled, Adding
<1>7. AddCount => pids' = <<>>
  BY DEF AddCount
<1> QED
  BY <1>1, <1>2, <1>3, <1>4, <1>5, <1>6, <1>7, CarriedStep, StepKinds

(* While a command is being launched or waited for nobody else deals with  *)
(* its last process.                                                       *)
LEMMA LastUntouched ==
  ASSUME Inv, [Next]_vars, ~undercut', Launching, pids # <<>>,
         ~ForkStage, ~WaitReturns
  PROVE  /\ proc'[Last(pids)] = "gone" => proc[Last(pids)] = "gone"
         /\ proc'[Last(pids)] = "halted" => proc[Last(pids)] = "halted"
<1>1. Last(pids) \in Pid
  BY LastTyped DEF Inv, TypeOK
<1>2. ~CheckReaps
  BY DEF CheckReaps, At, Launching, Adding, Waiting, Taking
<1>3. SigchldReaps => NextReport # Last(pids)
  BY ReapsApart
<1> QED
  BY <1>1, <1>2, <1>3, KindsOfStep DEF Calm, Tells

(* The stop of a listed job is kept in its slot.                           *)
LEMMA StopListed ==
  ASSUME Inv, Sound, [Next]_vars, ~undercut',
         NEW s \in Kept', pc' = "found" => s # job_index',
         proc'[jobs'[s].pid] = "halted"
  PROVE  jobs'[s].state = "STOPPED"
<1>. /\ UsedInv /\ StatusInv /\ UniqueInv /\ LaunchInv /\ StopInv
     /\ \A t \in Kept : jobs[t].pid \in Pid
  BY KeptPids DEF Sound
<1>1. CASE AddCount
  <2>1. /\ jobs' = jobs /\ proc' = proc /\ pc = "addcount"
        /\ s \in Kept \/ s = job_count
    <3>1. job_count \in Int
      BY UsedSlots DEF Inv
    <3> QED
      BY <1>1, <3>1 DEF AddCount, AddsTo, At, Goto, Kept, childVars
  <2>2. jobs[job_count].pid = Last(pids)
    BY <2>1 DEF LaunchInv, Filled
  <2> QED
    BY <2>1, <2>2 DEF StopInv
<1>2. CASE Carried /\ pc # "found"
  <2>1. PICK t \in Kept : SameJob(s, t)
    BY <1>2 DEF Carried
  <2>2. jobs'[s].pid = jobs[t].pid
    BY <2>1 DEF SameJob
  <2>3. CASE proc[jobs[t].pid] = "halted"
    <3>1. jobs[t].state = "STOPPED"
      BY <1>2, <2>3 DEF StopInv
    <3>2. ~(pc = "bgmark" /\ t = job_index)
      BY <2>3 DEF StopInv
    <3> QED
      BY <2>1, <3>1, <3>2 DEF SameJob
  <2>4. CASE Calm
    BY <2>2, <2>3, <2>4 DEF Calm
  <2>5. CASE ForkStage
    <3>1. PICK p \in Pid, first \in Pid \cup {0} : Fork(p, first)
      BY <2>5, ForksOne DEF Inv
    <3>2. proc'[p] = "new" /\ \A q \in Pid : q # p => proc'[q] = proc[q]
      BY <3>1, ForkIsNew DEF Inv, TypeOK
    <3> QED
      BY <2>2, <2>3, <3>2
  <2>6. CASE (CheckReaps \/ SigchldReaps) /\ Tells(NextReport)
    <3>1. CASE jobs'[s].pid = NextReport
      BY <2>6, <3>1, ReportedJob
    <3>2. CASE jobs'[s].pid # NextReport
      BY <2>2, <2>3, <2>6, <3>2 DEF Tells
    <3> QED
      BY <3>1, <3>2
  <2>7. CASE WaitReturns /\ Tells(Head(pids))
    BY <2>2, <2>3, <2>7, WaitedFor DEF Tells
  <2> QED
    BY <2>4, <2>5, <2>6, <2>7, KindsOfStep
<1>3. CASE FoundJob
  <2>1. pc = "found" /\ UNCHANGED <<proc, job_count>> /\ job_index < job_count
    BY <1>3 DEF FoundJob, At, childVars, UsedInv
  <2>2. CASE jobs' = MarksStopped(job_index)
    <3>1. \A r \in Slot :
            /\ jobs'[r].pid = jobs[r].pid
            /\ jobs'[r].state =
                 IF r = job_index THEN "STOPPED" ELSE jobs[r].state
      BY <2>2, SetsState DEF MarksStopped, JobState, Inv, TypeOK
    <3>2. s \in Kept /\ s \in Slot
      BY <2>1, KeptSlots DEF Kept
    <3> QED
      BY <2>1, <3>1, <3>2 DEF StopInv
  <2>3. CASE jobs' = jobs /\ EntersRemove(job_index, "check")
    <3>1. s \in Kept /\ s # job_index
      BY <2>1, <2>3 DEF EntersRemove, Goto, Kept
    <3> QED
      BY <2>1, <2>3, <3>1 DEF StopInv
  <2> QED
    BY <1>3, <2>2, <2>3 DEF FoundJob
<1>4. CASE UNCHANGED <<pc, table, job_index>> /\ pc = "found"
  <2>1. s \in Kept /\ jobs'[s] = jobs[s] /\ s # job_index
    BY <1>4 DEF Kept, table
  <2>2. ~ForkStage /\ ~CheckReaps /\ ~WaitReturns /\ ~SigchldReaps
    BY <1>4, ReapsApart DEF ForkStage, CheckReaps, WaitReturns, At
  <2>3. proc[jobs[s].pid] = "halted"
    BY <2>1, <2>2, KindsOfStep DEF Calm
  <2> QED
    BY <1>4, <2>1, <2>3 DEF StopInv
<1>5. CASE CheckReaps /\ pc = "found"
  BY <1>5 DEF CheckReaps, At
<1> QED
  BY <1>1, <1>2, <1>3, <1>4, <1>5, CarriedStep, StepKinds

(* The command waited for that has stopped is on its way to the list, with *)
(* this state.                                                             *)
LEMMA StopAdded ==
  ASSUME Inv, Sound, [Next]_vars, ~undercut',
         Launching', pids' # <<>>, proc'[Last(pids')] = "halted"
  PROVE  Adding' /\ state' = "STOPPED"
<1>. StopInv /\ UsedInv /\ TypeOK /\ PidsInv /\ pids \in Seq(Pid)
  BY DEF Sound, Inv, TypeOK
<1>1. CASE ForkStage
  <2>1. PICK p \in Pid, first \in Pid \cup {0} :
          Fork(p, first) /\ pids' = Append(pids, p)
    BY <1>1, ForksOne
  <2>2. proc'[p] = "new" /\ Last(pids') = p
    BY <2>1, ForkIsNew, AppendTyped DEF Inv, TypeOK
  <2> QED
    BY <2>2
<1>2. CASE WaitReturns
  <2>1. CASE pids' = Tail(pids) /\ Len(pids) > 1
    <3>1. /\ Last(pids') = Last(pids) /\ Last(pids) = pids[Len(pids)]
          /\ Head(pids) = pids[1] /\ Last(pids) \in Pid /\ pids # <<>>
      BY <1>2, <2>1, TailTyped, LastTyped, WaitedFor DEF Sound
    <3>2. Head(pids) # Last(pids)
      BY <2>1, <3>1 DEF PidsInv
    <3>3. proc'[Last(pids)] = proc[Last(pids)]
      BY <1>2, <3>1, <3>2
      DEF WaitReturns, Reported, Inv, TypeOK, ChildrenTypeOK
    <3>4. Launching /\ ~Adding
      BY <1>2 DEF WaitReturns, At, Launching, Waiting, Adding
    <3> QED
      BY <3>1, <3>3, <3>4 DEF StopInv
  <2>2. CASE pids' # Tail(pids) \/ ~(Len(pids) > 1)
    BY <1>2, <2>2 DEF WaitReturns, WaitEnds, Goto, Adding
  <2> QED
    BY <2>1, <2>2
<1>3. CASE FgTakesJob
  <2> DEFINE p == jobs[job_index].pid
  <2>1. pc = "fgtake" /\ pids' = <<p>> /\ proc' = proc
    BY <1>3 DEF FgTakesJob, At, childVars
  <2>2. proc[p] # "halted"
    BY <2>1 DEF StopInv
  <2>3. Last(pids') = p
    <3> HIDE DEF p
    <3>1. Len(<<p>>) = 1 /\ <<p>>[1] = p
      OBVIOUS
    <3>2. Last(<<p>>) = <<p>>[Len(<<p>>)]
      BY Zenon DEF Last
    <3> QED
      BY <2>1, <3>1, <3>2, Zenon
  <2> QED
    BY <2>1, <2>2, <2>3
<1>4. CASE Launching /\ pids' = pids /\ ~ForkStage /\ ~WaitReturns
  <2>1. proc[Last(pids)] = "halted"
    BY <1>4, LastUntouched
  <2>2. Adding /\ state = "STOPPED"
    BY <1>4, <2>1 DEF StopInv
  <2> QED
    BY <2>2, StepKinds
<1> QED
  BY <1>1, <1>2, <1>3, <1>4, StepKinds

(* fg and bg have continued the job they deal with.                        *)
LEMMA StopTaken ==
  ASSUME Inv, Sound, [Next]_vars, ~undercut',
         pc' \in {"fgpid", "fgtake", "bgmark"}
  PROVE  proc'[jobs'[job_index'].pid] # "halted"
<1>. UsedInv /\ StopInv /\ TypeOK
  BY DEF Sound, Inv
<1>1. ASSUME Choosing
      PROVE  job_index \in Kept /\ jobs[job_index].pid \in Pid
  <2>1. job_index \in Kept
    <3>1. job_index \in Nat /\ job_count \in Int
      BY UsedSlots, SlotsAreNat DEF Inv
    <3> QED
      BY <1>1, <3>1 DEF UsedInv, Choosing, Kept
  <2> QED
    BY <2>1, KeptPids
<1>2. ASSUME Choosing, Kill({jobs[job_index].pid}, "CONT")
      PROVE  proc'[jobs[job_index].pid] # "halted"
  <2>1. /\ jobs[job_index].pid \in Pid
        /\ proc'[jobs[job_index].pid] = Reaction(jobs[job_index].pid, "CONT")
        /\ resume[jobs[job_index].pid] \in Resumed
    BY <1>1, <1>2 DEF Kill, TypeOK, ChildrenTypeOK
  <2> QED
    BY <2>1 DEF Reaction, Stopped, Resumed
<1>3. CASE FgContinues
  <2>1. pc = "fgcont" /\ Choosing /\ UNCHANGED <<jobs, job_index>>
    BY <1>3 DEF FgContinues, At, Choosing, table, locals
  <2>2. CASE jobs[job_index].state = "STOPPED"
    BY <1>2, <1>3, <2>1, <2>2 DEF FgContinues
  <2>3. CASE jobs[job_index].state # "STOPPED"
    <3>1. proc[jobs[job_index].pid] # "halted"
      BY <1>1, <2>1, <2>3 DEF StopInv
    <3> QED
      BY <1>3, <2>1, <2>3, <3>1 DEF FgContinues, childVars
  <2> QED
    BY <2>2, <2>3
<1>4. CASE BgContinues
  BY <1>2, <1>4 DEF BgContinues, At, Choosing, table, locals
<1>5. CASE FgSetsForeground
  BY <1>5 DEF FgSetsForeground, At, table, locals, childVars, StopInv
<1>6. CASE UNCHANGED <<pc, table, job_index>>
  <2>1. jobs[job_index].pid \in Pid /\ proc[jobs[job_index].pid] # "halted"
    BY <1>1, <1>6 DEF Choosing, StopInv
  <2>2. ~ForkStage /\ ~CheckReaps /\ ~WaitReturns /\ ~SigchldReaps
    BY <1>6, ReapsApart DEF ForkStage, CheckReaps, WaitReturns, At
  <2> QED
    BY <1>6, <2>1, <2>2, KindsOfStep DEF Calm, table
<1> QED
  BY <1>3, <1>4, <1>5, <1>6, StepKinds

(* StopInv stays true until a handler undercuts the main program.          *)
LEMMA StopStep ==
  ASSUME Inv, Sound, [Next]_vars, ~undercut'
  PROVE  StopInv'
<1>1. ASSUME pc' = "addcount", proc'[Last(pids')] = "halted"
      PROVE  jobs'[job_count'].state = "STOPPED"
  <2>1. Filled' /\ Launching' /\ pids' # <<>>
    BY <1>1, InvStep DEF Filled, Launching, Adding, Inv, PidsInv
  <2>2. CASE AddState
    <3>1. job_count \in Slot /\ job_count' = job_count
      BY <2>2, UsedSlots DEF AddState, At, Filled, Inv
    <3>2. jobs'[job_count].state = state
      BY <2>2, <3>1, SetsState DEF AddState, Inv, TypeOK
    <3>3. state' = "STOPPED" /\ state' = state
      BY <1>1, <2>1, <2>2, StopAdded DEF AddState, AddsTo
    <3> QED
      BY <3>1, <3>2, <3>3
  <2>3. CASE pc' = pc /\ UNCHANGED <<table, pids>>
    <3>1. ~ForkStage /\ ~WaitReturns /\ Launching
      BY <1>1, <2>3 DEF ForkStage, WaitReturns, At, Launching, Adding
    <3>2. proc[Last(pids)] = "halted"
      BY <1>1, <2>1, <2>3, <3>1, LastUntouched
    <3> QED
      BY <1>1, <2>3, <3>2 DEF Sound, StopInv, table
  <2>4. ~AddPid /\ ~AddNumber
    BY <1>1 DEF AddPid, AddNumber, AddsTo, Goto
  <2> QED
    BY <2>1, <2>2, <2>3, <2>4, StepKinds
<1> QED
  BY <1>1, StopListed, StopAdded, StopTaken DEF StopInv

(* A single command is a single process.                                   *)
LEMMA AloneWaitedFor ==
  ASSUME Inv, Launching, pids # <<>>, command.stages = 1
  PROVE  Len(pids) = 1
<1>1. Len(pids) \in Nat \ {0}
  BY LastTyped DEF Inv, TypeOK
<1>2. Len(pids) <= 1
  BY DEF Inv, PidsInv
<1> QED
  BY <1>1, <1>2

(* foreground_pid says what it should for as long as the main program does *)
(* not go on.                                                              *)
LEMMA StaysInForce ==
  ASSUME Inv, Sound,
         UNCHANGED <<pc, lead, pids, back, foreground_pid>>,
         pc = "fgtake" => UNCHANGED <<jobs, job_index>>
  PROVE  FgInv'
<1>. FgInv /\ foreground_pid \in Pid \cup {0}
  BY DEF Sound, Inv, TypeOK
<1>1. Waiting' = Waiting /\ Adding' = Adding
  BY DEF Waiting, Adding, Taking
<1> QED
  BY <1>1 DEF FgInv

(* foreground_pid is the command the shell waits for, and 0 when it waits  *)
(* for none.                                                               *)
LEMMA FgStep ==
  ASSUME Inv, Sound, ~undercut', [Next]_vars
  PROVE  FgInv'
<1>. /\ FgInv /\ LaunchInv /\ TypeOK /\ PidsInv /\ ForkedInv /\ ForkInv
     /\ ChildrenTypeOK /\ pids \in Seq(Pid)
     /\ \A p \in Forked : lead'[p] = lead[p]
  BY NobodyVanishes DEF Inv, Sound, ForkInv, TypeOK
<1> USE DEF FgInv, Waiting, Adding, Taking, Ended
<1>1. CASE NothingToReport
  BY <1>1 DEF NothingToReport, At, Goto, LocalsGone, childVars, table,
     locals
<1>2. CASE CheckReaps
  <2>1. /\ pc = "check"
        /\ pc' \in {"check", "found"}
        /\ foreground_pid' = foreground_pid
    BY <1>2 DEF CheckReaps, At, Goto
  <2> QED
    BY <2>1
<1>3. CASE FoundJob
  <2>1. /\ pc = "found" /\ foreground_pid' = foreground_pid
        /\ \/ pc' = "check"
           \/ pc' = "remove" /\ back' = "check"
    BY <1>3 DEF FoundJob, At, Goto, EntersRemove
  <2> QED
    BY <2>1
<1>4. CASE RemoveJob
  <2>1. /\ pc = "remove" /\ back \in {"check", "wait"}
        /\ UNCHANGED <<foreground_pid, back, pids, lead>>
        /\ pc' \in {"remove", back}
    BY <1>4 DEF RemoveJob, At, Goto, Shift, PidsInv, childVars
  <2>2. CASE back = "check"
    BY <2>1, <2>2
  <2>3. CASE back = "wait"
    BY <2>1, <2>3
  <2> QED
    BY <2>1, <2>2, <2>3
<1>5. CASE AddPid
  BY <1>5 DEF AddPid, At, AddsTo, Goto, childVars
<1>6. CASE AddNumber
  BY <1>6 DEF AddNumber, At, AddsTo, Goto, childVars, NextJobNumber
<1>7. CASE AddState
  BY <1>7 DEF AddState, At, AddsTo, Goto, childVars
<1>8. CASE AddCount
  <2>1. /\ pc = "addcount" /\ pc' = back /\ back \in {"next", "over"}
        /\ UNCHANGED <<foreground_pid, proc>>
    BY <1>8 DEF AddCount, At, AddsTo, Goto, childVars, PidsInv
  <2>2. CASE back = "next"
    BY <2>1, <2>2
  <2>3. CASE back = "over"
    BY <2>1, <2>3
  <2> QED
    BY <2>1, <2>2, <2>3
<1>9. CASE LineOver
  BY <1>9 DEF LineOver, At, Goto, childVars, table, locals
<1>10. CASE ForkStage
  <2>1. PICK p \in Pid, first \in Pid \cup {0} :
          /\ Fork(p, first) /\ pids' = Append(pids, p)
          /\ command.stages # 1 => first # 0
    BY <1>10, ForksOne
  <2>2. lead'[p] = first
    BY <2>1, ForkIsNew
  <2>3. /\ Len(pids') = Len(pids) + 1 /\ pids'[Len(pids) + 1] = p
        /\ \A i \in 1 .. Len(pids) : pids'[i] = pids[i]
    BY <2>1, AppendTyped
  <2>4. /\ pc = "fork" /\ UNCHANGED foreground_pid /\ back' = "next"
        /\ \/ pc' \in {"fork", "addpid", "foreground"}
           \/ pc' = "wait" /\ command.stages # 1
    BY <1>10 DEF ForkStage, At, Goto, Launched
  <2>5. ASSUME command.stages # 1, NEW i \in 1 .. Len(pids')
        PROVE  lead'[pids'[i]] # 0
    <3>1. CASE i = Len(pids) + 1
      BY <2>1, <2>2, <2>3, <2>5, <3>1
    <3>2. CASE i # Len(pids) + 1
      <4>1. i \in 1 .. Len(pids) /\ pids'[i] = pids[i]
        BY <2>3, <3>2
      <4>2. pids[i] \in Forked /\ lead[pids[i]] # 0
        BY <2>4, <4>1 DEF ForkedInv
      <4> QED
        BY <4>1, <4>2
    <3> QED
      BY <3>1, <3>2
  <2> QED
    BY <2>4, <2>5
<1>11. CASE ForkStageFails
  BY <1>11 DEF ForkStageFails, At, Goto, childVars, table, locals
<1>12. CASE SetForeground
  <2>1. /\ pc = "foreground" /\ pc' = "wait" /\ foreground_pid' = Head(pids)
        /\ UNCHANGED pids
    BY <1>12 DEF SetForeground, At, Goto, locals
  <2>2. /\ pids # <<>> /\ command.stages = 1 /\ Len(pids) <= command.stages
        /\ Len(pids) \in Nat \ {0} /\ Head(pids) = pids[1]
    BY <2>1, LastTyped DEF PidsInv, Launching
  <2>3. Len(pids) = 1
    BY <2>1, <2>2, AloneWaitedFor DEF Launching
  <2> QED
    BY <2>1, <2>2, <2>3
<1>13. CASE CallWait
  BY <1>13 DEF CallWait, At, Goto, childVars, table, locals
<1>14. CASE WaitReturns
  <2>1. /\ pc = "waiting" /\ UNCHANGED foreground_pid
        /\ pids # <<>> /\ Head(pids) = pids[1] /\ Last(pids) = pids[Len(pids)]
        /\ Len(pids) \in Nat \ {0} /\ Last(pids) \in Pid /\ pids[1] \in Pid
    BY <1>14, WaitedFor, LastTyped DEF WaitReturns, At
  <2>2. CASE pc' = "wait" /\ pids' = Tail(pids) /\ Len(pids) > 1
    <3>1. /\ foreground_pid = 0
          /\ \A i \in 1 .. Len(pids) : pids[i] \in Forked /\ lead'[pids[i]] # 0
      BY <2>1, <2>2 DEF ForkedInv
    <3>2. /\ Len(pids') = Len(pids) - 1
          /\ \A i \in 1 .. Len(pids) - 1 : pids'[i] = pids[i + 1]
      BY <2>2, TailTyped
    <3>3. \A i \in 1 .. Len(pids') : lead'[pids'[i]] # 0
      BY <2>1, <3>1, <3>2
    <3> QED
      BY <2>1, <2>2, <3>1, <3>3
  <2>3. CASE pc' = "over" /\ Len(pids) <= 1 /\ proc'[pids[1]] = "gone"
    BY <2>1, <2>3
  <2>4. CASE pc' = "addpid" /\ back' = "over" /\ pids' = pids /\ Len(pids) = 1
             /\ proc'[pids[1]] = "halted"
    BY <2>1, <2>4
  <2>8. Untraced => Len(pids) = 1
    <3>1. Launching
      BY <2>1 DEF Launching
    <3> QED
      BY <2>1, <3>1, AloneWaitedFor DEF Untraced
  <2>5. ASSUME Waitable(pids[1], Untraced), Reported(pids[1]),
               WaitEnds(proc[pids[1]] = "stopped")
        PROVE  <2>2!1 \/ <2>3!1 \/ <2>4!1
    <3>1. CASE proc[pids[1]] = "stopped"
      <4>1. Untraced
        BY <2>5, <3>1 DEF Waitable
      <4>2. proc'[pids[1]] = "halted"
        BY <2>1, <2>5, <3>1 DEF Reported, TypeOK, ChildrenTypeOK
      <4> QED
        BY <2>5, <2>8, <3>1, <4>1, <4>2 DEF WaitEnds, Goto
    <3>2. CASE proc[pids[1]] # "stopped"
      <4>1. proc'[pids[1]] = "gone"
        BY <2>1, <2>5, <3>2 DEF Reported, Waitable, TypeOK, ChildrenTypeOK
      <4> QED
        BY <2>5, <3>2, <4>1 DEF WaitEnds, Goto
    <3> QED
      BY <3>1, <3>2
  <2>6. ASSUME proc[pids[1]] = "gone", proc' = proc,
               WaitEnds(FALSE) \/ (Untraced /\ WaitEnds(TRUE))
        PROVE  <2>2!1 \/ <2>3!1
    <3>1. ~Untraced
      <4>1. ASSUME Untraced PROVE FALSE
        <5>1. Len(pids) = 1
          BY <2>8, <4>1
        <5> QED
          BY <2>1, <2>6, <5>1 DEF LaunchInv, Launching
      <4> QED
        BY <4>1
    <3> QED
      BY <2>6, <3>1 DEF WaitEnds, Goto
  <2>7. Untraced \in BOOLEAN
    BY DEF Untraced
  <2> QED
    BY <1>14, <2>1, <2>2, <2>3, <2>4, <2>5, <2>6, <2>7 DEF WaitReturns
<1>15. CASE CommandOver
  BY <1>15 DEF CommandOver, At, Goto, childVars, table, locals
<1>16. CASE FgContinues
  BY <1>16 DEF FgContinues, At, Goto, childVars, table, locals
<1>17. CASE FgSetsForeground
  BY <1>17 DEF FgSetsForeground, At, Goto, childVars, table, locals
<1>18. CASE FgTakesJob
  <2>1. /\ pc = "fgtake" /\ pids' = <<jobs[job_index].pid>>
        /\ UNCHANGED foreground_pid /\ pc' \in {"remove", "wait"}
        /\ back' = "wait"
    BY <1>18 DEF FgTakesJob, At, EntersRemove, Goto
  <2>2. Len(pids') = 1 /\ pids'[1] = jobs[job_index].pid
    BY <2>1
  <2> QED
    BY <2>1, <2>2
<1>19. CASE BgContinues
  BY <1>19 DEF BgContinues, At, Goto, table, childVars, locals
<1>20. CASE BgMarks
  BY <1>20 DEF BgMarks, At, Goto, childVars, locals, table
<1>21. CASE LogoutKills
  BY <1>21 DEF LogoutKills, At, Goto, childVars, table, locals
<1>22. CASE \E stages \in Stages, background \in BOOLEAN :
                ReadCommand(stages, background)
  BY <1>22 DEF ReadCommand, Goto, NextCommand, At, childVars, table, locals
<1>23. CASE ReadFg
  BY <1>23 DEF ReadFg, Goto, NextCommand, At, childVars, table, locals
<1>24. CASE ReadBg
  BY <1>24 DEF ReadBg, Goto, NextCommand, At, childVars, table, locals
<1>25. CASE ReadPing
  BY <1>25 DEF ReadPing, Goto, NextCommand, At, table, childVars, locals
<1>26. CASE ReadEof
  BY <1>26 DEF ReadEof, At, Goto, childVars, table, locals
<1>27. CASE ReadExit
  BY <1>27 DEF ReadExit, Goto, NextCommand, At, childVars, table, locals
<1>28. CASE SigchldStarts
  <2>1. /\ UNCHANGED <<proc, lead, foreground_pid, table, locals>>
        /\ pc' = pc \/ (pc = "waiting" /\ pc' = "wait")
    BY <1>28 DEF SigchldStarts, Goto
  <2> QED
    BY <2>1 DEF locals, table
<1>29. CASE SigchldReaps
  <2>1. NextReport \in Pid /\ Tells(NextReport)
    BY <1>29, ReportsAChild, ReportTyped DEF SigchldReaps, Tells, TypeOK
  <2>2. /\ pc' = pc /\ UNCHANGED <<lead, pids, back, foreground_pid>>
        /\ pc = "fgtake" => UNCHANGED <<jobs, job_index>>
    BY <1>29, <2>1, ReapsApart DEF Tells
  <2> QED
    BY <2>2, StaysInForce
<1>30. CASE SigchldEnds
  BY <1>30 DEF SigchldEnds, childVars, table, locals
<1>31. CASE Key
  <2>1. /\ pc' = pc /\ UNCHANGED <<lead, pids, back, foreground_pid>>
        /\ pc = "fgtake" => UNCHANGED <<jobs, job_index>>
    BY <1>31, KillTyped DEF Key, table, locals, TypeOK
  <2> QED
    BY <2>1, StaysInForce
<1>32. CASE Processes
  <2>1. /\ pc' = pc /\ UNCHANGED <<lead, pids, back, foreground_pid>>
        /\ pc = "fgtake" => UNCHANGED <<jobs, job_index>>
    BY <1>32 DEF Processes, table, locals, ChildStarts, ChildExits, ChildStops
  <2> QED
    BY <2>1, StaysInForce
<1>33. CASE UNCHANGED vars
  BY <1>33 DEF vars, childVars, table, locals
<1> QED
  BY <1>1, <1>2, <1>3, <1>4, <1>5, <1>6, <1>7, <1>8, <1>9, <1>10, <1>11,
     <1>12, <1>13, <1>14, <1>15, <1>16, <1>17, <1>18, <1>19, <1>20, <1>21,
     <1>22, <1>23, <1>24, <1>25, <1>26, <1>27, <1>28, <1>29, <1>30, <1>31,
     <1>32, <1>33 DEF Next, Main, Check, Add, Launch, FgBg, Read, Sigchld

(* A command that is being launched or waited for stays so until it is     *)
(* listed, waited for, or nothing comes of it.                             *)
LEMMA LaunchGoesOn ==
  ASSUME Inv, Launching, ~undercut', [Next]_vars
  PROVE  \/ Launching' /\ pids' = pids
         \/ ForkStage \/ ForkStageFails \/ WaitReturns
         \/ AddCount
         \/ pc = "addpid" /\ job_count < 0
<1>. job_count \in Int
  BY UsedSlots DEF Inv
<1> USE DEF Launching, Adding, Waiting, Taking
<1>1. CASE NothingToReport
  BY <1>1 DEF NothingToReport, At, Goto, LocalsGone, childVars, table,
     locals
<1>2. CASE CheckReaps
  BY <1>2 DEF CheckReaps, At
<1>3. CASE FoundJob
  BY <1>3 DEF FoundJob, At
<1>4. CASE RemoveJob
  <2>1. pc = "remove" /\ UNCHANGED <<back, pids>> /\ pc' \in {"remove", back}
    BY <1>4 DEF RemoveJob, At, Goto, Shift
  <2> QED
    BY <2>1
<1>5. CASE AddPid
  BY <1>5 DEF AddPid, At, AddsTo, Goto
<1>6. CASE AddNumber
  BY <1>6 DEF AddNumber, At, AddsTo, Goto, childVars, NextJobNumber
<1>7. CASE AddState
  BY <1>7 DEF AddState, At, AddsTo, Goto, childVars
<1>8. CASE AddCount
  BY <1>8
<1>9. CASE LineOver
  BY <1>9 DEF LineOver, At, Goto, childVars, table, locals
<1>10. CASE ForkStage
  BY <1>10
<1>11. CASE ForkStageFails
  BY <1>11
<1>12. CASE SetForeground
  BY <1>12 DEF SetForeground, At, Goto, table, childVars, locals
<1>13. CASE CallWait
  BY <1>13 DEF CallWait, At, Goto, childVars, table, locals
<1>14. CASE WaitReturns
  BY <1>14
<1>15. CASE CommandOver
  BY <1>15 DEF CommandOver, At, Goto, childVars, table, locals
<1>16. CASE FgContinues
  BY <1>16 DEF FgContinues, At, Goto, childVars, table, locals
<1>17. CASE FgSetsForeground
  BY <1>17 DEF FgSetsForeground, At, Goto, childVars, table, locals
<1>18. CASE FgTakesJob
  BY <1>18 DEF FgTakesJob, At
<1>19. CASE BgContinues
  BY <1>19 DEF BgContinues, At, Goto, table, childVars, locals
<1>20. CASE BgMarks
  BY <1>20 DEF BgMarks, At, Goto, childVars, locals, table
<1>21. CASE LogoutKills
  BY <1>21 DEF LogoutKills, At, Goto, childVars, table, locals
<1>22. CASE \E stages \in Stages, background \in BOOLEAN :
                ReadCommand(stages, background)
  BY <1>22 DEF ReadCommand, Goto, NextCommand, At, childVars, table, locals
<1>23. CASE ReadFg
  BY <1>23 DEF ReadFg, Goto, NextCommand, At, childVars, table, locals
<1>24. CASE ReadBg
  BY <1>24 DEF ReadBg, Goto, NextCommand, At, childVars, table, locals
<1>25. CASE ReadPing
  BY <1>25 DEF ReadPing, Goto, NextCommand, At, table, childVars, locals
<1>26. CASE ReadEof
  BY <1>26 DEF ReadEof, At, Goto, childVars, table, locals
<1>27. CASE ReadExit
  BY <1>27 DEF ReadExit, Goto, NextCommand, At, childVars, table, locals
<1>28. CASE SigchldStarts
  BY <1>28 DEF SigchldStarts, Goto, locals
<1>29. CASE SigchldReaps
  BY <1>29, ReapsApart
<1>30. CASE SigchldEnds
  BY <1>30 DEF SigchldEnds, childVars, table, locals
<1>31. CASE Key
  BY <1>31 DEF Key, locals
<1>32. CASE Processes
  BY <1>32 DEF Processes, locals
<1>33. CASE UNCHANGED vars
  BY <1>33 DEF vars, childVars, table, locals
<1> QED
  BY <1>1, <1>2, <1>3, <1>4, <1>5, <1>6, <1>7, <1>8, <1>9, <1>10, <1>11,
     <1>12, <1>13, <1>14, <1>15, <1>16, <1>17, <1>18, <1>19, <1>20, <1>21,
     <1>22, <1>23, <1>24, <1>25, <1>26, <1>27, <1>28, <1>29, <1>30, <1>31,
     <1>32, <1>33 DEF Next, Main, Check, Add, Launch, FgBg, Read, Sigchld

(* No command on its own is lost that has not been reaped.                 *)
LEMMA LostStep ==
  ASSUME Inv, Sound, [Next]_vars, ~undercut'
  PROVE  LostInv'
<1>. /\ UsedInv /\ LostInv /\ LaunchInv /\ TypeOK /\ CountInv /\ PidsInv
     /\ ForkedInv /\ pids \in Seq(Pid) /\ job_count \in Int
  BY UsedSlots DEF Sound, Inv, ForkInv, TypeOK
<1> SUFFICES ASSUME NEW p \in Pid, Single(p)', proc'[p] # "gone"
             PROVE  \/ \E s \in Kept' : jobs'[s].pid = p
                    \/ Launching' /\ pids' # <<>> /\ p = Last(pids')
  BY DEF LostInv
<1>1. CASE ForkStage
  <2>1. PICK q \in Pid, first \in Pid \cup {0} :
          Fork(q, first) /\ pids' = Append(pids, q)
    BY <1>1, ForksOne
  <2>2. pids' # <<>> /\ Last(pids') = q
    BY <2>1, AppendTyped
  <2>3. Launching' /\ jobs' = jobs /\ Kept' = Kept /\ pc = "fork"
    BY <1>1 DEF ForkStage, At, Goto, Launched, Launching, Waiting,
       Adding, Kept,
       table
  <2>4. CASE p # q
    <3>1. Single(p) /\ proc[p] # "gone"
      BY <2>1, <2>4, ForkIsNew DEF Inv, TypeOK, Single
    <3>2. pids # <<>> => lead[Last(pids)] # 0
      BY <2>3, LastTyped DEF ForkedInv
    <3> QED
      BY <2>3, <3>1, <3>2 DEF LostInv, Single
  <2> QED
    BY <2>2, <2>3, <2>4
<1>2. CASE ~ForkStage
  <2>1. Single(p) /\ proc[p] # "gone"
    BY <1>2, KindsOfStep DEF Calm, Tells, Single
  <2>2. CASE \E t \in Kept : jobs[t].pid = p
    <3>1. PICK t \in Kept : jobs[t].pid = p
      BY <2>2
    <3>2. CASE AddCount
      BY <3>1, <3>2 DEF AddCount, AddsTo, At, Goto, Kept, PidsInv, Adding
    <3>3. CASE Carried
      <4>1. PICK m \in [Slot -> Slot] :
              /\ \A s \in Kept' : SameJob(s, m[s])
              /\ Dropped(t) \/ \E s \in Kept' : m[s] = t
        BY <3>1, <3>3 DEF Carried
      <4>2. CASE \E s \in Kept' : m[s] = t
        BY <3>1, <4>1, <4>2 DEF SameJob
      <4>3. CASE FgTakesJob /\ t = job_index
        <5>1. pids' = <<p>> /\ job_index < job_count
          BY <3>1, <4>3 DEF FgTakesJob, At, UsedInv, Choosing
        <5>2. Launching'
          BY <4>3, <5>1 DEF FgTakesJob, EntersRemove, Goto, Launching, Waiting,
             Taking
        <5>3. pids' # <<>> /\ Last(pids') = p
          <6>1. Len(<<p>>) = 1 /\ <<p>>[1] = p /\ Len(<<>>) = 0
            OBVIOUS
          <6>2. Last(<<p>>) = <<p>>[Len(<<p>>)]
            BY Zenon DEF Last
          <6> QED
            BY <5>1, <6>1, <6>2, Zenon
        <5> QED
          BY <5>2, <5>3
      <4> QED
        BY <3>1, <4>1, <4>2, <4>3 DEF Dropped
    <3> QED
      BY <3>2, <3>3, CarriedStep DEF Sound
  <2>3. CASE Launching /\ pids # <<>> /\ p = Last(pids)
    <3>1. /\ p = pids[Len(pids)]
          /\ Len(pids) \in Nat \ {0}
          /\ Head(pids) = pids[1]
      BY <2>3, LastTyped
    <3>2. CASE ForkStageFails
      BY <2>1, <3>1, <3>2 DEF ForkStageFails, At, ForkedInv, Single
    <3>3. CASE AddCount
      <4>1. job_count \in Kept' /\ jobs' = jobs /\ pc = "addcount"
        BY <3>3 DEF AddCount, AddsTo, At, Goto, Kept, UsedInv, PidsInv, Adding
      <4>2. jobs[job_count].pid = p
        BY <2>3, <4>1 DEF LaunchInv, Filled
      <4> QED
        BY <4>1, <4>2
    <3>4. CASE WaitReturns
      <4>1. CASE pids' = Tail(pids) /\ Len(pids) > 1 /\ pc' = "wait"
        BY <2>3, <4>1, TailTyped DEF Launching, Waiting
      <4>2. CASE pids' = pids /\ pc' = "addpid"
        BY <2>3, <4>2 DEF Launching, Adding
      <4>3. CASE pids' = <<>> /\ Len(pids) <= 1
        <5>1. p = Head(pids)
          BY <3>1, <4>3
        <5>2. proc[p] # "stopped"
          BY <2>3, <3>4, <4>3, <5>1 DEF WaitReturns, WaitEnds
        <5>3. proc'[p] = "gone"
          BY <3>4, <5>1, <5>2
          DEF WaitReturns, Waitable, Reported, TypeOK, ChildrenTypeOK
        <5> QED
          BY <5>3
      <4> QED
        BY <3>4, <4>1, <4>2, <4>3 DEF WaitReturns, WaitEnds, Goto
    <3> QED
      BY <1>2, <2>3, <3>2, <3>3, <3>4, LaunchGoesOn DEF UsedInv
  <2> QED
    BY <2>1, <2>2, <2>3 DEF LostInv
<1> QED
  BY <1>1, <1>2

(* What has been undercut stays so.                                        *)
LEMMA UndercutStays ==
  ASSUME ~undercut', [Next]_vars
  PROVE  ~undercut
<1>1. CASE NothingToReport
  BY <1>1 DEF NothingToReport
<1>2. CASE CheckReaps
  BY <1>2 DEF CheckReaps
<1>3. CASE FoundJob
  BY <1>3 DEF FoundJob
<1>4. CASE RemoveJob
  BY <1>4 DEF RemoveJob
<1>5. CASE AddPid
  BY <1>5 DEF AddPid, AddsTo
<1>6. CASE AddNumber
  BY <1>6 DEF AddNumber, AddsTo
<1>7. CASE AddState
  BY <1>7 DEF AddState, AddsTo
<1>8. CASE AddCount
  BY <1>8 DEF AddCount, AddsTo
<1>9. CASE LineOver
  BY <1>9 DEF LineOver
<1>10. CASE ForkStage
  BY <1>10 DEF ForkStage
<1>11. CASE ForkStageFails
  BY <1>11 DEF ForkStageFails
<1>12. CASE SetForeground
  BY <1>12 DEF SetForeground
<1>13. CASE CallWait
  BY <1>13 DEF CallWait
<1>14. CASE WaitReturns
  BY <1>14 DEF WaitReturns
<1>15. CASE CommandOver
  BY <1>15 DEF CommandOver
<1>16. CASE FgContinues
  BY <1>16 DEF FgContinues
<1>17. CASE FgSetsForeground
  BY <1>17 DEF FgSetsForeground
<1>18. CASE FgTakesJob
  BY <1>18 DEF FgTakesJob
<1>19. CASE BgContinues
  BY <1>19 DEF BgContinues
<1>20. CASE BgMarks
  BY <1>20 DEF BgMarks
<1>21. CASE LogoutKills
  BY <1>21 DEF LogoutKills
<1>22. CASE \E stages \in Stages, background \in BOOLEAN :
                ReadCommand(stages, background)
  BY <1>22 DEF ReadCommand
<1>23. CASE ReadFg
  BY <1>23 DEF ReadFg
<1>24. CASE ReadBg
  BY <1>24 DEF ReadBg
<1>25. CASE ReadPing
  BY <1>25 DEF ReadPing
<1>26. CASE ReadEof
  BY <1>26 DEF ReadEof
<1>27. CASE ReadExit
  BY <1>27 DEF ReadExit
<1>28. CASE SigchldStarts
  BY <1>28 DEF SigchldStarts
<1>29. CASE SigchldReaps
  BY <1>29, ReapsApart
<1>30. CASE SigchldEnds
  BY <1>30 DEF SigchldEnds
<1>31. CASE Key
  BY <1>31 DEF Key
<1>32. CASE Processes
  BY <1>32 DEF Processes
<1>33. CASE UNCHANGED vars
  BY <1>33 DEF vars, childVars, table, locals
<1> QED
  BY <1>1, <1>2, <1>3, <1>4, <1>5, <1>6, <1>7, <1>8, <1>9, <1>10, <1>11,
     <1>12, <1>13, <1>14, <1>15, <1>16, <1>17, <1>18, <1>19, <1>20, <1>21,
     <1>22, <1>23, <1>24, <1>25, <1>26, <1>27, <1>28, <1>29, <1>30, <1>31,
     <1>32, <1>33 DEF Next, Main, Check, Add, Launch, FgBg, Read, Sigchld

-----------------------------------------------------------------------------
(* The inductive invariant.                                                *)

IInv == Inv /\ (~undercut => Sound)

(* The shell starts with an empty table and no child.                      *)
LEMMA NoneInUse ==
  ASSUME Init
  PROVE  /\ TypeOK
         /\ pids = <<>> /\ Len(pids) = 0 /\ Kept = {}
         /\ pc = "check" /\ job_count = 0 /\ foreground_pid = 0
         /\ Forked = {} /\ \A p \in Pid : lead[p] = 0 /\ group[p] = 0
         /\ \A s \in Slot : jobs[s].pid = 0
<1> USE ShellJobsAssumption, ChildrenAssumption
<1>1. ChildrenTypeOK
  BY DEF Init, ChildrenInit, ChildrenTypeOK, ProcState, Resumed, Pid
<1>2. jobs \in [Slot -> Job] /\ \A s \in Slot : jobs[s].pid = 0
  BY DEF Init, Job, JobState, Slot
<1>3. pids = <<>> /\ pids \in Seq(Pid) /\ Len(pids) = 0
  BY EmptySeq DEF Init
<1>4. /\ 0 \in Slot /\ 0 \in -1 .. MaxNumber /\ 1 \in 1 .. MaxNumber + 1
      /\ command \in [stages : Stages \cup {1}, background : BOOLEAN]
  BY DEF Init, Slot
<1>5. TypeOK
  BY <1>1, <1>2, <1>3, <1>4 DEF Init, TypeOK, MainPc, JobState
<1>6. /\ Forked = {} /\ \A p \in Pid : lead[p] = 0 /\ group[p] = 0
  BY DEF Init, ChildrenInit, Forked
<1> QED
  BY <1>2, <1>3, <1>5, <1>6 DEF Init, Kept

(* The invariant holds at the start.                                       *)
LEMMA IInvInit ==
  ASSUME Init
  PROVE  IInv
<1>. /\ TypeOK /\ pids = <<>> /\ Len(pids) = 0 /\ Kept = {}
     /\ pc = "check" /\ job_count = 0 /\ foreground_pid = 0
     /\ Forked = {} /\ \A p \in Pid : lead[p] = 0 /\ group[p] = 0
     /\ \A s \in Slot : jobs[s].pid = 0
  BY NoneInUse
<1>0. ~Launching /\ ~Waiting /\ ~Adding /\ ~Filled /\ ~Choosing
  BY DEF Launching, Waiting, Adding, Filled, Choosing, Taking
<1>1. CountInv
  BY <1>0, ShellJobsAssumption DEF Init, CountInv
<1>2. PidsInv /\ SlotInv
  BY <1>0 DEF PidsInv, SlotInv
<1>3. ForkInv
  <2>1. OrderedPids
    <3>1. 0 \in 0 .. MaxPid /\ Forked = 1 .. 0
      BY ChildrenAssumption
    <3> QED
      BY <3>1 DEF OrderedPids
  <2>2. GroupInv /\ ForkedInv
    BY DEF Init, ChildrenInit, GroupInv, Behind, Stopped, ForkedInv
  <2> QED
    BY <2>1, <2>2 DEF ForkInv
<1>4. UsedInv /\ StatusInv /\ UniqueInv /\ LiveInv /\ OrderInv
  BY <1>0 DEF UsedInv, StatusInv, UniqueInv, LiveInv, OrderInv
<1>5. LaunchInv /\ StopInv /\ FgInv
  BY <1>0 DEF LaunchInv, StopInv, FgInv
<1>6. LostInv
  BY DEF LostInv, Single, Forked
<1> QED
  BY <1>1, <1>2, <1>3, <1>4, <1>5, <1>6 DEF IInv, Inv, Sound

(* The invariant is inductive.                                             *)
LEMMA IInvStep ==
  ASSUME IInv, [Next]_vars
  PROVE  IInv'
<1>1. Inv'
  BY InvStep DEF IInv
<1>2. ASSUME ~undercut' PROVE Sound'
  <2>1. Inv /\ Sound
    BY <1>2, UndercutStays DEF IInv
  <2>2. UsedInv' /\ StatusInv' /\ UniqueInv' /\ OrderInv'
    BY <1>2, <2>1, UsedStep, StatusStep, UniqueStep, OrderStep DEF Sound
  <2>3. LiveInv' /\ LaunchInv' /\ StopInv' /\ FgInv' /\ LostInv'
    BY <1>2, <2>1, LiveStep, LaunchStep, StopStep, FgStep, LostStep
  <2> QED
    BY <2>2, <2>3 DEF Sound
<1> QED
  BY <1>1, <1>2 DEF IInv

(* The invariant holds of every behaviour of the shell: whatever the user  *)
(* types, the children do and the handlers interrupt.                      *)
THEOREM InvariantHolds ==
  Spec => []IInv
<1>1. Init => IInv
  BY IInvInit
<1>2. IInv /\ [Next]_vars => IInv'
  BY IInvStep
<1> QED
  BY <1>1, <1>2, PTL DEF Spec

-----------------------------------------------------------------------------
(* What the shell promises follows from it.                                *)

(* At the prompt every slot in use is kept, and nothing is being launched. *)
LEMMA PromptSlots ==
  ASSUME Inv, AtPrompt
  PROVE  Kept = 0 .. job_count - 1 /\ pc = "read" /\ ~Launching
  BY DEF AtPrompt, At, Kept, Launching, Waiting, Adding, Taking

(* Every variable keeps its type: whatever a handler does to the table     *)
(* under the main program, job_count stays within the numbers given away   *)
(* and goes no further below zero than -1 (background.c:28-38).            *)
THEOREM JobsTyped ==
  Spec => []TypeOK
<1>1. IInv => TypeOK
  BY DEF IInv, Inv
<1> QED
  BY <1>1, InvariantHolds, PTL

(* As long as no handler has undercut the main program, every command that *)
(* has not ended is listed exactly once at the prompt, so that fg and bg   *)
(* reach it (pipes.c:181 and 192-198, background.c:184-225).               *)
THEOREM EveryCommandListedOnce ==
  Spec => []NoJobLost
<1>1. IInv => NoJobLost
  <2> SUFFICES ASSUME IInv, AtPrompt, ~undercut,
                      NEW p \in Pid, Single(p), Alive(p)
               PROVE  Cardinality(SlotsOf(p)) = 1
    BY DEF NoJobLost
  <2>1. Inv /\ UniqueInv /\ LostInv
    BY DEF IInv, Sound
  <2>2. /\ Kept = 0 .. job_count - 1 /\ ~Launching
        /\ proc[p] # "gone"
    BY <2>1, PromptSlots DEF Alive
  <2>3. PICK s \in Kept : jobs[s].pid = p
    BY <2>1, <2>2 DEF LostInv
  <2>4. SlotsOf(p) = {s}
    BY <2>1, <2>2, <2>3 DEF SlotsOf, UniqueInv
  <2> QED
    BY <2>4, FS_Singleton
<1> QED
  BY <1>1, InvariantHolds, PTL

(* A listed job whose stop has been reported is marked as stopped at the   *)
(* prompt, whoever took the report: the main loop, the handler, or the     *)
(* wait that turned the command into a job (background.c:67-76 and         *)
(* 221-225).                                                               *)
THEOREM StopsAreKept ==
  Spec => []StopIsKept
<1>1. IInv => StopIsKept
  BY PromptSlots DEF IInv, Sound, StopIsKept, StopInv
<1> QED
  BY <1>1, InvariantHolds, PTL

(* No job is listed at the prompt whose process has been reaped            *)
(* (background.c:64-73).                                                   *)
THEOREM NoGhostAtPrompt ==
  Spec => []NoGhosts
<1>1. IInv => NoGhosts
  BY PromptSlots DEF IInv, Sound, NoGhosts, Ghosts, LiveInv
<1> QED
  BY <1>1, InvariantHolds, PTL

(* The jobs are listed in the order of their numbers, all of them below    *)
(* the next number, however jobs are removed (background.c:28-57 and 190). *)
THEOREM ListedInOrder ==
  Spec => []NumbersIncrease
<1>1. IInv => NumbersIncrease
  <2> SUFFICES ASSUME IInv, AtPrompt, ~undercut
               PROVE  \A s \in 0 .. job_count - 1 :
                        /\ jobs[s].job_number < next_job_number
                        /\ \A r \in 0 .. s - 1 :
                             jobs[r].job_number < jobs[s].job_number
    BY DEF NumbersIncrease
  <2>1. Kept = 0 .. job_count - 1 /\ OrderInv /\ job_count \in Int
    BY PromptSlots, UsedSlots DEF IInv, Inv, Sound
  <2>2. \A s \in Kept : \A r \in 0 .. s - 1 : r \in Kept /\ r < s
    BY <2>1
  <2> QED
    BY <2>1, <2>2 DEF OrderInv
<1> QED
  BY <1>1, InvariantHolds, PTL

(* Ctrl-C and Ctrl-Z reach the single command the shell is waiting for,    *)
(* once it runs (pipes.c:184-186, signals.c:31-32).                        *)
THEOREM KeysReachWaitedFor ==
  Spec => []KeysReachCommand
<1>1. IInv => KeysReachCommand
  <2> SUFFICES ASSUME IInv, pc = "waiting", ~undercut,
                      Single(Head(pids)), proc[Head(pids)] = "running"
               PROVE  Head(pids) \in KeyReaches
    BY DEF KeysReachCommand
  <2>1. /\ pids # <<>> /\ pids \in Seq(Pid) /\ FgInv /\ GroupInv
    BY DEF IInv, Inv, Sound, TypeOK, PidsInv, Launching, Waiting, ForkInv
  <2>2. Head(pids) = pids[1] /\ Head(pids) \in Pid /\ 1 \in 1 .. Len(pids)
    BY <2>1, LastTyped
  <2>3. lead[Head(pids)] = 0 /\ group[Head(pids)] = Head(pids)
    BY <2>1, <2>2 DEF Single, GroupInv, Behind
  <2>4. foreground_pid = Head(pids)
    BY <2>1, <2>2, <2>3 DEF FgInv, Waiting
  <2> QED
    BY <2>2, <2>3, <2>4 DEF KeyReaches, Pid
<1> QED
  BY <1>1, InvariantHolds, PTL

(* Ctrl-C and Ctrl-Z neither stop nor end a listed job, nor leave it a     *)
(* SIGINT to end by later, unless it is the command in the foreground:     *)
(* its stop has just been listed and foreground_pid is not 0 yet, or fg is *)
(* taking it off the list (signals.c:31-32, pipes.c:196-200,               *)
(* background.c:213-228).                                                  *)
THEOREM KeysNeverHitJobs ==
  Spec => KeysSpareJobs
<1>1. ASSUME IInv, Key, ~undercut, NEW p \in Pid, Single(p),
             SlotsOf(p) # {}, ~InForeground(p)
      PROVE  proc'[p] = proc[p] /\ resume'[p] = resume[p]
  <2>1. /\ Inv /\ Sound /\ TypeOK /\ FgInv /\ GroupInv /\ LaunchInv
        /\ ChildrenTypeOK /\ pids \in Seq(Pid) /\ PidsInv
    BY <1>1 DEF IInv, Sound, Inv, ForkInv, TypeOK
  <2>2. PICK sig \in {"INT", "TSTP"} : Kill(KeyReaches, sig)
    BY <1>1 DEF Key
  <2>3. CASE ~Behind(p)
    <3>1. Reaction(p, sig) = proc[p] /\ Pends(p, sig) = resume[p]
      BY <2>2, <2>3 DEF Behind, Stopped, Reaction, Pends
    <3> QED
      BY <2>2, <3>1 DEF Kill
  <2>4. CASE Behind(p)
    <3>1. group[p] = p /\ p # 0
      BY <1>1, <2>1, <2>4 DEF GroupInv, Single, Pid
    <3>2. foreground_pid # p
      <4>1. CASE pc \in {"over", "fgtake", "remove"}
        BY <1>1, <4>1 DEF InForeground
      <4>2. CASE pc \notin {"over", "fgtake", "remove"}
        <5>1. PICK s \in Kept : jobs[s].pid = p
          BY <1>1, <4>2 DEF SlotsOf, Kept
        <5>2. CASE Waiting
          <6>1. Launching /\ pids # <<>>
            BY <2>1, <5>2 DEF Launching, PidsInv, Waiting, Taking
          <6>2. 1 \in 1 .. Len(pids)
            BY <2>1, <6>1, LastTyped
          <6>3. pids[1] # p
            BY <2>1, <5>1, <6>1, <6>2 DEF LaunchInv
          <6> QED
            BY <2>1, <3>1, <5>2, <6>3 DEF FgInv
        <5>3. CASE Adding
          <6>1. Launching /\ pids # <<>> /\ back \in {"next", "over"}
            BY <2>1, <5>3 DEF Launching, PidsInv, Adding
          <6>2. Last(pids) = pids[Len(pids)] /\ Len(pids) \in 1 .. Len(pids)
            BY <2>1, <6>1, LastTyped
          <6>3. Last(pids) # p
            BY <2>1, <5>1, <6>1, <6>2 DEF LaunchInv
          <6> QED
            BY <2>1, <3>1, <5>3, <6>1, <6>3 DEF FgInv
        <5>4. pc \notin Ended
          BY <1>1 DEF Key
        <5> QED
          BY <2>1, <3>1, <4>2, <5>2, <5>3, <5>4 DEF FgInv
      <4> QED
        BY <4>1, <4>2
    <3>3. p \notin KeyReaches
      BY <3>1, <3>2 DEF KeyReaches
    <3> QED
      BY <2>1, <2>2, <3>3, KillTyped
  <2> QED
    BY <2>3, <2>4
<1>2. IInv /\ [Next]_vars =>
        [Key /\ ~undercut =>
           \A p \in Pid :
             Single(p) /\ SlotsOf(p) # {} /\ ~InForeground(p) =>
               proc'[p] = proc[p] /\ resume'[p] = resume[p]]_vars
  BY <1>1
<1> QED
  BY <1>2, InvariantHolds, PTL DEF Spec, KeysSpareJobs

=============================================================================

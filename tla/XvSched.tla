------------------------------ MODULE XvSched -------------------------------
(***************************************************************************)
(* The schedulers the patch adds to xv6: every CPU's scheduler() loop for  *)
(* round robin, FCFS, CFS and MLFQ, and the timer interrupt's side of      *)
(* them, yield and mlfq_timer_tick.                                        *)
(***************************************************************************)
EXTENDS XvProc

CONSTANT BoostPeriod    \* ticks between two boosts

ASSUME XvSchedAssumption == BoostPeriod \in Nat \ {0}

VARIABLES
  best, best_key,    \* a CPU's choice so far: earliest and earliest_time,
                     \* selected and min_vruntime
  start_ticks,       \* CFS: the tick at which its process got the CPU
  last_boost_tick,
  touched            \* history: the processes whose state or key has changed
                     \* since a CPU began to choose

choice == <<best, best_key, start_ticks>>
procVars == <<policy, state, on_ticks, creation_time, vruntime, queues, child,
              locks, ticks, cpuVars>>
vars == <<procVars, choice, last_boost_tick, touched>>

(* What a policy prefers the least of; round robin prefers nothing.        *)
Key(p) ==
  IF policy = "FCFS" THEN creation_time[p]
  ELSE IF policy = "CFS" THEN vruntime[p]
  ELSE IF policy = "MLFQ" THEN queue_level[p]
  ELSE 0

Choosing == {"scan", "commit"}

Place == Choosing \cup
  {"loop", "boost", "boosted", "alloc", "clock", "user", "expired",
   "start", "end", "demote", "demoted"}

TypeOK ==
  /\ policy \in Policies
  /\ state \in [Proc -> ProcState]
  /\ on_ticks \subseteq Proc
  /\ creation_time \in [Proc -> 0 .. MaxTicks]
  /\ vruntime \in [Proc -> 0 .. MaxTicks]
  /\ queue_level \in [Proc -> Queue]
  /\ time_used \in [Proc -> Nat]
  /\ queue_time_slice \in [Proc -> {Slices[q] : q \in Queue}]
  /\ child \in [Proc -> Proc \cup {None}]
  /\ holder \in [Proc -> CPU \cup {NoCpu}]
  /\ tickslock \in {Boot, NoCpu}
  /\ ticks \in 0 .. MaxTicks
  /\ pc \in [CPU -> Place]
  /\ cproc \in [CPU -> Proc \cup {None}]
  /\ index \in [CPU -> Nat]
  /\ new \in [CPU -> Proc \cup Queue]
  /\ best \in [CPU -> Proc \cup {None}]
  /\ best_key \in [CPU -> Nat]
  /\ start_ticks \in [CPU -> 0 .. MaxTicks]
  /\ last_boost_tick \in 0 .. MaxTicks
  /\ touched \in [CPU -> SUBSET Proc]

Init ==
  /\ ProcInit
  /\ best = [c \in CPU |-> None]
  /\ best_key = [c \in CPU |-> 0]
  /\ start_ticks = [c \in CPU |-> 0]
  /\ last_boost_tick = 0
  /\ touched = [c \in CPU |-> {}]

-----------------------------------------------------------------------------
(* Choosing a process.                                                     *)

(* The top of the loop, with the interrupts off again.  MLFQ looks whether *)
(* it is time for a boost.  That CFS gives up at once when it counts no    *)
(* runnable process changes nothing that another pass would not.           *)
LoopBegins(c) ==
  /\ pc[c] = "loop"
  /\ Goto(c, IF policy = "MLFQ" /\ ticks > 0
                /\ ticks >= last_boost_tick + BoostPeriod
             THEN "boost" ELSE "scan")
  /\ UNCHANGED <<policy, state, on_ticks, creation_time, vruntime, queues,
                 child, locks, ticks, cproc, index, new, choice,
                 last_boost_tick>>

(* mlfq_boost_all_processes takes no lock: mlfq_move_to_queue writes the   *)
(* level first, the rest afterwards.                                       *)
BoostMoves(c) ==
  /\ pc[c] = "boost"
  /\ index[c] \in Proc
  /\ IF state[index[c]] # "UNUSED"
     THEN /\ queue_level' = [queue_level EXCEPT ![index[c]] = 0]
          /\ Goto(c, "boosted")
          /\ UNCHANGED index
     ELSE /\ index' = [index EXCEPT ![c] = @ + 1]
          /\ UNCHANGED <<queue_level, pc>>
  /\ UNCHANGED <<policy, state, on_ticks, creation_time, vruntime, time_used,
                 queue_time_slice, child, locks, ticks, cproc, new, choice,
                 last_boost_tick>>

BoostMoved(c) ==
  /\ pc[c] = "boosted"
  /\ time_used' = [time_used EXCEPT ![index[c]] = 0]
  /\ queue_time_slice' = [queue_time_slice EXCEPT ![index[c]] = Slices[0]]
  /\ index' = [index EXCEPT ![c] = @ + 1]
  /\ Goto(c, "boost")
  /\ UNCHANGED <<policy, state, on_ticks, creation_time, vruntime, queue_level,
                 child, locks, ticks, cproc, new, choice, last_boost_tick>>

BoostEnds(c) ==
  /\ pc[c] = "boost"
  /\ index[c] \notin Proc
  /\ last_boost_tick' = ticks
  /\ index' = [index EXCEPT ![c] = 1]
  /\ Goto(c, "scan")
  /\ UNCHANGED <<policy, state, on_ticks, creation_time, vruntime, queues,
                 child, locks, ticks, cproc, new, choice>>

(* The process p gets the CPU c.  In CFS the scheduler keeps p->lock and   *)
(* waits for tickslock first.                                              *)
Runs(c, p) ==
  /\ state' = [state EXCEPT ![p] = "RUNNING"]
  /\ cproc' = [cproc EXCEPT ![c] = p]
  /\ index' = [index EXCEPT ![c] = 1]
  /\ IF policy = "CFS"
     THEN holder' = [holder EXCEPT ![p] = c] /\ Goto(c, "start")
     ELSE Goto(c, "user") /\ UNCHANGED holder

(* Mutant of Better: every process that is ready replaces the choice.      *)
BetterMutant(c, p) == state[p] = "RUNNABLE"

(* One slot of the loop of FCFS and CFS, under its lock.                   *)
Better(c, p) ==
  state[p] = "RUNNABLE" /\ (best[c] = None \/ Key(p) < best_key[c])

ScanLeast(c) ==
  /\ policy \in {"FCFS", "CFS"}
  /\ Free(index[c])
  /\ IF Better(c, index[c])
     THEN /\ best' = [best EXCEPT ![c] = index[c]]
          /\ best_key' = [best_key EXCEPT ![c] = Key(index[c])]
     ELSE UNCHANGED <<best, best_key>>
  /\ index' = [index EXCEPT ![c] = @ + 1]
  /\ UNCHANGED <<state, holder, pc, cproc>>

(* One step of mlfq_find_highest_priority_proc, without any lock: the      *)
(* queues from 0 on, and in each of them the slots from the first on.      *)
ScanQueue(c) ==
  LET queue == (index[c] - 1) \div NPROC
      p == ((index[c] - 1) % NPROC) + 1
  IN  /\ policy = "MLFQ"
      /\ IF state[p] = "RUNNABLE" /\ queue_level[p] = queue
         THEN /\ best' = [best EXCEPT ![c] = p]
              /\ index' = [index EXCEPT ![c] = 1]
              /\ Goto(c, "commit")
         ELSE /\ index' = [index EXCEPT ![c] = @ + 1]
              /\ UNCHANGED <<best, pc>>
      /\ UNCHANGED <<state, holder, cproc, best_key>>

(* One slot of round robin: a process that is ready runs at once.          *)
ScanNext(c) ==
  /\ policy = "RR"
  /\ Free(index[c])
  /\ IF state[index[c]] = "RUNNABLE"
     THEN Runs(c, index[c])
     ELSE /\ index' = [index EXCEPT ![c] = @ + 1]
          /\ UNCHANGED <<state, holder, pc, cproc>>
  /\ UNCHANGED <<best, best_key>>

ScanEnd == IF policy = "MLFQ" THEN NPROC * (Lowest + 1) ELSE NPROC

Scan(c) ==
  /\ pc[c] = "scan"
  /\ index[c] <= ScanEnd
  /\ ScanLeast(c) \/ ScanQueue(c) \/ ScanNext(c)
  /\ UNCHANGED <<policy, on_ticks, creation_time, vruntime, queues, child,
                 tickslock, ticks, new, start_ticks, last_boost_tick>>

ScanEnds(c) ==
  /\ pc[c] = "scan"
  /\ index[c] > ScanEnd
  /\ index' = [index EXCEPT ![c] = 1]
  /\ Goto(c, IF best[c] = None THEN "loop" ELSE "commit")
  /\ UNCHANGED <<policy, state, on_ticks, creation_time, vruntime, queues,
                 child, locks, ticks, cproc, new, choice, last_boost_tick>>

(* Mutant of StillReady: the state is not looked at again.                 *)
StillReadyMutant(c) == TRUE

StillReady(c) == state[best[c]] = "RUNNABLE"

(* The second pass: the chosen process runs if it is still ready.          *)
Commit(c) ==
  /\ pc[c] = "commit"
  /\ Free(best[c])
  /\ IF StillReady(c)
     THEN Runs(c, best[c])
     ELSE Goto(c, "loop") /\ UNCHANGED <<state, holder, cproc, index>>
  /\ best' = [best EXCEPT ![c] = None]
  /\ best_key' = [best_key EXCEPT ![c] = 0]
  /\ UNCHANGED <<policy, on_ticks, creation_time, vruntime, queues, child,
                 tickslock, ticks, new, start_ticks, last_boost_tick>>

-----------------------------------------------------------------------------
(* Giving up the CPU.                                                      *)

(* The process of c is in its new state and has switched to the scheduler, *)
(* which holds its lock: CFS waits for tickslock with it, the others       *)
(* release it.  Round robin goes on with the next slot.                    *)
SwitchesOut(c, next) ==
  /\ state' = [state EXCEPT ![cproc[c]] = next]
  /\ IF policy = "CFS"
     THEN /\ holder' = [holder EXCEPT ![cproc[c]] = c]
          /\ Goto(c, "end")
          /\ UNCHANGED <<cproc, index>>
     ELSE /\ holder' = [holder EXCEPT ![cproc[c]] = NoCpu]
          /\ cproc' = [cproc EXCEPT ![c] = None]
          /\ index' = [index EXCEPT ![c] = IF policy = "RR" THEN cproc[c] + 1
                                           ELSE 1]
          /\ Goto(c, IF policy = "RR" THEN "scan" ELSE "loop")

(* sleep on a channel other than the clock, and exit; init never exits.    *)
Leaves(c) ==
  /\ InCall(c)
  /\ Free(cproc[c])
  /\ \/ SwitchesOut(c, "SLEEPING")
     \/ cproc[c] # 1 /\ SwitchesOut(c, "ZOMBIE")
  /\ UNCHANGED <<policy, on_ticks, creation_time, vruntime, queues, child,
                 tickslock, ticks, new, choice, last_boost_tick>>

(* sleep(&ticks, &tickslock): p->lock is taken while tickslock is held.    *)
Pauses(c) ==
  /\ InCall(c)
  /\ tickslock = NoCpu
  /\ Free(cproc[c])
  /\ SwitchesOut(c, "SLEEPING")
  /\ on_ticks' = on_ticks \cup {cproc[c]}
  /\ UNCHANGED <<policy, creation_time, vruntime, queues, child, tickslock,
                 ticks, new, choice, last_boost_tick>>

(* yield, called by the timer interrupt.                                   *)
Yields(c) ==
  /\ pc[c] = "expired"
  /\ policy # "MLFQ"
  /\ Free(cproc[c])
  /\ SwitchesOut(c, "RUNNABLE")
  /\ UNCHANGED <<policy, on_ticks, creation_time, vruntime, queues, child,
                 tickslock, ticks, new, choice, last_boost_tick>>

(* mlfq_timer_tick, called instead: the process gives up the CPU when its  *)
(* slice is used up, and moves to the next queue unless it is in the       *)
(* lowest.                                                                 *)
TimeUsed(c) == time_used[cproc[c]] + 1

(* Mutant of CanFall: the lowest queue is not looked for.                  *)
CanFallMutant(c) == TRUE

CanFall(c) == queue_level[cproc[c]] < Lowest

MlfqTick(c) ==
  /\ pc[c] = "expired"
  /\ policy = "MLFQ"
  /\ Free(cproc[c])
  /\ \/ /\ TimeUsed(c) < queue_time_slice[cproc[c]]
        /\ time_used' = [time_used EXCEPT ![cproc[c]] = @ + 1]
        /\ Goto(c, "user")
        /\ UNCHANGED <<state, holder, cproc, index, new>>
     \/ /\ TimeUsed(c) >= queue_time_slice[cproc[c]]
        /\ CanFall(c)
        /\ time_used' = [time_used EXCEPT ![cproc[c]] = @ + 1]
        /\ holder' = [holder EXCEPT ![cproc[c]] = c]
        /\ new' = [new EXCEPT ![c] = queue_level[cproc[c]] + 1]
        /\ Goto(c, "demote")
        /\ UNCHANGED <<state, cproc, index>>
     \/ /\ TimeUsed(c) >= queue_time_slice[cproc[c]]
        /\ ~CanFall(c)
        /\ time_used' = [time_used EXCEPT ![cproc[c]] = 0]
        /\ SwitchesOut(c, "RUNNABLE")
        /\ UNCHANGED new
  /\ UNCHANGED <<policy, on_ticks, creation_time, vruntime, queue_level,
                 queue_time_slice, child, tickslock, ticks, choice,
                 last_boost_tick>>

DemoteMoves(c) ==
  /\ pc[c] = "demote"
  /\ queue_level' = [queue_level EXCEPT ![cproc[c]] = new[c]]
  /\ Goto(c, "demoted")
  /\ UNCHANGED <<policy, state, on_ticks, creation_time, vruntime, time_used,
                 queue_time_slice, child, locks, ticks, cproc, index, new,
                 choice, last_boost_tick>>

(* Mutant of NextSlice: the slice of the queue that is left.               *)
NextSliceMutant(c) == Slices[new[c] - 1]

NextSlice(c) == Slices[new[c]]

DemoteMoved(c) ==
  /\ pc[c] = "demoted"
  /\ time_used' = [time_used EXCEPT ![cproc[c]] = 0]
  /\ queue_time_slice' = [queue_time_slice EXCEPT ![cproc[c]] = NextSlice(c)]
  /\ new' = [new EXCEPT ![c] = None]
  /\ SwitchesOut(c, "RUNNABLE")
  /\ UNCHANGED <<policy, on_ticks, creation_time, vruntime, queue_level, child,
                 tickslock, ticks, choice, last_boost_tick>>

(* Mutant of ReleasesProc: the lock is kept.                               *)
ReleasesProcMutant(c) == UNCHANGED holder

ReleasesProc(c) == holder' = [holder EXCEPT ![cproc[c]] = NoCpu]

(* Mutant of RunTime: the time before the process ran counts as well.      *)
RunTimeMutant(c) == ticks

RunTime(c) == ticks - start_ticks[c]

(* CFS reads the clock before and after, with p->lock held.                *)
StartTime(c) ==
  /\ pc[c] = "start"
  /\ tickslock = NoCpu
  /\ start_ticks' = [start_ticks EXCEPT ![c] = ticks]
  /\ ReleasesProc(c)
  /\ Goto(c, "user")
  /\ UNCHANGED <<policy, state, on_ticks, creation_time, vruntime, queues,
                 child, tickslock, ticks, cproc, index, new, best, best_key,
                 last_boost_tick>>

EndTime(c) ==
  /\ pc[c] = "end"
  /\ tickslock = NoCpu
  /\ vruntime' = [vruntime EXCEPT ![cproc[c]] = @ + RunTime(c)]
  /\ start_ticks' = [start_ticks EXCEPT ![c] = 0]
  /\ ReleasesProc(c)
  /\ cproc' = [cproc EXCEPT ![c] = None]
  /\ Goto(c, "loop")
  /\ UNCHANGED <<policy, state, on_ticks, creation_time, queues, child,
                 tickslock, ticks, index, new, best, best_key,
                 last_boost_tick>>

-----------------------------------------------------------------------------
Scheduler(c) ==
  \/ LoopBegins(c)
  \/ BoostMoves(c) \/ BoostMoved(c) \/ BoostEnds(c)
  \/ Scan(c) \/ ScanEnds(c) \/ Commit(c)
  \/ StartTime(c) \/ EndTime(c)

Process(c) ==
  \/ Leaves(c) \/ Pauses(c)
  \/ Yields(c) \/ MlfqTick(c) \/ DemoteMoves(c) \/ DemoteMoved(c)

Kernel ==
  /\ \/ \E c \in CPU :
          \/ \E p \in Proc : AllocBegins(c, p) \/ Reap(c, p) \/ Wake(c, p)
          \/ AllocEnds(c) \/ ForkEnds(c) \/ OtherTimer(c)
     \/ ClockBegins \/ ClockWakes \/ ClockEnds
  /\ UNCHANGED <<choice, last_boost_tick>>

(* What the other CPUs change under a CPU that is choosing.                *)
Changed == {p \in Proc : state'[p] # state[p] \/ Key(p)' # Key(p)}

Watch ==
  touched' = [c \in CPU |->
                IF pc[c] \in Choosing /\ pc'[c] \in Choosing
                THEN touched[c] \cup Changed ELSE {}]

Next ==
  /\ (\E c \in CPU : Scheduler(c) \/ Process(c)) \/ Kernel
  /\ Watch

Spec == Init /\ [][Next]_vars

-----------------------------------------------------------------------------
(* What the schedulers promise on any number of CPUs.                      *)

(* proc.c, the patch 19350-19352 and 19446-19449: the look at the state    *)
(* under p->lock keeps a process from running on two CPUs, though both     *)
(* have chosen it; and no process is left RUNNING without a CPU.           *)
RunsOnce ==
  \A p \in Proc :
    /\ \A c, d \in CPU : cproc[c] = p /\ cproc[d] = p => c = d
    /\ state[p] = "RUNNING" =>
         \E c \in CPU : cproc[c] = p

(* The patch 19336-19345, 19385-19394 and 19285-19291: the process that is *)
(* given the CPU is the first by the policy of all that were ready and     *)
(* left alone while the CPU chose; on one CPU, of all that are ready.      *)
Given(c, p) == state[p] = "RUNNABLE" /\ state'[p] = "RUNNING" /\ cproc'[c] = p

PicksBest ==
  [][\A c \in CPU : \A p, q \in Proc \ touched[c] :
       Given(c, p) /\ state[q] = "RUNNABLE" => Key(p) <= Key(q)]_vars

(* The CPU c spins, or in a system call may spin, for a lock that d holds. *)
SpinsFor(c, d) ==
  \/ pc[c] \in {"alloc", "start", "end"} /\ tickslock = d
  \/ pc[c] = "clock" /\ index[c] \in Proc \ {cproc[c]} /\ holder[index[c]] = d
  \/ pc[c] = "scan" /\ policy # "MLFQ" /\ index[c] \in Proc
        /\ holder[index[c]] = d
  \/ pc[c] = "commit" /\ holder[best[c]] = d
  \/ pc[c] = "expired" /\ holder[cproc[c]] = d
  \/ pc[c] = "user" /\ (tickslock = d \/ \E p \in Proc : holder[p] = d)

(* The patch 19211, 19408 and 19415 with clockintr at 19693-19699: no CPU  *)
(* waits for itself, and one that others wait for spins only where the     *)
(* boot CPU is in wakeup(&ticks), which wants p->lock with tickslock held, *)
(* against those that want tickslock with p->lock held.  There is no other *)
(* way to a deadlock.                                                      *)
OnlyClockDeadlocks ==
  \A c, d, e \in CPU : SpinsFor(c, d) /\ SpinsFor(d, e) =>
    c # d /\ d # e /\ pc[Boot] = "clock" /\ Boot \in {d, e}

(* The patch 19271-19277 with the boost of 19296-19304, which takes no     *)
(* lock: until the first boost a process that nobody is moving has the     *)
(* slice of its queue.  A boost that crosses a demotion can leave it in    *)
(* the first queue with another slice, or elsewhere with the slice of the  *)
(* first, and in no other way.                                             *)
Moving(p) ==
  \E c \in CPU :
    \/ pc[c] = "boosted" /\ index[c] = p
    \/ pc[c] = "demoted" /\ cproc[c] = p
    \/ pc[c] = "alloc" /\ new[c] = p

Boosted == last_boost_tick > 0 \/ \E c \in CPU : pc[c] \in {"boost", "boosted"}

SliceOfQueue ==
  \A p \in Proc : ~Moving(p) =>
    \/ queue_time_slice[p] = Slices[queue_level[p]]
    \/ Boosted /\ (queue_level[p] = 0 \/ queue_time_slice[p] = Slices[0])

(* The patch 19407-19423: no process is charged for more time than it has  *)
(* lived, whichever CPUs it has run on.                                    *)
VruntimeEarned ==
  \A p \in Proc : vruntime[p] <= ticks - creation_time[p]

=============================================================================

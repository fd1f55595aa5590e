------------------------------- MODULE XvProc -------------------------------
(***************************************************************************)
(* The xv6 kernel around its scheduler: the process table, the spinlocks   *)
(* p->lock and tickslock, the clock, and the system calls by which a       *)
(* process comes, sleeps and goes.  The patch changes allocproc and        *)
(* clockintr; the rest of xv6 is external and modelled from how the patch  *)
(* and its context use it.                                                 *)
(*                                                                         *)
(* A CPU that holds or waits for a spinlock has its interrupts off, so an  *)
(* action goes from one acquire that may have to wait to the next.         *)
(***************************************************************************)
EXTENDS Integers, FiniteSets

CONSTANTS
  CPU,         \* the harts
  Boot,        \* the one whose timer interrupts count the ticks
  NoCpu,       \* the holder of a lock that is free
  NPROC,       \* slots of the process table
  MaxTicks,    \* bound: the last tick of a run
  Policies,    \* the schedulers that are tried, of those below
  Lowest,      \* the last queue of MLFQ, 3 in the code
  Slices       \* queue_time_slices: the ticks of each queue

ASSUME XvProcAssumption ==
  /\ Boot \in CPU
  /\ NoCpu \notin CPU
  /\ NPROC \in Nat \ {0}
  /\ MaxTicks \in Nat
  /\ Policies \subseteq {"RR", "FCFS", "CFS", "MLFQ"}
  /\ Lowest \in Nat
  /\ Slices \in [0 .. Lowest -> Nat \ {0}]

Proc == 1 .. NPROC

None == 0

Queue == 0 .. Lowest

VARIABLES
  policy,            \* what the kernel is compiled with
  state, on_ticks,   \* the processes' states; those asleep on the clock
  creation_time, vruntime,
  queue_level, time_used, queue_time_slice,
  child,             \* the process that fork has allocated and not yet started
  holder, tickslock, \* who holds p->lock and tickslock
  ticks,
  pc,                \* where each CPU is
  cproc,             \* c->proc, the process it runs
  index,             \* the slot its loop over the process table is at
  new                \* the slot allocproc fills, the queue a process moves to

queues == <<queue_level, time_used, queue_time_slice>>
locks == <<holder, tickslock>>
cpuVars == <<pc, cproc, index, new>>

ProcState == {"UNUSED", "USED", "SLEEPING", "RUNNABLE", "RUNNING", "ZOMBIE"}

(* One process runs, the first; the CPUs are in their schedulers.          *)
ProcInit ==
  /\ policy \in Policies
  /\ state = [p \in Proc |-> IF p = 1 THEN "RUNNABLE" ELSE "UNUSED"]
  /\ on_ticks = {}
  /\ creation_time = [p \in Proc |-> 0]
  /\ vruntime = [p \in Proc |-> 0]
  /\ queue_level = [p \in Proc |-> 0]
  /\ time_used = [p \in Proc |-> 0]
  /\ queue_time_slice = [p \in Proc |-> Slices[0]]
  /\ child = [p \in Proc |-> None]
  /\ holder = [p \in Proc |-> NoCpu]
  /\ tickslock = NoCpu
  /\ ticks = 0
  /\ pc = [c \in CPU |-> "loop"]
  /\ cproc = [c \in CPU |-> None]
  /\ index = [c \in CPU |-> 1]
  /\ new = [c \in CPU |-> None]

Free(p) == holder[p] = NoCpu

Goto(c, place) == pc' = [pc EXCEPT ![c] = place]

(* The process on c executes and holds no spinlock.  Between the halves of *)
(* fork it calls nothing else, but it may be preempted.                    *)
InProcess(c) == pc[c] = "user"

InCall(c) == InProcess(c) /\ child[cproc[c]] = None

(* Where interrupts are on: there, and at the top of the scheduler's loop. *)
Interruptible(c) == pc[c] \in {"user", "loop"}

-----------------------------------------------------------------------------
(* fork: allocproc takes a slot, and keeps its lock while it waits for     *)
(* tickslock; the caller makes the process RUNNABLE later.                 *)
AllocBegins(c, p) ==
  /\ InCall(c)
  /\ state[p] = "UNUSED"
  /\ Free(p)
  /\ state' = [state EXCEPT ![p] = "USED"]
  /\ holder' = [holder EXCEPT ![p] = c]
  /\ new' = [new EXCEPT ![c] = p]
  /\ Goto(c, "alloc")
  /\ UNCHANGED <<policy, on_ticks, creation_time, vruntime, queues, child,
                 tickslock, ticks, cproc, index>>

AllocEnds(c) ==
  /\ pc[c] = "alloc"
  /\ tickslock = NoCpu
  /\ creation_time' = [creation_time EXCEPT ![new[c]] = ticks]
  /\ vruntime' = [vruntime EXCEPT ![new[c]] = 0]
  /\ queue_level' = [queue_level EXCEPT ![new[c]] = 0]
  /\ time_used' = [time_used EXCEPT ![new[c]] = 0]
  /\ queue_time_slice' = [queue_time_slice EXCEPT ![new[c]] = Slices[0]]
  /\ holder' = [holder EXCEPT ![new[c]] = NoCpu]
  /\ child' = [child EXCEPT ![cproc[c]] = new[c]]
  /\ new' = [new EXCEPT ![c] = None]
  /\ Goto(c, "user")
  /\ UNCHANGED <<policy, state, on_ticks, tickslock, ticks, cproc, index>>

ForkEnds(c) ==
  /\ InProcess(c)
  /\ child[cproc[c]] # None
  /\ Free(child[cproc[c]])
  /\ state' = [state EXCEPT ![child[cproc[c]]] = "RUNNABLE"]
  /\ child' = [child EXCEPT ![cproc[c]] = None]
  /\ UNCHANGED <<policy, on_ticks, creation_time, vruntime, queues, locks,
                 ticks, cpuVars>>

(* wait: the slot of a zombie is freed.  Any running process stands for    *)
(* its parent, or for init, which inherits it.                             *)
Reap(c, p) ==
  /\ InCall(c)
  /\ state[p] = "ZOMBIE"
  /\ Free(p)
  /\ state' = [state EXCEPT ![p] = "UNUSED"]
  /\ UNCHANGED <<policy, on_ticks, creation_time, vruntime, queues, child,
                 locks, ticks, cpuVars>>

(* wakeup, by a process or by the interrupt of a device.                   *)
Wake(c, p) ==
  /\ Interruptible(c)
  /\ state[p] = "SLEEPING" /\ p \notin on_ticks
  /\ Free(p)
  /\ state' = [state EXCEPT ![p] = "RUNNABLE"]
  /\ UNCHANGED <<policy, on_ticks, creation_time, vruntime, queues, child,
                 locks, ticks, cpuVars>>

-----------------------------------------------------------------------------
(* clockintr on the boot CPU: wakeup(&ticks) takes the lock of every other *)
(* process while tickslock is held.                                        *)
ClockBegins ==
  /\ Interruptible(Boot)
  /\ ticks < MaxTicks
  /\ tickslock = NoCpu
  /\ tickslock' = Boot
  /\ ticks' = ticks + 1
  /\ index' = [index EXCEPT ![Boot] = 1]
  /\ Goto(Boot, "clock")
  /\ UNCHANGED <<policy, state, on_ticks, creation_time, vruntime, queues,
                 child, holder, cproc, new>>

ClockWakes ==
  /\ pc[Boot] = "clock"
  /\ index[Boot] \in Proc
  /\ index[Boot] # cproc[Boot] => Free(index[Boot])
  /\ IF index[Boot] \in on_ticks
     THEN /\ state' = [state EXCEPT ![index[Boot]] = "RUNNABLE"]
          /\ on_ticks' = on_ticks \ {index[Boot]}
     ELSE UNCHANGED <<state, on_ticks>>
  /\ index' = [index EXCEPT ![Boot] = @ + 1]
  /\ UNCHANGED <<policy, creation_time, vruntime, queues, child, locks, ticks,
                 pc, cproc, new>>

(* A clock interrupt of the scheduler's ends; one of a process goes on to  *)
(* give up the CPU.                                                        *)
ClockEnds ==
  /\ pc[Boot] = "clock"
  /\ index[Boot] \notin Proc
  /\ tickslock' = NoCpu
  /\ index' = [index EXCEPT ![Boot] = 1]
  /\ Goto(Boot, IF cproc[Boot] = None THEN "loop" ELSE "expired")
  /\ UNCHANGED <<policy, state, on_ticks, creation_time, vruntime, queues,
                 child, holder, ticks, cproc, new>>

(* The timer interrupt of another CPU, while a process runs on it.         *)
OtherTimer(c) ==
  /\ c # Boot
  /\ InProcess(c)
  /\ Goto(c, "expired")
  /\ UNCHANGED <<policy, state, on_ticks, creation_time, vruntime, queues,
                 child, locks, ticks, cproc, index, new>>

=============================================================================

--------------------------- MODULE XvSchedProofs ---------------------------
(***************************************************************************)
(* The schedulers keep what they promise, for any number of CPUs,          *)
(* processes, queues and ticks.  The module has three parts: what every    *)
(* place in the code knows (Types, PcInv); who holds the locks, runs and   *)
(* is charged (IInv); and by which policy a process is chosen (PickInv).   *)
(***************************************************************************)
EXTENDS XvSched, TLAPS

(* What a process has.                                                     *)
ProcTyped ==
  /\ state \in [Proc -> ProcState]
  /\ on_ticks \subseteq Proc
  /\ creation_time \in [Proc -> Nat]
  /\ vruntime \in [Proc -> Nat]
  /\ child \in [Proc -> Proc \cup {None}]
  /\ holder \in [Proc -> CPU \cup {NoCpu}]

(* Its queue in MLFQ.                                                      *)
QueueTyped ==
  /\ queue_level \in [Proc -> Queue]
  /\ time_used \in [Proc -> Nat]
  /\ queue_time_slice \in [Proc -> {Slices[q] : q \in Queue}]

(* What a CPU has.                                                         *)
CpuTyped ==
  /\ pc \in [CPU -> Place]
  /\ cproc \in [CPU -> Proc \cup {None}]
  /\ index \in [CPU -> Nat \ {0}]
  /\ new \in [CPU -> Proc \cup Queue]

(* What a CPU has chosen so far.                                           *)
ChoiceTyped ==
  /\ best \in [CPU -> Proc \cup {None}]
  /\ best_key \in [CPU -> Nat]

(* The clock, and what has been read from it.                              *)
ClockTyped ==
  /\ policy \in Policies
  /\ tickslock \in {Boot, NoCpu}
  /\ ticks \in 0 .. MaxTicks
  /\ start_ticks \in [CPU -> Nat]
  /\ \A c \in CPU : start_ticks[c] <= ticks
  /\ last_boost_tick \in 0 .. ticks

(* TypeOK without the bounds on the times, which need TimeInv.             *)
Types == ProcTyped /\ QueueTyped /\ CpuTyped /\ ChoiceTyped /\ ClockTyped

(* What a place in the code says of its CPU: in a process there is one, in *)
(* the loop there is none, tickslock is held in clockintr alone.           *)
PcOf(c) ==
  /\ pc[c] \in {"user", "expired", "start", "end", "demote", "demoted", "alloc"}
       => cproc[c] \in Proc
  /\ pc[c] \in {"loop", "boost", "boosted", "scan", "commit"} => cproc[c] = None
  /\ pc[c] = "clock" => c = Boot /\ tickslock = Boot
  /\ tickslock = Boot => pc[Boot] = "clock"
  /\ pc[c] = "commit" => best[c] \in Proc
  /\ pc[c] = "alloc" => new[c] \in Proc /\ child[cproc[c]] = None
  /\ pc[c] \in {"demote", "demoted"} => new[c] \in Queue
  /\ pc[c] \in {"start", "end"} => policy = "CFS"
  /\ pc[c] \in {"boost", "boosted"} => policy = "MLFQ" /\ ticks > 0
  /\ pc[c] = "boosted" => index[c] \in Proc

(* On every CPU.                                                           *)
PcInv == \A c \in CPU : PcOf(c)

-----------------------------------------------------------------------------
(* The first queue, in which allocproc (the patch 19216-19220) and the     *)
(* boost put a process, and its slice.                                     *)
LEMMA ZeroQueue == 0 \in Queue /\ Slices[0] \in {Slices[q] : q \in Queue}
BY XvProcAssumption DEF Queue

(* What the policies compare is a number.                                  *)
LEMMA KeyTyped ==
  ASSUME ProcTyped, QueueTyped, NEW p \in Proc PROVE Key(p) \in Nat
BY XvProcAssumption DEF ProcTyped, QueueTyped, Key, Queue

(* The history of a choice is of processes.                                *)
LEMMA WatchTyped ==
  touched \in [CPU -> SUBSET Proc] /\ Watch => touched' \in [CPU -> SUBSET Proc]
BY DEF Watch, Changed

(* The initial states have the types.                                      *)
LEMMA TypesInit == Init => Types /\ PcInv
BY XvProcAssumption DEF Init, ProcInit, Types, ProcTyped, QueueTyped, CpuTyped,
   ChoiceTyped, ClockTyped, PcInv, PcOf, Proc, Queue, None, ProcState, Place,
   Choosing

(* A CPU that is in a process, or on the way out of one, has one: c->proc. *)
LEMMA OnCpu ==
  ASSUME PcInv, NEW c \in CPU,
         pc[c] \in {"user", "expired", "start", "end", "demote", "demoted", "alloc"}
  PROVE cproc[c] \in Proc
BY DEF PcInv, PcOf

(* swtch to the scheduler keeps the types.                                 *)
LEMMA SwitchTyped ==
  ASSUME ProcTyped, CpuTyped, NEW c \in CPU, cproc[c] \in Proc,
     NEW next \in ProcState, SwitchesOut(c, next)
  PROVE /\ state' \in [Proc -> ProcState] /\ holder' \in [Proc -> CPU \cup {NoCpu}]
        /\ pc' \in [CPU -> Place]
        /\ cproc' \in [CPU -> Proc \cup {None}]
        /\ index' \in [CPU -> Nat \ {0}]
<1>1. state' \in [Proc -> ProcState]
  BY DEF SwitchesOut, ProcTyped
<1>2. holder' \in [Proc -> CPU \cup {NoCpu}]
  BY DEF SwitchesOut, ProcTyped
<1>3. pc' \in [CPU -> Place]
  BY DEF SwitchesOut, CpuTyped, Goto, Place, Choosing
<1>4. cproc' \in [CPU -> Proc \cup {None}]
  BY DEF SwitchesOut, CpuTyped
<1>5. index' \in [CPU -> Nat \ {0}]
  <2>1. cproc[c] + 1 \in Nat \ {0} /\ 1 \in Nat \ {0}
    BY XvProcAssumption DEF Proc
  <2> QED BY <2>1 DEF SwitchesOut, CpuTyped
<1> QED BY <1>1, <1>2, <1>3, <1>4, <1>5

(* swtch to a process keeps the types.                                     *)
LEMMA RunsTyped ==
  ASSUME ProcTyped, CpuTyped, NEW c \in CPU, NEW p \in Proc, Runs(c, p)
  PROVE /\ state' \in [Proc -> ProcState] /\ holder' \in [Proc -> CPU \cup {NoCpu}]
        /\ pc' \in [CPU -> Place]
        /\ cproc' \in [CPU -> Proc \cup {None}]
        /\ index' \in [CPU -> Nat \ {0}]
<1>1. state' \in [Proc -> ProcState]
  BY DEF Runs, ProcTyped, ProcState
<1>2. holder' \in [Proc -> CPU \cup {NoCpu}]
  BY DEF Runs, ProcTyped
<1>3. pc' \in [CPU -> Place]
  BY DEF Runs, CpuTyped, Goto, Place, Choosing
<1>4. cproc' \in [CPU -> Proc \cup {None}]
  BY DEF Runs, CpuTyped
<1>5. index' \in [CPU -> Nat \ {0}]
  BY DEF Runs, CpuTyped
<1> QED BY <1>1, <1>2, <1>3, <1>4, <1>5

(* The loop over the process table stays in it.                            *)
LEMMA ScanInProc ==
  ASSUME CpuTyped, NEW c \in CPU, index[c] <= ScanEnd, policy # "MLFQ"
  PROVE  index[c] \in Proc
BY XvProcAssumption DEF CpuTyped, ScanEnd, Proc

(* So does the one of mlfq_find_highest_priority_proc, which starts over   *)
(* in every queue.                                                         *)
LEMMA SlotOfIndex ==
  ASSUME NEW i \in Nat \ {0}
  PROVE  ((i - 1) % NPROC) + 1 \in Proc
BY XvProcAssumption DEF Proc

(* Every step keeps the types of what a process has.                       *)
LEMMA ProcTypedStep == Types /\ PcInv /\ [Next]_vars => ProcTyped'
<1> SUFFICES ASSUME Types, PcInv, [Next]_vars PROVE ProcTyped'
  OBVIOUS
<1> USE DEF Types
<1>1. ASSUME NEW c \in CPU, LoopBegins(c) PROVE ProcTyped'
  BY <1>1 DEF LoopBegins, ProcTyped, ProcState, Goto, queues, locks
<1>2. ASSUME NEW c \in CPU, BoostMoves(c) PROVE ProcTyped'
  BY <1>2 DEF BoostMoves, ProcTyped, ProcState, Goto, queues, locks
<1>3. ASSUME NEW c \in CPU, BoostMoved(c) PROVE ProcTyped'
  BY <1>3 DEF BoostMoved, ProcTyped, ProcState, Goto, queues, locks
<1>4. ASSUME NEW c \in CPU, BoostEnds(c) PROVE ProcTyped'
  BY <1>4 DEF BoostEnds, ProcTyped, ProcState, Goto, queues, locks
<1>5. ASSUME NEW c \in CPU, Scan(c) PROVE ProcTyped'
  <2>1. CASE ScanNext(c)
    <3>1. index[c] \in Proc
      BY <1>5, <2>1, ScanInProc DEF Scan, ScanNext
    <3>2. CASE Runs(c, index[c])
      BY <1>5, <3>1, <3>2, RunsTyped DEF Scan, ProcTyped
    <3>3. CASE UNCHANGED <<state, holder>>
      BY <1>5, <3>3 DEF Scan, ProcTyped
    <3> QED
      BY <2>1, <3>2, <3>3 DEF ScanNext
  <2>2. CASE UNCHANGED <<state, holder>>
    BY <1>5, <2>2 DEF Scan, ProcTyped
  <2> QED
    BY <1>5, <2>1, <2>2 DEF Scan, ScanLeast, ScanQueue
<1>6. ASSUME NEW c \in CPU, ScanEnds(c) PROVE ProcTyped'
  BY <1>6 DEF ScanEnds, ProcTyped, ProcState, Goto, ScanEnd, queues, locks
<1>7. ASSUME NEW c \in CPU, Commit(c) PROVE ProcTyped'
  <2>1. best[c] \in Proc
    BY <1>7 DEF Commit, PcInv, PcOf
  <2>2. CASE Runs(c, best[c])
    BY <1>7, <2>1, <2>2, RunsTyped DEF Commit, ProcTyped
  <2>3. CASE UNCHANGED <<state, holder>>
    BY <1>7, <2>3 DEF Commit, ProcTyped
  <2> QED
    BY <1>7, <2>2, <2>3 DEF Commit
<1>8. ASSUME NEW c \in CPU, StartTime(c) PROVE ProcTyped'
  BY <1>8 DEF StartTime, ProcTyped, ProcState, ReleasesProc, Goto, queues, locks
<1>9. ASSUME NEW c \in CPU, EndTime(c) PROVE ProcTyped'
  <2>1. ticks \in Nat /\ start_ticks[c] \in Nat /\ start_ticks[c] <= ticks
    BY <1>9 DEF ClockTyped
  <2>2. RunTime(c) \in Nat
    BY <2>1 DEF RunTime
  <2>3. cproc[c] \in Proc
    BY <1>9, OnCpu DEF EndTime
  <2>4. vruntime[cproc[c]] + RunTime(c) \in Nat
    BY <2>2, <2>3 DEF ProcTyped
  <2>5. vruntime' \in [Proc -> Nat]
    BY <1>9, <2>4 DEF EndTime, ProcTyped
  <2> QED
    BY <1>9, <2>5 DEF EndTime, ReleasesProc, ProcTyped
<1>10. ASSUME NEW c \in CPU, Leaves(c) PROVE ProcTyped'
  <2>1. cproc[c] \in Proc
    BY <1>10, OnCpu DEF Leaves, InCall, InProcess
  <2> QED
    BY <1>10, <2>1, SwitchTyped DEF Leaves, ProcTyped, ProcState, locks
<1>11. ASSUME NEW c \in CPU, Pauses(c) PROVE ProcTyped'
  <2>1. cproc[c] \in Proc
    BY <1>11, OnCpu DEF Pauses, InCall, InProcess
  <2> QED
    BY <1>11, <2>1, SwitchTyped DEF Pauses, ProcTyped, ProcState, locks
<1>12. ASSUME NEW c \in CPU, Yields(c) PROVE ProcTyped'
  <2>1. cproc[c] \in Proc
    BY <1>12, OnCpu DEF Yields
  <2> QED
    BY <1>12, <2>1, SwitchTyped DEF Yields, ProcTyped, ProcState, locks
<1>13. ASSUME NEW c \in CPU, MlfqTick(c) PROVE ProcTyped'
  <2>1. cproc[c] \in Proc
    BY <1>13, OnCpu DEF MlfqTick
  <2>2. CASE SwitchesOut(c, "RUNNABLE")
    BY <1>13, <2>1, <2>2, SwitchTyped DEF MlfqTick, ProcTyped, ProcState
  <2>3. CASE UNCHANGED state /\ holder' \in [Proc -> CPU \cup {NoCpu}]
    BY <1>13, <2>3 DEF MlfqTick, ProcTyped
  <2> QED
    BY <1>13, <2>2, <2>3 DEF MlfqTick, ProcTyped
<1>14. ASSUME NEW c \in CPU, DemoteMoves(c) PROVE ProcTyped'
  BY <1>14 DEF DemoteMoves, ProcTyped, ProcState, Goto, queues, locks
<1>15. ASSUME NEW c \in CPU, DemoteMoved(c) PROVE ProcTyped'
  <2>1. cproc[c] \in Proc
    BY <1>15, OnCpu DEF DemoteMoved
  <2> QED
    BY <1>15, <2>1, SwitchTyped DEF DemoteMoved, ProcTyped, ProcState, locks
<1>16. ASSUME NEW c \in CPU, NEW p \in Proc, AllocBegins(c, p),
   UNCHANGED <<choice, last_boost_tick>> PROVE ProcTyped'
  BY <1>16 DEF AllocBegins, ProcTyped, ProcState, InCall, InProcess, Free, Goto,
     queues, locks
<1>17. ASSUME NEW c \in CPU, NEW p \in Proc, Reap(c, p), UNCHANGED <<choice,
   last_boost_tick>> PROVE ProcTyped'
  BY <1>17 DEF Reap, ProcTyped, ProcState, InCall, InProcess, Free, queues, locks
<1>18. ASSUME NEW c \in CPU, NEW p \in Proc, Wake(c, p), UNCHANGED <<choice,
   last_boost_tick>> PROVE ProcTyped'
  BY <1>18 DEF Wake, ProcTyped, ProcState, Interruptible, Free, queues, locks
<1>19. ASSUME NEW c \in CPU, AllocEnds(c), UNCHANGED <<choice,
   last_boost_tick>> PROVE ProcTyped'
  <2>1. ticks \in Nat
    BY <1>19 DEF ClockTyped
  <2>2. new[c] \in Proc
    BY <1>19 DEF AllocEnds, PcInv, PcOf
  <2> QED
    BY <1>19, <2>1, <2>2 DEF AllocEnds, ProcTyped
<1>20. ASSUME NEW c \in CPU, ForkEnds(c), UNCHANGED <<choice,
   last_boost_tick>> PROVE ProcTyped'
  BY <1>20 DEF ForkEnds, ProcTyped, ProcState, InProcess, Free, None, queues, locks
<1>21. ASSUME NEW c \in CPU, OtherTimer(c), UNCHANGED <<choice,
   last_boost_tick>> PROVE ProcTyped'
  BY <1>21 DEF OtherTimer, ProcTyped, ProcState, InProcess, Goto, queues, locks
<1>22. ASSUME ClockBegins, UNCHANGED <<choice, last_boost_tick>> PROVE ProcTyped'
  BY <1>22 DEF ClockBegins, ProcTyped, ProcState, Interruptible, Goto, queues, locks
<1>23. ASSUME ClockWakes, UNCHANGED <<choice, last_boost_tick>> PROVE ProcTyped'
  BY <1>23 DEF ClockWakes, ProcTyped, ProcState, locks
<1>24. ASSUME ClockEnds, UNCHANGED <<choice, last_boost_tick>> PROVE ProcTyped'
  BY <1>24 DEF ClockEnds, ProcTyped, ProcState, Goto, queues, locks
<1>25. CASE UNCHANGED vars
  BY <1>25 DEF vars, procVars, queues, locks, cpuVars, choice, ProcTyped
<1> QED
  BY <1>1, <1>2, <1>3, <1>4, <1>5, <1>6, <1>7, <1>8, <1>9, <1>10, <1>11, <1>12,
     <1>13, <1>14, <1>15, <1>16, <1>17, <1>18, <1>19, <1>20, <1>21, <1>22, <1>23,
     <1>24, <1>25 DEF Next, Scheduler, Process, Kernel

(* Every step keeps the types of its queue, its slice and its time: a      *)
(* process that falls has a queue below (the patch 19283).                 *)
LEMMA QueueTypedStep == Types /\ PcInv /\ [Next]_vars => QueueTyped'
<1> SUFFICES ASSUME Types, PcInv, [Next]_vars PROVE QueueTyped'
  OBVIOUS
<1> USE DEF Types
<1>1. ASSUME NEW c \in CPU, LoopBegins(c) PROVE QueueTyped'
  BY <1>1, ZeroQueue, XvProcAssumption DEF LoopBegins, QueueTyped, Goto, queues
<1>2. ASSUME NEW c \in CPU, BoostMoves(c) PROVE QueueTyped'
  BY <1>2, ZeroQueue, XvProcAssumption DEF BoostMoves, QueueTyped, Goto, queues
<1>3. ASSUME NEW c \in CPU, BoostMoved(c) PROVE QueueTyped'
  BY <1>3, ZeroQueue, XvProcAssumption DEF BoostMoved, QueueTyped, Goto, queues
<1>4. ASSUME NEW c \in CPU, BoostEnds(c) PROVE QueueTyped'
  BY <1>4, ZeroQueue, XvProcAssumption DEF BoostEnds, QueueTyped, Goto, queues
<1>5. ASSUME NEW c \in CPU, Scan(c) PROVE QueueTyped'
  BY <1>5, ZeroQueue, XvProcAssumption DEF Scan, QueueTyped, ScanLeast,
     ScanQueue, ScanNext, Better, Runs, Goto, Free, ScanEnd, queues
<1>6. ASSUME NEW c \in CPU, ScanEnds(c) PROVE QueueTyped'
  BY <1>6, ZeroQueue, XvProcAssumption DEF ScanEnds, QueueTyped, Goto, ScanEnd,
     queues
<1>7. ASSUME NEW c \in CPU, Commit(c) PROVE QueueTyped'
  BY <1>7, ZeroQueue, XvProcAssumption DEF Commit, QueueTyped, Runs, Goto, Free,
     StillReady, queues
<1>8. ASSUME NEW c \in CPU, StartTime(c) PROVE QueueTyped'
  BY <1>8, ZeroQueue, XvProcAssumption DEF StartTime, QueueTyped, ReleasesProc,
     Goto, queues
<1>9. ASSUME NEW c \in CPU, EndTime(c) PROVE QueueTyped'
  BY <1>9, ZeroQueue, XvProcAssumption DEF EndTime, QueueTyped, ReleasesProc,
     RunTime, Goto, queues
<1>10. ASSUME NEW c \in CPU, Leaves(c) PROVE QueueTyped'
  BY <1>10, ZeroQueue, XvProcAssumption DEF Leaves, QueueTyped, SwitchesOut,
     Goto, Free, InCall, InProcess, queues
<1>11. ASSUME NEW c \in CPU, Pauses(c) PROVE QueueTyped'
  BY <1>11, ZeroQueue, XvProcAssumption DEF Pauses, QueueTyped, SwitchesOut,
     Goto, Free, InCall, InProcess, queues
<1>12. ASSUME NEW c \in CPU, Yields(c) PROVE QueueTyped'
  BY <1>12, ZeroQueue, XvProcAssumption DEF Yields, QueueTyped, SwitchesOut,
     Goto, Free, queues
<1>13. ASSUME NEW c \in CPU, MlfqTick(c) PROVE QueueTyped'
  <2>1. cproc[c] \in Proc
    BY <1>13, OnCpu DEF MlfqTick
  <2> QED
    BY <1>13, <2>1 DEF MlfqTick, TimeUsed, QueueTyped
<1>14. ASSUME NEW c \in CPU, DemoteMoves(c) PROVE QueueTyped'
  <2>1. new[c] \in Queue
    BY <1>14 DEF DemoteMoves, PcInv, PcOf
  <2> QED
    BY <1>14, <2>1, ZeroQueue DEF DemoteMoves, NextSlice, QueueTyped
<1>15. ASSUME NEW c \in CPU, DemoteMoved(c) PROVE QueueTyped'
  <2>1. new[c] \in Queue
    BY <1>15 DEF DemoteMoved, PcInv, PcOf
  <2> QED
    BY <1>15, <2>1, ZeroQueue DEF DemoteMoved, NextSlice, QueueTyped
<1>16. ASSUME NEW c \in CPU, NEW p \in Proc, AllocBegins(c, p),
   UNCHANGED <<choice, last_boost_tick>> PROVE QueueTyped'
  BY <1>16, ZeroQueue, XvProcAssumption DEF AllocBegins, QueueTyped, InCall,
     InProcess, Free, Goto, queues
<1>17. ASSUME NEW c \in CPU, NEW p \in Proc, Reap(c, p), UNCHANGED <<choice,
   last_boost_tick>> PROVE QueueTyped'
  BY <1>17, ZeroQueue, XvProcAssumption DEF Reap, QueueTyped, InCall, InProcess,
     Free, queues
<1>18. ASSUME NEW c \in CPU, NEW p \in Proc, Wake(c, p), UNCHANGED <<choice,
   last_boost_tick>> PROVE QueueTyped'
  BY <1>18, ZeroQueue, XvProcAssumption DEF Wake, QueueTyped, Interruptible,
     Free, queues
<1>19. ASSUME NEW c \in CPU, AllocEnds(c), UNCHANGED <<choice,
   last_boost_tick>> PROVE QueueTyped'
  BY <1>19, ZeroQueue, XvProcAssumption DEF AllocEnds, QueueTyped, Goto, queues
<1>20. ASSUME NEW c \in CPU, ForkEnds(c), UNCHANGED <<choice,
   last_boost_tick>> PROVE QueueTyped'
  BY <1>20, ZeroQueue, XvProcAssumption DEF ForkEnds, QueueTyped, InProcess,
     Free, queues
<1>21. ASSUME NEW c \in CPU, OtherTimer(c), UNCHANGED <<choice,
   last_boost_tick>> PROVE QueueTyped'
  BY <1>21, ZeroQueue, XvProcAssumption DEF OtherTimer, QueueTyped, InProcess,
     Goto, queues
<1>22. ASSUME ClockBegins, UNCHANGED <<choice, last_boost_tick>> PROVE QueueTyped'
  BY <1>22, ZeroQueue, XvProcAssumption DEF ClockBegins, QueueTyped,
     Interruptible, Goto, queues
<1>23. ASSUME ClockWakes, UNCHANGED <<choice, last_boost_tick>> PROVE QueueTyped'
  BY <1>23, ZeroQueue, XvProcAssumption DEF ClockWakes, QueueTyped, Free, queues
<1>24. ASSUME ClockEnds, UNCHANGED <<choice, last_boost_tick>> PROVE QueueTyped'
  BY <1>24, ZeroQueue, XvProcAssumption DEF ClockEnds, QueueTyped, Goto, queues
<1>25. CASE UNCHANGED vars
  BY <1>25 DEF vars, procVars, queues, locks, cpuVars, choice, QueueTyped
<1> QED
  BY <1>1, <1>2, <1>3, <1>4, <1>5, <1>6, <1>7, <1>8, <1>9, <1>10, <1>11, <1>12,
     <1>13, <1>14, <1>15, <1>16, <1>17, <1>18, <1>19, <1>20, <1>21, <1>22, <1>23,
     <1>24, <1>25 DEF Next, Scheduler, Process, Kernel

(* Every step keeps the types of what a CPU has.                           *)
LEMMA CpuTypedStep == Types /\ PcInv /\ [Next]_vars => CpuTyped'
<1> SUFFICES ASSUME Types, PcInv, [Next]_vars PROVE CpuTyped'
  OBVIOUS
<1> USE DEF Types
<1>1. ASSUME NEW c \in CPU, LoopBegins(c) PROVE CpuTyped'
  BY <1>1 DEF LoopBegins, CpuTyped, Place, Choosing, Goto, cpuVars
<1>2. ASSUME NEW c \in CPU, BoostMoves(c) PROVE CpuTyped'
  BY <1>2 DEF BoostMoves, CpuTyped, Place, Choosing, Goto, cpuVars
<1>3. ASSUME NEW c \in CPU, BoostMoved(c) PROVE CpuTyped'
  BY <1>3 DEF BoostMoved, CpuTyped, Place, Choosing, Goto, cpuVars
<1>4. ASSUME NEW c \in CPU, BoostEnds(c) PROVE CpuTyped'
  BY <1>4 DEF BoostEnds, CpuTyped, Place, Choosing, Goto, cpuVars
<1>5. ASSUME NEW c \in CPU, Scan(c) PROVE CpuTyped'
  <2>1. new' = new
    BY <1>5 DEF Scan
  <2>2. CASE ScanNext(c)
    <3>1. index[c] \in Proc
      BY <1>5, <2>2, ScanInProc DEF Scan, ScanNext
    <3>2. CASE Runs(c, index[c])
      BY <2>1, <3>1, <3>2, RunsTyped DEF CpuTyped
    <3>3. CASE index' = [index EXCEPT ![c] = @ + 1] /\ UNCHANGED <<pc, cproc>>
      BY <2>1, <3>3 DEF CpuTyped
    <3> QED
      BY <2>2, <3>2, <3>3 DEF ScanNext
  <2>3. CASE ScanLeast(c)
    BY <2>1, <2>3 DEF ScanLeast, CpuTyped
  <2>4. CASE ScanQueue(c)
    BY <2>1, <2>4 DEF ScanQueue, CpuTyped, Goto, Place, Choosing
  <2> QED
    BY <1>5, <2>2, <2>3, <2>4 DEF Scan
<1>6. ASSUME NEW c \in CPU, ScanEnds(c) PROVE CpuTyped'
  BY <1>6 DEF ScanEnds, CpuTyped, Place, Choosing, Goto, ScanEnd, cpuVars
<1>7. ASSUME NEW c \in CPU, Commit(c) PROVE CpuTyped'
  <2>1. best[c] \in Proc
    BY <1>7 DEF Commit, PcInv, PcOf
  <2>2. CASE Runs(c, best[c])
    BY <1>7, <2>1, <2>2, RunsTyped DEF Commit, CpuTyped
  <2>3. CASE Goto(c, "loop") /\ UNCHANGED <<cproc, index>>
    BY <1>7, <2>3 DEF Commit, CpuTyped, Goto, Place
  <2> QED
    BY <1>7, <2>2, <2>3 DEF Commit
<1>8. ASSUME NEW c \in CPU, StartTime(c) PROVE CpuTyped'
  BY <1>8 DEF StartTime, CpuTyped, Place, Choosing, ReleasesProc, Goto, cpuVars
<1>9. ASSUME NEW c \in CPU, EndTime(c) PROVE CpuTyped'
  BY <1>9 DEF EndTime, CpuTyped, Place, Choosing, ReleasesProc, RunTime, Goto,
     cpuVars
<1>10. ASSUME NEW c \in CPU, Leaves(c) PROVE CpuTyped'
  <2>1. cproc[c] \in Proc
    BY <1>10, OnCpu DEF Leaves, InCall, InProcess
  <2>2. new' \in [CPU -> Proc \cup Queue]
    BY <1>10, ZeroQueue DEF Leaves, CpuTyped, None
  <2> QED
    BY <1>10, <2>1, <2>2, SwitchTyped DEF Leaves, CpuTyped, ProcState
<1>11. ASSUME NEW c \in CPU, Pauses(c) PROVE CpuTyped'
  <2>1. cproc[c] \in Proc
    BY <1>11, OnCpu DEF Pauses, InCall, InProcess
  <2>2. new' \in [CPU -> Proc \cup Queue]
    BY <1>11, ZeroQueue DEF Pauses, CpuTyped, None
  <2> QED
    BY <1>11, <2>1, <2>2, SwitchTyped DEF Pauses, CpuTyped, ProcState
<1>12. ASSUME NEW c \in CPU, Yields(c) PROVE CpuTyped'
  <2>1. cproc[c] \in Proc
    BY <1>12, OnCpu DEF Yields
  <2>2. new' \in [CPU -> Proc \cup Queue]
    BY <1>12, ZeroQueue DEF Yields, CpuTyped, None
  <2> QED
    BY <1>12, <2>1, <2>2, SwitchTyped DEF Yields, CpuTyped, ProcState
<1>13. ASSUME NEW c \in CPU, MlfqTick(c) PROVE CpuTyped'
  <2>1. cproc[c] \in Proc
    BY <1>13, OnCpu DEF MlfqTick
  <2>2. CASE SwitchesOut(c, "RUNNABLE") /\ UNCHANGED new
    BY <1>13, <2>1, <2>2, SwitchTyped DEF CpuTyped, ProcState
  <2>3. CASE Goto(c, "user") /\ UNCHANGED <<cproc, index, new>>
    BY <2>3 DEF CpuTyped, Goto, Place
  <2>4. CASE /\ CanFall(c)
             /\ new' = [new EXCEPT ![c] = queue_level[cproc[c]] + 1]
             /\ Goto(c, "demote")
             /\ UNCHANGED <<cproc, index>>
    <3>1. queue_level[cproc[c]] + 1 \in Queue
      BY <2>1, <2>4, XvProcAssumption DEF CanFall, QueueTyped, Queue
    <3> QED
      BY <2>4, <3>1 DEF CpuTyped, Goto, Place
  <2> QED
    BY <1>13, <2>2, <2>3, <2>4 DEF MlfqTick
<1>14. ASSUME NEW c \in CPU, DemoteMoves(c) PROVE CpuTyped'
  BY <1>14 DEF DemoteMoves, CpuTyped, Place, Choosing, Goto, cpuVars
<1>15. ASSUME NEW c \in CPU, DemoteMoved(c) PROVE CpuTyped'
  <2>1. cproc[c] \in Proc
    BY <1>15, OnCpu DEF DemoteMoved
  <2>2. new' \in [CPU -> Proc \cup Queue]
    BY <1>15, ZeroQueue DEF DemoteMoved, CpuTyped, None
  <2> QED
    BY <1>15, <2>1, <2>2, SwitchTyped DEF DemoteMoved, CpuTyped, ProcState
<1>16. ASSUME NEW c \in CPU, NEW p \in Proc, AllocBegins(c, p),
   UNCHANGED <<choice, last_boost_tick>> PROVE CpuTyped'
  BY <1>16 DEF AllocBegins, CpuTyped, Place, Choosing, InCall, InProcess, Free,
     Goto, cpuVars
<1>17. ASSUME NEW c \in CPU, NEW p \in Proc, Reap(c, p), UNCHANGED <<choice,
   last_boost_tick>> PROVE CpuTyped'
  BY <1>17 DEF Reap, CpuTyped, Place, Choosing, InCall, InProcess, Free, cpuVars
<1>18. ASSUME NEW c \in CPU, NEW p \in Proc, Wake(c, p), UNCHANGED <<choice,
   last_boost_tick>> PROVE CpuTyped'
  BY <1>18 DEF Wake, CpuTyped, Place, Choosing, Interruptible, Free, cpuVars
<1>19. ASSUME NEW c \in CPU, AllocEnds(c), UNCHANGED <<choice,
   last_boost_tick>> PROVE CpuTyped'
  <2>1. new' \in [CPU -> Proc \cup Queue]
    BY <1>19, ZeroQueue DEF AllocEnds, CpuTyped, None
  <2> QED
    BY <1>19, <2>1 DEF AllocEnds, CpuTyped, Goto, Place
<1>20. ASSUME NEW c \in CPU, ForkEnds(c), UNCHANGED <<choice,
   last_boost_tick>> PROVE CpuTyped'
  BY <1>20 DEF ForkEnds, CpuTyped, Place, Choosing, InProcess, Free, cpuVars
<1>21. ASSUME NEW c \in CPU, OtherTimer(c), UNCHANGED <<choice,
   last_boost_tick>> PROVE CpuTyped'
  BY <1>21 DEF OtherTimer, CpuTyped, Place, Choosing, InProcess, Goto, cpuVars
<1>22. ASSUME ClockBegins, UNCHANGED <<choice, last_boost_tick>> PROVE CpuTyped'
  BY <1>22, XvProcAssumption DEF ClockBegins, CpuTyped, Goto, Place, cpuVars
<1>23. ASSUME ClockWakes, UNCHANGED <<choice, last_boost_tick>> PROVE CpuTyped'
  BY <1>23, XvProcAssumption DEF ClockWakes, CpuTyped
<1>24. ASSUME ClockEnds, UNCHANGED <<choice, last_boost_tick>> PROVE CpuTyped'
  BY <1>24, XvProcAssumption DEF ClockEnds, CpuTyped, Goto, Place, None
<1>25. CASE UNCHANGED vars
  BY <1>25 DEF vars, procVars, queues, locks, cpuVars, choice, CpuTyped
<1> QED
  BY <1>1, <1>2, <1>3, <1>4, <1>5, <1>6, <1>7, <1>8, <1>9, <1>10, <1>11, <1>12,
     <1>13, <1>14, <1>15, <1>16, <1>17, <1>18, <1>19, <1>20, <1>21, <1>22, <1>23,
     <1>24, <1>25 DEF Next, Scheduler, Process, Kernel

(* Every step keeps the types of a choice.                                 *)
LEMMA ChoiceTypedStep == Types /\ PcInv /\ [Next]_vars => ChoiceTyped'
<1> SUFFICES ASSUME Types, PcInv, [Next]_vars PROVE ChoiceTyped'
  OBVIOUS
<1> USE DEF Types
<1>1. ASSUME NEW c \in CPU, LoopBegins(c) PROVE ChoiceTyped'
  BY <1>1 DEF LoopBegins, ChoiceTyped, Goto, choice
<1>2. ASSUME NEW c \in CPU, BoostMoves(c) PROVE ChoiceTyped'
  BY <1>2 DEF BoostMoves, ChoiceTyped, Goto, choice
<1>3. ASSUME NEW c \in CPU, BoostMoved(c) PROVE ChoiceTyped'
  BY <1>3 DEF BoostMoved, ChoiceTyped, Goto, choice
<1>4. ASSUME NEW c \in CPU, BoostEnds(c) PROVE ChoiceTyped'
  BY <1>4 DEF BoostEnds, ChoiceTyped, Goto, choice
<1>5. ASSUME NEW c \in CPU, Scan(c) PROVE ChoiceTyped'
  <2>1. CASE ScanNext(c)
    BY <1>5, <2>1 DEF Scan, ScanNext, ChoiceTyped
  <2>2. CASE ScanLeast(c)
    <3>1. index[c] \in Proc
      BY <1>5, <2>2, ScanInProc DEF Scan, ScanLeast
    <3> QED
      BY <2>2, <3>1, KeyTyped DEF ScanLeast, ChoiceTyped
  <2>3. CASE ScanQueue(c)
    BY <1>5, <2>3, SlotOfIndex DEF ScanQueue, Scan, ChoiceTyped, CpuTyped
  <2> QED
    BY <1>5, <2>1, <2>2, <2>3 DEF Scan
<1>6. ASSUME NEW c \in CPU, ScanEnds(c) PROVE ChoiceTyped'
  BY <1>6 DEF ScanEnds, ChoiceTyped, Goto, ScanEnd, choice
<1>7. ASSUME NEW c \in CPU, Commit(c) PROVE ChoiceTyped'
  BY <1>7 DEF Commit, ChoiceTyped, None
<1>8. ASSUME NEW c \in CPU, StartTime(c) PROVE ChoiceTyped'
  BY <1>8 DEF StartTime, ChoiceTyped, ReleasesProc, Goto, choice
<1>9. ASSUME NEW c \in CPU, EndTime(c) PROVE ChoiceTyped'
  BY <1>9 DEF EndTime, ChoiceTyped, ReleasesProc, RunTime, Goto, choice
<1>10. ASSUME NEW c \in CPU, Leaves(c) PROVE ChoiceTyped'
  BY <1>10 DEF Leaves, ChoiceTyped, SwitchesOut, Goto, Free, InCall, InProcess,
     choice
<1>11. ASSUME NEW c \in CPU, Pauses(c) PROVE ChoiceTyped'
  BY <1>11 DEF Pauses, ChoiceTyped, SwitchesOut, Goto, Free, InCall, InProcess,
     choice
<1>12. ASSUME NEW c \in CPU, Yields(c) PROVE ChoiceTyped'
  BY <1>12 DEF Yields, ChoiceTyped, SwitchesOut, Goto, Free, choice
<1>13. ASSUME NEW c \in CPU, MlfqTick(c) PROVE ChoiceTyped'
  BY <1>13 DEF MlfqTick, ChoiceTyped, SwitchesOut, Goto, Free, TimeUsed, CanFall,
     choice
<1>14. ASSUME NEW c \in CPU, DemoteMoves(c) PROVE ChoiceTyped'
  BY <1>14 DEF DemoteMoves, ChoiceTyped, Goto, choice
<1>15. ASSUME NEW c \in CPU, DemoteMoved(c) PROVE ChoiceTyped'
  BY <1>15 DEF DemoteMoved, ChoiceTyped, SwitchesOut, Goto, NextSlice, choice
<1>16. ASSUME NEW c \in CPU, NEW p \in Proc, AllocBegins(c, p),
   UNCHANGED <<choice, last_boost_tick>> PROVE ChoiceTyped'
  BY <1>16 DEF AllocBegins, ChoiceTyped, InCall, InProcess, Free, Goto, choice
<1>17. ASSUME NEW c \in CPU, NEW p \in Proc, Reap(c, p), UNCHANGED <<choice,
   last_boost_tick>> PROVE ChoiceTyped'
  BY <1>17 DEF Reap, ChoiceTyped, InCall, InProcess, Free, choice
<1>18. ASSUME NEW c \in CPU, NEW p \in Proc, Wake(c, p), UNCHANGED <<choice,
   last_boost_tick>> PROVE ChoiceTyped'
  BY <1>18 DEF Wake, ChoiceTyped, Interruptible, Free, choice
<1>19. ASSUME NEW c \in CPU, AllocEnds(c), UNCHANGED <<choice,
   last_boost_tick>> PROVE ChoiceTyped'
  BY <1>19 DEF AllocEnds, ChoiceTyped, Goto, choice
<1>20. ASSUME NEW c \in CPU, ForkEnds(c), UNCHANGED <<choice,
   last_boost_tick>> PROVE ChoiceTyped'
  BY <1>20 DEF ForkEnds, ChoiceTyped, InProcess, Free, choice
<1>21. ASSUME NEW c \in CPU, OtherTimer(c), UNCHANGED <<choice,
   last_boost_tick>> PROVE ChoiceTyped'
  BY <1>21 DEF OtherTimer, ChoiceTyped, InProcess, Goto, choice
<1>22. ASSUME ClockBegins, UNCHANGED <<choice, last_boost_tick>> PROVE ChoiceTyped'
  BY <1>22 DEF ClockBegins, ChoiceTyped, Interruptible, Goto, choice
<1>23. ASSUME ClockWakes, UNCHANGED <<choice, last_boost_tick>> PROVE ChoiceTyped'
  BY <1>23 DEF ClockWakes, ChoiceTyped, Free, choice
<1>24. ASSUME ClockEnds, UNCHANGED <<choice, last_boost_tick>> PROVE ChoiceTyped'
  BY <1>24 DEF ClockEnds, ChoiceTyped, Goto, choice
<1>25. CASE UNCHANGED vars
  BY <1>25 DEF vars, procVars, queues, locks, cpuVars, choice, ChoiceTyped
<1> QED
  BY <1>1, <1>2, <1>3, <1>4, <1>5, <1>6, <1>7, <1>8, <1>9, <1>10, <1>11, <1>12,
     <1>13, <1>14, <1>15, <1>16, <1>17, <1>18, <1>19, <1>20, <1>21, <1>22, <1>23,
     <1>24, <1>25 DEF Next, Scheduler, Process, Kernel

(* Every step keeps the clock in its range, and behind it what was read    *)
(* from it.                                                                *)
LEMMA ClockTypedStep == Types /\ PcInv /\ [Next]_vars => ClockTyped'
<1> SUFFICES ASSUME Types, PcInv, [Next]_vars PROVE ClockTyped'
  OBVIOUS
<1> USE DEF Types
<1>1. ASSUME NEW c \in CPU, LoopBegins(c) PROVE ClockTyped'
  BY <1>1, XvProcAssumption DEF LoopBegins, ClockTyped, Goto, locks, choice
<1>2. ASSUME NEW c \in CPU, BoostMoves(c) PROVE ClockTyped'
  BY <1>2, XvProcAssumption DEF BoostMoves, ClockTyped, Goto, locks, choice
<1>3. ASSUME NEW c \in CPU, BoostMoved(c) PROVE ClockTyped'
  BY <1>3, XvProcAssumption DEF BoostMoved, ClockTyped, Goto, locks, choice
<1>4. ASSUME NEW c \in CPU, BoostEnds(c) PROVE ClockTyped'
  BY <1>4, XvProcAssumption DEF BoostEnds, ClockTyped, Goto, locks, choice
<1>5. ASSUME NEW c \in CPU, Scan(c) PROVE ClockTyped'
  BY <1>5, XvProcAssumption DEF Scan, ClockTyped, ScanLeast, ScanQueue, ScanNext,
     Better, Runs, Goto, Free, ScanEnd, locks, choice
<1>6. ASSUME NEW c \in CPU, ScanEnds(c) PROVE ClockTyped'
  BY <1>6, XvProcAssumption DEF ScanEnds, ClockTyped, Goto, ScanEnd, locks, choice
<1>7. ASSUME NEW c \in CPU, Commit(c) PROVE ClockTyped'
  BY <1>7, XvProcAssumption DEF Commit, ClockTyped, Runs, Goto, Free, StillReady,
     locks, choice
<1>8. ASSUME NEW c \in CPU, StartTime(c) PROVE ClockTyped'
  BY <1>8, XvProcAssumption DEF StartTime, ClockTyped, ReleasesProc, Goto, locks,
     choice
<1>9. ASSUME NEW c \in CPU, EndTime(c) PROVE ClockTyped'
  BY <1>9, XvProcAssumption DEF EndTime, ClockTyped, ReleasesProc, RunTime, Goto,
     locks, choice
<1>10. ASSUME NEW c \in CPU, Leaves(c) PROVE ClockTyped'
  BY <1>10, XvProcAssumption DEF Leaves, ClockTyped, SwitchesOut, Goto, Free,
     InCall, InProcess, locks, choice
<1>11. ASSUME NEW c \in CPU, Pauses(c) PROVE ClockTyped'
  BY <1>11, XvProcAssumption DEF Pauses, ClockTyped, SwitchesOut, Goto, Free,
     InCall, InProcess, locks, choice
<1>12. ASSUME NEW c \in CPU, Yields(c) PROVE ClockTyped'
  BY <1>12, XvProcAssumption DEF Yields, ClockTyped, SwitchesOut, Goto, Free,
     locks, choice
<1>13. ASSUME NEW c \in CPU, MlfqTick(c) PROVE ClockTyped'
  BY <1>13, XvProcAssumption DEF MlfqTick, ClockTyped, SwitchesOut, Goto, Free,
     TimeUsed, CanFall, locks, choice
<1>14. ASSUME NEW c \in CPU, DemoteMoves(c) PROVE ClockTyped'
  BY <1>14, XvProcAssumption DEF DemoteMoves, ClockTyped, Goto, locks, choice
<1>15. ASSUME NEW c \in CPU, DemoteMoved(c) PROVE ClockTyped'
  BY <1>15, XvProcAssumption DEF DemoteMoved, ClockTyped, SwitchesOut, Goto,
     NextSlice, locks, choice
<1>16. ASSUME NEW c \in CPU, NEW p \in Proc, AllocBegins(c, p),
   UNCHANGED <<choice, last_boost_tick>> PROVE ClockTyped'
  BY <1>16, XvProcAssumption DEF AllocBegins, ClockTyped, InCall, InProcess,
     Free, Goto, locks, choice
<1>17. ASSUME NEW c \in CPU, NEW p \in Proc, Reap(c, p), UNCHANGED <<choice,
   last_boost_tick>> PROVE ClockTyped'
  BY <1>17, XvProcAssumption DEF Reap, ClockTyped, InCall, InProcess, Free,
     locks, choice
<1>18. ASSUME NEW c \in CPU, NEW p \in Proc, Wake(c, p), UNCHANGED <<choice,
   last_boost_tick>> PROVE ClockTyped'
  BY <1>18, XvProcAssumption DEF Wake, ClockTyped, Interruptible, Free, locks,
     choice
<1>19. ASSUME NEW c \in CPU, AllocEnds(c), UNCHANGED <<choice,
   last_boost_tick>> PROVE ClockTyped'
  BY <1>19, XvProcAssumption DEF AllocEnds, ClockTyped, Goto, locks, choice
<1>20. ASSUME NEW c \in CPU, ForkEnds(c), UNCHANGED <<choice,
   last_boost_tick>> PROVE ClockTyped'
  BY <1>20, XvProcAssumption DEF ForkEnds, ClockTyped, InProcess, Free, locks,
     choice
<1>21. ASSUME NEW c \in CPU, OtherTimer(c), UNCHANGED <<choice,
   last_boost_tick>> PROVE ClockTyped'
  BY <1>21, XvProcAssumption DEF OtherTimer, ClockTyped, InProcess, Goto, locks,
     choice
<1>22. ASSUME ClockBegins, UNCHANGED <<choice, last_boost_tick>> PROVE ClockTyped'
  BY <1>22, XvProcAssumption DEF ClockBegins, ClockTyped, Interruptible, Goto,
     locks, choice
<1>23. ASSUME ClockWakes, UNCHANGED <<choice, last_boost_tick>> PROVE ClockTyped'
  BY <1>23, XvProcAssumption DEF ClockWakes, ClockTyped, Free, locks, choice
<1>24. ASSUME ClockEnds, UNCHANGED <<choice, last_boost_tick>> PROVE ClockTyped'
  BY <1>24, XvProcAssumption DEF ClockEnds, ClockTyped, Goto, locks, choice
<1>25. CASE UNCHANGED vars
  BY <1>25 DEF vars, procVars, queues, locks, cpuVars, choice, ClockTyped
<1> QED
  BY <1>1, <1>2, <1>3, <1>4, <1>5, <1>6, <1>7, <1>8, <1>9, <1>10, <1>11, <1>12,
     <1>13, <1>14, <1>15, <1>16, <1>17, <1>18, <1>19, <1>20, <1>21, <1>22, <1>23,
     <1>24, <1>25 DEF Next, Scheduler, Process, Kernel

-----------------------------------------------------------------------------
(* Where the code holds p->lock while it waits: fork in allocproc, CFS at  *)
(* its clock, MLFQ in a demotion.                                          *)
HoldsLock(c, p) ==
  \/ pc[c] \in {"start", "end", "demote", "demoted"} /\ cproc[c] = p
  \/ pc[c] = "alloc" /\ new[c] = p

(* A lock is held where the code holds it, and nowhere else.               *)
LockInv ==
  \A p \in Proc, c \in CPU : holder[p] = c <=> HoldsLock(c, p)

(* Who is in sleep(&ticks) sleeps.                                         *)
SleepInv ==
  \A p \in on_ticks : state[p] = "SLEEPING"

(* RUNNING is who has a CPU, one CPU at most; at EndTime it is still       *)
(* c->proc, but is RUNNING no more.                                        *)
RunInv ==
  /\ \A c \in CPU : cproc[c] \in Proc /\ pc[c] # "end" => state[cproc[c]] = "RUNNING"
  /\ \A c \in CPU : pc[c] = "end" => state[cproc[c]] # "RUNNING"
  /\ \A c, d \in CPU : cproc[c] \in Proc /\ cproc[c] = cproc[d] => c = d
  /\ \A p \in Proc : state[p] = "RUNNING" => \E c \in CPU : cproc[c] = p

(* The slots that allocproc has taken are USED, each by one caller of      *)
(* fork.                                                                   *)
ChildInv ==
  /\ \A p \in Proc : child[p] # None => state[child[p]] = "USED"
  /\ \A p, q \in Proc : child[p] # None /\ child[p] = child[q] => p = q
  /\ \A c \in CPU : pc[c] = "alloc" =>
       state[new[c]] = "USED" /\ \A p \in Proc : child[p] # new[c]

(* From StartTime to EndTime the process of c is charged up to             *)
(* start_ticks.                                                            *)
Charged(c) == policy = "CFS" /\ cproc[c] \in Proc /\ pc[c] # "start"

(* The time charged lies between creation_time and now, and for a process  *)
(* on a CPU before start_ticks.                                            *)
TimeInv ==
  /\ \A p \in Proc : vruntime[p] + creation_time[p] <= ticks
  /\ \A c \in CPU : Charged(c) => vruntime[cproc[c]] + creation_time[cproc[c]] <= start_ticks[c]

(* What SliceOfQueue says of a process.                                    *)
Fits(p) ==
  \/ queue_time_slice[p] = Slices[queue_level[p]]
  \/ Boosted /\ (queue_level[p] = 0 \/ queue_time_slice[p] = Slices[0])

(* A demotion under way has written its level, unless a boost has          *)
(* overwritten it.                                                         *)
Landed(c) == queue_level[cproc[c]] = new[c] \/ (Boosted /\ queue_level[cproc[c]] = 0)

(* SliceOfQueue, with the demotions that are between their two writes.     *)
SliceInv ==
  /\ SliceOfQueue
  /\ \A c \in CPU : pc[c] = "demoted" => Landed(c)

-----------------------------------------------------------------------------
(* No process is none.                                                     *)
LEMMA NoneNotProc == None \notin Proc
BY DEF None, Proc

(* Every step keeps what a place in the code says of its CPU.              *)
LEMMA PcInvStep == Types /\ PcInv /\ RunInv /\ [Next]_vars => PcInv'
<1> SUFFICES ASSUME Types, PcInv, RunInv, [Next]_vars PROVE PcInv'
  OBVIOUS
<1> USE XvProcAssumption DEF Types, CpuTyped, PcInv, PcOf, None, Queue
<1>1. ASSUME NEW c \in CPU, LoopBegins(c) PROVE PcInv'
  BY <1>1 DEF LoopBegins, Goto, queues, locks, cpuVars, choice
<1>2. ASSUME NEW c \in CPU, BoostMoves(c) PROVE PcInv'
  <2> SUFFICES ASSUME NEW d \in CPU PROVE PcOf(d)'
    BY DEF PcInv
  <2>1. CASE d = c
    BY <1>2, <2>1 DEF BoostMoves, Goto, queues, locks, cpuVars, choice
  <2>2. CASE d # c
    BY <1>2, <2>2 DEF BoostMoves, Goto, queues, locks, cpuVars, choice
  <2> QED
    BY <2>1, <2>2
<1>3. ASSUME NEW c \in CPU, BoostMoved(c) PROVE PcInv'
  <2> SUFFICES ASSUME NEW d \in CPU PROVE PcOf(d)'
    BY DEF PcInv
  <2>1. CASE d = c
    BY <1>3, <2>1 DEF BoostMoved, Goto, queues, locks, cpuVars, choice
  <2>2. CASE d # c
    BY <1>3, <2>2 DEF BoostMoved, Goto, queues, locks, cpuVars, choice
  <2> QED
    BY <2>1, <2>2
<1>4. ASSUME NEW c \in CPU, BoostEnds(c) PROVE PcInv'
  BY <1>4 DEF BoostEnds, Goto, queues, locks, cpuVars, choice
<1>5. ASSUME NEW c \in CPU, Scan(c) PROVE PcInv'
  <2> SUFFICES ASSUME NEW d \in CPU PROVE PcOf(d)'
    BY DEF PcInv
  <2>1. CASE d # c
    <3>1. UNCHANGED <<pc[d], cproc[d], index[d], best[d]>>
      BY <1>5, <2>1 DEF Scan, ScanLeast, ScanQueue, ScanNext, Runs, Goto,
         ChoiceTyped
    <3>2. UNCHANGED <<tickslock, policy, ticks, new,
       child>> /\ (pc'[Boot] = "clock" <=> pc[Boot] = "clock")
      BY <1>5 DEF Scan, ScanLeast, ScanQueue, ScanNext, Runs, Goto
    <3> QED
      BY <2>1, <3>1, <3>2
  <2>2. CASE d = c /\ ScanNext(c)
    <3>1. index[c] \in Proc
      BY <1>5, <2>2, ScanInProc DEF Scan, ScanNext
    <3> QED
      BY <1>5, <2>2, <3>1 DEF Scan, ScanNext, Runs, Goto
  <2>3. CASE d = c /\ ScanLeast(c)
    BY <1>5, <2>3 DEF Scan, ScanLeast
  <2>4. CASE d = c /\ ScanQueue(c)
    <3>1. pc'[c] = "commit" => best'[c] \in Proc
      BY <1>5, <2>4, SlotOfIndex DEF Scan, ScanQueue, ChoiceTyped, Goto
    <3> QED
      BY <1>5, <2>4, <3>1 DEF Scan, ScanQueue, Goto
  <2> QED
    BY <1>5, <2>1, <2>2, <2>3, <2>4 DEF Scan
<1>6. ASSUME NEW c \in CPU, ScanEnds(c) PROVE PcInv'
  <2> SUFFICES ASSUME NEW d \in CPU PROVE PcOf(d)'
    BY DEF PcInv
  <2>1. CASE d = c
    BY <1>6, <2>1 DEF ScanEnds, Goto, ScanEnd, ChoiceTyped, queues, locks,
       cpuVars, choice
  <2>2. CASE d # c
    BY <1>6, <2>2 DEF ScanEnds, Goto, ScanEnd, ChoiceTyped, queues, locks,
       cpuVars, choice
  <2> QED
    BY <2>1, <2>2
<1>7. ASSUME NEW c \in CPU, Commit(c) PROVE PcInv'
  BY <1>7 DEF Commit, Runs, Goto, Free, StillReady, queues, locks, cpuVars, choice
<1>8. ASSUME NEW c \in CPU, StartTime(c) PROVE PcInv'
  BY <1>8 DEF StartTime, ReleasesProc, Goto, queues, locks, cpuVars, choice
<1>9. ASSUME NEW c \in CPU, EndTime(c) PROVE PcInv'
  BY <1>9 DEF EndTime, ReleasesProc, RunTime, Goto, queues, locks, cpuVars, choice
<1>10. ASSUME NEW c \in CPU, Leaves(c) PROVE PcInv'
  BY <1>10 DEF Leaves, SwitchesOut, Goto, Free, InCall, InProcess, queues, locks,
     cpuVars, choice
<1>11. ASSUME NEW c \in CPU, Pauses(c) PROVE PcInv'
  BY <1>11 DEF Pauses, SwitchesOut, Goto, Free, InCall, InProcess, queues, locks,
     cpuVars, choice
<1>12. ASSUME NEW c \in CPU, Yields(c) PROVE PcInv'
  BY <1>12 DEF Yields, SwitchesOut, Goto, Free, queues, locks, cpuVars, choice
<1>13. ASSUME NEW c \in CPU, MlfqTick(c) PROVE PcInv'
  <2> SUFFICES ASSUME NEW d \in CPU PROVE PcOf(d)'
    BY DEF PcInv
  <2>1. CASE d # c
    BY <1>13, <2>1 DEF MlfqTick, SwitchesOut, Goto, Free, TimeUsed, CanFall,
       queues, locks, cpuVars, choice
  <2>2. CASE /\ d = c /\ CanFall(c) /\ Goto(c, "demote") /\ UNCHANGED cproc
             /\ new' = [new EXCEPT ![c] = queue_level[cproc[c]] + 1]
    <3>1. cproc[c] \in Proc
      BY <1>13, OnCpu DEF MlfqTick
    <3>2. queue_level[cproc[c]] + 1 \in Queue
      BY <2>2, <3>1 DEF CanFall, QueueTyped
    <3> QED
      BY <1>13, <2>2, <3>1, <3>2 DEF MlfqTick, Goto
  <2>3. CASE d = c /\ SwitchesOut(c, "RUNNABLE")
    BY <1>13, <2>3 DEF MlfqTick, SwitchesOut, Goto
  <2>4. CASE d = c /\ Goto(c, "user") /\ UNCHANGED cproc
    BY <1>13, <2>4 DEF MlfqTick, Goto
  <2> QED
    BY <1>13, <2>1, <2>2, <2>3, <2>4 DEF MlfqTick
<1>14. ASSUME NEW c \in CPU, DemoteMoves(c) PROVE PcInv'
  BY <1>14 DEF DemoteMoves, Goto, queues, locks, cpuVars, choice
<1>15. ASSUME NEW c \in CPU, DemoteMoved(c) PROVE PcInv'
  BY <1>15 DEF DemoteMoved, SwitchesOut, Goto, NextSlice, queues, locks, cpuVars,
     choice
<1>16. ASSUME NEW c \in CPU, NEW p \in Proc, AllocBegins(c, p),
   UNCHANGED <<choice, last_boost_tick>> PROVE PcInv'
  BY <1>16 DEF AllocBegins, InCall, InProcess, Free, Goto, queues, locks,
     cpuVars, choice
<1>17. ASSUME NEW c \in CPU, NEW p \in Proc, Reap(c, p), UNCHANGED <<choice,
   last_boost_tick>> PROVE PcInv'
  BY <1>17 DEF Reap, InCall, InProcess, Free, queues, locks, cpuVars, choice
<1>18. ASSUME NEW c \in CPU, NEW p \in Proc, Wake(c, p), UNCHANGED <<choice,
   last_boost_tick>> PROVE PcInv'
  BY <1>18 DEF Wake, Interruptible, Free, queues, locks, cpuVars, choice
<1>19. ASSUME NEW c \in CPU, AllocEnds(c), UNCHANGED <<choice,
   last_boost_tick>> PROVE PcInv'
  <2> SUFFICES ASSUME NEW d \in CPU PROVE PcOf(d)'
    BY DEF PcInv
  <2>1. CASE d = c
    BY <1>19, <2>1 DEF AllocEnds, Goto, queues, locks, cpuVars, choice
  <2>2. CASE d # c
    <3>1. pc[d] = "alloc" => cproc[d] # cproc[c]
      BY <1>19, <2>2 DEF AllocEnds, RunInv
    <3> QED
      BY <1>19, <2>2, <3>1 DEF AllocEnds, Goto, queues, locks, cpuVars, choice,
         ProcTyped
  <2> QED
    BY <2>1, <2>2
<1>20. ASSUME NEW c \in CPU, ForkEnds(c), UNCHANGED <<choice,
   last_boost_tick>> PROVE PcInv'
  BY <1>20 DEF ForkEnds, InProcess, Free, queues, locks, cpuVars, choice
<1>21. ASSUME NEW c \in CPU, OtherTimer(c), UNCHANGED <<choice,
   last_boost_tick>> PROVE PcInv'
  BY <1>21 DEF OtherTimer, InProcess, Goto, queues, locks, cpuVars, choice
<1>22. ASSUME ClockBegins, UNCHANGED <<choice, last_boost_tick>> PROVE PcInv'
  <2> SUFFICES ASSUME NEW d \in CPU PROVE PcOf(d)'
    BY DEF PcInv
  <2>1. CASE d = Boot
    BY <1>22, <2>1 DEF ClockBegins, Interruptible, Goto, queues, locks, cpuVars,
       choice, ClockTyped
  <2>2. CASE d # Boot
    BY <1>22, <2>2 DEF ClockBegins, Interruptible, Goto, queues, locks, cpuVars,
       choice, ClockTyped
  <2> QED
    BY <2>1, <2>2
<1>23. ASSUME ClockWakes, UNCHANGED <<choice, last_boost_tick>> PROVE PcInv'
  BY <1>23 DEF ClockWakes, Free, queues, locks, cpuVars, choice
<1>24. ASSUME ClockEnds, UNCHANGED <<choice, last_boost_tick>> PROVE PcInv'
  BY <1>24 DEF ClockEnds, Goto, queues, locks, cpuVars, choice
<1>25. CASE UNCHANGED vars
  BY <1>25 DEF vars, procVars, queues, locks, cpuVars, choice
<1> QED
  BY <1>1, <1>2, <1>3, <1>4, <1>5, <1>6, <1>7, <1>8, <1>9, <1>10, <1>11, <1>12,
     <1>13, <1>14, <1>15, <1>16, <1>17, <1>18, <1>19, <1>20, <1>21, <1>22, <1>23,
     <1>24, <1>25 DEF Next, Scheduler, Process, Kernel

-----------------------------------------------------------------------------
(* swtch to the scheduler hands p->lock over, or releases it.              *)
LEMMA SwitchLocks ==
  ASSUME Types, PcInv, LockInv, NEW c \in CPU, NEW next \in ProcState,
         pc[c] \in {"user", "expired", "demoted"},
         pc[c] # "demoted" => Free(cproc[c]),
         SwitchesOut(c, next),
         \A d \in CPU \ {c} : new'[d] = new[d]
  PROVE  LockInv'
<1>1. cproc[c] \in Proc
  BY OnCpu
<1> SUFFICES ASSUME NEW q \in Proc, NEW d \in CPU
             PROVE  (holder[q] = d <=> HoldsLock(d, q))'
  BY DEF LockInv
<1>2. holder[q] = d <=> HoldsLock(d, q)
  BY DEF LockInv
<1>3. holder[cproc[c]] \in {c, NoCpu}
  BY <1>1 DEF LockInv, HoldsLock, Free
<1> USE XvProcAssumption DEF Types, ProcTyped, CpuTyped, HoldsLock, SwitchesOut,
   Goto, None, Proc
<1>4. CASE d = c /\ policy = "CFS"
  BY <1>1, <1>2, <1>4
<1>5. CASE d = c /\ policy # "CFS"
  <2>1. pc'[c] \in {"scan", "loop"}
    BY <1>5
  <2>2. q # cproc[c] => holder[q] # c
    BY <1>2, <1>5
  <2>3. holder'[q] # c
    BY <1>1, <1>5, <2>2
  <2> QED
    BY <1>5, <2>1, <2>3
<1>6. CASE d # c
  <2>1. UNCHANGED <<pc[d], cproc[d], new[d]>>
    BY <1>6
  <2>2. holder'[q] = d <=> holder[q] = d
    BY <1>1, <1>3, <1>6
  <2> QED
    BY <1>2, <2>1, <2>2
<1> QED
  BY <1>4, <1>5, <1>6

(* swtch to a process: CFS keeps p->lock, the others release it.           *)
LEMMA RunsLocks ==
  ASSUME Types, PcInv, LockInv, NEW c \in CPU, NEW p \in Proc,
         pc[c] \in {"scan", "commit"}, Free(p), Runs(c, p), new' = new
  PROVE  LockInv'
<1> SUFFICES ASSUME NEW q \in Proc, NEW d \in CPU
             PROVE  (holder[q] = d <=> HoldsLock(d, q))'
  BY DEF LockInv
<1>2. holder[q] = d <=> HoldsLock(d, q)
  BY DEF LockInv
<1> USE XvProcAssumption DEF Types, ProcTyped, CpuTyped, HoldsLock, Runs, Goto,
   None, Free
<1>4. CASE d = c
  BY <1>2, <1>4
<1>5. CASE d # c
  BY <1>2, <1>5
<1> QED
  BY <1>4, <1>5

(* Every step keeps the locks where the code has them: acquire and release *)
(* are in pairs.                                                           *)
LEMMA LockInvStep == Types /\ PcInv /\ LockInv /\ [Next]_vars => LockInv'
<1> SUFFICES ASSUME Types, PcInv, LockInv, [Next]_vars PROVE LockInv'
  OBVIOUS
<1> USE XvProcAssumption DEF Types, ProcTyped, CpuTyped, PcInv, PcOf, LockInv,
   HoldsLock, None
<1>1. ASSUME NEW c \in CPU, LoopBegins(c) PROVE LockInv'
  BY <1>1 DEF LoopBegins, Goto, queues, locks, cpuVars, choice
<1>2. ASSUME NEW c \in CPU, BoostMoves(c) PROVE LockInv'
  BY <1>2 DEF BoostMoves, Goto, queues, locks, cpuVars, choice
<1>3. ASSUME NEW c \in CPU, BoostMoved(c) PROVE LockInv'
  BY <1>3 DEF BoostMoved, Goto, queues, locks, cpuVars, choice
<1>4. ASSUME NEW c \in CPU, BoostEnds(c) PROVE LockInv'
  BY <1>4 DEF BoostEnds, Goto, queues, locks, cpuVars, choice
<1>5. ASSUME NEW c \in CPU, Scan(c) PROVE LockInv'
  <2>1. CASE ScanNext(c)
    <3>1. index[c] \in Proc
      BY <1>5, <2>1, ScanInProc DEF Scan, ScanNext
    <3>2. CASE Runs(c, index[c])
      BY <1>5, <2>1, <3>1, <3>2, RunsLocks DEF Scan, ScanNext
    <3>3. CASE UNCHANGED <<holder, pc, cproc>>
      BY <1>5, <3>3 DEF Scan
    <3> QED
      BY <2>1, <3>2, <3>3 DEF ScanNext
  <2>2. CASE ScanLeast(c) \/ ScanQueue(c)
    BY <1>5, <2>2 DEF Scan, ScanLeast, ScanQueue, Goto
  <2> QED
    BY <1>5, <2>1, <2>2 DEF Scan
<1>6. ASSUME NEW c \in CPU, ScanEnds(c) PROVE LockInv'
  BY <1>6 DEF ScanEnds, Goto, ScanEnd, queues, locks, cpuVars, choice
<1>7. ASSUME NEW c \in CPU, Commit(c) PROVE LockInv'
  <2>1. CASE Runs(c, best[c])
    BY <1>7, <2>1, RunsLocks DEF Commit, PcInv, PcOf
  <2>2. CASE Goto(c, "loop") /\ UNCHANGED <<holder, cproc>>
    BY <1>7, <2>2 DEF Commit, Goto
  <2> QED
    BY <1>7, <2>1, <2>2 DEF Commit
<1>8. ASSUME NEW c \in CPU, StartTime(c) PROVE LockInv'
  BY <1>8 DEF StartTime, ReleasesProc, Goto, queues, locks, cpuVars, choice
<1>9. ASSUME NEW c \in CPU, EndTime(c) PROVE LockInv'
  BY <1>9 DEF EndTime, ReleasesProc, RunTime, Goto, queues, locks, cpuVars, choice
<1>10. ASSUME NEW c \in CPU, Leaves(c) PROVE LockInv'
  <2> QED
    BY <1>10, SwitchLocks DEF Leaves, ProcState, InCall, InProcess
<1>11. ASSUME NEW c \in CPU, Pauses(c) PROVE LockInv'
  <2> QED
    BY <1>11, SwitchLocks DEF Pauses, ProcState, InCall, InProcess
<1>12. ASSUME NEW c \in CPU, Yields(c) PROVE LockInv'
  <2> QED
    BY <1>12, SwitchLocks DEF Yields, ProcState
<1>13. ASSUME NEW c \in CPU, MlfqTick(c) PROVE LockInv'
  <2>1. CASE SwitchesOut(c, "RUNNABLE") /\ UNCHANGED new
    BY <1>13, <2>1, SwitchLocks DEF MlfqTick, ProcState
  <2>2. CASE Goto(c, "user") /\ UNCHANGED <<holder, cproc, new>>
    BY <1>13, <2>2 DEF MlfqTick, Goto
  <2>3. CASE /\ holder' = [holder EXCEPT ![cproc[c]] = c]
             /\ new' = [new EXCEPT ![c] = queue_level[cproc[c]] + 1]
             /\ Goto(c, "demote")
             /\ UNCHANGED cproc
    BY <1>13, <2>3 DEF MlfqTick, Goto, Free
  <2> QED
    BY <1>13, <2>1, <2>2, <2>3 DEF MlfqTick
<1>14. ASSUME NEW c \in CPU, DemoteMoves(c) PROVE LockInv'
  BY <1>14 DEF DemoteMoves, Goto, queues, locks, cpuVars, choice
<1>15. ASSUME NEW c \in CPU, DemoteMoved(c) PROVE LockInv'
  <2> QED
    BY <1>15, SwitchLocks DEF DemoteMoved, ProcState, NextSlice
<1>16. ASSUME NEW c \in CPU, NEW p \in Proc, AllocBegins(c, p),
   UNCHANGED <<choice, last_boost_tick>> PROVE LockInv'
  BY <1>16 DEF AllocBegins, InCall, InProcess, Free, Goto, queues, locks,
     cpuVars, choice
<1>17. ASSUME NEW c \in CPU, NEW p \in Proc, Reap(c, p), UNCHANGED <<choice,
   last_boost_tick>> PROVE LockInv'
  BY <1>17 DEF Reap, InCall, InProcess, Free, queues, locks, cpuVars, choice
<1>18. ASSUME NEW c \in CPU, NEW p \in Proc, Wake(c, p), UNCHANGED <<choice,
   last_boost_tick>> PROVE LockInv'
  BY <1>18 DEF Wake, Interruptible, Free, queues, locks, cpuVars, choice
<1>19. ASSUME NEW c \in CPU, AllocEnds(c), UNCHANGED <<choice,
   last_boost_tick>> PROVE LockInv'
  BY <1>19 DEF AllocEnds, Goto, queues, locks, cpuVars, choice
<1>20. ASSUME NEW c \in CPU, ForkEnds(c), UNCHANGED <<choice,
   last_boost_tick>> PROVE LockInv'
  BY <1>20 DEF ForkEnds, InProcess, Free, queues, locks, cpuVars, choice
<1>21. ASSUME NEW c \in CPU, OtherTimer(c), UNCHANGED <<choice,
   last_boost_tick>> PROVE LockInv'
  BY <1>21 DEF OtherTimer, InProcess, Goto, queues, locks, cpuVars, choice
<1>22. ASSUME ClockBegins, UNCHANGED <<choice, last_boost_tick>> PROVE LockInv'
  BY <1>22 DEF ClockBegins, Interruptible, Goto, queues, locks, cpuVars, choice
<1>23. ASSUME ClockWakes, UNCHANGED <<choice, last_boost_tick>> PROVE LockInv'
  BY <1>23 DEF ClockWakes, Free, queues, locks, cpuVars, choice
<1>24. ASSUME ClockEnds, UNCHANGED <<choice, last_boost_tick>> PROVE LockInv'
  BY <1>24 DEF ClockEnds, Goto, queues, locks, cpuVars, choice
<1>25. CASE UNCHANGED vars
  BY <1>25 DEF vars, procVars, queues, locks, cpuVars, choice
<1> QED
  BY <1>1, <1>2, <1>3, <1>4, <1>5, <1>6, <1>7, <1>8, <1>9, <1>10, <1>11, <1>12,
     <1>13, <1>14, <1>15, <1>16, <1>17, <1>18, <1>19, <1>20, <1>21, <1>22, <1>23,
     <1>24, <1>25 DEF Next, Scheduler, Process, Kernel

-----------------------------------------------------------------------------
(* A process that gives up its CPU is not RUNNING any more.                *)
LEMMA SwitchRuns ==
  ASSUME Types, PcInv, RunInv, NEW c \in CPU,
         NEW next \in {"RUNNABLE", "SLEEPING", "ZOMBIE"},
         pc[c] \in {"user", "expired", "demoted"},
         SwitchesOut(c, next)
  PROVE  RunInv'
<1>1. cproc[c] \in Proc /\ pc[c] # "end" /\ state[cproc[c]] = "RUNNING"
  BY OnCpu DEF RunInv
<1>2. \A d \in CPU \ {c} :
        /\ cproc[d] # cproc[c]
        /\ UNCHANGED <<cproc[d], pc[d]>>
  BY <1>1 DEF RunInv, SwitchesOut, Types, CpuTyped, Goto
<1>3. state' = [state EXCEPT ![cproc[c]] = next]
  BY DEF SwitchesOut
<1>4. \/ cproc'[c] = None /\ pc'[c] \in {"scan", "loop"}
      \/ cproc'[c] = cproc[c] /\ pc'[c] = "end"
  BY DEF SwitchesOut, Types, CpuTyped, Goto
<1> USE DEF Types, ProcTyped, CpuTyped
<1>5. \A d \in CPU : cproc'[d] \in Proc /\ pc'[d] # "end" => state'[cproc'[d]] = "RUNNING"
  <2> SUFFICES ASSUME NEW d \in CPU, cproc'[d] \in Proc, pc'[d] # "end"
               PROVE  state'[cproc'[d]] = "RUNNING"
    OBVIOUS
  <2>1. d # c
    BY <1>4, NoneNotProc
  <2> QED
    BY <1>2, <1>3, <2>1 DEF RunInv
<1>6. \A d \in CPU : pc'[d] = "end" => state'[cproc'[d]] # "RUNNING"
  <2> SUFFICES ASSUME NEW d \in CPU, pc'[d] = "end"
     PROVE state'[cproc'[d]] # "RUNNING"
    OBVIOUS
  <2>1. CASE d = c
    BY <1>1, <1>3, <1>4, <2>1
  <2>2. CASE d # c
    <3>1. cproc[d] \in Proc
      BY <1>2, <2>2 DEF PcInv, PcOf
    <3> QED
      BY <1>2, <1>3, <2>2, <3>1 DEF RunInv
  <2> QED
    BY <2>1, <2>2
<1>7. \A d, e \in CPU : cproc'[d] \in Proc /\ cproc'[d] = cproc'[e] => d = e
  <2> SUFFICES ASSUME NEW d \in CPU, NEW e \in CPU, cproc'[d] \in Proc,
     cproc'[d] = cproc'[e]
               PROVE  d = e
    OBVIOUS
  <2>1. cproc[d] = cproc'[d] /\ cproc[e] = cproc'[e]
    BY <1>2, <1>4, NoneNotProc
  <2> QED
    BY <2>1 DEF RunInv
<1>8. ASSUME NEW p \in Proc, state'[p] = "RUNNING"
   PROVE \E d \in CPU : cproc'[d] = p
  <2>1. p # cproc[c] /\ state[p] = "RUNNING"
    BY <1>1, <1>3, <1>8
  <2>2. PICK d \in CPU : cproc[d] = p
    BY <2>1 DEF RunInv
  <2> QED
    BY <1>2, <2>1, <2>2
<1> QED
  BY <1>5, <1>6, <1>7, <1>8 DEF RunInv

(* One that is given a CPU was RUNNABLE under its lock, so that no other   *)
(* CPU has it (the patch 19350-19352 and 19446-19449).                     *)
LEMMA RunsRuns ==
  ASSUME Types, PcInv, LockInv, RunInv, NEW c \in CPU, NEW p \in Proc,
         pc[c] \in {"scan", "commit"}, Free(p), state[p] = "RUNNABLE", Runs(c, p)
  PROVE  RunInv'
<1>1. \A d \in CPU : cproc[d] # p
  <2> SUFFICES ASSUME NEW d \in CPU, cproc[d] = p PROVE FALSE
    OBVIOUS
  <2>1. pc[d] = "end"
    BY DEF RunInv
  <2>2. holder[p] = d
    BY <2>1 DEF LockInv, HoldsLock
  <2> QED
    BY <2>2, XvProcAssumption DEF Free
<1>2. \A d \in CPU \ {c} : UNCHANGED <<cproc[d], pc[d]>>
  BY DEF Runs, Types, CpuTyped, Goto
<1>3. state' = [state EXCEPT ![p] = "RUNNING"]
  BY DEF Runs
<1>4. cproc[c] = None /\ cproc'[c] = p /\ pc'[c] \in {"start", "user"}
  BY DEF PcInv, PcOf, Runs, Types, CpuTyped, Goto
<1> USE DEF Types, ProcTyped, CpuTyped
<1>5. \A d \in CPU : cproc'[d] \in Proc /\ pc'[d] # "end" => state'[cproc'[d]] = "RUNNING"
  BY <1>1, <1>2, <1>3, <1>4 DEF RunInv
<1>6. \A d \in CPU : pc'[d] = "end" => state'[cproc'[d]] # "RUNNING"
  <2> SUFFICES ASSUME NEW d \in CPU, pc'[d] = "end"
     PROVE state'[cproc'[d]] # "RUNNING"
    OBVIOUS
  <2>1. d # c
    BY <1>4
  <2>2. cproc[d] \in Proc
    BY <1>2, <2>1 DEF PcInv, PcOf
  <2> QED
    BY <1>1, <1>2, <1>3, <2>1, <2>2 DEF RunInv
<1>7. \A d, e \in CPU : cproc'[d] \in Proc /\ cproc'[d] = cproc'[e] => d = e
  BY <1>1, <1>2, <1>4 DEF RunInv
<1>8. ASSUME NEW q \in Proc, state'[q] = "RUNNING"
   PROVE \E d \in CPU : cproc'[d] = q
  <2>1. CASE q = p
    BY <1>4, <2>1
  <2>2. CASE q # p
    <3>1. PICK d \in CPU : cproc[d] = q
      BY <1>3, <1>8, <2>2 DEF RunInv
    <3>2. d # c
      BY <1>4, <3>1, XvProcAssumption DEF None, Proc
    <3> QED
      BY <1>2, <3>1, <3>2
  <2> QED
    BY <2>1, <2>2
<1> QED
  BY <1>5, <1>6, <1>7, <1>8 DEF RunInv

(* Every step keeps the processes that are RUNNING and the CPUs that run   *)
(* them together.                                                          *)
LEMMA RunInvStep ==
  Types /\ PcInv /\ LockInv /\ SleepInv /\ ChildInv /\ RunInv /\ [Next]_vars
    => RunInv'
<1> SUFFICES ASSUME Types, PcInv, LockInv, SleepInv, ChildInv, RunInv,
   [Next]_vars PROVE RunInv'
  OBVIOUS
<1> USE XvProcAssumption DEF Types, ProcTyped, CpuTyped, PcInv, PcOf, LockInv,
   HoldsLock, SleepInv, ChildInv, RunInv, None
<1>1. ASSUME NEW c \in CPU, LoopBegins(c) PROVE RunInv'
  BY <1>1 DEF LoopBegins, Goto, queues, locks, cpuVars, choice
<1>2. ASSUME NEW c \in CPU, BoostMoves(c) PROVE RunInv'
  BY <1>2 DEF BoostMoves, Goto, queues, locks, cpuVars, choice
<1>3. ASSUME NEW c \in CPU, BoostMoved(c) PROVE RunInv'
  BY <1>3 DEF BoostMoved, Goto, queues, locks, cpuVars, choice
<1>4. ASSUME NEW c \in CPU, BoostEnds(c) PROVE RunInv'
  BY <1>4 DEF BoostEnds, Goto, queues, locks, cpuVars, choice
<1>5. ASSUME NEW c \in CPU, Scan(c) PROVE RunInv'
  <2>1. CASE ScanNext(c)
    <3>1. index[c] \in Proc
      BY <1>5, <2>1, ScanInProc DEF Scan, ScanNext
    <3>2. CASE Runs(c, index[c]) /\ state[index[c]] = "RUNNABLE"
      BY <1>5, <2>1, <3>1, <3>2, RunsRuns DEF Scan, ScanNext
    <3>3. CASE UNCHANGED <<state, pc, cproc>>
      BY <1>5, <3>3 DEF Scan
    <3> QED
      BY <2>1, <3>2, <3>3 DEF ScanNext
  <2>2. CASE ScanLeast(c) \/ ScanQueue(c)
    BY <1>5, <2>2 DEF Scan, ScanLeast, ScanQueue, Goto
  <2> QED
    BY <1>5, <2>1, <2>2 DEF Scan
<1>6. ASSUME NEW c \in CPU, ScanEnds(c) PROVE RunInv'
  BY <1>6 DEF ScanEnds, Goto, ScanEnd, queues, locks, cpuVars, choice
<1>7. ASSUME NEW c \in CPU, Commit(c) PROVE RunInv'
  <2>1. CASE Runs(c, best[c]) /\ StillReady(c)
    BY <1>7, <2>1, RunsRuns DEF Commit, StillReady, PcInv, PcOf
  <2>2. CASE Goto(c, "loop") /\ UNCHANGED <<state, cproc>>
    BY <1>7, <2>2 DEF Commit, Goto
  <2> QED
    BY <1>7, <2>1, <2>2 DEF Commit
<1>8. ASSUME NEW c \in CPU, StartTime(c) PROVE RunInv'
  BY <1>8 DEF StartTime, ReleasesProc, Goto, queues, locks, cpuVars, choice
<1>9. ASSUME NEW c \in CPU, EndTime(c) PROVE RunInv'
  <2>1. cproc[c] \in Proc /\ state[cproc[c]] # "RUNNING"
    BY <1>9 DEF EndTime
  <2>2. state' = state /\ cproc'[c] = None /\ pc'[c] = "loop"
    BY <1>9 DEF EndTime, Goto
  <2>3. \A d \in CPU \ {c} : UNCHANGED <<cproc[d], pc[d]>>
    BY <1>9 DEF EndTime, Goto
  <2>4. \A p \in Proc : state[p] = "RUNNING" => \E d \in CPU : cproc'[d] = p
    <3> SUFFICES ASSUME NEW p \in Proc, state[p] = "RUNNING"
       PROVE \E d \in CPU : cproc'[d] = p
      OBVIOUS
    <3>1. PICK d \in CPU : cproc[d] = p
      OBVIOUS
    <3> QED
      BY <2>1, <2>3, <3>1
  <2>5. \A d \in CPU : cproc'[d] \in Proc => d # c
    BY <2>2, NoneNotProc
  <2>6. \A d, e \in CPU : cproc'[d] \in Proc /\ cproc'[d] = cproc'[e] => d = e
    BY <2>3, <2>5
  <2>7. \A d \in CPU : cproc'[d] \in Proc /\ pc'[d] # "end" => state'[cproc'[d]] = "RUNNING"
    <3> SUFFICES ASSUME NEW d \in CPU, cproc'[d] \in Proc, pc'[d] # "end"
                 PROVE  state'[cproc'[d]] = "RUNNING"
      OBVIOUS
    <3>1. cproc'[d] = cproc[d] /\ pc'[d] = pc[d]
      BY <2>3, <2>5
    <3>2. state[cproc[d]] = "RUNNING"
      BY <3>1
    <3> QED
      BY <2>2, <3>1, <3>2
  <2>8. \A d \in CPU : pc'[d] = "end" => state'[cproc'[d]] # "RUNNING"
    <3> SUFFICES ASSUME NEW d \in CPU, pc'[d] = "end"
                 PROVE  state'[cproc'[d]] # "RUNNING"
      OBVIOUS
    <3>1. cproc'[d] = cproc[d] /\ pc'[d] = pc[d]
      BY <2>2, <2>3
    <3>2. state[cproc[d]] # "RUNNING"
      BY <3>1
    <3> QED
      BY <2>2, <3>1, <3>2
  <2> QED
    BY <2>2, <2>4, <2>6, <2>7, <2>8
<1>10. ASSUME NEW c \in CPU, Leaves(c) PROVE RunInv'
  <2> QED
    BY <1>10, SwitchRuns DEF Leaves, InCall, InProcess
<1>11. ASSUME NEW c \in CPU, Pauses(c) PROVE RunInv'
  <2> QED
    BY <1>11, SwitchRuns DEF Pauses, InCall, InProcess
<1>12. ASSUME NEW c \in CPU, Yields(c) PROVE RunInv'
  <2> QED
    BY <1>12, SwitchRuns DEF Yields
<1>13. ASSUME NEW c \in CPU, MlfqTick(c) PROVE RunInv'
  <2>1. CASE SwitchesOut(c, "RUNNABLE")
    BY <1>13, <2>1, SwitchRuns DEF MlfqTick
  <2>2. CASE /\ Goto(c, "user") \/ Goto(c, "demote")
             /\ UNCHANGED <<state, cproc>>
    BY <1>13, <2>2 DEF MlfqTick, Goto
  <2> QED
    BY <1>13, <2>1, <2>2 DEF MlfqTick
<1>14. ASSUME NEW c \in CPU, DemoteMoves(c) PROVE RunInv'
  BY <1>14 DEF DemoteMoves, Goto, queues, locks, cpuVars, choice
<1>15. ASSUME NEW c \in CPU, DemoteMoved(c) PROVE RunInv'
  <2> QED
    BY <1>15, SwitchRuns DEF DemoteMoved
<1>16. ASSUME NEW c \in CPU, NEW p \in Proc, AllocBegins(c, p),
   UNCHANGED <<choice, last_boost_tick>> PROVE RunInv'
  BY <1>16 DEF AllocBegins, InCall, InProcess, Free, Goto, queues, locks,
     cpuVars, choice
<1>17. ASSUME NEW c \in CPU, NEW p \in Proc, Reap(c, p), UNCHANGED <<choice,
   last_boost_tick>> PROVE RunInv'
  BY <1>17 DEF Reap, InCall, InProcess, Free, queues, locks, cpuVars, choice
<1>18. ASSUME NEW c \in CPU, NEW p \in Proc, Wake(c, p), UNCHANGED <<choice,
   last_boost_tick>> PROVE RunInv'
  BY <1>18 DEF Wake, Interruptible, Free, queues, locks, cpuVars, choice
<1>19. ASSUME NEW c \in CPU, AllocEnds(c), UNCHANGED <<choice,
   last_boost_tick>> PROVE RunInv'
  BY <1>19 DEF AllocEnds, Goto, queues, locks, cpuVars, choice
<1>20. ASSUME NEW c \in CPU, ForkEnds(c), UNCHANGED <<choice,
   last_boost_tick>> PROVE RunInv'
  BY <1>20 DEF ForkEnds, InProcess, Free, queues, locks, cpuVars, choice
<1>21. ASSUME NEW c \in CPU, OtherTimer(c), UNCHANGED <<choice,
   last_boost_tick>> PROVE RunInv'
  BY <1>21 DEF OtherTimer, InProcess, Goto, queues, locks, cpuVars, choice
<1>22. ASSUME ClockBegins, UNCHANGED <<choice, last_boost_tick>> PROVE RunInv'
  BY <1>22 DEF ClockBegins, Interruptible, Goto, queues, locks, cpuVars, choice
<1>23. ASSUME ClockWakes, UNCHANGED <<choice, last_boost_tick>> PROVE RunInv'
  BY <1>23 DEF ClockWakes, Free, queues, locks, cpuVars, choice
<1>24. ASSUME ClockEnds, UNCHANGED <<choice, last_boost_tick>> PROVE RunInv'
  BY <1>24 DEF ClockEnds, Goto, queues, locks, cpuVars, choice
<1>25. CASE UNCHANGED vars
  BY <1>25 DEF vars, procVars, queues, locks, cpuVars, choice
<1> QED
  BY <1>1, <1>2, <1>3, <1>4, <1>5, <1>6, <1>7, <1>8, <1>9, <1>10, <1>11, <1>12,
     <1>13, <1>14, <1>15, <1>16, <1>17, <1>18, <1>19, <1>20, <1>21, <1>22, <1>23,
     <1>24, <1>25 DEF Next, Scheduler, Process, Kernel

-----------------------------------------------------------------------------
(* Every step keeps asleep whoever waits for the clock: only clockintr     *)
(* wakes it.                                                               *)
LEMMA SleepInvStep ==
  Types /\ PcInv /\ RunInv /\ ChildInv /\ SleepInv /\ [Next]_vars => SleepInv'
<1> SUFFICES ASSUME Types, PcInv, RunInv, ChildInv, SleepInv, [Next]_vars
   PROVE SleepInv'
  OBVIOUS
<1> USE XvProcAssumption DEF Types, ProcTyped, CpuTyped, PcInv, PcOf, SleepInv,
   RunInv, None
<1>1. ASSUME NEW c \in CPU, LoopBegins(c) PROVE SleepInv'
  BY <1>1 DEF LoopBegins, Goto, queues, locks, cpuVars, choice
<1>2. ASSUME NEW c \in CPU, BoostMoves(c) PROVE SleepInv'
  BY <1>2 DEF BoostMoves, Goto, queues, locks, cpuVars, choice
<1>3. ASSUME NEW c \in CPU, BoostMoved(c) PROVE SleepInv'
  BY <1>3 DEF BoostMoved, Goto, queues, locks, cpuVars, choice
<1>4. ASSUME NEW c \in CPU, BoostEnds(c) PROVE SleepInv'
  BY <1>4 DEF BoostEnds, Goto, queues, locks, cpuVars, choice
<1>5. ASSUME NEW c \in CPU, Scan(c) PROVE SleepInv'
  BY <1>5 DEF Scan, ScanLeast, ScanQueue, ScanNext, Better, Runs, Goto, Free,
     ScanEnd, queues, locks, cpuVars, choice
<1>6. ASSUME NEW c \in CPU, ScanEnds(c) PROVE SleepInv'
  BY <1>6 DEF ScanEnds, Goto, ScanEnd, queues, locks, cpuVars, choice
<1>7. ASSUME NEW c \in CPU, Commit(c) PROVE SleepInv'
  BY <1>7 DEF Commit, Runs, Goto, Free, StillReady, queues, locks, cpuVars, choice
<1>8. ASSUME NEW c \in CPU, StartTime(c) PROVE SleepInv'
  BY <1>8 DEF StartTime, ReleasesProc, Goto, queues, locks, cpuVars, choice
<1>9. ASSUME NEW c \in CPU, EndTime(c) PROVE SleepInv'
  BY <1>9 DEF EndTime, ReleasesProc, RunTime, Goto, queues, locks, cpuVars, choice
<1>10. ASSUME NEW c \in CPU, Leaves(c) PROVE SleepInv'
  BY <1>10 DEF Leaves, SwitchesOut, Goto, Free, InCall, InProcess, queues, locks,
     cpuVars, choice
<1>11. ASSUME NEW c \in CPU, Pauses(c) PROVE SleepInv'
  BY <1>11 DEF Pauses, SwitchesOut, Goto, Free, InCall, InProcess, queues, locks,
     cpuVars, choice
<1>12. ASSUME NEW c \in CPU, Yields(c) PROVE SleepInv'
  <2>1. cproc[c] \notin on_ticks
    BY <1>12 DEF Yields
  <2> QED
    BY <1>12, <2>1 DEF Yields, SwitchesOut
<1>13. ASSUME NEW c \in CPU, MlfqTick(c) PROVE SleepInv'
  BY <1>13 DEF MlfqTick, SwitchesOut, Goto, Free, TimeUsed, CanFall, queues,
     locks, cpuVars, choice
<1>14. ASSUME NEW c \in CPU, DemoteMoves(c) PROVE SleepInv'
  BY <1>14 DEF DemoteMoves, Goto, queues, locks, cpuVars, choice
<1>15. ASSUME NEW c \in CPU, DemoteMoved(c) PROVE SleepInv'
  BY <1>15 DEF DemoteMoved, SwitchesOut, Goto, NextSlice, queues, locks, cpuVars,
     choice
<1>16. ASSUME NEW c \in CPU, NEW p \in Proc, AllocBegins(c, p),
   UNCHANGED <<choice, last_boost_tick>> PROVE SleepInv'
  BY <1>16 DEF AllocBegins, InCall, InProcess, Free, Goto, queues, locks,
     cpuVars, choice
<1>17. ASSUME NEW c \in CPU, NEW p \in Proc, Reap(c, p), UNCHANGED <<choice,
   last_boost_tick>> PROVE SleepInv'
  BY <1>17 DEF Reap, InCall, InProcess, Free, queues, locks, cpuVars, choice
<1>18. ASSUME NEW c \in CPU, NEW p \in Proc, Wake(c, p), UNCHANGED <<choice,
   last_boost_tick>> PROVE SleepInv'
  BY <1>18 DEF Wake, Interruptible, Free, queues, locks, cpuVars, choice
<1>19. ASSUME NEW c \in CPU, AllocEnds(c), UNCHANGED <<choice,
   last_boost_tick>> PROVE SleepInv'
  BY <1>19 DEF AllocEnds, Goto, queues, locks, cpuVars, choice
<1>20. ASSUME NEW c \in CPU, ForkEnds(c), UNCHANGED <<choice,
   last_boost_tick>> PROVE SleepInv'
  <2>1. cproc[c] \in Proc
    BY <1>20 DEF ForkEnds, InProcess
  <2>2. child[cproc[c]] \notin on_ticks
    BY <1>20, <2>1 DEF ForkEnds, ChildInv
  <2> QED
    BY <1>20, <2>2 DEF ForkEnds
<1>21. ASSUME NEW c \in CPU, OtherTimer(c), UNCHANGED <<choice,
   last_boost_tick>> PROVE SleepInv'
  BY <1>21 DEF OtherTimer, InProcess, Goto, queues, locks, cpuVars, choice
<1>22. ASSUME ClockBegins, UNCHANGED <<choice, last_boost_tick>> PROVE SleepInv'
  BY <1>22 DEF ClockBegins, Interruptible, Goto, queues, locks, cpuVars, choice
<1>23. ASSUME ClockWakes, UNCHANGED <<choice, last_boost_tick>> PROVE SleepInv'
  BY <1>23 DEF ClockWakes, Free, queues, locks, cpuVars, choice
<1>24. ASSUME ClockEnds, UNCHANGED <<choice, last_boost_tick>> PROVE SleepInv'
  BY <1>24 DEF ClockEnds, Goto, queues, locks, cpuVars, choice
<1>25. CASE UNCHANGED vars
  BY <1>25 DEF vars, procVars, queues, locks, cpuVars, choice
<1> QED
  BY <1>1, <1>2, <1>3, <1>4, <1>5, <1>6, <1>7, <1>8, <1>9, <1>10, <1>11, <1>12,
     <1>13, <1>14, <1>15, <1>16, <1>17, <1>18, <1>19, <1>20, <1>21, <1>22, <1>23,
     <1>24, <1>25 DEF Next, Scheduler, Process, Kernel

-----------------------------------------------------------------------------
(* A process that gives up its CPU in the middle of fork keeps its child.  *)
LEMMA SwitchChildren ==
  ASSUME Types, PcInv, RunInv, ChildInv, NEW c \in CPU,
         NEW next \in {"RUNNABLE", "SLEEPING", "ZOMBIE"},
         pc[c] \in {"user", "expired", "demoted"},
         SwitchesOut(c, next), child' = child,
         \A d \in CPU \ {c} : new'[d] = new[d]
  PROVE  ChildInv'
<1>1. cproc[c] \in Proc /\ state[cproc[c]] = "RUNNING"
  BY OnCpu DEF RunInv
<1>2. \A d \in CPU : pc'[d] = "alloc" => d # c /\ pc[d] = "alloc" /\ new'[d] = new[d]
  BY DEF SwitchesOut, Types, CpuTyped, Goto
<1>3. \A p \in Proc : state[p] = "USED" => state'[p] = "USED"
  BY <1>1 DEF SwitchesOut, Types, ProcTyped
<1>4. \A d \in CPU : pc'[d] = "alloc" => new'[d] \in Proc
  BY <1>2 DEF PcInv, PcOf
<1> QED
  BY <1>2, <1>3, <1>4 DEF ChildInv, Types, ProcTyped

(* Every step keeps the slots that allocproc has given to fork, each to    *)
(* one caller.                                                             *)
LEMMA ChildInvStep ==
  Types /\ PcInv /\ LockInv /\ RunInv /\ SleepInv /\ ChildInv /\ [Next]_vars
    => ChildInv'
<1> SUFFICES ASSUME Types, PcInv, LockInv, RunInv, SleepInv, ChildInv,
   [Next]_vars PROVE ChildInv'
  OBVIOUS
<1> USE XvProcAssumption DEF Types, ProcTyped, CpuTyped, PcInv, PcOf, RunInv,
   ChildInv, None
<1>1. ASSUME NEW c \in CPU, LoopBegins(c) PROVE ChildInv'
  BY <1>1 DEF LoopBegins, Goto, queues, locks, cpuVars, choice
<1>2. ASSUME NEW c \in CPU, BoostMoves(c) PROVE ChildInv'
  BY <1>2 DEF BoostMoves, Goto, queues, locks, cpuVars, choice
<1>3. ASSUME NEW c \in CPU, BoostMoved(c) PROVE ChildInv'
  BY <1>3 DEF BoostMoved, Goto, queues, locks, cpuVars, choice
<1>4. ASSUME NEW c \in CPU, BoostEnds(c) PROVE ChildInv'
  BY <1>4 DEF BoostEnds, Goto, queues, locks, cpuVars, choice
<1>5. ASSUME NEW c \in CPU, Scan(c) PROVE ChildInv'
  BY <1>5 DEF Scan, ScanLeast, ScanQueue, ScanNext, Better, Runs, Goto, Free,
     ScanEnd, queues, locks, cpuVars, choice
<1>6. ASSUME NEW c \in CPU, ScanEnds(c) PROVE ChildInv'
  BY <1>6 DEF ScanEnds, Goto, ScanEnd, queues, locks, cpuVars, choice
<1>7. ASSUME NEW c \in CPU, Commit(c) PROVE ChildInv'
  BY <1>7 DEF Commit, Runs, Goto, Free, StillReady, queues, locks, cpuVars, choice
<1>8. ASSUME NEW c \in CPU, StartTime(c) PROVE ChildInv'
  BY <1>8 DEF StartTime, ReleasesProc, Goto, queues, locks, cpuVars, choice
<1>9. ASSUME NEW c \in CPU, EndTime(c) PROVE ChildInv'
  BY <1>9 DEF EndTime, ReleasesProc, RunTime, Goto, queues, locks, cpuVars, choice
<1>10. ASSUME NEW c \in CPU, Leaves(c) PROVE ChildInv'
  <2> QED
    BY <1>10, SwitchChildren DEF Leaves, InCall, InProcess
<1>11. ASSUME NEW c \in CPU, Pauses(c) PROVE ChildInv'
  <2> QED
    BY <1>11, SwitchChildren DEF Pauses, InCall, InProcess
<1>12. ASSUME NEW c \in CPU, Yields(c) PROVE ChildInv'
  <2> QED
    BY <1>12, SwitchChildren DEF Yields
<1>13. ASSUME NEW c \in CPU, MlfqTick(c) PROVE ChildInv'
  <2>1. CASE SwitchesOut(c, "RUNNABLE") /\ UNCHANGED new
    BY <1>13, <2>1, SwitchChildren DEF MlfqTick
  <2>2. CASE /\ Goto(c, "user") \/ Goto(c, "demote")
             /\ \A d \in CPU \ {c} : UNCHANGED new[d]
             /\ UNCHANGED state
    BY <1>13, <2>2 DEF MlfqTick, Goto
  <2> QED
    BY <1>13, <2>1, <2>2 DEF MlfqTick
<1>14. ASSUME NEW c \in CPU, DemoteMoves(c) PROVE ChildInv'
  BY <1>14 DEF DemoteMoves, Goto, queues, locks, cpuVars, choice
<1>15. ASSUME NEW c \in CPU, DemoteMoved(c) PROVE ChildInv'
  <2> QED
    BY <1>15, SwitchChildren DEF DemoteMoved
<1>16. ASSUME NEW c \in CPU, NEW p \in Proc, AllocBegins(c, p),
   UNCHANGED <<choice, last_boost_tick>> PROVE ChildInv'
  <2>1. state[p] = "UNUSED" /\ state' = [state EXCEPT ![p] = "USED"] /\ child' = child
    BY <1>16 DEF AllocBegins
  <2>2. \A q \in Proc : child[q] # None => child[q] \in Proc /\ child[q] # p
    BY <2>1
  <2>3. \A q \in Proc : child[q] # None => state'[child[q]] = "USED"
    BY <2>1, <2>2
  <2>4. ASSUME NEW d \in CPU, pc'[d] = "alloc"
        PROVE  state'[new'[d]] = "USED" /\ \A q \in Proc : child'[q] # new'[d]
    <3>1. CASE d = c
      <4>1. new'[d] = p
        BY <1>16, <3>1 DEF AllocBegins
      <4> QED
        BY <2>1, <2>2, <4>1, NoneNotProc DEF None
    <3>2. CASE d # c
      <4>1. new'[d] = new[d] /\ pc[d] = "alloc"
        BY <1>16, <2>4, <3>2 DEF AllocBegins, Goto
      <4>2. new[d] \in Proc /\ state[new[d]] = "USED"
        BY <4>1
      <4> QED
        BY <2>1, <4>1, <4>2
    <3> QED
      BY <3>1, <3>2
  <2> QED
    BY <2>1, <2>3, <2>4
<1>17. ASSUME NEW c \in CPU, NEW p \in Proc, Reap(c, p), UNCHANGED <<choice,
   last_boost_tick>> PROVE ChildInv'
  BY <1>17 DEF Reap, InCall, InProcess, Free, queues, locks, cpuVars, choice
<1>18. ASSUME NEW c \in CPU, NEW p \in Proc, Wake(c, p), UNCHANGED <<choice,
   last_boost_tick>> PROVE ChildInv'
  BY <1>18 DEF Wake, Interruptible, Free, queues, locks, cpuVars, choice
<1>19. ASSUME NEW c \in CPU, AllocEnds(c), UNCHANGED <<choice,
   last_boost_tick>> PROVE ChildInv'
  <2>1. cproc[c] \in Proc /\ new[c] \in Proc /\ state[new[c]] = "USED"
    BY <1>19 DEF AllocEnds
  <2>2. \A q \in Proc : child[q] # new[c]
    BY <1>19 DEF AllocEnds
  <2>3. state' = state /\ child' = [child EXCEPT ![cproc[c]] = new[c]]
    BY <1>19 DEF AllocEnds
  <2>4. \A q \in Proc : child'[q] # None => state'[child'[q]] = "USED"
    BY <2>1, <2>3
  <2>5. \A q, r \in Proc : child'[q] # None /\ child'[q] = child'[r] => q = r
    BY <2>1, <2>2, <2>3
  <2>6. ASSUME NEW d \in CPU, pc'[d] = "alloc"
        PROVE  state'[new'[d]] = "USED" /\ \A q \in Proc : child'[q] # new'[d]
    <3>1. d # c /\ pc[d] = "alloc" /\ new'[d] = new[d]
      BY <1>19, <2>6 DEF AllocEnds, Goto
    <3>2. new[d] # new[c]
      BY <1>19, <2>1, <3>1 DEF AllocEnds, LockInv, HoldsLock
    <3>3. state[new[d]] = "USED" /\ \A q \in Proc : child[q] # new[d]
      BY <3>1
    <3> QED
      BY <2>1, <2>3, <3>1, <3>2, <3>3
  <2> QED
    BY <2>4, <2>5, <2>6
<1>20. ASSUME NEW c \in CPU, ForkEnds(c), UNCHANGED <<choice,
   last_boost_tick>> PROVE ChildInv'
  BY <1>20 DEF ForkEnds, InProcess, Free, queues, locks, cpuVars, choice
<1>21. ASSUME NEW c \in CPU, OtherTimer(c), UNCHANGED <<choice,
   last_boost_tick>> PROVE ChildInv'
  BY <1>21 DEF OtherTimer, InProcess, Goto, queues, locks, cpuVars, choice
<1>22. ASSUME ClockBegins, UNCHANGED <<choice, last_boost_tick>> PROVE ChildInv'
  BY <1>22 DEF ClockBegins, Interruptible, Goto, queues, locks, cpuVars, choice
<1>23. ASSUME ClockWakes, UNCHANGED <<choice, last_boost_tick>> PROVE ChildInv'
  <2>1. \A p \in Proc : state[p] = "USED" => state'[p] = "USED"
    BY <1>23 DEF ClockWakes, SleepInv
  <2>2. UNCHANGED <<child, pc, new>>
    BY <1>23 DEF ClockWakes
  <2> QED
    BY <2>1, <2>2
<1>24. ASSUME ClockEnds, UNCHANGED <<choice, last_boost_tick>> PROVE ChildInv'
  BY <1>24 DEF ClockEnds, Goto, queues, locks, cpuVars, choice
<1>25. CASE UNCHANGED vars
  BY <1>25 DEF vars, procVars, queues, locks, cpuVars, choice
<1> QED
  BY <1>1, <1>2, <1>3, <1>4, <1>5, <1>6, <1>7, <1>8, <1>9, <1>10, <1>11, <1>12,
     <1>13, <1>14, <1>15, <1>16, <1>17, <1>18, <1>19, <1>20, <1>21, <1>22, <1>23,
     <1>24, <1>25 DEF Next, Scheduler, Process, Kernel

-----------------------------------------------------------------------------
(* Every step keeps the time charged below the time lived: EndTime adds    *)
(* what lies behind start_ticks, up to which everything has been charged   *)
(* (the patch 19420-19423).                                                *)
LEMMA TimeInvStep ==
  Types /\ PcInv /\ LockInv /\ RunInv /\ ChildInv /\ TimeInv /\ [Next]_vars
    => TimeInv'
<1> SUFFICES ASSUME Types, PcInv, LockInv, RunInv, ChildInv, TimeInv,
   [Next]_vars PROVE TimeInv'
  OBVIOUS
<1> USE XvProcAssumption DEF Types, ProcTyped, CpuTyped, ClockTyped, PcInv, PcOf,
   RunInv, ChildInv, TimeInv, Charged, None
<1>1. ASSUME NEW c \in CPU, LoopBegins(c) PROVE TimeInv'
  BY <1>1 DEF LoopBegins, Goto, queues, locks, cpuVars, choice
<1>2. ASSUME NEW c \in CPU, BoostMoves(c) PROVE TimeInv'
  BY <1>2 DEF BoostMoves, Goto, queues, locks, cpuVars, choice
<1>3. ASSUME NEW c \in CPU, BoostMoved(c) PROVE TimeInv'
  BY <1>3 DEF BoostMoved, Goto, queues, locks, cpuVars, choice
<1>4. ASSUME NEW c \in CPU, BoostEnds(c) PROVE TimeInv'
  BY <1>4 DEF BoostEnds, Goto, queues, locks, cpuVars, choice
<1>5. ASSUME NEW c \in CPU, Scan(c) PROVE TimeInv'
  <2>1. UNCHANGED <<policy, vruntime, creation_time, ticks, start_ticks>>
    BY <1>5 DEF Scan
  <2>2. ASSUME NEW d \in CPU, Charged(d)' PROVE cproc'[d] = cproc[d] /\ Charged(d)
    BY <1>5, <2>2 DEF Scan, ScanLeast, ScanQueue, ScanNext, Runs, Goto
  <2> QED
    BY <2>1, <2>2
<1>6. ASSUME NEW c \in CPU, ScanEnds(c) PROVE TimeInv'
  BY <1>6 DEF ScanEnds, Goto, ScanEnd, queues, locks, cpuVars, choice
<1>7. ASSUME NEW c \in CPU, Commit(c) PROVE TimeInv'
  <2>1. UNCHANGED <<policy, vruntime, creation_time, ticks, start_ticks>>
    BY <1>7 DEF Commit
  <2>2. ASSUME NEW d \in CPU, Charged(d)' PROVE cproc'[d] = cproc[d] /\ Charged(d)
    BY <1>7, <2>2 DEF Commit, Runs, Goto
  <2> QED
    BY <2>1, <2>2
<1>8. ASSUME NEW c \in CPU, StartTime(c) PROVE TimeInv'
  BY <1>8 DEF StartTime, ReleasesProc, Goto, queues, locks, cpuVars, choice
<1>9. ASSUME NEW c \in CPU, EndTime(c) PROVE TimeInv'
  <2>1. cproc[c] \in Proc /\ policy = "CFS" /\ pc[c] = "end"
    BY <1>9 DEF EndTime
  <2>2. vruntime[cproc[c]] + creation_time[cproc[c]] <= start_ticks[c]
    BY <2>1
  <2>3. vruntime' = [vruntime EXCEPT ![cproc[c]] = @ + (ticks - start_ticks[c])]
    BY <1>9 DEF EndTime, RunTime
  <2>4. UNCHANGED <<policy, creation_time, ticks>>
    BY <1>9 DEF EndTime
  <2>5. \A p \in Proc : vruntime'[p] + creation_time[p] <= ticks
    BY <2>1, <2>2, <2>3
  <2>6. ASSUME NEW d \in CPU, Charged(d)'
        PROVE  vruntime'[cproc'[d]] + creation_time[cproc'[d]] <= start_ticks'[d]
    <3>1. d # c
      BY <1>9, <2>6, NoneNotProc DEF EndTime
    <3>2. cproc'[d] = cproc[d] /\ pc'[d] = pc[d] /\ start_ticks'[d] = start_ticks[d]
      BY <1>9, <3>1 DEF EndTime, Goto
    <3>3. cproc[d] \in Proc /\ cproc[d] # cproc[c]
      BY <2>1, <2>6, <3>1, <3>2
    <3>4. vruntime[cproc[d]] + creation_time[cproc[d]] <= start_ticks[d]
      BY <2>4, <2>6, <3>2
    <3> QED
      BY <2>3, <3>2, <3>3, <3>4
  <2> QED
    BY <2>4, <2>5, <2>6
<1>10. ASSUME NEW c \in CPU, Leaves(c) PROVE TimeInv'
  BY <1>10 DEF Leaves, SwitchesOut, Goto, Free, InCall, InProcess, queues, locks,
     cpuVars, choice
<1>11. ASSUME NEW c \in CPU, Pauses(c) PROVE TimeInv'
  BY <1>11 DEF Pauses, SwitchesOut, Goto, Free, InCall, InProcess, queues, locks,
     cpuVars, choice
<1>12. ASSUME NEW c \in CPU, Yields(c) PROVE TimeInv'
  BY <1>12 DEF Yields, SwitchesOut, Goto, Free, queues, locks, cpuVars, choice
<1>13. ASSUME NEW c \in CPU, MlfqTick(c) PROVE TimeInv'
  BY <1>13 DEF MlfqTick, SwitchesOut, Goto, Free, TimeUsed, CanFall, queues,
     locks, cpuVars, choice
<1>14. ASSUME NEW c \in CPU, DemoteMoves(c) PROVE TimeInv'
  BY <1>14 DEF DemoteMoves, Goto, queues, locks, cpuVars, choice
<1>15. ASSUME NEW c \in CPU, DemoteMoved(c) PROVE TimeInv'
  BY <1>15 DEF DemoteMoved, SwitchesOut, Goto, NextSlice, queues, locks, cpuVars,
     choice
<1>16. ASSUME NEW c \in CPU, NEW p \in Proc, AllocBegins(c, p),
   UNCHANGED <<choice, last_boost_tick>> PROVE TimeInv'
  BY <1>16 DEF AllocBegins, InCall, InProcess, Free, Goto, queues, locks,
     cpuVars, choice
<1>17. ASSUME NEW c \in CPU, NEW p \in Proc, Reap(c, p), UNCHANGED <<choice,
   last_boost_tick>> PROVE TimeInv'
  BY <1>17 DEF Reap, InCall, InProcess, Free, queues, locks, cpuVars, choice
<1>18. ASSUME NEW c \in CPU, NEW p \in Proc, Wake(c, p), UNCHANGED <<choice,
   last_boost_tick>> PROVE TimeInv'
  BY <1>18 DEF Wake, Interruptible, Free, queues, locks, cpuVars, choice
<1>19. ASSUME NEW c \in CPU, AllocEnds(c), UNCHANGED <<choice,
   last_boost_tick>> PROVE TimeInv'
  <2>1. new[c] \in Proc /\ pc[c] = "alloc" /\ state[new[c]] = "USED"
    BY <1>19 DEF AllocEnds
  <2>2. /\ vruntime' = [vruntime EXCEPT ![new[c]] = 0]
        /\ creation_time' = [creation_time EXCEPT ![new[c]] = ticks]
        /\ UNCHANGED <<policy, ticks, cproc, start_ticks>>
    BY <1>19 DEF AllocEnds, choice
  <2>3. \A p \in Proc : vruntime'[p] + creation_time'[p] <= ticks
    BY <2>1, <2>2
  <2>4. ASSUME NEW d \in CPU, Charged(d)'
        PROVE  vruntime'[cproc'[d]] + creation_time'[cproc'[d]] <= start_ticks'[d]
    <3>1. cproc[d] \in Proc /\ cproc[d] # new[c]
      <4>1. CASE pc[d] = "end"
        <5>1. holder[cproc[d]] = d /\ holder[new[c]] = c /\ c # d /\ cproc[d] \in Proc
          BY <2>1, <4>1 DEF LockInv, HoldsLock
        <5> QED
          BY <5>1
      <4>2. CASE pc[d] # "end"
        BY <2>1, <2>2, <2>4, <4>2
      <4> QED
        BY <4>1, <4>2
    <3>2. Charged(d)
      BY <1>19, <2>2, <2>4 DEF AllocEnds, Goto
    <3>3. vruntime[cproc[d]] + creation_time[cproc[d]] <= start_ticks[d]
      BY <3>2
    <3> QED
      BY <2>2, <3>1, <3>3
  <2> QED
    BY <2>2, <2>3, <2>4
<1>20. ASSUME NEW c \in CPU, ForkEnds(c), UNCHANGED <<choice,
   last_boost_tick>> PROVE TimeInv'
  BY <1>20 DEF ForkEnds, InProcess, Free, queues, locks, cpuVars, choice
<1>21. ASSUME NEW c \in CPU, OtherTimer(c), UNCHANGED <<choice,
   last_boost_tick>> PROVE TimeInv'
  BY <1>21 DEF OtherTimer, InProcess, Goto, queues, locks, cpuVars, choice
<1>22. ASSUME ClockBegins, UNCHANGED <<choice, last_boost_tick>> PROVE TimeInv'
  BY <1>22 DEF ClockBegins, Interruptible, Goto, queues, locks, cpuVars, choice
<1>23. ASSUME ClockWakes, UNCHANGED <<choice, last_boost_tick>> PROVE TimeInv'
  BY <1>23 DEF ClockWakes, Free, queues, locks, cpuVars, choice
<1>24. ASSUME ClockEnds, UNCHANGED <<choice, last_boost_tick>> PROVE TimeInv'
  BY <1>24 DEF ClockEnds, Goto, queues, locks, cpuVars, choice
<1>25. CASE UNCHANGED vars
  BY <1>25 DEF vars, procVars, queues, locks, cpuVars, choice
<1> QED
  BY <1>1, <1>2, <1>3, <1>4, <1>5, <1>6, <1>7, <1>8, <1>9, <1>10, <1>11, <1>12,
     <1>13, <1>14, <1>15, <1>16, <1>17, <1>18, <1>19, <1>20, <1>21, <1>22, <1>23,
     <1>24, <1>25 DEF Next, Scheduler, Process, Kernel

-----------------------------------------------------------------------------
(* Where a boost has begun, it remains so.                                 *)
LEMMA BoostedStep == Types /\ PcInv /\ Boosted /\ [Next]_vars => Boosted'
<1> SUFFICES ASSUME Types, PcInv, Boosted, [Next]_vars PROVE Boosted'
  OBVIOUS
<1> USE XvProcAssumption DEF Types, CpuTyped, ClockTyped, PcInv, PcOf, Boosted
<1>1. ASSUME NEW c \in CPU, LoopBegins(c) PROVE Boosted'
  BY <1>1 DEF LoopBegins, Goto, queues, locks, cpuVars, choice
<1>2. ASSUME NEW c \in CPU, BoostMoves(c) PROVE Boosted'
  BY <1>2 DEF BoostMoves, Goto, queues, locks, cpuVars, choice
<1>3. ASSUME NEW c \in CPU, BoostMoved(c) PROVE Boosted'
  BY <1>3 DEF BoostMoved, Goto, queues, locks, cpuVars, choice
<1>4. ASSUME NEW c \in CPU, BoostEnds(c) PROVE Boosted'
  BY <1>4 DEF BoostEnds, Goto, queues, locks, cpuVars, choice
<1>5. ASSUME NEW c \in CPU, Scan(c) PROVE Boosted'
  BY <1>5 DEF Scan, ScanLeast, ScanQueue, ScanNext, Better, Runs, Goto, Free,
     ScanEnd, queues, locks, cpuVars, choice
<1>6. ASSUME NEW c \in CPU, ScanEnds(c) PROVE Boosted'
  BY <1>6 DEF ScanEnds, Goto, ScanEnd, queues, locks, cpuVars, choice
<1>7. ASSUME NEW c \in CPU, Commit(c) PROVE Boosted'
  BY <1>7 DEF Commit, Runs, Goto, Free, StillReady, queues, locks, cpuVars, choice
<1>8. ASSUME NEW c \in CPU, StartTime(c) PROVE Boosted'
  BY <1>8 DEF StartTime, ReleasesProc, Goto, queues, locks, cpuVars, choice
<1>9. ASSUME NEW c \in CPU, EndTime(c) PROVE Boosted'
  BY <1>9 DEF EndTime, ReleasesProc, RunTime, Goto, queues, locks, cpuVars, choice
<1>10. ASSUME NEW c \in CPU, Leaves(c) PROVE Boosted'
  BY <1>10 DEF Leaves, SwitchesOut, Goto, Free, InCall, InProcess, queues, locks,
     cpuVars, choice
<1>11. ASSUME NEW c \in CPU, Pauses(c) PROVE Boosted'
  BY <1>11 DEF Pauses, SwitchesOut, Goto, Free, InCall, InProcess, queues, locks,
     cpuVars, choice
<1>12. ASSUME NEW c \in CPU, Yields(c) PROVE Boosted'
  BY <1>12 DEF Yields, SwitchesOut, Goto, Free, queues, locks, cpuVars, choice
<1>13. ASSUME NEW c \in CPU, MlfqTick(c) PROVE Boosted'
  BY <1>13 DEF MlfqTick, SwitchesOut, Goto, Free, TimeUsed, CanFall, queues,
     locks, cpuVars, choice
<1>14. ASSUME NEW c \in CPU, DemoteMoves(c) PROVE Boosted'
  BY <1>14 DEF DemoteMoves, Goto, queues, locks, cpuVars, choice
<1>15. ASSUME NEW c \in CPU, DemoteMoved(c) PROVE Boosted'
  BY <1>15 DEF DemoteMoved, SwitchesOut, Goto, NextSlice, queues, locks, cpuVars,
     choice
<1>16. ASSUME NEW c \in CPU, NEW p \in Proc, AllocBegins(c, p),
   UNCHANGED <<choice, last_boost_tick>> PROVE Boosted'
  BY <1>16 DEF AllocBegins, InCall, InProcess, Free, Goto, queues, locks,
     cpuVars, choice
<1>17. ASSUME NEW c \in CPU, NEW p \in Proc, Reap(c, p), UNCHANGED <<choice,
   last_boost_tick>> PROVE Boosted'
  BY <1>17 DEF Reap, InCall, InProcess, Free, queues, locks, cpuVars, choice
<1>18. ASSUME NEW c \in CPU, NEW p \in Proc, Wake(c, p), UNCHANGED <<choice,
   last_boost_tick>> PROVE Boosted'
  BY <1>18 DEF Wake, Interruptible, Free, queues, locks, cpuVars, choice
<1>19. ASSUME NEW c \in CPU, AllocEnds(c), UNCHANGED <<choice,
   last_boost_tick>> PROVE Boosted'
  BY <1>19 DEF AllocEnds, Goto, queues, locks, cpuVars, choice
<1>20. ASSUME NEW c \in CPU, ForkEnds(c), UNCHANGED <<choice,
   last_boost_tick>> PROVE Boosted'
  BY <1>20 DEF ForkEnds, InProcess, Free, queues, locks, cpuVars, choice
<1>21. ASSUME NEW c \in CPU, OtherTimer(c), UNCHANGED <<choice,
   last_boost_tick>> PROVE Boosted'
  BY <1>21 DEF OtherTimer, InProcess, Goto, queues, locks, cpuVars, choice
<1>22. ASSUME ClockBegins, UNCHANGED <<choice, last_boost_tick>> PROVE Boosted'
  BY <1>22 DEF ClockBegins, Interruptible, Goto, queues, locks, cpuVars, choice
<1>23. ASSUME ClockWakes, UNCHANGED <<choice, last_boost_tick>> PROVE Boosted'
  BY <1>23 DEF ClockWakes, Free, queues, locks, cpuVars, choice
<1>24. ASSUME ClockEnds, UNCHANGED <<choice, last_boost_tick>> PROVE Boosted'
  BY <1>24 DEF ClockEnds, Goto, queues, locks, cpuVars, choice
<1>25. CASE UNCHANGED vars
  BY <1>25 DEF vars, procVars, queues, locks, cpuVars, choice
<1> QED
  BY <1>1, <1>2, <1>3, <1>4, <1>5, <1>6, <1>7, <1>8, <1>9, <1>10, <1>11, <1>12,
     <1>13, <1>14, <1>15, <1>16, <1>17, <1>18, <1>19, <1>20, <1>21, <1>22, <1>23,
     <1>24, <1>25 DEF Next, Scheduler, Process, Kernel

(* A step that moves no process and starts no move leaves the slices       *)
(* alone.                                                                  *)
LEMMA SliceFrame ==
  ASSUME SliceInv, Boosted => Boosted', UNCHANGED <<queue_level,
     queue_time_slice>>, NEW c \in CPU,
         pc[c] \notin {"boosted", "demoted", "alloc"}, pc'[c] # "demoted",
         \A d \in CPU \ {c} : UNCHANGED <<pc[d], cproc[d], index[d], new[d]>>
  PROVE  SliceInv'
<1>1. ASSUME NEW p \in Proc, Moving(p) PROVE Moving(p)'
  BY <1>1 DEF Moving
<1>3. SliceOfQueue'
  <2> SUFFICES ASSUME NEW p \in Proc, ~Moving(p)'
               PROVE  (Fits(p))'
    BY DEF SliceOfQueue, Fits
  <2>1. Fits(p)
    BY <1>1 DEF SliceInv, SliceOfQueue, Fits
  <2> QED
    BY <2>1 DEF Fits
<1>4. ASSUME NEW d \in CPU, pc'[d] = "demoted"
      PROVE  (Landed(d))'
  <2>1. d # c
    BY <1>4
  <2>2. Landed(d)
    BY <1>4, <2>1 DEF SliceInv
  <2>3. UNCHANGED <<cproc[d], new[d]>>
    BY <2>1
  <2> QED
    BY <2>2, <2>3 DEF Landed
<1> QED
  BY <1>3, <1>4 DEF SliceInv

(* Every step keeps the slices: what a boost and a demotion leave that     *)
(* cross each other is all there is besides the slice of the queue.        *)
LEMMA SliceInvStep ==
  Types /\ PcInv /\ LockInv /\ SliceInv /\ [Next]_vars => SliceInv'
<1> SUFFICES ASSUME Types, PcInv, LockInv, SliceInv, [Next]_vars PROVE SliceInv'
  OBVIOUS
<1> Boosted => Boosted'
  BY BoostedStep
<1> USE XvProcAssumption DEF Types, QueueTyped, CpuTyped, PcInv, PcOf, SliceInv
<1>1. ASSUME NEW c \in CPU, LoopBegins(c) PROVE SliceInv'
  <2>1. UNCHANGED <<queue_level, queue_time_slice>>
    BY <1>1 DEF LoopBegins, queues
  <2>2. pc[c] \notin {"boosted", "demoted", "alloc"} /\ pc'[c] # "demoted"
    BY <1>1 DEF LoopBegins, Goto, cpuVars, Choosing
  <2>3. \A d \in CPU \ {c} : UNCHANGED <<pc[d], cproc[d], index[d], new[d]>>
    BY <1>1 DEF LoopBegins, Goto, cpuVars, Choosing
  <2> QED
    BY <2>1, <2>2, <2>3, SliceFrame
<1>2. ASSUME NEW c \in CPU, BoostMoves(c) PROVE SliceInv'
  <2>1. Boosted' /\ pc[c] = "boost" /\ index[c] \in Proc
    BY <1>2 DEF BoostMoves, Boosted
  <2>9. \A d \in CPU \ {c} : UNCHANGED <<pc[d], cproc[d], index[d], new[d]>>
    BY <1>2 DEF BoostMoves, Goto
  <2>2. UNCHANGED queue_time_slice
    BY <1>2 DEF BoostMoves
  <2>3. \/ /\ pc'[c] = "boosted" /\ index'[c] = index[c]
           /\ queue_level' = [queue_level EXCEPT ![index[c]] = 0]
        \/ pc'[c] = "boost" /\ queue_level' = queue_level
    BY <1>2, <2>1 DEF BoostMoves, Goto
  <2>4. ASSUME NEW p \in Proc, ~Moving(p)' PROVE (Fits(p))'
    <3>1. queue_level'[p] = queue_level[p]
      BY <2>3, <2>4 DEF Moving
    <3>2. ~Moving(p)
      BY <2>1, <2>9, <2>4 DEF Moving
    <3>3. Fits(p)
      BY <3>2 DEF SliceOfQueue, Fits
    <3> QED
      BY <2>1, <2>2, <3>1, <3>3 DEF Fits
  <2>5. ASSUME NEW d \in CPU, pc'[d] = "demoted" PROVE (Landed(d))'
    <3>1. d # c
      BY <2>3, <2>5
    <3>2. Landed(d) /\ cproc[d] \in Proc
      BY <2>5, <2>9, <3>1
    <3>3. queue_level'[cproc[d]] \in {queue_level[cproc[d]], 0}
      BY <2>3, <3>2
    <3> QED
      BY <2>1, <2>9, <3>1, <3>2, <3>3 DEF Landed
  <2> QED
    BY <2>4, <2>5 DEF SliceOfQueue, Fits
<1>3. ASSUME NEW c \in CPU, BoostMoved(c) PROVE SliceInv'
  <2>1. Boosted' /\ pc[c] = "boosted" /\ pc'[c] = "boost" /\ index[c] \in Proc
    BY <1>3 DEF BoostMoved, Boosted, Goto
  <2>9. \A d \in CPU \ {c} : UNCHANGED <<pc[d], cproc[d], index[d], new[d]>>
    BY <1>3 DEF BoostMoved, Goto
  <2>2. /\ UNCHANGED queue_level
        /\ queue_time_slice' = [queue_time_slice EXCEPT ![index[c]] = Slices[0]]
    BY <1>3 DEF BoostMoved
  <2>4. ASSUME NEW p \in Proc, ~Moving(p)' PROVE (Fits(p))'
    <3>1. CASE p = index[c]
      BY <2>1, <2>2, <3>1 DEF Fits
    <3>2. CASE p # index[c]
      <4>1. ~Moving(p)
        BY <2>1, <2>9, <2>4, <3>2 DEF Moving
      <4>2. Fits(p)
        BY <4>1 DEF SliceOfQueue, Fits
      <4> QED
        BY <2>1, <2>2, <3>2, <4>2 DEF Fits
    <3> QED
      BY <3>1, <3>2
  <2>5. ASSUME NEW d \in CPU, pc'[d] = "demoted" PROVE (Landed(d))'
    <3>1. d # c
      BY <2>1, <2>5
    <3>2. Landed(d)
      BY <2>5, <2>9, <3>1
    <3> QED
      BY <2>1, <2>2, <2>9, <3>1, <3>2 DEF Landed
  <2> QED
    BY <2>4, <2>5 DEF SliceOfQueue, Fits
<1>4. ASSUME NEW c \in CPU, BoostEnds(c) PROVE SliceInv'
  <2>1. UNCHANGED <<queue_level, queue_time_slice>>
    BY <1>4 DEF BoostEnds, queues
  <2>2. pc[c] \notin {"boosted", "demoted", "alloc"} /\ pc'[c] # "demoted"
    BY <1>4 DEF BoostEnds, Goto, cpuVars, Choosing
  <2>3. \A d \in CPU \ {c} : UNCHANGED <<pc[d], cproc[d], index[d], new[d]>>
    BY <1>4 DEF BoostEnds, Goto, cpuVars, Choosing
  <2> QED
    BY <2>1, <2>2, <2>3, SliceFrame
<1>5. ASSUME NEW c \in CPU, Scan(c) PROVE SliceInv'
  <2>1. UNCHANGED <<queue_level, queue_time_slice>>
    BY <1>5 DEF Scan, queues
  <2>2. pc[c] \notin {"boosted", "demoted", "alloc"} /\ pc'[c] # "demoted"
    BY <1>5 DEF Scan, ScanLeast, ScanQueue, ScanNext, Better, Runs, Goto, Free,
       ScanEnd, cpuVars, Choosing
  <2>3. \A d \in CPU \ {c} : UNCHANGED <<pc[d], cproc[d], index[d], new[d]>>
    BY <1>5 DEF Scan, ScanLeast, ScanQueue, ScanNext, Better, Runs, Goto, Free,
       ScanEnd, cpuVars, Choosing
  <2> QED
    BY <2>1, <2>2, <2>3, SliceFrame
<1>6. ASSUME NEW c \in CPU, ScanEnds(c) PROVE SliceInv'
  <2>1. UNCHANGED <<queue_level, queue_time_slice>>
    BY <1>6 DEF ScanEnds, queues
  <2>2. pc[c] \notin {"boosted", "demoted", "alloc"} /\ pc'[c] # "demoted"
    BY <1>6 DEF ScanEnds, Goto, ScanEnd, cpuVars, Choosing
  <2>3. \A d \in CPU \ {c} : UNCHANGED <<pc[d], cproc[d], index[d], new[d]>>
    BY <1>6 DEF ScanEnds, Goto, ScanEnd, cpuVars, Choosing
  <2> QED
    BY <2>1, <2>2, <2>3, SliceFrame
<1>7. ASSUME NEW c \in CPU, Commit(c) PROVE SliceInv'
  <2>1. UNCHANGED <<queue_level, queue_time_slice>>
    BY <1>7 DEF Commit, queues
  <2>2. pc[c] \notin {"boosted", "demoted", "alloc"} /\ pc'[c] # "demoted"
    BY <1>7 DEF Commit, Runs, Goto, Free, StillReady, cpuVars, Choosing
  <2>3. \A d \in CPU \ {c} : UNCHANGED <<pc[d], cproc[d], index[d], new[d]>>
    BY <1>7 DEF Commit, Runs, Goto, Free, StillReady, cpuVars, Choosing
  <2> QED
    BY <2>1, <2>2, <2>3, SliceFrame
<1>8. ASSUME NEW c \in CPU, StartTime(c) PROVE SliceInv'
  <2>1. UNCHANGED <<queue_level, queue_time_slice>>
    BY <1>8 DEF StartTime, queues
  <2>2. pc[c] \notin {"boosted", "demoted", "alloc"} /\ pc'[c] # "demoted"
    BY <1>8 DEF StartTime, ReleasesProc, Goto, cpuVars, Choosing
  <2>3. \A d \in CPU \ {c} : UNCHANGED <<pc[d], cproc[d], index[d], new[d]>>
    BY <1>8 DEF StartTime, ReleasesProc, Goto, cpuVars, Choosing
  <2> QED
    BY <2>1, <2>2, <2>3, SliceFrame
<1>9. ASSUME NEW c \in CPU, EndTime(c) PROVE SliceInv'
  <2>1. UNCHANGED <<queue_level, queue_time_slice>>
    BY <1>9 DEF EndTime, queues
  <2>2. pc[c] \notin {"boosted", "demoted", "alloc"} /\ pc'[c] # "demoted"
    BY <1>9 DEF EndTime, ReleasesProc, RunTime, Goto, cpuVars, Choosing
  <2>3. \A d \in CPU \ {c} : UNCHANGED <<pc[d], cproc[d], index[d], new[d]>>
    BY <1>9 DEF EndTime, ReleasesProc, RunTime, Goto, cpuVars, Choosing
  <2> QED
    BY <2>1, <2>2, <2>3, SliceFrame
<1>10. ASSUME NEW c \in CPU, Leaves(c) PROVE SliceInv'
  <2>1. UNCHANGED <<queue_level, queue_time_slice>>
    BY <1>10 DEF Leaves, queues
  <2>2. pc[c] \notin {"boosted", "demoted", "alloc"} /\ pc'[c] # "demoted"
    BY <1>10 DEF Leaves, SwitchesOut, Goto, Free, InCall, InProcess, cpuVars,
       Choosing
  <2>3. \A d \in CPU \ {c} : UNCHANGED <<pc[d], cproc[d], index[d], new[d]>>
    BY <1>10 DEF Leaves, SwitchesOut, Goto, Free, InCall, InProcess, cpuVars,
       Choosing
  <2> QED
    BY <2>1, <2>2, <2>3, SliceFrame
<1>11. ASSUME NEW c \in CPU, Pauses(c) PROVE SliceInv'
  <2>1. UNCHANGED <<queue_level, queue_time_slice>>
    BY <1>11 DEF Pauses, queues
  <2>2. pc[c] \notin {"boosted", "demoted", "alloc"} /\ pc'[c] # "demoted"
    BY <1>11 DEF Pauses, SwitchesOut, Goto, Free, InCall, InProcess, cpuVars,
       Choosing
  <2>3. \A d \in CPU \ {c} : UNCHANGED <<pc[d], cproc[d], index[d], new[d]>>
    BY <1>11 DEF Pauses, SwitchesOut, Goto, Free, InCall, InProcess, cpuVars,
       Choosing
  <2> QED
    BY <2>1, <2>2, <2>3, SliceFrame
<1>12. ASSUME NEW c \in CPU, Yields(c) PROVE SliceInv'
  <2>1. UNCHANGED <<queue_level, queue_time_slice>>
    BY <1>12 DEF Yields, queues
  <2>2. pc[c] \notin {"boosted", "demoted", "alloc"} /\ pc'[c] # "demoted"
    BY <1>12 DEF Yields, SwitchesOut, Goto, Free, cpuVars, Choosing
  <2>3. \A d \in CPU \ {c} : UNCHANGED <<pc[d], cproc[d], index[d], new[d]>>
    BY <1>12 DEF Yields, SwitchesOut, Goto, Free, cpuVars, Choosing
  <2> QED
    BY <2>1, <2>2, <2>3, SliceFrame
<1>13. ASSUME NEW c \in CPU, MlfqTick(c) PROVE SliceInv'
  <2>1. UNCHANGED <<queue_level, queue_time_slice>>
    BY <1>13 DEF MlfqTick
  <2>2. pc[c] = "expired" /\ pc'[c] # "demoted"
    BY <1>13 DEF MlfqTick, SwitchesOut, Goto
  <2>3. \A d \in CPU \ {c} : UNCHANGED <<pc[d], cproc[d], index[d], new[d]>>
    BY <1>13 DEF MlfqTick, SwitchesOut, Goto
  <2> QED
    BY <2>1, <2>2, <2>3, SliceFrame
<1>14. ASSUME NEW c \in CPU, DemoteMoves(c) PROVE SliceInv'
  <2>1. pc[c] = "demote" /\ pc'[c] = "demoted" /\ cproc[c] \in Proc /\ UNCHANGED <<cproc, new>>
    BY <1>14 DEF DemoteMoves, Goto
  <2>9. \A d \in CPU \ {c} : UNCHANGED <<pc[d], cproc[d], index[d], new[d]>>
    BY <1>14 DEF DemoteMoves, Goto
  <2>2. /\ UNCHANGED queue_time_slice
        /\ queue_level' = [queue_level EXCEPT ![cproc[c]] = new[c]]
    BY <1>14 DEF DemoteMoves
  <2>4. ASSUME NEW p \in Proc, ~Moving(p)' PROVE (Fits(p))'
    <3>1. p # cproc[c]
      BY <2>1, <2>4 DEF Moving
    <3>2. ~Moving(p)
      BY <2>1, <2>9, <2>4 DEF Moving
    <3>3. Fits(p)
      BY <3>2 DEF SliceOfQueue, Fits
    <3> QED
      BY <2>2, <3>1, <3>3 DEF Fits
  <2>5. ASSUME NEW d \in CPU, pc'[d] = "demoted" PROVE (Landed(d))'
    <3>1. CASE d = c
      BY <2>1, <2>2, <3>1 DEF Landed
    <3>2. CASE d # c
      <4>1. Landed(d) /\ cproc[d] \in Proc /\ pc[d] = "demoted"
        BY <2>5, <2>9, <3>2
      <4>2. holder[cproc[c]] = c /\ holder[cproc[d]] = d
        BY <2>1, <4>1 DEF LockInv, HoldsLock
      <4>3. cproc[d] # cproc[c]
        BY <3>2, <4>2
      <4> QED
        BY <2>2, <2>9, <3>2, <4>1, <4>3 DEF Landed
    <3> QED
      BY <3>1, <3>2
  <2> QED
    BY <2>4, <2>5 DEF SliceOfQueue, Fits
<1>15. ASSUME NEW c \in CPU, DemoteMoved(c) PROVE SliceInv'
  <2>1. pc[c] = "demoted" /\ pc'[c] \notin {"boosted", "demoted",
     "alloc"} /\ cproc[c] \in Proc
    BY <1>15 DEF DemoteMoved, SwitchesOut, Goto
  <2>9. \A d \in CPU \ {c} : UNCHANGED <<pc[d], cproc[d], index[d], new[d]>>
    BY <1>15 DEF DemoteMoved, SwitchesOut, Goto
  <2>2. /\ UNCHANGED queue_level
        /\ queue_time_slice' = [queue_time_slice EXCEPT ![cproc[c]] = Slices[new[c]]]
    BY <1>15 DEF DemoteMoved, NextSlice
  <2>4. ASSUME NEW p \in Proc, ~Moving(p)' PROVE (Fits(p))'
    <3>1. CASE p = cproc[c]
      <4>1. Landed(c)
        BY <2>1
      <4> QED
        BY <2>1, <2>2, <3>1, <4>1 DEF Fits, Landed
    <3>2. CASE p # cproc[c]
      <4>1. ~Moving(p)
        BY <2>1, <2>9, <2>4, <3>2 DEF Moving
      <4>2. Fits(p)
        BY <4>1 DEF SliceOfQueue, Fits
      <4> QED
        BY <2>2, <3>2, <4>2 DEF Fits
    <3> QED
      BY <3>1, <3>2
  <2>5. ASSUME NEW d \in CPU, pc'[d] = "demoted" PROVE (Landed(d))'
    <3>1. d # c
      BY <2>1, <2>5
    <3>2. Landed(d)
      BY <2>5, <2>9, <3>1
    <3> QED
      BY <2>2, <2>9, <3>1, <3>2 DEF Landed
  <2> QED
    BY <2>4, <2>5 DEF SliceOfQueue, Fits
<1>16. ASSUME NEW c \in CPU, NEW p \in Proc, AllocBegins(c, p),
   UNCHANGED <<choice, last_boost_tick>> PROVE SliceInv'
  <2>1. UNCHANGED <<queue_level, queue_time_slice>>
    BY <1>16 DEF AllocBegins, queues
  <2>2. pc[c] \notin {"boosted", "demoted", "alloc"} /\ pc'[c] # "demoted"
    BY <1>16 DEF AllocBegins, InCall, InProcess, Free, Goto, cpuVars, Choosing
  <2>3. \A d \in CPU \ {c} : UNCHANGED <<pc[d], cproc[d], index[d], new[d]>>
    BY <1>16 DEF AllocBegins, InCall, InProcess, Free, Goto, cpuVars, Choosing
  <2> QED
    BY <2>1, <2>2, <2>3, SliceFrame
<1>17. ASSUME NEW c \in CPU, NEW p \in Proc, Reap(c, p), UNCHANGED <<choice,
   last_boost_tick>> PROVE SliceInv'
  <2>1. UNCHANGED <<queue_level, queue_time_slice>>
    BY <1>17 DEF Reap, queues
  <2>2. pc[c] \notin {"boosted", "demoted", "alloc"} /\ pc'[c] # "demoted"
    BY <1>17 DEF Reap, InCall, InProcess, Free, cpuVars, Choosing
  <2>3. \A d \in CPU \ {c} : UNCHANGED <<pc[d], cproc[d], index[d], new[d]>>
    BY <1>17 DEF Reap, InCall, InProcess, Free, cpuVars, Choosing
  <2> QED
    BY <2>1, <2>2, <2>3, SliceFrame
<1>18. ASSUME NEW c \in CPU, NEW p \in Proc, Wake(c, p), UNCHANGED <<choice,
   last_boost_tick>> PROVE SliceInv'
  <2>1. UNCHANGED <<queue_level, queue_time_slice>>
    BY <1>18 DEF Wake, queues
  <2>2. pc[c] \notin {"boosted", "demoted", "alloc"} /\ pc'[c] # "demoted"
    BY <1>18 DEF Wake, Interruptible, Free, cpuVars, Choosing
  <2>3. \A d \in CPU \ {c} : UNCHANGED <<pc[d], cproc[d], index[d], new[d]>>
    BY <1>18 DEF Wake, Interruptible, Free, cpuVars, Choosing
  <2> QED
    BY <2>1, <2>2, <2>3, SliceFrame
<1>19. ASSUME NEW c \in CPU, AllocEnds(c), UNCHANGED <<choice,
   last_boost_tick>> PROVE SliceInv'
  <2>1. pc[c] = "alloc" /\ pc'[c] = "user" /\ new[c] \in Proc
    BY <1>19 DEF AllocEnds, Goto
  <2>9. \A d \in CPU \ {c} : UNCHANGED <<pc[d], cproc[d], index[d], new[d]>>
    BY <1>19 DEF AllocEnds, Goto
  <2>2. /\ queue_level' = [queue_level EXCEPT ![new[c]] = 0]
        /\ queue_time_slice' = [queue_time_slice EXCEPT ![new[c]] = Slices[0]]
    BY <1>19 DEF AllocEnds
  <2>4. ASSUME NEW p \in Proc, ~Moving(p)' PROVE (Fits(p))'
    <3>1. CASE p = new[c]
      BY <2>1, <2>2, <3>1 DEF Fits
    <3>2. CASE p # new[c]
      <4>1. ~Moving(p)
        BY <2>1, <2>9, <2>4, <3>2 DEF Moving
      <4>2. Fits(p)
        BY <4>1 DEF SliceOfQueue, Fits
      <4> QED
        BY <2>2, <3>2, <4>2 DEF Fits
    <3> QED
      BY <3>1, <3>2
  <2>5. ASSUME NEW d \in CPU, pc'[d] = "demoted" PROVE (Landed(d))'
    <3>1. d # c
      BY <2>1, <2>5
    <3>2. Landed(d) /\ pc[d] = "demoted" /\ cproc[d] \in Proc
      BY <2>5, <2>9, <3>1
    <3>3. cproc[d] # new[c]
      BY <2>1, <3>1, <3>2 DEF LockInv, HoldsLock
    <3> QED
      BY <2>2, <2>9, <3>1, <3>2, <3>3 DEF Landed
  <2> QED
    BY <2>4, <2>5 DEF SliceOfQueue, Fits
<1>20. ASSUME NEW c \in CPU, ForkEnds(c), UNCHANGED <<choice,
   last_boost_tick>> PROVE SliceInv'
  <2>1. UNCHANGED <<queue_level, queue_time_slice>>
    BY <1>20 DEF ForkEnds, queues
  <2>2. pc[c] \notin {"boosted", "demoted", "alloc"} /\ pc'[c] # "demoted"
    BY <1>20 DEF ForkEnds, InProcess, Free, cpuVars, Choosing
  <2>3. \A d \in CPU \ {c} : UNCHANGED <<pc[d], cproc[d], index[d], new[d]>>
    BY <1>20 DEF ForkEnds, InProcess, Free, cpuVars, Choosing
  <2> QED
    BY <2>1, <2>2, <2>3, SliceFrame
<1>21. ASSUME NEW c \in CPU, OtherTimer(c), UNCHANGED <<choice,
   last_boost_tick>> PROVE SliceInv'
  <2>1. UNCHANGED <<queue_level, queue_time_slice>>
    BY <1>21 DEF OtherTimer, queues
  <2>2. pc[c] \notin {"boosted", "demoted", "alloc"} /\ pc'[c] # "demoted"
    BY <1>21 DEF OtherTimer, InProcess, Goto, cpuVars, Choosing
  <2>3. \A d \in CPU \ {c} : UNCHANGED <<pc[d], cproc[d], index[d], new[d]>>
    BY <1>21 DEF OtherTimer, InProcess, Goto, cpuVars, Choosing
  <2> QED
    BY <2>1, <2>2, <2>3, SliceFrame
<1>22. ASSUME ClockBegins, UNCHANGED <<choice, last_boost_tick>> PROVE SliceInv'
  <2>1. UNCHANGED <<queue_level, queue_time_slice>>
    BY <1>22 DEF ClockBegins, queues
  <2>2. pc[Boot] \notin {"boosted", "demoted", "alloc"} /\ pc'[Boot] # "demoted"
    BY <1>22 DEF ClockBegins, Interruptible, Goto, cpuVars, Choosing
  <2>3. \A d \in CPU \ {Boot} : UNCHANGED <<pc[d], cproc[d], index[d], new[d]>>
    BY <1>22 DEF ClockBegins, Interruptible, Goto, cpuVars, Choosing
  <2> QED
    BY <2>1, <2>2, <2>3, SliceFrame
<1>23. ASSUME ClockWakes, UNCHANGED <<choice, last_boost_tick>> PROVE SliceInv'
  <2>1. UNCHANGED <<queue_level, queue_time_slice>>
    BY <1>23 DEF ClockWakes, queues
  <2>2. pc[Boot] \notin {"boosted", "demoted", "alloc"} /\ pc'[Boot] # "demoted"
    BY <1>23 DEF ClockWakes, Free, cpuVars, Choosing
  <2>3. \A d \in CPU \ {Boot} : UNCHANGED <<pc[d], cproc[d], index[d], new[d]>>
    BY <1>23 DEF ClockWakes, Free, cpuVars, Choosing
  <2> QED
    BY <2>1, <2>2, <2>3, SliceFrame
<1>24. ASSUME ClockEnds, UNCHANGED <<choice, last_boost_tick>> PROVE SliceInv'
  <2>1. UNCHANGED <<queue_level, queue_time_slice>>
    BY <1>24 DEF ClockEnds, queues
  <2>2. pc[Boot] \notin {"boosted", "demoted", "alloc"} /\ pc'[Boot] # "demoted"
    BY <1>24 DEF ClockEnds, Goto, cpuVars, Choosing
  <2>3. \A d \in CPU \ {Boot} : UNCHANGED <<pc[d], cproc[d], index[d], new[d]>>
    BY <1>24 DEF ClockEnds, Goto, cpuVars, Choosing
  <2> QED
    BY <2>1, <2>2, <2>3, SliceFrame
<1>25. CASE UNCHANGED vars
  BY <1>25 DEF vars, procVars, queues, locks, cpuVars, choice, SliceOfQueue,
     Moving, Landed, Boosted
<1> QED
  BY <1>1, <1>2, <1>3, <1>4, <1>5, <1>6, <1>7, <1>8, <1>9, <1>10, <1>11, <1>12,
     <1>13, <1>14, <1>15, <1>16, <1>17, <1>18, <1>19, <1>20, <1>21, <1>22, <1>23,
     <1>24, <1>25 DEF Next, Scheduler, Process, Kernel

-----------------------------------------------------------------------------
(* The inductive invariant. RunsOnce needs LockInv, SleepInv and ChildInv, *)
(* which say whose state a step under a lock may change; TimeInv needs     *)
(* RunInv, for a process on two CPUs would be charged twice.               *)
IInv ==
  /\ Types /\ touched \in [CPU -> SUBSET Proc]
  /\ PcInv /\ LockInv /\ SleepInv /\ RunInv /\ ChildInv /\ TimeInv /\ SliceInv

(* The invariant holds at the start.                                       *)
LEMMA IInvInit == Init => IInv
<1> SUFFICES ASSUME Init PROVE IInv
  OBVIOUS
<1>1. Types /\ PcInv
  BY TypesInit
<1>2. touched \in [CPU -> SUBSET Proc]
  BY DEF Init
<1>3. LockInv
  BY XvProcAssumption DEF Init, ProcInit, LockInv, HoldsLock
<1>4. SleepInv
  BY DEF Init, ProcInit, SleepInv
<1>5. RunInv
  BY NoneNotProc DEF Init, ProcInit, RunInv
<1>6. ChildInv
  BY DEF Init, ProcInit, ChildInv
<1>7. TimeInv
  BY NoneNotProc DEF Init, ProcInit, TimeInv, Charged
<1>8. SliceInv
  BY DEF Init, ProcInit, SliceInv, SliceOfQueue
<1> QED
  BY <1>1, <1>2, <1>3, <1>4, <1>5, <1>6, <1>7, <1>8 DEF IInv

(* Every step keeps it.                                                    *)
LEMMA IInvStep == IInv /\ [Next]_vars => IInv'
<1> SUFFICES ASSUME IInv, [Next]_vars PROVE IInv'
  OBVIOUS
<1>1. Types'
  BY ProcTypedStep, QueueTypedStep, CpuTypedStep, ChoiceTypedStep,
     ClockTypedStep DEF IInv, Types
<1>2. touched' \in [CPU -> SUBSET Proc]
  BY WatchTyped DEF IInv, Next, vars
<1> QED
  BY <1>1, <1>2, PcInvStep, LockInvStep, SleepInvStep, RunInvStep, ChildInvStep,
     TimeInvStep,
     SliceInvStep DEF IInv

(* It is an invariant.                                                     *)
LEMMA Invariant == Spec => []IInv
BY IInvInit, IInvStep, PTL DEF Spec

(* Type correctness of the schedulers, for any number of CPUs, processes,  *)
(* queues and ticks; vruntime and last_boost_tick never run ahead of the   *)
(* clock.                                                                  *)
THEOREM SchedulerTyped == Spec => []TypeOK
<1>1. IInv => TypeOK
  <2> SUFFICES ASSUME IInv PROVE TypeOK
    OBVIOUS
  <2>1. ticks \in Nat /\ MaxTicks \in Nat /\ ticks <= MaxTicks
    BY XvProcAssumption DEF IInv, Types, ClockTyped
  <2>2. creation_time \in [Proc -> 0 .. MaxTicks]
    <3>1. \A p \in Proc : creation_time[p] \in 0 .. MaxTicks
      BY <2>1 DEF IInv, Types, ProcTyped, TimeInv
    <3> QED
      BY <3>1 DEF IInv, Types, ProcTyped
  <2>3. vruntime \in [Proc -> 0 .. MaxTicks]
    <3>1. \A p \in Proc : vruntime[p] \in 0 .. MaxTicks
      BY <2>1 DEF IInv, Types, ProcTyped, TimeInv
    <3> QED
      BY <3>1 DEF IInv, Types, ProcTyped
  <2>4. start_ticks \in [CPU -> 0 .. MaxTicks] /\ last_boost_tick \in 0 .. MaxTicks
    <3>1. \A c \in CPU : start_ticks[c] \in 0 .. MaxTicks
      BY <2>1 DEF IInv, Types, ClockTyped
    <3> QED
      BY <2>1, <3>1 DEF IInv, Types, ClockTyped
  <2>5. index \in [CPU -> Nat]
    BY DEF IInv, Types, CpuTyped
  <2> QED
    BY <2>2, <2>3, <2>4, <2>5 DEF IInv, Types, ProcTyped, QueueTyped, CpuTyped,
       ChoiceTyped,
       ClockTyped, TypeOK
<1> QED
  BY <1>1, Invariant, PTL

(* The patch 19350-19352 and 19446-19449: no process runs on two CPUs, and *)
(* none is RUNNING without one, under every policy.                        *)
THEOREM EachRunsOnce == Spec => []RunsOnce
<1>1. IInv => RunsOnce
  BY DEF IInv, RunInv, RunsOnce
<1> QED
  BY <1>1, Invariant, PTL

(* The patch 19211, 19408 and 19415 with 19693-19699: CPUs that wait for   *)
(* each other in a chain are those that want tickslock with p->lock held,  *)
(* and the boot CPU in wakeup(&ticks).                                     *)
THEOREM DeadlocksOfTheClock == Spec => []OnlyClockDeadlocks
<1>1. IInv => OnlyClockDeadlocks
  <2> SUFFICES ASSUME IInv, NEW c \in CPU, NEW d \in CPU, NEW e \in CPU,
                      SpinsFor(c, d), SpinsFor(d, e)
               PROVE  c # d /\ d # e /\ pc[Boot] = "clock" /\ Boot \in {d, e}
    BY DEF OnlyClockDeadlocks
  <2>1. \A x, y \in CPU : SpinsFor(x, y) =>
          \/ tickslock = y /\ pc[x] \in {"alloc", "start", "end", "user"}
          \/ /\ \E p \in Proc : holder[p] = y
             /\ pc[x] \in {"clock", "scan", "commit", "expired", "user"}
    BY DEF SpinsFor, IInv, PcInv, PcOf
  <2>2. \A y \in CPU : tickslock = y => y = Boot /\ pc[Boot] = "clock"
    BY XvProcAssumption DEF IInv, Types, ClockTyped, PcInv, PcOf
  <2>3. \A y \in CPU : (\E p \in Proc : holder[p] = y) =>
          pc[y] \in {"start", "end", "demote", "demoted", "alloc"}
    BY DEF IInv, LockInv, HoldsLock
  <2> QED
    BY <2>1, <2>2, <2>3
<1> QED
  BY <1>1, Invariant, PTL

(* The patch 19271-19304: until the first boost, a process that nobody     *)
(* moves has the slice of its queue.                                       *)
THEOREM SlicesFitQueues == Spec => []SliceOfQueue
<1>1. IInv => SliceOfQueue
  BY DEF IInv, SliceInv
<1> QED
  BY <1>1, Invariant, PTL

(* The patch 19407-19423: no process is charged for more time than it has  *)
(* lived.                                                                  *)
THEOREM ChargedForLifeOnly == Spec => []VruntimeEarned
<1>1. IInv => VruntimeEarned
  <2> SUFFICES ASSUME IInv, NEW p \in Proc
     PROVE vruntime[p] <= ticks - creation_time[p]
    BY DEF VruntimeEarned
  <2>1. vruntime[p] \in Nat /\ creation_time[p] \in Nat /\ ticks \in Nat
    BY XvProcAssumption DEF IInv, Types, ProcTyped, ClockTyped
  <2>2. vruntime[p] + creation_time[p] <= ticks
    BY DEF IInv, TimeInv
  <2> QED
    BY <2>1, <2>2
<1> QED
  BY <1>1, Invariant, PTL

-----------------------------------------------------------------------------
(* Who is ready and has been left alone since c began to choose.           *)
Untouched(c) == {p \in Proc \ touched[c] : state[p] = "RUNNABLE"}

(* FCFS and CFS: the choice so far is the least of the slots passed.       *)
LeastSoFar(c) ==
  /\ \A p \in Untouched(c) :
       p < index[c] => best[c] # None /\ best_key[c] <= Key(p)
  /\ best[c] # None /\ best[c] \notin touched[c] => best_key[c] = Key(best[c])

(* MLFQ: nobody is left behind in the slots and queues passed.             *)
NoneBehind(c) ==
  \A p \in Untouched(c) : index[c] <= queue_level[p] * NPROC + p

(* Second pass: the choice is the least of all.                            *)
LeastOfAll(c) ==
  best[c] \notin touched[c] => \A p \in Untouched(c) : Key(best[c]) <= Key(p)

(* How far the choice of c has come; outside of it there is none, and the  *)
(* loops over the process table start at its first slot.                   *)
PickOf(c) ==
  /\ pc[c] \notin Choosing => best[c] = None
  /\ pc[c] = "scan" /\ policy \notin {"FCFS", "CFS"} => best[c] = None
  /\ pc[c] \notin {"scan", "boost", "boosted", "clock"} => index[c] = 1
  /\ pc[c] = "scan" /\ policy \in {"FCFS", "CFS"} => LeastSoFar(c)
  /\ pc[c] = "scan" /\ policy = "MLFQ" => NoneBehind(c)
  /\ pc[c] = "commit" => LeastOfAll(c)

PickInv == \A c \in CPU : PickOf(c)

-----------------------------------------------------------------------------
(* A process that is not in touched' has not changed in this step.         *)
LEMMA StillUntouched ==
  ASSUME Watch, NEW c \in CPU, pc[c] \in Choosing, pc'[c] \in Choosing,
         NEW p \in Proc, p \notin touched'[c]
  PROVE  p \notin touched[c] /\ state'[p] = state[p] /\ Key(p)' = Key(p)
BY DEF Watch, Changed

(* What the other CPUs do leaves a choice alone, for touched grows with it. *)
LEMMA PickFrame ==
  ASSUME Types, PcInv, Watch, NEW c \in CPU, PickOf(c), policy' = policy,
         pc'[c] = pc[c], best'[c] = best[c], best_key'[c] = best_key[c],
         index'[c] = index[c]
  PROVE  PickOf(c)'
<1>1. ASSUME pc[c] \in Choosing, NEW p \in Untouched(c)'
      PROVE  p \in Untouched(c) /\ Key(p)' = Key(p)
  BY <1>1, StillUntouched DEF Untouched
<1>2. CASE pc[c] \notin Choosing
  BY <1>2 DEF PickOf, Choosing
<1>3. CASE pc[c] = "scan" /\ policy \in {"FCFS", "CFS"}
  <2>1. LeastSoFar(c) /\ pc[c] \in Choosing
    BY <1>3 DEF PickOf, Choosing
  <2>2. \A p \in Untouched(c)' :
          p < index'[c] => best'[c] # None /\ best_key'[c] <= Key(p)'
    BY <1>1, <2>1 DEF LeastSoFar
  <2>3. best'[c] # None /\ best'[c] \notin touched'[c] => best_key'[c] = Key(best[c])'
    <3> SUFFICES ASSUME best[c] # None, best[c] \notin touched'[c]
                 PROVE  best_key[c] = Key(best[c])'
      OBVIOUS
    <3>1. best[c] \in Proc
      BY DEF Types, ChoiceTyped
    <3>2. best[c] \notin touched[c] /\ Key(best[c])' = Key(best[c])
      BY <2>1, <3>1, StillUntouched
    <3> QED
      BY <2>1, <3>2 DEF LeastSoFar
  <2> QED
    BY <1>3, <2>2, <2>3 DEF PickOf, LeastSoFar
<1>4. CASE pc[c] = "scan" /\ policy = "MLFQ"
  <2>1. \A p \in Untouched(c)' : queue_level'[p] = queue_level[p]
    BY <1>1, <1>4 DEF Key, Choosing
  <2>2. NoneBehind(c)'
    BY <1>1, <1>4, <2>1 DEF PickOf, NoneBehind, Choosing
  <2> QED
    BY <1>4, <2>2 DEF PickOf
<1>5. CASE pc[c] = "scan" /\ policy \notin {"FCFS", "CFS", "MLFQ"}
  BY <1>5 DEF PickOf, Choosing
<1>6. CASE pc[c] = "commit"
  <2>1. best[c] \in Proc
    BY <1>6 DEF PcInv, PcOf
  <2>2. ASSUME best[c] \notin touched'[c]
        PROVE  best[c] \notin touched[c] /\ Key(best[c])' = Key(best[c])
    BY <1>6, <2>1, <2>2, StillUntouched DEF Choosing
  <2>3. LeastOfAll(c)'
    BY <1>1, <1>6, <2>2 DEF PickOf, LeastOfAll, Choosing
  <2> QED
    BY <1>6, <2>3 DEF PickOf
<1> QED
  BY <1>2, <1>3, <1>4, <1>5, <1>6 DEF Choosing

(* A CPU that has no choice yet and starts at the first slot.              *)
LEMMA PickStarts ==
  ASSUME Types, Types', NEW c \in CPU, best'[c] = None, index'[c] = 1,
         pc'[c] # "commit"
  PROVE  PickOf(c)'
<1>1. LeastSoFar(c)'
  <2>1. \A p \in Untouched(c)' : ~(p < index'[c])
    BY XvProcAssumption DEF Untouched, Proc
  <2> QED
    BY <2>1 DEF LeastSoFar
<1>2. NoneBehind(c)'
  <2>1. ASSUME NEW p \in Untouched(c)'
     PROVE index'[c] <= queue_level'[p] * NPROC + p
    <3>1. p \in Proc /\ queue_level'[p] \in Nat /\ NPROC \in Nat
      BY <2>1, XvProcAssumption DEF Untouched, Types, QueueTyped, Queue
    <3>2. queue_level'[p] * NPROC \in Nat
      BY <3>1
    <3> QED
      BY <3>1, <3>2 DEF Proc
  <2> QED
    BY <2>1 DEF NoneBehind
<1> QED
  BY <1>1, <1>2 DEF PickOf

(* One that is not choosing.                                               *)
LEMMA PickIdle ==
  ASSUME NEW c \in CPU, best'[c] = None, pc'[c] \notin Choosing,
         pc'[c] \in {"boost", "boosted", "clock"} \/ index'[c] = 1
  PROVE  PickOf(c)'
BY DEF PickOf, Choosing

-----------------------------------------------------------------------------
(* Slots and queues: what comes first by queue comes first in the double   *)
(* loop of mlfq_find_highest_priority_proc (the patch 19285-19291).        *)
LEMMA QueueOrder ==
  ASSUME NEW q \in Nat, NEW l \in Nat, NEW a \in Proc, NEW b \in Proc,
         q * NPROC + a <= l * NPROC + b
  PROVE  q <= l
<1> SUFFICES ASSUME l <= q - 1 PROVE FALSE
  OBVIOUS
<1>1. NPROC \in Nat /\ a \in Nat /\ b \in Nat /\ 1 <= a /\ b <= NPROC
  BY XvProcAssumption DEF Proc
<1>2. q = l + 1 + (q - l - 1) /\ q - l - 1 \in Nat
  OBVIOUS
<1>3. (q - l - 1) * NPROC \in Nat
  BY <1>1, <1>2
<1>4. q * NPROC = l * NPROC + NPROC + (q - l - 1) * NPROC
  BY <1>1, <1>2
<1>5. l * NPROC \in Nat
  BY <1>1
<1> QED
  BY <1>1, <1>3, <1>4, <1>5

(* The slot at which that loop is.                                         *)
LEMMA IndexIs ==
  ASSUME NEW i \in Nat \ {0}
  PROVE  /\ (i - 1) \div NPROC \in Nat
         /\ i = ((i - 1) \div NPROC) * NPROC + (((i - 1) % NPROC) + 1)
<1>1. NPROC \in Nat \ {0} /\ i - 1 \in Nat
  BY XvProcAssumption
<1> QED
  BY <1>1

(* No CPU is in a process that is RUNNABLE while its lock is free.         *)
LEMMA NobodyHas ==
  ASSUME Types, PcInv, LockInv, RunInv, NEW p \in Proc, Free(p),
     state[p] = "RUNNABLE",
         NEW d \in CPU
  PROVE  cproc[d] # p
<1> SUFFICES ASSUME cproc[d] = p PROVE FALSE
  OBVIOUS
<1>1. pc[d] = "end"
  BY DEF RunInv
<1>2. holder[p] = d
  BY <1>1 DEF LockInv, HoldsLock
<1> QED
  BY <1>2, XvProcAssumption DEF Free

-----------------------------------------------------------------------------
(* FCFS and CFS go on to the next slot with the least so far (the patch    *)
(* 19336-19345 and 19385-19394).                                           *)
LEMMA LeastGoesOn ==
  ASSUME Types, Watch, NEW c \in CPU, PickOf(c), Scan(c), ScanLeast(c)
  PROVE  LeastSoFar(c)'
<1> DEFINE i == index[c]
<1>1. policy \in {"FCFS", "CFS"} /\ pc[c] = "scan" /\ LeastSoFar(c)
  BY DEF Scan, ScanLeast, PickOf
<1>2. i \in Proc
  BY <1>1, ScanInProc DEF Scan, Types
<1>3. UNCHANGED <<policy, state, creation_time, vruntime, queue_level>>
  BY DEF Scan, ScanLeast, queues
<1>4. \A p \in Proc : Key(p)' = Key(p) /\ Key(p) \in Nat
  BY <1>3, KeyTyped DEF Key, Types
<1>5. touched[c] \subseteq touched'[c] /\ Untouched(c)' \subseteq Untouched(c)
  BY <1>1, <1>3 DEF Watch, Untouched, Choosing, ScanLeast
<1>6. best_key[c] \in Nat /\ index'[c] = i + 1
  BY <1>1 DEF Types, ChoiceTyped, CpuTyped, ScanLeast
<1>7. CASE Better(c, i)
  <2>1. best'[c] = i /\ best_key'[c] = Key(i)
    BY <1>7 DEF ScanLeast, Types, ChoiceTyped
  <2>2. best'[c] # None
    BY <1>2, <2>1, NoneNotProc
  <2>3. ASSUME NEW p \in Untouched(c)', p < i + 1 PROVE Key(i) <= Key(p)
    <3>1. p \in Untouched(c) /\ p \in Proc /\ (p < i \/ p = i)
      BY <1>2, <1>5, <2>3 DEF Untouched, Proc
    <3>2. CASE p < i
      BY <1>1, <1>2, <1>4, <1>6, <1>7, <3>1, <3>2 DEF LeastSoFar, Better
    <3> QED
      BY <1>4, <3>1, <3>2
  <2> QED
    BY <1>2, <1>4, <1>6, <2>1, <2>2, <2>3 DEF LeastSoFar, Untouched
<1>8. CASE ~Better(c, i)
  <2>1. best'[c] = best[c] /\ best_key'[c] = best_key[c]
    BY <1>8 DEF ScanLeast
  <2>2. ASSUME NEW p \in Untouched(c)', p < i + 1
        PROVE  best[c] # None /\ best_key[c] <= Key(p)
    <3>1. p \in Untouched(c) /\ p \in Proc /\ (p < i \/ p = i)
      BY <1>2, <1>5, <2>2 DEF Untouched, Proc
    <3>2. CASE p < i
      BY <1>1, <3>1, <3>2 DEF LeastSoFar
    <3>3. CASE p = i
      BY <1>4, <1>6, <1>8, <3>1, <3>3 DEF Better, Untouched
    <3> QED
      BY <3>1, <3>2, <3>3
  <2>3. best[c] # None /\ best[c] \notin touched'[c] => best_key[c] = Key(best[c])'
    <3> SUFFICES ASSUME best[c] # None, best[c] \notin touched'[c]
                 PROVE  best_key[c] = Key(best[c])'
      OBVIOUS
    <3>1. best[c] \in Proc /\ best_key[c] = Key(best[c])
      BY <1>1, <1>5 DEF LeastSoFar, Types, ChoiceTyped
    <3> QED
      BY <1>4, <2>1, <3>1
  <2> QED
    BY <1>4, <1>6, <2>1, <2>2, <2>3 DEF LeastSoFar, Untouched
<1> QED
  BY <1>7, <1>8

(* MLFQ takes the first it finds, or goes on with nobody behind it.        *)
LEMMA QueueGoesOn ==
  ASSUME Types, Watch, NEW c \in CPU, PickOf(c), Scan(c), ScanQueue(c)
  PROVE  PickOf(c)'
<1> DEFINE queue == (index[c] - 1) \div NPROC
           slot == ((index[c] - 1) % NPROC) + 1
<1>1. policy = "MLFQ" /\ pc[c] = "scan" /\ NoneBehind(c) /\ best[c] = None
  BY DEF Scan, ScanQueue, PickOf
<1>2. UNCHANGED <<policy, state, queue_level>>
  BY DEF Scan, ScanQueue, queues
<1>3. index[c] \in Nat \ {0}
  BY DEF Types, CpuTyped
<1>4. queue \in Nat /\ slot \in Proc /\ index[c] = queue * NPROC + slot
  BY <1>3, IndexIs, SlotOfIndex
<1>5. \/ /\ state[slot] = "RUNNABLE" /\ queue_level[slot] = queue
         /\ best'[c] = slot /\ index'[c] = 1 /\ pc'[c] = "commit"
      \/ /\ ~(state[slot] = "RUNNABLE" /\ queue_level[slot] = queue)
         /\ index'[c] = index[c] + 1 /\ best'[c] = None /\ pc'[c] = "scan"
  BY <1>1 DEF ScanQueue, Goto, Types, CpuTyped, ChoiceTyped
<1>6. touched[c] \subseteq touched'[c] /\ Untouched(c)' \subseteq Untouched(c)
  BY <1>1, <1>2, <1>5 DEF Watch, Untouched, Choosing
<1>7. \A p \in Untouched(c) : p \in Proc /\ state[p] = "RUNNABLE" /\ queue_level[p] \in Nat
  BY DEF Untouched, Types, QueueTyped, Queue
<1> HIDE DEF queue, slot
<1>8. \A p \in Untouched(c) : queue * NPROC + slot <= queue_level[p] * NPROC + p
  BY <1>1, <1>4 DEF NoneBehind
<1>9. \A p \in Untouched(c) : queue <= queue_level[p]
  BY <1>4, <1>7, <1>8, QueueOrder
<1>10. CASE pc'[c] = "commit"
  <2>1. \A p \in Proc : Key(p)' = queue_level[p]
    BY <1>1, <1>2 DEF Key
  <2>2. LeastOfAll(c)'
    BY <1>4, <1>5, <1>6, <1>7, <1>9, <1>10, <2>1 DEF LeastOfAll
  <2> QED
    BY <1>5, <1>10, <2>2 DEF PickOf, Choosing
<1>11. CASE pc'[c] = "scan"
  <2>1. ASSUME NEW p \in Untouched(c)'
        PROVE  index[c] + 1 <= queue_level[p] * NPROC + p
    <3>1. p \in Untouched(c) /\ p \in Proc /\ queue_level[p] \in Nat
      BY <1>6, <1>7, <2>1
    <3>2. queue_level[p] * NPROC + p # queue * NPROC + slot
      <4> SUFFICES ASSUME queue_level[p] * NPROC + p = queue * NPROC + slot
         PROVE FALSE
        OBVIOUS
      <4>1. queue_level[p] \in Nat /\ queue \in Nat /\ p \in Nat /\ slot \in Nat
            /\ queue * NPROC \in Nat /\ queue_level[p] * NPROC \in Nat
        BY <1>4, <3>1, XvProcAssumption DEF Proc
      <4>2. queue_level[p] * NPROC + p <= queue * NPROC + slot
        BY <4>1
      <4>3. queue_level[p] <= queue
        BY <1>4, <3>1, <4>2, QueueOrder
      <4>4. queue_level[p] = queue
        BY <1>9, <3>1, <4>1, <4>3
      <4>5. p = slot
        BY <4>1, <4>4
      <4> QED
        BY <1>5, <1>7, <1>11, <3>1, <4>4, <4>5
    <3>3. queue * NPROC + slot <= queue_level[p] * NPROC + p
      BY <1>8, <3>1
    <3>4. queue_level[p] * NPROC + p \in Nat /\ queue * NPROC + slot \in Nat
      <4>1. NPROC \in Nat /\ p \in Nat /\ slot \in Nat
        BY <1>4, <3>1, XvProcAssumption DEF Proc
      <4>2. queue_level[p] * NPROC \in Nat /\ queue * NPROC \in Nat
        BY <1>4, <3>1, <4>1
      <4> QED
        BY <4>1, <4>2
    <3> QED
      BY <1>4, <3>2, <3>3, <3>4
  <2>2. NoneBehind(c)'
    BY <1>2, <1>5, <1>11, <2>1 DEF NoneBehind
  <2> QED
    BY <1>1, <1>2, <1>5, <1>11, <2>2 DEF PickOf, Choosing
<1> QED
  BY <1>5, <1>10, <1>11

(* A step of the first pass.                                               *)
LEMMA ScanPicks ==
  ASSUME Types, Watch, NEW c \in CPU, PickOf(c), Scan(c)
  PROVE  PickOf(c)'
<1>1. pc[c] = "scan" /\ policy' = policy
  BY DEF Scan
<1>2. CASE ScanNext(c)
  <2>1. policy = "RR" /\ best[c] = None /\ best'[c] = None
    BY <1>1, <1>2 DEF ScanNext, PickOf
  <2>2. \/ pc'[c] = "user" /\ index'[c] = 1
        \/ pc'[c] = "scan"
    BY <1>1, <1>2, <2>1 DEF ScanNext, Runs, Goto, Types, CpuTyped
  <2> QED
    BY <1>1, <2>1, <2>2 DEF PickOf, Choosing
<1>3. CASE ScanLeast(c)
  <2>1. pc'[c] = "scan" /\ policy \in {"FCFS", "CFS"}
    BY <1>1, <1>3 DEF ScanLeast
  <2> QED
    BY <1>1, <1>3, <2>1, LeastGoesOn DEF PickOf, Choosing
<1>4. CASE ScanQueue(c)
  BY <1>4, QueueGoesOn
<1> QED
  BY <1>2, <1>3, <1>4 DEF Scan

(* The end of the first pass: the choice is the least of all slots.        *)
LEMMA ScanEndPicks ==
  ASSUME Types, Watch, NEW c \in CPU, PickOf(c), ScanEnds(c)
  PROVE  PickOf(c)'
<1>1. pc[c] = "scan" /\ index'[c] = 1 /\ best'[c] = best[c]
  BY DEF ScanEnds, Types, CpuTyped, choice
<1>2. CASE best[c] = None
  BY <1>1, <1>2, PickIdle DEF ScanEnds, Goto, Types, CpuTyped, Choosing
<1>3. CASE best[c] # None
  <2>1. pc'[c] = "commit" /\ policy \in {"FCFS", "CFS"} /\ LeastSoFar(c)
    BY <1>1, <1>3 DEF ScanEnds, Goto, Types, CpuTyped, PickOf
  <2>2. UNCHANGED <<policy, state, creation_time, vruntime, queue_level>>
    BY DEF ScanEnds, queues
  <2>3. \A p \in Proc : Key(p)' = Key(p)
    BY <2>2 DEF Key
  <2>4. touched[c] \subseteq touched'[c] /\ Untouched(c)' \subseteq Untouched(c)
    BY <1>1, <2>1, <2>2 DEF Watch, Untouched, Choosing
  <2>5. \A p \in Untouched(c) : p \in Proc /\ p < index[c]
    BY <2>1, XvProcAssumption DEF ScanEnds, ScanEnd, Untouched, Proc, Types,
       CpuTyped
  <2>6. best[c] \in Proc
    BY <1>3 DEF Types, ChoiceTyped
  <2>7. LeastOfAll(c)'
    BY <1>1, <2>1, <2>3, <2>4, <2>5, <2>6 DEF LeastOfAll, LeastSoFar
  <2> QED
    BY <1>1, <2>1, <2>7 DEF PickOf, Choosing
<1> QED
  BY <1>2, <1>3

(* swtch to the scheduler: the next choice has not begun, or begins where  *)
(* nothing is compared.                                                    *)
LEMMA SwitchPicks ==
  ASSUME Types, PcInv, Watch, PickInv, NEW c \in CPU, NEW d \in CPU,
     NEW next \in ProcState,
         pc[c] \in {"user", "expired", "demoted"}, UNCHANGED <<policy, choice>>,
         SwitchesOut(c, next)
  PROVE  PickOf(d)'
<1>1. PickOf(c) /\ PickOf(d)
  BY DEF PickInv
<1>2. CASE d = c
  <2>1. best'[c] = None /\ index[c] = 1
    BY <1>1 DEF PickOf, Choosing, choice
  <2>2. \/ pc'[c] \in {"end", "loop"} /\ index'[c] = 1
        \/ pc'[c] = "scan" /\ policy = "RR"
    BY <2>1 DEF SwitchesOut, Goto, Types, CpuTyped
  <2> QED
    BY <1>2, <2>1, <2>2 DEF PickOf, Choosing
<1>3. CASE d # c
  BY <1>1, <1>3, PickFrame DEF SwitchesOut, Goto, Types, CpuTyped, choice
<1> QED
  BY <1>2, <1>3

(* Every step keeps the choices.                                           *)
LEMMA PickInvStep ==
  ASSUME Types, Types', PcInv, PickInv, Next
  PROVE  PickInv'
<1> SUFFICES ASSUME NEW d \in CPU PROVE PickOf(d)'
  BY DEF PickInv
<1> PickOf(d) /\ Watch
  BY DEF PickInv, Next
<1>1. ASSUME NEW c \in CPU, LoopBegins(c) PROVE PickOf(d)'
  <2>1. CASE d = c
    BY <1>1, <2>1, PickStarts DEF LoopBegins, Types, CpuTyped, Goto, queues,
       locks, cpuVars, choice, PickOf, Choosing, PcInv, PcOf
  <2>2. CASE d # c
    BY <1>1, <2>2, PickFrame DEF LoopBegins, Types, CpuTyped, Goto, queues,
       locks, cpuVars, choice
  <2> QED
    BY <2>1, <2>2
<1>2. ASSUME NEW c \in CPU, BoostMoves(c) PROVE PickOf(d)'
  <2>1. CASE d = c
    BY <1>2, <2>1, PickIdle DEF BoostMoves, Types, CpuTyped, Goto, queues, locks,
       cpuVars, choice, PickOf, Choosing, PcInv, PcOf
  <2>2. CASE d # c
    BY <1>2, <2>2, PickFrame DEF BoostMoves, Types, CpuTyped, Goto, queues,
       locks, cpuVars, choice
  <2> QED
    BY <2>1, <2>2
<1>3. ASSUME NEW c \in CPU, BoostMoved(c) PROVE PickOf(d)'
  <2>1. CASE d = c
    BY <1>3, <2>1, PickIdle DEF BoostMoved, Types, CpuTyped, Goto, queues, locks,
       cpuVars, choice, PickOf, Choosing, PcInv, PcOf
  <2>2. CASE d # c
    BY <1>3, <2>2, PickFrame DEF BoostMoved, Types, CpuTyped, Goto, queues,
       locks, cpuVars, choice
  <2> QED
    BY <2>1, <2>2
<1>4. ASSUME NEW c \in CPU, BoostEnds(c) PROVE PickOf(d)'
  <2>1. CASE d = c
    BY <1>4, <2>1, PickStarts DEF BoostEnds, Types, CpuTyped, Goto, queues,
       locks, cpuVars, choice, PickOf, Choosing, PcInv, PcOf
  <2>2. CASE d # c
    BY <1>4, <2>2, PickFrame DEF BoostEnds, Types, CpuTyped, Goto, queues, locks,
       cpuVars, choice
  <2> QED
    BY <2>1, <2>2
<1>5. ASSUME NEW c \in CPU, Scan(c) PROVE PickOf(d)'
  <2>1. CASE d = c
    BY <1>5, <2>1, ScanPicks
  <2>2. CASE d # c
    BY <1>5, <2>2, PickFrame DEF Scan, ScanLeast, ScanQueue, ScanNext, Runs,
       Types, CpuTyped, ChoiceTyped, Goto
  <2> QED
    BY <2>1, <2>2
<1>6. ASSUME NEW c \in CPU, ScanEnds(c) PROVE PickOf(d)'
  <2>1. CASE d = c
    BY <1>6, <2>1, ScanEndPicks
  <2>2. CASE d # c
    BY <1>6, <2>2, PickFrame DEF ScanEnds, Types, CpuTyped, Goto, choice
  <2> QED
    BY <2>1, <2>2
<1>7. ASSUME NEW c \in CPU, Commit(c) PROVE PickOf(d)'
  <2>1. CASE d = c
    <3>1. best'[c] = None /\ pc'[c] \in {"start", "user", "loop"} /\ index'[c] = 1
      BY <1>7, <2>1 DEF Commit, Runs, Types, CpuTyped, ChoiceTyped, Goto, PickOf,
         Choosing
    <3> QED
      BY <2>1, <3>1, PickIdle DEF Choosing
  <2>2. CASE d # c
    BY <1>7, <2>2, PickFrame DEF Commit, Runs, Types, CpuTyped, ChoiceTyped, Goto
  <2> QED
    BY <2>1, <2>2
<1>8. ASSUME NEW c \in CPU, StartTime(c) PROVE PickOf(d)'
  <2>1. CASE d = c
    BY <1>8, <2>1, PickIdle DEF StartTime, ReleasesProc, Types, CpuTyped, Goto,
       queues, locks, cpuVars, choice, PickOf, Choosing, PcInv, PcOf
  <2>2. CASE d # c
    BY <1>8, <2>2, PickFrame DEF StartTime, ReleasesProc, Types, CpuTyped, Goto,
       queues, locks, cpuVars, choice
  <2> QED
    BY <2>1, <2>2
<1>9. ASSUME NEW c \in CPU, EndTime(c) PROVE PickOf(d)'
  <2>1. CASE d = c
    BY <1>9, <2>1, PickIdle DEF EndTime, ReleasesProc, Types, CpuTyped, Goto,
       queues, locks, cpuVars, choice, PickOf, Choosing, PcInv, PcOf
  <2>2. CASE d # c
    BY <1>9, <2>2, PickFrame DEF EndTime, ReleasesProc, Types, CpuTyped, Goto,
       queues, locks, cpuVars, choice
  <2> QED
    BY <2>1, <2>2
<1>10. ASSUME NEW c \in CPU, Leaves(c) PROVE PickOf(d)'
  <2>1. pc[c] \in {"user", "expired", "demoted"} /\ UNCHANGED <<policy, choice>>
    BY <1>10 DEF Leaves, InCall, InProcess
  <2>2. PICK next \in ProcState : SwitchesOut(c, next)
    BY <1>10 DEF Leaves, ProcState
  <2> QED
    BY <2>1, <2>2, SwitchPicks
<1>11. ASSUME NEW c \in CPU, Pauses(c) PROVE PickOf(d)'
  <2>1. pc[c] \in {"user", "expired", "demoted"} /\ UNCHANGED <<policy, choice>>
    BY <1>11 DEF Pauses, InCall, InProcess
  <2>2. PICK next \in ProcState : SwitchesOut(c, next)
    BY <1>11 DEF Pauses, ProcState
  <2> QED
    BY <2>1, <2>2, SwitchPicks
<1>12. ASSUME NEW c \in CPU, Yields(c) PROVE PickOf(d)'
  <2>1. pc[c] \in {"user", "expired", "demoted"} /\ UNCHANGED <<policy, choice>>
    BY <1>12 DEF Yields
  <2>2. PICK next \in ProcState : SwitchesOut(c, next)
    BY <1>12 DEF Yields, ProcState
  <2> QED
    BY <2>1, <2>2, SwitchPicks
<1>13. ASSUME NEW c \in CPU, MlfqTick(c) PROVE PickOf(d)'
  <2>1. pc[c] = "expired" /\ UNCHANGED <<policy, choice>>
    BY <1>13 DEF MlfqTick
  <2>2. CASE SwitchesOut(c, "RUNNABLE")
    BY <2>1, <2>2, SwitchPicks DEF ProcState
  <2>3. CASE pc' \in {[pc EXCEPT ![c] = "user"],
     [pc EXCEPT ![c] = "demote"]} /\ UNCHANGED index
    <3>1. CASE d = c
      BY <2>1, <2>3, <3>1, PickIdle DEF Types, CpuTyped, PickOf, Choosing, choice
    <3>2. CASE d # c
      BY <2>1, <2>3, <3>2, PickFrame DEF Types, CpuTyped, choice
    <3> QED
      BY <3>1, <3>2
  <2> QED
    BY <1>13, <2>2, <2>3 DEF MlfqTick, Goto
<1>14. ASSUME NEW c \in CPU, DemoteMoves(c) PROVE PickOf(d)'
  <2>1. CASE d = c
    BY <1>14, <2>1, PickIdle DEF DemoteMoves, Types, CpuTyped, Goto, queues,
       locks, cpuVars, choice, PickOf, Choosing, PcInv, PcOf
  <2>2. CASE d # c
    BY <1>14, <2>2, PickFrame DEF DemoteMoves, Types, CpuTyped, Goto, queues,
       locks, cpuVars, choice
  <2> QED
    BY <2>1, <2>2
<1>15. ASSUME NEW c \in CPU, DemoteMoved(c) PROVE PickOf(d)'
  <2>1. pc[c] \in {"user", "expired", "demoted"} /\ UNCHANGED <<policy, choice>>
    BY <1>15 DEF DemoteMoved
  <2>2. PICK next \in ProcState : SwitchesOut(c, next)
    BY <1>15 DEF DemoteMoved, ProcState
  <2> QED
    BY <2>1, <2>2, SwitchPicks
<1>16. ASSUME NEW c \in CPU, NEW p \in Proc, AllocBegins(c, p),
   UNCHANGED <<choice, last_boost_tick>> PROVE PickOf(d)'
  <2>1. CASE d = c
    BY <1>16, <2>1, PickIdle DEF AllocBegins, InCall, InProcess, Types, CpuTyped,
       Goto, queues, locks, cpuVars, choice, PickOf, Choosing, PcInv, PcOf
  <2>2. CASE d # c
    BY <1>16, <2>2, PickFrame DEF AllocBegins, InCall, InProcess, Types,
       CpuTyped, Goto, queues, locks, cpuVars, choice
  <2> QED
    BY <2>1, <2>2
<1>17. ASSUME NEW c \in CPU, NEW p \in Proc, Reap(c, p), UNCHANGED <<choice,
   last_boost_tick>> PROVE PickOf(d)'
  BY <1>17, PickFrame DEF Reap, Types, CpuTyped, Goto, queues, locks, cpuVars,
     choice
<1>18. ASSUME NEW c \in CPU, NEW p \in Proc, Wake(c, p), UNCHANGED <<choice,
   last_boost_tick>> PROVE PickOf(d)'
  BY <1>18, PickFrame DEF Wake, Types, CpuTyped, Goto, queues, locks, cpuVars,
     choice
<1>19. ASSUME NEW c \in CPU, AllocEnds(c), UNCHANGED <<choice,
   last_boost_tick>> PROVE PickOf(d)'
  <2>1. CASE d = c
    BY <1>19, <2>1, PickIdle DEF AllocEnds, Types, CpuTyped, Goto, queues, locks,
       cpuVars, choice, PickOf, Choosing, PcInv, PcOf
  <2>2. CASE d # c
    BY <1>19, <2>2, PickFrame DEF AllocEnds, Types, CpuTyped, Goto, queues,
       locks, cpuVars, choice
  <2> QED
    BY <2>1, <2>2
<1>20. ASSUME NEW c \in CPU, ForkEnds(c), UNCHANGED <<choice,
   last_boost_tick>> PROVE PickOf(d)'
  BY <1>20, PickFrame DEF ForkEnds, Types, CpuTyped, Goto, queues, locks,
     cpuVars, choice
<1>21. ASSUME NEW c \in CPU, OtherTimer(c), UNCHANGED <<choice,
   last_boost_tick>> PROVE PickOf(d)'
  <2>1. CASE d = c
    BY <1>21, <2>1, PickIdle DEF OtherTimer, InProcess, Types, CpuTyped, Goto,
       queues, locks, cpuVars, choice, PickOf, Choosing, PcInv, PcOf
  <2>2. CASE d # c
    BY <1>21, <2>2, PickFrame DEF OtherTimer, InProcess, Types, CpuTyped, Goto,
       queues, locks, cpuVars, choice
  <2> QED
    BY <2>1, <2>2
<1>22. ASSUME ClockBegins, UNCHANGED <<choice, last_boost_tick>> PROVE PickOf(d)'
  <2>1. CASE d = Boot
    BY <1>22, <2>1, PickIdle, XvProcAssumption DEF ClockBegins, Interruptible,
       Types, CpuTyped, Goto, queues, locks, cpuVars, choice, PickOf, Choosing,
       PcInv, PcOf
  <2>2. CASE d # Boot
    BY <1>22, <2>2, PickFrame, XvProcAssumption DEF ClockBegins, Interruptible,
       Types, CpuTyped, Goto, queues, locks, cpuVars, choice
  <2> QED
    BY <2>1, <2>2
<1>23. ASSUME ClockWakes, UNCHANGED <<choice, last_boost_tick>> PROVE PickOf(d)'
  <2>1. CASE d = Boot
    BY <1>23, <2>1, PickIdle, XvProcAssumption DEF ClockWakes, Types, CpuTyped,
       Goto, queues, locks, cpuVars, choice, PickOf, Choosing, PcInv, PcOf
  <2>2. CASE d # Boot
    BY <1>23, <2>2, PickFrame, XvProcAssumption DEF ClockWakes, Types, CpuTyped,
       Goto, queues, locks, cpuVars, choice
  <2> QED
    BY <2>1, <2>2
<1>24. ASSUME ClockEnds, UNCHANGED <<choice, last_boost_tick>> PROVE PickOf(d)'
  <2>1. CASE d = Boot
    BY <1>24, <2>1, PickIdle, XvProcAssumption DEF ClockEnds, Types, CpuTyped,
       Goto, queues, locks, cpuVars, choice, PickOf, Choosing, PcInv, PcOf
  <2>2. CASE d # Boot
    BY <1>24, <2>2, PickFrame, XvProcAssumption DEF ClockEnds, Types, CpuTyped,
       Goto, queues, locks, cpuVars, choice
  <2> QED
    BY <2>1, <2>2
<1> QED
  BY <1>1, <1>2, <1>3, <1>4, <1>5, <1>6, <1>7, <1>8, <1>9, <1>10, <1>11, <1>12,
     <1>13, <1>14, <1>15, <1>16, <1>17, <1>18, <1>19, <1>20, <1>21, <1>22, <1>23,
     <1>24 DEF Next, Scheduler, Process, Kernel

-----------------------------------------------------------------------------
(* Only a scheduler gives a CPU away: the second pass of FCFS, CFS and     *)
(* MLFQ, and the loop of round robin.                                      *)
LEMMA GivenBy ==
  ASSUME IInv, Next, NEW c \in CPU, NEW p \in Proc, Given(c, p)
  PROVE  (Commit(c) /\ p = best[c]) \/ policy = "RR"
<1>1. state[p] = "RUNNABLE" /\ state'[p] = "RUNNING" /\ cproc'[c] = p
  BY DEF Given
<1>2. Types /\ PcInv /\ LockInv /\ RunInv
  BY DEF IInv
<1>3. ASSUME NEW e \in CPU, Free(p), cproc' = [cproc EXCEPT ![e] = p] PROVE e = c
  <2>1. cproc[c] # p
    BY <1>1, <1>2, <1>3, NobodyHas
  <2> QED
    BY <1>1, <1>2, <1>3, <2>1 DEF Types, CpuTyped
<1>4. ASSUME NEW e \in CPU, Commit(e) PROVE Commit(c) /\ p = best[c]
  <2>1. state' = [state EXCEPT ![best[e]] = "RUNNING"] /\ best[e] \in Proc
        /\ Free(best[e]) /\ cproc' = [cproc EXCEPT ![e] = best[e]]
    BY <1>1, <1>2, <1>4 DEF Commit, Runs, PcInv, PcOf
  <2>2. p = best[e]
    BY <1>1, <1>2, <2>1 DEF Types, ProcTyped
  <2> QED
    BY <1>3, <1>4, <2>1, <2>2
<1>5. ASSUME NEW e \in CPU, Scan(e) PROVE policy = "RR"
  BY <1>1, <1>5 DEF Scan, ScanLeast, ScanQueue, ScanNext
<1>6. ASSUME state' = state PROVE FALSE
  BY <1>1, <1>6
<1>7. ASSUME NEW q, NEW s \in ProcState \ {"RUNNING"},
   state' = [state EXCEPT ![q] = s]
      PROVE  FALSE
  BY <1>1, <1>2, <1>7 DEF Types, ProcTyped
<1>8. ASSUME NEW e \in CPU, Scheduler(e)
   PROVE (Commit(c) /\ p = best[c]) \/ policy = "RR"
  BY <1>4, <1>5, <1>6, <1>8 DEF Scheduler, LoopBegins, BoostMoves, BoostMoved,
     BoostEnds,
     ScanEnds, StartTime, EndTime
<1>9. ASSUME NEW e \in CPU, Process(e) PROVE FALSE
  <2>1. ASSUME NEW s \in ProcState \ {"RUNNING"}, SwitchesOut(e, s) PROVE FALSE
    BY <1>7, <2>1 DEF SwitchesOut
  <2>2. {"RUNNABLE", "SLEEPING", "ZOMBIE"} \subseteq ProcState \ {"RUNNING"}
    BY DEF ProcState
  <2> QED
    BY <1>6, <1>9, <2>1, <2>2 DEF Process, Leaves, Pauses, Yields, MlfqTick,
       DemoteMoves,
       DemoteMoved
<1>10. ASSUME Kernel PROVE FALSE
  <2>1. {"USED", "UNUSED", "RUNNABLE"} \subseteq ProcState \ {"RUNNING"}
    BY DEF ProcState
  <2> QED
    BY <1>6, <1>7, <1>10, <2>1 DEF Kernel, AllocBegins, AllocEnds, ForkEnds,
       Reap, Wake,
       OtherTimer, ClockBegins, ClockWakes, ClockEnds
<1> QED
  BY <1>8, <1>9, <1>10 DEF Next

(* The initial states have no choice.                                      *)
LEMMA PickInvInit == Init => PickInv
BY NoneNotProc DEF Init, ProcInit, PickInv, PickOf, Choosing, None

(* The choices, with the invariant they rest on, always hold.              *)
LEMMA PickInvariant == Spec => [](IInv /\ PickInv)
<1>1. IInv /\ PickInv /\ [Next]_vars => PickInv'
  <2> SUFFICES ASSUME IInv, PickInv, [Next]_vars PROVE PickInv'
    OBVIOUS
  <2>1. CASE Next
    BY <2>1, IInvStep, PickInvStep DEF IInv
  <2>2. CASE UNCHANGED vars
    BY <2>2 DEF vars, procVars, cpuVars, queues, choice, PickInv, PickOf,
       LeastSoFar,
       NoneBehind, LeastOfAll, Untouched, Key
  <2> QED
    BY <2>1, <2>2
<1> QED
  BY <1>1, IInvInit, IInvStep, PickInvInit, PTL DEF Spec

(* The patch 19336-19345, 19385-19394 and 19285-19291: the process that is *)
(* given a CPU is the first by the policy of all that were ready and left  *)
(* alone while the CPU chose, whatever the other CPUs did meanwhile.       *)
THEOREM ChoosesByPolicy == Spec => PicksBest
<1>1. IInv /\ PickInv /\ [Next]_vars =>
        [\A c \in CPU : \A p, q \in Proc \ touched[c] :
           Given(c, p) /\ state[q] = "RUNNABLE" => Key(p) <= Key(q)]_vars
  <2> SUFFICES ASSUME IInv, PickInv, Next, NEW c \in CPU,
                      NEW p \in Proc \ touched[c], NEW q \in Proc \ touched[c],
                      Given(c, p), state[q] = "RUNNABLE"
               PROVE  Key(p) <= Key(q)
    OBVIOUS
  <2>1. CASE policy = "RR"
    BY <2>1 DEF Key
  <2>2. CASE Commit(c) /\ p = best[c]
    BY <2>2 DEF Commit, PickInv, PickOf, LeastOfAll, Untouched
  <2> QED
    BY <2>1, <2>2, GivenBy
<1> QED
  BY <1>1, PickInvariant, PTL DEF Spec, PicksBest

=============================================================================

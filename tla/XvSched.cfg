SPECIFICATION Spec
CONSTANTS
  CPU = {c0, c1}
  Boot = c0
  NoCpu = NoCpu
  NPROC = 2
  MaxTicks = 2
  Policies = {"RR", "FCFS", "CFS", "MLFQ"}
  Lowest = 2
  Slices <- MCSlices
  BoostPeriod = 2
INVARIANTS TypeOK RunsOnce OnlyClockDeadlocks SliceOfQueue VruntimeEarned
PROPERTIES PicksBest
\* The CPUs may block each other (OnlyClockDeadlocks).
CHECK_DEADLOCK FALSE

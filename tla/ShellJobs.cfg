\* Three commands: three jobs. Pipelines are in ShellJobsLive.cfg.
SPECIFICATION Spec
CONSTANTS
  MaxPid = 3
  Stages = {1}
  ForkFails = {FALSE}
  Pinged = {"KILL", "STOP", "CONT"}
  MaxNumber = 3
INVARIANTS TypeOK NoJobLost StopIsKept NoGhosts NumbersIncrease KeysReachCommand
PROPERTIES KeysSpareJobs
\* The program exits.
CHECK_DEADLOCK FALSE

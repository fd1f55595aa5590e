\* One command, in the foreground or in the background.
SPECIFICATION Spec
CONSTANTS
  MaxPid = 2
  Stages = {1}
  ForkFails = {FALSE}
  Pinged = {"KILL", "STOP", "CONT"}
  MaxNumber = 3
INVARIANTS ListedJobsLive
CHECK_DEADLOCK FALSE

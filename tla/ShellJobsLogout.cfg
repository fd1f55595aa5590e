\* Two commands, no pipeline.
SPECIFICATION Spec
CONSTANTS
  MaxPid = 2
  Stages = {1}
  ForkFails = {FALSE}
  Pinged = {"KILL", "STOP", "CONT"}
  MaxNumber = 3
INVARIANTS LogoutKillsAll
CHECK_DEADLOCK FALSE

\* Two processes, in one pipeline or two commands, and forks that fail.
SPECIFICATION FairSpec
CONSTANTS
  MaxPid = 2
  Stages = {1, 2}
  ForkFails = {TRUE, FALSE}
  Pinged = {"INT", "TSTP", "KILL", "STOP", "CONT"}
  MaxNumber = 3
PROPERTIES ZombiesReaped
\* The program exits.
CHECK_DEADLOCK FALSE

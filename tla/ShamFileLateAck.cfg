\* A network that loses, repeats and reorders nothing but may be slower than
\* the 500 ms timeout, and a server with a loss_rate.
SPECIFICATION FairSpec
CONSTANTS
  SeqSpace = 16
  Capacity = 3
  Faults = {"early", "drop"}
  ClientIsns = {1}
  ServerIsns = {1}
  NameLen = 1
  PayloadSize = 2
  FileSize = 3
  InputOpens = {TRUE}
  OutputOpens = {TRUE}
PROPERTIES FileGetsThrough
CHECK_DEADLOCK FALSE

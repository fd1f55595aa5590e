\* Every fault of the network and of the programs' environment at once.  Both
\* programs are seeded with the same second, so both draw the same number.
SPECIFICATION Spec
CONSTANTS
  SeqSpace = 8
  Capacity = 3
  Faults = {"loss", "dup", "reorder", "early", "drop"}
  ClientIsns = {1}
  ServerIsns = {1}
  NameLen = 1
  PayloadSize = 2
  FileSize = 3
  InputOpens = {TRUE, FALSE}
  OutputOpens = {TRUE, FALSE}
INVARIANTS TypeOK CopyIsPrefix DoneMeansDelivered TransferInv
PROPERTIES Md5OfWholeFile HandsOverInOrder
\* The programs end, and a server whose client is gone waits for ever.
CHECK_DEADLOCK FALSE

\* The handshake and the teardown lose nothing; the data loop loses its
\* datagrams and the server drops some.
SPECIFICATION FairSpec
CONSTANTS
  SeqSpace = 32
  Capacity = 3
  Faults = {"dataloss", "drop"}
  ClientIsns = {0, 1, 7}
  ServerIsns = {0, 31}
  NameLen = 2
  PayloadSize = 3
  FileSize = 11
  InputOpens = {TRUE}
  OutputOpens = {TRUE}
INVARIANTS CloseAgreement
PROPERTIES BothEnd
\* The programs end.
CHECK_DEADLOCK FALSE

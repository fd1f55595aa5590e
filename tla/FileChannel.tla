---------------------------- MODULE FileChannel ----------------------------
(***************************************************************************)
(* What the data loop of networking/client.c and networking/server.c       *)
(* promises: a file handed over chunk by chunk, in order, each chunk once, *)
(* the sender never more than one chunk ahead of what it knows arrived.    *)
(***************************************************************************)
EXTENDS Integers

CONSTANTS PayloadSize, FileSize

VARIABLES
  delivered,   \* bytes of the file the receiver has put in its copy
  confirmed    \* bytes of the file the sender knows to be there

channelVars == <<delivered, confirmed>>

Smaller(m, n) == IF m < n THEN m ELSE n

ChannelInit == delivered = 0 /\ confirmed = 0

Deliver ==
  /\ delivered = confirmed
  /\ delivered < FileSize
  /\ delivered' = Smaller(delivered + PayloadSize, FileSize)
  /\ UNCHANGED confirmed

Confirm ==
  /\ confirmed < delivered
  /\ confirmed' = delivered
  /\ UNCHANGED delivered

ChannelNext == Deliver \/ Confirm

ChannelSpec == ChannelInit /\ [][ChannelNext]_channelVars
=============================================================================

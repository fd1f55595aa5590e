------------------------------ MODULE ShamFile ------------------------------
(***************************************************************************)
(* One file transfer, both programs from their first datagram to close():  *)
(* the three-way handshake, the file name, the stop-and-wait data loop and *)
(* the teardown of networking/client.c and networking/server.c.            *)
(*                                                                         *)
(* Each program is a sequence of blocking recvfrom calls; an action is one *)
(* recvfrom (or its timeout) with everything the program does until the    *)
(* next one.  The network between them is UDP: a queue of datagrams in     *)
(* each direction, which Faults lets lose, repeat or reorder them.         *)
(***************************************************************************)
EXTENDS Sham

CONSTANTS
  ClientIsns,    \* values rand() may give client_seq
  ServerIsns,    \* values rand() may give server_seq
  NameLen,       \* strlen(output_file_name) + 1
  PayloadSize,   \* PAYLOAD_SIZE
  FileSize,      \* bytes in the input file
  InputOpens,    \* outcomes of the client's fopen of the input file
  OutputOpens    \* outcomes of the server's fopen of the output file

ASSUME ShamFileAssumption ==
  /\ ClientIsns \subseteq SeqNum
  /\ ServerIsns \subseteq SeqNum
  /\ NameLen \in Nat \ {0}
  /\ PayloadSize \in Nat \ {0}
  /\ FileSize \in Nat
  /\ InputOpens \subseteq BOOLEAN
  /\ OutputOpens \subseteq BOOLEAN

VARIABLES
  cpc,        \* the recvfrom the client is blocked in
  client_seq, \* main's client_seq: the client's initial sequence number
  seq,        \* sequence number of the next byte the client sends
  hdr,        \* the header part of the client's packet buffer
  pos,        \* bytes of the file read and acknowledged before this chunk
  bytes_read, \* size of the chunk in the client's packet buffer
  rcvtimeo,   \* TRUE once SO_RCVTIMEO is set on the client's socket
  spc,        \* the recvfrom the server is blocked in
  server_seq, \* the server's initial sequence number
  expected,   \* the server's expected_seq
  out,        \* what fwrite has put in the server's output file
  named,      \* TRUE once the server has taken the output name
  c2s,        \* datagrams in flight from the client to the server
  s2c         \* datagrams in flight from the server to the client

clientVars == <<cpc, client_seq, seq, hdr, pos, bytes_read, rcvtimeo>>
serverVars == <<spc, server_seq, expected, out, named>>
vars == <<cpc, client_seq, seq, hdr, pos, bytes_read, rcvtimeo,
          spc, server_seq, expected, out, named, c2s, s2c>>

ClientPc == {"start", "synack", "name", "data", "finack", "fin", "closed"}
ServerPc == {"listen", "ack", "name", "data", "lastack", "closed"}

TypeOK ==
  /\ cpc \in ClientPc
  /\ client_seq \in SeqNum
  /\ seq \in SeqNum
  /\ hdr \in Header
  /\ pos \in 0 .. FileSize
  /\ bytes_read \in 0 .. PayloadSize
  /\ rcvtimeo \in BOOLEAN
  /\ spc \in ServerPc
  /\ server_seq \in SeqNum
  /\ expected \in SeqNum
  /\ out \in Seq(Body)
  /\ named \in BOOLEAN
  /\ c2s \in Seq(Packet)
  /\ s2c \in Seq(Packet)

Init ==
  /\ cpc = "start"
  /\ client_seq \in ClientIsns
  /\ seq = client_seq
  /\ hdr = Hdr(0, 0, {})
  /\ pos = 0
  /\ bytes_read = 0
  /\ rcvtimeo = FALSE
  /\ spc = "listen"
  /\ server_seq \in ServerIsns
  /\ expected = 0
  /\ out = <<>>
  /\ named = FALSE
  /\ c2s = <<>>
  /\ s2c = <<>>

-----------------------------------------------------------------------------
(* The client.                                                             *)

ClientReceives(p) == Receive(s2c, p, s2c')

(* No answer to the client's last datagram is on its way any more.         *)
Quiet == s2c = <<>> /\ (c2s = <<>> \/ spc = "closed")

(* recvfrom returns -1: SO_RCVTIMEO ran out.                               *)
ClientTimesOut ==
  /\ rcvtimeo
  /\ Quiet \/ "early" \in Faults
  /\ s2c' = s2c

SendSyn ==
  /\ cpc = "start"
  /\ hdr' = Hdr(client_seq, 0, {"SYN"})
  /\ c2s' = Send(c2s, Pkt(hdr', NoBody))
  /\ cpc' = "synack"
  /\ UNCHANGED <<client_seq, seq, pos, bytes_read, rcvtimeo, s2c>>
  /\ UNCHANGED serverVars

(* Mutant of StartTeardown: the wait for the ACK of the FIN is skipped.    *)
StartTeardownMutant(s, q) ==
  /\ seq' = s
  /\ hdr' = Hdr(s, 0, {"FIN"})
  /\ c2s' = Send(q, Pkt(hdr', NoBody))
  /\ cpc' = "fin"

(* The client leaves file_transfer_mode and main sends its only FIN behind *)
(* the datagrams q.                                                        *)
StartTeardown(s, q) ==
  /\ seq' = s
  /\ hdr' = Hdr(s, 0, {"FIN"})
  /\ c2s' = Send(q, Pkt(hdr', NoBody))
  /\ cpc' = "finack"

(* Whatever arrives is taken for the SYN-ACK.  The ACK for it goes out and *)
(* file_transfer_mode starts: it sends the name, or returns at once when   *)
(* the input file does not open.                                           *)
RecvSynAck(p) ==
  /\ cpc = "synack"
  /\ ClientReceives(p)
  /\ LET s     == Wrap(client_seq + 1)
         ack   == Pkt(Hdr(s, Wrap(p.hdr.seq + 1), {"ACK"}), NoBody)
         acked == Send(c2s, ack)
         name  == [src |-> "name", off |-> 0, len |-> NameLen]
     IN  \/ /\ TRUE \in InputOpens
            /\ seq' = s
            /\ hdr' = Hdr(s, 0, {"NAME"})
            /\ c2s' = Send(acked, Pkt(hdr', name))
            /\ rcvtimeo' = TRUE
            /\ cpc' = "name"
         \/ /\ FALSE \in InputOpens
            /\ StartTeardown(s, acked)
            /\ UNCHANGED rcvtimeo
  /\ UNCHANGED <<client_seq, pos, bytes_read>>
  /\ UNCHANGED serverVars

Chunk(offset, len) == [src |-> "file", off |-> offset, len |-> len]

(* Mutant of ChunkLen: the size of the buffer is ignored.                  *)
ChunkLenMutant(offset) == FileSize - offset

ChunkLen(offset) ==
  IF FileSize - offset < PayloadSize THEN FileSize - offset ELSE PayloadSize

(* Mutant of NextChunk: a short read is taken for the end of the file.     *)
NextChunkMutant(offset, s) ==
  /\ pos' = offset
  /\ bytes_read' = ChunkLen(offset)
  /\ \/ /\ offset + PayloadSize <= FileSize
        /\ seq' = s
        /\ hdr' = Hdr(s, 0, {})
        /\ c2s' = Send(c2s, Pkt(hdr', Chunk(offset, bytes_read')))
        /\ cpc' = "data"
     \/ /\ offset + PayloadSize > FileSize
        /\ StartTeardown(s, c2s)
  /\ UNCHANGED <<client_seq, rcvtimeo>>

(* The head of the read loop: fread the chunk at offset, build its header  *)
(* with sequence number s and send it; at the end of the file, leave.      *)
NextChunk(offset, s) ==
  /\ pos' = offset
  /\ bytes_read' = ChunkLen(offset)
  /\ \/ /\ offset < FileSize
        /\ seq' = s
        /\ hdr' = Hdr(s, 0, {})
        /\ c2s' = Send(c2s, Pkt(hdr', Chunk(offset, bytes_read')))
        /\ cpc' = "data"
     \/ /\ offset = FileSize
        /\ StartTeardown(s, c2s)
  /\ UNCHANGED <<client_seq, rcvtimeo>>

(* "Wait for filename ACK": any datagram, or none, ends the wait.          *)
NameWaitEnds ==
  /\ cpc = "name"
  /\ ClientTimesOut \/ \E p \in InFlight(s2c) : ClientReceives(p)
  /\ NextChunk(pos, Wrap(seq + NameLen))
  /\ UNCHANGED serverVars

(* Mutant of IsAckOfChunk: the acknowledged number is not compared.        *)
IsAckOfChunkMutant(p) == "ACK" \in p.hdr.flags

IsAckOfChunk(p) ==
  "ACK" \in p.hdr.flags /\ p.hdr.ack = Wrap(seq + bytes_read)

RecvDataAck(p) ==
  /\ cpc = "data"
  /\ IsAckOfChunk(p)
  /\ ClientReceives(p)
  /\ NextChunk(pos + bytes_read, Wrap(seq + bytes_read))
  /\ UNCHANGED serverVars

(* The buffer's payload goes out again behind whatever header is now in    *)
(* front of it.                                                            *)
Retransmit ==
  /\ c2s' = Send(c2s, Pkt(hdr', Chunk(pos, bytes_read)))
  /\ UNCHANGED <<cpc, client_seq, seq, pos, bytes_read, rcvtimeo>>
  /\ UNCHANGED serverVars

(* recvfrom has overwritten packet.header before the test rejects it, and  *)
(* the loop does not build the header anew.                                *)
RecvWrongAck(p) ==
  /\ cpc = "data"
  /\ ~IsAckOfChunk(p)
  /\ ClientReceives(p)
  /\ hdr' = p.hdr
  /\ Retransmit

DataTimeout ==
  /\ cpc = "data"
  /\ ClientTimesOut
  /\ hdr' = hdr
  /\ Retransmit

(* Each of the two waits of the teardown takes whatever comes, or the      *)
(* timeout, for what it waits for.                                         *)
TeardownReceives ==
  \/ ClientTimesOut /\ hdr' = hdr
  \/ \E p \in InFlight(s2c) : ClientReceives(p) /\ hdr' = p.hdr

RecvFinAck ==
  /\ cpc = "finack"
  /\ TeardownReceives
  /\ cpc' = "fin"
  /\ UNCHANGED <<client_seq, seq, pos, bytes_read, rcvtimeo, c2s>>
  /\ UNCHANGED serverVars

RecvFin ==
  /\ cpc = "fin"
  /\ TeardownReceives
  /\ LET lastAck == Hdr(Wrap(seq + 1), Wrap(hdr'.seq + 1), {"ACK"})
     IN  c2s' = Send(c2s, Pkt(lastAck, NoBody))
  /\ cpc' = "closed"
  /\ UNCHANGED <<client_seq, seq, pos, bytes_read, rcvtimeo>>
  /\ UNCHANGED serverVars

Client ==
  \/ SendSyn
  \/ \E p \in InFlight(s2c) : RecvSynAck(p) \/ RecvDataAck(p) \/ RecvWrongAck(p)
  \/ NameWaitEnds
  \/ DataTimeout
  \/ RecvFinAck
  \/ RecvFin

-----------------------------------------------------------------------------
(* The server.                                                             *)

ServerReceives(p) == Receive(c2s, p, c2s')

(* Whatever arrives is taken for the SYN.                                  *)
RecvSyn(p) ==
  /\ spc = "listen"
  /\ ServerReceives(p)
  /\ expected' = Wrap(p.hdr.seq + 1)
  /\ LET synAck == Hdr(server_seq, Wrap(p.hdr.seq + 1), {"SYN", "ACK"})
     IN  s2c' = Send(s2c, Pkt(synAck, NoBody))
  /\ spc' = "ack"
  /\ UNCHANGED <<server_seq, out, named>>
  /\ UNCHANGED clientVars

(* Whatever arrives is taken for the ACK of the SYN.                       *)
RecvSynAckAck(p) ==
  /\ spc = "ack"
  /\ ServerReceives(p)
  /\ spc' = "name"
  /\ UNCHANGED <<server_seq, expected, out, named, s2c>>
  /\ UNCHANGED clientVars

(* main's teardown: an ACK of the FIN and a FIN of the server's own, both  *)
(* with the same sequence number, behind the datagrams q.                  *)
TeardownSends(q, fin_seq) ==
  LET s   == Wrap(server_seq + 1)
      ack == Pkt(Hdr(s, Wrap(fin_seq + 1), {"ACK"}), NoBody)
      fin == Pkt(Hdr(s, 0, {"FIN"}), NoBody)
  IN  Send(Send(q, ack), fin)

(* The first datagram of file_transfer_mode.  Without the name flag it is  *)
(* used up for nothing; then the output file is opened, and when that      *)
(* fails the server leaves with a fin_seq of 0.                            *)
RecvName(p) ==
  /\ spc = "name"
  /\ ServerReceives(p)
  /\ named' = ("NAME" \in p.hdr.flags)
  /\ expected' = IF named' THEN Wrap(expected + p.body.len) ELSE expected
  /\ LET ack     == Pkt(Hdr(0, expected', {"ACK"}), NoBody)
         answers == IF named' THEN Send(s2c, ack) ELSE s2c
     IN  \/ /\ TRUE \in OutputOpens
            /\ s2c' = answers
            /\ spc' = "data"
         \/ /\ FALSE \in OutputOpens
            /\ s2c' = TeardownSends(answers, 0)
            /\ spc' = "lastack"
  /\ UNCHANGED <<server_seq, out>>
  /\ UNCHANGED clientVars

Written(body) == IF body.len = 0 THEN out ELSE Append(out, body)

(* Mutants of RecvData: the number is not compared before the write; only  *)
(* an expected datagram is answered.                                       *)
RecvDataUnchecked(p) ==
  /\ spc = "data"
  /\ "FIN" \notin p.hdr.flags
  /\ ServerReceives(p)
  /\ out' = Written(p.body)
  /\ expected' = Wrap(expected + p.body.len)
  /\ s2c' = Send(s2c, Pkt(Hdr(0, expected', {"ACK"}), NoBody))
  /\ UNCHANGED <<spc, server_seq, named>>
  /\ UNCHANGED clientVars

RecvDataSilent(p) ==
  /\ spc = "data"
  /\ "FIN" \notin p.hdr.flags
  /\ ServerReceives(p)
  /\ \/ /\ p.hdr.seq = expected
        /\ out' = Written(p.body)
        /\ expected' = Wrap(expected + p.body.len)
        /\ s2c' = Send(s2c, Pkt(Hdr(0, expected', {"ACK"}), NoBody))
     \/ /\ p.hdr.seq # expected
        /\ UNCHANGED <<out, expected, s2c>>
  /\ UNCHANGED <<spc, server_seq, named>>
  /\ UNCHANGED clientVars

(* A datagram of the data loop that is neither a FIN nor dropped: written  *)
(* when it is the expected one, and answered in either case.               *)
RecvData(p) ==
  /\ spc = "data"
  /\ "FIN" \notin p.hdr.flags
  /\ ServerReceives(p)
  /\ \/ /\ p.hdr.seq = expected
        /\ out' = Written(p.body)
        /\ expected' = Wrap(expected + p.body.len)
     \/ /\ p.hdr.seq # expected
        /\ UNCHANGED <<out, expected>>
  /\ s2c' = Send(s2c, Pkt(Hdr(0, expected', {"ACK"}), NoBody))
  /\ UNCHANGED <<spc, server_seq, named>>
  /\ UNCHANGED clientVars

(* The simulated loss of loss_rate.                                        *)
DropData(p) ==
  /\ spc = "data"
  /\ "drop" \in Faults
  /\ "FIN" \notin p.hdr.flags
  /\ ServerReceives(p)
  /\ UNCHANGED <<serverVars, s2c>>
  /\ UNCHANGED clientVars

(* The FIN ends the loop: the file is closed, its MD5 printed, and main    *)
(* answers.                                                                *)
RecvClientFin(p) ==
  /\ spc = "data"
  /\ "FIN" \in p.hdr.flags
  /\ ServerReceives(p)
  /\ s2c' = TeardownSends(s2c, p.hdr.seq)
  /\ spc' = "lastack"
  /\ UNCHANGED <<server_seq, expected, out, named>>
  /\ UNCHANGED clientVars

(* Whatever arrives is taken for the last ACK.                             *)
RecvLastAck(p) ==
  /\ spc = "lastack"
  /\ ServerReceives(p)
  /\ spc' = "closed"
  /\ UNCHANGED <<server_seq, expected, out, named, s2c>>
  /\ UNCHANGED clientVars

Handles(p) ==
  \/ RecvSyn(p)
  \/ RecvSynAckAck(p)
  \/ RecvName(p)
  \/ RecvData(p)
  \/ RecvClientFin(p)
  \/ RecvLastAck(p)

Server == \E p \in InFlight(c2s) : Handles(p) \/ DropData(p)

-----------------------------------------------------------------------------
(* The network.                                                            *)

Lose ==
  /\ "loss" \in Faults \/ ("dataloss" \in Faults /\ cpc = "data")
  /\ \/ \E i \in 1 .. Len(c2s) : c2s' = RemoveAt(c2s, i) /\ s2c' = s2c
     \/ \E i \in 1 .. Len(s2c) : s2c' = RemoveAt(s2c, i) /\ c2s' = c2s
  /\ UNCHANGED <<clientVars, serverVars>>

Next == Client \/ Server \/ Lose

Spec == Init /\ [][Next]_vars

(* Both programs run; a datagram that keeps arriving is sooner or later    *)
(* received, and not dropped every time (loss_rate < 1).                   *)
ClientReceivesAny == Client /\ s2c' # s2c

Fairness ==
  /\ WF_vars(Client)
  /\ SF_vars(ClientReceivesAny)
  /\ SF_vars(\E p \in InFlight(c2s) : Handles(p))

FairSpec == Spec /\ Fairness

-----------------------------------------------------------------------------
(* What the programs promise.                                              *)

(* Bytes of the file that a copy made of these writes ends at.             *)
FileEnd(writes) ==
  IF writes = <<>> \/ Last(writes).src # "file"
  THEN 0
  ELSE Last(writes).off + Last(writes).len

(* server.c:153: whatever the network repeats, reorders or loses, and      *)
(* whatever header a retransmission carries, the output file is the input  *)
(* file's bytes from its start, each once and in order.  Only the default  *)
(* output file may hold the name in front of them (the name datagram       *)
(* reached the data loop).                                                 *)
CopyIsPrefix ==
  \A i \in 1 .. Len(out) :
    \/ /\ out[i].src = "file"
       /\ out[i].off = FileEnd(SubSeq(out, 1, i - 1))
    \/ i = 1 /\ out[i].src = "name" /\ ~named

(* client.c:133: a client that has left the read loop, and so is about to  *)
(* tell its user that the connection is being closed, has its whole file   *)
(* in the server's copy.                                                   *)
SentWholeFile == cpc \in {"finack", "fin", "closed"} /\ pos = FileSize

DoneMeansDelivered ==
  SentWholeFile => FileEnd(out) = FileSize

(* server.c:163-164: the file whose MD5 the server prints under the name   *)
(* the client gave is complete.                                            *)
Md5OfWholeFile ==
  [][spc = "data" /\ spc' = "lastack" /\ named => FileEnd(out) = FileSize]_vars

(* client.c:122-143 with server.c:127-162: the two loops hand the file     *)
(* over as the abstract channel does, one chunk at a time, and the client  *)
(* counts no chunk as acknowledged that is not in the server's copy.       *)
Channel == INSTANCE FileChannel
             WITH delivered <- FileEnd(out), confirmed <- pos

HandsOverInOrder == Channel!ChannelSpec

(* client.c:73-95 with server.c:131-133 and 74-97: where the network loses *)
(* and reorders nothing outside the data loop, the teardown pairs up: the  *)
(* client never closes before the server has taken its FIN, nor the server *)
(* before the client has taken both of the server's answers.               *)
CloseAgreement ==
  /\ cpc \in {"fin", "closed"} => spc \in {"lastack", "closed"}
  /\ spc = "closed" => cpc = "closed" /\ s2c = <<>> /\ c2s = <<>>

(* Where the handshake and the teardown lose nothing, both programs end,   *)
(* with the whole file handed over, however often the data loop loses its  *)
(* datagrams or their ACKs.                                                *)
BothEnd == <>(cpc = "closed" /\ spc = "closed" /\ FileEnd(out) = FileSize)

(* README.md:39, "Reliable transmission of arbitrary files over UDP": the  *)
(* client comes to the end of its file whatever the delays.                *)
FileGetsThrough == <>SentWholeFile

=============================================================================

--------------------------- MODULE ShamFileProofs ---------------------------
(***************************************************************************)
(* What a transfer promises, for files, payloads, names and networks of    *)
(* every size.  The module begins with facts about the network and the     *)
(* sequence numbers and with type correctness; TransferInv is inductive    *)
(* where no number wraps around.  The last part, on the two programs in    *)
(* lockstep, uses neither TransferInv nor NoWrapAssumption.                *)
(***************************************************************************)
EXTENDS ShamFileNoWrap, FoldProofs

(* sham.h:30: 32-bit arithmetic keeps a sequence number in range.          *)
LEMMA WrapInRange ==
  ASSUME NEW n \in Nat
  PROVE  Wrap(n) \in SeqNum
BY ShamAssumption DEF Wrap, SeqNum

(* A number that is in range does not wrap.                                *)
LEMMA WrapSame ==
  ASSUME NEW n \in SeqNum
  PROVE  Wrap(n) = n
BY ShamAssumption DEF Wrap, SeqNum

(* sendto adds at most the datagram it sends.                              *)
LEMMA SendAdds ==
  ASSUME NEW S, NEW q \in Seq(S), NEW p \in S
  PROVE  /\ Send(q, p) \in Seq(S)
         /\ InFlight(Send(q, p)) \subseteq InFlight(q) \cup {p}
BY DEF Send, InFlight

(* Taking an element out of a sequence leaves the others.                  *)
LEMMA RemoveAtLeaves ==
  ASSUME NEW S, NEW q \in Seq(S), NEW i \in 1 .. Len(q)
  PROVE  /\ RemoveAt(q, i) \in Seq(S)
         /\ InFlight(RemoveAt(q, i)) \subseteq InFlight(q)
<1>1. /\ RemoveAt(q, i) \in Seq(S)
      /\ Len(RemoveAt(q, i)) = Len(q) - 1
      /\ \A j \in 1 .. Len(q) - 1 :
           RemoveAt(q, i)[j] = IF j < i THEN q[j] ELSE q[j + 1]
  BY RemoveAtEntries
<1> QED
  BY <1>1 DEF InFlight

(* recvfrom hands over a datagram in flight and leaves only such.          *)
LEMMA ReceiveTakes ==
  ASSUME NEW S, NEW q \in Seq(S), NEW p, NEW rest, Receive(q, p, rest)
  PROVE  /\ rest \in Seq(S)
         /\ p \in S
         /\ p \in InFlight(q)
         /\ InFlight(rest) \subseteq InFlight(q)
<1> PICK i \in 1 .. Len(q) :
        /\ p = q[i]
        /\ rest = RemoveAt(q, i) \/ rest = q
  BY DEF Receive
<1>1. p \in S /\ p \in InFlight(q)
  BY DEF InFlight
<1>2. RemoveAt(q, i) \in Seq(S) /\ InFlight(RemoveAt(q, i)) \subseteq InFlight(q)
  BY RemoveAtLeaves
<1> QED
  BY <1>1, <1>2

-----------------------------------------------------------------------------
(* Type correctness.  That the chunk being sent ends inside the file is    *)
(* what keeps pos in range.                                                *)
TypeInv == TypeOK /\ pos + bytes_read <= FileSize

LEMMA PacketParts ==
  ASSUME NEW p \in Packet
  PROVE  /\ p.hdr \in Header /\ p.hdr.seq \in SeqNum /\ p.hdr.ack \in SeqNum
         /\ p.hdr.flags \subseteq Flag
         /\ p.body \in Body /\ p.body.off \in Nat /\ p.body.len \in Nat
BY DEF Packet, Header, Body

LEMMA MakesHeader ==
  ASSUME NEW s \in SeqNum, NEW a \in SeqNum, NEW f \in SUBSET Flag
  PROVE  Hdr(s, a, f) \in Header
BY DEF Hdr, Header

LEMMA MakesPacket ==
  ASSUME NEW h \in Header, NEW b \in Body
  PROVE  Pkt(h, b) \in Packet
BY DEF Pkt, Packet

LEMMA MakesBody ==
  /\ NoBody \in Body
  /\ \A o, n \in Nat : Chunk(o, n) \in Body
BY DEF NoBody, Body, Chunk

LEMMA ZeroInRange == 0 \in SeqNum
BY ShamAssumption DEF SeqNum

LEMMA SeqNumIsNat == SeqNum \subseteq Nat
BY ShamAssumption DEF SeqNum

LEMMA WrapSum ==
  ASSUME NEW n \in SeqNum, NEW k \in Nat
  PROVE  Wrap(n + k) \in SeqNum
<1>1. n + k \in Nat
  BY SeqNumIsNat
<1> QED
  BY <1>1, WrapInRange

(* sham.h:20, client.c:123: a chunk is at most a payload and ends inside   *)
(* the file; it is empty at the end of the file only.                      *)
LEMMA ChunkLenBounds ==
  ASSUME NEW o \in 0 .. FileSize
  PROVE  /\ ChunkLen(o) \in 0 .. PayloadSize
         /\ o + ChunkLen(o) <= FileSize
         /\ o < FileSize <=> ChunkLen(o) > 0
BY ShamFileAssumption DEF ChunkLen

LEMMA InitTyped == Init => TypeInv
<1>1. Hdr(0, 0, {}) \in Header
  BY ZeroInRange, MakesHeader
<1>2. 0 \in 0 .. FileSize /\ 0 \in 0 .. PayloadSize /\ 0 + 0 <= FileSize
  BY ShamFileAssumption
<1>3. ClientIsns \subseteq SeqNum /\ ServerIsns \subseteq SeqNum
  BY ShamFileAssumption
<1>4. \A S : <<>> \in Seq(S)
  OBVIOUS
<1> QED
  BY <1>1, <1>2, <1>3, <1>4, ZeroInRange, Zenon
     DEF Init, TypeInv, TypeOK, ClientPc, ServerPc

(* What the head of the client's read loop leaves behind is typed.         *)
LEMMA NextChunkTyped ==
  ASSUME TypeInv, NEW o \in 0 .. FileSize, NEW s \in SeqNum,
         NextChunk(o, s), s2c' \in Seq(Packet), UNCHANGED serverVars
  PROVE  TypeInv'
<1> USE DEF TypeInv, TypeOK, serverVars
<1>1. bytes_read' \in 0 .. PayloadSize /\ pos' + bytes_read' <= FileSize
      /\ pos' \in 0 .. FileSize
  BY ChunkLenBounds DEF NextChunk
<1>2. UNCHANGED <<client_seq, rcvtimeo>>
  BY DEF NextChunk
<1>3. CASE o < FileSize /\ cpc' = "data" /\ seq' = s /\ hdr' = Hdr(s, 0, {})
           /\ c2s' = Send(c2s, Pkt(hdr', Chunk(o, bytes_read')))
  <2>1. hdr' \in Header
    BY <1>3, MakesHeader, ZeroInRange
  <2>2. Pkt(hdr', Chunk(o, bytes_read')) \in Packet
    BY <1>1, <2>1, MakesPacket, MakesBody, ShamFileAssumption
  <2>3. c2s' \in Seq(Packet)
    BY <1>3, <2>2, SendAdds
  <2> QED
    BY <1>1, <1>2, <1>3, <2>1, <2>3 DEF ClientPc
<1>4. CASE StartTeardown(s, c2s)
  <2>1. hdr' \in Header
    BY <1>4, MakesHeader, ZeroInRange DEF StartTeardown, Flag
  <2>2. c2s' \in Seq(Packet)
    BY <1>4, <2>1, MakesPacket, MakesBody, SendAdds DEF StartTeardown
  <2> QED
    BY <1>1, <1>2, <1>4, <2>1, <2>2 DEF StartTeardown, ClientPc
<1>5. \/ /\ o < FileSize /\ cpc' = "data" /\ seq' = s /\ hdr' = Hdr(s, 0, {})
         /\ c2s' = Send(c2s, Pkt(hdr', Chunk(o, bytes_read')))
      \/ StartTeardown(s, c2s)
  BY DEF NextChunk
<1> HIDE DEF TypeInv
<1> QED
  BY <1>3, <1>4, <1>5

LEMMA ClientTyped == TypeInv /\ Client => TypeInv'
<1> SUFFICES ASSUME TypeInv, Client PROVE TypeInv'
  OBVIOUS
<1> USE DEF TypeInv, TypeOK
<1>1. CASE SendSyn
  <2>1. hdr' \in Header
    BY <1>1, MakesHeader, ZeroInRange DEF SendSyn, Flag
  <2>2. c2s' \in Seq(Packet)
    BY <1>1, <2>1, MakesPacket, MakesBody, SendAdds DEF SendSyn
  <2> QED
    BY <1>1, <2>1, <2>2 DEF SendSyn, serverVars, ClientPc
<1>2. ASSUME NEW p \in InFlight(s2c), RecvSynAck(p) PROVE TypeInv'
  <2> DEFINE s     == Wrap(client_seq + 1)
             ack   == Pkt(Hdr(s, Wrap(p.hdr.seq + 1), {"ACK"}), NoBody)
             acked == Send(c2s, ack)
             name  == [src |-> "name", off |-> 0, len |-> NameLen]
  <2>1. s2c' \in Seq(Packet) /\ p \in Packet
    BY <1>2, ReceiveTakes DEF RecvSynAck, ClientReceives
  <2>2. s \in SeqNum /\ Wrap(p.hdr.seq + 1) \in SeqNum
    BY <2>1, WrapSum, PacketParts
  <2>3. ack \in Packet
    BY <2>2, MakesHeader, MakesBody, MakesPacket DEF Flag
  <2>4. acked \in Seq(Packet)
    BY <2>3, SendAdds
  <2>5. name \in Body
    BY ShamFileAssumption DEF Body
  <2> HIDE DEF s, ack, acked, name
  <2>6. UNCHANGED <<client_seq, pos, bytes_read, serverVars>>
    BY <1>2 DEF RecvSynAck
  <2>7. CASE /\ seq' = s /\ hdr' = Hdr(s, 0, {"NAME"})
             /\ c2s' = Send(acked, Pkt(hdr', name))
             /\ rcvtimeo' = TRUE /\ cpc' = "name"
    <3>1. hdr' \in Header
      BY <2>2, <2>7, MakesHeader, ZeroInRange DEF Flag
    <3>2. c2s' \in Seq(Packet)
      BY <2>4, <2>5, <2>7, <3>1, MakesPacket, SendAdds
    <3> QED
      BY <2>1, <2>2, <2>6, <2>7, <3>1, <3>2 DEF serverVars, ClientPc
  <2>8. CASE StartTeardown(s, acked) /\ UNCHANGED rcvtimeo
    <3>1. hdr' \in Header
      BY <2>2, <2>8, MakesHeader, ZeroInRange DEF Flag, StartTeardown
    <3>2. c2s' \in Seq(Packet)
      BY <2>4, <2>8, <3>1, MakesPacket, MakesBody, SendAdds DEF StartTeardown
    <3> QED
      BY <2>1, <2>2, <2>6, <2>8, <3>1, <3>2
         DEF StartTeardown, serverVars, ClientPc
  <2>9. \/ /\ seq' = s /\ hdr' = Hdr(s, 0, {"NAME"})
           /\ c2s' = Send(acked, Pkt(hdr', name))
           /\ rcvtimeo' = TRUE /\ cpc' = "name"
        \/ StartTeardown(s, acked) /\ UNCHANGED rcvtimeo
    BY <1>2 DEF RecvSynAck, s, ack, acked, name
  <2> HIDE DEF TypeInv
  <2> QED
    BY <2>7, <2>8, <2>9
<1>3. CASE NameWaitEnds
  <2>1. s2c' \in Seq(Packet)
    BY <1>3, ReceiveTakes DEF NameWaitEnds, ClientReceives, ClientTimesOut
  <2>2. Wrap(seq + NameLen) \in SeqNum
    BY WrapSum, ShamFileAssumption
  <2> HIDE DEF TypeInv
  <2>3. NextChunk(pos, Wrap(seq + NameLen)) /\ UNCHANGED serverVars
    BY <1>3 DEF NameWaitEnds
  <2>4. pos \in 0 .. FileSize
    BY DEF TypeInv
  <2> QED
    BY <2>1, <2>2, <2>3, <2>4, NextChunkTyped
<1>4. ASSUME NEW p \in InFlight(s2c), RecvDataAck(p) PROVE TypeInv'
  <2>1. s2c' \in Seq(Packet)
    BY <1>4, ReceiveTakes DEF RecvDataAck, ClientReceives
  <2>2. Wrap(seq + bytes_read) \in SeqNum
    BY WrapSum, ShamFileAssumption
  <2>3. pos + bytes_read \in 0 .. FileSize
    BY ShamFileAssumption
  <2> HIDE DEF TypeInv
  <2>4. NextChunk(pos + bytes_read, Wrap(seq + bytes_read)) /\ UNCHANGED serverVars
    BY <1>4 DEF RecvDataAck
  <2> QED
    BY <2>1, <2>2, <2>3, <2>4, NextChunkTyped
<1>5. ASSUME Retransmit, hdr' \in Header, s2c' \in Seq(Packet) PROVE TypeInv'
  <2>1. Pkt(hdr', Chunk(pos, bytes_read)) \in Packet
    BY <1>5, MakesPacket, MakesBody, ShamFileAssumption
  <2>2. c2s' \in Seq(Packet)
    BY <1>5, <2>1, SendAdds DEF Retransmit
  <2> QED
    BY <1>5, <2>2 DEF Retransmit, serverVars
<1>6. ASSUME NEW p \in InFlight(s2c), RecvWrongAck(p) PROVE TypeInv'
  <2>1. s2c' \in Seq(Packet) /\ p \in Packet
    BY <1>6, ReceiveTakes DEF RecvWrongAck, ClientReceives
  <2>2. hdr' \in Header
    BY <1>6, <2>1, PacketParts DEF RecvWrongAck
  <2> QED
    BY <1>5, <1>6, <2>1, <2>2 DEF RecvWrongAck
<1>7. CASE DataTimeout
  BY <1>5, <1>7 DEF DataTimeout, ClientTimesOut
<1>8. ASSUME TeardownReceives
      PROVE  s2c' \in Seq(Packet) /\ hdr' \in Header
  <2>1. CASE ClientTimesOut /\ hdr' = hdr
    BY <2>1 DEF ClientTimesOut
  <2>2. ASSUME NEW p \in InFlight(s2c), ClientReceives(p), hdr' = p.hdr
        PROVE  s2c' \in Seq(Packet) /\ hdr' \in Header
    <3>1. s2c' \in Seq(Packet) /\ p \in Packet
      BY <2>2, ReceiveTakes DEF ClientReceives
    <3> QED
      BY <2>2, <3>1, PacketParts
  <2> QED
    BY <1>8, <2>1, <2>2 DEF TeardownReceives
<1>9. CASE RecvFinAck
  BY <1>8, <1>9 DEF RecvFinAck, serverVars, ClientPc
<1>10. CASE RecvFin
  <2> DEFINE lastAck == Hdr(Wrap(seq + 1), Wrap(hdr'.seq + 1), {"ACK"})
  <2>1. s2c' \in Seq(Packet) /\ hdr' \in Header
    BY <1>8, <1>10 DEF RecvFin
  <2>2. lastAck \in Header
    <3>1. hdr'.seq \in SeqNum
      BY <2>1 DEF Header
    <3>2. Wrap(seq + 1) \in SeqNum /\ Wrap(hdr'.seq + 1) \in SeqNum
      BY <3>1, WrapSum
    <3> QED
      BY <3>2, MakesHeader DEF Flag
  <2>3. c2s' \in Seq(Packet)
    BY <1>10, <2>2, MakesPacket, MakesBody, SendAdds DEF RecvFin
  <2> QED
    BY <1>10, <2>1, <2>3 DEF RecvFin, serverVars, ClientPc
<1> HIDE DEF TypeInv
<1> QED
  BY <1>1, <1>2, <1>3, <1>4, <1>6, <1>7, <1>9, <1>10 DEF Client

LEMMA ServerTyped == TypeInv /\ Server => TypeInv'
<1> SUFFICES ASSUME TypeInv, NEW p \in InFlight(c2s),
                    Handles(p) \/ DropData(p)
             PROVE  TypeInv'
  BY DEF Server
<1> USE DEF TypeInv, TypeOK
<1>1. p \in Packet /\ c2s' \in Seq(Packet)
  BY ReceiveTakes DEF Handles, DropData, RecvSyn, RecvSynAckAck, RecvName,
                      RecvData, RecvClientFin, RecvLastAck, ServerReceives
<1>2. /\ p.hdr.seq \in SeqNum
      /\ p.body \in Body /\ p.body.len \in Nat
  BY <1>1, PacketParts
<1>3. ASSUME NEW q \in Seq(Packet), NEW h \in Header
      PROVE  Send(q, Pkt(h, NoBody)) \in Seq(Packet)
  BY MakesPacket, MakesBody, SendAdds
<1>4. ASSUME NEW q \in Seq(Packet), NEW n \in SeqNum
      PROVE  TeardownSends(q, n) \in Seq(Packet)
  <2> DEFINE s == Wrap(server_seq + 1)
             a == Wrap(n + 1)
  <2>1. s \in SeqNum /\ a \in SeqNum
    BY WrapSum
  <2>2. Hdr(s, a, {"ACK"}) \in Header /\ Hdr(s, 0, {"FIN"}) \in Header
    BY <2>1, MakesHeader, ZeroInRange DEF Flag
  <2> QED
    BY <1>3, <2>2 DEF TeardownSends
<1>5. CASE RecvSyn(p)
  <2>1. Wrap(p.hdr.seq + 1) \in SeqNum
    BY <1>2, WrapSum
  <2>2. Hdr(server_seq, Wrap(p.hdr.seq + 1), {"SYN", "ACK"}) \in Header
    BY <2>1, MakesHeader DEF Flag
  <2> QED
    BY <1>1, <1>3, <1>5, <2>1, <2>2 DEF RecvSyn, clientVars, ServerPc
<1>6. CASE RecvSynAckAck(p)
  BY <1>1, <1>6 DEF RecvSynAckAck, clientVars, ServerPc
<1>7. CASE RecvName(p)
  <2> DEFINE ack     == Pkt(Hdr(0, expected', {"ACK"}), NoBody)
             answers == IF named' THEN Send(s2c, ack) ELSE s2c
  <2>1. named' \in BOOLEAN
    BY <1>7 DEF RecvName
  <2>2. expected' \in SeqNum
    BY <1>2, <1>7, WrapSum DEF RecvName
  <2>3. Hdr(0, expected', {"ACK"}) \in Header
    BY <2>2, MakesHeader, ZeroInRange DEF Flag
  <2>4. answers \in Seq(Packet)
    BY <1>3, <2>3
  <2> HIDE DEF answers
  <2>5. s2c' = answers \/ s2c' = TeardownSends(answers, 0)
    BY <1>7 DEF RecvName, answers
  <2>6. s2c' \in Seq(Packet)
    BY <1>4, <2>4, <2>5, ZeroInRange
  <2>7. spc' \in ServerPc /\ UNCHANGED <<server_seq, out, clientVars>>
    BY <1>7 DEF RecvName, ServerPc
  <2> QED
    BY <1>1, <2>1, <2>2, <2>6, <2>7 DEF clientVars
<1>8. CASE RecvData(p)
  <2>1. out' \in Seq(Body)
    <3>1. Written(p.body) \in Seq(Body)
      BY <1>2 DEF Written
    <3>2. out' = Written(p.body) \/ out' = out
      BY <1>8 DEF RecvData
    <3> QED
      BY <3>1, <3>2
  <2>2. expected' \in SeqNum
    BY <1>2, <1>8, WrapSum DEF RecvData
  <2>3. Hdr(0, expected', {"ACK"}) \in Header
    BY <2>2, MakesHeader, ZeroInRange DEF Flag
  <2>4. s2c' \in Seq(Packet)
    BY <1>3, <1>8, <2>3 DEF RecvData
  <2> QED
    BY <1>1, <1>8, <2>1, <2>2, <2>4 DEF RecvData, clientVars
<1>9. CASE DropData(p)
  BY <1>1, <1>9 DEF DropData, serverVars, clientVars
<1>10. CASE RecvClientFin(p)
  BY <1>1, <1>2, <1>4, <1>10 DEF RecvClientFin, clientVars, ServerPc
<1>11. CASE RecvLastAck(p)
  BY <1>1, <1>11 DEF RecvLastAck, clientVars, ServerPc
<1> HIDE DEF TypeInv
<1> QED
  BY <1>5, <1>6, <1>7, <1>8, <1>9, <1>10, <1>11 DEF Handles

LEMMA LoseTyped == TypeInv /\ Lose => TypeInv'
<1> SUFFICES ASSUME TypeInv, Lose PROVE TypeInv'
  OBVIOUS
<1>1. c2s' \in Seq(Packet) /\ s2c' \in Seq(Packet)
  BY RemoveAtLeaves DEF Lose, TypeInv, TypeOK
<1> QED
  BY <1>1 DEF Lose, TypeInv, TypeOK, clientVars, serverVars

LEMMA TypeInvHolds == Spec => []TypeInv
<1>1. TypeInv /\ [Next]_vars => TypeInv'
  <2> SUFFICES ASSUME TypeInv, [Next]_vars PROVE TypeInv'
    OBVIOUS
  <2>1. CASE UNCHANGED vars
    BY <2>1 DEF vars, TypeInv, TypeOK
  <2> QED
    BY <2>1, ClientTyped, ServerTyped, LoseTyped DEF Next
<1> QED
  BY <1>1, InitTyped, PTL DEF Spec

(* Every variable of a transfer keeps its type, sequence numbers that wrap *)
(* around included: client.c and server.c never read past their file or    *)
(* number a byte outside 32 bits, whatever the network does.               *)
THEOREM TransferTyped == Spec => []TypeOK
<1>1. TypeInv => TypeOK
  BY DEF TypeInv
<1> QED
  BY <1>1, TypeInvHolds, PTL

-----------------------------------------------------------------------------
(* The numbers the client gives to its bytes do not wrap, and none of them *)
(* is 0 or the server's own number: the two that a retransmission may      *)
(* carry by mistake.                                                       *)
LEMMA Numbering ==
  ASSUME TypeOK, Isns
  PROVE  /\ client_seq \in Nat /\ Base \in Nat
         /\ client_seq + 1 < Base /\ 1 < Base
         /\ 1 \in SeqNum
         /\ client_seq + 1 \in SeqNum /\ client_seq + 1 # server_seq
         /\ \A n \in 0 .. FileSize :
              /\ Base + n \in SeqNum
              /\ Base + n # 0 /\ Base + n # server_seq
<1>1. client_seq \in Nat /\ SeqSpace \in Nat /\ NameLen \in Nat \ {0} /\ FileSize \in Nat
  BY SeqNumIsNat, ShamAssumption, ShamFileAssumption DEF TypeOK
<1>2. /\ client_seq + 1 + NameLen + FileSize + 1 < SeqSpace
      /\ server_seq \notin client_seq + 1 .. client_seq + 1 + NameLen + FileSize
  BY NoWrapAssumption DEF Isns
<1> QED
  BY <1>1, <1>2 DEF Base, SeqNum

LEMMA FileEndIsNat ==
  ASSUME NEW w \in Seq(Body)
  PROVE  FileEnd(w) \in Nat
<1>1. CASE w # <<>>
  <2>1. Last(w) \in Body
    BY <1>1 DEF Last
  <2> QED
    BY <2>1 DEF FileEnd, Body
<1> QED
  BY <1>1 DEF FileEnd

LEMMA FileEndOfAppend ==
  ASSUME NEW w \in Seq(Body), NEW b \in Body
  PROVE  FileEnd(Append(w, b)) = IF b.src = "file" THEN b.off + b.len ELSE 0
<1>1. Last(Append(w, b)) = b /\ Append(w, b) # <<>>
  BY DEF Last
<1> QED
  BY <1>1 DEF FileEnd

(* A write that starts where the copy ends keeps it a prefix of the file.  *)
LEMMA AppendKeepsPrefix ==
  ASSUME TypeOK, CopyIsPrefix, NEW b \in Body,
         \/ b.src = "file" /\ b.off = FileEnd(out)
         \/ b.src = "name" /\ out = <<>> /\ ~named,
         out' = Append(out, b), named' = named
  PROVE  CopyIsPrefix'
<1>1. out \in Seq(Body)
  BY DEF TypeOK
<1> SUFFICES ASSUME NEW i \in 1 .. Len(out')
             PROVE  \/ /\ out'[i].src = "file"
                       /\ out'[i].off = FileEnd(SubSeq(out', 1, i - 1))
                    \/ i = 1 /\ out'[i].src = "name" /\ ~named'
  BY DEF CopyIsPrefix
<1>2. CASE i <= Len(out)
  <2>1. out'[i] = out[i] /\ i \in 1 .. Len(out)
    BY <1>1, <1>2
  <2>2. SubSeq(out', 1, i - 1) = SubSeq(out, 1, i - 1)
    BY <1>1, <1>2
  <2> QED
    BY <2>1, <2>2 DEF CopyIsPrefix
<1>3. CASE i = Len(out) + 1
  <2>1. out'[i] = b
    BY <1>1, <1>3
  <2>2. SubSeq(out', 1, i - 1) = out
    BY <1>1, <1>3
  <2>3. out = <<>> => i = 1
    BY <1>3
  <2> QED
    BY <2>1, <2>2, <2>3
<1> QED
  BY <1>1, <1>2, <1>3

-----------------------------------------------------------------------------
(* What stays true of a datagram in flight.                                *)

LEMMA FromClientStays ==
  ASSUME NEW p \in Packet, FromClient(p), TypeOK, TypeOK',
         UNCHANGED <<client_seq, server_seq>>,
         cpc' = "synack" => cpc = "synack",
         ClientLeft => ClientLeft',
         ServerLeft => ServerLeft',
         \/ pos' >= pos + bytes_read
         \/ pos' = pos /\ bytes_read' = bytes_read,
         ClientLeft' /\ pos' # FileSize =>
           p.body = NoBody \/ (ClientLeft /\ pos # FileSize)
  PROVE  FromClient(p)'
<1>1. /\ pos \in Nat /\ pos' \in Nat /\ bytes_read \in Nat /\ bytes_read' \in Nat
      /\ p.body.off \in Nat /\ p.body.len \in Nat
  BY PacketParts, ShamFileAssumption DEF TypeOK
<1>2. Base' = Base
  BY DEF Base
<1>3. ASSUME p.body.len > 0,
             \/ p.body.off + p.body.len <= pos
             \/ p.body.off = pos /\ p.body.len = bytes_read
      PROVE  \/ p.body.off + p.body.len <= pos'
             \/ p.body.off = pos' /\ p.body.len = bytes_read'
  BY <1>1, <1>3
<1> HIDE DEF ClientLeft, ServerLeft
<1>4. CASE p.body = NoBody
  BY <1>4 DEF FromClient
<1>5. CASE p.body = [src |-> "name", off |-> 0, len |-> NameLen]
  BY <1>5, ShamFileAssumption DEF FromClient, NoBody
<1>6. CASE p.body.src = "file"
  BY <1>2, <1>3, <1>6 DEF FromClient, NoBody
<1> QED
  BY <1>4, <1>5, <1>6 DEF FromClient

LEMMA FromServerStays ==
  ASSUME NEW p \in Packet, FromServer(p), TypeOK, TypeOK', Isns,
         UNCHANGED <<client_seq, server_seq>>,
         ClientLeft => ClientLeft',
         ServerLeft => ServerLeft',
         Copied' >= Copied
  PROVE  FromServer(p)'
<1>1. /\ p.hdr.ack \in Nat /\ Base \in Nat
      /\ Copied \in Nat /\ Copied' \in Nat
  BY PacketParts, SeqNumIsNat, Numbering, FileEndIsNat DEF Copied, TypeOK
<1>2. Base' = Base
  BY DEF Base
<1>3. p.hdr.ack <= Base + Copied => p.hdr.ack <= Base + Copied'
  BY <1>1
<1> HIDE DEF ClientLeft, ServerLeft
<1> QED
  BY <1>2, <1>3 DEF FromServer

LEMMA InFlightTyped ==
  ASSUME NEW q \in Seq(Packet), NEW p \in InFlight(q)
  PROVE  p \in Packet
BY DEF InFlight

LEMMA SentInFlight ==
  ASSUME NEW q \in Seq(Packet), NEW p
  PROVE  InFlight(Send(q, p)) \subseteq InFlight(q) \cup {p}
BY DEF Send, InFlight

LEMMA SentTwiceInFlight ==
  ASSUME NEW q \in Seq(Packet), NEW p, NEW r
  PROVE  InFlight(Send(Send(q, p), r)) \subseteq InFlight(q) \cup {p, r}
<1> DEFINE S == Packet \cup {p}
           t == Send(q, p)
<1>1. q \in Seq(S)
  OBVIOUS
<1>2. t \in Seq(S) /\ InFlight(t) \subseteq InFlight(q) \cup {p}
  BY <1>1, SendAdds
<1> HIDE DEF t
<1>3. InFlight(Send(t, r)) \subseteq InFlight(t) \cup {r}
  BY <1>2 DEF Send, InFlight
<1> QED
  BY <1>2, <1>3 DEF t

(* Steps of the client leave the server's part of the invariant alone.     *)
LEMMA ClientLeavesServer ==
  ASSUME TransferInv, TypeOK', UNCHANGED serverVars, UNCHANGED client_seq,
         spc # "listen" \/ (s2c' = s2c /\ cpc' = "synack"),
         ClientLeft => ClientLeft',
         s2c' \in Seq(Packet), InFlight(s2c') \subseteq InFlight(s2c)
  PROVE  /\ Isns' /\ ServerState' /\ CopyIsPrefix'
         /\ \A p \in InFlight(s2c') : FromServer(p)'
<1> USE DEF serverVars
<1>1. Isns' /\ CopyIsPrefix'
  BY DEF TransferInv, Isns, CopyIsPrefix
<1>2. ServerState'
  BY DEF TransferInv, ServerState, Synced, Base, Copied
<1>3. ASSUME NEW p \in InFlight(s2c') PROVE FromServer(p)'
  <2>1. p \in Packet /\ FromServer(p)
    BY <1>3, InFlightTyped DEF TransferInv, TypeOK
  <2>2. Copied' = Copied /\ Copied \in Nat
    BY FileEndIsNat DEF Copied, TransferInv, TypeOK
  <2>3. ServerLeft => ServerLeft'
    BY DEF ServerLeft
  <2> QED
    BY <2>1, <2>2, <2>3, FromServerStays DEF TransferInv
<1> QED
  BY <1>1, <1>2, <1>3

(* Steps of the server leave the client's part of it alone.                *)
LEMMA ServerLeavesClient ==
  ASSUME TransferInv, TypeOK', UNCHANGED clientVars, UNCHANGED server_seq,
         cpc # "start",
         named' => cpc # "synack" /\ ~(ClientLeft /\ pos # FileSize),
         ServerLeft => ServerLeft',
         InFlight(c2s') \subseteq InFlight(c2s)
  PROVE  /\ Isns' /\ ClientState'
         /\ \A p \in InFlight(c2s') : FromClient(p)'
<1> USE DEF clientVars
<1>1. Isns'
  BY DEF TransferInv, Isns
<1>2. ClientState'
  BY DEF TransferInv, ClientState, ClientLeft, Base, ChunkLen
<1>3. ASSUME NEW p \in InFlight(c2s') PROVE FromClient(p)'
  <2>1. p \in Packet /\ FromClient(p)
    BY <1>3, InFlightTyped DEF TransferInv, TypeOK
  <2>2. ClientLeft' <=> ClientLeft
    BY DEF ClientLeft
  <2> QED
    BY <2>1, <2>2, FromClientStays DEF TransferInv
<1> QED
  BY <1>1, <1>2, <1>3

-----------------------------------------------------------------------------
(* The client's steps.                                                     *)

(* Whoever has something to receive from the server has seen it started.   *)
LEMMA ClientHeard ==
  ASSUME TransferInv, NEW p \in InFlight(s2c)
  PROVE  spc # "listen" /\ p \in Packet /\ FromServer(p)
BY DEF TransferInv, TypeOK, ServerState, InFlight

LEMMA ClientTakes ==
  ASSUME TypeOK, NEW p, ClientReceives(p)
  PROVE  /\ s2c' \in Seq(Packet)
         /\ InFlight(s2c') \subseteq InFlight(s2c)
BY ReceiveTakes DEF ClientReceives, TypeOK

LEMMA SendSynKeeps ==
  ASSUME TransferInv, TypeOK', SendSyn
  PROVE  TransferInv'
<1> DEFINE syn == Pkt(Hdr(client_seq, 0, {"SYN"}), NoBody)
<1>1. cpc = "start" /\ cpc' = "synack" /\ c2s = <<>>
  BY DEF SendSyn, TransferInv, ClientState
<1>2. UNCHANGED <<client_seq, seq, pos, bytes_read, rcvtimeo, s2c, serverVars>>
  BY DEF SendSyn
<1>3. /\ Isns' /\ ServerState' /\ CopyIsPrefix'
      /\ \A p \in InFlight(s2c') : FromServer(p)'
  BY <1>1, <1>2, ClientLeavesServer DEF ClientLeft, TransferInv, TypeOK
<1>4. ClientState'
  BY <1>1, <1>2 DEF TransferInv, ClientState, ClientLeft, serverVars
<1>5. Window'
  BY <1>2 DEF TransferInv, Window, Copied, serverVars
<1>6. ASSUME NEW p \in InFlight(c2s') PROVE FromClient(p)'
  <2>1. p = syn
    BY <1>1, <1>6 DEF SendSyn, Send, InFlight
  <2> QED
    BY <1>1, <1>2, <2>1 DEF FromClient, Pkt, Hdr, NoBody
<1> QED
  BY <1>3, <1>4, <1>5, <1>6 DEF TransferInv

LEMMA RecvSynAckKeeps ==
  ASSUME TransferInv, TypeOK', NEW r \in InFlight(s2c), RecvSynAck(r)
  PROVE  TransferInv'
<1> DEFINE s     == Wrap(client_seq + 1)
           ack   == Pkt(Hdr(s, Wrap(r.hdr.seq + 1), {"ACK"}), NoBody)
           acked == Send(c2s, ack)
           nbody == [src |-> "name", off |-> 0, len |-> NameLen]
           name  == Pkt(Hdr(s, 0, {"NAME"}), nbody)
           fin   == Pkt(Hdr(s, 0, {"FIN"}), NoBody)
<1>1. /\ cpc = "synack" /\ ClientReceives(r)
      /\ UNCHANGED <<client_seq, pos, bytes_read, serverVars>>
      /\ \/ /\ cpc' = "name" /\ seq' = s
            /\ c2s' = Send(acked, name)
         \/ /\ cpc' = "finack" /\ c2s' = Send(acked, fin)
  BY DEF RecvSynAck, StartTeardown
<1>2. s = client_seq + 1
  BY Numbering, WrapSame DEF TransferInv
<1>3. /\ pos = 0 /\ bytes_read = 0 /\ ~named
      /\ \A p \in InFlight(c2s) : p = Pkt(Hdr(client_seq, 0, {"SYN"}), NoBody)
  BY <1>1 DEF TransferInv, ClientState, FromClient
<1>4. /\ InFlight(Send(acked, name)) \subseteq InFlight(c2s) \cup {ack, name}
      /\ InFlight(Send(acked, fin)) \subseteq InFlight(c2s) \cup {ack, fin}
  <2>1. c2s \in Seq(Packet)
    BY DEF TransferInv, TypeOK
  <2> QED
    BY <2>1, SentTwiceInFlight
<1> HIDE DEF s
<1>5. /\ Isns' /\ ServerState' /\ CopyIsPrefix'
      /\ \A p \in InFlight(s2c') : FromServer(p)'
  BY <1>1, ClientHeard, ClientTakes, ClientLeavesServer
     DEF ClientLeft, TransferInv
<1>6. ClientState'
  BY <1>1, <1>2, <1>3 DEF ClientState, ClientLeft, serverVars
<1>7. Window'
  BY <1>1 DEF TransferInv, Window, Copied, serverVars
<1>8. ASSUME NEW p \in InFlight(c2s') PROVE FromClient(p)'
  <2>1. cpc' # "synack"
    BY <1>1
  <2>2. CASE p.body = NoBody /\ p.hdr.flags \in {{"SYN"}, {"ACK"}}
    BY <2>1, <2>2 DEF FromClient
  <2>3. CASE p = fin /\ cpc' = "finack"
    BY <2>1, <2>3 DEF FromClient, ClientLeft, Pkt, Hdr
  <2>4. CASE p = name /\ cpc' = "name"
    BY <1>1, <1>2, <2>4 DEF FromClient, ClientLeft, Pkt, Hdr
  <2>5. p = ack => p.body = NoBody /\ p.hdr.flags = {"ACK"}
    BY DEF Pkt, Hdr
  <2>6. p \in InFlight(c2s) => p.body = NoBody /\ p.hdr.flags = {"SYN"}
    BY <1>3 DEF Pkt, Hdr
  <2> HIDE DEF ack, name, fin, acked
  <2> QED
    BY <1>1, <1>4, <1>8, <2>2, <2>3, <2>4, <2>5, <2>6
<1> QED
  BY <1>5, <1>6, <1>7, <1>8 DEF TransferInv

(* The head of the read loop, once everything before offset o is known to  *)
(* be in the copy.                                                         *)
LEMMA NextChunkKeeps ==
  ASSUME TransferInv, TypeOK', cpc \in {"name", "data"},
         NEW o \in 0 .. FileSize, o = pos + bytes_read, Copied = o,
         NextChunk(o, Base + o), UNCHANGED serverVars, spc # "listen",
         s2c' \in Seq(Packet), InFlight(s2c') \subseteq InFlight(s2c)
  PROVE  TransferInv'
<1> DEFINE data == Pkt(Hdr(Base + o, 0, {}), Chunk(o, bytes_read'))
           fin  == Pkt(Hdr(Base + o, 0, {"FIN"}), NoBody)
<1>1. /\ pos' = o /\ bytes_read' = ChunkLen(o)
      /\ UNCHANGED <<client_seq, server_seq, spc, out, named>>
      /\ \/ /\ o < FileSize /\ cpc' = "data" /\ seq' = Base + o
            /\ hdr' = Hdr(Base + o, 0, {})
            /\ c2s' = Send(c2s, data)
         \/ /\ o = FileSize /\ cpc' = "finack" /\ c2s' = Send(c2s, fin)
  BY DEF NextChunk, StartTeardown, serverVars
<1>2. /\ o \in Nat /\ FileSize \in Nat /\ bytes_read' \in Nat
      /\ o < FileSize <=> bytes_read' > 0
  BY <1>1, ChunkLenBounds, ShamFileAssumption
<1>3. ~ClientLeft
  BY DEF ClientLeft
<1>4. /\ Isns' /\ ServerState' /\ CopyIsPrefix'
      /\ \A p \in InFlight(s2c') : FromServer(p)'
  BY <1>1, <1>3, ClientLeavesServer
<1>5. Base' = Base
  BY <1>1 DEF Base
<1>6. ClientState'
  BY <1>1, <1>2, <1>5 DEF ClientState, ClientLeft, Hdr
<1>7. Window'
  BY <1>1 DEF Window, Copied
<1>8. \/ cpc' = "data" /\ InFlight(c2s') \subseteq InFlight(c2s) \cup {data}
      \/ cpc' = "finack" /\ InFlight(c2s') \subseteq InFlight(c2s) \cup {fin}
  <2> HIDE DEF data, fin
  <2> QED
    BY <1>1, SentInFlight DEF TransferInv, TypeOK
<1>9. ASSUME NEW p \in InFlight(c2s') PROVE FromClient(p)'
  <2>1. CASE p \in InFlight(c2s)
    <3>1. p \in Packet /\ FromClient(p)
      BY <2>1, InFlightTyped DEF TransferInv, TypeOK
    <3>2. ServerLeft => ServerLeft'
      BY <1>1 DEF ServerLeft
    <3>3. cpc' # "synack" /\ ~(ClientLeft' /\ pos' # FileSize)
      BY <1>1 DEF ClientLeft
    <3>4. pos' >= pos + bytes_read
      BY <1>1, <1>2
    <3> QED
      BY <1>1, <1>3, <3>1, <3>2, <3>3, <3>4, FromClientStays DEF TransferInv
  <2>2. CASE p = data /\ cpc' = "data"
    BY <1>1, <1>2, <1>5, <2>2 DEF FromClient, Pkt, Hdr, Chunk
  <2>3. CASE p = fin /\ cpc' = "finack"
    BY <2>3 DEF FromClient, ClientLeft, Pkt, Hdr
  <2> QED
    BY <1>1, <1>8, <1>9, <2>1, <2>2, <2>3
<1> QED
  BY <1>4, <1>6, <1>7, <1>9 DEF TransferInv

LEMMA NameWaitEndsKeeps ==
  ASSUME TransferInv, TypeOK', NameWaitEnds
  PROVE  TransferInv'
<1>1. /\ s2c' \in Seq(Packet) /\ InFlight(s2c') \subseteq InFlight(s2c)
      /\ spc # "listen"
  <2>1. CASE ClientTimesOut
    BY <2>1 DEF NameWaitEnds, ClientTimesOut, TransferInv, TypeOK, ServerState
  <2>2. ASSUME NEW p \in InFlight(s2c), ClientReceives(p)
        PROVE  /\ s2c' \in Seq(Packet) /\ InFlight(s2c') \subseteq InFlight(s2c)
               /\ spc # "listen"
    BY <2>2, ClientTakes, ClientHeard DEF TransferInv
  <2> QED
    BY <2>1, <2>2, ClientHeard DEF NameWaitEnds
<1>2. pos = 0 /\ bytes_read = 0 /\ Copied = 0 /\ cpc = "name"
  BY DEF NameWaitEnds, TransferInv, ClientState, Window
<1>3. Wrap(seq + NameLen) = Base + 0
  <2>1. seq + NameLen = Base + 0 /\ Base + 0 \in SeqNum
    BY <1>2, Numbering, ShamFileAssumption DEF TransferInv, ClientState, Base
  <2> QED
    BY <2>1, WrapSame
<1> QED
  BY <1>1, <1>2, <1>3, NextChunkKeeps, ShamFileAssumption DEF NameWaitEnds

(* client.c:133: an ACK that the client takes for its chunk was sent by a  *)
(* server that had written it.                                             *)
LEMMA AckOfChunkMeansCopied ==
  ASSUME TransferInv, TypeInv, cpc = "data",
         NEW r \in InFlight(s2c), IsAckOfChunk(r)
  PROVE  /\ Copied = pos + bytes_read
         /\ pos + bytes_read \in 0 .. FileSize
         /\ Wrap(seq + bytes_read) = Base + (pos + bytes_read)
<1>1. /\ pos \in Nat /\ bytes_read \in Nat /\ pos + bytes_read <= FileSize
      /\ bytes_read > 0 /\ seq = Base + pos
  BY ChunkLenBounds, ShamFileAssumption DEF TypeInv, TypeOK, TransferInv, ClientState
<1>2. pos + bytes_read \in 0 .. FileSize
  BY <1>1, ShamFileAssumption
<1>3. Base \in Nat /\ Base + (pos + bytes_read) \in SeqNum
  BY <1>2, Numbering DEF TransferInv
<1>4. Wrap(seq + bytes_read) = Base + (pos + bytes_read)
  <2>1. seq + bytes_read = Base + (pos + bytes_read)
    BY <1>1, <1>3
  <2> QED
    BY <1>3, <2>1, WrapSame
<1>5. r.hdr.ack = Base + (pos + bytes_read) /\ r.hdr.ack <= Base + Copied
  BY <1>4, ClientHeard DEF IsAckOfChunk, FromServer, ClientLeft
<1>6. Copied \in {pos, pos + bytes_read}
  BY DEF TransferInv, Window
<1>7. Copied = pos + bytes_read
  BY <1>1, <1>3, <1>5, <1>6
<1> QED
  BY <1>2, <1>4, <1>7

LEMMA RecvDataAckKeeps ==
  ASSUME TransferInv, TypeInv, TypeOK', NEW r \in InFlight(s2c), RecvDataAck(r)
  PROVE  TransferInv'
<1>1. cpc = "data" /\ IsAckOfChunk(r) /\ ClientReceives(r)
      /\ NextChunk(pos + bytes_read, Wrap(seq + bytes_read))
      /\ UNCHANGED serverVars
  BY DEF RecvDataAck
<1>2. /\ s2c' \in Seq(Packet) /\ InFlight(s2c') \subseteq InFlight(s2c)
      /\ spc # "listen"
  BY <1>1, ClientTakes, ClientHeard DEF TransferInv
<1> QED
  BY <1>1, <1>2, AckOfChunkMeansCopied, NextChunkKeeps

(* A retransmission is one of the chunk, whatever header is in front.      *)
LEMMA RetransmitKeeps ==
  ASSUME TransferInv, TypeInv, TypeOK', cpc = "data", Retransmit,
         "NAME" \notin hdr'.flags,
         "FIN" \in hdr'.flags => ServerLeft,
         hdr'.seq \in {Base + pos, 0, server_seq} \/ ServerLeft,
         s2c' \in Seq(Packet), InFlight(s2c') \subseteq InFlight(s2c)
  PROVE  TransferInv'
<1> DEFINE data == Pkt(hdr', Chunk(pos, bytes_read))
<1>1. /\ UNCHANGED <<cpc, client_seq, seq, pos, bytes_read, rcvtimeo>>
      /\ UNCHANGED <<spc, server_seq, expected, out, named>>
      /\ c2s' = Send(c2s, data)
  BY DEF Retransmit, serverVars
<1>2. spc # "listen"
  BY DEF TransferInv, ServerState
<1>3. /\ ClientLeft' <=> ClientLeft
      /\ ServerLeft' <=> ServerLeft
      /\ Base' = Base
  BY <1>1 DEF ClientLeft, ServerLeft, Base
<1>4. /\ Isns' /\ ServerState' /\ CopyIsPrefix'
      /\ \A p \in InFlight(s2c') : FromServer(p)'
  BY <1>1, <1>2, <1>3, ClientLeavesServer DEF serverVars
<1>5. bytes_read > 0 /\ pos \in Nat
  BY ChunkLenBounds, ShamFileAssumption DEF TransferInv, ClientState, TypeOK
<1>6. ClientState'
  BY <1>1, <1>3 DEF TransferInv, ClientState, ClientLeft, ServerLeft, ChunkLen
<1>7. Window'
  BY <1>1 DEF TransferInv, Window, Copied
<1>8. ASSUME NEW p \in InFlight(c2s') PROVE FromClient(p)'
  <2>1. CASE p \in InFlight(c2s)
    <3>1. p \in Packet /\ FromClient(p)
      BY <2>1, InFlightTyped DEF TransferInv, TypeOK
    <3> QED
      BY <1>1, <1>3, <3>1, FromClientStays DEF TransferInv
  <2>2. CASE p = data
    <3>1. /\ p.hdr = hdr' /\ p.body.src = "file"
          /\ p.body.off = pos /\ p.body.len = bytes_read
      BY <2>2 DEF Pkt, Chunk
    <3> QED
      BY <1>1, <1>3, <1>5, <3>1 DEF FromClient
  <2> HIDE DEF data
  <2>3. InFlight(c2s') \subseteq InFlight(c2s) \cup {data}
    BY <1>1, SentInFlight DEF TransferInv, TypeOK
  <2> QED
    BY <1>8, <2>1, <2>2, <2>3
<1> QED
  BY <1>4, <1>6, <1>7, <1>8 DEF TransferInv

LEMMA RecvWrongAckKeeps ==
  ASSUME TransferInv, TypeInv, TypeOK', NEW r \in InFlight(s2c), RecvWrongAck(r)
  PROVE  TransferInv'
<1>1. cpc = "data" /\ ClientReceives(r) /\ hdr' = r.hdr /\ Retransmit
  BY DEF RecvWrongAck
<1>2. /\ s2c' \in Seq(Packet) /\ InFlight(s2c') \subseteq InFlight(s2c)
  BY <1>1, ClientTakes DEF TransferInv
<1>3. /\ "NAME" \notin hdr'.flags
      /\ "FIN" \in hdr'.flags => ServerLeft
      /\ hdr'.seq \in {Base + pos, 0, server_seq} \/ ServerLeft
  BY <1>1, ClientHeard DEF FromServer
<1> QED
  BY <1>1, <1>2, <1>3, RetransmitKeeps

LEMMA DataTimeoutKeeps ==
  ASSUME TransferInv, TypeInv, TypeOK', DataTimeout
  PROVE  TransferInv'
<1>1. cpc = "data" /\ hdr' = hdr /\ Retransmit /\ s2c' = s2c
  BY DEF DataTimeout, ClientTimesOut
<1>2. /\ "NAME" \notin hdr'.flags
      /\ "FIN" \in hdr'.flags => ServerLeft
      /\ hdr'.seq \in {Base + pos, 0, server_seq} \/ ServerLeft
  BY <1>1 DEF TransferInv, ClientState
<1>3. s2c' \in Seq(Packet) /\ InFlight(s2c') \subseteq InFlight(s2c)
  BY <1>1 DEF TransferInv, TypeOK
<1> QED
  BY <1>1, <1>2, <1>3, RetransmitKeeps

(* The client's waits of the teardown.                                     *)
LEMMA TeardownKeeps ==
  ASSUME TransferInv, TypeOK', RecvFinAck \/ RecvFin
  PROVE  TransferInv'
<1>1. /\ cpc \in {"finack", "fin"} /\ cpc' \in {"fin", "closed"}
      /\ UNCHANGED <<client_seq, seq, pos, bytes_read, rcvtimeo>>
      /\ UNCHANGED serverVars
  BY DEF RecvFinAck, RecvFin
<1>2. ClientLeft /\ ClientLeft' /\ spc # "listen"
  BY <1>1 DEF ClientLeft, TransferInv, ServerState
<1>3. s2c' \in Seq(Packet) /\ InFlight(s2c') \subseteq InFlight(s2c)
  <2>1. CASE ClientTimesOut
    BY <2>1 DEF ClientTimesOut, TransferInv, TypeOK
  <2>2. ASSUME NEW p \in InFlight(s2c), ClientReceives(p)
        PROVE  s2c' \in Seq(Packet) /\ InFlight(s2c') \subseteq InFlight(s2c)
    BY <2>2, ClientTakes DEF TransferInv
  <2> QED
    BY <2>1, <2>2 DEF RecvFinAck, RecvFin, TeardownReceives
<1>4. /\ Isns' /\ ServerState' /\ CopyIsPrefix'
      /\ \A p \in InFlight(s2c') : FromServer(p)'
  BY <1>1, <1>2, <1>3, ClientLeavesServer
<1>5. ClientState'
  BY <1>1, <1>2 DEF TransferInv, ClientState, ClientLeft, serverVars
<1>6. Window'
  BY <1>1 DEF TransferInv, Window, Copied, serverVars
<1>7. ASSUME NEW p \in InFlight(c2s') PROVE FromClient(p)'
  <2> DEFINE lastAck == Hdr(Wrap(seq + 1), Wrap(hdr'.seq + 1), {"ACK"})
             last    == Pkt(lastAck, NoBody)
  <2>1. CASE p \in InFlight(c2s)
    <3>1. p \in Packet /\ FromClient(p)
      BY <2>1, InFlightTyped DEF TransferInv, TypeOK
    <3>2. ServerLeft => ServerLeft'
      BY <1>1 DEF ServerLeft, serverVars
    <3> QED
      BY <1>1, <1>2, <3>1, <3>2, FromClientStays DEF TransferInv, serverVars
  <2>2. CASE p = last
    <3>1. p.hdr.flags = {"ACK"} /\ p.body = NoBody /\ cpc' # "synack"
      BY <1>1, <2>2 DEF Pkt, Hdr
    <3> QED
      BY <3>1 DEF FromClient
  <2>3. c2s' = c2s \/ c2s' = Send(c2s, last)
    BY DEF RecvFinAck, RecvFin
  <2> HIDE DEF last
  <2>4. InFlight(c2s') \subseteq InFlight(c2s) \cup {last}
    BY <2>3, SentInFlight DEF TransferInv, TypeOK
  <2> QED
    BY <1>7, <2>1, <2>2, <2>4
<1> QED
  BY <1>4, <1>5, <1>6, <1>7 DEF TransferInv

-----------------------------------------------------------------------------
(* The server's steps.                                                     *)

LEMMA ServerHeard ==
  ASSUME TransferInv, NEW r \in InFlight(c2s), ServerReceives(r)
  PROVE  /\ r \in Packet /\ FromClient(r) /\ cpc # "start"
         /\ InFlight(c2s') \subseteq InFlight(c2s)
<1>1. r \in Packet /\ FromClient(r)
  BY InFlightTyped DEF TransferInv, TypeOK
<1>2. cpc # "start"
  BY DEF TransferInv, ClientState, InFlight
<1>3. InFlight(c2s') \subseteq InFlight(c2s)
  BY ReceiveTakes DEF ServerReceives, TransferInv, TypeOK
<1> QED
  BY <1>1, <1>2, <1>3

(* An answer that acknowledges no more than the copy holds.                *)
LEMMA AnswersKeep ==
  ASSUME TransferInv, TypeOK',
         UNCHANGED <<client_seq, server_seq, cpc>>,
         ServerLeft => ServerLeft', Copied' >= Copied,
         \A p \in InFlight(s2c') : p \in InFlight(s2c) \/ FromServer(p)'
  PROVE  \A p \in InFlight(s2c') : FromServer(p)'
<1> SUFFICES ASSUME NEW p \in InFlight(s2c), p \in InFlight(s2c')
             PROVE  FromServer(p)'
  OBVIOUS
<1>1. p \in Packet /\ FromServer(p)
  BY InFlightTyped DEF TransferInv, TypeOK
<1>2. ClientLeft => ClientLeft'
  BY DEF ClientLeft
<1> QED
  BY <1>1, <1>2, FromServerStays DEF TransferInv

(* The server's two datagrams of the teardown.                             *)
LEMMA TeardownInFlight ==
  ASSUME NEW q \in Seq(Packet), NEW n
  PROVE  \E ack, fin :
           /\ InFlight(TeardownSends(q, n)) \subseteq InFlight(q) \cup {ack, fin}
           /\ ack.hdr = Hdr(Wrap(server_seq + 1), Wrap(n + 1), {"ACK"})
           /\ fin.hdr.flags = {"FIN"}
<1> DEFINE ack == Pkt(Hdr(Wrap(server_seq + 1), Wrap(n + 1), {"ACK"}), NoBody)
           fin == Pkt(Hdr(Wrap(server_seq + 1), 0, {"FIN"}), NoBody)
<1>1. /\ ack.hdr = Hdr(Wrap(server_seq + 1), Wrap(n + 1), {"ACK"})
      /\ fin.hdr.flags = {"FIN"}
  BY DEF Pkt, Hdr
<1>2. TeardownSends(q, n) = Send(Send(q, ack), fin)
  BY DEF TeardownSends
<1> HIDE DEF ack, fin
<1>3. InFlight(Send(Send(q, ack), fin)) \subseteq InFlight(q) \cup {ack, fin}
  BY DEF Send, InFlight
<1> QED
  BY <1>1, <1>2, <1>3

LEMMA RecvSynKeeps ==
  ASSUME TransferInv, TypeOK', NEW r \in InFlight(c2s), RecvSyn(r)
  PROVE  TransferInv'
<1> DEFINE synAck == Pkt(Hdr(server_seq, Wrap(r.hdr.seq + 1), {"SYN", "ACK"}), NoBody)
<1>1. /\ spc = "listen" /\ spc' = "ack" /\ ServerReceives(r)
      /\ expected' = Wrap(r.hdr.seq + 1) /\ s2c' = Send(s2c, synAck)
      /\ UNCHANGED <<server_seq, out, named, clientVars>>
  BY DEF RecvSyn
<1>2. /\ s2c = <<>> /\ cpc = "synack" /\ ~Synced
  BY <1>1, ServerHeard DEF TransferInv, ServerState
<1>3. Wrap(r.hdr.seq + 1) = client_seq + 1
  <2>1. r.hdr.seq = client_seq
    BY <1>1, <1>2, ServerHeard DEF FromClient, Pkt, Hdr
  <2> QED
    BY <2>1, Numbering, WrapSame DEF TransferInv
<1>4. /\ Isns' /\ ClientState'
      /\ \A p \in InFlight(c2s') : FromClient(p)'
  <2>1. ~named'
    BY <1>1, <1>2 DEF Synced
  <2>2. ServerLeft => ServerLeft'
    BY <1>1 DEF ServerLeft
  <2> QED
    BY <1>1, <2>1, <2>2, ServerHeard, ServerLeavesClient
<1>5. ServerState'
  BY <1>1, <1>2, <1>3 DEF ServerState, Synced, clientVars
<1>6. Window' /\ CopyIsPrefix'
  BY <1>1 DEF TransferInv, Window, CopyIsPrefix, Copied, clientVars
<1>7. ASSUME NEW p \in InFlight(s2c') PROVE FromServer(p)'
  <2>1. p = synAck
    BY <1>1, <1>2, <1>7 DEF Send, InFlight
  <2>2. p.hdr = Hdr(server_seq, client_seq + 1, {"SYN", "ACK"})
    BY <1>3, <2>1 DEF Pkt
  <2>3. client_seq + 1 <= Base + Copied
    <3>1. Copied \in Nat
      BY FileEndIsNat DEF TransferInv, TypeOK, Copied
    <3> QED
      BY <3>1, Numbering DEF TransferInv
  <2>4. Base' = Base /\ Copied' = Copied
    BY <1>1 DEF Base, Copied, clientVars
  <2> QED
    BY <1>1, <2>2, <2>3, <2>4 DEF FromServer, Hdr
<1> QED
  BY <1>4, <1>5, <1>6, <1>7 DEF TransferInv

(* A step that takes a datagram and changes at most the server's place.    *)
LEMMA PlaceKeeps ==
  ASSUME TransferInv, TypeOK', NEW r \in InFlight(c2s), ServerReceives(r),
         UNCHANGED <<server_seq, expected, out, named, s2c, clientVars>>,
         spc # "listen", spc' # "listen", spc' # "ack",
         spc' = "name" => ~Synced, ServerLeft => ServerLeft'
  PROVE  TransferInv'
<1>1. named => cpc # "synack" /\ ~(ClientLeft /\ pos # FileSize)
  BY DEF TransferInv, ClientState
<1>2. /\ Isns' /\ ClientState'
      /\ \A p \in InFlight(c2s') : FromClient(p)'
  BY <1>1, ServerHeard, ServerLeavesClient
<1>3. ServerState'
  BY DEF TransferInv, ServerState, Synced, Copied, Base, clientVars
<1>4. Window' /\ CopyIsPrefix'
  BY DEF TransferInv, Window, CopyIsPrefix, Copied, clientVars
<1>5. \A p \in InFlight(s2c') : FromServer(p)'
  <2>1. Copied' >= Copied
    BY FileEndIsNat DEF TransferInv, TypeOK, Copied
  <2>2. UNCHANGED <<client_seq, cpc>>
    BY DEF clientVars
  <2> QED
    BY <2>1, <2>2, AnswersKeep
<1> QED
  BY <1>2, <1>3, <1>4, <1>5 DEF TransferInv

LEMMA RecvNameKeeps ==
  ASSUME TransferInv, TypeOK', NEW r \in InFlight(c2s), RecvName(r)
  PROVE  TransferInv'
<1> DEFINE isName  == "NAME" \in r.hdr.flags
           nameAck == Pkt(Hdr(0, expected', {"ACK"}), NoBody)
           answers == IF named' THEN Send(s2c, nameAck) ELSE s2c
<1>1. /\ spc = "name" /\ spc' \in {"data", "lastack"} /\ ServerReceives(r)
      /\ named' = isName
      /\ expected' = IF isName THEN Wrap(expected + r.body.len) ELSE expected
      /\ UNCHANGED <<server_seq, out, clientVars>>
      /\ \/ s2c' = answers
         \/ spc' = "lastack" /\ s2c' = TeardownSends(answers, 0)
  BY DEF RecvName
<1>2. ~Synced /\ ~named /\ out = <<>> /\ expected = client_seq + 1
  BY <1>1 DEF TransferInv, ServerState, Synced
<1>3. Copied = 0 /\ Copied' = 0 /\ Base' = Base
  BY <1>1, <1>2 DEF Copied, FileEnd, Base, clientVars
<1>4. isName => /\ r.body.len = NameLen
                /\ cpc # "synack" /\ ~(ClientLeft /\ pos # FileSize)
  BY <1>1, ServerHeard DEF FromClient, NoBody, Pkt, Hdr
<1>5. expected' = IF isName THEN Base + Copied' ELSE client_seq + 1
  <2>1. expected + NameLen = Base + 0 /\ Base + 0 \in SeqNum
    BY <1>2, Numbering, ShamFileAssumption DEF TransferInv, Base
  <2> QED
    BY <1>1, <1>2, <1>3, <1>4, <2>1, WrapSame
<1>6. /\ Isns' /\ ClientState'
      /\ \A p \in InFlight(c2s') : FromClient(p)'
  <2>1. ServerLeft => ServerLeft'
    BY <1>1 DEF ServerLeft
  <2> QED
    BY <1>1, <1>4, <2>1, ServerHeard, ServerLeavesClient
<1>7. ServerState'
  <2>1. /\ spc' \notin {"listen", "ack", "name"} /\ out' = <<>>
        /\ client_seq' = client_seq
    BY <1>1, <1>2 DEF clientVars
  <2>2. Synced' <=> isName
    BY <1>1, <2>1 DEF Synced
  <2> HIDE DEF isName
  <2> QED
    BY <1>3, <1>5, <2>1, <2>2 DEF ServerState
<1>8. Window' /\ CopyIsPrefix'
  <2>1. Window'
    BY <1>1, <1>3 DEF TransferInv, Window, clientVars
  <2> QED
    BY <1>1, <1>2, <2>1 DEF CopyIsPrefix
<1>9. nameAck.hdr.ack = expected' /\ nameAck.hdr.seq = 0 /\ nameAck.hdr.flags = {"ACK"}
  BY DEF Pkt, Hdr
<1>10. answers \in Seq(Packet) /\ InFlight(answers) \subseteq InFlight(s2c) \cup {nameAck}
  <2>1. s2c \in Seq(Packet) /\ named' \in BOOLEAN
    BY <1>1 DEF TransferInv, TypeOK
  <2>2. nameAck \in Packet
    BY MakesHeader, MakesPacket, MakesBody, ZeroInRange DEF TypeOK, Flag
  <2> HIDE DEF nameAck
  <2> QED
    BY <2>1, <2>2, SendAdds, SentInFlight
<1> HIDE DEF nameAck, answers, isName
<1>11. ASSUME NEW p, p = nameAck, named' PROVE FromServer(p)'
  <2>1. expected' <= Base + Copied'
    BY <1>1, <1>3, <1>5, <1>11, Numbering DEF TransferInv
  <2> QED
    BY <1>3, <1>9, <1>11, <2>1 DEF FromServer
<1>12. Wrap(0 + 1) = 1 /\ 1 <= Base + Copied'
  <2>1. Base \in Nat /\ 1 < Base /\ 1 \in SeqNum
    BY Numbering DEF TransferInv
  <2>2. Wrap(1) = 1
    BY <2>1, WrapSame
  <2>3. 1 <= Base + Copied'
    BY <1>3, <2>1
  <2>4. 0 + 1 = 1
    OBVIOUS
  <2> QED
    BY <2>2, <2>3, <2>4
<1>13. ASSUME NEW p \in InFlight(s2c')
       PROVE  p \in InFlight(s2c) \/ FromServer(p)'
  <2>1. p \in InFlight(answers) => p \in InFlight(s2c) \/ FromServer(p)'
    <3>1. CASE named'
      BY <1>10, <1>11, <3>1
    <3>2. CASE ~named'
      BY <3>2 DEF answers
    <3> QED
      BY <3>1, <3>2
  <2>2. CASE s2c' = TeardownSends(answers, 0) /\ spc' = "lastack"
    <3>1. PICK ack, fin :
            /\ InFlight(TeardownSends(answers, 0))
                 \subseteq InFlight(answers) \cup {ack, fin}
            /\ ack.hdr = Hdr(Wrap(server_seq + 1), Wrap(0 + 1), {"ACK"})
            /\ fin.hdr.flags = {"FIN"}
      <4>1. answers \in Seq(Packet)
        BY <1>10
      <4> QED
        BY <4>1, TeardownInFlight
    <3>2. ServerLeft'
      BY <2>2 DEF ServerLeft
    <3>3. FromServer(ack)' /\ FromServer(fin)'
      BY <1>3, <1>12, <3>1, <3>2 DEF FromServer, Hdr
    <3> QED
      BY <1>13, <2>1, <2>2, <3>1, <3>3
  <2> QED
    BY <1>1, <1>13, <2>1, <2>2
<1>14. \A p \in InFlight(s2c') : FromServer(p)'
  <2>1. UNCHANGED <<client_seq, server_seq, cpc>> /\ Copied' >= Copied
    BY <1>1, <1>3 DEF clientVars
  <2>2. ServerLeft => ServerLeft'
    BY <1>1 DEF ServerLeft
  <2> QED
    BY <1>13, <2>1, <2>2, AnswersKeep
<1> QED
  BY <1>6, <1>7, <1>8, <1>14 DEF TransferInv

(* server.c:153: a datagram whose number is the expected one is the chunk  *)
(* behind the copy, or the name when it was never taken, or carries        *)
(* nothing; so a write leaves a prefix of the file.                        *)
LEMMA WriteEffect ==
  ASSUME TransferInv, TypeInv, TypeOK', NEW r \in InFlight(c2s), RecvData(r)
  PROVE  /\ CopyIsPrefix' /\ Window'
         /\ \/ Copied' = Copied
            \/ cpc = "data" /\ Copied = pos /\ Copied' = pos + bytes_read
         /\ expected' = IF Synced' THEN Base + Copied' ELSE client_seq + 1
<1>1. /\ spc = "data" /\ ServerReceives(r)
      /\ UNCHANGED <<pos, bytes_read, named, client_seq>>
      /\ \/ r.hdr.seq = expected /\ out' = Written(r.body)
            /\ expected' = Wrap(expected + r.body.len)
         \/ UNCHANGED <<out, expected>>
  BY DEF RecvData, clientVars
<1>2. /\ expected = IF Synced THEN Base + Copied ELSE client_seq + 1
      /\ ~ServerLeft
  BY <1>1 DEF TransferInv, ServerState, ServerLeft
<1>3. r \in Packet /\ FromClient(r)
  BY <1>1, ServerHeard
<1>4. /\ pos \in Nat /\ bytes_read \in Nat /\ Copied \in 0 .. FileSize
      /\ Copied \in {pos, pos + bytes_read} /\ pos + bytes_read <= FileSize
      /\ r.body \in Body /\ r.body.off \in Nat /\ r.body.len \in Nat
  <2>1. pos \in 0 .. FileSize /\ bytes_read \in 0 .. PayloadSize
        /\ pos + bytes_read <= FileSize /\ Copied \in {pos, pos + bytes_read}
    BY DEF TransferInv, TypeInv, TypeOK, Window
  <2> QED
    BY <1>3, <2>1, PacketParts, ShamFileAssumption
<1>5. CASE UNCHANGED <<out, expected>>
  <2>1. Copied' = Copied /\ (Synced' <=> Synced)
    BY <1>1, <1>5 DEF Copied, Synced
  <2>2. CopyIsPrefix' /\ Window'
    BY <1>1, <1>5, <2>1 DEF TransferInv, CopyIsPrefix, Window
  <2> QED
    BY <1>2, <1>5, <2>1, <2>2
<1>6. CASE /\ r.hdr.seq = expected /\ out' = Written(r.body)
           /\ expected' = Wrap(expected + r.body.len)
  <2>1. CASE r.body = NoBody
    <3>1. out' = out /\ r.body.len = 0
      BY <1>6, <2>1 DEF Written, NoBody
    <3>2. expected' = expected
      <4>1. expected + 0 = expected /\ expected \in SeqNum
        BY SeqNumIsNat DEF TransferInv, TypeOK
      <4> QED
        BY <1>6, <3>1, <4>1, WrapSame
    <3> QED
      BY <1>5, <3>1, <3>2
  <2>2. CASE r.body = [src |-> "name", off |-> 0, len |-> NameLen]
    <3>1. expected = client_seq + 1 /\ r.body.src = "name" /\ r.body.len = NameLen
      BY <1>3, <1>6, <2>2 DEF FromClient, NoBody
    <3>2. ~Synced
      BY <1>2, <1>4, <3>1, Numbering DEF TransferInv
    <3>3. out' = Append(out, r.body) /\ out = <<>> /\ ~named /\ out \in Seq(Body)
      BY <1>6, <3>1, <3>2, ShamFileAssumption
         DEF Written, Synced, TransferInv, TypeOK
    <3>4. Copied' = 0 /\ Copied = 0
      BY <1>4, <3>1, <3>3, FileEndOfAppend DEF Copied, FileEnd
    <3>5. CopyIsPrefix'
      BY <1>1, <1>4, <3>1, <3>3, AppendKeepsPrefix DEF TransferInv
    <3>6. Window'
      BY <1>1, <1>4, <3>4 DEF Window
    <3>7. Synced'
      BY <3>3 DEF Synced
    <3>8. expected' = Base + 0
      <4>1. expected + NameLen = Base + 0 /\ Base + 0 \in SeqNum
        BY <3>1, Numbering, ShamFileAssumption DEF TransferInv, Base
      <4> QED
        BY <1>6, <3>1, <4>1, WrapSame
    <3> QED
      BY <3>4, <3>5, <3>6, <3>7, <3>8
  <2>3. CASE r.body.src = "file"
    <3>1. /\ r.body.len > 0
          /\ \/ r.body.off + r.body.len <= pos
             \/ r.body.off = pos /\ r.body.len = bytes_read
          /\ r.hdr.seq \in {Base + r.body.off, 0, server_seq}
      BY <1>2, <1>3, <2>3 DEF FromClient, NoBody
    <3>2. /\ Base \in Nat /\ client_seq \in Nat
          /\ client_seq + 1 < Base
          /\ client_seq + 1 # server_seq
          /\ Base + Copied # 0 /\ Base + Copied # server_seq
      BY <1>4, Numbering DEF TransferInv
    <3>3. Synced /\ Copied = r.body.off
      BY <1>2, <1>4, <1>6, <3>1, <3>2
    <3>4. r.body.off = pos /\ r.body.len = bytes_read /\ Copied = pos
      BY <1>4, <3>1, <3>3
    <3>5. cpc = "data"
      BY <3>1, <3>4 DEF TransferInv, TypeOK, ClientPc, ClientState, ClientLeft
    <3>6. out' = Append(out, r.body) /\ out \in Seq(Body)
      BY <1>6, <3>1 DEF Written, TransferInv, TypeOK
    <3>7. Copied' = pos + bytes_read
      BY <1>4, <2>3, <3>4, <3>6, FileEndOfAppend DEF Copied
    <3>8. CopyIsPrefix'
      BY <1>1, <1>4, <2>3, <3>3, <3>6, AppendKeepsPrefix DEF TransferInv, Copied
    <3>9. Window'
      BY <1>1, <3>7 DEF Window
    <3>10. Synced'
      BY <3>6 DEF Synced
    <3>11. expected' = Base + Copied'
      <4>1. /\ expected + bytes_read = Base + (pos + bytes_read)
            /\ Base + (pos + bytes_read) \in SeqNum
        BY <1>2, <1>4, <3>2, <3>3, <3>4, Numbering DEF TransferInv
      <4> QED
        BY <1>6, <3>4, <3>7, <4>1, WrapSame
    <3> QED
      BY <3>4, <3>5, <3>7, <3>8, <3>9, <3>10, <3>11
  <2> QED
    BY <1>3, <2>1, <2>2, <2>3 DEF FromClient
<1> QED
  BY <1>1, <1>5, <1>6

LEMMA RecvDataKeeps ==
  ASSUME TransferInv, TypeInv, TypeOK', NEW r \in InFlight(c2s), RecvData(r)
  PROVE  TransferInv'
<1> DEFINE dataAck == Pkt(Hdr(0, expected', {"ACK"}), NoBody)
<1>1. /\ spc = "data" /\ ServerReceives(r) /\ s2c' = Send(s2c, dataAck)
      /\ UNCHANGED <<spc, server_seq, named, clientVars>>
  BY DEF RecvData
<1>2. /\ CopyIsPrefix' /\ Window' /\ Copied' >= Copied
      /\ Base + Copied' \in Nat /\ client_seq + 1 <= Base + Copied'
      /\ expected' = IF Synced' THEN Base + Copied' ELSE client_seq + 1
  <2>1. /\ CopyIsPrefix' /\ Window'
        /\ Copied' = Copied \/ (Copied = pos /\ Copied' = pos + bytes_read)
        /\ expected' = IF Synced' THEN Base + Copied' ELSE client_seq + 1
    BY WriteEffect
  <2>2. /\ Copied \in Nat /\ Copied' \in Nat /\ pos \in Nat /\ bytes_read \in Nat
        /\ Base \in Nat /\ client_seq + 1 < Base /\ client_seq \in Nat
    BY FileEndIsNat, Numbering, ShamFileAssumption DEF TransferInv, TypeOK, Copied
  <2>3. Copied' >= Copied
    BY <2>1, <2>2
  <2>4. \A a, b, c \in Nat : c + 1 < a => a + b \in Nat /\ c + 1 <= a + b
    OBVIOUS
  <2>5. Base + Copied' \in Nat /\ client_seq + 1 <= Base + Copied'
    BY <2>2, <2>4
  <2> QED
    BY <2>1, <2>3, <2>5
<1>3. named => cpc # "synack" /\ ~(ClientLeft /\ pos # FileSize)
  BY DEF TransferInv, ClientState
<1>4. /\ Isns' /\ ClientState'
      /\ \A p \in InFlight(c2s') : FromClient(p)'
  <2>1. ServerLeft => ServerLeft'
    BY <1>1 DEF ServerLeft
  <2> QED
    BY <1>1, <1>3, <2>1, ServerHeard, ServerLeavesClient
<1>5. Base' = Base /\ client_seq' = client_seq /\ cpc' = cpc
  BY <1>1 DEF Base, clientVars
<1>6. ServerState'
  BY <1>1, <1>2, <1>5 DEF ServerState
<1>7. dataAck.hdr = Hdr(0, expected', {"ACK"})
  BY DEF Pkt
<1> HIDE DEF dataAck
<1>8. ASSUME NEW p \in InFlight(s2c')
      PROVE  p \in InFlight(s2c) \/ FromServer(p)'
  <2>1. p \in InFlight(s2c) \/ p = dataAck
    BY <1>1, <1>8, SentInFlight DEF TransferInv, TypeOK
  <2>2. expected' <= Base + Copied'
    BY <1>2
  <2> QED
    BY <1>5, <1>7, <2>1, <2>2 DEF FromServer, Hdr
<1>9. \A p \in InFlight(s2c') : FromServer(p)'
  <2>1. ServerLeft => ServerLeft'
    BY <1>1 DEF ServerLeft
  <2> QED
    BY <1>1, <1>2, <1>5, <1>8, <2>1, AnswersKeep
<1> QED
  BY <1>2, <1>4, <1>6, <1>9 DEF TransferInv

LEMMA RecvClientFinKeeps ==
  ASSUME TransferInv, TypeOK', NEW r \in InFlight(c2s), RecvClientFin(r)
  PROVE  TransferInv'
<1>1. /\ spc = "data" /\ spc' = "lastack" /\ ServerReceives(r)
      /\ "FIN" \in r.hdr.flags
      /\ s2c' = TeardownSends(s2c, r.hdr.seq)
      /\ UNCHANGED <<server_seq, expected, out, named, clientVars>>
  BY DEF RecvClientFin
<1>2. /\ ServerLeft' /\ UNCHANGED <<client_seq, cpc, pos>> /\ ClientLeft'
      /\ Copied' = Copied /\ Base' = Base
  <2>1. ClientLeft
    BY <1>1, ServerHeard DEF FromClient, ServerLeft
  <2> QED
    BY <1>1, <2>1 DEF ServerLeft, ClientLeft, Copied, Base, clientVars
<1>3. named => cpc # "synack" /\ ~(ClientLeft /\ pos # FileSize)
  BY DEF TransferInv, ClientState
<1>4. /\ Isns' /\ ClientState'
      /\ \A p \in InFlight(c2s') : FromClient(p)'
  BY <1>1, <1>2, <1>3, ServerHeard, ServerLeavesClient
<1>5. ServerState' /\ Window' /\ CopyIsPrefix'
  BY <1>1, <1>2
     DEF TransferInv, ServerState, Synced, Window, CopyIsPrefix, clientVars
<1>6. ASSUME NEW p \in InFlight(s2c')
      PROVE  p \in InFlight(s2c) \/ FromServer(p)'
  <2>1. PICK ack, fin :
          /\ InFlight(TeardownSends(s2c, r.hdr.seq))
               \subseteq InFlight(s2c) \cup {ack, fin}
          /\ ack.hdr = Hdr(Wrap(server_seq + 1), Wrap(r.hdr.seq + 1), {"ACK"})
          /\ fin.hdr.flags = {"FIN"}
    <3>1. s2c \in Seq(Packet)
      BY DEF TransferInv, TypeOK
    <3> QED
      BY <3>1, TeardownInFlight
  <2>2. FromServer(ack)' /\ FromServer(fin)'
    BY <1>2, <2>1 DEF FromServer, Hdr
  <2> QED
    BY <1>1, <1>6, <2>1, <2>2
<1>7. \A p \in InFlight(s2c') : FromServer(p)'
  <2>1. Copied' >= Copied
    BY <1>2, FileEndIsNat DEF TransferInv, TypeOK, Copied
  <2> QED
    BY <1>1, <1>2, <1>6, <2>1, AnswersKeep
<1> QED
  BY <1>4, <1>5, <1>7 DEF TransferInv

LEMMA ServerKeeps ==
  ASSUME TransferInv, TypeInv, TypeOK', NEW r \in InFlight(c2s),
         Handles(r) \/ DropData(r)
  PROVE  TransferInv'
<1>1. CASE RecvSynAckAck(r)
  <2>1. /\ spc = "ack" /\ spc' = "name" /\ ServerReceives(r) /\ ~Synced
        /\ UNCHANGED <<server_seq, expected, out, named, s2c, clientVars>>
    BY <1>1 DEF RecvSynAckAck, TransferInv, ServerState
  <2>2. ServerLeft => ServerLeft'
    BY <2>1 DEF ServerLeft
  <2> QED
    BY <2>1, <2>2, PlaceKeeps
<1>2. CASE DropData(r)
  <2>1. /\ spc = "data" /\ spc' = "data" /\ ServerReceives(r)
        /\ UNCHANGED <<server_seq, expected, out, named, s2c, clientVars>>
    BY <1>2 DEF DropData, serverVars
  <2>2. ServerLeft => ServerLeft'
    BY <2>1 DEF ServerLeft
  <2> QED
    BY <2>1, <2>2, PlaceKeeps
<1>3. CASE RecvLastAck(r)
  <2>1. /\ spc = "lastack" /\ spc' = "closed" /\ ServerReceives(r)
        /\ UNCHANGED <<server_seq, expected, out, named, s2c, clientVars>>
    BY <1>3 DEF RecvLastAck
  <2>2. ServerLeft => ServerLeft'
    BY <2>1 DEF ServerLeft
  <2> QED
    BY <2>1, <2>2, PlaceKeeps
<1> QED
  BY <1>1, <1>2, <1>3, RecvSynKeeps, RecvNameKeeps, RecvDataKeeps,
     RecvClientFinKeeps DEF Handles

LEMMA ClientKeeps ==
  ASSUME TransferInv, TypeInv, TypeOK', Client
  PROVE  TransferInv'
BY SendSynKeeps, RecvSynAckKeeps, NameWaitEndsKeeps, RecvDataAckKeeps,
   RecvWrongAckKeeps, DataTimeoutKeeps, TeardownKeeps DEF Client

LEMMA LoseKeeps ==
  ASSUME TransferInv, TypeOK', Lose
  PROVE  TransferInv'
<1>1. /\ InFlight(c2s') \subseteq InFlight(c2s)
      /\ InFlight(s2c') \subseteq InFlight(s2c)
      /\ c2s = <<>> => c2s' = <<>>
      /\ s2c = <<>> => s2c' = <<>>
  <2>1. c2s \in Seq(Packet) /\ s2c \in Seq(Packet)
    BY DEF TransferInv, TypeOK
  <2> QED
    BY <2>1, RemoveAtLeaves DEF Lose
<1>2. UNCHANGED <<clientVars, serverVars>>
  BY DEF Lose
<1>3. \A p : /\ FromClient(p)' <=> FromClient(p)
             /\ FromServer(p)' <=> FromServer(p)
  BY <1>2 DEF FromClient, FromServer, ClientLeft, ServerLeft, Base, Copied,
              clientVars, serverVars
<1>4. /\ \A p \in InFlight(c2s') : FromClient(p)'
      /\ \A p \in InFlight(s2c') : FromServer(p)'
  BY <1>1, <1>3 DEF TransferInv
<1>5. Isns' /\ Window' /\ CopyIsPrefix'
  BY <1>2 DEF TransferInv, Isns, Window, CopyIsPrefix, Copied,
              clientVars, serverVars
<1>6. ClientState'
  BY <1>1, <1>2 DEF TransferInv, ClientState, ClientLeft, ServerLeft, Base,
                    ChunkLen, clientVars, serverVars
<1>7. ServerState'
  BY <1>1, <1>2 DEF TransferInv, ServerState, Synced, Base, Copied,
                    clientVars, serverVars
<1> QED
  BY <1>4, <1>5, <1>6, <1>7 DEF TransferInv

LEMMA InitKeeps == Init => TransferInv
<1> SUFFICES ASSUME Init PROVE TransferInv
  OBVIOUS
<1>1. TypeOK
  BY InitTyped DEF TypeInv
<1>2. InFlight(c2s) = {} /\ InFlight(s2c) = {} /\ Copied = 0
  BY DEF Init, InFlight, Copied, FileEnd
<1>3. Isns /\ Window /\ CopyIsPrefix
  BY <1>2 DEF Init, Isns, Window, CopyIsPrefix
<1>4. ClientState /\ ServerState
  BY DEF Init, ClientState, ServerState, ClientLeft, Synced
<1> QED
  BY <1>1, <1>2, <1>3, <1>4 DEF TransferInv

-----------------------------------------------------------------------------
(* What a transfer promises.                                               *)

(* The invariant behind all of them.                                       *)
LEMMA TransferInvHolds == Spec => [](TypeInv /\ TransferInv)
<1>1. TypeInv /\ TypeInv' /\ TransferInv /\ [Next]_vars => TransferInv'
  <2> SUFFICES ASSUME TypeInv, TypeInv', TransferInv, [Next]_vars
               PROVE  TransferInv'
    OBVIOUS
  <2>1. TypeOK'
    BY DEF TypeInv
  <2>2. CASE UNCHANGED vars
    <3>1. \A p : /\ FromClient(p)' <=> FromClient(p)
                 /\ FromServer(p)' <=> FromServer(p)
      BY <2>2 DEF FromClient, FromServer, ClientLeft, ServerLeft, Base, Copied, vars
    <3>2. UNCHANGED <<c2s, s2c>>
      BY <2>2 DEF vars
    <3> QED
      BY <2>1, <2>2, <3>1, <3>2
         DEF TransferInv, Isns, ClientState, ServerState, Synced, Window, Base,
             Copied, CopyIsPrefix, ClientLeft, ServerLeft, ChunkLen, vars
  <2> QED
    BY <2>1, <2>2, ClientKeeps, ServerKeeps, LoseKeeps DEF Next, Server
<1> QED
  BY <1>1, TypeInvHolds, InitKeeps, PTL DEF Spec

(* Sequence numbers, headers and chunks of both programs and of every      *)
(* datagram under way agree as TransferInv says.                           *)
THEOREM TransferInvariant == Spec => []TransferInv
BY TransferInvHolds, PTL

(* server.c:153: the output file is, at every moment and under every fault *)
(* of the network, the beginning of the input file.                        *)
THEOREM CopyIsAlwaysPrefix == Spec => []CopyIsPrefix
<1>1. TransferInv => CopyIsPrefix
  BY DEF TransferInv
<1> QED
  BY <1>1, TransferInvHolds, PTL

(* client.c:133: a client that has come to the end of its file has all of  *)
(* it in the server's copy.                                                *)
THEOREM DoneIsDelivered == Spec => []DoneMeansDelivered
<1>1. TypeInv /\ TransferInv => DoneMeansDelivered
  <2> SUFFICES ASSUME TypeInv, TransferInv, SentWholeFile
               PROVE  Copied = FileSize
    BY DEF DoneMeansDelivered, Copied
  <2>1. pos = FileSize /\ bytes_read = 0
    BY DEF SentWholeFile, TransferInv, ClientState, ClientLeft
  <2> QED
    BY <2>1, ShamFileAssumption DEF TransferInv, Window
<1> QED
  BY <1>1, TransferInvHolds, PTL

(* server.c:163-164: what the server prints the MD5 of is the whole file,  *)
(* when the client has named it.                                           *)
THEOREM Md5IsOfWholeFile == Spec => Md5OfWholeFile
<1>1. TypeInv /\ TransferInv /\ [Next]_vars =>
        [spc = "data" /\ spc' = "lastack" /\ named => FileEnd(out) = FileSize]_vars
  <2> SUFFICES ASSUME TypeInv, TransferInv, Next,
                      spc = "data", spc' = "lastack", named
               PROVE  Copied = FileSize
    BY DEF Copied
  <2>1. PICK r \in InFlight(c2s) : RecvClientFin(r)
    <3>1. ~Client /\ ~Lose
      BY DEF Client, SendSyn, RecvSynAck, NameWaitEnds, RecvDataAck, RecvWrongAck,
             DataTimeout, Retransmit, RecvFinAck, RecvFin, Lose, serverVars
    <3>2. PICK r \in InFlight(c2s) : Handles(r) \/ DropData(r)
      BY <3>1 DEF Next, Server
    <3>3. RecvClientFin(r)
      BY <3>2 DEF Handles, RecvSyn, RecvSynAckAck, RecvName, RecvData, RecvLastAck,
                  DropData, serverVars
    <3> QED
      BY <3>3
  <2>2. ClientLeft
    BY <2>1, ServerHeard DEF RecvClientFin, FromClient, ServerLeft
  <2>3. pos = FileSize /\ bytes_read = 0
    BY <2>2 DEF TransferInv, ClientState
  <2> QED
    BY <2>3, ShamFileAssumption DEF TransferInv, Window
<1> QED
  BY <1>1, TransferInvHolds, PTL DEF Spec, Md5OfWholeFile

-----------------------------------------------------------------------------
(* The two loops implement FileChannel: the client's ACK is the channel's  *)
(* Confirm, the server's write its Deliver, every other step changes       *)
(* neither.                                                                *)

LEMMA ClientConfirms ==
  ASSUME TypeInv, TransferInv, Client
  PROVE  \/ UNCHANGED <<out, pos>>
         \/ Channel!Confirm
<1>1. out' = out
  BY DEF Client, SendSyn, RecvSynAck, NameWaitEnds, RecvDataAck, RecvWrongAck,
         DataTimeout, Retransmit, RecvFinAck, RecvFin, serverVars
<1>2. ASSUME NEW r \in InFlight(s2c), RecvDataAck(r) PROVE Channel!Confirm
  <2>1. cpc = "data" /\ IsAckOfChunk(r) /\ pos' = pos + bytes_read
    BY <1>2 DEF RecvDataAck, NextChunk
  <2>2. Copied = pos + bytes_read
    BY <2>1, AckOfChunkMeansCopied
  <2>3. pos \in Nat /\ bytes_read \in Nat /\ bytes_read > 0
    BY <2>1, ChunkLenBounds, ShamFileAssumption
       DEF TransferInv, ClientState, TypeInv, TypeOK
  <2>4. pos < FileEnd(out) /\ pos' = FileEnd(out)
    BY <2>1, <2>2, <2>3 DEF Copied
  <2> QED
    BY <1>1, <2>4 DEF Channel!Confirm
<1>3. NameWaitEnds => pos' = pos
  BY DEF NameWaitEnds, NextChunk
<1>4. ASSUME Client, \A r \in InFlight(s2c) : ~RecvDataAck(r), ~NameWaitEnds
      PROVE  pos' = pos
  BY <1>4 DEF Client, SendSyn, RecvSynAck, RecvWrongAck, DataTimeout, Retransmit,
              RecvFinAck, RecvFin
<1> QED
  BY <1>1, <1>2, <1>3, <1>4

LEMMA ServerDelivers ==
  ASSUME TypeInv, TransferInv, TypeOK', Server
  PROVE  \/ UNCHANGED <<Copied, pos>>
         \/ Channel!Deliver
<1> PICK r \in InFlight(c2s) : Handles(r) \/ DropData(r)
  BY DEF Server
<1>1. pos' = pos
  BY DEF Handles, RecvSyn, RecvSynAckAck, RecvName, RecvData, RecvClientFin,
         RecvLastAck, DropData, clientVars
<1>2. CASE RecvData(r)
  <2>1. CASE Copied' = Copied
    BY <1>1, <2>1
  <2>2. CASE cpc = "data" /\ Copied = pos /\ Copied' = pos + bytes_read
    <3>1. bytes_read = ChunkLen(pos) /\ pos < FileSize
      BY <2>2 DEF TransferInv, ClientState
    <3>2. pos + ChunkLen(pos) = Channel!Smaller(pos + PayloadSize, FileSize)
      BY ShamFileAssumption DEF ChunkLen, Channel!Smaller, TypeInv, TypeOK
    <3> QED
      BY <1>1, <2>2, <3>1, <3>2 DEF Channel!Deliver, Copied
  <2> QED
    BY <1>2, <2>1, <2>2, WriteEffect
<1>3. CASE ~RecvData(r)
  <2>1. out' = out
    BY <1>3 DEF Handles, RecvSyn, RecvSynAckAck, RecvName, RecvClientFin,
                RecvLastAck, DropData, serverVars
  <2> QED
    BY <1>1, <2>1 DEF Copied
<1> QED
  BY <1>2, <1>3

(* client.c:122-143, server.c:127-162: for every file, payload size and    *)
(* fault, the loops hand the file over as FileChannel does.                *)
THEOREM ImplementsChannel == Spec => HandsOverInOrder
<1>1. Init => Channel!ChannelInit
  BY DEF Init, Channel!ChannelInit, FileEnd
<1>2. TypeInv /\ TransferInv /\ TypeInv' /\ [Next]_vars
        => [Channel!ChannelNext]_(Channel!channelVars)
  <2> SUFFICES ASSUME TypeInv, TransferInv, TypeInv', [Next]_vars
               PROVE  Channel!ChannelNext \/ UNCHANGED <<FileEnd(out), pos>>
    BY DEF Channel!channelVars
  <2>1. CASE Client
    BY <2>1, ClientConfirms DEF Channel!ChannelNext
  <2>2. CASE Server
    BY <2>2, ServerDelivers DEF Channel!ChannelNext, TypeInv, Copied
  <2>3. CASE Lose
    BY <2>3 DEF Lose, clientVars, serverVars
  <2>4. CASE UNCHANGED vars
    BY <2>4 DEF vars
  <2> QED
    BY <2>1, <2>2, <2>3, <2>4 DEF Next
<1> QED
  BY <1>1, <1>2, TransferInvHolds, PTL
     DEF Spec, HandsOverInOrder, Channel!ChannelSpec

-----------------------------------------------------------------------------
(* The two programs in lockstep, where the network loses nothing but       *)
(* datagrams of the data loop: at any moment only one of them has          *)
(* something to receive.  Numbers may wrap around as they like.            *)

(* What the teardown needs: a network that keeps the order, no timeout     *)
(* while an answer is on its way, and an output file that opens.           *)
Gentle ==
  /\ Faults \cap {"loss", "dup", "reorder", "early"} = {}
  /\ Capacity >= 2
  /\ FALSE \notin OutputOpens

CarryNoFin(q) == \A p \in InFlight(q) : "FIN" \notin p.hdr.flags

Handshaking ==
  \/ cpc = "start" /\ spc = "listen" /\ c2s = <<>> /\ s2c = <<>>
  \/ cpc = "synack" /\ spc = "listen" /\ Len(c2s) = 1 /\ s2c = <<>>
  \/ cpc = "synack" /\ spc = "ack" /\ c2s = <<>> /\ Len(s2c) = 1
  \/ /\ cpc = "name" /\ spc = "ack" /\ Len(c2s) = 2 /\ s2c = <<>>
     /\ "NAME" \in c2s[2].hdr.flags
  \/ /\ cpc = "name" /\ spc = "name" /\ Len(c2s) = 1 /\ s2c = <<>>
     /\ "NAME" \in c2s[1].hdr.flags
  \/ cpc = "name" /\ spc = "data" /\ c2s = <<>> /\ Len(s2c) = 1

Looping ==
  /\ cpc = "data" /\ spc = "data"
  /\ Len(c2s) + Len(s2c) <= 1
  /\ CarryNoFin(c2s) /\ CarryNoFin(s2c) /\ "FIN" \notin hdr.flags

(* The input file did not open: the FIN is taken for the name, and the     *)
(* client waits without a timeout.                                         *)
Stranded ==
  /\ cpc = "finack" /\ ~rcvtimeo /\ s2c = <<>>
  /\ \/ spc = "ack" /\ Len(c2s) = 2 /\ "NAME" \notin c2s[2].hdr.flags
     \/ spc = "name" /\ Len(c2s) = 1 /\ "NAME" \notin c2s[1].hdr.flags
     \/ spc = "data" /\ c2s = <<>>

Closing ==
  \/ /\ cpc = "finack" /\ spc = "data" /\ Len(c2s) = 1 /\ s2c = <<>>
     /\ "FIN" \in c2s[1].hdr.flags
  \/ cpc = "finack" /\ spc = "lastack" /\ c2s = <<>> /\ Len(s2c) = 2
  \/ cpc = "fin" /\ spc = "lastack" /\ c2s = <<>> /\ Len(s2c) = 1
  \/ cpc = "closed" /\ spc = "lastack" /\ Len(c2s) = 1 /\ s2c = <<>>
  \/ cpc = "closed" /\ spc = "closed" /\ c2s = <<>> /\ s2c = <<>>

NoTimeoutYet == cpc \in {"start", "synack"} => ~rcvtimeo

Lockstep == NoTimeoutYet /\ (Handshaking \/ Looping \/ Stranded \/ Closing)

(* Without reordering and repetition recvfrom takes the first datagram.    *)
LEMMA ReceivesFirst ==
  ASSUME Gentle, NEW q \in Seq(Packet), NEW p, NEW rest, Receive(q, p, rest)
  PROVE  /\ Len(q) >= 1 /\ Len(rest) = Len(q) - 1
         /\ p = q[1] /\ p \in InFlight(q)
         /\ Len(q) = 2 => rest[1] = q[2]
<1>1. 1 \in 1 .. Len(q) /\ p = q[1] /\ rest = RemoveAt(q, 1)
  BY DEF Receive, Gentle
<1>2. /\ Len(RemoveAt(q, 1)) = Len(q) - 1
      /\ \A j \in 1 .. Len(q) - 1 :
           RemoveAt(q, 1)[j] = IF j < 1 THEN q[j] ELSE q[j + 1]
  BY <1>1, RemoveAtEntries
<1> QED
  BY <1>1, <1>2 DEF InFlight

(* Whatever is sent into an empty direction fits, two datagrams as well.   *)
LEMMA SendsOne ==
  ASSUME Gentle, NEW a
  PROVE  Send(<<>>, a) = <<a>>
BY ShamAssumption DEF Send, Gentle

LEMMA SendsTwo ==
  ASSUME Gentle, NEW a, NEW b
  PROVE  /\ Len(Send(Send(<<>>, a), b)) = 2
         /\ Send(Send(<<>>, a), b)[2] = b
<1>1. <<a>> \in Seq({a, b}) /\ Len(<<a>>) = 1
  OBVIOUS
<1>2. /\ Len(Append(<<a>>, b)) = 2
      /\ Append(<<a>>, b)[2] = b
  BY <1>1
<1>3. Send(<<a>>, b) = Append(<<a>>, b)
  BY <1>1, ShamAssumption DEF Send, Gentle
<1> QED
  BY <1>2, <1>3, SendsOne

LEMMA CarriesOne ==
  ASSUME NEW p
  PROVE  /\ Len(<<p>>) = 1 /\ <<p>>[1] = p
         /\ CarryNoFin(<<p>>) <=> "FIN" \notin p.hdr.flags
BY DEF CarryNoFin, InFlight

LEMMA CarriesNothing ==
  ASSUME NEW q \in Seq(Packet)
  PROVE  /\ q = <<>> <=> Len(q) = 0
         /\ Len(q) = 0 => CarryNoFin(q)
BY DEF CarryNoFin, InFlight

LEMMA Lengths ==
  ASSUME TypeOK
  PROVE  /\ c2s \in Seq(Packet) /\ s2c \in Seq(Packet)
         /\ Len(c2s) \in Nat /\ Len(s2c) \in Nat
         /\ c2s = <<>> <=> Len(c2s) = 0
         /\ s2c = <<>> <=> Len(s2c) = 0
         /\ Len(c2s) = 0 => CarryNoFin(c2s)
         /\ Len(s2c) = 0 => CarryNoFin(s2c)
BY CarriesNothing DEF TypeOK

-----------------------------------------------------------------------------
(* The client's steps.                                                     *)

(* The next chunk, or the FIN behind the last one.                         *)
LEMMA NextChunkInStep ==
  ASSUME Gentle, TypeOK', c2s = <<>>, Len(s2c') = 0, spc' = "data",
         NEW o, NEW s, NextChunk(o, s)
  PROVE  Lockstep'
<1>1. CASE cpc' = "data"
  <2>1. hdr'.flags = {} /\ c2s' = Send(c2s, Pkt(hdr', Chunk(o, bytes_read')))
    BY <1>1 DEF NextChunk, StartTeardown, Hdr
  <2>2. Len(c2s') = 1 /\ CarryNoFin(c2s')
    BY <2>1, SendsOne, CarriesOne DEF Pkt
  <2>3. CarryNoFin(s2c')
    BY CarriesNothing DEF TypeOK
  <2> QED
    BY <1>1, <2>1, <2>2, <2>3 DEF Lockstep, NoTimeoutYet, Looping, CarryNoFin
<1>2. CASE cpc' = "finack"
  <2>1. hdr'.flags = {"FIN"} /\ c2s' = Send(c2s, Pkt(hdr', NoBody))
    BY <1>2 DEF NextChunk, StartTeardown, Hdr
  <2>2. Len(c2s') = 1 /\ c2s'[1].hdr.flags = {"FIN"}
    BY <2>1, SendsOne, CarriesOne DEF Pkt
  <2>3. s2c' = <<>>
    BY CarriesNothing DEF TypeOK
  <2> QED
    BY <1>2, <2>2, <2>3 DEF Lockstep, NoTimeoutYet, Closing
<1> QED
  BY <1>1, <1>2 DEF NextChunk, StartTeardown

LEMMA ClientInStep ==
  ASSUME Gentle, TypeOK, TypeOK', Lockstep, Client
  PROVE  Lockstep'
<1>0. /\ c2s \in Seq(Packet) /\ s2c \in Seq(Packet)
      /\ Len(c2s) \in Nat /\ Len(s2c) \in Nat
      /\ c2s = <<>> <=> Len(c2s) = 0
      /\ s2c = <<>> <=> Len(s2c) = 0
      /\ s2c' = <<>> <=> Len(s2c') = 0
      /\ Len(s2c') = 0 => CarryNoFin(s2c')
  BY CarriesNothing, Lengths DEF TypeOK
<1>a. ASSUME NEW p, ClientReceives(p)
      PROVE  /\ Len(s2c) >= 1 /\ Len(s2c') = Len(s2c) - 1
             /\ p \in InFlight(s2c)
  BY <1>0, <1>a, ReceivesFirst DEF ClientReceives
<1>b. ClientTimesOut => rcvtimeo /\ Len(s2c) = 0 /\ (Len(c2s) = 0 \/ spc = "closed")
                                 /\ s2c' = s2c
  BY <1>0 DEF ClientTimesOut, Quiet, Gentle
<1>1. ASSUME SendSyn PROVE Lockstep'
  <2>1. cpc = "start" /\ spc = "listen" /\ c2s = <<>> /\ s2c = <<>> /\ ~rcvtimeo
    BY <1>1 DEF SendSyn, Lockstep, NoTimeoutYet, Handshaking, Looping, Stranded, Closing
  <2>2. Len(c2s') = 1
    BY <1>1, <2>1, SendsOne, CarriesOne DEF SendSyn
  <2> QED
    BY <1>1, <2>1, <2>2 DEF SendSyn, serverVars, Lockstep, NoTimeoutYet, Handshaking
<1>2. ASSUME NEW p \in InFlight(s2c), RecvSynAck(p) PROVE Lockstep'
  <2>1. cpc = "synack" /\ spc = "ack" /\ c2s = <<>> /\ Len(s2c) = 1 /\ ~rcvtimeo
    BY <1>0, <1>2, <1>a
       DEF RecvSynAck, Lockstep, NoTimeoutYet, Handshaking, Looping, Stranded, Closing
  <2>2. Len(s2c') = 0 /\ spc' = spc
    BY <1>2, <1>a, <2>1 DEF RecvSynAck, serverVars
  <2>3. CASE cpc' = "name"
    <3>1. PICK a, b : c2s' = Send(Send(c2s, a), b) /\ b.hdr.flags = {"NAME"}
      BY <1>2, <2>3 DEF RecvSynAck, StartTeardown, Pkt, Hdr
    <3>2. Len(c2s') = 2 /\ c2s'[2] = b
      BY <2>1, <3>1, SendsTwo
    <3> QED
      BY <1>0, <2>1, <2>2, <2>3, <3>1, <3>2 DEF Lockstep, NoTimeoutYet, Handshaking
  <2>4. CASE cpc' = "finack"
    <3>1. PICK a, b : c2s' = Send(Send(c2s, a), b) /\ b.hdr.flags = {"FIN"}
      BY <1>2, <2>4 DEF RecvSynAck, StartTeardown, Pkt, Hdr
    <3>2. Len(c2s') = 2 /\ c2s'[2] = b /\ rcvtimeo' = rcvtimeo
      BY <1>2, <2>1, <2>4, <3>1, SendsTwo DEF RecvSynAck
    <3> QED
      BY <1>0, <2>1, <2>2, <2>4, <3>1, <3>2 DEF Lockstep, NoTimeoutYet, Stranded
  <2> QED
    BY <1>2, <2>3, <2>4 DEF RecvSynAck, StartTeardown
<1>3. ASSUME NameWaitEnds PROVE Lockstep'
  <2>1. cpc = "name" /\ spc' = spc
    BY <1>3 DEF NameWaitEnds, serverVars
  <2>2. \/ spc = "ack" /\ Len(c2s) = 2 /\ s2c = <<>>
        \/ spc = "name" /\ Len(c2s) = 1 /\ s2c = <<>>
        \/ spc = "data" /\ c2s = <<>> /\ Len(s2c) = 1
    BY <2>1 DEF Lockstep, Handshaking, Looping, Stranded, Closing
  <2>3. \E p : ClientReceives(p)
    <3>1. ~ClientTimesOut
      BY <1>0, <1>b, <2>2
    <3>2. ClientTimesOut \/ \E p \in InFlight(s2c) : ClientReceives(p)
      BY <1>3, Zenon DEF NameWaitEnds
    <3> QED
      BY <3>1, <3>2
  <2>4. PICK p : ClientReceives(p)
    BY <2>3
  <2>6. Len(s2c) >= 1 /\ Len(s2c') = Len(s2c) - 1
    BY <1>a, <2>4
  <2>5. Len(s2c') = 0 /\ spc = "data" /\ c2s = <<>>
    BY <1>0, <2>2, <2>6
  <2> QED
    BY <1>3, <2>1, <2>5, NextChunkInStep DEF NameWaitEnds
<1>4. ASSUME cpc = "data", NEW p \in InFlight(s2c), ClientReceives(p), UNCHANGED serverVars
      PROVE  /\ spc' = "data" /\ c2s = <<>> /\ Len(s2c') = 0
             /\ "FIN" \notin p.hdr.flags
  BY <1>0, <1>4, <1>a
     DEF Lockstep, Handshaking, Looping, Stranded, Closing, CarryNoFin, serverVars
<1>5. ASSUME NEW p \in InFlight(s2c), RecvDataAck(p) PROVE Lockstep'
  BY <1>4, <1>5, NextChunkInStep DEF RecvDataAck
<1>6. ASSUME cpc = "data", spc' = "data", c2s = <<>>, Len(s2c') = 0, Retransmit,
             "FIN" \notin hdr'.flags
      PROVE  Lockstep'
  <2>1. Len(c2s') = 1 /\ CarryNoFin(c2s')
    BY <1>6, SendsOne, CarriesOne DEF Retransmit, Pkt
  <2> QED
    <3>1. cpc' = "data"
      BY <1>6 DEF Retransmit
    <3>2. Len(c2s') + Len(s2c') <= 1
      BY <1>6, <2>1
    <3>3. CarryNoFin(s2c')
      BY <1>0, <1>6
    <3> QED
      BY <1>6, <2>1, <3>1, <3>2, <3>3
         DEF Lockstep, NoTimeoutYet, Looping, CarryNoFin
<1>7. ASSUME NEW p \in InFlight(s2c), RecvWrongAck(p) PROVE Lockstep'
  BY <1>4, <1>6, <1>7 DEF RecvWrongAck, Retransmit
<1>8. ASSUME DataTimeout PROVE Lockstep'
  <2>1. Looping
    BY <1>8 DEF DataTimeout, Lockstep, Handshaking, Stranded, Closing
  <2>2. Len(s2c') = 0 /\ c2s = <<>>
    BY <1>0, <1>8, <1>b, <2>1 DEF DataTimeout, Looping
  <2>3. spc' = "data" /\ "FIN" \notin hdr'.flags
    BY <1>8, <2>1 DEF DataTimeout, Retransmit, serverVars, Looping
  <2> QED
    BY <1>6, <1>8, <2>1, <2>2, <2>3 DEF DataTimeout, Looping
<1>9. ASSUME RecvFinAck PROVE Lockstep'
  <2>1. \/ s2c = <<>> /\ ~rcvtimeo
        \/ s2c = <<>> /\ Len(c2s) = 1 /\ spc = "data"
        \/ Len(s2c) = 2 /\ spc = "lastack" /\ c2s = <<>>
    BY <1>9 DEF RecvFinAck, Lockstep, Handshaking, Looping, Stranded, Closing
  <2>2. ~ClientTimesOut
    BY <1>0, <1>b, <2>1
  <2>3. Len(s2c) >= 1 /\ Len(s2c') = Len(s2c) - 1
    BY <1>9, <1>a, <2>2 DEF RecvFinAck, TeardownReceives
  <2>4. Len(s2c') = 1 /\ spc = "lastack" /\ c2s = <<>>
    BY <1>0, <2>1, <2>3
  <2> QED
    BY <1>9, <2>4 DEF RecvFinAck, serverVars, Lockstep, NoTimeoutYet, Closing
<1>10. ASSUME RecvFin PROVE Lockstep'
  <2>1. Len(s2c) = 1 /\ spc = "lastack" /\ c2s = <<>>
    BY <1>0, <1>10 DEF RecvFin, Lockstep, Handshaking, Looping, Stranded, Closing
  <2>2. Len(s2c') = 0
    BY <1>10, <1>a, <1>b, <2>1 DEF RecvFin, TeardownReceives
  <2>3. Len(c2s') = 1
    BY <1>10, <2>1, SendsOne, CarriesOne DEF RecvFin
  <2> QED
    BY <1>0, <1>10, <2>1, <2>2, <2>3
       DEF RecvFin, serverVars, Lockstep, NoTimeoutYet, Closing
<1> QED
  BY <1>1, <1>2, <1>3, <1>5, <1>7, <1>8, <1>9, <1>10 DEF Client

-----------------------------------------------------------------------------
(* The server's steps, and the losses.                                     *)
LEMMA ServerInStep ==
  ASSUME Gentle, TypeOK, TypeOK', Lockstep, Server
  PROVE  Lockstep'
<1>0. /\ c2s \in Seq(Packet) /\ s2c \in Seq(Packet)
      /\ Len(c2s) \in Nat /\ Len(s2c) \in Nat
      /\ c2s = <<>> <=> Len(c2s) = 0
      /\ s2c = <<>> <=> Len(s2c) = 0
      /\ c2s' = <<>> <=> Len(c2s') = 0
      /\ Len(c2s') = 0 => CarryNoFin(c2s')
  BY CarriesNothing, Lengths DEF TypeOK
<1> PICK p \in InFlight(c2s) : Handles(p) \/ DropData(p)
  BY DEF Server
<1>a. /\ Len(c2s) >= 1 /\ Len(c2s') = Len(c2s) - 1
      /\ p = c2s[1]
      /\ Len(c2s) = 2 => c2s'[1] = c2s[2]
      /\ UNCHANGED <<cpc, hdr, rcvtimeo>>
  <2>1. ServerReceives(p) /\ UNCHANGED <<cpc, hdr, rcvtimeo>>
    BY DEF Handles, RecvSyn, RecvSynAckAck, RecvName, RecvData, RecvClientFin,
           RecvLastAck, DropData, clientVars
  <2> QED
    BY <1>0, <2>1, ReceivesFirst DEF ServerReceives
<1>1. CASE RecvSyn(p)
  <2>1. cpc = "synack" /\ Len(c2s) = 1 /\ s2c = <<>>
    BY <1>0, <1>1, <1>a DEF RecvSyn, Lockstep, Handshaking, Looping, Stranded, Closing
  <2>2. Len(s2c') = 1
    BY <1>1, <2>1, SendsOne, CarriesOne DEF RecvSyn
  <2> QED
    BY <1>0, <1>1, <1>a, <2>1, <2>2 DEF RecvSyn, Lockstep, NoTimeoutYet, Handshaking
<1>2. CASE RecvSynAckAck(p)
  <2>1. /\ Len(c2s) = 2 /\ s2c = <<>>
        /\ \/ cpc = "name" /\ "NAME" \in c2s[2].hdr.flags
           \/ cpc = "finack" /\ ~rcvtimeo /\ "NAME" \notin c2s[2].hdr.flags
    BY <1>0, <1>2, <1>a DEF RecvSynAckAck, Lockstep, Handshaking, Looping, Stranded, Closing
  <2> QED
    BY <1>2, <1>a, <2>1
       DEF RecvSynAckAck, Lockstep, NoTimeoutYet, Handshaking, Stranded
<1>3. CASE RecvName(p)
  <2>1. /\ Len(c2s) = 1 /\ s2c = <<>>
        /\ \/ cpc = "name" /\ "NAME" \in p.hdr.flags
           \/ cpc = "finack" /\ ~rcvtimeo /\ "NAME" \notin p.hdr.flags
    BY <1>0, <1>3, <1>a DEF RecvName, Lockstep, Handshaking, Looping, Stranded, Closing
  <2>2. /\ spc' = "data"
        /\ IF "NAME" \in p.hdr.flags THEN \E a : s2c' = Send(s2c, a) ELSE s2c' = s2c
    BY <1>3 DEF RecvName, Gentle
  <2>3. IF "NAME" \in p.hdr.flags THEN Len(s2c') = 1 ELSE s2c' = <<>>
    BY <2>1, <2>2, SendsOne, CarriesOne
  <2> QED
    BY <1>0, <1>a, <2>1, <2>2, <2>3
       DEF Lockstep, NoTimeoutYet, Handshaking, Stranded
<1>4. ASSUME spc = "data", "FIN" \notin p.hdr.flags
      PROVE  /\ cpc = "data" /\ Len(c2s) = 1 /\ s2c = <<>> /\ "FIN" \notin hdr.flags
             /\ Len(c2s') = 0
  BY <1>0, <1>4, <1>a DEF Lockstep, Handshaking, Looping, Stranded, Closing
<1>5. CASE RecvData(p)
  <2>1. PICK a : s2c' = Send(s2c, a) /\ a.hdr.flags = {"ACK"}
    BY <1>5 DEF RecvData, Pkt, Hdr
  <2>2. Len(s2c') = 1 /\ CarryNoFin(s2c')
    BY <1>4, <1>5, <2>1, SendsOne, CarriesOne DEF RecvData
  <2> QED
    <3>1. spc = "data" /\ "FIN" \notin p.hdr.flags /\ spc' = spc
      BY <1>5 DEF RecvData, serverVars
    <3>2. cpc' = "data" /\ spc' = "data" /\ Len(c2s') = 0 /\ "FIN" \notin hdr'.flags
      BY <1>4, <1>a, <3>1
    <3>3. CarryNoFin(c2s')
      BY <1>0, <3>2
    <3> QED
      BY <2>2, <3>2, <3>3 DEF Lockstep, NoTimeoutYet, Looping, CarryNoFin
<1>6. CASE DropData(p)
  <2>1. Len(s2c') = 0 /\ CarryNoFin(s2c') /\ spc' = "data" /\ spc = "data"
    BY <1>0, <1>4, <1>6, CarriesNothing DEF DropData, serverVars
  <2> QED
    BY <1>0, <1>4, <1>6, <1>a, <2>1 DEF DropData, Lockstep, NoTimeoutYet, Looping
<1>7. CASE RecvClientFin(p)
  <2>1. cpc = "finack" /\ Len(c2s) = 1 /\ s2c = <<>>
    BY <1>0, <1>7, <1>a
       DEF RecvClientFin, Lockstep, Handshaking, Looping, Stranded, Closing, CarryNoFin
  <2>2. PICK a, b : s2c' = Send(Send(s2c, a), b)
    BY <1>7 DEF RecvClientFin, TeardownSends
  <2>3. Len(s2c') = 2
    BY <2>1, <2>2, SendsTwo
  <2> QED
    BY <1>0, <1>7, <1>a, <2>1, <2>3 DEF RecvClientFin, Lockstep, NoTimeoutYet, Closing
<1>8. CASE RecvLastAck(p)
  <2>1. cpc = "closed" /\ Len(c2s) = 1 /\ s2c = <<>>
    BY <1>0, <1>8, <1>a DEF RecvLastAck, Lockstep, Handshaking, Looping, Stranded, Closing
  <2> QED
    BY <1>0, <1>8, <1>a, <2>1 DEF RecvLastAck, Lockstep, NoTimeoutYet, Closing
<1> QED
  BY <1>1, <1>2, <1>3, <1>5, <1>6, <1>7, <1>8 DEF Handles

LEMMA LossInStep ==
  ASSUME Gentle, TypeOK, TypeOK', Lockstep, Lose
  PROVE  Lockstep'
<1>1. cpc = "data" /\ UNCHANGED <<cpc, spc, hdr, rcvtimeo>>
  BY DEF Lose, Gentle, clientVars, serverVars
<1>2. /\ spc = "data" /\ Len(c2s) + Len(s2c) <= 1 /\ "FIN" \notin hdr.flags
      /\ CarryNoFin(c2s) /\ CarryNoFin(s2c)
  BY <1>1 DEF Lockstep, Handshaking, Looping, Stranded, Closing
<1>3. ASSUME NEW q \in Seq(Packet), NEW i \in 1 .. Len(q)
      PROVE  Len(RemoveAt(q, i)) < Len(q)
  BY <1>3, RemoveAtEntries
<1>4. Len(c2s') + Len(s2c') < Len(c2s) + Len(s2c)
  BY <1>3, Lengths DEF Lose, TypeOK
<1>5. Len(c2s') \in Nat /\ Len(s2c') \in Nat
  BY DEF TypeOK
<1>6. Len(c2s') = 0 /\ Len(s2c') = 0
  BY <1>2, <1>4, <1>5, Lengths
<1>7. CarryNoFin(c2s') /\ CarryNoFin(s2c')
  BY <1>6, CarriesNothing DEF TypeOK
<1> QED
  BY <1>1, <1>2, <1>6, <1>7 DEF Lockstep, NoTimeoutYet, Looping

(* client.c:73-95 with server.c:131-133 and 74-97: the teardown pairs up   *)
(* for files, numbers and losses in the data loop of every kind, as long   *)
(* as the network is gentle with the rest; whether or not the input file   *)
(* opens.                                                                  *)
THEOREM TeardownPairsUp == Gentle => (Spec => []CloseAgreement)
<1> SUFFICES ASSUME Gentle PROVE Spec => []CloseAgreement
  OBVIOUS
<1>1. Init => Lockstep
  BY DEF Init, Lockstep, NoTimeoutYet, Handshaking
<1>2. TypeInv /\ TypeInv' /\ Lockstep /\ [Next]_vars => Lockstep'
  <2> SUFFICES ASSUME TypeInv, TypeInv', Lockstep, [Next]_vars PROVE Lockstep'
    OBVIOUS
  <2>1. TypeOK /\ TypeOK'
    BY DEF TypeInv
  <2>2. CASE UNCHANGED vars
    BY <2>2 DEF vars, Lockstep, NoTimeoutYet, Handshaking, Looping, Stranded, Closing,
                CarryNoFin
  <2> QED
    BY <2>1, <2>2, ClientInStep, ServerInStep, LossInStep DEF Next
<1>3. Lockstep => CloseAgreement
  BY DEF Lockstep, Handshaking, Looping, Stranded, Closing, CloseAgreement
<1> QED
  BY <1>1, <1>2, <1>3, TypeInvHolds, PTL DEF Spec

=============================================================================

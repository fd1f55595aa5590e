--------------------------- MODULE ShamFileNoWrap ---------------------------
(***************************************************************************)
(* The transfers in which no sequence number wraps around and the server's *)
(* initial sequence number, which a stray SYN-ACK carries into the header  *)
(* of a retransmission, is none that the client numbers its bytes with.    *)
(* The programs do not check for either: both are 31 bits of rand().       *)
(*                                                                         *)
(* For them the module states the inductive invariant behind the safety    *)
(* properties of ShamFile.                                                 *)
(***************************************************************************)
EXTENDS ShamFile

ASSUME NoWrapAssumption ==
  \A c \in ClientIsns :
    /\ c + 1 + NameLen + FileSize + 1 < SeqSpace
    /\ \A s \in ServerIsns : s \notin c + 1 .. c + 1 + NameLen + FileSize

(* The sequence number of the first byte of the file.                      *)
Base == client_seq + 1 + NameLen

Copied == FileEnd(out)

ClientLeft == cpc \in {"finack", "fin", "closed"}

ServerLeft == spc \in {"lastack", "closed"}

Isns == client_seq \in ClientIsns /\ server_seq \in ServerIsns

(* Where the client is in its numbering of the bytes it sends, and which   *)
(* headers it may have in front of the chunk it repeats.                   *)
ClientState ==
  /\ cpc \in {"start", "synack", "name"} => pos = 0 /\ bytes_read = 0
  /\ cpc \in {"start", "synack"} => ~named
  /\ cpc = "start" => spc = "listen" /\ c2s = <<>>
  /\ cpc = "name" => seq = client_seq + 1
  /\ cpc = "data" =>
       /\ seq = Base + pos
       /\ pos < FileSize
       /\ bytes_read = ChunkLen(pos)
       /\ "NAME" \notin hdr.flags
       /\ "FIN" \in hdr.flags => ServerLeft
       /\ hdr.seq \in {Base + pos, 0, server_seq} \/ ServerLeft
  /\ ClientLeft => bytes_read = 0 /\ pos \in {0, FileSize}
  /\ ClientLeft /\ pos # FileSize => ~named

(* The server expects the byte behind the copy, or, when it has never seen *)
(* the name, the name.                                                     *)
Synced == named \/ out # <<>>

ServerState ==
  /\ spc = "listen" => expected = 0 /\ s2c = <<>> /\ cpc \in {"start", "synack"}
  /\ spc \in {"listen", "ack", "name"} => ~Synced
  /\ spc # "listen" =>
       expected = IF Synced THEN Base + Copied ELSE client_seq + 1

(* What the client's loop knows of the copy.                               *)
Window == Copied \in {pos, pos + bytes_read}

FromClient(p) ==
  /\ cpc = "synack" => p = Pkt(Hdr(client_seq, 0, {"SYN"}), NoBody)
  /\ "FIN" \in p.hdr.flags => ClientLeft \/ ServerLeft
  /\ "NAME" \in p.hdr.flags => p.body.src = "name"
  /\ \/ p.body = NoBody
     \/ /\ p.body = [src |-> "name", off |-> 0, len |-> NameLen]
        /\ p.hdr.seq = client_seq + 1
        /\ ~(ClientLeft /\ pos # FileSize)
     \/ /\ p.body.src = "file"
        /\ p.body.len > 0
        /\ \/ p.body.off + p.body.len <= pos
           \/ p.body.off = pos /\ p.body.len = bytes_read
        /\ p.hdr.seq \in {Base + p.body.off, 0, server_seq} \/ ServerLeft

FromServer(p) ==
  /\ "NAME" \notin p.hdr.flags
  /\ "FIN" \in p.hdr.flags => ServerLeft
  /\ p.hdr.seq \in {0, server_seq} \/ ServerLeft
  /\ "ACK" \in p.hdr.flags => p.hdr.ack <= Base + Copied \/ ClientLeft

(* The inductive invariant.                                                *)
TransferInv ==
  /\ TypeOK
  /\ Isns
  /\ ClientState
  /\ ServerState
  /\ Window
  /\ CopyIsPrefix
  /\ \A p \in InFlight(c2s) : FromClient(p)
  /\ \A p \in InFlight(s2c) : FromServer(p)

=============================================================================

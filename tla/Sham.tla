-------------------------------- MODULE Sham --------------------------------
(***************************************************************************)
(* What both programs of networking/ share: the wire format of             *)
(* networking/sham.h and the UDP socket between them.                      *)
(*                                                                         *)
(* A datagram is a header and the payload bytes behind it.  The window     *)
(* field is always sent as 0 and never read, so it is left out; flags are  *)
(* a set of names instead of a bit mask; a payload is named by where its   *)
(* bytes come from, never by the bytes.                                    *)
(***************************************************************************)
EXTENDS Integers, Sequences, SequencesExt

CONSTANTS
  SeqSpace,   \* sequence numbers are uint32_t: 2^32 in the program
  Capacity,   \* datagrams one direction of the network holds
  Faults      \* what may go wrong, out of FaultKinds

(* "loss", "dup", "reorder": the network loses, repeats or reorders any    *)
(* datagram; "dataloss": it loses datagrams of the data loop only;         *)
(* "early": a receive timeout may fire while an answer is on its way;      *)
(* "drop": the server was started with a loss_rate above 0.                *)
FaultKinds == {"loss", "dataloss", "dup", "reorder", "early", "drop"}

ASSUME ShamAssumption ==
  /\ SeqSpace \in Nat \ {0}
  /\ Capacity \in Nat
  /\ Faults \subseteq FaultKinds

Wrap(n) == n % SeqSpace

SeqNum == 0 .. SeqSpace - 1

(* 0x1, 0x2, 0x4 of sham.h and the 0x8 that both programs write in place.  *)
Flag == {"SYN", "ACK", "FIN", "NAME"}

Header == [seq : SeqNum, ack : SeqNum, flags : SUBSET Flag]

Hdr(seq, ack, flags) == [seq |-> seq, ack |-> ack, flags |-> flags]

(* len bytes of the file being sent from offset off, or the len bytes of   *)
(* the output name, or nothing behind the header.                          *)
Body == [src : {"none", "name", "file"}, off : Nat, len : Nat]

NoBody == [src |-> "none", off |-> 0, len |-> 0]

Packet == [hdr : Header, body : Body]

Pkt(hdr, body) == [hdr |-> hdr, body |-> body]

-----------------------------------------------------------------------------
(* One direction of the network is the sequence of datagrams in flight.    *)

(* sendto: a datagram that finds no room is gone, and nobody is told.      *)
Send(q, p) == IF Len(q) < Capacity THEN Append(q, p) ELSE q

(* recvfrom takes p out of q and leaves rest.                              *)
Receive(q, p, rest) ==
  \E i \in 1 .. Len(q) :
    /\ i = 1 \/ "reorder" \in Faults
    /\ p = q[i]
    /\ \/ rest = RemoveAt(q, i)
       \/ "dup" \in Faults /\ rest = q

InFlight(q) == {q[i] : i \in 1 .. Len(q)}

=============================================================================

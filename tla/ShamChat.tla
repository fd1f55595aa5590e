------------------------------ MODULE ShamChat ------------------------------
(***************************************************************************)
(* The chat mode of networking/client.c and networking/server.c: on each   *)
(* side a loop around select over the standard input and the socket, and   *)
(* a teardown that no longer waits for anything, for the sockets do not    *)
(* block any more.                                                         *)
(*                                                                         *)
(* The k-th line of a user is the number k.  Sequence numbers, which chat  *)
(* mode sends and never reads, are left out.                               *)
(***************************************************************************)
EXTENDS Sham

CONSTANTS
  Source,     \* a user's standard input: "tty" or "pipe"
  MaxLines    \* bound: the lines a user types

Side == {"client", "server"}

ASSUME ShamChatAssumption ==
  /\ Source \in [Side -> {"tty", "pipe"}]
  /\ MaxLines \in Nat

VARIABLES
  pc,                 \* where each program is
  typed, quit,        \* the lines typed; the last of them is /quit
  input,              \* whether the user's input goes on
  read, taken,        \* lines read into the buffer of stdin; out of it
  atEof,              \* stdio has seen the end of the input
  buffer,             \* the line in the program's buffer, Unset at first
  ready,              \* what select has found
  net,                \* the datagrams under way to each side
  shown,              \* the lines a side has shown
  lost                \* history: lines that have not arrived

user == <<typed, quit, input>>
stdin == <<read, taken, atEof, buffer>>
history == <<shown, lost>>
vars == <<pc, user, stdin, ready, net, history>>

Other(s) == CHOOSE o \in Side : o # s

Line == 1 .. MaxLines

Unset == 0    \* what happens to be in the buffer before the first line

NoLine == -1  \* nothing behind the header

Signal(flags) == [flags |-> flags, line |-> NoLine]

Says(line) == [flags |-> {}, line |-> line]

Datagram == [flags : SUBSET {"SYN", "ACK", "FIN"}, line : Line \cup {Unset, NoLine}]

Ready == {"stdin", "socket"}

Place == {"syn", "synack", "listen", "ack", "select", "input", "socket",
          "fin", "ackfin", "recv1", "recv2", "recv", "done"}

TypeOK ==
  /\ pc \in [Side -> Place]
  /\ typed \in [Side -> 0 .. MaxLines]
  /\ quit \in [Side -> BOOLEAN]
  /\ input \in [Side -> {"open", "ended", "goes on"}]
  /\ atEof \in [Side -> BOOLEAN]
  /\ read \in [Side -> Nat]
  /\ taken \in [Side -> Nat]
  /\ \A s \in Side : taken[s] <= read[s] /\ read[s] <= typed[s]
  /\ buffer \in [Side -> Line \cup {Unset}]
  /\ ready \in [Side -> SUBSET Ready]
  /\ net \in [Side -> Seq(Datagram)]
  /\ \A s \in Side : Len(net[s]) <= Capacity
  /\ shown \in [Side -> Seq(Line \cup {Unset, NoLine})]
  /\ lost \in [Side -> SUBSET (Line \cup {Unset})]

Init ==
  /\ pc = [s \in Side |-> IF s = "client" THEN "syn" ELSE "listen"]
  /\ typed = [s \in Side |-> 0]
  /\ quit = [s \in Side |-> FALSE]
  /\ input = [s \in Side |-> "open"]
  /\ atEof = [s \in Side |-> FALSE]
  /\ read = [s \in Side |-> 0]
  /\ taken = [s \in Side |-> 0]
  /\ buffer = [s \in Side |-> Unset]
  /\ ready = [s \in Side |-> {}]
  /\ net = [s \in Side |-> <<>>]
  /\ shown = [s \in Side |-> <<>>]
  /\ lost = [s \in Side |-> {}]

At(s, place) == pc[s] = place

Goto(s, place) == pc' = [pc EXCEPT ![s] = place]

-----------------------------------------------------------------------------
(* The network.  What is sent to a program that has ended is gone.         *)
Arrives(o) == pc[o] # "done" /\ Len(net[o]) < Capacity

Sends(s, datagram) ==
  net' = [net EXCEPT ![Other(s)] =
            IF Arrives(Other(s)) THEN Send(@, datagram) ELSE @]

Receives(s, datagram) ==
  \E rest \in {net[s]} \cup {RemoveAt(net[s], i) : i \in 1 .. Len(net[s])} :
    /\ Receive(net[s], datagram, rest)
    /\ net' = [net EXCEPT ![s] = rest]

(* recvfrom on a socket that does not block.                               *)
MayReceive(s) ==
  IF net[s] = <<>> THEN UNCHANGED net
  ELSE \E datagram \in InFlight(net[s]) : Receives(s, datagram)

(* A line is lost on its way.                                              *)
Loses(s) ==
  /\ Faults \cap {"dataloss", "loss"} # {}
  /\ \E i \in 1 .. Len(net[s]) :
       /\ net[s][i].line # NoLine
       /\ net' = [net EXCEPT ![s] = RemoveAt(net[s], i)]
       /\ lost' = [lost EXCEPT ![s] = @ \cup {net[s][i].line}]
  /\ UNCHANGED <<pc, user, stdin, ready, shown>>

-----------------------------------------------------------------------------
(* The users.                                                              *)
Types(s) ==
  /\ input[s] = "open" /\ ~quit[s]
  /\ typed[s] < MaxLines
  /\ typed' = [typed EXCEPT ![s] = @ + 1]
  /\ \E last \in BOOLEAN : quit' = [quit EXCEPT ![s] = last]
  /\ UNCHANGED <<pc, input, stdin, ready, net, history>>

(* A pipe is closed, or the user of a terminal types ^D.                   *)
Closes(s) ==
  /\ input[s] = "open"
  /\ input' = [input EXCEPT ![s] = "ended"]
  /\ UNCHANGED <<pc, typed, quit, stdin, ready, net, history>>

(* What is typed behind a ^D stays in the terminal: stdio, once it has     *)
(* seen an end, reads no more.                                             *)
TypesOn(s) ==
  /\ Source[s] = "tty" /\ atEof[s] /\ input[s] = "ended"
  /\ input' = [input EXCEPT ![s] = "goes on"]
  /\ UNCHANGED <<pc, typed, quit, stdin, ready, net, history>>

-----------------------------------------------------------------------------
(* The handshake of both main functions.                                   *)
SendsSyn ==
  /\ At("client", "syn")
  /\ Sends("client", Signal({"SYN"}))
  /\ Goto("client", "synack")
  /\ UNCHANGED <<user, stdin, ready, history>>

(* The answer to a datagram that was waited for, whatever is in it.        *)
Answers(s, place, answer, next) ==
  /\ At(s, place)
  /\ \E datagram \in InFlight(net[s]), i \in 1 .. Len(net[s]) :
       /\ Receive(net[s], datagram, RemoveAt(net[s], i))
       /\ net' = [net EXCEPT ![s] = RemoveAt(@, i),
                             ![Other(s)] = Send(@, Signal(answer))]
  /\ Goto(s, next)
  /\ UNCHANGED <<user, stdin, ready, history>>

TakesAck ==
  /\ At("server", "ack")
  /\ \E datagram \in InFlight(net["server"]) : Receives("server", datagram)
  /\ Goto("server", "select")
  /\ UNCHANGED <<user, stdin, ready, history>>

-----------------------------------------------------------------------------
(* chat_mode.                                                              *)

(* An end is there to be read: that of a pipe for ever, a ^D once.         *)
AtEnd(s) ==
  \/ input[s] = "ended" /\ (Source[s] = "pipe" \/ ~atEof[s])
  \/ input[s] = "goes on"

(* Mutant of Readable: FD_ZERO comes behind FD_SET(STDIN_FILENO).          *)
ReadableMutant(s) == {r \in Ready : r = "socket" /\ net[s] # <<>>}

(* select sees what the kernel has, not what stdio has read already.       *)
Readable(s) ==
  {r \in Ready : \/ r = "stdin" /\ (typed[s] > read[s] \/ AtEnd(s))
                 \/ r = "socket" /\ net[s] # <<>>}

Selects(s) ==
  /\ At(s, "select")
  /\ Readable(s) # {}
  /\ ready' = [ready EXCEPT ![s] = Readable(s)]
  /\ Goto(s, IF "stdin" \in Readable(s) THEN "input" ELSE "socket")
  /\ UNCHANGED <<user, stdin, net, history>>

(* Mutant of Refill: it is taken for granted that there is a line.         *)
RefillUnchecked(s) == read[s] + 1

(* The lines in the buffer of stdin once it is refilled: a terminal gives  *)
(* one line at a time, a pipe all that is in it.                           *)
Refill(s) ==
  IF Source[s] = "tty" /\ typed[s] > read[s] THEN read[s] + 1 ELSE typed[s]

(* Mutant of NextLine: the line read last comes first.                    *)
NextLineMutant(s) == read'[s]

NextLine(s) == taken[s] + 1

(* fgets takes a line out of the buffer of stdin, refilled if need be; at  *)
(* the end of the input it leaves the program's buffer as it was.          *)
Fgets(s) ==
  /\ read' = [read EXCEPT ![s] = IF taken[s] < @ THEN @ ELSE Refill(s)]
  /\ atEof' = [atEof EXCEPT ![s] = @ \/ taken[s] = read'[s]]
  /\ IF taken[s] < read'[s]
     THEN /\ taken' = [taken EXCEPT ![s] = NextLine(s)]
          /\ buffer' = [buffer EXCEPT ![s] = NextLine(s)]
     ELSE UNCHANGED <<taken, buffer>>

IsQuit(s, line) == quit[s] /\ line = typed[s]

(* The input half of the loop's body.                                      *)
HandlesInput(s) ==
  /\ At(s, "input")
  /\ Fgets(s)
  /\ LET line == buffer'[s]
     IN  \/ /\ IsQuit(s, line)
            /\ Goto(s, "fin")
            /\ UNCHANGED <<net, lost>>
         \/ /\ ~IsQuit(s, line)
            /\ Sends(s, Says(line))
            /\ lost' = [lost EXCEPT ![Other(s)] =
                          IF Arrives(Other(s)) THEN @ ELSE @ \cup {line}]
            /\ Goto(s, IF "socket" \in ready[s] THEN "socket" ELSE "select")
  /\ ready' = [ready EXCEPT ![s] = @ \ {"stdin"}]
  /\ UNCHANGED <<user, shown>>

(* A line that is shown again and again is written down once.              *)
Shows(s, line) ==
  shown' = [shown EXCEPT ![s] =
              IF @ # <<>> /\ Last(@) = line THEN @ ELSE Append(@, line)]

IsFin(datagram) == "FIN" \in datagram.flags

(* The socket half.  An ACK is shown as an empty line.  recvfrom may find  *)
(* nothing, for the loss of a datagram shows only when it is read.         *)
HandlesSocket(s) ==
  /\ At(s, "socket")
  /\ \/ /\ net[s] = <<>>
        /\ Goto(s, "select")
        /\ UNCHANGED <<net, shown>>
     \/ \E datagram \in InFlight(net[s]) :
          /\ Receives(s, datagram)
          /\ \/ IsFin(datagram) /\ Goto(s, "fin") /\ UNCHANGED shown
             \/ ~IsFin(datagram) /\ Shows(s, datagram.line) /\ Goto(s, "select")
  /\ ready' = [ready EXCEPT ![s] = {}]
  /\ UNCHANGED <<user, stdin, lost>>

-----------------------------------------------------------------------------
(* The teardown of both main functions.                                    *)
Ends(s) == Goto(s, "done")

ClientSendsFin ==
  /\ At("client", "fin")
  /\ Sends("client", Signal({"FIN"}))
  /\ Goto("client", "recv1")
  /\ UNCHANGED <<user, stdin, ready, history>>

ClientReceives ==
  /\ \/ At("client", "recv1") /\ Goto("client", "recv2")
     \/ At("client", "recv2") /\ Goto("client", "ackfin")
  /\ MayReceive("client")
  /\ UNCHANGED <<user, stdin, ready, history>>

ClientEnds ==
  /\ At("client", "ackfin")
  /\ Sends("client", Signal({"ACK"}))
  /\ Ends("client")
  /\ UNCHANGED <<user, stdin, ready, history>>

(* Mutant of ServerFlags: the server sends no FIN of its own.              *)
ServerFlagsMutant == {"ACK"}

ServerFlags == IF At("server", "fin") THEN {"ACK"} ELSE {"FIN"}

ServerSends ==
  /\ \/ At("server", "fin") /\ Goto("server", "ackfin")
     \/ At("server", "ackfin") /\ Goto("server", "recv")
  /\ Sends("server", Signal(ServerFlags))
  /\ UNCHANGED <<user, stdin, ready, history>>

ServerEnds ==
  /\ At("server", "recv")
  /\ MayReceive("server")
  /\ Ends("server")
  /\ UNCHANGED <<user, stdin, ready, history>>

-----------------------------------------------------------------------------
Chat(s) == Selects(s) \/ HandlesInput(s) \/ HandlesSocket(s)

Client ==
  \/ SendsSyn \/ Answers("client", "synack", {"ACK"}, "select")
  \/ Chat("client")
  \/ ClientSendsFin \/ ClientReceives \/ ClientEnds

Server ==
  \/ Answers("server", "listen", {"SYN", "ACK"}, "ack") \/ TakesAck
  \/ Chat("server")
  \/ ServerSends \/ ServerEnds

Next ==
  \/ Client
  \/ Server
  \/ \E s \in Side : Types(s) \/ Closes(s) \/ TypesOn(s) \/ Loses(s)

(* Both programs go on where they can; users and losses need not happen.   *)
Spec == Init /\ [][Next]_vars /\ WF_vars(Client) /\ WF_vars(Server)

-----------------------------------------------------------------------------
(* What a chat promises, as long as the network keeps the order and loses  *)
(* nothing but lines.                                                      *)

Leaving(s) == pc[s] \in {"fin", "ackfin", "recv1", "recv2", "recv", "done"}

TookQuit(s) == quit[s] /\ taken[s] = typed[s]

(* client.c:169-186 and server.c:188-206: the lines of a side are shown in *)
(* the order in which they were typed; and whoever leaves because the      *)
(* other has quit has first shown every line that was typed before the     *)
(* /quit and not lost.                                                     *)
ShownInOrder(s) ==
  \A i, j \in DOMAIN shown[s] :
    i < j /\ shown[s][i] # NoLine /\ shown[s][j] # NoLine =>
      shown[s][i] < shown[s][j]

ShownBeforeLeaving(s) ==
  Leaving(s) /\ ~TookQuit(s) /\ TookQuit(Other(s)) =>
    1 .. typed[Other(s)] - 1 \subseteq ToSet(shown[s]) \cup lost[s]

LinesGetThrough == \A s \in Side : ShownInOrder(s) /\ ShownBeforeLeaving(s)

(* client.c:166-170 and server.c:185-189: when a side waits for its user,  *)
(* every line typed has been taken and sent, unless the lines come through *)
(* a pipe; then stdio may hold back all but the first it has read.         *)
HeldBack(s) ==
  At(s, "select") /\ "stdin" \notin Readable(s) =>
    \/ taken[s] = typed[s]
    \/ Source[s] = "pipe" /\ taken[s] > 0

OnlyPipesHoldBack == \A s \in Side : HeldBack(s)

(* client.c:172-184, server.c:191-205 and both teardowns: a /quit on       *)
(* either side ends both programs, also when both sides quit at once or    *)
(* one floods the other after the end of its input.  A /quit that comes    *)
(* through a pipe may be held back until the pipe is closed.               *)
QuitEndsBoth ==
  \A s \in Side :
    quit[s] /\ (Source[s] = "tty" \/ input[s] = "ended")
      ~> At("client", "done") /\ At("server", "done")

=============================================================================

--------------------------- MODULE ShamChatProofs ---------------------------
(***************************************************************************)
(* What a chat promises, for users, sources of input, lines and networks   *)
(* of every size.                                                          *)
(***************************************************************************)
EXTENDS ShamChat, FoldProofs

(* There are two sides.                                                    *)
LEMMA Sides ==
  /\ Other("client") = "server" /\ Other("server") = "client"
  /\ \A s \in Side : Other(s) \in Side /\ Other(s) # s /\ Other(Other(s)) = s
  /\ \A s, t \in Side : t = s \/ t = Other(s)
<1>1. Other("client") = "server" /\ Other("server") = "client"
  BY DEF Other, Side
<1> QED
  BY <1>1 DEF Side

-----------------------------------------------------------------------------
(* The network.                                                            *)
Queues ==
  /\ net \in [Side -> Seq(Datagram)]
  /\ \A s \in Side : Len(net[s]) <= Capacity

LEMMA MakesDatagram ==
  /\ \A f \in SUBSET {"SYN", "ACK", "FIN"} : Signal(f) \in Datagram
  /\ \A l \in Line \cup {Unset} : Says(l) \in Datagram
  /\ \A d \in Datagram : d.line \in Line \cup {Unset, NoLine}
BY DEF Datagram, Signal, Says

(* sendto, towards a program that may have ended.                          *)
LEMMA SendsEffect ==
  ASSUME Queues, NEW s \in Side, NEW d \in Datagram, Sends(s, d)
  PROVE  /\ Queues'
         /\ net'[s] = net[s]
         /\ net'[Other(s)] = IF Arrives(Other(s)) THEN Append(net[Other(s)], d)
                                                  ELSE net[Other(s)]
<1>1. Other(s) \in Side /\ Other(s) # s
  BY Sides
<1>2. /\ net' = [net EXCEPT ![Other(s)] = net'[Other(s)]]
      /\ net'[Other(s)] = IF Arrives(Other(s)) THEN Append(net[Other(s)], d)
                                               ELSE net[Other(s)]
  BY <1>1 DEF Sends, Send, Arrives, Queues
<1>3. /\ Append(net[Other(s)], d) \in Seq(Datagram)
      /\ Len(Append(net[Other(s)], d)) = Len(net[Other(s)]) + 1
  BY <1>1 DEF Queues
<1>4. Arrives(Other(s)) => Len(net[Other(s)]) + 1 <= Capacity
  BY <1>1, ShamAssumption DEF Arrives, Queues
<1> QED
  BY <1>1, <1>2, <1>3, <1>4 DEF Queues

(* recvfrom.                                                               *)
LEMMA ReceivesEffect ==
  ASSUME Queues, NEW s \in Side, NEW d, Receives(s, d)
  PROVE  /\ Queues'
         /\ net'[Other(s)] = net[Other(s)]
         /\ \E i \in 1 .. Len(net[s]) :
              /\ i = 1 \/ "reorder" \in Faults
              /\ d = net[s][i]
              /\ \/ net'[s] = RemoveAt(net[s], i)
                 \/ "dup" \in Faults /\ net'[s] = net[s]
<1>1. Other(s) \in Side /\ Other(s) # s
  BY Sides
<1>2. PICK rest : Receive(net[s], d, rest) /\ net' = [net EXCEPT ![s] = rest]
  BY DEF Receives
<1>3. PICK i \in 1 .. Len(net[s]) :
         /\ i = 1 \/ "reorder" \in Faults
         /\ d = net[s][i]
         /\ \/ rest = RemoveAt(net[s], i)
            \/ "dup" \in Faults /\ rest = net[s]
  BY <1>2 DEF Receive
<1>4. net[s] \in Seq(Datagram) /\ Len(net[s]) <= Capacity
  BY DEF Queues
<1>5. /\ RemoveAt(net[s], i) \in Seq(Datagram)
      /\ Len(RemoveAt(net[s], i)) = Len(net[s]) - 1
  BY <1>4, RemoveAtEntries
<1>6. rest \in Seq(Datagram) /\ Len(rest) <= Capacity
  BY <1>3, <1>4, <1>5, ShamAssumption
<1>7. Queues' /\ net'[s] = rest /\ net'[Other(s)] = net[Other(s)]
  BY <1>1, <1>2, <1>6 DEF Queues
<1> QED
  BY <1>3, <1>7

LEMMA MayReceiveEffect ==
  ASSUME Queues, NEW s \in Side, MayReceive(s)
  PROVE  /\ Queues'
         /\ net'[Other(s)] = net[Other(s)]
         /\ \/ net'[s] = net[s]
            \/ \E i \in 1 .. Len(net[s]) :
                 /\ i = 1 \/ "reorder" \in Faults
                 /\ net'[s] = RemoveAt(net[s], i)
<1>1. CASE net[s] = <<>>
  BY <1>1 DEF MayReceive, Queues
<1>2. ASSUME NEW d, Receives(s, d)
      PROVE  /\ Queues'
             /\ net'[Other(s)] = net[Other(s)]
             /\ \/ net'[s] = net[s]
                \/ \E i \in 1 .. Len(net[s]) :
                     /\ i = 1 \/ "reorder" \in Faults
                     /\ net'[s] = RemoveAt(net[s], i)
  BY <1>2, ReceivesEffect
<1> QED
  BY <1>1, <1>2 DEF MayReceive

(* A datagram is lost.                                                     *)
LEMMA LosesEffect ==
  ASSUME Queues, NEW s \in Side, Loses(s)
  PROVE  /\ Queues'
         /\ net'[Other(s)] = net[Other(s)]
         /\ \E i \in 1 .. Len(net[s]) :
              /\ net[s][i].line # NoLine
              /\ net'[s] = RemoveAt(net[s], i)
              /\ lost' = [lost EXCEPT ![s] = @ \cup {net[s][i].line}]
<1>1. Other(s) \in Side /\ Other(s) # s
  BY Sides
<1>2. PICK i \in 1 .. Len(net[s]) :
         /\ net[s][i].line # NoLine
         /\ net' = [net EXCEPT ![s] = RemoveAt(net[s], i)]
         /\ lost' = [lost EXCEPT ![s] = @ \cup {net[s][i].line}]
  BY DEF Loses
<1>3. net[s] \in Seq(Datagram) /\ Len(net[s]) <= Capacity
  BY DEF Queues
<1>4. /\ RemoveAt(net[s], i) \in Seq(Datagram)
      /\ Len(RemoveAt(net[s], i)) = Len(net[s]) - 1
  BY <1>3, RemoveAtEntries
<1>5. Len(RemoveAt(net[s], i)) <= Capacity
  BY <1>3, <1>4, ShamAssumption
<1>6. Queues' /\ net'[s] = RemoveAt(net[s], i) /\ net'[Other(s)] = net[Other(s)]
  BY <1>1, <1>2, <1>4, <1>5 DEF Queues
<1> QED
  BY <1>2, <1>6

(* The answers of the handshake.                                           *)
LEMMA AnswersEffect ==
  ASSUME Queues, NEW s \in Side, NEW f \in SUBSET {"SYN", "ACK", "FIN"},
         NEW place, NEW next, Answers(s, place, f, next)
  PROVE  /\ Queues'
         /\ net'[Other(s)] = Send(net[Other(s)], Signal(f))
         /\ \E i \in 1 .. Len(net[s]) : net'[s] = RemoveAt(net[s], i)
<1>1. Other(s) \in Side /\ Other(s) # s
  BY Sides
<1>2. PICK i \in 1 .. Len(net[s]) :
         net' = [net EXCEPT ![s] = RemoveAt(@, i),
                            ![Other(s)] = Send(@, Signal(f))]
  BY DEF Answers
<1>3. net[s] \in Seq(Datagram) /\ Len(net[s]) <= Capacity
  BY DEF Queues
<1>4. /\ RemoveAt(net[s], i) \in Seq(Datagram)
      /\ Len(RemoveAt(net[s], i)) = Len(net[s]) - 1
  BY <1>3, RemoveAtEntries
<1>5. Len(RemoveAt(net[s], i)) <= Capacity
  BY <1>3, <1>4, ShamAssumption
<1>6. /\ Send(net[Other(s)], Signal(f)) \in Seq(Datagram)
      /\ Len(Send(net[Other(s)], Signal(f))) <= Capacity
  BY <1>1, MakesDatagram, ShamAssumption DEF Send, Queues
<1>7. /\ net'[s] = RemoveAt(net[s], i)
      /\ net'[Other(s)] = Send(net[Other(s)], Signal(f))
      /\ net' \in [Side -> Seq(Datagram)]
  BY <1>1, <1>2, <1>4, <1>6 DEF Queues
<1>8. \A t \in Side : Len(net'[t]) <= Capacity
  BY <1>5, <1>6, <1>7, Sides
<1> QED
  BY <1>7, <1>8 DEF Queues

-----------------------------------------------------------------------------
(* Type correctness.                                                       *)
PcTyped == pc \in [Side -> Place]

UserTyped ==
  /\ typed \in [Side -> 0 .. MaxLines]
  /\ quit \in [Side -> BOOLEAN]
  /\ input \in [Side -> {"open", "ended", "goes on"}]

StdinTyped ==
  /\ atEof \in [Side -> BOOLEAN]
  /\ read \in [Side -> Nat]
  /\ taken \in [Side -> Nat]
  /\ \A s \in Side : taken[s] <= read[s] /\ read[s] <= typed[s]
  /\ buffer \in [Side -> Line \cup {Unset}]

HistoryTyped ==
  /\ shown \in [Side -> Seq(Line \cup {Unset, NoLine})]
  /\ lost \in [Side -> SUBSET (Line \cup {Unset})]

ReadyTyped == ready \in [Side -> SUBSET Ready]

LEMMA TypeParts ==
  TypeOK <=> PcTyped /\ UserTyped /\ StdinTyped /\ Queues /\ HistoryTyped /\ ReadyTyped
BY DEF TypeOK, PcTyped, UserTyped, StdinTyped, Queues, HistoryTyped, ReadyTyped

(* fgets hands out a line that has been typed, or leaves the buffer as it  *)
(* was.                                                                    *)
LEMMA FgetsEffect ==
  ASSUME UserTyped, StdinTyped, NEW s \in Side, Fgets(s), UNCHANGED user
  PROVE  /\ StdinTyped'
         /\ read[s] <= read'[s]
         /\ \/ taken'[s] = taken[s] + 1 /\ buffer'[s] = taken'[s]
            \/ taken'[s] = taken[s] /\ buffer'[s] = buffer[s] /\ read'[s] = taken[s]
         /\ Source[s] = "tty" /\ taken[s] = read[s] => taken'[s] = read'[s]
         /\ \A t \in Side : t # s =>
              read'[t] = read[t] /\ taken'[t] = taken[t] /\ buffer'[t] = buffer[t]
<1>1. /\ taken[s] \in Nat /\ read[s] \in Nat /\ typed[s] \in Nat
      /\ taken[s] <= read[s] /\ read[s] <= typed[s] /\ typed[s] <= MaxLines
  <2>1. typed[s] \in 0 .. MaxLines /\ MaxLines \in Nat
    BY ShamChatAssumption DEF UserTyped
  <2> QED
    BY <2>1 DEF StdinTyped
<1>2. /\ Refill(s) \in Nat /\ read[s] <= Refill(s) /\ Refill(s) <= typed[s]
      /\ Source[s] = "tty" => Refill(s) \in {read[s], read[s] + 1}
  BY <1>1 DEF Refill
<1>3. /\ read'[s] \in Nat /\ read[s] <= read'[s] /\ read'[s] <= typed[s]
      /\ read' = [read EXCEPT ![s] = read'[s]]
      /\ Source[s] = "tty" => read'[s] \in {read[s], read[s] + 1}
  BY <1>1, <1>2 DEF Fgets, StdinTyped
<1>4. atEof' \in [Side -> BOOLEAN]
  BY DEF Fgets, StdinTyped
<1>5. CASE taken[s] < read'[s]
  <2>1. taken' = [taken EXCEPT ![s] = taken[s] + 1] /\ taken[s] + 1 <= read'[s]
    BY <1>1, <1>3, <1>5 DEF Fgets, NextLine
  <2>2. buffer' = [buffer EXCEPT ![s] = taken[s] + 1] /\ taken[s] + 1 \in Line
    BY <1>1, <1>3, <1>5, ShamChatAssumption DEF Fgets, NextLine, Line
  <2>3. /\ taken'[s] = taken[s] + 1 /\ buffer'[s] = taken'[s]
        /\ \A t \in Side : t # s =>
              read'[t] = read[t] /\ taken'[t] = taken[t] /\ buffer'[t] = buffer[t]
    BY <1>3, <2>1, <2>2 DEF StdinTyped
  <2>4. /\ read' \in [Side -> Nat] /\ taken' \in [Side -> Nat]
        /\ buffer' \in [Side -> Line \cup {Unset}]
    BY <1>1, <1>3, <2>1, <2>2 DEF StdinTyped
  <2>5. typed' = typed
    BY DEF user
  <2>6. \A t \in Side : taken'[t] <= read'[t] /\ read'[t] <= typed'[t]
    BY <1>1, <1>3, <2>1, <2>3, <2>5 DEF StdinTyped
  <2>7. Source[s] = "tty" /\ taken[s] = read[s] => taken'[s] = read'[s]
    BY <1>1, <1>3, <1>5, <2>3
  <2> QED
    BY <1>3, <1>4, <2>3, <2>4, <2>6, <2>7 DEF StdinTyped
<1>6. CASE ~(taken[s] < read'[s])
  <2>1. taken' = taken /\ buffer' = buffer
    BY <1>6 DEF Fgets
  <2>2. read'[s] = taken[s]
    BY <1>1, <1>3, <1>6
  <2>3. read' \in [Side -> Nat] /\ \A t \in Side : t # s => read'[t] = read[t]
    BY <1>1, <1>3 DEF StdinTyped
  <2>4. typed' = typed
    BY DEF user
  <2>5. \A t \in Side : taken'[t] <= read'[t] /\ read'[t] <= typed'[t]
    BY <1>1, <1>3, <2>1, <2>2, <2>3, <2>4 DEF StdinTyped
  <2> QED
    BY <1>3, <1>4, <2>1, <2>2, <2>3, <2>5 DEF StdinTyped
<1> QED
  BY <1>5, <1>6

LEMMA InitTyped == Init => TypeOK
<1> SUFFICES ASSUME Init PROVE TypeOK
  OBVIOUS
<1>1. \A s \in Side : Len(net[s]) <= Capacity
  BY ShamAssumption DEF Init
<1> QED
  BY <1>1, ShamChatAssumption
     DEF Init, TypeOK, Side, Place, Line, Unset, NoLine, Ready

LEMMA TypeStep == TypeOK /\ [Next]_vars => TypeOK'
<1> SUFFICES ASSUME TypeOK, [Next]_vars PROVE TypeOK'
  OBVIOUS
<1>0. PcTyped /\ UserTyped /\ StdinTyped /\ Queues /\ HistoryTyped /\ ReadyTyped
  BY TypeParts
<1>a. /\ "client" \in Side /\ "server" \in Side
      /\ Other("client") \in Side /\ Other("server") \in Side
  BY Sides DEF Side
<1>b. ASSUME NEW s \in Side, NEW place \in Place, Goto(s, place) PROVE PcTyped'
  BY <1>0, <1>b DEF Goto, PcTyped
<1>c. UNCHANGED user => UserTyped'
  BY <1>0 DEF user, UserTyped
<1>d. UNCHANGED stdin /\ UNCHANGED user => StdinTyped'
  BY <1>0 DEF user, stdin, StdinTyped
<1>e. UNCHANGED history => HistoryTyped'
  BY <1>0 DEF history, HistoryTyped
<1>f. UNCHANGED ready => ReadyTyped'
  BY <1>0 DEF ReadyTyped
<1>g. UNCHANGED net => Queues'
  BY <1>0 DEF Queues
<1>h. UNCHANGED pc => PcTyped'
  BY <1>0 DEF PcTyped
<1>i. Queues' /\ PcTyped' /\ UNCHANGED <<user, stdin, ready, history>> => TypeOK'
  <2> SUFFICES ASSUME Queues', PcTyped', UNCHANGED <<user, stdin, ready, history>>
               PROVE  TypeOK'
    OBVIOUS
  <2>1. UNCHANGED user /\ UNCHANGED stdin /\ UNCHANGED ready /\ UNCHANGED history
    OBVIOUS
  <2>2. UserTyped' /\ StdinTyped' /\ ReadyTyped' /\ HistoryTyped'
    BY <1>c, <1>d, <1>e, <1>f, <2>1
  <2> QED
    BY <2>2, TypeParts, PTL
<1>1. ASSUME SendsSyn PROVE TypeOK'
  <2>1. Queues' /\ PcTyped'
    BY <1>0, <1>1, <1>a, <1>b, SendsEffect, MakesDatagram DEF SendsSyn, Place
  <2> QED
    BY <1>1, <1>i, <2>1 DEF SendsSyn
<1>2. ASSUME NEW s \in Side, NEW f \in SUBSET {"SYN", "ACK", "FIN"},
             NEW place, NEW next \in Place, Answers(s, place, f, next)
      PROVE  TypeOK'
  <2>1. Queues'
    BY <1>0, <1>2, AnswersEffect
  <2>2. PcTyped'
    BY <1>2, <1>b DEF Answers
  <2> QED
    BY <1>2, <1>i, <2>1, <2>2 DEF Answers
<1>3. ASSUME TakesAck PROVE TypeOK'
  <2>1. PICK d : Receives("server", d)
    BY <1>3 DEF TakesAck
  <2>2. Queues' /\ PcTyped'
    BY <1>0, <1>3, <1>a, <1>b, <2>1, ReceivesEffect DEF TakesAck, Place
  <2> QED
    BY <1>3, <1>i, <2>2 DEF TakesAck
<1>4. ASSUME ClientSendsFin \/ ClientEnds PROVE TypeOK'
  <2>1. PICK f \in SUBSET {"SYN", "ACK", "FIN"} : Sends("client", Signal(f))
    BY <1>4 DEF ClientSendsFin, ClientEnds
  <2>2. Queues'
    BY <1>0, <1>a, <2>1, SendsEffect, MakesDatagram
  <2>3. PcTyped'
    BY <1>4, <1>a, <1>b DEF ClientSendsFin, ClientEnds, Ends, Place
  <2> QED
    BY <1>4, <1>i, <2>2, <2>3 DEF ClientSendsFin, ClientEnds
<1>5. ASSUME ServerSends PROVE TypeOK'
  <2>1. ServerFlags \in SUBSET {"SYN", "ACK", "FIN"}
    BY DEF ServerFlags
  <2>2. Queues'
    BY <1>0, <1>5, <1>a, <2>1, SendsEffect, MakesDatagram DEF ServerSends
  <2>3. PcTyped'
    BY <1>5, <1>a, <1>b DEF ServerSends, Place
  <2> QED
    BY <1>5, <1>i, <2>2, <2>3 DEF ServerSends
<1>6. ASSUME ClientReceives \/ ServerEnds PROVE TypeOK'
  <2>1. Queues'
    BY <1>0, <1>6, <1>a, MayReceiveEffect DEF ClientReceives, ServerEnds
  <2>2. PcTyped'
    BY <1>6, <1>a, <1>b DEF ClientReceives, ServerEnds, Ends, Place
  <2> QED
    BY <1>6, <1>i, <2>1, <2>2 DEF ClientReceives, ServerEnds
<1>7. ASSUME NEW s \in Side, Selects(s) PROVE TypeOK'
  <2>1. PcTyped'
    BY <1>7, <1>b DEF Selects, Place
  <2>2. ReadyTyped'
    BY <1>0, <1>7 DEF Selects, Readable, ReadyTyped
  <2>3. UNCHANGED user /\ UNCHANGED stdin /\ UNCHANGED net /\ UNCHANGED history
    BY <1>7 DEF Selects
  <2>4. UserTyped' /\ StdinTyped' /\ Queues' /\ HistoryTyped'
    BY <1>c, <1>d, <1>e, <1>g, <2>3
  <2> QED
    BY <2>1, <2>2, <2>4, TypeParts, PTL
<1>8. ASSUME NEW s \in Side, HandlesInput(s) PROVE TypeOK'
  <2>1. UNCHANGED user /\ Fgets(s) /\ shown' = shown
    BY <1>8 DEF HandlesInput
  <2>2. UserTyped' /\ StdinTyped'
    BY <1>0, <1>c, <2>1, FgetsEffect
  <2>3. PcTyped'
    BY <1>8, <1>b DEF HandlesInput, Place
  <2>4. ReadyTyped'
    BY <1>0, <1>8 DEF HandlesInput, ReadyTyped
  <2>5. buffer'[s] \in Line \cup {Unset} /\ Other(s) \in Side
    BY <2>2, Sides DEF StdinTyped
  <2>6. Queues'
    <3>1. CASE net' = net
      BY <1>g, <3>1
    <3>2. CASE Sends(s, Says(buffer'[s]))
      BY <1>0, <2>5, <3>2, SendsEffect, MakesDatagram
    <3> QED
      BY <1>8, <3>1, <3>2 DEF HandlesInput
  <2>7. HistoryTyped'
    <3>1. \/ lost' = lost
          \/ lost' = [lost EXCEPT ![Other(s)] = @ \cup {buffer'[s]}]
      BY <1>0, <1>8 DEF HandlesInput, HistoryTyped
    <3> QED
      BY <1>0, <2>1, <2>5, <3>1 DEF HistoryTyped
  <2> QED
    BY <2>2, <2>3, <2>4, <2>6, <2>7, TypeParts, PTL
<1>9. ASSUME NEW s \in Side, HandlesSocket(s) PROVE TypeOK'
  <2>1. UNCHANGED user /\ UNCHANGED stdin /\ lost' = lost
    BY <1>9 DEF HandlesSocket
  <2>2. PcTyped'
    BY <1>9, <1>b DEF HandlesSocket, Place
  <2>3. ReadyTyped'
    BY <1>0, <1>9 DEF HandlesSocket, ReadyTyped
  <2>4. Queues' /\ HistoryTyped'
    <3>1. CASE net' = net /\ shown' = shown
      BY <1>0, <1>g, <2>1, <3>1 DEF HistoryTyped
    <3>2. ASSUME NEW d \in InFlight(net[s]), Receives(s, d),
                 shown' = shown \/ Shows(s, d.line)
          PROVE  Queues' /\ HistoryTyped'
      <4>1. Queues'
        BY <1>0, <3>2, ReceivesEffect
      <4>2. d \in Datagram
        BY <1>0, <3>2 DEF InFlight, Queues
      <4>3. d.line \in Line \cup {Unset, NoLine}
        BY <4>2, MakesDatagram
      <4>4. Append(shown[s], d.line) \in Seq(Line \cup {Unset, NoLine})
        BY <1>0, <4>3 DEF HistoryTyped
      <4>5. HistoryTyped'
        BY <1>0, <2>1, <3>2, <4>4 DEF HistoryTyped, Shows
      <4> QED
        BY <4>1, <4>5
    <3> QED
      BY <1>9, <3>1, <3>2 DEF HandlesSocket
  <2>5. UserTyped' /\ StdinTyped'
    BY <1>c, <1>d, <2>1
  <2> QED
    BY <2>2, <2>3, <2>4, <2>5, TypeParts, PTL
<1>10. ASSUME NEW s \in Side, Types(s) \/ Closes(s) \/ TypesOn(s) PROVE TypeOK'
  <2>1. UNCHANGED pc /\ UNCHANGED stdin /\ UNCHANGED ready /\ UNCHANGED net
        /\ UNCHANGED history
    BY <1>10 DEF Types, Closes, TypesOn
  <2>2. UserTyped' /\ \A t \in Side : typed[t] <= typed'[t]
    <3>1. \A t \in Side : typed[t] \in 0 .. MaxLines
      BY <1>0 DEF UserTyped
    <3>4. MaxLines \in Nat
      BY ShamChatAssumption
    <3>5. typed \in [Side -> 0 .. MaxLines]
      BY <1>0 DEF UserTyped
    <3>0. DOMAIN typed = Side /\ \A t \in Side : typed[t] \in Int
      BY <3>4, <3>5
    <3>2. CASE Types(s)
      <4>1. typed[s] \in 0 .. MaxLines /\ MaxLines \in Nat
        BY <3>1, ShamChatAssumption
      <4>2. typed[s] + 1 \in 0 .. MaxLines
        BY <3>2, <4>1 DEF Types
      <4>3. typed' = [typed EXCEPT ![s] = typed[s] + 1] /\ input' = input
        BY <1>0, <3>2 DEF Types, UserTyped
      <4>4. quit' \in [Side -> BOOLEAN]
        BY <1>0, <3>2 DEF Types, UserTyped
      <4>5. typed' \in [Side -> 0 .. MaxLines]
        BY <1>0, <4>2, <4>3 DEF UserTyped
      <4>6. \A t \in Side : typed[t] <= typed'[t]
        BY <3>0, <4>3
      <4> QED
        BY <1>0, <4>3, <4>4, <4>5, <4>6 DEF UserTyped
    <3>3. CASE Closes(s) \/ TypesOn(s)
      <4>1. typed' = typed /\ quit' = quit
        BY <3>3 DEF Closes, TypesOn
      <4>2. input' \in [Side -> {"open", "ended", "goes on"}]
        BY <1>0, <3>3 DEF Closes, TypesOn, UserTyped
      <4>3. \A t \in Side : typed[t] <= typed'[t]
        BY <3>0, <4>1
      <4> QED
        BY <1>0, <4>1, <4>2, <4>3 DEF UserTyped
    <3> QED
      BY <1>10, <3>2, <3>3
  <2>3. StdinTyped'
    <3>1. \A t \in Side : typed[t] \in 0 .. MaxLines /\ typed'[t] \in 0 .. MaxLines
      BY <1>0, <2>2 DEF UserTyped
    <3>2. UNCHANGED <<atEof, read, taken, buffer>>
      BY <2>1 DEF stdin
    <3> QED
      BY <1>0, <2>2, <3>1, <3>2, ShamChatAssumption DEF StdinTyped
  <2>4. PcTyped' /\ Queues' /\ HistoryTyped' /\ ReadyTyped'
    BY <1>e, <1>f, <1>g, <1>h, <2>1
  <2> QED
    BY <2>2, <2>3, <2>4, TypeParts, PTL
<1>11. ASSUME NEW s \in Side, Loses(s) PROVE TypeOK'
  <2>1. PICK i \in 1 .. Len(net[s]) :
          /\ net[s][i].line # NoLine
          /\ lost' = [lost EXCEPT ![s] = @ \cup {net[s][i].line}]
    BY <1>0, <1>11, LosesEffect
  <2>2. net[s][i] \in Datagram
    BY <1>0 DEF Queues
  <2>3. net[s][i].line \in Line \cup {Unset}
    BY <2>1, <2>2, MakesDatagram
  <2>4. HistoryTyped'
    BY <1>0, <1>11, <2>1, <2>3 DEF HistoryTyped, Loses
  <2>5. Queues'
    BY <1>0, <1>11, LosesEffect
  <2>6. PcTyped' /\ UserTyped' /\ StdinTyped' /\ ReadyTyped'
    BY <1>11, <1>c, <1>d, <1>f, <1>h DEF Loses
  <2> QED
    BY <2>4, <2>5, <2>6, TypeParts, PTL
<1>12. ASSUME UNCHANGED vars PROVE TypeOK'
  <2>1. Queues' /\ PcTyped'
    BY <1>12, <1>g, <1>h DEF vars
  <2> QED
    BY <1>12, <1>i, <2>1 DEF vars
<1>13. Client => TypeOK'
  BY <1>1, <1>2, <1>4, <1>6, <1>7, <1>8, <1>9, <1>a DEF Client, Chat, Place
<1>14. Server => TypeOK'
  BY <1>2, <1>3, <1>5, <1>6, <1>7, <1>8, <1>9, <1>a DEF Server, Chat, Place
<1> QED
  BY <1>10, <1>11, <1>12, <1>13, <1>14 DEF Next

(* Every variable of a chat keeps its type: of the lines typed, those read *)
(* into the buffer of stdin come first, of these those taken out of it.    *)
THEOREM ChatTyped == Spec => []TypeOK
BY InitTyped, TypeStep, PTL DEF Spec

-----------------------------------------------------------------------------
(* The two buffers of the standard input: a terminal hands over no more    *)
(* than the line that is taken at once, and of what a pipe has handed over *)
(* the first line is taken at once.                                        *)
BufferInv ==
  \A s \in Side :
    /\ buffer[s] = taken[s]
    /\ Source[s] = "tty" => taken[s] = read[s]
    /\ read[s] > 0 => taken[s] > 0

LEMMA StdinStays ==
  ASSUME [Next]_vars
  PROVE  UNCHANGED stdin \/ \E s \in Side : HandlesInput(s)
BY DEF Next, Client, Server, Chat, SendsSyn, Answers, Selects, HandlesSocket,
       ClientSendsFin, ClientReceives, ClientEnds, TakesAck, ServerSends, ServerEnds,
       Types, Closes, TypesOn, Loses, vars, Side

LEMMA BufferStep == TypeOK /\ BufferInv /\ [Next]_vars => BufferInv'
<1> SUFFICES ASSUME TypeOK, BufferInv, [Next]_vars PROVE BufferInv'
  OBVIOUS
<1>1. CASE UNCHANGED stdin
  BY <1>1 DEF stdin, BufferInv
<1>2. ASSUME NEW s \in Side, HandlesInput(s) PROVE BufferInv'
  <2>1. UserTyped /\ StdinTyped /\ Fgets(s) /\ UNCHANGED user
    BY <1>2, TypeParts DEF HandlesInput
  <2>2. /\ \/ taken'[s] = taken[s] + 1 /\ buffer'[s] = taken'[s]
           \/ taken'[s] = taken[s] /\ buffer'[s] = buffer[s] /\ read'[s] = taken[s]
        /\ Source[s] = "tty" /\ taken[s] = read[s] => taken'[s] = read'[s]
        /\ \A t \in Side : t # s =>
              read'[t] = read[t] /\ taken'[t] = taken[t] /\ buffer'[t] = buffer[t]
    BY <2>1, FgetsEffect
  <2>3. taken[s] \in Nat
    BY <2>1 DEF StdinTyped
  <2>4. /\ buffer'[s] = taken'[s]
        /\ Source[s] = "tty" => taken'[s] = read'[s]
        /\ read'[s] > 0 => taken'[s] > 0
    BY <2>2, <2>3 DEF BufferInv
  <2> QED
    BY <2>2, <2>4 DEF BufferInv
<1> QED
  BY <1>1, <1>2, StdinStays

LEMMA BufferInvHolds == Spec => [](TypeOK /\ BufferInv)
<1>1. Init => BufferInv
  BY DEF Init, BufferInv, Unset
<1> QED
  BY <1>1, InitTyped, TypeStep, BufferStep, PTL DEF Spec

(* client.c:166-170 and server.c:185-189: no line of a terminal waits in   *)
(* stdio while select waits for more, and of those of a pipe never the     *)
(* first.                                                                  *)
THEOREM TerminalsAreDrained == Spec => []OnlyPipesHoldBack
<1>1. TypeOK /\ BufferInv => OnlyPipesHoldBack
  <2> SUFFICES ASSUME TypeOK, BufferInv, NEW s \in Side, "stdin" \notin Readable(s)
               PROVE  \/ taken[s] = typed[s]
                      \/ Source[s] = "pipe" /\ taken[s] > 0
    BY DEF OnlyPipesHoldBack, HeldBack
  <2>1. /\ taken[s] \in Nat /\ read[s] \in Nat /\ typed[s] \in Int
        /\ taken[s] <= read[s] /\ read[s] <= typed[s]
    <3>1. typed[s] \in 0 .. MaxLines /\ MaxLines \in Nat
      BY ShamChatAssumption, TypeParts DEF UserTyped
    <3> QED
      BY <3>1, TypeParts DEF StdinTyped
  <2>2. ~(typed[s] > read[s])
    BY DEF Readable, Ready
  <2>3. read[s] = typed[s]
    BY <2>1, <2>2
  <2>4. Source[s] = "tty" \/ Source[s] = "pipe"
    BY ShamChatAssumption
  <2> QED
    BY <2>1, <2>3, <2>4 DEF BufferInv
<1> QED
  BY <1>1, BufferInvHolds, PTL

-----------------------------------------------------------------------------
(* The order of the lines.  The network may lose lines, but neither        *)
(* reorders nor repeats them.                                              *)
Fifo == Faults \cap {"reorder", "dup"} = {}

(* s has not come to chat mode yet; the first datagram for it is a signal  *)
(* of the handshake.                                                       *)
Handshaking(s) == pc[s] \in {"syn", "synack", "listen", "ack"}

First(s) == IF Handshaking(s) THEN 2 ELSE 1

(* The datagrams that chat mode has sent: lines in their order, none above *)
(* last, and the signals of a program that has gone behind all lines.      *)
ChatNet(q, first, last, gone) ==
  \A i \in first .. Len(q) :
    /\ q[i].line = NoLine => gone
    /\ q[i].line <= last
    /\ "FIN" \in q[i].flags => q[i].line = NoLine
    /\ \A j \in i + 1 .. Len(q) :
         q[j].line # NoLine => q[i].line # NoLine /\ q[i].line <= q[j].line

(* What has been shown comes before what is under way.                     *)
ChatShown(w, q, first, last, gone) ==
  \A i \in 1 .. Len(w) :
    /\ w[i] = NoLine => gone
    /\ w[i] <= last
    /\ \A j \in i + 1 .. Len(w) : w[j] # NoLine => w[i] # NoLine /\ w[i] < w[j]
    /\ \A j \in first .. Len(q) :
         q[j].line # NoLine => w[i] # NoLine /\ w[i] <= q[j].line

(* Where a line of the other side is: it is the /quit, has been shown, has *)
(* been lost, or is under way.                                             *)
Came(s, k) == IsQuit(Other(s), k) \/ k \in ToSet(shown[s]) \/ k \in lost[s]

Coming(s, k) == \E i \in 1 .. Len(net[s]) : net[s][i].line = k

Kept(s) ==
  /\ ~Leaving(s) => \A k \in 1 .. taken[Other(s)] : Came(s, k) \/ Coming(s, k)
  /\ Leaving(s) =>
       \/ TookQuit(s)
       \/ Leaving(Other(s)) /\ \A k \in 1 .. taken[Other(s)] : Came(s, k)

View(s) ==
  /\ ChatNet(net[s], First(s), taken[Other(s)], Leaving(Other(s)))
  /\ ChatShown(shown[s], net[s], First(s), taken[Other(s)], Leaving(Other(s)))
  /\ Kept(s)

HandshakeInv ==
  /\ pc["client"] \notin {"listen", "ack", "recv"}
  /\ pc["server"] \notin {"syn", "synack", "recv1", "recv2"}
  /\ \A s \in Side : Handshaking(s) =>
       /\ shown[s] = <<>> /\ taken[s] = 0
       /\ \A i \in 1 .. Len(net[s]) : i = 1 => net[s][i].line = NoLine
  /\ At("client", "syn") =>
       At("server", "listen") /\ net["server"] = <<>> /\ net["client"] = <<>>
  /\ At("client", "synack") => At("server", "listen") \/ At("server", "ack")
  /\ At("server", "listen") =>
       /\ At("client", "syn") \/ At("client", "synack")
       /\ Len(net["server"]) <= 1 /\ net["client"] = <<>>
  /\ At("server", "ack") /\ At("client", "synack") =>
       net["server"] = <<>> /\ Len(net["client"]) <= 1
  /\ At("server", "ack") /\ ~At("client", "synack") => Len(net["server"]) >= 1

(* A datagram of chat mode goes behind the others.                         *)
LEMMA LineBehind ==
  ASSUME NEW q \in Seq(Datagram), NEW w \in Seq(Line \cup {Unset, NoLine}),
         NEW first \in {1, 2}, NEW last \in Nat, NEW next \in Nat, last <= next,
         next \in Line \cup {Unset},
         NEW gone, ~gone,
         ChatNet(q, first, last, gone), ChatShown(w, q, first, last, gone)
  PROVE  /\ ChatNet(Append(q, Says(next)), first, next, gone)
         /\ ChatShown(w, Append(q, Says(next)), first, next, gone)
<1> DEFINE r == Append(q, Says(next))
<1>1. Len(r) = Len(q) + 1 /\ r[Len(q) + 1] = Says(next)
      /\ \A i \in 1 .. Len(q) : r[i] = q[i]
  OBVIOUS
<1>2. Says(next).line = next /\ Says(next).flags = {} /\ next # NoLine
  BY DEF Says, NoLine
<1>3. Len(q) \in Nat
  OBVIOUS
<1>4. \A i \in 1 .. Len(q) : q[i].line \in Int
  BY MakesDatagram DEF Line, Unset, NoLine
<1>5. \A i \in 1 .. Len(w) : w[i] \in Int
  BY DEF Line, Unset, NoLine
<1> HIDE DEF r
<1>6. /\ \A i \in first .. Len(q) : q[i].line # NoLine /\ q[i].line <= next
      /\ \A i \in 1 .. Len(w) : w[i] # NoLine /\ w[i] <= next
  BY <1>4, <1>5 DEF ChatNet, ChatShown
<1>7. ChatNet(r, first, next, gone)
  <2> SUFFICES ASSUME NEW i \in first .. Len(r)
               PROVE  /\ r[i].line # NoLine
                      /\ r[i].line <= next
                      /\ "FIN" \in r[i].flags => r[i].line = NoLine
                      /\ \A j \in i + 1 .. Len(r) : r[i].line <= r[j].line
    BY DEF ChatNet
  <2>1. CASE i = Len(q) + 1
    BY <1>1, <1>2, <1>3, <2>1
  <2>2. CASE i \in first .. Len(q)
    <3>1. r[i] = q[i]
      BY <1>1, <2>2
    <3>2. ASSUME NEW j \in i + 1 .. Len(r) PROVE r[i].line <= r[j].line
      <4>1. CASE j = Len(q) + 1
        BY <1>1, <1>2, <1>6, <2>2, <3>1, <4>1
      <4>2. CASE j \in i + 1 .. Len(q)
        BY <1>1, <1>3, <1>6, <2>2, <3>1, <4>2 DEF ChatNet
      <4> QED
        BY <1>1, <1>3, <4>1, <4>2
    <3> QED
      BY <1>6, <2>2, <3>1, <3>2 DEF ChatNet
  <2> QED
    BY <1>1, <1>3, <2>1, <2>2
<1>8. ChatShown(w, r, first, next, gone)
  <2> SUFFICES ASSUME NEW i \in 1 .. Len(w), NEW j \in first .. Len(r)
               PROVE  w[i] <= r[j].line
    BY <1>6 DEF ChatShown
  <2>1. CASE j = Len(q) + 1
    BY <1>1, <1>2, <1>6, <2>1
  <2>2. CASE j \in first .. Len(q)
    BY <1>1, <1>3, <1>6, <2>2 DEF ChatShown
  <2> QED
    BY <1>1, <1>3, <2>1, <2>2
<1> QED
  BY <1>7, <1>8 DEF r

LEMMA SignalBehind ==
  ASSUME NEW q \in Seq(Datagram), NEW w, NEW f \in SUBSET {"SYN", "ACK", "FIN"},
         NEW first \in {1, 2}, NEW last \in Nat, NEW gone,
         ChatNet(q, first, last, gone), ChatShown(w, q, first, last, gone)
  PROVE  /\ ChatNet(Append(q, Signal(f)), first, last, TRUE)
         /\ ChatShown(w, Append(q, Signal(f)), first, last, TRUE)
<1> DEFINE r == Append(q, Signal(f))
<1>0. Signal(f) \in Datagram
  BY MakesDatagram
<1>1. Len(r) = Len(q) + 1 /\ r[Len(q) + 1] = Signal(f)
      /\ \A i \in 1 .. Len(q) : r[i] = q[i]
  BY <1>0
<1>2. Signal(f).line = NoLine /\ NoLine <= last
  BY DEF Signal, NoLine
<1>3. Len(q) \in Nat
  OBVIOUS
<1> HIDE DEF r
<1>6. ChatNet(r, first, last, TRUE)
  BY <1>1, <1>2, <1>3 DEF ChatNet
<1>7. ChatShown(w, r, first, last, TRUE)
  BY <1>1, <1>2, <1>3 DEF ChatShown
<1> QED
  BY <1>6, <1>7 DEF r

(* A datagram goes out of the queue.                                       *)
LEMMA Thinned ==
  ASSUME NEW q \in Seq(Datagram), NEW w, NEW i \in 1 .. Len(q),
         NEW first \in {1, 2}, NEW next \in {1, 2}, first = next \/ i < first,
         i < first => next = 1, NEW last, NEW gone,
         ChatNet(q, first, last, gone), ChatShown(w, q, first, last, gone)
  PROVE  /\ ChatNet(RemoveAt(q, i), next, last, gone)
         /\ ChatShown(w, RemoveAt(q, i), next, last, gone)
<1> DEFINE r == RemoveAt(q, i)
<1>1. /\ Len(r) = Len(q) - 1
      /\ \A j \in 1 .. Len(q) - 1 : r[j] = IF j < i THEN q[j] ELSE q[j + 1]
  BY RemoveAtEntries
<1>2. Len(q) \in Nat
  OBVIOUS
<1> HIDE DEF r
<1>3. \A j \in next .. Len(r) : \E k \in first .. Len(q) :
         r[j] = q[k] /\ k = IF j < i THEN j ELSE j + 1
  BY <1>1, <1>2
<1>4. ChatNet(r, next, last, gone)
  <2> SUFFICES ASSUME NEW j \in next .. Len(r)
               PROVE  /\ r[j].line = NoLine => gone
                      /\ r[j].line <= last
                      /\ "FIN" \in r[j].flags => r[j].line = NoLine
                      /\ \A m \in j + 1 .. Len(r) :
                           r[m].line # NoLine => r[j].line # NoLine /\ r[j].line <= r[m].line
    BY DEF ChatNet
  <2>1. PICK k \in first .. Len(q) : r[j] = q[k] /\ k = IF j < i THEN j ELSE j + 1
    BY <1>3
  <2>2. ASSUME NEW m \in j + 1 .. Len(r), r[m].line # NoLine
        PROVE  r[j].line # NoLine /\ r[j].line <= r[m].line
    <3>1. m \in next .. Len(r)
      OBVIOUS
    <3>2. PICK n \in first .. Len(q) : r[m] = q[n] /\ n = IF m < i THEN m ELSE m + 1
      BY <1>3, <3>1
    <3>3. n \in k + 1 .. Len(q)
      BY <1>1, <1>2, <2>1, <3>2
    <3> QED
      BY <2>1, <2>2, <3>2, <3>3 DEF ChatNet
  <2> QED
    BY <2>1, <2>2 DEF ChatNet
<1>5. ChatShown(w, r, next, last, gone)
  BY <1>3 DEF ChatShown
<1> QED
  BY <1>4, <1>5 DEF r

(* The first datagram is shown, unless it says what has been shown last.   *)
LEMMA HeadShown ==
  ASSUME NEW q \in Seq(Datagram), NEW w \in Seq(Line \cup {Unset, NoLine}), Len(q) >= 1,
         NEW last, NEW gone,
         ChatNet(q, 1, last, gone), ChatShown(w, q, 1, last, gone),
         NEW v, v = IF w # <<>> /\ Last(w) = q[1].line THEN w ELSE Append(w, q[1].line)
  PROVE  /\ ChatNet(RemoveAt(q, 1), 1, last, gone)
         /\ ChatShown(v, RemoveAt(q, 1), 1, last, gone)
<1> DEFINE l == q[1].line
           r == RemoveAt(q, 1)
<1>1. ChatNet(r, 1, last, gone) /\ ChatShown(w, r, 1, last, gone)
  <2> DEFINE one == 1
  <2>1. one = 1 /\ one \in {1, 2} /\ one \in 1 .. Len(q) /\ ~(one < one)
    OBVIOUS
  <2> HIDE DEF one
  <2>2. ChatNet(RemoveAt(q, one), one, last, gone)
        /\ ChatShown(w, RemoveAt(q, one), one, last, gone)
    BY <2>1, Thinned
  <2> QED
    BY <2>1, <2>2
<1>2. l \in Line \cup {Unset, NoLine} /\ l \in Int
  BY MakesDatagram DEF Line, Unset, NoLine
<1>3. \A i \in 1 .. Len(w) : w[i] \in Int
  BY DEF Line, Unset, NoLine
<1>4. /\ Len(r) = Len(q) - 1
      /\ \A j \in 1 .. Len(r) : r[j] = q[j + 1]
  <2>1. /\ Len(r) = Len(q) - 1
        /\ \A j \in 1 .. Len(q) - 1 : r[j] = IF j < 1 THEN q[j] ELSE q[j + 1]
    BY RemoveAtEntries
  <2> QED
    BY <2>1
<1>5. CASE v = w
  BY <1>1, <1>5
<1>6. CASE v # w
  <2>1. v = Append(w, l) /\ (w # <<>> => Last(w) # l)
    BY <1>6
  <2>2. /\ Len(v) = Len(w) + 1 /\ v[Len(w) + 1] = l
        /\ \A i \in 1 .. Len(w) : v[i] = w[i]
    BY <1>2, <2>1
  <2>3. Len(w) \in Nat /\ Len(q) \in Nat
    OBVIOUS
  <2>4. (l = NoLine => gone) /\ l <= last
    BY DEF ChatNet
  <2>5. ASSUME NEW i \in 1 .. Len(w), l # NoLine
        PROVE  w[i] # NoLine /\ w[i] < l
    <3>1. \A k \in 1 .. Len(w) : w[k] # NoLine /\ w[k] <= l
      BY <2>5 DEF ChatShown
    <3>2. Len(w) \in 1 .. Len(w) /\ w # <<>> /\ Last(w) = w[Len(w)]
      BY <2>3 DEF Last
    <3>3. w[Len(w)] # NoLine /\ w[Len(w)] < l
      BY <1>3, <2>1, <3>1, <3>2, <1>2
    <3>4. CASE i = Len(w)
      BY <3>3, <3>4
    <3>5. CASE i < Len(w)
      <4>1. Len(w) \in i + 1 .. Len(w)
        BY <2>3, <3>5
      <4>2. w[i] < w[Len(w)]
        BY <3>2, <3>3, <4>1 DEF ChatShown
      <4> QED
        BY <1>2, <1>3, <3>1, <3>2, <3>3, <4>2
    <3> QED
      BY <2>3, <3>4, <3>5
  <2>6. ASSUME NEW j \in 1 .. Len(r), r[j].line # NoLine
        PROVE  l # NoLine /\ l <= r[j].line
    <3>1. r[j] = q[j + 1] /\ j + 1 \in 2 .. Len(q)
      BY <1>4, <2>3
    <3> QED
      BY <2>6, <3>1 DEF ChatNet
  <2> HIDE DEF l, r
  <2> SUFFICES ASSUME NEW i \in 1 .. Len(v)
               PROVE  /\ v[i] = NoLine => gone
                      /\ v[i] <= last
                      /\ \A j \in i + 1 .. Len(v) :
                           v[j] # NoLine => v[i] # NoLine /\ v[i] < v[j]
                      /\ \A j \in 1 .. Len(r) :
                           r[j].line # NoLine => v[i] # NoLine /\ v[i] <= r[j].line
    BY <1>1 DEF ChatShown, l, r
  <2>7. CASE i = Len(w) + 1
    BY <2>2, <2>3, <2>4, <2>6, <2>7
  <2>8. CASE i \in 1 .. Len(w)
    <3>1. v[i] = w[i]
      BY <2>2, <2>8
    <3>2. ASSUME NEW j \in i + 1 .. Len(v), v[j] # NoLine
          PROVE  v[i] # NoLine /\ v[i] < v[j]
      <4>1. CASE j = Len(w) + 1
        BY <2>2, <2>5, <2>8, <3>1, <3>2, <4>1
      <4>2. CASE j \in i + 1 .. Len(w)
        <5>1. v[j] = w[j]
          BY <2>2, <2>3, <2>8, <4>2
        <5> QED
          BY <1>1, <2>8, <3>1, <3>2, <4>2, <5>1 DEF ChatShown
      <4> QED
        BY <2>2, <2>3, <4>1, <4>2
    <3> QED
      BY <1>1, <2>8, <3>1, <3>2 DEF ChatShown
  <2> QED
    BY <2>2, <2>3, <2>7, <2>8
<1> QED
  BY <1>5, <1>6

-----------------------------------------------------------------------------
(* What a step does to the view of one side.                               *)

LEMMA Counters ==
  ASSUME TypeOK, NEW s \in Side
  PROVE  /\ typed[s] \in Nat /\ read[s] \in Nat /\ taken[s] \in Nat
         /\ taken[s] <= read[s] /\ read[s] <= typed[s] /\ taken[s] <= typed[s]
<1>1. typed[s] \in 0 .. MaxLines /\ MaxLines \in Nat
  BY ShamChatAssumption, TypeParts DEF UserTyped
<1>2. /\ read[s] \in Nat /\ taken[s] \in Nat
      /\ taken[s] <= read[s] /\ read[s] <= typed[s]
  BY TypeParts DEF StdinTyped
<1> QED
  BY <1>1, <1>2

(* A user who goes on typing makes no line that has been taken a /quit.    *)
LEMMA QuitStays ==
  ASSUME TypeOK, NEW o \in Side, taken'[o] = taken[o],
         \/ quit'[o] = quit[o] /\ typed'[o] = typed[o]
         \/ ~quit[o] /\ typed'[o] = typed[o] + 1
  PROVE  /\ \A k \in 1 .. taken[o] : IsQuit(o, k)' <=> IsQuit(o, k)
         /\ TookQuit(o) => TookQuit(o)'
<1>2. typed[o] \in Nat /\ taken[o] \in Nat /\ taken[o] <= typed[o]
  BY Counters
<1>3. CASE quit'[o] = quit[o] /\ typed'[o] = typed[o]
  BY <1>3 DEF IsQuit, TookQuit
<1>4. CASE ~quit[o] /\ typed'[o] = typed[o] + 1
  BY <1>2, <1>4 DEF IsQuit, TookQuit
<1> QED
  BY <1>3, <1>4

(* What does not change in a step that only programs take.                 *)
Steady(s) ==
  /\ shown'[s] = shown[s] /\ lost'[s] = lost[s]
  /\ \A k \in 1 .. taken[Other(s)] : IsQuit(Other(s), k)' <=> IsQuit(Other(s), k)
  /\ Leaving(s) /\ TookQuit(s) => TookQuit(s)'
  /\ Leaving(Other(s)) => Leaving(Other(s))'
  /\ taken'[Other(s)] = taken[Other(s)]

LEMMA ViewStays ==
  ASSUME NEW s \in Side, View(s), Steady(s), net'[s] = net[s],
         First(s)' = First(s), Leaving(s)' <=> Leaving(s)
  PROVE  View(s)'
<1>1. /\ ChatNet(net'[s], First(s)', taken'[Other(s)], Leaving(Other(s))')
      /\ ChatShown(shown'[s], net'[s], First(s)', taken'[Other(s)], Leaving(Other(s))')
  BY DEF View, Steady, ChatNet, ChatShown
<1>2. \A k \in 1 .. taken[Other(s)] :
        (Came(s, k) => Came(s, k)') /\ (Coming(s, k) => Coming(s, k)')
  BY DEF Came, Coming, Steady
<1>3. Kept(s)'
  BY <1>2 DEF View, Kept, Steady
<1> QED
  BY <1>1, <1>3 DEF View

(* The view of a side at the start of its chat.                            *)
LEMMA ViewBegins ==
  ASSUME TypeOK', NEW s \in Side, Len(net'[s]) < First(s)', shown'[s] = <<>>,
         taken'[Other(s)] = 0, ~Leaving(s)'
  PROVE  View(s)'
<1>1. Len(net'[s]) \in Nat /\ First(s)' \in {1, 2}
  <2>1. net'[s] \in Seq(Datagram)
    BY DEF TypeOK
  <2>2. First(s)' \in {1, 2}
    BY DEF First
  <2> QED
    BY <2>1, <2>2
<1>2. ChatNet(net'[s], First(s)', taken'[Other(s)], Leaving(Other(s))')
  BY <1>1 DEF ChatNet
<1>3. ChatShown(shown'[s], net'[s], First(s)', taken'[Other(s)], Leaving(Other(s))')
  BY DEF ChatShown
<1>4. Kept(s)'
  BY DEF Kept
<1> QED
  BY <1>2, <1>3, <1>4 DEF View

(* More lines may have been taken, and the other side may have gone.       *)
LEMMA Widened ==
  ASSUME NEW q \in Seq(Datagram), NEW w \in Seq(Line \cup {Unset, NoLine}),
         NEW first \in {1, 2}, NEW last \in Nat, NEW next \in Nat, last <= next,
         ChatNet(q, first, last, FALSE), ChatShown(w, q, first, last, FALSE)
  PROVE  ChatNet(q, first, next, FALSE) /\ ChatShown(w, q, first, next, FALSE)
<1>1. /\ \A i \in first .. Len(q) : q[i].line \in Int
      /\ \A i \in 1 .. Len(w) : w[i] \in Int
  BY MakesDatagram DEF Line, Unset, NoLine
<1>2. /\ \A i \in first .. Len(q) : q[i].line <= next
      /\ \A i \in 1 .. Len(w) : w[i] <= next
  BY <1>1 DEF ChatNet, ChatShown
<1>3. ChatNet(q, first, next, FALSE)
  BY <1>2 DEF ChatNet
<1>4. ChatShown(w, q, first, next, FALSE)
  BY <1>2 DEF ChatShown
<1> QED
  BY <1>3, <1>4

LEMMA ViewTyped ==
  ASSUME TypeOK, NEW s \in Side
  PROVE  /\ net[s] \in Seq(Datagram) /\ Len(net[s]) \in Nat
         /\ shown[s] \in Seq(Line \cup {Unset, NoLine})
         /\ First(s) \in {1, 2}
         /\ Leaving(s) => First(s) = 1 /\ ~Handshaking(s)
         /\ Other(s) \in Side /\ taken[Other(s)] \in Nat
<1>1. Other(s) \in Side
  BY Sides
<1>2. taken[Other(s)] \in Nat
  BY <1>1, Counters
<1>3. net[s] \in Seq(Datagram) /\ shown[s] \in Seq(Line \cup {Unset, NoLine})
  BY DEF TypeOK
<1>4. First(s) \in {1, 2}
  BY DEF First
<1>5. Leaving(s) => First(s) = 1 /\ ~Handshaking(s)
  <2>1. Leaving(s) => ~Handshaking(s)
    BY DEF Handshaking, Leaving
  <2> QED
    BY <2>1 DEF First
<1>6. Len(net[s]) \in Nat
  BY <1>3
<1> QED
  BY <1>1, <1>2, <1>3, <1>4, <1>5, <1>6

(* The other side sends a line, loses it, or finds it to be the /quit.     *)
LEMMA ViewHears ==
  ASSUME TypeOK, NEW s \in Side, View(s), NEW o, o = Other(s), ~Leaving(o),
         pc'[s] = pc[s], shown'[s] = shown[s], UNCHANGED user, taken'[s] = taken[s],
         NEW k \in Line \cup {Unset}, taken'[o] = k, k = taken[o] \/ k = taken[o] + 1,
         \/ /\ net'[s] = Append(net[s], Says(k)) /\ lost'[s] = lost[s]
            /\ ~Leaving(o)'
         \/ net'[s] = net[s] /\ lost'[s] = lost[s] \cup {k}
         \/ net'[s] = net[s] /\ lost'[s] = lost[s] /\ IsQuit(o, k)
  PROVE  View(s)'
<1>0. /\ net[s] \in Seq(Datagram) /\ Len(net[s]) \in Nat
      /\ shown[s] \in Seq(Line \cup {Unset, NoLine})
      /\ First(s) \in {1, 2} /\ taken[o] \in Nat /\ k \in Nat /\ taken[o] <= k
  <2>1. taken[o] \in Nat
    BY ViewTyped
  <2> QED
    BY <2>1, ViewTyped
<1> DEFINE q == net[s]
           r == Append(net[s], Says(k))
<1>1. /\ Len(r) = Len(q) + 1 /\ r[Len(q) + 1] = Says(k)
      /\ \A i \in 1 .. Len(q) : r[i] = q[i]
  BY <1>0, MakesDatagram
<1>2. First(s)' = First(s) /\ (Leaving(s)' <=> Leaving(s))
  BY DEF First, Handshaking, Leaving
<1>3. ChatNet(q, First(s), taken[o], FALSE) /\ ChatShown(shown[s], q, First(s), taken[o], FALSE)
  BY DEF View, ChatNet, ChatShown
<1>4. /\ ChatNet(net'[s], First(s)', taken'[o], Leaving(o)')
      /\ ChatShown(shown'[s], net'[s], First(s)', taken'[o], Leaving(o)')
  <2>1. CASE net'[s] = q
    <3>1. ChatNet(q, First(s), k, FALSE) /\ ChatShown(shown[s], q, First(s), k, FALSE)
      BY <1>0, <1>3, Widened
    <3> QED
      BY <1>2, <2>1, <3>1 DEF ChatNet, ChatShown
  <2>2. CASE net'[s] = r
    <3>1. ChatNet(r, First(s), k, FALSE) /\ ChatShown(shown[s], r, First(s), k, FALSE)
      BY <1>0, <1>3, LineBehind
    <3> QED
      BY <1>2, <2>2, <3>1 DEF ChatNet, ChatShown
  <2> QED
    BY <2>1, <2>2
<1>5. \A m : /\ IsQuit(o, m)' <=> IsQuit(o, m)
             /\ Came(s, m) => Came(s, m)'
             /\ Coming(s, m) => Coming(s, m)'
  <2>1. \A m : IsQuit(o, m)' <=> IsQuit(o, m)
    BY DEF IsQuit, user
  <2>2. \A m : Came(s, m) => Came(s, m)'
    BY <2>1 DEF Came
  <2>3. \A m : Coming(s, m) => Coming(s, m)'
    <3>1. CASE net'[s] = q
      BY <3>1 DEF Coming
    <3>2. CASE net'[s] = r
      <4>1. \A i \in 1 .. Len(q) : i \in 1 .. Len(r) /\ r[i] = q[i]
        BY <1>0, <1>1
      <4> QED
        BY <3>2, <4>1 DEF Coming
    <3> QED
      BY <3>1, <3>2
  <2> QED
    BY <2>1, <2>2, <2>3
<1>6. Came(s, k)' \/ Coming(s, k)' \/ k = taken[o]
  <2>1. CASE net'[s] = r
    <3>1. Len(r) \in 1 .. Len(r) /\ r[Len(r)].line = k
      BY <1>0, <1>1 DEF Says
    <3> QED
      BY <2>1, <3>1 DEF Coming
  <2>2. CASE lost'[s] = lost[s] \cup {k} \/ IsQuit(o, k)
    BY <1>5, <2>2 DEF Came
  <2> QED
    BY <2>1, <2>2
<1>7. Kept(s)'
  <2>1. CASE Leaving(s)
    BY <1>2, <2>1 DEF View, Kept, TookQuit, user
  <2>2. CASE ~Leaving(s)
    <3>1. \A m \in 1 .. taken[o] : Came(s, m) \/ Coming(s, m)
      BY <2>2 DEF View, Kept
    <3>2. \A m \in 1 .. k : m \in 1 .. taken[o] \/ (m = k /\ k # taken[o])
      BY <1>0
    <3>3. \A m \in 1 .. k : Came(s, m)' \/ Coming(s, m)'
      BY <1>5, <1>6, <3>1, <3>2
    <3> QED
      BY <1>2, <2>2, <3>3 DEF Kept
  <2> QED
    BY <2>1, <2>2
<1> QED
  BY <1>4, <1>7 DEF View

(* The other side sends a signal of the teardown.                          *)
LEMMA ViewSignalled ==
  ASSUME TypeOK, NEW s \in Side, View(s), Steady(s), pc'[s] = pc[s], Leaving(Other(s))',
         NEW f \in SUBSET {"SYN", "ACK", "FIN"},
         net'[s] = net[s] \/ net'[s] = Append(net[s], Signal(f))
  PROVE  View(s)'
<1>0. First(s)' = First(s) /\ (Leaving(s)' <=> Leaving(s))
  BY DEF First, Handshaking, Leaving
<1>1. CASE net'[s] = net[s]
  BY <1>0, <1>1, ViewStays
<1>2. CASE net'[s] = Append(net[s], Signal(f))
  <2> DEFINE o == Other(s)
             q == net[s]
             r == Append(net[s], Signal(f))
  <2>1. /\ q \in Seq(Datagram) /\ Len(q) \in Nat
        /\ First(s) \in {1, 2} /\ taken[o] \in Nat
    BY ViewTyped
  <2>2. /\ ChatNet(q, First(s), taken[o], Leaving(o))
        /\ ChatShown(shown[s], q, First(s), taken[o], Leaving(o))
    BY DEF View
  <2>3. ChatNet(r, First(s), taken[o], TRUE) /\ ChatShown(shown[s], r, First(s), taken[o], TRUE)
    BY <2>1, <2>2, SignalBehind
  <2>4. /\ ChatNet(net'[s], First(s)', taken'[o], Leaving(o)')
        /\ ChatShown(shown'[s], net'[s], First(s)', taken'[o], Leaving(o)')
    BY <1>0, <1>2, <2>3 DEF ChatNet, ChatShown, Steady
  <2>5. \A i \in 1 .. Len(q) : i \in 1 .. Len(r) /\ r[i] = q[i]
    BY <2>1, MakesDatagram
  <2>6. \A k \in 1 .. taken[o] :
          (Came(s, k) => Came(s, k)') /\ (Coming(s, k) => Coming(s, k)')
    BY <1>2, <2>5 DEF Came, Coming, Steady
  <2>7. Kept(s)'
    BY <1>0, <2>6 DEF View, Kept, Steady
  <2> QED
    BY <2>4, <2>7 DEF View
<1> QED
  BY <1>1, <1>2

(* All datagrams but the one taken out are still there.                    *)
LEMMA StillComing ==
  ASSUME NEW q \in Seq(Datagram), NEW i \in 1 .. Len(q), NEW j \in 1 .. Len(q), i # j
  PROVE  \E m \in 1 .. Len(RemoveAt(q, i)) : RemoveAt(q, i)[m] = q[j]
<1> DEFINE r == RemoveAt(q, i)
<1>1. /\ Len(r) = Len(q) - 1
      /\ \A k \in 1 .. Len(q) - 1 : r[k] = IF k < i THEN q[k] ELSE q[k + 1]
  BY RemoveAtEntries
<1>2. Len(q) \in Nat
  OBVIOUS
<1> HIDE DEF r
<1>3. CASE j < i
  BY <1>1, <1>2, <1>3 DEF r
<1>4. CASE j > i
  <2>1. j - 1 \in 1 .. Len(r) /\ r[j - 1] = q[j]
    BY <1>1, <1>2, <1>4
  <2> QED
    BY <2>1 DEF r
<1> QED
  BY <1>3, <1>4

(* What goes out of the queue, towards the next first.                     *)
LEMMA ViewThinned ==
  ASSUME TypeOK, NEW s \in Side, View(s), NEW i \in 1 .. Len(net[s]),
         net'[s] = RemoveAt(net[s], i), shown'[s] = shown[s],
         taken'[Other(s)] = taken[Other(s)],
         Leaving(Other(s)) => Leaving(Other(s))',
         First(s) = First(s)' \/ i < First(s), i < First(s) => First(s)' = 1
  PROVE  /\ ChatNet(net'[s], First(s)', taken'[Other(s)], Leaving(Other(s))')
         /\ ChatShown(shown'[s], net'[s], First(s)', taken'[Other(s)], Leaving(Other(s))')
<1> DEFINE one == First(s)
           two == First(s)'
           o == Other(s)
<1>1. /\ net[s] \in Seq(Datagram)
      /\ one \in {1, 2} /\ two \in {1, 2}
  <2>1. two \in {1, 2}
    BY DEF First
  <2> QED
    BY <2>1, ViewTyped
<1>2. /\ ChatNet(net[s], one, taken[o], Leaving(o))
      /\ ChatShown(shown[s], net[s], one, taken[o], Leaving(o))
  BY DEF View
<1>3. (one = two \/ i < one) /\ (i < one => two = 1)
  OBVIOUS
<1> HIDE DEF one, two
<1>4. /\ ChatNet(RemoveAt(net[s], i), two, taken[o], Leaving(o))
      /\ ChatShown(shown[s], RemoveAt(net[s], i), two, taken[o], Leaving(o))
  BY <1>1, <1>2, <1>3, Thinned
<1> QED
  BY <1>4 DEF ChatNet, ChatShown, two

(* A line for s is lost.                                                   *)
LEMMA ViewLoses ==
  ASSUME TypeOK, HandshakeInv, NEW s \in Side, View(s), Loses(s)
  PROVE  View(s)'
<1> DEFINE o == Other(s)
<1>1. Queues
  BY TypeParts
<1>2. PICK i \in 1 .. Len(net[s]) :
         /\ net[s][i].line # NoLine
         /\ net'[s] = RemoveAt(net[s], i)
         /\ lost' = [lost EXCEPT ![s] = @ \cup {net[s][i].line}]
  BY <1>1, LosesEffect
<1>3. UNCHANGED <<pc, user, stdin, shown>>
  BY DEF Loses
<1>4. /\ First(s)' = First(s) /\ (Leaving(s)' <=> Leaving(s)) /\ (Leaving(o)' <=> Leaving(o))
      /\ taken' = taken
  BY <1>3 DEF First, Handshaking, Leaving, stdin
<1>5. ~(i < First(s))
  <2>1. Handshaking(s) => i # 1
    BY <1>2 DEF HandshakeInv
  <2> QED
    BY <2>1 DEF First
<1>6. /\ ChatNet(net'[s], First(s)', taken'[o], Leaving(o)')
      /\ ChatShown(shown'[s], net'[s], First(s)', taken'[o], Leaving(o)')
  BY <1>2, <1>3, <1>4, <1>5, ViewThinned
<1>7. lost'[s] = lost[s] \cup {net[s][i].line}
  BY <1>2 DEF TypeOK
<1>8. \A k : (Came(s, k) => Came(s, k)') /\ (IsQuit(o, k)' <=> IsQuit(o, k))
             /\ (TookQuit(s)' <=> TookQuit(s))
  BY <1>3, <1>4, <1>7 DEF Came, IsQuit, user, TookQuit
<1>9. \A k : Coming(s, k) => Came(s, k)' \/ Coming(s, k)'
  <2> SUFFICES ASSUME NEW k, NEW j \in 1 .. Len(net[s]), net[s][j].line = k
               PROVE  Came(s, k)' \/ Coming(s, k)'
    BY DEF Coming
  <2>1. CASE j = i
    BY <1>7, <2>1 DEF Came
  <2>2. CASE j # i
    <3>1. net[s] \in Seq(Datagram)
      BY DEF TypeOK
    <3>2. PICK m \in 1 .. Len(RemoveAt(net[s], i)) : RemoveAt(net[s], i)[m] = net[s][j]
      BY <2>2, <3>1, StillComing
    <3> QED
      BY <1>2, <3>2 DEF Coming
  <2> QED
    BY <2>1, <2>2
<1>10. Kept(s)'
  BY <1>4, <1>8, <1>9 DEF View, Kept
<1> QED
  BY <1>6, <1>10 DEF View

(* In the teardown datagrams are read and thrown away.                     *)
LEMMA ViewDrains ==
  ASSUME TypeOK, NEW s \in Side, View(s), Steady(s), Leaving(s), Leaving(s)',
         \/ net'[s] = net[s]
         \/ Len(net[s]) >= 1 /\ net'[s] = RemoveAt(net[s], 1)
  PROVE  View(s)'
<1> DEFINE o == Other(s)
<1>1. First(s) = 1 /\ First(s)' = 1
  BY DEF First, Handshaking, Leaving
<1>2. CASE net'[s] = net[s]
  BY <1>1, <1>2, ViewStays
<1>3. CASE Len(net[s]) >= 1 /\ net'[s] = RemoveAt(net[s], 1)
  <2> DEFINE head == 1
  <2>1. head \in 1 .. Len(net[s]) /\ net'[s] = RemoveAt(net[s], head) /\ ~(head < First(s))
    BY <1>1, <1>3, ViewTyped
  <2> HIDE DEF head
  <2>2. /\ ChatNet(net'[s], First(s)', taken'[o], Leaving(o)')
        /\ ChatShown(shown'[s], net'[s], First(s)', taken'[o], Leaving(o)')
    BY <1>1, <2>1, ViewThinned DEF Steady
  <2>3. \A k \in 1 .. taken[o] : Came(s, k) => Came(s, k)'
    BY DEF Came, Steady
  <2>4. Kept(s)'
    BY <2>3 DEF View, Kept, Steady
  <2> QED
    BY <2>2, <2>4 DEF View
<1> QED
  BY <1>2, <1>3

(* The server takes the answer that ends its handshake.                    *)
LEMMA ViewTakesAck ==
  ASSUME TypeOK, HandshakeInv, NEW s \in Side, View(s), Steady(s), Handshaking(s),
         At(s, "select")', Len(net[s]) >= 1, net'[s] = RemoveAt(net[s], 1)
  PROVE  View(s)'
<1> DEFINE o == Other(s)
           head == 1
<1>1. First(s) = 2 /\ First(s)' = 1 /\ ~Leaving(s)' /\ ~Leaving(s)
  BY DEF First, Handshaking, Leaving, At
<1>2. head = 1 /\ head \in 1 .. Len(net[s]) /\ net'[s] = RemoveAt(net[s], head) /\ head < First(s)
  BY <1>1, ViewTyped
<1> HIDE DEF head
<1>3. /\ ChatNet(net'[s], First(s)', taken'[o], Leaving(o)')
      /\ ChatShown(shown'[s], net'[s], First(s)', taken'[o], Leaving(o)')
  BY <1>1, <1>2, ViewThinned DEF Steady
<1>4. ASSUME NEW k \in 1 .. taken[o] PROVE Came(s, k)' \/ Coming(s, k)'
  <2>1. CASE Came(s, k)
    BY <2>1 DEF Came, Steady
  <2>2. ASSUME NEW j \in 1 .. Len(net[s]), net[s][j].line = k
        PROVE  Coming(s, k)'
    <3>1. net[s][head].line = NoLine
      BY <1>2 DEF HandshakeInv
    <3>2. k # NoLine
      BY DEF NoLine
    <3>3. j # head /\ net[s] \in Seq(Datagram)
      BY <2>2, <3>1, <3>2, ViewTyped
    <3>4. PICK m \in 1 .. Len(RemoveAt(net[s], head)) : RemoveAt(net[s], head)[m] = net[s][j]
      BY <1>2, <3>3, StillComing
    <3> QED
      BY <1>2, <2>2, <3>4 DEF Coming
  <2>3. Came(s, k) \/ Coming(s, k)
    BY <1>1 DEF View, Kept
  <2> QED
    BY <2>1, <2>2, <2>3 DEF Coming
<1>5. Kept(s)'
  BY <1>1, <1>4 DEF Kept, Steady
<1> QED
  BY <1>3, <1>5 DEF View

(* The first datagram is shown.                                            *)
LEMMA ViewShows ==
  ASSUME TypeOK, NEW s \in Side, View(s), At(s, "socket"), At(s, "select")',
         Len(net[s]) >= 1, net'[s] = RemoveAt(net[s], 1), Shows(s, net[s][1].line),
         UNCHANGED <<user, stdin, lost>>, pc'[Other(s)] = pc[Other(s)]
  PROVE  View(s)'
<1> DEFINE o == Other(s)
           w == shown[s]
           l == net[s][1].line
           v == shown'[s]
<1>1. First(s) = 1 /\ First(s)' = 1 /\ ~Leaving(s)' /\ ~Leaving(s)
  BY DEF First, Handshaking, Leaving, At
<1>2. /\ net[s] \in Seq(Datagram) /\ w \in Seq(Line \cup {Unset, NoLine})
      /\ l \in Line \cup {Unset, NoLine}
  <2>1. net[s] \in Seq(Datagram)
    BY ViewTyped
  <2>2. net[s][1] \in Datagram
    BY <2>1
  <2> QED
    BY <2>1, <2>2, ViewTyped, MakesDatagram
<1>3. v = IF w # <<>> /\ Last(w) = l THEN w ELSE Append(w, l)
  BY DEF Shows, TypeOK
<1>4. ChatNet(net[s], 1, taken[o], Leaving(o)) /\ ChatShown(w, net[s], 1, taken[o], Leaving(o))
  BY <1>1 DEF View
<1>5. /\ ChatNet(RemoveAt(net[s], 1), 1, taken[o], Leaving(o))
      /\ ChatShown(v, RemoveAt(net[s], 1), 1, taken[o], Leaving(o))
  BY <1>2, <1>3, <1>4, HeadShown
<1>6. taken' = taken /\ (Leaving(o)' <=> Leaving(o)) /\ \A k : IsQuit(o, k)' <=> IsQuit(o, k)
  BY DEF user, stdin, Leaving, IsQuit
<1>7. /\ ChatNet(net'[s], First(s)', taken'[o], Leaving(o)')
      /\ ChatShown(v, net'[s], First(s)', taken'[o], Leaving(o)')
  BY <1>1, <1>5, <1>6 DEF ChatNet, ChatShown
<1>8. ToSet(w) \subseteq ToSet(v) /\ l \in ToSet(v)
  <2>1. CASE w # <<>> /\ Last(w) = l
    <3>1. Len(w) \in 1 .. Len(w) /\ w[Len(w)] = l
      BY <1>2, <2>1 DEF Last
    <3> QED
      BY <1>3, <2>1, <3>1 DEF ToSet
  <2>2. CASE ~(w # <<>> /\ Last(w) = l)
    <3>1. /\ v = Append(w, l) /\ Len(v) = Len(w) + 1 /\ v[Len(w) + 1] = l
          /\ \A k \in 1 .. Len(w) : v[k] = w[k] /\ Len(w) \in Nat
      BY <1>2, <1>3, <2>2
    <3>2. Len(w) \in Nat /\ DOMAIN v = 1 .. Len(v) /\ DOMAIN w = 1 .. Len(w)
      BY <1>2, <3>1
    <3> HIDE DEF v, w, l
    <3>3. Len(w) + 1 \in DOMAIN v /\ \A k \in DOMAIN w : k \in DOMAIN v /\ v[k] = w[k]
      BY <3>1, <3>2
    <3> QED
      BY <3>1, <3>3 DEF ToSet
  <2> QED
    BY <2>1, <2>2
<1>9. \A k : Came(s, k) => Came(s, k)'
  BY <1>6, <1>8 DEF Came
<1>10. ASSUME NEW k, NEW j \in 1 .. Len(net[s]), net[s][j].line = k
       PROVE  Came(s, k)' \/ Coming(s, k)'
  <2>1. CASE j = 1
    BY <1>8, <1>10, <2>1 DEF Came
  <2>2. CASE j # 1
    <3>1. PICK m \in 1 .. Len(RemoveAt(net[s], 1)) : RemoveAt(net[s], 1)[m] = net[s][j]
      <4> DEFINE one == 1
      <4>1. one \in 1 .. Len(net[s]) /\ one # j
        BY <1>2, <2>2
      <4> HIDE DEF one
      <4>2. \E m \in 1 .. Len(RemoveAt(net[s], one)) : RemoveAt(net[s], one)[m] = net[s][j]
        BY <1>2, <4>1, StillComing
      <4> QED
        BY <4>2 DEF one
    <3> QED
      BY <1>10, <3>1 DEF Coming
  <2> QED
    BY <2>1, <2>2
<1>11. Kept(s)'
  <2>1. \A k \in 1 .. taken[o] : Came(s, k) \/ Coming(s, k)
    BY <1>1 DEF View, Kept
  <2>2. \A k \in 1 .. taken[o] : Came(s, k)' \/ Coming(s, k)'
    BY <1>9, <1>10, <2>1 DEF Coming
  <2> QED
    BY <1>1, <1>6, <2>2 DEF Kept
<1> QED
  BY <1>7, <1>11 DEF View

(* The first datagram is the FIN: no line is behind it.                    *)
LEMMA ViewFin ==
  ASSUME TypeOK, NEW s \in Side, View(s), Steady(s), At(s, "socket"), At(s, "fin")',
         Len(net[s]) >= 1, net'[s] = RemoveAt(net[s], 1), IsFin(net[s][1])
  PROVE  View(s)'
<1> DEFINE o == Other(s)
           head == 1
<1>1. First(s) = 1 /\ First(s)' = 1 /\ Leaving(s)' /\ ~Leaving(s)
  BY DEF First, Handshaking, Leaving, At
<1>2. ChatNet(net[s], 1, taken[o], Leaving(o))
  BY <1>1 DEF View
<1>3. Len(net[s]) \in Nat
  BY ViewTyped
<1>4. net[s][1].line = NoLine /\ Leaving(o)
  BY <1>2 DEF ChatNet, IsFin
<1>6. \A j \in 1 .. Len(net[s]) : net[s][j].line = NoLine
  <2>1. \A j \in 2 .. Len(net[s]) : net[s][j].line = NoLine
    BY <1>2, <1>3, <1>4 DEF ChatNet
  <2> QED
    BY <1>4, <2>1
<1>7. \A k \in 1 .. taken[o] : Came(s, k)'
  <2>1. \A k \in 1 .. taken[o] : k # NoLine
    BY DEF NoLine
  <2>2. \A k \in 1 .. taken[o] : Came(s, k)
    BY <1>1, <1>6, <2>1 DEF View, Kept, Coming
  <2> QED
    BY <2>2 DEF Came, Steady
<1>8. Kept(s)'
  BY <1>1, <1>4, <1>7 DEF Kept, Steady
<1>9. head \in 1 .. Len(net[s]) /\ net'[s] = RemoveAt(net[s], head) /\ ~(head < First(s))
  BY <1>1, <1>3
<1> HIDE DEF head
<1>10. /\ ChatNet(net'[s], First(s)', taken'[o], Leaving(o)')
       /\ ChatShown(shown'[s], net'[s], First(s)', taken'[o], Leaving(o)')
  BY <1>1, <1>9, ViewThinned DEF Steady
<1> QED
  BY <1>8, <1>10 DEF View

(* The line taken is the /quit.                                            *)
LEMMA ViewQuits ==
  ASSUME TypeOK, NEW s \in Side, View(s), At(s, "input"), At(s, "fin")', TookQuit(s)',
         net'[s] = net[s], shown'[s] = shown[s], taken'[Other(s)] = taken[Other(s)],
         pc'[Other(s)] = pc[Other(s)]
  PROVE  View(s)'
<1>1. First(s) = 1 /\ First(s)' = 1 /\ Leaving(s)'
  BY DEF First, Handshaking, Leaving, At
<1>2. Leaving(Other(s))' <=> Leaving(Other(s))
  BY DEF Leaving
<1>3. /\ ChatNet(net'[s], First(s)', taken'[Other(s)], Leaving(Other(s))')
      /\ ChatShown(shown'[s], net'[s], First(s)', taken'[Other(s)], Leaving(Other(s))')
  BY <1>1, <1>2 DEF View, ChatNet, ChatShown
<1>4. Kept(s)'
  BY <1>1 DEF Kept
<1> QED
  BY <1>3, <1>4 DEF View

-----------------------------------------------------------------------------
(* Every action keeps both views and the handshake.                        *)

LEMMA SteadyStep ==
  ASSUME NEW s \in Side, shown'[s] = shown[s], lost'[s] = lost[s],
         UNCHANGED user, taken' = taken, Leaving(Other(s)) => Leaving(Other(s))'
  PROVE  Steady(s)
<1>1. /\ \A k : IsQuit(Other(s), k)' <=> IsQuit(Other(s), k)
      /\ TookQuit(s)' <=> TookQuit(s)
  BY DEF user, IsQuit, TookQuit
<1> QED
  BY <1>1 DEF Steady

(* Nothing but what one program does to its place and to the queues.       *)
LEMMA NothingElse ==
  ASSUME NEW s \in Side, View(s), UNCHANGED <<user, stdin, shown, lost>>,
         Leaving(Other(s)) => Leaving(Other(s))',
         net'[s] = net[s], First(s)' = First(s), Leaving(s)' <=> Leaving(s)
  PROVE  View(s)'
<1>1. Steady(s)
  BY SteadyStep DEF stdin
<1> QED
  BY <1>1, ViewStays

(* s goes to another place.                                                *)
LEMMA GoesTo ==
  ASSUME PcTyped, NEW s \in Side, NEW place, Goto(s, place)
  PROVE  /\ pc'[s] = place /\ pc'[Other(s)] = pc[Other(s)]
         /\ Leaving(Other(s))' <=> Leaving(Other(s))
         /\ Handshaking(Other(s))' <=> Handshaking(Other(s))
         /\ First(Other(s))' = First(Other(s))
<1>1. pc'[s] = place /\ pc'[Other(s)] = pc[Other(s)]
  BY Sides DEF Goto, PcTyped
<1> QED
  BY <1>1 DEF Leaving, Handshaking, First

OrderInv == \A s \in Side : View(s)

LEMMA BothViews ==
  ASSUME NEW s \in Side, View(s)', View(Other(s))'
  PROVE  OrderInv'
BY Sides DEF OrderInv

(* A signal of the teardown.                                               *)
LEMMA SignalStep ==
  ASSUME TypeOK, OrderInv, NEW s \in Side, NEW place, Goto(s, place),
         Leaving(s), Leaving(s)', NEW f \in SUBSET {"SYN", "ACK", "FIN"},
         Sends(s, Signal(f)), UNCHANGED <<user, stdin, history>>
  PROVE  OrderInv'
<1> DEFINE o == Other(s)
<1>1. o \in Side /\ Other(o) = s /\ View(s) /\ View(o)
  BY Sides DEF OrderInv
<1>2. /\ pc'[o] = pc[o] /\ (Leaving(o)' <=> Leaving(o))
  BY GoesTo, TypeParts
<1>3. /\ net'[s] = net[s]
      /\ net'[o] = net[o] \/ net'[o] = Append(net[o], Signal(f))
  BY SendsEffect, TypeParts, MakesDatagram
<1>4. UNCHANGED <<shown, lost>> /\ taken' = taken
  BY DEF history, stdin
<1>5. View(s)'
  <2>1. First(s)' = First(s)
    BY DEF First, Handshaking, Leaving
  <2> QED
    BY <1>1, <1>2, <1>3, <1>4, <2>1, NothingElse
<1>6. View(o)'
  <2>1. Steady(o)
    BY <1>1, <1>4, SteadyStep
  <2> QED
    BY <1>1, <1>2, <1>3, <2>1, ViewSignalled
<1> QED
  BY <1>5, <1>6, BothViews

(* A datagram read in the teardown.                                        *)
LEMMA DrainStep ==
  ASSUME Fifo, TypeOK, OrderInv, NEW s \in Side, NEW place, Goto(s, place),
         Leaving(s), Leaving(s)', MayReceive(s), UNCHANGED <<user, stdin, history>>
  PROVE  OrderInv'
<1> DEFINE o == Other(s)
<1>1. o \in Side /\ Other(o) = s /\ View(s) /\ View(o)
  BY Sides DEF OrderInv
<1>2. /\ pc'[o] = pc[o] /\ (Leaving(o)' <=> Leaving(o)) /\ First(o)' = First(o)
  BY GoesTo, TypeParts
<1>3. /\ net'[o] = net[o]
      /\ \/ net'[s] = net[s]
         \/ Len(net[s]) >= 1 /\ net'[s] = RemoveAt(net[s], 1)
  <2>1. /\ net'[o] = net[o]
        /\ \/ net'[s] = net[s]
           \/ \E i \in 1 .. Len(net[s]) : i = 1 /\ net'[s] = RemoveAt(net[s], i)
    BY MayReceiveEffect, TypeParts DEF Fifo
  <2>2. Len(net[s]) \in Nat
    BY ViewTyped
  <2> QED
    BY <2>1, <2>2
<1>4. UNCHANGED <<shown, lost>> /\ taken' = taken
  BY DEF history, stdin
<1>5. View(s)'
  <2>1. Steady(s)
    BY <1>2, <1>4, SteadyStep
  <2> QED
    BY <1>1, <1>3, <2>1, ViewDrains
<1>6. View(o)'
  BY <1>1, <1>2, <1>3, <1>4, NothingElse
<1> QED
  BY <1>5, <1>6, BothViews

(* A step that only moves one program on.                                  *)
LEMMA MoveStep ==
  ASSUME TypeOK, OrderInv, NEW s \in Side, NEW place, Goto(s, place),
         Leaving(s)' <=> Leaving(s), First(s)' = First(s), net' = net,
         UNCHANGED <<user, stdin, history>>
  PROVE  OrderInv'
<1> DEFINE o == Other(s)
<1>1. o \in Side /\ Other(o) = s /\ View(s) /\ View(o)
  BY Sides DEF OrderInv
<1>2. /\ pc'[o] = pc[o] /\ (Leaving(o)' <=> Leaving(o)) /\ First(o)' = First(o)
  BY GoesTo, TypeParts
<1>3. UNCHANGED <<shown, lost>>
  BY DEF history
<1> QED
  BY <1>1, <1>2, <1>3, NothingElse, BothViews

(* The input half of the loop.                                             *)
LEMMA InputStep ==
  ASSUME TypeOK, TypeOK', BufferInv', OrderInv, NEW s \in Side, HandlesInput(s)
  PROVE  OrderInv'
<1> DEFINE o == Other(s)
           k == buffer'[s]
<1>1. o \in Side /\ o # s /\ Other(o) = s /\ View(s) /\ View(o)
  BY Sides DEF OrderInv
<1>2. /\ Queues /\ PcTyped /\ UserTyped /\ StdinTyped /\ lost \in [Side -> SUBSET (Line \cup {Unset})]
      /\ k \in Line \cup {Unset}
  <2>1. k \in Line \cup {Unset}
    BY DEF TypeOK
  <2> QED
    BY <2>1, TypeParts DEF HistoryTyped
<1>3. /\ taken'[s] = k /\ (k = taken[s] \/ k = taken[s] + 1) /\ taken'[o] = taken[o]
      /\ UNCHANGED <<user, shown>>
  <2>1. Fgets(s) /\ UNCHANGED <<user, shown>>
    BY DEF HandlesInput
  <2>2. /\ taken'[s] = taken[s] + 1 \/ taken'[s] = taken[s]
        /\ taken'[o] = taken[o]
    BY <1>1, <1>2, <2>1, FgetsEffect
  <2> QED
    BY <2>1, <2>2 DEF BufferInv
<1>4. ~Leaving(s) /\ First(s) = 1 /\ At(s, "input")
  BY DEF HandlesInput, At, Leaving, First, Handshaking
<1>5. quit' = quit /\ typed' = typed
  BY <1>3 DEF user
<1>6. CASE IsQuit(s, k) /\ Goto(s, "fin") /\ UNCHANGED <<net, lost>>
  <2>1. pc'[s] = "fin" /\ pc'[o] = pc[o]
    BY <1>2, <1>6, GoesTo
  <2>2. At(s, "fin")' /\ TookQuit(s)'
    BY <1>3, <1>5, <1>6, <2>1 DEF At, TookQuit, IsQuit
  <2>3. View(s)'
    BY <1>1, <1>3, <1>4, <1>6, <2>1, <2>2, ViewQuits
  <2>4. View(o)'
    BY <1>1, <1>2, <1>3, <1>4, <1>6, <2>1, ViewHears
  <2> QED
    BY <2>3, <2>4, BothViews
<1>7. CASE /\ ~IsQuit(s, k)
           /\ Sends(s, Says(k))
           /\ lost' = [lost EXCEPT ![o] = IF Arrives(o) THEN @ ELSE @ \cup {k}]
           /\ Goto(s, IF "socket" \in ready[s] THEN "socket" ELSE "select")
  <2> DEFINE place == IF "socket" \in ready[s] THEN "socket" ELSE "select"
  <2>1. pc'[s] = place /\ pc'[o] = pc[o] /\ First(o)' = First(o) /\ (Leaving(o)' <=> Leaving(o))
    BY <1>2, <1>7, GoesTo
  <2>2. ~Leaving(s)' /\ First(s)' = 1
    BY <2>1 DEF Leaving, First, Handshaking
  <2>3. /\ net'[s] = net[s]
        /\ net'[o] = IF Arrives(o) THEN Append(net[o], Says(k)) ELSE net[o]
    BY <1>2, <1>7, SendsEffect, MakesDatagram
  <2>4. /\ lost'[s] = lost[s]
        /\ lost'[o] = IF Arrives(o) THEN lost[o] ELSE lost[o] \cup {k}
    BY <1>1, <1>2, <1>7
  <2>5. View(s)'
    <3>1. \A j : IsQuit(o, j)' <=> IsQuit(o, j)
      BY <1>5 DEF IsQuit
    <3>2. Steady(s)
      BY <1>3, <1>4, <2>1, <2>4, <3>1 DEF Steady
    <3> QED
      BY <1>1, <1>4, <2>2, <2>3, <3>2, ViewStays
  <2>6. View(o)'
    BY <1>1, <1>2, <1>3, <1>4, <2>1, <2>2, <2>3, <2>4, ViewHears
  <2> QED
    BY <2>5, <2>6, BothViews
<1> QED
  BY <1>6, <1>7 DEF HandlesInput

(* The socket half.                                                        *)
LEMMA SocketStep ==
  ASSUME Fifo, TypeOK, OrderInv, NEW s \in Side, HandlesSocket(s)
  PROVE  OrderInv'
<1> DEFINE o == Other(s)
<1>1. o \in Side /\ o # s /\ Other(o) = s /\ View(s) /\ View(o)
  BY Sides DEF OrderInv
<1>2. Queues /\ PcTyped /\ HistoryTyped /\ At(s, "socket") /\ UNCHANGED <<user, stdin, lost>>
      /\ taken' = taken
  BY TypeParts DEF HandlesSocket, stdin
<1>3. CASE net[s] = <<>> /\ Goto(s, "select") /\ UNCHANGED <<net, shown>>
  <2>1. pc'[s] = "select"
    BY <1>2, <1>3, GoesTo
  <2>2. (Leaving(s)' <=> Leaving(s)) /\ First(s)' = First(s)
    BY <1>2, <2>1 DEF At, Leaving, First, Handshaking
  <2>3. UNCHANGED history
    BY <1>2, <1>3 DEF history
  <2> QED
    BY <1>2, <1>3, <2>2, <2>3, MoveStep
<1>4. ASSUME NEW d, Receives(s, d),
             \/ IsFin(d) /\ Goto(s, "fin") /\ UNCHANGED shown
             \/ ~IsFin(d) /\ Shows(s, d.line) /\ Goto(s, "select")
      PROVE  OrderInv'
  <2>1. /\ net'[o] = net[o] /\ Len(net[s]) >= 1
        /\ d = net[s][1] /\ net'[s] = RemoveAt(net[s], 1)
    <3>1. /\ net'[o] = net[o]
          /\ \E i \in 1 .. Len(net[s]) :
               /\ i = 1
               /\ d = net[s][i]
               /\ net'[s] = RemoveAt(net[s], i)
      BY <1>2, <1>4, ReceivesEffect DEF Fifo
    <3>2. Len(net[s]) \in Nat
      BY ViewTyped
    <3> QED
      BY <3>1, <3>2
  <2>2. shown'[o] = shown[o]
    BY <1>1, <1>2, <1>4 DEF Shows, HistoryTyped
  <2>3. CASE IsFin(d) /\ Goto(s, "fin") /\ UNCHANGED shown
    <3>1. /\ pc'[s] = "fin" /\ pc'[o] = pc[o] /\ (Leaving(o)' <=> Leaving(o)) /\ First(o)' = First(o)
      BY <1>2, <2>3, GoesTo
    <3>2. At(s, "fin")' /\ Leaving(s)'
      BY <3>1 DEF At, Leaving
    <3>3. Steady(s) /\ Steady(o)
      BY <1>1, <1>2, <2>3, <3>1, <3>2, SteadyStep
    <3>4. View(s)'
      BY <1>1, <1>2, <2>1, <2>3, <3>2, <3>3, ViewFin
    <3>5. View(o)'
      BY <1>1, <2>1, <3>1, <3>3, ViewStays
    <3> QED
      BY <3>4, <3>5, BothViews
  <2>4. CASE ~IsFin(d) /\ Shows(s, d.line) /\ Goto(s, "select")
    <3>1. /\ pc'[s] = "select" /\ pc'[o] = pc[o] /\ (Leaving(o)' <=> Leaving(o)) /\ First(o)' = First(o)
      BY <1>2, <2>4, GoesTo
    <3>2. At(s, "select")' /\ ~Leaving(s)
      BY <1>2, <3>1 DEF At, Leaving
    <3>3. Steady(o)
      BY <1>1, <1>2, <2>2, <3>2, SteadyStep
    <3>4. View(s)'
      BY <1>1, <1>2, <2>1, <2>4, <3>1, <3>2, ViewShows
    <3>5. View(o)'
      BY <1>1, <2>1, <3>1, <3>3, ViewStays
    <3> QED
      BY <3>4, <3>5, BothViews
  <2> QED
    BY <1>4, <2>3, <2>4
<1> QED
  BY <1>3, <1>4 DEF HandlesSocket

(* The users, and the loss of a line.                                      *)
LEMMA UserStep ==
  ASSUME TypeOK, TypeOK', HandshakeInv, OrderInv, NEW t \in Side,
         Types(t) \/ Closes(t) \/ TypesOn(t) \/ Loses(t)
  PROVE  OrderInv'
<1> SUFFICES ASSUME NEW s \in Side PROVE View(s)'
  BY DEF OrderInv
<1> DEFINE o == Other(s)
<1>1. o \in Side /\ Other(o) = s /\ View(s) /\ (t = s \/ t = o)
  BY Sides DEF OrderInv
<1>2. /\ pc' = pc /\ stdin' = stdin /\ shown' = shown /\ taken' = taken
      /\ (Leaving(s)' <=> Leaving(s)) /\ (Leaving(o)' <=> Leaving(o)) /\ First(s)' = First(s)
  <2>1. pc' = pc /\ stdin' = stdin /\ shown' = shown
    BY DEF Types, Closes, TypesOn, Loses, history
  <2> QED
    BY <2>1 DEF Leaving, First, Handshaking, stdin
<1>3. CASE Loses(t) /\ t = s
  BY <1>1, <1>3, ViewLoses
<1>4. CASE Loses(t) /\ t # s
  <2>1. UNCHANGED user /\ net'[s] = net[s]
    BY <1>1, <1>4, LosesEffect, TypeParts DEF Loses
  <2>2. lost'[s] = lost[s]
    BY <1>4 DEF Loses, TypeOK
  <2>3. Steady(s)
    BY <1>2, <2>1, <2>2, SteadyStep
  <2> QED
    BY <1>1, <1>2, <2>1, <2>3, ViewStays
<1>5. CASE Types(t) \/ Closes(t) \/ TypesOn(t)
  <2>1. net' = net /\ lost' = lost
    BY <1>5 DEF Types, Closes, TypesOn, history
  <2>2. ASSUME NEW u \in Side
        PROVE  \/ quit'[u] = quit[u] /\ typed'[u] = typed[u]
               \/ ~quit[u] /\ typed'[u] = typed[u] + 1
    <3>1. CASE Types(t)
      <4>1. /\ typed' = [typed EXCEPT ![t] = @ + 1] /\ ~quit[t]
            /\ \E last \in BOOLEAN : quit' = [quit EXCEPT ![t] = last]
        BY <3>1 DEF Types
      <4>2. quit \in [Side -> BOOLEAN] /\ DOMAIN typed = Side
        BY DEF TypeOK
      <4>3. CASE u = t
        BY <4>1, <4>2, <4>3
      <4>4. CASE u # t
        BY <4>1, <4>2, <4>4
      <4> QED
        BY <4>3, <4>4
    <3>2. CASE Closes(t) \/ TypesOn(t)
      BY <3>2 DEF Closes, TypesOn
    <3> QED
      BY <1>5, <3>1, <3>2
  <2>3. /\ \A k \in 1 .. taken[o] : IsQuit(o, k)' <=> IsQuit(o, k)
        /\ TookQuit(s) => TookQuit(s)'
    <3>1. \A k \in 1 .. taken[o] : IsQuit(o, k)' <=> IsQuit(o, k)
      BY <1>1, <1>2, <2>2, QuitStays
    <3>2. TookQuit(s) => TookQuit(s)'
      BY <1>2, <2>2, QuitStays
    <3> QED
      BY <3>1, <3>2
  <2>4. Steady(s)
    BY <1>2, <2>1, <2>3 DEF Steady
  <2> QED
    BY <1>1, <1>2, <2>1, <2>4, ViewStays
<1> QED
  BY <1>3, <1>4, <1>5

(* A queue that gives up a datagram.                                       *)
LEMMA OneLess ==
  ASSUME NEW q \in Seq(Datagram), NEW i \in 1 .. Len(q)
  PROVE  /\ Len(q) \in Nat /\ Len(RemoveAt(q, i)) = Len(q) - 1
         /\ \A j \in 1 .. Len(q) : j < i => RemoveAt(q, i)[j] = q[j]
<1> DEFINE r == RemoveAt(q, i)
<1>1. /\ Len(r) = Len(q) - 1
      /\ \A k \in 1 .. Len(q) - 1 : r[k] = IF k < i THEN q[k] ELSE q[k + 1]
  BY RemoveAtEntries
<1>2. Len(q) \in Nat
  OBVIOUS
<1> HIDE DEF r
<1>3. \A j \in 1 .. Len(q) : j < i => r[j] = q[j]
  BY <1>1, <1>2
<1> QED
  BY <1>1, <1>2, <1>3 DEF r

(* A queue of one signal.                                                  *)
LEMMA OneSignal ==
  ASSUME NEW f
  PROVE  /\ Len(<<Signal(f)>>) = 1
         /\ <<Signal(f)>>[1].line = NoLine
         /\ \A i \in 1 .. Len(<<Signal(f)>>) : i = 1 => <<Signal(f)>>[i].line = NoLine
BY DEF Signal

(* The client asks for a connection.                                       *)
LEMMA SynStep ==
  ASSUME TypeOK, TypeOK', HandshakeInv, SendsSyn
  PROVE  OrderInv' /\ HandshakeInv'
<1>1. /\ Queues /\ PcTyped /\ At("client", "syn") /\ At("server", "listen")
      /\ net["server"] = <<>> /\ net["client"] = <<>>
      /\ UNCHANGED <<taken, shown>>
  BY TypeParts DEF SendsSyn, HandshakeInv, stdin, history
<1>2. /\ pc'["client"] = "synack" /\ pc'["server"] = "listen"
  BY <1>1, GoesTo, Sides DEF SendsSyn, At, Side
<1>3. /\ net'["client"] = <<>>
      /\ net'["server"] = <<>> \/ net'["server"] = <<Signal({"SYN"})>>
  <2>1. "client" \in Side /\ Signal({"SYN"}) \in Datagram /\ Sends("client", Signal({"SYN"}))
    BY MakesDatagram DEF Side, SendsSyn
  <2>2. /\ net'["client"] = net["client"]
        /\ net'["server"] = net["server"] \/ net'["server"] = Append(net["server"], Signal({"SYN"}))
    BY <1>1, <2>1, SendsEffect, Sides
  <2>3. Append(<<>>, Signal({"SYN"})) = <<Signal({"SYN"})>>
    BY <2>1
  <2> QED
    BY <1>1, <2>2, <2>3
<1>4. \A s \in Side : shown[s] = <<>> /\ taken[s] = 0
  BY <1>1 DEF HandshakeInv, Handshaking, At, Side
<1>5. \A s \in Side : /\ Len(net'[s]) <= 1 /\ Handshaking(s)'
                      /\ \A i \in 1 .. Len(net'[s]) : i = 1 => net'[s][i].line = NoLine
  <2>1. \A s \in Side : Handshaking(s)'
    BY <1>2 DEF Side, Handshaking
  <2>2. ASSUME NEW s \in Side
        PROVE  /\ Len(net'[s]) <= 1
               /\ \A i \in 1 .. Len(net'[s]) : i = 1 => net'[s][i].line = NoLine
    <3>1. net'[s] = <<>> \/ net'[s] = <<Signal({"SYN"})>>
      BY <1>3 DEF Side
    <3>2. CASE net'[s] = <<>>
      BY <3>2
    <3>3. CASE net'[s] = <<Signal({"SYN"})>>
      BY <3>3, OneSignal
    <3> QED
      BY <3>1, <3>2, <3>3
  <2> QED
    BY <2>1, <2>2
<1>6. HandshakeInv'
  <2>1. \A s \in Side : Handshaking(s)' =>
          /\ shown'[s] = <<>> /\ taken'[s] = 0
          /\ \A i \in 1 .. Len(net'[s]) : i = 1 => net'[s][i].line = NoLine
    BY <1>1, <1>4, <1>5
  <2>2. Len(net'["server"]) <= 1
    BY <1>5 DEF Side
  <2> QED
    BY <1>2, <1>3, <2>1, <2>2 DEF HandshakeInv, At
<1>7. ASSUME NEW s \in Side PROVE View(s)'
  <2>1. First(s)' = 2 /\ ~Leaving(s)' /\ Len(net'[s]) \in Nat
    <3>1. net' \in [Side -> Seq(Datagram)]
      BY DEF TypeOK
    <3>2. Len(net'[s]) \in Nat
      BY <3>1
    <3> QED
      BY <1>5, <3>2 DEF First, Leaving, Handshaking
  <2>2. Len(net'[s]) < First(s)'
    BY <1>5, <2>1
  <2>3. shown'[s] = <<>> /\ taken'[Other(s)] = 0
    BY <1>1, <1>4, Sides
  <2> QED
    BY <2>1, <2>2, <2>3, ViewBegins
<1> QED
  BY <1>6, <1>7 DEF OrderInv

(* What an answer of the handshake does to the places and the queues.      *)
LEMMA AnswerMoves ==
  ASSUME TypeOK, NEW s \in Side, NEW place, NEW next, NEW f \in SUBSET {"SYN", "ACK", "FIN"},
         Answers(s, place, f, next)
  PROVE  /\ pc[s] = place /\ pc'[s] = next /\ pc'[Other(s)] = pc[Other(s)]
         /\ Len(net[s]) >= 1 /\ Len(net[s]) \in Nat /\ Len(net'[s]) = Len(net[s]) - 1
         /\ net'[Other(s)] = Append(net[Other(s)], Signal(f)) \/ net'[Other(s)] = net[Other(s)]
         /\ net[Other(s)] = <<>> => net'[Other(s)] = <<Signal(f)>>
         /\ UNCHANGED <<taken, shown>>
<1>1. Queues /\ PcTyped /\ Other(s) \in Side
  BY TypeParts, Sides
<1>2. /\ net'[Other(s)] = Send(net[Other(s)], Signal(f))
      /\ \E i \in 1 .. Len(net[s]) : net'[s] = RemoveAt(net[s], i)
  BY <1>1, AnswersEffect
<1>3. Len(net[s]) >= 1 /\ Len(net[s]) \in Nat /\ Len(net'[s]) = Len(net[s]) - 1
  <2>1. net[s] \in Seq(Datagram)
    BY <1>1 DEF Queues
  <2>2. PICK i \in 1 .. Len(net[s]) : net'[s] = RemoveAt(net[s], i)
    BY <1>2
  <2>3. Len(net[s]) \in Nat /\ Len(RemoveAt(net[s], i)) = Len(net[s]) - 1
    BY <2>1, OneLess
  <2> QED
    BY <2>2, <2>3
<1>4. Capacity >= 1 /\ Capacity \in Nat
  BY <1>1, <1>3, ShamAssumption DEF Queues
<1>5. net[Other(s)] = <<>> => net'[Other(s)] = <<Signal(f)>>
  <2>1. Signal(f) \in Datagram
    BY MakesDatagram
  <2>2. Len(<<>>) = 0 /\ Append(<<>>, Signal(f)) = <<Signal(f)>>
    BY <2>1
  <2> QED
    BY <1>2, <1>4, <2>2 DEF Send
<1>6. pc[s] = place /\ pc'[s] = next /\ pc'[Other(s)] = pc[Other(s)]
  BY <1>1, GoesTo DEF Answers, At
<1>7. UNCHANGED <<taken, shown>>
  BY DEF Answers, stdin, history
<1> QED
  BY <1>2, <1>3, <1>5, <1>6, <1>7 DEF Send

(* The server answers the SYN.                                             *)
LEMMA SynAckStep ==
  ASSUME TypeOK, TypeOK', HandshakeInv, Answers("server", "listen", {"SYN", "ACK"}, "ack")
  PROVE  OrderInv' /\ HandshakeInv'
<1>1. "server" \in Side /\ "client" \in Side /\ Other("server") = "client"
  BY Sides DEF Side
<1>2. /\ pc["server"] = "listen" /\ pc'["server"] = "ack" /\ pc'["client"] = pc["client"]
      /\ Len(net["server"]) >= 1 /\ Len(net["server"]) \in Nat
      /\ Len(net'["server"]) = Len(net["server"]) - 1
      /\ net["client"] = <<>> => net'["client"] = <<Signal({"SYN", "ACK"})>>
      /\ UNCHANGED <<taken, shown>>
  BY <1>1, AnswerMoves
<1>3. /\ pc["client"] = "synack" /\ net["client"] = <<>> /\ Len(net["server"]) <= 1
  <2>1. pc["client"] \in {"syn", "synack"} /\ net["client"] = <<>> /\ Len(net["server"]) <= 1
    BY <1>2 DEF HandshakeInv, At
  <2>2. pc["client"] = "syn" => Len(net["server"]) = 0
    BY DEF HandshakeInv, At
  <2> QED
    BY <1>2, <2>1, <2>2
<1>4. /\ net'["client"] = <<Signal({"SYN", "ACK"})>>
      /\ Len(net'["server"]) = 0 /\ net'["server"] = <<>>
  <2>1. net'["client"] = <<Signal({"SYN", "ACK"})>>
    BY <1>2, <1>3
  <2>2. Len(net["server"]) = 1 /\ Len(net'["server"]) = Len(net["server"]) - 1
    <3>1. /\ Len(net["server"]) >= 1 /\ Len(net["server"]) \in Nat
          /\ Len(net'["server"]) = Len(net["server"]) - 1
      BY <1>2, Zenon
    <3>2. Len(net["server"]) <= 1
      BY <1>3, Zenon
    <3> DEFINE n == Len(net["server"])
               m == Len(net'["server"])
    <3>3. n >= 1 /\ n \in Nat /\ m = n - 1 /\ n <= 1
      BY <3>1, <3>2, Zenon
    <3> HIDE DEF n, m
    <3>4. n = 1 /\ m = n - 1
      BY <3>3
    <3> QED
      BY <3>4, Zenon DEF n, m
  <2>3. net' \in [Side -> Seq(Datagram)]
    BY DEF TypeOK
  <2>4. net'["server"] \in Seq(Datagram)
    BY <1>1, <2>3
  <2> QED
    BY <2>1, <2>2, <2>4
<1>5. \A s \in Side : shown[s] = <<>> /\ taken[s] = 0
  BY <1>2, <1>3 DEF HandshakeInv, Handshaking, Side
<1>6. \A s \in Side : /\ Len(net'[s]) <= 1 /\ Handshaking(s)'
                      /\ \A i \in 1 .. Len(net'[s]) : i = 1 => net'[s][i].line = NoLine
  <2>1. \A s \in Side : Handshaking(s)'
    BY <1>2, <1>3 DEF Side, Handshaking
  <2>2. ASSUME NEW s \in Side
        PROVE  /\ Len(net'[s]) <= 1
               /\ \A i \in 1 .. Len(net'[s]) : i = 1 => net'[s][i].line = NoLine
    <3>1. net'[s] = <<>> \/ net'[s] = <<Signal({"SYN", "ACK"})>>
      BY <1>4 DEF Side
    <3>2. CASE net'[s] = <<>>
      BY <3>2
    <3>3. CASE net'[s] = <<Signal({"SYN", "ACK"})>>
      BY <3>3, OneSignal
    <3> QED
      BY <3>1, <3>2, <3>3
  <2> QED
    BY <2>1, <2>2
<1>7. HandshakeInv'
  BY <1>2, <1>3, <1>4, <1>5, <1>6 DEF HandshakeInv, At, Handshaking
<1>8. ASSUME NEW s \in Side PROVE View(s)'
  <2>1. First(s)' = 2 /\ ~Leaving(s)' /\ Len(net'[s]) \in Nat
    <3>1. net' \in [Side -> Seq(Datagram)]
      BY DEF TypeOK
    <3>2. Len(net'[s]) \in Nat
      BY <3>1
    <3> QED
      BY <1>6, <3>2 DEF First, Leaving, Handshaking
  <2>2. Len(net'[s]) < First(s)'
    BY <1>6, <2>1
  <2>3. shown'[s] = <<>> /\ taken'[Other(s)] = 0
    BY <1>2, <1>5, Sides
  <2> QED
    BY <2>1, <2>2, <2>3, ViewBegins
<1> QED
  BY <1>7, <1>8 DEF OrderInv

(* The client answers the SYN-ACK and is in its chat.                      *)
LEMMA AckStep ==
  ASSUME TypeOK, TypeOK', HandshakeInv, Answers("client", "synack", {"ACK"}, "select")
  PROVE  OrderInv' /\ HandshakeInv'
<1>1. "server" \in Side /\ "client" \in Side /\ Other("client") = "server"
  BY Sides DEF Side
<1>2. /\ pc["client"] = "synack" /\ pc'["client"] = "select" /\ pc'["server"] = pc["server"]
      /\ Len(net["client"]) >= 1 /\ Len(net["client"]) \in Nat
      /\ Len(net'["client"]) = Len(net["client"]) - 1
      /\ net["server"] = <<>> => net'["server"] = <<Signal({"ACK"})>>
      /\ UNCHANGED <<taken, shown>>
  BY <1>1, AnswerMoves
<1>3. /\ pc["server"] = "ack" /\ net["server"] = <<>> /\ Len(net["client"]) <= 1
  <2>1. pc["server"] = "listen" => Len(net["client"]) = 0
    BY DEF HandshakeInv, At
  <2>2. pc["server"] = "ack"
    BY <1>2, <2>1 DEF HandshakeInv, At
  <2> QED
    BY <1>2, <2>2 DEF HandshakeInv, At
<1>4. net'["server"] = <<Signal({"ACK"})>> /\ Len(net'["client"]) = 0
  <2>1. net'["server"] = <<Signal({"ACK"})>>
    BY <1>2, <1>3
  <2>2. Len(net["client"]) = 1 /\ Len(net'["client"]) = Len(net["client"]) - 1
    <3>1. /\ Len(net["client"]) >= 1 /\ Len(net["client"]) \in Nat
          /\ Len(net'["client"]) = Len(net["client"]) - 1
      BY <1>2, Zenon
    <3>2. Len(net["client"]) <= 1
      BY <1>3, Zenon
    <3> DEFINE n == Len(net["client"])
               m == Len(net'["client"])
    <3>3. n >= 1 /\ n \in Nat /\ m = n - 1 /\ n <= 1
      BY <3>1, <3>2, Zenon
    <3> HIDE DEF n, m
    <3>4. n = 1 /\ m = n - 1
      BY <3>3
    <3> QED
      BY <3>4, Zenon DEF n, m
  <2> QED
    BY <2>1, <2>2
<1>5. \A s \in Side : shown[s] = <<>> /\ taken[s] = 0
  BY <1>2, <1>3 DEF HandshakeInv, Handshaking, Side
<1>6. /\ pc'["server"] = "ack" /\ pc'["client"] = "select"
      /\ \A s \in Side : Handshaking(s)' => s = "server"
      /\ \A i \in 1 .. Len(net'["server"]) : i = 1 => net'["server"][i].line = NoLine
      /\ Len(net'["server"]) = 1
  BY <1>2, <1>3, <1>4 DEF Side, Handshaking, Signal
<1>7. HandshakeInv'
  BY <1>2, <1>5, <1>6 DEF HandshakeInv, At, Handshaking
<1>8. ASSUME NEW s \in Side PROVE View(s)'
  <2>1. Len(net'[s]) < First(s)' /\ ~Leaving(s)'
    BY <1>4, <1>6 DEF First, Leaving, Handshaking, Side
  <2>3. shown'[s] = <<>> /\ taken'[Other(s)] = 0
    BY <1>2, <1>5, Sides
  <2> QED
    BY <2>1, <2>3, ViewBegins
<1> QED
  BY <1>7, <1>8 DEF OrderInv

(* The server takes the ACK and is in its chat.                            *)
LEMMA TakesAckStep ==
  ASSUME Fifo, TypeOK, HandshakeInv, OrderInv, TakesAck
  PROVE  OrderInv' /\ HandshakeInv'
<1>1. "server" \in Side /\ "client" \in Side
      /\ Other("server") = "client" /\ Other("client") = "server"
  BY Sides DEF Side
<1>2. /\ Queues /\ PcTyped /\ pc["server"] = "ack" /\ Goto("server", "select")
      /\ UNCHANGED <<user, stdin, history>> /\ UNCHANGED <<shown, lost, taken>>
  BY TypeParts DEF TakesAck, At, stdin, history
<1>3. PICK d \in InFlight(net["server"]) : Receives("server", d)
  BY DEF TakesAck
<1>4. /\ net'["client"] = net["client"]
      /\ Len(net["server"]) >= 1 /\ net'["server"] = RemoveAt(net["server"], 1)
  <2>1. /\ net'["client"] = net["client"]
        /\ \E i \in 1 .. Len(net["server"]) :
             i = 1 /\ net'["server"] = RemoveAt(net["server"], i)
    BY <1>1, <1>2, <1>3, ReceivesEffect DEF Fifo
  <2>2. Len(net["server"]) \in Nat
    BY <1>1, ViewTyped
  <2> QED
    BY <2>1, <2>2
<1>5. /\ pc'["server"] = "select" /\ pc'["client"] = pc["client"]
      /\ Leaving("client")' <=> Leaving("client")
      /\ First("client")' = First("client")
  BY <1>1, <1>2, GoesTo
<1>6. /\ At("server", "select")' /\ Handshaking("server")
      /\ ~Leaving("server") /\ ~Leaving("server")'
  BY <1>2, <1>5 DEF At, Handshaking, Leaving
<1>7. ~Handshaking("client")
  <2>1. pc["client"] # "synack"
    <3>1. pc["client"] = "synack" => Len(net["server"]) = 0
      BY <1>2 DEF HandshakeInv, At
    <3> QED
      BY <1>4, <3>1
  <2>2. pc["client"] # "syn"
    BY <1>2 DEF HandshakeInv, At
  <2> QED
    BY <2>1, <2>2 DEF HandshakeInv, Handshaking
<1>8. HandshakeInv'
  <2>1. pc'["client"] \notin {"syn", "synack", "listen", "ack"} /\ pc'["client"] # "recv"
    BY <1>5, <1>7 DEF HandshakeInv, Handshaking
  <2>2. \A s \in Side : ~Handshaking(s)'
    BY <1>5, <2>1 DEF Handshaking, Side
  <2> QED
    BY <1>5, <2>1, <2>2 DEF HandshakeInv, At
<1>9. Steady("server") /\ Steady("client")
  BY <1>1, <1>2, <1>5, <1>6, SteadyStep
<1>10. View("server") /\ View("client")
  BY <1>1 DEF OrderInv
<1>11. View("server")'
  BY <1>1, <1>4, <1>6, <1>9, <1>10, ViewTakesAck
<1>12. View("client")'
  BY <1>1, <1>4, <1>5, <1>9, <1>10, ViewStays
<1> QED
  BY <1>1, <1>8, <1>11, <1>12, BothViews

(* The handshake of one side does not mind what the other side does in its *)
(* chat: what is sent goes behind the signal that is on its way.           *)
LEMMA HandshakeChat ==
  ASSUME TypeOK, TypeOK', HandshakeInv, NEW s \in Side, ~Handshaking(s),
         pc'[s] \notin {"syn", "synack", "listen", "ack"},
         s = "client" => pc'[s] # "recv", s = "server" => pc'[s] \notin {"recv1", "recv2"},
         pc'[Other(s)] = pc[Other(s)],
         taken'[Other(s)] = taken[Other(s)], shown'[Other(s)] = shown[Other(s)],
         \/ net'[Other(s)] = net[Other(s)]
         \/ \E d \in Datagram : net'[Other(s)] = Append(net[Other(s)], d)
  PROVE  HandshakeInv'
<1> DEFINE o == Other(s)
<1>1. /\ o \in Side /\ {s, o} = Side /\ s # o
      /\ (s = "client" /\ o = "server") \/ (s = "server" /\ o = "client")
  BY Sides DEF Side
<1>2. ~Handshaking(s)'
  BY DEF Handshaking
<1>3. CASE ~Handshaking(o)
  <2>1. ~Handshaking(o)'
    BY <1>3 DEF Handshaking
  <2> QED
    BY <1>1, <1>2, <2>1 DEF HandshakeInv, Handshaking, At
<1>4. CASE Handshaking(o)
  <2>1. s = "client" /\ o = "server" /\ pc["server"] = "ack" /\ Len(net["server"]) >= 1
    BY <1>1, <1>4 DEF HandshakeInv, Handshaking, At
  <2>2. /\ net[o] \in Seq(Datagram) /\ Len(net[o]) \in Nat
    BY <1>1, ViewTyped
  <2>3. \A d \in Datagram : /\ Len(Append(net[o], d)) >= 1
                            /\ Append(net[o], d)[1] = net[o][1]
    BY <2>1, <2>2
  <2>4. Len(net'["server"]) >= 1 /\ net'["server"][1] = net["server"][1]
    BY <2>1, <2>3
  <2>5. net["server"][1].line = NoLine
    BY <1>1, <1>4, <2>1, <2>2 DEF HandshakeInv
  <2>6. /\ shown'["server"] = <<>> /\ taken'["server"] = 0 /\ pc'["server"] = "ack"
    BY <1>1, <1>4, <2>1 DEF HandshakeInv
  <2> QED
    BY <1>1, <1>2, <2>1, <2>4, <2>5, <2>6 DEF HandshakeInv, Handshaking, At
<1> QED
  BY <1>3, <1>4

LEMMA HandshakeLoses ==
  ASSUME TypeOK, HandshakeInv, NEW s \in Side, Loses(s)
  PROVE  HandshakeInv'
<1>1. UNCHANGED <<pc, taken, shown>> /\ Other(s) \in Side
  BY Sides DEF Loses, stdin
<1>2. PICK i \in 1 .. Len(net[s]) :
         /\ net[s][i].line # NoLine
         /\ net'[s] = RemoveAt(net[s], i)
  BY LosesEffect, TypeParts
<1>3. net'[Other(s)] = net[Other(s)]
  BY LosesEffect, TypeParts
<1>4. net[s] \in Seq(Datagram)
  BY DEF TypeOK
<1>5. /\ Len(net[s]) \in Nat /\ Len(net'[s]) = Len(net[s]) - 1
      /\ \A j \in 1 .. Len(net[s]) : j < i => net'[s][j] = net[s][j]
  BY <1>2, <1>4, OneLess
<1>6. Handshaking(s) => i >= 2 /\ Len(net'[s]) >= 1 /\ net'[s][1] = net[s][1]
  <2>1. Handshaking(s) => i # 1
    BY <1>2 DEF HandshakeInv
  <2> QED
    BY <1>2, <1>5, <2>1
<1>7. Handshaking(s) => Len(net[s]) >= 2 /\ net[s] # <<>>
  <2>1. Len(<<>>) = 0
    OBVIOUS
  <2> QED
    BY <1>5, <1>6, <2>1
<1>8. \A t \in Side : /\ Handshaking(t)' <=> Handshaking(t)
                      /\ Handshaking(t) => shown'[t] = <<>> /\ taken'[t] = 0
  BY <1>1 DEF Handshaking, HandshakeInv
<1>9. \A t \in Side : Handshaking(t) =>
         \A j \in 1 .. Len(net'[t]) : j = 1 => net'[t][j].line = NoLine
  <2> SUFFICES ASSUME NEW t \in Side, Handshaking(t), 1 \in 1 .. Len(net'[t])
               PROVE  net'[t][1].line = NoLine
    OBVIOUS
  <2>1. CASE t = s
    <3>1. 1 \in 1 .. Len(net[s])
      BY <1>5, <1>7, <2>1
    <3> QED
      BY <1>6, <2>1, <3>1 DEF HandshakeInv
  <2>2. CASE t # s
    <3>1. net'[t] = net[t]
      BY <1>3, <2>2, Sides
    <3> QED
      BY <3>1 DEF HandshakeInv
  <2> QED
    BY <2>1, <2>2
<1>10. ~At("client", "syn") /\ ~At("server", "listen")
  <2>1. pc["client"] = "syn" => Len(net["client"]) = 0 /\ Len(net["server"]) = 0
    BY DEF HandshakeInv, At
  <2>2. pc["server"] = "listen" => Len(net["client"]) = 0 /\ Len(net["server"]) <= 1
                                   /\ Handshaking("server")
    BY DEF HandshakeInv, At, Handshaking
  <2>3. Len(net[s]) >= 1
    BY <1>2, <1>5
  <2>4. s = "client" \/ s = "server"
    BY DEF Side
  <2> QED
    BY <1>5, <1>7, <2>1, <2>2, <2>3, <2>4 DEF At
<1>11. /\ At("server", "ack") /\ At("client", "synack") =>
            net'["server"] = <<>> /\ Len(net'["client"]) <= 1
       /\ At("server", "ack") /\ ~At("client", "synack") => Len(net'["server"]) >= 1
  <2>1. CASE s = "client"
    <3>1. net'["server"] = net["server"]
      BY <1>3, <2>1, Sides
    <3>2. Len(net'["client"]) <= Len(net["client"])
      BY <1>5, <2>1
    <3>3. At("client", "synack") => Handshaking("client")
      BY DEF At, Handshaking
    <3> QED
      BY <1>5, <1>7, <2>1, <3>1, <3>2, <3>3 DEF HandshakeInv
  <2>2. CASE s = "server"
    <3>1. At("server", "ack") => Handshaking("server")
      BY DEF At, Handshaking
    <3> QED
      BY <1>6, <1>7, <2>2, <3>1 DEF HandshakeInv
  <2> QED
    BY <2>1, <2>2 DEF Side
<1> QED
  BY <1>1, <1>8, <1>9, <1>10, <1>11 DEF HandshakeInv, At

(* A step of a program that is in its chat or in its teardown.             *)
LEMMA ProgramStep ==
  ASSUME Fifo, TypeOK, TypeOK', BufferInv', HandshakeInv, OrderInv,
         \/ \E s \in Side : Chat(s)
         \/ ClientSendsFin \/ ClientReceives \/ ClientEnds \/ ServerSends \/ ServerEnds
  PROVE  OrderInv' /\ HandshakeInv'
<1>0. Queues /\ PcTyped
  BY TypeParts
<1>s. /\ "server" \in Side /\ "client" \in Side
      /\ Other("server") = "client" /\ Other("client") = "server"
      /\ \A s \in Side : Other(s) \in Side /\ Other(s) # s
  BY Sides DEF Side
<1>1. ASSUME NEW s \in Side, Selects(s) PROVE OrderInv' /\ HandshakeInv'
  <2> DEFINE place == IF "stdin" \in Readable(s) THEN "input" ELSE "socket"
  <2>1. /\ At(s, "select") /\ Goto(s, place) /\ net' = net
        /\ UNCHANGED <<user, stdin, history>> /\ UNCHANGED <<taken, shown>>
    BY <1>1 DEF Selects, stdin, history
  <2>2. pc'[s] = place /\ pc'[Other(s)] = pc[Other(s)]
    BY <1>0, <2>1, GoesTo
  <2>3. /\ ~Handshaking(s) /\ pc'[s] \in {"input", "socket"}
        /\ (Leaving(s)' <=> Leaving(s)) /\ First(s)' = First(s)
    BY <2>1, <2>2 DEF At, Handshaking, Leaving, First
  <2>4. OrderInv'
    BY <2>1, <2>3, MoveStep
  <2>5. HandshakeInv'
    BY <1>s, <2>1, <2>2, <2>3, HandshakeChat
  <2> QED
    BY <2>4, <2>5
<1>2. ASSUME NEW s \in Side, HandlesInput(s) PROVE OrderInv' /\ HandshakeInv'
  <2>1. OrderInv'
    BY <1>2, InputStep
  <2>2. /\ UserTyped /\ StdinTyped /\ Fgets(s) /\ UNCHANGED user /\ UNCHANGED shown
        /\ ~Handshaking(s)
    BY <1>2, TypeParts DEF HandlesInput, At, Handshaking
  <2>3. taken'[Other(s)] = taken[Other(s)]
    BY <1>s, <2>2, FgetsEffect
  <2> DEFINE k == buffer'[s]
  <2>4. Says(k) \in Datagram
    <3>1. k \in Line \cup {Unset}
      BY DEF TypeOK
    <3> QED
      BY <3>1, MakesDatagram
  <2>5. CASE Goto(s, "fin") /\ UNCHANGED net
    <3>1. pc'[s] = "fin" /\ pc'[Other(s)] = pc[Other(s)]
      BY <1>0, <2>5, GoesTo
    <3> QED
      BY <1>s, <2>1, <2>2, <2>3, <2>5, <3>1, HandshakeChat
  <2>6. CASE Sends(s, Says(k)) /\ Goto(s, IF "socket" \in ready[s] THEN "socket" ELSE "select")
    <3> DEFINE place == IF "socket" \in ready[s] THEN "socket" ELSE "select"
    <3>1. pc'[s] = place /\ pc'[Other(s)] = pc[Other(s)]
      BY <1>0, <2>6, GoesTo
    <3>2. \/ net'[Other(s)] = net[Other(s)]
          \/ net'[Other(s)] = Append(net[Other(s)], Says(k))
      BY <1>0, <2>4, <2>6, SendsEffect
    <3>3. pc'[s] \in {"socket", "select"}
      BY <3>1
    <3> QED
      BY <1>s, <2>1, <2>2, <2>3, <2>4, <3>1, <3>2, <3>3, HandshakeChat
  <2> QED
    BY <1>2, <2>5, <2>6 DEF HandlesInput
<1>3. ASSUME NEW s \in Side, HandlesSocket(s) PROVE OrderInv' /\ HandshakeInv'
  <2>1. OrderInv'
    BY <1>3, SocketStep
  <2>2. HistoryTyped /\ ~Handshaking(s) /\ taken' = taken
    BY <1>3, TypeParts DEF HandlesSocket, At, Handshaking, stdin
  <2>3. CASE net[s] = <<>> /\ Goto(s, "select") /\ UNCHANGED <<net, shown>>
    <3>1. pc'[s] = "select" /\ pc'[Other(s)] = pc[Other(s)]
      BY <1>0, <2>3, GoesTo
    <3> QED
      BY <1>s, <2>1, <2>2, <2>3, <3>1, HandshakeChat
  <2>4. ASSUME NEW d, Receives(s, d),
               \/ Goto(s, "fin") /\ UNCHANGED shown
               \/ Shows(s, d.line) /\ Goto(s, "select")
        PROVE  HandshakeInv'
    <3>1. net'[Other(s)] = net[Other(s)]
      BY <1>0, <2>4, ReceivesEffect
    <3>2. shown'[Other(s)] = shown[Other(s)]
      BY <1>s, <2>2, <2>4 DEF Shows, HistoryTyped
    <3>3. pc'[s] \in {"fin", "select"} /\ pc'[Other(s)] = pc[Other(s)]
      BY <1>0, <2>4, GoesTo
    <3> QED
      BY <1>s, <2>2, <3>1, <3>2, <3>3, HandshakeChat
  <2> QED
    BY <1>3, <2>1, <2>3, <2>4 DEF HandlesSocket
<1>4. ASSUME NEW s \in Side, NEW place, NEW f \in SUBSET {"SYN", "ACK", "FIN"},
             Goto(s, place), Leaving(s), place \in {"fin", "ackfin", "recv1", "recv2", "recv", "done"},
             s = "client" => place # "recv", s = "server" => place \notin {"recv1", "recv2"},
             Sends(s, Signal(f)), UNCHANGED <<user, stdin, history>>
      PROVE  OrderInv' /\ HandshakeInv'
  <2>1. pc'[s] = place /\ pc'[Other(s)] = pc[Other(s)]
    BY <1>0, <1>4, GoesTo
  <2>2. Leaving(s)' /\ ~Handshaking(s) /\ UNCHANGED <<taken, shown>>
    BY <1>4, <2>1 DEF Leaving, Handshaking, stdin, history
  <2>3. OrderInv'
    BY <1>4, <2>2, SignalStep
  <2>4. Signal(f) \in Datagram
    BY MakesDatagram
  <2>5. net'[Other(s)] = net[Other(s)] \/ net'[Other(s)] = Append(net[Other(s)], Signal(f))
    BY <1>0, <1>4, <2>4, SendsEffect
  <2> QED
    BY <1>s, <1>4, <2>1, <2>2, <2>3, <2>4, <2>5, HandshakeChat
<1>5. ASSUME NEW s \in Side, NEW place,
             Goto(s, place), Leaving(s), place \in {"fin", "ackfin", "recv1", "recv2", "recv", "done"},
             s = "client" => place # "recv", s = "server" => place \notin {"recv1", "recv2"},
             MayReceive(s), UNCHANGED <<user, stdin, history>>
      PROVE  OrderInv' /\ HandshakeInv'
  <2>1. pc'[s] = place /\ pc'[Other(s)] = pc[Other(s)]
    BY <1>0, <1>5, GoesTo
  <2>2. Leaving(s)' /\ ~Handshaking(s) /\ UNCHANGED <<taken, shown>>
    BY <1>5, <2>1 DEF Leaving, Handshaking, stdin, history
  <2>3. OrderInv'
    BY <1>5, <2>2, DrainStep
  <2>4. net'[Other(s)] = net[Other(s)]
    BY <1>0, <1>5, MayReceiveEffect
  <2> QED
    BY <1>s, <1>5, <2>1, <2>2, <2>3, <2>4, HandshakeChat
<1>6. CASE ClientSendsFin
  <2>1. /\ Goto("client", "recv1") /\ Leaving("client") /\ Sends("client", Signal({"FIN"}))
        /\ UNCHANGED <<user, stdin, history>>
    BY <1>6 DEF ClientSendsFin, At, Leaving
  <2> QED
    BY <1>s, <1>4, <2>1
<1>7. CASE ClientEnds
  <2>1. /\ Goto("client", "done") /\ Leaving("client") /\ Sends("client", Signal({"ACK"}))
        /\ UNCHANGED <<user, stdin, history>>
    BY <1>7 DEF ClientEnds, Ends, At, Leaving
  <2> QED
    BY <1>s, <1>4, <2>1
<1>8. CASE ServerSends
  <2>1. /\ Goto("server", "ackfin") \/ Goto("server", "recv")
        /\ Leaving("server") /\ Sends("server", Signal(ServerFlags))
        /\ UNCHANGED <<user, stdin, history>>
    BY <1>8 DEF ServerSends, At, Leaving
  <2>2. ServerFlags \in SUBSET {"SYN", "ACK", "FIN"}
    BY DEF ServerFlags
  <2> QED
    BY <1>s, <1>4, <2>1, <2>2
<1>9. CASE ClientReceives
  <2>1. /\ Goto("client", "recv2") \/ Goto("client", "ackfin")
        /\ Leaving("client") /\ MayReceive("client")
        /\ UNCHANGED <<user, stdin, history>>
    BY <1>9 DEF ClientReceives, At, Leaving
  <2> QED
    BY <1>s, <1>5, <2>1
<1>10. CASE ServerEnds
  <2>1. /\ Goto("server", "done") /\ Leaving("server") /\ MayReceive("server")
        /\ UNCHANGED <<user, stdin, history>>
    BY <1>10 DEF ServerEnds, Ends, At, Leaving
  <2> QED
    BY <1>s, <1>5, <2>1
<1> QED
  BY <1>1, <1>2, <1>3, <1>6, <1>7, <1>8, <1>9, <1>10 DEF Chat

(* A step keeps the handshake and what is between the users.               *)
LEMMA OrderStep ==
  ASSUME Fifo, TypeOK, TypeOK', BufferInv', HandshakeInv, OrderInv, [Next]_vars
  PROVE  OrderInv' /\ HandshakeInv'
<1>1. CASE Client \/ Server
  BY <1>1, SynStep, SynAckStep, AckStep, TakesAckStep, ProgramStep DEF Client, Server, Side
<1>2. ASSUME NEW s \in Side, Types(s) \/ Closes(s) \/ TypesOn(s) \/ Loses(s)
      PROVE  OrderInv' /\ HandshakeInv'
  <2>1. OrderInv'
    BY <1>2, UserStep
  <2>2. CASE Loses(s)
    BY <2>1, <2>2, HandshakeLoses
  <2>3. CASE Types(s) \/ Closes(s) \/ TypesOn(s)
    <3>1. UNCHANGED <<pc, net, shown, taken>>
      BY <2>3 DEF Types, Closes, TypesOn, stdin, history
    <3> QED
      BY <2>1, <3>1 DEF HandshakeInv, Handshaking, At
  <2> QED
    BY <1>2, <2>2, <2>3
<1>3. CASE UNCHANGED vars
  <2>1. UNCHANGED <<pc, net, user, stdin, shown, lost, taken, typed, quit>>
    BY <1>3 DEF vars, stdin, history, user
  <2>2. HandshakeInv'
    BY <2>1 DEF HandshakeInv, Handshaking, At
  <2>3. OrderInv'
    BY <2>1 DEF OrderInv, View, ChatNet, ChatShown, Kept, Came, Coming, First, Handshaking,
                Leaving, TookQuit, IsQuit
  <2> QED
    BY <2>2, <2>3
<1> QED
  BY <1>1, <1>2, <1>3 DEF Next

LEMMA OrderInit == Init => OrderInv /\ HandshakeInv
<1> SUFFICES ASSUME Init PROVE OrderInv /\ HandshakeInv
  OBVIOUS
<1>1. /\ pc["client"] = "syn" /\ pc["server"] = "listen"
      /\ \A s \in Side : /\ taken[s] = 0 /\ net[s] = <<>> /\ shown[s] = <<>>
                         /\ Handshaking(s) /\ ~Leaving(s)
  BY DEF Init, Side, Handshaking, Leaving
<1>2. HandshakeInv
  BY <1>1 DEF HandshakeInv, At, Side
<1>3. OrderInv
  BY <1>1, Sides DEF OrderInv, View, ChatNet, ChatShown, Kept, First
<1> QED
  BY <1>2, <1>3

(* client.c:169-186 and server.c:188-206, on a network that keeps the      *)
(* order of the datagrams and does not repeat them, whatever it loses: the *)
(* lines of a side are shown in the order in which they were typed, and    *)
(* who leaves because the other has quit has shown every line that was     *)
(* typed before the /quit and not lost.                                    *)
THEOREM LinesComeInOrder == Fifo => (Spec => []LinesGetThrough)
<1> SUFFICES ASSUME Fifo PROVE Spec => []LinesGetThrough
  OBVIOUS
<1>1. Fifo
  OBVIOUS
<1>2. OrderInv /\ HandshakeInv /\ TypeOK /\ TypeOK' /\ BufferInv' /\ [Next]_vars
        => OrderInv' /\ HandshakeInv'
  BY <1>1, OrderStep
<1>3. ASSUME TypeOK, OrderInv, NEW s \in Side
      PROVE  ShownInOrder(s) /\ ShownBeforeLeaving(s)
  <2> DEFINE o == Other(s)
  <2>0. View(s) /\ o \in Side /\ shown[s] \in Seq(Line \cup {Unset, NoLine})
    BY <1>3, ViewTyped DEF OrderInv
  <2>1. ShownInOrder(s)
    <3>1. DOMAIN shown[s] = 1 .. Len(shown[s]) /\ Len(shown[s]) \in Nat
      BY <2>0
    <3> QED
      BY <2>0, <3>1 DEF ShownInOrder, View, ChatShown
  <2>2. ShownBeforeLeaving(s)
    <3> SUFFICES ASSUME Leaving(s), ~TookQuit(s), TookQuit(o), NEW k \in 1 .. typed[o] - 1
                 PROVE  k \in ToSet(shown[s]) \cup lost[s]
      BY DEF ShownBeforeLeaving
    <3>1. taken[o] = typed[o] /\ typed[o] \in Nat
      BY <1>3, <2>0, Counters DEF TookQuit
    <3>2. Came(s, k)
      BY <2>0, <3>1 DEF View, Kept
    <3>3. ~IsQuit(o, k)
      BY <3>1 DEF IsQuit
    <3> QED
      BY <3>2, <3>3 DEF Came
  <2> QED
    BY <2>1, <2>2
<1>4. TypeOK /\ OrderInv => LinesGetThrough
  BY <1>3 DEF LinesGetThrough
<1> QED
  BY <1>2, <1>4, OrderInit, BufferInvHolds, PTL DEF Spec

=============================================================================

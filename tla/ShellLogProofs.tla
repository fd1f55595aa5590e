--------------------------- MODULE ShellLogProofs ---------------------------
(***************************************************************************)
(* The history of the shell, for every set of lines and every size of the  *)
(* buffer: the ring stays well formed, and it implements the abstract      *)
(* History.                                                                *)
(***************************************************************************)
EXTENDS ShellLog, TLAPS

(* Slots, and sums of two slots, modulo the size of the buffer.            *)
LEMMA NoWrap ==
  ASSUME NEW n \in Nat, n < MaxLog
  PROVE  n % MaxLog = n
BY ShellLogAssumption

LEMMA OneWrap ==
  ASSUME NEW n \in Nat, MaxLog <= n, n < 2 * MaxLog
  PROVE  n % MaxLog = n - MaxLog
BY ShellLogAssumption

(* The ring: what TypeOK and RingInv need to be inductive.                 *)
RingTyped ==
  /\ TypeOK
  /\ RingInv
  /\ \A k \in Index : k < log_count => log_entries[k] \in Text
  /\ pc \notin {"down", "prompt"} => line \in Line
  /\ pc = "down" => log_count = 0 /\ log_start = 0

(* log.c:49: the slots of the history are slots in use.                    *)
LEMMA SlotInUse ==
  ASSUME RingTyped, NEW k \in Nat, k < log_count
  PROVE  /\ SlotOf(k) \in Index
         /\ SlotOf(k) < log_count
         /\ log_entries[SlotOf(k)] \in Text
<1> USE ShellLogAssumption
<1>1. /\ log_start \in Index /\ log_count \in 0 .. MaxLog
      /\ log_start # 0 => log_count = MaxLog
  BY DEF RingTyped, TypeOK, RingInv
<1>2. SlotOf(k) \in Index /\ SlotOf(k) < log_count
  <2>1. CASE log_start + k < MaxLog
    <3>1. SlotOf(k) = log_start + k
      BY <1>1, <2>1, NoWrap DEF SlotOf, Index
    <3> QED
      BY <1>1, <2>1, <3>1 DEF Index
  <2>2. CASE log_start + k >= MaxLog
    <3>1. SlotOf(k) = log_start + k - MaxLog
      BY <1>1, <2>2, OneWrap DEF SlotOf, Index
    <3> QED
      BY <1>1, <2>2, <3>1 DEF Index
  <2> QED
    BY <1>1, <2>1, <2>2 DEF Index
<1> QED
  BY <1>2 DEF RingTyped

(* The history is a sequence of lines.                                     *)
LEMMA LoggedTyped ==
  RingTyped =>
    /\ Logged \in Seq(Text)
    /\ Len(Logged) = log_count
    /\ \A k \in 1 .. log_count : Logged[k] = log_entries[SlotOf(k - 1)]
<1> SUFFICES ASSUME RingTyped
             PROVE  /\ Logged \in Seq(Text)
                    /\ Len(Logged) = log_count
                    /\ \A k \in 1 .. log_count :
                         Logged[k] = log_entries[SlotOf(k - 1)]
  OBVIOUS
<1>1. log_count \in Nat
  BY ShellLogAssumption DEF RingTyped, TypeOK
<1>2. \A k \in 1 .. log_count : log_entries[SlotOf(k - 1)] \in Text
  BY <1>1, SlotInUse
<1> QED
  BY <1>1, <1>2 DEF Logged

-----------------------------------------------------------------------------
LEMMA InitRing == Init => RingTyped
<1> SUFFICES ASSUME Init PROVE RingTyped
  OBVIOUS
<1> USE ShellLogAssumption DEF Init
<1>1. NoEntries \in [Index -> Text \cup {Blank}]
  BY DEF NoEntries
<1>2. 0 \in Index /\ 0 \in 0 .. MaxLog
  BY DEF Index
<1>3. TypeOK
  BY <1>1, <1>2 DEF TypeOK
<1> QED
  BY <1>2, <1>3 DEF RingTyped, RingInv, Index

(* log.c:32-39: a line is written to the slot behind the last, or over the *)
(* oldest; in both cases the buffer starts at 0 unless it is full.         *)
LEMMA AddsLineRing ==
  ASSUME RingTyped, line \in Line, AddsLine
  PROVE  /\ log_entries' \in [Index -> Text \cup {Blank}]
         /\ log_count' \in 0 .. MaxLog /\ log_start' \in Index
         /\ log_start' # 0 => log_count' = MaxLog
         /\ \A k \in Index : k < log_count' => log_entries'[k] \in Text
<1> USE ShellLogAssumption DEF RingTyped, TypeOK, RingInv, Text
<1>1. CASE /\ log_count < MaxLog
           /\ log_entries' = [log_entries EXCEPT ![log_count] = line]
           /\ log_count' = log_count + 1
           /\ UNCHANGED log_start
  BY <1>1 DEF Index
<1>2. CASE log_count = MaxLog /\ Overwrites
  <2>1. (log_start + 1) % MaxLog \in Index
    BY DEF Index
  <2> QED
    BY <1>2, <2>1 DEF Overwrites, Index
<1> QED
  BY <1>1, <1>2 DEF AddsLine

(* The end of a process.                                                   *)
LEMMA ForgetRing ==
  Forget => /\ log_entries' \in [Index -> Text \cup {Blank}]
            /\ log_count' = 0 /\ log_start' = 0
            /\ 0 \in 0 .. MaxLog /\ 0 \in Index
BY ShellLogAssumption DEF Forget, NoEntries, Index

(* What a step of shell_loop goes on with after save_log.                  *)
LEMMA SavedRing ==
  ASSUME RingTyped, pc \in {"save", "write"}, Saved, file' \in Seq(Text),
         UNCHANGED <<line, semi, processed, writable>>
  PROVE  RingTyped'
<1> USE DEF RingTyped, TypeOK, RingInv
<1>1. pc' \in {"process", "down", "prompt"} /\ line \in Line
  BY DEF Saved, AfterSave
<1>2. CASE pc' = "down"
  BY <1>2, ForgetRing DEF Saved, Text, Index
<1>3. CASE pc' # "down" /\ UNCHANGED ring
  BY <1>1, <1>3 DEF ring, Text
<1> QED
  BY <1>1, <1>2, <1>3 DEF Saved

LEMMA NextRing == RingTyped /\ [Next]_vars => RingTyped'
<1> SUFFICES ASSUME RingTyped, [Next]_vars PROVE RingTyped'
  OBVIOUS
<1> USE DEF RingTyped, TypeOK, RingInv
<1>1. CASE Load
  <2>1. log_count' \in 0 .. MaxLog /\ log_count' <= Len(file)
    BY <1>1, ShellLogAssumption DEF Load
  <2>2. \A k \in Index : k < log_count' => file[k + 1] \in Text
    BY <2>1, ShellLogAssumption DEF Index
  <2>3. /\ log_entries' \in [Index -> Text \cup {Blank}]
        /\ \A k \in Index : k < log_count' => log_entries'[k] \in Text
    BY <1>1, <2>2 DEF Load
  <2> QED
    BY <1>1, <2>1, <2>3 DEF Load, Text
<1>2. CASE ReadLine
  BY <1>2 DEF ReadLine, ring, Text
<1>3. CASE Process
  <2>1. CASE line \in PurgeLines /\ Purged
    BY <1>3, <2>1, ShellLogAssumption DEF Process, Purged, Index, Text
  <2>2. CASE line \notin PurgeLines /\ UNCHANGED ring
    BY <1>3, <2>2 DEF Process, ring, Text
  <2> QED
    BY <1>3, <2>1, <2>2 DEF Process
<1>4. CASE Add
  <2>1. CASE UNCHANGED ring
    BY <1>4, <2>1 DEF Add, ring, Text
  <2>2. CASE AddsLine
    BY <1>4, <2>2, AddsLineRing DEF Add, Text
  <2> QED
    BY <1>4, <2>1, <2>2 DEF Add
<1>5. CASE OpenFile
  <2>1. CASE writable /\ file' = <<>> /\ pc' = "write" /\ UNCHANGED ring
    BY <1>5, <2>1 DEF OpenFile, ring, Text
  <2>2. CASE Saved /\ UNCHANGED file
    BY <1>5, <2>2, SavedRing DEF OpenFile
  <2> QED
    BY <1>5, <2>1, <2>2 DEF OpenFile
<1>6. CASE WriteEntry
  <2>1. Written \in Text
    BY <1>6, SlotInUse DEF WriteEntry, Written
  <2> QED
    BY <1>6, <2>1 DEF WriteEntry, ring, Text
<1>7. CASE CloseFile
  BY <1>7, SavedRing DEF CloseFile
<1>8. CASE Killed
  BY <1>8, ForgetRing DEF Killed, Text, Index
<1>9. CASE UNCHANGED vars
  BY <1>9 DEF vars, ring, Text
<1> QED
  BY <1>1, <1>2, <1>3, <1>4, <1>5, <1>6, <1>7, <1>8, <1>9 DEF Next

LEMMA RingHolds == Spec => []RingTyped
BY InitRing, NextRing, PTL DEF Spec

(* Type correctness of the shell's history.                                *)
THEOREM HistoryTyped == Spec => []TypeOK
BY RingHolds, PTL DEF RingTyped

(* log.c:26, 33: the buffer starts at slot 0 whenever it is not full, so   *)
(* that a new line never lands on one that is still part of the history.   *)
THEOREM RingIsWellFormed == Spec => []RingInv
BY RingHolds, PTL DEF RingTyped

-----------------------------------------------------------------------------
LEMMA LoggedTypedNext ==
  RingTyped' =>
    /\ Logged' \in Seq(Text)
    /\ Len(Logged') = log_count'
    /\ \A k \in 1 .. log_count' : Logged'[k] = log_entries'[SlotOf(k - 1)']
<1>1. (RingTyped =>
         /\ Logged \in Seq(Text)
         /\ Len(Logged) = log_count
         /\ \A k \in 1 .. log_count : Logged[k] = log_entries[SlotOf(k - 1)])'
  BY LoggedTyped, PTL
<1> QED
  BY <1>1 DEF Text

LEMMA SameLines ==
  ASSUME NEW s \in Seq(Text), NEW t \in Seq(Text), Len(s) = Len(t),
         \A k \in 1 .. Len(s) : s[k] = t[k]
  PROVE  s = t
OBVIOUS

(* log.c:32-39, seen from outside: the new line comes last, and the oldest *)
(* one goes if there is no room.                                           *)
LEMMA AddsLineAppends ==
  ASSUME RingTyped, RingTyped', line \in Line, AddsLine
  PROVE  Logged' = Append(HistorySession!Room(Logged), line)
<1> USE ShellLogAssumption
<1> DEFINE kept == HistorySession!Room(Logged)
<1>0. /\ Logged \in Seq(Text) /\ Len(Logged) = log_count
      /\ \A k \in 1 .. log_count : Logged[k] = log_entries[SlotOf(k - 1)]
      /\ log_count \in 0 .. MaxLog /\ log_start \in Index
      /\ log_entries \in [Index -> Text \cup {Blank}]
      /\ log_start # 0 => log_count = MaxLog
      /\ line \in Text
  BY LoggedTyped DEF RingTyped, TypeOK, RingInv, Text
<1>1. /\ Logged' \in Seq(Text) /\ Len(Logged') = log_count'
      /\ \A k \in 1 .. log_count' : Logged'[k] = log_entries'[SlotOf(k - 1)']
  BY LoggedTypedNext
<1>2. CASE log_count < MaxLog
  <2>1. /\ log_entries' = [log_entries EXCEPT ![log_count] = line]
        /\ log_count' = log_count + 1 /\ log_start' = 0 /\ log_start = 0
    BY <1>0, <1>2 DEF AddsLine
  <2>2. ASSUME NEW k \in 0 .. log_count
        PROVE  SlotOf(k)' = k /\ SlotOf(k) = k
    <3>1. k \in Nat /\ k < MaxLog /\ log_start + k = k /\ log_start' + k = k
      BY <1>0, <1>2, <2>1
    <3>2. k % MaxLog = k
      BY <3>1, NoWrap
    <3> QED
      BY <3>1, <3>2 DEF SlotOf
  <2>3. kept = Logged
    BY <1>0, <1>2 DEF HistorySession!Room
  <2>4. \A k \in 1 .. log_count : Logged'[k] = Logged[k]
    <3> TAKE k \in 1 .. log_count
    <3>1. SlotOf(k - 1)' = k - 1 /\ SlotOf(k - 1) = k - 1
      BY <1>0, <2>2
    <3> QED
      BY <1>0, <1>1, <1>2, <2>1, <3>1 DEF Index
  <2>5. Logged'[log_count + 1] = line
    BY <1>0, <1>1, <1>2, <2>1, <2>2 DEF Index
  <2> HIDE DEF kept
  <2> QED
    <3>1. Append(kept, line) \in Seq(Text)
      BY <1>0, <2>3
    <3>2. /\ Len(Append(kept, line)) = log_count + 1
          /\ \A k \in 1 .. log_count : Append(kept, line)[k] = Logged[k]
          /\ Append(kept, line)[log_count + 1] = line
      BY <1>0, <2>3
    <3>3. \A k \in 1 .. Len(Logged') : Logged'[k] = Append(kept, line)[k]
      BY <1>0, <1>1, <2>1, <2>4, <2>5, <3>2
    <3>4. Logged' = Append(kept, line)
      BY <1>1, <2>1, <3>1, <3>2, <3>3, SameLines
    <3> QED
      BY <3>4 DEF kept
<1>3. CASE log_count = MaxLog
  <2>1. /\ log_entries' = [log_entries EXCEPT ![log_start] = line]
        /\ log_count' = log_count /\ log_start' = (log_start + 1) % MaxLog
    BY <1>0, <1>3 DEF AddsLine, Overwrites
  <2>2. /\ log_start + 1 < MaxLog => log_start' = log_start + 1
        /\ log_start + 1 = MaxLog => log_start' = 0
    BY <1>0, <2>1, NoWrap, OneWrap DEF Index
  <2>3. kept = Tail(Logged)
    BY <1>0, <1>3 DEF HistorySession!Room
  <2>4. /\ kept \in Seq(Text) /\ Len(kept) = log_count - 1
        /\ \A k \in 1 .. log_count - 1 : kept[k] = Logged[k + 1]
    BY <1>0, <1>3, <2>3
  <2>5. ASSUME NEW k \in 1 .. log_count - 1
        PROVE  Logged'[k] = Logged[k + 1]
    <3>1. SlotOf(k) = IF log_start + k < MaxLog THEN log_start + k
                      ELSE log_start + k - MaxLog
      <4> DEFINE n == log_start + k
      <4>1. n \in Nat /\ n < 2 * MaxLog
        BY <1>0, <1>3 DEF Index
      <4> HIDE DEF n
      <4>2. CASE n < MaxLog
        BY <4>1, <4>2, NoWrap DEF SlotOf, n
      <4>3. CASE MaxLog <= n
        <5>1. n % MaxLog = n - MaxLog
          BY <4>1, <4>3, OneWrap
        <5>2. SlotOf(k) = n - MaxLog /\ ~(n < MaxLog)
          BY <4>1, <4>3, <5>1 DEF SlotOf, n
        <5> QED
          BY <1>0, <5>2 DEF n, Index
      <4> QED
        BY <4>1, <4>2, <4>3
    <3>2. SlotOf(k - 1)' = SlotOf(k)
      <4>1. CASE log_start + k < MaxLog
        <5>1. log_start' + (k - 1) = log_start + k
          BY <1>0, <1>3, <2>2, <4>1 DEF Index
        <5> QED
          BY <5>1 DEF SlotOf
      <4>2. CASE log_start + k >= MaxLog /\ log_start + 1 < MaxLog
        <5>1. log_start' + (k - 1) = log_start + k
          BY <1>0, <1>3, <2>2, <4>2 DEF Index
        <5> QED
          BY <5>1 DEF SlotOf
      <4>3. CASE log_start + 1 = MaxLog
        <5>1. log_start' + (k - 1) = k - 1 /\ k - 1 \in Nat /\ k - 1 < MaxLog
          BY <1>0, <1>3, <2>2, <4>3 DEF Index
        <5>2. SlotOf(k - 1)' = k - 1
          BY <5>1, NoWrap DEF SlotOf
        <5> QED
          BY <1>0, <1>3, <3>1, <4>3, <5>2 DEF Index
      <4> QED
        BY <1>0, <4>1, <4>2, <4>3 DEF Index
    <3>3. SlotOf(k) \in Index /\ SlotOf(k) # log_start
      BY <1>0, <1>3, <3>1 DEF Index
    <3>4. Logged'[k] = log_entries[SlotOf(k)]
      BY <1>0, <1>1, <1>3, <2>1, <3>2, <3>3
    <3> QED
      BY <1>0, <1>3, <3>4
  <2>6. Logged'[log_count] = line
    <3> DEFINE n == log_start' + (log_count - 1)
    <3>1. SlotOf(log_count - 1)' = n % MaxLog
      BY <2>1 DEF SlotOf
    <3>2. n % MaxLog = log_start
      <4>1. CASE log_start > 0 /\ log_start + 1 < MaxLog
        <5>1. n = log_start + MaxLog /\ n \in Nat
          BY <1>0, <1>3, <2>2, <4>1 DEF Index
        <5> QED
          BY <1>0, <5>1, OneWrap DEF Index
      <4>2. CASE log_start + 1 = MaxLog
        <5>1. n = log_start /\ n \in Nat /\ n < MaxLog
          BY <1>0, <1>3, <2>2, <4>2 DEF Index
        <5> QED
          BY <5>1, NoWrap
      <4>3. CASE log_start = 0 /\ MaxLog > 1
        <5>1. n = MaxLog
          BY <1>0, <1>3, <2>2, <4>3 DEF Index
        <5> QED
          BY <4>3, <5>1, OneWrap
      <4> QED
        BY <1>0, <4>1, <4>2, <4>3 DEF Index
    <3> QED
      BY <1>0, <1>1, <1>3, <2>1, <3>1, <3>2 DEF Index
  <2> HIDE DEF kept
  <2>7. /\ Append(kept, line) \in Seq(Text)
        /\ Len(Append(kept, line)) = log_count
        /\ \A k \in 1 .. log_count - 1 : Append(kept, line)[k] = kept[k]
        /\ Append(kept, line)[log_count] = line
    BY <1>0, <1>3, <2>4
  <2>8. \A k \in 1 .. log_count : Logged'[k] = Append(kept, line)[k]
    <3> TAKE k \in 1 .. log_count
    <3>1. CASE k = log_count
      BY <2>6, <2>7, <3>1
    <3>2. CASE k # log_count
      BY <1>0, <2>4, <2>5, <2>7, <3>2
    <3> QED
      BY <3>1, <3>2
  <2> QED
    <3>1. Logged' = Append(kept, line)
      BY <1>1, <2>1, <2>7, <2>8, SameLines
    <3> QED
      BY <3>1 DEF kept
<1> QED
  BY <1>0, <1>2, <1>3

-----------------------------------------------------------------------------
(* What the history and its file keep to, beyond their types.              *)

(* No two neighbours of a sequence of lines are the same, cut lines apart. *)
Repeatless(lines) ==
  \A k \in 1 .. Len(lines) - 1 : lines[k] = lines[k + 1] => lines[k] = Cut

(* A prefix of the history, as a save that is under way leaves it.         *)
SavedPart ==
  /\ Len(file) <= log_count
  /\ \A k \in 1 .. Len(file) : file[k] = Logged[k]

Persistent ==
  /\ Repeatless(Logged)
  /\ Repeatless(file)
  /\ Len(file) <= MaxLog
  /\ pc = "write" => SavedPart /\ writable
  /\ writable /\ pc \in {"prompt", "process", "add"}
       => file = Logged \/ Logged = <<>>

LEMMA InitPersistent == Init => Persistent
<1> SUFFICES ASSUME Init PROVE Persistent
  OBVIOUS
<1>1. Logged = <<>> /\ file = <<>> /\ pc = "down"
  BY DEF Init, Logged
<1> QED
  BY <1>1, ShellLogAssumption DEF Persistent, Repeatless

(* A history that does not change its ring does not change.                *)
LEMMA RingKeepsLogged == UNCHANGED ring => Logged' = Logged
BY DEF ring, Logged, SlotOf

LEMMA EmptyLogged == RingTyped' /\ log_count' = 0 => Logged' = <<>>
BY LoggedTypedNext

(* log.c:24-40: add_to_log keeps neighbours different.                     *)
LEMMA AddKeepsRepeatless ==
  ASSUME RingTyped, RingTyped', line \in Line, Repeatless(Logged),
         AddsLine, ~Repeats
  PROVE  Repeatless(Logged')
<1> DEFINE kept == HistorySession!Room(Logged)
<1>1. Logged' = Append(kept, line)
  BY AddsLineAppends
<1>2. /\ Logged \in Seq(Text) /\ Len(Logged) = log_count
      /\ log_count \in 0 .. MaxLog /\ line \in Text
      /\ log_count > 0 => Logged[log_count] # line
  <2>1. log_count > 0 => Logged[log_count] = log_entries[LatestSlot]
    BY LoggedTyped, ShellLogAssumption DEF LatestSlot, RingTyped, TypeOK
  <2> QED
    BY <2>1, LoggedTyped, ShellLogAssumption
       DEF Repeats, RingTyped, TypeOK, Text
<1>3. CASE kept = Logged
  <2>1. \A k \in 1 .. log_count : Append(kept, line)[k] = Logged[k]
    BY <1>2, <1>3
  <2>2. Append(kept, line)[log_count + 1] = line
        /\ Len(Append(kept, line)) = log_count + 1
    BY <1>2, <1>3
  <2> HIDE DEF kept
  <2> QED
    BY <1>1, <1>2, <2>1, <2>2 DEF Repeatless
<1>4. CASE kept = Tail(Logged) /\ log_count > 0
  <2>1. \A k \in 1 .. log_count - 1 : Append(kept, line)[k] = Logged[k + 1]
    BY <1>2, <1>4
  <2>2. Append(kept, line)[log_count] = line
        /\ Len(Append(kept, line)) = log_count
    BY <1>2, <1>4
  <2> HIDE DEF kept
  <2> QED
    BY <1>1, <1>2, <2>1, <2>2 DEF Repeatless
<1> QED
  BY <1>2, <1>3, <1>4, ShellLogAssumption DEF HistorySession!Room

(* A save writes the lines of the history in their order.                  *)
LEMMA WritesNext ==
  ASSUME RingTyped, Persistent, pc = "write", Len(file) < log_count
  PROVE  Written = Logged[Len(file) + 1]
<1>1. Len(file) + 1 \in 1 .. log_count /\ (Len(file) + 1) - 1 = Len(file)
  BY ShellLogAssumption DEF RingTyped, TypeOK
<1> QED
  BY <1>1, LoggedTyped DEF Written

(* Where the program goes on after save_log, and what it finds there.      *)
LEMMA SavedPersistent ==
  ASSUME RingTyped, RingTyped', Persistent, Saved, pc \in {"save", "write"},
         Repeatless(file'), Len(file') <= MaxLog, UNCHANGED writable,
         writable => file' = Logged
  PROVE  Persistent'
<1>1. pc' # "write" /\ pc' # "down" => UNCHANGED ring
  BY DEF Saved, AfterSave
<1>2. pc' # "write"
  BY DEF Saved, AfterSave
<1>3. CASE pc' = "down"
  <2>1. Logged' = <<>>
    BY <1>3, EmptyLogged DEF RingTyped
  <2> QED
    BY <1>3, <2>1, ShellLogAssumption DEF Persistent, Repeatless
<1>4. CASE pc' # "down"
  <2>1. Logged' = Logged
    BY <1>1, <1>2, <1>4, RingKeepsLogged
  <2> QED
    BY <1>2, <2>1 DEF Persistent, Repeatless
<1> QED
  BY <1>3, <1>4

LEMMA NextPersistent ==
  RingTyped /\ RingTyped' /\ Persistent /\ [Next]_vars => Persistent'
<1> SUFFICES ASSUME RingTyped, RingTyped', Persistent, [Next]_vars
             PROVE  Persistent'
  OBVIOUS
<1> USE ShellLogAssumption
<1>0. /\ file \in Seq(Text) /\ log_count \in 0 .. MaxLog
      /\ Logged \in Seq(Text) /\ Len(Logged) = log_count
      /\ Repeatless(Logged) /\ Repeatless(file) /\ Len(file) <= MaxLog
  BY LoggedTyped DEF RingTyped, TypeOK, Persistent
<1>1. CASE Load
  <2>1. Logged' = file
    <3>1. log_count' = Len(file) /\ log_start' = 0 /\ log_start = 0
      BY <1>0, <1>1 DEF Load, RingTyped
    <3>2. ASSUME NEW k \in 1 .. Len(file) PROVE Logged'[k] = file[k]
      <4>1. k - 1 \in Nat /\ k - 1 < MaxLog /\ k - 1 \in Index
        BY <1>0 DEF Index
      <4>2. SlotOf(k - 1)' = k - 1
        BY <3>1, <4>1, NoWrap DEF SlotOf
      <4>3. log_entries'[k - 1] = file[k]
        BY <1>0, <1>1, <3>1, <4>1 DEF Load
      <4> QED
        BY <3>1, <4>2, <4>3, LoggedTypedNext
    <3> QED
      BY <1>0, <3>1, <3>2, LoggedTypedNext, SameLines
  <2>2. pc' = "prompt" /\ file' = file
    BY <1>1 DEF Load
  <2> QED
    BY <1>0, <2>1, <2>2 DEF Persistent, Repeatless
<1>2. CASE ReadLine
  <2>1. /\ Logged' = Logged /\ file' = file /\ writable' = writable
        /\ pc = "prompt" /\ pc' \in {"add", "process"}
    BY <1>2, RingKeepsLogged DEF ReadLine
  <2> QED
    BY <1>0, <2>1 DEF Persistent, Repeatless
<1>3. CASE Process
  <2>1. /\ Logged' = Logged \/ Logged' = <<>>
        /\ file' = file /\ writable' = writable
        /\ pc = "process" /\ pc' \in {"save", "prompt", "add"}
    BY <1>3, RingKeepsLogged, EmptyLogged DEF Process, Purged
  <2>2. Repeatless(Logged')
    BY <1>0, <2>1 DEF Repeatless
  <2> QED
    BY <1>0, <2>1, <2>2 DEF Persistent, Repeatless
<1>4. CASE Add
  <2>1. file' = file /\ pc' = "save"
    BY <1>4 DEF Add
  <2>2. Repeatless(Logged')
    <3>1. CASE UNCHANGED ring
      BY <1>0, <3>1, RingKeepsLogged DEF Repeatless
    <3>2. CASE AddsLine /\ ~Repeats
      <4>1. line \in Line
        BY <1>4 DEF Add, RingTyped
      <4> QED
        BY <1>0, <3>2, <4>1, AddKeepsRepeatless
    <3> QED
      BY <1>4, <3>1, <3>2 DEF Add
  <2> QED
    BY <1>0, <2>1, <2>2 DEF Persistent, Repeatless
<1>5. CASE OpenFile
  <2>1. CASE writable /\ file' = <<>> /\ pc' = "write" /\ UNCHANGED ring
    <3>1. Logged' = Logged /\ log_count' = log_count /\ writable' = writable
      BY <1>5, <2>1, RingKeepsLogged DEF ring, OpenFile
    <3> QED
      BY <1>0, <2>1, <3>1 DEF Persistent, Repeatless, SavedPart
  <2>2. CASE ~writable /\ Saved /\ UNCHANGED file
    BY <1>0, <1>5, <2>2, SavedPersistent DEF OpenFile, Repeatless
  <2> QED
    BY <1>5, <2>1, <2>2 DEF OpenFile
<1>6. CASE WriteEntry
  <2>1. /\ pc = "write" /\ Len(file) < log_count /\ pc' = "write"
        /\ file' = Append(file, Written) /\ UNCHANGED ring
        /\ writable' = writable /\ writable
    BY <1>6 DEF WriteEntry, Persistent
  <2>2. Logged' = Logged /\ log_count' = log_count
    BY <2>1, RingKeepsLogged DEF ring
  <2>3. Written = Logged[Len(file) + 1]
    BY <2>1, WritesNext
  <2>4. SavedPart
    BY <2>1 DEF Persistent
  <2>5. /\ Len(file') = Len(file) + 1 /\ Len(file') <= log_count
        /\ \A k \in 1 .. Len(file') : file'[k] = Logged[k]
    BY <1>0, <2>1, <2>3, <2>4 DEF SavedPart
  <2>6. Repeatless(file')
    BY <1>0, <2>5 DEF Repeatless
  <2> QED
    BY <1>0, <2>1, <2>2, <2>5, <2>6 DEF Persistent, SavedPart, Repeatless
<1>7. CASE CloseFile
  <2>1. file = Logged
    BY <1>0, <1>7, SameLines DEF CloseFile, Persistent, SavedPart
  <2> QED
    BY <1>0, <1>7, <2>1, SavedPersistent DEF CloseFile, Repeatless
<1>8. CASE Killed
  <2>1. Logged' = <<>> /\ pc' = "down"
    BY <1>8, EmptyLogged DEF Killed, Forget
  <2>2. CASE UNCHANGED file
    BY <1>0, <2>1, <2>2 DEF Persistent, Repeatless
  <2>3. CASE /\ pc = "write" /\ Len(file) < log_count
             /\ file' = Append(file, Cut)
    <3>1. /\ Len(file') = Len(file) + 1 /\ file'[Len(file) + 1] = Cut
          /\ \A k \in 1 .. Len(file) : file'[k] = file[k]
      BY <1>0, <2>3 DEF Text
    <3>2. Repeatless(file')
      BY <1>0, <3>1 DEF Repeatless
    <3> QED
      BY <1>0, <2>1, <2>3, <3>1, <3>2 DEF Persistent, Repeatless
  <2> QED
    BY <1>8, <2>2, <2>3 DEF Killed
<1>9. CASE UNCHANGED vars
  <2>1. Logged' = Logged /\ file' = file /\ pc' = pc /\ log_count' = log_count
        /\ writable' = writable
    BY <1>9, RingKeepsLogged DEF vars, ring
  <2> QED
    BY <1>0, <2>1 DEF Persistent, Repeatless, SavedPart
<1> QED
  BY <1>1, <1>2, <1>3, <1>4, <1>5, <1>6, <1>7, <1>8, <1>9 DEF Next

LEMMA PersistentHolds == Spec => [](RingTyped /\ Persistent)
<1>1. Init => RingTyped /\ Persistent
  BY InitRing, InitPersistent
<1>2. RingTyped /\ Persistent /\ [Next]_vars => (RingTyped /\ Persistent)'
  BY NextRing, NextPersistent
<1> QED
  BY <1>1, <1>2, PTL DEF Spec

(* log.c:24-30: no line is logged behind the same line.                    *)
THEOREM NeverRepeats == Spec => []NoRepeats
<1>1. RingTyped /\ Persistent => NoRepeats
  BY LoggedTyped DEF Persistent, Repeatless, NoRepeats
<1> QED
  BY <1>1, PersistentHolds, PTL

(* log.c:43-51: a save interrupted anywhere leaves the oldest lines.       *)
THEOREM SaveIsPrefix == Spec => []SavesInOrder
<1>1. RingTyped /\ Persistent => SavesInOrder
  BY DEF Persistent, SavedPart, SavesInOrder
<1> QED
  BY <1>1, PersistentHolds, PTL

(* main.c:55-88: at the prompt the file holds the history.                 *)
THEOREM PromptIsSaved == Spec => []SavedAtPrompt
<1>1. RingTyped /\ Persistent => SavedAtPrompt
  BY DEF Persistent, SavedAtPrompt
<1> QED
  BY <1>1, PersistentHolds, PTL

-----------------------------------------------------------------------------
(* The ring buffer implements the history.                                 *)

(* The same step, as History sees it.                                      *)
HistoryStep == [HistorySession!HistoryNext]_(HistorySession!historyVars)

LEMMA StuttersOnRing ==
  ASSUME UNCHANGED ring, pc # "down", pc' # "down"
  PROVE  HistoryStep
<1>1. (pc' # "down") = (pc # "down")
  OBVIOUS
<1> QED
  BY <1>1, RingKeepsLogged DEF HistoryStep, HistorySession!historyVars

LEMMA EndsSession ==
  ASSUME RingTyped', pc # "down", pc' = "down", Forget
  PROVE  HistoryStep
<1>1. Logged' = <<>>
  BY EmptyLogged DEF Forget
<1>2. HistorySession!SessionEnds
  BY <1>1 DEF HistorySession!SessionEnds
<1> QED
  BY <1>2 DEF HistoryStep, HistorySession!HistoryNext

LEMMA SavedIsHistoryStep ==
  ASSUME RingTyped', Saved, pc \in {"save", "write"}
  PROVE  HistoryStep
<1>1. CASE pc' = "down"
  BY <1>1, EndsSession DEF Saved
<1>2. CASE pc' # "down"
  BY <1>2, StuttersOnRing DEF Saved
<1> QED
  BY <1>1, <1>2

LEMMA NextIsHistoryStep ==
  RingTyped /\ RingTyped' /\ [Next]_vars => HistoryStep
<1> SUFFICES ASSUME RingTyped, RingTyped', [Next]_vars
             PROVE  HistoryStep
  OBVIOUS
<1> USE DEF HistoryStep, HistorySession!HistoryNext
<1>1. CASE Load
  <2>1. /\ Logged' \in Seq(Text) /\ Len(Logged') <= MaxLog
    BY LoggedTypedNext, ShellLogAssumption DEF RingTyped, TypeOK
  <2>2. HistorySession!SessionStarts
    BY <1>1, <2>1 DEF Load, HistorySession!SessionStarts
  <2> QED
    BY <2>2
<1>2. CASE ReadLine
  BY <1>2, StuttersOnRing DEF ReadLine
<1>3. CASE Process
  <2>1. CASE UNCHANGED ring
    BY <1>3, <2>1, StuttersOnRing DEF Process
  <2>2. CASE Purged
    <3>1. Logged' = <<>>
      BY <2>2, EmptyLogged DEF Purged
    <3>2. HistorySession!Purge
      BY <1>3, <3>1 DEF Process, HistorySession!Purge
    <3> QED
      BY <3>2
  <2> QED
    BY <1>3, <2>1, <2>2 DEF Process
<1>4. CASE Add
  <2>1. CASE UNCHANGED ring
    BY <1>4, <2>1, StuttersOnRing DEF Add
  <2>2. CASE AddsLine /\ ~Repeats
    <3>1. line \in Line /\ line \in Text /\ pc = "add" /\ pc' = "save"
      BY <1>4 DEF Add, RingTyped, Text
    <3>2. Logged = <<>> \/ HistorySession!Latest(Logged) # line
      <4>1. Logged \in Seq(Text) /\ Len(Logged) = log_count /\ log_count \in Nat
        BY LoggedTyped, ShellLogAssumption DEF RingTyped, TypeOK
      <4>2. log_count > 0 => Logged[log_count] = log_entries[LatestSlot]
        BY <4>1, LoggedTyped DEF LatestSlot
      <4> QED
        BY <2>2, <4>1, <4>2 DEF Repeats, HistorySession!Latest
    <3>3. HistorySession!Record(line)
      BY <2>2, <3>1, <3>2, AddsLineAppends DEF HistorySession!Record
    <3> QED
      BY <3>1, <3>3
  <2> QED
    BY <1>4, <2>1, <2>2 DEF Add
<1>5. CASE OpenFile
  BY <1>5, StuttersOnRing, SavedIsHistoryStep DEF OpenFile
<1>6. CASE WriteEntry
  BY <1>6, StuttersOnRing DEF WriteEntry
<1>7. CASE CloseFile
  BY <1>7, SavedIsHistoryStep DEF CloseFile
<1>8. CASE Killed
  BY <1>8, EndsSession DEF Killed
<1>9. CASE UNCHANGED vars
  <2>1. Logged' = Logged /\ pc' = pc
    BY <1>9, RingKeepsLogged DEF vars, ring
  <2> QED
    BY <2>1 DEF HistorySession!historyVars
<1> QED
  BY <1>1, <1>2, <1>3, <1>4, <1>5, <1>6, <1>7, <1>8, <1>9 DEF Next

(* log.c:14-82: what the ring buffer, the loads and the purges do to the   *)
(* lines of a session is what History allows.                              *)
THEOREM ImplementsHistory == Spec => KeepsHistory
<1>1. Init => HistorySession!HistoryInit
  BY DEF Init, Logged, HistorySession!HistoryInit
<1>2. RingTyped /\ RingTyped' /\ [Next]_vars => HistoryStep
  BY NextIsHistoryStep
<1> QED
  BY <1>1, <1>2, RingHolds, PTL
     DEF Spec, KeepsHistory, HistorySession!HistorySpec, HistoryStep

=============================================================================

-------------------------- MODULE ReadCountProofs ---------------------------
(***************************************************************************)
(* What the test program of getreadcount may rely on, for any number of    *)
(* tests and readers, any width of an int and any number of bytes.         *)
(***************************************************************************)
EXTENDS ReadCount, FoldProofs

(* What sys_read counts of a result.                                       *)
Positive(n) == IF n > 0 THEN n ELSE 0

(* The bytes that have been read and not yet counted.                      *)
Uncounted(r) == MapThenSumSet(LAMBDA p : IF r[p] > 0 THEN r[p] ELSE 0, Process)

(* MapThenSumSet takes any element next.                                   *)
AnyOf == [s \in SUBSET Process |-> CHOOSE x \in s : TRUE]

(* What it adds to the sum so far.                                         *)
Adding(r) == [x \in Process \X Int |-> Positive(r[x[1]]) + x[2]]

LEMMA AnyIsChosen == Chooses(AnyOf, Process)
BY DEF Chooses, AnyOf

LEMMA ProcessesFinite == IsFiniteSet(Process)
BY ReadCountAssumption, FS_Union DEF Process

(* The sum is the last value of a fold that adds one process at a time.    *)
LEMMA SumIsFold ==
  ASSUME NEW r \in [Process -> Int]
  PROVE  \E F : /\ Solves(F, Process, Int, 0, AnyOf, Adding(r))
                /\ Uncounted(r) = F[Process]
<1>2. Adding(r) \in [Process \X Int -> Int]
  BY DEF Adding, Positive
<1>3. PICK F : Solves(F, Process, Int, 0, AnyOf, Adding(r))
  <2> DEFINE base == 0
  <2>1. base \in Int
    OBVIOUS
  <2> HIDE DEF base
  <2>2. \E F : Solves(F, Process, Int, base, AnyOf, Adding(r))
    BY <1>2, <2>1, AnyIsChosen, ProcessesFinite, FoldExists
  <2> QED
    BY <2>2 DEF base
<1> DEFINE any(s) == CHOOSE x \in s : TRUE
           body(G) == [s \in SUBSET Process |->
                         IF s = {} THEN 0
                         ELSE (IF r[any(s)] > 0 THEN r[any(s)] ELSE 0) + G[s \ {any(s)}]]
           C == CHOOSE G : G = body(G)
<1>1. Uncounted(r) = C[Process]
  BY DEF Uncounted, MapThenSumSet, MapThenFoldSet
<1>4. ASSUME NEW s \in SUBSET Process, s # {}
      PROVE  /\ any(s) \in Process /\ AnyOf[s] = any(s) /\ s \ {any(s)} \in SUBSET Process
             /\ \A v \in Int : Adding(r)[<<AnyOf[s], v>>] = Positive(r[any(s)]) + v
  <2>1. any(s) \in s /\ AnyOf[s] = any(s)
    BY <1>4 DEF AnyOf
  <2> QED
    BY <2>1 DEF Adding
<1> HIDE DEF any
<1>5. F = body(F)
  <2>1. ASSUME NEW s \in SUBSET Process, s # {}
        PROVE  F[s] = Positive(r[any(s)]) + F[s \ {any(s)}]
    BY <1>3, <1>4, <2>1 DEF Solves
  <2> QED
    BY <1>3, <2>1 DEF Solves, Positive
<1>6. C = body(C)
  <2> HIDE DEF body
  <2> QED
    BY <1>5
<1> HIDE DEF C
<1>7. C[{}] = 0
  BY <1>6
<1>8. ASSUME NEW s \in SUBSET Process, s # {}
      PROVE  C[s] = Positive(r[any(s)]) + C[s \ {any(s)}]
  <2>1. body(C)[s] = Positive(r[any(s)]) + C[s \ {any(s)}]
    BY <1>8 DEF Positive
  <2> HIDE DEF body
  <2> QED
    BY <1>6, <2>1
<1> DEFINE T == {s \in SUBSET Process : C[s] \in Int}
<1>9. \A s \in SUBSET Process : s \in T
  <2>1. {} \in T
    BY <1>7
  <2>2. ASSUME NEW s \in SUBSET Process, s # {}, s \ {AnyOf[s]} \in T PROVE s \in T
    <3>1. C[s] = Positive(r[any(s)]) + C[s \ {any(s)}]
      BY <1>8, <2>2
    <3>2. Positive(r[any(s)]) \in Int
      BY <1>4, <2>2 DEF Positive
    <3>3. C[s \ {any(s)}] \in Int
      BY <1>4, <2>2
    <3> QED
      BY <3>1, <3>2, <3>3
  <2> HIDE DEF T
  <2> QED
    BY <2>1, <2>2, AnyIsChosen, ProcessesFinite, SubsetInduction
<1>10. Solves(C, Process, Int, 0, AnyOf, Adding(r))
  <2>1. C \in [SUBSET Process -> Int]
    <3>1. body(C) = [s \in SUBSET Process |-> body(C)[s]]
      OBVIOUS
    <3> HIDE DEF body
    <3> QED
      BY <1>6, <1>9, <3>1
  <2>2. ASSUME NEW s \in SUBSET Process, s # {}
        PROVE  C[s] = Adding(r)[<<AnyOf[s], C[s \ {AnyOf[s]}]>>]
    <3>1. C[s \ {any(s)}] \in Int
      BY <1>4, <2>1, <2>2
    <3> QED
      BY <1>4, <1>8, <2>2, <3>1
  <2> QED
    BY <1>7, <2>1, <2>2 DEF Solves
<1> QED
  BY <1>1, <1>10

(* What one process has read, or has counted, changes the sum by as much.  *)
LEMMA SumChanges ==
  ASSUME NEW r \in [Process -> Int], NEW p \in Process, NEW n \in Int
  PROVE  /\ Uncounted(r) \in Int
         /\ Uncounted([r EXCEPT ![p] = n]) = Uncounted(r) - Positive(r[p]) + Positive(n)
<1> DEFINE r2 == [r EXCEPT ![p] = n]
<1>1. r2 \in [Process -> Int]
  OBVIOUS
<1>2. PICK F : Solves(F, Process, Int, 0, AnyOf, Adding(r)) /\ Uncounted(r) = F[Process]
  BY SumIsFold
<1>3. PICK G : Solves(G, Process, Int, 0, AnyOf, Adding(r2)) /\ Uncounted(r2) = G[Process]
  BY <1>1, SumIsFold
<1> DEFINE d == Positive(n) - Positive(r[p])
           T == {s \in SUBSET Process : G[s] = F[s] + IF p \in s THEN d ELSE 0}
<1>4. d \in Int
  BY DEF Positive
<1>5. {} \in T
  <2>1. F[{}] = 0 /\ G[{}] = 0
    BY <1>2, <1>3 DEF Solves
  <2> QED
    BY <2>1
<1>6. ASSUME NEW s \in SUBSET Process, s # {}, s \ {AnyOf[s]} \in T PROVE s \in T
  <2> DEFINE a == AnyOf[s]
  <2>1. a \in s /\ a \in Process
    BY <1>6, AnyIsChosen DEF Chooses
  <2> HIDE DEF a
  <2>2. F[s \ {a}] \in Int /\ G[s \ {a}] \in Int
    BY <1>2, <1>3 DEF Solves
  <2>3. F[s] = Positive(r[a]) + F[s \ {a}]
    BY <1>2, <1>6, <2>1, <2>2 DEF Solves, Adding, a
  <2>4. G[s] = Positive(r2[a]) + G[s \ {a}]
    BY <1>3, <1>6, <2>1, <2>2 DEF Solves, Adding, a
  <2>5. G[s \ {a}] = F[s \ {a}] + IF p \in s \ {a} THEN d ELSE 0
    BY <1>6 DEF a
  <2>6. Positive(r[a]) \in Int /\ Positive(r2[a]) \in Int
    BY <1>1, <2>1 DEF Positive
  <2>7. r2[a] = IF a = p THEN n ELSE r[a]
    BY <2>1
  <2> HIDE DEF r2, T
  <2>8. G[s] = F[s] + IF p \in s THEN d ELSE 0
    <3>1. CASE a = p
      BY <1>4, <2>1, <2>2, <2>3, <2>4, <2>5, <2>6, <2>7, <3>1
    <3>2. CASE a # p
      BY <1>4, <2>1, <2>2, <2>3, <2>4, <2>5, <2>6, <2>7, <3>2
    <3> QED
      BY <3>1, <3>2
  <2> QED
    BY <2>8 DEF T
<1> HIDE DEF T
<1>7. Process \in T
  BY <1>5, <1>6, AnyIsChosen, ProcessesFinite, SubsetInduction
<1>8. F[Process] \in Int /\ Positive(n) \in Int /\ Positive(r[p]) \in Int
  BY <1>2 DEF Solves, Positive
<1> QED
  BY <1>2, <1>3, <1>7, <1>8 DEF T

(* Nothing is missing from the count at first.                             *)
LEMMA SumOfNothing == Uncounted([p \in Process |-> 0]) = 0
<1> DEFINE r == [p \in Process |-> 0]
<1>1. r \in [Process -> Int]
  OBVIOUS
<1>2. PICK F : Solves(F, Process, Int, 0, AnyOf, Adding(r)) /\ Uncounted(r) = F[Process]
  BY <1>1, SumIsFold
<1> DEFINE T == {s \in SUBSET Process : F[s] = 0}
<1>3. {} \in T
  BY <1>2 DEF Solves
<1>4. ASSUME NEW s \in SUBSET Process, s # {}, s \ {AnyOf[s]} \in T PROVE s \in T
  <2>1. AnyOf[s] \in Process
    BY <1>4, AnyIsChosen DEF Chooses
  <2>2. F[s \ {AnyOf[s]}] = 0
    BY <1>4
  <2>3. F[s] = Adding(r)[<<AnyOf[s], 0>>]
    BY <1>2, <1>4, <2>2 DEF Solves
  <2>4. Adding(r)[<<AnyOf[s], 0>>] = 0
    BY <2>1 DEF Adding, Positive
  <2> QED
    BY <2>3, <2>4
<1> HIDE DEF T
<1>5. Process \in T
  BY <1>3, <1>4, AnyIsChosen, ProcessesFinite, SubsetInduction
<1> QED
  BY <1>2, <1>5 DEF T

-----------------------------------------------------------------------------

(* A test that is in a file has it open.                                   *)
FdInv ==
  \A t \in Test : pc[t] \in {"write", "read", "reading"} => fd[t] \in Test

(* The count only grows: what was read at first is a lower bound, by as    *)
(* much as the test has read itself.                                       *)
GrowInv ==
  \A t \in Test :
    /\ initial[t] <= total_bytes_read
    /\ At(t, "final") => initial[t] + Chunk <= total_bytes_read
    /\ Reports(t) => initial[t] + Chunk <= final[t]

(* Until somebody removes it, testfile.txt is the one file everybody has   *)
(* open, and it is full as soon as one test has written it.                *)
FileInv ==
  unlinked = {} =>
    \A t \in Test :
      /\ fd[t] # NoFile => fd[t] = testfile
      /\ At(t, "open") => testfile # NoFile /\ size[testfile] = Chunk
      /\ At(t, "read") => size[fd[t]] = Chunk

(* Between its reads a test has nothing left to count.                     *)
ResultInv == \A t \in Test : pc[t] # "reading" => result[t] = 0

(* The inductive invariant: OwnReadsCounted is about the end of what       *)
(* GrowInv follows from the first count on, and FdInv names the file.      *)
IInv == TypeOK /\ FdInv /\ GrowInv /\ FileInv

(* What CountIsSum needs: nobody reads again before the last read has been *)
(* counted.                                                                *)
SumInv == ResultInv /\ total_bytes_read + Uncounted(result) = read_bytes

-----------------------------------------------------------------------------
(* The program starts without a file, and with a count of 0.               *)
LEMMA IInvInit == Init => IInv
BY ReadCountAssumption DEF Init, IInv, TypeOK, Place, Process, FdInv, GrowInv, FileInv,
   At, Reports

(* sys_read adds a positive result only (the patch 19605-19609).           *)
LEMMA AddsPositive ==
  ASSUME TypeOK, NEW p \in Process, AddToReadCount(p)
  PROVE  /\ total_bytes_read' \in Nat /\ total_bytes_read <= total_bytes_read'
         /\ result[p] = Chunk => total_bytes_read' = total_bytes_read + Chunk
         /\ result' \in [Process -> Int]
<1>1. Counted(result[p]) \in Nat /\ (result[p] = Chunk => Counted(result[p]) = Chunk)
  BY ReadCountAssumption DEF TypeOK, Counted
<1> QED
  BY <1>1, ReadCountAssumption DEF TypeOK, AddToReadCount

(* fileread keeps the types.                                               *)
LEMMA ReadTyped ==
  ASSUME TypeOK, NEW p \in Process, NEW n \in Int, Fileread(p, n)
  PROVE  result' \in [Process -> Int] /\ read_bytes' \in Nat
BY DEF TypeOK, Fileread

(* Every step of a test or a reader keeps the invariant.                   *)
LEMMA IInvStep == IInv /\ [Next]_vars => IInv'
<1> SUFFICES ASSUME IInv, [Next]_vars PROVE IInv'
  OBVIOUS
<1> USE ReadCountAssumption DEF IInv
<1>1. ASSUME NEW r \in Reader, ReaderReads(r) PROVE IInv'
  <2>1. result' \in [Process -> Int] /\ read_bytes' \in Nat
    <3>1. PICK n \in Int : Fileread(r, n)
      BY <1>1 DEF ReaderReads
    <3>2. r \in Process
      BY DEF Process
    <3> QED
      BY <3>1, <3>2, ReadTyped
  <2> QED
    BY <1>1, <2>1 DEF ReaderReads, TypeOK, FdInv, GrowInv, FileInv, At, Reports, counts, file
<1>2. ASSUME NEW r \in Reader, ReaderCounts(r) PROVE IInv'
  <2>1. /\ total_bytes_read' \in Nat /\ total_bytes_read <= total_bytes_read'
        /\ result' \in [Process -> Int]
    BY <1>2, AddsPositive DEF ReaderCounts, Process
  <2> QED
    BY <1>2, <2>1 DEF ReaderCounts, TypeOK, FdInv, GrowInv, FileInv, At, Reports, counts, file
<1>3. ASSUME NEW t \in Test, GetsInitial(t) PROVE IInv'
  BY <1>3 DEF GetsInitial, TypeOK, Place, FdInv, GrowInv, FileInv, At, Reports, Goto, file
<1>4. ASSUME NEW t \in Test, Creates(t) PROVE IInv'
  <2>1. TypeOK'
    BY <1>4 DEF Creates, OpensForWriting, TypeOK, Place, Goto, counts, file
  <2>2. FdInv' /\ GrowInv'
    BY <1>4 DEF Creates, OpensForWriting, TypeOK, FdInv, GrowInv, At, Reports, Goto, counts, file
  <2>3. FileInv'
    BY <1>4 DEF Creates, OpensForWriting, TypeOK, FileInv, At, Goto, file
  <2> QED
    BY <2>1, <2>2, <2>3
<1>5. ASSUME NEW t \in Test, Writes(t) PROVE IInv'
  <2>1. TypeOK' /\ FdInv' /\ GrowInv'
    BY <1>5 DEF Writes, TypeOK, Place, FdInv, GrowInv, At, Reports, Goto, counts
  <2>2. FileInv'
    BY <1>5 DEF Writes, TypeOK, FdInv, FileInv, At, Goto
  <2> QED
    BY <2>1, <2>2
<1>6. ASSUME NEW t \in Test, Opens(t) PROVE IInv'
  <2>1. TypeOK' /\ FdInv' /\ GrowInv'
    BY <1>6 DEF Opens, TypeOK, Place, FdInv, GrowInv, At, Reports, Goto, counts
  <2>2. FileInv'
    BY <1>6 DEF Opens, TypeOK, FileInv, At, Goto
  <2> QED
    BY <2>1, <2>2
<1>7. ASSUME NEW t \in Test, Reads(t) PROVE IInv'
  <2>1. size[fd[t]] \in Int
    BY <1>7 DEF Reads, At, TypeOK, FdInv
  <2>2. result' \in [Process -> Int] /\ read_bytes' \in Nat
    BY <1>7, <2>1, ReadTyped DEF Reads, Process
  <2> QED
    BY <1>7, <2>2 DEF Reads, TypeOK, Place, FdInv, GrowInv, FileInv, At, Reports, Goto,
       counts, file
<1>8. ASSUME NEW t \in Test, Counts(t) PROVE IInv'
  <2>1. /\ total_bytes_read' \in Nat /\ total_bytes_read <= total_bytes_read'
        /\ result[t] = Chunk => total_bytes_read' = total_bytes_read + Chunk
        /\ result' \in [Process -> Int]
    BY <1>8, AddsPositive DEF Counts, Process
  <2>2. TypeOK' /\ FdInv'
    BY <1>8, <2>1 DEF Counts, TypeOK, Place, FdInv, At, Goto, counts
  <2>3. GrowInv'
    BY <1>8, <2>1 DEF Counts, TypeOK, GrowInv, At, Reports, Goto, counts
  <2>4. FileInv'
    BY <1>8 DEF Counts, TypeOK, FileInv, At, Goto
  <2> QED
    BY <2>2, <2>3, <2>4
<1>9. ASSUME NEW t \in Test, GetsFinal(t) PROVE IInv'
  BY <1>9 DEF GetsFinal, TypeOK, Place, FdInv, GrowInv, FileInv, At, Reports, Goto, file
<1>10. ASSUME NEW t \in Test, Unlinks(t) PROVE IInv'
  BY <1>10 DEF Unlinks, TypeOK, Place, FdInv, GrowInv, FileInv, At, Reports, Goto, counts
<1>11. CASE UNCHANGED vars
  BY <1>11 DEF vars, counts, file, TypeOK, FdInv, GrowInv, FileInv, At, Reports
<1> QED
  BY <1>1, <1>2, <1>3, <1>4, <1>5, <1>6, <1>7, <1>8, <1>9, <1>10, <1>11 DEF Next

(* The invariant holds.                                                    *)
LEMMA Invariant == Spec => []IInv
BY IInvInit, IInvStep, PTL DEF Spec

-----------------------------------------------------------------------------
(* An int and the number it was cast from differ by a multiple of the      *)
(* width, and a number has one remainder.                                  *)
LEMMA OneRemainder ==
  ASSUME NEW x \in Int, NEW k \in Int, NEW d \in 0 .. Width - 1, x = d + k * Width
  PROVE  x % Width = d
<1> DEFINE q == x \div Width
           y == x % Width
<1>1. q \in Int /\ y \in 0 .. Width - 1 /\ x = Width * q + y
  BY ReadCountAssumption
<1> HIDE DEF q, y
<1>2. Width * (q - k) = d - y
  BY <1>1, ReadCountAssumption
<1>3. q - k \in Int /\ Width \in Nat
  BY <1>1, ReadCountAssumption
<1>4. q - k >= 1 => Width * (q - k) >= Width
  BY <1>3
<1>5. q - k <= -1 => Width * (q - k) <= -Width
  BY <1>3
<1>6. d - y > -Width /\ d - y < Width
  BY <1>1, ReadCountAssumption
<1>7. q - k = 0
  BY <1>2, <1>3, <1>4, <1>5, <1>6
<1>8. d = y
  <2>1. Width * 0 = 0
    BY ReadCountAssumption
  <2>2. d - y = 0
    BY <1>2, <1>7, <2>1
  <2> QED
    BY <1>1, <2>2
<1> QED
  BY <1>8 DEF y

(* readcount.c:16 and :54: the cast to int.                                *)
LEMMA AsIntIs ==
  ASSUME NEW n \in Int
  PROVE  \E k \in Int : AsInt(n) = n + k * Width
<1> DEFINE q == n \div Width
<1>1. q \in Int /\ n % Width \in Int /\ n = Width * q + (n % Width)
  BY ReadCountAssumption
<1>2. AsInt(n) = n + (-q) * Width \/ AsInt(n) = n + (-q - 1) * Width
  BY <1>1, ReadCountAssumption DEF AsInt
<1>3. -q \in Int /\ -q - 1 \in Int
  BY <1>1
<1> HIDE DEF q
<1> QED
  BY <1>2, <1>3

(* readcount.c:58: a difference that an int can hold survives the casts.   *)
LEMMA DifferenceSurvives ==
  ASSUME NEW i \in Nat, NEW f \in Nat, i <= f, f - i < Width \div 2
  PROVE  AsInt(AsInt(f) - AsInt(i)) = f - i
<1> DEFINE d == f - i
<1>1. PICK k \in Int : AsInt(f) = f + k * Width
  BY AsIntIs
<1>2. PICK m \in Int : AsInt(i) = i + m * Width
  BY AsIntIs
<1> DEFINE x == AsInt(f) - AsInt(i)
<1>3. x = d + (k - m) * Width
  BY <1>1, <1>2, ReadCountAssumption
<1>4. x \in Int /\ k - m \in Int
  BY <1>1, <1>2, ReadCountAssumption
<1>5. d \in 0 .. Width - 1
  BY ReadCountAssumption
<1> HIDE DEF x, d
<1>6. x % Width = d
  BY <1>3, <1>4, <1>5, OneRemainder
<1>7. d < Width \div 2
  BY DEF d
<1>8. AsInt(x) = d
  BY <1>6, <1>7 DEF AsInt
<1> QED
  BY <1>8 DEF x, d

-----------------------------------------------------------------------------
(* fileread adds to what has been read and not counted yet; the count      *)
(* takes it over.                                                          *)
LEMMA FilereadAdds ==
  ASSUME TypeOK, SumInv, NEW p \in Process, result[p] = 0, NEW n \in Int, Fileread(p, n)
  PROVE  /\ read_bytes' = read_bytes + Positive(n)
         /\ Uncounted(result') = Uncounted(result) + Positive(n)
         /\ Uncounted(result) \in Int /\ Positive(n) \in Int
<1>1. /\ Uncounted(result) \in Int
      /\ Uncounted([result EXCEPT ![p] = n]) =
           Uncounted(result) - Positive(result[p]) + Positive(n)
  BY SumChanges DEF TypeOK
<1>2. Positive(result[p]) = 0 /\ Positive(n) \in Int
  BY DEF Positive
<1>3. result' = [result EXCEPT ![p] = n] /\ read_bytes' = read_bytes + Positive(n)
  BY DEF Fileread, Positive
<1> QED
  BY <1>1, <1>2, <1>3

LEMMA CountTakesOver ==
  ASSUME TypeOK, NEW p \in Process, AddToReadCount(p)
  PROVE  /\ total_bytes_read' = total_bytes_read + Positive(result[p])
         /\ Uncounted(result') = Uncounted(result) - Positive(result[p])
         /\ Uncounted(result) \in Int /\ Positive(result[p]) \in Int
<1> DEFINE nothing == 0
<1>0. nothing \in Int /\ nothing = 0
  OBVIOUS
<1> HIDE DEF nothing
<1>1. /\ Uncounted(result) \in Int
      /\ Uncounted([result EXCEPT ![p] = nothing]) =
           Uncounted(result) - Positive(result[p]) + Positive(nothing)
  BY <1>0, SumChanges DEF TypeOK
<1>2. Positive(nothing) = 0 /\ Positive(result[p]) \in Int
  BY <1>0 DEF Positive, TypeOK
<1>3. result' = [result EXCEPT ![p] = nothing]
  BY <1>0 DEF AddToReadCount
<1>4. total_bytes_read' = total_bytes_read + Positive(result[p])
  BY DEF AddToReadCount, Counted, Positive
<1> QED
  BY <1>1, <1>2, <1>3, <1>4

(* The bytes counted and the bytes to be counted are the bytes read, after *)
(* every step.                                                             *)
LEMMA SumInvStep == IInv /\ SumInv /\ [Next]_vars => SumInv'
<1> SUFFICES ASSUME IInv, SumInv, [Next]_vars PROVE SumInv'
  OBVIOUS
<1>0. TypeOK /\ Test \cap Reader = {}
  BY ReadCountAssumption DEF IInv
<1>1. ASSUME NEW r \in Reader, ReaderReads(r) PROVE SumInv'
  <2>1. PICK n \in Int : Fileread(r, n)
    BY <1>1 DEF ReaderReads
  <2>2. result[r] = 0 /\ r \in Process
    BY <1>1 DEF ReaderReads, Process
  <2>3. total_bytes_read' + Uncounted(result') = read_bytes'
    BY <1>0, <1>1, <2>1, <2>2, FilereadAdds DEF ReaderReads, SumInv, TypeOK
  <2>4. ResultInv'
    BY <1>0, <1>1, <2>1 DEF ReaderReads, Fileread, SumInv, ResultInv, TypeOK
  <2> QED
    BY <2>3, <2>4 DEF SumInv
<1>2. ASSUME NEW r \in Reader, ReaderCounts(r) PROVE SumInv'
  <2>1. r \in Process /\ AddToReadCount(r) /\ read_bytes' = read_bytes
    BY <1>2 DEF ReaderCounts, Process
  <2>2. total_bytes_read' + Uncounted(result') = read_bytes'
    BY <1>0, <2>1, CountTakesOver DEF SumInv, TypeOK
  <2>3. ResultInv'
    BY <1>0, <1>2 DEF ReaderCounts, AddToReadCount, SumInv, ResultInv, TypeOK
  <2> QED
    BY <2>2, <2>3 DEF SumInv
<1>3. ASSUME NEW t \in Test, Reads(t) PROVE SumInv'
  <2>1. Fileread(t, size[fd[t]]) /\ size[fd[t]] \in Int
    BY <1>3, ReadCountAssumption DEF Reads, At, IInv, TypeOK, FdInv
  <2>2. result[t] = 0 /\ t \in Process
    BY <1>3 DEF Reads, At, SumInv, ResultInv, Process
  <2>3. total_bytes_read' + Uncounted(result') = read_bytes'
    BY <1>0, <1>3, <2>1, <2>2, FilereadAdds DEF Reads, SumInv, TypeOK
  <2>4. ResultInv'
    BY <1>0, <1>3, <2>1 DEF Reads, Goto, Fileread, SumInv, ResultInv, TypeOK
  <2> QED
    BY <2>3, <2>4 DEF SumInv
<1>4. ASSUME NEW t \in Test, Counts(t) PROVE SumInv'
  <2>1. t \in Process /\ AddToReadCount(t) /\ read_bytes' = read_bytes
    BY <1>4 DEF Counts, Process
  <2>2. total_bytes_read' + Uncounted(result') = read_bytes'
    BY <1>0, <2>1, CountTakesOver DEF SumInv, TypeOK
  <2>3. ResultInv'
    BY <1>0, <1>4, <2>1 DEF Counts, Goto, AddToReadCount, SumInv, ResultInv, TypeOK
  <2> QED
    BY <2>2, <2>3 DEF SumInv
<1>5. ASSUME NEW t \in Test,
             \/ GetsInitial(t) \/ Creates(t) \/ Writes(t) \/ Opens(t)
             \/ GetsFinal(t) \/ Unlinks(t)
      PROVE  SumInv'
  <2>1. UNCHANGED <<total_bytes_read, result, read_bytes>>
    BY <1>5 DEF GetsInitial, Creates, Writes, Opens, GetsFinal, Unlinks, file, counts
  <2>2. \E place \in Place : Goto(t, place) /\ ~At(t, "reading")
    BY <1>5 DEF GetsInitial, Creates, Writes, Opens, GetsFinal, Unlinks, At, Place
  <2>3. ResultInv'
    BY <1>0, <2>1, <2>2 DEF Goto, At, SumInv, ResultInv, TypeOK
  <2> QED
    BY <2>1, <2>3 DEF SumInv
<1>6. CASE UNCHANGED vars
  BY <1>6 DEF vars, SumInv, ResultInv
<1> QED
  BY <1>1, <1>2, <1>3, <1>4, <1>5, <1>6 DEF Next

-----------------------------------------------------------------------------
(* Type correctness of the system call and its test.                       *)
THEOREM ReadCountTyped == Spec => []TypeOK
<1>1. IInv => TypeOK
  BY DEF IInv
<1> QED
  BY <1>1, Invariant, PTL

(* The patch 19605-19609: a test that reports sees at least its own bytes  *)
(* in the count, for sys_read counts them before it returns.               *)
THEOREM OwnReadsAreCounted == Spec => []OwnReadsCounted
<1>1. IInv => OwnReadsCounted
  BY ReadCountAssumption DEF IInv, TypeOK, GrowInv, OwnReadsCounted
<1> QED
  BY <1>1, Invariant, PTL

(* report.md:13 and sysfile.c, the patch 19605-19609: whatever reads        *)
(* overlap, no byte is counted twice or never.  What has been read and is  *)
(* not in the count yet is what calls under way have in their hands.       *)
THEOREM NoByteLost == Spec => []CountIsSum
<1>1. Init => SumInv
  <2>1. Init => total_bytes_read + Uncounted(result) = read_bytes
    BY SumOfNothing DEF Init
  <2> QED
    BY <2>1 DEF Init, SumInv, ResultInv, Process
<1>2. SumInv => CountIsSum
  BY DEF SumInv, Uncounted, CountIsSum
<1> QED
  BY <1>1, <1>2, Invariant, SumInvStep, PTL DEF Spec

(* readcount.c:19-49: until a test removes testfile.txt, the tests that    *)
(* share it find it there and full.                                        *)
THEOREM UnlinkAloneBreaks == Spec => []OnlyUnlinkBreaks
<1>1. IInv => OnlyUnlinkBreaks
  BY DEF IInv, FileInv, OnlyUnlinkBreaks
<1> QED
  BY <1>1, Invariant, PTL

(* readcount.c:58-65: the test complains only where the real difference is *)
(* more than an int can hold, whatever wrapped around in between.          *)
THEOREM AlarmsAreTrue == Spec => []AlarmIsTrue
<1>1. IInv => AlarmIsTrue
  <2> SUFFICES ASSUME IInv, NEW t \in Test, Reports(t), ~Success(t),
                      ~(final[t] - initial[t] >= Width \div 2)
               PROVE  FALSE
    BY DEF AlarmIsTrue
  <2>1. initial[t] \in Nat /\ final[t] \in Nat /\ Chunk \in Nat /\ Width \div 2 \in Int
    BY ReadCountAssumption DEF IInv, TypeOK
  <2>2. initial[t] + Chunk <= final[t]
    BY DEF IInv, GrowInv
  <2>3. Increase(t) = final[t] - initial[t]
    BY <2>1, <2>2, DifferenceSurvives DEF Increase
  <2> QED
    BY <2>1, <2>2, <2>3 DEF Success
<1> QED
  BY <1>1, Invariant, PTL

=============================================================================

----------------------------- MODULE ReadCount ------------------------------
(***************************************************************************)
(* The system call getreadcount: sys_read counts the bytes of every read   *)
(* in total_bytes_read once fileread has returned, under its own spinlock. *)
(* Programs readcount (src/xv6/readcount.c) test it, several at a time on  *)
(* one testfile.txt, while other processes read.                           *)
(***************************************************************************)
EXTENDS Integers, FiniteSetsExt

CONSTANTS
  Test,        \* instances of the test program
  Reader,      \* other processes that read
  NoFile,      \* no testfile.txt
  Chunk,       \* the bytes a test writes and reads back, 100 in the code
  Width,       \* the values of an int, 2^32 in the code
  MaxRead,     \* bound: the bytes of another process's read
  MaxTotal     \* bound: the bytes read in a run

(* There are at most NPROC processes at a time.                            *)
ASSUME ReadCountAssumption ==
  /\ IsFiniteSet(Test) /\ IsFiniteSet(Reader)
  /\ NoFile \notin Test
  /\ Test \cap Reader = {}
  /\ Chunk \in Nat \ {0}
  /\ Width \in Nat \ {0} /\ Width % 2 = 0 /\ 2 * Chunk < Width
  /\ MaxRead \in Nat
  /\ MaxTotal \in Nat

Process == Test \cup Reader

VARIABLES
  total_bytes_read,
  result,            \* what fileread has returned, not yet counted
  pc,                \* where each test is
  initial, final,    \* the two counts a test gets, before the cast to int
  testfile,          \* the inode of testfile.txt, named for its creator
  size, fd,          \* the bytes of an inode; the inode a test has open
  read_bytes,        \* history: the bytes fileread has handed out
  unlinked           \* history: the tests that have removed the file

file == <<testfile, size, fd, unlinked>>
counts == <<initial, final>>
vars == <<total_bytes_read, result, pc, counts, file, read_bytes>>

Place == {"initial", "create", "write", "open", "read", "reading",
          "final", "unlink", "exit", "failed"}

TypeOK ==
  /\ total_bytes_read \in Nat
  /\ result \in [Process -> Int]
  /\ pc \in [Test -> Place]
  /\ initial \in [Test -> Nat]
  /\ final \in [Test -> Nat]
  /\ testfile \in Test \cup {NoFile}
  /\ size \in [Test -> {0, Chunk}]
  /\ fd \in [Test -> Test \cup {NoFile}]
  /\ read_bytes \in Nat
  /\ unlinked \subseteq Test

(* readcount_init *)
Init ==
  /\ total_bytes_read = 0
  /\ result = [p \in Process |-> 0]
  /\ pc = [t \in Test |-> "initial"]
  /\ initial = [t \in Test |-> 0]
  /\ final = [t \in Test |-> 0]
  /\ testfile = NoFile
  /\ size = [t \in Test |-> 0]
  /\ fd = [t \in Test |-> NoFile]
  /\ read_bytes = 0
  /\ unlinked = {}

-----------------------------------------------------------------------------
(* Mutant of Counted: an error of fileread is counted, too.                *)
CountedMutant(n) == n

(* sys_read counts what fileread returns if it is positive.                *)
Counted(n) == IF n > 0 THEN n ELSE 0

(* fileread hands out n bytes, or fails.                                   *)
Fileread(p, n) ==
  /\ read_bytes + n <= MaxTotal
  /\ result' = [result EXCEPT ![p] = n]
  /\ read_bytes' = read_bytes + (IF n > 0 THEN n ELSE 0)

AddToReadCount(p) ==
  /\ total_bytes_read' = total_bytes_read + Counted(result[p])
  /\ result' = [result EXCEPT ![p] = 0]

(* Another process reads, from a file, a pipe or the console.              *)
ReaderReads(r) ==
  /\ result[r] = 0
  /\ \E n \in -1 .. MaxRead : n # 0 /\ Fileread(r, n)
  /\ UNCHANGED <<total_bytes_read, pc, counts, file>>

ReaderCounts(r) ==
  /\ result[r] # 0
  /\ AddToReadCount(r)
  /\ UNCHANGED <<pc, counts, file, read_bytes>>

-----------------------------------------------------------------------------
(* The test program.  Its calls fail where the kernel is out of something. *)
At(t, place) == pc[t] = place

Goto(t, place) == pc' = [pc EXCEPT ![t] = place]

GetsInitial(t) ==
  /\ At(t, "initial")
  /\ initial' = [initial EXCEPT ![t] = total_bytes_read]
  /\ Goto(t, "create")
  /\ UNCHANGED <<total_bytes_read, result, final, file, read_bytes>>

(* Mutant of OpensForWriting: an existing file is emptied.                 *)
OpensForWritingMutant(t) ==
  LET inode == IF testfile = NoFile THEN t ELSE testfile
  IN  /\ testfile' = inode
      /\ fd' = [fd EXCEPT ![t] = inode]
      /\ size' = [size EXCEPT ![inode] = 0]

(* open with O_CREATE and without O_TRUNC.                                 *)
OpensForWriting(t) ==
  /\ testfile' = IF testfile = NoFile THEN t ELSE testfile
  /\ fd' = [fd EXCEPT ![t] = IF testfile = NoFile THEN t ELSE testfile]
  /\ UNCHANGED size

Creates(t) ==
  /\ At(t, "create")
  /\ \/ OpensForWriting(t) /\ Goto(t, "write") /\ UNCHANGED unlinked
     \/ Goto(t, "failed") /\ UNCHANGED file
  /\ UNCHANGED <<total_bytes_read, result, counts, read_bytes>>

(* All the bytes are written, or the program gives up.                     *)
Writes(t) ==
  /\ At(t, "write")
  /\ \/ size' = [size EXCEPT ![fd[t]] = Chunk] /\ Goto(t, "open")
     \/ UNCHANGED size /\ Goto(t, "failed")
  /\ fd' = [fd EXCEPT ![t] = NoFile]
  /\ UNCHANGED <<total_bytes_read, result, counts, testfile, unlinked,
                 read_bytes>>

Opens(t) ==
  /\ At(t, "open")
  /\ fd' = [fd EXCEPT ![t] = testfile]
  /\ Goto(t, IF testfile = NoFile THEN "failed" ELSE "read")
  /\ UNCHANGED <<total_bytes_read, result, counts, testfile, size, unlinked,
                 read_bytes>>

Reads(t) ==
  /\ At(t, "read")
  /\ Fileread(t, size[fd[t]])
  /\ Goto(t, "reading")
  /\ UNCHANGED <<total_bytes_read, counts, file>>

(* The rest of sys_read, and the test of the bytes read.                   *)
Counts(t) ==
  /\ At(t, "reading")
  /\ AddToReadCount(t)
  /\ Goto(t, IF result[t] = Chunk THEN "final" ELSE "failed")
  /\ fd' = [fd EXCEPT ![t] = NoFile]
  /\ UNCHANGED <<counts, testfile, size, unlinked, read_bytes>>

GetsFinal(t) ==
  /\ At(t, "final")
  /\ final' = [final EXCEPT ![t] = total_bytes_read]
  /\ Goto(t, "unlink")
  /\ UNCHANGED <<total_bytes_read, result, initial, file, read_bytes>>

Unlinks(t) ==
  /\ At(t, "unlink")
  /\ testfile' = NoFile
  /\ unlinked' = unlinked \cup {t}
  /\ Goto(t, "exit")
  /\ UNCHANGED <<total_bytes_read, result, counts, size, fd, read_bytes>>

Next ==
  \/ \E r \in Reader : ReaderReads(r) \/ ReaderCounts(r)
  \/ \E t \in Test :
       \/ GetsInitial(t) \/ Creates(t) \/ Writes(t) \/ Opens(t)
       \/ Reads(t) \/ Counts(t) \/ GetsFinal(t) \/ Unlinks(t)

Spec == Init /\ [][Next]_vars

-----------------------------------------------------------------------------
(* What a test prints: the counts are cast to int, and so is their         *)
(* difference, which wraps around (subw, the patch 37030).                 *)
AsInt(n) == IF n % Width < Width \div 2 THEN n % Width ELSE (n % Width) - Width

(* Mutant of Increase: the difference is taken without a width.            *)
IncreaseMutant(t) == AsInt(final[t]) - AsInt(initial[t])

Increase(t) == AsInt(AsInt(final[t]) - AsInt(initial[t]))

Reports(t) == At(t, "unlink") \/ At(t, "exit")

Success(t) == Increase(t) >= Chunk

-----------------------------------------------------------------------------
(* report.md:13 and sysfile.c, the patch 19605-19609: no byte is counted   *)
(* twice or never, whatever reads overlap; what is missing from the count  *)
(* is what fileread has returned to calls that have not counted it yet.    *)
CountIsSum ==
  total_bytes_read + MapThenSumSet(LAMBDA p : IF result[p] > 0 THEN result[p] ELSE 0,
                                   Process) = read_bytes

(* readcount.c:58-65: the test complains only if as many bytes have been   *)
(* read meanwhile as an int cannot count, though the counts it compares    *)
(* may be on both sides of an overflow.                                    *)
AlarmIsTrue ==
  \A t \in Test : Reports(t) /\ ~Success(t) =>
    final[t] - initial[t] >= Width \div 2

(* readcount.c:19-49: tests that share testfile.txt do not disturb each    *)
(* other's bytes; only the removal at the end of one can make another fail *)
(* to open the file or to find its bytes in it.                            *)
OnlyUnlinkBreaks ==
  \A t \in Test : unlinked = {} =>
    /\ At(t, "open") => testfile # NoFile /\ size[testfile] = Chunk
    /\ At(t, "read") => size[fd[t]] = Chunk

(* The patch 19605-19609: a read is in the count before it returns to its  *)
(* process, so that a test sees at least its own bytes.                    *)
OwnReadsCounted ==
  \A t \in Test : Reports(t) => final[t] >= initial[t] + Chunk

=============================================================================

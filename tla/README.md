# TLA+ models of C-Shell-and-Networking

Models, model-checking runs and machine-checked proofs for the three programs of
this repository: a file transfer and chat protocol over UDP (`src/networking`),
a shell with job control (`src/shell`), and changes to the xv6 kernel's
scheduler (`src/xv6`, as a patch).

Run a model with `tlc -config <cfg> <module>`; `PROJECT.json` lists every run
with its properties, and `map` says which lines each definition models. Check
the proofs with `tlapm` on the modules whose name ends in `Proofs`.

## 1. Inventory

| Part | State | Operations | Models |
|---|---|---|---|
| File transfer, `client.c`, `server.c`, `sham.h` | per program: where it is, its numbers, its packet buffer, the timeout; the copy; the datagrams between them | handshake, file name, data loop with timeouts, teardown | `Sham`, `ShamFile`, `ShamFileNoWrap`, `FileChannel` |
| Chat mode, `client.c:149-189`, `server.c:169-211` | per program: stdio's buffer, the line buffer, what select has found, a socket that does not block; the lines shown | two select loops, `/quit`, end of input, teardown | `Sham`, `ShamChat` |
| Job control, `background.c`, `pipes.c`, `signals.c`, `main.c`, `input.c` | job table, `foreground_pid`, the main program's locals; the children in the kernel | launching, `fg`, `bg`, `ping`, end of input, SIGCHLD, SIGINT and SIGTSTP handlers | `Children`, `ShellJobs` |
| History, `log.c`, `main.c` | ring buffer, file | load, add, purge, save, kill | `History`, `ShellLog` |
| Parser, `parser.c`, `executor.c` | none | validate_syntax, the cut into commands and stages, parse_redirections | `ShellParse` |
| Pipelines and redirection, `pipes.c`, `redirection.c` | descriptors and pipe ends of the shell and of every stage, files | open, pipe, fork, dup2, close, the end of a stage | `ShellLine` (on `ShellParse` and `ShellDirs`) |
| `hop`, `reveal`, `commands.c` | `prev_dir`, working directory, directories | chdir, the choice of what to list | `ShellDirs`, driven by `ShellLine` |
| xv6 schedulers, the patch 19194-19700 | process table, `p->lock`, `tickslock`, ticks, `vruntime`, queues, what each CPU is choosing | FCFS, CFS, MLFQ, round robin, timer tick, boost, allocproc, clockintr | `XvProc`, `XvSched` |
| xv6 `getreadcount`, the patch 19600-19656, `readcount.c` | a counter under a lock; the test's two counts, `testfile.txt` | read, count, the steps of the test | `ReadCount` |
| Prompt and start-up, `prompt.c`, `utils.c` | `shell_home` | print | not modelled |
| Build output in the patch; Makefiles, reports | none | none | not modelled |

How the parts interact: client and server share nothing but datagrams. In the
shell everything runs on one thread, but the SIGCHLD handler runs
`check_background_processes` on the same job table at any point of the main
program, for no signal is ever blocked; SIGINT and SIGTSTP handlers read
`foreground_pid`. The history is called from `shell_loop` between the other
steps, and shares the file with later sessions. A line is cut by the parser into
commands, each of which runs a builtin in the shell itself or forks stages that
share pipes and files with it. In xv6 the CPUs and the timer interrupt meet on
`p->lock` and `tickslock`; choosing a process and the boost take no lock that
would cover what they do.

What is hard, and what correctness means there:

* **File transfer.** Datagrams are lost, repeated, reordered or late, timeouts
  fire early, and a program takes whatever arrives for what it waits for. The
  copy must be the file, and a client that is done must be right about it.
* **Job control.** A child can change its state, and the handler can rewrite the
  table, between any two statements. Each command must stay reachable, each
  zombie be reaped, and each key reach the right processes.
* **History.** A ring that is purged, refilled, saved line by line and loaded
  again must remain the sequence of the latest lines, also when the shell is
  killed during a save.
* **Chat.** stdio reads ahead of what `select` can see, sockets that no longer
  block make every wait of the teardown a guess, and the two `/quit`s may cross.
  What is typed must be shown in order, and a `/quit` end both programs.
* **A line.** Redirections of a builtin replace the shell's own descriptors, and
  a fork, pipe or open that fails returns from the middle of it. The descriptors
  must come back, the files hold what the text says, and no stage wait for an
  end of file that cannot come.
* **xv6.** Several CPUs choose from one table at a time. No process may run
  twice, the choice must follow the policy, the bookkeeping of slices and
  `vruntime` survive the crossings, and the lock order must not be able to stop
  the machine.
* **getreadcount.** Reads overlap, ints wrap around, and tests share a file.

Every hazard with its line and the properties about it is in `PROJECT.json`.

## 2. The models

### Sham and ShamFile: the file transfer

`Sham` is the wire format of `sham.h` and the socket: one queue of at most
`Capacity` datagrams for each direction, and a constant `Faults` that says which
of loss, duplication, reordering, early timeouts and simulated loss
(`loss_rate`) may happen. A payload is named by where its bytes come from (the
name, or an offset in the file), never by the bytes. Sequence numbers are modulo
`SeqSpace`, 2^32 in the program.

In `ShamFile` each program is a sequence of blocking `recvfrom` calls, and an
action is one return of `recvfrom`, by a datagram or by a timeout, together with
everything the program does until the next call. `cpc` and `spc` name the call a
program is blocked in. `hdr` is the header part of the client's packet buffer:
since `client.c:132` receives the ACK into it, a retransmission goes out behind
whatever header was received last. `out` is what `fwrite` has put into the
output file. Both outcomes of both `fopen` calls are covered.

`ShamFileNoWrap` adds the assumption that no sequence number wraps around and
the inductive invariant `TransferInv`. `FileChannel` is the abstract
specification: a file handed over chunk by chunk, in order, with a sender that
is at most one chunk ahead of what it knows to have arrived. `ShamFile`
implements it with `delivered <- FileEnd(out)` and `confirmed <- pos`.

### Children and ShellJobs: job control

`Children` is the kernel's side: every child's state, its process group, and
whether a SIGCHLD is pending. A stopped child is "stopped" until a `waitpid`
with WUNTRACED has reported it, "halted" afterwards. `resume` says what it does
when it is continued: go on before `exec` or behind it, or end, since a SIGINT
sent to a stopped process stays pending until then (`Pends`), while a SIGTSTP is
discarded by the SIGCONT. The programs that are run do what they like: end,
stop, or run on.

`ShellJobs` is the shell's side. The Makefile sets no optimisation, so every
statement reads and writes the globals in memory; the main program is therefore
cut into one action per statement that touches the job table or
`foreground_pid`, and the handler into one action per `waitpid`. A handler
starts between any two of these actions, and runs to its end before the main
program goes on. `pc = "corrupted"` is where a negative `job_count` would have
the shell write outside of the table. A status that `waitpid` did not write
(because the handler had reaped the child first) is any status. What
`check_background_processes` does with a child it has found follows the status
that `waitpid` gave it, kept in `state`, whatever the child does meanwhile.

A key reaches the group `foreground_pid`, which is not always a command that is
waited for. Between the listing of a stopped command and `foreground_pid = 0`
(`pipes.c:196-200`), and while `fg` takes a job off the list, it reaches a job
that is listed: a Ctrl-C in the first window stays pending and kills the job
when it is continued. `KeysSpareJobs` names these two windows (`InForeground`)
and says that there is no third.

`undercut` is a history variable that the program does not have: it becomes TRUE
when the handler reaps a child while the main program is in the middle of
dealing with the table, or with this very child. That is the race the code does
not close. The properties with `~undercut` say what holds without it and cannot
catch it; the two violation runs show what happens with it.

### History and ShellLog: the history

`ShellLog` has the ring of `log.c` (`log_entries`, `log_count`, `log_start`),
the file, and a `pc` for the order of steps in `shell_loop`. Saving is one
action to open (which empties the file), one per line, and one to close;
`Killed` may come between any two of them, and leave the line that was being
written in part (`Cut`). A line is a model value, and three sets of lines say
which start with `log`, which purge the history, and which end the shell. The
abstract `History` is a sequence that keeps the latest `MaxLog` lines and does
not take a line equal to its last; `ShellLog` implements it with `up <- pc #
"down"` and `recent <- Logged`.

### ShamChat: the chat

On top of the socket of `Sham`, one `pc` per program, an action per return of
`select` and per `recvfrom` or `fgets` behind it. `typed`, `read` and `taken`
say how far a line has come: typed, in stdio's buffer, out of it. A terminal
hands over one line at a time, a pipe as many as there are (`Source`); since
`select` looks at the descriptor and not at stdio's buffer, a side may go back
to wait with lines in hand. At the end of the input `fgets` returns NULL and
leaves the buffer as it was, so that the old line is sent again, as often as the
loop comes round. From the loop on
the socket does not block, so the teardown reads whatever is there, or nothing.

### ShellParse, ShellDirs and ShellLine: a line of the shell

A line is a sequence of tokens. `ShellParse` has `validate_syntax`, the cuts at
`;`, `&` and `|`, and `parse_redirections`, as operators; `ShellDirs` has where
`hop` leads and what `reveal` lists, as two separate operators, since the code
has two separate pieces for it. `ShellLine` executes a line: `parse_pipeline`
opens, creates or truncates the files while it parses; a single builtin runs in
the shell behind its two `dup2`s, of which the second may not come about when
its file does not open a second time (`"open"` in `Faults`); anything else makes
pipes one by one, forks stages one by one, closes, and waits. A process is a
record of its standard input and output, the pipe ends it has inherited, and its
state; `Starts` is the child's side up to `exec`. A process that ends is a
"zombie" if it is the last stage of a background command, until the SIGCHLD
handler has reaped it (`Reaps`), also when it ends before `exec`. A file is
`Absent` or the set of those who have written in it: 0 for what was there at
first, the number of a command, or `Notice` for what the SIGCHLD handler prints
while the shell's own stdout is a builtin's file. The pipes that a failed fork
or pipe leaves open in the shell are inherited by every later child (`failed`
remembers that it happened).

### XvProc and XvSched: the schedulers of xv6

A CPU that holds a spinlock or waits for one has its interrupts off, so an
action goes from one `acquire` that may have to wait to the next; the unlocked
writes of the boost and of `mlfq_move_to_queue` are cut once more, between the
level and the rest. `XvProc` is the kernel around the scheduler: `allocproc`
(which waits for `tickslock` with `p->lock` held), the end of fork, wait,
wakeup, and `clockintr` on the boot CPU (which takes every `p->lock` with
`tickslock` held, slot by slot). `XvSched` is `scheduler()` of all four
policies, and how a process gives up its CPU. The policy is chosen in the
initial state. `holder` has an entry only where a lock is held across a wait.
`touched` is a history variable: the processes whose state or key has changed
while a CPU was choosing.

### ReadCount: getreadcount

`sys_read` is two steps, what `fileread` returns and the addition under the
counter's lock; the test program is one step per system call. An inode is named
for the test that created it, so that an unlinked file that is still open is
told from the next one of the same name. The casts to `int` are modulo `Width`.

## 3. The runs

| Run | Bounds | Shows |
|---|---|---|
| `sham_safety` | 3 bytes in chunks of 2, 3 datagrams per direction, every fault, both outcomes of both `fopen`s | `CopyIsPrefix`, `DoneMeansDelivered`, `Md5OfWholeFile`, the invariant `TransferInv`, and `HandsOverInOrder` (the refinement of `FileChannel`) |
| `sham_live` | 11 bytes in chunks of 3, several initial numbers, loss in the data loop | `BothEnd` under fairness; `CloseAgreement` |
| `sham_late_ack` | nothing lost by the network; a timeout that fires early, and one chunk that the server's `loss_rate` drops | violation of `FileGetsThrough` |
| `chat` | 2 lines per side, 4 datagrams per direction, a client on a terminal, a server behind a pipe, lines may be lost | `LinesGetThrough`, `OnlyPipesHoldBack`; `QuitEndsBoth` under fairness |
| `jobs_safety` | 3 forks, a command each, 3 job numbers; `ping` sends SIGKILL, SIGSTOP or SIGCONT | `NoJobLost`, `StopIsKept`, `NoGhosts`, `NumbersIncrease`, `KeysReachCommand`, `KeysSpareJobs` |
| `jobs_live` | 2 forks that may fail, pipelines of at most 2 stages; `ping` sends any of five signals | `ZombiesReaped` under fairness |
| `jobs_ghost` | 2 forks | violation of `ListedJobsLive` |
| `jobs_logout` | 2 forks | violation of `LogoutKillsAll` |
| `log` | a ring of 3, six lines: two plain, two that start with `log`, one that purges behind a plain command, `exit` | `RingInv`, `NoRepeats`, `SavedAtPrompt`, `SavesInOrder`, `KeepsHistory` |
| `line` | sessions of 2 lines, each any sequence of at most 3 of 7 tokens or one of 15 longer ones; 4 processes, 4 directories of which one may be removed; fork, pipe and open may fail | `FdsRestored`, `FilesAsWritten`, `HopAgrees`; `LineEnds` under fairness |
| `xv6_sched` | 2 CPUs, 2 processes, 2 ticks, 3 queues with slices 1, 1, 2, a boost every 2 ticks, all four policies | `RunsOnce`, `PicksBest`, `OnlyClockDeadlocks`, `SliceOfQueue`, `VruntimeEarned` |
| `readcount` | 2 tests, 1 other reader, 2 bytes a file, ints of 8 values, 12 bytes in all | `CountIsSum`, `AlarmIsTrue`, `OnlyUnlinkBreaks` |

Why the bounds are enough. *Transfer:* stop and wait has one chunk under way, so
two chunks, one of them short, already give every relation between a chunk, its
successor, and a datagram that is one late; three datagrams per direction hold a
handshake answer, a retransmission and an ACK at once. The proofs of section 4
do away with the bounds. *Jobs:* two jobs are needed for an index that has gone
stale, and a third process for a job that moves in the table while another is
being added. Pipelines are in `jobs_live` only: none of their stages is listed
but the last one of the background, and the proofs are for any number of stages.
*Log:* three slots give a ring with a middle, and TLC explores every number of
sessions. *Chat:* a line and a `/quit` on each side are what it takes for them
to cross, the second line is what stdio may hold back. *Line:* what one line
leaves behind (descriptors, files, `prev_dir`) shows in a second one; three
stages have a first, a middle and a last, and need two pipes; lines of three
tokens have every pair of separators, and the longer ones are for what needs
more words. *xv6:* a race is between two CPUs over one process, and the second
process is what is chosen instead; the second tick brings the boost while the
first has brought a demotion. The proofs of section 4 do away with these bounds.
*getreadcount:* 12 bytes go one and a half times around an int of 8 values.

`CHECK_DEADLOCK FALSE` stands where the programs may end, where a session is
bounded (`line`), and in `xv6_sched`, where the CPUs really may block each
other: `OnlyClockDeadlocks` says how, and that there is no other way. In `log`
there is always a next step, and deadlock is checked.

The three violations are disagreements between the code and what the README or a
comment says of it; `findings` quotes both sides of each.

**Fairness.** `ShamFile`: both programs run when they can (weak fairness of the
client, which has a timeout to fire), a program that keeps being sent datagrams
receives one in the end, and the server does not drop every one of them, as
`loss_rate` < 1 and the draws are independent (strong fairness). No fairness is
asked of the loss. `ShellJobs`: the main program runs when it can, and a pending
signal is delivered; nothing is asked of the user or of the children, so the
main program may wait for a command for ever. `ShamChat`: both programs go on
where they can (weak fairness of each); users need not type, and lines need not
be lost. `ShellLine`: the shell and a forked child run when they can, and a
program whose input is over and whose output has somewhere to go ends; a stage
that stops is in `ShellJobs`. `XvSched` and `ReadCount` state no fairness, and
no liveness: the spinlocks of xv6 are unfair.

## 4. The proofs

Eight modules hold the proofs. `FoldProofs` is what several of them lean on: the
provers have no induction over a predicate, but the library's theorem on
well-founded relations gives every non-empty set of numbers a least element
(`LeastNumber`), and with it induction over a *set* (`Induction`,
`SubsetInduction`). From that follows that the recursive functions behind the
community modules' folds have a solution (`FoldExists`, `FoldLeftExists`), so
that a sum over a set can be unfolded by one element, and that a fold over a
sequence goes from its first value to its result by a chain of single steps
(`ChainOf`); and what is left of a queue from which an element is taken
(`RemoveAtEntries`).

`ShamFileProofs` proves type correctness (`TransferTyped`), with the one
addition that the chunk under way ends within the file, and that `TransferInv`
is invariant (`TransferInvariant`). It is needed because `CopyIsPrefix` alone is
not inductive: it says nothing of the datagrams in flight, and one with the
expected number and the wrong bytes would break it. `TransferInv` adds where the
two programs are in their numbering (`ClientState`, `ServerState`), that the
copy is at most the chunk under way ahead of the client (`Window`), and what a
datagram in flight may look like (`FromClient`, `FromServer`): in particular
that a retransmission behind a foreign header carries a number that is not
expected. From it follow `CopyIsAlwaysPrefix`, `DoneIsDelivered`,
`Md5IsOfWholeFile`, and step by step the refinement `ImplementsChannel`. The
assumptions are `ShamAssumption`, `ShamFileAssumption` and `NoWrapAssumption`.
The last one cannot be dropped: with numbers modulo 8 and a file of 6 bytes a
chunk may be numbered 0, a retransmission behind a received ACK (whose number is
0) then passes for it, and `CopyIsPrefix` fails.

`TeardownPairsUp` (for `CloseAgreement`) uses neither of these: it holds with
numbers that wrap around as well. Its hypothesis `Gentle` is what the property is
about, a network that keeps its order and loses nothing outside of the data
loop, timeouts longer than an answer takes, room for two datagrams, and an
output file that opens. The inductive invariant `Lockstep` lists what the two
programs and the two directions can be in together: the steps of the handshake,
the data loop (where timeouts may repeat chunks but nothing carries a FIN), a
client that is stranded in its data loop behind a foreign header, and the steps
of the teardown, in each of which only one program has something to receive.

`ShellLogProofs` proves all six properties of the run `log` for every set of
lines and every `MaxLog`. `RingTyped` joins type correctness with `RingInv`,
with the fact that slots below `log_count` hold lines, and with the empty ring
between two sessions; each of them needs the others, since a slot of the history
is in use only because the ring starts at 0 unless it is full. On top of it
`Persistent` relates ring and file: neither has a repeated line, a save under
way has written a prefix, and outside of a save the file is the history.
`NoRepeats` needs the part about the file, as what a killed save leaves is what
the next session loads. The key lemma, `AddsLineAppends`, says that writing over
one slot of the ring is to append to the sequence and drop its first element, in
all the cases of the modulus; `ImplementsHistory` follows.

`ShellJobsProofs` proves the six invariants and the action property of the run
`jobs_safety` for any number of children, jobs and stages, under
`ChildrenAssumption` and `ShellJobsAssumption` alone, step by step for all 32
actions. `IInv` has two halves. `Inv` holds whatever a handler interrupts: type
correctness needs that the table has room for what is on its way into it
(`CountInv`), what the pids of a command look like at each statement
(`PidsInv`), that no slot in use is empty (`SlotInv`), and that pids are given
away in order to processes whose groups are set by the shell or by themselves
(`ForkInv`). `Sound` holds until a handler undercuts the main program. It speaks
of the slots that are `Kept`, which are all in use but the hole while the loop
of `remove_job` is under way, for in the middle of this loop a job is listed
twice. `CarriedStep` is the lemma the rest leans on: every step carries the kept
jobs to kept slots, in the same order, drops only one that has been reaped or
that `fg` takes, or is the one that lists a new job. From it come `UniqueInv`,
`OrderInv` and `LiveInv`. None of the promises is inductive alone: that no job
is listed twice (`UniqueInv`) needs that what is being launched is not listed
yet (`LaunchInv`), `StopIsKept` needs that a stop a wait has reported is carried
in `state` until it reaches its slot (`StopInv`), and `NoJobLost` needs that a
command which is in no slot is the last one the main program is dealing with
(`LostInv`). `KeysReachWaitedFor` follows from `FgInv`, which says what
`foreground_pid` is at each statement, and from `GroupInv`. `KeysNeverHitJobs`
needs besides that a command on its own leads its group as soon as it is past
`exec`, running or stopped there (`Behind`, in `GroupInv`), so that the key of
one command never reaches another that is listed. `StatusInv` ties the status
that `check_background_processes` was given to the child it is about: it says
"ended" of exactly those that are gone.

`XvSchedProofs` proves all six properties of `xv6_sched` for any number of CPUs,
processes, queues and ticks, under `XvProcAssumption` and `XvSchedAssumption`
alone. The invariant `IInv` has nine parts, proved step by step for all 24
actions. `Types` and `PcInv` say what a place in the code knows (in a process,
`c->proc` is one; `tickslock` is held in `clockintr` alone). `LockInv` says who
holds `p->lock` across a wait; `RunInv` ties RUNNING to the CPUs, and is what
`EachRunsOnce` is about. It is not inductive by itself: a CFS process at
`EndTime` is still `c->proc` but has another state already, and only `LockInv`
keeps others from running it meanwhile; that `clockintr` and the end of fork
make nobody RUNNABLE who has a CPU needs `SleepInv` (who waits for the clock
sleeps) and `ChildInv` (a slot that fork has been given is USED and given to one
caller). `TimeInv` strengthens `VruntimeEarned` with `start_ticks`: what a
process on a CPU has been charged for ends there. `SliceInv` adds to
`SliceOfQueue` the demotions between their two writes. `DeadlocksOfTheClock`
follows from `LockInv` and `PcInv`. `SchedulerTyped` needs `TimeInv` for the
bounds on the times. `ChoosesByPolicy` rests on `PickInv`: what a CPU that is
choosing knows of the slots it has passed (the least so far for FCFS and CFS,
nobody behind for MLFQ), as far as they are not `touched`; `PickFrame` shows
that the steps of other CPUs leave that alone, and `GivenBy` that nothing but a
scheduler gives a CPU away.

`ShamChatProofs` proves both invariants of the run `chat` besides the types.
`TerminalsAreDrained` rests on `BufferInv`: what `fgets` has handed out is in
the program's buffer, a terminal leaves nothing in stdio, and a pipe never all
of it. `LinesComeInOrder` is for every network that neither repeats nor
reorders (`Fifo`), whatever it loses. `LinesGetThrough` is not inductive, for it
speaks only of what has been shown; `OrderInv` gives each side its `View` of the
other: the lines under way are in order, none above what the other has taken
from its user (`ChatNet`), all that has been shown comes before them
(`ChatShown`), and each line taken is the `/quit`, shown, lost or under way,
until the side leaves (`Kept`). A signal is behind all lines once its sender has
gone, so that a FIN at the head of the queue means that no line is behind it.
The first datagram of a chat may still be the handshake's; `HandshakeInv` says
where it is. Each action is then shown to keep both views: a line goes behind
the others (`ViewHears`), the first is shown (`ViewShows`), one is lost
(`ViewLoses`), a FIN is taken (`ViewFin`), a `/quit` is read (`ViewQuits`).

`ReadCountProofs` proves all three invariants of its run, and the types, for any
number of tests and readers and any width. In `NoByteLost` the sum of what is
still between `fileread` and the addition is unfolded by the one process that
takes a step. The others are `OwnReadsAreCounted` (a test that reports has its
own bytes in the count), `UnlinkAloneBreaks` and `AlarmsAreTrue`. The last one
rests on `DifferenceSurvives`: two casts to `int` and a difference that wraps
give the real difference whenever it fits in an `int`.

`ShellLineProofs` proves the three invariants of the run `line`, and the types,
for any lines, files and directories and any number of commands, stages and
redirections. The parser is a handful of folds over tokens and redirections.
Each of them has a lemma by `ChainOf`: what every step stays within, the result
is in. From this come `StagesTyped` (a command has a stage), `LastRedirIs` (the
output that parsing hands on is the last one in the text) and `FirstPassIs`
(only files that the stage names are created or emptied). The invariant `Inv`
has seven parts, kept by all 18 actions. `FilesAsWritten` is not inductive: it
says what is in the files, and not who is about to write. `RedirsOk` says that
the redirection at hand is one of the command at hand (`Asked`); `FdsOk` and
`ProcsOk` carry this over to the shell's stdout and to every process that was
forked (`SentBy`), across later commands of the same line, during which a
background process still writes. `ProcsOk` also says that a process belongs to
a stage the shell has come to, and no two to one stage; with the finite number
of stages (`StagesFinite`) this bounds the processes. `FdsRestored` needs which
pipe ends the shell owns at each step of a pipeline (`OwnEnds`), and that a
failure is remembered; that a builtin which is given up half-way leaves nothing
behind is `RestoredFds`. What a step may do to one file is `FileStep`, and
`FilesKept` shows once for all actions that such steps keep `FilesOk`.
`RevealFollowsHop` is about the two operators of `ShellDirs` and holds in every
place, reachable or not. The assumptions are those of `ShellDirs`,
`ShellLineAssumption`, and `MaxProcsAssumption`: the bound `MaxProcs`, which the
program does not have, is no less than the stages of any line.

Only model-checked: liveness (`BothEnd`, `ZombiesReaped`, `QuitEndsBoth`,
`LineEnds`), which is out of the provers' reach. Every other property of a
passing run is stated by a theorem, for every value of the constants.

## 5. What is not modelled

Wording and layout of output, log files of the two network programs, memory
management, over-long lines and names (`strcpy` into fixed buffers), and the
`printf` in signal handlers, but for the file it lands in. Stops and
continuations send no SIGCHLD (`SA_NOCLDSTOP`) and are noticed when somebody
waits. A kill of the machine between `fclose` and the disk is out of reach of
the program and left out. The name and the chunks of the transfer are not cut up
by the network, as UDP delivers whole datagrams. An input file that does not
open leaves both programs of a transfer waiting for each other; the safety
properties cover it, `BothEnd` does not.

*The shell:* characters of a line (quotes, blanks, `MAX_NUM_TOKENS`), `log
execute` inside a stage, `dup` and `dup2` that fail, relative names of files
against a working directory that changes, `getcwd` in a directory that has been
removed, and what stdio holds back of a builtin's output when stdout is not a
terminal. The prompt and start-up only format text.

*The chat:* sequence numbers, which it sends and never reads; a network that
loses the handshake or a FIN.

*xv6:* `enter_time`, CFS's `time_slice` and `count_runnable` (nothing reads what
they compute), weights other than 1024 (nothing sets them), the printing of CFS.
Fork, wait, sleep, wakeup and exit are not part of the patch and are modelled
from how it uses them. Disassembly, symbol tables and dependency files in the
patch are generated by the build.

Where the reports say something else than the xv6 code, the models follow the
code: FCFS gives up its CPU at every timer interrupt, for the patch calls
`yield` under every policy but MLFQ (19667-19671, 19682-19686), though
`README.md:65` and `xv6/report.md:91` call it non-preemptive; a process of MLFQ
keeps its CPU at a tick until its slice is used up, whoever is ready in a higher
queue (19518 against `xv6/report.md:268`); and the boost comes every 200 ticks,
not 48, which is a constant of the model.

## 6. Plan

What is left, in order of what matters most:

1. More of what the folds of `ShellParse` compute than a set they stay within:
   that the tokens between two separators come back in order.
2. `log execute` as one more way for a line to reach `ShellLine`, and the
   shell's lines composed with `ShellJobs`.
3. Quotes and the limit of tokens, against a reference definition of the cut.

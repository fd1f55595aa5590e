----------------------------- MODULE ShellParse -----------------------------
(***************************************************************************)
(* How shell/src/parser.c, pipes.c and redirection.c take a line apart.    *)
(* A line is the sequence of its tokens, blanks between them; quotes and   *)
(* the substitution of "log execute" are left out.                         *)
(***************************************************************************)
EXTENDS Integers, Sequences, SequencesExt

CONSTANT ReadOnly    \* names of files that cannot be written

Operator == {"<", ">", ">>"}

(* validate_syntax *)
Valid(line) ==
  /\ line # <<>> => line[1] \notin {"|", "&", ";"}
  /\ \A i \in 1 .. Len(line) - 1 : ~(line[i] = "|" /\ line[i + 1] = ";")

(* The pieces between the separators, the empty ones too.                  *)
Split(tokens, separator) ==
  FoldLeft(LAMBDA pieces, token :
             IF token = separator THEN Append(pieces, <<>>)
             ELSE Front(pieces) \o <<Append(Last(pieces), token)>>,
           << <<>> >>, tokens)

(* One token of parse_redirections: an operator takes the token behind it, *)
(* whatever that is; a word goes to the command.                           *)
Takes(scan, token) ==
  IF scan.op # "" THEN [scan EXCEPT !.op = "", !.redirs = Append(@, <<scan.op, token>>)]
  ELSE IF token \in Operator THEN [scan EXCEPT !.op = token]
  ELSE [scan EXCEPT !.words = Append(@, token)]

(* A stage of a pipeline: its words and its redirections.                  *)
Scan(tokens) ==
  LET scan == FoldLeft(Takes, [op |-> "", redirs |-> <<>>, words |-> <<>>], tokens)
  IN  [words |-> scan.words, redirs |-> scan.redirs]

Stages(tokens) ==
  LET pieces == Split(tokens, "|") IN [i \in 1 .. Len(pieces) |-> Scan(pieces[i])]

(* process_command passes over empty commands.                             *)
Commands(line) ==
  FoldLeft(LAMBDA commands, tokens :
             IF tokens = <<>> THEN commands ELSE Append(commands, Stages(tokens)),
           <<>>, Split(line, ";"))

Nothing == <<"", "">>

(* Every redirection replaces the one before it.                           *)
LastRedir(stage, ops) ==
  FoldLeft(LAMBDA last, redir : IF redir[1] \in ops THEN redir ELSE last,
           Nothing, stage.redirs)

-----------------------------------------------------------------------------
(* The files.  A file holds some of 0, for what was in it before the line  *)
(* was typed, k, for what the k-th command of the line has written, and    *)
(* Notice, for what the SIGCHLD handler has printed; or it is not there.   *)
Notice == -1

Absent == {-2}

(* Mutant of OpenedTo: a file is created anew to be appended to.           *)
OpenedToMutant(content, op) == {}

(* What opening a file to write leaves in it.                              *)
OpenedTo(content, op) == IF op = ">" \/ content = Absent THEN {} ELSE content

Opens(files, redir) ==
  IF redir[1] = "<" THEN files[redir[2]] # Absent ELSE redir[2] \notin ReadOnly

(* The first pass of parse_redirections opens and closes every file, up to *)
(* the first that does not open, error.                                    *)
Tries(acc, redir) ==
  IF acc.error # Nothing THEN acc
  ELSE IF ~Opens(acc.files, redir) THEN [acc EXCEPT !.error = redir]
  ELSE IF redir[1] = "<" THEN acc
  ELSE [acc EXCEPT !.files[redir[2]] = OpenedTo(@, redir[1])]

FirstPass(files, stage) ==
  FoldLeft(Tries, [files |-> files, error |-> Nothing], stage.redirs)

(* What parse_redirections hands on: after an error nothing but the error. *)
Found(files, stage, ops) ==
  LET error == FirstPass(files, stage).error
  IN  IF error = Nothing THEN LastRedir(stage, ops)
      ELSE IF error[1] \in ops THEN <<"error", error[2]>> ELSE Nothing

InputRedir(files, stage) == Found(files, stage, {"<"})

OutputRedir(files, stage) == Found(files, stage, {">", ">>"})

=============================================================================

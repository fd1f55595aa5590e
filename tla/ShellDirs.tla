----------------------------- MODULE ShellDirs ------------------------------
(***************************************************************************)
(* hop and reveal (shell/src/commands.c) on a small tree of directories.   *)
(* A path is the directory it names; parent gives the one above.           *)
(***************************************************************************)
EXTENDS Sequences, SequencesExt

CONSTANTS
  Dir, Root, Home,  \* directories; shell_home, where the shell was started
  Parent,           \* [Dir -> Dir]
  NoDir             \* prev_dir at first

ASSUME ShellDirsAssumption ==
  /\ Root \in Dir /\ Home \in Dir /\ NoDir \notin Dir
  /\ Parent \in [Dir -> Dir] /\ Parent[Root] = Root

(* Mutant of HopTo: what chdir returns is not looked at.                   *)
HopToMutant(dirs, cwd, prev, arg) ==
  {CASE arg = "~" -> Home [] arg = "." -> cwd [] arg = ".." -> Parent[cwd]
     [] arg = "-" -> prev [] OTHER -> arg}

(* Where chdir leads for one argument of hop, in the directory cwd with    *)
(* prev_dir prev: nowhere when there is no such directory.                 *)
HopTo(dirs, cwd, prev, arg) ==
  LET target == CASE arg = "~" -> Home
                  [] arg = "." -> cwd
                  [] arg = ".." -> Parent[cwd]
                  [] arg = "-" -> prev
                  [] OTHER -> arg
  IN  IF target \in dirs THEN {target} ELSE {}

(* One argument: prev_dir becomes the directory that is left; "." does     *)
(* nothing at all.                                                         *)
Hopped(dirs, place, arg) ==
  LET to == HopTo(dirs, place.cwd, place.prev, arg)
  IN  IF arg = "." \/ to = {} THEN place
      ELSE [cwd |-> CHOOSE d \in to : TRUE, prev |-> place.cwd]

(* cmd_hop *)
Hop(dirs, place, args) ==
  FoldLeft(LAMBDA at, arg : Hopped(dirs, at, arg), place,
           IF args = <<>> THEN <<"~">> ELSE args)

(* Mutant of Above: the slash of the root is cut off as well.              *)
AboveMutant(cwd) == Root

(* The path of the directory above, cut off at the last slash unless this  *)
(* is the first character of the path.                                     *)
Above(cwd) == IF Parent[cwd] = Root THEN cwd ELSE Parent[cwd]

(* The directory that cmd_reveal lists.                                    *)
RevealOf(dirs, cwd, prev, arg) ==
  LET target == CASE arg = "~" -> Home
                  [] arg = "." -> cwd
                  [] arg = ".." -> Above(cwd)
                  [] arg = "-" -> prev
                  [] OTHER -> arg
  IN  IF target \in dirs THEN {target} ELSE {}

=============================================================================

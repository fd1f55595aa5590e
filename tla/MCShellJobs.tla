---------------------------- MODULE MCShellJobs -----------------------------
(* A shell session for TLC, of at most MaxPid forks and MaxNumber job      *)
(* numbers.                                                                *)
EXTENDS ShellJobs

=============================================================================

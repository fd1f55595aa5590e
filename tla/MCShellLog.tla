----------------------------- MODULE MCShellLog -----------------------------
(* A buffer of three lines for TLC.                                        *)
EXTENDS ShellLog

=============================================================================

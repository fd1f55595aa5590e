---------------------------- MODULE MCReadCount -----------------------------
(* Two tests and another reader, on a narrow machine.                      *)
EXTENDS ReadCount, TLC

Symmetry == Permutations(Test)

=============================================================================

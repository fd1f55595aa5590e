----------------------------- MODULE MCXvSched ------------------------------
(* A small machine for TLC.                                                *)
EXTENDS XvSched, TLC

MCSlices == 0 :> 1 @@ 1 :> 1 @@ 2 :> 2

=============================================================================

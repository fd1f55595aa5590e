----------------------------- MODULE MCShamFile -----------------------------
(* One transfer of FileSize bytes for TLC, by initial sequence numbers for *)
(* which nothing wraps.                                                    *)
EXTENDS ShamFileNoWrap

=============================================================================

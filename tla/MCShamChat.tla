----------------------------- MODULE MCShamChat -----------------------------
(* A client on a terminal and a server fed through a pipe.                 *)
EXTENDS ShamChat, TLC

MCSource == "client" :> "tty" @@ "server" :> "pipe"

=============================================================================

---------------------------- MODULE MCShellLine -----------------------------
(* Every line of up to three of seven tokens, and longer ones that bring   *)
(* together what these cannot.                                             *)
EXTENDS ShellLine

Short == {"cat", "reveal", "|", ";", "&", ">", "f"}

MCLine ==
  (UNION {[1 .. n -> Short] : n \in 1 .. 3})
  \cup {<<"cat", "|", "cat", "|", "cat", ">>", "f">>,
        <<"cat", "|", "cat", "&", ";", "cat", "|", "cat">>,
        <<"cat", "&", ";", "reveal", ">>", "f">>,
        <<"cat", "<", "g", "|", "cat", ">", "g">>,
        <<"cat", "|", "reveal", "<", "g", ">", "f">>,
        <<"cat", ">", "f", ">>", "g">>,
        <<"cat", ">", "r", ">", "f", ";", "cat", ">>", "r">>,
        <<"reveal", "<", "g", ">", "f">>,
        <<"reveal", ">", "f", ">", "r">>,
        <<"reveal", "<", "f", ";", "exit">>,
        <<"cat", "|", "exit">>,
        <<";", "cat", ";", "&">>,
        <<"hop", "d", "e", ";", "hop", "-", "..">>,
        <<"hop", ";", "hop", "-", "..", "..">>,
        <<"hop", "e", ".", "~", "-", ";", "hop", "..">>}

MCToken == Short \cup {"<", ">>", "g", "r", "hop", "exit", "d", "e", "~", ".", "..", "-"}

MCParent == [x \in {"/", "h", "d", "e"} |->
               CASE x = "d" -> "h" [] x = "e" -> "d" [] OTHER -> "/"]

=============================================================================

-------------------------- MODULE ShellLineProofs ---------------------------
(***************************************************************************)
(* What the shell does with a line, for any lines, files and directories:  *)
(* its descriptors come back, and files hold what the text of the line     *)
(* sends to them, through failed forks, pipes and opens, and whatever the  *)
(* processes do meanwhile.                                                 *)
(***************************************************************************)
EXTENDS ShellLine, FoldProofs

-----------------------------------------------------------------------------
(* The folds.  What one element does to a value, under a name; and what    *)
(* keeps to a set of values in every step is in it at the end.             *)
Cuts(separator, pieces, token) ==
  IF token = separator THEN Append(pieces, <<>>)
  ELSE Front(pieces) \o <<Append(Last(pieces), token)>>

AddsCommand(commands, tokens) ==
  IF tokens = <<>> THEN commands ELSE Append(commands, Stages(tokens))

AllCommands(pieces) ==
  FoldLeft(LAMBDA commands, tokens :
             IF tokens = <<>> THEN commands ELSE Append(commands, Stages(tokens)),
           <<>>, pieces)

ScanNothing == [op |-> "", redirs |-> <<>>, words |-> <<>>]

AllTaken(tokens) == FoldLeft(Takes, ScanNothing, tokens)

Keeps(ops, last, redir) == IF redir[1] \in ops THEN redir ELSE last

LastKept(redirs, ops) ==
  FoldLeft(LAMBDA last, redir : IF redir[1] \in ops THEN redir ELSE last, Nothing, redirs)

AllTried(first, redirs) == FoldLeft(Tries, first, redirs)

AllHopped(there, from, args) ==
  FoldLeft(LAMBDA at, arg : Hopped(there, at, arg), from, args)

(* A fold of Split stays within a set that every step stays within.        *)
LEMMA SplitFolds ==
  ASSUME NEW D, NEW V, NEW tokens \in Seq(D), NEW separator,
         << <<>> >> \in V, \A v \in V, d \in D : Cuts(separator, v, d) \in V
  PROVE  Split(tokens, separator) \in V
<1> DEFINE base == << <<>> >>
           n == Len(tokens)
           st == [x \in V \X D |-> Cuts(separator, x[1], x[2])]
           body(G) == [s \in SUBSET (DOMAIN tokens) |->
                         IF s = {} THEN base
                         ELSE Cuts(separator, G[s \ {Max(s)}], tokens[Max(s)])]
           C == CHOOSE G : G = body(G)
<1>1. base \in V
  OBVIOUS
<1>2. /\ st \in [V \X D -> V]
      /\ \A v \in V, d \in D : st[<<v, d>>] = Cuts(separator, v, d)
  OBVIOUS
<1>3. Split(tokens, separator) = C[DOMAIN tokens]
  BY DEF Split, Cuts, FoldLeft, MapThenFoldSet
<1>4. n \in Nat /\ DOMAIN tokens = 1 .. n /\ tokens \in [1 .. n -> D]
  OBVIOUS
<1> HIDE DEF base, n, st
<1>5. PICK F : SolvesLeft(F, D, V, n, tokens, base, st)
  BY <1>1, <1>2, <1>4, FoldLeftExists
<1>6. ASSUME NEW s \in SUBSET (1 .. n), s # {}
      PROVE  tokens[Max(s)] \in D /\ F[s] = Cuts(separator, F[s \ {Max(s)}], tokens[Max(s)])
  BY <1>2, <1>5, <1>6 DEF SolvesLeft
<1>7. F = body(F)
  BY <1>4, <1>5, <1>6 DEF SolvesLeft
<1>8. C = body(C)
  <2> HIDE DEF body
  <2> QED
    BY <1>7
<1> HIDE DEF C
<1>9. FollowsLeft(C, V, n, tokens, base, st)
  <2>1. C[{}] = base
    BY <1>8
  <2>2. ASSUME NEW s \in SUBSET (1 .. n), s # {}, C[s \ {Max(s)}] \in V
        PROVE  C[s] = st[<<C[s \ {Max(s)}], tokens[Max(s)]>>]
    <3> DEFINE v == C[s \ {Max(s)}]
               d == tokens[Max(s)]
    <3>1. C[s] = Cuts(separator, v, d)
      BY <1>4, <1>8, <2>2
    <3>2. v \in V /\ d \in D
      BY <1>6, <2>2
    <3> HIDE DEF v, d
    <3>3. st[<<v, d>>] = Cuts(separator, v, d)
      BY <1>2, <3>2
    <3> QED
      BY <3>1, <3>3 DEF v, d
  <2> HIDE DEF body
  <2> QED
    BY <2>1, <2>2 DEF FollowsLeft
<1>10. PICK g : IsChain(g, V, n, tokens, base, st, C[1 .. n])
  <2> HIDE DEF body
  <2> QED
    BY <1>1, <1>2, <1>4, <1>9, ChainOf
<1> QED
  BY <1>3, <1>4, <1>10 DEF IsChain

(* The same of the fold of Commands.                                       *)
LEMMA CommandsFold ==
  ASSUME NEW D, NEW V, NEW pieces \in Seq(D),
         <<>> \in V, \A v \in V, d \in D : AddsCommand(v, d) \in V
  PROVE  AllCommands(pieces) \in V
<1> DEFINE base == <<>>
           n == Len(pieces)
           st == [x \in V \X D |-> AddsCommand(x[1], x[2])]
           body(G) == [s \in SUBSET (DOMAIN pieces) |->
                         IF s = {} THEN base
                         ELSE AddsCommand(G[s \ {Max(s)}], pieces[Max(s)])]
           C == CHOOSE G : G = body(G)
<1>1. base \in V
  OBVIOUS
<1>2. /\ st \in [V \X D -> V]
      /\ \A v \in V, d \in D : st[<<v, d>>] = AddsCommand(v, d)
  OBVIOUS
<1>3. AllCommands(pieces) = C[DOMAIN pieces]
  BY DEF AllCommands, AddsCommand, FoldLeft, MapThenFoldSet
<1>4. n \in Nat /\ DOMAIN pieces = 1 .. n /\ pieces \in [1 .. n -> D]
  OBVIOUS
<1> HIDE DEF base, n, st
<1>5. PICK F : SolvesLeft(F, D, V, n, pieces, base, st)
  BY <1>1, <1>2, <1>4, FoldLeftExists
<1>6. ASSUME NEW s \in SUBSET (1 .. n), s # {}
      PROVE  pieces[Max(s)] \in D /\ F[s] = AddsCommand(F[s \ {Max(s)}], pieces[Max(s)])
  BY <1>2, <1>5, <1>6 DEF SolvesLeft
<1>7. F = body(F)
  BY <1>4, <1>5, <1>6 DEF SolvesLeft
<1>8. C = body(C)
  <2> HIDE DEF body
  <2> QED
    BY <1>7
<1> HIDE DEF C
<1>9. FollowsLeft(C, V, n, pieces, base, st)
  <2>1. C[{}] = base
    BY <1>8
  <2>2. ASSUME NEW s \in SUBSET (1 .. n), s # {}, C[s \ {Max(s)}] \in V
        PROVE  C[s] = st[<<C[s \ {Max(s)}], pieces[Max(s)]>>]
    <3> DEFINE v == C[s \ {Max(s)}]
               d == pieces[Max(s)]
    <3>1. C[s] = AddsCommand(v, d)
      BY <1>4, <1>8, <2>2
    <3>2. v \in V /\ d \in D
      BY <1>6, <2>2
    <3> HIDE DEF v, d
    <3>3. st[<<v, d>>] = AddsCommand(v, d)
      BY <1>2, <3>2
    <3> QED
      BY <3>1, <3>3 DEF v, d
  <2> HIDE DEF body
  <2> QED
    BY <2>1, <2>2 DEF FollowsLeft
<1>10. PICK g : IsChain(g, V, n, pieces, base, st, C[1 .. n])
  <2> HIDE DEF body
  <2> QED
    BY <1>1, <1>2, <1>4, <1>9, ChainOf
<1> QED
  BY <1>3, <1>4, <1>10 DEF IsChain

(* The same of the fold of Scan over the tokens of a stage.                *)
LEMMA TakesFold ==
  ASSUME NEW D, NEW V, NEW tokens \in Seq(D),
         ScanNothing \in V, \A v \in V, d \in D : Takes(v, d) \in V
  PROVE  AllTaken(tokens) \in V
<1> DEFINE base == ScanNothing
           n == Len(tokens)
           st == [x \in V \X D |-> Takes(x[1], x[2])]
           body(G) == [s \in SUBSET (DOMAIN tokens) |->
                         IF s = {} THEN base
                         ELSE Takes(G[s \ {Max(s)}], tokens[Max(s)])]
           C == CHOOSE G : G = body(G)
<1>1. base \in V
  OBVIOUS
<1>2. /\ st \in [V \X D -> V]
      /\ \A v \in V, d \in D : st[<<v, d>>] = Takes(v, d)
  OBVIOUS
<1>3. AllTaken(tokens) = C[DOMAIN tokens]
  BY DEF AllTaken, FoldLeft, MapThenFoldSet
<1>4. n \in Nat /\ DOMAIN tokens = 1 .. n /\ tokens \in [1 .. n -> D]
  OBVIOUS
<1> HIDE DEF base, n, st
<1>5. PICK F : SolvesLeft(F, D, V, n, tokens, base, st)
  BY <1>1, <1>2, <1>4, FoldLeftExists
<1>6. ASSUME NEW s \in SUBSET (1 .. n), s # {}
      PROVE  tokens[Max(s)] \in D /\ F[s] = Takes(F[s \ {Max(s)}], tokens[Max(s)])
  BY <1>2, <1>5, <1>6 DEF SolvesLeft
<1>7. F = body(F)
  BY <1>4, <1>5, <1>6 DEF SolvesLeft
<1>8. C = body(C)
  <2> HIDE DEF body
  <2> QED
    BY <1>7
<1> HIDE DEF C
<1>9. FollowsLeft(C, V, n, tokens, base, st)
  <2>1. C[{}] = base
    BY <1>8
  <2>2. ASSUME NEW s \in SUBSET (1 .. n), s # {}, C[s \ {Max(s)}] \in V
        PROVE  C[s] = st[<<C[s \ {Max(s)}], tokens[Max(s)]>>]
    <3> DEFINE v == C[s \ {Max(s)}]
               d == tokens[Max(s)]
    <3>1. C[s] = Takes(v, d)
      BY <1>4, <1>8, <2>2
    <3>2. v \in V /\ d \in D
      BY <1>6, <2>2
    <3> HIDE DEF v, d
    <3>3. st[<<v, d>>] = Takes(v, d)
      BY <1>2, <3>2
    <3> QED
      BY <3>1, <3>3 DEF v, d
  <2> HIDE DEF body
  <2> QED
    BY <2>1, <2>2 DEF FollowsLeft
<1>10. PICK g : IsChain(g, V, n, tokens, base, st, C[1 .. n])
  <2> HIDE DEF body
  <2> QED
    BY <1>1, <1>2, <1>4, <1>9, ChainOf
<1> QED
  BY <1>3, <1>4, <1>10 DEF IsChain

(* LastRedir goes through a chain of values, from Nothing to what it       *)
(* returns.                                                                *)
LEMMA LastRedirFolds ==
  ASSUME NEW D, NEW V, NEW redirs \in Seq(D), NEW ops,
         Nothing \in V, \A v \in V, d \in D : Keeps(ops, v, d) \in V
  PROVE  \E g : IsChain(g, V, Len(redirs), redirs, Nothing,
                       [x \in V \X D |-> Keeps(ops, x[1], x[2])], LastKept(redirs, ops))
<1> DEFINE base == Nothing
           n == Len(redirs)
           st == [x \in V \X D |-> Keeps(ops, x[1], x[2])]
           body(G) == [s \in SUBSET (DOMAIN redirs) |->
                         IF s = {} THEN base
                         ELSE Keeps(ops, G[s \ {Max(s)}], redirs[Max(s)])]
           C == CHOOSE G : G = body(G)
<1>1. base \in V
  OBVIOUS
<1>2. /\ st \in [V \X D -> V]
      /\ \A v \in V, d \in D : st[<<v, d>>] = Keeps(ops, v, d)
  OBVIOUS
<1>3. LastKept(redirs, ops) = C[DOMAIN redirs]
  BY DEF LastKept, Keeps, FoldLeft, MapThenFoldSet
<1>4. n \in Nat /\ DOMAIN redirs = 1 .. n /\ redirs \in [1 .. n -> D]
  OBVIOUS
<1> HIDE DEF base, n, st
<1>5. PICK F : SolvesLeft(F, D, V, n, redirs, base, st)
  BY <1>1, <1>2, <1>4, FoldLeftExists
<1>6. ASSUME NEW s \in SUBSET (1 .. n), s # {}
      PROVE  redirs[Max(s)] \in D /\ F[s] = Keeps(ops, F[s \ {Max(s)}], redirs[Max(s)])
  BY <1>2, <1>5, <1>6 DEF SolvesLeft
<1>7. F = body(F)
  BY <1>4, <1>5, <1>6 DEF SolvesLeft
<1>8. C = body(C)
  <2> HIDE DEF body
  <2> QED
    BY <1>7
<1> HIDE DEF C
<1>9. FollowsLeft(C, V, n, redirs, base, st)
  <2>1. C[{}] = base
    BY <1>8
  <2>2. ASSUME NEW s \in SUBSET (1 .. n), s # {}, C[s \ {Max(s)}] \in V
        PROVE  C[s] = st[<<C[s \ {Max(s)}], redirs[Max(s)]>>]
    <3> DEFINE v == C[s \ {Max(s)}]
               d == redirs[Max(s)]
    <3>1. C[s] = Keeps(ops, v, d)
      BY <1>4, <1>8, <2>2
    <3>2. v \in V /\ d \in D
      BY <1>6, <2>2
    <3> HIDE DEF v, d
    <3>3. st[<<v, d>>] = Keeps(ops, v, d)
      BY <1>2, <3>2
    <3> QED
      BY <3>1, <3>3 DEF v, d
  <2> HIDE DEF body
  <2> QED
    BY <2>1, <2>2 DEF FollowsLeft
<1>10. PICK g : IsChain(g, V, n, redirs, base, st, C[1 .. n])
  <2> HIDE DEF body
  <2> QED
    BY <1>1, <1>2, <1>4, <1>9, ChainOf
<1> QED
  BY <1>3, <1>4, <1>10 DEF base, n, st

(* The fold of FirstPass over the redirections of a stage.                 *)
LEMMA TriesFold ==
  ASSUME NEW D, NEW V, NEW redirs \in Seq(D), NEW first,
         first \in V, \A v \in V, d \in D : Tries(v, d) \in V
  PROVE  AllTried(first, redirs) \in V
<1> DEFINE base == first
           n == Len(redirs)
           st == [x \in V \X D |-> Tries(x[1], x[2])]
           body(G) == [s \in SUBSET (DOMAIN redirs) |->
                         IF s = {} THEN base
                         ELSE Tries(G[s \ {Max(s)}], redirs[Max(s)])]
           C == CHOOSE G : G = body(G)
<1>1. base \in V
  OBVIOUS
<1>2. /\ st \in [V \X D -> V]
      /\ \A v \in V, d \in D : st[<<v, d>>] = Tries(v, d)
  OBVIOUS
<1>3. AllTried(first, redirs) = C[DOMAIN redirs]
  BY DEF AllTried, FoldLeft, MapThenFoldSet
<1>4. n \in Nat /\ DOMAIN redirs = 1 .. n /\ redirs \in [1 .. n -> D]
  OBVIOUS
<1> HIDE DEF base, n, st
<1>5. PICK F : SolvesLeft(F, D, V, n, redirs, base, st)
  BY <1>1, <1>2, <1>4, FoldLeftExists
<1>6. ASSUME NEW s \in SUBSET (1 .. n), s # {}
      PROVE  redirs[Max(s)] \in D /\ F[s] = Tries(F[s \ {Max(s)}], redirs[Max(s)])
  BY <1>2, <1>5, <1>6 DEF SolvesLeft
<1>7. F = body(F)
  BY <1>4, <1>5, <1>6 DEF SolvesLeft
<1>8. C = body(C)
  <2> HIDE DEF body
  <2> QED
    BY <1>7
<1> HIDE DEF C
<1>9. FollowsLeft(C, V, n, redirs, base, st)
  <2>1. C[{}] = base
    BY <1>8
  <2>2. ASSUME NEW s \in SUBSET (1 .. n), s # {}, C[s \ {Max(s)}] \in V
        PROVE  C[s] = st[<<C[s \ {Max(s)}], redirs[Max(s)]>>]
    <3> DEFINE v == C[s \ {Max(s)}]
               d == redirs[Max(s)]
    <3>1. C[s] = Tries(v, d)
      BY <1>4, <1>8, <2>2
    <3>2. v \in V /\ d \in D
      BY <1>6, <2>2
    <3> HIDE DEF v, d
    <3>3. st[<<v, d>>] = Tries(v, d)
      BY <1>2, <3>2
    <3> QED
      BY <3>1, <3>3 DEF v, d
  <2> HIDE DEF body
  <2> QED
    BY <2>1, <2>2 DEF FollowsLeft
<1>10. PICK g : IsChain(g, V, n, redirs, base, st, C[1 .. n])
  <2> HIDE DEF body
  <2> QED
    BY <1>1, <1>2, <1>4, <1>9, ChainOf
<1> QED
  BY <1>3, <1>4, <1>10 DEF IsChain

(* The fold of Hop over its arguments.                                     *)
LEMMA HopFolds ==
  ASSUME NEW D, NEW V, NEW args \in Seq(D), NEW there, NEW from,
         from \in V, \A v \in V, d \in D : Hopped(there, v, d) \in V
  PROVE  AllHopped(there, from, args) \in V
<1> DEFINE base == from
           n == Len(args)
           st == [x \in V \X D |-> Hopped(there, x[1], x[2])]
           body(G) == [s \in SUBSET (DOMAIN args) |->
                         IF s = {} THEN base
                         ELSE Hopped(there, G[s \ {Max(s)}], args[Max(s)])]
           C == CHOOSE G : G = body(G)
<1>1. base \in V
  OBVIOUS
<1>2. /\ st \in [V \X D -> V]
      /\ \A v \in V, d \in D : st[<<v, d>>] = Hopped(there, v, d)
  OBVIOUS
<1>3. AllHopped(there, from, args) = C[DOMAIN args]
  BY DEF AllHopped, FoldLeft, MapThenFoldSet
<1>4. n \in Nat /\ DOMAIN args = 1 .. n /\ args \in [1 .. n -> D]
  OBVIOUS
<1> HIDE DEF base, n, st
<1>5. PICK F : SolvesLeft(F, D, V, n, args, base, st)
  BY <1>1, <1>2, <1>4, FoldLeftExists
<1>6. ASSUME NEW s \in SUBSET (1 .. n), s # {}
      PROVE  args[Max(s)] \in D /\ F[s] = Hopped(there, F[s \ {Max(s)}], args[Max(s)])
  BY <1>2, <1>5, <1>6 DEF SolvesLeft
<1>7. F = body(F)
  BY <1>4, <1>5, <1>6 DEF SolvesLeft
<1>8. C = body(C)
  <2> HIDE DEF body
  <2> QED
    BY <1>7
<1> HIDE DEF C
<1>9. FollowsLeft(C, V, n, args, base, st)
  <2>1. C[{}] = base
    BY <1>8
  <2>2. ASSUME NEW s \in SUBSET (1 .. n), s # {}, C[s \ {Max(s)}] \in V
        PROVE  C[s] = st[<<C[s \ {Max(s)}], args[Max(s)]>>]
    <3> DEFINE v == C[s \ {Max(s)}]
               d == args[Max(s)]
    <3>1. C[s] = Hopped(there, v, d)
      BY <1>4, <1>8, <2>2
    <3>2. v \in V /\ d \in D
      BY <1>6, <2>2
    <3> HIDE DEF v, d
    <3>3. st[<<v, d>>] = Hopped(there, v, d)
      BY <1>2, <3>2
    <3> QED
      BY <3>1, <3>3 DEF v, d
  <2> HIDE DEF body
  <2> QED
    BY <2>1, <2>2 DEF FollowsLeft
<1>10. PICK g : IsChain(g, V, n, args, base, st, C[1 .. n])
  <2> HIDE DEF body
  <2> QED
    BY <1>1, <1>2, <1>4, <1>9, ChainOf
<1> QED
  BY <1>3, <1>4, <1>10 DEF IsChain

-----------------------------------------------------------------------------
(* What the parser makes of a line.                                        *)
Redir == Operator \X Token

Stage == [words : Seq(Token), redirs : Seq(Redir)]

NonEmpty(S) == Seq(S) \ {<<>>}

LEMMA AppendTyped ==
  ASSUME NEW S, NEW q \in Seq(S), NEW e \in S
  PROVE  Append(q, e) \in Seq(S)
OBVIOUS

(* There is always a piece that is being filled.                           *)
LEMMA SplitTyped ==
  ASSUME NEW tokens \in Seq(Token), NEW separator
  PROVE  Split(tokens, separator) \in NonEmpty(Seq(Token))
<1> DEFINE V == NonEmpty(Seq(Token))
<1>1. << <<>> >> \in V
  BY DEF NonEmpty
<1>2. ASSUME NEW pieces \in V, NEW token \in Token PROVE Cuts(separator, pieces, token) \in V
  <2>1. Last(pieces) \in Seq(Token) /\ Front(pieces) \in Seq(Seq(Token))
    BY DEF Last, Front, NonEmpty
  <2>2. Append(pieces, <<>>) \in V
    BY DEF NonEmpty
  <2> DEFINE piece == Append(Last(pieces), token)
  <2>3. piece \in Seq(Token)
    BY <2>1
  <2> HIDE DEF piece
  <2>4. Front(pieces) \o <<piece>> \in V
    BY <2>1, <2>3 DEF NonEmpty
  <2> QED
    BY <2>2, <2>4 DEF Cuts, piece
<1> HIDE DEF V
<1>3. Split(tokens, separator) \in V
  BY <1>1, <1>2, SplitFolds
<1> QED
  BY <1>3 DEF V

(* parse_redirections: what a stage is made of (redirection.c:97-161).     *)
LEMMA ScanTyped ==
  ASSUME NEW tokens \in Seq(Token)
  PROVE  Scan(tokens) \in Stage
<1> DEFINE V == [op : Operator \cup {""}, redirs : Seq(Redir), words : Seq(Token)]
<1>1. ScanNothing \in V
  BY DEF ScanNothing
<1>2. ASSUME NEW scan \in V, NEW token \in Token PROVE Takes(scan, token) \in V
  <2>1. CASE scan.op # ""
    <3> DEFINE redir == <<scan.op, token>>
    <3>1. redir \in Redir
      <4>1. scan.op \in Operator
        BY <2>1
      <4> QED
        BY <4>1 DEF Redir
    <3>2. Takes(scan, token) = [scan EXCEPT !.op = "", !.redirs = Append(@, redir)]
      BY <2>1 DEF Takes
    <3> HIDE DEF redir
    <3>3. scan.redirs \in Seq(Redir)
      OBVIOUS
    <3>4. Append(scan.redirs, redir) \in Seq(Redir)
      BY <3>1, <3>3, AppendTyped
    <3> QED
      BY <3>2, <3>4
  <2>2. CASE scan.op = "" /\ token \in Operator
    <3>1. Takes(scan, token) = [scan EXCEPT !.op = token]
      BY <2>2 DEF Takes
    <3> QED
      BY <2>2, <3>1
  <2>3. CASE scan.op = "" /\ token \notin Operator
    <3>1. Takes(scan, token) = [scan EXCEPT !.words = Append(@, token)]
      BY <2>3 DEF Takes
    <3>2. scan.words \in Seq(Token)
      OBVIOUS
    <3>3. Append(scan.words, token) \in Seq(Token)
      BY <3>2, AppendTyped
    <3> QED
      BY <3>1, <3>3
  <2> QED
    BY <2>1, <2>2, <2>3
<1> HIDE DEF V
<1>3. AllTaken(tokens) \in V
  BY <1>1, <1>2, TakesFold
<1>4. Scan(tokens) = [words |-> AllTaken(tokens).words, redirs |-> AllTaken(tokens).redirs]
  BY DEF Scan, AllTaken, ScanNothing
<1> DEFINE scan == AllTaken(tokens)
<1>5. scan.words \in Seq(Token) /\ scan.redirs \in Seq(Redir)
  BY <1>3 DEF V
<1>6. Scan(tokens) = [words |-> scan.words, redirs |-> scan.redirs]
  BY <1>4
<1> HIDE DEF scan
<1> QED
  BY <1>5, <1>6 DEF Stage

(* A command has at least one stage (pipes.c:19-46).                       *)
LEMMA StagesTyped ==
  ASSUME NEW tokens \in Seq(Token)
  PROVE  Stages(tokens) \in NonEmpty(Stage)
<1> DEFINE pieces == Split(tokens, "|")
<1>1. pieces \in Seq(Seq(Token)) /\ Len(pieces) \in Nat \ {0}
  <2>1. pieces \in NonEmpty(Seq(Token))
    BY SplitTyped
  <2> HIDE DEF pieces
  <2> QED
    BY <2>1 DEF NonEmpty
<1>2. Stages(tokens) = [i \in 1 .. Len(pieces) |-> Scan(pieces[i])]
  BY DEF Stages
<1> HIDE DEF pieces
<1>3. \A i \in 1 .. Len(pieces) : Scan(pieces[i]) \in Stage
  BY <1>1, ScanTyped
<1>4. Stages(tokens) \in Seq(Stage) /\ Len(Stages(tokens)) = Len(pieces)
  BY <1>1, <1>2, <1>3
<1> QED
  BY <1>1, <1>4 DEF NonEmpty

(* process_command: the commands of a line (parser.c:160-207).             *)
LEMMA CommandsTyped ==
  ASSUME NEW line \in Seq(Token)
  PROVE  Commands(line) \in Seq(NonEmpty(Stage))
<1> DEFINE V == Seq(NonEmpty(Stage))
<1>1. <<>> \in V
  OBVIOUS
<1>2. ASSUME NEW commands \in V, NEW tokens \in Seq(Token)
      PROVE  AddsCommand(commands, tokens) \in V
  <2>1. Stages(tokens) \in NonEmpty(Stage)
    BY StagesTyped
  <2>2. Append(commands, Stages(tokens)) \in V
    BY <2>1
  <2> QED
    BY <2>2 DEF AddsCommand
<1> HIDE DEF V
<1>3. Split(line, ";") \in Seq(Seq(Token))
  BY SplitTyped DEF NonEmpty
<1>4. AllCommands(Split(line, ";")) \in V
  BY <1>1, <1>2, <1>3, CommandsFold
<1>5. Commands(line) = AllCommands(Split(line, ";"))
  BY DEF Commands, AllCommands
<1> QED
  BY <1>4, <1>5 DEF V

(* shell_loop: what it takes a line for (main.c:55-76).                    *)
LEMMA TakenTyped ==
  ASSUME NEW line \in Line
  PROVE  Taken(line) \in Seq(NonEmpty(Stage))
<1>1. line \in Seq(Token) /\ (Len(line) > 1 => Tail(line) \in Seq(Token))
  BY ShellLineAssumption
<1>2. <<>> \in Seq(NonEmpty(Stage))
  OBVIOUS
<1> QED
  BY <1>1, <1>2, CommandsTyped DEF Taken

(* The last redirection with one of the operators is kept.                 *)
IsLastOf(redir, redirs, ops) ==
  \E i \in DOMAIN redirs :
    /\ redirs[i] = redir /\ redir[1] \in ops
    /\ \A j \in i + 1 .. Len(redirs) : redirs[j][1] \notin ops

(* The last redirection of its kind is in the stage and has none behind    *)
(* it.                                                                     *)
LEMMA LastRedirIs ==
  ASSUME NEW part \in Stage, NEW ops
  PROVE  \/ LastRedir(part, ops) = Nothing
         \/ IsLastOf(LastRedir(part, ops), part.redirs, ops)
<1> DEFINE V == Redir \cup {Nothing}
           redirs == part.redirs
           n == Len(redirs)
           st == [x \in V \X Redir |-> Keeps(ops, x[1], x[2])]
<1>1. redirs \in Seq(Redir) /\ n \in Nat /\ DOMAIN redirs = 1 .. n
      /\ \A i \in 1 .. n : redirs[i] \in Redir
  BY DEF Stage
<1>2. LastRedir(part, ops) = LastKept(redirs, ops)
  BY DEF LastRedir, LastKept
<1> HIDE DEF redirs
<1>3. Nothing \in V /\ \A v \in V, d \in Redir : Keeps(ops, v, d) \in V
  BY DEF Keeps
<1>4. PICK g : IsChain(g, V, n, redirs, Nothing, st, LastKept(redirs, ops))
  <2> HIDE DEF V
  <2> QED
    BY <1>1, <1>3, LastRedirFolds
<1> HIDE DEF n, V
<1>5. ASSUME NEW i \in 1 .. n PROVE g[i] = Keeps(ops, g[i - 1], redirs[i])
  <2>1. g[i - 1] \in V /\ redirs[i] \in Redir
    <3>1. i - 1 \in 0 .. n
      BY <1>1
    <3> QED
      BY <1>1, <1>4, <3>1 DEF IsChain
  <2>2. g[i] = st[<<g[i - 1], redirs[i]>>]
    BY <1>4 DEF IsChain
  <2>3. \A v \in V, d \in Redir : st[<<v, d>>] = Keeps(ops, v, d)
    OBVIOUS
  <2> HIDE DEF st
  <2> QED
    BY <2>1, <2>2, <2>3
<1> HIDE DEF st
<1> DEFINE Kept(i, m) == /\ redirs[i] = g[m] /\ redirs[i][1] \in ops
                         /\ \A j \in i + 1 .. m : redirs[j][1] \notin ops
           T == {m \in 0 .. n : g[m] = Nothing \/ \E i \in 1 .. m : Kept(i, m)}
<1>6. 0 \in T
  BY <1>1, <1>4 DEF IsChain
<1>7. ASSUME NEW m \in 0 .. n - 1, m \in T PROVE m + 1 \in T
  <2> DEFINE k == m + 1
  <2>1. k \in 1 .. n /\ k \in 0 .. n /\ m \in Nat /\ k - 1 = m /\ m \in 0 .. n
    BY <1>1
  <2> HIDE DEF k
  <2>2. g[k] = Keeps(ops, g[m], redirs[k])
    BY <1>5, <2>1
  <2>3. CASE redirs[k][1] \in ops
    <3>1. Kept(k, k)
      BY <2>1, <2>2, <2>3 DEF Keeps
    <3> QED
      BY <2>1, <3>1 DEF k
  <2>4. CASE redirs[k][1] \notin ops
    <3>1. g[k] = g[m]
      BY <2>2, <2>4 DEF Keeps
    <3>2. ASSUME NEW i \in 1 .. m, Kept(i, m) PROVE i \in 1 .. k /\ Kept(i, k)
      <4>1. \A j \in i + 1 .. k : j \in i + 1 .. m \/ j = k
        BY <2>1
      <4> QED
        BY <2>1, <2>4, <3>1, <3>2, <4>1
    <3>3. g[m] = Nothing \/ \E i \in 1 .. m : Kept(i, m)
      BY <1>7
    <3> HIDE DEF Kept
    <3>4. g[k] = Nothing \/ \E i \in 1 .. k : Kept(i, k)
      BY <3>1, <3>2, <3>3
    <3> QED
      BY <2>1, <3>4 DEF k
  <2> QED
    BY <2>3, <2>4
<1>8. \A m \in 0 .. n : m \in T
  <2> HIDE DEF T
  <2> QED
    BY <1>1, <1>6, <1>7, InductionTo
<1>9. g[n] = Nothing \/ \E i \in 1 .. n : Kept(i, n)
  BY <1>1, <1>8
<1>10. g[n] = LastRedir(part, ops)
  BY <1>2, <1>4 DEF IsChain
<1> QED
  BY <1>1, <1>9, <1>10 DEF IsLastOf, redirs, n

(* What the first pass may do to a file, which held old: make it empty, if *)
(* one of the redirections that write names it, and if it was there only   *)
(* if one of those is ">".                                                 *)
Reopened(redirs, f, old, new) ==
  \/ new = old
  \/ /\ new = {}
     /\ \E r \in redirs : r[2] = f /\ r[1] \in {">", ">>"}
     /\ old = Absent \/ \E r \in redirs : r[2] = f /\ r[1] = ">"

(* The first pass over the redirections creates or empties only files that *)
(* the stage names (redirection.c:46-95).                                  *)
LEMMA FirstPassIs ==
  ASSUME NEW was \in [Token -> SUBSET Int], NEW part \in Stage
  PROVE  /\ FirstPass(was, part).error \in Redir \cup {Nothing}
         /\ FirstPass(was, part).files \in [Token -> SUBSET Int]
         /\ \A f \in Token :
              Reopened(Range(part.redirs), f, was[f], FirstPass(was, part).files[f])
<1> DEFINE D == Range(part.redirs)
           V == {a \in [files : [Token -> SUBSET Int], error : Redir \cup {Nothing}] :
                   \A f \in Token : Reopened(D, f, was[f], a.files[f])}
           first == [files |-> was, error |-> Nothing]
<1>1. part.redirs \in Seq(D) /\ D \in SUBSET Redir
  BY DEF Stage, Range
<1>2. first \in V
  BY DEF Reopened
<1>3. ASSUME NEW a \in V, NEW redir \in D PROVE Tries(a, redir) \in V
  <2>1. CASE a.error # Nothing
    BY <2>1 DEF Tries
  <2>2. CASE a.error = Nothing /\ ~Opens(a.files, redir)
    <3>1. Tries(a, redir) = [a EXCEPT !.error = redir]
      BY <2>2 DEF Tries
    <3> QED
      BY <1>1, <3>1
  <2>3. CASE a.error = Nothing /\ Opens(a.files, redir) /\ redir[1] = "<"
    BY <2>3 DEF Tries
  <2>4. CASE a.error = Nothing /\ Opens(a.files, redir) /\ redir[1] # "<"
    <3> DEFINE g == redir[2]
               new == OpenedTo(a.files[g], redir[1])
               files2 == [a.files EXCEPT ![g] = new]
    <3>1. Tries(a, redir) = [a EXCEPT !.files = files2]
      BY <2>4 DEF Tries
    <3>2. g \in Token /\ redir[1] \in {">", ">>"}
      BY <1>1, <2>4 DEF Redir, Operator
    <3>3. Reopened(D, g, was[g], a.files[g]) /\ a.files[g] \in SUBSET Int
      BY <3>2
    <3>4. Absent # {}
      BY DEF Absent
    <3>5. Reopened(D, g, was[g], new)
      BY <3>2, <3>3, <3>4 DEF Reopened, OpenedTo
    <3>6. new \in SUBSET Int
      BY <3>3 DEF OpenedTo
    <3> HIDE DEF new
    <3>7. files2 \in [Token -> SUBSET Int]
      BY <3>6
    <3>8. \A f \in Token : Reopened(D, f, was[f], files2[f])
      BY <3>5
    <3> HIDE DEF files2
    <3> QED
      BY <3>1, <3>7, <3>8
  <2> QED
    BY <2>1, <2>2, <2>3, <2>4
<1>4. FirstPass(was, part) = AllTried(first, part.redirs)
  BY DEF FirstPass, AllTried
<1> HIDE DEF D, V, first
<1>5. AllTried(first, part.redirs) \in V
  BY <1>1, <1>2, <1>3, TriesFold
<1> QED
  BY <1>4, <1>5 DEF V, D

(* What parse_redirections hands on.                                       *)
Handed == {Nothing} \cup (Operator \cup {"error"}) \X Token

(* What parsing hands on is nothing, an error, or the last redirection of  *)
(* its kind (redirection.c:106-153).                                       *)
LEMMA FoundIs ==
  ASSUME NEW was \in [Token -> SUBSET Int], NEW part \in Stage, NEW ops
  PROVE  LET redir == Found(was, part, ops)
         IN  /\ redir \in Handed
             /\ \/ redir = Nothing \/ redir[1] = "error"
                \/ IsLastOf(redir, part.redirs, ops)
<1> DEFINE error == FirstPass(was, part).error
           redir == Found(was, part, ops)
<1>1. error \in Redir \cup {Nothing}
  BY FirstPassIs
<1>2. CASE error = Nothing
  <2>1. redir = LastRedir(part, ops)
    BY <1>2 DEF Found
  <2> HIDE DEF redir
  <2>2. redir = Nothing \/ IsLastOf(redir, part.redirs, ops)
    BY <2>1, LastRedirIs
  <2>3. redir \in Redir \cup {Nothing}
    BY <2>2 DEF IsLastOf, Stage
  <2>4. redir \in Handed
    BY <2>3 DEF Handed, Redir
  <2> QED
    BY <2>2, <2>4 DEF redir
<1>3. CASE error # Nothing
  <2>1. redir = Nothing \/ redir = <<"error", error[2]>>
    BY <1>3 DEF Found
  <2>2. error[2] \in Token
    BY <1>1, <1>3 DEF Redir
  <2> HIDE DEF error, redir
  <2>3. redir = Nothing \/ redir[1] = "error"
    BY <2>1
  <2>4. redir \in Handed
    BY <2>1, <2>2 DEF Handed
  <2> QED
    BY <2>3, <2>4 DEF redir
<1> QED
  BY <1>2, <1>3

(* hop stays within the directories that are there.                        *)
LEMMA HopTyped ==
  ASSUME NEW there \in SUBSET Dir, NEW from, from.cwd \in there,
         from \in [cwd : Dir, prev : Dir \cup {NoDir}], NEW args \in Seq(Token)
  PROVE  Hop(there, from, args) \in [cwd : there, prev : Dir \cup {NoDir}]
<1> DEFINE V == [cwd : there, prev : Dir \cup {NoDir}]
           D == Token \cup {"~"}
           given == IF args = <<>> THEN <<"~">> ELSE args
<1>1. from \in V
  OBVIOUS
<1>2. given \in Seq(D)
  <2>1. <<"~">> \in Seq(D)
    <3>1. "~" \in D
      OBVIOUS
    <3> HIDE DEF D
    <3> QED
      BY <3>1
  <2>2. args \in Seq(D)
    OBVIOUS
  <2> QED
    BY <2>1, <2>2
<1>3. ASSUME NEW at \in V, NEW arg \in D PROVE Hopped(there, at, arg) \in V
  <2> DEFINE to == HopTo(there, at.cwd, at.prev, arg)
  <2>1. to \in SUBSET there
    BY DEF HopTo
  <2> HIDE DEF to
  <2>2. Hopped(there, at, arg) =
          IF arg = "." \/ to = {} THEN at
          ELSE [cwd |-> CHOOSE d \in to : TRUE, prev |-> at.cwd]
    BY DEF Hopped, to
  <2>3. to # {} => (CHOOSE d \in to : TRUE) \in there
    BY <2>1
  <2> QED
    BY <2>2, <2>3
<1>4. Hop(there, from, args) = AllHopped(there, from, given)
  BY DEF Hop, AllHopped
<1> HIDE DEF V, D, given
<1>5. AllHopped(there, from, given) \in V
  BY <1>1, <1>2, <1>3, HopFolds
<1> QED
  BY <1>4, <1>5 DEF V

-----------------------------------------------------------------------------
(* The inductive invariant.                                                *)
Busy == pc \notin {"prompt", "gone", "crashed"}

EndsUpTo(n) == {"r", "w"} \X ((1 .. n) \X Nat \X Nat)

Stream == {Tty, <<"null">>} \cup ({"file"} \X Token) \cup ({"pipe"} \X (Nat \X Nat \X Int))

Process ==
  [cmd : Nat, stage : Nat, of : Nat, argv : Seq(Token), rin : Handed, rout : Handed,
   background : BOOLEAN, in : Stream, out : Stream,
   ends : SUBSET ({"r", "w"} \X (Nat \X Nat \X Nat)), state : ProcState]

CommandsOk ==
  cmds \in Seq(NonEmpty(Stage)) /\ Cardinality(StagesOf(cmds)) <= MaxProcs

(* Where the shell is in the line.                                         *)
Position ==
  /\ pc \in {"prompt", "parse", "execute", "redirect", "builtin", "pipes", "fork",
             "close", "wait", "gone", "crashed"}
  /\ lines \in 0 .. MaxLines /\ cmd \in Nat /\ stage \in Nat
  /\ Busy => lines # 0 /\ cmd \in 1 .. Len(cmds) /\ stage \in 1 .. NumStages
  /\ pc \in {"execute", "redirect", "builtin"} => stage = 1
  /\ pc = "pipes" => stage < NumStages

(* An output redirection is the last one that its command asks for.        *)
Asked(redir, k) ==
  redir = Nothing \/ redir[1] = "error" \/ IsLastOf(redir, Last(cmds[k]).redirs, {">", ">>"})

RedirsOk == rin \in Handed /\ rout \in Handed /\ (Busy => Asked(rout, cmd))

(* A stream into a file that is there, and where command k is to write.    *)
SentBy(stream, k) ==
  stream \in {"file"} \X Token /\ SendsTo(k, stream[2]) /\ files[stream[2]] # Absent

(* The pipe ends that the shell holds for the pipeline it is starting.     *)
OwnEnds ==
  IF pc = "pipes" THEN PipeEnds(stage - 1)
  ELSE IF pc \in {"fork", "close"} THEN PipeEnds(NumStages - 1) ELSE {}

FdsOk ==
  /\ fds \in [in : Stream, out : Stream, ends : SUBSET EndsUpTo(lines)]
  /\ pc \notin {"redirect", "builtin"} => fds.in = Tty
  /\ pc \in {"redirect", "builtin"} => IsBuiltin /\ (fds.in = Tty \/ fds.in[1] = "file")
  /\ pc = "redirect" => ~Refused
  /\ fds.out = Tty \/ (pc = "builtin" /\ SentBy(fds.out, cmd))
  /\ failed \/ fds.ends \subseteq OwnEnds

(* A process belongs to a command that the shell has come to, and to a     *)
(* stage of it that was forked.                                            *)
Belongs(c) ==
  /\ c.cmd \in 1 .. Len(cmds) /\ c.cmd <= cmd
  /\ c.of = Len(cmds[c.cmd]) /\ c.stage \in 1 .. c.of
  /\ pc \in {"parse", "execute", "redirect", "builtin", "pipes"} => c.cmd < cmd
  /\ pc = "fork" /\ c.cmd = cmd => c.stage < stage

ProcOk(c) ==
  /\ Belongs(c)
  /\ Asked(c.rout, c.cmd)
  /\ c.ends \subseteq EndsUpTo(lines)
  /\ c.state = "new" => c.out = Tty
  /\ c.state = "running" /\ c.out[1] = "file" => SentBy(c.out, c.cmd)

ProcsOk ==
  /\ procs \in Seq(Process)
  /\ \A p \in DOMAIN procs : ProcOk(procs[p])
  /\ \A p, q \in DOMAIN procs :
       p # q => procs[p].cmd # procs[q].cmd \/ procs[p].stage # procs[q].stage

FilesOk ==
  /\ files \in [Token -> SUBSET Int]
  /\ \A f \in Token : files[f] = Absent \/ files[f] \subseteq -1 .. Len(cmds)
  /\ FilesAsWritten

PlaceOk ==
  /\ dirs \in SUBSET Dir /\ place \in [cwd : Dir, prev : Dir \cup {NoDir}]
  /\ place.cwd \in dirs

Inv ==
  CommandsOk /\ Position /\ RedirsOk /\ FdsOk /\ ProcsOk /\ FilesOk /\ PlaceOk

-----------------------------------------------------------------------------
(* What the parts of the invariant rest on.                                *)

(* A redirection of a command that the shell has come to.                  *)
LEMMA RedirectedBy ==
  ASSUME NEW ops, NEW k \in (1 .. cmd) \cap DOMAIN cmds, NEW i \in DOMAIN cmds[k],
         NEW r \in Range(cmds[k][i].redirs), r[1] \in ops
  PROVE  r[2] \in Redirected(ops)
<1> DEFINE Files(kk, ii) ==
             {redir[2] : redir \in {rr \in Range(cmds[kk][ii].redirs) : rr[1] \in ops}}
<1>1. r[2] \in Files(k, i)
  OBVIOUS
<1>2. Redirected(ops) =
        UNION {UNION {Files(kk, ii) : ii \in DOMAIN cmds[kk]} :
                 kk \in (1 .. cmd) \cap DOMAIN cmds}
  BY DEF Redirected
<1> HIDE DEF Files
<1>3. r[2] \in UNION {Files(k, ii) : ii \in DOMAIN cmds[k]}
  BY <1>1
<1> QED
  BY <1>2, <1>3

(* A line that goes on has redirected no less.                             *)
LEMMA RedirectedMonotone ==
  ASSUME NEW ops, cmds' = cmds, cmd \in Nat, cmd' \in Nat, cmd <= cmd'
  PROVE  Redirected(ops) \subseteq Redirected(ops)'
<1> DEFINE Files(k) == UNION {{redir[2] : redir \in {r \in Range(cmds[k][i].redirs) :
                                                        r[1] \in ops}} : i \in DOMAIN cmds[k]}
<1>1. Redirected(ops) = UNION {Files(k) : k \in (1 .. cmd) \cap DOMAIN cmds}
  BY DEF Redirected
<1>2. Redirected(ops)' = UNION {Files(k) : k \in (1 .. cmd') \cap DOMAIN cmds}
  BY DEF Redirected
<1>3. (1 .. cmd) \cap DOMAIN cmds \subseteq (1 .. cmd') \cap DOMAIN cmds
  OBVIOUS
<1> HIDE DEF Files
<1> QED
  BY <1>1, <1>2, <1>3

(* The commands are not empty.                                             *)
LEMMA StagesThere ==
  ASSUME CommandsOk, NEW k \in 1 .. Len(cmds)
  PROVE  /\ cmds[k] \in Seq(Stage) /\ Len(cmds[k]) \in Nat \ {0}
         /\ \A i \in 1 .. Len(cmds[k]) : cmds[k][i] \in Stage
         /\ Last(cmds[k]) = cmds[k][Len(cmds[k])] /\ Last(cmds[k]) \in Stage
<1>1. cmds[k] \in NonEmpty(Stage)
  BY DEF CommandsOk
<1> DEFINE c == cmds[k]
<1>2. c \in Seq(Stage) /\ c # <<>>
  BY <1>1 DEF NonEmpty
<1> HIDE DEF c
<1>3. /\ Len(c) \in Nat \ {0}
      /\ \A i \in 1 .. Len(c) : c[i] \in Stage
      /\ Last(c) = c[Len(c)] /\ Last(c) \in Stage
  BY <1>2 DEF Last
<1> QED
  BY <1>2, <1>3 DEF c

(* What a command is asked to write to.                                    *)
LEMMA OutputSent ==
  ASSUME CommandsOk, NEW k \in 1 .. Len(cmds), NEW redir,
         IsLastOf(redir, Last(cmds[k]).redirs, {">", ">>"})
  PROVE  /\ redir \in Redir /\ redir[1] \in {">", ">>"}
         /\ SendsTo(k, redir[2])
         /\ cmd \in Nat /\ k <= cmd => redir[2] \in Redirected({">", ">>"})
         /\ cmd \in Nat /\ k <= cmd /\ redir[1] = ">" => redir[2] \in Redirected({">"})
<1> DEFINE redirs == Last(cmds[k]).redirs
           n == Len(cmds[k])
<1>1. redirs \in Seq(Redir) /\ DOMAIN redirs = 1 .. Len(redirs) /\ Len(redirs) \in Nat
  BY StagesThere DEF Stage
<1>2. n \in Nat \ {0} /\ cmds[k] \in Seq(Stage) /\ redirs = cmds[k][n].redirs
  BY StagesThere
<1> HIDE DEF redirs
<1>3. PICK i \in DOMAIN redirs :
        /\ redirs[i] = redir /\ redir[1] \in {">", ">>"}
        /\ \A j \in i + 1 .. Len(redirs) : redirs[j][1] \notin {">", ">>"}
  BY DEF IsLastOf, redirs
<1>4. redir \in Redir
  BY <1>1, <1>3
<1>5. \A j \in DOMAIN redirs : redirs[j][1] \notin {">", ">>"} => redirs[j][1] = "<"
  BY <1>1 DEF Redir, Operator
<1>6. \A j \in i + 1 .. Len(redirs) : redirs[j][1] = "<"
  BY <1>1, <1>3, <1>5
<1>7. SendsTo(k, redir[2])
  BY <1>3, <1>6 DEF SendsTo, redirs
<1>8. ASSUME cmd \in Nat, k <= cmd, NEW ops, redir[1] \in ops
      PROVE  redir[2] \in Redirected(ops)
  <2>1. k \in (1 .. cmd) \cap DOMAIN cmds
    BY <1>8 DEF CommandsOk
  <2>2. n \in DOMAIN cmds[k]
    BY <1>2
  <2>3. redir \in Range(cmds[k][n].redirs)
    BY <1>2, <1>3 DEF Range
  <2> HIDE DEF n
  <2> QED
    BY <1>8, <2>1, <2>2, <2>3, RedirectedBy
<1> QED
  BY <1>3, <1>4, <1>7, <1>8

(* The files, when nothing but these things happens to each: it stays as   *)
(* it is, is made empty by a redirection that names it, or gets what a     *)
(* command or the SIGCHLD handler writes while it is there.                *)
Sent(f, k) == k \in 1 .. Len(cmds) /\ k <= cmd /\ SendsTo(k, f)

FileStep(f) ==
  \/ files'[f] = files[f]
  \/ /\ files'[f] = {} /\ f \in Redirected({">", ">>"})
     /\ files[f] = Absent \/ f \in Redirected({">"})
  \/ files[f] # Absent /\ \E k \in Int : Sent(f, k) /\ files'[f] = files[f] \cup {k}
  \/ /\ files[f] # Absent /\ files'[f] = files[f] \cup {Notice}
     /\ \E k \in 2 .. Len(cmds) : SendsTo(k, f) /\ RunsInShell(k)

(* Each file takes one of the steps that a line may take; then             *)
(* FilesAsWritten is kept.                                                 *)
LEMMA FilesKept ==
  ASSUME CommandsOk, FilesOk, cmds' = cmds, before' = before,
         cmd \in Nat, cmd' \in Nat, cmd <= cmd',
         files' \in [Token -> SUBSET Int], \A f \in Token : FileStep(f)
  PROVE  FilesOk' /\ \A f \in Token : files[f] # Absent => files'[f] # Absent
<1> DEFINE All == {">", ">>"}
           Over == {">"}
<1>1. /\ Redirected(All) \subseteq Redirected(All)'
      /\ Redirected(Over) \subseteq Redirected(Over)'
  BY RedirectedMonotone
<1>2. \A k, f : (SendsTo(k, f)' <=> SendsTo(k, f)) /\ (RunsInShell(k)' <=> RunsInShell(k))
  BY DEF SendsTo, RunsInShell
<1>3. Len(cmds) \in Nat
  BY DEF CommandsOk
<1>4. ASSUME NEW f \in Token
      PROVE  /\ files'[f] = Absent \/ files'[f] \subseteq -1 .. Len(cmds)
             /\ files[f] # Absent => files'[f] # Absent
             /\ f \in before \ Redirected(Over)' => 0 \in files'[f]
             /\ f \notin before \cup Redirected(All)' => files'[f] = Absent
             /\ f \notin before => 0 \notin files'[f]
             /\ \A k \in files'[f] \cap 1 .. Len(cmds) : k <= cmd' /\ SendsTo(k, f)
             /\ Notice \in files'[f] => \E k \in 2 .. Len(cmds) : SendsTo(k, f) /\ RunsInShell(k)
  <2>1. /\ files[f] = Absent \/ files[f] \subseteq -1 .. Len(cmds)
        /\ f \in before \ Redirected(Over) => 0 \in files[f]
        /\ f \notin before \cup Redirected(All) => files[f] = Absent
        /\ f \notin before => 0 \notin files[f]
        /\ \A k \in files[f] \cap 1 .. Len(cmds) : k <= cmd /\ SendsTo(k, f)
        /\ Notice \in files[f] => \E k \in 2 .. Len(cmds) : SendsTo(k, f) /\ RunsInShell(k)
    BY DEF FilesOk, FilesAsWritten
  <2>2. CASE files'[f] = files[f]
    BY <1>1, <2>1, <2>2
  <2>3. CASE /\ files'[f] = {} /\ f \in Redirected(All)
             /\ files[f] = Absent \/ f \in Redirected(Over)
    <3>1. f \in Redirected(All)'
      BY <1>1, <2>3
    <3>2. f \in before => f \in Redirected(Over)'
      <4>1. 0 \notin Absent
        BY DEF Absent
      <4> QED
        BY <1>1, <2>1, <2>3, <4>1
    <3>3. files'[f] # Absent /\ files'[f] \subseteq -1 .. Len(cmds)
      BY <2>3 DEF Absent
    <3> HIDE DEF All, Over
    <3> QED
      BY <2>3, <3>1, <3>2, <3>3
  <2>4. CASE files[f] # Absent /\ \E k \in Int : Sent(f, k) /\ files'[f] = files[f] \cup {k}
    <3>1. PICK k \in Int : Sent(f, k) /\ files'[f] = files[f] \cup {k}
      BY <2>4
    <3>2. files'[f] \subseteq -1 .. Len(cmds) /\ -2 \notin files'[f] /\ k # 0 /\ k # Notice
      BY <1>3, <2>1, <2>4, <3>1 DEF Sent, Notice
    <3>3. \A j \in files'[f] \cap 1 .. Len(cmds) : j <= cmd' /\ SendsTo(j, f)
      BY <1>3, <2>1, <3>1 DEF Sent
    <3>4. files'[f] # Absent
      BY <3>2 DEF Absent
    <3>5. /\ f \in before \ Redirected(Over)' => 0 \in files'[f]
          /\ f \notin before \cup Redirected(All)' => files'[f] = Absent
      BY <1>1, <2>1, <2>4, <3>1
    <3>6. /\ f \notin before => 0 \notin files'[f]
          /\ Notice \in files'[f] => Notice \in files[f]
      BY <2>1, <3>1, <3>2
    <3> QED
      BY <2>1, <3>2, <3>3, <3>4, <3>5, <3>6
  <2>5. CASE /\ files[f] # Absent /\ files'[f] = files[f] \cup {Notice}
             /\ \E k \in 2 .. Len(cmds) : SendsTo(k, f) /\ RunsInShell(k)
    <3>2. files'[f] \subseteq -1 .. Len(cmds) /\ -2 \notin files'[f]
      BY <1>3, <2>1, <2>5 DEF Notice
    <3>3. \A j \in files'[f] \cap 1 .. Len(cmds) : j <= cmd' /\ SendsTo(j, f)
      BY <1>3, <2>1, <2>5 DEF Notice
    <3>4. files'[f] # Absent
      BY <3>2 DEF Absent
    <3>5. /\ f \in before \ Redirected(Over)' => 0 \in files'[f]
          /\ f \notin before \cup Redirected(All)' => files'[f] = Absent
      BY <1>1, <2>1, <2>5
    <3>6. f \notin before => 0 \notin files'[f]
      BY <2>1, <2>5 DEF Notice
    <3> QED
      BY <2>5, <3>2, <3>3, <3>4, <3>5, <3>6
  <2> HIDE DEF All, Over
  <2>6. \/ files'[f] = files[f]
        \/ /\ files'[f] = {} /\ f \in Redirected(All)
           /\ files[f] = Absent \/ f \in Redirected(Over)
        \/ files[f] # Absent /\ \E k \in Int : Sent(f, k) /\ files'[f] = files[f] \cup {k}
        \/ /\ files[f] # Absent /\ files'[f] = files[f] \cup {Notice}
           /\ \E k \in 2 .. Len(cmds) : SendsTo(k, f) /\ RunsInShell(k)
    BY DEF FileStep, All, Over
  <2> QED
    BY <2>2, <2>3, <2>4, <2>5, <2>6
<1>5. FilesAsWritten'
  BY <1>2, <1>4 DEF FilesAsWritten
<1>6. FilesOk'
  BY <1>4, <1>5 DEF FilesOk
<1> QED
  BY <1>4, <1>6

-----------------------------------------------------------------------------
(* What steps of the same shape have in common.                            *)
FilesStay == \A f \in Token : files[f] # Absent => files'[f] # Absent

(* A stream goes on to be into a file that is there.                       *)
LEMMA SentByKept ==
  ASSUME NEW stream, NEW k, SentBy(stream, k), cmds' = cmds, FilesStay
  PROVE  SentBy(stream, k)'
<1>1. SendsTo(k, stream[2]) => SendsTo(k, stream[2])'
  BY DEF SendsTo
<1>2. stream[2] \in Token
  BY DEF SentBy
<1> QED
  BY <1>1, <1>2 DEF SentBy, FilesStay

(* Files that stay as they are.                                            *)
LEMMA FilesUnchanged ==
  ASSUME CommandsOk, FilesOk, files' = files, cmds' = cmds, before' = before,
         cmd \in Nat, cmd' \in Nat, cmd <= cmd'
  PROVE  FilesOk' /\ FilesStay
<1>1. files' \in [Token -> SUBSET Int] /\ \A f \in Token : FileStep(f)
  BY DEF FilesOk, FileStep
<1> QED
  BY <1>1, FilesKept DEF FilesStay

(* What a step keeps that leaves the variables alone.                      *)
LEMMA CommandsKept ==
  ASSUME CommandsOk, cmds' = cmds
  PROVE  CommandsOk'
BY DEF CommandsOk, StagesOf

LEMMA PlaceKept ==
  ASSUME PlaceOk, place' = place, dirs' = dirs
  PROVE  PlaceOk'
BY DEF PlaceOk

LEMMA FdsKept ==
  ASSUME FdsOk, fds' = fds, lines' = lines,
         pc \notin {"redirect", "builtin"}, pc' \notin {"redirect", "builtin"},
         failed' \/ fds.ends \subseteq OwnEnds'
  PROVE  FdsOk'
BY DEF FdsOk, EndsUpTo

LEMMA ProcsKept ==
  ASSUME ProcsOk, procs' = procs, cmds' = cmds, lines' = lines, FilesStay,
         \A p \in DOMAIN procs : Belongs(procs[p]) => Belongs(procs[p])'
  PROVE  ProcsOk'
<1>1. ASSUME NEW p \in DOMAIN procs PROVE ProcOk(procs[p])'
  <2> DEFINE c == procs[p]
  <2>1. ProcOk(c) /\ Belongs(c)'
    BY DEF ProcsOk, ProcOk
  <2>2. c' = c
    OBVIOUS
  <2>3. Asked(c.rout, c.cmd) => Asked(c.rout, c.cmd)'
    BY DEF Asked
  <2>4. c.state = "running" /\ c.out[1] = "file" => SentBy(c.out, c.cmd)'
    BY <2>1, SentByKept DEF ProcOk
  <2>5. c.ends \subseteq EndsUpTo(lines)'
    BY <2>1 DEF ProcOk, EndsUpTo
  <2> HIDE DEF c
  <2>6. ProcOk(c)'
    BY <2>1, <2>2, <2>3, <2>4, <2>5 DEF ProcOk
  <2> QED
    BY <2>6 DEF c
<1> QED
  BY <1>1 DEF ProcsOk

LEMMA ProcBelongs ==
  ASSUME ProcsOk, NEW p \in DOMAIN procs
  PROVE  procs[p] \in Process /\ ProcOk(procs[p]) /\ Belongs(procs[p])
BY DEF ProcsOk, ProcOk

(* The shell goes on to the next command.                                  *)
LEMMA NextKeeps ==
  ASSUME Inv, Busy, NextCommand
  PROVE  /\ CommandsOk' /\ Position' /\ RedirsOk'
         /\ cmd \in Nat /\ cmd' \in Nat /\ cmd <= cmd' /\ cmds' = cmds /\ before' = before
         /\ lines' = lines /\ dirs' = dirs
         /\ pc' \in {"prompt", "parse"} /\ (pc' = "parse" => cmd' = cmd + 1)
<1>1. CommandsOk /\ Position
  BY DEF Inv
<1>2. cmds' = cmds /\ lines' = lines /\ rin' = Nothing /\ rout' = Nothing
      /\ before' = before /\ dirs' = dirs /\ stage' = 1
  BY DEF NextCommand
<1>3. CommandsOk'
  BY <1>1, <1>2, CommandsKept
<1>4. cmd \in 1 .. Len(cmds) /\ Len(cmds) \in Nat /\ lines # 0
  BY <1>1 DEF Position, CommandsOk
<1>5. \/ pc' = "prompt" /\ cmd' = cmd
      \/ pc' = "parse" /\ cmd' = cmd + 1 /\ cmd + 1 \in 1 .. Len(cmds)
  BY <1>4 DEF NextCommand
<1>6. cmd' \in 1 .. Len(cmds) /\ cmd <= cmd'
  BY <1>4, <1>5
<1>7. Len(cmds[cmd']) \in Nat \ {0}
  BY <1>1, <1>6, StagesThere
<1>8. Position'
  <2>1. lines' \in 0 .. MaxLines /\ lines' # 0
    BY <1>1, <1>2, <1>4 DEF Position
  <2>2. cmd' \in Nat /\ cmd' \in 1 .. Len(cmds')
    BY <1>2, <1>4, <1>6
  <2>3. stage' \in Nat /\ stage' \in 1 .. NumStages'
    BY <1>2, <1>7 DEF NumStages, Command
  <2>4. pc' \in {"prompt", "parse"}
    BY <1>5
  <2> QED
    BY <2>1, <2>2, <2>3, <2>4 DEF Position
<1>9. RedirsOk'
  BY <1>2 DEF RedirsOk, Handed, Asked
<1> QED
  BY <1>2, <1>3, <1>4, <1>5, <1>6, <1>8, <1>9

(* The processes belong to an earlier command then.                        *)
LEMMA NextBelongs ==
  ASSUME Inv, Busy, NextCommand, NEW p \in DOMAIN procs, procs'[p] = procs[p]
  PROVE  Belongs(procs[p])'
<1> DEFINE c == procs[p]
<1>1. /\ cmd \in Nat /\ cmd' \in Nat /\ cmd <= cmd' /\ cmds' = cmds
      /\ pc' \in {"prompt", "parse"} /\ (pc' = "parse" => cmd' = cmd + 1)
  BY NextKeeps
<1>2. Belongs(c) /\ c.cmd \in Nat
  BY ProcBelongs DEF Inv, Process
<1>3. c' = c
  OBVIOUS
<1> HIDE DEF c
<1>4. /\ c.cmd \in 1 .. Len(cmds) /\ c.cmd <= cmd
      /\ c.of = Len(cmds[c.cmd]) /\ c.stage \in 1 .. c.of
  BY <1>2 DEF Belongs
<1>5. c.cmd <= cmd' /\ (pc' = "parse" => c.cmd < cmd')
  BY <1>1, <1>2, <1>4
<1>6. Belongs(c)'
  BY <1>1, <1>3, <1>4, <1>5 DEF Belongs
<1> QED
  BY <1>6 DEF c

LEMMA NextProcs ==
  ASSUME Inv, Busy, NextCommand, procs' = procs, FilesStay
  PROVE  ProcsOk'
<1>1. cmds' = cmds /\ lines' = lines
  BY NextKeeps
<1>2. \A p \in DOMAIN procs : Belongs(procs[p])'
  BY NextBelongs
<1> QED
  BY <1>1, <1>2, ProcsKept DEF Inv

(* It holds no pipe end then that it should not hold.                      *)
LEMMA NextFds ==
  ASSUME Inv, Busy, NextCommand, fds' = fds, pc \notin {"redirect", "builtin"},
         failed' \/ fds.ends = {}
  PROVE  FdsOk'
<1>1. pc' \in {"prompt", "parse"} /\ lines' = lines
  BY NextKeeps
<1> QED
  BY <1>1, FdsKept DEF Inv, OwnEnds

(* Outside of a pipeline it has none.                                      *)
LEMMA NoEnds ==
  ASSUME Inv, pc \notin {"pipes", "fork", "close"}
  PROVE  failed \/ fds.ends = {}
BY DEF Inv, FdsOk, OwnEnds

(* A builtin is over or given up: the backups are put back.                *)
LEMMA RestoredFds ==
  ASSUME Inv, pc \in {"execute", "redirect", "builtin"},
         pc' \in {"prompt", "parse", "gone"}, fds' = Restored(fds),
         lines' = lines, failed' = failed
  PROVE  FdsOk'
<1>1. /\ fds \in [in : Stream, out : Stream, ends : SUBSET EndsUpTo(lines)]
      /\ failed \/ fds.ends = {}
  BY NoEnds DEF Inv, FdsOk
<1>2. fds' = [fds EXCEPT !.in = Tty, !.out = Tty]
  BY DEF Restored
<1>3. Tty \in Stream
  BY DEF Stream
<1>4. /\ fds' \in [in : Stream, out : Stream, ends : SUBSET EndsUpTo(lines)]
      /\ fds'.in = Tty /\ fds'.out = Tty /\ fds'.ends = fds.ends
  BY <1>1, <1>2, <1>3
<1>5. EndsUpTo(lines)' = EndsUpTo(lines)
  OBVIOUS
<1>6. failed' \/ fds'.ends \subseteq OwnEnds'
  BY <1>1, <1>4
<1> QED
  BY <1>4, <1>5, <1>6 DEF FdsOk

-----------------------------------------------------------------------------
(* The steps of the shell.                                                 *)

(* The words of a command without its "&".                                 *)
LEMMA ArgvTyped ==
  ASSUME CommandsOk, cmd \in 1 .. Len(cmds), NEW i \in 1 .. NumStages
  PROVE  /\ Argv(i) \in Seq(Token)
         /\ Argv(i) # <<>> => Command[i].words # <<>> /\ Argv(i)[1] = Command[i].words[1]
<1> DEFINE words == Command[i].words
<1>1. words \in Seq(Token)
  BY StagesThere DEF Command, NumStages, Stage
<1>2. Argv(i) = words \/ (words # <<>> /\ Argv(i) = SubSeq(words, 1, Len(words) - 1))
  BY DEF Argv, Front
<1> HIDE DEF words
<1>3. ASSUME words # <<>>
      PROVE  LET front == SubSeq(words, 1, Len(words) - 1)
             IN  front \in Seq(Token) /\ (front # <<>> => front[1] = words[1])
  BY <1>1, <1>3
<1> QED
  BY <1>1, <1>2, <1>3 DEF words

(* A builtin that the shell executes is one by its first word.             *)
LEMMA BuiltinRuns ==
  ASSUME CommandsOk, cmd \in 1 .. Len(cmds), IsBuiltin
  PROVE  RunsInShell(cmd) /\ Argv(1) \in Seq(Token) /\ Argv(1) # <<>>
<1>1. 1 \in 1 .. NumStages /\ Argv(1) # <<>> /\ Argv(1)[1] \in Builtin
  BY DEF IsBuiltin
<1>2. Command[1].words # <<>> /\ Command[1].words[1] \in Builtin /\ Argv(1) \in Seq(Token)
  BY <1>1, ArgvTyped
<1> QED
  BY <1>1, <1>2 DEF RunsInShell, Command

(* What opening or writing does to the files.                              *)
LEMMA OpenedSteps ==
  ASSUME CommandsOk, FilesOk, cmd \in Nat, NEW k \in 1 .. Len(cmds), k <= cmd,
         NEW redir \in Handed, Asked(redir, k), redir[1] # "error", files' = Opened(redir)
  PROVE  /\ files' \in [Token -> SUBSET Int] /\ \A f \in Token : FileStep(f)
         /\ redir # Nothing => /\ SendsTo(k, redir[2]) /\ redir[2] \in Token
                               /\ files'[redir[2]] # Absent
<1>1. files \in [Token -> SUBSET Int]
  BY DEF FilesOk
<1>2. CASE redir = Nothing
  BY <1>1, <1>2 DEF Opened, FileStep
<1>3. CASE redir # Nothing
  <2> DEFINE g == redir[2]
             new == OpenedTo(files[g], redir[1])
  <2>1. IsLastOf(redir, Last(cmds[k]).redirs, {">", ">>"})
    BY <1>3 DEF Asked
  <2>2. /\ redir \in Redir /\ redir[1] \in {">", ">>"} /\ SendsTo(k, g)
        /\ g \in Redirected({">", ">>"}) /\ (redir[1] = ">" => g \in Redirected({">"}))
    BY <2>1, OutputSent
  <2>3. g \in Token
    BY <2>2 DEF Redir
  <2>4. files' = [files EXCEPT ![g] = new]
    BY <1>3 DEF Opened
  <2>5. \/ new = files[g] /\ files[g] # Absent
        \/ new = {} /\ (files[g] = Absent \/ g \in Redirected({">"}))
    BY <2>2 DEF OpenedTo
  <2>6. new \in SUBSET Int /\ new # Absent
    BY <1>1, <2>3, <2>5 DEF Absent
  <2> HIDE DEF new, g
  <2>7. files' \in [Token -> SUBSET Int] /\ files'[g] = new
        /\ \A f \in Token : f # g => files'[f] = files[f]
    BY <1>1, <2>3, <2>4, <2>6
  <2>8. FileStep(g)
    BY <2>2, <2>5, <2>7 DEF FileStep
  <2>9. \A f \in Token : FileStep(f)
    BY <2>7, <2>8 DEF FileStep
  <2> QED
    BY <2>2, <2>3, <2>6, <2>7, <2>9 DEF g
<1> QED
  BY <1>2, <1>3

(* A command writes its number to where it is sent, and the handler its    *)
(* notice only to the file of a builtin.                                   *)
LEMMA WrittenSteps ==
  ASSUME CommandsOk, FilesOk, cmd \in Nat, NEW k \in 1 .. Len(cmds), k <= cmd,
         NEW stream, stream[1] = "file" => SentBy(stream, k),
         NEW what, what = k \/ (what = Notice /\ k # 1 /\ RunsInShell(k)),
         files' = WrittenTo(stream, what)
  PROVE  files' \in [Token -> SUBSET Int] /\ \A f \in Token : FileStep(f)
<1>1. files \in [Token -> SUBSET Int]
  BY DEF FilesOk
<1>2. CASE stream[1] # "file"
  BY <1>1, <1>2 DEF WrittenTo, FileStep
<1>3. CASE stream[1] = "file"
  <2> DEFINE g == stream[2]
  <2>1. g \in Token /\ SendsTo(k, g) /\ files[g] # Absent
    BY <1>3 DEF SentBy
  <2>2. files' = [files EXCEPT ![g] = @ \cup {what}]
    BY <1>3 DEF WrittenTo
  <2> HIDE DEF g
  <2>3. what \in Int
    BY DEF Notice
  <2>4. files' \in [Token -> SUBSET Int] /\ files'[g] = files[g] \cup {what}
        /\ \A f \in Token : f # g => files'[f] = files[f]
    BY <1>1, <2>1, <2>2, <2>3
  <2>5. FileStep(g)
    <3>1. CASE what = k
      BY <2>1, <2>4, <3>1 DEF FileStep, Sent
    <3>2. CASE what = Notice /\ k # 1 /\ RunsInShell(k)
      <4>1. k \in 2 .. Len(cmds)
        BY <3>2 DEF CommandsOk
      <4> QED
        BY <2>1, <2>4, <3>2, <4>1 DEF FileStep
    <3> QED
      BY <3>1, <3>2
  <2>6. \A f \in Token : FileStep(f)
    BY <2>4, <2>5 DEF FileStep
  <2> QED
    BY <2>4, <2>6
<1> QED
  BY <1>2, <1>3

(* A line is typed.                                                        *)
LEMMA TypesKeeps ==
  ASSUME Inv, NEW line \in Line, Types(line)
  PROVE  Inv'
<1>1. CommandsOk'
  BY TakenTyped, MaxProcsAssumption DEF Types, CommandsOk, StagesOf
<1>2. /\ lines \in 0 .. MaxLines /\ lines < MaxLines /\ lines' = lines + 1
      /\ cmd' = 1 /\ stage' = 1 /\ pc = "prompt"
      /\ pc' = (IF cmds' = <<>> THEN "prompt" ELSE "parse")
  BY DEF Inv, Position, Types
<1>3. Position'
  <2>1. cmds' # <<>> => 1 \in 1 .. Len(cmds') /\ cmds'[1] \in NonEmpty(Stage)
    BY <1>1 DEF CommandsOk
  <2>2. cmds' # <<>> => 1 \in 1 .. NumStages'
    BY <1>2, <2>1 DEF NumStages, Command, NonEmpty
  <2>3. lines' \in 0 .. MaxLines /\ lines' # 0
    BY <1>2, ShellLineAssumption
  <2> QED
    BY <1>2, <2>1, <2>2, <2>3 DEF Position, Busy
<1>4. RedirsOk'
  BY DEF Types, RedirsOk, Handed, Asked
<1>5. FdsOk'
  <2>1. EndsUpTo(lines) \subseteq EndsUpTo(lines')
    BY <1>2 DEF EndsUpTo
  <2>2. /\ fds \in [in : Stream, out : Stream, ends : SUBSET EndsUpTo(lines)]
        /\ fds.in = Tty /\ fds.out = Tty /\ (failed \/ fds.ends = {})
    BY <1>2 DEF Inv, FdsOk, OwnEnds
  <2>3. fds \in [in : Stream, out : Stream, ends : SUBSET EndsUpTo(lines')]
    BY <2>1, <2>2
  <2>4. fds' = fds /\ failed' = failed /\ pc' \notin {"redirect", "builtin"}
    BY <1>2 DEF Types
  <2> QED
    BY <2>2, <2>3, <2>4 DEF FdsOk, EndsUpTo
<1>6. ProcsOk'
  BY DEF Types, ProcsOk
<1>7. FilesOk'
  <2>1. files \in [Token -> SUBSET Int] /\ Len(cmds') \in Nat
    BY <1>1 DEF Inv, FilesOk, CommandsOk
  <2>2. /\ files' = [f \in Token |-> IF files[f] = Absent THEN Absent ELSE {0}]
        /\ before' = {f \in Token : files[f] # Absent}
    BY DEF Types
  <2>3. files' \in [Token -> SUBSET Int]
    BY <2>1, <2>2
  <2>4. ASSUME NEW f \in Token
        PROVE  /\ files'[f] = Absent \/ files'[f] \subseteq -1 .. Len(cmds')
               /\ f \in before' => 0 \in files'[f]
               /\ f \notin before' => files'[f] = Absent /\ 0 \notin files'[f]
               /\ files'[f] \cap 1 .. Len(cmds') = {} /\ Notice \notin files'[f]
    BY <2>1, <2>2 DEF Absent, Notice
  <2>5. FilesAsWritten'
    BY <2>4 DEF FilesAsWritten
  <2> QED
    BY <2>3, <2>4, <2>5 DEF FilesOk
<1>8. PlaceOk'
  BY PlaceKept DEF Inv, Types
<1> QED
  BY <1>1, <1>3, <1>4, <1>5, <1>6, <1>7, <1>8 DEF Inv

(* A step to the next command that leaves files, processes and place.      *)
LEMMA GoesOn ==
  ASSUME Inv, Busy, pc \notin {"redirect", "builtin"}, NextCommand,
         UNCHANGED <<fds, procs, files, place>>,
         failed' \/ fds.ends = {}
  PROVE  Inv'
<1>1. /\ CommandsOk' /\ Position' /\ RedirsOk'
      /\ cmd \in Nat /\ cmd' \in Nat /\ cmd <= cmd' /\ cmds' = cmds /\ before' = before
      /\ dirs' = dirs
  BY NextKeeps
<1>2. FilesOk' /\ FilesStay
  BY <1>1, FilesUnchanged DEF Inv
<1>3. ProcsOk'
  BY <1>2, NextProcs
<1>4. FdsOk'
  BY NextFds
<1>5. PlaceOk'
  BY <1>1, PlaceKept DEF Inv
<1> QED
  BY <1>1, <1>2, <1>3, <1>4, <1>5 DEF Inv

(* A command that is passed over.                                          *)
LEMMA SkipsKeeps ==
  ASSUME Inv, Skips
  PROVE  Inv'
<1>1. Busy /\ pc = "execute" /\ NextCommand /\ UNCHANGED <<fds, procs, files, place, failed>>
  BY DEF Skips, Busy
<1>2. failed' \/ fds.ends = {}
  BY <1>1, NoEnds
<1> QED
  BY <1>1, <1>2, GoesOn

(* An "&" alone.                                                           *)
LEMMA CrashesKeeps ==
  ASSUME Inv, Crashes
  PROVE  Inv'
<1>1. /\ pc' = "crashed" /\ pc = "execute"
      /\ UNCHANGED <<lines, cmds, cmd, stage, rin, rout, fds, procs, files, before,
                     place, dirs, failed>>
  BY DEF Crashes
<1>2. CommandsOk' /\ PlaceOk' /\ cmd \in Nat
  BY <1>1, CommandsKept, PlaceKept DEF Inv, Position
<1>3. FilesOk' /\ FilesStay
  BY <1>1, <1>2, FilesUnchanged DEF Inv
<1>4. Position' /\ RedirsOk'
  BY <1>1 DEF Inv, Position, RedirsOk, Busy
<1>5. FdsOk'
  BY <1>1, NoEnds, FdsKept DEF Inv
<1>6. ProcsOk'
  <2>1. \A p \in DOMAIN procs : Belongs(procs[p]) => Belongs(procs[p])'
    BY <1>1 DEF Belongs
  <2> QED
    BY <1>1, <1>3, <2>1, ProcsKept DEF Inv
<1> QED
  BY <1>2, <1>3, <1>4, <1>5, <1>6 DEF Inv

(* Parsing opens the files of a stage (pipes.c:37-85).                     *)
LEMMA ParsesKeeps ==
  ASSUME Inv, ParsesStage
  PROVE  Inv'
<1> DEFINE scanned == Command[stage]
           ops == {">", ">>"}
<1>1. /\ pc = "parse"
      /\ files' = FirstPass(files, scanned).files
      /\ rin' = IF stage = 1 THEN InputRedir(files, scanned) ELSE rin
      /\ rout' = IF stage = NumStages THEN OutputRedir(files, scanned) ELSE rout
      /\ UNCHANGED <<lines, cmds, cmd, fds, procs, before, place, dirs, failed>>
  BY DEF ParsesStage
<1>2. /\ cmd \in Nat /\ cmd \in 1 .. Len(cmds) /\ stage \in 1 .. NumStages
      /\ lines \in 0 .. MaxLines /\ lines # 0
  BY <1>1 DEF Inv, Position, Busy
<1>3. /\ NumStages \in Nat \ {0} /\ scanned \in Stage
      /\ stage = NumStages => scanned = Last(cmds[cmd])
  BY <1>2, StagesThere DEF Inv, NumStages, Command
<1>4. CommandsOk' /\ PlaceOk'
  BY <1>1, CommandsKept, PlaceKept DEF Inv
<1>5. files \in [Token -> SUBSET Int] /\ rin \in Handed /\ rout \in Handed
  BY DEF Inv, FilesOk, RedirsOk
<1>6. FilesOk' /\ FilesStay
  <2>1. files' \in [Token -> SUBSET Int]
    BY <1>1, <1>3, <1>5, FirstPassIs
  <2>2. ASSUME NEW f \in Token PROVE FileStep(f)
    <3>1. Reopened(Range(scanned.redirs), f, files[f], files'[f])
      BY <1>1, <1>3, <1>5, FirstPassIs
    <3>2. cmd \in (1 .. cmd) \cap DOMAIN cmds /\ stage \in DOMAIN cmds[cmd]
      BY <1>2, StagesThere DEF Inv, CommandsOk, NumStages, Command
    <3>3. \A r \in Range(scanned.redirs) : \A some : r[1] \in some => r[2] \in Redirected(some)
      BY <3>2, RedirectedBy DEF Command
    <3> HIDE DEF scanned
    <3>4. \A r \in Range(scanned.redirs) : r[1] = ">" => r[2] \in Redirected({">"})
      BY <3>3
    <3>5. \A r \in Range(scanned.redirs) : r[1] \in {">", ">>"} => r[2] \in Redirected({">", ">>"})
      BY <3>3
    <3> QED
      BY <3>1, <3>4, <3>5 DEF Reopened, FileStep
  <2> QED
    BY <1>1, <1>2, <2>1, <2>2, FilesKept DEF Inv, FilesStay
<1>7. \/ stage = NumStages /\ pc' = "execute" /\ stage' = 1
      \/ stage < NumStages /\ pc' = "parse" /\ stage' = stage + 1
  BY <1>1, <1>2, <1>3 DEF ParsesStage
<1>8. Position'
  <2>1. stage' \in Nat /\ stage' \in 1 .. NumStages
    BY <1>2, <1>3, <1>7
  <2>2. NumStages' = NumStages
    BY <1>1 DEF NumStages, Command
  <2>3. pc' = "execute" => stage' = 1
    BY <1>7
  <2>4. pc' \in {"execute", "parse"}
    BY <1>7
  <2> QED
    BY <1>1, <1>2, <2>1, <2>2, <2>3, <2>4 DEF Position
<1>9. RedirsOk'
  <2>1. InputRedir(files, scanned) \in Handed /\ OutputRedir(files, scanned) \in Handed
    BY <1>3, <1>5, FoundIs DEF InputRedir, OutputRedir
  <2>2. Asked(rout, cmd)
    BY <1>1 DEF Inv, RedirsOk, Busy
  <2>3. stage = NumStages => Asked(OutputRedir(files, scanned), cmd)
    <3>1. LET redir == OutputRedir(files, scanned)
          IN  redir = Nothing \/ redir[1] = "error" \/ IsLastOf(redir, scanned.redirs, ops)
      BY <1>3, <1>5, FoundIs DEF OutputRedir
    <3> QED
      BY <1>3, <3>1 DEF Asked
  <2> HIDE DEF scanned
  <2>4. rin' \in Handed /\ rout' \in Handed /\ Asked(rout', cmd)
    BY <1>1, <1>5, <2>1, <2>2, <2>3
  <2>5. Asked(rout, cmd)'
    BY <1>1, <2>4 DEF Asked
  <2> QED
    BY <2>4, <2>5 DEF RedirsOk
<1>10. FdsOk'
  BY <1>1, <1>7, NoEnds, FdsKept DEF Inv
<1>11. ProcsOk'
  <2>1. \A p \in DOMAIN procs : Belongs(procs[p]) => Belongs(procs[p])'
    BY <1>1, <1>7 DEF Belongs
  <2> QED
    BY <1>1, <1>6, <2>1, ProcsKept DEF Inv
<1> QED
  BY <1>4, <1>6, <1>8, <1>9, <1>10, <1>11 DEF Inv

(* A builtin is given up before it runs (pipes.c:118-124).                 *)
LEMMA GivesUp ==
  ASSUME Inv, pc \in {"execute", "redirect"}, NextCommand, fds' = Restored(fds),
         UNCHANGED <<procs, files, place, failed>>
  PROVE  Inv'
<1>1. Busy
  BY DEF Busy
<1>2. /\ CommandsOk' /\ Position' /\ RedirsOk'
      /\ cmd \in Nat /\ cmd' \in Nat /\ cmd <= cmd' /\ cmds' = cmds /\ before' = before
      /\ lines' = lines /\ dirs' = dirs /\ pc' \in {"prompt", "parse"}
  BY <1>1, NextKeeps
<1>3. FilesOk' /\ FilesStay
  BY <1>2, FilesUnchanged DEF Inv
<1>4. ProcsOk'
  BY <1>1, <1>3, NextProcs
<1>5. FdsOk'
  BY <1>2, RestoredFds
<1>6. PlaceOk'
  BY <1>2, PlaceKept DEF Inv
<1> QED
  BY <1>2, <1>3, <1>4, <1>5, <1>6 DEF Inv

(* The shell's stdin becomes that of a builtin (redirection.c:182-186).    *)
LEMMA RedirectsInputKeeps ==
  ASSUME Inv, RedirectsInput
  PROVE  Inv'
<1>1. Busy /\ pc = "execute" /\ IsBuiltin /\ UNCHANGED <<procs, files, place, failed>>
  BY DEF RedirectsInput, Busy
<1>2. CASE fds' = Restored(fds) /\ NextCommand
  BY <1>1, <1>2, GivesUp
<1>3. CASE /\ ~Refused /\ pc' = "redirect" /\ fds' = [fds EXCEPT !.in = Onto(rin, @)]
           /\ UNCHANGED <<lines, cmds, cmd, stage, rin, rout, before, dirs>>
  <2>1. CommandsOk' /\ PlaceOk' /\ cmd \in Nat /\ rin \in Handed
    BY <1>1, <1>3, CommandsKept, PlaceKept DEF Inv, Position, RedirsOk
  <2>2. FilesOk' /\ FilesStay
    BY <1>1, <1>3, <2>1, FilesUnchanged DEF Inv
  <2>3. Position'
    BY <1>1, <1>3 DEF Inv, Position, Busy, NumStages, Command
  <2>4. RedirsOk'
    BY <1>1, <1>3 DEF Inv, RedirsOk, Busy, Asked
  <2>5. FdsOk'
    <3> DEFINE in2 == Onto(rin, Tty)
    <3>1. /\ fds \in [in : Stream, out : Stream, ends : SUBSET EndsUpTo(lines)]
          /\ fds.in = Tty /\ fds.out = Tty /\ (failed \/ fds.ends = {})
      BY <1>1, NoEnds DEF Inv, FdsOk
    <3>2. in2 \in Stream /\ (in2 = Tty \/ in2[1] = "file")
      BY <2>1 DEF Onto, Stream, Handed
    <3>3. fds' = [fds EXCEPT !.in = in2]
      BY <1>3, <3>1
    <3> HIDE DEF in2
    <3>4. /\ fds' \in [in : Stream, out : Stream, ends : SUBSET EndsUpTo(lines)]
          /\ fds'.in = in2 /\ fds'.out = Tty /\ fds'.ends = fds.ends
      BY <3>1, <3>2, <3>3
    <3>5. IsBuiltin' /\ ~Refused' /\ EndsUpTo(lines)' = EndsUpTo(lines)
      BY <1>1, <1>3 DEF IsBuiltin, NumStages, Argv, Command, Refused
    <3>6. failed' \/ fds'.ends \subseteq OwnEnds'
      BY <1>1, <3>1, <3>4
    <3> QED
      BY <1>3, <3>2, <3>4, <3>5, <3>6 DEF FdsOk
  <2>6. ProcsOk'
    <3>1. \A p \in DOMAIN procs : Belongs(procs[p]) => Belongs(procs[p])'
      BY <1>1, <1>3 DEF Belongs
    <3> QED
      BY <1>1, <1>3, <2>2, <3>1, ProcsKept DEF Inv
  <2> QED
    BY <2>1, <2>2, <2>3, <2>4, <2>5, <2>6 DEF Inv
<1> QED
  BY <1>2, <1>3 DEF RedirectsInput

(* Its stdout does, or neither (redirection.c:188-194).                    *)
LEMMA RedirectsOutputKeeps ==
  ASSUME Inv, RedirectsOutput
  PROVE  Inv'
<1>1. Busy /\ pc = "redirect" /\ UNCHANGED <<procs, place, failed>>
  BY DEF RedirectsOutput, Busy
<1>2. CASE fds' = Restored(fds) /\ NextCommand /\ UNCHANGED files
  BY <1>1, <1>2, GivesUp
<1>3. CASE /\ pc' = "builtin" /\ fds' = [fds EXCEPT !.out = Onto(rout, @)]
           /\ files' = Opened(rout)
           /\ UNCHANGED <<lines, cmds, cmd, stage, rin, rout, before, dirs>>
  <2>1. /\ cmd \in Nat /\ cmd \in 1 .. Len(cmds) /\ rout \in Handed
        /\ Asked(rout, cmd) /\ rout[1] # "error"
    BY <1>1 DEF Inv, Position, RedirsOk, FdsOk, Refused
  <2>2. /\ files' \in [Token -> SUBSET Int] /\ \A f \in Token : FileStep(f)
        /\ rout # Nothing => /\ SendsTo(cmd, rout[2]) /\ rout[2] \in Token
                             /\ files'[rout[2]] # Absent
    BY <1>3, <2>1, OpenedSteps DEF Inv
  <2>3. FilesOk' /\ FilesStay
    BY <1>3, <2>1, <2>2, FilesKept DEF Inv, FilesStay
  <2>4. CommandsOk' /\ PlaceOk'
    BY <1>1, <1>3, CommandsKept, PlaceKept DEF Inv
  <2>5. Position'
    BY <1>1, <1>3 DEF Inv, Position, Busy, NumStages, Command
  <2>6. RedirsOk'
    BY <1>1, <1>3 DEF Inv, RedirsOk, Busy, Asked
  <2>7. FdsOk'
    <3> DEFINE out2 == Onto(rout, Tty)
    <3>1. /\ fds \in [in : Stream, out : Stream, ends : SUBSET EndsUpTo(lines)]
          /\ fds.in = Tty \/ fds.in[1] = "file"
          /\ fds.out = Tty /\ (failed \/ fds.ends = {}) /\ IsBuiltin
      BY <1>1, NoEnds DEF Inv, FdsOk
    <3>2. out2 \in Stream
      BY <2>1 DEF Onto, Stream, Handed
    <3>3. fds' = [fds EXCEPT !.out = out2]
      BY <1>3, <3>1
    <3>4. out2 = Tty \/ SentBy(out2, cmd)'
      <4>1. rout # Nothing => SendsTo(cmd, rout[2])'
        BY <1>3, <2>2 DEF SendsTo
      <4> QED
        BY <1>3, <2>2, <4>1 DEF Onto, SentBy
    <3> HIDE DEF out2
    <3>5. /\ fds' \in [in : Stream, out : Stream, ends : SUBSET EndsUpTo(lines)]
          /\ fds'.in = fds.in /\ fds'.out = out2 /\ fds'.ends = fds.ends
      BY <3>1, <3>2, <3>3
    <3>6. fds'.out = Tty \/ SentBy(fds.out, cmd)'
      BY <1>3, <3>4, <3>5 DEF out2, SentBy, SendsTo
    <3>7. IsBuiltin' /\ EndsUpTo(lines)' = EndsUpTo(lines)
      BY <1>3, <3>1 DEF IsBuiltin, NumStages, Argv, Command
    <3>8. failed' \/ fds'.ends \subseteq OwnEnds'
      BY <1>1, <3>1, <3>5
    <3> QED
      BY <1>3, <3>1, <3>5, <3>6, <3>7, <3>8 DEF FdsOk
  <2>8. ProcsOk'
    <3>1. \A p \in DOMAIN procs : Belongs(procs[p]) => Belongs(procs[p])'
      BY <1>1, <1>3 DEF Belongs
    <3> QED
      BY <1>1, <1>3, <2>3, <3>1, ProcsKept DEF Inv
  <2> QED
    BY <2>3, <2>4, <2>5, <2>6, <2>7, <2>8 DEF Inv
<1> QED
  BY <1>2, <1>3 DEF RedirectsOutput

(* The builtin runs and the descriptors are put back (pipes.c:126-133).    *)
LEMMA RunsKeeps ==
  ASSUME Inv, RunsBuiltin
  PROVE  Inv'
<1>1. /\ pc = "builtin" /\ fds' = Restored(fds)
      /\ files' = files \/ files' = WrittenTo(fds.out, cmd)
      /\ place' = IF Argv(1)[1] = "hop" THEN Hop(dirs, place, Tail(Argv(1))) ELSE place
      /\ UNCHANGED <<procs, failed>>
  BY DEF RunsBuiltin
<1>2. Busy /\ cmd \in Nat /\ cmd \in 1 .. Len(cmds) /\ IsBuiltin
  BY <1>1 DEF Inv, Position, FdsOk, Busy
<1>3. \/ pc' = "gone" /\ UNCHANGED <<lines, cmds, cmd, stage, rin, rout, before, dirs>>
      \/ NextCommand
  BY DEF RunsBuiltin
<1>4. /\ CommandsOk' /\ Position' /\ RedirsOk' /\ dirs' = dirs /\ lines' = lines
      /\ cmd' \in Nat /\ cmd <= cmd' /\ cmds' = cmds /\ before' = before
      /\ pc' \in {"prompt", "parse", "gone"}
  <2>1. CASE pc' = "gone" /\ UNCHANGED <<lines, cmds, cmd, stage, rin, rout, before, dirs>>
    <3>1. CommandsOk'
      BY <2>1, CommandsKept DEF Inv
    <3>2. Position' /\ RedirsOk'
      BY <1>2, <2>1 DEF Inv, Position, RedirsOk, Busy
    <3> QED
      BY <1>2, <2>1, <3>1, <3>2
  <2>2. CASE NextCommand
    BY <1>2, <2>2, NextKeeps
  <2> QED
    BY <1>3, <2>1, <2>2
<1>5. /\ fds \in [in : Stream, out : Stream, ends : SUBSET EndsUpTo(lines)]
      /\ fds.out = Tty \/ SentBy(fds.out, cmd)
      /\ failed \/ fds.ends = {}
  BY <1>1, NoEnds DEF Inv, FdsOk
<1>6. FilesOk' /\ FilesStay
  <2>1. fds.out[1] = "file" => SentBy(fds.out, cmd)
    BY <1>5 DEF Tty
  <2>2. files' \in [Token -> SUBSET Int] /\ \A f \in Token : FileStep(f)
    <3>1. CASE files' = files
      BY <3>1 DEF Inv, FilesOk, FileStep
    <3>2. CASE files' = WrittenTo(fds.out, cmd)
      BY <1>2, <2>1, <3>2, WrittenSteps DEF Inv
    <3> QED
      BY <1>1, <3>1, <3>2
  <2> QED
    BY <1>2, <1>4, <2>2, FilesKept DEF Inv, FilesStay
<1>7. FdsOk'
  BY <1>1, <1>4, RestoredFds
<1>8. ProcsOk'
  <2>1. CASE pc' = "gone" /\ UNCHANGED <<lines, cmds, cmd, stage, rin, rout, before, dirs>>
    <3>1. \A p \in DOMAIN procs : Belongs(procs[p]) => Belongs(procs[p])'
      BY <1>1, <2>1 DEF Belongs
    <3> QED
      BY <1>1, <1>4, <1>6, <3>1, ProcsKept DEF Inv
  <2>2. CASE NextCommand
    BY <1>1, <1>2, <1>6, <2>2, NextProcs
  <2> QED
    BY <1>3, <2>1, <2>2
<1>9. PlaceOk'
  <2>1. dirs \in SUBSET Dir /\ place \in [cwd : Dir, prev : Dir \cup {NoDir}]
        /\ place.cwd \in dirs
    BY DEF Inv, PlaceOk
  <2>2. Tail(Argv(1)) \in Seq(Token)
    BY <1>2, BuiltinRuns DEF Inv
  <2>3. Hop(dirs, place, Tail(Argv(1))) \in [cwd : dirs, prev : Dir \cup {NoDir}]
    BY <2>1, <2>2, HopTyped
  <2>4. place' \in [cwd : dirs, prev : Dir \cup {NoDir}]
    BY <1>1, <2>1, <2>3
  <2> QED
    BY <1>4, <2>1, <2>4 DEF PlaceOk
<1> QED
  BY <1>4, <1>6, <1>7, <1>8, <1>9 DEF Inv

(* A child when it is forked.                                              *)
LEMMA ChildTyped ==
  ASSUME Inv, Busy, pc \notin {"redirect", "builtin"},
         NEW i \in 1 .. NumStages, NEW c, c = Child(i)
  PROVE  /\ c \in Process
         /\ c.cmd = cmd /\ c.stage = i /\ c.of = Len(cmds[cmd])
         /\ c.rout = rout /\ c.out = Tty /\ c.ends = fds.ends /\ c.state = "new"
<1>1. cmd \in Nat /\ cmd \in 1 .. Len(cmds) /\ rin \in Handed /\ rout \in Handed
  BY DEF Inv, Position, RedirsOk
<1>2. NumStages \in Nat /\ NumStages = Len(cmds[cmd]) /\ i \in Nat
  BY <1>1, StagesThere DEF Inv, NumStages, Command
<1>3. Argv(i) \in Seq(Token)
  BY <1>1, ArgvTyped DEF Inv
<1>4. IsBackground \in BOOLEAN
  BY DEF IsBackground
<1>5. /\ fds.in = Tty /\ fds.out = Tty /\ Tty \in Stream
      /\ fds.ends \subseteq EndsUpTo(lines)
  BY DEF Inv, FdsOk, Stream
<1>6. fds.ends \in SUBSET ({"r", "w"} \X (Nat \X Nat \X Nat))
  <2>1. EndsUpTo(lines) \subseteq {"r", "w"} \X (Nat \X Nat \X Nat)
    BY DEF Inv, Position, EndsUpTo
  <2> QED
    BY <1>5, <2>1
<1>7. "new" \in ProcState
  BY DEF ProcState
<1>8. c = [cmd |-> cmd, stage |-> i, of |-> NumStages, argv |-> Argv(i),
           rin |-> rin, rout |-> rout, background |-> IsBackground,
           in |-> fds.in, out |-> fds.out, ends |-> fds.ends, state |-> "new"]
  BY DEF Child
<1> QED
  BY <1>1, <1>2, <1>3, <1>4, <1>5, <1>6, <1>7, <1>8 DEF Process

(* One more process, of a stage that had none.                             *)
LEMMA ForkKeepsProcs ==
  ASSUME Inv, Busy, pc \notin {"redirect", "builtin"},
         NEW i \in 1 .. NumStages, NEW c, c = Child(i),
         procs' = Append(procs, c), cmds' = cmds, lines' = lines, FilesStay,
         \A p \in DOMAIN procs :
           /\ Belongs(procs[p]) => Belongs(procs[p])'
           /\ procs[p].cmd # cmd \/ procs[p].stage # i,
         cmd <= cmd',
         pc' \in {"parse", "execute", "redirect", "builtin", "pipes"} => cmd < cmd',
         pc' = "fork" /\ cmd = cmd' => i < stage'
  PROVE  ProcsOk'
<1>1. /\ c \in Process
      /\ c.cmd = cmd /\ c.stage = i /\ c.of = Len(cmds[cmd])
      /\ c.rout = rout /\ c.out = Tty /\ c.ends = fds.ends /\ c.state = "new"
  BY ChildTyped
<1>2. procs \in Seq(Process) /\ Len(procs) \in Nat /\ DOMAIN procs = 1 .. Len(procs)
  BY DEF Inv, ProcsOk
<1>3. /\ procs' \in Seq(Process) /\ DOMAIN procs' = 1 .. Len(procs) + 1
      /\ procs'[Len(procs) + 1] = c /\ \A p \in DOMAIN procs : procs'[p] = procs[p]
  BY <1>1, <1>2
<1>4. ProcOk(c)'
  <2>1. cmd \in 1 .. Len(cmds) /\ NumStages = Len(cmds[cmd])
    BY DEF Inv, Position, NumStages, Command
  <2>2. Belongs(c)'
    BY <1>1, <2>1 DEF Belongs
  <2>3. Asked(c.rout, c.cmd)'
    <3>1. Asked(rout, cmd)
      BY DEF Inv, RedirsOk
    <3> QED
      BY <1>1, <3>1 DEF Asked
  <2>4. c.ends \subseteq EndsUpTo(lines)'
    BY <1>1 DEF Inv, FdsOk, EndsUpTo
  <2> QED
    BY <1>1, <2>2, <2>3, <2>4 DEF ProcOk
<1>5. ASSUME NEW p \in DOMAIN procs PROVE ProcOk(procs[p])'
  <2> DEFINE d == procs[p]
  <2>1. ProcOk(d) /\ Belongs(d)
    BY ProcBelongs DEF Inv
  <2> SUFFICES ASSUME NEW e, e = d, ProcOk(e), Belongs(e)' PROVE ProcOk(e)'
    <3>1. procs'[p] = procs[p] /\ Belongs(d)'
      BY <1>3, <2>1
    <3> QED
      BY <2>1, <3>1
  <2>2. Asked(e.rout, e.cmd) => Asked(e.rout, e.cmd)'
    BY DEF Asked
  <2>3. e.state = "running" /\ e.out[1] = "file" => SentBy(e.out, e.cmd)'
    BY SentByKept DEF ProcOk
  <2>4. e.ends \subseteq EndsUpTo(lines)'
    BY DEF ProcOk, EndsUpTo
  <2> QED
    BY <2>2, <2>3, <2>4 DEF ProcOk
<1>6. \A p \in DOMAIN procs' : ProcOk(procs[p])'
  BY <1>2, <1>3, <1>4, <1>5
<1>7. \A p, q \in DOMAIN procs' :
        p # q => procs'[p].cmd # procs'[q].cmd \/ procs'[p].stage # procs'[q].stage
  <2>1. \A p, q \in DOMAIN procs :
          p # q => procs[p].cmd # procs[q].cmd \/ procs[p].stage # procs[q].stage
    BY DEF Inv, ProcsOk
  <2>2. \A p \in DOMAIN procs' : p \in DOMAIN procs \/ p = Len(procs) + 1
    BY <1>2, <1>3
  <2> QED
    BY <1>1, <1>3, <2>1, <2>2
<1> QED
  BY <1>3, <1>6, <1>7 DEF ProcsOk

LEMMA Appended ==
  ASSUME Inv, NEW c, procs' = Append(procs, c)
  PROVE  \A p \in DOMAIN procs : procs'[p] = procs[p]
BY DEF Inv, ProcsOk

(* A command on its own is forked (pipes.c:141-209).                       *)
LEMMA ForksCommandKeeps ==
  ASSUME Inv, ForksCommand
  PROVE  Inv'
<1>1. /\ Busy /\ pc = "execute" /\ NumStages = 1 /\ stage = 1 /\ cmd \in Nat
      /\ UNCHANGED <<fds, files, place, failed>>
  BY DEF ForksCommand, Inv, Position, Busy
<1>2. failed \/ fds.ends = {}
  BY <1>1, NoEnds
<1>3. CASE NextCommand /\ UNCHANGED procs
  BY <1>1, <1>2, <1>3, GoesOn
<1>4. CASE procs' = Append(procs, Child(1))
  <2>1. \/ NextCommand
        \/ pc' = "wait" /\ UNCHANGED <<lines, cmds, cmd, stage, rin, rout, before, dirs>>
    BY <1>4 DEF ForksCommand
  <2>2. PICK c : c = Child(1) /\ procs' = Append(procs, c)
    BY <1>4
  <2>3. /\ CommandsOk' /\ Position' /\ RedirsOk' /\ dirs' = dirs /\ lines' = lines
        /\ cmd' \in Nat /\ cmd <= cmd' /\ cmds' = cmds /\ before' = before
        /\ pc' \in {"prompt", "parse", "wait"} /\ (pc' = "parse" => cmd < cmd')
    <3>1. CASE pc' = "wait" /\ UNCHANGED <<lines, cmds, cmd, stage, rin, rout, before, dirs>>
      <4>1. CommandsOk'
        BY <3>1, CommandsKept DEF Inv
      <4>2. Position' /\ RedirsOk'
        BY <1>1, <3>1 DEF Inv, Position, RedirsOk, Busy, NumStages, Command, Asked
      <4> QED
        BY <1>1, <3>1, <4>1, <4>2
    <3>2. CASE NextCommand
      BY <1>1, <3>2, NextKeeps
    <3> QED
      BY <2>1, <3>1, <3>2
  <2>4. FilesOk' /\ FilesStay
    BY <1>1, <2>3, FilesUnchanged DEF Inv
  <2>5. FdsOk' /\ PlaceOk'
    BY <1>1, <1>2, <2>3, FdsKept, PlaceKept DEF Inv
  <2>6. ASSUME NEW p \in DOMAIN procs
        PROVE  /\ Belongs(procs[p]) => Belongs(procs[p])'
               /\ procs[p].cmd # cmd
    <3>1. Belongs(procs[p]) /\ procs[p].cmd \in Nat
      BY ProcBelongs DEF Inv, Process
    <3>2. procs'[p] = procs[p]
      BY <2>2, Appended
    <3>3. procs[p].cmd # cmd
      BY <1>1, <3>1 DEF Belongs
    <3>4. Belongs(procs[p])'
      <4>1. CASE NextCommand
        BY <1>1, <3>2, <4>1, NextBelongs
      <4>2. CASE pc' = "wait" /\ UNCHANGED <<lines, cmds, cmd, stage, rin, rout, before, dirs>>
        BY <3>1, <3>2, <4>2 DEF Belongs
      <4> QED
        BY <2>1, <4>1, <4>2
    <3> QED
      BY <3>3, <3>4
  <2>7. ProcsOk'
    <3>1. 1 \in 1 .. NumStages
      BY <1>1
    <3>2. /\ pc \notin {"redirect", "builtin"} /\ pc' # "fork"
          /\ pc' \in {"parse", "execute", "redirect", "builtin", "pipes"} => cmd < cmd'
      BY <1>1, <2>3
    <3> QED
      BY <1>1, <2>2, <2>3, <2>4, <2>6, <3>1, <3>2, ForkKeepsProcs
  <2> QED
    BY <2>3, <2>4, <2>5, <2>7 DEF Inv
<1> QED
  BY <1>3, <1>4 DEF ForksCommand

(* A pipeline begins.                                                      *)
LEMMA StartsPipelineKeeps ==
  ASSUME Inv, StartsPipeline
  PROVE  Inv'
<1>1. /\ pc = "execute" /\ NumStages > 1 /\ pc' = "pipes"
      /\ UNCHANGED <<lines, cmds, cmd, stage, rin, rout, fds, procs, files, before,
                     place, dirs, failed>>
  BY DEF StartsPipeline
<1>2. CommandsOk' /\ PlaceOk' /\ cmd \in Nat
  BY <1>1, CommandsKept, PlaceKept DEF Inv, Position
<1>3. FilesOk' /\ FilesStay
  BY <1>1, <1>2, FilesUnchanged DEF Inv
<1>4. Position' /\ RedirsOk'
  BY <1>1 DEF Inv, Position, RedirsOk, Busy, NumStages, Command, Asked
<1>5. FdsOk'
  BY <1>1, NoEnds, FdsKept DEF Inv
<1>6. ProcsOk'
  <2>1. \A p \in DOMAIN procs : Belongs(procs[p]) => Belongs(procs[p])'
    BY <1>1 DEF Belongs
  <2> QED
    BY <1>1, <1>3, <2>1, ProcsKept DEF Inv
<1> QED
  BY <1>2, <1>3, <1>4, <1>5, <1>6 DEF Inv

(* The pipes of a command stay the same while it is executed.              *)
LEMMA OwnEndsNext ==
  ASSUME lines' = lines, cmds' = cmds, cmd' = cmd
  PROVE  OwnEnds' = IF pc' = "pipes" THEN PipeEnds(stage' - 1)
                    ELSE IF pc' \in {"fork", "close"} THEN PipeEnds(NumStages - 1) ELSE {}
BY DEF OwnEnds, PipeEnds, EndsOf, Pipe, NumStages, Command

(* A pipe is made, or fails and stays behind (pipes.c:230-236).            *)
LEMMA MakesPipeKeeps ==
  ASSUME Inv, MakesPipe
  PROVE  Inv'
<1>1. /\ Busy /\ pc = "pipes" /\ UNCHANGED <<procs, files, place>>
  BY DEF MakesPipe, Busy
<1>2. CASE failed' = TRUE /\ NextCommand /\ UNCHANGED fds
  BY <1>1, <1>2, GoesOn
<1>3. CASE /\ fds' = [fds EXCEPT !.ends = @ \cup EndsOf(Pipe(stage))]
           /\ IF stage = NumStages - 1 THEN pc' = "fork" /\ stage' = 1
              ELSE pc' = pc /\ stage' = stage + 1
           /\ UNCHANGED <<lines, cmds, cmd, rin, rout, before, dirs, failed>>
  <2>1. CommandsOk' /\ PlaceOk'
    BY <1>1, <1>3, CommandsKept, PlaceKept DEF Inv
  <2>2. /\ cmd \in Nat /\ cmd \in 1 .. Len(cmds) /\ stage \in 1 .. NumStages
        /\ stage < NumStages /\ lines \in 1 .. lines /\ lines \in 0 .. MaxLines /\ lines # 0
    BY <1>1, ShellLineAssumption DEF Inv, Position
  <2>3. NumStages \in Nat \ {0} /\ NumStages' = NumStages
    BY <1>3, <2>2, StagesThere DEF Inv, NumStages, Command
  <2>4. \/ pc' = "fork" /\ stage' = 1 /\ stage = NumStages - 1
        \/ pc' = "pipes" /\ stage' = stage + 1 /\ stage + 1 < NumStages
    BY <1>1, <1>3, <2>2, <2>3
  <2>5. Position'
    <3>1. stage' \in Nat /\ stage' \in 1 .. NumStages /\ (pc' = "pipes" => stage' < NumStages)
      BY <2>2, <2>3, <2>4
    <3>2. pc' \in {"fork", "pipes"}
      BY <2>4
    <3> QED
      BY <1>3, <2>2, <2>3, <3>1, <3>2 DEF Position
  <2>6. RedirsOk'
    BY <1>1, <1>3 DEF Inv, RedirsOk, Busy, Asked
  <2>7. FilesOk' /\ FilesStay
    BY <1>1, <1>3, <2>2, FilesUnchanged DEF Inv
  <2>8. ProcsOk'
    <3>1. \A p \in DOMAIN procs : Belongs(procs[p]) => Belongs(procs[p])'
      <4>1. \A p \in DOMAIN procs : procs[p].cmd \in Nat
        BY ProcBelongs DEF Inv, Process
      <4> QED
        BY <1>1, <1>3, <2>2, <2>4, <4>1 DEF Belongs
    <3> QED
      BY <1>1, <1>3, <2>7, <3>1, ProcsKept DEF Inv
  <2>9. FdsOk'
    <3>1. /\ fds \in [in : Stream, out : Stream, ends : SUBSET EndsUpTo(lines)]
          /\ fds.in = Tty /\ fds.out = Tty /\ (failed \/ fds.ends \subseteq PipeEnds(stage - 1))
      BY <1>1 DEF Inv, FdsOk, OwnEnds
    <3>2. EndsOf(Pipe(stage)) \subseteq EndsUpTo(lines)
      BY <2>2 DEF EndsOf, Pipe, EndsUpTo
    <3>3. /\ fds' \in [in : Stream, out : Stream, ends : SUBSET EndsUpTo(lines)]
          /\ fds'.in = Tty /\ fds'.out = Tty /\ fds'.ends = fds.ends \cup EndsOf(Pipe(stage))
      BY <1>3, <3>1, <3>2
    <3>4. PipeEnds(stage) = PipeEnds(stage - 1) \cup EndsOf(Pipe(stage))
      <4>1. 1 .. stage = (1 .. stage - 1) \cup {stage}
        BY <2>2
      <4> QED
        BY <4>1 DEF PipeEnds
    <3>5. OwnEnds' = PipeEnds(stage)
      <4>1. OwnEnds' = IF pc' = "pipes" THEN PipeEnds(stage' - 1)
                       ELSE IF pc' \in {"fork", "close"} THEN PipeEnds(NumStages - 1) ELSE {}
        BY <1>3, OwnEndsNext
      <4>2. CASE pc' = "fork" /\ stage = NumStages - 1
        BY <4>1, <4>2
      <4>3. CASE pc' = "pipes" /\ stage' = stage + 1
        <5>1. stage' - 1 = stage
          BY <2>2, <4>3
        <5>2. OwnEnds' = PipeEnds(stage' - 1)
          BY <4>1, <4>3
        <5> QED
          BY <5>1, <5>2
      <4> QED
        BY <2>4, <4>2, <4>3
    <3>6. failed' \/ fds'.ends \subseteq OwnEnds'
      BY <1>3, <3>1, <3>3, <3>4, <3>5
    <3>7. pc' \notin {"redirect", "builtin"} /\ EndsUpTo(lines)' = EndsUpTo(lines)
      BY <1>3, <2>4
    <3> QED
      BY <3>3, <3>6, <3>7 DEF FdsOk
  <2> QED
    BY <2>1, <2>5, <2>6, <2>7, <2>8, <2>9 DEF Inv
<1> QED
  BY <1>2, <1>3 DEF MakesPipe

(* A stage is forked, or fork fails and the pipes stay (pipes.c:239-313).  *)
LEMMA ForksStageKeeps ==
  ASSUME Inv, ForksStage
  PROVE  Inv'
<1>1. /\ Busy /\ pc = "fork" /\ UNCHANGED <<fds, files, place>>
  BY DEF ForksStage, Busy
<1>2. CASE failed' = TRUE /\ NextCommand /\ UNCHANGED procs
  BY <1>1, <1>2, GoesOn
<1>3. CASE /\ procs' = Append(procs, Child(stage))
           /\ IF stage = NumStages THEN pc' = "close" /\ stage' = 1
              ELSE pc' = pc /\ stage' = stage + 1
           /\ UNCHANGED <<lines, cmds, cmd, rin, rout, before, dirs, failed>>
  <2>1. CommandsOk' /\ PlaceOk'
    BY <1>1, <1>3, CommandsKept, PlaceKept DEF Inv
  <2>2. /\ cmd \in Nat /\ cmd \in 1 .. Len(cmds) /\ stage \in 1 .. NumStages
        /\ lines \in 0 .. MaxLines /\ lines # 0
    BY <1>1 DEF Inv, Position
  <2>3. NumStages \in Nat \ {0} /\ NumStages' = NumStages
    BY <1>3, <2>2, StagesThere DEF Inv, NumStages, Command
  <2>4. \/ pc' = "close" /\ stage' = 1
        \/ pc' = "fork" /\ stage' = stage + 1 /\ stage + 1 <= NumStages
    BY <1>1, <1>3, <2>2, <2>3
  <2>5. Position'
    <3>1. stage' \in Nat /\ stage' \in 1 .. NumStages
      BY <2>2, <2>3, <2>4
    <3>2. pc' \in {"fork", "close"}
      BY <2>4
    <3> QED
      BY <1>3, <2>2, <2>3, <3>1, <3>2 DEF Position
  <2>6. RedirsOk'
    BY <1>1, <1>3 DEF Inv, RedirsOk, Busy, Asked
  <2>7. FilesOk' /\ FilesStay
    BY <1>1, <1>3, <2>2, FilesUnchanged DEF Inv
  <2>8. FdsOk'
    <3>1. OwnEnds' = PipeEnds(NumStages - 1) /\ OwnEnds = PipeEnds(NumStages - 1)
      BY <1>1, <1>3, <2>4, OwnEndsNext DEF OwnEnds
    <3>2. failed' \/ fds.ends \subseteq OwnEnds'
      BY <1>3, <3>1 DEF Inv, FdsOk
    <3> QED
      BY <1>1, <1>3, <2>4, <3>2, FdsKept DEF Inv
  <2>9. ASSUME NEW p \in DOMAIN procs
        PROVE  /\ Belongs(procs[p]) => Belongs(procs[p])'
               /\ procs[p].cmd # cmd \/ procs[p].stage # stage
    <3> DEFINE c == procs[p]
    <3>1. Belongs(c) /\ c.cmd \in Nat /\ c.stage \in Nat
      BY ProcBelongs DEF Inv, Process
    <3>2. c' = c
      BY <1>3, Appended
    <3> HIDE DEF c
    <3>3. c.cmd = cmd => c.stage < stage
      BY <1>1, <3>1 DEF Belongs
    <3>4. c.cmd # cmd \/ c.stage # stage
      BY <2>2, <3>1, <3>3
    <3>5. pc' = "fork" /\ c.cmd = cmd => c.stage < stage'
      BY <2>2, <2>4, <3>1, <3>3
    <3>6. Belongs(c)'
      BY <1>3, <2>4, <3>1, <3>2, <3>5 DEF Belongs
    <3> QED
      BY <3>4, <3>6 DEF c
  <2>10. ProcsOk'
    <3>1. PICK c : c = Child(stage) /\ procs' = Append(procs, c)
      BY <1>3
    <3>2. /\ pc \notin {"redirect", "builtin"} /\ cmd <= cmd'
          /\ pc' \notin {"parse", "execute", "redirect", "builtin", "pipes"}
          /\ (pc' = "fork" => stage < stage')
      BY <1>1, <1>3, <2>2, <2>4
    <3> QED
      BY <1>1, <1>3, <2>2, <2>7, <2>9, <3>1, <3>2, ForkKeepsProcs
  <2> QED
    BY <2>1, <2>5, <2>6, <2>7, <2>8, <2>10 DEF Inv
<1> QED
  BY <1>2, <1>3 DEF ForksStage

(* After the pipes are closed, and when a stage has been waited for.       *)
LEMMA ClosesPipesKeeps ==
  ASSUME Inv, ClosesPipes
  PROVE  Inv'
<1>1. /\ Busy /\ pc = "close" /\ cmd \in Nat
      /\ fds' = [fds EXCEPT !.ends = @ \ PipeEnds(NumStages - 1)]
      /\ UNCHANGED <<procs, files, place, failed>>
  BY DEF ClosesPipes, Inv, Position, Busy
<1>2. \/ NextCommand
      \/ pc' = "wait" /\ UNCHANGED <<lines, cmds, cmd, stage, rin, rout, before, dirs>>
  BY DEF ClosesPipes
<1>3. /\ CommandsOk' /\ Position' /\ RedirsOk' /\ dirs' = dirs /\ lines' = lines
      /\ cmd' \in Nat /\ cmd <= cmd' /\ cmds' = cmds /\ before' = before
      /\ pc' \in {"prompt", "parse", "wait"}
  <2>1. CASE pc' = "wait" /\ UNCHANGED <<lines, cmds, cmd, stage, rin, rout, before, dirs>>
    <3>1. CommandsOk'
      BY <2>1, CommandsKept DEF Inv
    <3>2. Position' /\ RedirsOk'
      BY <1>1, <2>1 DEF Inv, Position, RedirsOk, Busy, NumStages, Command, Asked
    <3> QED
      BY <1>1, <2>1, <3>1, <3>2
  <2>2. CASE NextCommand
    BY <1>1, <2>2, NextKeeps
  <2> QED
    BY <1>2, <2>1, <2>2
<1>4. FilesOk' /\ FilesStay
  BY <1>1, <1>3, FilesUnchanged DEF Inv
<1>5. FdsOk'
  <2>1. /\ fds \in [in : Stream, out : Stream, ends : SUBSET EndsUpTo(lines)]
        /\ fds.in = Tty /\ fds.out = Tty
        /\ failed \/ fds.ends \subseteq PipeEnds(NumStages - 1)
    BY <1>1 DEF Inv, FdsOk, OwnEnds
  <2> DEFINE own == PipeEnds(NumStages - 1)
  <2> HIDE DEF own
  <2>2. fds' = [fds EXCEPT !.ends = @ \ own]
    BY <1>1 DEF own
  <2>3. /\ fds' \in [in : Stream, out : Stream, ends : SUBSET EndsUpTo(lines)]
        /\ fds'.in = Tty /\ fds'.out = Tty /\ fds'.ends = fds.ends \ own
    BY <2>1, <2>2
  <2>4. failed' \/ fds'.ends \subseteq OwnEnds'
    BY <1>1, <2>1, <2>3 DEF own
  <2> QED
    BY <1>3, <2>3, <2>4 DEF FdsOk, EndsUpTo
<1>6. ProcsOk'
  <2>1. ASSUME NEW p \in DOMAIN procs PROVE Belongs(procs[p]) => Belongs(procs[p])'
    <3>1. CASE NextCommand
      BY <1>1, <3>1, NextBelongs
    <3>2. CASE pc' = "wait" /\ UNCHANGED <<lines, cmds, cmd, stage, rin, rout, before, dirs>>
      BY <1>1, <3>2 DEF Belongs
    <3> QED
      BY <1>2, <3>1, <3>2
  <2> QED
    BY <1>1, <1>3, <1>4, <2>1, ProcsKept DEF Inv
<1>7. PlaceOk'
  BY <1>1, <1>3, PlaceKept DEF Inv
<1> QED
  BY <1>3, <1>4, <1>5, <1>6, <1>7 DEF Inv

LEMMA WaitsKeeps ==
  ASSUME Inv, Waits
  PROVE  Inv'
<1>1. /\ Busy /\ pc = "wait" /\ UNCHANGED <<fds, procs, files, place, failed>>
  BY DEF Waits, Busy
<1>2. failed' \/ fds.ends = {}
  BY <1>1, NoEnds
<1>3. CASE NextCommand
  BY <1>1, <1>2, <1>3, GoesOn
<1>4. CASE /\ stage < NumStages /\ stage' = stage + 1
           /\ UNCHANGED <<pc, lines, cmds, cmd, rin, rout, before, dirs>>
  <2>1. CommandsOk' /\ PlaceOk'
    BY <1>1, <1>4, CommandsKept, PlaceKept DEF Inv
  <2>2. /\ cmd \in Nat /\ cmd \in 1 .. Len(cmds) /\ stage \in 1 .. NumStages
        /\ lines \in 0 .. MaxLines /\ lines # 0
    BY <1>1 DEF Inv, Position
  <2>3. NumStages \in Nat \ {0} /\ NumStages' = NumStages
    BY <1>4, <2>2, StagesThere DEF Inv, NumStages, Command
  <2>4. Position'
    <3>1. stage' \in Nat /\ stage' \in 1 .. NumStages
      BY <1>4, <2>2, <2>3
    <3> QED
      BY <1>1, <1>4, <2>2, <2>3, <3>1 DEF Position
  <2>5. RedirsOk'
    BY <1>1, <1>4 DEF Inv, RedirsOk, Busy, Asked
  <2>6. FilesOk' /\ FilesStay
    BY <1>1, <1>4, <2>2, FilesUnchanged DEF Inv
  <2>7. FdsOk'
    BY <1>1, <1>2, <1>4, FdsKept DEF Inv
  <2>8. ProcsOk'
    <3>1. \A p \in DOMAIN procs : Belongs(procs[p]) => Belongs(procs[p])'
      BY <1>1, <1>4 DEF Belongs
    <3> QED
      BY <1>1, <1>4, <2>6, <3>1, ProcsKept DEF Inv
  <2> QED
    BY <2>1, <2>4, <2>5, <2>6, <2>7, <2>8 DEF Inv
<1> QED
  BY <1>3, <1>4 DEF Waits

-----------------------------------------------------------------------------
(* The steps of the processes, and of somebody else.                       *)

(* The shell is where it was.                                              *)
LEMMA ShellKept ==
  ASSUME CommandsOk, Position, RedirsOk, FdsOk, FilesStay,
         UNCHANGED <<pc, lines, cmds, cmd, stage, rin, rout, fds, before, failed>>
  PROVE  CommandsOk' /\ Position' /\ RedirsOk' /\ FdsOk'
<1>1. CommandsOk'
  BY CommandsKept
<1>2. Position'
  BY DEF Position, Busy, NumStages, Command
<1>3. RedirsOk'
  BY DEF RedirsOk, Busy, Asked
<1>4. FdsOk'
  <2>1. OwnEnds' = OwnEnds /\ EndsUpTo(lines)' = EndsUpTo(lines)
    BY OwnEndsNext DEF OwnEnds
  <2>2. IsBuiltin => IsBuiltin'
    BY DEF IsBuiltin, NumStages, Argv, Command
  <2>3. SentBy(fds.out, cmd) => SentBy(fds.out, cmd)'
    <3>1. ASSUME NEW stream, NEW k, SentBy(stream, k) PROVE SentBy(stream, k)'
      BY <3>1, SentByKept
    <3> QED
      BY <3>1 DEF SentBy, SendsTo
  <2>4. Refused' <=> Refused
    BY DEF Refused
  <2> QED
    BY <2>1, <2>2, <2>3, <2>4 DEF FdsOk
<1> QED
  BY <1>1, <1>2, <1>3, <1>4

(* One process changes and gets no pipe end it did not have.               *)
LEMMA ProcessKept ==
  ASSUME ProcsOk, NEW p \in DOMAIN procs, NEW c \in Process, procs' = [procs EXCEPT ![p] = c],
         c.cmd = procs[p].cmd, c.stage = procs[p].stage, c.of = procs[p].of,
         c.rout = procs[p].rout, c.ends \subseteq procs[p].ends, c.state # "new",
         c.state = "running" /\ c.out[1] = "file" => SentBy(c.out, c.cmd)',
         FilesStay, UNCHANGED <<pc, lines, cmds, cmd, stage>>
  PROVE  ProcsOk'
<1>1. procs \in Seq(Process) /\ DOMAIN procs = 1 .. Len(procs) /\ Len(procs) \in Nat
  BY DEF ProcsOk
<1>2. /\ procs' \in Seq(Process) /\ DOMAIN procs' = DOMAIN procs /\ procs'[p] = c
      /\ \A q \in DOMAIN procs : q # p => procs'[q] = procs[q]
  BY <1>1
<1>3. ProcOk(c)'
  <2> DEFINE d == procs[p]
  <2>1. ProcOk(d)
    BY DEF ProcsOk
  <2>2. c.cmd = d.cmd /\ c.stage = d.stage /\ c.of = d.of /\ c.rout = d.rout
        /\ c.ends \subseteq d.ends
    OBVIOUS
  <2> HIDE DEF d
  <2>3. Belongs(c)'
    BY <2>1, <2>2 DEF ProcOk, Belongs
  <2>4. Asked(c.rout, c.cmd)'
    BY <2>1, <2>2 DEF ProcOk, Asked
  <2>5. c.ends \subseteq EndsUpTo(lines)'
    BY <2>1, <2>2 DEF ProcOk, EndsUpTo
  <2> QED
    BY <2>3, <2>4, <2>5 DEF ProcOk
<1>4. ASSUME NEW e, ProcOk(e) PROVE ProcOk(e)'
  <2>1. Belongs(e)'
    BY <1>4 DEF ProcOk, Belongs
  <2>2. Asked(e.rout, e.cmd)'
    BY <1>4 DEF ProcOk, Asked
  <2>3. e.state = "running" /\ e.out[1] = "file" => SentBy(e.out, e.cmd)'
    BY <1>4, SentByKept DEF ProcOk
  <2>4. e.ends \subseteq EndsUpTo(lines)'
    BY <1>4 DEF ProcOk, EndsUpTo
  <2> QED
    BY <1>4, <2>1, <2>2, <2>3, <2>4 DEF ProcOk
<1>5. \A q \in DOMAIN procs' : ProcOk(procs[q])'
  <2>1. ASSUME NEW q \in DOMAIN procs PROVE ProcOk(procs[q])'
    <3>1. CASE q = p
      BY <1>2, <1>3, <3>1
    <3>2. CASE q # p
      <4>1. ProcOk(procs[q]) /\ procs'[q] = procs[q]
        BY <1>2, <3>2 DEF ProcsOk
      <4> QED
        BY <1>4, <4>1
    <3> QED
      BY <3>1, <3>2
  <2> QED
    BY <1>2, <2>1
<1>6. \A q, r \in DOMAIN procs' :
        q # r => procs'[q].cmd # procs'[r].cmd \/ procs'[q].stage # procs'[r].stage
  <2>1. \A q \in DOMAIN procs : /\ procs'[q].cmd = procs[q].cmd
                                /\ procs'[q].stage = procs[q].stage
    BY <1>2
  <2>2. \A q, r \in DOMAIN procs :
          q # r => procs[q].cmd # procs[r].cmd \/ procs[q].stage # procs[r].stage
    BY DEF ProcsOk
  <2> QED
    BY <1>2, <2>1, <2>2
<1> QED
  BY <1>2, <1>5, <1>6 DEF ProcsOk

(* A process ends.                                                         *)
LEMMA DeadKept ==
  ASSUME ProcsOk, NEW p \in DOMAIN procs, NEW c \in Process, c = procs[p],
         procs' = [procs EXCEPT ![p] = Dead(c)],
         FilesStay, UNCHANGED <<pc, lines, cmds, cmd, stage>>
  PROVE  ProcsOk'
<1> DEFINE state == IF c.background /\ c.stage = c.of THEN "zombie" ELSE "ended"
<1>1. state \in ProcState /\ state # "new" /\ state # "running"
  BY DEF ProcState
<1>2. PICK e : e = [c EXCEPT !.state = state, !.ends = {}]
  OBVIOUS
<1>3. procs' = [procs EXCEPT ![p] = e]
  BY <1>2 DEF Dead
<1> HIDE DEF state
<1>4. e \in Process /\ e.state = state /\ e.ends = {} /\ e.cmd = c.cmd
      /\ e.stage = c.stage /\ e.of = c.of /\ e.rout = c.rout
  BY <1>1, <1>2 DEF Process
<1>5. e.state # "new" /\ e.state # "running" /\ e.ends \subseteq c.ends
  BY <1>1, <1>4
<1> QED
  BY <1>3, <1>4, <1>5, ProcessKept

(* A child up to exec (pipes.c:243-308).                                   *)
LEMMA StartsKeeps ==
  ASSUME Inv, NEW p \in DOMAIN procs, Starts(p)
  PROVE  Inv'
<1>0. PICK c : c = procs[p]
  OBVIOUS
<1> DEFINE opens == /\ ~Fails(c, InputOf(c)) /\ ~Fails(c, OutputOf(c))
                    /\ files' = Opened(OutputOf(c))
           runs == [c EXCEPT !.state = "running", !.in = StdinOf(c),
                             !.out = StdoutOf(c), !.ends = KeptEnds(c)]
<1>1. /\ c.state = "new"
      /\ \/ procs' = [procs EXCEPT ![p] = Dead(c)] /\ files' = files
         \/ procs' = [procs EXCEPT ![p] = IF c.argv = <<>> THEN Dead(c) ELSE runs] /\ opens
      /\ UNCHANGED <<pc, lines, cmds, cmd, stage, rin, rout, fds, before, place, dirs, failed>>
  BY <1>0 DEF Starts
<1>2. c \in Process /\ ProcOk(c) /\ Belongs(c) /\ cmd \in Nat /\ lines \in Nat
  BY <1>0, ProcBelongs DEF Inv, Position
<1>3. /\ c.cmd \in 1 .. Len(cmds) /\ c.cmd <= cmd /\ c.cmd \in Nat
      /\ c.rin \in Handed /\ c.rout \in Handed /\ c.stage \in Nat /\ c.of \in Nat
      /\ c.in \in Stream /\ c.out = Tty /\ Asked(c.rout, c.cmd)
  BY <1>1, <1>2 DEF Process, Belongs, ProcOk
<1>4. /\ OutputOf(c) \in Handed /\ Asked(OutputOf(c), c.cmd)
      /\ InputOf(c) \in Handed
  <2>1. Nothing \in Handed /\ Asked(Nothing, c.cmd)
    BY DEF Handed, Asked
  <2>2. c.rin # Nothing => <<"<", c.rin[2]>> \in Handed
    BY <1>3 DEF Handed, Operator
  <2> QED
    BY <1>3, <2>1, <2>2 DEF OutputOf, InputOf
<1>5. opens => OutputOf(c)[1] # "error"
  <2>1. Nothing[1] # "error"
    BY DEF Nothing
  <2> QED
    BY <2>1 DEF Fails
<1>6. /\ FilesOk' /\ FilesStay
      /\ opens /\ OutputOf(c) # Nothing =>
           /\ SendsTo(c.cmd, OutputOf(c)[2]) /\ OutputOf(c)[2] \in Token
           /\ files'[OutputOf(c)[2]] # Absent
  <2>1. CASE ~opens
    <3>1. files' = files
      BY <1>1, <2>1
    <3> HIDE DEF opens
    <3> QED
      BY <1>1, <1>2, <2>1, <3>1, FilesUnchanged DEF Inv
  <2>2. CASE opens
    <3>1. files' = Opened(OutputOf(c)) /\ OutputOf(c)[1] # "error"
      BY <1>5, <2>2
    <3> HIDE DEF opens
    <3>2. /\ files' \in [Token -> SUBSET Int] /\ \A f \in Token : FileStep(f)
          /\ OutputOf(c) # Nothing => /\ SendsTo(c.cmd, OutputOf(c)[2])
                                      /\ OutputOf(c)[2] \in Token
                                      /\ files'[OutputOf(c)[2]] # Absent
      BY <1>2, <1>3, <1>4, <3>1, OpenedSteps DEF Inv
    <3> QED
      BY <1>1, <1>2, <3>2, FilesKept DEF Inv, FilesStay
  <2> QED
    BY <2>1, <2>2
<1> HIDE DEF opens
<1>7. PICK k, out : k = c.cmd /\ out = StdoutOf(c)
  OBVIOUS
<1>8. StdinOf(c) \in Stream /\ out \in Stream /\ (opens /\ out[1] = "file" => SentBy(out, k)')
  <2>1. \A i \in Int : <<"pipe", ChildPipe(c, i)>> \in Stream
    BY <1>2, <1>3 DEF ChildPipe, Stream
  <2>2. \A redir \in Handed : redir # Nothing => <<"file", redir[2]>> \in Stream
    BY DEF Handed, Stream
  <2>3. Tty \in Stream /\ <<"null">> \in Stream
    BY DEF Stream
  <2>4. /\ Onto(InputOf(c), c.in) \in Stream
        /\ Onto(OutputOf(c), c.out) \in Stream
    BY <1>3, <1>4, <2>2, <2>3 DEF Onto
  <2>5. c.stage \in Int /\ c.stage - 1 \in Int
    BY <1>3
  <2>6. StdinOf(c) \in Stream
    BY <1>3, <2>1, <2>3, <2>4, <2>5 DEF StdinOf
  <2>7. out \in Stream
    BY <1>7, <2>1, <2>4, <2>5 DEF StdoutOf
  <2>8. ASSUME opens, out[1] = "file" PROVE SentBy(out, k)'
    <3>1. out = Onto(OutputOf(c), Tty)
      BY <1>3, <1>7, <2>8 DEF StdoutOf
    <3>2. OutputOf(c) # Nothing /\ out = <<"file", OutputOf(c)[2]>>
      BY <2>8, <3>1 DEF Onto, Tty
    <3>3. PICK f : f = OutputOf(c)[2]
      OBVIOUS
    <3>4. SendsTo(k, f) /\ f \in Token /\ files'[f] # Absent /\ out = <<"file", f>>
      BY <1>6, <1>7, <2>8, <3>2, <3>3
    <3>5. SendsTo(k, f)'
      BY <1>1, <3>4 DEF SendsTo
    <3> QED
      BY <3>4, <3>5 DEF SentBy
  <2> QED
    BY <2>6, <2>7, <2>8
<1>9. ProcsOk'
  <2>1. "running" \in ProcState
    BY DEF ProcState
  <2>2. CASE procs' = [procs EXCEPT ![p] = Dead(c)]
    BY <1>0, <1>1, <1>2, <1>6, <2>2, DeadKept DEF Inv
  <2>3. CASE opens /\ procs' = [procs EXCEPT ![p] = runs]
    <3> DEFINE kept == KeptEnds(c)
               in == StdinOf(c)
               e == [c EXCEPT !.state = "running", !.in = in, !.out = out, !.ends = kept]
    <3>1. kept \subseteq c.ends /\ kept \in SUBSET ({"r", "w"} \X (Nat \X Nat \X Nat))
      BY <1>2 DEF KeptEnds, Process
    <3>2. procs' = [procs EXCEPT ![p] = e]
      BY <1>7, <2>3
    <3>3. in \in Stream
      BY <1>8
    <3> HIDE DEF kept, in
    <3>4. e \in Process /\ e.state = "running" /\ e.ends = kept /\ e.cmd = c.cmd
          /\ e.stage = c.stage /\ e.of = c.of /\ e.rout = c.rout /\ e.out = out
      BY <1>2, <1>8, <2>1, <3>1, <3>3 DEF Process
    <3>5. PICK ee : ee = e
      OBVIOUS
    <3> HIDE DEF e
    <3>6. ee.out[1] = "file" => SentBy(ee.out, ee.cmd)'
      BY <1>7, <1>8, <2>3, <3>4, <3>5
    <3>7. ee.state # "new" /\ ee.ends \subseteq c.ends
      BY <3>1, <3>4, <3>5
    <3> QED
      BY <1>0, <1>1, <1>6, <3>2, <3>4, <3>5, <3>6, <3>7, ProcessKept DEF Inv
  <2> QED
    BY <1>1, <2>2, <2>3
<1>10. CommandsOk' /\ Position' /\ RedirsOk' /\ FdsOk' /\ PlaceOk'
  BY <1>1, <1>6, ShellKept, PlaceKept DEF Inv
<1> QED
  BY <1>6, <1>9, <1>10 DEF Inv

(* A program writes.                                                       *)
LEMMA WritesKeeps ==
  ASSUME Inv, NEW p \in DOMAIN procs, Writes(p)
  PROVE  Inv'
<1>1. /\ procs[p].state = "running"
      /\ files' = WrittenTo(procs[p].out, procs[p].cmd)
      /\ UNCHANGED <<pc, lines, cmds, cmd, stage, rin, rout, fds, procs, before,
                     place, dirs, failed>>
  BY DEF Writes
<1>2. PICK k, out : k = procs[p].cmd /\ out = procs[p].out
  OBVIOUS
<1>3. /\ k \in 1 .. Len(cmds) /\ k <= cmd /\ cmd \in Nat
      /\ out[1] = "file" => SentBy(out, k)
  BY <1>1, <1>2, ProcBelongs DEF Inv, Position, ProcOk, Belongs
<1>4. files' = WrittenTo(out, k)
  BY <1>1, <1>2
<1>5. files' \in [Token -> SUBSET Int] /\ \A f \in Token : FileStep(f)
  BY <1>3, <1>4, WrittenSteps DEF Inv
<1>6. FilesOk' /\ FilesStay
  BY <1>1, <1>3, <1>5, FilesKept DEF Inv, FilesStay
<1>7. ProcsOk'
  <2>1. \A q \in DOMAIN procs : Belongs(procs[q]) => Belongs(procs[q])'
    BY <1>1 DEF Belongs
  <2> QED
    BY <1>1, <1>6, <2>1, ProcsKept DEF Inv
<1>8. CommandsOk' /\ Position' /\ RedirsOk' /\ FdsOk' /\ PlaceOk'
  BY <1>1, <1>6, ShellKept, PlaceKept DEF Inv
<1> QED
  BY <1>6, <1>7, <1>8 DEF Inv

(* A process ends.                                                         *)
LEMMA EndsKeeps ==
  ASSUME Inv, NEW p \in DOMAIN procs, Ends(p)
  PROVE  Inv'
<1>1. /\ procs' = [procs EXCEPT ![p] = Dead(procs[p])]
      /\ UNCHANGED <<pc, lines, cmds, cmd, stage, rin, rout, fds, files, before,
                     place, dirs, failed>>
  BY DEF Ends, Inv, ProcsOk
<1>2. procs[p] \in Process /\ cmd \in Nat
  BY ProcBelongs DEF Inv, Position
<1>3. FilesOk' /\ FilesStay
  BY <1>1, <1>2, FilesUnchanged DEF Inv
<1>4. ProcsOk'
  BY <1>1, <1>2, <1>3, DeadKept DEF Inv
<1>5. CommandsOk' /\ Position' /\ RedirsOk' /\ FdsOk' /\ PlaceOk'
  BY <1>1, <1>3, ShellKept, PlaceKept DEF Inv
<1> QED
  BY <1>3, <1>4, <1>5 DEF Inv

(* The SIGCHLD handler reaps one, and may print (background.c:59-80).      *)
LEMMA ReapsKeeps ==
  ASSUME Inv, NEW p \in DOMAIN procs, Reaps(p)
  PROVE  Inv'
<1>0. PICK c : c = procs[p]
  OBVIOUS
<1>1. /\ files' = WrittenTo(fds.out, Notice) \/ files' = files
      /\ procs' = [procs EXCEPT ![p].state = "ended"]
      /\ UNCHANGED <<pc, lines, cmds, cmd, stage, rin, rout, fds, before, place, dirs, failed>>
  BY DEF Reaps
<1>2. c \in Process /\ Belongs(c) /\ cmd \in Nat /\ c.cmd \in 1 .. Len(cmds) /\ c.cmd \in Nat
  BY <1>0, ProcBelongs DEF Inv, Position, Belongs, Process
<1>3. files' \in [Token -> SUBSET Int] /\ \A f \in Token : FileStep(f)
  <2>1. CASE files' = files
    BY <2>1 DEF Inv, FilesOk, FileStep
  <2>2. CASE files' = WrittenTo(fds.out, Notice) /\ fds.out[1] = "file"
    <3>1. pc = "builtin"
      BY <2>2 DEF Inv, FdsOk, Tty
    <3>2. IsBuiltin /\ SentBy(fds.out, cmd) /\ cmd \in 1 .. Len(cmds)
      BY <2>2, <3>1 DEF Inv, FdsOk, Tty, Position, Busy
    <3>3. RunsInShell(cmd)
      BY <3>2, BuiltinRuns DEF Inv
    <3>4. c.cmd < cmd
      BY <1>2, <3>1 DEF Belongs
    <3>5. cmd # 1
      BY <1>2, <3>2, <3>4
    <3>6. PICK stream : stream = fds.out
      OBVIOUS
    <3> QED
      BY <1>2, <2>2, <3>2, <3>3, <3>5, <3>6, WrittenSteps DEF Inv
  <2> QED
    BY <1>1, <2>1, <2>2 DEF WrittenTo
<1>4. FilesOk' /\ FilesStay
  BY <1>1, <1>2, <1>3, FilesKept DEF Inv, FilesStay
<1>5. ProcsOk'
  <2> DEFINE e == [c EXCEPT !.state = "ended"]
  <2>1. "ended" \in ProcState
    BY DEF ProcState
  <2>2. procs \in Seq(Process)
    BY DEF Inv, ProcsOk
  <2>3. procs' = [procs EXCEPT ![p] = e]
    BY <1>0, <1>1, <2>2
  <2>4. e \in Process /\ e.state = "ended" /\ e.ends = c.ends /\ e.cmd = c.cmd
        /\ e.stage = c.stage /\ e.of = c.of /\ e.rout = c.rout
    BY <1>2, <2>1 DEF Process
  <2> HIDE DEF e
  <2>5. e.state # "new" /\ e.state # "running" /\ e.ends \subseteq c.ends
    BY <2>4
  <2> QED
    BY <1>0, <1>1, <1>4, <2>3, <2>4, <2>5, ProcessKept DEF Inv
<1>6. CommandsOk' /\ Position' /\ RedirsOk' /\ FdsOk' /\ PlaceOk'
  BY <1>1, <1>4, ShellKept, PlaceKept DEF Inv
<1> QED
  BY <1>4, <1>5, <1>6 DEF Inv

(* A directory goes.                                                       *)
LEMMA RemovesKeeps ==
  ASSUME Inv, NEW d \in Removable, Removes(d)
  PROVE  Inv'
<1>1. /\ d # place.cwd /\ dirs' = dirs \ {d}
      /\ UNCHANGED <<pc, lines, cmds, cmd, stage, rin, rout, fds, procs, files, before,
                     place, failed>>
  BY DEF Removes
<1>2. cmd \in Nat
  BY DEF Inv, Position
<1>3. FilesOk' /\ FilesStay
  BY <1>1, <1>2, FilesUnchanged DEF Inv
<1>4. ProcsOk'
  <2>1. \A q \in DOMAIN procs : Belongs(procs[q]) => Belongs(procs[q])'
    BY <1>1 DEF Belongs
  <2> QED
    BY <1>1, <1>3, <2>1, ProcsKept DEF Inv
<1>5. CommandsOk' /\ Position' /\ RedirsOk' /\ FdsOk'
  BY <1>1, <1>3, ShellKept DEF Inv
<1>6. PlaceOk'
  BY <1>1 DEF Inv, PlaceOk
<1> QED
  BY <1>3, <1>4, <1>5, <1>6 DEF Inv

-----------------------------------------------------------------------------
(* The theorems.                                                           *)
LEMMA InitInv ==
  ASSUME Init
  PROVE  Inv
<1>1. CommandsOk
  <2>1. cmds = <<>>
    BY DEF Init
  <2>2. StagesOf(cmds) = {}
    BY <2>1 DEF StagesOf
  <2>3. Cardinality(StagesOf(cmds)) = 0
    BY <2>2, FS_EmptySet
  <2>4. 0 <= MaxProcs
    BY ShellLineAssumption
  <2> QED
    BY <2>1, <2>3, <2>4 DEF CommandsOk
<1>2. Position
  BY ShellLineAssumption DEF Init, Position, Busy
<1>3. RedirsOk
  BY DEF Init, RedirsOk, Busy, Handed
<1>4. FdsOk
  BY DEF Init, FdsOk, Stream
<1>5. ProcsOk
  BY DEF Init, ProcsOk
<1>6. FilesOk
  <2>1. files = [f \in Token |-> IF f \in Existing THEN {0} ELSE Absent]
        /\ before = Existing /\ cmds = <<>>
    BY DEF Init
  <2>2. files \in [Token -> SUBSET Int]
    BY <2>1 DEF Absent
  <2>3. ASSUME NEW f \in Token
        PROVE  /\ files[f] = Absent \/ files[f] \subseteq -1 .. Len(cmds)
               /\ f \in before => 0 \in files[f]
               /\ f \notin before => files[f] = Absent /\ 0 \notin files[f]
               /\ files[f] \cap 1 .. Len(cmds) = {} /\ Notice \notin files[f]
    BY <2>1 DEF Absent, Notice
  <2>4. FilesAsWritten
    BY <2>3 DEF FilesAsWritten
  <2> QED
    BY <2>2, <2>3, <2>4 DEF FilesOk
<1>7. PlaceOk
  BY ShellDirsAssumption DEF Init, PlaceOk
<1> QED
  BY <1>1, <1>2, <1>3, <1>4, <1>5, <1>6, <1>7 DEF Inv

LEMMA StutterKeeps ==
  ASSUME Inv, UNCHANGED vars
  PROVE  Inv'
<1>1. /\ UNCHANGED <<pc, lines, cmds, cmd, stage, rin, rout, fds, procs, files, before,
                     place, dirs, failed>>
      /\ cmd \in Nat
  BY DEF vars, Inv, Position
<1>2. FilesOk' /\ FilesStay
  BY <1>1, FilesUnchanged DEF Inv
<1>3. ProcsOk'
  <2>1. \A q \in DOMAIN procs : Belongs(procs[q]) => Belongs(procs[q])'
    BY <1>1 DEF Belongs
  <2> QED
    BY <1>1, <1>2, <2>1, ProcsKept DEF Inv
<1>4. CommandsOk' /\ Position' /\ RedirsOk' /\ FdsOk' /\ PlaceOk'
  BY <1>1, <1>2, ShellKept, PlaceKept DEF Inv
<1> QED
  BY <1>2, <1>3, <1>4 DEF Inv

(* Every step keeps the invariant.                                         *)
LEMMA NextInv ==
  ASSUME Inv, [Next]_vars
  PROVE  Inv'
<1>1. CASE \E line \in Line : Types(line)
  BY <1>1, TypesKeeps
<1>2. CASE Shell
  BY <1>2, ParsesKeeps, SkipsKeeps, CrashesKeeps, RedirectsInputKeeps,
     RedirectsOutputKeeps, RunsKeeps, ForksCommandKeeps, StartsPipelineKeeps,
     MakesPipeKeeps, ForksStageKeeps, ClosesPipesKeeps, WaitsKeeps DEF Shell
<1>3. CASE \E p \in DOMAIN procs : Starts(p) \/ Writes(p) \/ Ends(p) \/ Reaps(p)
  BY <1>3, StartsKeeps, WritesKeeps, EndsKeeps, ReapsKeeps
<1>4. CASE \E d \in Removable : Removes(d)
  BY <1>4, RemovesKeeps
<1>5. CASE UNCHANGED vars
  BY <1>5, StutterKeeps
<1> QED
  BY <1>1, <1>2, <1>3, <1>4, <1>5 DEF Next

LEMMA Invariance == Spec => []Inv
<1>1. Init => Inv
  BY InitInv
<1>2. Inv /\ [Next]_vars => Inv'
  BY NextInv
<1> QED
  BY <1>1, <1>2, PTL DEF Spec

(* There are never more stages than a line has.                            *)
LEMMA StagesFinite ==
  ASSUME CommandsOk
  PROVE  IsFiniteSet(StagesOf(cmds)) /\ Cardinality(StagesOf(cmds)) \in Nat
<1> DEFINE n == Len(cmds)
           Of(k) == {k} \X DOMAIN cmds[k]
           UpTo(m) == UNION {Of(k) : k \in 1 .. m}
           T == {m \in 0 .. n : IsFiniteSet(UpTo(m))}
<1>1. n \in Nat /\ DOMAIN cmds = 1 .. n
  BY DEF CommandsOk
<1>2. ASSUME NEW k \in 1 .. n PROVE IsFiniteSet(Of(k))
  <2>1. Len(cmds[k]) \in Nat /\ DOMAIN cmds[k] = 1 .. Len(cmds[k])
    BY <1>2, StagesThere
  <2>2. IsFiniteSet(DOMAIN cmds[k])
    BY <2>1, FS_Interval
  <2>3. IsFiniteSet({k})
    BY FS_Singleton
  <2> QED
    BY <2>2, <2>3, FS_Product
<1> HIDE DEF n, Of
<1>3. 0 \in T
  <2>1. UpTo(0) = {}
    OBVIOUS
  <2> QED
    BY <1>1, <2>1, FS_EmptySet
<1>4. ASSUME NEW m \in 0 .. n - 1, m \in T PROVE m + 1 \in T
  <2> DEFINE j == m + 1
  <2>1. 1 .. j = (1 .. m) \cup {j} /\ j \in 1 .. n
    BY <1>1
  <2> HIDE DEF j
  <2>2. UpTo(j) = UpTo(m) \cup Of(j)
    BY <2>1
  <2>3. IsFiniteSet(Of(j))
    BY <1>2, <2>1
  <2> HIDE DEF UpTo
  <2>4. IsFiniteSet(UpTo(m))
    BY <1>4
  <2>5. IsFiniteSet(UpTo(j))
    BY <2>2, <2>3, <2>4, FS_Union
  <2>6. j \in T
    BY <1>1, <2>1, <2>5
  <2> QED
    BY <2>6 DEF j
<1>5. n \in T
  <2> HIDE DEF T
  <2>1. \A k \in 0 .. n : k \in T
    BY ONLY <1>1, <1>3, <1>4, InductionTo
  <2> QED
    BY <1>1, <2>1
<1>6. StagesOf(cmds) = UpTo(n)
  BY <1>1 DEF StagesOf, Of
<1> QED
  BY <1>5, <1>6, FS_CardinalityType

(* There is at most one process for each stage.                            *)
LEMMA ProcsFit ==
  ASSUME CommandsOk, ProcsOk
  PROVE  Len(procs) \in Nat /\ Len(procs) <= MaxProcs
<1> DEFINE n == Len(procs)
           S == StagesOf(cmds)
           m == [p \in 1 .. n |-> <<procs[p].cmd, procs[p].stage>>]
<1>1. n \in Nat /\ DOMAIN procs = 1 .. n
  BY DEF ProcsOk
<1>2. ASSUME NEW p \in 1 .. n PROVE m[p] \in S
  <2> DEFINE c == procs[p]
  <2>1. Belongs(c)
    BY <1>1, ProcBelongs
  <2> HIDE DEF c
  <2>2. c.cmd \in 1 .. Len(cmds) /\ c.stage \in 1 .. Len(cmds[c.cmd])
    BY <2>1 DEF Belongs
  <2>3. c.cmd \in DOMAIN cmds
    BY <2>2 DEF CommandsOk
  <2>4. c.stage \in DOMAIN cmds[c.cmd]
    BY <2>2, StagesThere
  <2>5. <<c.cmd, c.stage>> \in S
    BY <2>3, <2>4 DEF StagesOf
  <2> QED
    BY <2>5 DEF c
<1>3. \A p, q \in 1 .. n : m[p] = m[q] => p = q
  BY <1>1 DEF ProcsOk
<1>4. m \in Injection(1 .. n, S)
  <2>1. DOMAIN m = 1 .. n /\ m \in [1 .. n -> S]
    BY <1>2
  <2> HIDE DEF m, S, n
  <2> QED
    BY <1>3, <2>1 DEF Injection, IsInjective
<1>5. IsFiniteSet(S) /\ Cardinality(S) \in Nat /\ Cardinality(S) <= MaxProcs
  BY StagesFinite DEF CommandsOk
<1> HIDE DEF m, S, n
<1>6. Cardinality(1 .. n) <= Cardinality(S)
  BY <1>4, <1>5, FS_Injection
<1>7. Cardinality(1 .. n) = n
  BY <1>1, FS_Interval
<1>8. n <= MaxProcs
  BY <1>1, <1>5, <1>6, <1>7, ShellLineAssumption
<1> QED
  BY <1>1, <1>8 DEF n

(* Type correctness of the execution of lines (shell_loop to               *)
(* execute_pipeline), for any lines: every process of a line stands for    *)
(* another stage of it, so that MaxProcs of them are enough; each pipe end *)
(* belongs to a line that was typed, each mark in a file to a command of   *)
(* this line; and hop never leaves the directories that are there.         *)
THEOREM LineTyped == Spec => []TypeOK
<1>1. Inv => TypeOK
  <2> SUFFICES ASSUME Inv PROVE TypeOK
    OBVIOUS
  <2>1. /\ pc \in {"prompt", "parse", "execute", "redirect", "builtin", "pipes", "fork",
                   "close", "wait", "gone", "crashed"}
        /\ lines \in 0 .. MaxLines
    BY DEF Inv, Position
  <2>2. Busy => cmd \in 1 .. Len(cmds) /\ stage \in 0 .. NumStages + 1
    <3>1. Busy => cmd \in 1 .. Len(cmds) /\ stage \in 1 .. NumStages
      BY DEF Inv, Position
    <3>2. Busy => NumStages \in Nat
      BY <3>1, StagesThere DEF Inv, NumStages, Command
    <3> QED
      BY <3>1, <3>2
  <2>3. fds.in = Tty \/ fds.in[1] = "file"
    BY DEF Inv, FdsOk
  <2>4. Len(procs) <= MaxProcs
    BY ProcsFit DEF Inv
  <2>5. ASSUME NEW p \in DOMAIN procs
        PROVE  /\ procs[p].state \in ProcState
               /\ procs[p].ends \subseteq {"r", "w"} \X ((1 .. lines) \X Nat \X Nat)
    BY ProcBelongs DEF Inv, ProcOk, EndsUpTo, Process
  <2>6. \A f \in Token : files[f] = Absent \/ files[f] \subseteq -1 .. Len(cmds)
    BY DEF Inv, FilesOk
  <2>7. place.cwd \in dirs /\ place.prev \in Dir \cup {NoDir}
    BY DEF Inv, PlaceOk
  <2> QED
    BY <2>1, <2>2, <2>3, <2>4, <2>5, <2>6, <2>7 DEF TypeOK, Busy
<1> QED
  BY <1>1, Invariance, PTL

(* Between two commands the shell has its own stdin and stdout back,       *)
(* whichever redirection, pipe or fork has failed, and holds no pipe end   *)
(* but what a failed pipe or fork has left (pipes.c:119, 128, 317; the      *)
(* returns at 234 and 311).                                                *)
THEOREM DescriptorsComeBack == Spec => []FdsRestored
<1>1. Inv => FdsRestored
  BY DEF Inv, FdsOk, OwnEnds, FdsRestored
<1> QED
  BY <1>1, Invariance, PTL

(* A file loses its contents only to a ">" that names it, is created only  *)
(* by an output redirection that names it, and holds the output of those   *)
(* commands only whose last stage sends it there; a notice of the SIGCHLD  *)
(* handler only gets into the file of a builtin (redirection.c:64, 86,     *)
(* 180; pipes.c:69, 75, 118, 277; background.c:69).                        *)
THEOREM FilesHoldWhatWasSent == Spec => []FilesAsWritten
<1>1. Inv => FilesAsWritten
  BY DEF Inv, FilesOk
<1> QED
  BY <1>1, Invariance, PTL

(* reveal chooses the directory to which hop would go, from every place in *)
(* every tree, but for ".." just below the root; the two are separate      *)
(* pieces of code (commands.c:91-130 and 167-196).                         *)
THEOREM RevealFollowsHop == Spec => []HopAgrees
<1>1. Inv => HopAgrees
  <2> SUFFICES ASSUME NEW arg \in Dir \cup {"~", ".", "..", "-"},
                      ~(arg = ".." /\ Parent[place.cwd] = Root)
               PROVE  RevealOf(dirs, place.cwd, place.prev, arg) =
                        HopTo(dirs, place.cwd, place.prev, arg)
    BY DEF HopAgrees
  <2>1. CASE arg = ".."
    <3>1. Above(place.cwd) = Parent[place.cwd]
      BY <2>1 DEF Above
    <3> QED
      BY <2>1, <3>1 DEF RevealOf, HopTo
  <2>2. CASE arg # ".."
    BY <2>2 DEF RevealOf, HopTo
  <2> QED
    BY <2>1, <2>2
<1> QED
  BY <1>1, Invariance, PTL

=============================================================================

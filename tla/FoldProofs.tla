----------------------------- MODULE FoldProofs -----------------------------
(***************************************************************************)
(* Induction in a form the provers can use: over a set of numbers instead  *)
(* of a predicate.  With it, what the folds of the community modules       *)
(* compute, over sets and over sequences: a fold is the last value of a    *)
(* chain that begins with the base and takes one element at a time.  And   *)
(* what is left of a sequence when an element is taken out.                *)
(***************************************************************************)
EXTENDS Integers, SequencesExt, FiniteSetTheorems, WellFoundedInduction, TLAPS

(* No set of numbers goes down for ever.                                   *)
LEMMA LessIsWellFounded ==
  \E R : /\ IsWellFoundedOn(R, Nat)
         /\ \A x, y \in Nat : <<y, x>> \in R <=> y < x
<1> DEFINE R == OpToRel(<, Nat)
<1>1. IsWellFoundedOn(R, Nat)
  BY NatLessThanWellFounded
<1>2. \A x, y \in Nat : <<y, x>> \in R <=> y < x
  BY DEF OpToRel
<1> HIDE DEF R
<1> QED
  BY <1>1, <1>2

(* A set of numbers has a least one.                                       *)
LEMMA LeastNumber ==
  ASSUME NEW T \in SUBSET Nat, T # {}
  PROVE  \E n \in T : \A m \in T : n <= m
<1>1. PICK R : /\ IsWellFoundedOn(R, Nat)
               /\ \A x, y \in Nat : <<y, x>> \in R <=> y < x
  BY LessIsWellFounded
<1>2. PICK n \in T : \A m \in T : <<m, n>> \notin R
  BY <1>1, WFMin
<1>3. \A m \in T : ~(m < n)
  BY <1>1, <1>2
<1> QED
  BY <1>3

(* Induction.                                                              *)
LEMMA Induction ==
  ASSUME NEW T, 0 \in T, \A n \in Nat : n \in T => n + 1 \in T
  PROVE  \A n \in Nat : n \in T
<1> SUFFICES ASSUME Nat \ T # {} PROVE FALSE
  OBVIOUS
<1>1. PICK n \in Nat \ T : \A m \in Nat \ T : n <= m
  BY LeastNumber
<1>2. n # 0 /\ n - 1 \in Nat
  BY <1>1
<1>3. n - 1 \in T
  BY <1>1, <1>2
<1> QED
  BY <1>1, <1>2, <1>3

(* Induction up to a bound.                                                *)
LEMMA InductionTo ==
  ASSUME NEW N \in Nat, NEW T, 0 \in T, \A n \in 0 .. N - 1 : n \in T => n + 1 \in T
  PROVE  \A n \in 0 .. N : n \in T
<1> DEFINE U == {n \in Nat : n <= N => n \in T}
<1>1. 0 \in U
  OBVIOUS
<1>2. \A n \in Nat : n \in U => n + 1 \in U
  OBVIOUS
<1> HIDE DEF U
<1>3. \A n \in Nat : n \in U
  BY <1>1, <1>2, Induction
<1> QED
  BY <1>3 DEF U

-----------------------------------------------------------------------------
(* A choice of the element that is taken next.                             *)
Chooses(ch, S) == \A s \in SUBSET S : s # {} => ch[s] \in s

(* F solves the equation of the fold of st over S.                         *)
Solves(F, S, V, base, ch, st) ==
  /\ F \in [SUBSET S -> V]
  /\ \A s \in SUBSET S :
       F[s] = IF s = {} THEN base ELSE st[<<ch[s], F[s \ {ch[s]}]>>]

(* The equation of a fold over a finite set has a solution.                *)
LEMMA FoldExists ==
  ASSUME NEW S, IsFiniteSet(S), NEW V, NEW base \in V,
         NEW ch, Chooses(ch, S), NEW st \in [S \X V -> V]
  PROVE  \E F : Solves(F, S, V, base, ch, st)
<1> DEFINE Small(n) == {s \in SUBSET S : Cardinality(s) <= n}
           SolvesTo(F, n) ==
             /\ F \in [Small(n) -> V]
             /\ \A s \in Small(n) :
                  F[s] = IF s = {} THEN base ELSE st[<<ch[s], F[s \ {ch[s]}]>>]
           T == {n \in Nat : \E F : SolvesTo(F, n)}
<1>1. \A s \in SUBSET S : IsFiniteSet(s) /\ Cardinality(s) \in Nat
                          /\ Cardinality(s) <= Cardinality(S)
  BY FS_Subset, FS_CardinalityType
<1>2. \A s \in SUBSET S : \A x \in s :
        s \ {x} \in SUBSET S /\ Cardinality(s \ {x}) = Cardinality(s) - 1
  BY <1>1, FS_RemoveElement
<1>3. 0 \in T
  <2> DEFINE F == [s \in Small(0) |-> base]
  <2>1. \A s \in Small(0) : s = {}
    BY <1>1, FS_EmptySet
  <2>2. SolvesTo(F, 0)
    BY <2>1
  <2> QED
    BY <2>2
<1>4. ASSUME NEW n \in Nat, n \in T PROVE n + 1 \in T
  <2>1. PICK F : SolvesTo(F, n)
    BY <1>4
  <2> DEFINE G == [s \in Small(n + 1) |->
                     IF s = {} THEN base ELSE st[<<ch[s], F[s \ {ch[s]}]>>]]
  <2>2. \A s \in Small(n + 1) : s # {} => ch[s] \in S /\ s \ {ch[s]} \in Small(n)
    BY <1>1, <1>2 DEF Chooses
  <2>3. \A s \in Small(n) : s \in Small(n + 1) /\ G[s] = F[s]
    BY <1>1, <2>1
  <2>4. G \in [Small(n + 1) -> V]
    BY <2>1, <2>2
  <2>5. \A s \in Small(n + 1) :
          G[s] = IF s = {} THEN base ELSE st[<<ch[s], G[s \ {ch[s]}]>>]
    BY <2>2, <2>3
  <2> HIDE DEF G
  <2>6. SolvesTo(G, n + 1)
    BY <2>4, <2>5
  <2> HIDE DEF SolvesTo
  <2> QED
    BY <2>6
<1> HIDE DEF T
<1>5. Cardinality(S) \in T
  BY <1>1, <1>3, <1>4, Induction
<1>6. Small(Cardinality(S)) = SUBSET S
  BY <1>1
<1> QED
  BY <1>5, <1>6 DEF T, Solves

(* What holds of the empty set, and of a set as soon as it holds of the    *)
(* set without the element that is taken first, holds of every subset.     *)
LEMMA SubsetInduction ==
  ASSUME NEW S, IsFiniteSet(S), NEW ch, Chooses(ch, S),
         NEW T, {} \in T,
         \A s \in SUBSET S : s # {} /\ s \ {ch[s]} \in T => s \in T
  PROVE  \A s \in SUBSET S : s \in T
<1> DEFINE U == {n \in Nat : \A s \in SUBSET S : Cardinality(s) <= n => s \in T}
<1>1. \A s \in SUBSET S : IsFiniteSet(s) /\ Cardinality(s) \in Nat
  BY FS_Subset, FS_CardinalityType
<1>2. \A s \in SUBSET S : \A x \in s :
        s \ {x} \in SUBSET S /\ Cardinality(s \ {x}) = Cardinality(s) - 1
  BY <1>1, FS_RemoveElement
<1>3. 0 \in U
  <2>1. \A s \in SUBSET S : Cardinality(s) <= 0 => s = {}
    BY <1>1, FS_EmptySet
  <2> QED
    BY <2>1
<1>4. ASSUME NEW n \in Nat, n \in U PROVE n + 1 \in U
  <2>1. ASSUME NEW s \in SUBSET S, Cardinality(s) <= n + 1 PROVE s \in T
    <3>1. CASE s = {}
      BY <3>1
    <3>2. CASE s # {}
      <4>1. ch[s] \in s
        BY <3>2 DEF Chooses
      <4>2. s \ {ch[s]} \in SUBSET S /\ Cardinality(s \ {ch[s]}) <= n
        BY <1>1, <1>2, <2>1, <4>1
      <4>3. s \ {ch[s]} \in T
        BY <1>4, <4>2
      <4> QED
        BY <3>2, <4>3
    <3> QED
      BY <3>1, <3>2
  <2> QED
    BY <2>1
<1> HIDE DEF U
<1>5. \A n \in Nat : n \in U
  BY <1>3, <1>4, Induction
<1> QED
  BY <1>1, <1>5 DEF U

-----------------------------------------------------------------------------
(* A finite set of indices has a greatest one, which FoldLeft takes first. *)
LEMMA MaxTaken ==
  ASSUME NEW n \in Nat, NEW s \in SUBSET (1 .. n), s # {}
  PROVE  Max(s) \in s /\ \A x \in s : x <= Max(s)
<1> DEFINE T == {n - x : x \in s}
<1>1. \A x \in s : x \in Nat /\ n - x \in Nat
  OBVIOUS
<1>2. T \in SUBSET Nat /\ T # {}
  BY <1>1
<1>3. PICK d \in T : \A e \in T : d <= e
  BY <1>2, LeastNumber
<1>4. PICK x \in s : d = n - x
  OBVIOUS
<1>5. \A y \in s : n - x <= n - y
  BY <1>3, <1>4
<1>6. \A y \in s : x >= y
  BY <1>1, <1>5
<1>7. Max(s) \in s /\ \A y \in s : Max(s) >= y
  BY <1>6 DEF Max
<1> QED
  BY <1>1, <1>7

(* The greatest of an interval is its end.                                 *)
LEMMA MaxOfInterval ==
  ASSUME NEW i \in Nat \ {0}
  PROVE  Max(1 .. i) = i /\ (1 .. i) \ {i} = 1 .. i - 1
<1> DEFINE s == 1 .. i
<1>1. s \in SUBSET (1 .. i) /\ i \in s
  OBVIOUS
<1>2. Max(s) \in s /\ i <= Max(s)
  BY <1>1, MaxTaken
<1> QED
  BY <1>2

(* F solves the equation of FoldLeft over the indices up to n.             *)
SolvesLeft(F, D, V, n, seq, base, st) ==
  /\ F \in [SUBSET (1 .. n) -> V] /\ F[{}] = base
  /\ \A s \in SUBSET (1 .. n) :
       s # {} => /\ F[s \ {Max(s)}] \in V /\ seq[Max(s)] \in D
                 /\ F[s] = st[<<F[s \ {Max(s)}], seq[Max(s)]>>]

(* So does C as far as its values are in V.                                *)
FollowsLeft(C, V, n, seq, base, st) ==
  /\ C[{}] = base
  /\ \A s \in SUBSET (1 .. n) :
       s # {} /\ C[s \ {Max(s)}] \in V =>
         C[s] = st[<<C[s \ {Max(s)}], seq[Max(s)]>>]

(* One value after the other, from the base, an element of seq at a time.  *)
IsChain(g, V, n, seq, base, st, end) ==
  /\ g \in [0 .. n -> V] /\ g[0] = base /\ g[n] = end
  /\ \A i \in 1 .. n : g[i] = st[<<g[i - 1], seq[i]>>]

(* The equation of FoldLeft has a solution.                                *)
LEMMA FoldLeftExists ==
  ASSUME NEW D, NEW V, NEW n \in Nat, NEW seq \in [1 .. n -> D], NEW base \in V,
         NEW st \in [V \X D -> V]
  PROVE  \E F : SolvesLeft(F, D, V, n, seq, base, st)
<1> DEFINE S == 1 .. n
           ch == [s \in SUBSET S |-> Max(s)]
           st2 == [x \in S \X V |-> st[<<x[2], seq[x[1]]>>]]
<1>1. IsFiniteSet(S)
  BY FS_Interval
<1>2. ASSUME NEW s \in SUBSET S, s # {} PROVE ch[s] = Max(s) /\ ch[s] \in s
  <2>1. Max(s) \in s
    BY <1>2, MaxTaken
  <2> QED
    BY <2>1
<1>3. st2 \in [S \X V -> V]
  OBVIOUS
<1>4. ASSUME NEW s \in SUBSET S, s # {}
      PROVE  /\ seq[Max(s)] \in D
             /\ \A v \in V : st2[<<ch[s], v>>] = st[<<v, seq[Max(s)]>>]
  <2>1. ch[s] = Max(s) /\ Max(s) \in S
    BY <1>2, <1>4
  <2> HIDE DEF ch
  <2>2. seq[Max(s)] \in D
    BY <2>1
  <2>3. \A v \in V : st2[<<Max(s), v>>] = st[<<v, seq[Max(s)]>>]
    BY <2>1
  <2> QED
    BY <2>1, <2>2, <2>3
<1> HIDE DEF S, ch, st2
<1>5. Chooses(ch, S)
  BY <1>2 DEF Chooses
<1>6. PICK F : Solves(F, S, V, base, ch, st2)
  BY <1>1, <1>3, <1>5, FoldExists
<1>7. ASSUME NEW s \in SUBSET S, s # {}
      PROVE  /\ F[s \ {Max(s)}] \in V /\ seq[Max(s)] \in D
             /\ F[s] = st[<<F[s \ {Max(s)}], seq[Max(s)]>>]
  <2>1. s \ {ch[s]} \in SUBSET S /\ ch[s] = Max(s)
    BY <1>2, <1>7
  <2>2. F[s \ {Max(s)}] \in V
    BY <1>6, <2>1 DEF Solves
  <2>3. F[s] = st2[<<ch[s], F[s \ {ch[s]}]>>]
    BY <1>6, <1>7 DEF Solves
  <2> QED
    BY <1>4, <1>7, <2>1, <2>2, <2>3
<1>8. F \in [SUBSET S -> V] /\ F[{}] = base
  BY <1>6 DEF Solves
<1> QED
  BY <1>7, <1>8 DEF S, SolvesLeft

(* Whatever takes its values from the values before as a fold does over    *)
(* the indices of a sequence, has the values of a chain.                   *)
LEMMA ChainOf ==
  ASSUME NEW D, NEW V, NEW n \in Nat, NEW seq \in [1 .. n -> D], NEW base \in V,
         NEW st \in [V \X D -> V], NEW C, FollowsLeft(C, V, n, seq, base, st)
  PROVE  \E g : IsChain(g, V, n, seq, base, st, C[1 .. n])
<1> DEFINE T == {i \in 0 .. n : C[1 .. i] \in V}
           g == [i \in 0 .. n |-> C[1 .. i]]
<1>2. ASSUME NEW i \in 1 .. n, C[1 .. i - 1] \in V
      PROVE  C[1 .. i] = st[<<C[1 .. i - 1], seq[i]>>] /\ C[1 .. i] \in V
  <2>1. Max(1 .. i) = i /\ (1 .. i) \ {i} = 1 .. i - 1
    BY MaxOfInterval
  <2>2. 1 .. i \in SUBSET (1 .. n) /\ 1 .. i # {}
    <3>1. i \in 1 .. i /\ \A j \in 1 .. i : j \in 1 .. n
      OBVIOUS
    <3> QED
      BY <3>1
  <2>3. C[1 .. i] = st[<<C[1 .. i - 1], seq[i]>>]
    BY <1>2, <2>1, <2>2 DEF FollowsLeft
  <2> QED
    BY <1>2, <2>3
<1>3. 0 \in T
  <2>1. 1 .. 0 = {}
    OBVIOUS
  <2> QED
    BY <2>1 DEF FollowsLeft
<1>4. ASSUME NEW i \in 0 .. n - 1, i \in T PROVE i + 1 \in T
  <2>1. i + 1 \in 1 .. n /\ i + 1 - 1 = i
    OBVIOUS
  <2>2. C[1 .. i] \in V
    BY <1>4
  <2>3. \A j \in 1 .. n : C[1 .. j - 1] \in V => C[1 .. j] \in V
    BY <1>2
  <2> DEFINE j == i + 1
  <2>4. j \in 1 .. n /\ j - 1 = i
    BY <2>1
  <2> HIDE DEF j
  <2>5. C[1 .. j] \in V
    BY <2>2, <2>3, <2>4
  <2>6. C[1 .. i + 1] \in V
    BY <2>5 DEF j
  <2> QED
    BY <2>1, <2>6
<1>5. \A i \in 0 .. n : i \in T
  <2> HIDE DEF T
  <2> QED
    BY <1>3, <1>4, InductionTo
<1>6. g \in [0 .. n -> V]
  BY <1>5
<1>7. g[0] = base
  <2>1. 1 .. 0 = {}
    OBVIOUS
  <2> QED
    BY <2>1 DEF FollowsLeft
<1>8. ASSUME NEW i \in 1 .. n PROVE g[i] = st[<<g[i - 1], seq[i]>>]
  <2>1. i - 1 \in 0 .. n /\ i \in 0 .. n
    OBVIOUS
  <2>2. C[1 .. i - 1] \in V
    BY <1>5, <2>1
  <2> QED
    BY <1>2, <2>1, <2>2
<1>9. g[n] = C[1 .. n]
  OBVIOUS
<1> HIDE DEF g
<1> QED
  BY <1>6, <1>7, <1>8, <1>9 DEF IsChain

-----------------------------------------------------------------------------
(* What is left of a sequence without its i-th element.                    *)
LEMMA RemoveAtEntries ==
  ASSUME NEW S, NEW q \in Seq(S), NEW i \in 1 .. Len(q)
  PROVE  /\ RemoveAt(q, i) \in Seq(S)
         /\ Len(RemoveAt(q, i)) = Len(q) - 1
         /\ \A j \in 1 .. Len(q) - 1 :
              RemoveAt(q, i)[j] = IF j < i THEN q[j] ELSE q[j + 1]
<1> DEFINE left  == SubSeq(q, 1, i - 1)
           right == SubSeq(q, i + 1, Len(q))
<1>1. left \in Seq(S) /\ right \in Seq(S)
  OBVIOUS
<1>2. /\ Len(left) = i - 1
      /\ \A j \in 1 .. Len(left) : left[j] = q[j]
  OBVIOUS
<1>3. /\ Len(right) = Len(q) - i
      /\ \A j \in 1 .. Len(right) : right[j] = q[i + j]
  OBVIOUS
<1>4. RemoveAt(q, i) = left \o right
  BY DEF RemoveAt
<1> HIDE DEF left, right
<1>5. left \o right \in Seq(S) /\ Len(left \o right) = Len(q) - 1
  <2>1. Len(left \o right) = Len(left) + Len(right)
    BY <1>1
  <2>2. left \o right \in Seq(S)
    BY <1>1
  <2>3. Len(q) \in Nat /\ i \in Int
    OBVIOUS
  <2> QED
    BY <1>2, <1>3, <2>1, <2>2, <2>3
<1>6. ASSUME NEW j \in 1 .. Len(q) - 1
      PROVE  (left \o right)[j] = IF j < i THEN q[j] ELSE q[j + 1]
  <2>1. CASE j < i
    BY <1>1, <1>2, <1>3, <2>1
  <2>2. CASE j >= i
    <3> DEFINE k == j - Len(left)
    <3>1. k \in 1 .. Len(right) /\ i + k = j + 1
      BY <1>2, <1>3, <2>2
    <3>2. (left \o right)[j] = right[k]
      BY <1>1, <1>2, <1>3, <2>2
    <3>3. right[k] = q[i + k]
      BY <1>3, <3>1
    <3> QED
      BY <2>2, <3>1, <3>2, <3>3
  <2>3. j < i \/ j >= i
    OBVIOUS
  <2> QED
    BY <2>1, <2>2, <2>3
<1> QED
  BY <1>4, <1>5, <1>6

=============================================================================

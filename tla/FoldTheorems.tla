----------------------------- MODULE FoldTheorems -----------------------------
(***************************************************************************)
(* What FoldLeft of SequencesExt computes, for any operator Op.  A proof   *)
(* about a fold of the model takes an INSTANCE of this module with the     *)
(* operator that is folded: the two theorems about Fold are then its       *)
(* recursion equations, and the two about induction, which speak of sets   *)
(* instead of predicates, lead from them to what the fold computes.        *)
(***************************************************************************)
EXTENDS Integers, Sequences, Folds, WellFoundedInduction, TLAPS

CONSTANT Op(_, _)

\* The last of the positions s.
Latest(s) == CHOOSE x \in s : \A y \in s : x >= y

\* FoldLeft(Op, c, ss), written out: an instance then brings Fold and not all of
\* SequencesExt.
Fold(c, ss) ==
  MapThenFoldSet(LAMBDA x, y : Op(y, x), c, LAMBDA i : ss[i], LAMBDA s : Latest(s), DOMAIN ss)

------------------------------------------------------------------------------
(* Induction *)

\* A set with 0 and with the successor of each of its numbers has every number.
THEOREM SetInduction ==
  ASSUME NEW S, 0 \in S, \A n \in Nat : n \in S => n + 1 \in S
  PROVE  Nat \subseteq S
<1> SUFFICES ASSUME Nat \ S # {}
             PROVE  FALSE
  OBVIOUS
<1> DEFINE T == Nat \ S
           R == OpToRel(<, Nat)
<1>1. PICK x \in T : \A y \in T : <<y, x>> \notin R
  <2>1. T \subseteq Nat /\ T # {}
    OBVIOUS
  <2>2. IsWellFoundedOn(R, Nat)
    BY NatLessThanWellFounded
  <2> HIDE DEF T, R
  <2> QED
    BY <2>1, <2>2, WFMin
<1>2. \A y \in T : ~(y < x)
  BY <1>1 DEF OpToRel
<1> HIDE DEF R
<1>3. x \in Nat /\ x # 0 /\ x - 1 \in Nat /\ x - 1 < x /\ (x - 1) + 1 = x
  OBVIOUS
<1>4. x - 1 \in S
  BY <1>2, <1>3
<1> QED
  BY <1>3, <1>4

\* A set with <<>> and with each of its sequences extended by any element has every
\* sequence.
THEOREM SequenceInduction ==
  ASSUME NEW T, NEW S, <<>> \in S,
         \A ss \in Seq(T), s \in T : ss \in S => Append(ss, s) \in S
  PROVE  Seq(T) \subseteq S
<1> DEFINE N == {n \in Nat : \A ss \in Seq(T) : Len(ss) = n => ss \in S}
<1>1. 0 \in N
  <2>1. ASSUME NEW ss \in Seq(T), Len(ss) = 0
        PROVE  ss = <<>>
    BY <2>1
  <2> QED
    BY <2>1
<1>2. ASSUME NEW n \in Nat, n \in N
      PROVE  n + 1 \in N
  <2> SUFFICES ASSUME NEW ss \in Seq(T), Len(ss) = n + 1
               PROVE  ss \in S
    OBVIOUS
  <2> DEFINE front == SubSeq(ss, 1, n)
  <2>1. front \in Seq(T) /\ Len(front) = n /\ ss[n + 1] \in T
    OBVIOUS
  <2>2. ss = Append(front, ss[n + 1])
    OBVIOUS
  <2>3. front \in S
    BY <1>2, <2>1
  <2> HIDE DEF front
  <2> QED
    BY <2>1, <2>2, <2>3
<1> HIDE DEF N
<1>3. \A n \in Nat : n \in N
  BY <1>1, <1>2, SetInduction
<1> QED
  BY <1>3 DEF N

------------------------------------------------------------------------------
(* FoldLeft *)

\* f is a function on sets of positions as the one by which FoldLeft is defined.
FoldsSets(f, n, c, ss) ==
  f = [s \in SUBSET (1..n) |-> IF s = {} THEN c ELSE Op(f[s \ {Latest(s)}], ss[Latest(s)])]

\* The last of the positions.
LEMMA LastPosition ==
  ASSUME NEW n \in Nat, NEW s \in SUBSET (1..(n + 1)), n + 1 \in s
  PROVE  Latest(s) = n + 1 /\ s \ {n + 1} \in SUBSET (1..n)
<1>1. \A x \in s : (\A y \in s : x >= y) => x = n + 1
  OBVIOUS
<1>2. \A y \in s : n + 1 >= y
  OBVIOUS
<1>3. Latest(s) = n + 1
  BY <1>1, <1>2 DEF Latest
<1> QED
  BY <1>3

\* There is such a function: the recursion is well-founded.
LEMMA FoldExists ==
  ASSUME NEW n \in Nat, NEW c, NEW ss
  PROVE  \E f : FoldsSets(f, n, c, ss)
<1> DEFINE S == {m \in Nat : \E f : FoldsSets(f, m, c, ss)}
<1>1. 0 \in S
  <2> DEFINE f == [s \in SUBSET (1..0) |-> c]
  <2>1. \A s \in SUBSET (1..0) : s = {}
    OBVIOUS
  <2>2. f = [s \in SUBSET (1..0) |-> IF s = {} THEN c ELSE Op(f[s \ {Latest(s)}], ss[Latest(s)])]
    BY <2>1
  <2> QED
    BY <2>2 DEF FoldsSets
<1>2. ASSUME NEW m \in Nat, m \in S
      PROVE  m + 1 \in S
  <2>1. PICK f : FoldsSets(f, m, c, ss)
    BY <1>2
  <2> DEFINE g == [s \in SUBSET (1..(m + 1)) |->
                     IF m + 1 \in s THEN Op(f[s \ {m + 1}], ss[m + 1]) ELSE f[s]]
             h == [s \in SUBSET (1..(m + 1)) |->
                     IF s = {} THEN c ELSE Op(g[s \ {Latest(s)}], ss[Latest(s)])]
  <2>2. ASSUME NEW s \in SUBSET (1..m)
        PROVE  g[s] = f[s]
    OBVIOUS
  <2>3. ASSUME NEW s \in SUBSET (1..(m + 1))
        PROVE  g[s] = IF s = {} THEN c ELSE Op(g[s \ {Latest(s)}], ss[Latest(s)])
    <3>1. CASE m + 1 \in s
      <4>1. Latest(s) = m + 1 /\ s \ {m + 1} \in SUBSET (1..m)
        BY <3>1, LastPosition
      <4>2. g[s] = Op(f[s \ {m + 1}], ss[m + 1])
        BY <3>1
      <4> HIDE DEF g
      <4> QED
        BY <3>1, <4>1, <4>2, <2>2
    <3>2. CASE m + 1 \notin s
      <4>1. s \in SUBSET (1..m)
        BY <3>2
      <4>2. f[s] = IF s = {} THEN c ELSE Op(f[s \ {Latest(s)}], ss[Latest(s)])
        BY <2>1, <4>1 DEF FoldsSets
      <4>3. s \ {Latest(s)} \in SUBSET (1..m)
        BY <4>1
      <4> HIDE DEF g
      <4> QED
        BY <4>1, <4>2, <4>3, <2>2
    <3> QED
      BY <3>1, <3>2
  <2>4. g = h
    BY <2>3
  <2>5. FoldsSets(g, m + 1, c, ss)
    BY <2>4 DEF FoldsSets
  <2> QED
    BY <2>5
<1> HIDE DEF S
<1>3. n \in S
  BY <1>1, <1>2, SetInduction
<1> QED
  BY <1>3 DEF S

\* What is folded of a sequence does not depend on what follows it.
LEMMA FoldsAgree ==
  ASSUME NEW m \in Nat, NEW n \in Nat, m <= n, NEW c, NEW ss, NEW tt, NEW f, NEW g,
         FoldsSets(f, m, c, ss), FoldsSets(g, n, c, tt), \A i \in 1..m : ss[i] = tt[i]
  PROVE  f[1..m] = g[1..m]
<1> DEFINE S == {k \in Nat : k <= m => f[1..k] = g[1..k]}
<1>1. 0 \in S
  <2>1. 1..0 = {} /\ {} \in SUBSET (1..m) /\ {} \in SUBSET (1..n)
    OBVIOUS
  <2> QED
    BY <2>1 DEF FoldsSets
<1>2. ASSUME NEW k \in Nat, k \in S, k + 1 <= m
      PROVE  k + 1 \in S
  <2> DEFINE s == 1..(k + 1)
  <2>1. k + 1 \in 1..m
    BY <1>2
  <2>2. /\ s \in SUBSET (1..m) /\ s \in SUBSET (1..n) /\ s \in SUBSET (1..(k + 1))
        /\ s # {} /\ k + 1 \in s
    BY <2>1
  <2>3. Latest(s) = k + 1
    BY <2>2, LastPosition
  <2>4. s \ {k + 1} = 1..k
    OBVIOUS
  <2> HIDE DEF s
  <2>5. f[s] = Op(f[1..k], ss[k + 1]) /\ g[s] = Op(g[1..k], tt[k + 1])
    BY <2>1, <2>2, <2>3, <2>4 DEF FoldsSets
  <2> QED
    BY <2>1, <2>5, <1>2 DEF s
<1> HIDE DEF S
<1>3. \A k \in Nat : k \in S => k + 1 \in S
  <2> SUFFICES ASSUME NEW k \in Nat, k \in S, ~(k + 1 <= m)
               PROVE  k + 1 \in S
    BY <1>2
  <2> QED
    BY DEF S
<1>4. m \in S
  BY <1>1, <1>3, SetInduction
<1> QED
  BY <1>4 DEF S

\* FoldLeft is such a function applied to all positions.
LEMMA FoldIs ==
  ASSUME NEW T, NEW ss \in Seq(T), NEW c
  PROVE  \E f : FoldsSets(f, Len(ss), c, ss) /\ Fold(c, ss) = f[1..Len(ss)]
<1>1. DOMAIN ss = 1..Len(ss)
  OBVIOUS
<1> DEFINE f == CHOOSE f : FoldsSets(f, Len(ss), c, ss)
<1>2. FoldsSets(f, Len(ss), c, ss)
  BY FoldExists
<1>3. Fold(c, ss) = f[1..Len(ss)]
  BY <1>1 DEF Fold, MapThenFoldSet, FoldsSets
<1> QED
  BY <1>2, <1>3

\* Nothing is folded.
THEOREM FoldOfNone ==
  ASSUME NEW c
  PROVE  Fold(c, <<>>) = c
<1>1. <<>> \in Seq({}) /\ Len(<<>>) = 0 /\ 1..0 = {}
  OBVIOUS
<1>2. PICK f : FoldsSets(f, 0, c, <<>>) /\ Fold(c, <<>>) = f[1..0]
  BY <1>1, FoldIs
<1> QED
  BY <1>1, <1>2 DEF FoldsSets

\* The last element is folded last.
THEOREM FoldOfAppend ==
  ASSUME NEW T, NEW ss \in Seq(T), NEW s \in T, NEW c
  PROVE  Fold(c, Append(ss, s)) = Op(Fold(c, ss), s)
<1> DEFINE tt == Append(ss, s)
           n == Len(ss)
<1>1. /\ tt \in Seq(T) /\ Len(tt) = n + 1 /\ n \in Nat /\ tt[n + 1] = s
      /\ \A i \in 1..n : ss[i] = tt[i]
  OBVIOUS
<1>2. PICK f : FoldsSets(f, n, c, ss) /\ Fold(c, ss) = f[1..n]
  BY FoldIs
<1>3. PICK g : FoldsSets(g, n + 1, c, tt) /\ Fold(c, tt) = g[1..(n + 1)]
  BY <1>1, FoldIs
<1> HIDE DEF tt, n
<1>4. f[1..n] = g[1..n]
  BY <1>1, <1>2, <1>3, FoldsAgree
<1>5. Latest(1..(n + 1)) = n + 1
  BY <1>1, LastPosition
<1>6. (1..(n + 1)) \ {n + 1} = 1..n /\ n + 1 \in 1..(n + 1)
  BY <1>1
<1>7. g[1..(n + 1)] = Op(g[1..n], tt[n + 1])
  BY <1>3, <1>5, <1>6 DEF FoldsSets
<1> QED
  BY <1>1, <1>2, <1>3, <1>4, <1>7 DEF tt
==============================================================================

------------------------------ MODULE FoldSteps ------------------------------
(***************************************************************************)
(* Folds step by step.  FoldLeft applies a function that is defined by     *)
(* recursion over sets of positions; here that function is shown to exist, *)
(* so that a fold over a sequence is a run of the operator over it: the    *)
(* states it goes through, one for each number of elements taken, to which *)
(* induction applies.  The module is instantiated for each operator that   *)
(* the unpacking of layers folds with (LayerUnpack).                       *)
(***************************************************************************)
EXTENDS SequencesExt, WellFoundedInduction, TLAPS

CONSTANT Op(_, _)

-----------------------------------------------------------------------------
\* Induction: the smallest number that is not in T would have a predecessor in T.
LEMMA NumbersAreReached ==
    ASSUME NEW T, T \subseteq Nat, 0 \in T, \A n \in T : n + 1 \in T
    PROVE  T = Nat
<1> SUFFICES ASSUME Nat \ T # {} PROVE FALSE
  OBVIOUS
<1> DEFINE R == OpToRel(<, Nat)
<1>1. IsWellFoundedOn(R, Nat)
  BY NatLessThanWellFounded
<1>2. \A i, j \in Nat : i < j => <<i, j>> \in R
  BY DEF OpToRel
<1> HIDE DEF R
<1>3. PICK n \in Nat \ T : \A m \in Nat \ T : ~ (<<m, n>> \in R)
  <2> DEFINE U == Nat \ T
  <2>1. U \subseteq Nat /\ U # {}
    OBVIOUS
  <2> HIDE DEF U
  <2>2. \E x \in U : \A y \in U : ~ (<<y, x>> \in R)
    BY <1>1, <2>1, WFMin
  <2> QED
    BY <2>2 DEF U
<1>4. n # 0 /\ n - 1 \in Nat
  BY <1>3
<1>5. <<n - 1, n>> \in R
  BY <1>2, <1>4, <1>3
<1>6. n - 1 \in T
  BY <1>3, <1>4, <1>5
<1>7. (n - 1) + 1 \in T
  BY <1>6
<1> QED
  BY <1>7, <1>3

\* The same up to a number.
LEMMA EndIsReached ==
    ASSUME NEW m \in Nat, NEW T, 0 \in T, \A n \in 0..(m - 1) : n \in T => n + 1 \in T
    PROVE  m \in T
<1> DEFINE U == {n \in Nat : n \in T \/ n > m}
<1>1. U \subseteq Nat /\ 0 \in U
  OBVIOUS
<1>2. ASSUME NEW n \in U PROVE n + 1 \in U
  OBVIOUS
<1> HIDE DEF U
<1>3. U = Nat
  BY <1>1, <1>2, NumbersAreReached
<1> QED
  BY <1>3 DEF U

-----------------------------------------------------------------------------
\* One equation of the recursion, and all of them for the sets of the first n positions.
Equation(base, seq, g, s) == IF s = {} THEN base ELSE Op(g[s \ {Max(s)}], seq[Max(s)])

Solves(base, seq, n, g) == g = [s \in SUBSET (1..n) |-> Equation(base, seq, g, s)]

LEMMA LastIsMax ==
    ASSUME NEW n \in Nat, NEW s, s \subseteq 1..(n + 1), n + 1 \in s
    PROVE  Max(s) = n + 1
<1> DEFINE Top(x) == x \in s /\ \A y \in s : x >= y
<1>1. Top(n + 1)
  OBVIOUS
<1>2. \A x : Top(x) => x = n + 1
  OBVIOUS
<1>3. Max(s) = CHOOSE x : Top(x)
  BY DEF Max
<1> QED
  BY <1>1, <1>2, <1>3

\* A solution for n positions extends to one for n + 1.
LEMMA SolutionExtends ==
    ASSUME NEW base, NEW seq, NEW n \in Nat, NEW g, Solves(base, seq, n, g)
    PROVE  \E h : Solves(base, seq, n + 1, h)
<1> DEFINE h == [s \in SUBSET (1..(n + 1)) |->
                    IF n + 1 \in s THEN Op(g[s \ {n + 1}], seq[n + 1]) ELSE g[s]]
<1>1. ASSUME NEW s \in SUBSET (1..(n + 1)) PROVE h[s] = Equation(base, seq, h, s)
  <2>1. CASE n + 1 \in s
    <3>1. Max(s) = n + 1 /\ s # {}
      BY <2>1, LastIsMax
    <3>2. n + 1 \notin s \ {n + 1} /\ s \ {n + 1} \in SUBSET (1..(n + 1))
      OBVIOUS
    <3>3. h[s \ {n + 1}] = g[s \ {n + 1}]
      BY <3>2
    <3> QED
      BY <2>1, <3>1, <3>3 DEF Equation
  <2>2. CASE n + 1 \notin s
    <3>1. s \in SUBSET (1..n)
      BY <2>2
    <3>2. g[s] = Equation(base, seq, g, s)
      BY <3>1 DEF Solves
    <3>3. CASE s = {}
      BY <2>2, <3>2, <3>3 DEF Equation
    <3>4. CASE s # {}
      <4>1. h[s \ {Max(s)}] = g[s \ {Max(s)}]
        BY <2>2, <3>1
      <4> QED
        BY <2>2, <3>2, <3>4, <4>1 DEF Equation
    <3> QED
      BY <3>3, <3>4
  <2> QED
    BY <2>1, <2>2
<1>2. h = [s \in SUBSET (1..(n + 1)) |-> h[s]]
  OBVIOUS
<1> HIDE DEF h
<1> QED
  BY <1>1, <1>2 DEF Solves

LEMMA SolutionExists ==
    ASSUME NEW base, NEW seq, NEW n \in Nat
    PROVE  \E g : Solves(base, seq, n, g)
<1> DEFINE T == {m \in Nat : \E g : Solves(base, seq, m, g)}
<1>1. 0 \in T
  <2> DEFINE g == [s \in SUBSET (1..0) |-> base]
  <2>1. \A s \in SUBSET (1..0) : s = {}
    OBVIOUS
  <2>2. g = [s \in SUBSET (1..0) |-> Equation(base, seq, g, s)]
    BY <2>1 DEF Equation
  <2> QED
    BY <2>2 DEF Solves
<1>2. \A m \in T : m + 1 \in T
  BY SolutionExtends
<1>3. T \subseteq Nat
  OBVIOUS
<1>4. T = Nat
  <2> HIDE DEF T
  <2> QED
    BY <1>1, <1>2, <1>3, NumbersAreReached
<1> QED
  BY <1>4

\* The states of a fold: it starts from the base, takes one element after the other, and ends
\* where it has taken them all.
LEMMA FoldStates ==
    ASSUME NEW base, NEW S, NEW seq \in Seq(S)
    PROVE  \E f : /\ f[0] = base
                  /\ \A n \in 1..Len(seq) : f[n] = Op(f[n - 1], seq[n])
                  /\ FoldLeft(Op, base, seq) = f[Len(seq)]
<1> DEFINE g == CHOOSE h : Solves(base, seq, Len(seq), h)
<1>1. Len(seq) \in Nat /\ DOMAIN seq = 1..Len(seq)
  OBVIOUS
<1>2. Solves(base, seq, Len(seq), g)
  BY <1>1, SolutionExists
<1>3. FoldLeft(Op, base, seq) = g[1..Len(seq)]
  BY <1>1 DEF FoldLeft, MapThenFoldSet, Solves, Equation
<1> HIDE DEF g
<1>4. ASSUME NEW n \in 1..Len(seq) PROVE g[1..n] = Op(g[1..(n - 1)], seq[n])
  <2>1. 1..n \in SUBSET (1..Len(seq)) /\ 1..n # {} /\ (1..n) \ {n} = 1..(n - 1)
    OBVIOUS
  <2>2. n - 1 \in Nat /\ 1..n \subseteq 1..((n - 1) + 1) /\ (n - 1) + 1 = n /\ n \in 1..n
    BY <1>1
  <2>3. Max(1..n) = n
    BY <2>2, LastIsMax
  <2> QED
    BY <1>2, <2>1, <2>3 DEF Solves, Equation
<1>5. g[{}] = base
  BY <1>2 DEF Solves, Equation
<1> DEFINE f == [n \in 0..Len(seq) |-> g[1..n]]
<1>6. f[0] = base
  <2>1. 1..0 = {}
    OBVIOUS
  <2> QED
    BY <1>1, <1>5, <2>1
<1>7. \A n \in 1..Len(seq) : f[n] = Op(f[n - 1], seq[n])
  BY <1>1, <1>4
<1>8. FoldLeft(Op, base, seq) = f[Len(seq)]
  BY <1>1, <1>3
<1> QED
  BY <1>6, <1>7, <1>8
=============================================================================

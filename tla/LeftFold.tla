------------------------------- MODULE LeftFold -------------------------------
(***************************************************************************)
(* A fold over a sequence, step by step, for any operator that is folded.  *)
(*                                                                         *)
(* FoldLeft is recursive in the set of the indices that are left.  Here it *)
(* is shown to be what a loop computes: there is a trail of intermediate   *)
(* values, from the base to the result, in which each is made of the one   *)
(* before it and the next element.  The folding operator is a constant of  *)
(* this module, so that an instance of it speaks of a given one.           *)
(*                                                                         *)
(* Induction is by minimal counterexample: a set of numbers that is not    *)
(* empty has a smallest element (LeastOf).                                 *)
(***************************************************************************)
EXTENDS SequencesExt, WellFoundedInduction, TLAPS

CONSTANT Op(_, _)

\* The largest index of those in D.
Top(D) == CHOOSE x \in D : \A y \in D : x >= y

\* f maps each set of indices of s to the fold over them.
IsFold(f, base, s, D) ==
  f = [S \in SUBSET D |-> IF S = {} THEN base ELSE Op(f[S \ {Top(S)}], s[Top(S)])]

\* What the fold over the indices in D comes to.
Folded(base, s, D) == (CHOOSE f : IsFold(f, base, s, D))[D]

\* The values of the loop after each number of elements.
IsTrail(f, base, s, n) ==
  f[0] = base /\ \A k \in 1 .. n : f[k] = Op(f[k - 1], s[k])

\* A set of numbers that is not empty has a smallest element.
LEMMA LeastOf ==
  ASSUME NEW T \in SUBSET Nat, T # {}
  PROVE  \E x \in T : \A y \in T : x <= y
<1> DEFINE R == {ss \in Nat \X Nat : ss[1] < ss[2]}
<1>1. IsWellFoundedOn(R, Nat)
  BY NatLessThanWellFounded DEF OpToRel
<1>2. PICK x \in T : \A y \in T : ~ (<<y, x>> \in R)
  <2> HIDE DEF R
  <2> QED BY <1>1, WFMin
<1>3. ASSUME NEW y \in T
      PROVE  x <= y
  <2>1. x \in Nat /\ y \in Nat
    OBVIOUS
  <2>2. ~ (<<y, x>> \in R)
    BY <1>2
  <2>3. ~ (y < x)
    BY <2>1, <2>2
  <2> HIDE DEF R
  <2> QED BY <2>1, <2>3
<1> QED BY <1>3

\* A statement about 0 and kept from each number to the next holds of all: the
\* form of induction used here, where U is the set of numbers it holds of.
LEMMA Induction ==
  ASSUME NEW n \in Nat, NEW U, 0 \in U, \A k \in 1 .. n : k - 1 \in U => k \in U
  PROVE  \A k \in 0 .. n : k \in U
<1> DEFINE T == {k \in 0 .. n : k \notin U}
<1>1. SUFFICES ASSUME T # {} PROVE FALSE
  OBVIOUS
<1>2. PICK x \in T : \A y \in T : x <= y
  <2>1. T \in SUBSET Nat
    OBVIOUS
  <2> HIDE DEF T
  <2> QED BY <1>1, <2>1, LeastOf
<1>3. x \in 1 .. n /\ x \notin U
  OBVIOUS
<1>4. x - 1 \in 0 .. n /\ ~ (x <= x - 1)
  BY <1>3
<1>5. x - 1 \in U
  BY <1>2, <1>4
<1> QED BY <1>3, <1>5

\* The largest index of a set that has the largest one of all.
LEMMA TopOf ==
  ASSUME NEW n \in Nat \ {0}, NEW S \in SUBSET (1 .. n), n \in S
  PROVE  Top(S) = n
<1>1. \A y \in S : n >= y
  OBVIOUS
<1>2. Top(S) \in S /\ \A y \in S : Top(S) >= y
  BY <1>1 DEF Top
<1>3. ASSUME NEW x \in S, \A y \in S : x >= y
      PROVE  x = n
  <2>1. x \in 1 .. n /\ x >= n
    BY <1>3
  <2> QED BY <2>1
<1> QED BY <1>2, <1>3, Zenon

\* Every sequence can be folded: the definition by recursion defines something.
LEMMA FoldExists ==
  ASSUME NEW base, NEW s, NEW n \in Nat
  PROVE  \E f : IsFold(f, base, s, 1 .. n)
<1> DEFINE U == {k \in Nat : \E f : IsFold(f, base, s, 1 .. k)}
<1>1. 0 \in U
  <2> DEFINE f == [S \in SUBSET (1 .. 0) |-> base]
  <2>1. \A S \in SUBSET (1 .. 0) : S = {}
    OBVIOUS
  <2>2. IsFold(f, base, s, 1 .. 0)
    BY <2>1 DEF IsFold
  <2> QED BY <2>2
<1>2. ASSUME NEW k \in 1 .. n, k - 1 \in U
      PROVE  k \in U
  <2>1. PICK g : IsFold(g, base, s, 1 .. (k - 1))
    BY <1>2
  <2> DEFINE Step(S) == IF k \in S THEN Op(g[S \ {k}], s[k]) ELSE g[S]
             h == [S \in SUBSET (1 .. k) |-> Step(S)]
  <2>2. ASSUME NEW S \in SUBSET (1 .. k)
        PROVE  h[S] = IF S = {} THEN base ELSE Op(h[S \ {Top(S)}], s[Top(S)])
    <3>1. CASE k \in S
      <4>1. Top(S) = k /\ S # {}
        BY <3>1, TopOf
      <4>2. S \ {k} \in SUBSET (1 .. k) /\ k \notin S \ {k}
        OBVIOUS
      <4>3. h[S \ {k}] = g[S \ {k}]
        BY <4>2
      <4>4. h[S] = Op(g[S \ {k}], s[k])
        BY <3>1
      <4> HIDE DEF h
      <4> QED BY <4>1, <4>3, <4>4
    <3>2. CASE k \notin S
      <4>1. S \in SUBSET (1 .. (k - 1))
        BY <3>2
      <4>2. g[S] = IF S = {} THEN base ELSE Op(g[S \ {Top(S)}], s[Top(S)])
        BY <2>1, <4>1 DEF IsFold
      <4>3. h[S] = g[S]
        BY <3>2
      <4>4. h[S \ {Top(S)}] = g[S \ {Top(S)}]
        BY <3>2
      <4> HIDE DEF h
      <4> QED BY <4>2, <4>3, <4>4
    <3> QED BY <3>1, <3>2
  <2>3. h = [S \in SUBSET (1 .. k) |-> h[S]]
    OBVIOUS
  <2>4. IsFold(h, base, s, 1 .. k)
    <3> HIDE DEF h
    <3> QED BY <2>2, <2>3 DEF IsFold
  <2> QED BY <2>4
<1>3. \A k \in 0 .. n : k \in U
  <2> HIDE DEF U
  <2> QED BY <1>1, <1>2, Induction
<1> QED BY <1>3

\* The fold is what a loop over the sequence computes.
THEOREM FoldHasTrail ==
  ASSUME NEW base, NEW s, NEW n \in Nat
  PROVE  \E f : IsTrail(f, base, s, n) /\ Folded(base, s, 1 .. n) = f[n]
<1> DEFINE F == CHOOSE f : IsFold(f, base, s, 1 .. n)
           f == [k \in 0 .. n |-> F[1 .. k]]
<1>1. IsFold(F, base, s, 1 .. n)
  BY FoldExists, Zenon
<1>2. f[0] = base
  <2>1. 1 .. 0 = {} /\ {} \in SUBSET (1 .. n)
    OBVIOUS
  <2>2. F[{}] = base
    BY <1>1, <2>1 DEF IsFold
  <2> HIDE DEF F
  <2> QED BY <2>1, <2>2
<1>3. ASSUME NEW k \in 1 .. n
      PROVE  f[k] = Op(f[k - 1], s[k])
  <2>1. 1 .. k \in SUBSET (1 .. n) /\ 1 .. k # {} /\ (1 .. k) \ {k} = 1 .. (k - 1)
    OBVIOUS
  <2>2. Top(1 .. k) = k
    BY TopOf
  <2>3. F[1 .. k] = Op(F[1 .. (k - 1)], s[k])
    <3> HIDE DEF F
    <3> QED BY <1>1, <2>1, <2>2 DEF IsFold
  <2> HIDE DEF F
  <2> QED BY <2>3
<1>4. Folded(base, s, 1 .. n) = f[n]
  BY DEF Folded
<1> HIDE DEF F
<1>5. IsTrail(f, base, s, n)
  BY <1>2, <1>3 DEF IsTrail
<1> QED BY <1>4, <1>5

=============================================================================

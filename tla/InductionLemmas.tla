--------------------------- MODULE InductionLemmas ---------------------------
(***************************************************************************)
(* Induction over the natural numbers, and functions that are defined by   *)
(* recursion over an initial part of them.                                 *)
(*                                                                         *)
(* NaturalsInduction states both for a predicate and for an operator.      *)
(* Here they are stated for a set and for a function, which a first-order  *)
(* prover can be given.                                                    *)
(***************************************************************************)
EXTENDS Integers, FiniteSetTheorems, WellFoundedInduction, TLAPS

-----------------------------------------------------------------------------
\* A set of natural numbers that is not empty has a smallest member.
LEMMA Smallest ==
    ASSUME NEW S \in SUBSET Nat, S # {}
    PROVE  \E n \in S : \A m \in S : n <= m
<1>. DEFINE R == OpToRel(<, Nat)
<1>1. \E n \in S : \A m \in S : ~ (<<m, n>> \in R)
  <2>1. IsWellFoundedOn(R, Nat)  BY NatLessThanWellFounded
  <2>. HIDE DEF R
  <2>. QED  BY <2>1, WFMin
<1>2. \A m, n \in Nat : m < n => <<m, n>> \in R
  BY DEF OpToRel
<1>. HIDE DEF R
<1>3. PICK n \in S : \A m \in S : ~ (<<m, n>> \in R)
  BY <1>1
<1>4. \A m \in S : ~ (m < n)
  BY <1>2, <1>3
<1>. QED  BY <1>4

\* Induction: a set with zero and the successor of each of its numbers has them all.
LEMMA Counting ==
    ASSUME NEW S, 0 \in S, \A n \in Nat : n \in S => n + 1 \in S
    PROVE  \A n \in Nat : n \in S
<1>1. SUFFICES ASSUME Nat \ S # {} PROVE FALSE
  OBVIOUS
<1>2. PICK n \in Nat \ S : \A m \in Nat \ S : n <= m
  BY <1>1, Smallest
<1>3. n # 0 /\ n - 1 \in Nat /\ n - 1 \in S
  BY <1>2
<1>. QED  BY <1>2, <1>3

\* The same up to a number.
LEMMA CountingTo ==
    ASSUME NEW S, NEW N \in Nat, 0 \in S, \A i \in 1..N : i - 1 \in S => i \in S
    PROVE  \A i \in 0..N : i \in S
<1>. DEFINE C == {n \in Nat : n <= N => n \in S}
<1>1. 0 \in C
  OBVIOUS
<1>2. ASSUME NEW n \in Nat, n \in C PROVE n + 1 \in C
  <2>1. CASE n + 1 <= N
    <3>1. n + 1 \in 1..N /\ (n + 1) - 1 = n
      BY <2>1
    <3>. QED  BY <1>2, <2>1, <3>1
  <2>. QED  BY <2>1
<1>. HIDE DEF C
<1>3. \A n \in Nat : n \in C
  BY <1>1, <1>2, Counting
<1>. QED  BY <1>3 DEF C

-----------------------------------------------------------------------------
(* f is defined on 0..N by its value at zero and by a step, given as a function of *)
(* the argument and of the value before.                                          *)

Steps(N, T) == [(1..N) \X T -> T]

Recurs(f, N, base, step) == f[0] = base /\ \A i \in 1..N : f[i] = step[<<i, f[i - 1]>>]

\* Such a function exists.
LEMMA Recursion ==
    ASSUME NEW T, NEW N \in Nat, NEW base \in T, NEW step \in Steps(N, T)
    PROVE  \E f \in [0..N -> T] : Recurs(f, N, base, step)
<1>. USE DEF Steps, Recurs
<1>. DEFINE Fits(n, f) == f[0] = base /\ \A i \in 1..n : f[i] = step[<<i, f[i - 1]>>]
            C == {n \in Nat : n <= N => \E f \in [0..n -> T] : Fits(n, f)}
<1>1. 0 \in C
  <2>1. Fits(0, [i \in 0..0 |-> base])  OBVIOUS
  <2>. QED  BY <2>1
<1>2. ASSUME NEW n \in Nat, n \in C PROVE n + 1 \in C
  <2>1. CASE n + 1 <= N
    <3>1. \E f \in [0..n -> T] : Fits(n, f)
      BY <1>2, <2>1
    <3>2. PICK f \in [0..n -> T] : Fits(n, f)
      BY <3>1
    <3>. DEFINE x == step[<<n + 1, f[n]>>]
                g == [i \in 0..(n + 1) |-> IF i <= n THEN f[i] ELSE x]
    <3>3. x \in T
      BY <2>1
    <3>. HIDE DEF x
    <3>4. g \in [0..(n + 1) -> T]
      BY <3>3
    <3>5. g[0] = base /\ g[n + 1] = x /\ \A i \in 0..n : g[i] = f[i]
      BY <3>2
    <3>. HIDE DEF g
    <3>6. \A i \in 1..(n + 1) : g[i] = step[<<i, g[i - 1]>>]
      <4>1. ASSUME NEW i \in 1..n PROVE g[i] = step[<<i, g[i - 1]>>]
        BY <3>2, <3>5
      <4>2. g[n + 1] = step[<<n + 1, g[n]>>]
        <5>1. g[n] = f[n] /\ g[n + 1] = x  BY <3>5
        <5>. QED  BY <5>1 DEF x
      <4>. QED  BY <4>1, <4>2
    <3>. QED  BY <3>4, <3>5, <3>6
  <2>. QED  BY <2>1
<1>. HIDE DEF C
<1>3. N \in C
  BY <1>1, <1>2, Counting
<1>. QED  BY <1>3 DEF C
-----------------------------------------------------------------------------
(* The same over the subsets of a finite set, as the folds of the community modules *)
(* are defined: a member of the set is picked and the rest comes first.             *)

Picks(pick, S) == \A T \in SUBSET S : T # {} => pick[T] \in T

FoldsTo(g, S, pick, base, step) ==
    /\ g[{}] = base
    /\ \A T \in SUBSET S : T # {} => g[T] = step[<<pick[T], g[T \ {pick[T]}]>>]

\* Such a function exists.
LEMMA SubsetRecursion ==
    ASSUME NEW S, IsFiniteSet(S), NEW V, NEW base \in V, NEW step \in [S \X V -> V],
           NEW pick, Picks(pick, S)
    PROVE  \E g \in [SUBSET S -> V] : FoldsTo(g, S, pick, base, step)
<1>. DEFINE Small(n) == {T \in SUBSET S : Cardinality(T) <= n}
            Fits(n, g) ==
                /\ g[{}] = base
                /\ \A T \in Small(n) : T # {} => g[T] = step[<<pick[T], g[T \ {pick[T]}]>>]
            C == {n \in Nat : \E g \in [Small(n) -> V] : Fits(n, g)}
<1>1. \A T \in SUBSET S : IsFiniteSet(T) /\ Cardinality(T) \in Nat /\ (Cardinality(T) = 0 <=> T = {})
  BY FS_Subset, FS_CardinalityType, FS_EmptySet
<1>2. ASSUME NEW T \in SUBSET S, T # {}
      PROVE  /\ pick[T] \in S /\ T \ {pick[T]} \in SUBSET S
             /\ Cardinality(T \ {pick[T]}) = Cardinality(T) - 1
  BY <1>1, <1>2, FS_RemoveElement DEF Picks
<1>3. 0 \in C
  <2>. DEFINE g == [T \in Small(0) |-> base]
  <2>1. Small(0) = {{}}
    BY <1>1, FS_EmptySet
  <2>2. g \in [Small(0) -> V] /\ Fits(0, g)
    BY <2>1
  <2>. QED  BY <2>2
<1>4. ASSUME NEW n \in Nat, n \in C PROVE n + 1 \in C
  <2>1. PICK f \in [Small(n) -> V] : Fits(n, f)
    BY <1>4
  <2>. DEFINE Value(T) == IF T \in Small(n) THEN f[T] ELSE step[<<pick[T], f[T \ {pick[T]}]>>]
              g == [T \in Small(n + 1) |-> Value(T)]
  <2>2. {} \in Small(n) /\ Small(n) \subseteq Small(n + 1)
    BY <1>1, FS_EmptySet
  <2>3. ASSUME NEW T \in Small(n + 1), T # {} PROVE T \ {pick[T]} \in Small(n) /\ pick[T] \in S
    BY <1>1, <1>2, <2>3
  <2>. HIDE DEF Small
  <2>4. \A T \in Small(n + 1) : Value(T) \in V
    BY <2>2, <2>3
  <2>5. g \in [Small(n + 1) -> V] /\ \A T \in Small(n + 1) : g[T] = Value(T)
    <3>. HIDE DEF Value
    <3>. QED  BY <2>4
  <2>. HIDE DEF g
  <2>6. \A T \in Small(n) : g[T] = f[T]
    BY <2>2, <2>5
  <2>7. ASSUME NEW T \in Small(n + 1), T # {}
        PROVE  g[T] = step[<<pick[T], g[T \ {pick[T]}]>>]
    <3>1. g[T \ {pick[T]}] = f[T \ {pick[T]}]
      BY <2>3, <2>6, <2>7
    <3>2. CASE T \in Small(n)
      BY <2>1, <2>6, <2>7, <3>1, <3>2
    <3>3. CASE T \notin Small(n)
      BY <2>5, <3>1, <3>3
    <3>. QED  BY <3>2, <3>3
  <2>8. Fits(n + 1, g)
    BY <2>1, <2>2, <2>6, <2>7
  <2>. HIDE DEF Fits
  <2>. QED  BY <2>5, <2>8
<1>. HIDE DEF C
<1>5. Cardinality(S) \in Nat /\ Cardinality(S) \in C
  BY <1>1, <1>3, <1>4, Counting
<1>6. Small(Cardinality(S)) = SUBSET S
  BY FS_Subset, <1>1
<1>. HIDE DEF Small
<1>. QED  BY <1>5, <1>6 DEF C, FoldsTo
=============================================================================

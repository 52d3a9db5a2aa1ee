-------------------------- MODULE LobbyPartsProofs --------------------------
(***************************************************************************)
(* Theorems about the parts of the lobby that run beside the hub: the      *)
(* wallets of Talents, for any accounts, nodes and catalogues; the tasks   *)
(* behind a connection of Outbound, for any connections, addresses and     *)
(* limits; the client's end of one of LobbyClient, for any callers and     *)
(* delays.                                                                 *)
(***************************************************************************)
EXTENDS Talents, Outbound, LobbyClient, Folds, InductionLemmas, SequenceTheorems,
        FiniteSetTheorems, TLAPS

---------------------------------------------------------------------------
(* Sequences and sums. *)

AtMostOne(s, H) == \A i, j \in 1..Len(s) : s[i] \in H /\ s[j] \in H => i = j

LEMMA AppendFacts ==
    ASSUME NEW T, NEW s \in Seq(T), NEW x \in T
    PROVE  /\ Append(s, x) \in Seq(T)
           /\ ToSet(Append(s, x)) = ToSet(s) \cup {x}
           /\ \A H : AtMostOne(s, H) /\ (x \notin H \/ ToSet(s) \cap H = {}) => AtMostOne(Append(s, x), H)
<1>1. Append(s, x) \in Seq(T) /\ Len(Append(s, x)) = Len(s) + 1
  BY AppendProperties
<1>2. \A i \in 1..(Len(s) + 1) : Append(s, x)[i] = IF i = Len(s) + 1 THEN x ELSE s[i]
  BY AppendProperties
<1>3. DOMAIN s = 1..Len(s) /\ DOMAIN Append(s, x) = 1..(Len(s) + 1) /\ Len(s) \in Nat
  BY <1>1
<1>. DEFINE a == Append(s, x)  n == Len(s)
<1>. HIDE DEF a, n
<1>4. \A y : (\E i \in 1..(n + 1) : a[i] = y) <=> y = x \/ \E i \in 1..n : s[i] = y
  BY <1>2, <1>3 DEF a, n
<1>5. ToSet(a) = ToSet(s) \cup {x}
  BY <1>3, <1>4 DEF ToSet, a, n
<1>6. ASSUME NEW H, AtMostOne(s, H), x \notin H \/ ToSet(s) \cap H = {} PROVE AtMostOne(a, H)
  <2>1. \A i \in 1..n : s[i] \in ToSet(s)
    BY <1>3 DEF ToSet, n
  <2>2. ASSUME NEW i \in 1..(n + 1), NEW j \in 1..(n + 1), a[i] \in H, a[j] \in H PROVE i = j
    <3>1. CASE i = n + 1 \/ j = n + 1
      BY <1>2, <1>3, <1>6, <2>1, <2>2, <3>1 DEF a, n
    <3>2. CASE i \in 1..n /\ j \in 1..n
      BY <1>2, <1>3, <1>6, <2>2, <3>2 DEF a, n, AtMostOne
    <3>. QED  BY <1>3, <3>1, <3>2 DEF n
  <2>. QED  BY <1>1, <2>2 DEF AtMostOne, a, n
<1>. QED  BY <1>1, <1>5, <1>6 DEF a

LEMMA RestFacts ==
    ASSUME NEW T, NEW s \in Seq(T), s # <<>>
    PROVE  /\ Head(s) \in T /\ Tail(s) \in Seq(T)
           /\ ToSet(s) = {Head(s)} \cup ToSet(Tail(s))
           /\ \A H : AtMostOne(s, H) =>
                /\ AtMostOne(Tail(s), H)
                /\ Head(s) \in H => ToSet(Tail(s)) \cap H = {}
<1>. DEFINE t == Tail(s)  n == Len(s)
<1>1. /\ n \in Nat /\ n # 0 /\ Head(s) = s[1] /\ s[1] \in T
      /\ t \in Seq(T) /\ Len(t) = n - 1 /\ DOMAIN s = 1..n /\ DOMAIN t = 1..(n - 1)
      /\ \A i \in 1..(n - 1) : t[i] = s[i + 1]
  BY HeadTailProperties
<1>. HIDE DEF t, n
<1>2. \A i \in 1..n : i = 1 \/ (i - 1 \in 1..(n - 1) /\ t[i - 1] = s[i])
  BY <1>1
<1>3. ToSet(s) = {s[1]} \cup ToSet(t)
  <2>1. \A y : (\E i \in 1..n : s[i] = y) <=> y = s[1] \/ \E i \in 1..(n - 1) : t[i] = y
    BY <1>1, <1>2
  <2>2. \A y : (y \in ToSet(s) <=> \E i \in 1..n : s[i] = y) /\ (y \in ToSet(t) <=> \E i \in 1..(n - 1) : t[i] = y)
    BY <1>1 DEF ToSet
  <2>. QED  BY <2>1, <2>2
<1>4. ASSUME NEW H, AtMostOne(s, H)
      PROVE  AtMostOne(t, H) /\ (s[1] \in H => ToSet(t) \cap H = {})
  <2>1. \A i, j \in 1..n : s[i] \in H /\ s[j] \in H => i = j
    BY <1>4 DEF AtMostOne, n
  <2>2. \A i \in 1..(n - 1) : i + 1 \in 1..n /\ i + 1 # 1
    BY <1>1
  <2>3. AtMostOne(t, H)
    BY <1>1, <2>1, <2>2 DEF AtMostOne
  <2>4. ASSUME s[1] \in H, NEW i \in 1..(n - 1), t[i] \in H PROVE FALSE
    BY <1>1, <2>1, <2>2, <2>4
  <2>. QED  BY <1>1, <2>3, <2>4 DEF ToSet
<1>. QED  BY <1>1, <1>3, <1>4 DEF t

LEMMA CutFacts ==
    ASSUME NEW T, NEW s \in Seq(T), NEW k \in DOMAIN s
    PROVE  /\ SubSeq(s, k + 1, Len(s)) \in Seq(T)
           /\ ToSet(SubSeq(s, k + 1, Len(s))) \subseteq ToSet(s)
           /\ ToSet(SubSeq(s, 1, k)) \subseteq ToSet(s)
<1>. DEFINE n == Len(s)  r == SubSeq(s, k + 1, n)  d == SubSeq(s, 1, k)
<1>1. n \in Nat /\ k \in 1..n /\ DOMAIN s = 1..n /\ \A i \in 1..n : s[i] \in T
  OBVIOUS
<1>2. r \in Seq(T) /\ Len(r) = n - k /\ \A i \in 1..(n - k) : r[i] = s[k + i]
  BY SubSeqProperties
<1>3. d \in Seq(T) /\ Len(d) = k /\ \A i \in 1..k : d[i] = s[i]
  BY SubSeqProperties
<1>4. DOMAIN r = 1..(n - k) /\ DOMAIN d = 1..k
  BY <1>2, <1>3
<1>. HIDE DEF n, r, d
<1>5. ToSet(r) \subseteq ToSet(s)
  <2>1. \A i \in 1..(n - k) : k + i \in 1..n
    BY <1>1
  <2>. QED  BY <1>1, <1>2, <1>4, <2>1 DEF ToSet
<1>6. ToSet(d) \subseteq ToSet(s)
  <2>1. \A i \in 1..k : i \in 1..n
    BY <1>1
  <2>. QED  BY <1>1, <1>3, <1>4, <2>1 DEF ToSet
<1>. QED  BY <1>2, <1>5, <1>6 DEF n, r, d

LEMMA KeptFacts ==
    ASSUME NEW T, NEW t \in Seq(T), NEW x \in T, NEW S
    PROVE  /\ Kept(t, x, S) \in Seq(T) /\ ToSet(Kept(t, x, S)) = ToSet(t) \cup ({x} \ S)
           /\ \A H : AtMostOne(t, H) /\ (x \notin H \/ ToSet(t) \cap H = {}) => AtMostOne(Kept(t, x, S), H)
<1>1. CASE x \in S
  BY <1>1 DEF Kept
<1>2. CASE x \notin S
  <2>. DEFINE a == Append(t, x)
  <2>1. /\ a \in Seq(T) /\ ToSet(a) = ToSet(t) \cup {x}
        /\ \A H : AtMostOne(t, H) /\ (x \notin H \/ ToSet(t) \cap H = {}) => AtMostOne(a, H)
    BY AppendFacts
  <2>2. Kept(t, x, S) = a
    BY <1>2 DEF Kept
  <2>. HIDE DEF a
  <2>. QED  BY <1>2, <2>1, <2>2
<1>. QED  BY <1>1, <1>2

\* What is left are the elements that are not in S.
LEMMA WithoutFacts ==
    ASSUME NEW T, NEW s \in Seq(T), NEW S
    PROVE  /\ Without(s, S) \in Seq(T)
           /\ ToSet(Without(s, S)) = ToSet(s) \ S
           /\ \A H : AtMostOne(s, H) => AtMostOne(Without(s, S), H)
<1>. DEFINE N == Len(s)
            U == Seq(T)
            step == [p \in (1..N) \X U |-> Kept(p[2], s[p[1]], S)]
            Body(k, i) == IF i = 0 THEN <<>> ELSE Kept(k[i - 1], s[i], S)
            kept == CHOOSE k : k = [i \in 0..N |-> Body(k, i)]
<1>1. N \in Nat /\ <<>> \in U /\ \A i \in 1..N : s[i] \in T
  OBVIOUS
<1>2. step \in Steps(N, U) /\ \A i \in 1..N, t \in U : step[<<i, t>>] = Kept(t, s[i], S)
  BY <1>1, KeptFacts DEF Steps
<1>. HIDE DEF N, U, step
<1>3. PICK f \in [0..N -> U] : Recurs(f, N, <<>>, step)
  BY <1>1, <1>2, Recursion
<1>4. f = [i \in 0..N |-> Body(f, i)]
  <2>1. f[0] = Body(f, 0)
    BY <1>3 DEF Recurs
  <2>2. ASSUME NEW i \in 1..N PROVE f[i] = Body(f, i)
    <3>1. i # 0 /\ i - 1 \in 0..N
      BY <1>1
    <3>2. f[i - 1] \in U /\ f[i] = step[<<i, f[i - 1]>>]
      BY <1>3, <3>1 DEF Recurs
    <3>3. f[i] = Kept(f[i - 1], s[i], S)
      BY <1>2, <3>2
    <3>. QED  BY <3>1, <3>3
  <2>. HIDE DEF Body
  <2>3. \A i \in 0..N : f[i] = Body(f, i)
    BY <1>1, <2>1, <2>2
  <2>. QED  BY <2>3
<1>5. kept = [i \in 0..N |-> Body(kept, i)]
  <2>. HIDE DEF Body
  <2>. QED  BY <1>4
<1>6. Without(s, S) = kept[N]
  BY DEF Without, N
<1>. HIDE DEF kept
<1>7. kept[0] = <<>> /\ \A i \in 1..N : kept[i] = Kept(kept[i - 1], s[i], S)
  <2>. HIDE DEF Body
  <2>1. \A i \in 0..N : kept[i] = Body(kept, i)
    BY <1>5
  <2>. QED  BY <1>1, <2>1 DEF Body
<1>. DEFINE Found(n) ==
                /\ kept[n] \in U
                /\ \A x : x \in ToSet(kept[n]) <=> x \notin S /\ \E i \in 1..n : s[i] = x
                /\ \A H : AtMostOne(s, H) => AtMostOne(kept[n], H)
            D == {n \in Nat : n <= N => Found(n)}
<1>8. Found(0)
  BY <1>1, <1>7 DEF ToSet, AtMostOne
<1>9. ASSUME NEW n \in Nat, n + 1 <= N, Found(n) PROVE Found(n + 1)
  <2>1. n + 1 \in 1..N /\ kept[n + 1] = Kept(kept[n], s[n + 1], S) /\ s[n + 1] \in T
    BY <1>1, <1>7, <1>9
  <2>2. kept[n + 1] \in U /\ ToSet(kept[n + 1]) = ToSet(kept[n]) \cup ({s[n + 1]} \ S)
    BY <1>9, <2>1, KeptFacts DEF U
  <2>3. \A i : i \in 1..(n + 1) <=> i \in 1..n \/ i = n + 1
    OBVIOUS
  <2>4. \A x : x \in ToSet(kept[n + 1]) <=> x \notin S /\ \E i \in 1..(n + 1) : s[i] = x
    BY <1>9, <2>2, <2>3
  <2>5. ASSUME NEW H, AtMostOne(s, H) PROVE AtMostOne(kept[n + 1], H)
    <3>1. AtMostOne(kept[n], H) /\ kept[n] \in Seq(T)
      BY <1>9, <2>5 DEF U
    <3>2. s[n + 1] \notin H \/ ToSet(kept[n]) \cap H = {}
      <4>1. ASSUME s[n + 1] \in H, NEW x \in ToSet(kept[n]), x \in H PROVE FALSE
        <5>1. PICK i \in 1..n : s[i] = x
          BY <1>9, <4>1
        <5>2. i \in 1..N /\ n + 1 \in 1..N /\ i # n + 1
          BY <1>1, <1>9
        <5>. QED  BY <2>5, <4>1, <5>1, <5>2 DEF AtMostOne, N
      <4>. QED  BY <4>1
    <3>. QED  BY <2>1, <3>1, <3>2, KeptFacts
  <2>. QED  BY <2>2, <2>4, <2>5
<1>. HIDE DEF Found
<1>10. \A n \in Nat : n \in D => n + 1 \in D
  BY <1>1, <1>9
<1>11. N \in D
  <2>1. 0 \in D
    BY <1>8
  <2>. HIDE DEF D
  <2>. QED  BY <1>1, <1>10, <2>1, Counting
<1>12. Found(N)
  BY <1>1, <1>11
<1>13. \A x : x \in ToSet(s) <=> \E i \in 1..N : s[i] = x
  BY DEF ToSet, N
<1>. QED  BY <1>6, <1>12, <1>13 DEF Found, U

\* A sum over a finite set of natural numbers is one.
LEMMA SumIsNat ==
    ASSUME NEW S, IsFiniteSet(S), NEW f, \A x \in S : f[x] \in Nat
    PROVE  SumFunctionOnSet(f, S) \in Nat
<1>. DEFINE pick == [T \in SUBSET S |-> CHOOSE x \in T : TRUE]
            step == [p \in S \X Nat |-> f[p[1]] + p[2]]
            Body(k, T) == IF T = {} THEN 0 ELSE f[CHOOSE x \in T : TRUE] + k[T \ {CHOOSE x \in T : TRUE}]
            sum == CHOOSE k : k = [T \in SUBSET S |-> Body(k, T)]
<1>1. /\ Picks(pick, S) /\ \A T \in SUBSET S : pick[T] = CHOOSE x \in T : TRUE
      /\ step \in [S \X Nat -> Nat] /\ \A x \in S, n \in Nat : step[<<x, n>>] = f[x] + n
  BY DEF Picks
<1>. HIDE DEF step
<1>2. PICK g \in [SUBSET S -> Nat] : FoldsTo(g, S, pick, 0, step)
  BY <1>1, SubsetRecursion
<1>. HIDE DEF pick
<1>3. ASSUME NEW T \in SUBSET S PROVE g[T] = Body(g, T)
  <2>1. CASE T = {}
    BY <1>2, <2>1 DEF FoldsTo
  <2>2. CASE T # {}
    <3>. DEFINE x == CHOOSE y \in T : TRUE
    <3>1. x \in S /\ pick[T] = x
      BY <1>1, <2>2 DEF Picks
    <3>. HIDE DEF x
    <3>2. g[T] = f[x] + g[T \ {x}]
      BY <1>1, <1>2, <2>2, <3>1 DEF FoldsTo
    <3>. QED  BY <2>2, <3>2 DEF x
  <2>. QED  BY <2>1, <2>2
<1>4. g = [T \in SUBSET S |-> Body(g, T)]
  <2>. HIDE DEF Body
  <2>. QED  BY <1>3
<1>5. sum = [T \in SUBSET S |-> Body(sum, T)]
  <2>. HIDE DEF Body
  <2>. QED  BY <1>4
<1>6. SumFunctionOnSet(f, S) = sum[S]
  BY DEF SumFunctionOnSet, FoldFunctionOnSet, MapThenFoldSet
<1>. HIDE DEF sum
<1>7. /\ sum[{}] = 0
      /\ \A T \in SUBSET S : T # {} => \E x \in T : sum[T] = f[x] + sum[T \ {x}]
  <2>. DEFINE some(T) == CHOOSE y \in T : TRUE
  <2>1. \A T \in SUBSET S : T # {} => some(T) \in T
    OBVIOUS
  <2>2. \A T \in SUBSET S : sum[T] = IF T = {} THEN 0 ELSE f[some(T)] + sum[T \ {some(T)}]
    <3>1. \A T \in SUBSET S : sum[T] = Body(sum, T)
      <4>. HIDE DEF Body
      <4>. QED  BY <1>5
    <3>. QED  BY <3>1
  <2>. HIDE DEF some
  <2>. QED  BY <2>1, <2>2
<1>. DEFINE D == {n \in Nat : \A T \in SUBSET S : Cardinality(T) = n => sum[T] \in Nat}
<1>8. \A T \in SUBSET S : IsFiniteSet(T) /\ Cardinality(T) \in Nat /\ (Cardinality(T) = 0 <=> T = {})
  BY FS_Subset, FS_CardinalityType, FS_EmptySet
<1>9. 0 \in D
  BY <1>7, <1>8
<1>10. ASSUME NEW n \in Nat, n \in D PROVE n + 1 \in D
  <2>1. ASSUME NEW T \in SUBSET S, Cardinality(T) = n + 1 PROVE sum[T] \in Nat
    <3>1. PICK x \in T : sum[T] = f[x] + sum[T \ {x}]
      BY <1>7, <1>8, <2>1
    <3>2. T \ {x} \in SUBSET S /\ Cardinality(T \ {x}) = n
      <4>1. IsFiniteSet(T) /\ Cardinality(T) = n + 1
        BY <1>8, <2>1
      <4>2. Cardinality(T \ {x}) = Cardinality(T) - 1
        BY <4>1, FS_RemoveElement
      <4>. QED  BY <4>1, <4>2
    <3>. QED  BY <1>10, <3>1, <3>2
  <2>. QED  BY <2>1
<1>. HIDE DEF D
<1>11. Cardinality(S) \in D
  BY <1>8, <1>9, <1>10, Counting
<1>. QED  BY <1>6, <1>11 DEF D

---------------------------------------------------------------------------
(* What a reader of the ledger arrives at. *)

Balances(b, d) ==
    /\ b[0] = 0
    /\ \A i \in 1..Len(d) : b[i] = Bigger(0, b[i - 1] + d[i])

LEMMA BiggerFacts == \A n \in Int : Bigger(0, n) \in Nat /\ (n \in Nat => Bigger(0, n) = n)
  BY DEF Bigger

\* Replay is what its definition says: the last of the running balances.
LEMMA ReplayBalances ==
    ASSUME NEW d \in Seq(Int)
    PROVE  \E b \in [0..Len(d) -> Nat] : Balances(b, d) /\ Replay(d) = b[Len(d)]
<1>. DEFINE N == Len(d)
            step == [p \in (1..N) \X Nat |-> Bigger(0, p[2] + d[p[1]])]
            Body(k, i) == IF i = 0 THEN 0 ELSE Bigger(0, k[i - 1] + d[i])
            balance == CHOOSE k : k = [i \in 0..N |-> Body(k, i)]
<1>1. N \in Nat /\ \A i \in 1..N : d[i] \in Int
  OBVIOUS
<1>. HIDE DEF N
<1>2. \A i \in 1..N, n \in Nat : Bigger(0, n + d[i]) \in Nat
  <2>1. \A i \in 1..N, n \in Nat : n + d[i] \in Int
    BY <1>1
  <2>. QED  BY <2>1, BiggerFacts
<1>3. step \in Steps(N, Nat) /\ \A i \in 1..N, n \in Nat : step[<<i, n>>] = Bigger(0, n + d[i])
  BY <1>2 DEF Steps
<1>. HIDE DEF step
<1>4. PICK f \in [0..N -> Nat] : Recurs(f, N, 0, step)
  BY <1>1, <1>3, Recursion
<1>5. f = [i \in 0..N |-> Body(f, i)]
  <2>1. f[0] = Body(f, 0)
    BY <1>4 DEF Recurs
  <2>2. ASSUME NEW i \in 1..N PROVE f[i] = Body(f, i)
    <3>1. i # 0 /\ i - 1 \in 0..N
      BY <1>1
    <3>2. f[i - 1] \in Nat /\ f[i] = step[<<i, f[i - 1]>>]
      BY <1>4, <3>1 DEF Recurs
    <3>. QED  BY <1>3, <3>1, <3>2
  <2>. HIDE DEF Body
  <2>3. \A i \in 0..N : f[i] = Body(f, i)
    BY <1>1, <2>1, <2>2
  <2>. QED  BY <2>3
<1>6. balance = [i \in 0..N |-> Body(balance, i)]
  <2>. HIDE DEF Body
  <2>. QED  BY <1>5
<1>7. Replay(d) = balance[N]
  BY DEF Replay, N
<1>. HIDE DEF balance
<1>8. balance[0] = 0 /\ \A i \in 1..N : balance[i] = Bigger(0, balance[i - 1] + d[i])
  <2>. HIDE DEF Body
  <2>1. \A i \in 0..N : balance[i] = Body(balance, i)
    BY <1>6
  <2>. QED  BY <1>1, <2>1 DEF Body
<1>9. \A i \in 0..N : balance[i] \in Nat
  <2>. DEFINE D == {i \in 0..N : balance[i] \in Nat}
  <2>1. 0 \in D
    BY <1>1, <1>8
  <2>2. ASSUME NEW i \in 1..N, i - 1 \in D PROVE i \in D
    <3>1. i \in 0..N
      BY <1>1
    <3>2. balance[i - 1] \in Nat /\ balance[i] = Bigger(0, balance[i - 1] + d[i])
      BY <1>8, <2>2
    <3>3. balance[i] \in Nat
      BY <1>2, <3>2
    <3>. QED  BY <3>1, <3>3
  <2>. HIDE DEF D
  <2>3. \A i \in 0..N : i \in D
    BY <1>1, <2>1, <2>2, CountingTo
  <2>. QED  BY <2>3 DEF D
<1>10. balance \in [0..N -> Nat]
  <2>. HIDE DEF Body
  <2>1. DOMAIN balance = 0..N /\ balance = [i \in 0..N |-> balance[i]]
    BY <1>6
  <2>. QED  BY <1>9, <2>1
<1>. QED  BY <1>7, <1>8, <1>10 DEF Balances, N

LEMMA ReplayFacts ==
    /\ Replay(<<>>) = 0
    /\ \A d \in Seq(Int) : Replay(d) \in Nat
<1>1. <<>> \in Seq(Int) /\ Len(<<>>) = 0
  OBVIOUS
<1>2. Replay(<<>>) = 0
  BY <1>1, ReplayBalances DEF Balances
<1>3. ASSUME NEW d \in Seq(Int) PROVE Replay(d) \in Nat
  <2>1. PICK b \in [0..Len(d) -> Nat] : Replay(d) = b[Len(d)]
    BY ReplayBalances
  <2>2. Len(d) \in 0..Len(d)
    OBVIOUS
  <2>. QED  BY <2>1, <2>2
<1>. QED  BY <1>2, <1>3

\* One more row is one more step of the balance.
LEMMA ReplayAppends ==
    ASSUME NEW d \in Seq(Int), NEW x \in Int
    PROVE  Replay(Append(d, x)) = Bigger(0, Replay(d) + x)
<1>. DEFINE e == Append(d, x)  n == Len(d)
<1>1. /\ e \in Seq(Int) /\ Len(e) = n + 1 /\ n \in Nat
      /\ \A i \in 1..(n + 1) : e[i] = IF i = n + 1 THEN x ELSE d[i]
  BY AppendProperties
<1>. HIDE DEF e
<1>2. PICK b \in [0..Len(d) -> Nat] : Balances(b, d) /\ Replay(d) = b[n]
  BY ReplayBalances
<1>3. PICK c \in [0..Len(e) -> Nat] : Balances(c, e) /\ Replay(e) = c[n + 1]
  BY <1>1, ReplayBalances
<1>4. c[n] = b[n]
  <2>. DEFINE D == {i \in 0..n : c[i] = b[i]}
  <2>1. 0 \in D
    BY <1>1, <1>2, <1>3 DEF Balances
  <2>2. ASSUME NEW i \in 1..n, i - 1 \in D PROVE i \in D
    <3>1. i \in 1..(n + 1) /\ e[i] = d[i]
      BY <1>1
    <3>2. b[i] = Bigger(0, b[i - 1] + d[i]) /\ c[i] = Bigger(0, c[i - 1] + e[i])
      BY <1>1, <1>2, <1>3, <3>1 DEF Balances
    <3>. QED  BY <2>2, <3>1, <3>2
  <2>. HIDE DEF D
  <2>3. \A i \in 0..n : i \in D
    BY <1>1, <2>1, <2>2, CountingTo
  <2>. QED  BY <1>1, <2>3 DEF D
<1>5. c[n + 1] = Bigger(0, c[n] + x)
  <2>1. n + 1 \in 1..Len(e) /\ (n + 1) - 1 = n /\ e[n + 1] = x
    BY <1>1
  <2>2. c[n + 1] = Bigger(0, c[(n + 1) - 1] + e[n + 1])
    BY <1>3, <2>1 DEF Balances
  <2>. QED  BY <2>1, <2>2
<1>. QED  BY <1>2, <1>3, <1>4, <1>5 DEF e

---------------------------------------------------------------------------
(* Types of the wallets, and what the ledger says of them. *)

\* A wallet owns finitely many nodes, so what they cost has a sum.
FiniteTrees == \A a \in Accounts : IsFiniteSet(wallet[a].owned)

\* The owner's grants wait for one another.
OneGrant == \A g, h \in grant : g = h

\* Between its two statements a grant's wallet is one step ahead of its ledger.
GrantAhead ==
    \A g \in grant : g.to \in torn \/ wallet[g.to].points = Bigger(0, Replay(ledger[g.to]) + g.delta)

LedgerInv == TalentsTypeOK /\ FiniteTrees /\ OneGrant /\ GrantAhead /\ LedgerExplainsWallet

LEMMA TallyType ==
    ASSUME NEW p \in Nat, NEW o \in SUBSET Nodes, NEW e \in Nat
    PROVE  /\ Tally(p, o, e) \in Wallet /\ Tally(p, o, e).points = p
           /\ Tally(p, o, e).owned = o /\ Tally(p, o, e).earned = e
  BY DEF Tally, Wallet

LEMMA EmptyType == Empty \in Wallet /\ Empty.points = 0 /\ Empty.owned = {}
  BY TallyType DEF Empty

LEMMA WalletType ==
    ASSUME LedgerInv, NEW a \in Accounts
    PROVE  /\ wallet[a] \in Wallet /\ wallet[a].points \in Nat /\ wallet[a].owned \in SUBSET Nodes
           /\ wallet[a].earned \in Nat /\ IsFiniteSet(wallet[a].owned) /\ ledger[a] \in Seq(Int)
  BY DEF LedgerInv, TalentsTypeOK, FiniteTrees, Wallet

LEMMA CreditedType ==
    ASSUME NEW w \in Wallet, NEW delta \in Int
    PROVE  /\ Credited(w, delta) \in Wallet /\ Credited(w, delta).owned = w.owned
           /\ Credited(w, delta).points = Bigger(0, w.points + delta)
<1>1. w.points \in Nat /\ w.earned \in Nat /\ w.owned \in SUBSET Nodes
  BY DEF Wallet
<1>2. Bigger(0, w.points + delta) \in Nat /\ Bigger(0, delta) \in Nat
  BY <1>1, BiggerFacts
<1>3. w.earned + Bigger(0, delta) \in Nat
  BY <1>1, <1>2
<1>. QED  BY <1>1, <1>2, <1>3, TallyType DEF Credited

LEMMA RefundType ==
    ASSUME LedgerInv, NEW a \in Accounts
    PROVE  SpentTotal(catalog, wallet[a].owned) \in Nat
<1>. DEFINE S == wallet[a].owned \cap DOMAIN catalog.cost
            cost == catalog.cost
<1>1. IsFiniteSet(S)
  BY WalletType, FS_Subset
<1>2. \A n \in S : cost[n] \in Nat
  BY CatalogAssumption DEF LedgerInv, TalentsTypeOK
<1>3. SpentTotal(catalog, wallet[a].owned) = SumFunctionOnSet(cost, S)
  BY DEF SpentTotal
<1>. HIDE DEF S, cost
<1>. QED  BY <1>1, <1>2, <1>3, SumIsNat

\* A transaction writes a wallet and the row that explains it.
LEMMA WriteInv ==
    ASSUME LedgerInv, NEW a \in Accounts, NEW w \in Wallet, IsFiniteSet(w.owned), NEW delta \in Int,
           Write(a, w, delta), w.points = Bigger(0, wallet[a].points + delta),
           UNCHANGED <<grant, torn>>
    PROVE  /\ wallet' \in [Accounts -> Wallet] /\ ledger' \in [Accounts -> Seq(Int)]
           /\ FiniteTrees' /\ OneGrant' /\ GrantAhead' /\ LedgerExplainsWallet'
<1>1. /\ grant = {} /\ wallet' = [wallet EXCEPT ![a] = w]
      /\ ledger' = [ledger EXCEPT ![a] = Append(@, delta)]
  BY DEF Write, DbFree
<1>2. /\ wallet \in [Accounts -> Wallet] /\ ledger \in [Accounts -> Seq(Int)]
      /\ ledger[a] \in Seq(Int) /\ torn \subseteq Accounts
  BY DEF LedgerInv, TalentsTypeOK
<1>3. Append(ledger[a], delta) \in Seq(Int)
  BY <1>2, AppendProperties
<1>4. /\ wallet' \in [Accounts -> Wallet] /\ ledger' \in [Accounts -> Seq(Int)]
      /\ wallet'[a] = w /\ ledger'[a] = Append(ledger[a], delta)
      /\ \A b \in Accounts : b # a => wallet'[b] = wallet[b] /\ ledger'[b] = ledger[b]
  BY <1>1, <1>2, <1>3
<1>5. FiniteTrees' /\ OneGrant' /\ GrantAhead'
  BY <1>1, <1>4 DEF LedgerInv, FiniteTrees, OneGrant, GrantAhead
<1>6. ASSUME a \notin torn PROVE w.points = Replay(ledger'[a])
  <2>1. wallet[a].points = Replay(ledger[a])
    BY <1>1, <1>6 DEF LedgerInv, LedgerExplainsWallet
  <2>. QED  BY <1>2, <1>4, <2>1, ReplayAppends
<1>7. LedgerExplainsWallet'
  BY <1>1, <1>4, <1>6 DEF LedgerInv, LedgerExplainsWallet
<1>. QED  BY <1>4, <1>5, <1>7

\* A step that leaves the rows and the grant alone.
LEMMA RowsKept ==
    ASSUME LedgerInv, UNCHANGED <<wallet, ledger, grant, torn>>
    PROVE  FiniteTrees' /\ OneGrant' /\ GrantAhead' /\ LedgerExplainsWallet'
  BY DEF LedgerInv, FiniteTrees, OneGrant, GrantAhead, LedgerExplainsWallet

LEMMA AnswerType ==
    ASSUME LedgerInv, wallet' \in [Accounts -> Wallet], NEW a \in Accounts, Answer(a)
    PROVE  reply' \in [Accounts -> SUBSET Wallet]
  BY DEF LedgerInv, TalentsTypeOK, Answer

LEMMA StoreType ==
    ASSUME LedgerInv, NEW a \in Accounts, NEW w \in Wallet, Store(a, w)
    PROVE  cached' \in [Accounts -> Wallet]
  BY DEF LedgerInv, TalentsTypeOK, Store

LEMMA SpendLedger == ASSUME LedgerInv, NEW a \in Accounts, NEW n \in Nodes, Spend(a, n) PROVE LedgerInv'
<1>. DEFINE cost == catalog.cost[n]
            w == Tally(wallet[a].points - cost, wallet[a].owned \cup {n}, wallet[a].earned)
<1>1. cost \in Nat /\ wallet[a].points >= cost
  BY CatalogAssumption DEF Spend, CanBuy, LedgerInv, TalentsTypeOK
<1>2. wallet[a].points - cost \in Nat /\ -cost \in Int /\ wallet[a].points + (-cost) = wallet[a].points - cost
  BY <1>1, WalletType
<1>3. /\ w \in Wallet /\ w.points = wallet[a].points - cost /\ w.owned = wallet[a].owned \cup {n}
  BY <1>2, WalletType, TallyType
<1>4. IsFiniteSet(w.owned)
  <2>1. IsFiniteSet(wallet[a].owned \cup {n})
    BY WalletType, FS_AddElement
  <2>. QED  BY <1>3, <2>1
<1>5. w.points = Bigger(0, wallet[a].points + (-cost))
  BY <1>2, <1>3, BiggerFacts
<1>6. Write(a, w, -cost) /\ UNCHANGED <<grant, torn>>
  BY DEF Spend, DbSpend, beside
<1>. HIDE DEF w, cost
<1>7. /\ wallet' \in [Accounts -> Wallet] /\ ledger' \in [Accounts -> Seq(Int)]
      /\ FiniteTrees' /\ OneGrant' /\ GrantAhead' /\ LedgerExplainsWallet'
  BY <1>2, <1>3, <1>4, <1>5, <1>6, WriteInv
<1>8. TalentsTypeOK'
  <2>1. reply' \in [Accounts -> SUBSET Wallet]
    BY <1>7, AnswerType DEF Spend
  <2>. QED  BY <1>7, <2>1 DEF Spend, LedgerInv, TalentsTypeOK, beside
<1>. QED  BY <1>7, <1>8 DEF LedgerInv

LEMMA RespecLedger == ASSUME LedgerInv, NEW a \in Accounts, Respec(a) PROVE LedgerInv'
<1>. DEFINE refund == SpentTotal(catalog, wallet[a].owned)
            w == Tally(wallet[a].points + refund, {}, wallet[a].earned)
<1>1. refund \in Nat /\ refund \in Int
  BY RefundType
<1>2. Write(a, w, refund) /\ UNCHANGED grant /\ UNCHANGED torn
  BY DEF Respec, DbRespec
<1>. HIDE DEF refund
<1>3. wallet[a].points + refund \in Nat
  BY <1>1, WalletType
<1>4. /\ w \in Wallet /\ w.points = wallet[a].points + refund /\ w.owned = {}
  BY <1>3, WalletType, TallyType
<1>5. IsFiniteSet(w.owned) /\ w.points = Bigger(0, wallet[a].points + refund)
  BY <1>3, <1>4, BiggerFacts, FS_EmptySet
<1>. HIDE DEF w
<1>6. /\ wallet' \in [Accounts -> Wallet] /\ ledger' \in [Accounts -> Seq(Int)]
      /\ FiniteTrees' /\ OneGrant' /\ GrantAhead' /\ LedgerExplainsWallet'
  BY <1>1, <1>2, <1>4, <1>5, WriteInv
<1>7. TalentsTypeOK'
  <2>1. reply' \in [Accounts -> SUBSET Wallet]
    BY <1>6, AnswerType DEF Respec
  <2>. QED  BY <1>6, <2>1 DEF Respec, LedgerInv, TalentsTypeOK
<1>. QED  BY <1>6, <1>7 DEF LedgerInv

LEMMA CreditLedger ==
    ASSUME LedgerInv, NEW a \in Accounts, NEW delta \in Deltas, DbCredit(a, delta), UNCHANGED <<grant, torn>>
    PROVE  /\ wallet' \in [Accounts -> Wallet] /\ ledger' \in [Accounts -> Seq(Int)]
           /\ FiniteTrees' /\ OneGrant' /\ GrantAhead' /\ LedgerExplainsWallet'
<1>. DEFINE w == Credited(wallet[a], delta)
<1>1. delta \in Int
  BY DeltaAssumption
<1>2. w \in Wallet /\ w.owned = wallet[a].owned /\ w.points = Bigger(0, wallet[a].points + delta)
  BY <1>1, WalletType, CreditedType
<1>3. IsFiniteSet(w.owned)
  BY <1>2, WalletType
<1>4. Write(a, w, delta)
  BY DEF DbCredit
<1>. HIDE DEF w
<1>. QED  BY <1>1, <1>2, <1>3, <1>4, WriteInv

LEMMA OwnerUpdatesLedger ==
    ASSUME LedgerInv, NEW a \in Accounts, NEW delta \in Deltas, OwnerUpdates(a, delta)
    PROVE  LedgerInv'
<1>. DEFINE w == Credited(wallet[a], delta)
<1>1. delta \in Int
  BY DeltaAssumption
<1>2. w \in Wallet /\ w.owned = wallet[a].owned /\ w.points = Bigger(0, wallet[a].points + delta)
  BY <1>1, WalletType, CreditedType
<1>3. /\ grant = {} /\ a \notin torn /\ wallet' = [wallet EXCEPT ![a] = w]
      /\ grant' = {[to |-> a, delta |-> delta]}
      /\ UNCHANGED <<ledger, beside, links>>
  BY DEF OwnerUpdates, DbFree
<1>. HIDE DEF w
<1>4. /\ wallet \in [Accounts -> Wallet] /\ wallet' \in [Accounts -> Wallet] /\ wallet'[a] = w
      /\ \A b \in Accounts : b # a => wallet'[b] = wallet[b]
  BY <1>2, <1>3 DEF LedgerInv, TalentsTypeOK
<1>5. TalentsTypeOK'
  BY <1>1, <1>3, <1>4 DEF LedgerInv, TalentsTypeOK, beside, links
<1>6. FiniteTrees'
  BY <1>2, <1>4, WalletType DEF LedgerInv, FiniteTrees
<1>7. \A g \in grant' : g.to = a /\ g.delta = delta
  BY <1>3
<1>8. OneGrant' /\ LedgerExplainsWallet'
  <2>1. OneGrant'
    BY <1>3 DEF OneGrant
  <2>2. ASSUME NEW b \in Accounts \ (torn' \cup {g.to : g \in grant'}) PROVE wallet'[b].points = Replay(ledger'[b])
    <3>1. b # a /\ b \notin torn
      BY <1>3, <2>2 DEF beside
    <3>. QED  BY <1>3, <1>4, <3>1 DEF LedgerInv, LedgerExplainsWallet
  <2>. QED  BY <2>1, <2>2 DEF LedgerExplainsWallet
<1>9. GrantAhead'
  <2>1. wallet[a].points = Replay(ledger[a])
    BY <1>3 DEF LedgerInv, LedgerExplainsWallet
  <2>. QED  BY <1>2, <1>3, <1>4, <1>7, <2>1 DEF GrantAhead
<1>. QED  BY <1>5, <1>6, <1>8, <1>9 DEF LedgerInv

LEMMA OwnerRecordsLedger == ASSUME LedgerInv, NEW g \in grant, OwnerRecords(g) PROVE LedgerInv'
<1>. DEFINE a == g.to
<1>1. a \in Accounts /\ g.delta \in Int /\ ledger[a] \in Seq(Int) /\ ledger \in [Accounts -> Seq(Int)]
  BY WalletType DEF LedgerInv, TalentsTypeOK
<1>2. /\ ledger' = [ledger EXCEPT ![a] = Append(@, g.delta)] /\ grant' = {}
      /\ UNCHANGED <<wallet, beside, conn, reply, cached>>
      /\ pushes' = pushes \cup {[to |-> a, step |-> "to_send", state |-> wallet[a]]}
  BY DEF OwnerRecords, AddPush
<1>. HIDE DEF a
<1>3. Append(ledger[a], g.delta) \in Seq(Int)
  BY <1>1, AppendProperties
<1>4. /\ ledger' \in [Accounts -> Seq(Int)] /\ ledger'[a] = Append(ledger[a], g.delta)
      /\ \A b \in Accounts : b # a => ledger'[b] = ledger[b]
  BY <1>1, <1>2, <1>3
<1>5. TalentsTypeOK'
  <2>1. [to |-> a, step |-> "to_send", state |-> wallet[a]] \in Push
    BY <1>1, WalletType DEF Push
  <2>. QED  BY <1>2, <1>4, <2>1 DEF LedgerInv, TalentsTypeOK, beside
<1>6. FiniteTrees' /\ OneGrant' /\ GrantAhead'
  BY <1>2 DEF LedgerInv, FiniteTrees, OneGrant, GrantAhead
<1>7. ASSUME NEW b \in Accounts \ torn PROVE wallet[b].points = Replay(ledger'[b])
  <2>1. CASE b = a
    <3>1. wallet[a].points = Bigger(0, Replay(ledger[a]) + g.delta)
      BY <1>7, <2>1 DEF LedgerInv, GrantAhead, a
    <3>. QED  BY <1>1, <1>4, <2>1, <3>1, ReplayAppends
  <2>2. CASE b # a
    <3>1. b \notin {h.to : h \in grant}
      BY <2>2 DEF LedgerInv, OneGrant, a
    <3>. QED  BY <1>4, <1>7, <2>2, <3>1 DEF LedgerInv, LedgerExplainsWallet
  <2>. QED  BY <2>1, <2>2
<1>8. LedgerExplainsWallet'
  BY <1>2, <1>7 DEF LedgerExplainsWallet, beside
<1>. QED  BY <1>5, <1>6, <1>8 DEF LedgerInv

LEMMA ReaderLedger == ASSUME LedgerInv, NEW a \in Accounts, AccountReader(a) PROVE LedgerInv'
<1>1. ASSUME FetchState(a) \/ ReadReporter(a) \/ AuthReads(a) PROVE LedgerInv'
  <2>1. UNCHANGED tables /\ Answer(a) /\ UNCHANGED <<pushes, cached>>
        /\ conn' \in [Accounts -> {"off", "binding", "on", "ended"}]
    BY <1>1 DEF FetchState, ReadReporter, AuthReads, LedgerInv, TalentsTypeOK
  <2>2. wallet \in [Accounts -> Wallet] /\ UNCHANGED wallet
    BY <2>1 DEF LedgerInv, TalentsTypeOK, tables, rows
  <2>3. reply' \in [Accounts -> SUBSET Wallet]
    BY <2>1, <2>2, AnswerType
  <2>4. TalentsTypeOK'
    BY <2>1, <2>3 DEF LedgerInv, TalentsTypeOK, tables, rows, beside
  <2>. QED  BY <2>1, <2>4, RowsKept DEF LedgerInv, tables, rows, beside
<1>2. ASSUME NEW delta \in Deltas, OwnMatchEnd(a, delta) PROVE LedgerInv'
  <2>1. DbCredit(a, delta) /\ UNCHANGED <<beside, grant, reply, pushes, cached>>
        /\ conn' \in [Accounts -> {"off", "binding", "on", "ended"}]
    BY <1>2 DEF OwnMatchEnd, LedgerInv, TalentsTypeOK
  <2>2. /\ wallet' \in [Accounts -> Wallet] /\ ledger' \in [Accounts -> Seq(Int)]
        /\ FiniteTrees' /\ OneGrant' /\ GrantAhead' /\ LedgerExplainsWallet'
    BY <2>1, CreditLedger DEF beside
  <2>. QED  BY <2>1, <2>2 DEF LedgerInv, TalentsTypeOK, beside
<1>3. ASSUME QueueReply(a) PROVE LedgerInv'
  <2>1. PICK w \in reply[a] : Store(a, w)
    BY <1>3 DEF QueueReply
  <2>2. w \in Wallet
    BY <2>1 DEF LedgerInv, TalentsTypeOK
  <2>3. cached' \in [Accounts -> Wallet]
    BY <2>1, <2>2, StoreType
  <2>4. UNCHANGED <<tables, conn, pushes>> /\ reply' = [reply EXCEPT ![a] = {}]
    BY <1>3 DEF QueueReply
  <2>5. TalentsTypeOK'
    BY <2>3, <2>4 DEF LedgerInv, TalentsTypeOK, tables, rows, beside
  <2>. QED  BY <2>4, <2>5, RowsKept DEF LedgerInv, tables, rows, beside
<1>4. ASSUME Bind(a) PROVE LedgerInv'
  <2>1. TalentsTypeOK'
    BY <1>4 DEF Bind, LedgerInv, TalentsTypeOK, tables, rows, beside
  <2>. QED  BY <1>4, <2>1, RowsKept DEF Bind, LedgerInv, tables, rows, beside
<1>. QED  BY <1>1, <1>2, <1>3, <1>4, SpendLedger, RespecLedger DEF AccountReader

LEMMA ClientLedger == ASSUME LedgerInv, NEW a \in Accounts, Client(a) PROVE LedgerInv'
<1>1. CASE Disconnect(a)
  <2>1. TalentsTypeOK'
    BY <1>1 DEF Disconnect, LedgerInv, TalentsTypeOK, tables, rows, beside
  <2>. QED  BY <1>1, <2>1, RowsKept DEF Disconnect, LedgerInv, tables, rows, beside
<1>2. CASE CooldownEnds(a)
  <2>1. TalentsTypeOK'
    BY <1>2 DEF CooldownEnds, LedgerInv, TalentsTypeOK, rows, links
  <2>. QED  BY <1>2, <2>1, RowsKept DEF CooldownEnds, LedgerInv, rows, links
<1>. QED  BY <1>1, <1>2 DEF Client

LEMMA OtherLedger == ASSUME LedgerInv, OtherTask PROVE LedgerInv'
<1>1. ASSUME NEW a \in Accounts, NEW delta \in Deltas, HostMatchEnd(a, delta) PROVE LedgerInv'
  <2>1. DbCredit(a, delta) /\ UNCHANGED <<beside, grant, conn, reply, cached>>
        /\ pushes' = pushes \cup {[to |-> a, step |-> "to_read", state |-> Empty]}
    BY <1>1 DEF HostMatchEnd, AddPush
  <2>2. /\ wallet' \in [Accounts -> Wallet] /\ ledger' \in [Accounts -> Seq(Int)]
        /\ FiniteTrees' /\ OneGrant' /\ GrantAhead' /\ LedgerExplainsWallet'
    BY <2>1, CreditLedger DEF beside
  <2>3. [to |-> a, step |-> "to_read", state |-> Empty] \in Push
    BY EmptyType DEF Push
  <2>. QED  BY <2>1, <2>2, <2>3 DEF LedgerInv, TalentsTypeOK, beside
<1>2. ASSUME NEW p \in pushes, ReadForPush(p) PROVE LedgerInv'
  <2>1. p \in Push /\ p.to \in Accounts /\ wallet[p.to] \in Wallet
    BY WalletType DEF LedgerInv, TalentsTypeOK, Push
  <2>2. [p EXCEPT !.step = "to_queue", !.state = wallet[p.to]] \in Push
    BY <2>1 DEF Push
  <2>3. UNCHANGED <<tables, conn, reply, cached>> /\ pushes' \subseteq Push
    BY <1>2, <2>2 DEF ReadForPush, LedgerInv, TalentsTypeOK
  <2>4. TalentsTypeOK'
    BY <2>3 DEF LedgerInv, TalentsTypeOK, tables, rows, beside
  <2>. QED  BY <2>3, <2>4, RowsKept DEF LedgerInv, tables, rows, beside
<1>3. ASSUME NEW p \in pushes, SendPush(p) PROVE LedgerInv'
  <2>1. p.to \in Accounts /\ p.state \in Wallet
    BY DEF LedgerInv, TalentsTypeOK, Push
  <2>2. cached' \in [Accounts -> Wallet]
    BY <1>3, <2>1, StoreType DEF SendPush, LedgerInv, TalentsTypeOK
  <2>3. UNCHANGED <<tables, conn, reply>> /\ pushes' \subseteq pushes
    BY <1>3 DEF SendPush
  <2>4. TalentsTypeOK'
    BY <2>2, <2>3 DEF LedgerInv, TalentsTypeOK, tables, rows, beside
  <2>. QED  BY <2>3, <2>4, RowsKept DEF LedgerInv, tables, rows, beside
<1>. QED  BY <1>1, <1>2, <1>3, OwnerUpdatesLedger, OwnerRecordsLedger DEF OtherTask

LEMMA RestartLedger == ASSUME LedgerInv, NEW k \in Catalogs, Restart(k) PROVE LedgerInv'
<1>1. /\ catalog' = k /\ revised' \in BOOLEAN /\ grant' = {} /\ pushes' = {}
      /\ torn' = torn \cup {g.to : g \in grant} /\ UNCHANGED <<wallet, ledger, cooling, cached>>
      /\ conn' = [a \in Accounts |-> "off"] /\ reply' = [a \in Accounts |-> {}]
  BY DEF Restart, rows, LedgerInv, TalentsTypeOK
<1>2. TalentsTypeOK'
  BY <1>1 DEF LedgerInv, TalentsTypeOK
<1>3. FiniteTrees' /\ OneGrant' /\ GrantAhead'
  BY <1>1 DEF LedgerInv, FiniteTrees, OneGrant, GrantAhead
<1>4. LedgerExplainsWallet'
  BY <1>1 DEF LedgerInv, LedgerExplainsWallet
<1>. QED  BY <1>2, <1>3, <1>4 DEF LedgerInv

LEMMA LedgerInit == TalentsInit => LedgerInv
<1>. SUFFICES ASSUME TalentsInit PROVE LedgerInv
  OBVIOUS
<1>1. /\ wallet = [a \in Accounts |-> Empty] /\ ledger = [a \in Accounts |-> <<>>] /\ grant = {}
      /\ torn = {} /\ catalog \in Catalogs
  BY DEF TalentsInit
<1>2. <<>> \in Seq(Int)
  OBVIOUS
<1>3. TalentsTypeOK
  BY <1>2, EmptyType DEF TalentsInit, TalentsTypeOK
<1>4. FiniteTrees /\ OneGrant /\ GrantAhead
  BY <1>1, EmptyType, FS_EmptySet DEF FiniteTrees, OneGrant, GrantAhead
<1>5. LedgerExplainsWallet
  BY <1>1, EmptyType, ReplayFacts DEF LedgerExplainsWallet
<1>. QED  BY <1>3, <1>4, <1>5 DEF LedgerInv

LEMMA LedgerNext == ASSUME LedgerInv, [TalentsNext]_talentVars PROVE LedgerInv'
<1>1. ASSUME UNCHANGED talentVars PROVE LedgerInv'
  <2>1. TalentsTypeOK'
    BY <1>1 DEF LedgerInv, TalentsTypeOK, talentVars, tables, rows, beside, links
  <2>. QED  BY <1>1, <2>1, RowsKept DEF LedgerInv, talentVars, tables, rows, beside
<1>. QED  BY <1>1, ReaderLedger, ClientLedger, OtherLedger, RestartLedger DEF TalentsNext

\* The tables, replies, pushes and caches of any accounts are well typed; that no wallet
\* is below zero is the CHECK of the accounts table.
THEOREM WalletsTypeCorrect == TalentsSpec => []TalentsTypeOK
<1>1. LedgerInv => TalentsTypeOK
  BY DEF LedgerInv
<1>. QED  BY <1>1, LedgerInit, LedgerNext, PTL DEF TalentsSpec

\* An account's rows in the ledger, read in order and clamped as db_credit clamps, give
\* its points, through any number of credits, purchases, respecs and stops.
THEOREM LedgerIsComplete == TalentsSpec => []LedgerExplainsWallet
<1>1. LedgerInv => LedgerExplainsWallet
  BY DEF LedgerInv
<1>. QED  BY <1>1, LedgerInit, LedgerNext, PTL DEF TalentsSpec

---------------------------------------------------------------------------
(* The trees: every account has a wallet, and the catalogue in use is one whose *)
(* requirements the accounts' trees satisfy.                                    *)

Shape == DOMAIN wallet = Accounts

\* A node's requirements are owned with it.
Rooted(owned) == \A n \in owned : catalog.requires[n] \subseteq owned

WalletInv == Shape /\ PrerequisitesOwned

---------------------------------------------------------------------------
(* What a write leaves of one wallet. *)

LEMMA SpendOwns ==
    ASSUME NEW a, NEW n, DbSpend(a, n)
    PROVE  \E p, e : wallet' = [wallet EXCEPT ![a] = Tally(p, wallet[a].owned \cup {n}, e)]
<1> DEFINE p == wallet[a].points - catalog.cost[n]
           e == wallet[a].earned
<1>1. wallet' = [wallet EXCEPT ![a] = Tally(p, wallet[a].owned \cup {n}, e)]
  BY DEF DbSpend, Write
<1> HIDE DEF p, e
<1> QED BY <1>1

LEMMA RespecOwns ==
    ASSUME NEW a, DbRespec(a)
    PROVE  \E p, e : wallet' = [wallet EXCEPT ![a] = Tally(p, {}, e)]
<1> DEFINE p == wallet[a].points + SpentTotal(catalog, wallet[a].owned)
           e == wallet[a].earned
<1>1. wallet' = [wallet EXCEPT ![a] = Tally(p, {}, e)]
  BY DEF DbRespec, Write
<1> HIDE DEF p, e
<1> QED BY <1>1

LEMMA CreditOwns ==
    ASSUME NEW a \in DOMAIN wallet, NEW delta, DbCredit(a, delta) \/ OwnerUpdates(a, delta)
    PROVE  \E p, e : wallet' = [wallet EXCEPT ![a] = Tally(p, wallet[a].owned, e)]
<1> DEFINE p == Bigger(0, wallet[a].points + delta)
           e == wallet[a].earned + Bigger(0, delta)
<1>1. wallet' = [wallet EXCEPT ![a] = Tally(p, wallet[a].owned, e)]
  BY DEF DbCredit, Write, OwnerUpdates, Credited
<1> HIDE DEF p, e
<1> QED BY <1>1

---------------------------------------------------------------------------
(* One wallet changes, under an unchanged catalogue. *)

LEMMA OneWallet ==
    ASSUME WalletInv, NEW a \in Accounts, NEW p, NEW owned, NEW e,
           wallet' = [wallet EXCEPT ![a] = Tally(p, owned, e)], catalog' = catalog, revised' = revised,
           ~revised => Rooted(owned)
    PROVE  WalletInv'
<1>1. Shape'
  BY DEF WalletInv, Shape
<1>2. ASSUME ~revised, NEW b \in Accounts, NEW n \in wallet'[b].owned
      PROVE  catalog.requires[n] \subseteq wallet'[b].owned
  <2>1. CASE b = a
    BY <1>2, <2>1 DEF WalletInv, Shape, Rooted, Tally
  <2>2. CASE b # a
    BY <1>2, <2>2 DEF WalletInv, Shape, PrerequisitesOwned
  <2> QED BY <2>1, <2>2
<1> QED BY <1>1, <1>2 DEF WalletInv, PrerequisitesOwned

LEMMA TreesKept ==
    ASSUME WalletInv, UNCHANGED <<wallet, catalog, revised>>
    PROVE  WalletInv'
BY DEF WalletInv, Shape, PrerequisitesOwned

LEMMA SpendRooted ==
    ASSUME WalletInv, NEW a \in Accounts, NEW n \in Nodes, Spend(a, n)
    PROVE  WalletInv'
<1>1. PICK p, e : wallet' = [wallet EXCEPT ![a] = Tally(p, wallet[a].owned \cup {n}, e)]
  BY SpendOwns DEF Spend, WalletInv, Shape
<1>2. ~revised => Rooted(wallet[a].owned \cup {n})
  <2>1. catalog.requires[n] \subseteq wallet[a].owned
    BY DEF Spend, CanBuy
  <2>2. ~revised => Rooted(wallet[a].owned)
    BY DEF WalletInv, PrerequisitesOwned, Rooted
  <2> QED BY <2>1, <2>2 DEF Rooted
<1>3. catalog' = catalog /\ revised' = revised
  BY DEF Spend, beside
<1> QED BY <1>1, <1>2, <1>3, OneWallet

LEMMA RespecRooted ==
    ASSUME WalletInv, NEW a \in Accounts, Respec(a)
    PROVE  WalletInv'
<1>1. PICK p, e : wallet' = [wallet EXCEPT ![a] = Tally(p, {}, e)]
  BY RespecOwns DEF Respec, WalletInv, Shape
<1>2. Rooted({})
  BY DEF Rooted
<1>3. catalog' = catalog /\ revised' = revised
  BY DEF Respec
<1> QED BY <1>1, <1>2, <1>3, OneWallet

LEMMA CreditRooted ==
    ASSUME WalletInv, NEW a \in Accounts, NEW delta,
           DbCredit(a, delta) \/ OwnerUpdates(a, delta), UNCHANGED <<catalog, revised>>
    PROVE  WalletInv'
<1>1. PICK p, e : wallet' = [wallet EXCEPT ![a] = Tally(p, wallet[a].owned, e)]
  BY CreditOwns DEF WalletInv, Shape
<1>2. ~revised => Rooted(wallet[a].owned)
  BY DEF WalletInv, PrerequisitesOwned, Rooted
<1> QED BY <1>1, <1>2, OneWallet

---------------------------------------------------------------------------

LEMMA WalletInit == TalentsInit => WalletInv
BY DEF TalentsInit, WalletInv, Shape, Empty, Tally, PrerequisitesOwned

LEMMA WalletNext == ASSUME WalletInv, [TalentsNext]_talentVars PROVE WalletInv'
<1>1. ASSUME NEW a \in Accounts, AccountReader(a) PROVE WalletInv'
  <2>1. CASE \E n \in Nodes : Spend(a, n)
    BY <2>1, SpendRooted
  <2>2. CASE \E delta \in Deltas : OwnMatchEnd(a, delta)
    BY <2>2, CreditRooted DEF OwnMatchEnd, beside
  <2>3. CASE Respec(a)
    BY <2>3, RespecRooted
  <2>4. CASE FetchState(a) \/ ReadReporter(a) \/ QueueReply(a) \/ AuthReads(a) \/ Bind(a)
    BY <2>4, TreesKept DEF FetchState, ReadReporter, QueueReply, AuthReads, Bind, tables, rows, beside
  <2> QED BY <1>1, <2>1, <2>2, <2>3, <2>4 DEF AccountReader
<1>2. ASSUME NEW a \in Accounts, Client(a) PROVE WalletInv'
  BY <1>2, TreesKept DEF Client, Disconnect, CooldownEnds, tables, rows, beside
<1>3. CASE OtherTask
  <2>1. ASSUME NEW a \in Accounts, NEW delta \in Deltas, OwnerUpdates(a, delta) PROVE WalletInv'
    BY <2>1, CreditRooted DEF OwnerUpdates, beside
  <2>2. ASSUME NEW a \in Accounts, NEW delta \in Deltas, HostMatchEnd(a, delta) PROVE WalletInv'
    BY <2>2, CreditRooted DEF HostMatchEnd, beside
  <2>3. CASE \/ \E g \in grant : OwnerRecords(g)
             \/ \E p \in pushes : ReadForPush(p) \/ SendPush(p)
    BY <2>3, TreesKept DEF OwnerRecords, ReadForPush, SendPush, tables, rows, beside
  <2> QED BY <1>3, <2>1, <2>2, <2>3 DEF OtherTask
<1>4. ASSUME NEW k \in Catalogs, Restart(k) PROVE WalletInv'
  <2>1. wallet' = wallet /\ (~revised' => ~revised /\ catalog' = catalog)
    BY <1>4 DEF Restart, rows
  <2> QED BY <2>1 DEF WalletInv, Shape, PrerequisitesOwned
<1>5. CASE UNCHANGED talentVars
  BY <1>5, TreesKept DEF talentVars, tables, rows, beside
<1> QED BY <1>1, <1>2, <1>3, <1>4, <1>5 DEF TalentsNext

\* Until talents.json is edited, whoever owns a node owns what it requires, for
\* any tree, whatever credits, grants, restarts and respecs come between
\* (validate_spend and db_respec of talents.rs).
THEOREM TreesAreRooted == TalentsSpec => []PrerequisitesOwned
<1>1. WalletInv => PrerequisitesOwned
  BY DEF WalletInv
<1> QED BY WalletInit, WalletNext, <1>1, PTL DEF TalentsSpec

---------------------------------------------------------------------------
(* The tasks behind a connection. *)

TaskInv == OutboundTypeOK /\ ByIpCounts /\ SessionHasReader

---------------------------------------------------------------------------
(* Admission and removal keep the counts. *)

LEMMA FromFinite ==
    ASSUME sessions \subseteq Conns, NEW a
    PROVE  IsFiniteSet(From(a)) /\ Cardinality(From(a)) \in Nat
<1>1. From(a) \subseteq Conns
  BY DEF From
<1> QED BY <1>1, OutboundAssumption, FS_Subset, FS_CardinalityType

LEMMA AdmittedCounts ==
    ASSUME TaskInv, NEW c \in Conns, c \notin sessions,
           sessions' = sessions \cup {c},
           byIp' = [byIp EXCEPT ![AddrOf[c]] = @ + 1]
    PROVE  ByIpCounts' /\ byIp' \in [Addrs -> Nat]
<1>1. byIp' \in [Addrs -> Nat]
  BY OutboundAssumption DEF TaskInv, OutboundTypeOK
<1>2. ASSUME NEW a \in Addrs PROVE byIp'[a] = Cardinality(From(a)')
  <2>1. byIp[a] = Cardinality(From(a)) /\ IsFiniteSet(From(a)) /\ c \notin From(a)
    BY FromFinite DEF TaskInv, OutboundTypeOK, ByIpCounts, From
  <2>2. CASE a = AddrOf[c]
    <3>1. From(a)' = From(a) \cup {c}
      BY <2>2 DEF From
    <3>2. Cardinality(From(a)') = Cardinality(From(a)) + 1
      BY <2>1, <3>1, FS_AddElement
    <3> QED BY <2>1, <2>2, <3>2 DEF TaskInv, OutboundTypeOK
  <2>3. CASE a # AddrOf[c]
    <3>1. From(a)' = From(a)
      BY <2>3 DEF From
    <3> QED BY <2>1, <2>3, <3>1 DEF TaskInv, OutboundTypeOK
  <2> QED BY <2>2, <2>3
<1> QED BY <1>1, <1>2 DEF ByIpCounts

LEMMA RemovedCounts ==
    ASSUME TaskInv, NEW c \in Conns, Removed(c)
    PROVE  /\ ByIpCounts' /\ byIp' \in [Addrs -> Nat]
           /\ sessions' = sessions \ {c}
<1>1. CASE c \notin sessions
  BY <1>1 DEF Removed, TaskInv, OutboundTypeOK, ByIpCounts, From
<1>2. CASE c \in sessions
  <2>1. /\ sessions' = sessions \ {c}
        /\ byIp' = [byIp EXCEPT ![AddrOf[c]] = Less(@)]
    BY <1>2 DEF Removed
  <2>2. byIp' \in [Addrs -> Nat]
    BY <2>1, OutboundAssumption DEF TaskInv, OutboundTypeOK, Less
  <2>3. ASSUME NEW a \in Addrs PROVE byIp'[a] = Cardinality(From(a)')
    <3>1. byIp[a] = Cardinality(From(a)) /\ IsFiniteSet(From(a))
      BY FromFinite DEF TaskInv, OutboundTypeOK, ByIpCounts
    <3>2. CASE a = AddrOf[c]
      <4>1. From(a)' = From(a) \ {c} /\ c \in From(a)
        BY <1>2, <2>1, <3>2 DEF From
      <4>2. Cardinality(From(a)') = Cardinality(From(a)) - 1
        BY <3>1, <4>1, FS_RemoveElement
      <4>3. Cardinality(From(a)) # 0
        BY <3>1, <4>1, FS_EmptySet
      <4> QED BY <2>1, <3>1, <3>2, <4>2, <4>3 DEF TaskInv, OutboundTypeOK, Less
    <3>3. CASE a # AddrOf[c]
      <4>1. From(a)' = From(a)
        BY <2>1, <3>3 DEF From
      <4> QED BY <2>1, <3>1, <3>3, <4>1 DEF TaskInv, OutboundTypeOK
    <3> QED BY <3>2, <3>3
  <2> QED BY <2>1, <2>2, <2>3 DEF ByIpCounts
<1> QED BY <1>1, <1>2

LEMMA CountsKept ==
    ASSUME ByIpCounts, UNCHANGED <<sessions, byIp>>
    PROVE  ByIpCounts'
BY DEF ByIpCounts, From

---------------------------------------------------------------------------
(* The queue and the orders. *)

LEMMA OfferFits ==
    ASSUME OutboundTypeOK, NEW c \in Conns, NEW frame \in Frames, Offer(c, frame)
    PROVE  queue' \in [Conns -> Seq(Frames)] /\ \A d \in Conns : Len(queue'[d]) <= Capacity
<1>1. CASE ~Room(c)
  BY <1>1 DEF Offer, OutboundTypeOK
<1>2. CASE Room(c)
  <2>1. queue[c] \in Seq(Frames) /\ Len(queue[c]) < Capacity
    BY <1>2 DEF OutboundTypeOK, Room
  <2>2. Append(queue[c], frame) \in Seq(Frames) /\ Len(Append(queue[c], frame)) = Len(queue[c]) + 1
    BY <2>1
  <2>3. queue' = [queue EXCEPT ![c] = Append(queue[c], frame)]
    BY <1>2 DEF Offer
  <2>4. Len(queue[c]) + 1 <= Capacity
    BY <2>1, OutboundAssumption
  <2> QED BY <2>2, <2>3, <2>4 DEF OutboundTypeOK
<1> QED BY <1>1, <1>2

Calls == [to : Conns, call : Tries]

LEMMA OrdersTyped == Orders \subseteq Seq(Tries)
BY DEF Orders, Tries

LEMMA TakeTyped ==
    ASSUME NEW c \in Conns, NEW order \in Seq(Tries), Take(c, order)
    PROVE  hub' \in Seq(Calls)
<1>1. Len(order) \in Nat /\ DOMAIN order = 1..Len(order) /\ \A i \in 1..Len(order) : order[i] \in Tries
  OBVIOUS
<1>2. hub' \in [1..Len(order) -> Calls]
  BY <1>1 DEF Take, Calls
<1> QED BY <1>1, <1>2

LEMMA HubStepInv == ASSUME TaskInv, HubStep PROVE TaskInv'
<1> DEFINE c == Head(hub).to
           what == Head(hub).call
           frame == IF what = "close" THEN "close" ELSE "text"
<1>1. hub \in Seq(Calls) /\ hub # <<>> /\ Head(hub) \in Calls /\ Tail(hub) \in Seq(Calls)
  <2>1. hub \in Seq(Calls) /\ hub # <<>>
    BY DEF TaskInv, OutboundTypeOK, Calls, HubStep, HubFree
  <2> QED BY <2>1
<1>2. c \in Conns /\ what \in Tries
  BY <1>1 DEF Calls
<1>3. [hub EXCEPT ![1].call = "close"] \in Seq(Calls)
  <2>1. hub \in [1..Len(hub) -> Calls] /\ Len(hub) \in Nat
    BY <1>1
  <2>2. [hub EXCEPT ![1].call = "close"] \in [1..Len(hub) -> Calls]
    BY <2>1 DEF Calls, Tries
  <2> QED BY <2>1, <2>2
<1>4. hub' \in Seq(Calls)
  BY <1>1, <1>3 DEF HubStep
<1>5. queue' \in [Conns -> Seq(Frames)] /\ \A d \in Conns : Len(queue'[d]) <= Capacity
  <2>1. CASE c \in sessions /\ what # "remove"
    <3>1. Offer(c, frame) /\ frame \in Frames
      BY <2>1 DEF HubStep, Frames
    <3> HIDE DEF frame, c
    <3> QED BY <1>2, <3>1, OfferFits DEF TaskInv
  <2>2. CASE ~(c \in sessions /\ what # "remove")
    BY <2>2 DEF HubStep, TaskInv, OutboundTypeOK
  <2> QED BY <2>1, <2>2
<1>6. ByIpCounts' /\ byIp' \in [Addrs -> Nat] /\ sessions' \subseteq sessions
  <2>1. CASE what = "remove"
    BY <1>2, <2>1, RemovedCounts DEF HubStep
  <2>2. CASE what # "remove"
    BY <2>2, CountsKept DEF HubStep, TaskInv, OutboundTypeOK
  <2> QED BY <2>1, <2>2
<1>7. SessionHasReader'
  BY <1>6 DEF HubStep, TaskInv, SessionHasReader
<1> HIDE DEF c, what, frame
<1> QED BY <1>4, <1>5, <1>6, <1>7 DEF HubStep, TaskInv, OutboundTypeOK, Calls

---------------------------------------------------------------------------
(* The other actions, none of which touches the table but Connect and CleanUp. *)

LEMMA ConnectInv == ASSUME TaskInv, NEW c \in Conns, Connect(c) PROVE TaskInv'
<1>1. c \notin sessions
  BY DEF Connect, TaskInv, SessionHasReader
<1>2. ByIpCounts' /\ byIp' \in [Addrs -> Nat]
  BY <1>1, AdmittedCounts DEF Connect
<1>3. queue' \in [Conns -> Seq(Frames)] /\ \A d \in Conns : Len(queue'[d]) <= Capacity
  <2>1. <<>> \in Seq(Frames) /\ Len(<<>>) = 0
    OBVIOUS
  <2> QED BY <2>1, OutboundAssumption DEF Connect, TaskInv, OutboundTypeOK
<1>4. SessionHasReader'
  BY DEF Connect, TaskInv, OutboundTypeOK, SessionHasReader
<1> QED BY <1>2, <1>3, <1>4 DEF Connect, TaskInv, OutboundTypeOK

LEMMA OrderInv ==
    ASSUME TaskInv, NEW c \in Conns, NEW order \in Orders, Order(c, order)
    PROVE  TaskInv'
<1>1. hub' \in Seq(Calls)
  BY OrdersTyped, TakeTyped DEF Order
<1> QED BY <1>1, CountsKept DEF Calls, Order, TaskInv, OutboundTypeOK, SessionHasReader

LEMMA ReaderInv == ASSUME TaskInv, NEW c \in Conns, Reader(c) PROVE TaskInv'
<1>1. CASE Refuse(c)
  <2>1. hub' \in Seq(Calls)
    <3>1. PICK order \in {<<"close">>, <<"text", "close">>} : Take(c, order)
      BY <1>1 DEF Refuse
    <3>2. order \in Seq(Tries)
      BY OrdersTyped DEF Orders
    <3> QED BY <3>1, <3>2, TakeTyped
  <2> QED BY <1>1, <2>1, CountsKept DEF Calls, Refuse, Leave, TaskInv, OutboundTypeOK, SessionHasReader
<1>2. CASE FrameOfRemoved(c) \/ SeesEnd(c)
  BY <1>2, CountsKept DEF FrameOfRemoved, SeesEnd, Leave, hubVars, TaskInv, OutboundTypeOK, SessionHasReader
<1>3. CASE IdleTimeout(c)
  <2>1. hub' \in Seq(Calls)
    <3>1. <<"close">> \in Seq(Tries)
      BY OrdersTyped DEF Orders
    <3> QED BY <1>3, <3>1, TakeTyped DEF IdleTimeout
  <2> QED BY <1>3, <2>1, CountsKept DEF Calls, IdleTimeout, Leave, TaskInv, OutboundTypeOK, SessionHasReader
<1>4. CASE CleanUp(c)
  <2>1. /\ ByIpCounts' /\ byIp' \in [Addrs -> Nat]
        /\ sessions' = sessions \ {c}
    BY <1>4, RemovedCounts DEF CleanUp
  <2> QED BY <1>4, <2>1 DEF CleanUp, TaskInv, OutboundTypeOK, SessionHasReader
<1>5. CASE ReaderEnds(c)
  <2>1. c \notin sessions
    BY <1>5 DEF ReaderEnds, TaskInv, SessionHasReader
  <2> QED BY <1>5, <2>1, CountsKept DEF ReaderEnds, hubVars, TaskInv, OutboundTypeOK, SessionHasReader
<1> QED BY <1>1, <1>2, <1>3, <1>4, <1>5 DEF Reader

LEMMA WriterInv == ASSUME TaskInv, NEW c \in Conns, Writer(c) PROVE TaskInv'
<1>1. CASE WriterTakes(c)
  <2>1. queue[c] \in Seq(Frames) /\ queue[c] # <<>>
    BY <1>1 DEF WriterTakes, TaskInv, OutboundTypeOK
  <2>2. /\ Head(queue[c]) \in Frames /\ Tail(queue[c]) \in Seq(Frames)
        /\ Len(Tail(queue[c])) <= Len(queue[c])
    BY <2>1
  <2>3. Len(Tail(queue[c])) <= Capacity
    BY <2>1, <2>2, OutboundAssumption DEF TaskInv, OutboundTypeOK
  <2> QED BY <1>1, <2>2, <2>3, CountsKept DEF WriterTakes, hubVars, TaskInv, OutboundTypeOK, SessionHasReader
<1>2. CASE WriterSent(c) \/ WriterFails(c) \/ WriterDrained(c)
  BY <1>2, CountsKept DEF WriterSent, WriterFails, WriterDrained, hubVars, TaskInv, OutboundTypeOK, SessionHasReader
<1> QED BY <1>1, <1>2 DEF Writer

LEMMA TurnsInv == ASSUME TaskInv, NEW c \in Conns, ClientTurns(c) PROVE TaskInv'
BY CountsKept DEF ClientTurns, hubVars, TaskInv, OutboundTypeOK, SessionHasReader

---------------------------------------------------------------------------

LEMMA TaskInit == OutboundInit => TaskInv
<1> SUFFICES ASSUME OutboundInit PROVE TaskInv
  OBVIOUS
<1>1. ByIpCounts
  <2>1. \A a \in Addrs : From(a) = {}
    BY DEF OutboundInit, From
  <2> QED BY <2>1, FS_EmptySet DEF OutboundInit, ByIpCounts
<1>2. <<>> \in Seq([to : Conns, call : Tries]) /\ <<>> \in Seq(Frames) /\ Len(<<>>) = 0
  OBVIOUS
<1>3. hub \in Seq([to : Conns, call : Tries])
  BY <1>2 DEF OutboundInit
<1>4. 0 <= Capacity
  BY OutboundAssumption
<1>5. OutboundTypeOK
  BY <1>2, <1>3, <1>4 DEF OutboundInit, OutboundTypeOK
<1> QED BY <1>1, <1>5 DEF OutboundInit, TaskInv, SessionHasReader

LEMMA TaskNext == ASSUME TaskInv, [OutboundNext]_outboundVars PROVE TaskInv'
<1>1. CASE HubStep
  BY <1>1, HubStepInv
<1>2. ASSUME NEW c \in Conns, \/ Connect(c) \/ Reader(c) \/ Writer(c) \/ ClientTurns(c)
                              \/ \E order \in Orders : Order(c, order)
      PROVE  TaskInv'
  BY <1>2, ConnectInv, ReaderInv, WriterInv, TurnsInv, OrderInv
<1>3. CASE UNCHANGED outboundVars
  BY <1>3, CountsKept DEF outboundVars, hubVars, TaskInv, OutboundTypeOK, SessionHasReader
<1> QED BY <1>1, <1>2, <1>3 DEF OutboundNext

\* The types, the bound of the queues among them (ws.rs, mpsc::channel).
THEOREM TasksTypeCorrect == OutboundSpec => []OutboundTypeOK
<1>1. TaskInv => OutboundTypeOK
  BY DEF TaskInv
<1> QED BY TaskInit, TaskNext, <1>1, PTL DEF OutboundSpec

\* An address is admitted by the number of sessions it has, however often each of
\* them is removed (add_session and remove_session of session.rs).
THEOREM AddressesCounted == OutboundSpec => []ByIpCounts
<1>1. TaskInv => ByIpCounts
  BY DEF TaskInv
<1> QED BY TaskInit, TaskNext, <1>1, PTL DEF OutboundSpec

\* Every session of the table has a reader that will take it out (handle_socket of
\* ws.rs), whatever ended its loop.
THEOREM SessionsAreRead == OutboundSpec => []SessionHasReader
<1>1. TaskInv => SessionHasReader
  BY DEF TaskInv
<1> QED BY TaskInit, TaskNext, <1>1, PTL DEF OutboundSpec

---------------------------------------------------------------------------
(* The client's end of a connection. *)

Kick == <<"kicked", "kicked">>

Greetings == {m \in Messages : m[2] \in Handshake}

\* Without a socket nothing is in flight.
Bare == link.sock = "none" => link.pending = <<>> /\ inbox = <<>> /\ asked = <<>> /\ ~bound

\* Of the handshake only the request that the stage names is underway.
HandshakeInOrder ==
    /\ InFlight(link) \cap Handshake \subseteq {link.stage}
    /\ ToSet(asked) \cap Handshake \subseteq {link.stage}
    /\ \A m \in ToSet(inbox) : m[2] \in Handshake => m[2] = link.stage

\* And it is on one side only: the server has it or has answered it, once.
OneAnswer ==
    /\ AtMostOne(asked, Handshake) /\ AtMostOne(inbox, Greetings)
    /\ ToSet(asked) \cap Handshake = {} \/ ToSet(inbox) \cap Greetings = {}

\* A server that has bound the account has welcomed the client: no other answer to
\* the handshake can precede a kick.
Welcomed ==
    bound \/ Kick \in ToSet(inbox) =>
        /\ link.stage \in {"auth", "done"}
        /\ ToSet(asked) \cap Handshake = {}
        /\ ToSet(inbox) \cap Greetings \subseteq {<<"ok", "auth">>}

ClientInv ==
    /\ LinkTypeOK /\ Bare /\ HandshakeInOrder /\ OneAnswer /\ Welcomed
    /\ OnlineMeansHandshaken /\ KickedStaysOff

LEMMA NothingLeft ==
    /\ ToSet(<<>>) = {} /\ <<>> \in Seq(Requests) /\ <<>> \in Seq(Messages)
    /\ AtMostOne(<<>>, Handshake) /\ AtMostOne(<<>>, Greetings)
<1>1. ToSet(<<>>) = {}
  BY DEF ToSet
<1>2. <<>> \in Seq(Requests) /\ <<>> \in Seq(Messages)
  OBVIOUS
<1>3. 1..Len(<<>>) = {}
  OBVIOUS
<1>4. AtMostOne(<<>>, Handshake) /\ AtMostOne(<<>>, Greetings)
  BY <1>3 DEF AtMostOne
<1>. QED  BY <1>1, <1>2, <1>4

LEMMA MessageFacts ==
    /\ \A m \in Messages : m # Kick => /\ m[1] \in {"ok", "error", "mismatch"} /\ m[2] \in Requests
                                       /\ m = <<m[1], m[2]>>
    /\ Kick \in Messages /\ Kick \notin Greetings
    /\ Callers \cap Handshake = {} /\ Handshake \subseteq Requests
  BY ClientAssumption DEF Messages, Kick, Greetings, Requests, Handshake

LEMMA ScheduleFacts ==
    ASSUME NEW l \in Link
    PROVE  /\ Schedule(l) \in Link
           /\ Schedule(l).sock = l.sock /\ Schedule(l).stage = l.stage /\ Schedule(l).state = l.state
           /\ Schedule(l).pending = l.pending /\ Schedule(l).wanted = l.wanted
<1>1. Capped(l.attempt + 1) \in 0..LastDelay
  BY ClientAssumption DEF Link, Capped
<1>. HIDE DEF Capped
<1>. QED  BY <1>1 DEF Link, Schedule

LEMMA SettleFacts ==
    ASSUME NEW l \in Link
    PROVE  /\ Settle(l) \in Link
           /\ Settle(l).sock = l.sock /\ Settle(l).stage = l.stage /\ Settle(l).state = "offline"
           /\ Settle(l).pending = l.pending /\ Settle(l).wanted = l.wanted
<1>. DEFINE off == [l EXCEPT !.state = "offline"]
<1>1. /\ off \in Link /\ off.sock = l.sock /\ off.stage = l.stage /\ off.state = "offline"
      /\ off.pending = l.pending /\ off.wanted = l.wanted
  BY DEF Link
<1>2. Settle(l) = off \/ Settle(l) = Schedule(off)
  BY DEF Settle
<1>. HIDE DEF off
<1>. QED  BY <1>1, <1>2, ScheduleFacts

LEMMA DropFacts ==
    ASSUME NEW l \in Link
    PROVE  /\ Drop(l) \in Link
           /\ Drop(l).sock = "none" /\ Drop(l).stage = "idle" /\ Drop(l).state = "offline"
           /\ Drop(l).pending = <<>> /\ Drop(l).wanted = l.wanted
<1>. DEFINE bare == [l EXCEPT !.sock = "none", !.stage = "idle", !.pending = <<>>]
<1>1. /\ bare \in Link /\ bare.sock = "none" /\ bare.stage = "idle"
      /\ bare.pending = <<>> /\ bare.wanted = l.wanted
  <2>1. \A empty \in Seq(Requests) :
            LET b == [l EXCEPT !.sock = "none", !.stage = "idle", !.pending = empty]
            IN  b \in Link /\ b.sock = "none" /\ b.stage = "idle" /\ b.pending = empty /\ b.wanted = l.wanted
    BY DEF Link
  <2>. QED  BY <2>1, NothingLeft
<1>2. Drop(l) = Settle(bare) \/ Drop(l) = Settle(Settle(bare))
  BY DEF Drop
<1>. HIDE DEF bare
<1>. QED  BY <1>1, <1>2, SettleFacts

\* A drop keeps the invariant when it does not turn a client on that was told off.
LEMMA DroppedInv ==
    ASSUME ClientInv, NEW l \in Link, Dropped(l), told => ~l.wanted
    PROVE  ClientInv'
<1>1. /\ link' \in Link /\ link'.sock = "none" /\ link'.stage = "idle" /\ link'.state = "offline"
      /\ link'.pending = <<>> /\ link'.wanted = l.wanted
  BY DropFacts DEF Dropped
<1>2. inbox' = <<>> /\ asked' = <<>> /\ bound' = FALSE /\ polled' = FALSE /\ told' = told
  BY DEF Dropped
<1>3. waiting' \subseteq Callers /\ told \in BOOLEAN
  BY DEF Dropped, ClientInv, LinkTypeOK
<1>4. LinkTypeOK'
  BY <1>1, <1>2, <1>3, NothingLeft DEF LinkTypeOK
<1>5. Bare' /\ HandshakeInOrder' /\ OneAnswer' /\ Welcomed'
  BY <1>1, <1>2, NothingLeft DEF Bare, HandshakeInOrder, OneAnswer, Welcomed, InFlight
<1>6. OnlineMeansHandshaken' /\ KickedStaysOff'
  BY <1>1, <1>2 DEF OnlineMeansHandshaken, KickedStaysOff
<1>. QED  BY <1>4, <1>5, <1>6 DEF ClientInv

\* A step that leaves the stage, the requests and the packets alone.
LEMMA QuietInv ==
    ASSUME ClientInv,
           link' \in Link, link'.stage = link.stage, link'.pending = link.pending,
           link'.state = link.state, link'.wanted = link.wanted,
           link'.sock = "none" => link.sock = "none",
           UNCHANGED <<waiting, inbox, asked, bound, told>>, polled' \in BOOLEAN
    PROVE  ClientInv'
<1>. USE DEF ClientInv
<1>1. LinkTypeOK'
  BY DEF LinkTypeOK
<1>2. Bare' /\ HandshakeInOrder' /\ OneAnswer' /\ Welcomed'
  BY DEF Bare, HandshakeInOrder, OneAnswer, Welcomed, InFlight
<1>3. OnlineMeansHandshaken' /\ KickedStaysOff'
  BY DEF OnlineMeansHandshaken, KickedStaysOff, Kick, InFlight
<1>. QED  BY <1>1, <1>2, <1>3

LEMMA AskFacts ==
    ASSUME NEW l \in Link, NEW r \in Requests
    PROVE  /\ Ask(l, r) \in Link /\ InFlight(Ask(l, r)) = InFlight(l) \cup {r}
           /\ Ask(l, r).sock = l.sock /\ Ask(l, r).stage = l.stage /\ Ask(l, r).state = l.state
           /\ Ask(l, r).wanted = l.wanted
<1>1. l.pending \in Seq(Requests)
  BY DEF Link
<1>. DEFINE p == Append(l.pending, r)
<1>2. p \in Seq(Requests) /\ ToSet(p) = ToSet(l.pending) \cup {r}
  BY <1>1, AppendFacts
<1>3. Ask(l, r) = [l EXCEPT !.pending = p]
  BY DEF Ask
<1>. HIDE DEF p
<1>. QED  BY <1>2, <1>3 DEF Link, InFlight

LEMMA AnsweredFacts ==
    ASSUME link \in Link, NEW r
    PROVE  /\ Answered(r) \in Link /\ InFlight(Answered(r)) = InFlight(link) \ {r}
           /\ Answered(r).sock = link.sock /\ Answered(r).stage = link.stage
           /\ Answered(r).state = link.state /\ Answered(r).wanted = link.wanted
<1>1. link.pending \in Seq(Requests)
  BY DEF Link
<1>. DEFINE p == Without(link.pending, {r})
<1>2. p \in Seq(Requests) /\ ToSet(p) = ToSet(link.pending) \ {r}
  BY <1>1, WithoutFacts
<1>3. Answered(r) = [link EXCEPT !.pending = p]
  BY DEF Answered
<1>. HIDE DEF p
<1>. QED  BY <1>2, <1>3 DEF Link, InFlight

LEMMA OpensInv ==
    ASSUME ClientInv, NEW l \in Link, link.sock = "none", l.sock = "none",
           l.pending = link.pending, l.stage = link.stage, l.state = link.state,
           Opens(l), told' \in BOOLEAN, told' => ~l.wanted,
           UNCHANGED <<waiting, inbox, asked, bound, polled>>
    PROVE  ClientInv'
<1>1. /\ link.pending = <<>> /\ inbox = <<>> /\ asked = <<>> /\ bound = FALSE /\ link.state # "online"
      /\ waiting \subseteq Callers /\ polled \in BOOLEAN
  BY DEF ClientInv, Bare, OnlineMeansHandshaken, LinkTypeOK
<1>2. link' \in Link /\ link'.pending = <<>> /\ link'.state # "online" /\ link'.wanted = l.wanted
  <2>1. CASE link' = Schedule(l)
    BY <1>1, <2>1, ScheduleFacts
  <2>2. CASE link' = [l EXCEPT !.sock = "connecting", !.stage = "idle", !.state = "connecting"]
    BY <1>1, <2>2 DEF Link
  <2>. QED  BY <2>1, <2>2 DEF Opens
<1>3. LinkTypeOK'
  BY <1>1, <1>2, NothingLeft DEF LinkTypeOK
<1>4. Bare' /\ HandshakeInOrder' /\ OneAnswer' /\ Welcomed'
  BY <1>1, <1>2, NothingLeft DEF Bare, HandshakeInOrder, OneAnswer, Welcomed, InFlight
<1>5. OnlineMeansHandshaken' /\ KickedStaysOff'
  BY <1>1, <1>2 DEF OnlineMeansHandshaken, KickedStaysOff
<1>. QED  BY <1>3, <1>4, <1>5 DEF ClientInv

LEMMA ReopenInv == ASSUME ClientInv, Reopen PROVE ClientInv'
<1>1. told => ~link.wanted
  BY NothingLeft DEF ClientInv, KickedStaysOff, Bare, Reopen
<1>2. link \in Link /\ told \in BOOLEAN
  BY DEF ClientInv, LinkTypeOK
<1>. QED  BY <1>1, <1>2, OpensInv DEF Reopen, server

LEMMA ConnectNowInv == ASSUME ClientInv, ConnectNow PROVE ClientInv'
<1>. DEFINE l == [link EXCEPT !.wanted = TRUE, !.attempt = 0, !.delay = 0]
<1>1. link \in Link
  BY DEF ClientInv, LinkTypeOK
<1>2. /\ l \in Link /\ l.sock = link.sock /\ l.stage = link.stage /\ l.state = link.state
      /\ l.pending = link.pending
  <2>1. 0 \in 0..LastDelay
    BY ClientAssumption
  <2>. QED  BY <1>1, <2>1 DEF Link
<1>3. told' = FALSE /\ UNCHANGED <<waiting, inbox, asked, bound, polled>>
  BY DEF ConnectNow
<1>4. CASE link.sock = "none"
  <2>1. Opens(l)
    BY <1>4 DEF ConnectNow
  <2>. HIDE DEF l
  <2>. QED  BY <1>2, <1>3, <1>4, <2>1, OpensInv
<1>5. CASE link.sock # "none"
  <2>1. link' = l
    BY <1>5 DEF ConnectNow
  <2>. HIDE DEF l
  <2>2. LinkTypeOK'
    BY <1>2, <1>3, <2>1 DEF ClientInv, LinkTypeOK
  <2>3. Bare' /\ HandshakeInOrder' /\ OneAnswer' /\ Welcomed'
    BY <1>2, <1>3, <2>1 DEF ClientInv, Bare, HandshakeInOrder, OneAnswer, Welcomed, InFlight
  <2>4. OnlineMeansHandshaken' /\ KickedStaysOff'
    BY <1>2, <1>3, <2>1 DEF ClientInv, OnlineMeansHandshaken, KickedStaysOff, InFlight
  <2>. QED  BY <2>2, <2>3, <2>4 DEF ClientInv
<1>. QED  BY <1>4, <1>5

LEMMA CallInv == ASSUME ClientInv, NEW u \in Callers, Call(u) PROVE ClientInv'
<1>1. /\ link \in Link /\ asked \in Seq(Requests) /\ u \in Requests /\ u \notin Handshake
      /\ waiting \subseteq Callers /\ inbox \in Seq(Messages)
      /\ bound \in BOOLEAN /\ told \in BOOLEAN /\ polled \in BOOLEAN
  BY MessageFacts DEF ClientInv, LinkTypeOK, Requests
<1>2. /\ link.sock = "open" /\ link' = Ask(link, u) /\ asked' = Append(asked, u)
      /\ waiting' = waiting \cup {u} /\ UNCHANGED <<inbox, bound, told, polled>>
  BY DEF Call
<1>3. /\ link' \in Link /\ InFlight(link)' = InFlight(link) \cup {u}
      /\ link'.sock = link.sock /\ link'.stage = link.stage /\ link'.state = link.state
      /\ link'.wanted = link.wanted
  BY <1>1, <1>2, AskFacts DEF InFlight
<1>4. /\ asked' \in Seq(Requests) /\ ToSet(asked') = ToSet(asked) \cup {u}
      /\ AtMostOne(asked, Handshake) => AtMostOne(asked', Handshake)
  BY <1>1, <1>2, AppendFacts
<1>5. LinkTypeOK' /\ Bare'
  BY <1>1, <1>2, <1>3, <1>4 DEF LinkTypeOK, Bare
<1>6. HandshakeInOrder' /\ OneAnswer' /\ Welcomed'
  BY <1>1, <1>2, <1>3, <1>4 DEF ClientInv, HandshakeInOrder, OneAnswer, Welcomed
<1>7. OnlineMeansHandshaken' /\ KickedStaysOff'
  BY <1>1, <1>2, <1>3, <1>4 DEF ClientInv, OnlineMeansHandshaken, KickedStaysOff
<1>. QED  BY <1>5, <1>6, <1>7 DEF ClientInv

LEMMA BeginInv == ASSUME ClientInv, BeginHandshake PROVE ClientInv'
<1>. DEFINE l == [link EXCEPT !.stage = "hello"]
<1>1. /\ link \in Link /\ asked \in Seq(Requests) /\ "hello" \in Requests
      /\ waiting \subseteq Callers /\ inbox \in Seq(Messages)
      /\ bound \in BOOLEAN /\ told \in BOOLEAN /\ polled \in BOOLEAN
  BY DEF ClientInv, LinkTypeOK, Requests, Handshake
<1>2. /\ link.sock = "open" /\ link.stage = "idle" /\ inbox = <<>> /\ link' = Ask(l, "hello")
      /\ asked' = Append(asked, "hello") /\ polled' = FALSE
      /\ UNCHANGED <<waiting, inbox, bound, told>>
  BY DEF BeginHandshake, Drained
<1>3. /\ InFlight(link) \cap Handshake = {} /\ ToSet(asked) \cap Handshake = {} /\ bound = FALSE
      /\ link.state # "online" /\ AtMostOne(asked, Handshake) /\ (told => ~link.wanted)
  BY <1>1, <1>2, NothingLeft DEF ClientInv, HandshakeInOrder, Welcomed, OneAnswer,
                                 OnlineMeansHandshaken, KickedStaysOff, Handshake
<1>4. /\ l \in Link /\ l.sock = "open" /\ l.stage = "hello" /\ l.state = link.state
      /\ l.wanted = link.wanted /\ InFlight(l) = InFlight(link)
  BY <1>1, <1>2 DEF Link, InFlight
<1>. HIDE DEF l
<1>5. /\ link' \in Link /\ InFlight(link)' = InFlight(link) \cup {"hello"}
      /\ link'.sock = "open" /\ link'.stage = "hello" /\ link'.state = link.state
      /\ link'.wanted = link.wanted
  BY <1>1, <1>2, <1>4, AskFacts DEF InFlight
<1>6. /\ asked' \in Seq(Requests) /\ ToSet(asked') = ToSet(asked) \cup {"hello"}
      /\ AtMostOne(asked', Handshake)
  BY <1>1, <1>2, <1>3, AppendFacts
<1>7. LinkTypeOK' /\ Bare'
  BY <1>1, <1>2, <1>5, <1>6 DEF LinkTypeOK, Bare
<1>8. HandshakeInOrder' /\ OneAnswer' /\ Welcomed'
  BY <1>2, <1>3, <1>5, <1>6, NothingLeft DEF HandshakeInOrder, OneAnswer, Welcomed, Handshake
<1>9. OnlineMeansHandshaken' /\ KickedStaysOff'
  BY <1>2, <1>3, <1>5 DEF OnlineMeansHandshaken, KickedStaysOff
<1>. QED  BY <1>7, <1>8, <1>9 DEF ClientInv

\* What a packet that is handed out leaves behind.
LEMMA PacketFacts ==
    ASSUME ClientInv, inbox # <<>>
    PROVE  /\ Head(inbox) \in Messages /\ Tail(inbox) \in Seq(Messages)
           /\ ToSet(inbox) = {Head(inbox)} \cup ToSet(Tail(inbox))
           /\ AtMostOne(Tail(inbox), Greetings)
           /\ Head(inbox) \in Greetings =>
                /\ Head(inbox)[2] = link.stage
                /\ ToSet(Tail(inbox)) \cap Greetings = {} /\ ToSet(asked) \cap Handshake = {}
                /\ InFlight(link) \cap Handshake \subseteq {Head(inbox)[2]}
<1>1. inbox \in Seq(Messages) /\ AtMostOne(inbox, Greetings)
  BY DEF ClientInv, LinkTypeOK, OneAnswer
<1>2. /\ Head(inbox) \in Messages /\ Tail(inbox) \in Seq(Messages)
      /\ ToSet(inbox) = {Head(inbox)} \cup ToSet(Tail(inbox))
      /\ AtMostOne(Tail(inbox), Greetings)
      /\ Head(inbox) \in Greetings => ToSet(Tail(inbox)) \cap Greetings = {}
  BY <1>1, RestFacts
<1>3. ASSUME Head(inbox) \in Greetings
      PROVE  /\ Head(inbox)[2] = link.stage /\ ToSet(asked) \cap Handshake = {}
             /\ InFlight(link) \cap Handshake \subseteq {Head(inbox)[2]}
  BY <1>2, <1>3 DEF ClientInv, HandshakeInOrder, OneAnswer, Greetings
<1>. QED  BY <1>2, <1>3

\* A packet that is not of the handshake is handed out.
LEMMA HandedOutInv ==
    ASSUME ClientInv, inbox # <<>>, inbox' = Tail(inbox),
           link' \in Link, InFlight(link)' \subseteq InFlight(link), link'.sock = link.sock, link'.sock # "none",
           link'.stage = link.stage, link'.state = link.state,
           link'.wanted => link.wanted /\ Head(inbox) # Kick,
           waiting' \subseteq waiting, UNCHANGED <<asked, bound, told, polled>>
    PROVE  ClientInv'
<1>1. /\ Tail(inbox) \in Seq(Messages) /\ ToSet(inbox) = {Head(inbox)} \cup ToSet(Tail(inbox))
      /\ AtMostOne(Tail(inbox), Greetings)
  BY PacketFacts
<1>2. LinkTypeOK' /\ Bare'
  BY <1>1 DEF ClientInv, LinkTypeOK, Bare
<1>3. HandshakeInOrder' /\ OneAnswer' /\ Welcomed'
  BY <1>1 DEF ClientInv, HandshakeInOrder, OneAnswer, Welcomed
<1>4. OnlineMeansHandshaken' /\ KickedStaysOff'
  BY <1>1 DEF ClientInv, OnlineMeansHandshaken, KickedStaysOff, Kick
<1>. QED  BY <1>2, <1>3, <1>4 DEF ClientInv

LEMMA HelloInv ==
    ASSUME ClientInv, inbox # <<>>, Head(inbox) = <<"ok", "hello">>, link.sock = "open",
           link' = Ask([Answered("hello") EXCEPT !.stage = "auth"], "auth"),
           asked' = Append(asked, "auth"), inbox' = Tail(inbox),
           UNCHANGED <<waiting, bound, told, polled>>
    PROVE  ClientInv'
<1>. DEFINE l == [Answered("hello") EXCEPT !.stage = "auth"]
<1>1. /\ link \in Link /\ asked \in Seq(Requests) /\ "auth" \in Requests
      /\ waiting \subseteq Callers /\ inbox \in Seq(Messages)
      /\ bound \in BOOLEAN /\ told \in BOOLEAN /\ polled \in BOOLEAN
  BY DEF ClientInv, LinkTypeOK, Requests, Handshake
<1>2. Head(inbox) \in Greetings /\ Head(inbox)[2] = "hello"
  BY PacketFacts DEF Greetings, Handshake
<1>3. /\ Tail(inbox) \in Seq(Messages) /\ ToSet(inbox) = {Head(inbox)} \cup ToSet(Tail(inbox))
      /\ AtMostOne(Tail(inbox), Greetings)
      /\ link.stage = "hello" /\ ToSet(Tail(inbox)) \cap Greetings = {}
      /\ ToSet(asked) \cap Handshake = {} /\ InFlight(link) \cap Handshake \subseteq {"hello"}
  BY <1>2, PacketFacts
<1>4. /\ bound = FALSE /\ Kick \notin ToSet(inbox) /\ link.state # "online" /\ (told => ~link.wanted)
      /\ AtMostOne(asked, Handshake)
  BY <1>1, <1>2, <1>3 DEF ClientInv, Welcomed, OnlineMeansHandshaken, KickedStaysOff, OneAnswer, Kick
<1>5. /\ l \in Link /\ l.sock = "open" /\ l.stage = "auth" /\ l.state = link.state
      /\ l.wanted = link.wanted /\ InFlight(l) = InFlight(link) \ {"hello"}
  <2>. DEFINE a == Answered("hello")
  <2>1. /\ a \in Link /\ a.sock = link.sock /\ a.state = link.state /\ a.wanted = link.wanted
        /\ InFlight(a) = InFlight(link) \ {"hello"}
    BY <1>1, AnsweredFacts
  <2>. HIDE DEF a
  <2>2. /\ l \in Link /\ l.sock = a.sock /\ l.stage = "auth" /\ l.state = a.state
        /\ l.wanted = a.wanted /\ InFlight(l) = InFlight(a)
    BY <2>1 DEF Link, InFlight, a
  <2>. QED  BY <2>1, <2>2
<1>. HIDE DEF l
<1>6. /\ link' \in Link /\ InFlight(link)' = (InFlight(link) \ {"hello"}) \cup {"auth"}
      /\ link'.sock = "open" /\ link'.stage = "auth" /\ link'.state = link.state
      /\ link'.wanted = link.wanted
  BY <1>1, <1>5, AskFacts DEF InFlight, l
<1>7. /\ asked' \in Seq(Requests) /\ ToSet(asked') = ToSet(asked) \cup {"auth"}
      /\ AtMostOne(asked', Handshake)
  BY <1>1, <1>3, <1>4, AppendFacts
<1>8. LinkTypeOK' /\ Bare'
  BY <1>1, <1>3, <1>6, <1>7 DEF LinkTypeOK, Bare
<1>9. HandshakeInOrder' /\ OneAnswer' /\ Welcomed'
  <2>1. \A m \in ToSet(inbox') : m[2] \notin Handshake
    <3>1. \A m \in ToSet(Tail(inbox)) : m \in Messages
      BY <1>3 DEF ToSet
    <3>. QED  BY <1>3, <3>1 DEF Greetings
  <2>2. HandshakeInOrder'
    BY <1>3, <1>6, <1>7, <2>1 DEF HandshakeInOrder, Handshake
  <2>. QED  BY <1>3, <1>4, <1>6, <1>7, <2>2 DEF OneAnswer, Welcomed
<1>10. OnlineMeansHandshaken' /\ KickedStaysOff'
  BY <1>4, <1>6 DEF OnlineMeansHandshaken, KickedStaysOff
<1>. QED  BY <1>8, <1>9, <1>10 DEF ClientInv

LEMMA WelcomeInv ==
    ASSUME ClientInv, inbox # <<>>, Head(inbox) = <<"ok", "auth">>, link.sock # "none",
           link' = [Answered("auth") EXCEPT !.stage = "done", !.state = "online", !.attempt = 0],
           inbox' = Tail(inbox), UNCHANGED <<waiting, asked, bound, told, polled>>
    PROVE  ClientInv'
<1>1. /\ link \in Link /\ waiting \subseteq Callers /\ asked \in Seq(Requests)
      /\ bound \in BOOLEAN /\ told \in BOOLEAN /\ polled \in BOOLEAN
  BY DEF ClientInv, LinkTypeOK
<1>2. Head(inbox) \in Greetings /\ Head(inbox)[2] = "auth" /\ Head(inbox) # Kick
  BY PacketFacts DEF Greetings, Handshake, Kick
<1>3. /\ Tail(inbox) \in Seq(Messages) /\ ToSet(inbox) = {Head(inbox)} \cup ToSet(Tail(inbox))
      /\ AtMostOne(Tail(inbox), Greetings)
      /\ link.stage = "auth" /\ ToSet(Tail(inbox)) \cap Greetings = {}
      /\ ToSet(asked) \cap Handshake = {} /\ InFlight(link) \cap Handshake \subseteq {"auth"}
  BY <1>2, PacketFacts
<1>4. /\ link' \in Link /\ InFlight(link)' = InFlight(link) \ {"auth"}
      /\ link'.sock = link.sock /\ link'.stage = "done" /\ link'.wanted = link.wanted
  <2>. DEFINE a == Answered("auth")
  <2>1. /\ a \in Link /\ a.sock = link.sock /\ a.wanted = link.wanted
        /\ InFlight(a) = InFlight(link) \ {"auth"}
    BY <1>1, AnsweredFacts
  <2>2. 0 \in 0..LastDelay
    BY ClientAssumption
  <2>3. link' = [a EXCEPT !.stage = "done", !.state = "online", !.attempt = 0]
    OBVIOUS
  <2>. HIDE DEF a
  <2>4. /\ link' \in Link /\ link'.sock = a.sock /\ link'.stage = "done"
        /\ link'.wanted = a.wanted /\ link'.pending = a.pending
    BY <2>1, <2>2, <2>3 DEF Link
  <2>. QED  BY <2>1, <2>4 DEF InFlight
<1>5. LinkTypeOK' /\ Bare'
  BY <1>1, <1>3, <1>4 DEF LinkTypeOK, Bare
<1>6. HandshakeInOrder' /\ OneAnswer' /\ Welcomed'
  <2>1. \A m \in ToSet(inbox') : m[2] \notin Handshake
    <3>1. \A m \in ToSet(Tail(inbox)) : m \in Messages
      BY <1>3 DEF ToSet
    <3>. QED  BY <1>3, <3>1 DEF Greetings
  <2>2. HandshakeInOrder'
    BY <1>3, <1>4, <2>1 DEF HandshakeInOrder
  <2>3. AtMostOne(asked, Handshake)
    BY DEF ClientInv, OneAnswer
  <2>. QED  BY <1>3, <1>4, <2>2, <2>3 DEF OneAnswer, Welcomed
<1>7. OnlineMeansHandshaken' /\ KickedStaysOff'
  BY <1>2, <1>3, <1>4 DEF ClientInv, OnlineMeansHandshaken, KickedStaysOff, Kick
<1>. QED  BY <1>5, <1>6, <1>7 DEF ClientInv

LEMMA HandshakeGoesInv ==
    ASSUME ClientInv, inbox # <<>>, Head(inbox)[2] \in Handshake, HandshakeGoes(Head(inbox))
    PROVE  ClientInv'
<1>. DEFINE m == Head(inbox)
            l == Answered(m[2])
<1>1. m \in Messages /\ m \in Greetings /\ link \in Link /\ link.sock # "none"
  BY PacketFacts DEF Greetings, ClientInv, Bare, LinkTypeOK
<1>2. l \in Link /\ l.sock = link.sock /\ l.wanted = link.wanted
  BY <1>1, AnsweredFacts
<1>3. ASSUME m # <<"ok", "auth">> PROVE told => ~link.wanted
  <2>1. m \in ToSet(inbox)
    BY PacketFacts
  <2>. QED  BY <1>1, <1>3, <2>1 DEF ClientInv, Welcomed, KickedStaysOff, Kick
<1>4. CASE m = <<"ok", "hello">> /\ Dropped(l)
  <2>1. told => ~l.wanted
    BY <1>2, <1>3, <1>4
  <2>. HIDE DEF l
  <2>. QED  BY <1>2, <1>4, <2>1, DroppedInv
<1>5. CASE m[1] = "error" /\ Dropped(l)
  <2>1. told => ~l.wanted
    BY <1>2, <1>3, <1>5
  <2>. HIDE DEF l
  <2>. QED  BY <1>2, <1>5, <2>1, DroppedInv
<1>6. CASE Dropped([l EXCEPT !.wanted = FALSE])
  <2>. DEFINE k == [l EXCEPT !.wanted = FALSE]
  <2>1. k \in Link /\ k.wanted = FALSE
    <3>. HIDE DEF l
    <3>. QED  BY <1>2 DEF Link
  <2>2. Dropped(k)
    BY <1>6
  <2>. HIDE DEF k, l
  <2>. QED  BY <2>1, <2>2, DroppedInv
<1>7. CASE /\ m = <<"ok", "hello">> /\ l.sock = "open"
           /\ link' = Ask([l EXCEPT !.stage = "auth"], "auth")
           /\ asked' = Append(asked, "auth")
           /\ inbox' = Tail(inbox)
           /\ UNCHANGED <<waiting, bound, told, polled>>
  <2>1. m[2] = "hello"
    BY <1>7
  <2>. QED  BY <1>2, <1>7, <2>1, HelloInv
<1>8. CASE /\ m = <<"ok", "auth">>
           /\ link' = [l EXCEPT !.stage = "done", !.state = "online", !.attempt = 0]
           /\ inbox' = Tail(inbox)
           /\ UNCHANGED <<waiting, asked, bound, told, polled>>
  <2>1. m[2] = "auth"
    BY <1>8
  <2>. QED  BY <1>1, <1>8, <2>1, WelcomeInv
<1>. QED  BY <1>4, <1>5, <1>6, <1>7, <1>8 DEF HandshakeGoes

LEMMA ReceiveInv == ASSUME ClientInv, Receive PROVE ClientInv'
<1>. DEFINE m == Head(inbox)
<1>1. inbox # <<>> /\ m \in Messages /\ link \in Link /\ link.sock # "none"
  BY PacketFacts DEF Receive, ClientInv, LinkTypeOK, Bare
<1>2. CASE m[2] \in Handshake /\ HandshakeGoes(m)
  BY <1>1, <1>2, HandshakeGoesInv
<1>3. CASE /\ m[2] \in Callers
           /\ link' = Answered(m[2])
           /\ waiting' = waiting \ {m[2]}
           /\ inbox' = Tail(inbox)
           /\ UNCHANGED <<asked, bound, told, polled>>
  <2>1. m # Kick
    BY <1>3, ClientAssumption DEF Kick
  <2>2. /\ link' \in Link /\ InFlight(link)' \subseteq InFlight(link) /\ link'.sock = link.sock
        /\ link'.stage = link.stage /\ link'.state = link.state /\ link'.wanted = link.wanted
    BY <1>1, <1>3, AnsweredFacts DEF InFlight
  <2>. QED  BY <1>1, <1>3, <2>1, <2>2, HandedOutInv
<1>4. CASE /\ m[1] = "kicked"
           /\ link' = [link EXCEPT !.wanted = FALSE]
           /\ inbox' = Tail(inbox)
           /\ UNCHANGED <<waiting, asked, bound, told, polled>>
  <2>1. /\ link' \in Link /\ link'.pending = link.pending /\ link'.sock = link.sock
        /\ link'.stage = link.stage /\ link'.state = link.state /\ link'.wanted = FALSE
    BY <1>1, <1>4 DEF Link
  <2>. QED  BY <1>1, <1>4, <2>1, HandedOutInv DEF InFlight
<1>. QED  BY <1>2, <1>3, <1>4 DEF Receive

LEMMA DisconnectNowInv == ASSUME ClientInv, DisconnectNow PROVE ClientInv'
<1>. DEFINE l == [link EXCEPT !.wanted = FALSE]
<1>1. l \in Link /\ l.wanted = FALSE
  BY DEF ClientInv, LinkTypeOK, Link
<1>2. Dropped(l)
  BY DEF DisconnectNow
<1>. HIDE DEF l
<1>. QED  BY <1>1, <1>2, DroppedInv

\* With every packet handed out a client that was told off is off.
LEMMA DrainedOff == ASSUME ClientInv, Drained PROVE told => ~link.wanted
  BY NothingLeft DEF ClientInv, KickedStaysOff, Drained

LEMMA GoneInv == ASSUME ClientInv, ConnectTimeout \/ CloseSeen PROVE ClientInv'
<1>1. Drained /\ Dropped(link) /\ link \in Link
  BY DEF ConnectTimeout, CloseSeen, ClientInv, LinkTypeOK
<1>. QED  BY <1>1, DrainedOff, DroppedInv

LEMMA ExpireInv == ASSUME ClientInv, NEW k \in DOMAIN link.pending, Expire(k) PROVE ClientInv'
<1>. DEFINE due == SubSeq(link.pending, 1, k)
            rest == SubSeq(link.pending, k + 1, Len(link.pending))
            D == ToSet(due)
            late == {m \in Messages : m[2] \in D}
<1>1. /\ link \in Link /\ link.pending \in Seq(Requests) /\ asked \in Seq(Requests)
      /\ inbox \in Seq(Messages) /\ waiting \subseteq Callers
      /\ bound \in BOOLEAN /\ told \in BOOLEAN
  BY DEF ClientInv, LinkTypeOK, Link
<1>2. link.sock = "open" /\ Drained /\ (told => ~link.wanted)
  BY DrainedOff DEF Expire, ExpiryRuns
<1>3. rest \in Seq(Requests) /\ ToSet(rest) \subseteq ToSet(link.pending)
  BY <1>1, CutFacts
<1>. HIDE DEF rest, due
<1>4. CASE D \cap Handshake = {}
  <2>1. /\ link' = [link EXCEPT !.pending = rest]
        /\ waiting' = waiting \ D
        /\ asked' = Without(asked, D) /\ inbox' = Without(inbox, late)
        /\ polled' = FALSE
        /\ UNCHANGED <<bound, told>>
    BY <1>4 DEF Expire, Forgotten, rest, due
  <2>2. /\ asked' \in Seq(Requests) /\ ToSet(asked') = ToSet(asked) \ D
        /\ AtMostOne(asked, Handshake) => AtMostOne(asked', Handshake)
    BY <1>1, <2>1, WithoutFacts
  <2>3. /\ inbox' \in Seq(Messages) /\ ToSet(inbox') = ToSet(inbox) \ late
        /\ AtMostOne(inbox, Greetings) => AtMostOne(inbox', Greetings)
    BY <1>1, <2>1, WithoutFacts
  <2>4. /\ link' \in Link /\ link'.sock = "open" /\ link'.stage = link.stage
        /\ link'.state = link.state /\ link'.wanted = link.wanted
        /\ InFlight(link)' \subseteq InFlight(link)
    BY <1>1, <1>2, <1>3, <2>1 DEF Link, InFlight
  <2>. HIDE DEF D, late
  <2>5. LinkTypeOK' /\ Bare'
    BY <1>1, <2>1, <2>2, <2>3, <2>4 DEF LinkTypeOK, Bare
  <2>6. HandshakeInOrder' /\ OneAnswer' /\ Welcomed'
    BY <2>1, <2>2, <2>3, <2>4 DEF ClientInv, HandshakeInOrder, OneAnswer, Welcomed
  <2>7. OnlineMeansHandshaken' /\ KickedStaysOff'
    BY <1>2, <2>1, <2>4 DEF ClientInv, OnlineMeansHandshaken, KickedStaysOff
  <2>. QED  BY <2>5, <2>6, <2>7 DEF ClientInv
<1>5. CASE D \cap Handshake # {}
  <2>. DEFINE p == Without(link.pending, Handshake)
              l == [link EXCEPT !.pending = p]
  <2>1. Dropped(l)
    BY <1>5 DEF Expire, due
  <2>2. p \in Seq(Requests)
    BY <1>1, WithoutFacts
  <2>. HIDE DEF p
  <2>3. l \in Link /\ l.wanted = link.wanted
    BY <1>1, <2>2 DEF Link
  <2>. HIDE DEF l
  <2>. QED  BY <1>2, <2>1, <2>3, DroppedInv
<1>. QED  BY <1>4, <1>5

LEMMA AcceptedInv == ASSUME ClientInv, Accepted PROVE ClientInv'
<1>1. link \in Link /\ polled \in BOOLEAN
  BY DEF ClientInv, LinkTypeOK
<1>2. /\ link' \in Link /\ link'.stage = link.stage /\ link'.pending = link.pending
      /\ link'.state = link.state /\ link'.wanted = link.wanted /\ link'.sock = "open"
  BY <1>1 DEF Accepted, Link
<1>. QED  BY <1>1, <1>2, QuietInv DEF Accepted, server

LEMMA ClosesInv == ASSUME ClientInv, Closes PROVE ClientInv'
<1>1. link \in Link /\ waiting \subseteq Callers /\ inbox \in Seq(Messages) /\ told \in BOOLEAN /\ polled \in BOOLEAN
  BY DEF ClientInv, LinkTypeOK
<1>2. /\ link' \in Link /\ link'.stage = link.stage /\ link'.pending = link.pending
      /\ link'.state = link.state /\ link'.wanted = link.wanted /\ link'.sock # "none" /\ link.sock # "none"
  <2>1. PICK to \in {"closing", "closed"} :
          /\ link.sock \in {"connecting", "open", "closing"}
          /\ link' = [link EXCEPT !.sock = to]
    BY DEF Closes
  <2>. QED  BY <1>1, <2>1 DEF Link
<1>3. asked' = <<>> /\ bound' = FALSE /\ UNCHANGED <<waiting, inbox, told, polled>>
  BY DEF Closes
<1>4. LinkTypeOK' /\ Bare'
  BY <1>1, <1>2, <1>3, NothingLeft DEF LinkTypeOK, Bare
<1>5. HandshakeInOrder' /\ OneAnswer' /\ Welcomed'
  BY <1>2, <1>3, NothingLeft DEF ClientInv, HandshakeInOrder, OneAnswer, Welcomed, InFlight
<1>6. OnlineMeansHandshaken' /\ KickedStaysOff'
  BY <1>2, <1>3 DEF ClientInv, OnlineMeansHandshaken, KickedStaysOff, InFlight
<1>. QED  BY <1>4, <1>5, <1>6 DEF ClientInv

LEMMA AnswersInv == ASSUME ClientInv, Answers PROVE ClientInv'
<1>1. /\ link \in Link /\ waiting \subseteq Callers /\ inbox \in Seq(Messages) /\ asked \in Seq(Requests)
      /\ bound \in BOOLEAN /\ told \in BOOLEAN /\ polled \in BOOLEAN
  BY DEF ClientInv, LinkTypeOK
<1>2. PICK m \in Messages :
        /\ m[2] = Head(asked)
        /\ inbox' = Append(inbox, m)
        /\ bound' = (bound \/ m = <<"ok", "auth">>)
  BY DEF Answers
<1>3. asked # <<>> /\ link.sock = "open" /\ asked' = Tail(asked) /\ UNCHANGED <<link, waiting, told, polled>>
  BY DEF Answers
<1>4. AtMostOne(asked, Handshake) /\ AtMostOne(inbox, Greetings)
  BY DEF ClientInv, OneAnswer
<1>5. /\ m[2] \in Requests /\ m[2] \in ToSet(asked) /\ asked' \in Seq(Requests)
      /\ ToSet(asked') \subseteq ToSet(asked) /\ AtMostOne(asked', Handshake)
      /\ m[2] \in Handshake => ToSet(asked') \cap Handshake = {}
  BY <1>1, <1>2, <1>3, <1>4, RestFacts
<1>6. m # Kick /\ (m \in Greetings <=> m[2] \in Handshake)
  BY <1>5, ClientAssumption DEF Kick, Greetings, Requests, Handshake
<1>7. m \in Greetings => ToSet(inbox) \cap Greetings = {} /\ m[2] = link.stage
  BY <1>5, <1>6 DEF ClientInv, OneAnswer, HandshakeInOrder
<1>8. /\ inbox' \in Seq(Messages) /\ ToSet(inbox') = ToSet(inbox) \cup {m}
      /\ AtMostOne(inbox', Greetings)
  BY <1>1, <1>2, <1>4, <1>7, AppendFacts
<1>9. LinkTypeOK' /\ Bare'
  BY <1>1, <1>2, <1>3, <1>5, <1>8 DEF LinkTypeOK, Bare
<1>10. HandshakeInOrder'
  BY <1>3, <1>5, <1>6, <1>7, <1>8 DEF ClientInv, HandshakeInOrder, InFlight
<1>11. OneAnswer'
  BY <1>3, <1>5, <1>6, <1>7, <1>8 DEF ClientInv, OneAnswer
<1>12. Welcomed'
  <2>1. CASE bound \/ Kick \in ToSet(inbox)
    <3>1. m \notin Greetings
      BY <1>5, <1>6, <2>1 DEF ClientInv, Welcomed
    <3>. QED  BY <1>3, <1>5, <1>8, <2>1, <3>1 DEF ClientInv, Welcomed
  <2>2. CASE m = <<"ok", "auth">>
    <3>1. m[2] = "auth" /\ "auth" \in Handshake
      BY <2>2 DEF Handshake
    <3>. QED  BY <1>3, <1>5, <1>6, <1>7, <1>8, <2>2, <3>1 DEF Welcomed
  <2>3. CASE ~bound /\ Kick \notin ToSet(inbox) /\ m # <<"ok", "auth">>
    BY <1>1, <1>2, <1>6, <1>8, <2>3 DEF Welcomed
  <2>. QED  BY <2>1, <2>2, <2>3
<1>13. OnlineMeansHandshaken' /\ KickedStaysOff'
  BY <1>3, <1>8 DEF ClientInv, OnlineMeansHandshaken, KickedStaysOff, InFlight
<1>. QED  BY <1>9, <1>10, <1>11, <1>12, <1>13 DEF ClientInv

LEMMA KicksInv == ASSUME ClientInv, Kicks PROVE ClientInv'
<1>1. /\ link \in Link /\ waiting \subseteq Callers /\ inbox \in Seq(Messages) /\ polled \in BOOLEAN
      /\ AtMostOne(inbox, Greetings)
  BY DEF ClientInv, LinkTypeOK, OneAnswer
<1>2. /\ bound /\ link.sock = "open" /\ inbox' = Append(inbox, Kick) /\ told' = TRUE
      /\ asked' = <<>> /\ bound' = FALSE /\ UNCHANGED <<link, waiting, polled>>
  BY DEF Kicks, Kick
<1>3. /\ inbox' \in Seq(Messages) /\ ToSet(inbox') = ToSet(inbox) \cup {Kick}
      /\ AtMostOne(inbox', Greetings)
  BY <1>1, <1>2, AppendFacts, MessageFacts
<1>4. LinkTypeOK' /\ Bare'
  BY <1>1, <1>2, <1>3, NothingLeft DEF LinkTypeOK, Bare
<1>5. HandshakeInOrder' /\ OneAnswer' /\ Welcomed'
  <2>1. Kick[2] \notin Handshake /\ Kick \notin Greetings
    BY DEF Kick, Handshake, Greetings
  <2>. QED  BY <1>2, <1>3, <2>1, NothingLeft DEF ClientInv, HandshakeInOrder, OneAnswer, Welcomed, InFlight
<1>6. OnlineMeansHandshaken' /\ KickedStaysOff'
  BY <1>2, <1>3 DEF ClientInv, OnlineMeansHandshaken, KickedStaysOff, InFlight, Kick
<1>. QED  BY <1>4, <1>5, <1>6 DEF ClientInv

LEMMA ClientStart == ClientInit => ClientInv
<1>. SUFFICES ASSUME ClientInit PROVE ClientInv
  OBVIOUS
<1>. USE DEF ClientInit
<1>1. LinkTypeOK
  <2>1. 0 \in 0..LastDelay
    BY ClientAssumption
  <2>. QED  BY <2>1, NothingLeft DEF LinkTypeOK, Link
<1>2. Bare /\ HandshakeInOrder /\ OneAnswer /\ Welcomed
  BY NothingLeft DEF Bare, HandshakeInOrder, OneAnswer, Welcomed, InFlight
<1>3. OnlineMeansHandshaken /\ KickedStaysOff
  BY DEF OnlineMeansHandshaken, KickedStaysOff
<1>. QED  BY <1>1, <1>2, <1>3 DEF ClientInv

LEMMA ClientSteps == ASSUME ClientInv, [ClientNext]_clientVars PROVE ClientInv'
<1>1. CASE UNCHANGED clientVars
  BY <1>1, QuietInv DEF clientVars, ClientInv, LinkTypeOK
<1>2. CASE Screens
  BY <1>2, ConnectNowInv, DisconnectNowInv, CallInv DEF Screens
<1>3. CASE Frame
  <2>1. ASSUME Poll \/ NothingDue PROVE ClientInv'
    BY <2>1, QuietInv DEF Poll, NothingDue, server, ClientInv, LinkTypeOK
  <2>2. ASSUME ExpireAny PROVE ClientInv'
    BY <2>2, ExpireInv DEF ExpireAny
  <2>. QED  BY <1>3, <2>1, <2>2, ReopenInv, ReceiveInv, BeginInv, GoneInv DEF Frame, Looks
<1>4. CASE Network
  BY <1>4, AcceptedInv, ClosesInv, AnswersInv, KicksInv DEF Network
<1>. QED  BY <1>1, <1>2, <1>3, <1>4 DEF ClientNext

\* Every reachable state of the client satisfies the invariant, for any callers and
\* any number of reconnect delays.
THEOREM ClientInvariance == ClientSpec => []ClientInv
  BY ClientStart, ClientSteps, PTL DEF ClientSpec

\* lobby_client.gd:399: the client is online only on a socket whose handshake is done
\* and not being repeated.
THEOREM OnlineIsHandshaken == ClientSpec => []OnlineMeansHandshaken
<1>1. ClientInv => OnlineMeansHandshaken
  BY DEF ClientInv
<1>. QED  BY <1>1, ClientInvariance, PTL

\* lobby_client.gd:581-583: from the kicked push on the client stays off until the
\* player asks for a connection again.
THEOREM KickedClientsStayOff == ClientSpec => []KickedStaysOff
<1>1. ClientInv => KickedStaysOff
  BY DEF ClientInv
<1>. QED  BY <1>1, ClientInvariance, PTL
=============================================================================

------------------------------ MODULE Induction -------------------------------
(* Induction and recursion up to a number, in terms of sets and functions: what *)
(* is a predicate P(_) in the library's theorems is membership of a set here,   *)
(* which the provers can instantiate.  The text of a registry, the segments of  *)
(* a pattern and the calls of a walk through the trie are gone through by it.   *)
EXTENDS Integers, WellFoundedInduction, TLAPS

LEMMA Below == IsWellFoundedOn({ss \in Nat \X Nat : ss[1] < ss[2]}, Nat)
BY NatLessThanWellFounded DEF OpToRel

LEMMA Least ==
    ASSUME NEW T, T \subseteq Nat, T # {}
    PROVE  \E x \in T : \A y \in T : x <= y
<1>. DEFINE R == {ss \in Nat \X Nat : ss[1] < ss[2]}
<1>1. \E x \in T : \A y \in T : ~(<<y, x>> \in R)
  <2>1. IsWellFoundedOn(R, Nat)
    BY Below
  <2>. HIDE DEF R
  <2>. QED  BY <2>1, WFMin
<1>2. PICK x \in T : \A y \in T : ~(<<y, x>> \in R)
  BY <1>1
<1>3. \A y \in T : y \in Nat /\ x \in Nat /\ ~(y < x)
  BY <1>2
<1>. QED  BY <1>3

LEMMA Upward ==
    ASSUME NEW N \in Nat, NEW T, 0 \in T,
           \A n \in 0..(N - 1) : n \in T => n + 1 \in T
    PROVE  \A n \in 0..N : n \in T
<1>. DEFINE Bad == {n \in 0..N : n \notin T}
<1>1. SUFFICES ASSUME Bad # {}  PROVE FALSE
  OBVIOUS
<1>2. \E x \in Bad : \A y \in Bad : x <= y
  <2>1. Bad \subseteq Nat
    OBVIOUS
  <2>. HIDE DEF Bad
  <2>. QED  BY <1>1, <2>1, Least
<1>3. PICK x \in Bad : \A y \in Bad : x <= y
  BY <1>2
<1>4. x \in 0..N /\ x \notin T
  OBVIOUS
<1>5. x - 1 \in 0..(N - 1) /\ x - 1 \in 0..N /\ ~(x <= x - 1)
  BY <1>4
<1>6. x - 1 \in T
  BY <1>3, <1>5
<1>7. (x - 1) + 1 \in T
  BY <1>5, <1>6
<1>. QED  BY <1>4, <1>7

LEMMA StaysIn ==
    ASSUME NEW S, NEW N \in Nat, NEW f, f[0] \in S,
           \A n \in 1..N : f[n - 1] \in S => f[n] \in S
    PROVE  \A n \in 0..N : f[n] \in S
<1>. DEFINE T == {n \in 0..N : f[n] \in S}
<1>1. 0 \in T
  OBVIOUS
<1>2. ASSUME NEW n \in 0..(N - 1), n \in T  PROVE n + 1 \in T
  <2>1. n + 1 \in 1..N /\ n + 1 \in 0..N /\ (n + 1) - 1 = n
    OBVIOUS
  <2>. QED  BY <1>2, <2>1
<1>3. \A n \in 0..N : n \in T
  <2>. HIDE DEF T
  <2>. QED  BY <1>1, <1>2, Upward
<1>. QED  BY <1>3

LEMMA FoldExists ==
    ASSUME NEW S, NEW b \in S, NEW N \in Nat, NEW step \in [1..N -> [S -> S]]
    PROVE  \E f \in [0..N -> S] : f[0] = b /\ \A n \in 1..N : f[n] = step[n][f[n - 1]]
<1>. DEFINE Good(f, k) == f[0] = b /\ \A n \in 1..k : f[n] = step[n][f[n - 1]]
            T == {k \in 0..N : \E f \in [0..k -> S] : Good(f, k)}
<1>1. 0 \in T
  <2>. DEFINE f == [n \in 0..0 |-> b]
  <2>1. f \in [0..0 -> S] /\ f[0] = b
    OBVIOUS
  <2>2. \A n \in 1..0 : f[n] = step[n][f[n - 1]]
    OBVIOUS
  <2>. HIDE DEF f
  <2>. QED  BY <2>1, <2>2
<1>2. ASSUME NEW k \in 0..(N - 1), k \in T  PROVE k + 1 \in T
  <2>1. PICK f \in [0..k -> S] : Good(f, k)
    BY <1>2
  <2>. DEFINE g == [n \in 0..(k + 1) |-> IF n = k + 1 THEN step[n][f[k]] ELSE f[n]]
  <2>2. k + 1 \in 1..N /\ k + 1 \in 0..N /\ f[k] \in S
    OBVIOUS
  <2>3. step[k + 1][f[k]] \in S
    BY <2>2
  <2>4. g \in [0..(k + 1) -> S]
    <3>. SUFFICES ASSUME NEW n \in 0..(k + 1)
                  PROVE  (IF n = k + 1 THEN step[n][f[k]] ELSE f[n]) \in S
      OBVIOUS
    <3>. QED  BY <2>3
  <2>5. g[0] = b
    BY <2>1
  <2>6. ASSUME NEW n \in 1..(k + 1)  PROVE g[n] = step[n][g[n - 1]]
    <3>1. CASE n = k + 1
      <4>1. g[n] = step[n][f[k]] /\ n - 1 \in 0..(k + 1) /\ n - 1 # k + 1 /\ n - 1 = k
        BY <3>1
      <4>2. g[n - 1] = f[k]
        BY <4>1
      <4>. QED  BY <4>1, <4>2
    <3>2. CASE n # k + 1
      <4>1. n \in 1..k /\ n - 1 \in 0..(k + 1) /\ n - 1 # k + 1
        BY <3>2
      <4>2. g[n] = f[n] /\ g[n - 1] = f[n - 1]
        BY <4>1, <3>2
      <4>. QED  BY <4>1, <4>2, <2>1
    <3>. QED  BY <3>1, <3>2
  <2>. HIDE DEF g
  <2>7. Good(g, k + 1)
    BY <2>5, <2>6
  <2>. QED  BY <2>2, <2>4, <2>7
<1>3. \A k \in 0..N : k \in T
  <2>. HIDE DEF T
  <2>. QED  BY <1>1, <1>2, Upward
<1>. QED  BY <1>3
=============================================================================

--------------------------- MODULE DirectoryProofs ----------------------------
(* Proofs about the trie of module Directory, for any topics, any clients and  *)
(* any tries that calls can make.                                             *)
EXTENDS Directory, Induction, FiniteSetTheorems, SequenceTheorems

-----------------------------------------------------------------------------
(* What a pattern accepts, segment by segment *)

LEMMA SegmentsIs ==
    /\ WILDCARD \in Segments /\ DOUBLE_WILDCARD \in Segments /\ WILDCARD # DOUBLE_WILDCARD
    /\ WILDCARD \notin Words /\ DOUBLE_WILDCARD \notin Words /\ Words \subseteq Segments
    /\ \A s \in Segments : s \notin {WILDCARD, DOUBLE_WILDCARD} => s \in Words
    /\ \A s \in Segments : s \in Words <=> ~IsWildcard(s)
BY DirectoryAssumption DEF Segments, WILDCARD, DOUBLE_WILDCARD, IsWildcard

LEMMA RestIs ==
    ASSUME NEW p, NEW w, p \in Seq(Segments), w \in Seq(Words)
    PROVE  /\ Rest(p, w)[0] = {Len(w)}
           /\ \A n \in 0..Len(p) : Rest(p, w)[n] \subseteq 0..Len(w)
           /\ \A n \in 1..Len(p) :
                 Rest(p, w)[n] = Takes(p[Len(p) - n + 1], w, Rest(p, w)[n - 1])
<1>. DEFINE N == Len(p)
            S == SUBSET (0..Len(w))
            stop == {Len(w)}
            Next1(places, n) == Takes(p[N - n + 1], w, places)
            step == [n \in 1..N |-> [places \in S |-> Next1(places, n)]]
            Is(f) == f = [n \in 0..N |-> IF n = 0 THEN stop ELSE Next1(f[n - 1], n)]
            R == Rest(p, w)
<1>1. N \in Nat /\ stop \in S /\ Len(w) \in Nat
  OBVIOUS
<1>2. \A n \in 1..N : \A places \in S : Next1(places, n) \in S
  BY <1>1 DEF Takes
<1>3. R = CHOOSE f : Is(f)
  BY DEF Rest
<1>. HIDE DEF N, S, stop, Next1, R
<1>4. step \in [1..N -> [S -> S]]
  BY <1>2
<1>5. PICK f \in [0..N -> S] : f[0] = stop /\ \A n \in 1..N : f[n] = step[n][f[n - 1]]
  <2>1. N \in Nat /\ stop \in S /\ step \in [1..N -> [S -> S]]
    BY <1>1, <1>4
  <2>. HIDE DEF step
  <2>. QED  BY ONLY <2>1, FoldExists
<1>6. \A n \in 1..N : f[n] = Next1(f[n - 1], n)
  <2>1. \A n \in 1..N : n - 1 \in 0..N
    BY <1>1
  <2>. QED  BY <1>5, <2>1
<1>7. Is(f)
  BY <1>5, <1>6
<1>8. Is(R)
  <2>. HIDE DEF Is
  <2>. QED  BY <1>3, <1>7
<1>9. R[0] = stop /\ \A n \in 1..N : R[n] = Next1(R[n - 1], n)
  BY <1>1, <1>8
<1>10. \A n \in 0..N : R[n] \in S
  <2>1. R[0] \in S
    BY <1>1, <1>9
  <2>2. \A n \in 1..N : R[n - 1] \in S => R[n] \in S
    BY <1>2, <1>9
  <2>. QED  BY <1>1, <2>1, <2>2, StaysIn
<1>. QED  BY <1>9, <1>10 DEF N, S, stop, Next1, R

Paths == Seq(Segments)
Texts == Seq(Words)

LEMMA LengthIs ==
    /\ \A p \in Paths : Len(p) \in Nat
    /\ \A w \in Texts : Len(w) \in Nat
BY DEF Paths, Texts

(* The segments of p after the first i take the word w from place k to its end. *)
From(p, i, w, k) == k \in Rest(p, w)[Len(p) - i]

LEMMA FromIs ==
    ASSUME NEW p \in Paths, NEW w \in Texts, NEW i \in 0..Len(p)
    PROVE  /\ \A k : From(p, i, w, k) => k \in 0..Len(w)
           /\ i = Len(p) => \A k : From(p, i, w, k) <=> k = Len(w)
           /\ i < Len(p) /\ p[i + 1] = DOUBLE_WILDCARD =>
                 \A k : From(p, i, w, k) <=>
                           k \in 0..Len(w) /\ \E m \in 0..Len(w) : k <= m /\ From(p, i + 1, w, m)
           /\ i < Len(p) /\ p[i + 1] # DOUBLE_WILDCARD =>
                 \A k : From(p, i, w, k) <=>
                           /\ k \in 0..(Len(w) - 1) /\ From(p, i + 1, w, k + 1)
                           /\ p[i + 1] \in {WILDCARD, w[k + 1]}
<1>. DEFINE N == Len(p)
            R == Rest(p, w)
<1>1. N \in Nat /\ i \in 0..N /\ Len(w) \in Nat
  BY LengthIs
<1>2. /\ R[0] = {Len(w)}
      /\ \A n \in 0..N : R[n] \subseteq 0..Len(w)
      /\ \A n \in 1..N : R[n] = Takes(p[N - n + 1], w, R[n - 1])
  BY RestIs DEF Paths, Texts
<1>3. \A k : From(p, i, w, k) <=> k \in R[N - i]
  BY DEF From
<1>4. \A k : From(p, i + 1, w, k) <=> k \in R[N - (i + 1)]
  BY DEF From
<1>. HIDE DEF N, R
<1>5. \A k : From(p, i, w, k) => k \in 0..Len(w)
  <2>1. N - i \in 0..N
    BY <1>1
  <2>. QED  BY <1>2, <1>3, <2>1
<1>6. i = N => \A k : From(p, i, w, k) <=> k = Len(w)
  <2>1. i = N => N - i = 0
    BY <1>1
  <2>. QED  BY <1>2, <1>3, <2>1
<1>7. ASSUME i < N
      PROVE  R[N - i] = Takes(p[i + 1], w, R[N - (i + 1)])
             /\ R[N - (i + 1)] \subseteq 0..Len(w)
  <2>1. N - i \in 1..N /\ N - (N - i) + 1 = i + 1 /\ (N - i) - 1 = N - (i + 1)
        /\ N - (i + 1) \in 0..N
    BY <1>1, <1>7
  <2>. QED  BY <1>2, <2>1
<1>8. i < N /\ p[i + 1] = DOUBLE_WILDCARD =>
        \A k : From(p, i, w, k) <=>
                  k \in 0..Len(w) /\ \E m \in 0..Len(w) : k <= m /\ From(p, i + 1, w, m)
  BY <1>3, <1>4, <1>7 DEF Takes
<1>9. i < N /\ p[i + 1] # DOUBLE_WILDCARD =>
        \A k : From(p, i, w, k) <=>
                  /\ k \in 0..(Len(w) - 1) /\ From(p, i + 1, w, k + 1)
                  /\ p[i + 1] \in {WILDCARD, w[k + 1]}
  BY <1>3, <1>4, <1>7 DEF Takes
<1>. QED  BY <1>5, <1>6, <1>8, <1>9 DEF N

(* What follows a place of a word decides what takes it from there: a word may *)
(* get another beginning.                                                     *)
Follows(v, w, k) ==
    /\ Len(v) = 1 + (Len(w) - k)
    /\ \A m \in 0..(Len(w) - k) : m >= 1 => v[m + 1] = w[k + m]

LEMMA Prepended ==
    ASSUME NEW w \in Texts, NEW k \in 0..Len(w), NEW x \in Words
    PROVE  \E v \in Texts : Follows(v, w, k) /\ v[1] = x /\ Len(v) >= 1
<1>. DEFINE L == Len(w) - k
            v == [n \in 1..(1 + L) |-> IF n = 1 THEN x ELSE w[k + (n - 1)]]
<1>1. L \in Nat /\ Len(w) \in Nat
  BY LengthIs
<1>2. \A n \in 1..(1 + L) : v[n] \in Words
  <2>1. \A n \in 1..(1 + L) : n # 1 => k + (n - 1) \in 1..Len(w)
    BY <1>1
  <2>2. \A n \in 1..Len(w) : w[n] \in Words
    BY DEF Texts
  <2>. QED  BY <2>1, <2>2
<1>3. v \in Texts /\ Len(v) = 1 + L
  <2>. HIDE DEF L
  <2>2. v = [n \in 1..(1 + L) |-> v[n]] /\ 1 + L \in Nat
    BY <1>1
  <2>. HIDE DEF v
  <2>1. v \in [1..(1 + L) -> Words]
    BY <1>2, <2>2
  <2>. QED  BY <2>1, <2>2 DEF Texts
<1>4. v[1] = x
  BY <1>1
<1>5. \A m \in 0..L : m >= 1 => v[m + 1] = w[k + m]
  <2>1. \A m \in 0..L : m >= 1 => /\ m + 1 \in 1..(1 + L) /\ m + 1 # 1
                                   /\ k + ((m + 1) - 1) = k + m
    BY <1>1
  <2>. QED  BY <2>1
<1>6. Follows(v, w, k)
  BY <1>3, <1>5 DEF Follows
<1>7. Len(v) >= 1
  BY <1>1, <1>3
<1>. HIDE DEF v
<1>. QED  BY <1>3, <1>4, <1>6, <1>7

LEMMA SameFromThere ==
    ASSUME NEW p \in Paths, NEW w \in Texts, NEW v \in Texts,
           NEW k \in 0..Len(w), Follows(v, w, k), NEW i \in 0..Len(p)
    PROVE  From(p, i, w, k) <=> From(p, i, v, 1)
<1>. DEFINE N == Len(p)
            L == Len(w) - k
            Same(j) == \A m \in 0..L : From(p, j, w, k + m) <=> From(p, j, v, 1 + m)
            T == {n \in 0..N : Same(N - n)}
<1>1. N \in Nat /\ L \in Nat /\ Len(w) \in Nat /\ k \in Nat /\ k + L = Len(w) /\ Len(v) = 1 + L
  BY LengthIs DEF Follows
<1>2. 0 \in T
  <2>1. N \in 0..N /\ N - 0 = N
    BY <1>1
  <2>2. \A q : From(p, N, w, q) <=> q = Len(w)
    BY <2>1, FromIs
  <2>3. \A q : From(p, N, v, q) <=> q = Len(v)
    BY <2>1, FromIs
  <2>4. ASSUME NEW m \in 0..L
        PROVE  (k + m = Len(w)) <=> (1 + m = Len(v))
    <3>1. L \in Int /\ k \in Int /\ m \in Int /\ k + L = Len(w) /\ Len(v) = 1 + L
      BY <1>1
    <3>. HIDE DEF L
    <3>2. (k + m = k + L) <=> m = L
      BY ONLY <3>1
    <3>3. (1 + m = 1 + L) <=> m = L
      BY ONLY <3>1
    <3>. QED  BY ONLY <3>1, <3>2, <3>3
  <2>5. Same(N - 0)
    BY <2>1, <2>2, <2>3, <2>4
  <2>. QED  BY <1>1, <2>5
<1>3. ASSUME NEW n \in 0..(N - 1), n \in T  PROVE n + 1 \in T
  <2>. DEFINE j == N - (n + 1)
  <2>1. j \in 0..N /\ j < N /\ j + 1 = N - n /\ j + 1 \in 0..N /\ n + 1 \in 0..N
    BY <1>1
  <2>2. \A m \in 0..L : From(p, j + 1, w, k + m) <=> From(p, j + 1, v, 1 + m)
    BY <1>3, <2>1
  <2>. HIDE DEF j
  <2>3. CASE p[j + 1] = DOUBLE_WILDCARD
    <3>. SUFFICES ASSUME NEW m \in 0..L
                  PROVE  From(p, j, w, k + m) <=> From(p, j, v, 1 + m)
      BY <2>1 DEF j
    <3>1. From(p, j, w, k + m) <=>
            \E q \in 0..Len(w) : k + m <= q /\ From(p, j + 1, w, q)
      <4>1. k + m \in 0..Len(w)
        BY <1>1
      <4>. QED  BY <2>1, <2>3, <4>1, FromIs
    <3>2. From(p, j, v, 1 + m) <=>
            \E q \in 0..Len(v) : 1 + m <= q /\ From(p, j + 1, v, q)
      <4>1. 1 + m \in 0..Len(v)
        BY <1>1
      <4>. QED  BY <2>1, <2>3, <4>1, FromIs
    <3>3. ASSUME NEW q \in 0..Len(w), k + m <= q, From(p, j + 1, w, q)
          PROVE  \E r \in 0..Len(v) : 1 + m <= r /\ From(p, j + 1, v, r)
      <4>1. q - k \in 0..L /\ k + (q - k) = q /\ 1 + (q - k) \in 0..Len(v) /\ 1 + m <= 1 + (q - k)
        BY <1>1, <3>3
      <4>2. From(p, j + 1, v, 1 + (q - k))
        BY <2>2, <3>3, <4>1
      <4>. QED  BY <4>1, <4>2
    <3>4. ASSUME NEW q \in 0..Len(v), 1 + m <= q, From(p, j + 1, v, q)
          PROVE  \E r \in 0..Len(w) : k + m <= r /\ From(p, j + 1, w, r)
      <4>1. q - 1 \in 0..L /\ 1 + (q - 1) = q /\ k + (q - 1) \in 0..Len(w) /\ k + m <= k + (q - 1)
        BY <1>1, <3>4
      <4>2. From(p, j + 1, w, k + (q - 1))
        BY <2>2, <3>4, <4>1
      <4>. QED  BY <4>1, <4>2
    <3>. QED  BY <3>1, <3>2, <3>3, <3>4
  <2>4. CASE p[j + 1] # DOUBLE_WILDCARD
    <3>. SUFFICES ASSUME NEW m \in 0..L
                  PROVE  From(p, j, w, k + m) <=> From(p, j, v, 1 + m)
      BY <2>1 DEF j
    <3>1. From(p, j, w, k + m) <=>
            /\ k + m \in 0..(Len(w) - 1) /\ From(p, j + 1, w, (k + m) + 1)
            /\ p[j + 1] \in {WILDCARD, w[(k + m) + 1]}
      BY <2>1, <2>4, FromIs
    <3>2. From(p, j, v, 1 + m) <=>
            /\ 1 + m \in 0..(Len(v) - 1) /\ From(p, j + 1, v, (1 + m) + 1)
            /\ p[j + 1] \in {WILDCARD, v[(1 + m) + 1]}
      BY <2>1, <2>4, FromIs
    <3>3. k + m \in 0..(Len(w) - 1) <=> 1 + m \in 0..(Len(v) - 1)
      BY <1>1
    <3>4. ASSUME 1 + m \in 0..(Len(v) - 1)
          PROVE  /\ m + 1 \in 0..L /\ m + 1 >= 1
                 /\ (k + m) + 1 = k + (m + 1) /\ (1 + m) + 1 = 1 + (m + 1)
                 /\ (1 + m) + 1 = (m + 1) + 1
      BY <1>1, <3>4
    <3>5. ASSUME 1 + m \in 0..(Len(v) - 1)
          PROVE  v[(1 + m) + 1] = w[(k + m) + 1]
      <4>1. \A q \in 0..L : q >= 1 => v[q + 1] = w[k + q]
        BY DEF Follows
      <4>2. v[(m + 1) + 1] = w[k + (m + 1)]
        BY ONLY <3>4, <3>5, <4>1
      <4>. QED  BY ONLY <3>4, <3>5, <4>2
    <3>6. ASSUME 1 + m \in 0..(Len(v) - 1)
          PROVE  From(p, j + 1, w, (k + m) + 1) <=> From(p, j + 1, v, (1 + m) + 1)
      BY <2>2, <3>4, <3>6
    <3>. QED  BY <3>1, <3>2, <3>3, <3>5, <3>6
  <2>5. Same(N - (n + 1))
    BY <2>3, <2>4 DEF j
  <2>. QED  BY <2>1, <2>5
<1>4. \A n \in 0..N : n \in T
  <2>. HIDE DEF T
  <2>. QED  BY <1>1, <1>2, <1>3, Upward
<1>5. N - i \in 0..N /\ N - (N - i) = i /\ k + 0 = k /\ 1 + 0 = 1 /\ 0 \in 0..L
  BY <1>1
<1>6. Same(i)
  BY <1>4, <1>5
<1>. QED  BY <1>5, <1>6

-----------------------------------------------------------------------------
(* Some text is taken both by what follows i segments of s and by what follows *)
(* j segments of t.  The walk compares the two, one segment at a time.        *)
Common(s, i, t, j) ==
    \E w \in Texts : \E k \in 0..Len(w) : From(s, i, w, k) /\ From(t, j, w, k)

LEMMA CommonSwapped ==
    ASSUME NEW s, NEW t, NEW i, NEW j
    PROVE  Common(s, i, t, j) <=> Common(t, j, s, i)
BY DEF Common

LEMMA CommonAtEnds ==
    ASSUME NEW s \in Paths, NEW t \in Paths
    PROVE  Common(s, Len(s), t, Len(t))
<1>1. <<>> \in Texts /\ Len(<<>>) = 0
  BY DEF Texts
<1>2. Len(s) \in 0..Len(s) /\ Len(t) \in 0..Len(t) /\ 0 \in 0..0
  BY LengthIs
<1>3. From(s, Len(s), <<>>, 0) /\ From(t, Len(t), <<>>, 0)
  BY <1>1, <1>2, FromIs
<1>. QED  BY <1>1, <1>2, <1>3 DEF Common

LEMMA CommonAtOneEnd ==
    ASSUME NEW s \in Paths, NEW t \in Paths, NEW i \in 0..Len(s),
           i < Len(s), s[i + 1] # DOUBLE_WILDCARD
    PROVE  ~Common(s, i, t, Len(t))
<1>1. SUFFICES ASSUME NEW w \in Texts, NEW k \in 0..Len(w),
                      From(s, i, w, k), From(t, Len(t), w, k)
               PROVE  FALSE
  BY DEF Common
<1>2. k \in 0..(Len(w) - 1)
  BY <1>1, FromIs
<1>3. Len(t) \in 0..Len(t) /\ Len(w) \in Nat
  BY LengthIs
<1>4. k = Len(w)
  BY <1>1, <1>3, FromIs
<1>. QED  BY <1>2, <1>3, <1>4

(* A segment that is no "**" takes some word. *)
LEMMA SomeWord ==
    /\ Words # {}
    /\ \A a \in Segments : a # DOUBLE_WILDCARD => \E x \in Words : a \in {WILDCARD, x}
BY DirectoryAssumption, SegmentsIs

LEMMA SegmentAt ==
    ASSUME NEW p \in Paths, NEW i \in 0..Len(p), i < Len(p)
    PROVE  i + 1 \in 1..Len(p) /\ i + 1 \in 0..Len(p) /\ p[i + 1] \in Segments
<1>1. i + 1 \in 1..Len(p) /\ i + 1 \in 0..Len(p)
  BY LengthIs
<1>2. \A n \in 1..Len(p) : p[n] \in Segments
  BY DEF Paths
<1>. QED  BY <1>1, <1>2

LEMMA TakesOne ==
    ASSUME NEW p \in Paths, NEW i \in 0..Len(p), i < Len(p), p[i + 1] # DOUBLE_WILDCARD,
           NEW w \in Texts, NEW k \in 0..Len(w), From(p, i + 1, w, k),
           NEW v \in Texts, Follows(v, w, k), Len(v) >= 1, p[i + 1] \in {WILDCARD, v[1]}
    PROVE  From(p, i, v, 0)
<1>1. From(p, i + 1, v, 1)
  BY SegmentAt, SameFromThere
<1>2. 0 \in 0..(Len(v) - 1) /\ 0 + 1 = 1
  BY LengthIs
<1>. QED  BY <1>1, <1>2, FromIs

LEMMA CommonDouble ==
    ASSUME NEW s \in Paths, NEW t \in Paths, NEW i \in 0..Len(s), NEW j \in 0..Len(t),
           i < Len(s), s[i + 1] = DOUBLE_WILDCARD
    PROVE  Common(s, i, t, j) <=>
             Common(s, i + 1, t, j) \/ (j < Len(t) /\ Common(s, i, t, j + 1))
<1>1. \A w \in Texts : \A k : From(s, i, w, k) <=>
          k \in 0..Len(w) /\ \E m \in 0..Len(w) : k <= m /\ From(s, i + 1, w, m)
  BY FromIs
<1>2. ASSUME NEW w \in Texts, NEW k \in 0..Len(w), From(s, i, w, k), From(t, j, w, k)
      PROVE  Common(s, i + 1, t, j) \/ (j < Len(t) /\ Common(s, i, t, j + 1))
  <2>1. PICK m \in 0..Len(w) : k <= m /\ From(s, i + 1, w, m)
    BY <1>1, <1>2
  <2>2. CASE k = m
    BY <1>2, <2>1, <2>2 DEF Common
  <2>3. CASE k # m /\ j = Len(t)
    <3>1. k = Len(w)
      BY <1>2, <2>3, FromIs
    <3>. QED  BY <2>1, <2>3, <3>1, LengthIs
  <2>4. CASE k # m /\ j # Len(t) /\ t[j + 1] = DOUBLE_WILDCARD
    <3>1. j < Len(t)
      BY <2>4, LengthIs
    <3>2. PICK q \in 0..Len(w) : k <= q /\ From(t, j + 1, w, q)
      BY <1>2, <2>4, <3>1, FromIs
    <3>3. CASE q <= m
      <4>1. From(s, i, w, q)
        BY <1>1, <2>1, <3>3
      <4>. QED  BY <3>1, <3>2, <4>1 DEF Common
    <3>4. CASE ~(q <= m)
      <4>1. m <= q
        BY <3>4, LengthIs
      <4>2. From(t, j, w, m)
        BY <2>4, <3>1, <3>2, <4>1, FromIs
      <4>. QED  BY <2>1, <4>2 DEF Common
    <3>. QED  BY <3>3, <3>4
  <2>5. CASE k # m /\ j # Len(t) /\ t[j + 1] # DOUBLE_WILDCARD
    <3>1. j < Len(t)
      BY <2>5, LengthIs
    <3>2. k + 1 \in 0..Len(w) /\ k + 1 <= m
      BY <2>1, <2>5, LengthIs
    <3>3. From(t, j + 1, w, k + 1)
      BY <1>2, <2>5, <3>1, FromIs
    <3>4. From(s, i, w, k + 1)
      BY <1>1, <2>1, <3>2
    <3>. QED  BY <3>1, <3>2, <3>3, <3>4 DEF Common
  <2>. QED  BY <2>2, <2>3, <2>4, <2>5
<1>3. ASSUME Common(s, i + 1, t, j)  PROVE Common(s, i, t, j)
  <2>0. PICK w \in Texts : \E k \in 0..Len(w) : From(s, i + 1, w, k) /\ From(t, j, w, k)
    BY <1>3 DEF Common
  <2>1. PICK k \in 0..Len(w) : From(s, i + 1, w, k) /\ From(t, j, w, k)
    BY <2>0
  <2>2. From(s, i, w, k)
    BY <1>1, <2>1, LengthIs
  <2>. QED  BY <2>1, <2>2 DEF Common
<1>4. ASSUME j < Len(t), Common(s, i, t, j + 1)  PROVE Common(s, i, t, j)
  <2>0. PICK w \in Texts : \E k \in 0..Len(w) : From(s, i, w, k) /\ From(t, j + 1, w, k)
    BY <1>4 DEF Common
  <2>1. PICK k \in 0..Len(w) : From(s, i, w, k) /\ From(t, j + 1, w, k)
    BY <2>0
  <2>2. CASE t[j + 1] = DOUBLE_WILDCARD
    <3>1. From(t, j, w, k)
      <4>1. k <= k
        BY LengthIs
      <4>. QED  BY <1>4, <2>1, <2>2, <4>1, FromIs
    <3>. QED  BY <2>1, <3>1 DEF Common
  <2>3. CASE t[j + 1] # DOUBLE_WILDCARD
    <3>1. t[j + 1] \in Segments
      BY <1>4, SegmentAt
    <3>2. PICK x \in Words : t[j + 1] \in {WILDCARD, x}
      BY <2>3, <3>1, SomeWord
    <3>3. PICK v \in Texts : Follows(v, w, k) /\ v[1] = x /\ Len(v) >= 1
      BY Prepended
    <3>4. From(t, j, v, 0)
      BY <1>4, <2>1, <2>3, <3>2, <3>3, TakesOne
    <3>5. From(s, i, v, 1)
      BY <2>1, <3>3, SameFromThere
    <3>6. PICK m \in 0..Len(v) : 1 <= m /\ From(s, i + 1, v, m)
      BY <1>1, <3>5
    <3>7. 0 \in 0..Len(v) /\ 0 <= m
      BY LengthIs
    <3>8. From(s, i, v, 0)
      BY <1>1, <3>6, <3>7
    <3>. QED  BY <3>4, <3>7, <3>8 DEF Common
  <2>. QED  BY <2>2, <2>3
<1>5. Common(s, i, t, j) => Common(s, i + 1, t, j) \/ (j < Len(t) /\ Common(s, i, t, j + 1))
  BY <1>2 DEF Common
<1>. QED  BY <1>3, <1>4, <1>5

(* Two segments other than "**" that some word agrees with *)
Agree(a, b) == a = b \/ a = WILDCARD \/ b = WILDCARD

LEMMA CommonWords ==
    ASSUME NEW s \in Paths, NEW t \in Paths, NEW i \in 0..Len(s), NEW j \in 0..Len(t),
           i < Len(s), j < Len(t),
           s[i + 1] # DOUBLE_WILDCARD, t[j + 1] # DOUBLE_WILDCARD
    PROVE  Common(s, i, t, j) <=> Agree(s[i + 1], t[j + 1]) /\ Common(s, i + 1, t, j + 1)
<1>1. ASSUME NEW w \in Texts, NEW k \in 0..Len(w), From(s, i, w, k), From(t, j, w, k)
      PROVE  Agree(s[i + 1], t[j + 1]) /\ Common(s, i + 1, t, j + 1)
  <2>1. k \in 0..(Len(w) - 1) /\ From(s, i + 1, w, k + 1) /\ s[i + 1] \in {WILDCARD, w[k + 1]}
    BY <1>1, FromIs
  <2>2. From(t, j + 1, w, k + 1) /\ t[j + 1] \in {WILDCARD, w[k + 1]}
    BY <1>1, FromIs
  <2>3. k + 1 \in 0..Len(w)
    BY <2>1, LengthIs
  <2>. QED  BY <2>1, <2>2, <2>3 DEF Common, Agree
<1>2. ASSUME Agree(s[i + 1], t[j + 1]), Common(s, i + 1, t, j + 1)
      PROVE  Common(s, i, t, j)
  <2>0. PICK w \in Texts : \E k \in 0..Len(w) : From(s, i + 1, w, k) /\ From(t, j + 1, w, k)
    BY <1>2 DEF Common
  <2>1. PICK k \in 0..Len(w) : From(s, i + 1, w, k) /\ From(t, j + 1, w, k)
    BY <2>0
  <2>2. s[i + 1] \in Segments /\ t[j + 1] \in Segments
    BY SegmentAt
  <2>3. PICK x \in Words : s[i + 1] \in {WILDCARD, x} /\ t[j + 1] \in {WILDCARD, x}
    BY <1>2, <2>2, SomeWord DEF Agree
  <2>4. PICK v \in Texts : Follows(v, w, k) /\ v[1] = x /\ Len(v) >= 1
    BY Prepended
  <2>5. From(s, i, v, 0) /\ From(t, j, v, 0)
    BY <2>1, <2>3, <2>4, TakesOne
  <2>6. 0 \in 0..Len(v)
    BY LengthIs
  <2>. QED  BY <2>5, <2>6 DEF Common
<1>. QED  BY <1>1, <1>2 DEF Common

(* What is left of a text from a place on *)
LEMMA Cut ==
    ASSUME NEW w \in Texts, NEW k \in 0..Len(w)
    PROVE  \E u \in Texts : /\ Len(u) = Len(w) - k
                            /\ \A m \in 0..Len(u) : m >= 1 => u[m] = w[k + m]
<1>. DEFINE L == Len(w) - k
            u == [n \in 1..L |-> w[k + n]]
<1>1. L \in Nat /\ Len(w) \in Nat
  BY LengthIs
<1>2. \A n \in 1..L : w[k + n] \in Words
  <2>1. \A n \in 1..L : k + n \in 1..Len(w)
    BY <1>1
  <2>2. \A n \in 1..Len(w) : w[n] \in Words
    BY DEF Texts
  <2>. QED  BY <2>1, <2>2
<1>. HIDE DEF L
<1>3. u \in [1..L -> Words] /\ \A n \in 1..L : u[n] = w[k + n]
  BY <1>2
<1>. HIDE DEF u
<1>4. u \in Texts /\ Len(u) = L
  BY <1>1, <1>3 DEF Texts
<1>5. \A m \in 0..L : m >= 1 => m \in 1..L
  BY <1>1
<1>. QED  BY <1>3, <1>4, <1>5 DEF L

LEMMA CommonIs ==
    ASSUME NEW s \in Paths, NEW t \in Paths
    PROVE  Common(s, 0, t, 0) <=> \E w \in Texts : Accepts(s, w) /\ Accepts(t, w)
<1>1. \A p \in Paths : \A w \in Texts : Accepts(p, w) <=> From(p, 0, w, 0)
  <2>1. \A p \in Paths : Len(p) - 0 = Len(p)
    BY LengthIs
  <2>. QED  BY <2>1 DEF Accepts, From
<1>2. ASSUME NEW w \in Texts, Accepts(s, w), Accepts(t, w)  PROVE Common(s, 0, t, 0)
  <2>1. 0 \in 0..Len(w)
    BY LengthIs
  <2>. QED  BY <1>1, <1>2, <2>1 DEF Common
<1>3. ASSUME Common(s, 0, t, 0)  PROVE \E w \in Texts : Accepts(s, w) /\ Accepts(t, w)
  <2>1. PICK w \in Texts : \E k \in 0..Len(w) : From(s, 0, w, k) /\ From(t, 0, w, k)
    BY <1>3 DEF Common
  <2>2. PICK k \in 0..Len(w) : From(s, 0, w, k) /\ From(t, 0, w, k)
    BY <2>1
  <2>3. PICK u \in Texts : /\ Len(u) = Len(w) - k
                           /\ \A m \in 0..Len(u) : m >= 1 => u[m] = w[k + m]
    BY Cut
  <2>4. PICK x \in Words : TRUE
    BY SomeWord
  <2>5. PICK v \in Texts : Follows(v, w, k)
    BY Prepended
  <2>6. 0 \in 0..Len(u) /\ Len(u) - 0 = Len(u)
    BY LengthIs
  <2>7. Follows(v, u, 0)
    <3>1. Len(v) = 1 + (Len(u) - 0)
      BY <2>3, <2>5, <2>6 DEF Follows
    <3>2. ASSUME NEW m \in 0..(Len(u) - 0), m >= 1  PROVE v[m + 1] = u[0 + m]
      <4>1. m \in 0..(Len(w) - k) /\ m \in 0..Len(u) /\ 0 + m = m
        BY <2>3, <2>6
      <4>. QED  BY <2>3, <2>5, <3>2, <4>1 DEF Follows
    <3>. QED  BY <3>1, <3>2 DEF Follows
  <2>8. 0 \in 0..Len(s) /\ 0 \in 0..Len(t)
    BY LengthIs
  <2>9. From(s, 0, u, 0) /\ From(t, 0, u, 0)
    BY <2>2, <2>5, <2>6, <2>7, <2>8, SameFromThere
  <2>. QED  BY <1>1, <2>9
<1>. QED  BY <1>2, <1>3

(* A "**" of s takes any number of the segments of t. *)
LEMMA CommonSpan ==
    ASSUME NEW s \in Paths, NEW t \in Paths, NEW i \in 0..Len(s), NEW j \in 0..Len(t),
           i < Len(s), s[i + 1] = DOUBLE_WILDCARD
    PROVE  Common(s, i, t, j) <=> \E m \in j..Len(t) : Common(s, i + 1, t, m)
<1>. DEFINE N == Len(t)
            Spans(q) == Common(s, i, t, q) <=> \E m \in q..N : Common(s, i + 1, t, m)
            T == {n \in 0..N : Spans(N - n)}
<1>1. N \in Nat
  BY LengthIs
<1>2. \A q \in 0..N : Common(s, i, t, q) <=>
          Common(s, i + 1, t, q) \/ (q < N /\ Common(s, i, t, q + 1))
  BY CommonDouble
<1>. HIDE DEF N
<1>3. 0 \in T
  <2>1. N \in 0..N /\ ~(N < N) /\ N - 0 = N /\ N..N = {N}
    BY <1>1
  <2>. QED  BY <1>1, <1>2, <2>1
<1>4. ASSUME NEW n \in 0..(N - 1), n \in T  PROVE n + 1 \in T
  <2>. DEFINE q == N - (n + 1)
  <2>1. q \in 0..N /\ q < N /\ q + 1 = N - n /\ n + 1 \in 0..N
    BY <1>1
  <2>2. q..N = {q} \cup ((q + 1)..N)
    BY <1>1
  <2>3. Spans(q + 1)
    BY <1>4, <2>1
  <2>. HIDE DEF q
  <2>4. Spans(q)
    BY <1>2, <2>1, <2>2, <2>3
  <2>. QED  BY <2>1, <2>4 DEF q
<1>5. \A n \in 0..N : n \in T
  <2>. HIDE DEF T
  <2>. QED  BY <1>1, <1>3, <1>4, Upward
<1>6. N - j \in 0..N /\ N - (N - j) = j
  BY <1>1 DEF N
<1>7. Spans(j)
  BY <1>5, <1>6
<1>. QED  BY <1>7 DEF N

-----------------------------------------------------------------------------
(* The nodes of a trie *)

LEMMA RootIs == <<>> \in Paths /\ Len(<<>>) = 0
BY DEF Paths

LEMMA ChildIs ==
    ASSUME NEW node \in Paths, NEW g \in Segments
    PROVE  /\ Child(node, g) \in Paths /\ Len(Child(node, g)) = Len(node) + 1
           /\ Child(node, g)[Len(node) + 1] = g
           /\ \A i \in 1..Len(node) : Child(node, g)[i] = node[i]
BY DEF Child, Paths

LEMMA DownIs ==
    ASSUME NEW s \in Paths, NEW n \in 0..Len(s)
    PROVE  /\ Down(s, n) \in Paths /\ Len(Down(s, n)) = n
           /\ \A i \in 1..n : Down(s, n)[i] = s[i]
<1>1. Len(s) \in Nat /\ n \in Nat /\ n <= Len(s)
  BY LengthIs
<1>2. \A i \in 1..Len(s) : s[i] \in Segments
  BY DEF Paths
<1>3. CASE n = 0
  <2>1. Down(s, n) = <<>>
    BY <1>3, SubSeqEmpty DEF Down
  <2>. QED  BY <1>3, <2>1, RootIs
<1>4. CASE n # 0
  <2>1. \A i \in 1..n : s[i] \in Segments
    BY <1>1, <1>2
  <2>2. 1 \in Int /\ n \in Int /\ 1 <= n /\ n - 1 + 1 = n /\ \A i \in 1..n : 1 + i - 1 = i
    BY <1>1, <1>4
  <2>3. /\ SubSeq(s, 1, n) \in Seq(Segments)
        /\ Len(SubSeq(s, 1, n)) = IF 1 <= n THEN n - 1 + 1 ELSE 0
        /\ \A i \in 1..(n - 1 + 1) : SubSeq(s, 1, n)[i] = s[1 + i - 1]
    <3>1. 1 \in Int /\ n \in Int /\ \A i \in 1..n : s[i] \in Segments
      BY <2>1, <2>2
    <3>. QED  BY ONLY <3>1, SubSeqProperties
  <2>. QED  BY <2>2, <2>3 DEF Down, Paths
<1>. QED  BY <1>3, <1>4

LEMMA SamePath ==
    ASSUME NEW s \in Paths, NEW t \in Paths, Len(s) = Len(t),
           \A i \in 1..Len(s) : s[i] = t[i]
    PROVE  s = t
BY SeqEqual DEF Paths

(* node is on the way to s, or s itself *)
Under(node, s) ==
    Len(node) <= Len(s) /\ \A i \in 1..Len(node) : node[i] = s[i]

LEMMA UnderIsDown ==
    ASSUME NEW node \in Paths, NEW s \in Paths, Under(node, s)
    PROVE  node = Down(s, Len(node))
<1>1. Len(node) \in 0..Len(s)
  BY LengthIs DEF Under
<1>2. /\ Down(s, Len(node)) \in Paths /\ Len(Down(s, Len(node))) = Len(node)
      /\ \A i \in 1..Len(node) : Down(s, Len(node))[i] = s[i]
  BY <1>1, DownIs
<1>3. \A i \in 1..Len(node) : node[i] = Down(s, Len(node))[i]
  BY <1>2 DEF Under
<1>. QED  BY <1>2, <1>3, SamePath

LEMMA UnderRoot ==
    ASSUME NEW s \in Paths
    PROVE  Under(<<>>, s) /\ Under(s, s)
BY LengthIs, RootIs DEF Under

LEMMA UnderAll ==
    ASSUME NEW node \in Paths, NEW s \in Paths, Under(node, s), Len(node) = Len(s)
    PROVE  s = node
BY SamePath DEF Under

LEMMA UnderChild ==
    ASSUME NEW node \in Paths, NEW s \in Paths, NEW g \in Segments
    PROVE  Under(Child(node, g), s) <=>
             Under(node, s) /\ Len(node) < Len(s) /\ g = s[Len(node) + 1]
<1>. DEFINE i == Len(node)
            child == Child(node, g)
<1>1. i \in Nat /\ Len(s) \in Nat
  BY LengthIs
<1>2. /\ Len(child) = i + 1 /\ child[i + 1] = g
      /\ \A n \in 1..i : child[n] = node[n]
  BY ChildIs
<1>. HIDE DEF i, child
<1>3. \A n \in 1..(i + 1) : n \in 1..i \/ n = i + 1
  BY <1>1
<1>4. \A n \in 1..i : n \in 1..(i + 1)
  BY <1>1
<1>5. i + 1 \in 1..(i + 1)
  BY <1>1
<1>6. (i + 1 <= Len(s)) <=> (i <= Len(s) /\ i < Len(s))
  BY <1>1
<1>7. Under(child, s) <=> i + 1 <= Len(s) /\ \A n \in 1..(i + 1) : child[n] = s[n]
  BY <1>2 DEF Under
<1>8. Under(node, s) <=> i <= Len(s) /\ \A n \in 1..i : node[n] = s[n]
  BY DEF Under, i
<1>9. (\A n \in 1..(i + 1) : child[n] = s[n]) <=>
        (\A n \in 1..i : node[n] = s[n]) /\ g = s[i + 1]
  BY <1>2, <1>3, <1>4, <1>5
<1>10. Under(child, s) <=> Under(node, s) /\ i < Len(s) /\ g = s[i + 1]
  BY <1>6, <1>7, <1>8, <1>9
<1>. QED  BY <1>10 DEF i, child

(* Every node is reached from the root through nodes. *)
IsTree(trie) ==
    /\ DOMAIN trie \subseteq Paths
    /\ <<>> \in DOMAIN trie
    /\ \A node \in DOMAIN trie : \A n \in 0..Len(node) : Down(node, n) \in DOMAIN trie
    /\ \E depth \in Nat : \A node \in DOMAIN trie : Len(node) <= depth

LEMMA NodeBetween ==
    ASSUME NEW trie, IsTree(trie), NEW node \in DOMAIN trie, NEW s \in DOMAIN trie,
           Under(node, s), Len(node) < Len(s)
    PROVE  /\ s[Len(node) + 1] \in ChildSegments(trie, node)
           /\ Under(Child(node, s[Len(node) + 1]), s)
<1>1. node \in Paths /\ s \in Paths /\ Len(node) \in 0..Len(s)
  BY LengthIs DEF IsTree
<1>. DEFINE g == s[Len(node) + 1]
            child == Child(node, g)
<1>2. g \in Segments /\ Len(node) + 1 \in 0..Len(s)
  BY <1>1, SegmentAt
<1>3. Under(child, s) /\ child \in Paths /\ Len(child) = Len(node) + 1
  BY <1>1, <1>2, UnderChild, ChildIs
<1>. HIDE DEF g, child
<1>4. child = Down(s, Len(node) + 1)
  BY <1>1, <1>3, UnderIsDown
<1>5. child \in DOMAIN trie
  BY <1>2, <1>4 DEF IsTree
<1>. QED  BY <1>2, <1>3, <1>5 DEF ChildSegments, g, child

LEMMA ChildNode ==
    ASSUME NEW trie, IsTree(trie), NEW node \in DOMAIN trie,
           NEW g \in ChildSegments(trie, node)
    PROVE  /\ node \in Paths /\ g \in Segments /\ Child(node, g) \in DOMAIN trie
           /\ Len(Child(node, g)) = Len(node) + 1
BY ChildIs DEF ChildSegments, IsTree

-----------------------------------------------------------------------------
(* What the walk finds: the subscriptions under a node that have a text in     *)
(* common with what is left of the topic.  A "**" that is entered may take any *)
(* number of its segments first.                                              *)
Matching(s, t, node, taken, in_double_wildcard) ==
    IF in_double_wildcard THEN \E m \in taken..Len(t) : Common(s, Len(node), t, m)
    ELSE Common(s, Len(node), t, taken)

Hits(s, t, walk) ==
    Under(walk.node, s) /\ Matching(s, t, walk.node, walk.taken, walk.in_double_wildcard)

LEMMA HitsWalk ==
    ASSUME NEW s, NEW t, NEW node, NEW j
    PROVE  /\ Hits(s, t, Walk(node, j, FALSE)) <=> Under(node, s) /\ Common(s, Len(node), t, j)
           /\ Hits(s, t, Walk(node, j, TRUE)) <=>
                Under(node, s) /\ \E m \in j..Len(t) : Common(s, Len(node), t, m)
BY DEF Hits, Walk, Matching

LEMMA HitsChild ==
    ASSUME NEW s \in Paths, NEW t, NEW node \in Paths, NEW g \in Segments, NEW j
    PROVE  /\ Hits(s, t, Walk(Child(node, g), j, FALSE)) <=>
                /\ Under(node, s) /\ Len(node) < Len(s) /\ g = s[Len(node) + 1]
                /\ Common(s, Len(node) + 1, t, j)
           /\ Hits(s, t, Walk(Child(node, g), j, TRUE)) <=>
                /\ Under(node, s) /\ Len(node) < Len(s) /\ g = s[Len(node) + 1]
                /\ \E m \in j..Len(t) : Common(s, Len(node) + 1, t, m)
<1>1. Len(Child(node, g)) = Len(node) + 1
  BY ChildIs
<1>2. Under(Child(node, g), s) <=>
        Under(node, s) /\ Len(node) < Len(s) /\ g = s[Len(node) + 1]
  BY UnderChild
<1>. QED  BY <1>1, <1>2, HitsWalk

LEMMA HitsInDouble ==
    ASSUME NEW s \in Paths, NEW t \in Paths, NEW node \in Paths, NEW j \in 0..Len(t)
    PROVE  Hits(s, t, Walk(node, j, TRUE)) <=>
             \E y \in InDoubleWildcard(t, node, j) : Hits(s, t, y)
<1>1. (\E y \in InDoubleWildcard(t, node, j) : Hits(s, t, y)) <=>
        \/ Hits(s, t, Walk(node, j, FALSE))
        \/ j # Len(t) /\ Hits(s, t, Walk(node, j + 1, TRUE))
  BY DEF InDoubleWildcard
<1>2. j..Len(t) = {j} \cup (IF j = Len(t) THEN {} ELSE (j + 1)..Len(t))
  BY LengthIs
<1>. QED  BY <1>1, <1>2, HitsWalk

(* The segments that follow a node are those of its children. *)
LEMMA ThroughIs ==
    ASSUME NEW trie, IsTree(trie), NEW node \in DOMAIN trie, NEW s \in DOMAIN trie,
           NEW t, NEW j, NEW g \in Segments
    PROVE  /\ (\E y \in Through(trie, node, g, j, FALSE) : Hits(s, t, y)) <=>
                /\ Under(node, s) /\ Len(node) < Len(s) /\ g = s[Len(node) + 1]
                /\ Common(s, Len(node) + 1, t, j)
           /\ (\E y \in Through(trie, node, g, j, TRUE) : Hits(s, t, y)) <=>
                /\ Under(node, s) /\ Len(node) < Len(s) /\ g = s[Len(node) + 1]
                /\ \E m \in j..Len(t) : Common(s, Len(node) + 1, t, m)
<1>1. node \in Paths /\ s \in Paths
  BY DEF IsTree
<1>2. \A f \in BOOLEAN :
        (\E y \in Through(trie, node, g, j, f) : Hits(s, t, y)) <=>
          g \in ChildSegments(trie, node) /\ Hits(s, t, Walk(Child(node, g), j, f))
  BY DEF Through
<1>3. Under(node, s) /\ Len(node) < Len(s) /\ g = s[Len(node) + 1]
        => g \in ChildSegments(trie, node)
  BY NodeBetween
<1>. QED  BY <1>1, <1>2, <1>3, HitsChild

LEMMA HitsAtEnd ==
    ASSUME NEW trie, IsTree(trie), NEW node \in DOMAIN trie, NEW s \in DOMAIN trie,
           NEW t \in Paths
    PROVE  Hits(s, t, Walk(node, Len(t), FALSE)) <=>
             s = node \/ \E y \in AtEnd(trie, node, Len(t)) : Hits(s, t, y)
<1>. DEFINE i == Len(node)
<1>1. node \in Paths /\ s \in Paths /\ DOUBLE_WILDCARD \in Segments
  BY SegmentsIs DEF IsTree
<1>2. (\E y \in AtEnd(trie, node, Len(t)) : Hits(s, t, y)) <=>
        /\ Under(node, s) /\ i < Len(s) /\ DOUBLE_WILDCARD = s[i + 1]
        /\ \E m \in Len(t)..Len(t) : Common(s, i + 1, t, m)
  BY <1>1, ThroughIs DEF AtEnd
<1>3. Hits(s, t, Walk(node, Len(t), FALSE)) <=> Under(node, s) /\ Common(s, i, t, Len(t))
  BY HitsWalk
<1>4. CASE ~Under(node, s)
  <2>1. s # node
    BY <1>1, <1>4, UnderRoot
  <2>. QED  BY <1>2, <1>3, <1>4, <2>1
<1>5. CASE Under(node, s) /\ i = Len(s)
  <2>1. s = node
    BY <1>1, <1>5, UnderAll
  <2>2. Common(s, i, t, Len(t))
    BY <1>1, <1>5, CommonAtEnds
  <2>. QED  BY <1>3, <1>5, <2>1, <2>2
<1>6. CASE Under(node, s) /\ i # Len(s)
  <2>1. i \in 0..Len(s) /\ i < Len(s) /\ Len(t) \in 0..Len(t) /\ s # node
    BY <1>1, <1>6, LengthIs DEF Under
  <2>2. CASE s[i + 1] = DOUBLE_WILDCARD
    <3>1. Common(s, i, t, Len(t)) <=> \E m \in Len(t)..Len(t) : Common(s, i + 1, t, m)
      BY <1>1, <2>1, <2>2, CommonSpan
    <3>. QED  BY <1>2, <1>3, <1>6, <2>1, <2>2, <3>1
  <2>3. CASE s[i + 1] # DOUBLE_WILDCARD
    <3>1. ~Common(s, i, t, Len(t))
      BY <1>1, <2>1, <2>3, CommonAtOneEnd
    <3>. QED  BY <1>2, <1>3, <2>1, <2>3, <3>1
  <2>. QED  BY <2>2, <2>3
<1>. QED  BY <1>4, <1>5, <1>6

LEMMA HitsPublishedDouble ==
    ASSUME NEW trie, IsTree(trie), NEW node \in DOMAIN trie, NEW s \in DOMAIN trie,
           NEW t \in Paths, NEW j \in 0..Len(t), j < Len(t), t[j + 1] = DOUBLE_WILDCARD
    PROVE  Hits(s, t, Walk(node, j, FALSE)) <=>
             \E y \in PublishedDouble(trie, node, j) : Hits(s, t, y)
<1>. DEFINE i == Len(node)
            Through1 == Under(node, s) /\ i < Len(s) /\ Common(s, i + 1, t, j)
<1>1. node \in Paths /\ s \in Paths
  BY DEF IsTree
<1>2. (\E y \in PublishedDouble(trie, node, j) : Hits(s, t, y)) <=>
        \/ Hits(s, t, Walk(node, j + 1, FALSE))
        \/ \E g \in ChildSegments(trie, node) : Hits(s, t, Walk(Child(node, g), j, FALSE))
  BY DEF PublishedDouble
<1>3. (\E g \in ChildSegments(trie, node) : Hits(s, t, Walk(Child(node, g), j, FALSE)))
        <=> Through1
  <2>1. ASSUME NEW g \in ChildSegments(trie, node), Hits(s, t, Walk(Child(node, g), j, FALSE))
        PROVE  Through1
    BY <1>1, <2>1, ChildNode, HitsChild
  <2>2. ASSUME Through1
        PROVE  \E g \in ChildSegments(trie, node) : Hits(s, t, Walk(Child(node, g), j, FALSE))
    <3>. DEFINE g == s[i + 1]
    <3>1. g \in ChildSegments(trie, node)
      BY <2>2, NodeBetween
    <3>2. g \in Segments
      BY <3>1, ChildNode
    <3>3. Hits(s, t, Walk(Child(node, g), j, FALSE)) <=>
            Under(node, s) /\ i < Len(s) /\ g = s[i + 1] /\ Common(s, i + 1, t, j)
      BY <1>1, <3>2, HitsChild
    <3>. QED  BY <2>2, <3>1, <3>3
  <2>. QED  BY <2>1, <2>2
<1>4. /\ Hits(s, t, Walk(node, j, FALSE)) <=> Under(node, s) /\ Common(s, i, t, j)
      /\ Hits(s, t, Walk(node, j + 1, FALSE)) <=> Under(node, s) /\ Common(s, i, t, j + 1)
  BY HitsWalk
<1>5. ASSUME Under(node, s)
      PROVE  Common(s, i, t, j) <=> Common(s, i, t, j + 1) \/ (i < Len(s) /\ Common(s, i + 1, t, j))
  <2>1. i \in 0..Len(s)
    BY <1>1, <1>5, LengthIs DEF Under
  <2>2. Common(t, j, s, i) <=>
          Common(t, j + 1, s, i) \/ (i < Len(s) /\ Common(t, j, s, i + 1))
    BY <1>1, <2>1, CommonDouble
  <2>. QED  BY <2>2, CommonSwapped
<1>. QED  BY <1>2, <1>3, <1>4, <1>5

LEMMA HitsPublishedSingle ==
    ASSUME NEW trie, IsTree(trie), NEW node \in DOMAIN trie, NEW s \in DOMAIN trie,
           NEW t \in Paths, NEW j \in 0..Len(t), j < Len(t), t[j + 1] = WILDCARD
    PROVE  Hits(s, t, Walk(node, j, FALSE)) <=>
             \E y \in PublishedSingle(trie, node, j) : Hits(s, t, y)
<1>. DEFINE i == Len(node)
            For(g) == IF g = DOUBLE_WILDCARD THEN Hits(s, t, Walk(Child(node, g), j, TRUE))
                      ELSE Hits(s, t, Walk(Child(node, g), j + 1, FALSE))
<1>1. node \in Paths /\ s \in Paths /\ WILDCARD # DOUBLE_WILDCARD
  BY SegmentsIs DEF IsTree
<1>2. (\E y \in PublishedSingle(trie, node, j) : Hits(s, t, y)) <=>
        \E g \in ChildSegments(trie, node) : For(g)
  BY DEF PublishedSingle
<1>3. Hits(s, t, Walk(node, j, FALSE)) <=> Under(node, s) /\ Common(s, i, t, j)
  BY HitsWalk
<1>4. ASSUME NEW g \in ChildSegments(trie, node)
      PROVE  For(g) <=> /\ Under(node, s) /\ i < Len(s) /\ g = s[i + 1]
                        /\ IF g = DOUBLE_WILDCARD
                           THEN \E m \in j..Len(t) : Common(s, i + 1, t, m)
                           ELSE Common(s, i + 1, t, j + 1)
  <2>1. g \in Segments
    BY ChildNode
  <2>2. Hits(s, t, Walk(Child(node, g), j, TRUE)) <=>
          /\ Under(node, s) /\ i < Len(s) /\ g = s[i + 1]
          /\ \E m \in j..Len(t) : Common(s, i + 1, t, m)
    BY <1>1, <2>1, HitsChild
  <2>3. Hits(s, t, Walk(Child(node, g), j + 1, FALSE)) <=>
          /\ Under(node, s) /\ i < Len(s) /\ g = s[i + 1]
          /\ Common(s, i + 1, t, j + 1)
    BY <1>1, <2>1, HitsChild
  <2>. QED  BY <2>2, <2>3
<1>. HIDE DEF For
<1>5. CASE ~Under(node, s)
  BY <1>2, <1>3, <1>4, <1>5
<1>6. CASE Under(node, s) /\ i = Len(s)
  <2>1. ~Common(t, j, s, Len(s))
    BY <1>1, CommonAtOneEnd
  <2>2. ~(i < Len(s))
    BY <1>1, <1>6, LengthIs
  <2>. QED  BY <1>2, <1>3, <1>4, <1>6, <2>1, <2>2, CommonSwapped
<1>7. CASE Under(node, s) /\ i # Len(s)
  <2>1. i \in 0..Len(s) /\ i < Len(s)
    BY <1>1, <1>7, LengthIs DEF Under
  <2>. DEFINE h == s[i + 1]
  <2>2. h \in ChildSegments(trie, node)
    BY <1>7, <2>1, NodeBetween
  <2>3. (\E g \in ChildSegments(trie, node) : For(g)) <=> For(h)
    BY <1>4, <2>2
  <2>4. CASE h = DOUBLE_WILDCARD
    <3>1. Common(s, i, t, j) <=> \E m \in j..Len(t) : Common(s, i + 1, t, m)
      BY <1>1, <2>1, <2>4, CommonSpan
    <3>. QED  BY <1>2, <1>3, <1>4, <1>7, <2>1, <2>2, <2>3, <2>4, <3>1
  <2>5. CASE h # DOUBLE_WILDCARD
    <3>1. Common(s, i, t, j) <=> Agree(h, t[j + 1]) /\ Common(s, i + 1, t, j + 1)
      BY <1>1, <2>1, <2>5, CommonWords
    <3>2. Agree(h, t[j + 1])
      BY DEF Agree
    <3>. QED  BY <1>2, <1>3, <1>4, <1>7, <2>1, <2>2, <2>3, <2>5, <3>1, <3>2
  <2>. QED  BY <2>4, <2>5
<1>. QED  BY <1>5, <1>6, <1>7

LEMMA HitsPublishedWord ==
    ASSUME NEW trie, IsTree(trie), NEW node \in DOMAIN trie, NEW s \in DOMAIN trie,
           NEW t \in Paths, NEW j \in 0..Len(t), j < Len(t),
           t[j + 1] # WILDCARD, t[j + 1] # DOUBLE_WILDCARD
    PROVE  Hits(s, t, Walk(node, j, FALSE)) <=>
             \E y \in PublishedWord(trie, node, t[j + 1], j) : Hits(s, t, y)
<1>. DEFINE i == Len(node)
            x == t[j + 1]
            There(g) == Under(node, s) /\ i < Len(s) /\ g = s[i + 1]
<1>1. node \in Paths /\ s \in Paths /\ x \in Segments
      /\ WILDCARD \in Segments /\ DOUBLE_WILDCARD \in Segments /\ WILDCARD # DOUBLE_WILDCARD
  BY SegmentAt, SegmentsIs DEF IsTree
<1>2. (\E y \in PublishedWord(trie, node, x, j) : Hits(s, t, y)) <=>
        \/ \E y \in Through(trie, node, x, j + 1, FALSE) : Hits(s, t, y)
        \/ \E y \in Through(trie, node, WILDCARD, j + 1, FALSE) : Hits(s, t, y)
        \/ \E y \in Through(trie, node, DOUBLE_WILDCARD, j, TRUE) : Hits(s, t, y)
  BY DEF PublishedWord
<1>3. (\E y \in Through(trie, node, x, j + 1, FALSE) : Hits(s, t, y))
        <=> There(x) /\ Common(s, i + 1, t, j + 1)
  <2>. HIDE DEF x
  <2>. QED  BY <1>1, ThroughIs
<1>4. (\E y \in Through(trie, node, WILDCARD, j + 1, FALSE) : Hits(s, t, y))
        <=> There(WILDCARD) /\ Common(s, i + 1, t, j + 1)
  BY <1>1, ThroughIs
<1>5. (\E y \in Through(trie, node, DOUBLE_WILDCARD, j, TRUE) : Hits(s, t, y))
        <=> There(DOUBLE_WILDCARD) /\ \E m \in j..Len(t) : Common(s, i + 1, t, m)
  BY <1>1, ThroughIs
<1>6. Hits(s, t, Walk(node, j, FALSE)) <=> Under(node, s) /\ Common(s, i, t, j)
  BY HitsWalk
<1>7. CASE ~Under(node, s)
  BY <1>2, <1>3, <1>4, <1>5, <1>6, <1>7
<1>8. CASE Under(node, s) /\ i = Len(s)
  <2>1. ~Common(t, j, s, Len(s))
    BY <1>1, CommonAtOneEnd
  <2>2. ~(i < Len(s))
    BY <1>1, <1>8, LengthIs
  <2>. QED  BY <1>2, <1>3, <1>4, <1>5, <1>6, <1>8, <2>1, <2>2, CommonSwapped
<1>9. CASE Under(node, s) /\ i # Len(s)
  <2>1. i \in 0..Len(s) /\ i < Len(s)
    BY <1>1, <1>9, LengthIs DEF Under
  <2>2. CASE s[i + 1] = DOUBLE_WILDCARD
    <3>1. Common(s, i, t, j) <=> \E m \in j..Len(t) : Common(s, i + 1, t, m)
      BY <1>1, <2>1, <2>2, CommonSpan
    <3>. QED  BY <1>1, <1>2, <1>3, <1>4, <1>5, <1>6, <1>9, <2>1, <2>2, <3>1
  <2>3. CASE s[i + 1] # DOUBLE_WILDCARD
    <3>1. Common(s, i, t, j) <=> Agree(s[i + 1], x) /\ Common(s, i + 1, t, j + 1)
      BY <1>1, <2>1, <2>3, CommonWords
    <3>2. Agree(s[i + 1], x) <=> x = s[i + 1] \/ WILDCARD = s[i + 1]
      BY DEF Agree
    <3>. QED  BY <1>1, <1>2, <1>3, <1>4, <1>5, <1>6, <1>9, <2>1, <2>3, <3>1, <3>2
  <2>. QED  BY <2>2, <2>3
<1>. QED  BY <1>7, <1>8, <1>9

(* The calls of the walk, and the subscribers it reaches at once, are what it finds. *)
AtOnce(s, t, x) == s = x.node /\ x.taken = Len(t) /\ ~x.in_double_wildcard

LEMMA HitsStep ==
    ASSUME NEW trie, IsTree(trie), NEW t \in Paths, NEW x \in Walks(trie, t),
           NEW s \in DOMAIN trie
    PROVE  Hits(s, t, x) <=> AtOnce(s, t, x) \/ \E y \in Calls(trie, t, x) : Hits(s, t, y)
<1>. DEFINE node == x.node
            j == x.taken
<1>1. /\ node \in DOMAIN trie /\ node \in Paths /\ s \in Paths /\ j \in 0..Len(t)
      /\ x.in_double_wildcard \in BOOLEAN
  BY DEF Walks, IsTree
<1>2. x = Walk(node, j, x.in_double_wildcard)
  BY DEF Walks, Walk
<1>3. CASE x.in_double_wildcard
  <2>1. x = Walk(node, j, TRUE) /\ Calls(trie, t, x) = InDoubleWildcard(t, node, j)
        /\ ~AtOnce(s, t, x)
    BY <1>1, <1>2, <1>3 DEF Calls, AtOnce
  <2>. HIDE DEF node, j
  <2>. QED  BY <1>1, <2>1, HitsInDouble
<1>4. CASE ~x.in_double_wildcard /\ j = Len(t)
  <2>1. x = Walk(node, Len(t), FALSE) /\ Calls(trie, t, x) = AtEnd(trie, node, Len(t))
        /\ (AtOnce(s, t, x) <=> s = node)
    BY <1>1, <1>2, <1>4 DEF Calls, AtOnce
  <2>. HIDE DEF node, j
  <2>. QED  BY <1>1, <2>1, HitsAtEnd
<1>5. CASE ~x.in_double_wildcard /\ j # Len(t)
  <2>1. x = Walk(node, j, FALSE) /\ ~AtOnce(s, t, x) /\ j < Len(t)
    <3>1. x.in_double_wildcard = FALSE
      BY <1>1, <1>5
    <3>2. ~AtOnce(s, t, x)
      BY <1>5 DEF AtOnce
    <3>3. j < Len(t)
      <4>1. Len(t) \in Nat /\ j \in 0..Len(t) /\ j # Len(t)
        BY <1>1, <1>5, LengthIs
      <4>. HIDE DEF j
      <4>. QED  BY ONLY <4>1
    <3>. QED  BY <1>2, <3>1, <3>2, <3>3
  <2>2. CASE t[j + 1] = DOUBLE_WILDCARD
    <3>1. Calls(trie, t, x) = PublishedDouble(trie, node, j)
      BY <1>5, <2>2 DEF Calls
    <3>. HIDE DEF node, j
    <3>. QED  BY <1>1, <2>1, <2>2, <3>1, HitsPublishedDouble
  <2>3. CASE t[j + 1] = WILDCARD
    <3>1. Calls(trie, t, x) = PublishedSingle(trie, node, j)
      BY <1>5, <2>3, SegmentsIs DEF Calls
    <3>. HIDE DEF node, j
    <3>. QED  BY <1>1, <2>1, <2>3, <3>1, HitsPublishedSingle
  <2>4. CASE t[j + 1] # DOUBLE_WILDCARD /\ t[j + 1] # WILDCARD
    <3>1. Calls(trie, t, x) = PublishedWord(trie, node, t[j + 1], j)
      BY <1>5, <2>4 DEF Calls
    <3>. HIDE DEF node, j
    <3>. QED  BY <1>1, <2>1, <2>4, <3>1, HitsPublishedWord
  <2>. QED  BY <2>2, <2>3, <2>4
<1>. QED  BY <1>3, <1>4, <1>5

-----------------------------------------------------------------------------
(* The walk ends, and what it returns is what its calls find. *)

Found(trie, t, x) == UNION {trie[s].subscribers : s \in {s \in DOMAIN trie : Hits(s, t, x)}}

LEMMA FoundStep ==
    ASSUME NEW trie, IsTree(trie), NEW t \in Paths, NEW x \in Walks(trie, t)
    PROVE  Found(trie, t, x) =
             Here(trie, t, x) \cup UNION {Found(trie, t, y) : y \in Calls(trie, t, x)}
<1>1. ASSUME NEW c, c \in Found(trie, t, x)
      PROVE  c \in Here(trie, t, x) \cup UNION {Found(trie, t, y) : y \in Calls(trie, t, x)}
  <2>1. PICK s \in DOMAIN trie : Hits(s, t, x) /\ c \in trie[s].subscribers
    BY <1>1 DEF Found
  <2>2. CASE AtOnce(s, t, x)
    BY <2>1, <2>2 DEF AtOnce, Here
  <2>3. CASE \E y \in Calls(trie, t, x) : Hits(s, t, y)
    BY <2>1, <2>3 DEF Found
  <2>. QED  BY <2>1, <2>2, <2>3, HitsStep
<1>2. ASSUME NEW c, c \in Here(trie, t, x)  PROVE c \in Found(trie, t, x)
  <2>1. x.node \in DOMAIN trie /\ AtOnce(x.node, t, x) /\ c \in trie[x.node].subscribers
    BY <1>2 DEF Here, AtOnce, Walks
  <2>2. Hits(x.node, t, x)
    BY <2>1, HitsStep
  <2>. QED  BY <2>1, <2>2 DEF Found
<1>3. ASSUME NEW y \in Calls(trie, t, x), NEW c \in Found(trie, t, y)
      PROVE  c \in Found(trie, t, x)
  <2>1. PICK s \in DOMAIN trie : Hits(s, t, y) /\ c \in trie[s].subscribers
    BY <1>3 DEF Found
  <2>2. Hits(s, t, x)
    BY <2>1, HitsStep
  <2>. QED  BY <2>1, <2>2 DEF Found
<1>. QED  BY <1>1, <1>2, <1>3

(* Every call is for a node further down, for less of the topic, or for a "**" *)
(* that stops.                                                                *)
CalledAs(trie, t, x, y) ==
    \/ x.in_double_wildcard /\ y = Walk(x.node, x.taken, FALSE)
    \/ x.taken < Len(t) /\ y = Walk(x.node, x.taken + 1, x.in_double_wildcard)
    \/ \E g \in ChildSegments(trie, x.node) : \E f \in BOOLEAN :
          ~x.in_double_wildcard /\ y = Walk(Child(x.node, g), x.taken, f)
    \/ \E g \in ChildSegments(trie, x.node) :
          /\ ~x.in_double_wildcard /\ x.taken < Len(t)
          /\ y = Walk(Child(x.node, g), x.taken + 1, FALSE)

LEMMA CallsAre ==
    ASSUME NEW trie, NEW t \in Paths, NEW x \in Walks(trie, t), NEW y \in Calls(trie, t, x)
    PROVE  CalledAs(trie, t, x, y)
<1>. DEFINE node == x.node
            j == x.taken
<1>1. x.in_double_wildcard \in BOOLEAN /\ j \in 0..Len(t) /\ Len(t) \in Nat
  BY LengthIs DEF Walks
<1>2. j # Len(t) => j < Len(t)
  <2>. HIDE DEF j
  <2>. QED  BY ONLY <1>1
<1>3. CASE x.in_double_wildcard
  BY <1>1, <1>2, <1>3 DEF Calls, InDoubleWildcard, CalledAs
<1>4. CASE ~x.in_double_wildcard /\ j = Len(t)
  <2>1. y \in AtEnd(trie, node, j)
    BY <1>4 DEF Calls
  <2>. QED  BY <1>4, <2>1 DEF AtEnd, Through, CalledAs
<1>5. CASE ~x.in_double_wildcard /\ j # Len(t)
  <2>1. CASE t[j + 1] = DOUBLE_WILDCARD
    <3>1. y \in PublishedDouble(trie, node, j)
      BY <1>5, <2>1 DEF Calls
    <3>2. x.in_double_wildcard = FALSE
      BY <1>1, <1>5
    <3>. QED  BY <1>2, <1>5, <3>1, <3>2 DEF PublishedDouble, CalledAs
  <2>2. CASE t[j + 1] # DOUBLE_WILDCARD /\ t[j + 1] = WILDCARD
    <3>1. y \in PublishedSingle(trie, node, j)
      BY <1>5, <2>2 DEF Calls
    <3>. QED  BY <1>2, <1>5, <3>1 DEF PublishedSingle, CalledAs
  <2>3. CASE t[j + 1] # DOUBLE_WILDCARD /\ t[j + 1] # WILDCARD
    <3>1. y \in PublishedWord(trie, node, t[j + 1], j)
      BY <1>5, <2>3 DEF Calls
    <3>. QED  BY <1>2, <1>5, <3>1 DEF PublishedWord, Through, CalledAs
  <2>. QED  BY <2>1, <2>2, <2>3
<1>. QED  BY <1>3, <1>4, <1>5

Left(depth, t, x) ==
    2 * (depth - Len(x.node)) + 2 * (Len(t) - x.taken)
      + (IF x.in_double_wildcard THEN 1 ELSE 0)

LEMMA CallsEnd ==
    ASSUME NEW trie, IsTree(trie), NEW t \in Paths, NEW x \in Walks(trie, t),
           NEW depth \in Nat, \A node \in DOMAIN trie : Len(node) <= depth
    PROVE  /\ Left(depth, t, x) \in 0..(2 * depth + 2 * Len(t) + 1)
           /\ \A y \in Calls(trie, t, x) :
                 y \in Walks(trie, t) /\ Left(depth, t, y) < Left(depth, t, x)
<1>1. \A node \in DOMAIN trie : Len(node) \in Nat /\ Len(node) <= depth
  BY LengthIs DEF IsTree
<1>2. \A node \in DOMAIN trie : \A j \in 0..Len(t) : \A f \in BOOLEAN :
        /\ Walk(node, j, f) \in Walks(trie, t)
        /\ Left(depth, t, Walk(node, j, f)) =
             2 * (depth - Len(node)) + 2 * (Len(t) - j) + (IF f THEN 1 ELSE 0)
  BY DEF Walk, Walks, Left
<1>. DEFINE node == x.node
            j == x.taken
            f == x.in_double_wildcard
            n == Len(node)
            L == Len(t)
<1>3. node \in DOMAIN trie /\ j \in 0..L /\ f \in BOOLEAN /\ x = Walk(node, j, f)
      /\ n \in Nat /\ n <= depth /\ L \in Nat
  BY <1>1, LengthIs DEF Walks, Walk
<1>4. Left(depth, t, x) = 2 * (depth - n) + 2 * (L - j) + (IF f THEN 1 ELSE 0)
  BY DEF Left
<1>5. ASSUME NEW g \in ChildSegments(trie, node)
      PROVE  Child(node, g) \in DOMAIN trie /\ Len(Child(node, g)) = n + 1 /\ n + 1 <= depth
  BY <1>1, <1>3, ChildNode
<1>6. ASSUME NEW y \in Calls(trie, t, x)
      PROVE  y \in Walks(trie, t) /\ Left(depth, t, y) < Left(depth, t, x)
  <2>0. \/ f /\ y = Walk(node, j, FALSE)
        \/ j < L /\ y = Walk(node, j + 1, f)
        \/ \E g \in ChildSegments(trie, node) : \E b \in BOOLEAN :
              ~f /\ y = Walk(Child(node, g), j, b)
        \/ \E g \in ChildSegments(trie, node) :
              ~f /\ j < L /\ y = Walk(Child(node, g), j + 1, FALSE)
    <3>1. CalledAs(trie, t, x, y)
      BY CallsAre
    <3>. QED  BY ONLY <3>1 DEF CalledAs
  <2>. HIDE DEF node, j, f, n, L
  <2>1. CASE f /\ y = Walk(node, j, FALSE)
    <3>1. y \in Walks(trie, t) /\ Left(depth, t, y) = 2 * (depth - n) + 2 * (L - j) + 0
      BY <1>2, <1>3, <2>1 DEF n, L
    <3>2. Left(depth, t, x) = 2 * (depth - n) + 2 * (L - j) + 1
      BY ONLY <1>4, <2>1
    <3>. QED  BY ONLY <1>3, <3>1, <3>2
  <2>2. CASE j < L /\ y = Walk(node, j + 1, f)
    <3>1. j + 1 \in 0..L
      BY ONLY <1>3, <2>2
    <3>. QED  BY <1>2, <1>3, <1>4, <2>2, <3>1 DEF n, L
  <2>3. ASSUME NEW g \in ChildSegments(trie, node), NEW b \in BOOLEAN,
               ~f, y = Walk(Child(node, g), j, b)
        PROVE  y \in Walks(trie, t) /\ Left(depth, t, y) < Left(depth, t, x)
    BY <1>2, <1>3, <1>4, <1>5, <2>3 DEF n, L
  <2>4. ASSUME NEW g \in ChildSegments(trie, node),
               ~f, j < L, y = Walk(Child(node, g), j + 1, FALSE)
        PROVE  y \in Walks(trie, t) /\ Left(depth, t, y) < Left(depth, t, x)
    <3>1. j + 1 \in 0..L
      BY ONLY <1>3, <2>4
    <3>2. Child(node, g) \in DOMAIN trie /\ Len(Child(node, g)) = n + 1 /\ n + 1 <= depth
      BY <1>5
    <3>3. /\ y \in Walks(trie, t)
          /\ Left(depth, t, y) = 2 * (depth - (n + 1)) + 2 * (L - (j + 1)) + 0
      BY <1>2, <2>4, <3>1, <3>2 DEF L
    <3>4. Left(depth, t, x) = 2 * (depth - n) + 2 * (L - j) + 0
      BY ONLY <1>4, <2>4
    <3>5. depth \in Int
      OBVIOUS
    <3>. QED  BY ONLY <1>3, <3>1, <3>2, <3>3, <3>4, <3>5
  <2>. QED  BY <2>0, <2>1, <2>2, <2>3, <2>4
<1>7. Left(depth, t, x) \in 0..(2 * depth + 2 * Len(t) + 1)
  <2>. HIDE DEF node, j, f, n
  <2>. QED  BY ONLY <1>3, <1>4
<1>. QED  BY <1>6, <1>7

LEMMA GetSubscribersFromStep ==
    ASSUME NEW trie, IsTree(trie), NEW t \in Paths, NEW x \in Walks(trie, t)
    PROVE  GetSubscribersFrom(trie, t)[x] =
             Here(trie, t, x)
               \cup UNION {GetSubscribersFrom(trie, t)[y] : y \in Calls(trie, t, x)}
<1>. DEFINE W == Walks(trie, t)
            Is(g) == g = [w \in W |-> Here(trie, t, w) \cup UNION {g[y] : y \in Calls(trie, t, w)}]
            G == [w \in W |-> Found(trie, t, w)]
            R == GetSubscribersFrom(trie, t)
<1>1. R = CHOOSE g : Is(g)
  BY DEF GetSubscribersFrom
<1>2. \A w \in W : \A y \in Calls(trie, t, w) : y \in W
  <2>1. PICK depth \in Nat : \A node \in DOMAIN trie : Len(node) <= depth
    BY DEF IsTree
  <2>. QED  BY <2>1, CallsEnd
<1>3. ASSUME NEW w \in W
      PROVE  Found(trie, t, w) = Here(trie, t, w) \cup UNION {G[y] : y \in Calls(trie, t, w)}
  <2>1. \A y \in Calls(trie, t, w) : G[y] = Found(trie, t, y)
    BY <1>2
  <2>2. Found(trie, t, w) =
          Here(trie, t, w) \cup UNION {Found(trie, t, y) : y \in Calls(trie, t, w)}
    BY FoundStep
  <2>. HIDE DEF G
  <2>. QED  BY <2>1, <2>2
<1>4. Is(G)
  BY <1>3
<1>. HIDE DEF R, W
<1>5. Is(R)
  <2>. HIDE DEF Is, G
  <2>. QED  BY <1>1, <1>4
<1>6. x \in W
  BY DEF W
<1>7. R[x] = Here(trie, t, x) \cup UNION {R[y] : y \in Calls(trie, t, x)}
  BY <1>5, <1>6
<1>. QED  BY <1>7 DEF R

(* get_subscribers, for any trie and any topic *)
LEMMA GetSubscribersFromIs ==
    ASSUME NEW trie, IsTree(trie), NEW t \in Paths, NEW x \in Walks(trie, t)
    PROVE  GetSubscribersFrom(trie, t)[x] = Found(trie, t, x)
<1>. DEFINE W == Walks(trie, t)
            R == GetSubscribersFrom(trie, t)
<1>1. PICK depth \in Nat : \A node \in DOMAIN trie : Len(node) <= depth
  BY DEF IsTree
<1>. DEFINE M == 2 * depth + 2 * Len(t) + 2
            T == {n \in 0..M : \A w \in W : Left(depth, t, w) < n => R[w] = Found(trie, t, w)}
<1>2. M \in Nat /\ M >= 2
  BY LengthIs
<1>3. ASSUME NEW w \in W
      PROVE  /\ Left(depth, t, w) \in 0..(M - 1)
             /\ \A y \in Calls(trie, t, w) : y \in W /\ Left(depth, t, y) < Left(depth, t, w)
  <2>1. /\ Left(depth, t, w) \in 0..(2 * depth + 2 * Len(t) + 1)
        /\ \A y \in Calls(trie, t, w) : y \in W /\ Left(depth, t, y) < Left(depth, t, w)
    BY <1>1, CallsEnd
  <2>2. M - 1 = 2 * depth + 2 * Len(t) + 1
    BY LengthIs
  <2>. QED  BY <2>1, <2>2
<1>4. \A w \in W : /\ R[w] = Here(trie, t, w) \cup UNION {R[y] : y \in Calls(trie, t, w)}
                   /\ Found(trie, t, w) =
                        Here(trie, t, w) \cup UNION {Found(trie, t, y) : y \in Calls(trie, t, w)}
  BY GetSubscribersFromStep, FoundStep
<1>. HIDE DEF W, R, M
<1>5. 0 \in T
  <2>1. \A w \in W : ~(Left(depth, t, w) < 0)
    BY <1>2, <1>3
  <2>. QED  BY <1>2, <2>1
<1>6. ASSUME NEW n \in 0..(M - 1), n \in T  PROVE n + 1 \in T
  <2>1. n + 1 \in 0..M
    BY <1>2
  <2>2. ASSUME NEW w \in W, Left(depth, t, w) < n + 1
        PROVE  R[w] = Found(trie, t, w)
    <3>1. ASSUME NEW y \in Calls(trie, t, w)  PROVE R[y] = Found(trie, t, y)
      <4>1. y \in W /\ Left(depth, t, y) \in Int /\ Left(depth, t, w) \in Int
            /\ Left(depth, t, y) < Left(depth, t, w)
        BY <1>2, <1>3
      <4>2. Left(depth, t, y) < n
        BY ONLY <2>2, <4>1, n \in 0..(M - 1)
      <4>. QED  BY <1>6, <4>1, <4>2
    <3>2. UNION {R[y] : y \in Calls(trie, t, w)} =
            UNION {Found(trie, t, y) : y \in Calls(trie, t, w)}
      BY <3>1
    <3>. QED  BY <1>4, <3>2
  <2>. QED  BY <2>1, <2>2
<1>7. \A n \in 0..M : n \in T
  <2>. HIDE DEF T
  <2>. QED  BY <1>2, <1>5, <1>6, Upward
<1>8. M \in 0..M /\ x \in W
  BY <1>2 DEF W
<1>9. Left(depth, t, x) < M
  <2>1. Left(depth, t, x) \in 0..(M - 1)
    BY <1>3, <1>8
  <2>. QED  BY ONLY <1>2, <2>1
<1>. QED  BY <1>7, <1>8, <1>9 DEF R

LEMMA GetSubscribersOfIs ==
    ASSUME NEW trie, IsTree(trie), NEW t \in Paths
    PROVE  GetSubscribersOf(trie, t) =
             UNION {trie[s].subscribers : s \in {s \in DOMAIN trie : Common(s, 0, t, 0)}}
<1>. DEFINE x == Walk(<<>>, 0, FALSE)
<1>1. x \in Walks(trie, t)
  BY LengthIs DEF Walk, Walks, IsTree
<1>2. \A s \in DOMAIN trie : Hits(s, t, x) <=> Common(s, 0, t, 0)
  <2>1. \A s \in DOMAIN trie : Under(<<>>, s)
    BY UnderRoot DEF IsTree
  <2>. QED  BY <2>1, HitsWalk, RootIs
<1>3. GetSubscribersOf(trie, t) = GetSubscribersFrom(trie, t)[x]
  BY DEF GetSubscribersOf
<1>. HIDE DEF x
<1>4. GetSubscribersOf(trie, t) = Found(trie, t, x)
  BY <1>1, <1>3, GetSubscribersFromIs
<1>. QED  BY <1>2, <1>4 DEF Found

-----------------------------------------------------------------------------
(* What the calls do to a trie: the nodes stay a tree, only topics hold        *)
(* subscribers and only topics without a wildcard an owner.                    *)

Nodes == [owner : Clients \cup {NoOwner}, subscribers : SUBSET Clients]

OnTopics(trie) ==
    \A node \in DOMAIN trie :
        /\ trie[node].subscribers # {} => node \in Topics
        /\ trie[node].owner # NoOwner => node \in Concrete

IsDirectory(trie) ==
    IsTree(trie) /\ trie \in [DOMAIN trie -> Nodes] /\ OnTopics(trie)

SubsOf(trie) == UNION {trie[node].subscribers \X {node} : node \in DOMAIN trie}
OwnersOf(trie) == [t \in Topics |-> IF t \in DOMAIN trie THEN trie[t].owner ELSE NoOwner]

LEMMA SubsOfIs ==
    ASSUME NEW trie
    PROVE  /\ \A c, node : <<c, node>> \in SubsOf(trie) <=>
                              node \in DOMAIN trie /\ c \in trie[node].subscribers
           /\ \A p \in SubsOf(trie) : p = <<p[1], p[2]>>
BY DEF SubsOf

LEMMA SameSubs ==
    ASSUME NEW trie, NEW S, \A p \in S : p = <<p[1], p[2]>>,
           \A c, node : <<c, node>> \in S <=>
                           node \in DOMAIN trie /\ c \in trie[node].subscribers
    PROVE  SubsOf(trie) = S
<1>1. ASSUME NEW p \in SubsOf(trie)  PROVE p \in S
  BY SubsOfIs
<1>2. ASSUME NEW p \in S  PROVE p \in SubsOf(trie)
  BY SubsOfIs
<1>. QED  BY <1>1, <1>2

LEMMA TopicsAre ==
    /\ Topics \subseteq Paths /\ <<>> \notin Topics /\ Concrete \subseteq Topics
    /\ \A t \in Topics : t \in Concrete <=> IsConcrete(t)
    /\ NoOwner \notin Clients
BY DirectoryAssumption DEF Paths

LEMMA TreeByDomain ==
    ASSUME NEW a, NEW b, IsTree(a), DOMAIN a = DOMAIN b
    PROVE  IsTree(b)
BY DEF IsTree

LEMMA DownDown ==
    ASSUME NEW s \in Paths, NEW n \in 0..Len(s), NEW m \in 0..n
    PROVE  Down(Down(s, n), m) = Down(s, m) /\ m \in 0..Len(s)
<1>1. m \in 0..Len(s) /\ m \in 0..Len(Down(s, n)) /\ Down(s, n) \in Paths
  BY LengthIs, DownIs
<1>2. /\ Down(s, m) \in Paths /\ Len(Down(s, m)) = m
      /\ \A i \in 1..m : Down(s, m)[i] = s[i]
  BY <1>1, DownIs
<1>3. \A i \in 1..n : Down(s, n)[i] = s[i]
  BY DownIs
<1>. DEFINE d == Down(s, n)
<1>4. d \in Paths /\ m \in 0..Len(d)
  BY <1>1
<1>. HIDE DEF d
<1>5. /\ Down(d, m) \in Paths /\ Len(Down(d, m)) = m
      /\ \A i \in 1..m : Down(d, m)[i] = d[i]
  BY <1>4, DownIs
<1>6. \A i \in 1..m : i \in 1..n
  OBVIOUS
<1>7. \A i \in 1..m : Down(d, m)[i] = Down(s, m)[i]
  BY <1>2, <1>3, <1>5, <1>6 DEF d
<1>8. Down(d, m) = Down(s, m)
  BY <1>2, <1>5, <1>7, SamePath
<1>. QED  BY <1>1, <1>8 DEF d

LEMMA DownAll ==
    ASSUME NEW s \in Paths
    PROVE  Down(s, Len(s)) = s
<1>1. Len(s) \in 0..Len(s)
  BY LengthIs
<1>2. /\ Down(s, Len(s)) \in Paths /\ Len(Down(s, Len(s))) = Len(s)
      /\ \A i \in 1..Len(s) : Down(s, Len(s))[i] = s[i]
  BY <1>1, DownIs
<1>. QED  BY <1>2, SamePath

LEMMA ReachesIs ==
    ASSUME NEW trie, IsTree(trie), NEW t \in Paths
    PROVE  Reaches(trie, t, Len(t)) <=> t \in DOMAIN trie
<1>1. Len(t) \in 0..Len(t) /\ Down(t, Len(t)) = t
  BY LengthIs, DownAll
<1>. QED  BY <1>1 DEF Reaches, IsTree

LEMMA EnsureTree ==
    ASSUME NEW trie, IsTree(trie), NEW t \in Paths, NEW depths, depths \subseteq 0..Len(t),
           \A n \in depths : \A m \in 0..n : m \in depths
    PROVE  IsTree(EnsureChildren(trie, {Down(t, n) : n \in depths}))
<1>. DEFINE nodes == {Down(t, n) : n \in depths}
            D == DOMAIN trie \cup nodes
            made == EnsureChildren(trie, nodes)
<1>1. DOMAIN made = D
  BY DEF EnsureChildren
<1>2. \A n \in depths : n \in 0..Len(t) /\ Down(t, n) \in Paths /\ Len(Down(t, n)) = n
  BY DownIs
<1>3. D \subseteq Paths /\ <<>> \in D
  BY <1>2 DEF IsTree
<1>4. ASSUME NEW node \in D, NEW m \in 0..Len(node)  PROVE Down(node, m) \in D
  <2>1. CASE node \in DOMAIN trie
    BY <2>1 DEF IsTree
  <2>2. CASE node \in nodes
    <3>1. PICK n \in depths : node = Down(t, n)
      BY <2>2
    <3>2. m \in 0..n /\ m \in depths
      BY <1>2, <3>1
    <3>3. Down(node, m) = Down(t, m)
      BY <1>2, <3>1, <3>2, DownDown
    <3>. QED  BY <3>2, <3>3
  <2>. QED  BY <2>1, <2>2
<1>5. \E depth \in Nat : \A node \in D : Len(node) <= depth
  <2>1. PICK depth \in Nat : \A node \in DOMAIN trie : Len(node) <= depth
    BY DEF IsTree
  <2>2. \A node \in DOMAIN trie : Len(node) \in Nat
    BY LengthIs DEF IsTree
  <2>3. Len(t) \in Nat /\ depth + Len(t) \in Nat
    BY LengthIs
  <2>4. \A node \in D : Len(node) <= depth + Len(t)
    BY <1>2, <2>1, <2>2, <2>3
  <2>. QED  BY <2>3, <2>4
<1>. HIDE DEF D, made
<1>6. IsTree(made)
  BY <1>1, <1>3, <1>4, <1>5 DEF IsTree
<1>. QED  BY <1>6 DEF made

(* New nodes hold nothing. *)
Grown(trie, t, depths) == EnsureChildren(trie, {Down(t, n) : n \in depths})

LEMMA EnsureKeeps ==
    ASSUME NEW trie, IsDirectory(trie), NEW t \in Paths, NEW depths, depths \subseteq 0..Len(t),
           \A n \in depths : \A m \in 0..n : m \in depths
    PROVE  /\ IsDirectory(Grown(trie, t, depths))
           /\ SubsOf(Grown(trie, t, depths)) = SubsOf(trie)
           /\ OwnersOf(Grown(trie, t, depths)) = OwnersOf(trie)
           /\ Len(t) \in depths => t \in DOMAIN Grown(trie, t, depths)
<1>. DEFINE nodes == {Down(t, n) : n \in depths}
            made == EnsureChildren(trie, nodes)
<1>1. IsTree(trie) /\ trie \in [DOMAIN trie -> Nodes] /\ OnTopics(trie)
  BY DEF IsDirectory
<1>2. IsTree(made)
  BY <1>1, EnsureTree
<1>3. Len(t) \in depths => t \in nodes
  BY DownAll
<1>. HIDE DEF nodes
<1>4. made = [node \in DOMAIN trie \cup nodes |-> IF node \in DOMAIN trie THEN trie[node] ELSE EmptyNode]
  BY DEF EnsureChildren
<1>. HIDE DEF made
<1>5. EmptyNode \in Nodes /\ EmptyNode.owner = NoOwner /\ EmptyNode.subscribers = {}
  BY DEF EmptyNode, Nodes
<1>6. made \in [DOMAIN made -> Nodes]
  BY <1>1, <1>4, <1>5
<1>7. OnTopics(made)
  BY <1>1, <1>4, <1>5 DEF OnTopics
<1>8. SubsOf(made) = SubsOf(trie)
  <2>1. \A c, node : node \in DOMAIN made /\ c \in made[node].subscribers <=>
                       node \in DOMAIN trie /\ c \in trie[node].subscribers
    BY <1>4, <1>5
  <2>. QED  BY <2>1, SubsOfIs, SameSubs
<1>9. OwnersOf(made) = OwnersOf(trie)
  BY <1>4, <1>5 DEF OwnersOf
<1>10. Len(t) \in depths => t \in DOMAIN made
  BY <1>3, <1>4
<1>. QED  BY <1>2, <1>6, <1>7, <1>8, <1>9, <1>10 DEF IsDirectory, Grown, made, nodes

(* A directory that differs in one node only, where a topic ends *)
LEMMA OneNode ==
    ASSUME NEW trie, IsDirectory(trie), NEW t \in Topics, t \in DOMAIN trie,
           NEW node \in Nodes, node.owner # NoOwner => t \in Concrete
    PROVE  /\ IsDirectory([trie EXCEPT ![t] = node])
           /\ \A c, n : <<c, n>> \in SubsOf([trie EXCEPT ![t] = node]) <=>
                 IF n = t THEN c \in node.subscribers ELSE <<c, n>> \in SubsOf(trie)
           /\ OwnersOf([trie EXCEPT ![t] = node]) = [OwnersOf(trie) EXCEPT ![t] = node.owner]
<1>. DEFINE new == [trie EXCEPT ![t] = node]
<1>1. IsTree(trie) /\ trie \in [DOMAIN trie -> Nodes] /\ OnTopics(trie)
  BY DEF IsDirectory
<1>2. /\ DOMAIN new = DOMAIN trie /\ new[t] = node
      /\ \A n \in DOMAIN trie : n # t => new[n] = trie[n]
  BY <1>1
<1>3. new \in [DOMAIN new -> Nodes]
  BY <1>1
<1>4. \A n \in Topics : OwnersOf(new)[n] = IF n = t THEN node.owner ELSE OwnersOf(trie)[n]
  <2>. HIDE DEF new
  <2>. QED  BY <1>2 DEF OwnersOf
<1>. HIDE DEF new
<1>5. IsTree(new)
  BY <1>1, <1>2, TreeByDomain
<1>6. OnTopics(new)
  BY <1>1, <1>2 DEF OnTopics
<1>7. \A c, n : <<c, n>> \in SubsOf(new) <=>
                  IF n = t THEN c \in node.subscribers ELSE <<c, n>> \in SubsOf(trie)
  <2>1. ASSUME NEW c, NEW n
        PROVE  /\ <<c, n>> \in SubsOf(new) <=> n \in DOMAIN new /\ c \in new[n].subscribers
               /\ <<c, n>> \in SubsOf(trie) <=> n \in DOMAIN trie /\ c \in trie[n].subscribers
    BY SubsOfIs
  <2>2. ASSUME NEW c, NEW n
        PROVE  <<c, n>> \in SubsOf(new) <=>
                 IF n = t THEN c \in node.subscribers ELSE <<c, n>> \in SubsOf(trie)
    <3>1. t \in DOMAIN new
      BY <1>2
    <3>. QED  BY ONLY <1>2, <2>1, <3>1
  <2>. QED  BY <2>2
<1>8. OwnersOf(new) = [OwnersOf(trie) EXCEPT ![t] = node.owner]
  <2>1. OwnersOf(new) = [n \in Topics |-> OwnersOf(new)[n]]
    BY DEF OwnersOf
  <2>2. OwnersOf(trie) = [n \in Topics |-> OwnersOf(trie)[n]]
    BY DEF OwnersOf
  <2>. QED  BY <1>4, <2>1, <2>2
<1>. QED  BY <1>3, <1>5, <1>6, <1>7, <1>8 DEF IsDirectory, new

LEMMA PairsAreEqual ==
    ASSUME NEW S, NEW T, \A p \in S : p = <<p[1], p[2]>>, \A p \in T : p = <<p[1], p[2]>>,
           \A c, n : <<c, n>> \in S <=> <<c, n>> \in T
    PROVE  S = T
<1>1. ASSUME NEW p \in S  PROVE p \in T
  OBVIOUS
<1>2. ASSUME NEW p \in T  PROVE p \in S
  OBVIOUS
<1>. QED  BY <1>1, <1>2

LEMMA NodeIs ==
    ASSUME NEW trie, IsDirectory(trie), NEW node \in DOMAIN trie
    PROVE  /\ trie[node] \in Nodes
           /\ trie[node].owner \in Clients \cup {NoOwner}
           /\ trie[node].subscribers \subseteq Clients
           /\ trie[node].owner # NoOwner => node \in Concrete
           /\ trie[node].subscribers # {} => node \in Topics
BY DEF IsDirectory, Nodes, OnTopics

LEMMA SubscribeIs ==
    ASSUME NEW trie, IsDirectory(trie), NEW c \in Clients, NEW t \in Topics
    PROVE  /\ IsDirectory(SubscribeSegments(trie, c, t))
           /\ SubsOf(SubscribeSegments(trie, c, t)) = Subscribe(SubsOf(trie), c, t)
           /\ OwnersOf(SubscribeSegments(trie, c, t)) = OwnersOf(trie)
<1>. DEFINE depths == 0..Len(t)
            made == Grown(trie, t, depths)
            node == [made[t] EXCEPT !.subscribers = @ \cup {c}]
            new == [made EXCEPT ![t] = node]
<1>1. t \in Paths
  BY TopicsAre
<1>2. depths \subseteq 0..Len(t) /\ (\A n \in depths : \A m \in 0..n : m \in depths)
      /\ Len(t) \in depths
  BY <1>1, LengthIs
<1>3. SubscribeSegments(trie, c, t) = new
  BY DEF SubscribeSegments, Grown
<1>. HIDE DEF depths
<1>4. /\ IsDirectory(made) /\ SubsOf(made) = SubsOf(trie) /\ OwnersOf(made) = OwnersOf(trie)
      /\ t \in DOMAIN made
  BY <1>1, <1>2, EnsureKeeps
<1>. HIDE DEF made
<1>5. /\ node \in Nodes /\ node.owner = made[t].owner
      /\ node.subscribers = made[t].subscribers \cup {c}
      /\ node.owner # NoOwner => t \in Concrete
  <2>1. made[t] \in Nodes /\ (made[t].owner # NoOwner => t \in Concrete)
    BY <1>4, NodeIs
  <2>. QED  BY <2>1 DEF Nodes
<1>. HIDE DEF node
<1>6. /\ IsDirectory(new)
      /\ \A d, n : <<d, n>> \in SubsOf(new) <=>
            IF n = t THEN d \in node.subscribers ELSE <<d, n>> \in SubsOf(made)
      /\ OwnersOf(new) = [OwnersOf(made) EXCEPT ![t] = node.owner]
  BY <1>4, <1>5, OneNode
<1>. HIDE DEF new
<1>7. SubsOf(new) = Subscribe(SubsOf(trie), c, t)
  <2>1. \A d, n : <<d, n>> \in SubsOf(new) <=> <<d, n>> \in Subscribe(SubsOf(trie), c, t)
    BY <1>4, <1>5, <1>6, SubsOfIs DEF Subscribe
  <2>2. \A p \in Subscribe(SubsOf(trie), c, t) : p = <<p[1], p[2]>>
    BY SubsOfIs DEF Subscribe
  <2>. QED  BY <2>1, <2>2, SubsOfIs, PairsAreEqual
<1>8. OwnersOf(new) = OwnersOf(trie)
  <2>1. OwnersOf(made)[t] = node.owner
    BY <1>4, <1>5 DEF OwnersOf
  <2>2. OwnersOf(made) = [n \in Topics |-> OwnersOf(made)[n]]
    BY DEF OwnersOf
  <2>. QED  BY <1>4, <1>6, <2>1, <2>2
<1>. QED  BY <1>3, <1>6, <1>7, <1>8

LEMMA UnsubscribeIs ==
    ASSUME NEW trie, IsDirectory(trie), NEW c \in Clients, NEW t \in Topics
    PROVE  /\ IsDirectory(UnsubscribeSegments(trie, c, t))
           /\ SubsOf(UnsubscribeSegments(trie, c, t)) = Unsubscribe(SubsOf(trie), c, t)
           /\ OwnersOf(UnsubscribeSegments(trie, c, t)) = OwnersOf(trie)
<1>. DEFINE result == UnsubscribeSegments(trie, c, t)
<1>0. Reaches(trie, t, Len(t)) <=> t \in DOMAIN trie
  BY TopicsAre, ReachesIs DEF IsDirectory
<1>1. \A p \in Unsubscribe(SubsOf(trie), c, t) : p = <<p[1], p[2]>>
  BY SubsOfIs DEF Unsubscribe
<1>2. CASE t \notin DOMAIN trie
  <2>1. result = trie
    BY <1>0, <1>2 DEF UnsubscribeSegments
  <2>2. \A d, n : <<d, n>> \in SubsOf(trie) <=> <<d, n>> \in Unsubscribe(SubsOf(trie), c, t)
    BY <1>2, SubsOfIs DEF Unsubscribe
  <2>3. SubsOf(trie) = Unsubscribe(SubsOf(trie), c, t)
    BY <1>1, <2>2, SubsOfIs, PairsAreEqual
  <2>. QED  BY <2>1, <2>3
<1>3. CASE t \in DOMAIN trie
  <2>. DEFINE node == [trie[t] EXCEPT !.subscribers = @ \ {c}]
              new == [trie EXCEPT ![t] = node]
  <2>1. result = new
    BY <1>0, <1>3 DEF UnsubscribeSegments
  <2>2. /\ node \in Nodes /\ node.owner = trie[t].owner
        /\ node.subscribers = trie[t].subscribers \ {c}
        /\ node.owner # NoOwner => t \in Concrete
    <3>1. trie[t] \in Nodes /\ (trie[t].owner # NoOwner => t \in Concrete)
      BY <1>3, NodeIs
    <3>. QED  BY <3>1 DEF Nodes
  <2>. HIDE DEF node
  <2>3. /\ IsDirectory(new)
        /\ \A d, n : <<d, n>> \in SubsOf(new) <=>
              IF n = t THEN d \in node.subscribers ELSE <<d, n>> \in SubsOf(trie)
        /\ OwnersOf(new) = [OwnersOf(trie) EXCEPT ![t] = node.owner]
    BY <1>3, <2>2, OneNode
  <2>. HIDE DEF new
  <2>4. SubsOf(new) = Unsubscribe(SubsOf(trie), c, t)
    <3>1. \A d, n : <<d, n>> \in SubsOf(new) <=> <<d, n>> \in Unsubscribe(SubsOf(trie), c, t)
      <4>1. ASSUME NEW d, NEW n
            PROVE  <<d, n>> \in SubsOf(new) <=> <<d, n>> \in SubsOf(trie) /\ ~(d = c /\ n = t)
        <5>1. <<d, n>> \in SubsOf(trie) <=> n \in DOMAIN trie /\ d \in trie[n].subscribers
          BY SubsOfIs
        <5>2. <<d, n>> \in SubsOf(new) <=>
                IF n = t THEN d \in node.subscribers ELSE <<d, n>> \in SubsOf(trie)
          BY <2>3
        <5>. QED  BY ONLY <1>3, <2>2, <5>1, <5>2
      <4>. QED  BY <4>1 DEF Unsubscribe
    <3>. QED  BY <1>1, <3>1, SubsOfIs, PairsAreEqual
  <2>5. OwnersOf(new) = OwnersOf(trie)
    <3>1. OwnersOf(trie)[t] = node.owner
      BY <1>3, <2>2 DEF OwnersOf
    <3>2. OwnersOf(trie) = [n \in Topics |-> OwnersOf(trie)[n]]
      BY DEF OwnersOf
    <3>. QED  BY <2>3, <3>1, <3>2
  <2>. QED  BY <2>1, <2>3, <2>4, <2>5
<1>. QED  BY <1>2, <1>3

LEMMA BeforeWildcardsIs ==
    ASSUME NEW t \in Topics
    PROVE  /\ BeforeWildcards(t) \subseteq 0..Len(t)
           /\ \A n \in BeforeWildcards(t) : \A m \in 0..n : m \in BeforeWildcards(t)
           /\ IsConcrete(t) <=> Len(t) \in BeforeWildcards(t)
<1>1. t \in Paths /\ Len(t) \in Nat
  BY TopicsAre, LengthIs
<1>2. DOMAIN t = 1..Len(t)
  BY <1>1 DEF Paths
<1>3. \A n : n \in BeforeWildcards(t) <=> n \in 0..Len(t) /\ \A i \in 1..n : ~IsWildcard(t[i])
  BY DEF BeforeWildcards
<1>4. ASSUME NEW n \in BeforeWildcards(t), NEW m \in 0..n  PROVE m \in BeforeWildcards(t)
  <2>1. n \in 0..Len(t) /\ \A i \in 1..n : ~IsWildcard(t[i])
    BY <1>3
  <2>2. m \in 0..Len(t) /\ \A i \in 1..m : i \in 1..n
    BY <1>1, <2>1
  <2>. QED  BY <1>3, <2>1, <2>2
<1>5. IsConcrete(t) <=> Len(t) \in BeforeWildcards(t)
  <2>1. Len(t) \in 0..Len(t)
    BY <1>1
  <2>. QED  BY <1>2, <1>3, <2>1 DEF IsConcrete
<1>. QED  BY <1>3, <1>4, <1>5

ClaimResult(trie, c, t) == ClaimSegments(trie, c, t).dir

LEMMA ClaimIs ==
    ASSUME NEW trie, IsDirectory(trie), NEW c \in Clients, NEW t \in Topics
    PROVE  /\ IsDirectory(ClaimResult(trie, c, t))
           /\ SubsOf(ClaimResult(trie, c, t)) = SubsOf(trie)
           /\ OwnersOf(ClaimResult(trie, c, t)) = Claim(OwnersOf(trie), c, t)
           /\ ClaimSegments(trie, c, t).error = ClaimError(OwnersOf(trie), c, t)
<1>. DEFINE depths == BeforeWildcards(t)
            made == Grown(trie, t, depths)
            owners == OwnersOf(trie)
<1>1. /\ t \in Paths /\ (t \in Concrete <=> IsConcrete(t)) /\ NoOwner \notin Clients
      /\ depths \subseteq 0..Len(t) /\ (\A n \in depths : \A m \in 0..n : m \in depths)
      /\ (IsConcrete(t) <=> Len(t) \in depths)
  BY TopicsAre, BeforeWildcardsIs
<1>2. ClaimSegments(trie, c, t) =
        IF IsConcrete(t) THEN TakeOwner(made, c, t)
        ELSE [dir |-> made, error |-> "ClaimWildcardNotSupported"]
  BY DEF ClaimSegments, Grown
<1>. HIDE DEF depths
<1>3. /\ IsDirectory(made) /\ SubsOf(made) = SubsOf(trie) /\ OwnersOf(made) = owners
      /\ IsConcrete(t) => t \in DOMAIN made
  BY <1>1, EnsureKeeps
<1>. HIDE DEF made
<1>4. CASE ~IsConcrete(t)
  <2>1. ClaimResult(trie, c, t) = made
        /\ ClaimSegments(trie, c, t).error = "ClaimWildcardNotSupported"
    BY <1>2, <1>4 DEF ClaimResult
  <2>2. ClaimError(owners, c, t) = "ClaimWildcardNotSupported" /\ Claim(owners, c, t) = owners
    BY <1>1, <1>4 DEF ClaimError, Claim, NoError
  <2>. QED  BY <1>3, <2>1, <2>2
<1>5. CASE IsConcrete(t)
  <2>1. t \in DOMAIN made /\ owners[t] = made[t].owner /\ t \in Concrete
    BY <1>1, <1>3, <1>5 DEF OwnersOf
  <2>2. ClaimSegments(trie, c, t) = TakeOwner(made, c, t)
    BY <1>2, <1>5
  <2>3. made[t] \in Nodes
    BY <1>3, <2>1, NodeIs
  <2>4. CASE made[t].owner = NoOwner
    <3>. DEFINE node == [made[t] EXCEPT !.owner = c]
                new == [made EXCEPT ![t] = node]
    <3>1. ClaimResult(trie, c, t) = new /\ ClaimSegments(trie, c, t).error = NoError
      BY <2>2, <2>4 DEF TakeOwner, ClaimResult
    <3>2. node \in Nodes /\ node.owner = c /\ node.subscribers = made[t].subscribers
      BY <2>3 DEF Nodes
    <3>3. ClaimError(owners, c, t) = NoError
      BY <2>1, <2>4 DEF ClaimError
    <3>4. Claim(owners, c, t) = [owners EXCEPT ![t] = c]
      BY <3>3 DEF Claim
    <3>. HIDE DEF node, owners
    <3>5. /\ IsDirectory(new)
          /\ \A d, n : <<d, n>> \in SubsOf(new) <=>
                IF n = t THEN d \in node.subscribers ELSE <<d, n>> \in SubsOf(made)
          /\ OwnersOf(new) = [OwnersOf(made) EXCEPT ![t] = node.owner]
      BY <1>3, <2>1, <3>2, OneNode
    <3>. HIDE DEF new
    <3>6. SubsOf(new) = SubsOf(trie)
      <4>1. ASSUME NEW d, NEW n  PROVE <<d, n>> \in SubsOf(new) <=> <<d, n>> \in SubsOf(made)
        <5>1. <<d, n>> \in SubsOf(made) <=> n \in DOMAIN made /\ d \in made[n].subscribers
          BY SubsOfIs
        <5>2. <<d, n>> \in SubsOf(new) <=>
                IF n = t THEN d \in node.subscribers ELSE <<d, n>> \in SubsOf(made)
          BY <3>5
        <5>. QED  BY ONLY <2>1, <3>2, <5>1, <5>2
      <4>2. SubsOf(new) = SubsOf(made)
        BY <4>1, SubsOfIs, PairsAreEqual
      <4>. QED  BY <1>3, <4>2
    <3>7. OwnersOf(new) = Claim(owners, c, t)
      BY <1>3, <3>2, <3>4, <3>5
    <3>. QED  BY <3>1, <3>3, <3>5, <3>6, <3>7 DEF owners
  <2>5. CASE made[t].owner # NoOwner
    <3>1. ClaimResult(trie, c, t) = made
          /\ ClaimSegments(trie, c, t).error =
               IF made[t].owner = c THEN NoError ELSE "TopicAlreadyClaimed"
      BY <2>2, <2>5 DEF TakeOwner, ClaimResult
    <3>2. ClaimError(owners, c, t) = IF made[t].owner = c THEN NoError ELSE "TopicAlreadyClaimed"
      BY <2>1, <2>5 DEF ClaimError
    <3>3. Claim(owners, c, t) = owners
      <4>1. CASE made[t].owner = c
        <5>1. owners = [n \in Topics |-> owners[n]]
          BY DEF OwnersOf
        <5>2. Claim(owners, c, t) = [owners EXCEPT ![t] = c]
          BY <3>2, <4>1 DEF Claim
        <5>. HIDE DEF owners
        <5>. QED  BY <2>1, <4>1, <5>1, <5>2
      <4>2. CASE made[t].owner # c
        BY <3>2, <4>2 DEF Claim, NoError
      <4>. QED  BY <4>1, <4>2
    <3>. QED  BY <1>3, <3>1, <3>2, <3>3
  <2>. QED  BY <2>4, <2>5
<1>. QED  BY <1>4, <1>5

LEMMA ReleaseIs ==
    ASSUME NEW node \in Nodes, NEW c \in Clients
    PROVE  /\ ReleaseOwner(node, c) \in Nodes
           /\ ReleaseOwner(node, c).subscribers = node.subscribers
           /\ ReleaseOwner(node, c).owner = IF node.owner = c THEN NoOwner ELSE node.owner
BY DEF ReleaseOwner, Nodes

UnclaimResult(trie, c, t) == UnclaimSegments(trie, c, t).dir

LEMMA UnclaimIs ==
    ASSUME NEW trie, IsDirectory(trie), NEW c \in Clients, NEW t \in Topics
    PROVE  /\ IsDirectory(UnclaimResult(trie, c, t))
           /\ SubsOf(UnclaimResult(trie, c, t)) = SubsOf(trie)
           /\ OwnersOf(UnclaimResult(trie, c, t)) = Unclaim(OwnersOf(trie), c, t)
           /\ UnclaimSegments(trie, c, t).error \in UnclaimErrors(t)
<1>. DEFINE owners == OwnersOf(trie)
<1>1. (t \in Concrete <=> IsConcrete(t)) /\ NoOwner \notin Clients
      /\ (Reaches(trie, t, Len(t)) <=> t \in DOMAIN trie)
  BY TopicsAre, ReachesIs DEF IsDirectory
<1>2. UnclaimSegments(trie, c, t).error \in UnclaimErrors(t)
  <2>1. IsConcrete(t) => ~MeetsWildcard(trie, t)
    <3>1. SUFFICES ASSUME IsConcrete(t), NEW n \in BeforeWildcards(t),
                          n < Len(t), IsWildcard(t[n + 1])
                   PROVE  FALSE
      BY DEF MeetsWildcard
    <3>2. t \in Paths /\ n \in 0..Len(t) /\ Len(t) \in Nat
      BY TopicsAre, LengthIs, BeforeWildcardsIs
    <3>3. n + 1 \in 1..Len(t) /\ DOMAIN t = 1..Len(t)
      BY <3>1, <3>2 DEF Paths
    <3>. QED  BY <3>1, <3>3 DEF IsConcrete
  <2>. QED  BY <1>1, <2>1 DEF UnclaimSegments, UnclaimErrors
<1>3. OwnersOf(trie) = [n \in Topics |-> OwnersOf(trie)[n]]
  BY DEF OwnersOf
<1>4. CASE ~(IsConcrete(t) /\ t \in DOMAIN trie)
  <2>1. UnclaimResult(trie, c, t) = trie
    BY <1>1, <1>4 DEF UnclaimSegments, UnclaimResult
  <2>2. Unclaim(owners, c, t) = owners
    <3>1. CASE ~IsConcrete(t)
      BY <1>1, <3>1 DEF Unclaim
    <3>2. CASE t \notin DOMAIN trie
      <4>1. owners[t] = NoOwner
        BY <3>2 DEF OwnersOf
      <4>. HIDE DEF owners
      <4>. QED  BY <1>1, <4>1 DEF Unclaim
    <3>. QED  BY <1>4, <3>1, <3>2
  <2>. QED  BY <1>2, <2>1, <2>2
<1>5. CASE IsConcrete(t) /\ t \in DOMAIN trie
  <2>. DEFINE node == ReleaseOwner(trie[t], c)
              new == [trie EXCEPT ![t] = node]
  <2>1. UnclaimResult(trie, c, t) = new
    BY <1>1, <1>5 DEF UnclaimSegments, UnclaimResult
  <2>2. /\ node \in Nodes /\ node.subscribers = trie[t].subscribers
        /\ node.owner = IF trie[t].owner = c THEN NoOwner ELSE trie[t].owner
    BY <1>5, NodeIs, ReleaseIs
  <2>3. t \in Concrete /\ owners[t] = trie[t].owner
    BY <1>1, <1>5 DEF OwnersOf
  <2>. HIDE DEF node
  <2>4. /\ IsDirectory(new)
        /\ \A d, n : <<d, n>> \in SubsOf(new) <=>
              IF n = t THEN d \in node.subscribers ELSE <<d, n>> \in SubsOf(trie)
        /\ OwnersOf(new) = [OwnersOf(trie) EXCEPT ![t] = node.owner]
    BY <1>5, <2>2, <2>3, OneNode
  <2>. HIDE DEF new
  <2>5. SubsOf(new) = SubsOf(trie)
    <3>1. ASSUME NEW d, NEW n  PROVE <<d, n>> \in SubsOf(new) <=> <<d, n>> \in SubsOf(trie)
      <4>1. <<d, n>> \in SubsOf(trie) <=> n \in DOMAIN trie /\ d \in trie[n].subscribers
        BY SubsOfIs
      <4>2. <<d, n>> \in SubsOf(new) <=>
              IF n = t THEN d \in node.subscribers ELSE <<d, n>> \in SubsOf(trie)
        BY <2>4
      <4>. QED  BY ONLY <1>5, <2>2, <4>1, <4>2
    <3>. QED  BY <3>1, SubsOfIs, PairsAreEqual
  <2>6. OwnersOf(new) = Unclaim(owners, c, t)
    <3>1. CASE trie[t].owner = c
      <4>1. Unclaim(owners, c, t) = [owners EXCEPT ![t] = NoOwner]
        BY <2>3, <3>1 DEF Unclaim
      <4>. QED  BY <2>2, <2>4, <3>1, <4>1
    <3>2. CASE trie[t].owner # c
      <4>1. Unclaim(owners, c, t) = owners
        BY <2>3, <3>2 DEF Unclaim
      <4>2. OwnersOf(new) = [OwnersOf(trie) EXCEPT ![t] = OwnersOf(trie)[t]]
        BY <2>2, <2>3, <2>4, <3>2
      <4>. HIDE DEF owners
      <4>3. OwnersOf(new) = OwnersOf(trie)
        BY <1>3, <4>2
      <4>. QED  BY <4>1, <4>3 DEF owners
    <3>. QED  BY <3>1, <3>2
  <2>. QED  BY <1>2, <2>1, <2>4, <2>5, <2>6
<1>. QED  BY <1>4, <1>5

DropResult(trie, c) == DropClient(trie, c).dir

LEMMA DropIs ==
    ASSUME NEW trie, IsDirectory(trie), NEW c \in Clients
    PROVE  /\ IsDirectory(DropResult(trie, c))
           /\ SubsOf(DropResult(trie, c)) = DropSubs(SubsOf(trie), c)
           /\ OwnersOf(DropResult(trie, c)) = DropOwner(OwnersOf(trie), c)
           /\ DropClient(trie, c).topics = Orphaned(SubsOf(trie), c)
<1>. DEFINE new == DropResult(trie, c)
            subs == SubsOf(trie)
<1>1. IsTree(trie) /\ trie \in [DOMAIN trie -> Nodes] /\ OnTopics(trie)
  BY DEF IsDirectory
<1>2. /\ DOMAIN new = DOMAIN trie
      /\ \A n \in DOMAIN trie : new[n] = [owner |-> ReleaseOwner(trie[n], c).owner,
                                          subscribers |-> trie[n].subscribers \ {c}]
      /\ new = [n \in DOMAIN new |-> new[n]]
  BY DEF DropResult, DropClient
<1>. HIDE DEF new
<1>3. ASSUME NEW n \in DOMAIN trie
      PROVE  /\ new[n] \in Nodes
             /\ new[n].owner = IF trie[n].owner = c THEN NoOwner ELSE trie[n].owner
             /\ new[n].subscribers = trie[n].subscribers \ {c}
  <2>1. /\ ReleaseOwner(trie[n], c) \in Nodes /\ trie[n] \in Nodes
        /\ ReleaseOwner(trie[n], c).owner = IF trie[n].owner = c THEN NoOwner ELSE trie[n].owner
    BY NodeIs, ReleaseIs
  <2>. QED  BY <1>2, <2>1 DEF Nodes
<1>4. IsTree(new)
  BY <1>1, <1>2, TreeByDomain
<1>5. new \in [DOMAIN new -> Nodes]
  BY <1>2, <1>3
<1>6. OnTopics(new)
  BY <1>1, <1>2, <1>3 DEF OnTopics
<1>7. SubsOf(new) = DropSubs(subs, c)
  <2>1. ASSUME NEW d, NEW n  PROVE <<d, n>> \in SubsOf(new) <=> <<d, n>> \in subs /\ d # c
    <3>1. /\ <<d, n>> \in SubsOf(new) <=> n \in DOMAIN new /\ d \in new[n].subscribers
          /\ <<d, n>> \in subs <=> n \in DOMAIN trie /\ d \in trie[n].subscribers
      BY SubsOfIs
    <3>. HIDE DEF subs
    <3>. QED  BY <1>2, <1>3, <3>1
  <2>2. \A d, n : <<d, n>> \in DropSubs(subs, c) <=> <<d, n>> \in subs /\ d # c
    BY DEF DropSubs
  <2>3. \A p \in DropSubs(subs, c) : p = <<p[1], p[2]>>
    BY SubsOfIs DEF DropSubs
  <2>. QED  BY <2>1, <2>2, <2>3, SubsOfIs, PairsAreEqual
<1>8. OwnersOf(new) = DropOwner(OwnersOf(trie), c)
  <2>1. ASSUME NEW t \in Topics
        PROVE  OwnersOf(new)[t] = IF OwnersOf(trie)[t] = c THEN NoOwner ELSE OwnersOf(trie)[t]
    <3>1. CASE t \in DOMAIN trie
      BY <1>2, <1>3, <3>1 DEF OwnersOf
    <3>2. CASE t \notin DOMAIN trie
      BY <1>2, <3>2 DEF OwnersOf
    <3>. QED  BY <3>1, <3>2
  <2>2. OwnersOf(new) = [t \in Topics |-> OwnersOf(new)[t]]
    BY DEF OwnersOf
  <2>. QED  BY <2>1, <2>2 DEF DropOwner
<1>9. DropClient(trie, c).topics = Orphaned(subs, c)
  <2>1. DropClient(trie, c).topics = {n \in DOMAIN trie \ {<<>>} : trie[n].subscribers = {c}}
    BY DEF DropClient, NewlyEmpty
  <2>2. ASSUME NEW n \in DOMAIN trie, n # <<>>, trie[n].subscribers = {c}
        PROVE  n \in Orphaned(subs, c)
    <3>1. n \in Topics
      BY <2>2, NodeIs
    <3>2. <<c, n>> \in subs
      BY <2>2, SubsOfIs
    <3>3. ASSUME NEW p \in subs, p[2] = n  PROVE p[1] = c
      BY <2>2, <3>3, SubsOfIs
    <3>. QED  BY <3>1, <3>2, <3>3 DEF Orphaned
  <2>3. ASSUME NEW n \in Orphaned(subs, c)
        PROVE  n \in DOMAIN trie /\ n # <<>> /\ trie[n].subscribers = {c}
    <3>1. n \in Topics /\ <<c, n>> \in subs /\ \A p \in subs : p[2] = n => p[1] = c
      BY DEF Orphaned
    <3>2. n \in DOMAIN trie /\ c \in trie[n].subscribers
      BY <3>1, SubsOfIs
    <3>3. \A d \in trie[n].subscribers : d = c
      <4>1. \A d \in trie[n].subscribers : <<d, n>> \in subs
        BY <3>2, SubsOfIs
      <4>2. \A d \in trie[n].subscribers : <<d, n>>[2] = n /\ <<d, n>>[1] = d
        OBVIOUS
      <4>. HIDE DEF subs
      <4>. QED  BY <3>1, <4>1, <4>2
    <3>. QED  BY <3>1, <3>2, <3>3, TopicsAre
  <2>. QED  BY <2>1, <2>2, <2>3
<1>. QED  BY <1>4, <1>5, <1>6, <1>7, <1>8, <1>9 DEF IsDirectory, new

-----------------------------------------------------------------------------
(* The state machine *)

DirInv == IsDirectory(dir)

LEMMA StoredIs == Subscriptions = SubsOf(dir) /\ OwnerOf = OwnersOf(dir)
BY DEF Subscriptions, SubsOf, OwnerOf, OwnersOf

LEMMA StartsAsDirectory ==
    ASSUME Init
    PROVE  DirInv /\ SubsOf(dir) = {} /\ OwnersOf(dir) = [t \in Topics |-> NoOwner]
<1>1. /\ dir = [node \in {<<>>} |-> EmptyNode] /\ DOMAIN dir = {<<>>}
      /\ dir[<<>>] = [owner |-> NoOwner, subscribers |-> {}]
  BY DEF Init, EmptyTrie, EmptyNode
<1>2. IsTree(dir)
  <2>1. \A n \in 0..Len(<<>>) : Down(<<>>, n) = <<>>
    BY RootIs, DownAll
  <2>2. 0 \in Nat /\ Len(<<>>) <= 0
    BY RootIs
  <2>. QED  BY <1>1, <2>1, <2>2, RootIs DEF IsTree
<1>3. dir \in [DOMAIN dir -> Nodes] /\ OnTopics(dir)
  BY <1>1 DEF Nodes, OnTopics
<1>4. SubsOf(dir) = {}
  BY <1>1 DEF SubsOf
<1>5. OwnersOf(dir) = [t \in Topics |-> NoOwner]
  BY <1>1, TopicsAre DEF OwnersOf
<1>. QED  BY <1>2, <1>3, <1>4, <1>5 DEF DirInv, IsDirectory

(* What each call makes of the subscriptions, the owners and its result *)
Stored(subs, owner, error, topics) ==
    /\ SubsOf(dir') = subs /\ OwnersOf(dir') = owner
    /\ ret' = [error |-> error, topics |-> topics]

Steps ==
    \E c \in Clients :
        \/ Stored(DropSubs(SubsOf(dir), c), DropOwner(OwnersOf(dir), c),
                  NoError, Orphaned(SubsOf(dir), c))
        \/ \E t \in Topics :
              \/ Stored(Subscribe(SubsOf(dir), c, t), OwnersOf(dir), NoError, {})
              \/ Stored(Unsubscribe(SubsOf(dir), c, t), OwnersOf(dir), NoError, {})
              \/ Stored(SubsOf(dir), Claim(OwnersOf(dir), c, t),
                        ClaimError(OwnersOf(dir), c, t), {})
              \/ \E e \in UnclaimErrors(t) :
                    Stored(SubsOf(dir), Unclaim(OwnersOf(dir), c, t), e, {})

LEMMA EveryCall ==
    ASSUME DirInv, Next
    PROVE  DirInv' /\ Steps
<1>. USE DEF DirInv
<1>1. ASSUME NEW c \in Clients, DoDropClient(c)
      PROVE  IsDirectory(dir') /\ Steps
  <2>1. dir' = DropResult(dir, c) /\ ret' = [error |-> NoError, topics |-> DropClient(dir, c).topics]
    BY <1>1 DEF DoDropClient, DropResult
  <2>2. IsDirectory(dir')
    BY <2>1, DropIs
  <2>3. Stored(DropSubs(SubsOf(dir), c), DropOwner(OwnersOf(dir), c),
               NoError, Orphaned(SubsOf(dir), c))
    BY <2>1, DropIs DEF Stored
  <2>. QED  BY <2>2, <2>3 DEF Steps
<1>2. ASSUME NEW c \in Clients, NEW t \in Topics, DoSubscribe(c, t)
      PROVE  IsDirectory(dir') /\ Steps
  <2>1. IsDirectory(dir')
    BY <1>2, SubscribeIs DEF DoSubscribe
  <2>2. Stored(Subscribe(SubsOf(dir), c, t), OwnersOf(dir), NoError, {})
    BY <1>2, SubscribeIs DEF DoSubscribe, Stored
  <2>. QED  BY <2>1, <2>2 DEF Steps
<1>3. ASSUME NEW c \in Clients, NEW t \in Topics, DoUnsubscribe(c, t)
      PROVE  IsDirectory(dir') /\ Steps
  <2>1. IsDirectory(dir')
    BY <1>3, UnsubscribeIs DEF DoUnsubscribe
  <2>2. Stored(Unsubscribe(SubsOf(dir), c, t), OwnersOf(dir), NoError, {})
    BY <1>3, UnsubscribeIs DEF DoUnsubscribe, Stored
  <2>. QED  BY <2>1, <2>2 DEF Steps
<1>4. ASSUME NEW c \in Clients, NEW t \in Topics, DoClaim(c, t)
      PROVE  IsDirectory(dir') /\ Steps
  <2>1. dir' = ClaimResult(dir, c, t)
        /\ ret' = [error |-> ClaimSegments(dir, c, t).error, topics |-> {}]
    BY <1>4 DEF DoClaim, ClaimResult
  <2>2. IsDirectory(dir')
    BY <2>1, ClaimIs
  <2>3. Stored(SubsOf(dir), Claim(OwnersOf(dir), c, t), ClaimError(OwnersOf(dir), c, t), {})
    BY <2>1, ClaimIs DEF Stored
  <2>. QED  BY <2>2, <2>3 DEF Steps
<1>5. ASSUME NEW c \in Clients, NEW t \in Topics, DoUnclaim(c, t)
      PROVE  IsDirectory(dir') /\ Steps
  <2>1. dir' = UnclaimResult(dir, c, t)
        /\ ret' = [error |-> UnclaimSegments(dir, c, t).error, topics |-> {}]
    BY <1>5 DEF DoUnclaim, UnclaimResult
  <2>2. IsDirectory(dir')
    BY <2>1, UnclaimIs
  <2>3. \E e \in UnclaimErrors(t) : Stored(SubsOf(dir), Unclaim(OwnersOf(dir), c, t), e, {})
    BY <2>1, UnclaimIs DEF Stored
  <2>. QED  BY <2>2, <2>3 DEF Steps
<1>. QED  BY <1>1, <1>2, <1>3, <1>4, <1>5 DEF Next

(* Whatever calls are made, the nodes form a tree rooted at the bus, only topics
   hold subscribers and only topics without a wildcard an owner
   (directory.rs:52-190, 254-258): the property every other one rests on. *)
THEOREM DirectoryInvariant == Spec => []DirInv
<1>1. Init => DirInv
  BY StartsAsDirectory
<1>2. DirInv /\ [Next]_vars => DirInv'
  <2>1. DirInv /\ Next => DirInv'
    BY EveryCall
  <2>2. DirInv /\ UNCHANGED vars => DirInv'
    BY DEF DirInv, vars
  <2>. QED  BY <2>1, <2>2
<1>. QED  BY <1>1, <1>2, PTL DEF Spec

(* Match is the relation that the patterns mean (topic.rs, README "Topics and
   Paths"): some text of words is accepted by both. *)
MatchIsMeant ==
    Match = {p \in Topics \X Topics : \E w \in Texts : Accepts(p[1], w) /\ Accepts(p[2], w)}

(* get_subscribers (directory.rs:151-155, 192-252) returns the clients with a
   subscription that has a wildcard-free topic in common with the published one,
   for all topics, of any length, and whatever was called before. *)
THEOREM WalkFindsTheMatching ==
    ASSUME MatchIsMeant PROVE Spec => []SubscribersAreTheMatching
<1>1. DirInv => SubscribersAreTheMatching
  <2>1. SUFFICES ASSUME DirInv, NEW t \in Topics
                 PROVE  GetSubscribersOf(dir, t) = GetSubscribers(SubsOf(dir), t)
    BY StoredIs DEF SubscribersAreTheMatching
  <2>2. IsDirectory(dir) /\ IsTree(dir) /\ t \in Paths
    BY <2>1, TopicsAre DEF DirInv, IsDirectory
  <2>3. GetSubscribersOf(dir, t) =
          UNION {dir[s].subscribers : s \in {s \in DOMAIN dir : Common(s, 0, t, 0)}}
    BY <2>2, GetSubscribersOfIs
  <2>4. \A s \in Topics : <<s, t>> \in Match <=> Common(s, 0, t, 0)
    <3>1. \A s \in Topics : <<s, t>> \in Match <=> \E w \in Texts : Accepts(s, w) /\ Accepts(t, w)
      BY DEF MatchIsMeant
    <3>2. \A s \in Topics : s \in Paths
      BY TopicsAre
    <3>. QED  BY <2>2, <3>1, <3>2, CommonIs
  <2>5. ASSUME NEW c, c \in GetSubscribersOf(dir, t)
        PROVE  c \in GetSubscribers(SubsOf(dir), t)
    <3>1. PICK s \in DOMAIN dir : Common(s, 0, t, 0) /\ c \in dir[s].subscribers
      BY <2>3, <2>5
    <3>2. s \in Topics /\ <<c, s>> \in SubsOf(dir)
      BY <2>2, <3>1, NodeIs, SubsOfIs
    <3>3. <<s, t>> \in Match
      BY <2>4, <3>1, <3>2
    <3>4. <<c, s>>[1] = c /\ <<c, s>>[2] = s
      OBVIOUS
    <3>. QED  BY <3>2, <3>3, <3>4 DEF GetSubscribers
  <2>6. ASSUME NEW c, c \in GetSubscribers(SubsOf(dir), t)
        PROVE  c \in GetSubscribersOf(dir, t)
    <3>1. PICK p \in SubsOf(dir) : p[1] = c /\ <<p[2], t>> \in Match
      BY <2>6 DEF GetSubscribers
    <3>. DEFINE s == p[2]
    <3>2. s \in DOMAIN dir /\ c \in dir[s].subscribers
      BY <3>1, SubsOfIs
    <3>3. s \in Topics
      BY <2>2, <3>2, NodeIs
    <3>. HIDE DEF s
    <3>4. Common(s, 0, t, 0)
      BY <2>4, <3>1, <3>3 DEF s
    <3>. QED  BY <2>3, <3>2, <3>4
  <2>. QED  BY <2>5, <2>6
<1>2. Spec => []DirInv
  BY DirectoryInvariant
<1>. QED  BY <1>1, <1>2, PTL

(* get_owner (directory.rs:34-37, 102-117) returns the client whose claim of that
   very topic is stored, and no client for a topic with a wildcard. *)
THEOREM OwnerFound == Spec => []OwnerIsTheClaimant
<1>1. DirInv => OwnerIsTheClaimant
  <2>1. SUFFICES ASSUME DirInv, NEW t \in Topics
                 PROVE  GetOwnerSegments(dir, t) = GetOwner(OwnersOf(dir), t)
    BY StoredIs DEF OwnerIsTheClaimant
  <2>2. (t \in Concrete <=> IsConcrete(t)) /\ (Reaches(dir, t, Len(t)) <=> t \in DOMAIN dir)
    BY <2>1, TopicsAre, ReachesIs DEF DirInv, IsDirectory
  <2>. QED  BY <2>2 DEF GetOwnerSegments, GetOwner, OwnersOf, OwnerOffTrie
<1>2. Spec => []DirInv
  BY DirectoryInvariant
<1>. QED  BY <1>1, <1>2, PTL

(* Every call does to the subscriptions, the owners and its result what the
   abstract directory allows (directory.rs:52-190). *)
THEOREM TrieIsADirectory == Spec => ImplementsRouting
<1>1. Init => Abstract!Init
  <2>1. Init => SubsOf(dir) = {} /\ OwnersOf(dir) = [t \in Topics |-> NoOwner]
    BY StartsAsDirectory
  <2>. QED  BY <2>1, StoredIs DEF Init, Abstract!Init, Abstract!NoOwner, Abstract!NoError,
                                  NoOwner, NoError
<1>2. DirInv /\ [Next]_vars => [Abstract!Next]_(Abstract!vars)
  <2>1. Subscriptions = SubsOf(dir) /\ OwnerOf = OwnersOf(dir)
    BY StoredIs
  <2>2. Subscriptions' = SubsOf(dir') /\ OwnerOf' = OwnersOf(dir')
    BY DEF Subscriptions, SubsOf, OwnerOf, OwnersOf
  <2>3. ASSUME DirInv, Next  PROVE Abstract!Next
    <3>1. Steps
      BY <2>3, EveryCall
    <3>2. ASSUME NEW c \in Clients,
                 Stored(DropSubs(SubsOf(dir), c), DropOwner(OwnersOf(dir), c),
                        NoError, Orphaned(SubsOf(dir), c))
          PROVE  Abstract!DoDropClient(c)
      BY <2>1, <2>2, <3>2
         DEF Stored, Abstract!DoDropClient, Abstract!Returns, Abstract!DropSubs,
             Abstract!DropOwner, Abstract!Orphaned, Abstract!NoError, Abstract!NoOwner,
             DropSubs, DropOwner, Orphaned, NoError, NoOwner
    <3>3. ASSUME NEW c \in Clients, NEW t \in Topics,
                 Stored(Subscribe(SubsOf(dir), c, t), OwnersOf(dir), NoError, {})
          PROVE  Abstract!DoSubscribe(c, t)
      BY <2>1, <2>2, <3>3
         DEF Stored, Abstract!DoSubscribe, Abstract!Returns, Abstract!Subscribe,
             Abstract!NoError, Subscribe, NoError
    <3>4. ASSUME NEW c \in Clients, NEW t \in Topics,
                 Stored(Unsubscribe(SubsOf(dir), c, t), OwnersOf(dir), NoError, {})
          PROVE  Abstract!DoUnsubscribe(c, t)
      BY <2>1, <2>2, <3>4
         DEF Stored, Abstract!DoUnsubscribe, Abstract!Returns, Abstract!Unsubscribe,
             Abstract!NoError, Unsubscribe, NoError
    <3>5. ASSUME NEW c \in Clients, NEW t \in Topics,
                 Stored(SubsOf(dir), Claim(OwnersOf(dir), c, t),
                        ClaimError(OwnersOf(dir), c, t), {})
          PROVE  Abstract!DoClaim(c, t)
      BY <2>1, <2>2, <3>5
         DEF Stored, Abstract!DoClaim, Abstract!Returns, Abstract!Claim, Abstract!ClaimError,
             Abstract!NoError, Abstract!NoOwner, Claim, ClaimError, NoError, NoOwner
    <3>6. ASSUME NEW c \in Clients, NEW t \in Topics, NEW e \in UnclaimErrors(t),
                 Stored(SubsOf(dir), Unclaim(OwnersOf(dir), c, t), e, {})
          PROVE  Abstract!DoUnclaim(c, t)
      BY <2>1, <2>2, <3>6
         DEF Stored, Abstract!DoUnclaim, Abstract!Returns, Abstract!Unclaim,
             Abstract!UnclaimErrors, Abstract!NoError, Abstract!NoOwner,
             Unclaim, UnclaimErrors, NoError, NoOwner
    <3>. QED  BY <3>1, <3>2, <3>3, <3>4, <3>5, <3>6 DEF Steps, Abstract!Next
  <2>4. ASSUME UNCHANGED vars  PROVE UNCHANGED (Abstract!vars)
    BY <2>1, <2>2, <2>4 DEF vars, Abstract!vars
  <2>. QED  BY <2>3, <2>4
<1>3. Spec => []DirInv
  BY DirectoryInvariant
<1>. QED  BY <1>1, <1>2, <1>3, PTL DEF Spec, ImplementsRouting, Abstract!Spec
=============================================================================

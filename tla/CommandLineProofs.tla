-------------------------- MODULE CommandLineProofs --------------------------
(* Proofs about the t2 tool of module CommandLine, for any number of          *)
(* invocations, any commands, names and addresses, and registries of any      *)
(* length.                                                                    *)
EXTENDS CommandLineProperties, Induction, SequenceTheorems

-----------------------------------------------------------------------------
(* A recursive function that a LET defines is one that exists. *)
LEMMA MatchesIs ==
    ASSUME NEW text \in Seq(WordChars \cup Addrs)
    PROVE  /\ Matches(text) \in [0..Len(text) -> [name : Seq(WordChars), entries : Seq(Entries)]]
           /\ Matches(text)[0] = [name |-> <<>>, entries |-> <<>>]
           /\ \A n \in 1..Len(text) :
                 Matches(text)[n] = Matched(Matches(text)[n - 1], text[n])
<1>. DEFINE N == Len(text)
            S == [name : Seq(WordChars), entries : Seq(Entries)]
            b == [name |-> <<>>, entries |-> <<>>]
            step == [n \in 1..N |-> [found \in S |-> Matched(found, text[n])]]
            Is(f) == f = [n \in 0..N |-> IF n = 0 THEN b ELSE Matched(f[n - 1], text[n])]
<1>1. N \in Nat /\ b \in S
  OBVIOUS
<1>2. ASSUME NEW n \in 1..N, NEW found \in S  PROVE Matched(found, text[n]) \in S
  <2>1. text[n] \in WordChars \cup Addrs
    OBVIOUS
  <2>2. CASE text[n] \notin Addrs
    <3>1. Append(found.name, text[n]) \in Seq(WordChars)
      BY <2>1, <2>2
    <3>. QED  BY <2>2, <3>1 DEF Matched
  <2>3. CASE text[n] \in Addrs /\ found.name = <<>>
    BY <2>3 DEF Matched
  <2>4. CASE text[n] \in Addrs /\ found.name # <<>>
    <3>1. Entry(found.name, text[n]) \in Entries
      BY <2>4 DEF Entry, Entries, Names
    <3>2. Append(found.entries, Entry(found.name, text[n])) \in Seq(Entries)
      BY <3>1
    <3>. QED  BY <2>4, <3>2 DEF Matched
  <2>. QED  BY <2>2, <2>3, <2>4
<1>3. step \in [1..N -> [S -> S]]
  BY <1>2
<1>4. PICK f \in [0..N -> S] : f[0] = b /\ \A n \in 1..N : f[n] = step[n][f[n - 1]]
  <2>. HIDE DEF step, N, b, S
  <2>. QED  BY <1>1, <1>3, FoldExists
<1>5. \A n \in 1..N : f[n] = Matched(f[n - 1], text[n])
  <2>1. \A n \in 1..N : n - 1 \in 0..N
    BY <1>1
  <2>. QED  BY <1>4, <2>1
<1>6. Is(f)
  BY <1>4, <1>5
<1>7. Is(Matches(text))
  <2>1. Matches(text) = CHOOSE g : Is(g)
    BY DEF Matches
  <2>. HIDE DEF Is
  <2>. QED  BY <1>6, <2>1
<1>. DEFINE M == Matches(text)
<1>. HIDE DEF M
<1>8. M = [n \in 0..N |-> IF n = 0 THEN b ELSE Matched(M[n - 1], text[n])]
  BY <1>7 DEF M
<1>9. M[0] = b
  BY <1>1, <1>8
<1>10. \A n \in 1..N : M[n] = Matched(M[n - 1], text[n])
  BY <1>1, <1>8
<1>11. M = [n \in 0..N |-> M[n]]
  BY <1>8
<1>12. \A n \in 0..N : M[n] \in S
  <2>1. M[0] \in S
    BY <1>1, <1>9
  <2>2. \A n \in 1..N : M[n - 1] \in S => M[n] \in S
    BY <1>2, <1>10
  <2>. HIDE DEF N, S
  <2>. QED  BY <1>1, <2>1, <2>2, StaysIn
<1>13. M \in [0..N -> S]
  <2>. HIDE DEF S, N
  <2>. QED  BY <1>11, <1>12
<1>. QED  BY <1>9, <1>10, <1>13 DEF M

-----------------------------------------------------------------------------
(* What is written to the registry is read from it *)

Symbols == WordChars \cup Addrs

(* the text has been matched as far as n, with this result *)
At(text, n) == Matches(text)[n]
Now(name, entries) == [name |-> name, entries |-> entries]

LEMMA MatchesStep ==
    ASSUME NEW text \in Seq(Symbols)
    PROVE  /\ \A n \in 0..Len(text) : /\ At(text, n).name \in Seq(WordChars)
                                      /\ At(text, n).entries \in Seq(Entries)
                                      /\ At(text, n) = Now(At(text, n).name, At(text, n).entries)
           /\ At(text, 0) = Now(<<>>, <<>>)
           /\ \A n \in 1..Len(text) : At(text, n) = Matched(At(text, n - 1), text[n])
<1>. DEFINE M == Matches(text)
<1>1. /\ M \in [0..Len(text) -> [name : Seq(WordChars), entries : Seq(Entries)]]
      /\ M[0] = Now(<<>>, <<>>)
      /\ \A n \in 1..Len(text) : M[n] = Matched(M[n - 1], text[n])
  BY MatchesIs DEF Symbols, Now
<1>. HIDE DEF M
<1>2. \A n \in 0..Len(text) : M[n] \in [name : Seq(WordChars), entries : Seq(Entries)]
  BY <1>1
<1>3. \A x \in [name : Seq(WordChars), entries : Seq(Entries)] :
        /\ x.name \in Seq(WordChars) /\ x.entries \in Seq(Entries)
        /\ x = Now(x.name, x.entries)
  BY DEF Now
<1>. QED  BY <1>1, <1>2, <1>3 DEF M, At

LEMMA MatchesPrefix ==
    ASSUME NEW a \in Seq(Symbols), NEW b \in Seq(Symbols)
    PROVE  \A n \in 0..Len(a) : At(a \o b, n) = At(a, n)
<1>. DEFINE T == {n \in 0..Len(a) : At(a \o b, n) = At(a, n)}
            c == a \o b
<1>1. /\ c \in Seq(Symbols) /\ Len(c) = Len(a) + Len(b) /\ Len(a) \in Nat /\ Len(b) \in Nat
      /\ \A n \in 1..Len(a) : c[n] = a[n] /\ n \in 1..Len(c)
  BY ConcatProperties
<1>. HIDE DEF c
<1>2. 0 \in T
  <2>1. At(c, 0) = Now(<<>>, <<>>)
    BY <1>1, MatchesStep
  <2>2. At(a, 0) = Now(<<>>, <<>>)
    BY MatchesStep
  <2>3. 0 \in 0..Len(a)
    BY <1>1
  <2>. QED  BY <2>1, <2>2, <2>3 DEF c
<1>3. ASSUME NEW n \in 0..(Len(a) - 1), n \in T  PROVE n + 1 \in T
  <2>1. n + 1 \in 1..Len(a) /\ n + 1 \in 0..Len(a) /\ (n + 1) - 1 = n /\ n + 1 \in 1..Len(c)
        /\ c[n + 1] = a[n + 1]
    BY <1>1
  <2>2. At(c, n + 1) = Matched(At(c, n), c[n + 1])
    BY <1>1, <2>1, MatchesStep
  <2>3. At(a, n + 1) = Matched(At(a, n), a[n + 1])
    BY <2>1, MatchesStep
  <2>4. At(c, n) = At(a, n)
    BY <1>3 DEF c
  <2>. QED  BY <2>1, <2>2, <2>3, <2>4 DEF c
<1>4. \A n \in 0..Len(a) : n \in T
  <2>. HIDE DEF T
  <2>. QED  BY <1>1, <1>2, <1>3, Upward
<1>. QED  BY <1>4

Line(e) == e.name \o <<e.addr>>

LEMMA LineIs ==
    ASSUME NEW e \in Entries
    PROVE  /\ e.name \in Seq(WordChars) /\ Len(e.name) \in Nat \ {0} /\ e.addr \in Addrs
           /\ Line(e) \in Seq(Symbols) /\ Len(Line(e)) = Len(e.name) + 1
           /\ \A j \in 1..Len(e.name) : Line(e)[j] = e.name[j] /\ e.name[j] \in WordChars
           /\ Line(e)[Len(e.name) + 1] = e.addr
           /\ e = Entry(e.name, e.addr)
<1>1. e.name \in Seq(WordChars) /\ e.name # <<>> /\ e.addr \in Addrs
      /\ e = [name |-> e.name, addr |-> e.addr]
  BY DEF Entries, Names
<1>2. Len(e.name) \in Nat \ {0}
  BY <1>1, EmptySeq
<1>3. e.name \in Seq(Symbols) /\ <<e.addr>> \in Seq(Symbols) /\ Len(<<e.addr>>) = 1
  BY <1>1 DEF Symbols
<1>4. /\ Line(e) \in Seq(Symbols) /\ Len(Line(e)) = Len(e.name) + 1
      /\ \A i \in 1..Len(e.name) + 1 :
            Line(e)[i] = IF i <= Len(e.name) THEN e.name[i] ELSE <<e.addr>>[i - Len(e.name)]
  BY <1>3, ConcatProperties DEF Line
<1>5. \A j \in 1..Len(e.name) : Line(e)[j] = e.name[j] /\ e.name[j] \in WordChars
  BY <1>1, <1>2, <1>4
<1>6. Line(e)[Len(e.name) + 1] = e.addr
  BY <1>2, <1>4
<1>. QED  BY <1>1, <1>2, <1>4, <1>5, <1>6 DEF Entry

LEMMA MatchedIs ==
    ASSUME NEW name, NEW entries, NEW s
    PROVE  /\ s \notin Addrs =>
                 Matched(Now(name, entries), s) = Now(Append(name, s), entries)
           /\ s \in Addrs /\ name # <<>> =>
                 Matched(Now(name, entries), s) = Now(<<>>, Append(entries, Entry(name, s)))
<1>. DEFINE found == Now(name, entries)
<1>1. found.name = name /\ found.entries = entries
  BY DEF Now
<1>2. ASSUME s \notin Addrs  PROVE Matched(found, s) = Now(Append(name, s), entries)
  <2>1. Matched(found, s) = [found EXCEPT !.name = Append(@, s)]
    BY <1>2 DEF Matched
  <2>. QED  BY <2>1 DEF Now
<1>3. ASSUME s \in Addrs, name # <<>>
      PROVE  Matched(found, s) = Now(<<>>, Append(entries, Entry(name, s)))
  <2>. HIDE DEF found
  <2>. QED  BY ONLY <1>1, <1>3 DEF Matched, Now
<1>. QED  BY <1>2, <1>3

(* A line adds its entry. *)
LEMMA LineMatched ==
    ASSUME NEW a \in Seq(Symbols), At(a, Len(a)).name = <<>>, NEW e \in Entries
    PROVE  /\ a \o Line(e) \in Seq(Symbols)
           /\ At(a \o Line(e), Len(a \o Line(e))) =
                 Now(<<>>, Append(At(a, Len(a)).entries, e))
<1>. DEFINE c == a \o Line(e)
            m == Len(a)
            k == Len(e.name)
            old == At(a, m).entries
            T == {j \in 0..k : At(c, m + j) = Now(SubSeq(e.name, 1, j), old)}
<1>1. /\ e.name \in Seq(WordChars) /\ k \in Nat \ {0} /\ e.addr \in Addrs /\ m \in Nat
      /\ Line(e) \in Seq(Symbols) /\ Len(Line(e)) = k + 1
      /\ \A j \in 1..k : Line(e)[j] = e.name[j] /\ e.name[j] \in WordChars
      /\ Line(e)[k + 1] = e.addr /\ e = Entry(e.name, e.addr)
  BY LineIs
<1>2. /\ c \in Seq(Symbols) /\ Len(c) = m + k + 1
      /\ \A i \in 1..(m + k + 1) : c[i] = IF i <= m THEN a[i] ELSE Line(e)[i - m]
  <2>1. /\ c \in Seq(Symbols) /\ Len(c) = m + Len(Line(e))
        /\ \A i \in 1..(m + Len(Line(e))) : c[i] = IF i <= m THEN a[i] ELSE Line(e)[i - m]
    BY <1>1, ConcatProperties
  <2>2. m + Len(Line(e)) = m + k + 1
    BY <1>1
  <2>. HIDE DEF c, m, k
  <2>. QED  BY <2>1, <2>2
<1>3. At(c, m) = Now(<<>>, old)
  <2>1. m \in 0..Len(a)
    BY <1>1
  <2>2. At(c, m) = At(a, m)
    BY <1>1, <2>1, MatchesPrefix
  <2>3. At(a, m) = Now(At(a, m).name, old)
    BY <2>1, MatchesStep
  <2>. QED  BY <2>2, <2>3
<1>. HIDE DEF c, m, k, old
<1>4. 0 \in T
  <2>1. SubSeq(e.name, 1, 0) = <<>>
    BY SubSeqEmpty
  <2>2. m + 0 = m /\ 0 \in 0..k
    BY <1>1
  <2>3. At(c, m + 0) = Now(SubSeq(e.name, 1, 0), old)
    BY <1>3, <2>1, <2>2
  <2>. QED  BY <2>2, <2>3
<1>5. ASSUME NEW j \in 0..(k - 1), j \in T  PROVE j + 1 \in T
  <2>1. j + 1 \in 1..k /\ j + 1 \in 0..k /\ m + (j + 1) \in 1..(m + k + 1)
        /\ (m + (j + 1)) - 1 = m + j /\ (m + (j + 1)) - m = j + 1 /\ ~(m + (j + 1) <= m)
    BY <1>1
  <2>2. At(c, m + (j + 1)) = Matched(At(c, m + j), c[m + (j + 1)])
    BY <1>2, <2>1, MatchesStep
  <2>3. c[m + (j + 1)] = e.name[j + 1] /\ e.name[j + 1] \notin Addrs
    BY <1>1, <1>2, <2>1, CommandLineAssumption
  <2>4. At(c, m + j) = Now(SubSeq(e.name, 1, j), old)
    BY <1>5
  <2>5. Append(SubSeq(e.name, 1, j), e.name[j + 1]) = SubSeq(e.name, 1, j + 1)
    <3>1. 1 \in 1..Len(e.name) /\ j + 1 \in 1..Len(e.name) /\ (j + 1) - 1 = j
      BY <1>1, <2>1 DEF k
    <3>2. SubSeq(e.name, 1, j + 1) = SubSeq(e.name, 1, j) \o <<e.name[j + 1]>>
      BY <1>1, <3>1, SubSeqRecursiveSecond
    <3>3. SubSeq(e.name, 1, j) \in Seq(WordChars)
      <4>1. \A i \in 1..j : e.name[i] \in WordChars
        BY <1>1, <2>1
      <4>. QED  BY <2>1, <4>1, SubSeqProperties
    <3>4. e.name[j + 1] \in WordChars
      BY <1>1, <2>1
    <3>. QED  BY <3>2, <3>3, <3>4, AppendIsConcat
  <2>6. Matched(At(c, m + j), e.name[j + 1]) =
           Now(Append(SubSeq(e.name, 1, j), e.name[j + 1]), old)
    BY <2>3, <2>4, MatchedIs
  <2>. QED  BY <2>1, <2>2, <2>3, <2>5, <2>6
<1>6. \A j \in 0..k : j \in T
  <2>. HIDE DEF T
  <2>. QED  BY <1>1, <1>4, <1>5, Upward
<1>7. At(c, m + k) = Now(e.name, old)
  <2>1. At(c, m + k) = Now(SubSeq(e.name, 1, k), old)
    BY <1>1, <1>6
  <2>2. SubSeq(e.name, 1, k) = e.name
    BY <1>1, SubSeqFull DEF k
  <2>. QED  BY <2>1, <2>2
<1>8. At(c, m + k + 1) = Now(<<>>, Append(old, e))
  <2>1. m + k + 1 \in 1..(m + k + 1) /\ (m + k + 1) - 1 = m + k /\ (m + k + 1) - m = k + 1
        /\ ~(m + k + 1 <= m)
    BY <1>1
  <2>2. At(c, m + k + 1) = Matched(At(c, m + k), c[m + k + 1])
    BY <1>2, <2>1, MatchesStep
  <2>3. c[m + k + 1] = e.addr
    <3>1. c[m + k + 1] = IF m + k + 1 <= m THEN a[m + k + 1] ELSE Line(e)[(m + k + 1) - m]
      BY ONLY <1>2, <2>1
    <3>2. c[m + k + 1] = Line(e)[k + 1]
      BY ONLY <2>1, <3>1
    <3>. QED  BY ONLY <1>1, <3>2
  <2>4. e.name # <<>>
    BY <1>1, EmptySeq DEF k
  <2>5. Matched(At(c, m + k), e.addr) = Now(<<>>, Append(old, Entry(e.name, e.addr)))
    BY <1>1, <1>7, <2>4, MatchedIs
  <2>. QED  BY <1>1, <2>2, <2>3, <2>5
<1>. QED  BY <1>2, <1>8 DEF c, m, old

LEMMA FormatIs ==
    ASSUME NEW es \in Seq(Entries)
    PROVE  \E F \in [0..Len(es) -> Seq(Symbols)] :
              /\ F[0] = <<>> /\ Format(es) = F[Len(es)]
              /\ \A i \in 1..Len(es) : F[i] = F[i - 1] \o Line(es[i])
<1>. DEFINE N == Len(es)
            lines == [i \in DOMAIN es |-> Line(es[i])]
            step == [i \in 1..N |-> [text \in Seq(Symbols) |-> text \o Line(es[i])]]
<1>1. N \in Nat /\ DOMAIN es = 1..N /\ <<>> \in Seq(Symbols)
      /\ \A i \in 1..N : es[i] \in Entries /\ Line(es[i]) \in Seq(Symbols)
  BY LineIs
<1>2. step \in [1..N -> [Seq(Symbols) -> Seq(Symbols)]]
  BY <1>1, ConcatProperties
<1>3. PICK F \in [0..N -> Seq(Symbols)] :
         F[0] = <<>> /\ \A i \in 1..N : F[i] = step[i][F[i - 1]]
  <2>. DEFINE S == Seq(Symbols)
              none == <<>>
  <2>1. N \in Nat /\ none \in S /\ step \in [1..N -> [S -> S]]
    BY <1>1, <1>2
  <2>. HIDE DEF step, N, S, none
  <2>2. \E F \in [0..N -> S] : F[0] = none /\ \A i \in 1..N : F[i] = step[i][F[i - 1]]
    BY <2>1, FoldExists
  <2>. QED  BY <2>2 DEF S, none
<1>4. \A i \in 1..N : F[i] = F[i - 1] \o Line(es[i])
  <2>1. \A i \in 1..N : i - 1 \in 0..N
    BY <1>1
  <2>. QED  BY <1>3, <2>1
<1>5. Format(es) = FlattenSeq(lines) /\ lines \in Seq(Seq(Symbols)) /\ Len(lines) = N
      /\ \A i \in 1..N : lines[i] = Line(es[i])
  BY <1>1 DEF Format, Line
<1>. HIDE DEF lines, step, N
<1>6. FlattenSeq(lines) = F[N]
  <2>1. CASE N = 0
    <3>1. FlattenSeq(lines) = lines /\ lines = <<>>
      BY <1>5, <2>1, EmptySeq DEF FlattenSeq
    <3>. QED  BY <1>3, <2>1, <3>1
  <2>2. CASE N # 0
    <3>. DEFINE Is(f) == f = [i \in 1..N |-> IF i = 1 THEN lines[i] ELSE f[i - 1] \o lines[i]]
                G == [i \in 1..N |-> F[i]]
                flat == CHOOSE f : Is(f)
    <3>1. FlattenSeq(lines) = flat[N]
      BY <1>5, <2>2 DEF FlattenSeq
    <3>2. Is(G)
      <4>. SUFFICES ASSUME NEW i \in 1..N
                    PROVE  F[i] = IF i = 1 THEN lines[i] ELSE G[i - 1] \o lines[i]
        OBVIOUS
      <4>1. CASE i = 1
        <5>1. F[i] = <<>> \o Line(es[i])
          <6>1. i - 1 = 0
            BY <4>1
          <6>. QED  BY <1>3, <1>4, <6>1
        <5>. QED  BY <1>1, <1>5, <4>1, <5>1, ConcatEmptySeq
      <4>2. CASE i # 1
        <5>1. i - 1 \in 1..N
          BY <1>1, <4>2
        <5>2. G[i - 1] = F[i - 1]
          BY <5>1
        <5>. HIDE DEF G
        <5>. QED  BY <1>4, <1>5, <4>2, <5>2
      <4>. QED  BY <4>1, <4>2
    <3>. HIDE DEF G
    <3>3. Is(flat)
      <4>. HIDE DEF Is
      <4>. QED  BY <3>2
    <3>. HIDE DEF flat
    <3>. DEFINE T == {i \in 0..N : i # 0 => flat[i] = F[i]}
    <3>4. ASSUME NEW i \in 0..(N - 1), i \in T  PROVE i + 1 \in T
      <4>1. i + 1 \in 1..N /\ i + 1 \in 0..N /\ (i + 1) - 1 = i
        BY <1>1
      <4>2. CASE i = 0
        <5>1. flat[i + 1] = lines[i + 1]
          BY <3>3, <4>1, <4>2
        <5>2. F[i + 1] = <<>> \o Line(es[i + 1])
          BY <1>3, <1>4, <4>1, <4>2
        <5>3. F[i + 1] = Line(es[i + 1])
          BY <1>1, <4>1, <5>2, ConcatEmptySeq
        <5>. QED  BY <1>5, <4>1, <5>1, <5>3
      <4>3. CASE i # 0
        <5>1. flat[i + 1] = flat[i] \o lines[i + 1]
          <6>1. i + 1 # 1
            BY <1>1, <4>3
          <6>. QED  BY <3>3, <4>1, <6>1
        <5>. QED  BY <1>4, <1>5, <3>4, <4>1, <4>3, <5>1
      <4>. QED  BY <4>2, <4>3
    <3>5. 0 \in T
      BY <1>1
    <3>6. \A i \in 0..N : i \in T
      <4>. HIDE DEF T
      <4>. QED  BY <1>1, <3>4, <3>5, Upward
    <3>. QED  BY <1>1, <2>2, <3>1, <3>6
  <2>. QED  BY <2>1, <2>2
<1>. QED  BY <1>3, <1>4, <1>5, <1>6 DEF N

(* parse_config reads just the entries that run has written, whatever their     *)
(* names and addresses (t2.rs:268-274, 352-370).                                *)
THEOREM ParsesAsFormatted ==
    ASSUME NEW es \in Seq(Entries)
    PROVE  Format(es) \in Seq(Symbols) /\ Parse(Format(es)) = es
<1>1. PICK F \in [0..Len(es) -> Seq(Symbols)] :
         /\ F[0] = <<>> /\ Format(es) = F[Len(es)]
         /\ \A i \in 1..Len(es) : F[i] = F[i - 1] \o Line(es[i])
  BY FormatIs
<1>. DEFINE N == Len(es)
            T == {i \in 0..N : At(F[i], Len(F[i])) = Now(<<>>, SubSeq(es, 1, i))}
<1>2. N \in Nat /\ \A i \in 1..N : es[i] \in Entries
  OBVIOUS
<1>. HIDE DEF N
<1>3. 0 \in T
  <2>1. F[0] \in Seq(Symbols) /\ Len(F[0]) = 0
    BY <1>1, EmptySeq
  <2>2. At(F[0], 0) = Now(<<>>, <<>>)
    BY <2>1, MatchesStep
  <2>3. SubSeq(es, 1, 0) = <<>>
    BY SubSeqEmpty
  <2>4. 0 \in 0..N
    BY <1>2
  <2>5. At(F[0], Len(F[0])) = Now(<<>>, SubSeq(es, 1, 0))
    BY <2>1, <2>2, <2>3
  <2>. QED  BY <2>4, <2>5
<1>4. ASSUME NEW i \in 0..(N - 1), i \in T  PROVE i + 1 \in T
  <2>1. i + 1 \in 1..N /\ i + 1 \in 0..N /\ (i + 1) - 1 = i /\ i \in 0..N
    BY <1>2
  <2>2. F[i] \in Seq(Symbols) /\ F[i + 1] = F[i] \o Line(es[i + 1]) /\ es[i + 1] \in Entries
    BY <1>1, <1>2, <2>1 DEF N
  <2>3. At(F[i], Len(F[i])) = Now(<<>>, SubSeq(es, 1, i))
    BY <1>4
  <2>4. At(F[i], Len(F[i])).name = <<>> /\ At(F[i], Len(F[i])).entries = SubSeq(es, 1, i)
    BY <2>3 DEF Now
  <2>5. At(F[i + 1], Len(F[i + 1])) = Now(<<>>, Append(SubSeq(es, 1, i), es[i + 1]))
    BY <2>2, <2>4, LineMatched
  <2>6. Append(SubSeq(es, 1, i), es[i + 1]) = SubSeq(es, 1, i + 1)
    <3>1. 1 \in 1..Len(es) /\ i + 1 \in 1..Len(es)
      BY <1>2, <2>1 DEF N
    <3>2. SubSeq(es, 1, i + 1) = SubSeq(es, 1, i) \o <<es[i + 1]>>
      BY <2>1, <3>1, SubSeqRecursiveSecond
    <3>3. SubSeq(es, 1, i) \in Seq(Entries)
      <4>1. \A j \in 1..i : es[j] \in Entries
        BY <1>2, <2>1
      <4>. QED  BY <2>1, <4>1, SubSeqProperties
    <3>. QED  BY <2>2, <3>2, <3>3, AppendIsConcat
  <2>. QED  BY <2>1, <2>5, <2>6
<1>5. \A i \in 0..N : i \in T
  <2>. HIDE DEF T
  <2>. QED  BY <1>2, <1>3, <1>4, Upward
<1>6. At(F[N], Len(F[N])) = Now(<<>>, SubSeq(es, 1, N))
  BY <1>2, <1>5
<1>7. SubSeq(es, 1, N) = es
  BY SubSeqFull DEF N
<1>. QED  BY <1>1, <1>2, <1>6, <1>7 DEF N, Parse, At, Now

LEMMA ParseType ==
    ASSUME NEW text \in Seq(Symbols)
    PROVE  Parse(text) \in Seq(Entries)
<1>1. Len(text) \in 0..Len(text)
  OBVIOUS
<1>. QED  BY <1>1, MatchesStep DEF Parse, At

-----------------------------------------------------------------------------
(* What a register or an unregister makes of the registry *)

Unique(es) == \A i, j \in 1..Len(es) : es[i].name = es[j].name => i = j

LEMMA BindingIn ==
    ASSUME NEW es \in Seq(Entries), NEW b
    PROVE  b \in Bindings(es) <=> \E i \in 1..Len(es) : b = es[i]
BY DEF Bindings

(* What a write that fails leaves to be read: some of the entries *)
PartOf(part, es) ==
    /\ Bindings(part) \subseteq Bindings(es)
    /\ Unique(es) => Unique(part)

StartOf(part, es) == Len(part) <= Len(es) /\ \A i \in 1..Len(part) : part[i] = es[i]

LEMMA StartIsPart ==
    ASSUME NEW part \in Seq(Entries), NEW es \in Seq(Entries), StartOf(part, es)
    PROVE  PartOf(part, es)
<1>1. \A i \in 1..Len(part) : i \in 1..Len(es) /\ part[i] = es[i]
  BY DEF StartOf
<1>2. Bindings(part) \subseteq Bindings(es)
  <2>. SUFFICES ASSUME NEW b, b \in Bindings(part)  PROVE b \in Bindings(es)
    OBVIOUS
  <2>1. PICK i \in 1..Len(part) : b = part[i]
    BY BindingIn
  <2>. QED  BY <1>1, <2>1, BindingIn
<1>3. Unique(es) => Unique(part)
  BY <1>1 DEF Unique
<1>. QED  BY <1>2, <1>3 DEF PartOf

LEMMA GrowsOn ==
    ASSUME NEW part \in Seq(Entries), NEW es \in Seq(Entries), NEW e \in Entries,
           StartOf(part, es)
    PROVE  StartOf(part, Append(es, e))
<1>1. /\ Len(Append(es, e)) = Len(es) + 1
      /\ \A i \in 1..Len(es) : Append(es, e)[i] = es[i]
  BY AppendProperties
<1>2. \A i \in 1..Len(part) : i \in 1..Len(es)
  BY DEF StartOf
<1>. QED  BY <1>1, <1>2 DEF StartOf

LEMMA EntriesGrow ==
    ASSUME NEW text \in Seq(Symbols), NEW m \in 0..Len(text)
    PROVE  StartOf(At(text, m).entries, At(text, Len(text)).entries)
<1>. DEFINE N == Len(text)
            T == {n \in 0..(N - m) : StartOf(At(text, m).entries, At(text, m + n).entries)}
<1>1. N \in Nat /\ m \in Nat /\ N - m \in Nat /\ m + (N - m) = N /\ m + 0 = m
  OBVIOUS
<1>2. \A n \in 0..N : /\ At(text, n).name \in Seq(WordChars)
                       /\ At(text, n).entries \in Seq(Entries)
                       /\ At(text, n) = Now(At(text, n).name, At(text, n).entries)
  BY MatchesStep
<1>3. 0 \in T
  <2>1. StartOf(At(text, m).entries, At(text, m).entries)
    BY <1>2 DEF StartOf
  <2>. QED  BY <1>1, <2>1
<1>4. ASSUME NEW n \in 0..((N - m) - 1), n \in T  PROVE n + 1 \in T
  <2>. DEFINE k == m + n
              old == At(text, k)
              now == At(text, k + 1)
  <2>1. k \in 0..N /\ k + 1 \in 1..N /\ k + 1 \in 0..N /\ (k + 1) - 1 = k
        /\ n + 1 \in 0..(N - m) /\ m + (n + 1) = k + 1
    BY <1>1
  <2>2. now = Matched(old, text[k + 1])
    BY <2>1, MatchesStep
  <2>3. StartOf(At(text, m).entries, old.entries)
    BY <1>4
  <2>4. /\ At(text, m).entries \in Seq(Entries) /\ old.entries \in Seq(Entries)
        /\ old = Now(old.name, old.entries) /\ old.name \in Seq(WordChars)
    BY <1>2, <2>1
  <2>5. text[k + 1] \in Symbols
    BY <2>1
  <2>. HIDE DEF k, old, now
  <2>6. StartOf(At(text, m).entries, now.entries)
    <3>. DEFINE s == text[k + 1]
    <3>1. CASE s \notin Addrs
      <4>1. now = Now(Append(old.name, s), old.entries)
        BY <2>2, <2>4, <3>1, MatchedIs
      <4>. QED  BY <2>3, <4>1 DEF Now
    <3>2. CASE s \in Addrs /\ old.name # <<>>
      <4>1. now = Now(<<>>, Append(old.entries, Entry(old.name, s)))
        BY <2>2, <2>4, <3>2, MatchedIs
      <4>2. Entry(old.name, s) \in Entries
        BY <2>4, <3>2 DEF Entry, Entries, Names
      <4>3. StartOf(At(text, m).entries, Append(old.entries, Entry(old.name, s)))
        BY <2>3, <2>4, <4>2, GrowsOn
      <4>. QED  BY <4>1, <4>3 DEF Now
    <3>3. CASE s \in Addrs /\ old.name = <<>>
      <4>1. now = old
        BY <2>2, <3>3 DEF Matched
      <4>. QED  BY <2>3, <4>1
    <3>. QED  BY <3>1, <3>2, <3>3
  <2>. QED  BY <2>1, <2>6 DEF now, k
<1>5. \A n \in 0..(N - m) : n \in T
  <2>. HIDE DEF T, N
  <2>. QED  BY <1>1, <1>3, <1>4, Upward
<1>6. N - m \in T
  <2>1. N - m \in 0..(N - m)
    BY <1>1
  <2>. HIDE DEF T, N
  <2>. QED  BY <1>5, <2>1
<1>. QED  BY <1>1, <1>6

LEMMA CutFormat ==
    ASSUME NEW es \in Seq(Entries), NEW n \in 0..Len(Format(es))
    PROVE  /\ SubSeq(Format(es), 1, n) \in Seq(Symbols)
           /\ PartOf(Parse(SubSeq(Format(es), 1, n)), es)
<1>. DEFINE text == Format(es)
            a == SubSeq(text, 1, n)
            b == SubSeq(text, n + 1, Len(text))
<1>1. text \in Seq(Symbols) /\ Parse(text) = es
  BY ParsesAsFormatted
<1>2. Len(text) \in Nat /\ n \in Nat
  BY <1>1
<1>. HIDE DEF text
<1>3. a \in Seq(Symbols) /\ Len(a) = n
  <2>1. \A i \in 1..n : text[i] \in Symbols
    BY <1>1, <1>2 DEF text
  <2>. QED  BY <1>2, <2>1, SubSeqProperties
<1>4. b \in Seq(Symbols)
  <2>1. \A i \in (n + 1)..Len(text) : text[i] \in Symbols
    BY <1>1, <1>2
  <2>. QED  BY <1>2, <2>1, SubSeqProperties
<1>5. a \o b = text
  <2>1. n \in 0..Len(text)
    BY DEF text
  <2>2. SubSeq(text, 1, n) \o SubSeq(text, n + 1, Len(text)) = SubSeq(text, 1, Len(text))
    <3>1. 1 \in 1..Len(text) + 1 /\ n \in (1 - 1)..Len(text) /\ Len(text) \in n..Len(text)
      BY <1>2, <2>1
    <3>. QED  BY <1>1, <3>1, ConcatAdjacentSubSeq
  <2>3. SubSeq(text, 1, Len(text)) = text
    BY <1>1, SubSeqFull
  <2>. QED  BY <2>2, <2>3
<1>. HIDE DEF a, b
<1>6. At(text, n) = At(a, n)
  <2>1. n \in 0..Len(a)
    BY <1>2, <1>3
  <2>2. At(a \o b, n) = At(a, n)
    BY <1>3, <1>4, <2>1, MatchesPrefix
  <2>. QED  BY <1>5, <2>2
<1>7. StartOf(Parse(a), es)
  <2>1. StartOf(At(text, n).entries, At(text, Len(text)).entries)
    <3>1. n \in 0..Len(text)
      BY DEF text
    <3>. QED  BY <1>1, <3>1, EntriesGrow
  <2>2. At(text, Len(text)).entries = es
    BY <1>1 DEF At, Parse
  <2>3. Parse(a) = At(a, n).entries
    BY <1>3 DEF At, Parse
  <2>. QED  BY <1>6, <2>1, <2>2, <2>3
<1>8. PartOf(Parse(a), es)
  <2>1. Parse(a) \in Seq(Entries)
    BY <1>3, ParseType
  <2>. QED  BY <1>7, <2>1, StartIsPart
<1>. QED  BY <1>3, <1>8 DEF a, text

LEMMA RetainedIs ==
    ASSUME NEW es \in Seq(Entries), NEW name
    PROVE  /\ Retained(es, name) \in [0..Len(es) -> Seq(Entries)]
           /\ Retained(es, name)[0] = <<>>
           /\ \A n \in 1..Len(es) :
                 Retained(es, name)[n] =
                    IF es[n].name = name THEN Retained(es, name)[n - 1]
                    ELSE Append(Retained(es, name)[n - 1], es[n])
<1>. DEFINE N == Len(es)
            S == Seq(Entries)
            none == <<>>
            Next1(k, n) == IF es[n].name = name THEN k ELSE Append(k, es[n])
            step == [n \in 1..N |-> [k \in S |-> Next1(k, n)]]
            Is(f) == f = [n \in 0..N |-> IF n = 0 THEN none ELSE Next1(f[n - 1], n)]
            K == Retained(es, name)
<1>1. N \in Nat /\ none \in S
  OBVIOUS
<1>2. \A n \in 1..N : \A k \in S : Next1(k, n) \in S
  BY AppendProperties
<1>3. K = CHOOSE f : Is(f)
  BY DEF Retained
<1>. HIDE DEF N, S, none, Next1, K
<1>4. step \in [1..N -> [S -> S]]
  BY <1>2
<1>5. PICK f \in [0..N -> S] : f[0] = none /\ \A n \in 1..N : f[n] = step[n][f[n - 1]]
  <2>. HIDE DEF step
  <2>. QED  BY <1>1, <1>4, FoldExists
<1>6. \A n \in 1..N : f[n] = Next1(f[n - 1], n)
  <2>1. \A n \in 1..N : n - 1 \in 0..N
    BY <1>1
  <2>. QED  BY <1>5, <2>1
<1>7. Is(f)
  BY <1>5, <1>6
<1>8. Is(K)
  <2>. HIDE DEF Is
  <2>. QED  BY <1>3, <1>7
<1>9. K[0] = none /\ \A n \in 1..N : K[n] = Next1(K[n - 1], n)
  BY <1>1, <1>8
<1>10. K = [n \in 0..N |-> K[n]]
  BY <1>8
<1>11. \A n \in 0..N : K[n] \in S
  <2>1. K[0] \in S
    BY <1>1, <1>9
  <2>2. \A n \in 1..N : K[n - 1] \in S => K[n] \in S
    BY <1>2, <1>9
  <2>. QED  BY <1>1, <2>1, <2>2, StaysIn
<1>12. K \in [0..N -> S]
  BY <1>10, <1>11
<1>. QED  BY <1>9, <1>12 DEF N, S, none, Next1, K

(* k is what is kept of the first n entries of es. *)
KeptOf(es, name, n, k) ==
    /\ \A b : (\E i \in 1..Len(k) : b = k[i]) <=> (\E i \in 1..n : b = es[i] /\ b.name # name)
    /\ Unique(es) => Unique(k)
    /\ n > 0 /\ es[1].name # name => Len(k) > 0 /\ k[1] = es[1]

LEMMA KeepsOn ==
    ASSUME NEW es \in Seq(Entries), NEW name, NEW n \in Nat, n + 1 \in 1..Len(es),
           NEW k \in Seq(Entries), KeptOf(es, name, n, k), NEW l,
           l = IF es[n + 1].name = name THEN k ELSE Append(k, es[n + 1])
    PROVE  KeptOf(es, name, n + 1, l)
<1>. DEFINE e == es[n + 1]
<1>1. e \in Entries /\ Len(k) \in Nat /\ Len(es) \in Nat
  OBVIOUS
<1>2. \A i \in 1..(n + 1) : i \in 1..n \/ i = n + 1
  OBVIOUS
<1>3. \A i \in 1..n : i \in 1..(n + 1) /\ i \in 1..Len(es)
  OBVIOUS
<1>4. n + 1 \in 1..(n + 1) /\ n + 1 > 0
  OBVIOUS
<1>5. CASE e.name = name
  <2>1. l = k
    BY <1>5
  <2>2. \A b : (\E i \in 1..n : b = es[i] /\ b.name # name)
               <=> (\E i \in 1..(n + 1) : b = es[i] /\ b.name # name)
    BY <1>2, <1>3, <1>5
  <2>3. es[1].name # name => n > 0
    BY <1>5
  <2>4. /\ \A b : (\E i \in 1..Len(k) : b = k[i]) <=> (\E i \in 1..n : b = es[i] /\ b.name # name)
        /\ Unique(es) => Unique(k)
        /\ n > 0 /\ es[1].name # name => Len(k) > 0 /\ k[1] = es[1]
    BY DEF KeptOf
  <2>5. \A b : (\E i \in 1..Len(k) : b = k[i])
               <=> (\E i \in 1..(n + 1) : b = es[i] /\ b.name # name)
    BY ONLY <2>2, <2>4
  <2>6. KeptOf(es, name, n + 1, k)
    BY ONLY <2>3, <2>4, <2>5 DEF KeptOf
  <2>. QED  BY <2>1, <2>6
<1>6. CASE e.name # name
  <2>1. l = Append(k, e)
    BY <1>6
  <2>2. /\ Len(l) = Len(k) + 1 /\ l[Len(k) + 1] = e
        /\ \A i \in 1..Len(k) : l[i] = k[i]
    BY <1>1, <2>1, AppendProperties
  <2>3. \A i \in 1..Len(l) : i \in 1..Len(k) \/ i = Len(k) + 1
    BY <1>1, <2>2
  <2>4. \A i \in 1..Len(k) : i \in 1..Len(l)
    BY <1>1, <2>2
  <2>5. Len(k) + 1 \in 1..Len(l)
    BY <1>1, <2>2
  <2>6. \A b : (\E i \in 1..Len(l) : b = l[i]) <=> (\E i \in 1..Len(k) : b = k[i]) \/ b = e
    BY <2>2, <2>3, <2>4, <2>5
  <2>7. \A b : (\E i \in 1..(n + 1) : b = es[i] /\ b.name # name)
               <=> (\E i \in 1..n : b = es[i] /\ b.name # name) \/ b = e
    BY <1>2, <1>3, <1>4, <1>6
  <2>8. \A b : (\E i \in 1..Len(k) : b = k[i]) <=> (\E i \in 1..n : b = es[i] /\ b.name # name)
    BY DEF KeptOf
  <2>9. Unique(es) => Unique(l)
    <3>. SUFFICES ASSUME Unique(es), NEW i \in 1..Len(l), NEW j \in 1..Len(l),
                         l[i].name = l[j].name
                  PROVE  i = j
      BY DEF Unique
    <3>1. Unique(k)
      BY DEF KeptOf
    <3>2. \A x \in 1..Len(k) : k[x].name # e.name
      <4>. TAKE x \in 1..Len(k)
      <4>1. PICK y \in 1..n : k[x] = es[y]
        BY <2>8
      <4>2. y # n + 1 /\ y \in 1..Len(es)
        BY <1>3
      <4>. QED  BY <4>1, <4>2 DEF Unique
    <3>3. CASE i \in 1..Len(k) /\ j \in 1..Len(k)
      <4>1. l[i] = k[i] /\ l[j] = k[j]
        BY <2>2, <3>3
      <4>. QED  BY <3>1, <3>3, <4>1 DEF Unique
    <3>4. CASE i = Len(k) + 1 /\ j \in 1..Len(k)
      BY <2>2, <3>2, <3>4
    <3>5. CASE i \in 1..Len(k) /\ j = Len(k) + 1
      BY <2>2, <3>2, <3>5
    <3>. QED  BY <2>3, <3>3, <3>4, <3>5
  <2>10. es[1].name # name => Len(l) > 0 /\ l[1] = es[1]
    <3>1. CASE n = 0
      <4>1. \A i \in 1..n : FALSE
        BY <3>1
      <4>2. \A i \in 1..Len(k) : FALSE
        BY <2>8, <4>1
      <4>3. Len(k) = 0
        BY <1>1, <4>2
      <4>. QED  BY <2>2, <3>1, <4>3
    <3>2. CASE n > 0
      <4>1. es[1].name # name => Len(k) > 0 /\ k[1] = es[1]
        BY <3>2 DEF KeptOf
      <4>2. Len(k) > 0 => 1 \in 1..Len(k) /\ Len(l) > 0
        BY <1>1, <2>2
      <4>. QED  BY <2>2, <4>1, <4>2
    <3>. QED  BY <3>1, <3>2
  <2>11. \A b : (\E i \in 1..Len(l) : b = l[i])
                <=> (\E i \in 1..(n + 1) : b = es[i] /\ b.name # name)
    <3>. HIDE DEF e
    <3>. QED  BY ONLY <2>6, <2>7, <2>8
  <2>. QED  BY ONLY <2>9, <2>10, <2>11 DEF KeptOf
<1>. QED  BY <1>5, <1>6

LEMMA WithoutIs ==
    ASSUME NEW es \in Seq(Entries), NEW name, NEW w, w = Without(es, name)
    PROVE  /\ w \in Seq(Entries)
           /\ \A b : b \in Bindings(w) <=> b \in Bindings(es) /\ b.name # name
           /\ Unique(es) => Unique(w)
           /\ es # <<>> /\ es[1].name # name => w # <<>> /\ w[1] = es[1]
<1>. DEFINE K == Retained(es, name)
            T == {n \in 0..Len(es) : KeptOf(es, name, n, K[n])}
<1>1. /\ K \in [0..Len(es) -> Seq(Entries)] /\ K[0] = <<>> /\ w = K[Len(es)]
      /\ \A n \in 1..Len(es) : K[n] = IF es[n].name = name THEN K[n - 1]
                                      ELSE Append(K[n - 1], es[n])
  BY RetainedIs DEF Without
<1>2. Len(es) \in Nat
  OBVIOUS
<1>. HIDE DEF K
<1>3. 0 \in T
  <2>1. Len(K[0]) = 0 /\ 0 \in 0..Len(es)
    BY <1>1, <1>2, EmptySeq
  <2>2. \A i \in 1..0 : FALSE
    OBVIOUS
  <2>3. KeptOf(es, name, 0, K[0])
    BY <2>1, <2>2 DEF KeptOf, Unique
  <2>. QED  BY <2>1, <2>3
<1>4. ASSUME NEW n \in 0..(Len(es) - 1), n \in T  PROVE n + 1 \in T
  <2>1. n \in Nat /\ n + 1 \in 1..Len(es) /\ n + 1 \in 0..Len(es) /\ (n + 1) - 1 = n /\ n \in 0..Len(es)
    BY <1>2
  <2>2. K[n + 1] = IF es[n + 1].name = name THEN K[n] ELSE Append(K[n], es[n + 1])
    BY <1>1, <2>1
  <2>3. K[n] \in Seq(Entries) /\ KeptOf(es, name, n, K[n])
    BY <1>1, <1>4, <2>1
  <2>4. KeptOf(es, name, n + 1, K[n + 1])
    BY <2>1, <2>2, <2>3, KeepsOn
  <2>. QED  BY <2>1, <2>4
<1>5. \A n \in 0..Len(es) : n \in T
  <2>. HIDE DEF T
  <2>. QED  BY <1>2, <1>3, <1>4, Upward
<1>6. Len(es) \in 0..Len(es)
  BY <1>2
<1>7. KeptOf(es, name, Len(es), w)
  BY <1>1, <1>5, <1>6
<1>8. w \in Seq(Entries)
  BY <1>1, <1>6
<1>9. \A b : b \in Bindings(w) <=> b \in Bindings(es) /\ b.name # name
  <2>1. \A b : (\E i \in 1..Len(w) : b = w[i])
               <=> (\E i \in 1..Len(es) : b = es[i] /\ b.name # name)
    BY <1>7 DEF KeptOf
  <2>2. \A b : b \in Bindings(w) <=> \E i \in 1..Len(w) : b = w[i]
    BY <1>8, BindingIn
  <2>3. \A b : b \in Bindings(es) <=> \E i \in 1..Len(es) : b = es[i]
    BY BindingIn
  <2>4. ASSUME NEW b, b \in Bindings(w)  PROVE b \in Bindings(es) /\ b.name # name
    <3>1. \E i \in 1..Len(es) : b = es[i] /\ b.name # name
      BY ONLY <2>1, <2>2, <2>4
    <3>. QED  BY ONLY <2>3, <3>1
  <2>5. ASSUME NEW b, b \in Bindings(es), b.name # name  PROVE b \in Bindings(w)
    <3>1. \E i \in 1..Len(es) : b = es[i] /\ b.name # name
      BY ONLY <2>3, <2>5
    <3>2. \E i \in 1..Len(w) : b = w[i]
      BY ONLY <2>1, <3>1
    <3>. QED  BY ONLY <2>2, <3>2
  <2>. QED  BY ONLY <2>4, <2>5
<1>10. es # <<>> /\ es[1].name # name => w # <<>> /\ w[1] = es[1]
  <2>1. es # <<>> => Len(es) > 0
    BY <1>2, EmptySeq
  <2>2. Len(w) > 0 => w # <<>>
    BY <1>8, EmptySeq
  <2>. QED  BY <1>7, <2>1, <2>2 DEF KeptOf
<1>. QED  BY <1>7, <1>8, <1>9, <1>10 DEF KeptOf

(* An entry at the end, or before the others *)
LEMMA Added ==
    ASSUME NEW k \in Seq(Entries), NEW e \in Entries,
           \A b \in Bindings(k) : b.name # e.name, NEW l,
           l = Append(k, e) \/ l = <<e>> \o k
    PROVE  /\ l \in Seq(Entries) /\ l # <<>>
           /\ Unique(k) => Unique(l)
           /\ \A b : b \in Bindings(l) <=> b \in Bindings(k) \/ b = e
           /\ l = <<e>> \o k => l[1] = e
           /\ l = Append(k, e) /\ k # <<>> => l[1] = k[1]
<1>. DEFINE n == Len(k)
<1>1. n \in Nat /\ <<e>> \in Seq(Entries) /\ Len(<<e>>) = 1 /\ <<e>>[1] = e
  OBVIOUS
<1>2. \A i \in 1..n : k[i] \in Bindings(k) /\ k[i].name # e.name
  BY BindingIn
<1>3. CASE l = Append(k, e)
  <2>1. /\ l \in Seq(Entries) /\ l # <<>> /\ Len(l) = n + 1 /\ l[n + 1] = e
        /\ \A i \in 1..n : l[i] = k[i]
    BY <1>3, AppendProperties
  <2>2. \A i \in 1..Len(l) : i \in 1..n \/ i = n + 1
    BY <1>1, <2>1
  <2>3. (\A i \in 1..n : i \in 1..Len(l)) /\ n + 1 \in 1..Len(l)
    BY <1>1, <2>1
  <2>. HIDE DEF n
  <2>4. Unique(k) => Unique(l)
    <3>. SUFFICES ASSUME Unique(k), NEW i \in 1..Len(l), NEW j \in 1..Len(l), l[i].name = l[j].name
                  PROVE  i = j
      BY DEF Unique
    <3>1. CASE i \in 1..n /\ j \in 1..n
      BY <2>1, <3>1 DEF Unique, n
    <3>2. CASE i = n + 1 /\ j \in 1..n
      BY <1>2, <2>1, <3>2 DEF n
    <3>3. CASE i \in 1..n /\ j = n + 1
      BY <1>2, <2>1, <3>3 DEF n
    <3>. QED  BY <2>2, <3>1, <3>2, <3>3
  <2>5. \A b : (\E i \in 1..Len(l) : b = l[i]) <=> (\E i \in 1..n : b = k[i]) \/ b = e
    BY <2>1, <2>2, <2>3
  <2>6. \A b : b \in Bindings(l) <=> b \in Bindings(k) \/ b = e
    BY <2>1, <2>5, BindingIn DEF n
  <2>7. k # <<>> => l[1] = k[1]
    <3>1. k # <<>> => 1 \in 1..n
      BY EmptySeq DEF n
    <3>. QED  BY <2>1, <3>1
  <2>8. l = <<e>> \o k => l[1] = e
    BY <1>1, ConcatProperties DEF n
  <2>. QED  BY <2>1, <2>4, <2>6, <2>7, <2>8
<1>4. CASE l = <<e>> \o k
  <2>1. /\ l \in Seq(Entries) /\ Len(l) = 1 + n
        /\ \A i \in 1..(1 + n) : l[i] = IF i <= 1 THEN <<e>>[i] ELSE k[i - 1]
    BY <1>1, <1>4, ConcatProperties
  <2>2. l[1] = e /\ \A i \in 1..n : l[i + 1] = k[i]
    BY <1>1, <2>1
  <2>3. \A i \in 1..Len(l) : i = 1 \/ (i - 1 \in 1..n /\ (i - 1) + 1 = i)
    BY <1>1, <2>1
  <2>4. 1 \in 1..Len(l) /\ \A i \in 1..n : i + 1 \in 1..Len(l)
    BY <1>1, <2>1
  <2>. HIDE DEF n
  <2>5. \A i \in 1..Len(l) : (l[i] = e /\ i = 1) \/ (\E x \in 1..n : i = x + 1 /\ l[i] = k[x])
    BY <2>2, <2>3
  <2>6. Unique(k) => Unique(l)
    <3>. SUFFICES ASSUME Unique(k), NEW i \in 1..Len(l), NEW j \in 1..Len(l), l[i].name = l[j].name
                  PROVE  i = j
      BY DEF Unique
    <3>. QED  BY <1>2, <2>5 DEF Unique, n
  <2>7. ASSUME NEW b
        PROVE  (\E i \in 1..Len(l) : b = l[i]) <=> (\E i \in 1..n : b = k[i]) \/ b = e
    <3>1. ASSUME NEW i \in 1..Len(l), b = l[i]  PROVE (\E x \in 1..n : b = k[x]) \/ b = e
      BY <2>5, <3>1
    <3>2. ASSUME NEW i \in 1..n, b = k[i]  PROVE \E x \in 1..Len(l) : b = l[x]
      BY <2>2, <2>4, <3>2
    <3>3. b = e => \E x \in 1..Len(l) : b = l[x]
      BY <2>2, <2>4
    <3>. QED  BY <3>1, <3>2, <3>3
  <2>8. \A b : b \in Bindings(l) <=> b \in Bindings(k) \/ b = e
    <3>1. \A b : b \in Bindings(k) <=> \E i \in 1..n : b = k[i]
      BY BindingIn DEF n
    <3>2. \A b : b \in Bindings(l) <=> \E i \in 1..Len(l) : b = l[i]
      BY <2>1, BindingIn
    <3>. QED  BY ONLY <2>7, <3>1, <3>2
  <2>9. l # <<>>
    BY <1>1, <2>1, EmptySeq DEF n
  <2>10. l = Append(k, e) /\ k # <<>> => l[1] = k[1]
    <3>1. k # <<>> => 1 \in 1..Len(k)
      BY EmptySeq
    <3>. QED  BY <3>1, AppendProperties
  <2>. QED  BY <2>1, <2>2, <2>6, <2>8, <2>9, <2>10
<1>. QED  BY <1>3, <1>4

(* What run computes (t2.rs:259-267, 281-286): of the command's name its entry *)
(* or none, of the other names what there was; and the default it asks for, or *)
(* the one there was.                                                          *)
Changed(es, cmd, addr) ==
    IF cmd.op = "register" THEN Registered(es, cmd, addr) ELSE Without(es, cmd.name)

ItsOwn(cmd, addr) == IF cmd.op = "register" THEN {Entry(cmd.name, addr)} ELSE {}
TakesDefault(cmd) == cmd.op = "register" /\ cmd.default
NamedBindings(es, name) == {b \in Bindings(es) : b.name = name}

LEMMA ChangeIs ==
    ASSUME NEW es \in Seq(Entries), NEW cmd, cmd.op \in Writers, cmd.name \in Names,
           NEW addr, cmd.op = "register" => addr \in Addrs,
           NEW after, after = Changed(es, cmd, addr)
    PROVE  /\ after \in Seq(Entries)
           /\ \A b \in Bindings(after) :
                 b \in Bindings(es) \/ (cmd.op = "register" /\ b = Entry(cmd.name, addr))
           /\ Unique(es) => Unique(after)
           /\ NamedBindings(after, cmd.name) = ItsOwn(cmd, addr)
           /\ \A name : name # cmd.name => NamedBindings(after, name) = NamedBindings(es, name)
           /\ TakesDefault(cmd) => DefaultName(after) = cmd.name
           /\ ~TakesDefault(cmd) /\ DefaultName(es) \in Names /\ DefaultName(es) # cmd.name
                 => DefaultName(after) = DefaultName(es)
<1>. DEFINE name == cmd.name
            w == Without(es, name)
            e == Entry(name, addr)
<1>1. /\ w \in Seq(Entries)
      /\ \A b : b \in Bindings(w) <=> b \in Bindings(es) /\ b.name # name
      /\ Unique(es) => Unique(w)
      /\ es # <<>> /\ es[1].name # name => w # <<>> /\ w[1] = es[1]
  BY WithoutIs
<1>2. DefaultName(es) \in Names => es # <<>> /\ DefaultName(es) = es[1].name
  BY DEF DefaultName, Names
<1>3. DefaultName(es) \in Names /\ DefaultName(es) # name
         => w # <<>> /\ w[1].name = DefaultName(es)
  BY <1>1, <1>2
<1>. HIDE DEF w
<1>4. CASE cmd.op = "register"
  <2>1. e \in Entries /\ e.name = name
    BY <1>4 DEF Entry, Entries
  <2>2. after = Append(w, e) \/ after = <<e>> \o w
    BY <1>4 DEF Changed, Registered, w
  <2>3. TakesDefault(cmd) => after = <<e>> \o w
    BY <1>4 DEF Changed, Registered, w, TakesDefault
  <2>4. ~TakesDefault(cmd) => after = Append(w, e)
    BY <1>4 DEF Changed, Registered, w, TakesDefault
  <2>5. \A b \in Bindings(w) : b.name # e.name
    BY <1>1, <2>1
  <2>6. ItsOwn(cmd, addr) = {e}
    BY <1>4 DEF ItsOwn
  <2>. HIDE DEF e
  <2>7. /\ after \in Seq(Entries) /\ after # <<>>
        /\ Unique(w) => Unique(after)
        /\ \A b : b \in Bindings(after) <=> b \in Bindings(w) \/ b = e
        /\ after = <<e>> \o w => after[1] = e
        /\ after = Append(w, e) /\ w # <<>> => after[1] = w[1]
    <3>1. w \in Seq(Entries) /\ e \in Entries
      BY <1>1, <2>1
    <3>. QED  BY ONLY <2>2, <2>5, <3>1, Added
  <2>8. DefaultName(after) = after[1].name
    BY <2>7 DEF DefaultName
  <2>9. TakesDefault(cmd) => DefaultName(after) = name
    BY <2>1, <2>3, <2>7, <2>8
  <2>10. ~TakesDefault(cmd) /\ DefaultName(es) \in Names /\ DefaultName(es) # name
            => DefaultName(after) = DefaultName(es)
    BY <1>3, <2>4, <2>7, <2>8
  <2>11. NamedBindings(after, name) = {e}
    BY <1>1, <2>1, <2>7 DEF NamedBindings
  <2>12. \A x : x # name => NamedBindings(after, x) = NamedBindings(es, x)
    BY <1>1, <2>1, <2>7 DEF NamedBindings
  <2>13. \A b \in Bindings(after) : b \in Bindings(es) \/ b = e
    BY <1>1, <2>7
  <2>. QED  BY <1>1, <1>4, <2>6, <2>7, <2>9, <2>10, <2>11, <2>12, <2>13 DEF e
<1>5. CASE cmd.op = "unregister"
  <2>1. after = w /\ ItsOwn(cmd, addr) = {} /\ ~TakesDefault(cmd)
    BY <1>5 DEF Changed, ItsOwn, TakesDefault, w
  <2>2. w # <<>> => DefaultName(w) = w[1].name
    BY <1>1 DEF DefaultName
  <2>3. NamedBindings(w, name) = {}
    BY <1>1 DEF NamedBindings
  <2>4. \A x : x # name => NamedBindings(w, x) = NamedBindings(es, x)
    BY <1>1 DEF NamedBindings
  <2>. QED  BY <1>1, <1>3, <2>1, <2>2, <2>3, <2>4
<1>. QED  BY <1>4, <1>5 DEF Writers

-----------------------------------------------------------------------------
(* The inductive invariant *)

Types ==
    /\ home \in BOOLEAN /\ mixed \in BOOLEAN
    /\ file \in Seq(Symbols) /\ known \subseteq Entries
    /\ command \in [Procs -> Commands \cup {Idle}]
    /\ pc \in [Procs -> {"parse", "resolve", "resolved", "truncate", "write", "done"}]
    /\ todo \in [Procs -> Seq(Args)] /\ addrs \in [Procs -> Seq(Addrs)]
    /\ config \in [Procs -> Seq(Entries)]
    /\ result \in [Procs -> {"none", "connected", "written", "error", "panic", "killed"}]
    /\ seen \in [Procs -> SUBSET Procs] /\ over \in [Procs -> SUBSET Procs]

(* How far one invocation is with its arguments, and who gets to the file *)
Underway(p) ==
    /\ pc[p] # "done" => command[p] # Idle
    /\ pc[p] = "done" /\ command[p] # Idle => result[p] # "none"
    /\ pc[p] = "parse" => addrs[p] = <<>>
    /\ pc[p] = "resolve" => todo[p] # <<>>
    /\ pc[p] \in {"resolved", "truncate", "write"} => todo[p] = <<>>
    /\ pc[p] \in {"truncate", "write"} => command[p].op \in Writers
    /\ pc[p] \notin {"parse", "done"} =>
          /\ command[p].op \in Writers => home
          /\ Len(addrs[p]) + Len(todo[p]) = Len(command[p].addrs)
          /\ \A i \in 1..Len(todo[p]) : todo[p][i] = command[p].addrs[Len(addrs[p]) + i]

(* who has read the registry, and not yet written it *)
Rewriting == {p \in Procs : pc[p] \in {"truncate", "write"}}

(* Unless two writers have been in the file at once, it is what one has written
   or empty, its names are distinct, and what stands in it was registered. *)
InTheFile ==
    ~mixed =>
        /\ \A p, q \in InFile : p = q
        /\ InFile # {} => file = <<>>
        /\ Unique(Parse(file)) /\ Bindings(Parse(file)) \subseteq known
        /\ \A p \in Rewriting :
              Unique(config[p]) /\ Bindings(config[p]) \subseteq known

LineInv ==
    /\ Types /\ InTheFile /\ UsesWhatWasRegistered
    /\ \A p \in Procs : Underway(p)

(* What the steps have in common *)

LEMMA OverwriteIs ==
    ASSUME NEW text \in Seq(Symbols), NEW new \in Seq(Symbols)
    PROVE  /\ Overwrite(text, new) \in Seq(Symbols)
           /\ text = <<>> => Overwrite(text, new) = new
<1>. DEFINE rest == SubSeq(text, Len(new) + 1, Len(text))
<1>1. Len(new) \in Nat /\ Len(text) \in Nat
  OBVIOUS
<1>2. \A i \in (Len(new) + 1)..Len(text) : text[i] \in Symbols
  BY <1>1
<1>3. rest \in Seq(Symbols)
  BY <1>1, <1>2, SubSeqProperties
<1>4. text = <<>> => rest = <<>>
  <2>1. text = <<>> => Len(text) < Len(new) + 1
    BY <1>1, EmptySeq
  <2>. QED  BY <1>1, <2>1, SubSeqEmpty
<1>. HIDE DEF rest
<1>5. Overwrite(text, new) = new \o rest
  BY DEF Overwrite, rest
<1>. QED  BY <1>3, <1>4, <1>5, ConcatProperties, ConcatEmptySeq

LEMMA NothingParsed == Parse(<<>>) = <<>> /\ Bindings(<<>>) = {} /\ Unique(<<>>)
<1>1. <<>> \in Seq(Entries) /\ <<>> \in Seq(Symbols) /\ Len(<<>>) = 0
  BY EmptySeq
<1>2. \A i \in 1..0 : FALSE
  OBVIOUS
<1>3. Parse(<<>>) = <<>>
  <2>1. At(<<>>, 0) = Now(<<>>, <<>>)
    BY <1>1, MatchesStep
  <2>2. At(<<>>, 0).entries = <<>>
    BY <2>1 DEF Now
  <2>. QED  BY <1>1, <2>2 DEF Parse, At
<1>4. \A b : b \notin Bindings(<<>>)
  BY <1>1, <1>2, BindingIn
<1>5. Unique(<<>>)
  BY <1>1, <1>2 DEF Unique
<1>. QED  BY <1>3, <1>4, <1>5

LEMMA ConfigIs ==
    ASSUME Types
    PROVE  /\ Parse(file) \in Seq(Entries) /\ ParseConfig \in Seq(Entries)
           /\ Bindings(ParseConfig) \subseteq Bindings(Parse(file))
           /\ home => ParseConfig = Parse(file)
<1>1. Parse(file) \in Seq(Entries) /\ <<>> \in Seq(Entries) /\ Bindings(<<>>) = {}
  BY ParseType, EmptySeq, NothingParsed DEF Types
<1>. QED  BY <1>1 DEF ParseConfig

LEMMA Moved ==
    ASSUME Types, NEW p \in Procs, NEW next, Becomes(p, next)
    PROVE  /\ pc'[p] = next
           /\ \A q \in Procs : q # p => pc'[q] = pc[q]
BY DEF Types, Becomes

LEMMA Ended ==
    ASSUME Types, NEW p \in Procs, NEW how \in {"connected", "written", "error", "panic", "killed"},
           Ends(p, how)
    PROVE  /\ pc' \in [Procs -> {"parse", "resolve", "resolved", "truncate", "write", "done"}]
           /\ result' \in [Procs -> {"none", "connected", "written", "error", "panic", "killed"}]
           /\ pc'[p] = "done" /\ result'[p] # "none"
           /\ \A q \in Procs : q # p => pc'[q] = pc[q] /\ result'[q] = result[q]
BY DEF Types, Ends, Becomes

(* The invocations but p are where they were. *)
LEMMA OthersUnderway ==
    ASSUME NEW p \in Procs, \A q \in Procs : Underway(q), Underway(p)', home' = home,
           \A q \in Procs : q # p =>
              /\ pc'[q] = pc[q] /\ result'[q] = result[q] /\ todo'[q] = todo[q]
              /\ addrs'[q] = addrs[q] /\ command'[q] = command[q]
    PROVE  \A q \in Procs : Underway(q)'
<1>. TAKE q \in Procs
<1>1. CASE q = p
  BY <1>1
<1>2. CASE q # p
  <2>1. /\ pc'[q] = pc[q] /\ result'[q] = result[q] /\ todo'[q] = todo[q]
        /\ addrs'[q] = addrs[q] /\ command'[q] = command[q]
    BY <1>2
  <2>2. Underway(q)
    OBVIOUS
  <2>3. home' = home
    OBVIOUS
  <2>. QED  BY ONLY <2>1, <2>2, <2>3 DEF Underway
<1>. QED  BY <1>1, <1>2

LEMMA WriterUnderway ==
    ASSUME NEW p, Underway(p), UNCHANGED <<home, command, todo, addrs>>,
           command[p].op \in Writers,
           pc[p] \in {"resolved", "truncate"}, pc'[p] \in {"truncate", "write"}
    PROVE  Underway(p)'
<1>. DEFINE cmd == command[p]
            left == todo[p]
            n == Len(addrs[p])
<1>1. /\ cmd # Idle /\ left = <<>> /\ home /\ n + Len(left) = Len(cmd.addrs)
      /\ \A i \in 1..Len(left) : left[i] = cmd.addrs[n + i]
  BY DEF Underway
<1>2. command'[p] = cmd /\ todo'[p] = left /\ Len(addrs'[p]) = n /\ home' = home
  OBVIOUS
<1>3. cmd.op \in Writers /\ pc'[p] \notin {"parse", "resolve", "done"}
  OBVIOUS
<1>. HIDE DEF cmd, left, n
<1>. QED  BY ONLY <1>1, <1>2, <1>3 DEF Underway

(* A step that leaves the file alone, and lets nobody to it *)
LEMMA OutOfTheFile ==
    ASSUME InTheFile, UNCHANGED <<file, config, mixed, known>>,
           \A p \in Procs : pc'[p] \in {"truncate", "write"} => pc'[p] = pc[p]
    PROVE  InTheFile'
<1>1. InFile' \subseteq InFile /\ Rewriting' \subseteq Rewriting
  BY DEF InFile, Rewriting
<1>. QED  BY <1>1 DEF InTheFile

LEMMA SameUses ==
    ASSUME UsesWhatWasRegistered, UNCHANGED <<addrs, command>>, known \subseteq known',
           ~mixed' => ~mixed
    PROVE  UsesWhatWasRegistered'
BY DEF UsesWhatWasRegistered

(* The steps of an invocation *)

LEMMA StartKeeps ==
    ASSUME LineInv, NEW p \in Procs, Start(p)
    PROVE  LineInv'
<1>. DEFINE cmd == command[p]
            next == IF cmd.addrs = <<>> THEN "resolved" ELSE "resolve"
<1>1. /\ Types /\ InTheFile /\ UsesWhatWasRegistered
      /\ (\A q \in Procs : Underway(q)) /\ Underway(p)
  BY DEF LineInv
<1>2. /\ pc[p] = "parse"
      /\ UNCHANGED <<home, file, command, addrs, config, mixed, known, seen, over>>
  BY DEF Start, history
<1>3. cmd \in Commands /\ cmd.addrs \in Seq(Args) /\ addrs[p] = <<>> /\ cmd # Idle
  BY <1>1, <1>2, CommandLineAssumption DEF Types, Underway
<1>4. \/ /\ Becomes(p, next) /\ UNCHANGED result
         /\ todo' = [todo EXCEPT ![p] = cmd.addrs]
         /\ cmd.op \in Writers => home
      \/ Ends(p, "error") /\ UNCHANGED todo
  BY DEF Start
<1>. HIDE DEF next
<1>5. next \in {"resolved", "resolve"}
  BY DEF next
<1>6. Types' /\ Underway(p)'
      /\ (\A q \in Procs : q # p =>
             pc'[q] = pc[q] /\ result'[q] = result[q] /\ todo'[q] = todo[q])
      /\ pc'[p] \in {"resolved", "resolve", "done"}
  <2>1. CASE /\ Becomes(p, next) /\ UNCHANGED result
             /\ todo' = [todo EXCEPT ![p] = cmd.addrs]
             /\ cmd.op \in Writers => home
    <3>1. pc'[p] = next /\ todo'[p] = cmd.addrs /\ addrs'[p] = <<>>
          /\ command'[p] = cmd /\ home' = home
      BY <1>1, <1>2, <1>3, <2>1 DEF Types, Becomes
    <3>2. Types'
      BY <1>1, <1>2, <1>3, <1>5, <2>1 DEF Types, Becomes
    <3>3. Len(cmd.addrs) \in Nat /\ Len(<<>>) = 0
      BY <1>3
    <3>4. \A i \in 1..Len(cmd.addrs) : 0 + i = i
      BY <3>3
    <3>5. next = "resolved" => cmd.addrs = <<>>
      BY DEF next
    <3>6. next = "resolve" => cmd.addrs # <<>>
      BY DEF next
    <3>7. Underway(p)'
      <4>. HIDE DEF cmd
      <4>. QED  BY ONLY <1>3, <1>5, <2>1, <3>1, <3>3, <3>4, <3>5, <3>6 DEF Underway
    <3>. QED  BY <1>1, <1>5, <2>1, <3>1, <3>2, <3>7 DEF Types, Becomes
  <2>2. CASE Ends(p, "error") /\ UNCHANGED todo
    <3>1. /\ pc' \in [Procs -> {"parse", "resolve", "resolved", "truncate", "write", "done"}]
          /\ result' \in [Procs -> {"none", "connected", "written", "error", "panic", "killed"}]
          /\ pc'[p] = "done" /\ result'[p] # "none"
          /\ \A q \in Procs : q # p => pc'[q] = pc[q] /\ result'[q] = result[q]
      BY <1>1, <2>2, Ended
    <3>2. Types'
      BY <1>1, <1>2, <2>2, <3>1 DEF Types
    <3>3. Underway(p)'
      BY <1>2, <1>3, <3>1 DEF Underway
    <3>. QED  BY <2>2, <3>1, <3>2, <3>3
  <2>. QED  BY <1>4, <2>1, <2>2
<1>7. \A q \in Procs : Underway(q)'
  <2>1. \A q \in Procs : q # p =>
          /\ pc'[q] = pc[q] /\ result'[q] = result[q] /\ todo'[q] = todo[q]
          /\ addrs'[q] = addrs[q] /\ command'[q] = command[q]
    BY <1>2, <1>6
  <2>. QED  BY <1>1, <1>2, <1>6, <2>1, OthersUnderway
<1>8. \A q \in Procs : pc'[q] \in {"truncate", "write"} => pc'[q] = pc[q]
  BY <1>2, <1>6
<1>9. InTheFile'
  BY <1>1, <1>2, <1>8, OutOfTheFile
<1>10. UsesWhatWasRegistered'
  BY <1>1, <1>2, SameUses
<1>. QED  BY <1>6, <1>7, <1>9, <1>10 DEF LineInv

LEMMA EndsKeeps ==
    ASSUME LineInv, NEW p \in Procs,
           NEW how \in {"connected", "written", "error", "panic", "killed"}, Ends(p, how),
           UNCHANGED <<home, file, command, todo, addrs, config, history>>
    PROVE  LineInv'
<1>1. /\ Types /\ InTheFile /\ UsesWhatWasRegistered
      /\ (\A q \in Procs : Underway(q)) /\ Underway(p)
  BY DEF LineInv
<1>2. UNCHANGED <<home, file, command, todo, addrs, config, mixed, known, seen, over>>
  BY DEF history
<1>3. /\ pc' \in [Procs -> {"parse", "resolve", "resolved", "truncate", "write", "done"}]
      /\ result' \in [Procs -> {"none", "connected", "written", "error", "panic", "killed"}]
      /\ pc'[p] = "done" /\ result'[p] # "none"
      /\ \A q \in Procs : q # p => pc'[q] = pc[q] /\ result'[q] = result[q]
  BY <1>1, Ended
<1>4. Types'
  BY <1>1, <1>2, <1>3 DEF Types
<1>5. \A q \in Procs : Underway(q)'
  <2>1. Underway(p)'
    BY <1>3 DEF Underway
  <2>2. \A q \in Procs : q # p =>
          /\ pc'[q] = pc[q] /\ result'[q] = result[q] /\ todo'[q] = todo[q]
          /\ addrs'[q] = addrs[q] /\ command'[q] = command[q]
    BY <1>2, <1>3
  <2>. QED  BY <1>1, <1>2, <2>1, <2>2, OthersUnderway
<1>6. \A q \in Procs : pc'[q] \in {"truncate", "write"} => pc'[q] = pc[q]
  BY <1>2, <1>3
<1>7. InTheFile'
  BY <1>1, <1>2, <1>6, OutOfTheFile
<1>8. UsesWhatWasRegistered'
  BY <1>1, <1>2, SameUses
<1>. QED  BY <1>4, <1>5, <1>7, <1>8 DEF LineInv

(* Of the steps that end an invocation, only a write has more to it. *)
LEMMA EndingKeeps ==
    ASSUME LineInv, NEW p \in Procs,
           Unreadable(p) \/ Connect(p) \/ TruncateFails(p) \/ Kill(p)
    PROVE  LineInv'
<1>1. \E how \in {"connected", "written", "error", "panic", "killed"} : Ends(p, how)
  BY DEF Unreadable, Connect, TruncateFails, Kill
<1>2. UNCHANGED <<home, file, command, todo, addrs, config, history>>
  BY DEF Unreadable, Connect, TruncateFails, Kill
<1>. QED  BY <1>1, <1>2, EndsKeeps

LEMMA FoundIs ==
    ASSUME NEW es \in Seq(Entries), NEW name, NamedIn(es, name) # {}
    PROVE  \E i \in 1..Len(es) : es[i].name = name /\ Found(es, name) = es[i].addr
<1>. DEFINE matches == NamedIn(es, name)
            i == CHOOSE i \in matches : \A j \in matches : i <= j
<1>1. matches \subseteq Nat /\ \A j \in matches : j \in 1..Len(es) /\ es[j].name = name
  BY DEF NamedIn
<1>. HIDE DEF matches
<1>2. \E x \in matches : \A y \in matches : x <= y
  BY <1>1, Least DEF matches
<1>3. i \in matches
  BY <1>2
<1>4. Found(es, name) = es[i].addr
  BY DEF Found, matches
<1>. HIDE DEF i
<1>. QED  BY <1>1, <1>3, <1>4

(* where an address argument may lead *)
Leads(arg, addr, entries) ==
    arg = addr \/ \E e \in entries : e.addr = addr /\ arg \in {Default, Named(e.name)}

LEMMA ResolvesKeeps ==
    ASSUME LineInv, NEW p \in Procs, pc[p] = "resolve",
           UNCHANGED <<home, file, command, config, history>>,
           NEW addr \in Addrs, ~mixed => Leads(Head(todo[p]), addr, known),
           Resolves(p, addr)
    PROVE  LineInv'
<1>. DEFINE cmd == command[p]
            next == IF Len(todo[p]) = 1 THEN "resolved" ELSE "resolve"
            n == Len(addrs[p])
            m == Len(todo[p])
<1>1. /\ Types /\ InTheFile /\ UsesWhatWasRegistered
      /\ (\A q \in Procs : Underway(q)) /\ Underway(p)
  BY DEF LineInv
<1>2. UNCHANGED <<home, file, command, config, mixed, known, seen, over>>
  BY DEF history
<1>3. CASE Ends(p, "error") /\ UNCHANGED <<todo, addrs>>
  BY <1>2, <1>3, EndsKeeps DEF history
<1>4. CASE /\ addrs' = [addrs EXCEPT ![p] = Append(@, addr)]
           /\ todo' = [todo EXCEPT ![p] = Tail(@)]
           /\ Becomes(p, next) /\ UNCHANGED result
  <2>1. cmd \in Commands /\ cmd.addrs \in Seq(Args) /\ cmd # Idle
        /\ addrs[p] \in Seq(Addrs) /\ todo[p] \in Seq(Args) /\ todo[p] # <<>>
    BY <1>1, CommandLineAssumption DEF Types, Underway
  <2>2. /\ n + m = Len(cmd.addrs) /\ (cmd.op \in Writers => home)
        /\ \A i \in 1..m : todo[p][i] = cmd.addrs[n + i]
    BY <1>1 DEF Underway
  <2>3. n \in Nat /\ m \in Nat \ {0}
    BY <2>1, EmptySeq
  <2>4. /\ addrs'[p] \in Seq(Addrs) /\ Len(addrs'[p]) = n + 1
        /\ addrs'[p][n + 1] = addr /\ \A i \in 1..n : addrs'[p][i] = addrs[p][i]
    <3>1. addrs'[p] = Append(addrs[p], addr)
      BY <1>1, <1>4 DEF Types
    <3>. QED  BY <2>1, <3>1, AppendProperties
  <2>5. /\ todo'[p] \in Seq(Args) /\ Len(todo'[p]) = m - 1
        /\ \A i \in 1..(m - 1) : todo'[p][i] = todo[p][i + 1]
    <3>1. todo'[p] = Tail(todo[p])
      BY <1>1, <1>4 DEF Types
    <3>2. /\ Tail(todo[p]) \in Seq(Args) /\ Len(Tail(todo[p])) = m - 1
          /\ \A i \in 1..Len(Tail(todo[p])) : Tail(todo[p])[i] = todo[p][i + 1]
      BY <2>1, HeadTailProperties
    <3>. HIDE DEF m
    <3>. QED  BY ONLY <3>1, <3>2
  <2>6. Head(todo[p]) = cmd.addrs[n + 1]
    <3>1. Head(todo[p]) = todo[p][1]
      OBVIOUS
    <3>2. 1 \in 1..m
      BY <2>3
    <3>. QED  BY <2>2, <3>1, <3>2
  <2>7. pc'[p] = next /\ next \in {"resolved", "resolve"} /\ result' = result
        /\ command'[p] = cmd /\ home' = home
        /\ \A q \in Procs : q # p =>
              pc'[q] = pc[q] /\ addrs'[q] = addrs[q] /\ todo'[q] = todo[q]
    BY <1>1, <1>2, <1>4 DEF Types, Becomes
  <2>8. Types'
    <3>1. next \in {"resolved", "resolve"}
      OBVIOUS
    <3>2. pc' = [pc EXCEPT ![p] = next]
      BY <1>4 DEF Becomes
    <3>. HIDE DEF next
    <3>3. pc' \in [Procs -> {"parse", "resolve", "resolved", "truncate", "write", "done"}]
      BY <1>1, <3>1, <3>2 DEF Types
    <3>4. addrs' \in [Procs -> Seq(Addrs)]
      BY <1>1, <1>4, <2>4 DEF Types
    <3>5. todo' \in [Procs -> Seq(Args)]
      BY <1>1, <1>4, <2>5 DEF Types
    <3>. QED  BY <1>1, <1>2, <1>4, <3>3, <3>4, <3>5 DEF Types
  <2>9. Underway(p)'
    <3>1. next = "resolved" => todo'[p] = <<>>
      <4>1. next = "resolved" => Len(todo'[p]) = 0
        BY <2>5
      <4>. QED  BY <2>5, <4>1, EmptySeq
    <3>2. next = "resolve" => todo'[p] # <<>>
      <4>1. next = "resolve" => Len(todo'[p]) # 0
        BY <2>3, <2>5
      <4>. QED  BY <4>1, EmptySeq
    <3>3. Len(addrs'[p]) + Len(todo'[p]) = Len(cmd.addrs)
      <4>1. Len(addrs'[p]) = n + 1 /\ Len(todo'[p]) = m - 1 /\ n + m = Len(cmd.addrs)
        BY <2>2, <2>4, <2>5
      <4>. HIDE DEF n, m
      <4>. QED  BY ONLY <2>3, <4>1
    <3>4. \A i \in 1..Len(todo'[p]) : todo'[p][i] = cmd.addrs[Len(addrs'[p]) + i]
      <4>. TAKE i \in 1..Len(todo'[p])
      <4>1. i \in 1..(m - 1) /\ i + 1 \in 1..m /\ n + (i + 1) = Len(addrs'[p]) + i
        <5>1. Len(addrs'[p]) = n + 1 /\ Len(todo'[p]) = m - 1 /\ i \in 1..Len(todo'[p])
          BY <2>4, <2>5
        <5>. HIDE DEF n, m
        <5>. QED  BY ONLY <2>3, <5>1
      <4>2. todo'[p][i] = todo[p][i + 1] /\ todo[p][i + 1] = cmd.addrs[n + (i + 1)]
        BY <2>2, <2>5, <4>1
      <4>. QED  BY <4>1, <4>2
    <3>. HIDE DEF cmd, next
    <3>. QED  BY ONLY <2>1, <2>2, <2>7, <3>1, <3>2, <3>3, <3>4 DEF Underway
  <2>10. \A q \in Procs : Underway(q)'
    <3>1. \A q \in Procs : q # p =>
            /\ pc'[q] = pc[q] /\ result'[q] = result[q] /\ todo'[q] = todo[q]
            /\ addrs'[q] = addrs[q] /\ command'[q] = command[q]
      BY <1>2, <2>7
    <3>. QED  BY <1>1, <1>2, <2>9, <3>1, OthersUnderway
  <2>11. \A q \in Procs : pc'[q] \in {"truncate", "write"} => pc'[q] = pc[q]
    <3>. HIDE DEF next
    <3>. QED  BY ONLY <2>7
  <2>12. InTheFile'
    BY <1>1, <1>2, <2>11, OutOfTheFile
  <2>13. UsesWhatWasRegistered'
    <3>. SUFFICES ASSUME ~mixed, NEW q \in Procs, NEW i \in DOMAIN addrs'[q]
                  PROVE  Leads(command[q].addrs[i], addrs'[q][i], known)
      BY <1>2 DEF UsesWhatWasRegistered, Leads
    <3>1. CASE q # p
      <4>1. addrs'[q] = addrs[q]
        BY <2>7, <3>1
      <4>. QED  BY <1>1, <4>1 DEF UsesWhatWasRegistered, Leads
    <3>2. CASE q = p
      <4>1. i \in 1..(n + 1)
        BY <2>4, <3>2
      <4>2. CASE i = n + 1
        <5>1. addrs'[p][i] = addr /\ Head(todo[p]) = cmd.addrs[i]
          BY <2>4, <2>6, <4>2
        <5>. QED  BY <3>2, <5>1
      <4>3. CASE i # n + 1
        <5>1. i \in 1..n
          BY <2>3, <4>1, <4>3
        <5>2. addrs'[p][i] = addrs[p][i] /\ i \in DOMAIN addrs[p]
          BY <2>1, <2>4, <5>1
        <5>. QED  BY <1>1, <3>2, <5>2 DEF UsesWhatWasRegistered, Leads
      <4>. QED  BY <4>2, <4>3
    <3>. QED  BY <3>1, <3>2
  <2>. QED  BY <2>8, <2>10, <2>12, <2>13 DEF LineInv
<1>. QED  BY <1>3, <1>4 DEF Resolves

LEMMA ResolveKeeps ==
    ASSUME LineInv, NEW p \in Procs, Resolve(p)
    PROVE  LineInv'
<1>. DEFINE arg == Head(todo[p])
            entries == ParseConfig
<1>1. Types /\ InTheFile /\ Underway(p)
  BY DEF LineInv
<1>2. pc[p] = "resolve" /\ UNCHANGED <<home, file, command, config, history>>
  BY DEF Resolve
<1>3. arg \in Args
  <2>1. todo[p] \in Seq(Args) /\ todo[p] # <<>>
    BY <1>1, <1>2 DEF Types, Underway
  <2>. QED  BY <2>1, HeadTailProperties
<1>4. entries \in Seq(Entries) /\ (~mixed => Bindings(entries) \subseteq known)
  BY <1>1, ConfigIs DEF InTheFile
<1>5. \/ arg \in Addrs /\ Resolves(p, arg)
      \/ arg = Default /\ entries # <<>> /\ Resolves(p, Head(entries).addr)
      \/ arg \notin Addrs /\ arg # Default /\ NamedIn(entries, arg.name) # {}
            /\ Resolves(p, Found(entries, arg.name))
      \/ Ends(p, "error") /\ UNCHANGED <<todo, addrs>>
  BY DEF Resolve
<1>. HIDE DEF entries, arg
<1>6. CASE arg \in Addrs /\ Resolves(p, arg)
  BY <1>2, <1>6, ResolvesKeeps DEF Leads, arg
<1>7. CASE arg = Default /\ entries # <<>> /\ Resolves(p, Head(entries).addr)
  <2>. DEFINE e == Head(entries)
  <2>1. e \in Entries /\ e \in Bindings(entries)
    <3>1. Head(entries) = entries[1]
      BY <1>4
    <3>2. 1 \in 1..Len(entries)
      BY <1>4, <1>7, EmptySeq
    <3>. QED  BY <1>4, <3>1, <3>2, BindingIn
  <2>2. e.addr \in Addrs
    BY <2>1 DEF Entries
  <2>3. ~mixed => Leads(arg, e.addr, known)
    BY <1>4, <1>7, <2>1 DEF Leads
  <2>. QED  BY <1>2, <1>7, <2>2, <2>3, ResolvesKeeps DEF arg
<1>8. CASE arg \notin Addrs /\ arg # Default /\ NamedIn(entries, arg.name) # {}
           /\ Resolves(p, Found(entries, arg.name))
  <2>1. arg = Named(arg.name)
    BY <1>3, <1>8 DEF Args, Named
  <2>2. PICK i \in 1..Len(entries) :
           entries[i].name = arg.name /\ Found(entries, arg.name) = entries[i].addr
    BY <1>4, <1>8, FoundIs
  <2>. DEFINE e == entries[i]
  <2>3. e \in Entries /\ e \in Bindings(entries)
    BY <1>4, BindingIn
  <2>4. e.addr \in Addrs
    BY <2>3 DEF Entries
  <2>5. ~mixed => Leads(arg, e.addr, known)
    BY <1>4, <2>1, <2>2, <2>3 DEF Leads
  <2>. QED  BY <1>2, <1>8, <2>2, <2>4, <2>5, ResolvesKeeps DEF arg
<1>9. CASE Ends(p, "error") /\ UNCHANGED <<todo, addrs>>
  BY <1>2, <1>9, EndsKeeps
<1>. QED  BY <1>5, <1>6, <1>7, <1>8, <1>9

(* What a writer has in hand when it has read the registry *)
LEMMA ReadIs ==
    ASSUME LineInv, NEW p \in Procs, ReadConfig(p)
    PROVE  /\ command[p].op \in Writers /\ command[p].name \in Names
           /\ command[p].op = "register" => addrs[p][1] \in Addrs
           /\ Parse(file) \in Seq(Entries)
           /\ config'[p] = Changed(Parse(file), command[p], addrs[p][1])
           /\ known' = known \cup ItsOwn(command[p], addrs[p][1])
           /\ pc'[p] = "truncate"
           /\ \A q \in Procs : q # p => pc'[q] = pc[q] /\ config'[q] = config[q]
<1>. DEFINE cmd == command[p]
<1>1. Types /\ Underway(p)
  BY DEF LineInv
<1>2. pc[p] = "resolved" /\ cmd.op \in Writers /\ Becomes(p, "truncate")
  BY DEF ReadConfig
<1>3. cmd \in Commands /\ cmd # Idle /\ cmd.name \in Names
      /\ addrs[p] \in Seq(Addrs) /\ todo[p] = <<>> /\ home
      /\ (cmd.op = "register" => Len(cmd.addrs) = 1)
      /\ Len(addrs[p]) + Len(todo[p]) = Len(cmd.addrs)
  BY <1>1, <1>2, CommandLineAssumption DEF Types, Underway
<1>4. cmd.op = "register" => addrs[p][1] \in Addrs
  <2>1. Len(addrs[p]) \in Nat /\ Len(todo[p]) = 0
    BY <1>3, EmptySeq
  <2>2. cmd.op = "register" => Len(addrs[p]) = 1
    BY <1>3, <2>1
  <2>3. cmd.op = "register" => 1 \in 1..Len(addrs[p])
    <3>1. 1 \in 1..1
      OBVIOUS
    <3>. HIDE DEF cmd
    <3>. QED  BY ONLY <2>2, <3>1
  <2>. QED  BY <1>3, <2>3
<1>5. Parse(file) \in Seq(Entries) /\ ParseConfig = Parse(file)
  BY <1>1, <1>3, ConfigIs
<1>6. config' = [config EXCEPT ![p] = Changed(Parse(file), cmd, addrs[p][1])]
  BY <1>5 DEF ReadConfig, Changed
<1>7. known' = known \cup ItsOwn(cmd, addrs[p][1])
  BY DEF ReadConfig, ItsOwn
<1>. QED  BY <1>1, <1>2, <1>3, <1>4, <1>5, <1>6, <1>7 DEF Types, Becomes

LEMMA ReadConfigKeeps ==
    ASSUME LineInv, NEW p \in Procs, ReadConfig(p)
    PROVE  LineInv'
<1>. DEFINE cmd == command[p]
            new == config'[p]
            own == ItsOwn(cmd, addrs[p][1])
<1>1. /\ Types /\ InTheFile /\ UsesWhatWasRegistered
      /\ (\A q \in Procs : Underway(q)) /\ Underway(p)
  BY DEF LineInv
<1>2. /\ pc[p] = "resolved" /\ cmd.op \in Writers
      /\ UNCHANGED <<home, file, command, todo, addrs, result, mixed, over>>
      /\ Becomes(p, "truncate")
      /\ config' = [config EXCEPT ![p] = new]
      /\ seen' = [seen EXCEPT ![p] = IF InFile = {} THEN HaveWritten ELSE {}]
  BY <1>1 DEF ReadConfig, Types
<1>3. /\ cmd.name \in Names /\ (cmd.op = "register" => addrs[p][1] \in Addrs)
      /\ Parse(file) \in Seq(Entries) /\ new = Changed(Parse(file), cmd, addrs[p][1])
  BY ReadIs
<1>7. known' = known \cup own
  BY ReadIs
<1>8. own \subseteq Entries
  BY <1>3 DEF ItsOwn, Entry, Entries
<1>9. /\ new \in Seq(Entries)
      /\ Bindings(new) \subseteq Bindings(Parse(file)) \cup own
      /\ Unique(Parse(file)) => Unique(new)
  <2>1. /\ new \in Seq(Entries)
        /\ \A b \in Bindings(new) :
              b \in Bindings(Parse(file)) \/ (cmd.op = "register" /\ b = Entry(cmd.name, addrs[p][1]))
        /\ Unique(Parse(file)) => Unique(new)
    <3>. HIDE DEF cmd, new
    <3>. QED  BY <1>2, <1>3, ChangeIs
  <2>. QED  BY <2>1 DEF ItsOwn
<1>. HIDE DEF new
<1>. HIDE DEF own
<1>10. /\ pc'[p] = "truncate" /\ config'[p] = new
       /\ \A q \in Procs : q # p => pc'[q] = pc[q] /\ config'[q] = config[q]
  BY ReadIs DEF new
<1>11. Types'
  <2>1. pc' \in [Procs -> {"parse", "resolve", "resolved", "truncate", "write", "done"}]
    BY <1>1, <1>2 DEF Types, Becomes
  <2>2. config' \in [Procs -> Seq(Entries)]
    BY <1>1, <1>2, <1>9 DEF Types
  <2>3. known' \subseteq Entries
    BY <1>1, <1>7, <1>8 DEF Types
  <2>4. seen' \in [Procs -> SUBSET Procs]
    <3>1. HaveWritten \subseteq Procs
      BY DEF HaveWritten
    <3>. QED  BY <1>1, <1>2, <3>1 DEF Types
  <2>. QED  BY <1>1, <1>2, <2>1, <2>2, <2>3, <2>4 DEF Types
<1>12. InFile' = InFile /\ Rewriting' = Rewriting \cup {p}
  BY <1>2, <1>10 DEF InFile, Rewriting
<1>13. InTheFile'
  <2>. SUFFICES ASSUME ~mixed  PROVE InTheFile'
    BY <1>2 DEF InTheFile
  <2>1. Unique(Parse(file)) /\ Bindings(Parse(file)) \subseteq known
    BY <1>1 DEF InTheFile
  <2>2. ASSUME NEW q \in Rewriting'
        PROVE  Unique(config'[q]) /\ Bindings(config'[q]) \subseteq known'
    <3>1. CASE q = p
      BY <1>7, <1>9, <1>10, <2>1, <3>1
    <3>2. CASE q # p
      <4>1. q \in Rewriting /\ config'[q] = config[q]
        BY <1>10, <1>12, <3>2 DEF Rewriting
      <4>. QED  BY <1>1, <1>7, <4>1 DEF InTheFile
    <3>. QED  BY <3>1, <3>2
  <2>3. /\ \A q, s \in InFile : q = s
        /\ InFile # {} => file = <<>>
    BY <1>1 DEF InTheFile
  <2>. QED  BY <1>2, <1>7, <1>12, <2>1, <2>2, <2>3 DEF InTheFile
<1>15. \A q \in Procs : Underway(q)'
  <2>1. Underway(p)'
    <3>1. pc'[p] = "truncate" /\ UNCHANGED <<home, command, todo, addrs>>
      BY <1>2, <1>10
    <3>. QED  BY <1>1, <1>2, <3>1, WriterUnderway
  <2>2. \A q \in Procs : q # p =>
          /\ pc'[q] = pc[q] /\ result'[q] = result[q] /\ todo'[q] = todo[q]
          /\ addrs'[q] = addrs[q] /\ command'[q] = command[q]
    BY <1>2, <1>10
  <2>. QED  BY <1>1, <1>2, <2>1, <2>2, OthersUnderway
<1>16. UsesWhatWasRegistered'
  BY <1>1, <1>2, <1>7, SameUses
<1>. QED  BY <1>11, <1>13, <1>15, <1>16 DEF LineInv

LEMMA TruncateKeeps ==
    ASSUME LineInv, NEW p \in Procs, Truncate(p)
    PROVE  LineInv'
<1>1. /\ Types /\ InTheFile /\ UsesWhatWasRegistered
      /\ (\A q \in Procs : Underway(q)) /\ Underway(p)
  BY DEF LineInv
<1>2. /\ pc[p] = "truncate" /\ file' = <<>> /\ Becomes(p, "write")
      /\ mixed' = (mixed \/ InFile # {})
      /\ over' = [over EXCEPT ![p] = HaveWritten]
      /\ UNCHANGED <<home, command, todo, addrs, config, result, known, seen>>
  BY DEF Truncate, Opened
<1>3. pc'[p] = "write" /\ \A q \in Procs : q # p => pc'[q] = pc[q]
  BY <1>1, <1>2, Moved
<1>4. InFile' = InFile \cup {p} /\ Rewriting' = Rewriting /\ p \in Rewriting
      /\ InFile \subseteq Rewriting /\ p \notin InFile
  BY <1>2, <1>3 DEF InFile, Rewriting
<1>5. Types'
  <2>1. pc' \in [Procs -> {"parse", "resolve", "resolved", "truncate", "write", "done"}]
    BY <1>1, <1>2 DEF Types, Becomes
  <2>2. file' \in Seq(Symbols)
    BY <1>2, EmptySeq
  <2>3. mixed' \in BOOLEAN
    BY <1>1, <1>2 DEF Types
  <2>4. over' \in [Procs -> SUBSET Procs]
    <3>1. HaveWritten \subseteq Procs
      BY DEF HaveWritten
    <3>. QED  BY <1>1, <1>2, <3>1 DEF Types
  <2>. QED  BY <1>1, <1>2, <2>1, <2>2, <2>3, <2>4 DEF Types
<1>6. InTheFile'
  <2>. SUFFICES ASSUME ~mixed, InFile = {}  PROVE InTheFile'
    BY <1>2 DEF InTheFile
  <2>1. Parse(file') = <<>> /\ Unique(Parse(file')) /\ Bindings(Parse(file')) = {}
    BY <1>2, NothingParsed
  <2>2. \A q \in Rewriting : Unique(config[q]) /\ Bindings(config[q]) \subseteq known
    BY <1>1 DEF InTheFile
  <2>. QED  BY <1>2, <1>4, <2>1, <2>2 DEF InTheFile
<1>8. \A q \in Procs : Underway(q)'
  <2>1. Underway(p)'
    <3>1. pc'[p] = "write" /\ UNCHANGED <<home, command, todo, addrs>>
      BY <1>2, <1>3
    <3>2. command[p].op \in Writers
      BY <1>1, <1>2 DEF Underway
    <3>. QED  BY <1>1, <1>2, <3>1, <3>2, WriterUnderway
  <2>2. \A q \in Procs : q # p =>
          /\ pc'[q] = pc[q] /\ result'[q] = result[q] /\ todo'[q] = todo[q]
          /\ addrs'[q] = addrs[q] /\ command'[q] = command[q]
    BY <1>2, <1>3
  <2>. QED  BY <1>1, <1>2, <2>1, <2>2, OthersUnderway
<1>9. UsesWhatWasRegistered'
  BY <1>1, <1>2, SameUses
<1>. QED  BY <1>5, <1>6, <1>8, <1>9 DEF LineInv

(* What the only writer in the file leaves there *)
LEMMA Written ==
    ASSUME LineInv, NEW p \in Procs, Write(p), ~mixed
    PROVE  Parse(file') = config[p] /\ InFile = {p} /\ InFile' = {}
<1>1. Types /\ InTheFile
  BY DEF LineInv
<1>2. /\ pc[p] = "write" /\ file' = Overwrite(file, Format(config[p])) /\ Ends(p, "written")
  BY DEF Write
<1>3. p \in InFile /\ InFile \subseteq Procs
  BY <1>2 DEF InFile
<1>4. InFile = {p} /\ file = <<>>
  BY <1>1, <1>3 DEF InTheFile
<1>5. config[p] \in Seq(Entries) /\ file \in Seq(Symbols)
  BY <1>1 DEF Types
<1>6. Format(config[p]) \in Seq(Symbols) /\ Parse(Format(config[p])) = config[p]
  BY <1>5, ParsesAsFormatted
<1>7. file' = Format(config[p])
  BY <1>2, <1>4, <1>5, <1>6, OverwriteIs
<1>8. pc'[p] = "done" /\ \A q \in Procs : q # p => pc'[q] = pc[q]
  BY <1>1, <1>2, Ended
<1>9. InFile' = {}
  BY <1>4, <1>8 DEF InFile
<1>. QED  BY <1>4, <1>6, <1>7, <1>9

LEMMA WriteKeeps ==
    ASSUME LineInv, NEW p \in Procs, Write(p)
    PROVE  LineInv'
<1>1. /\ Types /\ InTheFile /\ UsesWhatWasRegistered
      /\ (\A q \in Procs : Underway(q)) /\ Underway(p)
  BY DEF LineInv
<1>2. /\ pc[p] = "write" /\ file' = Overwrite(file, Format(config[p])) /\ Ends(p, "written")
      /\ UNCHANGED <<home, command, todo, addrs, config, mixed, known, seen, over>>
  BY DEF Write, history
<1>3. /\ pc' \in [Procs -> {"parse", "resolve", "resolved", "truncate", "write", "done"}]
      /\ result' \in [Procs -> {"none", "connected", "written", "error", "panic", "killed"}]
      /\ pc'[p] = "done" /\ result'[p] # "none"
      /\ \A q \in Procs : q # p => pc'[q] = pc[q] /\ result'[q] = result[q]
  BY <1>1, <1>2, Ended
<1>4. Types'
  <2>1. config[p] \in Seq(Entries) /\ file \in Seq(Symbols)
    BY <1>1 DEF Types
  <2>2. file' \in Seq(Symbols)
    BY <1>2, <2>1, ParsesAsFormatted, OverwriteIs
  <2>. QED  BY <1>1, <1>2, <1>3, <2>2 DEF Types
<1>5. Rewriting' \subseteq Rewriting /\ p \in Rewriting /\ p \notin Rewriting'
  BY <1>2, <1>3 DEF Rewriting
<1>6. InTheFile'
  <2>. SUFFICES ASSUME ~mixed  PROVE InTheFile'
    BY <1>2 DEF InTheFile
  <2>1. Parse(file') = config[p] /\ InFile' = {}
    BY Written
  <2>2. \A q \in Rewriting : Unique(config[q]) /\ Bindings(config[q]) \subseteq known
    BY <1>1 DEF InTheFile
  <2>. QED  BY <1>2, <1>5, <2>1, <2>2 DEF InTheFile
<1>8. \A q \in Procs : Underway(q)'
  <2>1. Underway(p)'
    BY <1>3 DEF Underway
  <2>2. \A q \in Procs : q # p =>
          /\ pc'[q] = pc[q] /\ result'[q] = result[q] /\ todo'[q] = todo[q]
          /\ addrs'[q] = addrs[q] /\ command'[q] = command[q]
    BY <1>2, <1>3
  <2>. QED  BY <1>1, <1>2, <2>1, <2>2, OthersUnderway
<1>9. UsesWhatWasRegistered'
  BY <1>1, <1>2, SameUses
<1>. QED  BY <1>4, <1>6, <1>8, <1>9 DEF LineInv

LEMMA WriteFailsKeeps ==
    ASSUME LineInv, NEW p \in Procs, WriteFails(p)
    PROVE  LineInv'
<1>1. /\ Types /\ InTheFile /\ UsesWhatWasRegistered
      /\ (\A q \in Procs : Underway(q)) /\ Underway(p)
  BY DEF LineInv
<1>. DEFINE text == Format(config[p])
<1>2. /\ pc[p] = "write" /\ Ends(p, "error")
      /\ UNCHANGED <<home, command, todo, addrs, config, mixed, known, seen, over>>
  BY DEF WriteFails, history
<1>3. PICK n \in 0..Len(text) : file' = Overwrite(file, SubSeq(text, 1, n))
  BY DEF WriteFails
<1>4. /\ pc' \in [Procs -> {"parse", "resolve", "resolved", "truncate", "write", "done"}]
      /\ result' \in [Procs -> {"none", "connected", "written", "error", "panic", "killed"}]
      /\ pc'[p] = "done" /\ result'[p] # "none"
      /\ \A q \in Procs : q # p => pc'[q] = pc[q] /\ result'[q] = result[q]
  BY <1>1, <1>2, Ended
<1>5. /\ config[p] \in Seq(Entries) /\ file \in Seq(Symbols)
      /\ SubSeq(text, 1, n) \in Seq(Symbols)
      /\ PartOf(Parse(SubSeq(text, 1, n)), config[p])
  <2>1. config[p] \in Seq(Entries) /\ file \in Seq(Symbols)
    BY <1>1 DEF Types
  <2>. QED  BY <2>1, CutFormat
<1>6. Types'
  <2>1. file' \in Seq(Symbols)
    BY <1>3, <1>5, OverwriteIs
  <2>. QED  BY <1>1, <1>2, <1>4, <2>1 DEF Types
<1>7. Rewriting' \subseteq Rewriting /\ p \in Rewriting /\ p \in InFile
      /\ InFile' = InFile \ {p}
  BY <1>2, <1>4 DEF Rewriting, InFile
<1>8. InTheFile'
  <2>. SUFFICES ASSUME ~mixed  PROVE InTheFile'
    BY <1>2 DEF InTheFile
  <2>1. InFile = {p} /\ file = <<>>
    BY <1>1, <1>7 DEF InTheFile
  <2>2. InFile' = {}
    BY <1>7, <2>1
  <2>3. file' = SubSeq(text, 1, n)
    BY <1>3, <1>5, <2>1, OverwriteIs
  <2>4. \A q \in Rewriting : Unique(config[q]) /\ Bindings(config[q]) \subseteq known
    BY <1>1 DEF InTheFile
  <2>5. Unique(Parse(file')) /\ Bindings(Parse(file')) \subseteq known
    BY <1>5, <1>7, <2>3, <2>4 DEF PartOf
  <2>. QED  BY <1>2, <1>7, <2>2, <2>4, <2>5 DEF InTheFile
<1>9. \A q \in Procs : Underway(q)'
  <2>1. Underway(p)'
    BY <1>4 DEF Underway
  <2>2. \A q \in Procs : q # p =>
          /\ pc'[q] = pc[q] /\ result'[q] = result[q] /\ todo'[q] = todo[q]
          /\ addrs'[q] = addrs[q] /\ command'[q] = command[q]
    BY <1>2, <1>4
  <2>. QED  BY <1>1, <1>2, <2>1, <2>2, OthersUnderway
<1>10. UsesWhatWasRegistered'
  BY <1>1, <1>2, SameUses
<1>. QED  BY <1>6, <1>8, <1>9, <1>10 DEF LineInv

-----------------------------------------------------------------------------
(* The theorems *)

LEMMA LineInit == Init => LineInv
<1>. SUFFICES ASSUME Init  PROVE LineInv
  OBVIOUS
<1>1. PICK entries \in Earlier :
         /\ file = Format(entries)
         /\ known = {entries[i] : i \in DOMAIN entries}
  BY DEF Init
<1>2. entries \in Seq(Entries)
      /\ \A i, j \in DOMAIN entries : entries[i].name = entries[j].name => i = j
  BY CommandLineAssumption
<1>3. file \in Seq(Symbols) /\ Parse(file) = entries
  BY <1>1, <1>2, ParsesAsFormatted
<1>4. Unique(entries) /\ Bindings(entries) = known /\ known \subseteq Entries
  <2>1. DOMAIN entries = 1..Len(entries)
    BY <1>2
  <2>. QED  BY <1>1, <1>2, <2>1 DEF Unique, Bindings
<1>5. command \in [Procs -> Commands \cup {Idle}]
  BY CommandLineAssumption DEF Init
<1>6. \A p \in Procs : /\ pc[p] = IF command[p] = Idle THEN "done" ELSE "parse"
                       /\ addrs[p] = <<>> /\ todo[p] = <<>> /\ config[p] = <<>>
  BY DEF Init
<1>7. Types
  <2>1. <<>> \in Seq(Args) /\ <<>> \in Seq(Addrs) /\ <<>> \in Seq(Entries)
    BY EmptySeq
  <2>2. todo \in [Procs -> Seq(Args)] /\ addrs \in [Procs -> Seq(Addrs)]
        /\ config \in [Procs -> Seq(Entries)]
    BY <2>1 DEF Init
  <2>. QED  BY <1>3, <1>4, <1>5, <2>2 DEF Init, Types
<1>8. InFile = {} /\ Rewriting = {}
  BY <1>6 DEF InFile, Rewriting
<1>9. InTheFile
  BY <1>3, <1>4, <1>8 DEF InTheFile
<1>11. UsesWhatWasRegistered
  <2>1. \A p \in Procs : DOMAIN addrs[p] = {}
    BY <1>6
  <2>. QED  BY <2>1 DEF UsesWhatWasRegistered
<1>12. \A p \in Procs : Underway(p)
  BY <1>6 DEF Underway
<1>. QED  BY <1>7, <1>9, <1>11, <1>12 DEF LineInv

LEMMA Unchanged ==
    ASSUME UNCHANGED vars, LineInv
    PROVE  LineInv'
<1>1. UNCHANGED <<home, file, command, pc, todo, addrs, config, result, mixed, known, seen, over>>
  BY DEF vars
<1>2. InFile' = InFile /\ Rewriting' = Rewriting
  BY <1>1 DEF InFile, Rewriting
<1>3. \A p \in Procs : Underway(p) => Underway(p)'
  BY <1>1 DEF Underway
<1>4. Types => Types'
  BY <1>1 DEF Types
<1>5. InTheFile => InTheFile'
  BY <1>1, <1>2 DEF InTheFile
<1>6. UsesWhatWasRegistered => UsesWhatWasRegistered'
  BY <1>1 DEF UsesWhatWasRegistered
<1>. QED  BY <1>3, <1>4, <1>5, <1>6 DEF LineInv

LEMMA LineNext == LineInv /\ [Next]_vars => LineInv'
<1>. SUFFICES ASSUME LineInv, [Next]_vars  PROVE LineInv'
  OBVIOUS
<1>1. ASSUME NEW p \in Procs, Step(p)  PROVE LineInv'
  <2>1. CASE Start(p)
    BY <2>1, StartKeeps
  <2>2. CASE Resolve(p)
    BY <2>2, ResolveKeeps
  <2>3. CASE Unreadable(p) \/ Connect(p) \/ TruncateFails(p)
    BY <2>3, EndingKeeps
  <2>4. CASE ReadConfig(p)
    BY <2>4, ReadConfigKeeps
  <2>5. CASE Truncate(p)
    BY <2>5, TruncateKeeps
  <2>6. CASE Write(p)
    BY <2>6, WriteKeeps
  <2>7. CASE WriteFails(p)
    BY <2>7, WriteFailsKeeps
  <2>. QED  BY <1>1, <2>1, <2>2, <2>3, <2>4, <2>5, <2>6, <2>7 DEF Step
<1>2. ASSUME NEW p \in Procs, Kill(p)  PROVE LineInv'
  BY <1>2, EndingKeeps
<1>3. CASE UNCHANGED vars
  BY <1>3, Unchanged
<1>. QED  BY <1>1, <1>2, <1>3 DEF Next

(* The state of the tool is what t2.rs can be in: among others, each entry     *)
(* read, and each address resolved, is one of the addresses.                   *)
THEOREM LineTypeCorrect == Spec => []TypeOK
<1>1. LineInv => TypeOK
  <2>. SUFFICES ASSUME LineInv, NEW p \in Procs
                PROVE  /\ mixed \in BOOLEAN
                       /\ pc[p] \in {"parse", "resolve", "resolved", "truncate", "write", "done"}
                       /\ pc[p] = "done" /\ command[p] # Idle =>
                             result[p] \in {"connected", "written", "error", "panic", "killed"}
                       /\ addrs[p] \in Seq(Addrs)
                       /\ \A i \in DOMAIN config[p] : config[p][i].addr \in Addrs
    BY DEF TypeOK, LineInv, Types
  <2>1. Types /\ Underway(p)
    BY DEF LineInv
  <2>2. config[p] \in Seq(Entries)
    BY <2>1 DEF Types
  <2>3. \A i \in DOMAIN config[p] : config[p][i].addr \in Addrs
    <3>1. \A e \in Entries : e.addr \in Addrs
      BY DEF Entries
    <3>2. \A i \in DOMAIN config[p] : config[p][i] \in Entries
      BY <2>2
    <3>. QED  BY <3>1, <3>2
  <2>4. pc[p] = "done" /\ command[p] # Idle => result[p] # "none"
    BY <2>1 DEF Underway
  <2>. QED  BY <2>1, <2>3, <2>4 DEF Types
<1>. QED  BY <1>1, LineInit, LineNext, PTL DEF Spec

(* An invocation is led to an address under a name only when somebody has      *)
(* asked to register just that, unless two writers have been in the file at    *)
(* once (t2.rs:13, 274, 319-325).                                              *)
THEOREM LeadsToWhatWasRegistered == Spec => []UsesWhatWasRegistered
<1>1. LineInv => UsesWhatWasRegistered
  BY DEF LineInv
<1>. QED  BY <1>1, LineInit, LineNext, PTL DEF Spec

-----------------------------------------------------------------------------
(* What a command has done lasts *)

Holds(p, es) ==
    NamedBindings(es, command[p].name) = ItsOwn(command[p], addrs[p][1])
Heads(p, es) == TakesDefault(command[p]) => DefaultName(es) = command[p].name

(* a later command has asked for the default *)
Displaced(p) == \E q \in Procs : p \in over[q] /\ TakesDefault(command[q])

(* p is undone for good: not just by one that has yet to write, and will write *)
(* what p has done with the rest.                                              *)
Gone(p) ==
    \E q \in Procs :
        /\ Undoes(q, p)
        /\ pc[q] = "write" => p \notin seen[q] \/ command[q].name = command[p].name

(* who has written, and what each has in hand of its own *)
Books(q) ==
    /\ pc[q] # "done" => result[q] # "written"
    /\ pc[q] \notin {"write", "done"} => over[q] = {}
    /\ seen[q] \subseteq HaveWritten
    /\ q \in HaveWritten => command[q].name \in Names
    /\ q \in Rewriting => Holds(q, config[q]) /\ Heads(q, config[q])
    /\ ~mixed /\ q \in InFile => HaveWritten \subseteq over[q]

(* what q has in hand of p's *)
InHand(q, p) ==
    /\ ~mixed /\ q \in Rewriting /\ p \in seen[q]
    /\ command[q].name # command[p].name /\ ~Gone(p)
    => /\ Holds(p, config[q])
       /\ Heads(p, config[q]) \/ Displaced(p) \/ TakesDefault(command[q])

InForce(p) ==
    ~mixed /\ p \in HaveWritten /\ ~IsUndone(p)
    => /\ Holds(p, Parse(file))
       /\ Heads(p, Parse(file)) \/ Displaced(p)

Lasting ==
    \A p \in Procs : Books(p) /\ InForce(p) /\ \A q \in Procs : InHand(q, p)

(* A step of one that neither comes to the file nor leaves it *)
LEMMA AwayFromTheFile ==
    ASSUME Lasting, NEW p \in Procs,
           UNCHANGED <<file, command, config, mixed, seen, over>>,
           pc[p] \notin {"write", "done"}, pc'[p] \notin {"truncate", "write"},
           result'[p] # "written",
           \A q \in Procs : q # p =>
              pc'[q] = pc[q] /\ result'[q] = result[q] /\ addrs'[q] = addrs[q]
    PROVE  Lasting'
<1>1. \A q \in Procs : Books(q) /\ InForce(q) /\ \A x \in Procs : InHand(x, q)
  BY DEF Lasting
<1>2. over[p] = {} /\ result[p] # "written"
  BY <1>1 DEF Books
<1>3. HaveWritten' = HaveWritten /\ InFile' = InFile /\ Rewriting' = Rewriting \ {p}
      /\ p \notin HaveWritten /\ p \notin InFile
  BY <1>2 DEF HaveWritten, InFile, Rewriting
<1>4. \A q, x \in Procs : Undoes(q, x)' <=> Undoes(q, x)
  BY <1>2 DEF Undoes
<1>5. \A x \in Procs : /\ IsUndone(x)' <=> IsUndone(x)
                       /\ Displaced(x)' <=> Displaced(x)
  BY <1>4 DEF IsUndone, Displaced
<1>6. \A x \in Procs : Gone(x) => Gone(x)'
  <2>. SUFFICES ASSUME NEW x \in Procs, Gone(x)  PROVE Gone(x)'
    OBVIOUS
  <2>1. PICK q \in Procs :
           /\ Undoes(q, x)
           /\ pc[q] = "write" => x \notin seen[q] \/ command[q].name = command[x].name
    BY DEF Gone
  <2>2. q # p
    BY <1>2, <2>1 DEF Undoes
  <2>3. Undoes(q, x)' /\ pc'[q] = pc[q]
    BY <1>4, <2>1, <2>2
  <2>. QED  BY <2>1, <2>3 DEF Gone
<1>7. ASSUME NEW q \in Procs  PROVE Books(q)'
  <2>1. Books(q)
    BY <1>1
  <2>2. CASE q = p
    BY <1>2, <1>3, <2>1, <2>2 DEF Books
  <2>3. CASE q # p
    <3>1. pc'[q] = pc[q] /\ result'[q] = result[q] /\ addrs'[q] = addrs[q]
      BY <2>3
    <3>. QED  BY <1>3, <2>1, <3>1 DEF Books, Holds, Heads
  <2>. QED  BY <2>2, <2>3
<1>8. ASSUME NEW x \in Procs  PROVE InForce(x)'
  <2>1. InForce(x)
    BY <1>1
  <2>2. x \in HaveWritten => addrs'[x] = addrs[x]
    BY <1>3
  <2>. QED  BY <1>3, <1>5, <2>1, <2>2 DEF InForce, Holds, Heads
<1>9. ASSUME NEW x \in Procs, NEW q \in Procs  PROVE InHand(q, x)'
  <2>1. InHand(q, x) /\ Books(q)
    BY <1>1
  <2>2. x \in seen[q] => addrs'[x] = addrs[x]
    BY <1>3, <2>1 DEF Books
  <2>. QED  BY <1>3, <1>5, <1>6, <2>1, <2>2 DEF InHand, Holds, Heads
<1>. QED  BY <1>7, <1>8, <1>9 DEF Lasting

LEMMA StepsAwayKeep ==
    ASSUME LineInv, Lasting, NEW p \in Procs,
           \/ Start(p) \/ Unreadable(p) \/ Resolve(p) \/ Connect(p) \/ TruncateFails(p)
           \/ Kill(p) /\ pc[p] # "write"
    PROVE  Lasting'
<1>1. Types /\ Books(p)
  BY DEF LineInv, Lasting
<1>2. UNCHANGED <<file, command, config, mixed, seen, over>>
  BY DEF Start, Unreadable, Resolve, Connect, TruncateFails, Kill, history
<1>3. pc[p] \notin {"write", "done"}
  BY DEF Start, Unreadable, Resolve, Connect, TruncateFails, Kill
<1>4. \/ \E how \in {"connected", "error", "panic", "killed"} : Ends(p, how)
      \/ \E next \in {"resolve", "resolved"} : Becomes(p, next) /\ UNCHANGED result
  BY DEF Start, Unreadable, Resolve, Resolves, Connect, TruncateFails, Kill
<1>5. /\ pc'[p] \notin {"truncate", "write"} /\ result'[p] # "written"
      /\ \A q \in Procs : q # p => pc'[q] = pc[q] /\ result'[q] = result[q]
  <2>1. result[p] # "written"
    BY <1>1, <1>3 DEF Books
  <2>2. ASSUME NEW how \in {"connected", "error", "panic", "killed"}, Ends(p, how)
        PROVE  /\ pc'[p] \notin {"truncate", "write"} /\ result'[p] # "written"
               /\ \A q \in Procs : q # p => pc'[q] = pc[q] /\ result'[q] = result[q]
    BY <1>1, <2>2 DEF Ends, Becomes, Types
  <2>. QED  BY <1>1, <1>4, <2>1, <2>2 DEF Ends, Becomes, Types
<1>6. \A q \in Procs : q # p => addrs'[q] = addrs[q]
  BY <1>1 DEF Start, Unreadable, Resolve, Resolves, Connect, TruncateFails, Kill, Types
<1>. QED  BY <1>2, <1>3, <1>5, <1>6, AwayFromTheFile

(* Who opens the file and does not come to write it has undone all that was.   *)
LEMMA BreakingKeeps ==
    ASSUME LineInv, Lasting, NEW p \in Procs,
           WriteFails(p) \/ (Kill(p) /\ pc[p] = "write")
    PROVE  Lasting'
<1>1. \A q \in Procs : Books(q) /\ InForce(q) /\ \A x \in Procs : InHand(x, q)
  BY DEF Lasting
<1>2. UNCHANGED <<command, addrs, config, mixed, seen, over>> /\ pc[p] = "write"
  BY DEF WriteFails, Kill, history
<1>3. /\ pc'[p] = "done" /\ result'[p] # "written"
      /\ \A q \in Procs : q # p => pc'[q] = pc[q] /\ result'[q] = result[q]
  BY DEF WriteFails, Kill, Ends, Becomes, LineInv, Types
<1>4. result[p] # "written" /\ (~mixed => HaveWritten \subseteq over[p])
  BY <1>1, <1>2 DEF Books, InFile
<1>5. HaveWritten' = HaveWritten /\ InFile' = InFile \ {p} /\ Rewriting' = Rewriting \ {p}
      /\ p \notin HaveWritten
  BY <1>2, <1>3, <1>4 DEF HaveWritten, InFile, Rewriting
<1>6. ~mixed => \A x \in HaveWritten : Undoes(p, x)'
  BY <1>2, <1>3, <1>4 DEF Undoes
<1>7. ASSUME NEW q \in Procs  PROVE Books(q)'
  <2>1. Books(q)
    BY <1>1
  <2>2. CASE q = p
    BY <1>2, <1>3, <1>5, <2>1, <2>2 DEF Books
  <2>3. CASE q # p
    <3>1. pc'[q] = pc[q] /\ result'[q] = result[q]
      BY <1>3, <2>3
    <3>. QED  BY <1>2, <1>5, <2>1, <3>1 DEF Books, Holds, Heads
  <2>. QED  BY <2>2, <2>3
<1>8. ASSUME NEW x \in Procs  PROVE InForce(x)'
  BY <1>2, <1>5, <1>6 DEF InForce, IsUndone
<1>9. ASSUME NEW x \in Procs, NEW q \in Procs  PROVE InHand(q, x)'
  <2>1. x \in seen[q] /\ ~mixed => Undoes(p, x)'
    BY <1>1, <1>6 DEF Books
  <2>2. x \in seen[q] /\ ~mixed => Gone(x)'
    BY <1>3, <2>1 DEF Gone
  <2>. QED  BY <1>2, <2>2 DEF InHand
<1>. QED  BY <1>7, <1>8, <1>9 DEF Lasting

LEMMA ReadingKeeps ==
    ASSUME LineInv, Lasting, NEW p \in Procs, ReadConfig(p)
    PROVE  Lasting'
<1>. DEFINE cmd == command[p]
            es == Parse(file)
            new == config'[p]
<1>1. \A q \in Procs : Books(q) /\ InForce(q) /\ \A x \in Procs : InHand(x, q)
  BY DEF Lasting
<1>2. /\ UNCHANGED <<file, command, addrs, result, mixed, over>> /\ pc[p] = "resolved"
      /\ seen'[p] = (IF InFile = {} THEN HaveWritten ELSE {})
      /\ \A q \in Procs : q # p => seen'[q] = seen[q]
  BY DEF ReadConfig, LineInv, Types
<1>3. /\ pc'[p] = "truncate"
      /\ \A q \in Procs : q # p => pc'[q] = pc[q] /\ config'[q] = config[q]
  BY ReadIs
<1>4. /\ NamedBindings(new, cmd.name) = ItsOwn(cmd, addrs[p][1])
      /\ \A name : name # cmd.name => NamedBindings(new, name) = NamedBindings(es, name)
      /\ TakesDefault(cmd) => DefaultName(new) = cmd.name
      /\ ~TakesDefault(cmd) /\ DefaultName(es) \in Names /\ DefaultName(es) # cmd.name
            => DefaultName(new) = DefaultName(es)
  <2>1. /\ cmd.op \in Writers /\ cmd.name \in Names
        /\ cmd.op = "register" => addrs[p][1] \in Addrs
        /\ es \in Seq(Entries) /\ new = Changed(es, cmd, addrs[p][1])
    BY ReadIs
  <2>. HIDE DEF cmd, es, new
  <2>. QED  BY ONLY <2>1, CommandLineAssumption, ChangeIs
<1>. HIDE DEF es, new
<1>5. HaveWritten' = HaveWritten /\ InFile' = InFile /\ Rewriting' = Rewriting \cup {p}
      /\ p \notin Rewriting /\ p \notin InFile
  BY <1>2, <1>3 DEF HaveWritten, InFile, Rewriting
<1>6. over[p] = {} /\ result[p] # "written" /\ p \notin HaveWritten
  BY <1>1, <1>2 DEF Books, HaveWritten
<1>7. \A q, x \in Procs : Undoes(q, x)' <=> Undoes(q, x)
  BY <1>2, <1>6 DEF Undoes
<1>8. \A x \in Procs : /\ IsUndone(x)' <=> IsUndone(x)
                       /\ Displaced(x)' <=> Displaced(x)
  BY <1>2, <1>7 DEF IsUndone, Displaced
<1>9. \A x \in Procs : Gone(x) => Gone(x)'
  <2>. SUFFICES ASSUME NEW x \in Procs, Gone(x)  PROVE Gone(x)'
    OBVIOUS
  <2>1. PICK q \in Procs :
           /\ Undoes(q, x)
           /\ pc[q] = "write" => x \notin seen[q] \/ command[q].name = command[x].name
    BY DEF Gone
  <2>2. q # p
    BY <1>6, <2>1 DEF Undoes
  <2>3. Undoes(q, x)' /\ pc'[q] = pc[q] /\ seen'[q] = seen[q] /\ command' = command
    BY <1>2, <1>3, <1>7, <2>1, <2>2
  <2>. QED  BY <2>1, <2>3 DEF Gone
<1>10. ASSUME NEW q \in Procs  PROVE Books(q)'
  <2>1. Books(q)
    BY <1>1
  <2>2. CASE q = p
    <3>1. Holds(p, config[p])' /\ Heads(p, config[p])'
      BY <1>2, <1>4 DEF Holds, Heads, new
    <3>2. seen'[p] \subseteq HaveWritten
      BY <1>2
    <3>. QED  BY <1>2, <1>3, <1>5, <1>6, <2>2, <3>1, <3>2 DEF Books
  <2>3. CASE q # p
    <3>1. pc'[q] = pc[q] /\ seen'[q] = seen[q] /\ config'[q] = config[q]
      BY <1>2, <1>3, <2>3
    <3>2. q \in Rewriting' => q \in Rewriting
      BY <1>5, <2>3
    <3>. QED  BY <1>2, <1>5, <2>1, <3>1, <3>2 DEF Books, Holds, Heads
  <2>. QED  BY <2>2, <2>3
<1>11. ASSUME NEW x \in Procs  PROVE InForce(x)'
  <2>1. InForce(x)
    BY <1>1
  <2>. QED  BY <1>2, <1>5, <1>8, <2>1 DEF InForce, Holds, Heads
<1>12. ASSUME NEW x \in Procs, NEW q \in Procs  PROVE InHand(q, x)'
  <2>1. CASE q = p
    <3>. SUFFICES ASSUME ~mixed, x \in seen'[p], cmd.name # command[x].name, ~Gone(x)'
                  PROVE  /\ NamedBindings(new, command[x].name) = ItsOwn(command[x], addrs[x][1])
                         /\ \/ TakesDefault(command[x]) => DefaultName(new) = command[x].name
                            \/ Displaced(x)' \/ TakesDefault(cmd)
      BY <1>2, <2>1 DEF InHand, Holds, Heads, new
    <3>1. x \in HaveWritten /\ InFile = {}
      BY <1>2
    <3>2. ~IsUndone(x)
      <4>1. ~Gone(x)
        BY <1>9
      <4>2. \A r \in Procs : pc[r] # "write"
        BY <3>1 DEF InFile
      <4>. QED  BY <4>1, <4>2 DEF Gone, IsUndone
    <3>3. /\ NamedBindings(es, command[x].name) = ItsOwn(command[x], addrs[x][1])
          /\ \/ TakesDefault(command[x]) => DefaultName(es) = command[x].name
             \/ Displaced(x)
      BY <1>1, <3>1, <3>2 DEF InForce, Holds, Heads, es
    <3>4. command[x].name \in Names
      BY <1>1, <3>1 DEF Books
    <3>5. NamedBindings(new, command[x].name) = NamedBindings(es, command[x].name)
      BY <1>4
    <3>6. \/ TakesDefault(command[x]) => DefaultName(new) = command[x].name
          \/ Displaced(x)' \/ TakesDefault(cmd)
      <4>. HIDE DEF cmd
      <4>. QED  BY <1>4, <1>8, <3>3, <3>4
    <3>. QED  BY <3>3, <3>5, <3>6
  <2>2. CASE q # p
    <3>1. InHand(q, x) /\ seen'[q] = seen[q] /\ config'[q] = config[q]
          /\ (q \in Rewriting' => q \in Rewriting)
      BY <1>1, <1>2, <1>3, <1>5, <2>2
    <3>. QED  BY <1>2, <1>8, <1>9, <3>1 DEF InHand, Holds, Heads
  <2>. QED  BY <2>1, <2>2
<1>. QED  BY <1>10, <1>11, <1>12 DEF Lasting

LEMMA OpeningKeeps ==
    ASSUME LineInv, Lasting, NEW p \in Procs, Truncate(p)
    PROVE  Lasting'
<1>1. \A q \in Procs : Books(q) /\ InForce(q) /\ \A x \in Procs : InHand(x, q)
  BY DEF Lasting
<1>2. /\ UNCHANGED <<command, addrs, config, result, seen>> /\ pc[p] = "truncate"
      /\ mixed' = (mixed \/ InFile # {}) /\ over'[p] = HaveWritten
      /\ \A q \in Procs : q # p => over'[q] = over[q]
  BY DEF Truncate, LineInv, Types
<1>3. pc'[p] = "write" /\ \A q \in Procs : q # p => pc'[q] = pc[q]
  BY Moved DEF Truncate, LineInv
<1>4. HaveWritten' = HaveWritten /\ InFile' = InFile \cup {p} /\ Rewriting' = Rewriting
  BY <1>2, <1>3 DEF HaveWritten, InFile, Rewriting
<1>5. over[p] = {} /\ result[p] # "written" /\ p \notin HaveWritten
  BY <1>1, <1>2 DEF Books, HaveWritten
<1>6. \A x \in HaveWritten : Undoes(p, x)'
  BY <1>2, <1>5 DEF Undoes
<1>7. \A x \in Procs : (Gone(x) => Gone(x)') /\ (Displaced(x) => Displaced(x)')
  <2>. TAKE x \in Procs
  <2>1. ASSUME Gone(x)  PROVE Gone(x)'
    <3>1. PICK q \in Procs :
             /\ Undoes(q, x)
             /\ pc[q] = "write" => x \notin seen[q] \/ command[q].name = command[x].name
      BY <2>1 DEF Gone
    <3>2. q # p
      BY <1>5, <3>1 DEF Undoes
    <3>3. Undoes(q, x)' /\ pc'[q] = pc[q]
      BY <1>2, <1>3, <3>1, <3>2 DEF Undoes
    <3>. QED  BY <1>2, <3>1, <3>3 DEF Gone
  <2>2. ASSUME Displaced(x)  PROVE Displaced(x)'
    <3>1. PICK q \in Procs : x \in over[q] /\ TakesDefault(command[q])
      BY <2>2 DEF Displaced
    <3>2. q # p
      BY <1>5, <3>1
    <3>. QED  BY <1>2, <3>1, <3>2 DEF Displaced
  <2>. QED  BY <2>1, <2>2
<1>8. ASSUME NEW q \in Procs  PROVE Books(q)'
  <2>1. Books(q)
    BY <1>1
  <2>2. CASE q = p
    BY <1>2, <1>3, <1>4, <1>5, <2>1, <2>2 DEF Books, Holds, Heads
  <2>3. CASE q # p
    <3>1. pc'[q] = pc[q] /\ over'[q] = over[q]
      BY <1>2, <1>3, <2>3
    <3>2. q \in InFile' => mixed'
      BY <1>2, <1>4, <2>3
    <3>. QED  BY <1>2, <1>4, <2>1, <3>1, <3>2 DEF Books, Holds, Heads
  <2>. QED  BY <2>2, <2>3
<1>9. ASSUME NEW x \in Procs  PROVE InForce(x)'
  BY <1>4, <1>6 DEF InForce, IsUndone
<1>10. ASSUME NEW x \in Procs, NEW q \in Procs  PROVE InHand(q, x)'
  <2>1. InHand(q, x) /\ (~mixed' => ~mixed)
    BY <1>1, <1>2
  <2>. QED  BY <1>2, <1>4, <1>7, <2>1 DEF InHand, Holds, Heads
<1>. QED  BY <1>8, <1>9, <1>10 DEF Lasting

LEMMA WritingKeeps ==
    ASSUME LineInv, Lasting, NEW p \in Procs, Write(p)
    PROVE  Lasting'
<1>1. \A q \in Procs : Books(q) /\ InForce(q) /\ \A x \in Procs : InHand(x, q)
  BY DEF Lasting
<1>2. UNCHANGED <<command, addrs, config, mixed, seen, over>> /\ pc[p] = "write"
  BY DEF Write, history
<1>3. /\ pc'[p] = "done" /\ result'[p] = "written"
      /\ \A q \in Procs : q # p => pc'[q] = pc[q] /\ result'[q] = result[q]
  BY DEF Write, Ends, Becomes, LineInv, Types
<1>4. HaveWritten' = HaveWritten \cup {p} /\ Rewriting' = Rewriting \ {p} /\ p \in Rewriting
      /\ p \in InFile
  BY <1>2, <1>3 DEF HaveWritten, InFile, Rewriting
<1>5. ~mixed => Parse(file') = config[p] /\ InFile' = {}
  BY Written
<1>6. command[p].name \in Names
  <2>1. Types /\ Underway(p)
    BY DEF LineInv
  <2>2. command[p] \in Commands /\ command[p].op \in Writers
    BY <1>2, <2>1 DEF Types, Underway
  <2>. QED  BY <2>2, CommandLineAssumption
<1>7. \A x \in Procs : (Gone(x) => Gone(x)') /\ (Displaced(x) => Displaced(x)')
  <2>. TAKE x \in Procs
  <2>1. ASSUME Gone(x)  PROVE Gone(x)'
    <3>1. PICK q \in Procs :
             /\ Undoes(q, x)
             /\ pc[q] = "write" => x \notin seen[q] \/ command[q].name = command[x].name
      BY <2>1 DEF Gone
    <3>2. CASE q # p
      <4>1. Undoes(q, x)' /\ pc'[q] = pc[q]
        BY <1>2, <1>3, <3>1, <3>2 DEF Undoes
      <4>. QED  BY <1>2, <3>1, <4>1 DEF Gone
    <3>3. CASE q = p
      <4>1. Undoes(p, x)' /\ pc'[p] # "write"
        BY <1>2, <1>3, <3>1, <3>3 DEF Undoes
      <4>. QED  BY <4>1 DEF Gone
    <3>. QED  BY <3>2, <3>3
  <2>2. Displaced(x) => Displaced(x)'
    BY <1>2 DEF Displaced
  <2>. QED  BY <2>1, <2>2
<1>8. \A x \in Procs : Gone(x)' => IsUndone(x)'
  BY DEF Gone, IsUndone
<1>9. ASSUME NEW q \in Procs  PROVE Books(q)'
  <2>1. Books(q)
    BY <1>1
  <2>2. CASE q = p
    BY <1>2, <1>3, <1>4, <1>5, <1>6, <2>1, <2>2 DEF Books
  <2>3. CASE q # p
    <3>1. pc'[q] = pc[q] /\ result'[q] = result[q]
      BY <1>3, <2>3
    <3>. QED  BY <1>2, <1>4, <1>5, <2>1, <2>3, <3>1 DEF Books, Holds, Heads
  <2>. QED  BY <2>2, <2>3
<1>10. ASSUME NEW x \in Procs  PROVE InForce(x)'
  <2>. SUFFICES ASSUME ~mixed, x \in HaveWritten', ~IsUndone(x)'
                PROVE  /\ Holds(x, config[p])
                       /\ Heads(x, config[p]) \/ Displaced(x)'
    BY <1>2, <1>5 DEF InForce, Holds, Heads
  <2>1. CASE x = p
    BY <1>1, <1>4, <2>1 DEF Books
  <2>2. CASE x # p
    <3>1. x \in over[p]
      BY <1>1, <1>4, <2>2 DEF Books
    <3>2. x \in seen[p] /\ command[p].name # command[x].name
      BY <1>2, <3>1 DEF IsUndone, Undoes
    <3>3. ~Gone(x)
      BY <1>7, <1>8
    <3>4. Holds(x, config[p])
          /\ (Heads(x, config[p]) \/ Displaced(x) \/ TakesDefault(command[p]))
      BY <1>1, <1>4, <3>2, <3>3 DEF InHand
    <3>5. TakesDefault(command[p]) => Displaced(x)'
      BY <1>2, <3>1 DEF Displaced
    <3>. QED  BY <1>7, <3>4, <3>5
  <2>. QED  BY <2>1, <2>2
<1>11. ASSUME NEW x \in Procs, NEW q \in Procs  PROVE InHand(q, x)'
  <2>1. InHand(q, x)
    BY <1>1
  <2>. QED  BY <1>2, <1>4, <1>7, <2>1 DEF InHand, Holds, Heads
<1>. QED  BY <1>9, <1>10, <1>11 DEF Lasting

LEMMA LastingInit == Init => Lasting
<1>. SUFFICES ASSUME Init  PROVE Lasting
  OBVIOUS
<1>1. \A p \in Procs : result[p] = "none" /\ seen[p] = {} /\ over[p] = {}
                       /\ pc[p] \in {"parse", "done"}
  BY DEF Init
<1>2. HaveWritten = {} /\ InFile = {} /\ Rewriting = {}
  BY <1>1 DEF HaveWritten, InFile, Rewriting
<1>. QED  BY <1>1, <1>2 DEF Lasting, Books, InForce, InHand

LEMMA LastingNext == LineInv /\ Lasting /\ [Next]_vars => Lasting'
<1>. SUFFICES ASSUME LineInv, Lasting, [Next]_vars  PROVE Lasting'
  OBVIOUS
<1>1. ASSUME NEW p \in Procs, Step(p) \/ Kill(p)  PROVE Lasting'
  <2>1. CASE \/ Start(p) \/ Unreadable(p) \/ Resolve(p) \/ Connect(p) \/ TruncateFails(p)
             \/ Kill(p) /\ pc[p] # "write"
    BY <2>1, StepsAwayKeep
  <2>2. CASE ReadConfig(p)
    BY <2>2, ReadingKeeps
  <2>3. CASE Truncate(p)
    BY <2>3, OpeningKeeps
  <2>4. CASE Write(p)
    BY <2>4, WritingKeeps
  <2>5. CASE WriteFails(p) \/ (Kill(p) /\ pc[p] = "write")
    BY <2>5, BreakingKeeps
  <2>. QED  BY <1>1, <2>1, <2>2, <2>3, <2>4, <2>5 DEF Step
<1>2. CASE UNCHANGED vars
  <2>1. UNCHANGED <<file, command, pc, addrs, config, result, mixed, seen, over>>
    BY <1>2 DEF vars
  <2>. QED  BY <2>1 DEF Lasting, Books, InForce, InHand, Holds, Heads, Gone, Displaced,
                        IsUndone, Undoes, HaveWritten, InFile, Rewriting
<1>. QED  BY <1>1, <1>2 DEF Next

(* What a register or an unregister has done lasts, until a later command      *)
(* changes that name, has read too early, or breaks off in the file (t2.rs:    *)
(* 258-274, 281-289).                                                          *)
THEOREM WhatIsDoneLasts == Spec => []EffectsLast
<1>1. Lasting => EffectsLast
  <2>. SUFFICES ASSUME Lasting, ~mixed, NEW p \in HaveWritten, ~IsUndone(p)
                PROVE  /\ Stands(p)
                       /\ command[p].op = "register" /\ command[p].default =>
                             \/ DefaultName(Parse(file)) = command[p].name
                             \/ \E q \in Procs : /\ p \in over[q]
                                                 /\ command[q].op = "register"
                                                 /\ command[q].default
    BY DEF EffectsLast
  <2>1. /\ Holds(p, Parse(file))
        /\ Heads(p, Parse(file)) \/ Displaced(p)
    BY DEF Lasting, InForce, HaveWritten
  <2>2. Stands(p)
    BY <2>1 DEF Stands, Holds, NamedBindings, ItsOwn
  <2>. QED  BY <2>1, <2>2 DEF Heads, Displaced, TakesDefault
<1>. QED  BY <1>1, LineInit, LineNext, LastingInit, LastingNext, PTL DEF Spec
=============================================================================

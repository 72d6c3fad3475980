-------------------------- MODULE SourceText_proofs --------------------------
(***************************************************************************)
(* Proofs about SourceText, for lines and sources of any length: a cursor  *)
(* comes back from every encoding, the word at a cursor, and the search    *)
(* for a word.  Induction over a text goes by the least number that is not *)
(* in a set of places (Onwards, Backwards).                                *)
(***************************************************************************)
EXTENDS SourceText, TLAPS, FiniteSetTheorems, SequenceTheorems, WellFoundedInduction

-----------------------------------------------------------------------------
(* Least and greatest numbers, and induction over the places of a text. *)

LEMMA Smallest ==
    ASSUME NEW T \in SUBSET Nat, T # {}
    PROVE  Min(T) \in T /\ \A n \in T : Min(T) <= n
<1>1. PICK m \in T : \A n \in T : ~ (<<n, m>> \in OpToRel(<, Nat))
  BY NatLessThanWellFounded, WFMin, Zenon
<1>2. \A n \in T : ~(n < m)
  BY <1>1 DEF OpToRel
<1>3. \A n \in T : m <= n
  BY <1>2
<1>. QED BY <1>3 DEF Min

\* What holds of the first place, and of each if it holds of the one before,
\* holds of all.
LEMMA Onwards ==
    ASSUME NEW N \in Nat, NEW S, 0 \in S, \A k \in 0 .. N - 1 : k \in S => k + 1 \in S
    PROVE  \A k \in 0 .. N : k \in S
<1>. DEFINE T == {k \in 0 .. N : k \notin S}
<1>1. ASSUME T # {} PROVE FALSE
  <2>1. T \in SUBSET Nat
    OBVIOUS
  <2>. DEFINE k == Min(T)
  <2>2. k \in T /\ \A n \in T : k <= n
    BY <1>1, <2>1, Smallest
  <2>. HIDE DEF k
  <2>3. k \in 1 .. N /\ k - 1 \in 0 .. N - 1
    BY <2>2
  <2>4. k - 1 \in S
    BY <2>2, <2>3
  <2>5. k - 1 + 1 = k
    BY <2>3
  <2>. QED BY <2>2, <2>3, <2>4, <2>5
<1>. QED BY <1>1

\* What holds of a place if it holds of all places behind it holds of all.
LEMMA Backwards ==
    ASSUME NEW N \in Nat, NEW S, \A k \in 0 .. N : (\A n \in k + 1 .. N : n \in S) => k \in S
    PROVE  \A k \in 0 .. N : k \in S
<1>. DEFINE T == {j \in 0 .. N : \A n \in N - j .. N : n \in S}
<1>1. 0 \in T
  <2>1. N \in 0 .. N /\ N + 1 .. N = {}
    OBVIOUS
  <2>2. N \in S
    BY <2>1
  <2>. QED BY <2>2
<1>2. ASSUME NEW j \in 0 .. N - 1, j \in T PROVE j + 1 \in T
  <2>. DEFINE k == N - (j + 1)
  <2>1. k \in 0 .. N /\ N - j = k + 1 /\ j + 1 \in 0 .. N
    OBVIOUS
  <2>2. k \in S
    BY <1>2, <2>1
  <2>3. \A n \in k .. N : n = k \/ n \in k + 1 .. N
    BY <2>1
  <2>. QED BY <1>2, <2>1, <2>2, <2>3
<1>3. N \in 0 .. N /\ \A k \in 0 .. N : k \in N - N .. N
  OBVIOUS
<1>. HIDE DEF T
<1>4. N \in T
  BY <1>1, <1>2, <1>3, Onwards
<1>. QED BY <1>3, <1>4 DEF T

\* A finite set has an element where f is largest.
LEMMA Largest ==
    ASSUME NEW S, IsFiniteSet(S), S # {}, NEW f \in [S -> Int]
    PROVE  \E m \in S : \A x \in S : f[x] <= f[m]
<1>. DEFINE Above(m) == {x \in S : f[x] > f[m]}
            T == {Above(m) : m \in S}
<1>1. IsWellFoundedOn(StrictSubsetOrdering(S), FiniteSubsetsOf(S))
  BY FS_StrictSubsetOrderingWellFounded
<1>2. T \subseteq FiniteSubsetsOf(S)
  BY FS_FiniteSubsetsOfFinite
<1>3. T # {}
  <2>1. PICK x \in S : TRUE
    OBVIOUS
  <2>2. Above(x) \in T
    BY Zenon
  <2>. QED BY <2>2
<1>4. PICK least \in T : \A U \in T : <<U, least>> \notin StrictSubsetOrdering(S)
  BY <1>1, <1>2, <1>3, WFMin
<1>5. PICK m \in S : least = Above(m)
  OBVIOUS
<1>6. ASSUME NEW x \in S, f[x] > f[m] PROVE FALSE
  <2>1. Above(x) \subseteq Above(m)
    BY <1>6
  <2>2. x \in Above(m) /\ x \notin Above(x)
    BY <1>6
  <2>3. <<Above(x), Above(m)>> \in StrictSubsetOrdering(S)
    BY <2>1, <2>2 DEF StrictSubsetOrdering
  <2>. QED BY <1>4, <1>5, <2>3
<1>. QED BY <1>6

\* The largest of some numbers up to b.
LEMMA LargestOf ==
    ASSUME NEW b \in Nat, NEW S \in SUBSET (0 .. b), S # {}
    PROVE  Max(S) \in S /\ \A n \in S : n <= Max(S)
<1>. DEFINE f == [n \in S |-> n]
<1>1. IsFiniteSet(S) /\ f \in [S -> Int]
  <2>1. IsFiniteSet(0 .. b)
    <3>1. 0 \in Int /\ b \in Int
      OBVIOUS
    <3>. QED BY <3>1, FS_Interval, Zenon
  <2>2. IsFiniteSet(S)
    BY <2>1, FS_Subset
  <2>. QED BY <2>2
<1>2. PICK m \in S : \A n \in S : f[n] <= f[m]
  <2>. HIDE DEF f
  <2>. QED BY <1>1, Largest
<1>3. \A n \in S : m >= n
  BY <1>2
<1>4. Max(S) \in S /\ \A n \in S : Max(S) >= n
  BY <1>3 DEF Max
<1>. QED BY <1>4

-----------------------------------------------------------------------------
(* Columns: the offsets of the characters of a line, under three tables of *)
(* widths, are a function that exists, that is the only one and that grows. *)

\* f[n] is the sum of the first n of the widths w.
IsSum(f, w) == f = [n \in 0 .. Len(w) |-> IF n = 0 THEN 0 ELSE f[n - 1] + w[n]]

LEMMA SumExists ==
    ASSUME NEW w, Len(w) \in Nat
    PROVE  \E f : IsSum(f, w)
<1>. DEFINE N == Len(w)
            Upto(f, k) == f = [n \in 0 .. k |-> IF n = 0 THEN 0 ELSE f[n - 1] + w[n]]
            S == {k \in Nat : \E f : Upto(f, k)}
<1>1. 0 \in S
  <2>. DEFINE f == [n \in 0 .. 0 |-> 0]
  <2>1. Upto(f, 0)
    OBVIOUS
  <2>. QED BY <2>1
<1>2. ASSUME NEW k \in 0 .. N - 1, k \in S PROVE k + 1 \in S
  <2>1. PICK f : Upto(f, k)
    BY <1>2
  <2>. DEFINE g == [n \in 0 .. k + 1 |-> IF n = k + 1 THEN f[k] + w[k + 1] ELSE f[n]]
              h == [n \in 0 .. k + 1 |-> IF n = 0 THEN 0 ELSE g[n - 1] + w[n]]
  <2>2. ASSUME NEW n \in 0 .. k + 1 PROVE g[n] = h[n]
    <3>1. CASE n = k + 1
      BY <3>1
    <3>2. CASE n # k + 1
      <4>1. n \in 0 .. k /\ f[n] = IF n = 0 THEN 0 ELSE f[n - 1] + w[n]
        BY <2>1, <3>2
      <4>. QED BY <3>2, <4>1
    <3>. QED BY <3>1, <3>2
  <2>3. g = [n \in 0 .. k + 1 |-> g[n]] /\ h = [n \in 0 .. k + 1 |-> h[n]]
    OBVIOUS
  <2>4. g = h
    <3>. HIDE DEF g, h
    <3>. QED BY <2>2, <2>3
  <2>5. Upto(g, k + 1)
    BY <2>4
  <2>. HIDE DEF Upto, g
  <2>6. k + 1 \in Nat
    OBVIOUS
  <2>. QED BY <2>5, <2>6
<1>. HIDE DEF S
<1>3. N \in S
  <2>1. N \in 0 .. N
    OBVIOUS
  <2>. QED BY <1>1, <1>2, <2>1, Onwards
<1>4. PICK f : Upto(f, N)
  BY <1>3 DEF S
<1>. QED BY <1>4 DEF IsSum

LEMMA SumFacts ==
    ASSUME NEW w \in Seq(Nat \ {0}), NEW f, IsSum(f, w)
    PROVE  /\ f \in [0 .. Len(w) -> Nat] /\ f[0] = 0
           /\ \A n \in 1 .. Len(w) : f[n] = f[n - 1] + w[n]
           /\ \A a, b \in 0 .. Len(w) : a < b => f[a] < f[b]
<1>. DEFINE N == Len(w)
<1>0. N \in Nat /\ \A n \in 1 .. N : w[n] \in Nat \ {0}
  OBVIOUS
<1>1. DOMAIN f = 0 .. N /\ f = [n \in 0 .. N |-> f[n]]
  BY DEF IsSum
<1>2. f[0] = 0 /\ \A n \in 1 .. N : f[n] = f[n - 1] + w[n]
  <2>1. \A n \in 0 .. N : f[n] = IF n = 0 THEN 0 ELSE f[n - 1] + w[n]
    BY DEF IsSum
  <2>2. 0 \in 0 .. N /\ \A n \in 1 .. N : n \in 0 .. N /\ n # 0
    BY <1>0
  <2>. QED BY <2>1, <2>2
<1>. HIDE DEF N
<1>3. \A n \in 0 .. N : f[n] \in Nat
  <2>. DEFINE S == {n \in 0 .. N : f[n] \in Nat}
  <2>1. 0 \in S
    BY <1>0, <1>2
  <2>2. ASSUME NEW k \in 0 .. N - 1, k \in S PROVE k + 1 \in S
    <3>1. k + 1 \in 1 .. N /\ f[k + 1] = f[k] + w[k + 1] /\ w[k + 1] \in Nat
      BY <1>0, <1>2
    <3>. QED BY <2>2, <3>1
  <2>. HIDE DEF S
  <2>3. \A k \in 0 .. N : k \in S
    BY <1>0, <2>1, <2>2, Onwards
  <2>. QED BY <2>3 DEF S
<1>4. \A b \in 0 .. N : \A a \in 0 .. N : a < b => f[a] < f[b]
  <2>. DEFINE S == {b \in 0 .. N : \A a \in 0 .. N : a < b => f[a] < f[b]}
  <2>1. 0 \in S
    BY <1>0
  <2>2. ASSUME NEW k \in 0 .. N - 1, k \in S PROVE k + 1 \in S
    <3>1. k + 1 \in 1 .. N /\ f[k + 1] = f[k] + w[k + 1] /\ w[k + 1] \in Nat \ {0}
      BY <1>0, <1>2
    <3>2. f[k] < f[k + 1] /\ f[k] \in Nat /\ f[k + 1] \in Nat
      BY <1>0, <1>3, <3>1
    <3>3. ASSUME NEW a \in 0 .. N, a < k + 1 PROVE f[a] < f[k + 1]
      <4>1. CASE a = k
        BY <3>2, <4>1
      <4>2. CASE a < k
        BY <1>0, <1>3, <2>2, <3>2, <4>2
      <4>. QED BY <1>0, <3>3, <4>1, <4>2
    <3>. QED BY <1>0, <3>1, <3>3
  <2>. HIDE DEF S
  <2>3. \A k \in 0 .. N : k \in S
    BY <1>0, <2>1, <2>2, Onwards
  <2>. QED BY <2>3 DEF S
<1>. QED BY <1>1, <1>2, <1>3, <1>4 DEF N

\* The sums of a part of the widths are differences of the sums of all.
IsPart(v, w, k) == k + Len(v) <= Len(w) /\ \A n \in 1 .. Len(v) : v[n] = w[k + n]
Shifted(f, w, g, v, k) == \A n \in 0 .. Len(v) : f[k + n] = f[k] + g[n]

LEMMA SumShift ==
    ASSUME NEW w \in Seq(Nat \ {0}), NEW f, IsSum(f, w), NEW v \in Seq(Nat \ {0}), NEW g, IsSum(g, v),
           NEW k \in Nat, IsPart(v, w, k)
    PROVE  Shifted(f, w, g, v, k)
<1>. DEFINE M == Len(v)
            N == Len(w)
            S == {n \in 0 .. M : f[k + n] = f[k] + g[n]}
<1>0. M \in Nat /\ N \in Nat /\ k + M <= N /\ \A n \in 1 .. M : v[n] \in Nat
  BY DEF IsPart
<1>1. /\ f \in [0 .. N -> Nat] /\ \A n \in 1 .. N : f[n] = f[n - 1] + w[n]
      /\ g \in [0 .. M -> Nat] /\ g[0] = 0 /\ \A n \in 1 .. M : g[n] = g[n - 1] + v[n]
  <2>1. f \in [0 .. N -> Nat] /\ \A n \in 1 .. N : f[n] = f[n - 1] + w[n]
    BY SumFacts
  <2>2. g \in [0 .. M -> Nat] /\ g[0] = 0 /\ \A n \in 1 .. M : g[n] = g[n - 1] + v[n]
    BY SumFacts
  <2>. QED BY <2>1, <2>2
<1>2. \A n \in 1 .. M : v[n] = w[k + n]
  BY DEF IsPart
<1>. HIDE DEF M, N
<1>3. 0 \in S
  BY <1>0, <1>1
<1>4. ASSUME NEW n \in 0 .. M - 1, n \in S PROVE n + 1 \in S
  <2>1. /\ n + 1 \in 1 .. M /\ k + (n + 1) \in 1 .. N /\ (k + (n + 1)) - 1 = k + n /\ (n + 1) - 1 = n
        /\ k \in 0 .. N /\ n \in 0 .. M
    BY <1>0
  <2>2. f[k + (n + 1)] = f[k + n] + w[k + (n + 1)] /\ g[n + 1] = g[n] + v[n + 1]
    BY <1>1, <2>1
  <2>3. v[n + 1] = w[k + (n + 1)] /\ f[k + n] = f[k] + g[n]
    BY <1>2, <1>4, <2>1
  <2>4. f[k] \in Nat /\ g[n] \in Nat /\ v[n + 1] \in Nat
    BY <1>0, <1>1, <2>1
  <2>. QED BY <2>1, <2>2, <2>3, <2>4
<1>. HIDE DEF S
<1>5. \A n \in 0 .. M : n \in S
  BY <1>0, <1>3, <1>4, Onwards
<1>. QED BY <1>5 DEF S, M, Shifted

LEMMA SumUnique ==
    ASSUME NEW w \in Seq(Nat \ {0}), NEW f, IsSum(f, w), NEW g, IsSum(g, w)
    PROVE  f = g
<1>1. f \in [0 .. Len(w) -> Nat] /\ g \in [0 .. Len(w) -> Nat] /\ f[0] = 0
  BY SumFacts
<1>2. \A n \in 0 .. Len(w) : f[0 + n] = f[0] + g[n]
  <2>1. 0 \in Nat /\ IsPart(w, w, 0)
    BY DEF IsPart
  <2>2. Shifted(f, w, g, w, 0)
    BY <2>1, SumShift
  <2>. QED BY <2>2 DEF Shifted
<1>3. \A n \in 0 .. Len(w) : f[n] = g[n]
  BY <1>1, <1>2
<1>. QED BY <1>1, <1>3

Widths8(text) == [n \in 1 .. Len(text) |-> Utf8Width(text[n])]
Widths16(text) == [n \in 1 .. Len(text) |-> Utf16Width(text[n])]

LEMMA Offsets8 ==
    ASSUME NEW text \in Seq(STRING)
    PROVE  /\ Widths8(text) \in Seq(Nat \ {0}) /\ Len(Widths8(text)) = Len(text)
           /\ IsSum(Offsets(Utf8Width, text), Widths8(text))
<1>. DEFINE N == Len(text)
            P(f) == f = [n \in 0 .. N |-> IF n = 0 THEN 0 ELSE f[n - 1] + Utf8Width(text[n])]
            offset == CHOOSE f : P(f)
<1>1. N \in Nat
  OBVIOUS
<1>5. Widths8(text) \in Seq(Nat \ {0}) /\ Len(Widths8(text)) = N
  BY DEF Widths8, Utf8Width
<1>2. ASSUME NEW f PROVE P(f) <=> IsSum(f, Widths8(text))
  <2>1. \A n \in 0 .. N : n # 0 => Widths8(text)[n] = Utf8Width(text[n])
    BY <1>1 DEF Widths8
  <2>. QED BY <1>5, <2>1 DEF IsSum
<1>3. Offsets(Utf8Width, text) = offset
  BY Zenon DEF Offsets
<1>. HIDE DEF P
<1>4. P(offset)
  <2>1. \E f : P(f)
    BY <1>1, <1>2, <1>5, SumExists
  <2>. QED BY <2>1, Zenon
<1>. QED BY <1>2, <1>3, <1>4, <1>5

LEMMA Offsets16 ==
    ASSUME NEW text \in Seq(STRING)
    PROVE  /\ Widths16(text) \in Seq(Nat \ {0}) /\ Len(Widths16(text)) = Len(text)
           /\ IsSum(Offsets(Utf16Width, text), Widths16(text))
<1>. DEFINE N == Len(text)
            P(f) == f = [n \in 0 .. N |-> IF n = 0 THEN 0 ELSE f[n - 1] + Utf16Width(text[n])]
            offset == CHOOSE f : P(f)
<1>1. N \in Nat
  OBVIOUS
<1>5. Widths16(text) \in Seq(Nat \ {0}) /\ Len(Widths16(text)) = N
  BY DEF Widths16, Utf16Width
<1>2. ASSUME NEW f PROVE P(f) <=> IsSum(f, Widths16(text))
  <2>1. \A n \in 0 .. N : n # 0 => Widths16(text)[n] = Utf16Width(text[n])
    BY <1>1 DEF Widths16
  <2>. QED BY <1>5, <2>1 DEF IsSum
<1>3. Offsets(Utf16Width, text) = offset
  BY Zenon DEF Offsets
<1>. HIDE DEF P
<1>4. P(offset)
  <2>1. \E f : P(f)
    BY <1>1, <1>2, <1>5, SumExists
  <2>. QED BY <2>1, Zenon
<1>. QED BY <1>2, <1>3, <1>4, <1>5

o8(text) == Offsets(Utf8Width, text)
o16(text) == Offsets(Utf16Width, text)

\* What the columns of a line are made of.
LEMMA Grows ==
    ASSUME NEW text \in Seq(STRING)
    PROVE  /\ o8(text) \in [0 .. Len(text) -> Nat] /\ o16(text) \in [0 .. Len(text) -> Nat]
           /\ o8(text)[0] = 0 /\ o16(text)[0] = 0
           /\ \A n \in 1 .. Len(text) : o8(text)[n] = o8(text)[n - 1] + Utf8Width(text[n])
           /\ \A a, b \in 0 .. Len(text) : a < b => o8(text)[a] < o8(text)[b] /\ o16(text)[a] < o16(text)[b]
<1>1. Len(text) \in Nat
  OBVIOUS
<1>2. /\ o8(text) \in [0 .. Len(text) -> Nat] /\ o8(text)[0] = 0
      /\ \A n \in 1 .. Len(text) : o8(text)[n] = o8(text)[n - 1] + Widths8(text)[n]
      /\ \A a, b \in 0 .. Len(text) : a < b => o8(text)[a] < o8(text)[b]
  BY <1>1, Offsets8, SumFacts DEF o8
<1>3. /\ o16(text) \in [0 .. Len(text) -> Nat] /\ o16(text)[0] = 0
      /\ \A a, b \in 0 .. Len(text) : a < b => o16(text)[a] < o16(text)[b]
  BY <1>1, Offsets16, SumFacts DEF o16
<1>. QED BY <1>2, <1>3 DEF Widths8

\* The offsets within a slice are those of the text less the slice's start.
LEMMA SliceOffsets ==
    ASSUME NEW text \in Seq(STRING), NEW from \in 0 .. Len(text), NEW to \in from .. Len(text)
    PROVE  /\ Slice(text, from, to) \in Seq(STRING) /\ Len(Slice(text, from, to)) = to - from
           /\ \A n \in 0 .. to - from :
                /\ o8(text)[from + n] = o8(text)[from] + o8(Slice(text, from, to))[n]
                /\ o16(text)[from + n] = o16(text)[from] + o16(Slice(text, from, to))[n]
<1>. DEFINE part == Slice(text, from, to)
            M == to - from
            N == Len(text)
<1>1. /\ part \in Seq(STRING) /\ Len(part) = M
      /\ \A n \in 1 .. M : part[n] = text[from + n]
  BY DEF Slice
<1>2. N \in Nat /\ M \in Nat /\ from \in Nat /\ from + M <= N
  OBVIOUS
<1>. HIDE DEF part, M, N
<1>3. \A n \in 1 .. M : /\ Widths8(part)[n] = Widths8(text)[from + n]
                        /\ Widths16(part)[n] = Widths16(text)[from + n]
  <2>1. \A n \in 1 .. M : from + n \in 1 .. N
    BY <1>2
  <2>. QED BY <1>1, <2>1 DEF Widths8, Widths16, N
<1>4. \A n \in 0 .. M : o8(text)[from + n] = o8(text)[from] + o8(part)[n]
  <2>. DEFINE f == o8(text)
              w == Widths8(text)
              g == o8(part)
              v == Widths8(part)
  <2>1. /\ w \in Seq(Nat \ {0}) /\ Len(w) = N /\ IsSum(f, w)
        /\ v \in Seq(Nat \ {0}) /\ Len(v) = M /\ IsSum(g, v)
    BY <1>1, Offsets8 DEF o8, N
  <2>2. IsPart(v, w, from) /\ from \in Nat
    BY <1>2, <1>3, <2>1 DEF IsPart
  <2>. HIDE DEF f, w, g, v
  <2>3. Shifted(f, w, g, v, from)
    BY <2>1, <2>2, SumShift
  <2>4. \A n \in 0 .. M : f[from + n] = f[from] + g[n]
    BY <2>1, <2>3 DEF Shifted
  <2>. QED BY <2>4 DEF f, g
<1>5. \A n \in 0 .. M : o16(text)[from + n] = o16(text)[from] + o16(part)[n]
  <2>. DEFINE f == o16(text)
              w == Widths16(text)
              g == o16(part)
              v == Widths16(part)
  <2>1. /\ w \in Seq(Nat \ {0}) /\ Len(w) = N /\ IsSum(f, w)
        /\ v \in Seq(Nat \ {0}) /\ Len(v) = M /\ IsSum(g, v)
    BY <1>1, Offsets16 DEF o16, N
  <2>2. IsPart(v, w, from) /\ from \in Nat
    BY <1>2, <1>3, <2>1 DEF IsPart
  <2>. HIDE DEF f, w, g, v
  <2>3. Shifted(f, w, g, v, from)
    BY <2>1, <2>2, SumShift
  <2>4. \A n \in 0 .. M : f[from + n] = f[from] + g[n]
    BY <2>1, <2>3 DEF Shifted
  <2>. QED BY <2>4 DEF f, g
<1>. QED BY <1>1, <1>4, <1>5 DEF part, M

-----------------------------------------------------------------------------
(* Columns of a line, in bytes, in an encoding and in characters. *)

\* The column, in an encoding, of the character at k.
Column(line, k, encoding) ==
    CASE encoding = "Utf8" -> o8(line)[k] [] encoding = "Utf16" -> o16(line)[k] [] OTHER -> k

LEMMA BoundariesAre ==
    ASSUME NEW line \in Seq(STRING)
    PROVE  Boundaries(line) = {o8(line)[k] : k \in 0 .. Len(line)}
<1>1. DOMAIN o8(line) = 0 .. Len(line)
  BY Grows
<1>. QED BY <1>1 DEF Boundaries, Range, o8

\* The first place from which on T holds, when T holds from k on.
LEMMA FirstIs ==
    ASSUME NEW T \in SUBSET Nat, NEW k \in T, \A n \in T : k <= n
    PROVE  Min(T) = k
<1>. DEFINE m == Min(T)
<1>1. m \in T /\ \A n \in T : m <= n
  BY Smallest
<1>. HIDE DEF m
<1>2. m \in Nat /\ k \in Nat /\ m <= k /\ k <= m
  BY <1>1
<1>. QED BY <1>2 DEF m

LEMMA CharsBeforeIs ==
    ASSUME NEW line \in Seq(STRING), NEW k \in 0 .. Len(line)
    PROVE  CharsBefore(line, o8(line)[k]) = k
<1>. DEFINE T == {n \in 0 .. Len(line) : o8(line)[n] >= o8(line)[k]}
<1>1. o8(line) \in [0 .. Len(line) -> Nat] /\ \A a, b \in 0 .. Len(line) : a < b => o8(line)[a] < o8(line)[b]
  BY Grows
<1>2. T \in SUBSET Nat /\ k \in T /\ \A n \in T : k <= n
  BY <1>1
<1>3. CharsBefore(line, o8(line)[k]) = Min(T)
  BY Zenon DEF CharsBefore, o8
<1>. HIDE DEF T
<1>. QED BY <1>2, <1>3, FirstIs

LEMMA WithinLine ==
    ASSUME NEW line \in Seq(STRING), NEW k \in 0 .. Len(line)
    PROVE  Min({o8(line)[k], Bytes(line)}) = o8(line)[k]
<1>1. /\ o8(line) \in [0 .. Len(line) -> Nat]
      /\ \A a, b \in 0 .. Len(line) : a < b => o8(line)[a] < o8(line)[b]
  BY Grows
<1>2. Bytes(line) = o8(line)[Len(line)]
  BY DEF Bytes, Width, o8
<1>3. Len(line) \in 0 .. Len(line)
  OBVIOUS
<1>4. o8(line)[k] \in Nat /\ o8(line)[Len(line)] \in Nat /\ o8(line)[k] <= o8(line)[Len(line)]
  BY <1>1, <1>3
<1>. DEFINE a == o8(line)[k]
            b == o8(line)[Len(line)]
<1>. HIDE DEF a, b
<1>5. a \in Nat /\ b \in Nat /\ a <= b
  BY <1>4 DEF a, b
<1>6. {a, b} \in SUBSET Nat /\ a \in {a, b} /\ \A n \in {a, b} : a <= n
  BY <1>5
<1>7. Min({a, b}) = a
  BY <1>6, FirstIs
<1>. QED BY <1>2, <1>7 DEF a, b

\* What the server sends for the byte offset of a character.
LEMMA ToColumn ==
    ASSUME NEW line \in Seq(STRING), NEW k \in 0 .. Len(line), NEW encoding \in PosEncoding
    PROVE  byte_col_to_encoding(line, o8(line)[k], encoding) = Column(line, k, encoding)
<1>. DEFINE col == o8(line)[k]
<1>1. Min({col, Bytes(line)}) = col /\ CharsBefore(line, col) = k /\ col \in Boundaries(line)
  BY WithinLine, CharsBeforeIs, BoundariesAre
<1>2. /\ Slice(line, 0, k) \in Seq(STRING) /\ Len(Slice(line, 0, k)) = k
      /\ Width(Utf16Width, Slice(line, 0, k)) = o16(line)[k]
  <2>1. 0 \in 0 .. Len(line) /\ k \in 0 .. Len(line) /\ k - 0 = k /\ 0 + k = k /\ k \in 0 .. k
    OBVIOUS
  <2>2. /\ Slice(line, 0, k) \in Seq(STRING) /\ Len(Slice(line, 0, k)) = k
        /\ o16(line)[k] = o16(line)[0] + o16(Slice(line, 0, k))[k]
    BY <2>1, SliceOffsets
  <2>3. o16(line)[0] = 0 /\ o16(Slice(line, 0, k))[k] \in Nat
    BY <2>1, <2>2, Grows
  <2>. QED BY <2>2, <2>3 DEF Width, o16
<1>3. byte_col_to_encoding(line, col, encoding)
        = CASE encoding = "Utf8" -> col
            [] encoding = "Utf32" -> k
            [] encoding = "Utf16" -> o16(line)[k]
  BY <1>1, <1>2 DEF byte_col_to_encoding, PosEncoding
<1>. QED BY <1>3 DEF Column, PosEncoding

\* Where the server finds the column a client sends.
LEMMA ToByte ==
    ASSUME NEW line \in Seq(STRING), NEW k \in 0 .. Len(line), NEW encoding \in PosEncoding
    PROVE  encoding_col_to_byte(line, Column(line, k, encoding), encoding) = o8(line)[k]
<1>. DEFINE col == Column(line, k, encoding)
            T == {n \in 0 .. Len(line) : \/ n = Len(line)
                                         \/ encoding = "Utf32" /\ n = col
                                         \/ encoding = "Utf16" /\ o16(line)[n] >= col}
<1>1. /\ o16(line) \in [0 .. Len(line) -> Nat]
      /\ \A a, b \in 0 .. Len(line) : a < b => o16(line)[a] < o16(line)[b]
  BY Grows
<1>2. CASE encoding = "Utf8"
  BY <1>2, WithinLine DEF encoding_col_to_byte, Column
<1>3. CASE encoding # "Utf8"
  <2>1. encoding_col_to_byte(line, col, encoding) = o8(line)[Min(T)]
    BY <1>3, Zenon DEF encoding_col_to_byte, o8, o16
  <2>2. T \in SUBSET Nat
    OBVIOUS
  <2>3. k \in T /\ \A n \in T : k <= n
    <3>1. CASE encoding = "Utf32"
      <4>1. col = k
        BY <3>1 DEF Column
      <4>. QED BY <3>1, <4>1
    <3>2. CASE encoding = "Utf16"
      <4>1. col = o16(line)[k]
        BY <3>2 DEF Column
      <4>. HIDE DEF col
      <4>2. k \in T
        BY <1>1, <3>2, <4>1
      <4>3. ASSUME NEW n \in T, n < k PROVE FALSE
        <5>1. n \in 0 .. Len(line) /\ n # Len(line) /\ o16(line)[n] >= o16(line)[k]
          BY <3>2, <4>1, <4>3
        <5>2. o16(line)[n] < o16(line)[k] /\ o16(line)[n] \in Nat /\ o16(line)[k] \in Nat
          BY <1>1, <4>3, <5>1
        <5>. QED BY <5>1, <5>2
      <4>. QED BY <4>2, <4>3
    <3>. QED BY <1>3, <3>1, <3>2 DEF PosEncoding
  <2>. HIDE DEF T
  <2>4. Min(T) = k
    BY <2>2, <2>3, FirstIs
  <2>. QED BY <2>1, <2>4
<1>. QED BY <1>2, <1>3

LEMMA ToIndex ==
    ASSUME NEW line \in Seq(STRING), NEW k \in 0 .. Len(line), NEW encoding \in PosEncoding
    PROVE  client_col_to_char_index(line, Column(line, k, encoding), encoding) = k
<1>1. o8(line)[k] \in Boundaries(line)
  BY BoundariesAre
<1>. QED BY <1>1, ToByte, CharsBeforeIs DEF client_col_to_char_index

\* A column that is no character's is taken to a place between two.
LEMMA ToSomewhere ==
    ASSUME NEW line \in Seq(STRING), NEW col, NEW encoding, encoding # "Utf8"
    PROVE  client_col_to_char_index(line, col, encoding) \in 0 .. Len(line)
<1>. DEFINE T == {n \in 0 .. Len(line) : \/ n = Len(line)
                                         \/ encoding = "Utf32" /\ n = col
                                         \/ encoding = "Utf16" /\ o16(line)[n] >= col}
            m == Min(T)
<1>1. encoding_col_to_byte(line, col, encoding) = o8(line)[m]
  BY Zenon DEF encoding_col_to_byte, o8, o16
<1>2. m \in T
  <2>1. T \in SUBSET Nat /\ T # {}
    OBVIOUS
  <2>. HIDE DEF T
  <2>. QED BY <2>1, Smallest
<1>3. m \in 0 .. Len(line)
  <2>. HIDE DEF m
  <2>. QED BY <1>2
<1>. HIDE DEF m
<1>4. o8(line)[m] \in Boundaries(line) /\ CharsBefore(line, o8(line)[m]) = m
  BY <1>3, BoundariesAre, CharsBeforeIs
<1>. QED BY <1>1, <1>3, <1>4 DEF client_col_to_char_index

\* The columns CursorRoundTrips takes are those of the encoding.
LEMMA ColumnsAre ==
    ASSUME NEW line \in Seq(STRING), NEW encoding \in PosEncoding, NEW columns,
           columns = [n \in 0 .. Len(line) |->
                        IF n = 0 THEN 0
                        ELSE columns[n - 1] + (CASE encoding = "Utf8" -> Utf8Width(line[n])
                                                 [] encoding = "Utf16" -> Utf16Width(line[n])
                                                 [] OTHER -> 1)]
    PROVE  \A k \in 0 .. Len(line) : columns[k] = Column(line, k, encoding)
<1>. DEFINE N == Len(line)
<1>1. CASE encoding = "Utf8"
  <2>. DEFINE w == Widths8(line)
  <2>1. Len(w) = N /\ w \in Seq(Nat \ {0}) /\ IsSum(o8(line), w)
    BY Offsets8 DEF o8
  <2>2. \A n \in 0 .. N : n # 0 => w[n] = Utf8Width(line[n])
    BY DEF Widths8
  <2>3. IsSum(columns, w)
    <3>. HIDE DEF w
    <3>. QED BY <1>1, <2>1, <2>2 DEF IsSum
  <2>4. columns = o8(line)
    BY <2>1, <2>3, SumUnique
  <2>. QED BY <1>1, <2>4 DEF Column
<1>2. CASE encoding = "Utf16"
  <2>. DEFINE w == Widths16(line)
  <2>1. Len(w) = N /\ w \in Seq(Nat \ {0}) /\ IsSum(o16(line), w)
    BY Offsets16 DEF o16
  <2>2. \A n \in 0 .. N : n # 0 => w[n] = Utf16Width(line[n])
    BY DEF Widths16
  <2>3. IsSum(columns, w)
    <3>. HIDE DEF w
    <3>. QED BY <1>2, <2>1, <2>2 DEF IsSum
  <2>4. columns = o16(line)
    BY <2>1, <2>3, SumUnique
  <2>. QED BY <1>2, <2>4 DEF Column
<1>3. CASE encoding = "Utf32"
  <2>. DEFINE S == {k \in 0 .. N : columns[k] = k}
  <2>1. 0 \in S
    OBVIOUS
  <2>2. ASSUME NEW k \in 0 .. N - 1, k \in S PROVE k + 1 \in S
    <3>1. k + 1 \in 0 .. N /\ k + 1 # 0 /\ (k + 1) - 1 = k
      OBVIOUS
    <3>2. columns[k + 1] = columns[k] + 1
      BY <1>3, <3>1
    <3>. QED BY <2>2, <3>1, <3>2
  <2>. HIDE DEF S
  <2>3. \A k \in 0 .. N : k \in S
    BY <2>1, <2>2, Onwards
  <2>. QED BY <1>3, <2>3 DEF S, Column
<1>. QED BY <1>1, <1>2, <1>3 DEF PosEncoding

\* For a line of any length and any characters: a cursor between two of them
\* comes back from the conversion to bytes and from the one to an index, in
\* every encoding, and a column inside a surrogate pair or past the end is
\* taken to a place the handlers can slice at (server.rs:36-112).
THEOREM CursorsComeBack ==
    \A line \in Seq(STRING), encoding \in PosEncoding : CursorRoundTrips(line, encoding)
<1>. SUFFICES ASSUME NEW line \in Seq(STRING), NEW encoding \in PosEncoding
              PROVE  CursorRoundTrips(line, encoding)
  OBVIOUS
<1>. DEFINE N == Len(line)
            P(f) == f = [n \in 0 .. N |->
                           IF n = 0 THEN 0
                           ELSE f[n - 1] + (CASE encoding = "Utf8" -> Utf8Width(line[n])
                                              [] encoding = "Utf16" -> Utf16Width(line[n])
                                              [] OTHER -> 1)]
            columns == CHOOSE f : P(f)
            Back(col) == byte_col_to_encoding(line, encoding_col_to_byte(line, col, encoding), encoding)
<1>1. \E f : P(f)
  <2>. DEFINE w == [n \in 1 .. N |-> CASE encoding = "Utf8" -> Utf8Width(line[n])
                                       [] encoding = "Utf16" -> Utf16Width(line[n])
                                       [] OTHER -> 1]
  <2>1. Len(w) = N /\ N \in Nat
    OBVIOUS
  <2>2. \A n \in 0 .. N : n # 0 => w[n] = CASE encoding = "Utf8" -> Utf8Width(line[n])
                                            [] encoding = "Utf16" -> Utf16Width(line[n])
                                            [] OTHER -> 1
    OBVIOUS
  <2>. HIDE DEF w
  <2>3. PICK f : IsSum(f, w)
    BY <2>1, SumExists
  <2>4. P(f)
    BY <2>1, <2>2, <2>3 DEF IsSum
  <2>. QED BY <2>4
<1>2. P(columns)
  <2>. HIDE DEF P
  <2>. QED BY <1>1, Zenon
<1>3. CursorRoundTrips(line, encoding) <=>
        /\ \A k \in 0 .. N : /\ Back(columns[k]) = columns[k]
                             /\ client_col_to_char_index(line, columns[k], encoding) = k
        /\ encoding # "Utf8" => \A col \in 0 .. columns[N] + 2 :
             client_col_to_char_index(line, col, encoding) \in 0 .. N
  BY Zenon DEF CursorRoundTrips, Offsets
<1>4. \A k \in 0 .. N : columns[k] = Column(line, k, encoding)
  <2>. HIDE DEF columns
  <2>. QED BY <1>2, ColumnsAre
<1>. HIDE DEF columns
<1>5. ASSUME NEW k \in 0 .. N
      PROVE  /\ Back(columns[k]) = columns[k]
             /\ client_col_to_char_index(line, columns[k], encoding) = k
  BY <1>4, ToByte, ToColumn, ToIndex
<1>6. ASSUME encoding # "Utf8", NEW col \in 0 .. columns[N] + 2
      PROVE  client_col_to_char_index(line, col, encoding) \in 0 .. N
  BY <1>6, ToSomewhere
<1>. HIDE DEF N, Back
<1>. QED BY <1>3, <1>5, <1>6, Zenon

-----------------------------------------------------------------------------
(* Words, lines and matches. *)

LEMMA BackIs ==
    ASSUME NEW chars \in Seq(STRING), NEW col \in 0 .. Len(chars)
    PROVE  LET start == BackWhile(chars, col, is_ident_char)
           IN  /\ start \in 0 .. col /\ \A n \in start .. col - 1 : is_ident_char(Ch(chars, n))
               /\ start = 0 \/ ~is_ident_char(Ch(chars, start - 1))
<1>. DEFINE S == {0} \cup {n \in 1 .. col : ~is_ident_char(Ch(chars, n - 1))}
            start == Max(S)
<1>1. BackWhile(chars, col, is_ident_char) = start
  BY Zenon DEF BackWhile
<1>2. start \in S /\ \A n \in S : n <= start
  <2>1. S \in SUBSET (0 .. col) /\ S # {} /\ col \in Nat
    OBVIOUS
  <2>. HIDE DEF S
  <2>. QED BY <2>1, LargestOf
<1>. HIDE DEF start
<1>3. start \in 0 .. col
  BY <1>2
<1>4. ASSUME NEW n \in start .. col - 1, ~is_ident_char(Ch(chars, n)) PROVE FALSE
  <2>1. n + 1 \in 1 .. col /\ (n + 1) - 1 = n /\ n + 1 > start
    BY <1>3
  <2>2. n + 1 \in S
    BY <1>4, <2>1
  <2>. QED BY <1>2, <2>1, <2>2
<1>5. start = 0 \/ ~is_ident_char(Ch(chars, start - 1))
  BY <1>2
<1>. QED BY <1>1, <1>3, <1>4, <1>5

LEMMA ForthIs ==
    ASSUME NEW chars \in Seq(STRING), NEW col \in 0 .. Len(chars)
    PROVE  LET end == ForthWhile(chars, col, is_ident_char)
           IN  /\ end \in col .. Len(chars) /\ \A n \in col .. end - 1 : is_ident_char(Ch(chars, n))
               /\ end = Len(chars) \/ ~is_ident_char(Ch(chars, end))
<1>. DEFINE S == {Len(chars)} \cup {n \in col .. Len(chars) - 1 : ~is_ident_char(Ch(chars, n))}
            end == Min(S)
<1>1. ForthWhile(chars, col, is_ident_char) = end
  BY Zenon DEF ForthWhile
<1>2. end \in S /\ \A n \in S : end <= n
  <2>1. S \in SUBSET Nat /\ S # {}
    OBVIOUS
  <2>. HIDE DEF S
  <2>. QED BY <2>1, Smallest
<1>. HIDE DEF end
<1>3. end \in col .. Len(chars)
  BY <1>2
<1>4. ASSUME NEW n \in col .. end - 1, ~is_ident_char(Ch(chars, n)) PROVE FALSE
  <2>1. n \in S /\ n < end
    BY <1>3, <1>4
  <2>. QED BY <1>2, <1>3, <2>1
<1>5. end = Len(chars) \/ ~is_ident_char(Ch(chars, end))
  BY <1>2
<1>. QED BY <1>1, <1>3, <1>4, <1>5

\* A word that can be searched for: not empty, and of one line.
IsOneLine(word) == word \in Seq(STRING) /\ word # <<>> /\ \A n \in 1 .. Len(word) : word[n] # NewLine

LEMMA CursorIsInWord ==
    ASSUME NEW chars \in Seq(STRING), NEW col \in 0 .. Len(chars), word_at_position(chars, col) # None
    PROVE  IsOneLine(word_at_position(chars, col))
<1>. DEFINE start == BackWhile(chars, col, is_ident_char)
            end == ForthWhile(chars, col, is_ident_char)
            word == Slice(chars, start, end)
<1>1. word_at_position(chars, col) = word /\ word # <<>>
  <2>1. ~(col > Len(chars))
    OBVIOUS
  <2>. QED BY <2>1 DEF word_at_position
<1>2. /\ start \in 0 .. col /\ \A n \in start .. col - 1 : is_ident_char(Ch(chars, n))
      /\ end \in col .. Len(chars) /\ \A n \in col .. end - 1 : is_ident_char(Ch(chars, n))
  BY BackIs, ForthIs
<1>. HIDE DEF start, end
<1>3. \A n \in start .. end - 1 : is_ident_char(Ch(chars, n))
  BY <1>2
<1>4. /\ word \in Seq(STRING) /\ Len(word) = end - start
      /\ \A n \in 1 .. end - start : word[n] = chars[start + n]
  BY <1>2 DEF Slice
<1>5. ASSUME NEW n \in 1 .. end - start PROVE word[n] # NewLine
  <2>1. start + n - 1 \in start .. end - 1 /\ (start + n - 1) + 1 = start + n
    BY <1>2
  <2>2. is_ident_char(chars[start + n])
    BY <1>3, <2>1 DEF Ch
  <2>3. ~is_ident_char(NewLine)
    BY DEF is_ident_char, Punctuation
  <2>. QED BY <1>4, <2>2, <2>3
<1>. HIDE DEF word
<1>. QED BY <1>1, <1>4, <1>5 DEF IsOneLine

MatchPlaces(word, source) ==
    {i \in 0 .. Len(source) - Len(word) : Slice(source, i, i + Len(word)) = word}

MatchesBehind(word, source, k) ==
    {i \in k .. Len(source) - Len(word) : Slice(source, i, i + Len(word)) = word}

\* The search goes from match to match, always to the next one behind the last.
LEMMA SearchGoesOn ==
    ASSUME NEW word \in Seq(STRING), word # <<>>, NEW source \in Seq(STRING)
    PROVE  \E found :
             /\ MatchesFrom(word, source) = found[0]
             /\ \A k \in 0 .. Len(source) :
                  LET at == MatchesBehind(word, source, k)
                      to == Min(at) + Len(word)
                  IN  /\ at = {} => found[k] = {}
                      /\ at # {} => /\ Min(at) \in at /\ to \in k + 1 .. Len(source)
                                    /\ found[k] = {Min(at)} \cup found[to]
<1>. DEFINE N == Len(source)
            W == Len(word)
            At(k) == MatchesBehind(word, source, k)
            Body(f, k) == IF At(k) = {} THEN {} ELSE {Min(At(k))} \cup f[Min(At(k)) + W]
            found == CHOOSE f : f = [k \in 0 .. N |-> Body(f, k)]
<1>1. N \in Nat /\ W \in Nat \ {0}
  OBVIOUS
<1>2. MatchesFrom(word, source) = found[0]
  BY Zenon DEF MatchesFrom, MatchesBehind
<1>3. ASSUME NEW k \in 0 .. N, At(k) # {}
      PROVE  /\ Min(At(k)) \in At(k) /\ Min(At(k)) + W \in k + 1 .. N
  <2>1. At(k) \in SUBSET Nat
    BY <1>1 DEF MatchesBehind
  <2>2. Min(At(k)) \in At(k)
    <3>. HIDE DEF At
    <3>. QED BY <1>3, <2>1, Smallest
  <2>. DEFINE m == Min(At(k))
  <2>. HIDE DEF m
  <2>3. m \in k .. N - W
    BY <2>2 DEF m, MatchesBehind
  <2>4. m + W \in k + 1 .. N
    BY <1>1, <2>3
  <2>. QED BY <2>2, <2>4 DEF m
<1>. HIDE DEF At
<1>4. ASSUME NEW k \in 0 .. N, NEW f, NEW g, \A n \in k + 1 .. N : f[n] = g[n]
      PROVE  Body(f, k) = Body(g, k)
  BY <1>3, <1>4
<1>. HIDE DEF Body
<1>5. \E f : f = [k \in 0 .. N |-> Body(f, k)]
  <2>. DEFINE From(f, k) == f = [n \in k .. N |-> Body(f, n)]
              S == {j \in 0 .. N : \E f : From(f, N - j)}
  <2>1. 0 \in S
    <3>. DEFINE f == [n \in N .. N |-> Body(<<>>, n)]
    <3>1. \A n \in N .. N : Body(<<>>, n) = Body(f, n)
      <4>1. \A n \in N .. N : n \in 0 .. N /\ n + 1 .. N = {}
        BY <1>1
      <4>. QED BY <1>4, <4>1
    <3>2. From(f, N)
      BY <3>1
    <3>3. N - 0 = N /\ 0 \in 0 .. N
      BY <1>1
    <3>. HIDE DEF From
    <3>. QED BY <3>2, <3>3
  <2>2. ASSUME NEW j \in 0 .. N - 1, j \in S PROVE j + 1 \in S
    <3>. DEFINE k == N - (j + 1)
    <3>1. N - j = k + 1 /\ k \in 0 .. N - 1 /\ j + 1 \in 0 .. N
      BY <1>1
    <3>2. PICK f : From(f, k + 1)
      BY <2>2, <3>1
    <3>. HIDE DEF k
    <3>. DEFINE g == [n \in k .. N |-> IF n = k THEN Body(f, k) ELSE f[n]]
    <3>3. \A n \in k + 1 .. N : g[n] = f[n] /\ f[n] = Body(f, n)
      <4>1. \A n \in k + 1 .. N : f[n] = Body(f, n)
        BY <3>2
      <4>2. \A n \in k + 1 .. N : n \in k .. N /\ n # k
        BY <1>1, <3>1
      <4>. QED BY <4>1, <4>2
    <3>4. ASSUME NEW n \in k .. N PROVE g[n] = Body(g, n)
      <4>1. n \in 0 .. N /\ \A i \in n + 1 .. N : i \in k + 1 .. N
        BY <3>1
      <4>2. Body(f, n) = Body(g, n)
        BY <1>4, <3>3, <4>1
      <4>3. CASE n = k
        BY <4>2, <4>3
      <4>4. CASE n # k
        <5>1. n \in k + 1 .. N
          BY <3>1, <4>4
        <5>. QED BY <3>3, <4>2, <5>1
      <4>. QED BY <4>3, <4>4
    <3>5. g = [n \in k .. N |-> g[n]]
      OBVIOUS
    <3>6. From(g, k)
      <4>. HIDE DEF g
      <4>. QED BY <3>4, <3>5
    <3>. HIDE DEF From, g
    <3>. QED BY <3>1, <3>6 DEF k
  <2>. HIDE DEF S
  <2>3. N \in S
    <3>1. N \in 0 .. N
      BY <1>1
    <3>. QED BY <1>1, <2>1, <2>2, <3>1, Onwards
  <2>4. \E f : From(f, N - N)
    BY <2>3 DEF S
  <2>5. N - N = 0
    BY <1>1
  <2>. QED BY <2>4, <2>5
<1>6. \A k \in 0 .. N : found[k] = Body(found, k)
  <2>1. found = [k \in 0 .. N |-> Body(found, k)]
    BY <1>5, Zenon
  <2>. HIDE DEF found
  <2>. QED BY <2>1
<1>. HIDE DEF found
<1>7. ASSUME NEW k \in 0 .. N
      PROVE  /\ At(k) = {} => found[k] = {}
             /\ At(k) # {} => /\ Min(At(k)) \in At(k) /\ Min(At(k)) + W \in k + 1 .. N
                              /\ found[k] = {Min(At(k))} \cup found[Min(At(k)) + W]
  BY <1>3, <1>6 DEF Body
<1>. QED BY <1>2, <1>7, Zenon DEF At

LEMMA MatchesAre ==
    ASSUME NEW word, IsOneLine(word), NEW source \in Seq(STRING)
    PROVE  MatchesFrom(word, source) \subseteq MatchPlaces(word, source)
<1>. DEFINE N == Len(source)
            At(k) == MatchesBehind(word, source, k)
<1>1. N \in Nat /\ word \in Seq(STRING) /\ word # <<>>
  BY DEF IsOneLine
<1>2. PICK found :
        /\ MatchesFrom(word, source) = found[0]
        /\ \A k \in 0 .. N :
             /\ At(k) = {} => found[k] = {}
             /\ At(k) # {} => /\ Min(At(k)) \in At(k) /\ Min(At(k)) + Len(word) \in k + 1 .. N
                              /\ found[k] = {Min(At(k))} \cup found[Min(At(k)) + Len(word)]
  BY <1>1, SearchGoesOn
<1>. DEFINE S == {k \in 0 .. N : found[k] \subseteq MatchPlaces(word, source)}
<1>3. ASSUME NEW k \in 0 .. N, \A n \in k + 1 .. N : n \in S
      PROVE  k \in S
  <2>1. At(k) \subseteq MatchPlaces(word, source)
    BY <1>1 DEF MatchesBehind, MatchPlaces
  <2>. HIDE DEF At, N
  <2>2. CASE At(k) = {}
    BY <1>2, <2>2
  <2>3. CASE At(k) # {}
    BY <1>2, <1>3, <2>1, <2>3
  <2>. QED BY <2>2, <2>3
<1>. HIDE DEF S
<1>4. 0 \in 0 .. N
  BY <1>1
<1>5. \A k \in 0 .. N : k \in S
  <2>. HIDE DEF N
  <2>. QED BY <1>1, <1>3, Backwards
<1>. QED BY <1>2, <1>4, <1>5 DEF S

LEMMA IdentifiersAreWords ==
    ASSUME NEW word, IsIdentifier(word)
    PROVE  IsOneLine(word)
<1>1. ~is_ident_char(NewLine)
  BY DEF is_ident_char, Punctuation
<1>. QED BY <1>1 DEF IsIdentifier, IsOneLine

LEMMA MatchIsIdentifier ==
    ASSUME NEW word, IsIdentifier(word), NEW source \in Seq(STRING), NEW k \in MatchPlaces(word, source)
    PROVE  \A n \in k .. k + Len(word) - 1 : is_ident_char(Ch(source, n))
<1>1. /\ word \in Seq(STRING) /\ k \in 0 .. Len(source) - Len(word) /\ Slice(source, k, k + Len(word)) = word
  BY DEF IsIdentifier, MatchPlaces
<1>2. \A n \in 1 .. Len(word) : word[n] = source[k + n]
  <2>1. SubSeq(source, k + 1, k + Len(word)) = word
    BY <1>1 DEF Slice
  <2>2. \A n \in 1 .. Len(word) : SubSeq(source, k + 1, k + Len(word))[n] = source[k + n]
    BY <1>1
  <2>. QED BY <2>1, <2>2
<1>3. ASSUME NEW n \in k .. k + Len(word) - 1 PROVE is_ident_char(Ch(source, n))
  <2>1. n - k + 1 \in 1 .. Len(word) /\ k + (n - k + 1) = n + 1
    BY <1>1
  <2>2. is_ident_char(word[n - k + 1]) /\ word[n - k + 1] = source[n + 1]
    BY <1>2, <2>1 DEF IsIdentifier
  <2>. QED BY <2>2 DEF Ch
<1>. QED BY <1>3

\* A match stands by itself if no identifier character is next to it.
LEMMA StandsAlone ==
    ASSUME NEW word, IsIdentifier(word), NEW source \in Seq(STRING), NEW k \in MatchPlaces(word, source)
    PROVE  k \in WholeWords(word, source) <=>
             /\ k = 0 \/ ~is_ident_char(Ch(source, k - 1))
             /\ k + Len(word) = Len(source) \/ ~is_ident_char(Ch(source, k + Len(word)))
<1>. DEFINE N == Len(source)
            W == Len(word)
            start == BackWhile(source, k, is_ident_char)
            end == ForthWhile(source, k, is_ident_char)
<1>1. N \in Nat /\ W \in Nat \ {0} /\ k \in 0 .. N - W /\ Slice(source, k, k + W) = word
  BY DEF IsIdentifier, MatchPlaces
<1>2. k \in 0 .. N
  BY <1>1
<1>3. /\ start \in 0 .. k /\ \A n \in start .. k - 1 : is_ident_char(Ch(source, n))
      /\ start = 0 \/ ~is_ident_char(Ch(source, start - 1))
  BY <1>2, BackIs
<1>4. /\ end \in k .. N /\ \A n \in k .. end - 1 : is_ident_char(Ch(source, n))
      /\ end = N \/ ~is_ident_char(Ch(source, end))
  BY <1>2, ForthIs
<1>5. k \in WholeWords(word, source) <=> start = k /\ end = k + W
  BY <1>1 DEF WholeWords
<1>6. \A n \in k .. k + W - 1 : is_ident_char(Ch(source, n))
  BY MatchIsIdentifier
<1>. HIDE DEF start, end, N, W
<1>7. start = k <=> k = 0 \/ ~is_ident_char(Ch(source, k - 1))
  <2>1. CASE start = k
    BY <1>3, <2>1
  <2>2. CASE start < k
    <3>1. k - 1 \in start .. k - 1 /\ k # 0
      BY <1>1, <1>3, <2>2
    <3>. QED BY <1>3, <2>2, <3>1
  <2>. QED BY <1>1, <1>3, <2>1, <2>2
<1>8. end = k + W <=> k + W = N \/ ~is_ident_char(Ch(source, k + W))
  <2>1. CASE end = k + W
    BY <1>4, <2>1
  <2>2. CASE end < k + W
    <3>1. end \in k .. k + W - 1 /\ end # N
      BY <1>1, <1>4, <2>2
    <3>. QED BY <1>4, <1>6, <3>1
  <2>3. CASE end > k + W
    <3>1. k + W \in k .. end - 1 /\ k + W # N
      BY <1>1, <1>4, <2>3
    <3>. QED BY <1>4, <2>3, <3>1
  <2>. QED BY <1>1, <1>4, <2>1, <2>2, <2>3
<1>. QED BY <1>5, <1>7, <1>8 DEF N, W

\* The search goes on behind each match, and misses no word that stands by itself:
\* such a word cannot begin inside another match.
LEMMA MatchesComplete ==
    ASSUME NEW word, IsIdentifier(word), NEW source \in Seq(STRING)
    PROVE  WholeWords(word, source) \subseteq MatchesFrom(word, source)
<1>. DEFINE N == Len(source)
            W == Len(word)
            At(k) == MatchesBehind(word, source, k)
<1>1. N \in Nat /\ W \in Nat \ {0} /\ word \in Seq(STRING) /\ word # <<>>
  BY DEF IsIdentifier
<1>2. PICK found :
        /\ MatchesFrom(word, source) = found[0]
        /\ \A k \in 0 .. N :
             /\ At(k) = {} => found[k] = {}
             /\ At(k) # {} => /\ Min(At(k)) \in At(k) /\ Min(At(k)) + W \in k + 1 .. N
                              /\ found[k] = {Min(At(k))} \cup found[Min(At(k)) + W]
  BY <1>1, SearchGoesOn
<1>. DEFINE S == {k \in 0 .. N : \A w \in WholeWords(word, source) : w >= k => w \in found[k]}
<1>3. ASSUME NEW k \in 0 .. N, \A n \in k + 1 .. N : n \in S
      PROVE  k \in S
  <2>. SUFFICES ASSUME NEW w \in WholeWords(word, source), w >= k
                PROVE  w \in found[k]
    OBVIOUS
  <2>1. w \in 0 .. N - W /\ w \in MatchPlaces(word, source) /\ w \in At(k)
    BY <1>1 DEF WholeWords, MatchPlaces, MatchesBehind
  <2>2. At(k) \in SUBSET Nat /\ \A m \in At(k) : m \in MatchPlaces(word, source)
    BY <1>1 DEF MatchesBehind, MatchPlaces
  <2>. DEFINE m == Min(At(k))
  <2>. HIDE DEF At, N, W
  <2>3. m \in At(k) /\ m <= w
    <3>1. At(k) # {}
      BY <2>1
    <3>. QED BY <2>1, <2>2, <3>1, Smallest
  <2>4. m + W \in k + 1 .. N /\ found[k] = {m} \cup found[m + W]
    BY <1>2, <2>1
  <2>. HIDE DEF m
  <2>5. m \in Nat /\ m \in MatchPlaces(word, source)
    BY <2>2, <2>3
  <2>6. CASE w = m
    BY <2>4, <2>6
  <2>7. CASE w >= m + W
    <3>1. m + W \in S
      BY <1>3, <2>4
    <3>. QED BY <2>4, <2>7, <3>1
  <2>8. CASE m < w /\ w < m + W
    <3>1. w - 1 \in m .. m + W - 1 /\ w # 0
      BY <1>1, <2>1, <2>5, <2>8
    <3>2. is_ident_char(Ch(source, w - 1))
      BY <2>5, <3>1, MatchIsIdentifier DEF W
    <3>3. ~is_ident_char(Ch(source, w - 1))
      BY <2>1, <3>1, StandsAlone
    <3>. QED BY <3>2, <3>3
  <2>. QED BY <1>1, <2>1, <2>3, <2>5, <2>6, <2>7, <2>8
<1>. HIDE DEF S
<1>4. 0 \in 0 .. N
  BY <1>1
<1>5. \A k \in 0 .. N : k \in S
  <2>. HIDE DEF N
  <2>. QED BY <1>1, <1>3, Backwards
<1>6. \A w \in WholeWords(word, source) : w >= 0
  BY <1>1 DEF WholeWords
<1>. QED BY <1>2, <1>4, <1>5, <1>6 DEF S

\* What is asked of the byte before a match and of the one behind it.
LEMMA NextToMatch ==
    ASSUME NEW source \in Seq(STRING), NEW k \in 0 .. Len(source)
    PROVE  /\ (k # 0 /\ is_ident_char_at(source, o8(source)[k] - 1) # Panic) =>
                is_ident_char_at(source, o8(source)[k] - 1) = is_ident_char(Ch(source, k - 1))
           /\ is_ident_char_at(source, o8(source)[k]) =
                IF k = Len(source) THEN FALSE ELSE is_ident_char(Ch(source, k))
<1>. DEFINE N == Len(source)
            o == o8(source)
<1>1. /\ N \in Nat /\ o \in [0 .. N -> Nat] /\ o[0] = 0 /\ \A a, b \in 0 .. N : a < b => o[a] < o[b]
      /\ Boundaries(source) = {o[n] : n \in 0 .. N} /\ Bytes(source) = o[N]
      /\ \A n \in 0 .. N : CharsBefore(source, o[n]) = n
  <2>1. Bytes(source) = o[N]
    BY Zenon DEF Bytes, Width, o8
  <2>. QED BY <2>1, Grows, BoundariesAre, CharsBeforeIs
<1>. HIDE DEF o, N
<1>2. ASSUME k # 0, is_ident_char_at(source, o[k] - 1) # Panic
      PROVE  is_ident_char_at(source, o[k] - 1) = is_ident_char(Ch(source, k - 1))
  <2>1. k \in 0 .. N /\ k - 1 \in 0 .. N /\ k - 1 < k /\ N \in 0 .. N
    BY <1>1, <1>2 DEF N
  <2>2. o[k] \in Nat /\ o[k - 1] \in Nat /\ o[N] \in Nat /\ o[k - 1] < o[k] /\ o[k] <= o[N]
    BY <1>1, <2>1
  <2>3. ~(o[k] - 1 >= Bytes(source))
    BY <1>1, <2>2
  <2>4. o[k] - 1 \in Boundaries(source)
    BY <1>2, <2>3 DEF is_ident_char_at
  <2>5. PICK n \in 0 .. N : o[k] - 1 = o[n]
    BY <1>1, <2>4
  <2>6. n = k - 1
    <3>1. CASE n < k - 1
      <4>1. o[n] < o[k - 1]
        BY <1>1, <2>1, <3>1
      <4>. QED BY <1>1, <2>2, <2>5, <4>1
    <3>2. CASE n >= k
      <4>1. n = k \/ o[k] < o[n]
        BY <1>1, <2>1, <3>2
      <4>. QED BY <2>2, <2>5, <4>1
    <3>. QED BY <1>1, <2>1, <3>1, <3>2
  <2>7. CharsBefore(source, o[k] - 1) = k - 1
    BY <1>1, <2>5, <2>6
  <2>. QED BY <2>3, <2>4, <2>7 DEF is_ident_char_at
<1>3. is_ident_char_at(source, o[k]) = IF k = N THEN FALSE ELSE is_ident_char(Ch(source, k))
  <2>1. k \in 0 .. N /\ N \in 0 .. N
    BY <1>1 DEF N
  <2>2. CASE k = N
    BY <1>1, <2>2 DEF is_ident_char_at
  <2>3. CASE k # N
    <3>1. o[k] < o[N] /\ o[k] \in Nat /\ o[N] \in Nat
      BY <1>1, <2>1, <2>3
    <3>2. ~(o[k] >= Bytes(source)) /\ o[k] \in Boundaries(source) /\ CharsBefore(source, o[k]) = k
      BY <1>1, <2>1, <3>1
    <3>. QED BY <2>3, <3>2 DEF is_ident_char_at
  <2>. QED BY <2>2, <2>3
<1>. QED BY <1>2, <1>3 DEF o, N

\* For a source of any length and any word a cursor can stand in: unless the
\* search panics (the byte before a match is inside a character, see the run
\* references_panic), what find_word_occurrences (workspace.rs:1454-1490) returns
\* is the places where the word stands by itself, none missed by going on behind
\* each match of the substring and none added.
THEOREM ReferencesAreWholeWords ==
    \A word \in Seq(STRING), source \in Seq(STRING) :
        (word # <<>> /\ \A n \in 1 .. Len(word) : is_ident_char(word[n])) => ReferencesAreTheWords(word, source)
<1>. SUFFICES ASSUME NEW word \in Seq(STRING), NEW source \in Seq(STRING), IsIdentifier(word),
                     find_word_occurrences(word, source) # Panic
              PROVE  find_word_occurrences(word, source)
                       = {Reference(source, k, word) : k \in WholeWords(word, source)}
  BY DEF IsIdentifier, ReferencesAreTheWords
<1>. DEFINE N == Len(source)
            W == Len(word)
            Before(k) == IF k = 0 THEN FALSE ELSE is_ident_char_at(source, o8(source)[k] - 1)
            After(k) == is_ident_char_at(source, o8(source)[k + W])
            at == MatchesFrom(word, source)
            alone == {k \in at : Before(k) = FALSE /\ After(k) = FALSE}
<1>1. word # <<>>
  BY DEF IsIdentifier
<1>2. find_word_occurrences(word, source) =
        IF \E k \in at : Before(k) = Panic THEN Panic ELSE {Reference(source, k, word) : k \in alone}
  BY <1>1, Zenon DEF find_word_occurrences, o8
<1>3. /\ \A k \in at : Before(k) # Panic
      /\ find_word_occurrences(word, source) = {Reference(source, k, word) : k \in alone}
  <2>. HIDE DEF at, alone, Before
  <2>. QED BY <1>2
<1>4. at \subseteq MatchPlaces(word, source) /\ WholeWords(word, source) \subseteq at
  BY IdentifiersAreWords, MatchesAre, MatchesComplete
<1>5. ASSUME NEW k \in at
      PROVE  (Before(k) = FALSE /\ After(k) = FALSE) <=> k \in WholeWords(word, source)
  <2>1. k \in MatchPlaces(word, source)
    BY <1>4
  <2>2. k \in 0 .. N /\ k + W \in 0 .. N
    BY <2>1 DEF MatchPlaces
  <2>3. Before(k) = FALSE <=> (k = 0 \/ ~is_ident_char(Ch(source, k - 1)))
    <3>1. k # 0 => Before(k) = is_ident_char(Ch(source, k - 1))
      BY <1>3, <2>2, NextToMatch
    <3>2. k = 0 => Before(k) = FALSE
      OBVIOUS
    <3>. HIDE DEF Before
    <3>3. is_ident_char(Ch(source, k - 1)) \in BOOLEAN
      BY DEF is_ident_char
    <3>. QED BY <3>1, <3>2, <3>3
  <2>4. After(k) = FALSE <=> (k + W = N \/ ~is_ident_char(Ch(source, k + W)))
    <3>1. After(k) = IF k + W = N THEN FALSE ELSE is_ident_char(Ch(source, k + W))
      BY <2>2, NextToMatch
    <3>. HIDE DEF After
    <3>2. is_ident_char(Ch(source, k + W)) \in BOOLEAN
      BY DEF is_ident_char
    <3>. QED BY <3>1, <3>2
  <2>5. k \in WholeWords(word, source) <=>
          /\ k = 0 \/ ~is_ident_char(Ch(source, k - 1))
          /\ k + W = N \/ ~is_ident_char(Ch(source, k + W))
    BY <2>1, StandsAlone
  <2>. QED BY <2>3, <2>4, <2>5
<1>6. alone = WholeWords(word, source)
  <2>. HIDE DEF at, Before, After
  <2>. QED BY <1>4, <1>5
<1>. QED BY <1>3, <1>6
==============================================================================

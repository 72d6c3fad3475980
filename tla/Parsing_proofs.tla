--------------------------- MODULE Parsing_proofs ---------------------------
(***************************************************************************)
(* Proofs about the parsing layer. For every text of every family: the     *)
(* scan advances, what it records is recorded where it is, symbols are the *)
(* definitions, and their containers the types around them. For every      *)
(* syntax tree of every grammar: a name gets one symbol, members keep      *)
(* their type and locals their scope. Induction over a text goes by the    *)
(* greatest member of a set of places (Backwards), and recursive functions *)
(* are shown to exist before anything is said of them.                     *)
(***************************************************************************)
EXTENDS Parsing, SourceText_proofs

-----------------------------------------------------------------------------
(* Loops that go on to a place. *)

\* A loop that goes on to the first place of T, or to the end.
LEMMA GoesOn ==
    ASSUME NEW len \in Nat, NEW j \in 0 .. len, NEW T \in SUBSET (j .. len)
    PROVE  Min({len} \cup T) \in j .. len
<1>. DEFINE U == {len} \cup T
<1>1. U \in SUBSET Nat /\ U \subseteq j .. len /\ U # {}
  OBVIOUS
<1>. HIDE DEF U
<1>2. Min(U) \in U
  BY <1>1, Smallest
<1>. QED BY <1>1, <1>2 DEF U

LEMMA NoFurther ==
    ASSUME NEW len \in Nat, NEW j \in 0 .. len, NEW to \in Nat, j <= to
    PROVE  Min({len, to}) \in j .. len
<1>. DEFINE U == {len, to}
<1>1. U \in SUBSET Nat /\ U # {} /\ len \in U /\ \A u \in U : j <= u
  OBVIOUS
<1>. HIDE DEF U
<1>2. Min(U) \in U /\ Min(U) <= len
  BY <1>1, Smallest
<1>. QED BY <1>1, <1>2 DEF U

-----------------------------------------------------------------------------
(* The skipping helpers. *)

\* What a helper that starts at k may return.
Skipped(k) ==
    {s \in [to : 0 .. Len(source), counted : SUBSET (0 .. Len(source) - 1)] :
        /\ s.to = Len(source) \/ k <= s.to
        /\ \A n \in s.counted : k <= n}

LEMMA UnitPast ==
    ASSUME source \in Seq(STRING), NEW k \in Nat, k >= Len(source)
    PROVE  Unit(k) \notin {NewLine, "\\", "dquote", "squote", "bquote"} /\ ~(k < Len(source))
BY DEF Unit, NewLine

LEMMA StringTurn ==
    ASSUME source \in Seq(STRING), NEW j \in 0 .. Len(source),
           NEW quote \in {"dquote", "squote", "bquote"}
    PROVE  skip_string(j, quote) \in Skipped(j)
<1>. DEFINE N == Len(source) + 1
            Body(f, k) ==
                CASE k >= Len(source) -> [to |-> Len(source), counted |-> {}]
                  [] Unit(k) = NewLine /\ quote # "bquote" -> [to |-> k, counted |-> {k}]
                  [] Unit(k) = NewLine /\ quote = "bquote" ->
                       [f[k + 1] EXCEPT !.counted = @ \cup {k}]
                  [] Unit(k) = "\\" -> f[k + 2]
                  [] Unit(k) = quote -> [to |-> k + 1, counted |-> {}]
                  [] OTHER -> f[k + 1]
            skip == CHOOSE skip : skip = [k \in j .. N |-> Body(skip, k)]
<1>1. Len(source) \in Nat /\ N \in Nat
  OBVIOUS
<1>2. skip_string(j, quote) = skip[j]
  BY Zenon DEF skip_string
<1>. HIDE DEF Body
<1>3. ASSUME NEW f, NEW g, NEW k \in Nat, k < Len(source) => f[k + 1] = g[k + 1] /\ f[k + 2] = g[k + 2]
      PROVE  Body(f, k) = Body(g, k)
  <2>1. CASE k >= Len(source)
    BY <2>1, UnitPast DEF Body
  <2>2. CASE k < Len(source)
    BY <1>3, <2>2 DEF Body
  <2>3. k >= Len(source) \/ k < Len(source)
    BY <1>1
  <2>. QED BY <2>1, <2>2, <2>3
<1>4. \E f : f = [k \in j .. N |-> Body(f, k)]
  <2>. DEFINE S == {k \in 0 .. N : \E f : f = [n \in k .. N |-> Body(f, n)]}
  <2>1. ASSUME NEW k \in 0 .. N, \A n \in k + 1 .. N : n \in S
        PROVE  k \in S
    <3>1. PICK f : f = [n \in k + 1 .. N |-> Body(f, n)]
      <4>1. CASE k = N
        <5>. DEFINE nothing == [n \in k + 1 .. N |-> Body(<<>>, n)]
        <5>1. k + 1 .. N = {}
          BY <4>1
        <5>2. nothing = [n \in k + 1 .. N |-> Body(nothing, n)]
          BY <5>1
        <5>. QED BY <5>2
      <4>2. CASE k # N
        BY <2>1, <4>2
      <4>. QED BY <4>1, <4>2
    <3>. DEFINE g == [n \in k .. N |-> IF n = k THEN Body(f, k) ELSE f[n]]
    <3>2. ASSUME NEW n \in k .. N PROVE g[n] = Body(g, n)
      <4>1. Body(f, n) = Body(g, n)
        <5>1. n \in Nat /\ (n < Len(source) => f[n + 1] = g[n + 1] /\ f[n + 2] = g[n + 2])
          OBVIOUS
        <5>. QED BY <1>3, <5>1
      <4>2. g[n] = Body(f, n)
        <5>1. CASE n = k
          BY <5>1
        <5>2. CASE n # k
          <6>1. n \in k + 1 .. N
            BY <5>2
          <6>2. f[n] = Body(f, n)
            BY <3>1, <6>1
          <6>. QED BY <5>2, <6>2
        <5>. QED BY <5>1, <5>2
      <4>. QED BY <4>1, <4>2
    <3>3. g = [n \in k .. N |-> Body(g, n)]
      <4>. DEFINE h == [n \in k .. N |-> Body(g, n)]
      <4>. HIDE DEF h
      <4>. SUFFICES g = h
        BY DEF h
      <4>1. h = [n \in k .. N |-> h[n]] /\ \A n \in k .. N : h[n] = Body(g, n)
        BY DEF h
      <4>2. g = [n \in k .. N |-> g[n]]
        OBVIOUS
      <4>. HIDE DEF g, N
      <4>3. \A n \in k .. N : g[n] = h[n]
        BY <3>2, <4>1
      <4>4. [n \in k .. N |-> g[n]] = [n \in k .. N |-> h[n]]
        BY <4>3
      <4>. QED BY <4>1, <4>2, <4>4
    <3>. QED BY <3>3
  <2>. HIDE DEF S
  <2>2. \A k \in 0 .. N : (\A n \in k + 1 .. N : n \in S) => k \in S
    BY <2>1
  <2>3. \A k \in 0 .. N : k \in S
    BY <1>1, <2>2, Backwards
  <2>4. j \in S
    BY <2>3
  <2>. QED BY <2>4 DEF S
<1>5. skip = [k \in j .. N |-> Body(skip, k)]
  BY <1>4, Zenon
<1>. HIDE DEF skip
<1>6. \A k \in j .. N : skip[k] = Body(skip, k)
  BY <1>5
<1>7. ASSUME NEW k \in j .. N, \A n \in k + 1 .. N : skip[n] \in Skipped(n)
      PROVE  skip[k] \in Skipped(k)
  <2>1. skip[k] = Body(skip, k)
    BY <1>6
  <2>2. CASE k >= Len(source)
    <3>1. skip[k] = [to |-> Len(source), counted |-> {}]
      BY <2>1, <2>2, UnitPast DEF Body
    <3>. QED BY <1>1, <2>2, <3>1 DEF Skipped
  <2>3. CASE k < Len(source)
    <3>1. k \in 0 .. Len(source) - 1 /\ skip[k + 1] \in Skipped(k + 1) /\ skip[k + 2] \in Skipped(k + 2)
      BY <1>1, <1>7, <2>3
    <3>2. \/ skip[k] = [to |-> k, counted |-> {k}]
          \/ skip[k] = [skip[k + 1] EXCEPT !.counted = @ \cup {k}]
          \/ skip[k] = [to |-> k + 1, counted |-> {}]
          \/ skip[k] = skip[k + 1]
          \/ skip[k] = skip[k + 2]
      BY <2>1, <2>3 DEF Body
    <3>3. CASE skip[k] \in {[to |-> k, counted |-> {k}], [to |-> k + 1, counted |-> {}]}
      BY <1>1, <3>1, <3>3 DEF Skipped
    <3>4. CASE skip[k] = [skip[k + 1] EXCEPT !.counted = @ \cup {k}]
      <4>. DEFINE s == skip[k + 1]
      <4>1. /\ s \in [to : 0 .. Len(source), counted : SUBSET (0 .. Len(source) - 1)]
            /\ k + 1 <= s.to /\ \A n \in s.counted : k + 1 <= n
        BY <1>1, <2>3, <3>1 DEF Skipped
      <4>. HIDE DEF s
      <4>2. skip[k] = [s EXCEPT !.counted = s.counted \cup {k}]
        BY <3>4 DEF s
      <4>3. /\ skip[k] \in [to : 0 .. Len(source), counted : SUBSET (0 .. Len(source) - 1)]
            /\ skip[k].to = s.to /\ skip[k].counted = s.counted \cup {k}
        BY <1>1, <3>1, <4>1, <4>2
      <4>4. skip[k].to = Len(source) \/ k <= skip[k].to
        BY <1>1, <3>1, <4>1, <4>3
      <4>5. \A n \in skip[k].counted : k <= n
        BY <1>1, <3>1, <4>1, <4>3
      <4>. QED BY <4>3, <4>4, <4>5 DEF Skipped
    <3>5. CASE skip[k] \in {skip[k + 1], skip[k + 2]}
      <4>. DEFINE s == skip[k]
      <4>1. s \in Skipped(k + 1) \/ s \in Skipped(k + 2)
        BY <3>1, <3>5
      <4>. HIDE DEF s
      <4>2. /\ s \in [to : 0 .. Len(source), counted : SUBSET (0 .. Len(source) - 1)]
            /\ s.to = Len(source) \/ k + 1 <= s.to
            /\ \A n \in s.counted : k + 1 <= n
        BY <1>1, <2>3, <4>1 DEF Skipped
      <4>3. s \in Skipped(k)
        BY <1>1, <2>3, <4>2 DEF Skipped
      <4>. QED BY <4>3 DEF s
    <3>. QED BY <3>2, <3>3, <3>4, <3>5
  <2>4. k >= Len(source) \/ k < Len(source)
    BY <1>1
  <2>. QED BY <2>2, <2>3, <2>4
<1>8. skip[j] \in Skipped(j)
  <2>. DEFINE S == {k \in 0 .. N : k >= j => skip[k] \in Skipped(k)}
  <2>1. ASSUME NEW k \in 0 .. N, \A n \in k + 1 .. N : n \in S PROVE k \in S
    BY <1>1, <1>7, <2>1
  <2>. HIDE DEF S
  <2>2. \A k \in 0 .. N : k \in S
    BY <1>1, <2>1, Backwards
  <2>. QED BY <1>1, <2>2 DEF S
<1>. QED BY <1>2, <1>8

LEMMA TripleTurn ==
    ASSUME source \in Seq(STRING), NEW j \in 0 .. Len(source),
           NEW quote \in {"dquote", "squote"}
    PROVE  skip_triple_quote(j, quote) \in Skipped(j)
<1>. DEFINE N == Len(source) + 2
            Body(f, k) ==
                IF k + 2 >= Len(source) THEN [to |-> Len(source), counted |-> {}]
                ELSE IF {Unit(k), Unit(k + 1), Unit(k + 2)} = {quote} THEN [to |-> k + 3, counted |-> {}]
                ELSE IF Unit(k) = "\\" THEN f[k + 2]
                ELSE IF Unit(k) = NewLine THEN [f[k + 1] EXCEPT !.counted = @ \cup {k}]
                ELSE f[k + 1]
            skip == CHOOSE skip : skip = [k \in j .. N |-> Body(skip, k)]
<1>1. Len(source) \in Nat /\ N \in Nat
  OBVIOUS
<1>2. skip_triple_quote(j, quote) = skip[j]
  BY Zenon DEF skip_triple_quote
<1>. HIDE DEF Body
<1>3. ASSUME NEW f, NEW g, NEW k \in Nat, k + 2 < Len(source) => f[k + 1] = g[k + 1] /\ f[k + 2] = g[k + 2]
      PROVE  Body(f, k) = Body(g, k)
  <2>1. CASE k + 2 >= Len(source)
    BY <2>1 DEF Body
  <2>2. CASE k + 2 < Len(source)
    BY <1>3, <2>2 DEF Body
  <2>3. k + 2 >= Len(source) \/ k + 2 < Len(source)
    BY <1>1
  <2>. QED BY <2>1, <2>2, <2>3
<1>4. \E f : f = [k \in j .. N |-> Body(f, k)]
  <2>. DEFINE S == {k \in 0 .. N : \E f : f = [n \in k .. N |-> Body(f, n)]}
  <2>1. ASSUME NEW k \in 0 .. N, \A n \in k + 1 .. N : n \in S
        PROVE  k \in S
    <3>1. PICK f : f = [n \in k + 1 .. N |-> Body(f, n)]
      <4>1. CASE k = N
        <5>. DEFINE nothing == [n \in k + 1 .. N |-> Body(<<>>, n)]
        <5>1. k + 1 .. N = {}
          BY <4>1
        <5>2. nothing = [n \in k + 1 .. N |-> Body(nothing, n)]
          BY <5>1
        <5>. QED BY <5>2
      <4>2. CASE k # N
        BY <2>1, <4>2
      <4>. QED BY <4>1, <4>2
    <3>. DEFINE g == [n \in k .. N |-> IF n = k THEN Body(f, k) ELSE f[n]]
    <3>2. ASSUME NEW n \in k .. N PROVE g[n] = Body(g, n)
      <4>1. Body(f, n) = Body(g, n)
        <5>1. n \in Nat /\ (n + 2 < Len(source) => f[n + 1] = g[n + 1] /\ f[n + 2] = g[n + 2])
          OBVIOUS
        <5>. QED BY <1>3, <5>1
      <4>2. g[n] = Body(f, n)
        <5>1. CASE n = k
          BY <5>1
        <5>2. CASE n # k
          <6>1. n \in k + 1 .. N
            BY <5>2
          <6>2. f[n] = Body(f, n)
            BY <3>1, <6>1
          <6>. QED BY <5>2, <6>2
        <5>. QED BY <5>1, <5>2
      <4>. QED BY <4>1, <4>2
    <3>3. g = [n \in k .. N |-> Body(g, n)]
      <4>. DEFINE h == [n \in k .. N |-> Body(g, n)]
      <4>. HIDE DEF h
      <4>. SUFFICES g = h
        BY DEF h
      <4>1. h = [n \in k .. N |-> h[n]] /\ \A n \in k .. N : h[n] = Body(g, n)
        BY DEF h
      <4>2. g = [n \in k .. N |-> g[n]]
        OBVIOUS
      <4>. HIDE DEF g, N
      <4>3. \A n \in k .. N : g[n] = h[n]
        BY <3>2, <4>1
      <4>4. [n \in k .. N |-> g[n]] = [n \in k .. N |-> h[n]]
        BY <4>3
      <4>. QED BY <4>1, <4>2, <4>4
    <3>. QED BY <3>3
  <2>. HIDE DEF S
  <2>2. \A k \in 0 .. N : (\A n \in k + 1 .. N : n \in S) => k \in S
    BY <2>1
  <2>3. \A k \in 0 .. N : k \in S
    BY <1>1, <2>2, Backwards
  <2>4. j \in S
    BY <2>3
  <2>. QED BY <2>4 DEF S
<1>5. skip = [k \in j .. N |-> Body(skip, k)]
  BY <1>4, Zenon
<1>. HIDE DEF skip
<1>6. \A k \in j .. N : skip[k] = Body(skip, k)
  BY <1>5
<1>7. ASSUME NEW k \in j .. N, \A n \in k + 1 .. N : skip[n] \in Skipped(n)
      PROVE  skip[k] \in Skipped(k)
  <2>1. skip[k] = Body(skip, k)
    BY <1>6
  <2>2. CASE k + 2 >= Len(source)
    <3>1. skip[k] = [to |-> Len(source), counted |-> {}]
      BY <2>1, <2>2 DEF Body
    <3>. QED BY <1>1, <2>2, <3>1 DEF Skipped
  <2>3. CASE k + 2 < Len(source)
    <3>1. k \in 0 .. Len(source) - 1 /\ skip[k + 1] \in Skipped(k + 1) /\ skip[k + 2] \in Skipped(k + 2)
      BY <1>1, <1>7, <2>3
    <3>2. \/ skip[k] = [skip[k + 1] EXCEPT !.counted = @ \cup {k}]
          \/ skip[k] = [to |-> k + 3, counted |-> {}]
          \/ skip[k] = skip[k + 1]
          \/ skip[k] = skip[k + 2]
      <4>1. ~(k + 2 >= Len(source))
        BY <1>1, <2>3
      <4>2. Body(skip, k) =
              IF {Unit(k), Unit(k + 1), Unit(k + 2)} = {quote} THEN [to |-> k + 3, counted |-> {}]
              ELSE IF Unit(k) = "\\" THEN skip[k + 2]
              ELSE IF Unit(k) = NewLine THEN [skip[k + 1] EXCEPT !.counted = @ \cup {k}]
              ELSE skip[k + 1]
        BY <4>1, Zenon DEF Body
      <4>. QED BY <2>1, <4>2, Zenon
    <3>3. CASE skip[k] = [to |-> k + 3, counted |-> {}]
      BY <1>1, <2>3, <3>1, <3>3 DEF Skipped
    <3>4. CASE skip[k] = [skip[k + 1] EXCEPT !.counted = @ \cup {k}]
      <4>. DEFINE s == skip[k + 1]
      <4>1. /\ s \in [to : 0 .. Len(source), counted : SUBSET (0 .. Len(source) - 1)]
            /\ k + 1 <= s.to /\ \A n \in s.counted : k + 1 <= n
        BY <1>1, <2>3, <3>1 DEF Skipped
      <4>. HIDE DEF s
      <4>2. skip[k] = [s EXCEPT !.counted = s.counted \cup {k}]
        BY <3>4 DEF s
      <4>3. /\ skip[k] \in [to : 0 .. Len(source), counted : SUBSET (0 .. Len(source) - 1)]
            /\ skip[k].to = s.to /\ skip[k].counted = s.counted \cup {k}
        BY <1>1, <3>1, <4>1, <4>2
      <4>4. skip[k].to = Len(source) \/ k <= skip[k].to
        BY <1>1, <3>1, <4>1, <4>3
      <4>5. \A n \in skip[k].counted : k <= n
        BY <1>1, <3>1, <4>1, <4>3
      <4>. QED BY <4>3, <4>4, <4>5 DEF Skipped
    <3>5. CASE skip[k] \in {skip[k + 1], skip[k + 2]}
      <4>. DEFINE s == skip[k]
      <4>1. s \in Skipped(k + 1) \/ s \in Skipped(k + 2)
        BY <3>1, <3>5
      <4>. HIDE DEF s
      <4>2. /\ s \in [to : 0 .. Len(source), counted : SUBSET (0 .. Len(source) - 1)]
            /\ s.to = Len(source) \/ k + 1 <= s.to
            /\ \A n \in s.counted : k + 1 <= n
        BY <1>1, <2>3, <4>1 DEF Skipped
      <4>3. s \in Skipped(k)
        BY <1>1, <2>3, <4>2 DEF Skipped
      <4>. QED BY <4>3 DEF s
    <3>. QED BY <3>2, <3>3, <3>4, <3>5
  <2>4. k + 2 >= Len(source) \/ k + 2 < Len(source)
    BY <1>1
  <2>. QED BY <2>2, <2>3, <2>4
<1>8. skip[j] \in Skipped(j)
  <2>. DEFINE S == {k \in 0 .. N : k >= j => skip[k] \in Skipped(k)}
  <2>1. ASSUME NEW k \in 0 .. N, \A n \in k + 1 .. N : n \in S PROVE k \in S
    BY <1>1, <1>7, <2>1
  <2>. HIDE DEF S
  <2>2. \A k \in 0 .. N : k \in S
    BY <1>1, <2>1, Backwards
  <2>. QED BY <1>1, <2>2 DEF S
<1>. QED BY <1>2, <1>8

\* The other helpers stop behind the place they start from, in the text.
LEMMA EolTurn ==
    ASSUME source \in Seq(STRING), NEW j \in 0 .. Len(source) - 1, Unit(j) # NewLine
    PROVE  skip_to_eol(j) \in j + 1 .. Len(source)
<1>. DEFINE T == {k \in j .. Len(source) - 1 : Unit(k) = NewLine}
<1>1. Len(source) \in Nat /\ j + 1 \in 0 .. Len(source) /\ T \in SUBSET (j + 1 .. Len(source))
  OBVIOUS
<1>2. skip_to_eol(j) = Min({Len(source)} \cup T)
  BY DEF skip_to_eol, FirstFrom
<1>. HIDE DEF T
<1>. QED BY <1>1, <1>2, GoesOn

LEMMA BlockTurn ==
    ASSUME source \in Seq(STRING), NEW j \in 0 .. Len(source)
    PROVE  skip_block_comment(j) \in Skipped(j)
<1>. DEFINE T == {k \in j .. Len(source) - 1 : Unit(k) = "*" /\ Unit(k + 1) = "/"}
            end == Min({Len(source)} \cup T)
<1>1. Len(source) \in Nat
  OBVIOUS
<1>2. end \in j .. Len(source)
  <2>1. T \in SUBSET (j .. Len(source))
    OBVIOUS
  <2>. HIDE DEF T
  <2>. QED BY <1>1, <2>1, GoesOn
<1>3. /\ skip_block_comment(j).to = Min({Len(source), end + 2})
      /\ skip_block_comment(j).counted = LinesIn(j, Min({end, Len(source) - 1}))
      /\ skip_block_comment(j) = [to |-> skip_block_comment(j).to, counted |-> skip_block_comment(j).counted]
  BY DEF skip_block_comment, FirstFrom
<1>. HIDE DEF end
<1>4. Min({Len(source), end + 2}) \in j .. Len(source)
  BY <1>1, <1>2, NoFurther
<1>5. LinesIn(j, Min({end, Len(source) - 1})) \subseteq j .. Len(source) - 1
  BY <1>1 DEF LinesIn, Newlines
<1>. DEFINE to == Min({Len(source), end + 2})
            counted == LinesIn(j, Min({end, Len(source) - 1}))
<1>6. skip_block_comment(j) = [to |-> to, counted |-> counted]
  BY <1>3
<1>7. to \in j .. Len(source) /\ counted \subseteq j .. Len(source) - 1
  BY <1>4, <1>5
<1>. HIDE DEF to, counted
<1>. QED BY <1>1, <1>6, <1>7 DEF Skipped

LEMMA SpaceTurn ==
    ASSUME source \in Seq(STRING), NEW j \in 0 .. Len(source)
    PROVE  ForthWhile(source, j, IsSpace) \in j .. Len(source)
<1>. DEFINE T == {k \in j .. Len(source) - 1 : ~IsSpace(Ch(source, k))}
<1>1. Len(source) \in Nat /\ T \in SUBSET (j .. Len(source))
  OBVIOUS
<1>2. ForthWhile(source, j, IsSpace) = Min({Len(source)} \cup T)
  BY DEF ForthWhile
<1>. HIDE DEF T
<1>. QED BY <1>1, <1>2, GoesOn

LEMMA ReceiverTurn ==
    ASSUME source \in Seq(STRING), NEW j \in 0 .. Len(source)
    PROVE  AfterReceiver(j) \in j .. Len(source)
<1>. DEFINE T == {k \in j .. Len(source) - 1 :
                    Unit(k) = ")" /\ Opens(source, j, k + 1) - Closes(source, j, k + 1) = 0}
            close == Min({Len(source)} \cup T)
<1>1. Len(source) \in Nat /\ T \in SUBSET (j .. Len(source))
  OBVIOUS
<1>2. AfterReceiver(j) = Min({Len(source), close + 1})
  BY DEF AfterReceiver, FirstFrom
<1>. HIDE DEF T
<1>3. close \in j .. Len(source)
  BY <1>1, GoesOn
<1>. HIDE DEF close
<1>. QED BY <1>1, <1>2, <1>3, NoFurther

LEMMA IdentTurn ==
    ASSUME source \in Seq(STRING), NEW j \in 0 .. Len(source)
    PROVE  skip_to_ident(j) \in j .. Len(source)
<1>. DEFINE receiver  == ForthWhile(source, j, IsSpace)
            behind    == IF lang = "Go" /\ Unit(receiver) = "(" THEN AfterReceiver(receiver) ELSE receiver
            name      == ForthWhile(source, behind, IsSpace)
            T         == {k \in name .. Len(source) - 1 : Ch(source, k) \notin {"*", "&"}}
            modifiers == Min({Len(source)} \cup T)
<1>1. skip_to_ident(j) = ForthWhile(source, modifiers, IsSpace)
  BY DEF skip_to_ident, ForthWhile
<1>2. receiver \in j .. Len(source)
  BY SpaceTurn
<1>. HIDE DEF receiver
<1>3. behind \in j .. Len(source)
  BY <1>2, ReceiverTurn
<1>. HIDE DEF behind
<1>4. name \in j .. Len(source)
  BY <1>3, SpaceTurn
<1>. HIDE DEF name
<1>5. modifiers \in j .. Len(source)
  <2>1. Len(source) \in Nat /\ name \in 0 .. Len(source) /\ T \in SUBSET (name .. Len(source))
    BY <1>4
  <2>. HIDE DEF T
  <2>2. modifiers \in name .. Len(source)
    BY <2>1, GoesOn
  <2>. HIDE DEF modifiers
  <2>. QED BY <1>4, <2>2
<1>. HIDE DEF modifiers
<1>. QED BY <1>1, <1>5, SpaceTurn

-----------------------------------------------------------------------------
(* Where the scan is: on which line, and where that begins. *)

PlaceOK ==
    /\ source \in Seq(STRING) /\ i \in 0 .. Len(source)
    /\ line \in Nat /\ line_start \in 0 .. Len(source) /\ drifted \in BOOLEAN
    /\ ~drifted => line = LineNumber(source, i) /\ line_start = LineStart(source, i)

\* A line more for each newline passed.
LEMMA LinesCount ==
    ASSUME source \in Seq(STRING), NEW from \in 0 .. Len(source), NEW to \in from .. Len(source)
    PROVE  LineNumber(source, to) = LineNumber(source, from) + Cardinality(LinesIn(from, to))
<1>. DEFINE A == {n \in Newlines(source) : n < from}
            B == LinesIn(from, to)
            C == {n \in Newlines(source) : n < to}
<1>1. Len(source) \in Nat /\ Newlines(source) \subseteq 0 .. Len(source) - 1
  BY DEF Newlines
<1>2. C = A \cup B /\ A \cap B = {}
  BY <1>1 DEF LinesIn
<1>3. IsFiniteSet(A) /\ IsFiniteSet(B) /\ IsFiniteSet(A \cap B)
  <2>1. IsFiniteSet(0 .. Len(source) - 1)
    BY <1>1, FS_Interval
  <2>2. A \subseteq 0 .. Len(source) - 1 /\ B \subseteq 0 .. Len(source) - 1
    BY <1>1 DEF LinesIn
  <2>. QED BY <2>1, <2>2, FS_Subset
<1>4. LineNumber(source, to) = Cardinality(C) /\ LineNumber(source, from) = Cardinality(A)
  BY DEF LineNumber
<1>. HIDE DEF A, B, C
<1>5. Cardinality(C) = Cardinality(A) + Cardinality(B) - Cardinality(A \cap B)
  BY <1>2, <1>3, FS_Union
<1>6. Cardinality(A \cap B) = 0 /\ Cardinality(A) \in Nat /\ Cardinality(B) \in Nat
  BY <1>2, <1>3, FS_EmptySet, FS_CardinalityType
<1>7. Cardinality(C) = Cardinality(A) + Cardinality(B)
  BY <1>5, <1>6
<1>. QED BY <1>4, <1>7 DEF B

\* A set of places that has the greatest one of another, and else none greater.
LEMMA SameMax ==
    ASSUME NEW b \in Nat, NEW S \in SUBSET (0 .. b), NEW T \in SUBSET (0 .. b), S # {}, T # {},
           \A n \in S : \E m \in T : n <= m, \A n \in T : \E m \in S : n <= m
    PROVE  Max(S) = Max(T)
<1>1. Max(S) \in S /\ \A n \in S : n <= Max(S)
  BY LargestOf
<1>2. Max(T) \in T /\ \A n \in T : n <= Max(T)
  BY LargestOf
<1>. DEFINE s == Max(S)
            t == Max(T)
<1>3. s \in S /\ t \in T /\ (\A n \in S : n <= s) /\ (\A n \in T : n <= t)
  BY <1>1, <1>2
<1>. HIDE DEF s, t
<1>4. s \in Nat /\ t \in Nat
  BY <1>3
<1>5. s <= t /\ t <= s
  <2>1. PICK m \in T : s <= m
    BY <1>3
  <2>2. PICK n \in S : t <= n
    BY <1>3
  <2>3. m \in Nat /\ n \in Nat /\ m <= t /\ n <= s
    BY <1>3
  <2>. QED BY <1>4, <2>1, <2>2, <2>3
<1>6. s = t
  BY <1>4, <1>5
<1>. QED BY <1>6 DEF s, t

LEMMA LineBegins ==
    ASSUME source \in Seq(STRING), NEW from \in 0 .. Len(source), NEW to \in from .. Len(source)
    PROVE  LineStart(source, to) =
               Max({LineStart(source, from)} \cup {n + 1 : n \in LinesIn(from, to)})
<1>. DEFINE A == {0} \cup {n + 1 : n \in {m \in Newlines(source) : m < from}}
            C == {0} \cup {n + 1 : n \in {m \in Newlines(source) : m < to}}
            B == {LineStart(source, from)} \cup {n + 1 : n \in LinesIn(from, to)}
<1>1. Len(source) \in Nat /\ Newlines(source) \subseteq 0 .. Len(source) - 1
  BY DEF Newlines
<1>2. LineStart(source, to) = Max(C) /\ LineStart(source, from) = Max(A)
  BY DEF LineStart
<1>3. A \in SUBSET (0 .. Len(source)) /\ C \in SUBSET (0 .. Len(source)) /\ A # {} /\ C # {}
  BY <1>1
<1>4. A \subseteq C
  BY <1>1
<1>5. \A n \in C : n \in A \/ n \in B
  BY <1>1 DEF LinesIn
<1>6. {n + 1 : n \in LinesIn(from, to)} \subseteq C
  BY DEF LinesIn
<1>. HIDE DEF A, C
<1>7. Max(A) \in A /\ \A n \in A : n <= Max(A)
  BY <1>1, <1>3, LargestOf
<1>8. B \in SUBSET (0 .. Len(source)) /\ B # {} /\ B \subseteq C /\ Max(A) \in B
  BY <1>2, <1>3, <1>4, <1>6, <1>7
<1>. HIDE DEF B
<1>9. ASSUME NEW n \in C PROVE \E m \in B : n <= m
  <2>1. CASE n \in A
    BY <1>7, <1>8, <2>1
  <2>2. CASE n \in B
    <3>1. n <= n
      BY <1>3
    <3>. QED BY <2>2, <3>1
  <2>. QED BY <1>5, <2>1, <2>2
<1>10. \A n \in B : \E m \in C : n <= m
  BY <1>3, <1>8
<1>11. Max(C) = Max(B)
  BY <1>1, <1>3, <1>8, <1>9, <1>10, SameMax
<1>. QED BY <1>2, <1>11 DEF B

\* What a turn leaves if it goes on at to and counts some newlines.
LEMMA SkipKeeps ==
    ASSUME PlaceOK, NEW to \in i .. Len(source), NEW counted \in SUBSET (i .. Len(source) - 1),
           Skip(to, counted)
    PROVE  PlaceOK' /\ (~drifted' => ~drifted /\ counted = LinesIn(i, to))
<1>1. Len(source) \in Nat /\ i \in 0 .. Len(source)
  BY DEF PlaceOK
<1>2. /\ i' = to /\ line' = line + Cardinality(counted)
      /\ line_start' = Max({line_start} \cup {n + 1 : n \in counted})
      /\ drifted' = (drifted \/ counted # LinesIn(i, to)) /\ source' = source
  BY DEF Skip, Line_
<1>3. line' \in Nat
  <2>1. IsFiniteSet(i .. Len(source) - 1)
    BY <1>1, FS_Interval
  <2>2. Cardinality(counted) \in Nat
    BY <2>1, FS_Subset, FS_CardinalityType
  <2>. QED BY <1>2, <2>2 DEF PlaceOK
<1>4. line_start' \in 0 .. Len(source)
  <2>. DEFINE T == {line_start} \cup {n + 1 : n \in counted}
  <2>1. T \in SUBSET (0 .. Len(source)) /\ T # {}
    BY <1>1 DEF PlaceOK
  <2>2. line_start' = Max(T)
    BY <1>2
  <2>. HIDE DEF T
  <2>. QED BY <1>1, <2>1, <2>2, LargestOf
<1>5. ASSUME ~drifted'
      PROVE  /\ ~drifted /\ counted = LinesIn(i, to)
             /\ line' = LineNumber(source, to) /\ line_start' = LineStart(source, to)
  <2>1. ~drifted /\ counted = LinesIn(i, to)
    BY <1>2, <1>5
  <2>2. line = LineNumber(source, i) /\ line_start = LineStart(source, i)
    BY <2>1 DEF PlaceOK
  <2>. QED BY <1>1, <1>2, <2>1, <2>2, LinesCount, LineBegins DEF PlaceOK
<1>6. drifted' \in BOOLEAN
  BY <1>2 DEF PlaceOK
<1>. QED BY <1>1, <1>2, <1>3, <1>4, <1>5, <1>6 DEF PlaceOK

-----------------------------------------------------------------------------
(* Every turn but one goes on. *)

Passing ==
    \/ NextLine \/ Blank \/ LineComment \/ BlockComment \/ TripleQuote \/ String \/ RustQuote
    \/ OpenBrace \/ CloseBrace \/ Colon \/ VisibilityKeyword \/ Definition \/ Word \/ Other

\* What a helper returns that starts further on in the text is a way on.
LEMMA SkippedGoesOn ==
    ASSUME PlaceOK, Running, NEW k \in i + 1 .. Len(source), NEW s \in Skipped(k), Skip(s.to, s.counted)
    PROVE  \E to \in i + 1 .. Len(source), counted \in SUBSET (i .. Len(source) - 1) : Skip(to, counted)
<1>1. Len(source) \in Nat /\ i \in Nat /\ i < Len(source)
  BY DEF PlaceOK, Running
<1>2. s.to \in i + 1 .. Len(source)
  BY <1>1 DEF Skipped
<1>3. s.counted \in SUBSET (i .. Len(source) - 1)
  BY <1>1 DEF Skipped
<1>. QED BY <1>2, <1>3

LEMMA TurnSkips ==
    ASSUME PlaceOK, Passing
    PROVE  /\ Running /\ ~Indenting
           /\ \E to \in i + 1 .. Len(source), counted \in SUBSET (i .. Len(source) - 1) : Skip(to, counted)
<1>. USE DEF Turn
<1>. DEFINE GoingOn == \E to \in i + 1 .. Len(source), counted \in SUBSET (i .. Len(source) - 1) :
                          Skip(to, counted)
<1>1. Turn
  BY DEF Passing, NextLine, Blank, LineComment, BlockComment, TripleQuote, String, RustQuote,
         OpenBrace, CloseBrace, Colon, VisibilityKeyword, Definition, WordTurn, Word, Other
<1>2. /\ Len(source) \in Nat /\ source \in Seq(STRING) /\ i \in 0 .. Len(source) - 1
      /\ i + 1 \in i + 1 .. Len(source)
  BY <1>1 DEF PlaceOK, Running
<1>3. \A k \in Nat : Unit(k) # "end" => k < Len(source)
  BY DEF Unit
<1>4. CASE \E counted \in {{}, {i}} : Skip(i + 1, counted)
  <2>1. {} \in SUBSET (i .. Len(source) - 1) /\ {i} \in SUBSET (i .. Len(source) - 1)
    BY <1>2
  <2>. QED BY <1>1, <1>2, <1>4, <2>1
<1>5. CASE NextLine
  BY <1>4, <1>5 DEF NextLine
<1>6. CASE Blank \/ OpenBrace \/ CloseBrace \/ Colon \/ VisibilityKeyword \/ Word \/ Other
  BY <1>4, <1>6 DEF Blank, OpenBrace, CloseBrace, Colon, VisibilityKeyword, Word, Other
<1>7. CASE LineComment
  <2>1. Unit(i) # NewLine /\ Skip(skip_to_eol(i), {})
    BY <1>7 DEF LineComment, Here, NewLine
  <2>2. skip_to_eol(i) \in i + 1 .. Len(source)
    BY <1>2, <2>1, EolTurn
  <2>. QED BY <1>1, <2>1, <2>2
<1>8. CASE BlockComment
  <2>1. Unit(i + 1) = "*" /\ Skip(skip_block_comment(i + 2).to, skip_block_comment(i + 2).counted)
    BY <1>8 DEF BlockComment
  <2>2. i + 2 \in i + 1 .. Len(source) /\ i + 2 \in 0 .. Len(source)
    BY <1>2, <1>3, <2>1
  <2>3. skip_block_comment(i + 2) \in Skipped(i + 2)
    BY <1>2, <2>2, BlockTurn
  <2>. QED BY <1>1, <2>1, <2>2, <2>3, SkippedGoesOn
<1>9. CASE TripleQuote
  <2>1. /\ Here \in {"dquote", "squote"} /\ Unit(i + 2) = Here
        /\ Skip(skip_triple_quote(i + 3, Here).to, skip_triple_quote(i + 3, Here).counted)
    BY <1>9 DEF TripleQuote, IsTriple
  <2>2. i + 3 \in i + 1 .. Len(source) /\ i + 3 \in 0 .. Len(source)
    BY <1>2, <1>3, <2>1
  <2>3. skip_triple_quote(i + 3, Here) \in Skipped(i + 3)
    BY <1>2, <2>1, <2>2, TripleTurn
  <2>. QED BY <1>1, <2>1, <2>2, <2>3, SkippedGoesOn
<1>10. CASE String
  <2>1. /\ Here \in {"dquote", "squote", "bquote"}
        /\ Skip(skip_string(i + 1, Here).to, skip_string(i + 1, Here).counted)
    BY <1>10 DEF String
  <2>2. i + 1 \in 0 .. Len(source)
    BY <1>2
  <2>3. skip_string(i + 1, Here) \in Skipped(i + 1)
    BY <1>2, <2>1, <2>2, StringTurn
  <2>. QED BY <1>1, <1>2, <2>1, <2>3, SkippedGoesOn
<1>11. CASE RustQuote
  <2>1. PICK to \in Nat : i + 1 <= to /\ Skip(Min({Len(source), to}), {})
    <3>. DEFINE first == IF Unit(i + 1) = "\\" THEN i + 3 ELSE i + 1
                to    == IF Unit(first + 1) = "squote" THEN first + 1 + 1 ELSE first + 1
    <3>1. Skip(Min({Len(source), to}), {})
      BY <1>11 DEF RustQuote
    <3>2. to \in Nat /\ i + 1 <= to
      BY <1>2
    <3>. HIDE DEF to
    <3>. QED BY <3>1, <3>2
  <2>2. Min({Len(source), to}) \in i + 1 .. Len(source)
    BY <1>2, <2>1, NoFurther
  <2>. QED BY <1>1, <2>1, <2>2
<1>12. CASE Definition
  <2>. DEFINE name_start == skip_to_ident(i + 1)
              found == name_start < Len(source) /\ IsWord(Unit(name_start))
              to == IF found THEN name_start + 1 ELSE name_start
  <2>1. Skip(to, LinesIn(i, name_start))
    BY <1>12 DEF Definition
  <2>2. name_start \in i + 1 .. Len(source)
    BY <1>2, IdentTurn
  <2>3. to \in i + 1 .. Len(source)
    BY <1>2, <2>2
  <2>4. LinesIn(i, name_start) \in SUBSET (i .. Len(source) - 1)
    BY <1>2, <2>2 DEF LinesIn, Newlines
  <2>. HIDE DEF to, name_start
  <2>. QED BY <1>1, <2>1, <2>3, <2>4
<1>. QED BY <1>5, <1>6, <1>7, <1>8, <1>9, <1>10, <1>11, <1>12 DEF Passing

LEMMA NextIsPassing == LexerNext => Passing \/ Dedent \/ UNCHANGED vars
BY DEF LexerNext, Passing, Done

LEMMA PlaceKept ==
    ASSUME PlaceOK, [LexerNext]_vars
    PROVE  PlaceOK'
<1>1. CASE Passing
  <2>1. i \in 0 .. Len(source) /\ Len(source) \in Nat
    BY DEF PlaceOK
  <2>2. PICK to \in i + 1 .. Len(source), counted \in SUBSET (i .. Len(source) - 1) : Skip(to, counted)
    BY <1>1, TurnSkips
  <2>3. to \in i .. Len(source)
    BY <2>1
  <2>. QED BY <2>2, <2>3, SkipKeeps
<1>2. CASE Dedent
  BY <1>2 DEF PlaceOK, Dedent, place
<1>3. CASE UNCHANGED vars
  BY <1>3 DEF PlaceOK, vars, place
<1>. QED BY <1>1, <1>2, <1>3, NextIsPassing

LEMMA PlaceAtFirst ==
    ASSUME LexerInit
    PROVE  PlaceOK
<1>1. source \in Seq(STRING) /\ Len(source) \in Nat /\ i = 0 /\ line = 0 /\ line_start = 0 /\ drifted = FALSE
  BY SourcesAssumption DEF LexerInit
<1>2. {n \in Newlines(source) : n < i} = {}
  BY <1>1 DEF Newlines
<1>3. LineNumber(source, i) = 0
  BY <1>2, FS_EmptySet DEF LineNumber
<1>4. LineStart(source, i) = 0
  <2>. DEFINE T == {0} \cup {n + 1 : n \in {m \in Newlines(source) : m < i}}
  <2>1. T = {0}
    BY <1>2
  <2>2. LineStart(source, i) = Max(T)
    BY DEF LineStart
  <2>. HIDE DEF T
  <2>3. Max(T) \in T
    BY <2>1, LargestOf
  <2>. QED BY <2>1, <2>2, <2>3
<1>5. i \in 0 .. Len(source) /\ line \in Nat /\ line_start \in 0 .. Len(source)
  BY <1>1
<1>6. line = LineNumber(source, i) /\ line_start = LineStart(source, i)
  BY <1>1, <1>3, <1>4
<1>7. drifted \in BOOLEAN
  BY Zenon DEF LexerInit
<1>. QED BY <1>1, <1>5, <1>6, <1>7 DEF PlaceOK

\* No turn leaves i where it is, but the one that sees to the indentation, once
\* per line: the scan of every text ends, whatever the text (tokenizer.rs:793).
THEOREM EveryTurnAdvances == LexerSpec => TurnsAdvance
<1>1. LexerInit => PlaceOK
  BY PlaceAtFirst
<1>2. PlaceOK /\ [LexerNext]_vars => PlaceOK'
  BY PlaceKept
<1>3. PlaceOK /\ [LexerNext]_vars => [i' > i \/ (Indenting /\ ~Indenting')]_vars
  <2>. SUFFICES ASSUME PlaceOK, LexerNext PROVE i' > i \/ (Indenting /\ ~Indenting') \/ UNCHANGED vars
    OBVIOUS
  <2>1. CASE Passing
    <3>1. PICK to \in i + 1 .. Len(source), counted \in SUBSET (i .. Len(source) - 1) : Skip(to, counted)
      BY <2>1, TurnSkips
    <3>2. i' = to /\ i \in Nat
      BY <3>1 DEF Skip, PlaceOK
    <3>. QED BY <3>1, <3>2
  <2>2. CASE Dedent
    BY <2>2 DEF Dedent, Indenting
  <2>. QED BY <2>1, <2>2, NextIsPassing
<1>. QED BY <1>1, <1>2, <1>3, PTL DEF LexerSpec, TurnsAdvance

-----------------------------------------------------------------------------
(* What the scan keeps beside its place. *)

Words == STRING \ Symbolic

ScopesOK ==
    /\ brace_depth \in Nat
    /\ container_stack \in Seq(Words \X Nat)
    /\ pending_scope_opener = None \/ pending_scope_opener \in Words
    /\ pending_visibility \in {None, "Public", "Private"}
    /\ indent_stack \in Seq(Nat) /\ (indent_scoping(lang) => indent_stack # <<>>)
    /\ py_at_line_start \in BOOLEAN

Tokens == [kind : {"DefKeyword", "Ident"}, text : Words, line : Nat, col : Int]
Occurrences == [word_offset : 0 .. Len(source) - 1, line : Nat, col : Int,
                role : {"Definition", "Reference"}]
Contexts == [visibility : {"Public", "Private", "Unknown"}, container : Words \cup {None}, depth : Nat]
OutputOK ==
    tokens \in Seq(Tokens) /\ occurrences \in Seq(Occurrences) /\ def_contexts \in Seq(Contexts)

\* A position that was written down while nothing had drifted stays right.
RightPlace(o) ==
    /\ o.line = LineNumber(source, o.word_offset)
    /\ o.col = o.word_offset - LineStart(source, o.word_offset)
PositionsOK == ~drifted => \A n \in DOMAIN occurrences : RightPlace(occurrences[n])

-----------------------------------------------------------------------------
(* Scopes. *)

LEMMA WordUnit ==
    ASSUME source \in Seq(STRING), NEW at \in Nat, at < Len(source), IsWord(Unit(at))
    PROVE  Unit(at) \in Words
<1>1. at + 1 \in 1 .. Len(source) /\ Unit(at) = source[at + 1]
  BY DEF Unit, Ch
<1>. QED BY <1>1 DEF IsWord, Words

\* What is taken for a word is one, if only the empty one, and ends no line.
LEMMA WordTaken ==
    ASSUME source \in Seq(STRING), NEW at \in Nat, at < Len(source)
    PROVE  WordAt(at) \in Words /\ (is_ident_start_byte(Unit(at)) => Unit(at) # NewLine)
<1>1. CASE IsWord(Unit(at))
  <2>1. WordAt(at) = Unit(at) /\ Unit(at) \in Words
    BY <1>1, WordUnit DEF WordAt
  <2>2. NewLine \in Symbolic
    BY Zenon DEF Symbolic, Punctuation
  <2>. QED BY <1>1, <2>1, <2>2 DEF IsWord
<1>2. CASE ~IsWord(Unit(at))
  <2>1. WordAt(at) = NoName
    BY <1>2 DEF WordAt
  <2>4. NoName \in STRING
    BY NoNameAssumption
  <2>2. NoName \notin Symbolic
    BY Zenon DEF NoName, Symbolic, Punctuation, Wide, NewLine
  <2>3. NewLine \notin Wide
    BY Zenon DEF Wide, NewLine
  <2>. QED BY <1>2, <2>1, <2>2, <2>3, <2>4, Zenon DEF Words, is_ident_start_byte
<1>. QED BY <1>1, <1>2

\* What is left of a stack is a stack.
LEMMA OpenBelowIs ==
    ASSUME NEW T, container_stack \in Seq(T), NEW depth
    PROVE  OpenBelow(depth) \in Seq(T)
<1>. DEFINE S == {0} \cup {n \in DOMAIN container_stack : container_stack[n][2] < depth}
<1>1. Len(container_stack) \in Nat /\ S \in SUBSET (0 .. Len(container_stack)) /\ S # {}
  OBVIOUS
<1>2. OpenBelow(depth) = SubSeq(container_stack, 1, Max(S))
  BY DEF OpenBelow
<1>. HIDE DEF S
<1>3. Max(S) \in 0 .. Len(container_stack)
  BY <1>1, LargestOf
<1>. QED BY <1>2, <1>3, SubSeqProperties

LEMMA PeekedIs ==
    ASSUME PlaceOK, ScopesOK, Running
    PROVE  Peeked = None \/ Peeked \in Words
<1>1. source \in Seq(STRING) /\ i + 1 \in 0 .. Len(source)
  BY DEF PlaceOK, Running
<1>2. skip_to_ident(i + 1) \in Nat
  BY <1>1, IdentTurn
<1>. QED BY <1>1, <1>2, WordTaken DEF Peeked, NameBegins, ScopesOK

LEMMA VisibilityIs ==
    ASSUME NEW word
    PROVE  check_visibility(lang, word) \in {None, "Public", "Private"}
BY DEF check_visibility

LEMMA OneLess ==
    ASSUME NEW d \in Nat
    PROVE  Max({0, d - 1}) \in Nat
<1>. DEFINE T == {0, d - 1}
<1>1. \E m \in T : \A n \in T : m >= n
  <2>1. CASE d = 0
    <3>1. 0 \in T /\ \A n \in T : 0 >= n
      BY <2>1
    <3>. QED BY <3>1
  <2>2. CASE d # 0
    <3>1. d - 1 \in T /\ \A n \in T : d - 1 >= n
      BY <2>2
    <3>. QED BY <3>1
  <2>. QED BY <2>1, <2>2
<1>2. 0 \in T /\ T \subseteq Int
  OBVIOUS
<1>. HIDE DEF T
<1>3. Max(T) \in T /\ \A n \in T : Max(T) >= n
  BY <1>1 DEF Max
<1>4. Max(T) \in Int /\ Max(T) >= 0
  BY <1>2, <1>3
<1>5. Max(T) \in Nat
  BY <1>4
<1>. QED BY <1>5 DEF T

LEMMA ScopesKept ==
    ASSUME PlaceOK, ScopesOK, [LexerNext]_vars
    PROVE  ScopesOK'
<1>. USE DEF ScopesOK
<1>1. CASE NextLine \/ Blank \/ LineComment \/ BlockComment \/ TripleQuote \/ String \/ RustQuote \/ Other
  BY <1>1 DEF NextLine, Blank, LineComment, BlockComment, TripleQuote, String, RustQuote, Other, Skip, scopes
<1>2. CASE VisibilityKeyword
  BY <1>2, VisibilityIs DEF VisibilityKeyword, Skip, scopes
<1>3. CASE OpenBrace
  <2>1. /\ container_stack' = IF pending_scope_opener = None THEN container_stack
                               ELSE Append(container_stack, <<pending_scope_opener, brace_depth>>)
        /\ pending_scope_opener' = None /\ brace_depth' = brace_depth + 1
        /\ UNCHANGED <<lang, indent_stack, py_at_line_start, pending_visibility>>
    BY <1>3 DEF OpenBrace, Skip
  <2>2. container_stack' \in Seq(Words \X Nat)
    <3>1. CASE pending_scope_opener = None
      BY <2>1, <3>1
    <3>2. CASE pending_scope_opener # None
      <4>1. <<pending_scope_opener, brace_depth>> \in Words \X Nat
        BY <3>2
      <4>2. container_stack' = Append(container_stack, <<pending_scope_opener, brace_depth>>)
        BY <2>1, <3>2
      <4>. HIDE DEF Words
      <4>. QED BY <4>1, <4>2, AppendProperties
    <3>. QED BY <3>1, <3>2
  <2>3. brace_depth' \in Nat
    BY <2>1
  <2>. QED BY <2>1, <2>2, <2>3
<1>4. CASE CloseBrace
  <2>1. container_stack' \in Seq(Words \X Nat)
    BY <1>4, OpenBelowIs DEF CloseBrace
  <2>2. brace_depth' \in Nat
    <3>1. brace_depth' = Max({0, brace_depth - 1})
      BY <1>4 DEF CloseBrace
    <3>. QED BY <3>1, OneLess
  <2>. QED BY <1>4, <2>1, <2>2 DEF CloseBrace, Skip
<1>5. CASE Colon
  <2>1. CASE pending_scope_opener = None
    BY <1>5, <2>1 DEF Colon, Skip
  <2>2. CASE pending_scope_opener # None
    <3>1. /\ container_stack' = Append(container_stack, <<pending_scope_opener, Len(indent_stack)>>)
          /\ indent_stack' = Append(indent_stack, Last(indent_stack) + 1)
          /\ brace_depth' = Len(indent_stack) /\ indent_scoping(lang)
          /\ pending_scope_opener' = None
          /\ UNCHANGED <<py_at_line_start, pending_visibility, lang>>
      BY <1>5, <2>2 DEF Colon, Skip
    <3>2. <<pending_scope_opener, Len(indent_stack)>> \in Words \X Nat
      BY <2>2
    <3>3. Last(indent_stack) + 1 \in Nat
      BY <3>1 DEF Last
    <3>. DEFINE pair == <<pending_scope_opener, Len(indent_stack)>>
                level == Last(indent_stack) + 1
    <3>. HIDE DEF pair, level, Words
    <3>4. container_stack' \in Seq(Words \X Nat)
      BY <3>1, <3>2, AppendProperties DEF pair
    <3>5. indent_stack' \in Seq(Nat) /\ indent_stack' # <<>>
      <4>1. level \in Nat /\ indent_stack' = Append(indent_stack, level) /\ indent_stack \in Seq(Nat)
        BY <3>1, <3>3 DEF level
      <4>2. indent_stack' \in Seq(Nat) /\ Len(indent_stack') = Len(indent_stack) + 1
        BY <4>1, AppendProperties
      <4>3. Len(indent_stack) \in Nat
        BY <4>1
      <4>4. Len(indent_stack') # 0
        BY <4>2, <4>3
      <4>. QED BY <4>2, <4>4, EmptySeq
    <3>6. brace_depth' \in Nat
      BY <3>1
    <3>. QED BY <3>1, <3>4, <3>5, <3>6
  <2>. QED BY <2>1, <2>2
<1>6. CASE Definition \/ Word
  <2>1. Scope /\ pending_visibility' = None /\ lang' = lang /\ Running
    BY <1>6 DEF Definition, Word, Skip, WordTurn, Turn
  <2>. QED BY <2>1, PeekedIs DEF Scope
<1>7. CASE Dedent
  <2>. DEFINE T == {1} \cup {n \in 1 .. Len(indent_stack) : indent_stack[n] < i - line_start}
  <2>1. /\ indent_stack' = SubSeq(indent_stack, 1, Max(T)) /\ brace_depth' = Max(T) - 1
        /\ container_stack' \in {OpenBelow(Max(T)), container_stack}
        /\ py_at_line_start' = FALSE
        /\ UNCHANGED <<lang, pending_scope_opener, pending_visibility>>
    BY <1>7 DEF Dedent
  <2>2. indent_stack # <<>> /\ Len(indent_stack) \in Nat
    BY <1>7 DEF Dedent, Indenting
  <2>3. T \in SUBSET (0 .. Len(indent_stack)) /\ T # {} /\ 1 \in T
    BY <2>2
  <2>. HIDE DEF T
  <2>4. Max(T) \in 1 .. Len(indent_stack)
    <3>. DEFINE kept == Max(T)
    <3>1. kept \in T /\ \A n \in T : n <= kept
      BY <2>2, <2>3, LargestOf
    <3>. HIDE DEF kept
    <3>2. 1 <= kept /\ kept \in 0 .. Len(indent_stack)
      BY <2>3, <3>1
    <3>3. kept \in 1 .. Len(indent_stack)
      BY <2>2, <3>2
    <3>. QED BY <3>3 DEF kept
  <2>5. indent_stack' \in Seq(Nat) /\ Len(indent_stack') = Max(T)
    BY <2>1, <2>4, SubSeqProperties
  <2>6. container_stack' \in Seq(Words \X Nat)
    BY <2>1, OpenBelowIs
  <2>7. indent_stack' # <<>> /\ brace_depth' \in Nat
    BY <2>1, <2>4, <2>5
  <2>. QED BY <2>1, <2>5, <2>6, <2>7
<1>8. CASE UNCHANGED vars
  BY <1>8 DEF vars, scopes
<1>. QED BY <1>1, <1>2, <1>3, <1>4, <1>5, <1>6, <1>7, <1>8 DEF LexerNext, Done

\* The text does not change, and what has drifted has drifted.
LEMMA SourceStays ==
    ASSUME [LexerNext]_vars, PlaceOK
    PROVE  source' = source /\ lang' = lang /\ (~drifted' => ~drifted)
<1>1. CASE Passing
  <2>1. PICK to \in i + 1 .. Len(source), counted \in SUBSET (i .. Len(source) - 1) : Skip(to, counted)
    BY <1>1, TurnSkips
  <2>. QED BY <2>1 DEF Skip
<1>2. CASE Dedent \/ UNCHANGED vars
  BY <1>2 DEF Dedent, vars
<1>. QED BY <1>1, <1>2, NextIsPassing

-----------------------------------------------------------------------------
(* A text and its language by themselves: which braces are open at a place, *)
(* and the types they belong to.                                            *)

\* The text and its language by themselves, which no turn changes.
UnitOf(s, k) == IF k < Len(s) THEN Ch(s, k) ELSE "end"
OpensAt(s, k) == UnitOf(s, k) = "{"
ClosesAt(s, k) == UnitOf(s, k) = "}"
ReceiverIn(s, j) ==
    LET Depth(k) == Opens(s, j, k + 1) - Closes(s, j, k + 1)
        close == Min({Len(s)} \cup {k \in j .. Len(s) - 1 : UnitOf(s, k) = ")" /\ Depth(k) = 0})
    IN  Min({Len(s), close + 1})
IdentIn(s, l, j) ==
    LET AfterSpace(k) == ForthWhile(s, k, IsSpace)
        receiver  == AfterSpace(j)
        name      == AfterSpace(IF l = "Go" /\ UnitOf(s, receiver) = "("
                                THEN ReceiverIn(s, receiver) ELSE receiver)
        modifiers == ForthWhile(s, name, LAMBDA u : u \in {"*", "&"})
    IN  AfterSpace(modifiers)
WordIn(s, k) == IF IsWord(UnitOf(s, k)) THEN UnitOf(s, k) ELSE NoName
BeginsIn(s, k) == k < Len(s) /\ is_ident_start_byte(UnitOf(s, k))
NameIn(s, l, k) == WordIn(s, IdentIn(s, l, k + 1))
NamedIn(s, l, k) == BeginsIn(s, IdentIn(s, l, k + 1)) /\ NameIn(s, l, k) \notin noise_words(l)
PlainIn(s, l) ==
    /\ \A n \in DOMAIN s : s[n] \notin Quoting
    /\ \A k \in 0 .. Len(s) - 1 : UnitOf(s, k) \in def_keywords(l) => NameIn(s, l, k) \notin scope_openers(l)
LevelIn(s, b, e) ==
    Cardinality({k \in b .. e - 1 : OpensAt(s, k)}) - Cardinality({k \in b .. e - 1 : ClosesAt(s, k)})
OpenIn(s, p) == {b \in 0 .. p - 1 : OpensAt(s, b) /\ \A e \in b + 1 .. p : LevelIn(s, b, e) > 0}
OpenersIn(s, l, b) ==
    {k \in 0 .. b - 1 : /\ UnitOf(s, k) \in scope_openers(l) /\ NamedIn(s, l, k)
                        /\ \A e \in k .. b - 1 : ~OpensAt(s, e)}
TypeIn(s, l, p) ==
    LET named == {b \in OpenIn(s, p) : OpenersIn(s, l, b) # {}}
    IN  IF named = {} THEN None ELSE NameIn(s, l, Max(OpenersIn(s, l, Max(named))))

LEMMA TextIs ==
    /\ \A k : Unit(k) = UnitOf(source, k)
    /\ \A k : WordAt(k) = WordIn(source, k) /\ NameBegins(k) = BeginsIn(source, k)
    /\ \A k : skip_to_ident(k) = IdentIn(source, lang, k)
    /\ Plain = PlainIn(source, lang)
    /\ \A p : EnclosingType(p) = TypeIn(source, lang, p)
<1>. USE DEF Unit, UnitOf, skip_to_ident, IdentIn, AfterReceiver, ReceiverIn, FirstFrom, ForthWhile, IsSpace,
         NameOf, NameIn, IsNamed, NamedIn, WordAt, WordIn, NameBegins, BeginsIn
<1>1. \A k : Unit(k) = UnitOf(source, k)
  BY Zenon
<1>8. \A k : WordAt(k) = WordIn(source, k) /\ NameBegins(k) = BeginsIn(source, k)
  BY Zenon
<1>2. \A k : skip_to_ident(k) = IdentIn(source, lang, k)
  BY Zenon
<1>3. Plain = PlainIn(source, lang)
  BY Zenon DEF Plain, PlainIn
<1>4. \A p : OpenBracesAt(p) = OpenIn(source, p)
  BY Zenon DEF OpenBracesAt, OpenIn, Level, LevelIn, OpensAt, ClosesAt
<1>5. \A b : OpenersOf(b) = OpenersIn(source, lang, b)
  BY Zenon DEF OpenersOf, OpenersIn, OpensAt
<1>6. \A k : NameOf(k) = NameIn(source, lang, k)
  BY Zenon
<1>. HIDE DEF Unit, UnitOf, skip_to_ident, IdentIn, AfterReceiver, ReceiverIn, FirstFrom, ForthWhile, IsSpace,
          NameOf, NameIn, IsNamed, NamedIn, WordAt, WordIn, NameBegins, BeginsIn
<1>7. ASSUME NEW p PROVE EnclosingType(p) = TypeIn(source, lang, p)
  <2>. DEFINE A == {b \in OpenBracesAt(p) : OpenersOf(b) # {}}
              B == {b \in OpenIn(source, p) : OpenersIn(source, lang, b) # {}}
  <2>1. A = B
    BY <1>4, <1>5
  <2>2. EnclosingType(p) = IF A = {} THEN None ELSE NameOf(Max(OpenersOf(Max(A))))
    BY Zenon DEF EnclosingType
  <2>3. TypeIn(source, lang, p) = IF B = {} THEN None ELSE NameIn(source, lang, Max(OpenersIn(source, lang, Max(B))))
    BY Zenon DEF TypeIn
  <2>. HIDE DEF A, B
  <2>. DEFINE b == Max(A)
  <2>4. OpenersOf(b) = OpenersIn(source, lang, b) /\ Max(B) = b
    BY <1>5, <2>1, Zenon
  <2>. HIDE DEF b
  <2>. DEFINE k == Max(OpenersOf(b))
  <2>5. NameOf(k) = NameIn(source, lang, k) /\ Max(OpenersIn(source, lang, b)) = k
    BY <1>6, <2>4, Zenon
  <2>6. EnclosingType(p) = IF A = {} THEN None ELSE NameOf(k)
    BY <2>2, Zenon DEF b
  <2>7. TypeIn(source, lang, p) = IF A = {} THEN None ELSE NameIn(source, lang, k)
    BY <2>1, <2>3, <2>4, <2>5
  <2>. HIDE DEF k
  <2>. QED BY <2>5, <2>6, <2>7
<1>. QED BY <1>1, <1>2, <1>3, <1>7, <1>8, Zenon

-----------------------------------------------------------------------------
(* Braces: those that are open at a place, from the outermost inwards.      *)

CountIn(T, b, e) == Cardinality({k \in b .. e - 1 : k \in T})
CountsOn(T, b, e) ==
    /\ CountIn(T, b, b) = 0 /\ CountIn(T, b, e) \in Nat
    /\ CountIn(T, b, e + 1) = CountIn(T, b, e) + (IF e \in T THEN 1 ELSE 0)

LEMMA CountGoesOn ==
    ASSUME NEW b \in Nat, NEW e \in Nat, b <= e, NEW T
    PROVE  CountsOn(T, b, e)
<1>. DEFINE S == {k \in b .. e - 1 : k \in T}
            U == {k \in b .. e + 1 - 1 : k \in T}
<1>1. IsFiniteSet(S)
  <2>1. IsFiniteSet(b .. e - 1) /\ S \subseteq b .. e - 1
    BY FS_Interval
  <2>. QED BY <2>1, FS_Subset
<1>2. U = IF e \in T THEN S \cup {e} ELSE S
  OBVIOUS
<1>3. e \notin S /\ {k \in b .. b - 1 : k \in T} = {}
  OBVIOUS
<1>. HIDE DEF S, U
<1>4. Cardinality(S) \in Nat /\ Cardinality(S \cup {e}) = Cardinality(S) + 1
  BY <1>1, <1>3, FS_AddElement, FS_CardinalityType
<1>5. Cardinality(U) = Cardinality(S) + (IF e \in T THEN 1 ELSE 0)
  BY <1>2, <1>4
<1>6. Cardinality({k \in b .. b - 1 : k \in T}) = 0
  BY <1>3, FS_EmptySet
<1>. QED BY <1>4, <1>5, <1>6 DEF S, U, CountsOn, CountIn

LEMMA OneBrace == \A s, k : ~(OpensAt(s, k) /\ ClosesAt(s, k))
BY Zenon DEF OpensAt, ClosesAt

Step(s, e) == IF OpensAt(s, e) THEN 1 ELSE IF ClosesAt(s, e) THEN -1 ELSE 0

LEMMA LevelGoesOn ==
    ASSUME NEW s, NEW b \in Nat, NEW e \in Nat, b <= e
    PROVE  /\ LevelIn(s, b, b) = 0 /\ LevelIn(s, b, e) \in Int
           /\ LevelIn(s, b, e + 1) = LevelIn(s, b, e) + Step(s, e)
<1>. DEFINE T == {k \in Nat : OpensAt(s, k)}
            U == {k \in Nat : ClosesAt(s, k)}
            Count(V, n) == CountIn(V, b, n)
<1>1. ASSUME NEW n \in Nat
      PROVE  LevelIn(s, b, n) = Count(T, n) - Count(U, n)
  <2>1. /\ {k \in b .. n - 1 : OpensAt(s, k)} = {k \in b .. n - 1 : k \in T}
        /\ {k \in b .. n - 1 : ClosesAt(s, k)} = {k \in b .. n - 1 : k \in U}
    OBVIOUS
  <2>. HIDE DEF T, U
  <2>. QED BY <2>1, Zenon DEF LevelIn, CountIn
<1>2. ASSUME NEW V
      PROVE  /\ Count(V, b) = 0 /\ Count(V, e) \in Nat
             /\ Count(V, e + 1) = Count(V, e) + (IF e \in V THEN 1 ELSE 0)
  <2>1. CountsOn(V, b, e)
    BY CountGoesOn, Zenon
  <2>. QED BY <2>1, Zenon DEF CountsOn
<1>3. (e \in T <=> OpensAt(s, e)) /\ (e \in U <=> ClosesAt(s, e))
  OBVIOUS
<1>. HIDE DEF T, U, Count
<1>4. e + 1 \in Nat /\ LevelIn(s, b, e + 1) = Count(T, e + 1) - Count(U, e + 1)
  BY <1>1
<1>5. LevelIn(s, b, e) = Count(T, e) - Count(U, e) /\ LevelIn(s, b, b) = Count(T, b) - Count(U, b)
  BY <1>1
<1>6. /\ Count(T, b) = 0 /\ Count(T, e) \in Nat
      /\ Count(T, e + 1) = Count(T, e) + (IF e \in T THEN 1 ELSE 0)
  BY <1>2
<1>7. /\ Count(U, b) = 0 /\ Count(U, e) \in Nat
      /\ Count(U, e + 1) = Count(U, e) + (IF e \in U THEN 1 ELSE 0)
  BY <1>2
<1>. QED BY <1>3, <1>4, <1>5, <1>6, <1>7, OneBrace DEF Step

LEMMA OpeningCounts ==
    ASSUME NEW s, NEW p \in Nat, OpensAt(s, p)
    PROVE  LevelIn(s, p, p + 1) = 1
<1>1. p <= p
  OBVIOUS
<1>2. LevelIn(s, p, p) = 0 /\ LevelIn(s, p, p + 1) = LevelIn(s, p, p) + Step(s, p)
  BY <1>1, LevelGoesOn, Zenon
<1>3. Step(s, p) = 1
  BY DEF Step
<1>. QED BY <1>2, <1>3

LEMMA OpenGoesOn ==
    ASSUME NEW s, NEW p \in Nat, NEW b
    PROVE  b \in OpenIn(s, p + 1) <=>
             /\ b \in OpenIn(s, p) \/ (b = p /\ OpensAt(s, p))
             /\ LevelIn(s, b, p + 1) > 0
<1>1. ASSUME b \in 0 .. p - 1 PROVE b + 1 .. p + 1 = (b + 1 .. p) \cup {p + 1}
  BY <1>1
<1>2. p + 1 .. p + 1 = {p + 1} /\ 0 .. (p + 1) - 1 = (0 .. p - 1) \cup {p}
  OBVIOUS
<1>3. CASE b = p
  BY <1>2, <1>3 DEF OpenIn
<1>4. CASE b # p
  BY <1>1, <1>2, <1>4 DEF OpenIn
<1>. QED BY <1>3, <1>4

\* open are the places of the braces that are open at p, outermost first.
Nests(s, p, open) ==
    /\ open \in Seq(Nat)
    /\ \A m, n \in 1 .. Len(open) : m < n => open[m] < open[n]
    /\ \A b : b \in OpenIn(s, p) <=> \E n \in 1 .. Len(open) : open[n] = b
    /\ \A n \in 1 .. Len(open) : LevelIn(s, open[n], p) = Len(open) - n + 1

LEMMA OpenIsBefore ==
    ASSUME NEW s, NEW p \in Nat, NEW open, Nests(s, p, open), NEW n \in 1 .. Len(open)
    PROVE  open[n] \in Nat /\ open[n] <= p /\ open[n] < p
<1>1. open[n] \in OpenIn(s, p)
  BY Zenon DEF Nests
<1>. QED BY <1>1 DEF OpenIn

LEMMA NestsPassed ==
    ASSUME NEW s, NEW p \in Nat, NEW open, Nests(s, p, open), ~OpensAt(s, p), ~ClosesAt(s, p)
    PROVE  Nests(s, p + 1, open)
<1>1. ASSUME NEW n \in 1 .. Len(open)
      PROVE  LevelIn(s, open[n], p + 1) = Len(open) - n + 1 /\ Len(open) - n + 1 > 0
  <2>1. open[n] \in Nat /\ open[n] <= p
    BY OpenIsBefore, Zenon
  <2>2. LevelIn(s, open[n], p + 1) = LevelIn(s, open[n], p)
    <3>1. LevelIn(s, open[n], p) \in Int /\ LevelIn(s, open[n], p + 1) = LevelIn(s, open[n], p) + Step(s, p)
      BY <2>1, LevelGoesOn, Zenon
    <3>. QED BY <3>1 DEF Step
  <2>. QED BY <2>2 DEF Nests
<1>2. ASSUME NEW b PROVE b \in OpenIn(s, p + 1) <=> \E n \in 1 .. Len(open) : open[n] = b
  <2>1. b \in OpenIn(s, p + 1) <=> b \in OpenIn(s, p) /\ LevelIn(s, b, p + 1) > 0
    BY OpenGoesOn, Zenon
  <2>2. b \in OpenIn(s, p) <=> \E n \in 1 .. Len(open) : open[n] = b
    BY DEF Nests
  <2>. QED BY <1>1, <2>1, <2>2
<1>. QED BY <1>1, <1>2 DEF Nests

LEMMA NestsOpened ==
    ASSUME NEW s, NEW p \in Nat, NEW open, Nests(s, p, open), OpensAt(s, p)
    PROVE  Nests(s, p + 1, Append(open, p))
<1>. DEFINE more == Append(open, p)
<1>1. open \in Seq(Nat) /\ Len(open) \in Nat
  BY DEF Nests
<1>2. /\ more \in Seq(Nat) /\ Len(more) = Len(open) + 1 /\ more[Len(open) + 1] = p
      /\ \A n \in 1 .. Len(open) : more[n] = open[n]
  BY <1>1
<1>. HIDE DEF more
<1>3. ASSUME NEW n \in 1 .. Len(more)
      PROVE  LevelIn(s, more[n], p + 1) = Len(more) - n + 1
  <2>1. CASE n = Len(open) + 1
    <3>1. LevelIn(s, p, p + 1) = 1
      BY OpeningCounts, Zenon
    <3>. QED BY <1>1, <1>2, <2>1, <3>1
  <2>2. CASE n # Len(open) + 1
    <3>0. n \in 1 .. Len(open) /\ more[n] = open[n]
      BY <1>1, <1>2, <2>2
    <3>1. open[n] \in Nat /\ open[n] <= p
      BY <3>0, OpenIsBefore
    <3>2. LevelIn(s, open[n], p + 1) = LevelIn(s, open[n], p) + 1
      <4>1. LevelIn(s, open[n], p) \in Int /\ LevelIn(s, open[n], p + 1) = LevelIn(s, open[n], p) + Step(s, p)
        BY <3>1, LevelGoesOn, Zenon
      <4>. QED BY <4>1 DEF Step
    <3>3. LevelIn(s, open[n], p) = Len(open) - n + 1
      BY <3>0 DEF Nests
    <3>. QED BY <1>1, <1>2, <3>0, <3>2, <3>3
  <2>. QED BY <2>1, <2>2
<1>4. ASSUME NEW n \in 1 .. Len(open) PROVE LevelIn(s, open[n], p + 1) > 0
  <2>1. n \in 1 .. Len(more) /\ more[n] = open[n]
    BY <1>1, <1>2
  <2>2. LevelIn(s, open[n], p + 1) = Len(more) - n + 1
    BY <1>3, <2>1
  <2>. QED BY <1>1, <1>2, <2>1, <2>2
<1>5. LevelIn(s, p, p + 1) > 0
  <2>1. LevelIn(s, p, p + 1) = 1
    BY OpeningCounts, Zenon
  <2>. QED BY <2>1
<1>6. ASSUME NEW b PROVE b \in OpenIn(s, p + 1) <=> \E n \in 1 .. Len(more) : more[n] = b
  <2>1. (\E n \in 1 .. Len(more) : more[n] = b) <=> b = p \/ \E n \in 1 .. Len(open) : open[n] = b
    <3>1. 1 .. Len(more) = (1 .. Len(open)) \cup {Len(open) + 1}
      BY <1>1, <1>2
    <3>. HIDE <1>1
    <3>. QED BY <1>2, <3>1, Zenon
  <2>2. b \in OpenIn(s, p) <=> \E n \in 1 .. Len(open) : open[n] = b
    BY DEF Nests
  <2>. QED BY <1>4, <1>5, <2>1, <2>2, OpenGoesOn
<1>7. \A m, n \in 1 .. Len(more) : m < n => more[m] < more[n]
  <2>1. ASSUME NEW m \in 1 .. Len(open) PROVE open[m] < p
    BY OpenIsBefore, Zenon
  <2>2. ASSUME NEW m \in 1 .. Len(more), NEW n \in 1 .. Len(more), m < n PROVE more[m] < more[n]
    <3>1. m \in 1 .. Len(open) /\ more[m] = open[m]
      BY <1>1, <1>2, <2>2
    <3>2. CASE n = Len(open) + 1
      BY <1>2, <2>1, <3>1, <3>2
    <3>3. CASE n # Len(open) + 1
      <4>1. n \in 1 .. Len(open) /\ more[n] = open[n]
        BY <1>1, <1>2, <3>3
      <4>. QED BY <2>2, <3>1, <4>1 DEF Nests
    <3>. QED BY <3>2, <3>3
  <2>. QED BY <2>2
<1>. QED BY <1>2, <1>3, <1>6, <1>7 DEF Nests, more

Fewer(open) == SubSeq(open, 1, Len(open) - 1)

LEMMA FewerIs ==
    ASSUME NEW open \in Seq(Nat)
    PROVE  /\ Fewer(open) \in Seq(Nat)
           /\ open = <<>> => Len(Fewer(open)) = 0
           /\ open # <<>> => Len(Fewer(open)) = Len(open) - 1
           /\ Len(Fewer(open)) \in 0 .. Len(open)
           /\ \A n \in 1 .. Len(Fewer(open)) : Fewer(open)[n] = open[n]
<1>1. Len(open) \in Nat /\ (open = <<>> <=> Len(open) = 0)
  OBVIOUS
<1>2. 1 \in 1 .. Len(open) + 1 /\ (Len(open) - 1 \in 1 - 1 .. Len(open) \/ open = <<>>)
  BY <1>1
<1>3. CASE open = <<>>
  <2>1. SubSeq(open, 1, Len(open) - 1) = <<>>
    BY <1>1, <1>3, SubSeqProperties
  <2>. QED BY <1>1, <1>3, <2>1 DEF Fewer
<1>4. CASE open # <<>>
  <2>1. /\ Fewer(open) \in Seq(Nat) /\ Len(Fewer(open)) = Len(open) - 1
        /\ \A n \in 1 .. Len(open) - 1 : Fewer(open)[n] = open[n]
    <3>. DEFINE N == Len(open) - 1
    <3>1. N \in Int /\ N \in Nat /\ 1 \in Int
      BY <1>1, <1>4
    <3>2. \A k \in 1 .. N : open[k] \in Nat
      BY <1>1
    <3>. HIDE DEF N
    <3>3. /\ SubSeq(open, 1, N) \in Seq(Nat)
          /\ Len(SubSeq(open, 1, N)) = IF 1 <= N THEN N - 1 + 1 ELSE 0
          /\ \A k \in 1 .. N - 1 + 1 : SubSeq(open, 1, N)[k] = open[1 + k - 1]
      BY <3>1, <3>2, SubSeqProperties, SMTT(30)
    <3>4. Len(SubSeq(open, 1, N)) = N
      BY <3>1, <3>3
    <3>5. ASSUME NEW k \in 1 .. N PROVE SubSeq(open, 1, N)[k] = open[k]
      <4>1. k \in 1 .. N - 1 + 1 /\ 1 + k - 1 = k
        BY <3>1
      <4>. QED BY <3>3, <4>1, Zenon
    <3>. QED BY <3>3, <3>4, <3>5 DEF Fewer, N
  <2>. QED BY <1>1, <1>4, <2>1
<1>. QED BY <1>3, <1>4

LEMMA NestsClosed ==
    ASSUME NEW s, NEW p \in Nat, NEW open, Nests(s, p, open), ClosesAt(s, p)
    PROVE  Nests(s, p + 1, Fewer(open))
<1>. DEFINE less == Fewer(open)
<1>1. open \in Seq(Nat) /\ Len(open) \in Nat
  BY DEF Nests
<1>2. /\ less \in Seq(Nat) /\ Len(less) \in 0 .. Len(open)
      /\ open = <<>> => Len(less) = 0
      /\ open # <<>> => Len(less) = Len(open) - 1
      /\ \A n \in 1 .. Len(less) : less[n] = open[n]
  BY <1>1, FewerIs
<1>. HIDE DEF less
<1>3. ASSUME NEW n \in 1 .. Len(open)
      PROVE  LevelIn(s, open[n], p + 1) = Len(open) - n
  <2>1. open[n] \in Nat /\ open[n] <= p
    BY OpenIsBefore, Zenon
  <2>2. LevelIn(s, open[n], p + 1) = LevelIn(s, open[n], p) + (-1)
    <3>1. LevelIn(s, open[n], p) \in Int /\ LevelIn(s, open[n], p + 1) = LevelIn(s, open[n], p) + Step(s, p)
      BY <2>1, LevelGoesOn, Zenon
    <3>. QED BY <3>1, OneBrace DEF Step
  <2>3. LevelIn(s, open[n], p) = Len(open) - n + 1
    BY DEF Nests
  <2>. QED BY <1>1, <2>2, <2>3
<1>4. ASSUME NEW b PROVE b \in OpenIn(s, p + 1) <=> \E n \in 1 .. Len(less) : less[n] = b
  <2>1. b \in OpenIn(s, p + 1) <=> b \in OpenIn(s, p) /\ LevelIn(s, b, p + 1) > 0
    BY OpenGoesOn, OneBrace, Zenon
  <2>2. b \in OpenIn(s, p) <=> \E n \in 1 .. Len(open) : open[n] = b
    BY DEF Nests
  <2>3. ASSUME NEW n \in 1 .. Len(less), less[n] = b PROVE b \in OpenIn(s, p + 1)
    <3>1. n \in 1 .. Len(open) /\ open[n] = b /\ open # <<>>
      BY <1>1, <1>2, <2>3
    <3>2. LevelIn(s, b, p + 1) = Len(open) - n
      BY <1>3, <3>1
    <3>. QED BY <1>1, <1>2, <2>1, <2>2, <3>1, <3>2
  <2>4. ASSUME b \in OpenIn(s, p + 1) PROVE \E n \in 1 .. Len(less) : less[n] = b
    <3>1. PICK n \in 1 .. Len(open) : open[n] = b
      BY <2>1, <2>2, <2>4
    <3>2. LevelIn(s, b, p + 1) = Len(open) - n /\ LevelIn(s, b, p + 1) > 0
      BY <1>3, <2>1, <2>4, <3>1
    <3>3. n \in 1 .. Len(less)
      BY <1>1, <1>2, <3>2
    <3>. QED BY <1>2, <3>1, <3>3
  <2>. QED BY <2>3, <2>4
<1>5. ASSUME NEW n \in 1 .. Len(less) PROVE LevelIn(s, less[n], p + 1) = Len(less) - n + 1
  <2>1. n \in 1 .. Len(open) /\ less[n] = open[n] /\ open # <<>>
    BY <1>1, <1>2
  <2>2. LevelIn(s, less[n], p + 1) = Len(open) - n
    BY <1>3, <2>1
  <2>. QED BY <1>1, <1>2, <2>1, <2>2
<1>6. ASSUME NEW m \in 1 .. Len(less), NEW n \in 1 .. Len(less), m < n PROVE less[m] < less[n]
  <2>0. ASSUME NEW k \in 1 .. Len(less) PROVE k \in 1 .. Len(open) /\ less[k] = open[k]
    BY <1>1, <1>2
  <2>1. /\ m \in 1 .. Len(open) /\ less[m] = open[m]
        /\ n \in 1 .. Len(open) /\ less[n] = open[n]
    BY <2>0
  <2>. QED BY <1>6, <2>1 DEF Nests
<1>. QED BY <1>2, <1>4, <1>5, <1>6 DEF Nests, less

\* Places that open and close nothing and name nothing.
Owned(s, l, b) == OpenersIn(s, l, b) # {}
OwnerIn(s, l, b) == IF Owned(s, l, b) THEN NameIn(s, l, Max(OpenersIn(s, l, b))) ELSE None
Names(s, l, p) == UnitOf(s, p) \in scope_openers(l) /\ NamedIn(s, l, p)
Quiet(s, l, p) == ~OpensAt(s, p) /\ ~ClosesAt(s, p) /\ ~Names(s, l, p)

MoreOpeners(s, l, p) == OpenersIn(s, l, p + 1) = OpenersIn(s, l, p) \cup {p}

LEMMA OpenersGoOn ==
    ASSUME NEW s, NEW l, NEW p \in Nat
    PROVE  /\ OpensAt(s, p) => ~Owned(s, l, p + 1)
           /\ ~OpensAt(s, p) /\ ~Names(s, l, p) => OpenersIn(s, l, p + 1) = OpenersIn(s, l, p)
           /\ ~OpensAt(s, p) /\ Names(s, l, p) => MoreOpeners(s, l, p)
<1>1. ASSUME NEW k \in 0 .. p
      PROVE  k .. (p + 1) - 1 = (k .. p - 1) \cup {p}
  OBVIOUS
<1>2. 0 .. (p + 1) - 1 = (0 .. p - 1) \cup {p} /\ p .. p - 1 = {} /\ \A k \in 0 .. p - 1 : k \in 0 .. p
  OBVIOUS
<1>3. ASSUME NEW k
      PROVE  k \in OpenersIn(s, l, p + 1) <=>
               ~OpensAt(s, p) /\ (k \in OpenersIn(s, l, p) \/ (k = p /\ Names(s, l, p)))
  <2>1. CASE k \in 0 .. p - 1
    <3>1. k # p /\ k \in 0 .. p
      BY <2>1
    <3>. QED BY <1>1, <1>2, <2>1, <3>1, Zenon DEF OpenersIn, Names
  <2>2. CASE k = p
    <3>1. k \notin 0 .. p - 1 /\ k \in 0 .. p
      BY <2>2
    <3>. QED BY <1>1, <1>2, <2>2, <3>1, Zenon DEF OpenersIn, Names
  <2>3. CASE k \notin 0 .. p - 1 /\ k # p
    BY <1>2, <2>3, Zenon DEF OpenersIn, Names
  <2>. QED BY <2>1, <2>2, <2>3
<1>4. OpensAt(s, p) => OpenersIn(s, l, p + 1) = {}
  BY <1>3
<1>5. ~OpensAt(s, p) /\ ~Names(s, l, p) => OpenersIn(s, l, p + 1) = OpenersIn(s, l, p)
  BY <1>3
<1>6. ~OpensAt(s, p) /\ Names(s, l, p) => OpenersIn(s, l, p + 1) = OpenersIn(s, l, p) \cup {p}
  BY <1>3
<1>. QED BY <1>4, <1>5, <1>6 DEF Owned, MoreOpeners

\* The word that an opening brace here would belong to.
LEMMA OwnerGoesOn ==
    ASSUME NEW s, NEW l, NEW p \in Nat
    PROVE  /\ OpensAt(s, p) => OwnerIn(s, l, p + 1) = None
           /\ ~OpensAt(s, p) /\ ~Names(s, l, p) => OwnerIn(s, l, p + 1) = OwnerIn(s, l, p)
           /\ ~OpensAt(s, p) /\ Names(s, l, p) => OwnerIn(s, l, p + 1) = NameIn(s, l, p)
<1>1. OpensAt(s, p) => OwnerIn(s, l, p + 1) = None
  BY OpenersGoOn, Zenon DEF OwnerIn
<1>2. ~OpensAt(s, p) /\ ~Names(s, l, p) => OwnerIn(s, l, p + 1) = OwnerIn(s, l, p)
  BY OpenersGoOn, Zenon DEF OwnerIn, Owned
<1>3. ASSUME ~OpensAt(s, p), Names(s, l, p) PROVE OwnerIn(s, l, p + 1) = NameIn(s, l, p)
  <2>. DEFINE S == OpenersIn(s, l, p + 1)
  <2>. HIDE DEF S
  <2>1. S = OpenersIn(s, l, p) \cup {p}
    <3>1. MoreOpeners(s, l, p)
      BY <1>3, OpenersGoOn, Zenon
    <3>. QED BY <3>1, Zenon DEF S, MoreOpeners
  <2>2. OpenersIn(s, l, p) \subseteq 0 .. p - 1
    BY Zenon DEF OpenersIn
  <2>3. S \in SUBSET (0 .. p) /\ p \in S /\ S # {}
    BY <2>1, <2>2
  <2>4. Max(S) \in S /\ \A n \in S : n <= Max(S)
    BY <2>3, LargestOf
  <2>5. Max(S) = p
    <3>. DEFINE m == Max(S)
    <3>1. m \in 0 .. p /\ p <= m
      BY <2>3, <2>4
    <3>. HIDE DEF m
    <3>2. m = p
      BY <3>1
    <3>. QED BY <3>2 DEF m
  <2>. QED BY <2>3, <2>5, Zenon DEF OwnerIn, Owned, S
<1>. QED BY <1>1, <1>2, <1>3

\* Containers stand for the open braces that a name belongs to, innermost last.
Entry(s, l, open, k, e) == e[1] = OwnerIn(s, l, open[k]) /\ e[2] = k - 1 /\ Owned(s, l, open[k])
Contained(s, l, open, stack) ==
    /\ \A n \in 1 .. Len(stack) : \E k \in 1 .. Len(open) : Entry(s, l, open, k, stack[n])
    /\ \A k \in 1 .. Len(open) :
         Owned(s, l, open[k]) => \E n \in 1 .. Len(stack) : Entry(s, l, open, k, stack[n])
    /\ \A m, n \in 1 .. Len(stack) : m < n => stack[m][2] < stack[n][2]

Innermost(stack) == IF stack = <<>> THEN None ELSE stack[Len(stack)][1]

LEMMA InnermostIsType ==
    ASSUME NEW s, NEW l, NEW p \in Nat, NEW open, NEW R, NEW stack \in Seq(R),
           Nests(s, p, open), Contained(s, l, open, stack)
    PROVE  Innermost(stack) = TypeIn(s, l, p)
<1>. DEFINE named == {b \in OpenIn(s, p) : Owned(s, l, b)}
            N == Len(stack)
<1>1. TypeIn(s, l, p) = IF named = {} THEN None ELSE OwnerIn(s, l, Max(named))
  <2>1. named = {b \in OpenIn(s, p) : OpenersIn(s, l, b) # {}}
    BY DEF Owned
  <2>2. CASE named = {}
    BY <2>1, <2>2, Zenon DEF TypeIn
  <2>3. CASE named # {}
    <3>1. named \in SUBSET (0 .. p)
      <4>1. OpenIn(s, p) \subseteq 0 .. p - 1
        BY Zenon DEF OpenIn
      <4>. QED BY <4>1
    <3>2. TypeIn(s, l, p) = NameIn(s, l, Max(OpenersIn(s, l, Max(named))))
      BY <2>1, <2>3, Zenon DEF TypeIn
    <3>3. Owned(s, l, Max(named))
      <4>1. Max(named) \in named
        <5>. HIDE DEF named
        <5>. QED BY <2>3, <3>1, LargestOf
      <4>. QED BY <4>1
    <3>. HIDE DEF named
    <3>. QED BY <2>3, <3>2, <3>3, Zenon DEF OwnerIn
  <2>. QED BY <2>2, <2>3
<1>2. \A b : b \in named <=> Owned(s, l, b) /\ \E k \in 1 .. Len(open) : open[k] = b
  BY DEF Nests
<1>3. N \in Nat /\ Len(open) \in Nat /\ (stack = <<>> <=> N = 0)
  BY DEF Nests
<1>4. named \in SUBSET (0 .. p)
  <2>1. OpenIn(s, p) \subseteq 0 .. p - 1
    BY Zenon DEF OpenIn
  <2>. QED BY <2>1
<1>. HIDE DEF named
<1>5. CASE stack = <<>>
  <2>1. named = {}
    BY <1>2, <1>3, <1>5 DEF Contained
  <2>. QED BY <1>1, <1>5, <2>1, Zenon DEF Innermost
<1>6. CASE stack # <<>>
  <2>1. N \in 1 .. N
    BY <1>3, <1>6
  <2>2. PICK k \in 1 .. Len(open) : Entry(s, l, open, k, stack[N])
    BY <2>1 DEF Contained
  <2>3. open[k] \in named /\ stack[N][1] = OwnerIn(s, l, open[k]) /\ stack[N][2] = k - 1
    BY <1>2, <2>2, Zenon DEF Entry
  <2>4. ASSUME NEW b \in named PROVE b <= open[k]
    <3>1. PICK m \in 1 .. Len(open) : open[m] = b
      BY <1>2, Zenon
    <3>2. Owned(s, l, open[m])
      BY <1>2, <3>1, Zenon
    <3>3. PICK n \in 1 .. N : Entry(s, l, open, m, stack[n])
      BY <3>2 DEF Contained
    <3>4. stack[n][2] = m - 1
      BY <3>3 DEF Entry
    <3>5. n = N \/ stack[n][2] < stack[N][2]
      <4>1. n = N \/ n < N
        BY <1>3
      <4>. QED BY <2>1, <4>1 DEF Contained
    <3>6. m <= k
      BY <1>3, <2>3, <3>4, <3>5
    <3>7. open[m] \in Nat /\ open[k] \in Nat /\ (m < k => open[m] < open[k])
      <4>1. open \in Seq(Nat) /\ (m < k => open[m] < open[k])
        BY Zenon DEF Nests
      <4>. QED BY <4>1
    <3>. QED BY <1>3, <3>1, <3>6, <3>7
  <2>5. Max(named) = open[k]
    <3>. DEFINE m == Max(named)
    <3>1. m \in named /\ \A n \in named : n <= m
      BY <1>4, <2>3, LargestOf
    <3>. HIDE DEF m
    <3>0. open[k] \in 0 .. p /\ m \in 0 .. p
      BY <1>4, <2>3, <3>1
    <3>2. m \in Int /\ open[k] \in Int /\ m <= open[k] /\ open[k] <= m
      BY <2>3, <2>4, <3>0, <3>1
    <3>3. m = open[k]
      BY <3>2
    <3>. QED BY <3>3 DEF m
  <2>. QED BY <1>1, <1>6, <2>3, <2>5 DEF Innermost
<1>. QED BY <1>5, <1>6

\* What OpenBelow leaves of a stack.
BelowIn(stack, depth) ==
    SubSeq(stack, 1, Max({0} \cup {n \in DOMAIN stack : stack[n][2] < depth}))

LEMMA BelowIs ==
    ASSUME NEW R, NEW stack \in Seq(R), NEW depth
    PROVE  LET less == BelowIn(stack, depth)
           IN  /\ less \in Seq(R) /\ Len(less) \in 0 .. Len(stack)
               /\ \A n \in 1 .. Len(less) : less[n] = stack[n]
               /\ \A n \in 1 .. Len(stack) : stack[n][2] < depth => n <= Len(less)
               /\ Len(less) # 0 => stack[Len(less)][2] < depth
<1>. DEFINE S == {0} \cup {n \in DOMAIN stack : stack[n][2] < depth}
            m == Max(S)
            less == SubSeq(stack, 1, m)
<1>1. Len(stack) \in Nat /\ S \in SUBSET (0 .. Len(stack)) /\ S # {}
  OBVIOUS
<1>2. m \in S /\ \A n \in S : n <= m
  <2>. HIDE DEF S
  <2>. QED BY <1>1, LargestOf
<1>3. BelowIn(stack, depth) = less
  BY Zenon DEF BelowIn
<1>4. \A n \in 1 .. Len(stack) : stack[n][2] < depth => n \in S
  OBVIOUS
<1>5. m # 0 => stack[m][2] < depth
  <2>. HIDE DEF m
  <2>. QED BY <1>2
<1>. HIDE DEF S, m
<1>6. m \in 0 .. Len(stack) /\ 1 \in Int /\ m \in Int
  BY <1>1, <1>2
<1>7. \A n \in 1 .. m : stack[n] \in R
  BY <1>1, <1>6
<1>8. /\ less \in Seq(R) /\ Len(less) = IF 1 <= m THEN m - 1 + 1 ELSE 0
      /\ \A n \in 1 .. m - 1 + 1 : less[n] = stack[1 + n - 1]
  BY <1>6, <1>7, SubSeqProperties, SMTT(30)
<1>9. Len(less) = m
  BY <1>6, <1>8
<1>10. ASSUME NEW n \in 1 .. m PROVE less[n] = stack[n]
  <2>1. n \in 1 .. m - 1 + 1 /\ 1 + n - 1 = n
    BY <1>6
  <2>. QED BY <1>8, <2>1, Zenon
<1>. HIDE DEF less
<1>11. \A n \in 1 .. Len(stack) : stack[n][2] < depth => n <= Len(less)
  BY <1>2, <1>4, <1>9
<1>. QED BY <1>3, <1>5, <1>6, <1>8, <1>9, <1>10, <1>11

LEMMA ContainedOpened ==
    ASSUME NEW s, NEW l, NEW p \in Nat, NEW open, Nests(s, p, open), NEW R, NEW stack \in Seq(R),
           Contained(s, l, open, stack), NEW e \in R
    PROVE  /\ ~Owned(s, l, p) => Contained(s, l, Append(open, p), stack)
           /\ Owned(s, l, p) /\ e[1] = OwnerIn(s, l, p) /\ e[2] = Len(open)
                => Contained(s, l, Append(open, p), Append(stack, e))
<1>. DEFINE more == Append(open, p)
            N == Len(open)
<1>1. N \in Nat /\ Len(more) = N + 1 /\ more[N + 1] = p /\ \A k \in 1 .. N : more[k] = open[k]
  BY DEF Nests
<1>. HIDE DEF more
<1>2. ASSUME NEW k \in 1 .. N, NEW f PROVE Entry(s, l, more, k, f) <=> Entry(s, l, open, k, f)
  BY <1>1, Zenon DEF Entry
<1>. HIDE DEF N
<1>3. /\ \A n \in 1 .. Len(stack) : \E k \in 1 .. N : Entry(s, l, more, k, stack[n])
      /\ \A k \in 1 .. N : Owned(s, l, more[k]) => \E n \in 1 .. Len(stack) : Entry(s, l, more, k, stack[n])
      /\ \A m, n \in 1 .. Len(stack) : m < n => stack[m][2] < stack[n][2]
  BY <1>1, <1>2, Zenon DEF Contained, N
<1>4. 1 .. Len(more) = (1 .. N) \cup {N + 1} /\ N + 1 \in 1 .. Len(more)
  BY <1>1
<1>5. ASSUME ~Owned(s, l, p) PROVE Contained(s, l, more, stack)
  <2>1. \A n \in 1 .. Len(stack) : \E k \in 1 .. Len(more) : Entry(s, l, more, k, stack[n])
    BY <1>3, <1>4
  <2>2. ASSUME NEW k \in 1 .. Len(more), Owned(s, l, more[k])
        PROVE  \E n \in 1 .. Len(stack) : Entry(s, l, more, k, stack[n])
    BY <1>1, <1>3, <1>4, <1>5, <2>2
  <2>. QED BY <1>3, <2>1, <2>2, Zenon DEF Contained
<1>6. ASSUME Owned(s, l, p), e[1] = OwnerIn(s, l, p), e[2] = N
      PROVE  Contained(s, l, more, Append(stack, e))
  <2>. DEFINE full == Append(stack, e)
              L == Len(stack)
  <2>1. L \in Nat /\ Len(full) = L + 1 /\ full[L + 1] = e /\ \A n \in 1 .. L : full[n] = stack[n]
    OBVIOUS
  <2>. HIDE DEF full, L
  <2>2. 1 .. Len(full) = (1 .. L) \cup {L + 1} /\ L + 1 \in 1 .. Len(full)
    BY <2>1
  <2>3. Entry(s, l, more, N + 1, full[L + 1])
    <3>. DEFINE K == N + 1
    <3>1. K - 1 = N /\ full[L + 1] = e /\ more[K] = p
      BY <1>1, <2>1
    <3>. HIDE DEF K
    <3>2. e[1] = OwnerIn(s, l, more[K]) /\ Owned(s, l, more[K]) /\ e[2] = K - 1
      BY <1>6, <3>1
    <3>3. Entry(s, l, more, K, e)
      BY <3>2, Zenon DEF Entry
    <3>. QED BY <3>1, <3>3, Zenon DEF K
  <2>4. ASSUME NEW n \in 1 .. Len(full)
        PROVE  \E k \in 1 .. Len(more) : Entry(s, l, more, k, full[n])
    BY <1>3, <1>4, <2>1, <2>2, <2>3 DEF L
  <2>5. ASSUME NEW k \in 1 .. Len(more), Owned(s, l, more[k])
        PROVE  \E n \in 1 .. Len(full) : Entry(s, l, more, k, full[n])
    <3>1. CASE k = N + 1
      BY <2>2, <2>3, <3>1
    <3>2. CASE k \in 1 .. N
      <4>1. PICK n \in 1 .. L : Entry(s, l, more, k, stack[n])
        BY <1>3, <2>5, <3>2 DEF L
      <4>. QED BY <2>1, <2>2, <4>1
    <3>. QED BY <1>4, <3>1, <3>2
  <2>6. ASSUME NEW m \in 1 .. Len(full), NEW n \in 1 .. Len(full), m < n
        PROVE  full[m][2] < full[n][2]
    <3>1. m \in 1 .. L /\ full[m] = stack[m]
      BY <2>1, <2>2, <2>6
    <3>2. CASE n = L + 1
      <4>1. PICK k \in 1 .. N : Entry(s, l, more, k, stack[m])
        BY <1>3, <3>1 DEF L
      <4>2. stack[m][2] = k - 1 /\ full[n][2] = N
        BY <1>6, <2>1, <3>2, <4>1 DEF Entry
      <4>. QED BY <1>1, <3>1, <4>1, <4>2
    <3>3. CASE n \in 1 .. L
      BY <1>3, <2>1, <2>6, <3>1, <3>3 DEF L
    <3>. QED BY <2>2, <3>2, <3>3
  <2>. QED BY <2>4, <2>5, <2>6, Zenon DEF Contained, full
<1>. QED BY <1>5, <1>6 DEF more, N

LEMMA ContainedClosed ==
    ASSUME NEW s, NEW l, NEW open \in Seq(Nat), NEW R, NEW stack \in Seq(R),
           Contained(s, l, open, stack)
    PROVE  Contained(s, l, Fewer(open), BelowIn(stack, Len(Fewer(open))))
<1>. DEFINE less == Fewer(open)
            N == Len(less)
            left == BelowIn(stack, N)
            L == Len(left)
<1>1. /\ N \in 0 .. Len(open) /\ Len(open) \in Nat
      /\ \A k \in 1 .. N : less[k] = open[k]
  BY FewerIs
<1>2. /\ L \in 0 .. Len(stack) /\ Len(stack) \in Nat
      /\ \A n \in 1 .. L : left[n] = stack[n]
      /\ \A n \in 1 .. Len(stack) : stack[n][2] < N => n <= L
      /\ L # 0 => stack[L][2] < N
  <2>. HIDE DEF N
  <2>. QED BY BelowIs
<1>. HIDE DEF N, L, left, less
<1>3. ASSUME NEW k \in 1 .. N, NEW f PROVE Entry(s, l, less, k, f) <=> Entry(s, l, open, k, f)
  BY <1>1, Zenon DEF Entry
<1>4. ASSUME NEW n \in 1 .. L PROVE n \in 1 .. Len(stack) /\ stack[n][2] < N
  <2>1. n \in 1 .. Len(stack) /\ L \in 1 .. Len(stack) /\ L # 0 /\ (n = L \/ n < L)
    BY <1>2
  <2>2. n = L \/ stack[n][2] < stack[L][2]
    BY <2>1 DEF Contained
  <2>3. PICK k \in 1 .. Len(open) : Entry(s, l, open, k, stack[n])
    BY <2>1 DEF Contained
  <2>4. PICK j \in 1 .. Len(open) : Entry(s, l, open, j, stack[L])
    BY <2>1 DEF Contained
  <2>5. stack[n][2] = k - 1 /\ stack[L][2] = j - 1
    BY <2>3, <2>4 DEF Entry
  <2>. QED BY <1>1, <1>2, <2>1, <2>2, <2>5
<1>5. ASSUME NEW n \in 1 .. L PROVE \E k \in 1 .. N : Entry(s, l, less, k, left[n])
  <2>1. n \in 1 .. Len(stack) /\ stack[n][2] < N
    BY <1>4
  <2>2. PICK k \in 1 .. Len(open) : Entry(s, l, open, k, stack[n])
    BY <2>1 DEF Contained
  <2>3. stack[n][2] = k - 1
    BY <2>2 DEF Entry
  <2>4. k \in 1 .. N
    BY <1>1, <2>1, <2>3
  <2>. QED BY <1>2, <1>3, <2>2, <2>4
<1>6. ASSUME NEW k \in 1 .. N, Owned(s, l, less[k]) PROVE \E n \in 1 .. L : Entry(s, l, less, k, left[n])
  <2>1. k \in 1 .. Len(open) /\ Owned(s, l, open[k])
    BY <1>1, <1>6
  <2>2. PICK n \in 1 .. Len(stack) : Entry(s, l, open, k, stack[n])
    BY <2>1 DEF Contained
  <2>3. stack[n][2] = k - 1
    BY <2>2 DEF Entry
  <2>4. n \in 1 .. L
    BY <1>1, <1>2, <2>3
  <2>. QED BY <1>2, <1>3, <2>2, <2>4
<1>7. ASSUME NEW m \in 1 .. L, NEW n \in 1 .. L, m < n PROVE left[m][2] < left[n][2]
  BY <1>2, <1>4, <1>7 DEF Contained
<1>. QED BY <1>5, <1>6, <1>7, Zenon DEF Contained, L, left, N, less

\* The name after a keyword is behind it, and only blanks and marks lie between.
Idle == {" ", NewLine, "*", "&"}

LEMMA FirstOf ==
    ASSUME NEW len \in Nat, NEW j \in 0 .. len, NEW T \in SUBSET (j .. len)
    PROVE  /\ Min({len} \cup T) \in j .. len
           /\ \A k \in j .. Min({len} \cup T) - 1 : k \notin T
<1>. DEFINE U == {len} \cup T
            m == Min(U)
<1>1. U \in SUBSET Nat /\ U \subseteq j .. len /\ U # {} /\ T \subseteq U
  OBVIOUS
<1>. HIDE DEF U
<1>2. m \in U /\ \A n \in U : m <= n
  BY <1>1, Smallest
<1>. HIDE DEF m
<1>3. m \in j .. len
  BY <1>1, <1>2
<1>4. \A k \in j .. m - 1 : k \notin T
  BY <1>1, <1>2, <1>3
<1>. QED BY <1>3, <1>4 DEF m, U

LEMMA SpacePassed ==
    ASSUME NEW s \in Seq(STRING), NEW j \in 0 .. Len(s)
    PROVE  /\ ForthWhile(s, j, IsSpace) \in j .. Len(s)
           /\ \A k \in j .. ForthWhile(s, j, IsSpace) - 1 : Ch(s, k) \in Idle
<1>. DEFINE T == {k \in j .. Len(s) - 1 : ~IsSpace(Ch(s, k))}
            m == Min({Len(s)} \cup T)
<1>1. Len(s) \in Nat /\ T \in SUBSET (j .. Len(s))
  OBVIOUS
<1>2. ForthWhile(s, j, IsSpace) = m
  BY Zenon DEF ForthWhile
<1>3. m \in j .. Len(s) /\ \A k \in j .. m - 1 : k \notin T
  <2>. HIDE DEF T
  <2>. QED BY <1>1, FirstOf
<1>. HIDE DEF m
<1>4. ASSUME NEW k \in j .. m - 1 PROVE Ch(s, k) \in Idle
  <2>1. k \in j .. Len(s) - 1
    BY <1>1, <1>3
  <2>2. IsSpace(Ch(s, k))
    BY <1>3, <2>1
  <2>. QED BY <2>2 DEF IsSpace, Idle
<1>. QED BY <1>2, <1>3, <1>4

LEMMA IdentPasses ==
    ASSUME NEW s \in Seq(STRING), NEW l, l # "Go", NEW j \in 0 .. Len(s)
    PROVE  /\ IdentIn(s, l, j) \in j .. Len(s)
           /\ \A k \in j .. IdentIn(s, l, j) - 1 : Ch(s, k) \in Idle
<1>. DEFINE receiver  == ForthWhile(s, j, IsSpace)
            name      == ForthWhile(s, receiver, IsSpace)
            T         == {k \in name .. Len(s) - 1 : Ch(s, k) \notin {"*", "&"}}
            modifiers == Min({Len(s)} \cup T)
            at        == ForthWhile(s, modifiers, IsSpace)
<1>1. IdentIn(s, l, j) = at
  BY Zenon DEF IdentIn, ForthWhile
<1>2. receiver \in j .. Len(s) /\ \A k \in j .. receiver - 1 : Ch(s, k) \in Idle
  BY SpacePassed, Zenon
<1>. HIDE DEF receiver
<1>3. receiver \in 0 .. Len(s)
  BY <1>2
<1>4. name \in receiver .. Len(s) /\ \A k \in receiver .. name - 1 : Ch(s, k) \in Idle
  BY <1>3, SpacePassed, Zenon
<1>. HIDE DEF name
<1>5. name \in 0 .. Len(s) /\ Len(s) \in Nat /\ T \in SUBSET (name .. Len(s))
  BY <1>3, <1>4
<1>6. modifiers \in name .. Len(s) /\ \A k \in name .. modifiers - 1 : k \notin T
  <2>. HIDE DEF T
  <2>. QED BY <1>5, FirstOf
<1>. HIDE DEF modifiers
<1>7. ASSUME NEW k \in name .. modifiers - 1 PROVE Ch(s, k) \in Idle
  <2>1. k \in name .. Len(s) - 1
    BY <1>5, <1>6
  <2>2. k \in T => Ch(s, k) \in Idle
    BY <1>6, Zenon
  <2>3. k \notin T => Ch(s, k) \in {"*", "&"}
    BY <2>1, Zenon
  <2>. HIDE DEF T
  <2>. QED BY <2>2, <2>3, Zenon DEF Idle
<1>8. modifiers \in 0 .. Len(s)
  BY <1>5, <1>6
<1>9. at \in modifiers .. Len(s) /\ \A k \in modifiers .. at - 1 : Ch(s, k) \in Idle
  BY <1>8, SpacePassed, Zenon
<1>. HIDE DEF at
<1>10. at \in j .. Len(s)
  BY <1>2, <1>4, <1>6, <1>9
<1>11. ASSUME NEW k \in j .. at - 1 PROVE Ch(s, k) \in Idle
  <2>1. \/ k \in j .. receiver - 1 \/ k \in receiver .. name - 1
        \/ k \in name .. modifiers - 1 \/ k \in modifiers .. at - 1
    BY <1>2, <1>4, <1>6, <1>9
  <2>. QED BY <1>2, <1>4, <1>7, <1>9, <2>1
<1>. QED BY <1>1, <1>10, <1>11

LEMMA NameIsString ==
    ASSUME NEW s \in Seq(STRING), NEW l, l # "Go", NEW k \in 0 .. Len(s) - 1, NamedIn(s, l, k)
    PROVE  NameIn(s, l, k) \in STRING
<1>. DEFINE at == IdentIn(s, l, k + 1)
<1>1. k + 1 \in 0 .. Len(s)
  OBVIOUS
<1>2. at \in k + 1 .. Len(s)
  BY <1>1, IdentPasses, Zenon
<1>3. at < Len(s) /\ (NameIn(s, l, k) = UnitOf(s, at) \/ NameIn(s, l, k) = NoName)
  BY Zenon DEF NamedIn, NameIn, BeginsIn, WordIn
<1>. HIDE DEF at
<1>4. at + 1 \in 1 .. Len(s)
  BY <1>2, <1>3
<1>5. UnitOf(s, at) = s[at + 1]
  BY <1>3, Zenon DEF UnitOf, Ch
<1>6. NoName \in STRING
  BY NoNameAssumption
<1>. QED BY <1>3, <1>4, <1>5, <1>6

\* What the scan has of the braces when it is at p: how many are open, the
\* containers, and the word that the next opening brace would belong to.
Follows(s, l, p, stack, pending, depth) ==
    \E open : /\ Nests(s, p, open) /\ depth = Len(open)
              /\ pending = OwnerIn(s, l, p) /\ Contained(s, l, open, stack)

LEMMA FollowsPassed ==
    ASSUME NEW s, NEW l, NEW p \in Nat, NEW stack, NEW pending, NEW depth,
           Follows(s, l, p, stack, pending, depth), ~OpensAt(s, p), ~ClosesAt(s, p)
    PROVE  /\ ~Names(s, l, p) => Follows(s, l, p + 1, stack, pending, depth)
           /\ Names(s, l, p) => Follows(s, l, p + 1, stack, NameIn(s, l, p), depth)
<1>1. PICK open : /\ Nests(s, p, open) /\ depth = Len(open)
                  /\ pending = OwnerIn(s, l, p) /\ Contained(s, l, open, stack)
  BY Zenon DEF Follows
<1>2. Nests(s, p + 1, open)
  BY <1>1, NestsPassed, Zenon
<1>. QED BY <1>1, <1>2, OwnerGoesOn, Zenon DEF Follows

LEMMA FollowsOn ==
    ASSUME NEW s, NEW l, NEW p \in Nat, NEW q \in Nat, p <= q, NEW stack, NEW pending, NEW depth,
           Follows(s, l, p, stack, pending, depth), \A k \in p .. q - 1 : Quiet(s, l, k)
    PROVE  Follows(s, l, q, stack, pending, depth)
<1>. DEFINE S == {k \in Nat : Follows(s, l, p + k, stack, pending, depth)}
            N == q - p
<1>1. N \in Nat /\ N \in 0 .. N /\ p + N = q
  OBVIOUS
<1>2. 0 \in S
  <2>1. p + 0 = p
    OBVIOUS
  <2>. QED BY <2>1, Zenon
<1>3. ASSUME NEW k \in 0 .. N - 1, k \in S PROVE k + 1 \in S
  <2>. DEFINE a == p + k
  <2>1. a \in Nat /\ a \in p .. q - 1 /\ a + 1 = p + (k + 1) /\ k + 1 \in Nat
    OBVIOUS
  <2>2. Follows(s, l, a, stack, pending, depth)
    BY <1>3
  <2>. HIDE DEF a
  <2>3. Follows(s, l, a + 1, stack, pending, depth)
    BY <2>1, <2>2, FollowsPassed, Zenon DEF Quiet
  <2>. QED BY <2>1, <2>3
<1>. HIDE DEF S, N
<1>4. N \in S
  BY <1>1, <1>2, <1>3, Onwards
<1>. QED BY <1>1, <1>4 DEF S

\* A name is not None.
LEMMA OwnedIs ==
    ASSUME NEW s \in Seq(STRING), NEW l, l # "Go", NEW b \in 0 .. Len(s)
    PROVE  Owned(s, l, b) <=> OwnerIn(s, l, b) # None
<1>1. CASE ~Owned(s, l, b)
  BY <1>1, Zenon DEF OwnerIn
<1>2. CASE Owned(s, l, b)
  <2>. DEFINE k == Max(OpenersIn(s, l, b))
  <2>0. OpenersIn(s, l, b) \subseteq 0 .. b - 1
    BY Zenon DEF OpenersIn
  <2>1. OpenersIn(s, l, b) \in SUBSET (0 .. b) /\ b \in Nat
    BY <2>0
  <2>2. k \in OpenersIn(s, l, b)
    BY <1>2, <2>1, LargestOf DEF Owned
  <2>3. NamedIn(s, l, k)
    BY <2>2, Zenon DEF OpenersIn
  <2>. HIDE DEF k
  <2>4. NameIn(s, l, k) # None
    <3>1. k \in 0 .. Len(s) - 1
      BY <2>0, <2>2
    <3>. QED BY <2>3, <3>1, NameIsString, NoneAssumption, Zenon
  <2>5. OwnerIn(s, l, b) = NameIn(s, l, k)
    BY <1>2, Zenon DEF OwnerIn, k
  <2>. QED BY <1>2, <2>4, <2>5
<1>. QED BY <1>1, <1>2

LEMMA FollowsOpened ==
    ASSUME NEW s \in Seq(STRING), NEW l, l # "Go", NEW p \in 0 .. Len(s), NEW R, NEW stack \in Seq(R),
           NEW pending, NEW depth, Follows(s, l, p, stack, pending, depth), OpensAt(s, p)
    PROVE  /\ pending = None => Follows(s, l, p + 1, stack, None, depth + 1)
           /\ pending # None /\ <<pending, depth>> \in R
                => Follows(s, l, p + 1, Append(stack, <<pending, depth>>), None, depth + 1)
<1>1. PICK open : /\ Nests(s, p, open) /\ depth = Len(open)
                  /\ pending = OwnerIn(s, l, p) /\ Contained(s, l, open, stack)
  BY Zenon DEF Follows
<1>. DEFINE more == Append(open, p)
<1>0. p \in Nat
  OBVIOUS
<1>2. Nests(s, p + 1, more) /\ OwnerIn(s, l, p + 1) = None
  BY <1>0, <1>1, NestsOpened, OwnerGoesOn, Zenon
<1>3. Len(more) = depth + 1
  BY <1>1 DEF Nests
<1>4. Owned(s, l, p) <=> pending # None
  BY <1>1, OwnedIs, Zenon
<1>5. ASSUME pending = None PROVE Follows(s, l, p + 1, stack, None, depth + 1)
  <2>1. Contained(s, l, more, stack) \/ R = {}
    <3>1. ASSUME NEW e \in R PROVE Contained(s, l, more, stack)
      BY <1>0, <1>1, <1>4, <1>5, ContainedOpened, Zenon
    <3>. QED BY <3>1
  <2>2. CASE R = {}
    <3>. DEFINE T == {0}
    <3>1. stack \in Seq(T) /\ 0 \in T
      BY <2>2
    <3>. HIDE DEF T
    <3>2. Contained(s, l, more, stack)
      BY <1>0, <1>1, <1>4, <1>5, <3>1, ContainedOpened, Zenon
    <3>. QED BY <1>2, <1>3, <3>2, Zenon DEF Follows
  <2>3. CASE Contained(s, l, more, stack)
    BY <1>2, <1>3, <2>3, Zenon DEF Follows
  <2>. QED BY <2>1, <2>2, <2>3
<1>6. ASSUME pending # None, <<pending, depth>> \in R
      PROVE  Follows(s, l, p + 1, Append(stack, <<pending, depth>>), None, depth + 1)
  <2>. DEFINE e == <<pending, depth>>
  <2>1. e[1] = OwnerIn(s, l, p) /\ e[2] = Len(open) /\ e \in R /\ Owned(s, l, p)
    BY <1>1, <1>4, <1>6
  <2>. HIDE DEF e
  <2>2. Contained(s, l, more, Append(stack, e))
    BY <1>0, <1>1, <2>1, ContainedOpened, Zenon
  <2>. QED BY <1>2, <1>3, <2>2, Zenon DEF Follows, e
<1>. QED BY <1>5, <1>6

Less(d) == Max({0, d - 1})
LEMMA LessIs ==
    ASSUME NEW d \in Nat
    PROVE  Less(d) = IF d = 0 THEN 0 ELSE d - 1
<1>. DEFINE T == {0, d - 1}
            m == Max(T)
            z == IF d = 0 THEN 0 ELSE d - 1
<1>1. z \in T /\ \A n \in T : z >= n
  OBVIOUS
<1>2. m \in T /\ \A n \in T : m >= n
  <2>. HIDE DEF T, z
  <2>. QED BY <1>1, Zenon DEF Max
<1>3. T \subseteq Int
  OBVIOUS
<1>. HIDE DEF T, m, z
<1>4. m \in Int /\ z \in Int /\ m >= z /\ z >= m
  BY <1>1, <1>2, <1>3
<1>5. m = z
  BY <1>4
<1>. QED BY <1>5 DEF m, z, T, Less

LEMMA FollowsClosed ==
    ASSUME NEW s, NEW l, NEW p \in Nat, NEW R, NEW stack \in Seq(R), NEW pending, NEW depth,
           Follows(s, l, p, stack, pending, depth), ClosesAt(s, p), ~Names(s, l, p)
    PROVE  Follows(s, l, p + 1, BelowIn(stack, Less(depth)), pending, Less(depth))
<1>1. PICK open : /\ Nests(s, p, open) /\ depth = Len(open)
                  /\ pending = OwnerIn(s, l, p) /\ Contained(s, l, open, stack)
  BY Zenon DEF Follows
<1>2. open \in Seq(Nat) /\ ~OpensAt(s, p)
  BY <1>1, OneBrace DEF Nests
<1>3. Nests(s, p + 1, Fewer(open)) /\ OwnerIn(s, l, p + 1) = OwnerIn(s, l, p)
  BY <1>1, <1>2, NestsClosed, OwnerGoesOn, Zenon
<1>4. Len(Fewer(open)) = Less(depth)
  <2>1. depth \in Nat /\ Less(depth) = IF depth = 0 THEN 0 ELSE depth - 1
    BY <1>1, <1>2, LessIs
  <2>2. /\ open = <<>> => Len(Fewer(open)) = 0
        /\ open # <<>> => Len(Fewer(open)) = Len(open) - 1
    BY <1>2, FewerIs, Zenon
  <2>. QED BY <1>1, <1>2, <2>1, <2>2
<1>5. Contained(s, l, Fewer(open), BelowIn(stack, Len(Fewer(open))))
  BY <1>1, <1>2, ContainedClosed, Zenon
<1>6. Contained(s, l, Fewer(open), BelowIn(stack, Less(depth)))
  BY <1>4, <1>5
<1>. QED BY <1>1, <1>3, <1>4, <1>6, Zenon DEF Follows

LEMMA FollowsType ==
    ASSUME NEW s, NEW l, NEW p \in Nat, NEW R, NEW stack \in Seq(R), NEW pending, NEW depth,
           Follows(s, l, p, stack, pending, depth)
    PROVE  Innermost(stack) = TypeIn(s, l, p)
BY InnermostIsType, Zenon DEF Follows

LEMMA FollowsFirst ==
    ASSUME NEW s, NEW l
    PROVE  Follows(s, l, 0, <<>>, None, 0)
<1>1. Nests(s, 0, <<>>)
  <2>1. OpenIn(s, 0) = {}
    BY DEF OpenIn
  <2>. QED BY <2>1 DEF Nests
<1>2. OwnerIn(s, l, 0) = None
  <2>1. OpenersIn(s, l, 0) = {}
    <3>1. OpenersIn(s, l, 0) \subseteq 0 .. 0 - 1
      BY Zenon DEF OpenersIn
    <3>2. 0 .. 0 - 1 = {}
      OBVIOUS
    <3>. QED BY <3>1, <3>2
  <2>. QED BY <2>1, Zenon DEF OwnerIn, Owned
<1>3. Contained(s, l, <<>>, <<>>) /\ Len(<<>>) = 0
  BY DEF Contained
<1>. QED BY <1>1, <1>2, <1>3, Zenon DEF Follows

-----------------------------------------------------------------------------
(* The turns of a plain text. *)

Families == {"Rust", "CLike", "Go", "Python", "JsTs", "JavaCSharp", "Ruby"}
OpenerWords == {"impl", "struct", "enum", "trait", "mod", "class", "namespace", "interface", "module"}

LEMMA OpenersAreWords ==
    ASSUME NEW l \in Families
    PROVE  scope_openers(l) \subseteq OpenerWords /\ scope_openers("Go") = {}
<1>1. scope_openers("Go") = {}
  BY DEF scope_openers
<1>2. l = "Rust" => scope_openers(l) \subseteq OpenerWords
  BY DEF scope_openers, OpenerWords
<1>3. l = "CLike" => scope_openers(l) \subseteq OpenerWords
  BY DEF scope_openers, OpenerWords
<1>4. l = "Python" => scope_openers(l) \subseteq OpenerWords
  BY DEF scope_openers, OpenerWords
<1>5. l = "JsTs" => scope_openers(l) \subseteq OpenerWords
  BY DEF scope_openers, OpenerWords
<1>6. l = "JavaCSharp" => scope_openers(l) \subseteq OpenerWords
  BY DEF scope_openers, OpenerWords
<1>7. l = "Ruby" => scope_openers(l) \subseteq OpenerWords
  BY DEF scope_openers, OpenerWords
<1>8. l = "Go" => scope_openers(l) \subseteq OpenerWords
  BY <1>1
<1>. QED BY <1>1, <1>2, <1>3, <1>4, <1>5, <1>6, <1>7, <1>8 DEF Families

\* What is no brace and no opener is passed over, and a word is no brace.
LEMMA QuietUnits ==
    ASSUME NEW s, NEW l \in Families, NEW k
    PROVE  /\ UnitOf(s, k) \in Idle => Quiet(s, l, k)
           /\ UnitOf(s, k) \in {"pub", "export", "public", "private", "protected"} => Quiet(s, l, k)
           /\ IsWord(UnitOf(s, k)) => ~OpensAt(s, k) /\ ~ClosesAt(s, k)
           /\ IsWord(UnitOf(s, k)) /\ UnitOf(s, k) \notin scope_openers(l) => Quiet(s, l, k)
           /\ UnitOf(s, k) \notin {"{", "}"} /\ ~IsWord(UnitOf(s, k)) => Quiet(s, l, k)
           /\ ClosesAt(s, k) => ~Names(s, l, k)
<1>. DEFINE u == UnitOf(s, k)
<1>1. u \in scope_openers(l) => u \in OpenerWords
  BY OpenersAreWords
<1>. HIDE DEF u
<1>2. u \in Idle => u \notin OpenerWords /\ u # "{" /\ u # "}"
  BY Zenon DEF Idle, NewLine, OpenerWords
<1>3. u \in {"pub", "export", "public", "private", "protected"} => u \notin OpenerWords /\ u # "{" /\ u # "}"
  BY Zenon DEF OpenerWords
<1>4. IsWord(u) => u # "{" /\ u # "}"
  BY Zenon DEF IsWord, Symbolic
<1>5. u = "}" => u \notin OpenerWords
  BY Zenon DEF OpenerWords
<1>6. u \in OpenerWords => IsWord(u)
  BY Zenon DEF OpenerWords, IsWord, Symbolic, Wide, Punctuation, NewLine
<1>. QED BY <1>1, <1>2, <1>3, <1>4, <1>5, <1>6, Zenon DEF Quiet, Names, OpensAt, ClosesAt, u

LEMMA NoQuoting ==
    ASSUME PlaceOK, Running, PlainIn(source, lang)
    PROVE  Here \notin Quoting
<1>1. i + 1 \in DOMAIN source /\ Here = source[i + 1]
  BY DEF PlaceOK, Running, Here, Unit, Ch
<1>2. \A n \in DOMAIN source : source[n] \notin Quoting
  BY Zenon DEF PlainIn
<1>. QED BY <1>1, <1>2

PlainTurn ==
    \/ NextLine \/ Dedent \/ Blank \/ OpenBrace \/ CloseBrace \/ Colon
    \/ VisibilityKeyword \/ Definition \/ Word \/ Other

LEMMA PlainTurns ==
    ASSUME PlaceOK, PlainIn(source, lang), [LexerNext]_vars
    PROVE  PlainTurn \/ UNCHANGED vars
<1>1. Running => Here \notin Quoting
  BY NoQuoting
<1>2. "#" \in Quoting /\ "/" \in Quoting /\ "dquote" \in Quoting /\ "squote" \in Quoting /\ "bquote" \in Quoting
  BY Zenon DEF Quoting
<1>3. ~LineComment
  BY <1>1, <1>2, Zenon DEF LineComment, Turn
<1>4. ~BlockComment
  BY <1>1, <1>2, Zenon DEF BlockComment, Turn
<1>5. ~TripleQuote
  BY <1>1, <1>2, Zenon DEF TripleQuote, Turn, IsTriple, Quoting
<1>6. ~String
  BY <1>1, <1>2, Zenon DEF String, Turn
<1>7. ~RustQuote
  BY <1>1, <1>2, Zenon DEF RustQuote, Turn
<1>. QED BY <1>3, <1>4, <1>5, <1>6, <1>7, Zenon DEF LexerNext, PlainTurn, Done

LEMMA WordFollows ==
    ASSUME PlaceOK, Running, lang \in Families, lang # "Go", IsWord(Here), Scope,
           Follows(source, lang, i, container_stack, pending_scope_opener, brace_depth)
    PROVE  Follows(source, lang, i + 1, container_stack', pending_scope_opener', brace_depth')
<1>1. i \in Nat /\ Here = UnitOf(source, i)
  BY TextIs DEF PlaceOK, Here
<1>2. ~OpensAt(source, i) /\ ~ClosesAt(source, i)
  BY <1>1, QuietUnits, Zenon
<1>3. container_stack' = container_stack /\ brace_depth' = brace_depth
  BY Zenon DEF Scope
<1>4. Peeked = IF NamedIn(source, lang, i) THEN NameIn(source, lang, i) ELSE pending_scope_opener
  BY TextIs, Zenon DEF Peeked, NamedIn, NameIn, BeginsIn
<1>5. CASE Names(source, lang, i)
  <2>1. pending_scope_opener' = NameIn(source, lang, i)
    BY <1>1, <1>4, <1>5, Zenon DEF Names, Scope
  <2>. QED BY <1>1, <1>2, <1>3, <1>5, <2>1, FollowsPassed, Zenon
<1>6. CASE ~Names(source, lang, i)
  <2>1. pending_scope_opener' = pending_scope_opener
    BY <1>1, <1>4, <1>6, Zenon DEF Names, Scope
  <2>. QED BY <1>1, <1>2, <1>3, <1>6, <2>1, FollowsPassed, Zenon
<1>. QED BY <1>5, <1>6

\* Where a definition goes on, and what is between it and its keyword.
LEMMA DefinitionPasses ==
    ASSUME PlaceOK, Definition, lang \in Families, lang # "Go", PlainIn(source, lang)
    PROVE  LET at == skip_to_ident(i + 1)
           IN  /\ i \in Nat /\ at \in i + 1 .. Len(source) /\ IsWord(Here) /\ Running
               /\ \A k \in i + 1 .. at - 1 : Quiet(source, lang, k)
               /\ i' = at \/ (i' = at + 1 /\ Quiet(source, lang, at) /\ IsWord(Unit(at)) /\ at < Len(source))
               /\ at < Len(source) /\ IsWord(Unit(at)) => i' = at + 1
<1>. DEFINE at == skip_to_ident(i + 1)
<1>1. /\ source \in Seq(STRING) /\ i \in 0 .. Len(source) - 1 /\ i + 1 \in 0 .. Len(source)
      /\ i \in Nat /\ Len(source) \in Nat
  BY DEF PlaceOK, Definition, WordTurn, Turn, Running
<1>2. IsWord(Here) /\ Running /\ Here \in def_keywords(lang)
  BY Zenon DEF Definition, WordTurn, Turn
<1>3. at = IdentIn(source, lang, i + 1)
  BY TextIs, Zenon
<1>4. at \in i + 1 .. Len(source) /\ \A k \in i + 1 .. at - 1 : Ch(source, k) \in Idle
  BY <1>1, <1>3, IdentPasses, Zenon
<1>5. i' = IF at < Len(source) /\ IsWord(Unit(at)) THEN at + 1 ELSE at
  BY Zenon DEF Definition, Skip
<1>. HIDE DEF at
<1>6. ASSUME NEW k \in i + 1 .. at - 1 PROVE Quiet(source, lang, k)
  <2>1. k < Len(source) /\ Ch(source, k) \in Idle
    BY <1>1, <1>4
  <2>2. UnitOf(source, k) \in Idle
    BY <2>1, Zenon DEF UnitOf
  <2>. QED BY <2>2, QuietUnits, Zenon
<1>7. ASSUME at < Len(source), IsWord(Unit(at)) PROVE Quiet(source, lang, at)
  <2>1. UnitOf(source, i) \in def_keywords(lang) /\ i \in 0 .. Len(source) - 1
    BY <1>1, <1>2, TextIs, Zenon DEF Here
  <2>2. NameIn(source, lang, i) \notin scope_openers(lang)
    BY <2>1, Zenon DEF PlainIn
  <2>3. UnitOf(source, at) \notin scope_openers(lang) /\ IsWord(UnitOf(source, at))
    BY <1>3, <1>7, <2>2, TextIs, Zenon DEF NameIn, WordIn
  <2>. QED BY <2>3, QuietUnits, Zenon
<1>. QED BY <1>1, <1>2, <1>4, <1>5, <1>6, <1>7 DEF at

LEMMA DefinitionFollows ==
    ASSUME PlaceOK, Definition, lang \in Families, lang # "Go", PlainIn(source, lang),
           Follows(source, lang, i, container_stack, pending_scope_opener, brace_depth)
    PROVE  LET at == skip_to_ident(i + 1)
           IN  /\ Follows(source, lang, at, container_stack, pending_scope_opener', brace_depth)
               /\ Follows(source, lang, i', container_stack', pending_scope_opener', brace_depth')
<1>. DEFINE at == skip_to_ident(i + 1)
<1>1. /\ i \in Nat /\ at \in i + 1 .. Len(source) /\ IsWord(Here) /\ Running
      /\ \A k \in i + 1 .. at - 1 : Quiet(source, lang, k)
      /\ i' = at \/ (i' = at + 1 /\ Quiet(source, lang, at))
  BY DefinitionPasses, Zenon
<1>2. Scope /\ container_stack' = container_stack /\ brace_depth' = brace_depth
  BY Zenon DEF Definition, Scope
<1>. HIDE DEF at
<1>3. i + 1 \in Nat /\ at \in Nat /\ i + 1 <= at
  BY <1>1 DEF PlaceOK
<1>4. Follows(source, lang, i + 1, container_stack', pending_scope_opener', brace_depth')
  BY <1>1, <1>2, WordFollows, Zenon
<1>5. Follows(source, lang, at, container_stack', pending_scope_opener', brace_depth')
  BY <1>1, <1>3, <1>4, FollowsOn, Zenon
<1>6. CASE i' = at
  BY <1>2, <1>5, <1>6, Zenon DEF at
<1>7. CASE i' = at + 1 /\ Quiet(source, lang, at)
  <2>1. Follows(source, lang, at + 1, container_stack', pending_scope_opener', brace_depth')
    BY <1>3, <1>5, <1>7, FollowsPassed, Zenon DEF Quiet
  <2>. QED BY <1>2, <1>5, <1>7, <2>1, Zenon DEF at
<1>. QED BY <1>1, <1>6, <1>7

LEMMA BracesFollow ==
    ASSUME PlaceOK, ScopesOK, lang \in Families, lang # "Go", ~indent_scoping(lang),
           PlainIn(source, lang), [LexerNext]_vars,
           Follows(source, lang, i, container_stack, pending_scope_opener, brace_depth)
    PROVE  Follows(source, lang, i', container_stack', pending_scope_opener', brace_depth')
<1>1. i \in Nat /\ Here = UnitOf(source, i) /\ source \in Seq(STRING) /\ i \in 0 .. Len(source)
  BY TextIs DEF PlaceOK, Here
<1>2. CASE NextLine \/ Blank \/ VisibilityKeyword \/ Other
  <2>1. /\ i' = i + 1 /\ container_stack' = container_stack /\ brace_depth' = brace_depth
        /\ pending_scope_opener' = pending_scope_opener
    BY <1>2, Zenon DEF NextLine, Blank, VisibilityKeyword, Other, Skip, scopes
  <2>2. Quiet(source, lang, i)
    <3>1. CASE NextLine \/ Blank
      <4>1. Here \in Idle
        BY <3>1, Zenon DEF NextLine, Blank, Idle
      <4>. QED BY <1>1, <4>1, QuietUnits, Zenon
    <3>2. CASE VisibilityKeyword
      <4>1. check_visibility(lang, Here) # None
        BY <3>2, Zenon DEF VisibilityKeyword
      <4>2. Here \in {"pub", "export", "public", "private", "protected"}
        BY <4>1 DEF check_visibility
      <4>. QED BY <1>1, <4>2, QuietUnits, Zenon
    <3>3. CASE Other
      <4>1. Here \notin {"{", "}"} /\ ~IsWord(Here)
        BY <3>3, Zenon DEF Other, StartsSomething
      <4>. QED BY <1>1, <4>1, QuietUnits, Zenon
    <3>. QED BY <1>2, <3>1, <3>2, <3>3
  <2>. QED BY <1>1, <2>1, <2>2, FollowsPassed, Zenon DEF Quiet
<1>3. CASE OpenBrace
  <2>1. /\ container_stack' = IF pending_scope_opener = None THEN container_stack
                               ELSE Append(container_stack, <<pending_scope_opener, brace_depth>>)
        /\ pending_scope_opener' = None /\ brace_depth' = brace_depth + 1 /\ i' = i + 1
        /\ OpensAt(source, i)
    BY <1>1, <1>3, Zenon DEF OpenBrace, Skip, OpensAt
  <2>. DEFINE R == Words \X Nat
  <2>2. container_stack \in Seq(R) /\ (pending_scope_opener # None => <<pending_scope_opener, brace_depth>> \in R)
    BY DEF ScopesOK
  <2>. HIDE DEF R
  <2>3. CASE pending_scope_opener = None
    <3>1. Follows(source, lang, i + 1, container_stack, None, brace_depth + 1)
      BY <1>1, <2>1, <2>2, <2>3, FollowsOpened, Zenon
    <3>. QED BY <2>1, <2>3, <3>1, Zenon
  <2>4. CASE pending_scope_opener # None
    <3>1. Follows(source, lang, i + 1, Append(container_stack, <<pending_scope_opener, brace_depth>>),
                  None, brace_depth + 1)
      BY <1>1, <2>1, <2>2, <2>4, FollowsOpened, Zenon
    <3>. QED BY <2>1, <2>4, <3>1, Zenon
  <2>. QED BY <2>3, <2>4
<1>4. CASE CloseBrace
  <2>1. /\ brace_depth' = Less(brace_depth) /\ container_stack' = BelowIn(container_stack, brace_depth')
        /\ pending_scope_opener' = pending_scope_opener /\ i' = i + 1 /\ ClosesAt(source, i)
    BY <1>1, <1>4, Zenon DEF CloseBrace, Skip, ClosesAt, Less, OpenBelow, BelowIn
  <2>. DEFINE R == Words \X Nat
  <2>2. container_stack \in Seq(R)
    BY DEF ScopesOK
  <2>. HIDE DEF R
  <2>3. ~Names(source, lang, i)
    BY <2>1, QuietUnits, Zenon
  <2>. QED BY <1>1, <2>1, <2>2, <2>3, FollowsClosed, Zenon
<1>5. CASE Dedent \/ Colon
  BY <1>5, Zenon DEF Dedent, Indenting, Colon
<1>6. CASE Word
  <2>1. Running /\ IsWord(Here) /\ Scope /\ i' = i + 1
    BY <1>6, Zenon DEF Word, WordTurn, Turn, Skip
  <2>. QED BY <2>1, WordFollows, Zenon
<1>7. CASE Definition
  BY <1>7, DefinitionFollows, Zenon
<1>8. CASE UNCHANGED vars
  <2>1. UNCHANGED <<i, container_stack, pending_scope_opener, brace_depth>>
    BY <1>8 DEF vars, place, scopes
  <2>. QED BY <2>1, Zenon
<1>9. PlainTurn \/ UNCHANGED vars
  BY PlainTurns, Zenon
<1>. QED BY <1>2, <1>3, <1>4, <1>5, <1>6, <1>7, <1>8, <1>9, Zenon DEF PlainTurn

\* Go has no containers.
GoFollows == container_stack = <<>> /\ pending_scope_opener = None

LEMMA GoStays ==
    ASSUME PlaceOK, lang = "Go", PlainIn(source, lang), [LexerNext]_vars, GoFollows
    PROVE  GoFollows'
<1>1. CASE NextLine \/ Blank \/ VisibilityKeyword \/ Other
  BY <1>1, Zenon DEF NextLine, Blank, VisibilityKeyword, Other, scopes, GoFollows
<1>2. CASE OpenBrace
  BY <1>2, Zenon DEF OpenBrace, GoFollows
<1>3. CASE CloseBrace
  <2>1. /\ container_stack' = BelowIn(container_stack, brace_depth')
        /\ pending_scope_opener' = pending_scope_opener
    BY <1>3, Zenon DEF CloseBrace, OpenBelow, BelowIn
  <2>2. container_stack \in Seq(Nat) /\ Len(container_stack) = 0
    BY DEF GoFollows
  <2>3. container_stack' \in Seq(Nat) /\ Len(container_stack') \in 0 .. Len(container_stack)
    BY <2>1, <2>2, BelowIs, Zenon
  <2>4. container_stack' = <<>>
    BY <2>2, <2>3
  <2>. QED BY <2>1, <2>4 DEF GoFollows
<1>4. CASE Dedent \/ Colon
  <2>1. ~indent_scoping(lang)
    BY DEF indent_scoping
  <2>. QED BY <1>4, <2>1, Zenon DEF Dedent, Indenting, Colon
<1>5. CASE Word \/ Definition
  <2>1. Scope
    BY <1>5, Zenon DEF Word, Definition
  <2>2. scope_openers(lang) = {}
    BY DEF scope_openers
  <2>. QED BY <2>1, <2>2, Zenon DEF Scope, GoFollows
<1>6. CASE UNCHANGED vars
  BY <1>6 DEF vars, scopes, GoFollows
<1>7. PlainTurn \/ UNCHANGED vars
  BY PlainTurns, Zenon
<1>. QED BY <1>1, <1>2, <1>3, <1>4, <1>5, <1>6, <1>7, Zenon DEF PlainTurn

LEMMA GoHasNoTypes == ASSUME NEW s, NEW p PROVE TypeIn(s, "Go", p) = None
<1>1. scope_openers("Go") = {}
  BY DEF scope_openers
<1>2. \A b : OpenersIn(s, "Go", b) = {}
  BY <1>1, Zenon DEF OpenersIn
<1>. QED BY <1>2, Zenon DEF TypeIn

\* Python: the containers are those of the levels above the margin, and at the
\* left margin there is none.
Levels(stack, depth) ==
    /\ \A n \in 1 .. Len(stack) : stack[n][2] \in 1 .. depth - 1
    /\ \A m, n \in 1 .. Len(stack) : m < n => stack[m][2] < stack[n][2]
AtMargin == i < Len(source) /\ i = line_start /\ ~py_at_line_start /\ IsWord(Unit(i))
MarginFollows ==
    /\ line_start <= i /\ Levels(container_stack, Len(indent_stack))
    /\ AtMargin => container_stack = <<>>

LEMMA LevelsBelow ==
    ASSUME NEW stack \in Seq(Words \X Nat), NEW depth \in Nat, NEW kept \in Nat, Levels(stack, depth)
    PROVE  Levels(BelowIn(stack, kept), kept) /\ (kept = 1 => BelowIn(stack, kept) = <<>>)
<1>. DEFINE R == Words \X Nat
            less == BelowIn(stack, kept)
            L == Len(less)
<1>1. /\ less \in Seq(R) /\ L \in 0 .. Len(stack) /\ Len(stack) \in Nat
      /\ \A n \in 1 .. L : less[n] = stack[n]
      /\ L # 0 => stack[L][2] < kept
  <2>1. stack \in Seq(R) /\ Len(stack) \in Nat
    OBVIOUS
  <2>. HIDE DEF R
  <2>. QED BY <2>1, BelowIs
<1>2. \A n \in 1 .. Len(stack) : stack[n][2] \in 1 .. depth - 1
  BY DEF Levels
<1>. HIDE DEF less, L, R
<1>3. ASSUME NEW n \in 1 .. L PROVE n \in 1 .. Len(stack) /\ stack[n][2] \in 1 .. kept - 1 /\ stack[n][2] < kept
  <2>1. n \in 1 .. Len(stack) /\ L \in 1 .. Len(stack) /\ (n = L \/ n < L) /\ L # 0
    BY <1>1
  <2>2. n = L \/ stack[n][2] < stack[L][2]
    BY <2>1 DEF Levels
  <2>3. stack[n][2] \in 1 .. depth - 1 /\ stack[L][2] \in 1 .. depth - 1
    BY <1>2, <2>1
  <2>. QED BY <1>1, <2>1, <2>2, <2>3
<1>4. ASSUME NEW n \in 1 .. L PROVE less[n][2] \in 1 .. kept - 1
  BY <1>1, <1>3
<1>5. ASSUME NEW m \in 1 .. L, NEW n \in 1 .. L, m < n PROVE less[m][2] < less[n][2]
  BY <1>1, <1>3, <1>5 DEF Levels
<1>6. kept = 1 => less = <<>>
  <2>1. ASSUME kept = 1, L # 0 PROVE FALSE
    <3>1. L \in 1 .. L
      BY <1>1, <2>1
    <3>2. stack[L][2] \in 1 .. kept - 1
      BY <1>3, <3>1
    <3>. QED BY <2>1, <3>2
  <2>. QED BY <1>1, <2>1 DEF L
<1>. QED BY <1>4, <1>5, <1>6, Zenon DEF Levels, less, L

\* A line does not begin behind the place the scan goes on from.
LEMMA LineBound ==
    ASSUME PlaceOK, line_start <= i, NEW to \in i .. Len(source), NEW counted \in SUBSET (0 .. to - 1),
           Skip(to, counted)
    PROVE  line_start' <= to /\ (counted = {} => line_start' = line_start)
<1>. DEFINE T == {line_start} \cup {n + 1 : n \in counted}
<1>1. line_start' = Max(T)
  BY Zenon DEF Skip, Line_
<1>2. to \in Nat /\ line_start \in 0 .. to /\ T \in SUBSET (0 .. to) /\ T # {}
  BY DEF PlaceOK
<1>3. counted = {} => T = {line_start}
  OBVIOUS
<1>. HIDE DEF T
<1>4. Max(T) \in T /\ Max(T) \in 0 .. to
  BY <1>2, LargestOf
<1>5. counted = {} => Max(T) = line_start
  BY <1>3, <1>4
<1>. QED BY <1>1, <1>4, <1>5

LEMMA PastTheMargin ==
    ASSUME PlaceOK, Running, line_start <= i, Skip(i + 1, {})
    PROVE  line_start' <= i' /\ ~AtMargin'
<1>1. i + 1 \in i .. Len(source) /\ {} \in SUBSET (0 .. i + 1 - 1)
  BY DEF PlaceOK, Running
<1>2. line_start' = line_start
  BY <1>1, LineBound
<1>3. i' = i + 1 /\ i \in Nat /\ line_start \in Nat
  BY DEF Skip, PlaceOK
<1>4. line_start' <= i' /\ i' # line_start'
  BY <1>2, <1>3
<1>. QED BY <1>4, Zenon DEF AtMargin

LEMMA DedentFollows ==
    ASSUME PlaceOK, ScopesOK, MarginFollows, Dedent
    PROVE  MarginFollows'
<1>. DEFINE T == {1} \cup {n \in 1 .. Len(indent_stack) : indent_stack[n] < i - line_start}
            kept == Max(T)
<1>1. /\ indent_stack' = SubSeq(indent_stack, 1, kept)
      /\ container_stack' = IF kept < Len(indent_stack) THEN OpenBelow(kept) ELSE container_stack
      /\ i' = i /\ line_start' = line_start
  BY Zenon DEF Dedent, place
<1>2. indent_stack # <<>> /\ Len(indent_stack) \in Nat /\ indent_stack \in Seq(Nat) /\ i \in Nat /\ line_start \in Nat
  BY DEF ScopesOK, PlaceOK, Dedent, Indenting
<1>3. T \in SUBSET (0 .. Len(indent_stack)) /\ T # {} /\ 1 \in T /\ 0 \notin T
  BY <1>2
<1>4. i = line_start => T = {1}
  <2>1. ASSUME i = line_start, NEW n \in 1 .. Len(indent_stack), indent_stack[n] < i - line_start PROVE FALSE
    <3>1. indent_stack[n] \in Nat /\ i - line_start = 0
      BY <1>2, <2>1
    <3>. QED BY <2>1, <3>1
  <2>. QED BY <2>1
<1>. HIDE DEF T
<1>5. kept \in T /\ \A n \in T : n <= kept
  BY <1>2, <1>3, LargestOf
<1>. HIDE DEF kept
<1>6. kept \in 1 .. Len(indent_stack) /\ kept \in Nat /\ (i = line_start => kept = 1)
  BY <1>2, <1>3, <1>4, <1>5
<1>7. Len(indent_stack') = kept
  BY <1>1, <1>2, <1>6, SubSeqProperties
<1>8. container_stack \in Seq(Words \X Nat) /\ Levels(container_stack, Len(indent_stack)) /\ line_start <= i
  BY Zenon DEF ScopesOK, MarginFollows
<1>9. Levels(container_stack', kept) /\ (kept = 1 => container_stack' = <<>>)
  <2>1. CASE kept < Len(indent_stack)
    <3>1. container_stack' = BelowIn(container_stack, kept)
      BY <1>1, <2>1, Zenon DEF OpenBelow, BelowIn
    <3>. QED BY <1>2, <1>6, <1>8, <3>1, LevelsBelow, Zenon
  <2>2. CASE ~(kept < Len(indent_stack))
    <3>1. kept = Len(indent_stack) /\ container_stack' = container_stack
      BY <1>1, <1>2, <1>6, <2>2
    <3>2. ASSUME kept = 1 PROVE container_stack = <<>>
      <4>. DEFINE L == Len(container_stack)
      <4>1. L \in Nat /\ (L = 0 => container_stack = <<>>)
        BY <1>8
      <4>2. ASSUME L # 0 PROVE FALSE
        <5>1. L \in 1 .. L
          BY <4>1, <4>2
        <5>2. container_stack[L][2] \in 1 .. kept - 1
          BY <1>8, <3>1, <5>1, Zenon DEF Levels
        <5>. QED BY <3>2, <5>2
      <4>. QED BY <4>1, <4>2
    <3>. QED BY <1>8, <3>1, <3>2
  <2>. QED BY <2>1, <2>2
<1>10. AtMargin' => container_stack' = <<>>
  <2>1. AtMargin' => i' = line_start'
    BY Zenon DEF AtMargin
  <2>. QED BY <1>1, <1>6, <1>9, <2>1
<1>. QED BY <1>1, <1>7, <1>8, <1>9, <1>10, Zenon DEF MarginFollows

LEMMA MarginStays ==
    ASSUME PlaceOK, ScopesOK, lang = "Python", PlainIn(source, lang), [LexerNext]_vars, MarginFollows
    PROVE  MarginFollows'
<1>0. /\ line_start <= i /\ i \in Nat /\ Levels(container_stack, Len(indent_stack))
      /\ indent_scoping(lang) /\ line_start \in Nat
  BY DEF MarginFollows, PlaceOK, indent_scoping
<1>1. CASE Blank \/ VisibilityKeyword \/ Other \/ Word
  <2>1. Running /\ Skip(i + 1, {}) /\ container_stack' = container_stack /\ indent_stack' = indent_stack
    BY <1>1, Zenon DEF Blank, VisibilityKeyword, Other, Word, WordTurn, Turn, scopes, Scope
  <2>. QED BY <1>0, <2>1, PastTheMargin, Zenon DEF MarginFollows
<1>2. CASE NextLine
  <2>1. /\ Running /\ Skip(i + 1, {i}) /\ container_stack' = container_stack /\ indent_stack' = indent_stack
        /\ i' = i + 1 /\ py_at_line_start' = (py_at_line_start \/ indent_scoping(lang))
    BY <1>2, Zenon DEF NextLine, Turn, Skip
  <2>2. i + 1 \in i .. Len(source) /\ {i} \in SUBSET (0 .. i + 1 - 1)
    BY <2>1 DEF PlaceOK, Running
  <2>3. line_start' <= i'
    BY <1>0, <2>1, <2>2, LineBound
  <2>. QED BY <1>0, <2>1, <2>3, Zenon DEF MarginFollows, AtMargin
<1>3. CASE OpenBrace \/ CloseBrace
  BY <1>0, <1>3, Zenon DEF OpenBrace, CloseBrace
<1>4. CASE Dedent
  BY <1>4, DedentFollows, Zenon
<1>5. CASE Colon
  <2>1. Running /\ Skip(i + 1, {})
    BY <1>5, Zenon DEF Colon, Turn
  <2>2. line_start' <= i' /\ ~AtMargin'
    BY <1>0, <2>1, PastTheMargin, Zenon
  <2>3. CASE pending_scope_opener = None
    <3>1. container_stack' = container_stack /\ indent_stack' = indent_stack
      BY <1>5, <2>3, Zenon DEF Colon
    <3>. QED BY <1>0, <2>2, <3>1, Zenon DEF MarginFollows
  <2>4. CASE pending_scope_opener # None
    <3>. DEFINE e == <<pending_scope_opener, Len(indent_stack)>>
                L == Len(container_stack)
                D == Len(indent_stack)
    <3>1. /\ container_stack' = Append(container_stack, e)
          /\ indent_stack' = Append(indent_stack, Last(indent_stack) + 1)
      BY <1>5, <2>4, Zenon DEF Colon
    <3>2. container_stack \in Seq(Words \X Nat) /\ indent_stack \in Seq(Nat) /\ L \in Nat /\ D \in Nat
      BY DEF ScopesOK
    <3>3. indent_stack # <<>> /\ D \in 1 .. D
      <4>1. indent_stack # <<>>
        BY <1>0, Zenon DEF ScopesOK
      <4>. QED BY <3>2, <4>1
    <3>4. Len(indent_stack') = D + 1
      BY <3>1, <3>2
    <3>5. e[2] = D
      OBVIOUS
    <3>. HIDE DEF e, Words
    <3>6. /\ Len(container_stack') = L + 1 /\ container_stack'[L + 1] = e
          /\ \A n \in 1 .. L : container_stack'[n] = container_stack[n]
      BY <3>1, <3>2
    <3>. HIDE DEF D, L
    <3>7. \A n \in 1 .. L : container_stack[n][2] \in 1 .. D - 1
      BY <1>0, Zenon DEF Levels, L, D
    <3>8. ASSUME NEW n \in 1 .. Len(container_stack')
          PROVE  container_stack'[n][2] \in 1 .. Len(indent_stack') - 1
      <4>1. CASE n = L + 1
        <5>1. container_stack'[n][2] = D
          BY <3>5, <3>6, <4>1
        <5>. QED BY <3>2, <3>3, <3>4, <5>1 DEF D
      <4>2. CASE n # L + 1
        <5>1. n \in 1 .. L
          BY <3>2, <3>6, <4>2 DEF L
        <5>2. container_stack'[n][2] \in 1 .. D - 1
          BY <3>6, <3>7, <5>1
        <5>. QED BY <3>2, <3>4, <5>2 DEF D
      <4>. QED BY <4>1, <4>2
    <3>9. ASSUME NEW m \in 1 .. Len(container_stack'), NEW n \in 1 .. Len(container_stack'), m < n
          PROVE  container_stack'[m][2] < container_stack'[n][2]
      <4>1. m \in 1 .. L
        BY <3>2, <3>6, <3>9 DEF L
      <4>2. container_stack'[m][2] = container_stack[m][2] /\ container_stack[m][2] \in 1 .. D - 1
        BY <3>6, <3>7, <4>1
      <4>3. CASE n = L + 1
        <5>1. container_stack'[n][2] = D
          BY <3>5, <3>6, <4>3
        <5>. QED BY <3>2, <4>2, <5>1 DEF D
      <4>4. CASE n # L + 1
        <5>1. n \in 1 .. L
          BY <3>2, <3>6, <4>4 DEF L
        <5>2. container_stack[m][2] < container_stack[n][2]
          BY <1>0, <3>9, <4>1, <5>1, Zenon DEF Levels, L
        <5>. QED BY <3>6, <4>2, <5>1, <5>2
      <4>. QED BY <4>3, <4>4
    <3>10. Levels(container_stack', Len(indent_stack'))
      BY <3>8, <3>9, Zenon DEF Levels
    <3>. QED BY <2>2, <3>10, Zenon DEF MarginFollows
  <2>. QED BY <2>3, <2>4
<1>6. CASE Definition
  <2>. DEFINE at == skip_to_ident(i + 1)
  <2>1. lang \in Families /\ lang # "Go"
    BY DEF Families
  <2>2. /\ at \in i + 1 .. Len(source) /\ i' \in {at, at + 1}
        /\ at < Len(source) /\ IsWord(Unit(at)) => i' = at + 1
    <3>1. /\ at \in i + 1 .. Len(source) /\ (i' = at \/ i' = at + 1)
          /\ at < Len(source) /\ IsWord(Unit(at)) => i' = at + 1
      BY <1>6, <2>1, DefinitionPasses, Zenon
    <3>. HIDE DEF at
    <3>. QED BY <3>1
  <2>3. /\ Skip(IF at < Len(source) /\ IsWord(Unit(at)) THEN at + 1 ELSE at, LinesIn(i, at))
        /\ container_stack' = container_stack /\ indent_stack' = indent_stack /\ source' = source
    BY <1>6, Zenon DEF Definition, Scope, Skip
  <2>. HIDE DEF at
  <2>4. line_start' <= at
    <3>. DEFINE C == LinesIn(i, at)
                U == {line_start} \cup {n + 1 : n \in C}
    <3>1. line_start' = Max(U)
      BY <2>3, Zenon DEF Skip, Line_
    <3>2. at \in Nat /\ U \in SUBSET (0 .. at) /\ U # {}
      <4>1. C \subseteq 0 .. at - 1
        BY <1>0, <2>2 DEF LinesIn, Newlines, PlaceOK
      <4>. HIDE DEF C
      <4>. QED BY <1>0, <2>2, <4>1 DEF PlaceOK
    <3>. HIDE DEF U
    <3>3. Max(U) \in 0 .. at
      BY <3>2, LargestOf
    <3>. QED BY <3>1, <3>2, <3>3
  <2>5. line_start' <= i' /\ at \in Nat /\ line_start' \in Nat
    <3>1. at \in Nat /\ Len(source) \in Nat
      BY <1>0, <2>2 DEF PlaceOK
    <3>2. PlaceOK'
      BY PlaceKept
    <3>. QED BY <2>2, <2>4, <3>1, <3>2 DEF PlaceOK
  <2>6. ASSUME AtMargin' PROVE FALSE
    <3>1. i' < Len(source) /\ i' = line_start' /\ IsWord(UnitOf(source, i'))
      BY <2>3, <2>6, Zenon DEF AtMargin, Unit, UnitOf
    <3>2. i' = at
      BY <2>2, <2>4, <2>5, <3>1
    <3>3. at < Len(source) /\ IsWord(Unit(at))
      BY <3>1, <3>2, TextIs, Zenon
    <3>4. i' = at + 1
      BY <2>2, <3>3, Zenon
    <3>. QED BY <2>5, <3>2, <3>4
  <2>. QED BY <1>0, <2>3, <2>5, <2>6, Zenon DEF MarginFollows
<1>7. CASE UNCHANGED vars
  BY <1>7 DEF vars, place, scopes, MarginFollows, AtMargin, Unit
<1>8. PlainTurn \/ UNCHANGED vars
  BY PlainTurns, Zenon
<1>. QED BY <1>1, <1>2, <1>3, <1>4, <1>5, <1>6, <1>7, <1>8, Zenon DEF PlainTurn

-----------------------------------------------------------------------------
(* The containers of a plain text, and the one a definition is put in. *)

TypesOK ==
    /\ lang \in LangFamily
    /\ PlainIn(source, lang) =>
         IF lang = "Python" THEN MarginFollows
         ELSE IF lang = "Go" THEN GoFollows
         ELSE Follows(source, lang, i, container_stack, pending_scope_opener, brace_depth)

LEMMA TypesAtFirst ==
    ASSUME LexerInit
    PROVE  TypesOK
<1>1. /\ lang \in LangFamily /\ i = 0 /\ line_start = 0 /\ brace_depth = 0 /\ container_stack = <<>>
      /\ pending_scope_opener = None /\ py_at_line_start = TRUE
  BY Zenon DEF LexerInit
<1>2. MarginFollows
  BY <1>1 DEF MarginFollows, Levels, AtMargin
<1>3. GoFollows
  BY <1>1 DEF GoFollows
<1>4. Follows(source, lang, i, container_stack, pending_scope_opener, brace_depth)
  BY <1>1, FollowsFirst
<1>. QED BY <1>1, <1>2, <1>3, <1>4 DEF TypesOK

LEMMA TypesKept ==
    ASSUME PlaceOK, ScopesOK, TypesOK, [LexerNext]_vars
    PROVE  TypesOK'
<1>1. source' = source /\ lang' = lang
  BY SourceStays
<1>2. lang \in LangFamily /\ lang \in Families
  BY SourcesAssumption DEF TypesOK, Families
<1>3. SUFFICES ASSUME PlainIn(source, lang)
               PROVE  IF lang = "Python" THEN MarginFollows'
                      ELSE IF lang = "Go" THEN GoFollows'
                      ELSE Follows(source, lang, i', container_stack', pending_scope_opener', brace_depth')
  BY <1>1, <1>2, Zenon DEF TypesOK
<1>4. CASE lang = "Python"
  BY <1>3, <1>4, MarginStays, Zenon DEF TypesOK
<1>5. CASE lang = "Go"
  <2>1. lang # "Python"
    BY <1>5
  <2>2. GoFollows
    BY <1>3, <1>5, <2>1, Zenon DEF TypesOK
  <2>3. GoFollows'
    BY <1>3, <1>5, <2>2, GoStays, Zenon
  <2>. QED BY <1>5, <2>1, <2>3, Zenon
<1>6. CASE lang # "Python" /\ lang # "Go"
  <2>1. ~indent_scoping(lang)
    BY <1>6 DEF indent_scoping
  <2>2. Follows(source, lang, i, container_stack, pending_scope_opener, brace_depth)
    BY <1>3, <1>6, Zenon DEF TypesOK
  <2>3. Follows(source, lang, i', container_stack', pending_scope_opener', brace_depth')
    BY <1>2, <1>3, <1>6, <2>1, <2>2, BracesFollow, Zenon
  <2>. QED BY <1>6, <2>3, Zenon
<1>. QED BY <1>4, <1>5, <1>6, Zenon

\* What a definition is filed under.
InType(s, l, col, container, at) ==
    PlainIn(s, l) => IF indent_scoping(l) THEN col = 0 => container = None
                     ELSE container = TypeIn(s, l, at)

LEMMA ContainerIsType ==
    ASSUME PlaceOK, ScopesOK, TypesOK, Definition
    PROVE  InType(source, lang, i - line_start, Container, skip_to_ident(i + 1))
<1>. DEFINE at == skip_to_ident(i + 1)
<1>1. SUFFICES ASSUME PlainIn(source, lang)
               PROVE  IF indent_scoping(lang) THEN i - line_start = 0 => Container = None
                      ELSE Container = TypeIn(source, lang, at)
  BY Zenon DEF InType
<1>2. lang \in Families
  BY SourcesAssumption DEF TypesOK, Families
<1>3. /\ Running /\ IsWord(Here) /\ ~Indenting
  BY Zenon DEF Definition, WordTurn, Turn
<1>4. CASE lang = "Python"
  <2>1. indent_scoping(lang)
    BY <1>4 DEF indent_scoping
  <2>2. ~IsSpace(Here) /\ Here # "#"
    BY <1>3, Zenon DEF IsSpace, IsWord, Symbolic, Punctuation, NewLine
  <2>3. ~py_at_line_start
    BY <1>3, <2>1, <2>2, Zenon DEF Indenting
  <2>4. ASSUME i - line_start = 0 PROVE Container = None
    <3>1. i = line_start
      BY <2>4 DEF PlaceOK
    <3>2. MarginFollows
      BY <1>1, <1>4, Zenon DEF TypesOK
    <3>3. container_stack = <<>>
      BY <1>3, <2>3, <3>1, <3>2, Zenon DEF MarginFollows, AtMargin, Running, Here
    <3>. QED BY <3>3, Zenon DEF Container
  <2>. QED BY <2>1, <2>4, Zenon
<1>5. CASE lang = "Go"
  <2>1. ~indent_scoping(lang) /\ lang # "Python"
    BY <1>5 DEF indent_scoping
  <2>2. container_stack = <<>>
    BY <1>1, <1>5, <2>1, Zenon DEF TypesOK, GoFollows
  <2>3. TypeIn(source, lang, at) = None
    BY <1>5, GoHasNoTypes, Zenon
  <2>. QED BY <2>1, <2>2, <2>3, Zenon DEF Container
<1>6. CASE lang # "Python" /\ lang # "Go"
  <2>1. ~indent_scoping(lang)
    BY <1>6 DEF indent_scoping
  <2>2. Follows(source, lang, i, container_stack, pending_scope_opener, brace_depth)
    BY <1>1, <1>6, Zenon DEF TypesOK
  <2>3. Follows(source, lang, at, container_stack, pending_scope_opener', brace_depth)
    BY <1>1, <1>2, <1>6, <2>2, DefinitionFollows, Zenon
  <2>4. at \in Nat
    <3>1. at \in i + 1 .. Len(source) /\ i \in Nat
      BY <1>1, <1>2, <1>6, DefinitionPasses, Zenon
    <3>. HIDE DEF at
    <3>. QED BY <3>1
  <2>5. Innermost(container_stack) = TypeIn(source, lang, at)
    <3>. DEFINE R == Words \X Nat
    <3>1. container_stack \in Seq(R)
      BY DEF ScopesOK
    <3>. HIDE DEF R
    <3>. QED BY <2>3, <2>4, <3>1, FollowsType, Zenon
  <2>6. Container = Innermost(container_stack)
    BY Zenon DEF Container, Innermost, Last
  <2>. QED BY <2>1, <2>5, <2>6, Zenon
<1>. QED BY <1>4, <1>5, <1>6, Zenon

-----------------------------------------------------------------------------
(* What a turn writes down. *)

Line == [line : Nat, line_start : 0 .. Len(source)]
Keyword == Token("DefKeyword", i, CurrentLine)

\* A keyword without a name, a keyword with one, another word.
KeywordOnly == tokens' = Append(tokens, Keyword) /\ UNCHANGED <<occurrences, def_contexts>>
Named(at, on, context) ==
    /\ tokens' = Append(Append(tokens, Keyword), Token("Ident", at, on))
    /\ occurrences' = Append(occurrences, Occurrence(at, "Definition", on))
    /\ def_contexts' = Append(def_contexts, context)
Mentioned ==
    occurrences' = Append(occurrences, Occurrence(i, "Reference", CurrentLine))
    /\ UNCHANGED <<tokens, def_contexts>>

\* A line that is the right one for a place is so for the word at it.
LEMMA SameLine ==
    ASSUME source \in Seq(STRING), NEW at \in 0 .. Len(source) - 1, Unit(at) # NewLine
    PROVE  /\ LineNumber(source, at + 1) = LineNumber(source, at)
           /\ LineStart(source, at + 1) = LineStart(source, at)
<1>1. Ch(source, at) # NewLine /\ at \in Nat
  BY DEF Unit
<1>2. {n \in Newlines(source) : n < at + 1} = {n \in Newlines(source) : n < at}
  <2>1. \A n \in Newlines(source) : n \in Int /\ n # at
    BY <1>1 DEF Newlines
  <2>. QED BY <1>1, <2>1
<1>. QED BY <1>2, Zenon DEF LineNumber, LineStart

LEMMA ContainerIs ==
    ASSUME ScopesOK
    PROVE  Container \in Words \cup {None}
<1>1. CASE container_stack = <<>>
  BY <1>1 DEF Container
<1>2. CASE container_stack # <<>>
  <2>1. Last(container_stack) \in Words \X Nat
    BY <1>2 DEF ScopesOK, Last
  <2>. QED BY <1>2, <2>1 DEF Container
<1>. QED BY <1>1, <1>2

LEMMA DefinitionWrites ==
    ASSUME PlaceOK, ScopesOK, Definition
    PROVE  \/ KeywordOnly
           \/ \E at \in 0 .. Len(source) - 1, on \in Line, context \in Contexts :
                /\ WordAt(at) \in Words /\ Named(at, on, context)
                /\ ~drifted' => on.line = LineNumber(source, at) /\ on.line_start = LineStart(source, at)
                /\ TypesOK => InType(source, lang, Keyword.col, context.container, at)
<1>. DEFINE at == skip_to_ident(i + 1)
            found == at < Len(source) /\ IsWord(Unit(at))
            named == NameBegins(at) /\ WordAt(at) \notin noise_words(lang)
            on == [line |-> line', line_start |-> line_start']
            visibility == IF pending_visibility # None THEN pending_visibility ELSE default_visibility(lang)
            context == [visibility |-> visibility, container |-> Container, depth |-> brace_depth]
<1>1. /\ Skip(IF found THEN at + 1 ELSE at, LinesIn(i, at))
      /\ tokens' = tokens \o <<Keyword>> \o (IF named THEN <<Token("Ident", at, on)>> ELSE <<>>)
      /\ def_contexts' = IF ~named THEN def_contexts ELSE Append(def_contexts, context)
      /\ occurrences' = IF ~named THEN occurrences ELSE Append(occurrences, Occurrence(at, "Definition", on))
  BY DEF Definition, Keyword
<1>2. source \in Seq(STRING) /\ i \in 0 .. Len(source) - 1 /\ Len(source) \in Nat
  BY DEF PlaceOK, Definition, WordTurn, Turn, Running
<1>3. at \in i + 1 .. Len(source)
  BY <1>2, IdentTurn
<1>4. context \in Contexts
  <2>1. visibility \in {"Public", "Private", "Unknown"}
    BY DEF ScopesOK, default_visibility
  <2>. HIDE DEF visibility
  <2>. QED BY <2>1, ContainerIs DEF ScopesOK, Contexts
<1>5. PlaceOK'
  BY PlaceKept DEF LexerNext
<1>6. on \in Line /\ source' = source
  BY <1>1, <1>5 DEF PlaceOK, Line, Skip
<1>9. TypesOK => InType(source, lang, Keyword.col, context.container, at)
  <2>1. Keyword.col = i - line_start /\ context.container = Container
    BY DEF Keyword, Token, CurrentLine
  <2>. HIDE DEF at, context
  <2>2. SUFFICES ASSUME TypesOK PROVE InType(source, lang, i - line_start, Container, at)
    BY <2>1, Zenon
  <2>. QED BY <2>2, ContainerIsType, Zenon DEF at
<1>. HIDE DEF at, context
<1>7. CASE ~named
  BY <1>1, <1>7 DEF KeywordOnly
<1>8. CASE named
  <2>1. at \in 0 .. Len(source) - 1 /\ at \in Nat /\ WordAt(at) \in Words /\ Unit(at) # NewLine
    <3>1. at \in Nat /\ at < Len(source) /\ is_ident_start_byte(Unit(at))
      BY <1>2, <1>3, <1>8 DEF NameBegins
    <3>. QED BY <1>2, <3>1, WordTaken
  <2>2. i' = at + 1 \/ i' = at
    BY <1>1 DEF Skip
  <2>3. ASSUME ~drifted'
        PROVE  on.line = LineNumber(source, at) /\ on.line_start = LineStart(source, at)
    <3>1. line' = LineNumber(source, i') /\ line_start' = LineStart(source, i')
      BY <1>5, <1>6, <2>3 DEF PlaceOK
    <3>2. /\ LineNumber(source, at + 1) = LineNumber(source, at)
          /\ LineStart(source, at + 1) = LineStart(source, at)
      BY <1>2, <2>1, SameLine
    <3>. QED BY <2>2, <3>1, <3>2
  <2>4. tokens' = tokens \o <<Keyword>> \o <<Token("Ident", at, on)>>
    BY <1>1, <1>8
  <2>5. /\ def_contexts' = Append(def_contexts, context)
        /\ occurrences' = Append(occurrences, Occurrence(at, "Definition", on))
    BY <1>1, <1>8
  <2>. HIDE DEF on
  <2>6. tokens' = Append(Append(tokens, Keyword), Token("Ident", at, on))
    BY <2>4
  <2>7. Named(at, on, context)
    BY <2>5, <2>6 DEF Named
  <2>. QED BY <1>4, <1>6, <1>9, <2>1, <2>3, <2>7
<1>. QED BY <1>7, <1>8

LEMMA TurnWrites ==
    ASSUME PlaceOK, ScopesOK, [LexerNext]_vars
    PROVE  \/ UNCHANGED output
           \/ Definition
           \/ Mentioned /\ Running /\ WordAt(i) \in Words
<1>1. CASE Word
  <2>1. Mentioned /\ Running /\ IsWord(Unit(i))
    BY <1>1 DEF Word, WordTurn, Turn, Here, Mentioned
  <2>2. i \in Nat /\ i < Len(source) /\ source \in Seq(STRING)
    BY <2>1 DEF Running, PlaceOK
  <2>. QED BY <2>1, <2>2, WordTaken
<1>2. CASE UNCHANGED vars
  BY <1>2 DEF vars
<1>. QED BY <1>1, <1>2 DEF LexerNext, NextLine, Blank, LineComment, BlockComment, TripleQuote, String,
     RustQuote, OpenBrace, CloseBrace, Colon, VisibilityKeyword, Other, Dedent, Done

LEMMA WritesAreTyped ==
    ASSUME PlaceOK, NEW at \in 0 .. Len(source) - 1, WordAt(at) \in Words, NEW on \in Line
    PROVE  /\ \A kind \in {"DefKeyword", "Ident"} : Token(kind, at, on) \in Tokens
           /\ \A role \in {"Definition", "Reference"} : Occurrence(at, role, on) \in Occurrences
<1>1. Len(source) \in Nat /\ on.line \in Nat /\ at - on.line_start \in Int
  BY DEF PlaceOK, Line
<1>2. ASSUME NEW kind \in {"DefKeyword", "Ident"} PROVE Token(kind, at, on) \in Tokens
  BY <1>1 DEF Token, Tokens
<1>3. ASSUME NEW role \in {"Definition", "Reference"} PROVE Occurrence(at, role, on) \in Occurrences
  BY <1>1 DEF Occurrence, Occurrences
<1>. QED BY <1>2, <1>3

LEMMA CurrentLineIs == PlaceOK => CurrentLine \in Line
BY DEF PlaceOK, CurrentLine, Line

LEMMA KeywordIs ==
    ASSUME PlaceOK, Definition
    PROVE  Keyword \in Tokens /\ Keyword.kind = "DefKeyword"
<1>1. i \in 0 .. Len(source) - 1 /\ IsWord(Unit(i)) /\ source \in Seq(STRING)
  BY DEF PlaceOK, Definition, WordTurn, Turn, Running, Here
<1>2. WordAt(i) \in Words
  BY <1>1, WordTaken
<1>. QED BY <1>1, <1>2, CurrentLineIs, WritesAreTyped DEF Keyword, Token

LEMMA OutputKept ==
    ASSUME PlaceOK, ScopesOK, OutputOK, [LexerNext]_vars
    PROVE  OutputOK'
<1>1. source' = source /\ Occurrences' = Occurrences /\ Contexts' = Contexts /\ Tokens' = Tokens
  BY SourceStays DEF Occurrences, Contexts, Tokens
<1>. HIDE DEF Tokens, Occurrences, Contexts
<1>2. CASE UNCHANGED output
  BY <1>1, <1>2 DEF OutputOK, output
<1>3. CASE Definition
  <2>1. Keyword \in Tokens
    BY <1>3, KeywordIs
  <2>2. CASE KeywordOnly
    BY <1>1, <2>1, <2>2, AppendProperties DEF OutputOK, KeywordOnly
  <2>3. ASSUME NEW at \in 0 .. Len(source) - 1, NEW on \in Line, NEW context \in Contexts,
               WordAt(at) \in Words, Named(at, on, context)
        PROVE  OutputOK'
    <3>1. Token("Ident", at, on) \in Tokens /\ Occurrence(at, "Definition", on) \in Occurrences
      BY <2>3, WritesAreTyped
    <3>2. tokens' \in Seq(Tokens)
      BY <2>1, <2>3, <3>1, AppendProperties DEF OutputOK, Named
    <3>3. occurrences' \in Seq(Occurrences) /\ def_contexts' \in Seq(Contexts)
      BY <2>3, <3>1, AppendProperties DEF OutputOK, Named
    <3>. QED BY <1>1, <3>2, <3>3 DEF OutputOK
  <2>. QED BY <1>3, <2>2, <2>3, DefinitionWrites
<1>4. CASE Mentioned /\ Running /\ WordAt(i) \in Words
  <2>1. i \in 0 .. Len(source) - 1
    BY <1>4 DEF PlaceOK, Running
  <2>2. Occurrence(i, "Reference", CurrentLine) \in Occurrences
    BY <1>4, <2>1, CurrentLineIs, WritesAreTyped
  <2>. QED BY <1>1, <1>4, <2>2, AppendProperties DEF OutputOK, Mentioned
<1>. QED BY <1>2, <1>3, <1>4, TurnWrites

LEMMA PositionsKept ==
    ASSUME PlaceOK, ScopesOK, OutputOK, PositionsOK, [LexerNext]_vars
    PROVE  PositionsOK'
<1>1. source' = source /\ (~drifted' => ~drifted)
  BY SourceStays
<1>2. SUFFICES ASSUME ~drifted', NEW n \in DOMAIN occurrences' PROVE RightPlace(occurrences'[n])
  BY <1>1 DEF PositionsOK, RightPlace
<1>3. ~drifted /\ \A m \in DOMAIN occurrences : RightPlace(occurrences[m])
  BY <1>1, <1>2 DEF PositionsOK
<1>4. ASSUME NEW o, RightPlace(o), occurrences' = Append(occurrences, o)
      PROVE  RightPlace(occurrences'[n])
  <2>. HIDE DEF RightPlace, Occurrences
  <2>1. occurrences \in Seq(Occurrences) /\ Len(occurrences) \in Nat
    BY DEF OutputOK
  <2>2. n \in 1 .. Len(occurrences) + 1
    BY <1>2, <1>4, <2>1
  <2>3. CASE n = Len(occurrences) + 1
    BY <1>4, <2>1, <2>3
  <2>4. CASE n # Len(occurrences) + 1
    <3>1. n \in DOMAIN occurrences /\ occurrences'[n] = occurrences[n]
      BY <1>4, <2>1, <2>2, <2>4
    <3>. QED BY <1>3, <3>1
  <2>. QED BY <2>3, <2>4
<1>5. CASE UNCHANGED output
  BY <1>2, <1>3, <1>5 DEF output
<1>6. CASE Definition
  <2>1. CASE KeywordOnly
    BY <1>2, <1>3, <2>1 DEF KeywordOnly
  <2>2. ASSUME NEW at \in 0 .. Len(source) - 1, NEW on \in Line, NEW context \in Contexts,
               Named(at, on, context),
               on.line = LineNumber(source, at), on.line_start = LineStart(source, at)
        PROVE  RightPlace(occurrences'[n])
    <3>1. RightPlace(Occurrence(at, "Definition", on))
      BY <2>2 DEF RightPlace, Occurrence
    <3>. QED BY <1>4, <2>2, <3>1 DEF Named
  <2>. QED BY <1>2, <1>6, <2>1, <2>2, DefinitionWrites
<1>7. CASE Mentioned
  <2>1. RightPlace(Occurrence(i, "Reference", CurrentLine))
    BY <1>3 DEF RightPlace, Occurrence, CurrentLine, PlaceOK
  <2>. QED BY <1>4, <1>7, <2>1 DEF Mentioned
<1>. QED BY <1>5, <1>6, <1>7, TurnWrites

-----------------------------------------------------------------------------
(* The n-th pair and the n-th definition. *)

\* Every place in S has one member, counting from 1.
Ranked(S) == \A c \in 1 .. Cardinality(S) : \E n \in S : Rank(n, S) = c

\* The n-th pair and the n-th definition are of one name, and the n-th context
\* is that of the place.
SameName(ident, o) ==
    ident.text = WordAt(o.word_offset) /\ ident.line = o.line /\ ident.col = o.col
Agree(keyword, ident, context, o) ==
    SameName(ident, o) /\ InType(source, lang, keyword.col, context.container, o.word_offset)
PairsOK ==
    /\ Len(def_contexts) = Cardinality(Pairs) /\ Cardinality(DefinitionsAt) = Cardinality(Pairs)
    /\ Ranked(Pairs) /\ Ranked(DefinitionsAt)
    /\ \A n \in Pairs, m \in DefinitionsAt :
         Rank(n, Pairs) = Rank(m, DefinitionsAt) =>
           Agree(tokens[n], tokens[n + 1], def_contexts[Rank(n, Pairs)], occurrences[m])

LexerInv == PlaceOK /\ ScopesOK /\ OutputOK /\ PositionsOK /\ TypesOK /\ PairsOK

\* A place behind all others is the last, and the others stay where they are.
LEMMA RankAppended ==
    ASSUME NEW b \in Nat, NEW S \in SUBSET (1 .. b), NEW x \in Nat, x > b
    PROVE  LET T == S \cup {x}
           IN  /\ Cardinality(S) \in Nat /\ Cardinality(T) = Cardinality(S) + 1
               /\ Rank(x, T) = Cardinality(S) + 1
               /\ \A n \in S : Rank(n, T) = Rank(n, S) /\ Rank(n, S) \in 1 .. Cardinality(S)
<1>. DEFINE T == S \cup {x}
<1>1. IsFiniteSet(S) /\ x \notin S
  <2>1. IsFiniteSet(1 .. b) /\ S \subseteq 1 .. b
    BY FS_Interval
  <2>2. IsFiniteSet(S)
    BY <2>1, FS_Subset
  <2>3. x \notin 1 .. b
    OBVIOUS
  <2>. QED BY <2>1, <2>2, <2>3
<1>2. Cardinality(S) \in Nat /\ Cardinality(T) = Cardinality(S) + 1
  BY <1>1, FS_AddElement, FS_CardinalityType
<1>3. {m \in T : m <= x} = T
  <2>1. \A m \in T : m <= x
    OBVIOUS
  <2>. QED BY <2>1
<1>4. ASSUME NEW n \in S PROVE Rank(n, T) = Rank(n, S) /\ Rank(n, S) \in 1 .. Cardinality(S)
  <2>. DEFINE U == {m \in S : m <= n}
  <2>1. {m \in T : m <= n} = U /\ U \subseteq S /\ n \in U
    OBVIOUS
  <2>2. Rank(n, T) = Cardinality(U) /\ Rank(n, S) = Cardinality(U)
    BY <2>1 DEF Rank
  <2>. HIDE DEF U
  <2>3. IsFiniteSet(U) /\ Cardinality(U) <= Cardinality(S) /\ Cardinality(U) \in Nat
    BY <1>1, <2>1, FS_Subset, FS_CardinalityType
  <2>4. Cardinality(U) # 0
    BY <2>1, <2>3, FS_EmptySet
  <2>. QED BY <1>2, <2>2, <2>3, <2>4
<1>5. Rank(x, T) = Cardinality(S) + 1
  BY <1>2, <1>3 DEF Rank
<1>. QED BY <1>2, <1>4, <1>5

LEMMA RankedAppended ==
    ASSUME NEW b \in Nat, NEW S \in SUBSET (1 .. b), NEW x \in Nat, x > b, Ranked(S)
    PROVE  Ranked(S \cup {x})
<1>. DEFINE T == S \cup {x}
<1>1. /\ Cardinality(S) \in Nat /\ Cardinality(T) = Cardinality(S) + 1
      /\ Rank(x, T) = Cardinality(S) + 1
      /\ \A n \in S : Rank(n, T) = Rank(n, S)
  BY RankAppended
<1>2. ASSUME NEW c \in 1 .. Cardinality(T) PROVE \E n \in T : Rank(n, T) = c
  <2>1. CASE c = Cardinality(T)
    BY <1>1, <2>1
  <2>2. CASE c # Cardinality(T)
    <3>1. c \in 1 .. Cardinality(S)
      BY <1>1, <2>2
    <3>2. PICK n \in S : Rank(n, S) = c
      BY <3>1 DEF Ranked
    <3>. QED BY <1>1, <3>2
  <2>. QED BY <2>1, <2>2
<1>. QED BY <1>2 DEF Ranked

\* A keyword alone makes no pair; with its name it makes one, behind the others.
LEMMA PairsMade ==
    ASSUME OutputOK, NEW k \in Tokens, NEW t \in Tokens, k.kind = "DefKeyword", t.kind = "Ident"
    PROVE  /\ Len(tokens) \in Nat /\ Pairs \in SUBSET (1 .. Len(tokens))
           /\ \A n \in Pairs : n + 1 \in DOMAIN tokens
           /\ tokens' = Append(tokens, k) => Pairs' = Pairs
           /\ tokens' = Append(Append(tokens, k), t) => Pairs' = Pairs \cup {Len(tokens) + 1}
<1>1. tokens \in Seq(Tokens) /\ Len(tokens) \in Nat
  BY DEF OutputOK
<1>2. Pairs \in SUBSET (1 .. Len(tokens)) /\ \A n \in Pairs : n + 1 \in DOMAIN tokens
  BY <1>1 DEF Pairs
<1>3. ASSUME tokens' = Append(tokens, k) PROVE Pairs' = Pairs
  <2>1. /\ Len(tokens') = Len(tokens) + 1 /\ tokens'[Len(tokens) + 1] = k
        /\ \A n \in 1 .. Len(tokens) : tokens'[n] = tokens[n]
    BY <1>1, <1>3
  <2>2. \A n : n \in Pairs' <=> n \in Pairs
    BY <1>1, <2>1 DEF Pairs
  <2>. QED BY <2>2
<1>4. ASSUME tokens' = Append(Append(tokens, k), t) PROVE Pairs' = Pairs \cup {Len(tokens) + 1}
  <2>1. /\ Len(tokens') = Len(tokens) + 2 /\ tokens'[Len(tokens) + 1] = k /\ tokens'[Len(tokens) + 2] = t
        /\ \A n \in 1 .. Len(tokens) : tokens'[n] = tokens[n]
    BY <1>1, <1>4
  <2>2. \A n : n \in Pairs' <=> n \in Pairs \/ n = Len(tokens) + 1
    BY <1>1, <2>1 DEF Pairs
  <2>. QED BY <2>2
<1>. QED BY <1>1, <1>2, <1>3, <1>4

LEMMA DefinitionsMade ==
    ASSUME OutputOK, NEW o \in Occurrences, occurrences' = Append(occurrences, o)
    PROVE  /\ Len(occurrences) \in Nat /\ DefinitionsAt \in SUBSET (1 .. Len(occurrences))
           /\ \A n \in 1 .. Len(occurrences) : occurrences'[n] = occurrences[n]
           /\ occurrences'[Len(occurrences) + 1] = o
           /\ o.role = "Reference" => DefinitionsAt' = DefinitionsAt
           /\ o.role = "Definition" => DefinitionsAt' = DefinitionsAt \cup {Len(occurrences) + 1}
<1>1. occurrences \in Seq(Occurrences) /\ Len(occurrences) \in Nat
  BY DEF OutputOK
<1>2. /\ Len(occurrences') = Len(occurrences) + 1 /\ DOMAIN occurrences' = 1 .. Len(occurrences) + 1
      /\ occurrences'[Len(occurrences) + 1] = o
      /\ \A n \in 1 .. Len(occurrences) : occurrences'[n] = occurrences[n]
  BY <1>1
<1>3. DefinitionsAt \in SUBSET (1 .. Len(occurrences))
  BY <1>1 DEF DefinitionsAt
<1>4. o.role = "Reference" => DefinitionsAt' = DefinitionsAt
  BY <1>1, <1>2 DEF DefinitionsAt
<1>5. o.role = "Definition" => DefinitionsAt' = DefinitionsAt \cup {Len(occurrences) + 1}
  BY <1>1, <1>2 DEF DefinitionsAt
<1>. QED BY <1>1, <1>2, <1>3, <1>4, <1>5

LEMMA PairsKept ==
    ASSUME PlaceOK, ScopesOK, OutputOK, TypesOK, PairsOK, [LexerNext]_vars
    PROVE  PairsOK'
<1>1. source' = source /\ lang' = lang
  BY SourceStays
<1>2. ASSUME Pairs' = Pairs, DefinitionsAt' = DefinitionsAt, def_contexts' = def_contexts,
             \A n \in Pairs : tokens'[n] = tokens[n] /\ tokens'[n + 1] = tokens[n + 1],
             \A m \in DefinitionsAt : occurrences'[m] = occurrences[m]
      PROVE  PairsOK'
  <2>. HIDE DEF Pairs, DefinitionsAt
  <2>1. Ranked(Pairs') /\ Ranked(DefinitionsAt')
    BY <1>2 DEF PairsOK
  <2>2. \A n \in Pairs', m \in DefinitionsAt' :
          Rank(n, Pairs') = Rank(m, DefinitionsAt') =>
            Agree(tokens'[n], tokens'[n + 1], def_contexts'[Rank(n, Pairs')], occurrences'[m])
    <3>. HIDE DEF Agree
    <3>. QED BY <1>2 DEF PairsOK
  <2>3. Len(def_contexts') = Cardinality(Pairs') /\ Cardinality(DefinitionsAt') = Cardinality(Pairs')
    BY <1>2 DEF PairsOK
  <2>. QED BY <1>1, <2>1, <2>2, <2>3 DEF PairsOK, Ranked, Rank, Agree, SameName, WordAt, Unit
<1>3. CASE UNCHANGED output
  <2>1. tokens' = tokens /\ occurrences' = occurrences /\ def_contexts' = def_contexts
    BY <1>3 DEF output
  <2>2. Pairs' = Pairs /\ DefinitionsAt' = DefinitionsAt
    BY <2>1 DEF Pairs, DefinitionsAt
  <2>. QED BY <1>2, <2>1, <2>2
<1>4. CASE Definition
  <2>1. Keyword \in Tokens /\ Keyword.kind = "DefKeyword"
    BY <1>4, KeywordIs
  <2>2. CASE KeywordOnly
    <3>. DEFINE t == [kind |-> "Ident", text |-> Keyword.text, line |-> Keyword.line, col |-> Keyword.col]
    <3>1. t \in Tokens /\ t.kind = "Ident"
      BY <2>1 DEF Tokens
    <3>. HIDE DEF t
    <3>2. tokens' = Append(tokens, Keyword) /\ UNCHANGED <<occurrences, def_contexts>>
      BY <2>2 DEF KeywordOnly
    <3>3. Pairs' = Pairs /\ DefinitionsAt' = DefinitionsAt
      BY <2>1, <3>1, <3>2, PairsMade DEF DefinitionsAt
    <3>4. \A n \in Pairs : tokens'[n] = tokens[n] /\ tokens'[n + 1] = tokens[n + 1]
      BY <2>1, <3>1, <3>2, PairsMade DEF OutputOK
    <3>. QED BY <1>2, <3>2, <3>3, <3>4
  <2>3. ASSUME NEW at \in 0 .. Len(source) - 1, NEW on \in Line, NEW context \in Contexts,
               WordAt(at) \in Words, Named(at, on, context),
               InType(source, lang, Keyword.col, context.container, at)
        PROVE  PairsOK'
    <3>. DEFINE t == Token("Ident", at, on)
                o == Occurrence(at, "Definition", on)
                p == Len(tokens) + 1
                d == Len(occurrences) + 1
    <3>1. /\ t \in Tokens /\ t.kind = "Ident" /\ o \in Occurrences /\ o.role = "Definition"
          /\ SameName(t, o) /\ o.word_offset = at
      BY <2>3, WritesAreTyped DEF Token, Occurrence, SameName
    <3>2. /\ tokens' = Append(Append(tokens, Keyword), t) /\ occurrences' = Append(occurrences, o)
          /\ def_contexts' = Append(def_contexts, context)
      BY <2>3 DEF Named
    <3>. HIDE DEF t, o
    <3>3. /\ Len(tokens) \in Nat /\ Pairs \in SUBSET (1 .. Len(tokens)) /\ Pairs' = Pairs \cup {p}
          /\ \A n \in Pairs : n + 1 \in DOMAIN tokens
      BY <2>1, <3>1, <3>2, PairsMade
    <3>4. /\ Len(occurrences) \in Nat /\ DefinitionsAt \in SUBSET (1 .. Len(occurrences))
          /\ DefinitionsAt' = DefinitionsAt \cup {d}
          /\ occurrences'[d] = o /\ \A n \in 1 .. Len(occurrences) : occurrences'[n] = occurrences[n]
      BY <3>1, <3>2, DefinitionsMade
    <3>5. /\ tokens'[p] = Keyword /\ tokens'[p + 1] = t
          /\ \A n \in Pairs : tokens'[n] = tokens[n] /\ tokens'[n + 1] = tokens[n + 1]
      <4>. DEFINE q == Append(tokens, Keyword)
      <4>1. tokens \in Seq(Tokens) /\ Keyword \in Tokens /\ t \in Tokens
        BY <2>1, <3>1 DEF OutputOK
      <4>. HIDE DEF Tokens
      <4>2. q \in Seq(Tokens) /\ Len(q) = p /\ q[p] = Keyword /\ \A n \in 1 .. Len(tokens) : q[n] = tokens[n]
        BY <4>1, AppendProperties
      <4>3. tokens' = Append(q, t) /\ p \in 1 .. p /\ DOMAIN tokens = 1 .. Len(tokens)
        BY <3>2, <3>3, <4>1
      <4>. HIDE DEF q
      <4>4. tokens'[p + 1] = t /\ \A n \in 1 .. p : tokens'[n] = q[n]
        BY <4>1, <4>2, <4>3, AppendProperties
      <4>5. \A n \in Pairs : n \in 1 .. Len(tokens) /\ n + 1 \in 1 .. Len(tokens)
        BY <3>3, <4>3
      <4>6. \A n \in 1 .. Len(tokens) : n \in 1 .. p
        BY <3>3
      <4>. QED BY <4>2, <4>3, <4>4, <4>5, <4>6, Zenon
    <3>6. /\ Len(def_contexts') = Len(def_contexts) + 1 /\ Len(def_contexts) \in Nat
          /\ def_contexts'[Len(def_contexts) + 1] = context
          /\ \A c \in 1 .. Len(def_contexts) : def_contexts'[c] = def_contexts[c]
      BY <3>2 DEF OutputOK
    <3>7. /\ Cardinality(Pairs) \in Nat /\ Cardinality(Pairs') = Cardinality(Pairs) + 1
          /\ Rank(p, Pairs') = Cardinality(Pairs) + 1
          /\ \A n \in Pairs : Rank(n, Pairs') = Rank(n, Pairs) /\ Rank(n, Pairs) \in 1 .. Cardinality(Pairs)
          /\ Ranked(Pairs')
      <4>1. p \in Nat /\ p > Len(tokens) /\ Ranked(Pairs)
        BY <3>3 DEF PairsOK
      <4>. HIDE DEF p
      <4>. QED BY <3>3, <4>1, RankAppended, RankedAppended
    <3>8. /\ Cardinality(DefinitionsAt') = Cardinality(DefinitionsAt) + 1
          /\ Rank(d, DefinitionsAt') = Cardinality(DefinitionsAt) + 1
          /\ \A n \in DefinitionsAt : /\ Rank(n, DefinitionsAt') = Rank(n, DefinitionsAt)
                                      /\ Rank(n, DefinitionsAt) \in 1 .. Cardinality(DefinitionsAt)
          /\ Ranked(DefinitionsAt')
      <4>1. d \in Nat /\ d > Len(occurrences) /\ Ranked(DefinitionsAt)
        BY <3>4 DEF PairsOK
      <4>. HIDE DEF d
      <4>. QED BY <3>4, <4>1, RankAppended, RankedAppended
    <3>9. /\ Len(def_contexts) = Cardinality(Pairs) /\ Cardinality(DefinitionsAt) = Cardinality(Pairs)
          /\ \A n \in Pairs, m \in DefinitionsAt :
               Rank(n, Pairs) = Rank(m, DefinitionsAt) =>
                 Agree(tokens[n], tokens[n + 1], def_contexts[Rank(n, Pairs)], occurrences[m])
      BY DEF PairsOK
    <3>10. ASSUME NEW n \in Pairs', NEW m \in DefinitionsAt', Rank(n, Pairs') = Rank(m, DefinitionsAt')
           PROVE  Agree(tokens'[n], tokens'[n + 1], def_contexts'[Rank(n, Pairs')], occurrences'[m])
      <4>. HIDE DEF p, d, Agree
      <4>1. (n \in Pairs \/ n = p) /\ (m \in DefinitionsAt \/ m = d)
        BY <3>3, <3>4, <3>10
      <4>2. CASE n \in Pairs /\ m \in DefinitionsAt
        <5>1. Rank(n, Pairs) = Rank(m, DefinitionsAt)
          BY <3>7, <3>8, <3>10, <4>2
        <5>2. /\ tokens'[n] = tokens[n] /\ tokens'[n + 1] = tokens[n + 1]
              /\ occurrences'[m] = occurrences[m]
          BY <3>4, <3>5, <4>2
        <5>3. def_contexts'[Rank(n, Pairs')] = def_contexts[Rank(n, Pairs)]
          BY <3>6, <3>7, <3>9, <4>2
        <5>. QED BY <3>9, <4>2, <5>1, <5>2, <5>3
      <4>3. CASE n = p /\ m = d
        <5>1. def_contexts'[Rank(n, Pairs')] = context
          BY <3>6, <3>7, <3>9, <4>3
        <5>2. Agree(Keyword, t, context, o)
          BY <2>3, <3>1, Zenon DEF Agree
        <5>. QED BY <3>4, <3>5, <4>3, <5>1, <5>2
      <4>4. ~(n \in Pairs /\ m = d) /\ ~(n = p /\ m \in DefinitionsAt)
        BY <3>7, <3>8, <3>9, <3>10
      <4>. QED BY <4>1, <4>2, <4>3, <4>4
    <3>11. \A n \in Pairs', m \in DefinitionsAt' :
             Rank(n, Pairs') = Rank(m, DefinitionsAt') =>
               Agree(tokens'[n], tokens'[n + 1], def_contexts'[Rank(n, Pairs')], occurrences'[m])
      BY <3>10
    <3>12. Len(def_contexts') = Cardinality(Pairs') /\ Cardinality(DefinitionsAt') = Cardinality(Pairs')
      BY <3>6, <3>7, <3>8, <3>9
    <3>. QED BY <1>1, <3>7, <3>8, <3>11, <3>12 DEF PairsOK, Ranked, Rank, Agree, SameName, WordAt, Unit
  <2>. QED BY <1>4, <2>2, <2>3, DefinitionWrites
<1>5. CASE Mentioned /\ Running /\ WordAt(i) \in Words
  <2>. DEFINE o == Occurrence(i, "Reference", CurrentLine)
  <2>1. i \in 0 .. Len(source) - 1
    BY <1>5 DEF PlaceOK, Running
  <2>2. o \in Occurrences /\ o.role = "Reference"
    BY <1>5, <2>1, CurrentLineIs, WritesAreTyped DEF Occurrence
  <2>3. occurrences' = Append(occurrences, o) /\ tokens' = tokens /\ def_contexts' = def_contexts
    BY <1>5 DEF Mentioned
  <2>. HIDE DEF o
  <2>4. /\ DefinitionsAt' = DefinitionsAt /\ Pairs' = Pairs
        /\ \A n \in DefinitionsAt : occurrences'[n] = occurrences[n]
    BY <2>2, <2>3, DefinitionsMade DEF Pairs
  <2>. QED BY <1>2, <2>3, <2>4
<1>. QED BY <1>3, <1>4, <1>5, TurnWrites

-----------------------------------------------------------------------------
(* The invariant, and what it says. *)

LEMMA FirstTurn == LexerInit => LexerInv
<1>. SUFFICES ASSUME LexerInit PROVE LexerInv
  OBVIOUS
<1>1. PlaceOK
  BY PlaceAtFirst
<1>2. ScopesOK
  BY DEF LexerInit, ScopesOK
<1>3. OutputOK /\ PositionsOK
  BY DEF LexerInit, OutputOK, PositionsOK
<1>4. PairsOK
  <2>1. tokens = <<>> /\ occurrences = <<>> /\ def_contexts = <<>>
    BY DEF LexerInit
  <2>2. Pairs = {} /\ DefinitionsAt = {}
    BY <2>1 DEF Pairs, DefinitionsAt
  <2>3. Cardinality({}) = 0
    BY FS_EmptySet
  <2>. QED BY <2>1, <2>2, <2>3 DEF PairsOK, Ranked
<1>. QED BY <1>1, <1>2, <1>3, <1>4, TypesAtFirst DEF LexerInv

LEMMA EveryTurn == LexerInv /\ [LexerNext]_vars => LexerInv'
BY PlaceKept, ScopesKept, OutputKept, PositionsKept, TypesKept, PairsKept DEF LexerInv

LEMMA InvIsTyped == LexerInv => LexerTypeOK
<1>. SUFFICES ASSUME LexerInv PROVE LexerTypeOK
  OBVIOUS
<1>1. \A w \in Words : IsWord(w)
  BY DEF Words, IsWord
<1>2. \A c \in ToSet(container_stack) : IsWord(c[1]) /\ c[2] \in Nat
  <2>1. \A n \in DOMAIN container_stack : container_stack[n] \in Words \X Nat
    BY DEF LexerInv, ScopesOK
  <2>. QED BY <1>1, <2>1 DEF ToSet
<1>3. \A t \in ToSet(tokens) : t.kind \in {"DefKeyword", "Ident"} /\ IsWord(t.text)
  <2>1. \A n \in DOMAIN tokens : tokens[n] \in Tokens
    BY DEF LexerInv, OutputOK
  <2>. QED BY <1>1, <2>1 DEF ToSet, Tokens
<1>4. \A o \in ToSet(occurrences) : o.word_offset \in 0 .. Len(source) - 1
  <2>1. \A n \in DOMAIN occurrences : occurrences[n] \in Occurrences
    BY DEF LexerInv, OutputOK
  <2>. QED BY <2>1 DEF ToSet, Occurrences
<1>5. \A c \in ToSet(def_contexts) : c.visibility \in {"Public", "Private", "Unknown"}
  <2>1. \A n \in DOMAIN def_contexts : def_contexts[n] \in Contexts
    BY DEF LexerInv, OutputOK
  <2>. QED BY <2>1 DEF ToSet, Contexts
<1>. QED BY <1>2, <1>3, <1>4, <1>5 DEF LexerInv, LexerTypeOK, PlaceOK, ScopesOK

LEMMA InvPlaces == LexerInv => PositionsAreRight
<1>. SUFFICES ASSUME LexerInv, ~drifted, NEW o \in ToSet(occurrences) PROVE RightPlace(o)
  BY DEF PositionsAreRight, RightPlace
<1>1. PICK n \in DOMAIN occurrences : o = occurrences[n]
  BY DEF ToSet
<1>. QED BY <1>1 DEF LexerInv, PositionsOK

LEMMA InvMatches == LexerInv => SymbolsMatchContexts
<1>. SUFFICES ASSUME LexerInv PROVE SymbolsMatchContexts
  OBVIOUS
<1>1. PairsOK
  BY DEF LexerInv
<1>2. ASSUME NEW c \in 1 .. Cardinality(Pairs)
      PROVE  LET symbol == from_tokens_with_contexts[c]
                 definition == NthDefinition(c)
             IN  /\ symbol.name = WordAt(definition.word_offset)
                 /\ symbol.line = definition.line /\ symbol.col = definition.col
  <2>. DEFINE n == CHOOSE n \in Pairs : Rank(n, Pairs) = c
              m == CHOOSE m \in DefinitionsAt : Rank(m, DefinitionsAt) = c
  <2>1. n \in Pairs /\ Rank(n, Pairs) = c
    BY <1>1 DEF PairsOK, Ranked
  <2>2. m \in DefinitionsAt /\ Rank(m, DefinitionsAt) = c
    BY <1>1 DEF PairsOK, Ranked
  <2>3. /\ from_tokens_with_contexts[c].name = tokens[n + 1].text
        /\ from_tokens_with_contexts[c].line = tokens[n + 1].line
        /\ from_tokens_with_contexts[c].col = tokens[n + 1].col
    BY DEF from_tokens_with_contexts, NthPair
  <2>4. NthDefinition(c) = occurrences[m]
    BY DEF NthDefinition
  <2>. HIDE DEF n, m
  <2>5. SameName(tokens[n + 1], occurrences[m])
    BY <1>1, <2>1, <2>2, Zenon DEF PairsOK, Agree
  <2>. QED BY <2>3, <2>4, <2>5 DEF SameName
<1>. QED BY <1>1, <1>2 DEF SymbolsMatchContexts, PairsOK

LEMMA InvContains == LexerInv => MembersHaveTheirContainer
<1>. SUFFICES ASSUME LexerInv, Plain PROVE MembersHaveTheirContainer
  BY Zenon DEF MembersHaveTheirContainer
<1>1. PairsOK /\ source \in Seq(STRING)
  BY DEF LexerInv, PlaceOK
<1>2. PlainIn(source, lang)
  BY <1>1, TextIs, Zenon
<1>3. ASSUME NEW c \in 1 .. Cardinality(Pairs)
      PROVE  IF indent_scoping(lang)
             THEN tokens[NthPair(c)].col = 0 => def_contexts[c].container = None
             ELSE def_contexts[c].container = EnclosingType(NthDefinition(c).word_offset)
  <2>. DEFINE n == CHOOSE n \in Pairs : Rank(n, Pairs) = c
              m == CHOOSE m \in DefinitionsAt : Rank(m, DefinitionsAt) = c
  <2>1. n \in Pairs /\ Rank(n, Pairs) = c
    BY <1>1 DEF PairsOK, Ranked
  <2>2. m \in DefinitionsAt /\ Rank(m, DefinitionsAt) = c
    BY <1>1 DEF PairsOK, Ranked
  <2>3. NthPair(c) = n /\ NthDefinition(c) = occurrences[m]
    BY DEF NthPair, NthDefinition
  <2>. HIDE DEF n, m
  <2>4. InType(source, lang, tokens[n].col, def_contexts[c].container, occurrences[m].word_offset)
    BY <1>1, <2>1, <2>2, Zenon DEF PairsOK, Agree
  <2>5. EnclosingType(occurrences[m].word_offset) = TypeIn(source, lang, occurrences[m].word_offset)
    BY <1>1, TextIs, Zenon
  <2>. QED BY <1>2, <2>3, <2>4, <2>5, Zenon DEF InType
<1>. QED BY <1>3, Zenon DEF MembersHaveTheirContainer

\* Whatever text is scanned, every occurrence has the line and the column of
\* its word unless a string ran into the end of its line, and the n-th symbol
\* is made from the n-th definition, with the context recorded for that one
\* (tokenizer.rs:443, symbols.rs:77).
THEOREM SymbolsStayInPlace == LexerSpec => []SymbolsAreInPlace
<1>1. LexerInv => SymbolsAreInPlace
  BY InvIsTyped, InvPlaces, InvMatches DEF SymbolsAreInPlace
<1>. QED BY FirstTurn, EveryTurn, <1>1, PTL DEF LexerSpec

\* In a text of any length without comments and strings a definition is filed
\* under the innermost type around it, whatever blocks opened and closed
\* before it, and under none at the left margin of a Python file
\* (tokenizer.rs:410, "Container stack: (name, brace_depth_when_opened)").
THEOREM MembersStayInTheirType == LexerSpec => []MembersHaveTheirContainer
BY FirstTurn, EveryTurn, InvContains, PTL DEF LexerSpec

-----------------------------------------------------------------------------
(* What is around a node of a syntax tree. *)

\* The function up of Ancestors, over the nodes from 0 to n.
IsUp(tree, f, n) ==
    f = [m \in 0 .. n |-> IF m = 0 \/ tree[m].parent = 0 THEN {} ELSE {tree[m].parent} \cup f[tree[m].parent]]

Unfolds(tree, f, m) ==
    f[m] = IF m = 0 \/ tree[m].parent = 0 THEN {} ELSE {tree[m].parent} \cup f[tree[m].parent]

LEMMA InSeq == ASSUME NEW R, NEW t \in Seq(R), NEW k \in 1 .. Len(t) PROVE t[k] \in R
OBVIOUS

LEMMA ParentBefore ==
    ASSUME NEW tree, IsTree(tree), NEW m \in 1 .. Len(tree)
    PROVE  tree[m].parent \in 0 .. m - 1 /\ tree[m].name # None /\ Len(tree) \in Nat
BY DEF IsTree, Nodes

LEMMA UpIs ==
    ASSUME NEW tree, NEW f, NEW n, IsUp(tree, f, n), NEW m \in 0 .. n
    PROVE  Unfolds(tree, f, m)
BY DEF IsUp, Unfolds

LEMMA UpExists ==
    ASSUME NEW tree, IsTree(tree), NEW n \in 0 .. Len(tree)
    PROVE  \E f : IsUp(tree, f, n)
<1>. DEFINE N == Len(tree)
            S == {k \in 0 .. N : \E f : IsUp(tree, f, k)}
<1>0. N \in Nat
  BY DEF IsTree
<1>1. 0 \in S
  <2>. DEFINE f == [m \in 0 .. 0 |-> {}]
              g == [m \in 0 .. 0 |-> IF m = 0 \/ tree[m].parent = 0 THEN {}
                                     ELSE {tree[m].parent} \cup f[tree[m].parent]]
  <2>1. \A m \in 0 .. 0 : f[m] = g[m]
    OBVIOUS
  <2>2. f = g
    BY <2>1
  <2>3. IsUp(tree, f, 0)
    BY <2>2 DEF IsUp
  <2>. QED BY <1>0, <2>3
<1>2. ASSUME NEW k \in 0 .. N - 1, k \in S PROVE k + 1 \in S
  <2>1. PICK f : IsUp(tree, f, k)
    BY <1>2
  <2>. DEFINE p == tree[k + 1].parent
              g == [m \in 0 .. k + 1 |-> IF m = k + 1 THEN (IF p = 0 THEN {} ELSE {p} \cup f[p]) ELSE f[m]]
              h == [m \in 0 .. k + 1 |-> IF m = 0 \/ tree[m].parent = 0 THEN {}
                                         ELSE {tree[m].parent} \cup g[tree[m].parent]]
  <2>2. \A m \in 1 .. k + 1 : tree[m].parent \in 0 .. m - 1
    BY <1>0, ParentBefore
  <2>3. ASSUME NEW m \in 0 .. k + 1 PROVE g[m] = h[m]
    <3>1. CASE m = k + 1
      <4>1. p \in 0 .. k
        BY <2>2
      <4>2. g[p] = f[p] /\ h[m] = IF p = 0 THEN {} ELSE {p} \cup g[p]
        BY <3>1, <4>1
      <4>. QED BY <3>1, <4>2
    <3>2. CASE m \in 0 .. k
      <4>1. Unfolds(tree, f, m)
        BY <2>1, <3>2, UpIs, Zenon
      <4>2. m # 0 => tree[m].parent \in 0 .. k /\ g[tree[m].parent] = f[tree[m].parent]
        <5>1. ASSUME m # 0 PROVE tree[m].parent \in 0 .. m - 1
          BY <2>2, <3>2, <5>1
        <5>. QED BY <3>2, <5>1
      <4>3. g[m] = f[m] /\ h[m] = IF m = 0 \/ tree[m].parent = 0 THEN {}
                                  ELSE {tree[m].parent} \cup g[tree[m].parent]
        BY <3>2
      <4>. HIDE DEF g, h
      <4>. QED BY <4>1, <4>2, <4>3 DEF Unfolds
    <3>. QED BY <3>1, <3>2
  <2>4. g = [m \in 0 .. k + 1 |-> g[m]] /\ h = [m \in 0 .. k + 1 |-> h[m]]
    OBVIOUS
  <2>5. g = h
    <3>. HIDE DEF g, h
    <3>. QED BY <2>3, <2>4
  <2>6. IsUp(tree, g, k + 1)
    BY <2>5 DEF IsUp
  <2>. HIDE DEF g
  <2>. QED BY <1>0, <2>6
<1>. HIDE DEF S
<1>3. n \in S
  BY <1>0, <1>1, <1>2, Onwards
<1>. QED BY <1>3 DEF S

LEMMA UpUnique ==
    ASSUME NEW tree, IsTree(tree), NEW n \in 0 .. Len(tree), NEW k \in 0 .. n,
           NEW f, IsUp(tree, f, n), NEW g, IsUp(tree, g, k)
    PROVE  f[k] = g[k]
<1>. DEFINE T == {m \in 0 .. k : f[m] # g[m]}
<1>0. n \in Nat /\ k \in Nat /\ Len(tree) \in Nat
  BY DEF IsTree
<1>1. ASSUME T # {} PROVE FALSE
  <2>1. T \in SUBSET Nat
    OBVIOUS
  <2>. DEFINE m == Min(T)
  <2>. HIDE DEF T
  <2>2. m \in T /\ \A j \in T : m <= j
    BY <1>1, <2>1, Smallest
  <2>. HIDE DEF m
  <2>3. m \in 0 .. k /\ m \in 0 .. n
    BY <2>2, <1>0 DEF T
  <2>4. Unfolds(tree, f, m) /\ Unfolds(tree, g, m)
    <3>1. Unfolds(tree, f, m)
      BY <2>3, UpIs, Zenon
    <3>2. Unfolds(tree, g, m)
      BY <2>3, UpIs, Zenon
    <3>. QED BY <3>1, <3>2
  <2>5. m # 0 => tree[m].parent \in 0 .. m - 1
    BY <1>0, <2>3, ParentBefore
  <2>6. m # 0 => tree[m].parent \notin T /\ tree[m].parent \in 0 .. k
    BY <2>1, <2>2, <2>3, <2>5
  <2>7. m # 0 => f[tree[m].parent] = g[tree[m].parent]
    BY <2>6 DEF T
  <2>8. f[m] = g[m]
    BY <2>4, <2>7 DEF Unfolds
  <2>. QED BY <2>2, <2>8 DEF T
<1>. QED BY <1>0, <1>1

\* What Ancestors unfolds to.
LEMMA AncestorsAre ==
    ASSUME NEW tree, IsTree(tree), NEW n \in Nodes(tree)
    PROVE  Ancestors(tree, n) = IF tree[n].parent = 0 THEN {}
                                ELSE {tree[n].parent} \cup Ancestors(tree, tree[n].parent)
<1>. DEFINE Up(k) == CHOOSE up : up = [m \in 0 .. k |-> IF m = 0 \/ tree[m].parent = 0 THEN {}
                                                        ELSE {tree[m].parent} \cup up[tree[m].parent]]
            p == tree[n].parent
<1>1. \A k : Ancestors(tree, k) = Up(k)[k]
  BY Zenon DEF Ancestors
<1>2. ASSUME NEW k \in 0 .. Len(tree) PROVE IsUp(tree, Up(k), k)
  <2>1. \E f : IsUp(tree, f, k)
    BY UpExists
  <2>. QED BY <2>1, Zenon DEF IsUp
<1>. HIDE DEF Up
<1>3. n \in 1 .. Len(tree) /\ p \in 0 .. n - 1 /\ Len(tree) \in Nat
  BY ParentBefore DEF Nodes
<1>4. IsUp(tree, Up(n), n) /\ IsUp(tree, Up(p), p)
  BY <1>2, <1>3
<1>5. Up(n)[n] = IF p = 0 THEN {} ELSE {p} \cup Up(n)[p]
  <2>1. n \in 0 .. n /\ n # 0
    BY <1>3
  <2>2. Unfolds(tree, Up(n), n)
    BY <1>4, <2>1, UpIs, Zenon
  <2>. QED BY <2>1, <2>2 DEF Unfolds
<1>6. Up(n)[p] = Up(p)[p]
  <2>1. n \in 0 .. Len(tree) /\ p \in 0 .. n
    BY <1>3
  <2>. HIDE DEF p
  <2>. QED BY <1>4, <2>1, UpUnique
<1>. QED BY <1>1, <1>5, <1>6

-----------------------------------------------------------------------------
(* What is around a node. *)

LEMMA FromParent ==
    ASSUME NEW tree, IsTree(tree), NEW S,
           \A n \in Nodes(tree) : (tree[n].parent = 0 \/ tree[n].parent \in S) => n \in S
    PROVE  \A n \in Nodes(tree) : n \in S
<1>. DEFINE T == {n \in Nodes(tree) : n \notin S}
<1>1. ASSUME T # {} PROVE FALSE
  <2>1. T \in SUBSET Nat
    BY DEF Nodes
  <2>. DEFINE m == Min(T)
  <2>. HIDE DEF T
  <2>2. m \in T /\ \A j \in T : m <= j
    BY <1>1, <2>1, Smallest
  <2>. HIDE DEF m
  <2>3. m \in 1 .. Len(tree) /\ m \notin S
    BY <2>2 DEF T, Nodes
  <2>4. tree[m].parent \in 0 .. m - 1 /\ Len(tree) \in Nat
    BY <2>3, ParentBefore
  <2>5. tree[m].parent \notin T
    BY <2>2, <2>3, <2>4
  <2>6. tree[m].parent = 0 \/ tree[m].parent \in Nodes(tree)
    BY <2>3, <2>4 DEF Nodes
  <2>. QED BY <2>3, <2>5, <2>6 DEF T, Nodes
<1>. QED BY <1>1

LEMMA ParentIs ==
    ASSUME NEW tree, IsTree(tree), NEW n \in Nodes(tree)
    PROVE  /\ n \in Nat /\ n > 0 /\ n <= Len(tree) /\ Len(tree) \in Nat
           /\ tree[n].parent \in Nat /\ tree[n].parent < n /\ tree[n].name # None
           /\ tree[n].parent = 0 \/ tree[n].parent \in Nodes(tree)
<1>1. n \in 1 .. Len(tree) /\ tree[n].parent \in 0 .. n - 1 /\ tree[n].name # None /\ Len(tree) \in Nat
  BY ParentBefore DEF Nodes
<1>. QED BY <1>1 DEF Nodes

LEMMA AncestorsBelow ==
    ASSUME NEW tree, IsTree(tree), NEW n \in Nodes(tree)
    PROVE  \A a \in Ancestors(tree, n) : a \in Nodes(tree) /\ a < n
<1>. DEFINE S == {m \in Nodes(tree) : \A a \in Ancestors(tree, m) : a \in Nodes(tree) /\ a < m}
<1>1. ASSUME NEW m \in Nodes(tree), tree[m].parent = 0 \/ tree[m].parent \in S
      PROVE  m \in S
  <2>1. m \in Nat /\ tree[m].parent \in Nat /\ tree[m].parent < m /\ \A a \in Nodes(tree) : a \in Nat
    BY ParentIs
  <2>2. Ancestors(tree, m) = IF tree[m].parent = 0 THEN {}
                             ELSE {tree[m].parent} \cup Ancestors(tree, tree[m].parent)
    BY AncestorsAre
  <2>3. ASSUME NEW a \in Ancestors(tree, m) PROVE a \in Nodes(tree) /\ a < m
    <3>1. /\ tree[m].parent \in Nodes(tree)
          /\ a = tree[m].parent \/ (a \in Nodes(tree) /\ a < tree[m].parent)
      BY <1>1, <2>2, <2>3
    <3>2. a \in Nodes(tree) /\ a \in Nat
      BY <2>1, <3>1
    <3>. QED BY <2>1, <3>1, <3>2
  <2>. QED BY <2>3
<1>. HIDE DEF S
<1>2. n \in S
  BY <1>1, FromParent
<1>. QED BY <1>2 DEF S

\* The ancestors of a node are a chain: those of one of them are those before it.
LEMMA AncestorsChain ==
    ASSUME NEW tree, IsTree(tree), NEW n \in Nodes(tree), NEW a \in Ancestors(tree, n)
    PROVE  Ancestors(tree, a) = {b \in Ancestors(tree, n) : b < a}
<1>. DEFINE Chain(m) == \A x \in Ancestors(tree, m) : \A b : b \in Ancestors(tree, x) <=> b \in Ancestors(tree, m) /\ b < x
            S == {m \in Nodes(tree) : Chain(m)}
<1>1. ASSUME NEW m \in Nodes(tree), tree[m].parent = 0 \/ tree[m].parent \in S
      PROVE  m \in S
  <2>. DEFINE p == tree[m].parent
  <2>1. p = 0 => Ancestors(tree, m) = {}
    BY AncestorsAre
  <2>2. ASSUME p # 0 PROVE Chain(m)
    <3>1. p \in Nodes(tree) /\ Chain(p) /\ Ancestors(tree, m) = {p} \cup Ancestors(tree, p)
      BY <1>1, <2>2, AncestorsAre
    <3>2. /\ p \in Nat /\ \A b \in Ancestors(tree, p) : b \in Nat /\ b < p
      BY <3>1, AncestorsBelow, ParentIs
    <3>3. ASSUME NEW x \in Ancestors(tree, m), NEW b
          PROVE  b \in Ancestors(tree, x) <=> b \in Ancestors(tree, m) /\ b < x
      <4>1. CASE x = p
        BY <3>1, <3>2, <4>1
      <4>2. CASE x \in Ancestors(tree, p)
        <5>1. b \in Ancestors(tree, x) <=> b \in Ancestors(tree, p) /\ b < x
          BY <3>1, <4>2
        <5>2. x \in Nat /\ x < p
          BY <3>2, <4>2
        <5>3. ~(p < x)
          BY <3>2, <5>2
        <5>. QED BY <3>1, <5>1, <5>3
      <4>. QED BY <3>1, <3>3, <4>1, <4>2
    <3>. QED BY <3>3
  <2>3. Chain(m)
    BY <2>1, <2>2
  <2>. QED BY <2>3
<1>. HIDE DEF S
<1>2. n \in S
  BY <1>1, FromParent
<1>3. \A b : b \in Ancestors(tree, a) <=> b \in Ancestors(tree, n) /\ b < a
  BY <1>2 DEF S
<1>. QED BY <1>3

\* Further inside there are more ancestors, and never as many as nodes.
LEMMA AncestorsGrow ==
    ASSUME NEW tree, IsTree(tree), NEW n \in Nodes(tree)
    PROVE  /\ IsFiniteSet(Ancestors(tree, n)) /\ Cardinality(Ancestors(tree, n)) \in Nat
           /\ Cardinality(Ancestors(tree, n)) < n
           /\ \A a \in Ancestors(tree, n) :
                Cardinality(Ancestors(tree, a)) < Cardinality(Ancestors(tree, n))
<1>1. n \in Nat /\ n > 0
  BY ParentIs
<1>2. Ancestors(tree, n) \subseteq 1 .. n - 1
  <2>1. ASSUME NEW a \in Ancestors(tree, n) PROVE a \in 1 .. n - 1
    <3>1. a \in Nodes(tree) /\ a < n
      BY AncestorsBelow
    <3>2. a \in Nat /\ a > 0
      BY <3>1, ParentIs
    <3>. QED BY <1>1, <3>1, <3>2
  <2>. QED BY <2>1
<1>3. IsFiniteSet(1 .. n - 1) /\ Cardinality(1 .. n - 1) = n - 1
  <2>1. 1 \in Int /\ n - 1 \in Int /\ (1 > n - 1 => n - 1 = 0) /\ (n - 1) - 1 + 1 = n - 1
    BY <1>1
  <2>. QED BY <2>1, FS_Interval
<1>4. /\ IsFiniteSet(Ancestors(tree, n)) /\ Cardinality(Ancestors(tree, n)) \in Nat
      /\ Cardinality(Ancestors(tree, n)) <= n - 1
  BY <1>2, <1>3, FS_Subset, FS_CardinalityType
<1>5. ASSUME NEW a \in Ancestors(tree, n)
      PROVE  Cardinality(Ancestors(tree, a)) < Cardinality(Ancestors(tree, n))
  <2>1. Ancestors(tree, a) = {b \in Ancestors(tree, n) : b < a}
    BY AncestorsChain
  <2>2. a \in Nat
    BY AncestorsBelow, ParentIs
  <2>3. Ancestors(tree, a) \subseteq Ancestors(tree, n) /\ Ancestors(tree, a) # Ancestors(tree, n)
    BY <2>1, <2>2
  <2>4. IsFiniteSet(Ancestors(tree, a))
    BY <1>4, <2>3, FS_Subset
  <2>. QED BY <1>4, <2>3, <2>4, FS_Subset, FS_CardinalityType
<1>. QED BY <1>1, <1>4, <1>5

-----------------------------------------------------------------------------
(* On which rows a node is. *)

NodeRecord == [kind : STRING, parent : Nat, name : STRING, receiver : STRING, start : Nat, end : Nat]

LEMMA NodeIs ==
    ASSUME NEW tree, IsTree(tree), NEW n \in Nodes(tree)
    PROVE  tree[n] \in NodeRecord
<1>1. n \in 1 .. Len(tree) /\ tree \in Seq(NodeRecord)
  BY DEF IsTree, Nodes, NodeRecord
<1>. QED BY <1>1, InSeq, Zenon

\* Its name is on a row of the node, its rows are among those of what it is in,
\* and what comes behind it is not above its end.
LEMMA RowsAre ==
    ASSUME NEW tree, IsTree(tree), NEW n \in Nodes(tree)
    PROVE  /\ StartLine(tree, n) \in Nat /\ EndLine(tree, n) \in Nat /\ NameLine(tree, n) \in Nat
           /\ StartLine(tree, n) <= NameLine(tree, n) /\ NameLine(tree, n) <= EndLine(tree, n)
           /\ \A a \in Ancestors(tree, n) :
                StartLine(tree, a) <= StartLine(tree, n) /\ EndLine(tree, n) <= EndLine(tree, a)
           /\ \A m \in Nodes(tree) : n < m /\ n \notin Ancestors(tree, m) => EndLine(tree, n) <= StartLine(tree, m)
<1>1. RowsInOrder(tree)
  BY DEF IsTree
<1>2. StartLine(tree, n) \in Nat /\ EndLine(tree, n) \in Nat /\ StartLine(tree, n) <= EndLine(tree, n)
  BY <1>1, NodeIs DEF StartLine, EndLine, RowsInOrder, NodeRecord
<1>3. /\ NameLine(tree, n) \in Nat
      /\ StartLine(tree, n) <= NameLine(tree, n) /\ NameLine(tree, n) <= EndLine(tree, n)
  BY <1>2 DEF NameLine
<1>4. /\ \A a \in Ancestors(tree, n) :
           StartLine(tree, a) <= StartLine(tree, n) /\ EndLine(tree, n) <= EndLine(tree, a)
      /\ \A m \in Nodes(tree) : n < m /\ n \notin Ancestors(tree, m) => EndLine(tree, n) <= StartLine(tree, m)
  BY <1>1 DEF StartLine, EndLine, RowsInOrder
<1>. QED BY <1>2, <1>3, <1>4

-----------------------------------------------------------------------------
(* The rules of the queries. *)

\* A member's rule is for what is in something, and for nothing that is a local
\* or a parameter.
RuleOK(r) ==
    /\ r.contained => /\ r.in # Anywhere /\ "root" \notin r.in /\ r.suffix \notin {"local", "parameter"}
                      /\ r.kind \notin Declarations \cup {"parameter"}
    /\ r.suffix \in {"local", "parameter"} => r.kind \in Declarations \cup {"parameter"}

LEMMA Makes ==
    /\ \A k, s : /\ Rule(k, s).kind = k /\ Rule(k, s).suffix = s
                 /\ Rule(k, s).in = Anywhere /\ Rule(k, s).contained = FALSE
    /\ \A k, w, s : /\ Within(k, w, s).kind = k /\ Within(k, w, s).suffix = s
                    /\ Within(k, w, s).in = w /\ Within(k, w, s).contained = FALSE
    /\ \A k, w, s : /\ Member(k, w, s).kind = k /\ Member(k, w, s).suffix = s
                    /\ Member(k, w, s).in = w /\ Member(k, w, s).contained = TRUE
BY DEF Rule, Within, Member

LEMMA RuleIsOK == ASSUME NEW k, NEW s, s \in {"local", "parameter"} => k \in Declarations \cup {"parameter"}
    PROVE RuleOK(Rule(k, s)) /\ \A w : RuleOK(Within(k, w, s))
BY Makes DEF RuleOK

LEMMA MemberIsOK == ASSUME NEW k, NEW w, NEW s, w # {}, "root" \notin w, s \notin {"local", "parameter"}, k \notin Declarations \cup {"parameter"}
    PROVE RuleOK(Member(k, w, s))
BY Makes DEF RuleOK, Anywhere

LEMMA RulesAre ==
    ASSUME NEW grammar \in Grammars, NEW r \in Query(grammar)
    PROVE  RuleOK(r)
<1>. USE DEF Query, Declarations, Locals, AsNamed
<1>1. CASE grammar = "Rust"
  BY <1>1, RuleIsOK, MemberIsOK DEF RUST_QUERY
<1>2. CASE grammar = "Python"
  BY <1>2, RuleIsOK, MemberIsOK DEF PYTHON_QUERY
<1>3. CASE grammar = "Go"
  BY <1>3, RuleIsOK, MemberIsOK DEF GO_QUERY
<1>4. CASE grammar = "Js"
  BY <1>4, RuleIsOK, MemberIsOK DEF JS_QUERY
<1>5. CASE grammar = "Ts"
  BY <1>5, RuleIsOK, MemberIsOK DEF JS_QUERY, TS_QUERY
<1>6. CASE grammar = "Java"
  BY <1>6, RuleIsOK, MemberIsOK DEF JAVA_QUERY
<1>7. CASE grammar = "Ruby"
  BY <1>7, RuleIsOK, MemberIsOK DEF RUBY_QUERY
<1>8. CASE grammar = "C"
  BY <1>8, RuleIsOK, MemberIsOK DEF C_QUERY
<1>9. CASE grammar = "Cpp"
  BY <1>9, RuleIsOK, MemberIsOK DEF CPP_QUERY
<1>. QED BY <1>1, <1>2, <1>3, <1>4, <1>5, <1>6, <1>7, <1>8, <1>9 DEF Grammars

LEMMA FiveAreFinite ==
    ASSUME NEW a, NEW b, NEW c, NEW d, NEW e
    PROVE  IsFiniteSet({a, b, c, d, e})
<1>1. IsFiniteSet({a})
  BY FS_Singleton
<1>2. IsFiniteSet({a} \cup {b})
  BY <1>1, FS_AddElement
<1>3. IsFiniteSet({a} \cup {b} \cup {c})
  BY <1>2, FS_AddElement
<1>4. IsFiniteSet({a} \cup {b} \cup {c} \cup {d})
  BY <1>3, FS_AddElement
<1>5. IsFiniteSet({a} \cup {b} \cup {c} \cup {d} \cup {e})
  BY <1>4, FS_AddElement
<1>6. {a} \cup {b} \cup {c} \cup {d} \cup {e} = {a, b, c, d, e}
  OBVIOUS
<1>. QED BY <1>5, <1>6

NamedKinds ==
    {"function", "struct", "enum", "trait", "type"} \cup {"constant", "variable", "module", "macro", "parameter"}
    \cup {"class", "method", "interface", "let", "const"} \cup {"arrow", "arrow", "arrow", "arrow", "arrow"}

LEMMA Image ==
    ASSUME NEW K, IsFiniteSet(K), NEW f, DOMAIN f = K
    PROVE  IsFiniteSet({f[k] : k \in K})
<1>. DEFINE T == {f[k] : k \in K}
            g == [k \in K |-> f[k]]
<1>1. g \in Surjection(K, T)
  BY DEF Surjection
<1>. HIDE DEF g, T
<1>2. IsFiniteSet(T)
  BY <1>1, FS_Surjection
<1>. QED BY <1>2 DEF T

LEMMA SomeNamed ==
    ASSUME NEW kinds \in SUBSET NamedKinds
    PROVE  /\ IsFiniteSet(kinds) /\ IsFiniteSet(AsNamed(kinds))
           /\ \A s : IsFiniteSet({Rule(d, s) : d \in kinds})
           /\ \A w, s : IsFiniteSet({Within(d, w, s) : d \in kinds})
           /\ \A w : IsFiniteSet({Within(d, w, d) : d \in kinds})
<1>1. IsFiniteSet(NamedKinds)
  <2>1. /\ IsFiniteSet({"function", "struct", "enum", "trait", "type"})
        /\ IsFiniteSet({"constant", "variable", "module", "macro", "parameter"})
        /\ IsFiniteSet({"class", "method", "interface", "let", "const"})
        /\ IsFiniteSet({"arrow", "arrow", "arrow", "arrow", "arrow"})
    BY FiveAreFinite, Zenon
  <2>2. /\ IsFiniteSet({"function", "struct", "enum", "trait", "type"} \cup {"constant", "variable", "module", "macro", "parameter"})
        /\ IsFiniteSet({"class", "method", "interface", "let", "const"} \cup {"arrow", "arrow", "arrow", "arrow", "arrow"})
    BY <2>1, FS_Union
  <2>3. NamedKinds = ({"function", "struct", "enum", "trait", "type"} \cup {"constant", "variable", "module", "macro", "parameter"})
              \cup ({"class", "method", "interface", "let", "const"} \cup {"arrow", "arrow", "arrow", "arrow", "arrow"})
    BY DEF NamedKinds
  <2>. QED BY <2>2, <2>3, FS_Union
<1>2. IsFiniteSet(kinds)
  BY <1>1, FS_Subset
<1>3. IsFiniteSet(AsNamed(kinds))
  <2>. DEFINE f == [k \in kinds |-> Rule(k, k)]
  <2>1. IsFiniteSet({f[k] : k \in kinds})
    BY <1>2, Image
  <2>2. {f[k] : k \in kinds} = AsNamed(kinds)
    BY DEF AsNamed
  <2>. QED BY <2>1, <2>2
<1>4. ASSUME NEW s PROVE IsFiniteSet({Rule(d, s) : d \in kinds})
  <2>. DEFINE f == [k \in kinds |-> Rule(k, s)]
  <2>1. IsFiniteSet({f[k] : k \in kinds})
    BY <1>2, Image
  <2>2. {f[k] : k \in kinds} = {Rule(d, s) : d \in kinds}
    OBVIOUS
  <2>. QED BY <2>1, <2>2
<1>5. ASSUME NEW w, NEW s PROVE IsFiniteSet({Within(d, w, s) : d \in kinds})
  <2>. DEFINE f == [k \in kinds |-> Within(k, w, s)]
  <2>1. IsFiniteSet({f[k] : k \in kinds})
    BY <1>2, Image
  <2>2. {f[k] : k \in kinds} = {Within(d, w, s) : d \in kinds}
    OBVIOUS
  <2>. QED BY <2>1, <2>2
<1>6. ASSUME NEW w PROVE IsFiniteSet({Within(d, w, d) : d \in kinds})
  <2>. DEFINE f == [k \in kinds |-> Within(k, w, k)]
  <2>1. IsFiniteSet({f[k] : k \in kinds})
    BY <1>2, Image
  <2>2. {f[k] : k \in kinds} = {Within(d, w, d) : d \in kinds}
    OBVIOUS
  <2>. QED BY <2>1, <2>2
<1>. QED BY <1>2, <1>3, <1>4, <1>5, <1>6

LEMMA Together ==
    ASSUME NEW A, NEW B, IsFiniteSet(A), IsFiniteSet(B)
    PROVE  IsFiniteSet(A \cup B)
BY FS_Union

LEMMA FewAreFinite ==
    ASSUME NEW a, NEW b, NEW c, NEW d, NEW e, NEW g
    PROVE  /\ IsFiniteSet({a}) /\ IsFiniteSet({a, b}) /\ IsFiniteSet({a, b, c}) /\ IsFiniteSet({a, b, c, d})
           /\ IsFiniteSet({a, b, c, d, e}) /\ IsFiniteSet({a, b, c, d, e, g})
<1>1. IsFiniteSet({a, a, a, a, a}) /\ IsFiniteSet({a, b, b, b, b}) /\ IsFiniteSet({a, b, c, c, c})
      /\ IsFiniteSet({a, b, c, d, d}) /\ IsFiniteSet({a, b, c, d, e})
  BY FiveAreFinite, Zenon
<1>2. IsFiniteSet({a, b, c, d, e} \cup {g})
  BY <1>1, FS_AddElement
<1>3. /\ {a, a, a, a, a} = {a} /\ {a, b, b, b, b} = {a, b} /\ {a, b, c, c, c} = {a, b, c}
      /\ {a, b, c, d, d} = {a, b, c, d} /\ {a, b, c, d, e} \cup {g} = {a, b, c, d, e, g}
  OBVIOUS
<1>. QED BY <1>1, <1>2, <1>3

LEMMA QueryIsFinite ==
    ASSUME NEW grammar \in Grammars
    PROVE  IsFiniteSet(Query(grammar))
<1>1. IsFiniteSet(RUST_QUERY)
  BY SomeNamed, FewAreFinite, Together DEF RUST_QUERY, NamedKinds
<1>2. IsFiniteSet(PYTHON_QUERY)
  BY SomeNamed, FewAreFinite, Together DEF PYTHON_QUERY, NamedKinds
<1>3. IsFiniteSet(GO_QUERY)
  BY SomeNamed, FewAreFinite, Together DEF GO_QUERY, NamedKinds
<1>4. IsFiniteSet(JS_QUERY)
  <2>1. /\ Declarations \subseteq NamedKinds /\ {"function", "class", "parameter"} \subseteq NamedKinds
    BY DEF Declarations, NamedKinds
  <2>2. /\ IsFiniteSet(AsNamed({"function", "class", "parameter"})) /\ IsFiniteSet(Locals)
        /\ IsFiniteSet({Rule(d, "variable") : d \in Declarations})
        /\ IsFiniteSet({Within(d, {"export"}, "variable") : d \in Declarations})
    BY <2>1, SomeNamed DEF Locals
  <2>. QED BY <2>2, FewAreFinite, Together DEF JS_QUERY
<1>5. IsFiniteSet(TS_QUERY)
  <2>. DEFINE types == {"interface", "type", "enum"}
  <2>1. types \subseteq NamedKinds
    BY DEF NamedKinds
  <2>2. IsFiniteSet(AsNamed(types)) /\ IsFiniteSet({Within(k, {"export"}, k) : k \in types})
    BY <2>1, SomeNamed
  <2>. QED BY <1>4, <2>2, FewAreFinite, Together DEF TS_QUERY
<1>6. IsFiniteSet(JAVA_QUERY)
  <2>1. IsFiniteSet(AsNamed({"class", "interface", "enum", "parameter"}))
    BY SomeNamed DEF NamedKinds
  <2>2. IsFiniteSet({Rule("record", "struct"), Rule("annotation", "interface"), Rule("let", "local"),
                     Member("method", {"class", "interface", "enum"}, "method"), Member("field", {"class"}, "field")})
        /\ IsFiniteSet({Member("constructor", {"class"}, "constructor"), Member("variant", {"enum"}, "constant")})
    BY FewAreFinite, Zenon
  <2>3. JAVA_QUERY = AsNamed({"class", "interface", "enum", "parameter"})
          \cup ({Rule("record", "struct"), Rule("annotation", "interface"), Rule("let", "local"),
                 Member("method", {"class", "interface", "enum"}, "method"), Member("field", {"class"}, "field")}
                \cup {Member("constructor", {"class"}, "constructor"), Member("variant", {"enum"}, "constant")})
    BY DEF JAVA_QUERY
  <2>. QED BY <2>1, <2>2, <2>3, Together
<1>7. IsFiniteSet(RUBY_QUERY)
  BY SomeNamed, FewAreFinite, Together DEF RUBY_QUERY, NamedKinds
<1>8. IsFiniteSet(C_QUERY)
  BY SomeNamed, FewAreFinite, Together DEF C_QUERY, NamedKinds
<1>9. IsFiniteSet(CPP_QUERY)
  BY SomeNamed, FewAreFinite, Together DEF CPP_QUERY, NamedKinds
<1>. QED BY <1>1, <1>2, <1>3, <1>4, <1>5, <1>6, <1>7, <1>8, <1>9 DEF Grammars, Query

-----------------------------------------------------------------------------
(* What the queries make of a node. *)

Later(kept, symbols, k) == IF kept.container # None /\ symbols[k].container = None THEN kept ELSE symbols[k]
Keeping(f, symbols, n) == f = [k \in 1 .. n |-> IF k = 1 THEN symbols[1] ELSE Later(f[k - 1], symbols, k)]

LEMMA KeepingExists ==
    ASSUME NEW symbols, NEW n \in Nat
    PROVE  \E f : Keeping(f, symbols, n)
<1>. DEFINE S == {k \in Nat : \E f : Keeping(f, symbols, k)}
<1>1. 0 \in S
  <2>. DEFINE f == [k \in 1 .. 0 |-> IF k = 1 THEN symbols[1] ELSE Later(0, symbols, k)]
  <2>1. f = [k \in 1 .. 0 |-> IF k = 1 THEN symbols[1] ELSE Later(f[k - 1], symbols, k)]
    OBVIOUS
  <2>2. Keeping(f, symbols, 0)
    BY <2>1 DEF Keeping
  <2>. QED BY <2>2
<1>2. ASSUME NEW k \in 0 .. n - 1, k \in S PROVE k + 1 \in S
  <2>1. PICK f : Keeping(f, symbols, k)
    BY <1>2
  <2>. DEFINE g == [m \in 1 .. k + 1 |-> IF m = k + 1 THEN (IF m = 1 THEN symbols[1] ELSE Later(f[k], symbols, m))
                                         ELSE f[m]]
              h == [m \in 1 .. k + 1 |-> IF m = 1 THEN symbols[1] ELSE Later(g[m - 1], symbols, m)]
  <2>2. ASSUME NEW m \in 1 .. k + 1 PROVE g[m] = h[m]
    <3>1. m # 1 => g[m - 1] = f[m - 1]
      <4>1. m # 1 => m - 1 \in 1 .. k
        OBVIOUS
      <4>. QED BY <4>1
    <3>2. h[m] = IF m = 1 THEN symbols[1] ELSE Later(g[m - 1], symbols, m)
      OBVIOUS
    <3>3. CASE m = k + 1
      <4>1. g[m] = IF m = 1 THEN symbols[1] ELSE Later(f[m - 1], symbols, m)
        BY <3>3
      <4>. HIDE DEF g, h
      <4>. QED BY <3>1, <3>2, <4>1
    <3>4. CASE m # k + 1
      <4>1. g[m] = f[m] /\ m \in 1 .. k
        BY <3>4
      <4>2. f[m] = IF m = 1 THEN symbols[1] ELSE Later(f[m - 1], symbols, m)
        BY <2>1, <4>1 DEF Keeping
      <4>. HIDE DEF g, h
      <4>. QED BY <3>1, <3>2, <4>1, <4>2
    <3>. QED BY <3>3, <3>4
  <2>3. g = [m \in 1 .. k + 1 |-> g[m]] /\ h = [m \in 1 .. k + 1 |-> h[m]]
    OBVIOUS
  <2>4. g = h
    <3>. HIDE DEF g, h
    <3>. QED BY <2>2, <2>3
  <2>5. Keeping(g, symbols, k + 1)
    BY <2>4 DEF Keeping
  <2>. HIDE DEF g
  <2>. QED BY <2>5
<1>. HIDE DEF S
<1>3. n \in S
  <2>1. n \in 0 .. n
    OBVIOUS
  <2>. QED BY <1>1, <1>2, <2>1, Onwards
<1>. QED BY <1>3 DEF S

\* What is kept of some symbols is one of them, and one with a container if any has.
LEMMA OneIsKept ==
    ASSUME NEW symbols, Len(symbols) \in Nat, Len(symbols) > 0
    PROVE  /\ \E j \in 1 .. Len(symbols) : deduplicate_symbols(symbols) = symbols[j]
           /\ \A k \in 1 .. Len(symbols) :
                symbols[k].container # None => deduplicate_symbols(symbols).container # None
<1>. DEFINE N == Len(symbols)
            kept == CHOOSE f : f = [k \in 1 .. N |-> IF k = 1 THEN symbols[1] ELSE Later(f[k - 1], symbols, k)]
<1>1. deduplicate_symbols(symbols) = kept[N]
  BY Zenon DEF deduplicate_symbols, Later
<1>2. Keeping(kept, symbols, N)
  <2>1. \E f : Keeping(f, symbols, N)
    BY KeepingExists
  <2>. QED BY <2>1, Zenon DEF Keeping
<1>. HIDE DEF kept
<1>3. ASSUME NEW k \in 1 .. N PROVE kept[k] = IF k = 1 THEN symbols[1] ELSE Later(kept[k - 1], symbols, k)
  BY <1>2 DEF Keeping
<1>. DEFINE Good(k) == /\ \E j \in 1 .. N : kept[k] = symbols[j]
                       /\ \A m \in 1 .. k : symbols[m].container # None => kept[k].container # None
            S == {k \in 0 .. N : k = 0 \/ Good(k)}
<1>. HIDE DEF N
<1>4. N \in Nat /\ N > 0
  BY DEF N
<1>5. 0 \in S
  BY <1>4
<1>6. ASSUME NEW k \in 0 .. N - 1, k \in S PROVE k + 1 \in S
  <2>1. k + 1 \in 1 .. N /\ k + 1 - 1 = k
    BY <1>4
  <2>2. CASE k = 0
    <3>1. kept[1] = symbols[1]
      BY <1>3, <2>1, <2>2
    <3>2. Good(1)
      BY <2>1, <2>2, <3>1
    <3>. QED BY <2>1, <2>2, <3>2
  <2>3. CASE k # 0
    <3>0. Good(k)
      BY <1>6, <2>3
    <3>1. Good(k) /\ kept[k + 1] = Later(kept[k], symbols, k + 1)
      <4>1. k + 1 # 1
        BY <1>4, <2>3
      <4>. HIDE DEF Good
      <4>. QED BY <1>3, <2>1, <3>0, <4>1
    <3>2. \E j \in 1 .. N : kept[k + 1] = symbols[j]
      BY <2>1, <3>1 DEF Later
    <3>3. ASSUME NEW m \in 1 .. k + 1, symbols[m].container # None
          PROVE  kept[k + 1].container # None
      <4>1. CASE m = k + 1
        BY <3>1, <3>3, <4>1 DEF Later
      <4>2. CASE m \in 1 .. k
        <5>1. kept[k].container # None
          BY <3>1, <3>3, <4>2
        <5>. QED BY <3>1, <5>1 DEF Later
      <4>. QED BY <4>1, <4>2
    <3>. QED BY <2>1, <3>2, <3>3
  <2>. QED BY <2>2, <2>3
<1>. HIDE DEF S
<1>7. N \in S
  <2>1. N \in 0 .. N
    BY <1>4
  <2>. QED BY <1>4, <1>5, <1>6, <2>1, Onwards
<1>. QED BY <1>1, <1>4, <1>7 DEF S, N

\* Whatever becomes of a node is one of its matches.
LEMMA OutcomeIs ==
    ASSUME NEW grammar \in Grammars, NEW tree, NEW n, NEW s \in QueryOutcomes(grammar, tree, n)
    PROVE  \E r \in Matches(grammar, tree, n) :
             /\ s = Captured(grammar, tree, n, r)
             /\ \A q \in Matches(grammar, tree, n) :
                  Captured(grammar, tree, n, q).container # None => s.container # None
<1>. DEFINE M == Matches(grammar, tree, n)
            C == Cardinality(M)
            Symbols_(f) == [k \in DOMAIN f |-> Captured(grammar, tree, n, f[k])]
<1>1. M # {} /\ \E f \in [1 .. C -> M] : ToSet(f) = M /\ s = deduplicate_symbols(Symbols_(f))
  BY DEF QueryOutcomes
<1>2. PICK f \in [1 .. C -> M] : ToSet(f) = M /\ s = deduplicate_symbols(Symbols_(f))
  BY <1>1
<1>3. C \in Nat /\ C > 0
  <2>1. IsFiniteSet(Query(grammar)) /\ M \subseteq Query(grammar)
    BY QueryIsFinite DEF Matches
  <2>2. IsFiniteSet(M)
    BY <2>1, FS_Subset
  <2>. HIDE DEF M
  <2>. QED BY <1>1, <2>2, FS_CardinalityType, FS_EmptySet
<1>. HIDE DEF C, M
<1>4. Len(Symbols_(f)) = C /\ \A k \in 1 .. C : Symbols_(f)[k] = Captured(grammar, tree, n, f[k]) /\ f[k] \in M
  <2>1. DOMAIN f = 1 .. C
    OBVIOUS
  <2>2. Symbols_(f) = [k \in 1 .. C |-> Captured(grammar, tree, n, f[k])]
    BY <2>1
  <2>. QED BY <1>3, <2>1, <2>2
<1>5. \A q \in M : \E k \in 1 .. C : f[k] = q
  BY <1>2 DEF ToSet
<1>. HIDE DEF Symbols_
<1>6. /\ \E j \in 1 .. C : s = Symbols_(f)[j]
      /\ \A k \in 1 .. C : Symbols_(f)[k].container # None => s.container # None
  BY <1>2, <1>3, <1>4, OneIsKept
<1>7. PICK j \in 1 .. C : s = Symbols_(f)[j]
  BY <1>6
<1>8. f[j] \in M /\ s = Captured(grammar, tree, n, f[j])
  BY <1>4, <1>7
<1>9. ASSUME NEW q \in M, Captured(grammar, tree, n, q).container # None PROVE s.container # None
  BY <1>4, <1>5, <1>6, <1>9
<1>. QED BY <1>8, <1>9 DEF M

\* The symbol of a match, by the rule's kind.
LEMMA CapturedIs ==
    ASSUME NEW grammar, NEW tree, NEW n, NEW r
    PROVE  LET s == Captured(grammar, tree, n, r)
               scope == find_enclosing_scope(grammar, tree, n)
           IN  /\ s.node = n /\ s.line = NameLine(tree, n) /\ s.def_keyword = def_keyword(grammar, r.suffix)
               /\ r.suffix \in {"local", "parameter"} /\ scope # None =>
                    s.depth = scope.depth /\ s.scope_end = scope.end
               /\ ~(r.suffix \in {"local", "parameter"} /\ scope # None) =>
                    /\ s.scope_end = None
                    /\ IF r.contained THEN s.container = tree[tree[n].parent].name /\ s.depth = 1
                       ELSE s.container = None /\ s.depth = 0
BY DEF Captured, Symbol

\* The member's rule wins over the general one: what they capture is all that
\* may be captured of a member, and only one of them has a container.
LEMMA MembersKept ==
    ASSUME NEW grammar \in Grammars, NEW tree, IsTree(tree)
    PROVE  MembersKeepTheirType(grammar, tree)
<1>. SUFFICES ASSUME NEW n \in Nodes(tree), NEW r \in Matches(grammar, tree, n), r.contained,
                     NEW s \in QueryOutcomes(grammar, tree, n)
              PROVE  s.container = tree[tree[n].parent].name /\ s.depth = 1
  BY DEF MembersKeepTheirType
<1>. DEFINE name == tree[tree[n].parent].name
<1>1. ASSUME NEW q \in Matches(grammar, tree, n) PROVE RuleOK(q) /\ q.kind = Kind(tree, n)
  BY RulesAre DEF Matches
<1>2. Kind(tree, n) \notin Declarations \cup {"parameter"} /\ r.in # Anywhere /\ "root" \notin r.in
  BY <1>1 DEF RuleOK
<1>3. name # None
  <2>1. Kind(tree, tree[n].parent) \in r.in
    BY <1>2 DEF Matches, ParentKind
  <2>2. tree[n].parent # 0
    BY <1>2, <2>1 DEF Kind
  <2>3. tree[n].parent \in Nodes(tree)
    BY <2>2, ParentIs
  <2>. QED BY <2>3, ParentIs
<1>4. ASSUME NEW q \in Matches(grammar, tree, n)
      PROVE  LET t == Captured(grammar, tree, n, q)
             IN  IF q.contained THEN t.container = name /\ t.depth = 1 ELSE t.container = None /\ t.depth = 0
  <2>1. q.suffix \notin {"local", "parameter"}
    BY <1>1, <1>2 DEF RuleOK
  <2>. QED BY <2>1, CapturedIs
<1>5. PICK q \in Matches(grammar, tree, n) :
        /\ s = Captured(grammar, tree, n, q)
        /\ \A o \in Matches(grammar, tree, n) : Captured(grammar, tree, n, o).container # None => s.container # None
  BY OutcomeIs
<1>6. s.container # None
  BY <1>3, <1>4, <1>5
<1>. QED BY <1>4, <1>5, <1>6

-----------------------------------------------------------------------------
(* What may be extracted: from the queries, and by the walkers. *)

Fields == {"name", "node", "line", "kind", "def_keyword", "visibility", "container", "depth", "scope_end"}

LEMMA CapturedFields ==
    ASSUME NEW grammar, NEW tree, NEW n, NEW r
    PROVE  DOMAIN Captured(grammar, tree, n, r) = Fields
BY DEF Captured, Symbol, Fields

LEMMA ProcessedIs ==
    ASSUME NEW grammar, NEW tree, NEW s, DOMAIN s = Fields
    PROVE  LET t == PostProcessed(grammar, tree, s)
           IN  /\ t.node = s.node /\ t.line = s.line /\ t.depth = s.depth /\ t.scope_end = s.scope_end
               /\ grammar \notin {"Python", "Js", "Ts"} => t.def_keyword = s.def_keyword
<1>. DEFINE Then(kind, keyword, visibility, container) ==
        [s EXCEPT !.kind = kind, !.def_keyword = keyword, !.visibility = visibility, !.container = container]
<1>1. ASSUME NEW k, NEW w, NEW v, NEW c
      PROVE  /\ Then(k, w, v, c).node = s.node /\ Then(k, w, v, c).line = s.line
             /\ Then(k, w, v, c).depth = s.depth /\ Then(k, w, v, c).scope_end = s.scope_end
             /\ Then(k, w, v, c).def_keyword = w
  BY DEF Fields
<1>2. \E k, w, v, c : /\ PostProcessed(grammar, tree, s) = Then(k, w, v, c)
                      /\ grammar \notin {"Python", "Js", "Ts"} => w = s.def_keyword
  BY DEF PostProcessed
<1>. HIDE DEF Then
<1>. QED BY <1>1, <1>2

\* A symbol of the queries: which match it was, and what of it is left.
FromQuery(grammar, tree, s) ==
    \E n \in Nodes(tree) : \E r \in Matches(grammar, tree, n) :
        LET t == Captured(grammar, tree, n, r)
        IN  /\ s.node = n /\ s.line = NameLine(tree, n) /\ s.depth = t.depth /\ s.scope_end = t.scope_end
            /\ grammar \notin {"Python", "Js", "Ts"} => s.def_keyword = t.def_keyword

LEMMA SymbolIs ==
    ASSUME NEW grammar \in Grammars, NEW tree, NEW s \in Symbols(grammar, tree)
    PROVE  FromQuery(grammar, tree, s) \/ s \in Walked(grammar, tree)
<1>1. CASE s \in Walked(grammar, tree)
  BY <1>1
<1>2. CASE s \notin Walked(grammar, tree)
  <2>0. PICK n \in Nodes(tree) : \E t \in QueryOutcomes(grammar, tree, n) : s = PostProcessed(grammar, tree, t)
    BY <1>2 DEF Symbols
  <2>1. PICK t \in QueryOutcomes(grammar, tree, n) : s = PostProcessed(grammar, tree, t)
    BY <2>0
  <2>2. PICK r \in Matches(grammar, tree, n) : t = Captured(grammar, tree, n, r)
    BY OutcomeIs
  <2>3. /\ s.node = t.node /\ s.line = t.line /\ s.depth = t.depth /\ s.scope_end = t.scope_end
        /\ grammar \notin {"Python", "Js", "Ts"} => s.def_keyword = t.def_keyword
    BY <2>1, <2>2, CapturedFields, ProcessedIs
  <2>4. t.node = n /\ t.line = NameLine(tree, n)
    BY <2>2, CapturedIs
  <2>. QED BY <2>2, <2>3, <2>4 DEF FromQuery
<1>. QED BY <1>1, <1>2

\* What each walker makes of a node, as one symbol.
PointerSymbol(tree, n) == Symbol(tree, n, "TypeAlias", "typedef", None, 0, None)
VariantSymbol(tree, n) == Symbol(tree, n, "Constant", "enum", None, 0, None)
FieldSymbol(tree, n) == Symbol(tree, n, "Variable", "field", tree[tree[n].parent].name, 1, None)
VariableSymbol(tree, n) == Symbol(tree, n, "Variable", "variable", None, 0, None)
ParameterSymbol(tree, n) ==
    Symbol(tree, n, "Variable", "parameter", tree[tree[n].parent].name, 1, EndLine(tree, tree[n].parent))
LocalSymbol(tree, f, n) ==
    Symbol(tree, n, "Variable", "variable", FunctionName(tree, f), 1 + Cardinality(Blocks(tree, f, n)),
           ScopeEnd(tree, f, n))
MemberSymbol(tree, n, kind, keyword) ==
    [Symbol(tree, n, kind, keyword, tree[tree[n].parent].name, 1, None) EXCEPT !.visibility = Access(tree, n)]

LocalIn(tree, f, n) ==
    /\ f \in Functions(tree) /\ n \in Nodes(tree) /\ f \in Ancestors(tree, n)
    /\ \A a \in Between(tree, f, n) :
         Kind(tree, a) \in BlockKinds \/ (Kind(tree, a) = "other" /\ has_nested_declarations(tree, a))

\* The symbols of each walker.
IsPointer(tree, s, n) == Kind(tree, n) = "fnptr" /\ s = PointerSymbol(tree, n)
IsVariable(tree, s, n) == Kind(tree, n) = "let" /\ AtFileScope(tree, n) /\ s = VariableSymbol(tree, n)
IsParameter(tree, s, n) ==
    Kind(tree, n) = "parameter" /\ tree[n].parent \in Functions(tree) /\ s = ParameterSymbol(tree, n)
IsLocal_(tree, s, n) ==
    Kind(tree, n) = "let" /\ \E f : LocalIn(tree, f, n) /\ s = LocalSymbol(tree, f, n)
IsMember(grammar, tree, s, n) ==
    /\ Matches(grammar, tree, n) = {}
    /\ \/ grammar = "C" /\ Kind(tree, n) = "variant" /\ s = VariantSymbol(tree, n)
       \/ grammar = "C" /\ Kind(tree, n) = "field" /\ s = FieldSymbol(tree, n)
       \/ grammar = "Cpp" /\ Kind(tree, n) = "field" /\ s = MemberSymbol(tree, n, "Variable", "field")
       \/ grammar = "Cpp" /\ Kind(tree, n) = "method" /\ s = MemberSymbol(tree, n, "Method", "method")

LEMMA SymbolAt ==
    ASSUME NEW tree, NEW n, NEW k, NEW w, NEW c, NEW d, NEW e
    PROVE  LET s == Symbol(tree, n, k, w, c, d, e)
           IN  s.node = n /\ s.line = NameLine(tree, n) /\ s.def_keyword = w /\ s.depth = d /\ s.scope_end = e
BY DEF Symbol

LEMMA MemberAt ==
    ASSUME NEW tree, NEW n, NEW k, NEW w
    PROVE  LET s == MemberSymbol(tree, n, k, w)
           IN  s.node = n /\ s.line = NameLine(tree, n) /\ s.def_keyword = w /\ s.depth = 1 /\ s.scope_end = None
BY DEF Symbol, MemberSymbol

LEMMA WalkedIs ==
    ASSUME NEW grammar \in Grammars, NEW tree, NEW s \in Walked(grammar, tree)
    PROVE  /\ grammar \in {"C", "Cpp"}
           /\ \E n \in Nodes(tree) :
                \/ IsPointer(tree, s, n) \/ IsVariable(tree, s, n) \/ IsParameter(tree, s, n)
                \/ IsLocal_(tree, s, n) \/ IsMember(grammar, tree, s, n)
<1>0. grammar \in {"C", "Cpp"}
  BY DEF Walked
<1>1. CASE s \in FunctionPointers(tree)
  <2>1. \E n \in Nodes(tree) : IsPointer(tree, s, n)
    BY <1>1 DEF FunctionPointers, IsPointer, PointerSymbol
  <2>. QED BY <1>0, <2>1
<1>2. CASE s \in FileScopeVars(tree)
  <2>1. \E n \in Nodes(tree) : IsVariable(tree, s, n)
    BY <1>2 DEF FileScopeVars, IsVariable, VariableSymbol, IsDeclaration
  <2>. QED BY <1>0, <2>1
<1>3. CASE s \in Parameters(tree)
  <2>1. \E n \in Nodes(tree) : IsParameter(tree, s, n)
    BY <1>3 DEF Parameters, IsParameter, ParameterSymbol
  <2>. QED BY <1>0, <2>1
<1>4. CASE s \in BlockLocals(tree)
  <2>1. PICK f \in Functions(tree) : s \in BodyLocals(tree, f)
    BY <1>4 DEF BlockLocals
  <2>2. \E n \in Nodes(tree) : IsLocal_(tree, s, n)
    BY <2>1 DEF BodyLocals, IsLocal_, LocalSymbol, LocalIn, IsDeclaration
  <2>. QED BY <1>0, <2>2
<1>5. CASE grammar = "C" /\ s \in TypedefMembers(grammar, tree)
  <2>1. \E n \in Nodes(tree) : IsMember(grammar, tree, s, n)
    BY <1>5 DEF TypedefMembers, IsMember, VariantSymbol, FieldSymbol
  <2>. QED BY <1>0, <2>1
<1>6. CASE grammar = "Cpp" /\ s \in ClassMembers(grammar, tree)
  <2>1. \E n \in Nodes(tree) : IsMember(grammar, tree, s, n)
    BY <1>6 DEF ClassMembers, IsMember, MemberSymbol
  <2>. QED BY <1>0, <2>1
<1>. QED BY <1>0, <1>1, <1>2, <1>3, <1>4, <1>5, <1>6 DEF Walked

\* A local is in one function that the walkers go into, and is not at file scope.
LEMMA OneFunction ==
    ASSUME NEW tree, IsTree(tree), NEW n \in Nodes(tree), NEW f, LocalIn(tree, f, n)
    PROVE  /\ \A g : LocalIn(tree, g, n) => g = f
           /\ ~AtFileScope(tree, n)
<1>1. \A g : LocalIn(tree, g, n) => /\ g \in Functions(tree) /\ g \in Ancestors(tree, n) /\ g \in Nat
                                    /\ Kind(tree, g) \in {"function", "method", "qualified"}
                                    /\ AllAncestorsIn(tree, g, Entered)
  BY AncestorsBelow, ParentIs DEF LocalIn, Functions
<1>2. \A g, h : LocalIn(tree, g, n) /\ LocalIn(tree, h, n) => ~(g < h)
  <2>. SUFFICES ASSUME NEW g, NEW h, LocalIn(tree, g, n), LocalIn(tree, h, n), g < h PROVE FALSE
    OBVIOUS
  <2>1. g \in Ancestors(tree, h)
    BY <1>1, AncestorsChain
  <2>2. Kind(tree, g) \in Entered
    BY <1>1, <2>1 DEF AllAncestorsIn
  <2>. QED BY <1>1, <2>2 DEF Entered
<1>3. ASSUME NEW g, LocalIn(tree, g, n) PROVE g = f
  <2>1. g \in Nat /\ f \in Nat /\ ~(g < f) /\ ~(f < g)
    BY <1>1, <1>2, <1>3
  <2>. QED BY <2>1
<1>4. ~AtFileScope(tree, n)
  BY <1>1 DEF AtFileScope, AllAncestorsIn
<1>. QED BY <1>3, <1>4

\* The queries of C and C++ see neither variables nor parameters.
LEMMA CRules ==
    ASSUME NEW r \in Query("C") \cup Query("Cpp")
    PROVE  r.kind \notin {"fnptr", "let", "parameter"} /\ r.suffix \notin {"local", "parameter"}
<1>1. r \in C_QUERY \cup CPP_QUERY
  BY DEF Query
<1>2. CASE r \in C_QUERY
  BY <1>2, Makes DEF C_QUERY, AsNamed
<1>3. CASE r \in CPP_QUERY
  BY <1>3, Makes DEF CPP_QUERY, AsNamed
<1>. QED BY <1>1, <1>2, <1>3

LEMMA WalkedAt ==
    ASSUME NEW grammar \in Grammars, NEW tree, NEW s \in Walked(grammar, tree)
    PROVE  /\ s.node \in Nodes(tree) /\ Kind(tree, s.node) # "typedef"
           /\ s.line = StartLine(tree, s.node) /\ Matches(grammar, tree, s.node) = {}
           /\ \/ IsPointer(tree, s, s.node) \/ IsVariable(tree, s, s.node) \/ IsParameter(tree, s, s.node)
              \/ IsLocal_(tree, s, s.node) \/ IsMember(grammar, tree, s, s.node)
<1>1. PICK n \in Nodes(tree) :
        \/ IsPointer(tree, s, n) \/ IsVariable(tree, s, n) \/ IsParameter(tree, s, n)
        \/ IsLocal_(tree, s, n) \/ IsMember(grammar, tree, s, n)
  BY WalkedIs
<1>2. s.node = n /\ s.line = NameLine(tree, n)
  BY <1>1, SymbolAt, MemberAt
     DEF IsPointer, IsVariable, IsParameter, IsLocal_, IsMember, PointerSymbol, VariableSymbol, ParameterSymbol,
         LocalSymbol, VariantSymbol, FieldSymbol
<1>3. Kind(tree, n) \in {"fnptr", "let", "parameter", "variant", "field", "method"}
  BY <1>1 DEF IsPointer, IsVariable, IsParameter, IsLocal_, IsMember
<1>4. Matches(grammar, tree, n) = {}
  <2>1. CASE IsMember(grammar, tree, s, n)
    BY <2>1 DEF IsMember
  <2>2. CASE ~IsMember(grammar, tree, s, n)
    <3>1. Kind(tree, n) \in {"fnptr", "let", "parameter"} /\ grammar \in {"C", "Cpp"}
      BY <1>1, <2>2, WalkedIs DEF IsPointer, IsVariable, IsParameter, IsLocal_
    <3>. QED BY <3>1, CRules DEF Matches
  <2>. QED BY <2>1, <2>2
<1>. QED BY <1>1, <1>2, <1>3, <1>4 DEF NameLine

LEMMA OnePerName ==
    ASSUME NEW grammar \in Grammars, NEW tree, IsTree(tree)
    PROVE  OneSymbolPerName(grammar, tree)
<1>1. ASSUME NEW s \in Walked(grammar, tree), NEW t \in Walked(grammar, tree), s.node = t.node
      PROVE  s = t
  <2>. DEFINE n == s.node
  <2>1. n \in Nodes(tree)
        /\ \/ IsPointer(tree, s, n) \/ IsVariable(tree, s, n) \/ IsParameter(tree, s, n)
           \/ IsLocal_(tree, s, n) \/ IsMember(grammar, tree, s, n)
    BY WalkedAt
  <2>2. \/ IsPointer(tree, t, n) \/ IsVariable(tree, t, n) \/ IsParameter(tree, t, n)
        \/ IsLocal_(tree, t, n) \/ IsMember(grammar, tree, t, n)
    BY <1>1, WalkedAt
  <2>. HIDE DEF n
  <2>3. CASE IsPointer(tree, s, n)
    BY <2>2, <2>3 DEF IsPointer, IsVariable, IsParameter, IsLocal_, IsMember
  <2>4. CASE IsVariable(tree, s, n)
    <3>1. ~IsLocal_(tree, t, n)
      BY <2>1, <2>4, OneFunction DEF IsVariable, IsLocal_
    <3>. QED BY <2>2, <2>4, <3>1 DEF IsPointer, IsVariable, IsParameter, IsMember
  <2>5. CASE IsParameter(tree, s, n)
    BY <2>2, <2>5 DEF IsPointer, IsVariable, IsParameter, IsLocal_, IsMember
  <2>6. CASE IsLocal_(tree, s, n)
    <3>1. IsLocal_(tree, t, n)
      <4>1. ~IsVariable(tree, t, n)
        BY <2>1, <2>6, OneFunction DEF IsVariable, IsLocal_
      <4>. QED BY <2>2, <2>6, <4>1 DEF IsPointer, IsParameter, IsLocal_, IsMember
    <3>2. PICK f : LocalIn(tree, f, n) /\ s = LocalSymbol(tree, f, n)
      BY <2>6 DEF IsLocal_
    <3>3. PICK g : LocalIn(tree, g, n) /\ t = LocalSymbol(tree, g, n)
      BY <3>1 DEF IsLocal_
    <3>4. f = g
      BY <2>1, <3>2, <3>3, OneFunction
    <3>. QED BY <3>2, <3>3, <3>4
  <2>7. CASE IsMember(grammar, tree, s, n)
    BY <2>2, <2>7 DEF IsPointer, IsVariable, IsParameter, IsLocal_, IsMember
  <2>. QED BY <2>1, <2>3, <2>4, <2>5, <2>6, <2>7
<1>2. ASSUME NEW n \in Nodes(tree)
      PROVE  Cardinality({s \in Walked(grammar, tree) : s.node = n}) <= 1
  <2>. DEFINE S == {s \in Walked(grammar, tree) : s.node = n}
  <2>2. \A s, t \in S : s = t
    BY <1>1
  <2>. HIDE DEF S
  <2>3. S = {} \/ \E s : S = {s}
    BY <2>2
  <2>4. Cardinality(S) = 0 \/ Cardinality(S) = 1
    BY <2>3, FS_EmptySet, FS_Singleton
  <2>. QED BY <2>4 DEF S
<1>3. \A s \in Walked(grammar, tree) : Matches(grammar, tree, s.node) = {}
  BY WalkedAt
<1>. QED BY <1>2, <1>3 DEF OneSymbolPerName

-----------------------------------------------------------------------------
(* Scopes. *)

\* What has a scope ends with the innermost one around it, and is as deep as
\* there are scopes around it.
Scoped(grammar, tree, s) ==
    /\ s.node \in Nodes(tree) /\ Scopes(grammar, tree, s.node) # {}
    /\ s.line = StartLine(tree, s.node)
    /\ s.depth = Cardinality(Scopes(grammar, tree, s.node))
    /\ s.scope_end = EndLine(tree, Max(Scopes(grammar, tree, s.node)))

LEMMA QueryScoped ==
    ASSUME NEW grammar \in Grammars, NEW tree, IsTree(tree), NEW s, FromQuery(grammar, tree, s), s.scope_end # None
    PROVE  Scoped(grammar, tree, s)
<1>1. PICK n \in Nodes(tree) : \E r \in Matches(grammar, tree, n) :
        LET t == Captured(grammar, tree, n, r)
        IN  s.node = n /\ s.line = NameLine(tree, n) /\ s.depth = t.depth /\ s.scope_end = t.scope_end
  BY DEF FromQuery
<1>2. PICK r \in Matches(grammar, tree, n) :
        LET t == Captured(grammar, tree, n, r)
        IN  s.node = n /\ s.line = NameLine(tree, n) /\ s.depth = t.depth /\ s.scope_end = t.scope_end
  BY <1>1
<1>3. /\ r.suffix \in {"local", "parameter"} /\ find_enclosing_scope(grammar, tree, n) # None
      /\ s.depth = find_enclosing_scope(grammar, tree, n).depth /\ s.scope_end = find_enclosing_scope(grammar, tree, n).end
  BY <1>2, CapturedIs
<1>4. Kind(tree, n) \in Declarations \cup {"parameter"}
  BY <1>3, RulesAre DEF Matches, RuleOK
<1>5. grammar \notin {"C", "Cpp"}
  BY <1>3, CRules DEF Matches
<1>6. Scopes(grammar, tree, n) = {a \in Ancestors(tree, n) : Kind(tree, a) \in ScopeKinds(grammar)}
  BY <1>5 DEF Scopes, FunctionKinds
<1>7. /\ Scopes(grammar, tree, n) # {} /\ s.depth = Cardinality(Scopes(grammar, tree, n))
      /\ s.scope_end = EndLine(tree, Max(Scopes(grammar, tree, n)))
  BY <1>3, <1>6 DEF find_enclosing_scope
<1>. QED BY <1>2, <1>4, <1>7 DEF Scoped, NameLine, Declarations

\* The scopes around what is in a function of C or C++.
LEMMA FunctionScopes ==
    ASSUME NEW grammar \in {"C", "Cpp"}, NEW tree, IsTree(tree), NEW n \in Nodes(tree), NEW f \in Functions(tree),
           f \in Ancestors(tree, n),
           \A a \in Between(tree, f, n) : Kind(tree, a) \in BlockKinds \cup {"other"}
    PROVE  /\ Scopes(grammar, tree, n) = {f} \cup Blocks(tree, f, n)
           /\ Cardinality(Scopes(grammar, tree, n)) = 1 + Cardinality(Blocks(tree, f, n))
<1>1. /\ f \in Nodes(tree) /\ Kind(tree, f) \in {"function", "method", "qualified"}
      /\ \A a \in Ancestors(tree, f) : Kind(tree, a) \in Entered
  BY DEF Functions, AllAncestorsIn
<1>2. ASSUME NEW a \in Ancestors(tree, n)
      PROVE  a = f \/ a \in Ancestors(tree, f) \/ a \in Between(tree, f, n)
  <2>1. a \in Nat /\ f \in Nat
    BY <1>1, AncestorsBelow, ParentIs
  <2>2. a < f => a \in Ancestors(tree, f)
    BY AncestorsChain
  <2>3. f < a => f \in Ancestors(tree, a)
    BY AncestorsChain
  <2>. QED BY <2>1, <2>2, <2>3 DEF Between
<1>3. \A a : a \in Scopes(grammar, tree, n) <=>
             /\ a \in Ancestors(tree, n)
             /\ Kind(tree, a) \in {"function", "method", "qualified", "block", "control"}
  BY DEF Scopes, FunctionKinds
<1>4. Scopes(grammar, tree, n) = {f} \cup Blocks(tree, f, n)
  <2>1. ASSUME NEW a \in Scopes(grammar, tree, n) PROVE a = f \/ a \in Blocks(tree, f, n)
    <3>1. a \in Ancestors(tree, n) /\ Kind(tree, a) \in {"function", "method", "qualified", "block", "control"}
      BY <1>3, <2>1
    <3>2. a \notin Ancestors(tree, f)
      BY <1>1, <3>1 DEF Entered
    <3>. QED BY <1>2, <3>1, <3>2 DEF Blocks, BlockKinds
  <2>2. \A a \in Blocks(tree, f, n) : a \in Ancestors(tree, n) /\ Kind(tree, a) \in BlockKinds
    BY DEF Blocks, Between
  <2>. QED BY <1>1, <1>3, <2>1, <2>2 DEF BlockKinds
<1>5. f \notin Blocks(tree, f, n) /\ IsFiniteSet(Blocks(tree, f, n))
  <2>1. f \notin Ancestors(tree, f) /\ Blocks(tree, f, n) \subseteq Ancestors(tree, n)
    BY <1>1, AncestorsBelow, ParentIs DEF Blocks, Between
  <2>. QED BY <2>1, AncestorsGrow, FS_Subset DEF Blocks, Between
<1>6. Cardinality(Blocks(tree, f, n) \cup {f}) = Cardinality(Blocks(tree, f, n)) + 1
  BY <1>5, FS_AddElement
<1>7. Cardinality(Blocks(tree, f, n)) \in Nat
  BY <1>5, FS_CardinalityType
<1>8. Scopes(grammar, tree, n) = Blocks(tree, f, n) \cup {f}
  BY <1>4
<1>9. Cardinality(Scopes(grammar, tree, n)) = Cardinality(Blocks(tree, f, n)) + 1
  BY <1>6, <1>8
<1>10. Cardinality(Blocks(tree, f, n)) + 1 = 1 + Cardinality(Blocks(tree, f, n))
  BY <1>7
<1>. QED BY <1>4, <1>9, <1>10, Zenon

LEMMA WalkedScoped ==
    ASSUME NEW grammar \in Grammars, NEW tree, IsTree(tree), NEW s \in Walked(grammar, tree), s.scope_end # None
    PROVE  Scoped(grammar, tree, s)
<1>. DEFINE n == s.node
<1>1. n \in Nodes(tree) /\ s.line = StartLine(tree, n) /\ grammar \in {"C", "Cpp"}
      /\ \/ IsPointer(tree, s, n) \/ IsVariable(tree, s, n) \/ IsParameter(tree, s, n)
         \/ IsLocal_(tree, s, n) \/ IsMember(grammar, tree, s, n)
  BY WalkedAt, WalkedIs
<1>. HIDE DEF n
<1>2. IsParameter(tree, s, n) \/ IsLocal_(tree, s, n)
  BY <1>1, SymbolAt, MemberAt
     DEF IsPointer, IsVariable, IsMember, PointerSymbol, VariableSymbol, VariantSymbol, FieldSymbol
<1>3. CASE IsParameter(tree, s, n)
  <2>. DEFINE f == tree[n].parent
  <2>1. f \in Functions(tree) /\ s.depth = 1 /\ s.scope_end = EndLine(tree, f)
    BY <1>3, SymbolAt DEF IsParameter, ParameterSymbol
  <2>2. f # 0 /\ f \in Nodes(tree) /\ Ancestors(tree, n) = {f} \cup Ancestors(tree, f)
    BY <1>1, <2>1, AncestorsAre, ParentIs DEF Functions
  <2>. HIDE DEF f
  <2>3. Between(tree, f, n) = {}
    <3>0. f \in Nat /\ \A a \in Ancestors(tree, f) : a \in Nodes(tree) /\ a < f
      BY <2>2, AncestorsBelow, ParentIs
    <3>1. f \notin Ancestors(tree, f) /\ \A a \in Ancestors(tree, f) : a \in Nodes(tree) /\ a < f /\ a \in Nat
      BY <3>0, ParentIs
    <3>2. ASSUME NEW a \in Ancestors(tree, f) PROVE f \notin Ancestors(tree, a)
      <4>1. a \in Nodes(tree) /\ a < f /\ a \in Nat
        BY <3>1
      <4>2. \A x \in Ancestors(tree, a) : x < a
        BY <4>1, AncestorsBelow
      <4>. QED BY <3>0, <4>1, <4>2
    <3>. QED BY <2>2, <3>1, <3>2 DEF Between
  <2>4. Blocks(tree, f, n) = {} /\ f \in Ancestors(tree, n)
    BY <2>2, <2>3 DEF Blocks
  <2>5. Scopes(grammar, tree, n) = {f}
    BY <1>1, <2>1, <2>3, <2>4, FunctionScopes
  <2>6. Cardinality({f}) = 1
    BY FS_Singleton
  <2>7. Max({f}) = f
    <3>1. f \in Nat /\ {f} \in SUBSET (0 .. f) /\ {f} # {}
      BY <2>2, ParentIs
    <3>. QED BY <3>1, LargestOf
  <2>. QED BY <1>1, <2>1, <2>5, <2>6, <2>7 DEF Scoped, n
<1>4. CASE IsLocal_(tree, s, n)
  <2>1. PICK f : LocalIn(tree, f, n) /\ s = LocalSymbol(tree, f, n)
    BY <1>4 DEF IsLocal_
  <2>2. s.depth = 1 + Cardinality(Blocks(tree, f, n)) /\ s.scope_end = EndLine(tree, Max({f} \cup Blocks(tree, f, n)))
    BY <2>1, SymbolAt DEF LocalSymbol, ScopeEnd
  <2>3. /\ f \in Functions(tree) /\ f \in Ancestors(tree, n)
        /\ \A a \in Between(tree, f, n) : Kind(tree, a) \in BlockKinds \cup {"other"}
    BY <2>1 DEF LocalIn
  <2>4. Scopes(grammar, tree, n) = {f} \cup Blocks(tree, f, n)
        /\ Cardinality(Scopes(grammar, tree, n)) = 1 + Cardinality(Blocks(tree, f, n))
    BY <1>1, <2>3, FunctionScopes
  <2>. QED BY <1>1, <2>2, <2>4 DEF Scoped, n
<1>. QED BY <1>2, <1>3, <1>4

LEMMA SeenInScope ==
    ASSUME NEW grammar \in Grammars, NEW tree, IsTree(tree)
    PROVE  LocalsAreSeenInScope(grammar, tree)
<1>. DEFINE Around(n) == Scopes(grammar, tree, n)
<1>1. ASSUME NEW s \in Symbols(grammar, tree), s.scope_end # None PROVE Scoped(grammar, tree, s)
  BY <1>1, SymbolIs, QueryScoped, WalkedScoped
<1>2. ASSUME NEW n \in Nodes(tree), Scopes(grammar, tree, n) # {}
      PROVE  LET S == Scopes(grammar, tree, n)
             IN  /\ Max(S) \in S /\ \A a \in S : a <= Max(S)
                 /\ S \subseteq Ancestors(tree, n) /\ IsFiniteSet(S)
  <2>. DEFINE S == Scopes(grammar, tree, n)
  <2>1. S \subseteq Ancestors(tree, n)
    BY DEF Scopes
  <2>2. n \in Nat /\ S \in SUBSET (0 .. n)
    <3>1. \A a \in S : a \in Nat /\ a < n
      BY <2>1, AncestorsBelow, ParentIs
    <3>. QED BY <3>1, ParentIs
  <2>3. IsFiniteSet(S)
    BY <2>1, AncestorsGrow, FS_Subset
  <2>. HIDE DEF S
  <2>4. Max(S) \in S /\ \A a \in S : a <= Max(S)
    BY <1>2, <2>2, LargestOf DEF S
  <2>. QED BY <2>1, <2>3, <2>4 DEF S
<1>3. ASSUME NEW s \in Symbols(grammar, tree), s.scope_end # None, NEW n \in Nodes(tree), n > s.node
      PROVE  /\ Around(s.node) \subseteq Around(n) => OnLinesOf(s, NameLine(tree, n))
             /\ OnLinesOf(s, NameLine(tree, n)) =>
                  Around(s.node) \subseteq Around(n) \/ NameLine(tree, n) = s.scope_end
  <2>. DEFINE m == s.node
              a == Max(Around(m))
  <2>1. m \in Nodes(tree) /\ Around(m) # {} /\ s.line = StartLine(tree, m) /\ s.scope_end = EndLine(tree, a)
    BY <1>1, <1>3 DEF Scoped
  <2>2. a \in Around(m) /\ (\A x \in Around(m) : x <= a) /\ Around(m) \subseteq Ancestors(tree, m)
    BY <1>2, <2>1
  <2>3. a \in Ancestors(tree, m) /\ a \in Nodes(tree) /\ a < m
    BY <2>1, <2>2, AncestorsBelow
  <2>4. a \in Nat /\ m \in Nat /\ n \in Nat /\ m < n /\ a < n
    <3>1. n > m
      BY <1>3
    <3>. HIDE DEF m, a
    <3>2. a \in Nat /\ m \in Nat /\ n \in Nat
      BY <2>1, <2>3, ParentIs
    <3>. QED BY <2>3, <3>1, <3>2
  <2>5. /\ StartLine(tree, m) \in Nat /\ StartLine(tree, n) \in Nat /\ NameLine(tree, n) \in Nat
        /\ EndLine(tree, m) \in Nat /\ EndLine(tree, n) \in Nat /\ EndLine(tree, a) \in Nat
        /\ StartLine(tree, m) <= EndLine(tree, m)
        /\ StartLine(tree, n) <= NameLine(tree, n) /\ NameLine(tree, n) <= EndLine(tree, n)
    <3>1. StartLine(tree, m) <= NameLine(tree, m) /\ NameLine(tree, m) <= EndLine(tree, m) /\ NameLine(tree, m) \in Nat
      BY <2>1, RowsAre
    <3>. HIDE DEF m, a
    <3>2. EndLine(tree, a) \in Nat /\ StartLine(tree, m) \in Nat /\ EndLine(tree, m) \in Nat
      BY <2>1, <2>3, RowsAre
    <3>. QED BY <3>1, <3>2, RowsAre
  <2>6. StartLine(tree, m) <= StartLine(tree, n)
    <3>. HIDE DEF m, a
    <3>1. CASE m \in Ancestors(tree, n)
      BY <3>1, RowsAre
    <3>2. CASE m \notin Ancestors(tree, n)
      <4>1. EndLine(tree, m) <= StartLine(tree, n)
        BY <2>1, <2>4, <3>2, RowsAre
      <4>. QED BY <2>5, <4>1
    <3>. QED BY <3>1, <3>2
  <2>7. ASSUME Around(m) \subseteq Around(n) PROVE OnLinesOf(s, NameLine(tree, n))
    <3>. HIDE DEF m, a
    <3>1. a \in Ancestors(tree, n)
      BY <2>2, <2>7 DEF Scopes
    <3>2. EndLine(tree, n) <= EndLine(tree, a)
      BY <3>1, RowsAre
    <3>. QED BY <2>1, <2>5, <2>6, <3>2 DEF OnLinesOf
  <2>8. ASSUME OnLinesOf(s, NameLine(tree, n))
        PROVE  Around(m) \subseteq Around(n) \/ NameLine(tree, n) = s.scope_end
    <3>. HIDE DEF m, a
    <3>1. CASE a \in Ancestors(tree, n)
      <4>1. ASSUME NEW x \in Around(m) PROVE x \in Around(n)
        <5>1. x \in Ancestors(tree, m) /\ x <= a /\ x \in Nat
          BY <2>1, <2>2, AncestorsBelow, ParentIs
        <5>2. x = a \/ x \in Ancestors(tree, a)
          BY <2>1, <2>3, <2>4, <5>1, AncestorsChain
        <5>3. x \in Ancestors(tree, n)
          BY <3>1, <5>2, AncestorsChain
        <5>. QED BY <5>3 DEF Scopes
      <4>. QED BY <4>1
    <3>2. CASE a \notin Ancestors(tree, n)
      <4>1. EndLine(tree, a) <= StartLine(tree, n)
        BY <2>3, <2>4, <3>2, RowsAre
      <4>2. NameLine(tree, n) <= EndLine(tree, a)
        BY <2>1, <2>8 DEF OnLinesOf
      <4>. QED BY <2>1, <2>5, <4>1, <4>2
    <3>. QED BY <3>1, <3>2
  <2>. QED BY <2>7, <2>8
<1>4. ASSUME NEW s \in Symbols(grammar, tree), s.scope_end # None, NEW t \in Symbols(grammar, tree), t.scope_end # None,
             Scopes(grammar, tree, s.node) \subseteq Scopes(grammar, tree, t.node),
             Scopes(grammar, tree, s.node) # Scopes(grammar, tree, t.node)
      PROVE  t.scope_end <= s.scope_end /\ t.depth > s.depth
  <2>. DEFINE A == Scopes(grammar, tree, s.node)
              B == Scopes(grammar, tree, t.node)
              a == Max(A)
              b == Max(B)
  <2>1. Scoped(grammar, tree, s) /\ Scoped(grammar, tree, t)
    BY <1>1, <1>4
  <2>2. /\ a \in A /\ A \subseteq Ancestors(tree, s.node)
        /\ b \in B /\ (\A x \in B : x <= b) /\ B \subseteq Ancestors(tree, t.node) /\ IsFiniteSet(B)
    BY <1>2, <2>1 DEF Scoped
  <2>3. s.node \in Nodes(tree) /\ t.node \in Nodes(tree) /\ A \subseteq B /\ A # B
    BY <1>4, <2>1 DEF Scoped
  <2>4. \A x \in B : x \in Nodes(tree) /\ x \in Nat
    BY <2>2, <2>3, AncestorsBelow, ParentIs
  <2>6. a # b
    <3>. SUFFICES ASSUME a = b PROVE FALSE
      OBVIOUS
    <3>1. PICK x \in B : x \notin A
      BY <2>3
    <3>2. x < b
      BY <2>2, <2>4, <3>1
    <3>3. x \in Ancestors(tree, b)
      BY <2>2, <2>3, <3>2, AncestorsChain
    <3>4. x \in Ancestors(tree, s.node)
      BY <2>2, <2>3, <3>3, AncestorsChain
    <3>. QED BY <3>1, <3>4 DEF Scopes
  <2>7. a \in Ancestors(tree, b)
    <3>1. a \in B /\ a < b
      BY <2>2, <2>3, <2>4, <2>6
    <3>. QED BY <2>2, <2>3, <3>1, AncestorsChain
  <2>8. EndLine(tree, b) <= EndLine(tree, a)
    BY <2>2, <2>4, <2>7, RowsAre
  <2>9. Cardinality(A) < Cardinality(B)
    <3>1. Cardinality(A) \in Nat /\ Cardinality(B) \in Nat
      BY <2>2, <2>3, FS_Subset, FS_CardinalityType
    <3>. QED BY <2>2, <2>3, <3>1, FS_Subset
  <2>10. Cardinality(A) \in Nat /\ Cardinality(B) \in Nat
    BY <2>2, <2>3, FS_Subset, FS_CardinalityType
  <2>. QED BY <2>1, <2>8, <2>9, <2>10 DEF Scoped
<1>. HIDE DEF Around
<1>5. \A s \in Symbols(grammar, tree) : s.scope_end # None => \A n \in Nodes(tree) : n > s.node =>
        /\ Around(s.node) \subseteq Around(n) => OnLinesOf(s, NameLine(tree, n))
        /\ OnLinesOf(s, NameLine(tree, n)) => Around(s.node) \subseteq Around(n) \/ NameLine(tree, n) = s.scope_end
  BY <1>3
<1>. QED BY <1>4, <1>5 DEF LocalsAreSeenInScope, Around

LEMMA RustLocals ==
    ASSUME NEW r \in Query("Rust"), r.kind \in {"let", "parameter"}
    PROVE  r.suffix \in {"local", "parameter"} /\ def_keyword("Rust", r.suffix) \in {"variable", "parameter"}
<1>1. r \in RUST_QUERY
  BY DEF Query
<1>2. r.suffix \in {"local", "parameter"}
  BY <1>1, Makes DEF RUST_QUERY, AsNamed
<1>3. def_keyword("Rust", r.suffix) \in {"variable", "parameter"}
  BY <1>2 DEF def_keyword, default_def_keyword
<1>. QED BY <1>2, <1>3

LEMMA LocalsLocal ==
    ASSUME NEW grammar \in {"Rust", "C", "Cpp"}, NEW tree, IsTree(tree)
    PROVE  LocalsAreLocal(grammar, tree)
<1>. SUFFICES ASSUME NEW s \in Symbols(grammar, tree), Kind(tree, s.node) \in {"let", "parameter"},
                     NEW f \in Ancestors(tree, s.node), Kind(tree, f) \in FunctionKinds(grammar)
              PROVE  is_local(s)
  BY DEF LocalsAreLocal
<1>0. grammar \in Grammars
  BY DEF Grammars
<1>1. CASE FromQuery(grammar, tree, s)
  <2>1. PICK n \in Nodes(tree) : \E r \in Matches(grammar, tree, n) :
          LET t == Captured(grammar, tree, n, r)
          IN  /\ s.node = n /\ s.depth = t.depth
              /\ grammar \notin {"Python", "Js", "Ts"} => s.def_keyword = t.def_keyword
    BY <1>1 DEF FromQuery
  <2>2. PICK r \in Matches(grammar, tree, n) :
          LET t == Captured(grammar, tree, n, r)
          IN  /\ s.node = n /\ s.depth = t.depth
              /\ grammar \notin {"Python", "Js", "Ts"} => s.def_keyword = t.def_keyword
    BY <2>1
  <2>3. r \in Query(grammar) /\ r.kind \in {"let", "parameter"}
    BY <2>2 DEF Matches
  <2>4. grammar = "Rust"
    BY <2>3, CRules
  <2>5. r.suffix \in {"local", "parameter"} /\ def_keyword(grammar, r.suffix) \in {"variable", "parameter"}
    BY <2>3, <2>4, RustLocals
  <2>. DEFINE enclosing == {a \in Ancestors(tree, n) : Kind(tree, a) \in ScopeKinds(grammar)}
  <2>6. f \in enclosing
    BY <2>2, <2>4 DEF FunctionKinds
  <2>7. /\ find_enclosing_scope(grammar, tree, n) # None
        /\ find_enclosing_scope(grammar, tree, n).depth = Cardinality(enclosing)
    <3>1. find_enclosing_scope(grammar, tree, n) =
             [depth |-> Cardinality(enclosing), end |-> EndLine(tree, Max(enclosing)), container |-> ScopeName(tree, Max(enclosing))]
      BY <2>6 DEF find_enclosing_scope
    <3>2. Cardinality(enclosing) \in Nat /\ Max(enclosing) \in Nodes(tree)
      <4>1. IsFiniteSet(enclosing)
        BY <2>1, AncestorsGrow, FS_Subset
      <4>2. n \in Nat /\ enclosing \in SUBSET (0 .. n) /\ enclosing \subseteq Nodes(tree)
        <5>1. \A a \in Ancestors(tree, n) : a \in Nodes(tree) /\ a < n
          BY <2>1, AncestorsBelow
        <5>2. n \in Nat /\ \A a \in Nodes(tree) : a \in Nat
          BY <2>1, ParentIs
        <5>3. ASSUME NEW a \in Ancestors(tree, n) PROVE a \in 0 .. n
          <6>1. a \in Nat /\ a < n
            BY <5>1, <5>2
          <6>. QED BY <5>2, <6>1
        <5>. QED BY <5>1, <5>2, <5>3
      <4>. HIDE DEF enclosing
      <4>3. Max(enclosing) \in enclosing
        BY <2>6, <4>2, LargestOf
      <4>. QED BY <4>1, <4>2, <4>3, FS_CardinalityType
    <3>. HIDE DEF enclosing
    <3>3. EndLine(tree, Max(enclosing)) \in Nat /\ ScopeName(tree, Max(enclosing)) \in STRING \cup {None}
      <4>1. tree[Max(enclosing)].name \in STRING
        <5>1. tree[Max(enclosing)] \in NodeRecord
          BY <3>2, NodeIs
        <5>. QED BY <5>1 DEF NodeRecord
      <4>. QED BY <3>2, <4>1, RowsAre DEF ScopeName
    <3>. QED BY <3>1, <3>2, <3>3, NoScopeAssumption
  <2>8. s.depth = Cardinality(enclosing) /\ s.def_keyword \in {"variable", "parameter"}
    BY <2>2, <2>4, <2>5, <2>7, CapturedIs
  <2>9. Cardinality(enclosing) \in Nat /\ Cardinality(enclosing) # 0
    <3>1. IsFiniteSet(enclosing)
      BY <2>1, AncestorsGrow, FS_Subset
    <3>. HIDE DEF enclosing
    <3>. QED BY <2>6, <3>1, FS_CardinalityType, FS_EmptySet
  <2>. HIDE DEF enclosing
  <2>. QED BY <2>8, <2>9 DEF is_local
<1>2. CASE s \in Walked(grammar, tree)
  <2>. DEFINE n == s.node
  <2>1. n \in Nodes(tree) /\ grammar \in {"C", "Cpp"}
        /\ \/ IsPointer(tree, s, n) \/ IsVariable(tree, s, n) \/ IsParameter(tree, s, n)
           \/ IsLocal_(tree, s, n) \/ IsMember(grammar, tree, s, n)
    BY <1>0, <1>2, WalkedAt, WalkedIs
  <2>2. IsParameter(tree, s, n) \/ IsLocal_(tree, s, n)
    <3>1. ~IsVariable(tree, s, n)
      BY <2>1 DEF IsVariable, AtFileScope, AllAncestorsIn, FunctionKinds
    <3>. QED BY <2>1, <3>1 DEF IsPointer, IsMember
  <2>3. CASE IsParameter(tree, s, n)
    BY <2>3, SymbolAt DEF IsParameter, ParameterSymbol, is_local
  <2>4. CASE IsLocal_(tree, s, n)
    <3>1. PICK g : LocalIn(tree, g, n) /\ s = LocalSymbol(tree, g, n)
      BY <2>4 DEF IsLocal_
    <3>2. s.depth = 1 + Cardinality(Blocks(tree, g, n)) /\ s.def_keyword = "variable"
      BY <3>1, SymbolAt DEF LocalSymbol
    <3>3. Cardinality(Blocks(tree, g, n)) \in Nat
      <4>1. Blocks(tree, g, n) \subseteq Ancestors(tree, n)
        BY DEF Blocks, Between
      <4>. QED BY <2>1, <4>1, AncestorsGrow, FS_Subset, FS_CardinalityType
    <3>. QED BY <3>2, <3>3 DEF is_local
  <2>. QED BY <2>2, <2>3, <2>4
<1>. QED BY <1>0, <1>1, <1>2, SymbolIs

-----------------------------------------------------------------------------
(* The parsing layer: what is asked stays as it is, and what is answered is  *)
(* what the properties say.                                                *)

InputOK == input = NoInput \/ \E question \in Questions : input \in Inputs(question)

LEMMA InputIs ==
    ASSUME InputOK
    PROVE  /\ Has("column_line") => input.column_line \in Seq(STRING) /\ input.encoding \in PosEncoding
           /\ Has("word") => IsIdentifier(input.word) /\ input.text \in Seq(STRING)
           /\ Has("tree") => input.grammar \in Grammars /\ IsTree(input.tree)
<1>1. CASE input = NoInput
  BY <1>1 DEF NoInput, Has
<1>2. CASE \E question \in Questions : input \in Inputs(question)
  BY <1>2, InputsAssumption DEF Has
<1>. QED BY <1>1, <1>2 DEF InputOK

LEMMA InputStays == ParsingSpec => []InputOK
<1>1. ParsingInit => InputOK
  BY DEF ParsingInit, InputOK
<1>2. InputOK /\ [ParsingNext]_<<vars, input>> => InputOK'
  BY DEF InputOK, ParsingNext
<1>. QED BY <1>1, <1>2, PTL DEF ParsingSpec

\* What is proved of the scan by itself holds of it here.
THEOREM ParsingScans == ParsingSpec => LexerSpec
<1>1. ParsingInit => LexerInit
  BY DEF ParsingInit
<1>2. [ParsingNext]_<<vars, input>> => [LexerNext]_vars
  BY DEF ParsingNext
<1>. QED BY <1>1, <1>2, PTL DEF ParsingSpec, LexerSpec

\* A column of any line comes back from every encoding, and the references to
\* an identifier in any text are the places where it stands by itself
\* (byte_col_to_encoding, encoding_col_to_byte, find_word_occurrences).
THEOREM CursorStaysUnderstood == ParsingSpec => []CursorIsUnderstood
<1>1. InputOK => CursorIsUnderstood
  <2>. SUFFICES ASSUME InputOK PROVE CursorIsUnderstood
    OBVIOUS
  <2>1. Has("column_line") => CursorRoundTrips(input.column_line, input.encoding)
    BY InputIs, CursorsComeBack, Zenon
  <2>2. Has("word") => ReferencesAreTheWords(input.word, input.text)
    <3>1. ASSUME Has("word") PROVE ReferencesAreTheWords(input.word, input.text)
      <4>1. IsIdentifier(input.word) /\ input.text \in Seq(STRING)
        BY <3>1, InputIs, Zenon
      <4>. QED BY <4>1, ReferencesAreWholeWords, Zenon DEF IsIdentifier
    <3>. QED BY <3>1
  <2>. QED BY <2>1, <2>2, Zenon DEF CursorIsUnderstood
<1>. QED BY <1>1, InputStays, PTL

\* Whatever syntax tree a grammar gives, and in whatever order its query
\* matches, a name is extracted once and a member has the type it is written in
\* for its container (run_query_parse, deduplicate_symbols and the walkers of C
\* and C++).
THEOREM NamesKeepOneSymbol == ParsingSpec => []OneSymbolInItsType
<1>1. InputOK => OneSymbolInItsType
  <2>. SUFFICES ASSUME InputOK, Has("tree")
                PROVE  OneSymbolPerName(input.grammar, input.tree) /\ MembersKeepTheirType(input.grammar, input.tree)
    BY DEF OneSymbolInItsType
  <2>1. input.grammar \in Grammars /\ IsTree(input.tree)
    BY InputIs, Zenon
  <2>. QED BY <2>1, MembersKept, OnePerName, Zenon
<1>. QED BY <1>1, InputStays, PTL

\* Whatever rows the nodes of a tree share: a name behind a local is on the
\* local's lines if it is in its scope, and only then unless it is on the row the
\* scope ends on; the local in a scope further inside is the deeper one; and in
\* Rust, C and C++ every local is kept out of the global definitions
\* (find_enclosing_scope, extract_locals_from_compound, is_local).
THEOREM LocalsKeepTheirScope == ParsingSpec => []LocalsStayInScope
<1>1. InputOK => LocalsStayInScope
  <2>. SUFFICES ASSUME InputOK, Has("tree")
                PROVE  /\ LocalsAreSeenInScope(input.grammar, input.tree)
                       /\ input.grammar \in {"Rust", "C", "Cpp"} => LocalsAreLocal(input.grammar, input.tree)
    BY DEF LocalsStayInScope
  <2>1. input.grammar \in Grammars /\ IsTree(input.tree)
    BY InputIs, Zenon
  <2>. QED BY <2>1, SeenInScope, LocalsLocal, Zenon
<1>. QED BY <1>1, InputStays, PTL
=============================================================================

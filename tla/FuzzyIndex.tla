----------------------------- MODULE FuzzyIndex -----------------------------
(***************************************************************************)
(* The fuzzy index of names (fuzzy/deletion_neighborhood.rs): names filed  *)
(* under their trigrams of lowercase bytes, looked up by the trigrams of   *)
(* the query and judged by a bounded edit distance. WorkspaceIndex takes   *)
(* its answer for the names near the query; here is how near they are.     *)
(*                                                                         *)
(* A name is a text of SourceText, a byte a pair of its character and the  *)
(* byte's place in it. "X" is the one capital letter.                      *)
(***************************************************************************)
EXTENDS SourceText

MAX_EDIT_DISTANCE == 2

ToLower(c) == IF c = "X" THEN "x" ELSE c
IsAscii(name) == \A k \in 1 .. Len(name) : Utf8Width(name[k]) = 1
BytesOf(name) == FlattenSeq([k \in 1 .. Len(name) |->
                                [n \in 1 .. Utf8Width(name[k]) |-> <<name[k], n>>]])
LowerBytes(name) == BytesOf([k \in 1 .. Len(name) |-> ToLower(name[k])])

Windows(bytes) == {SubSeq(bytes, k, k + 2) : k \in 1 .. Len(bytes) - 2}
\* Two zero bytes and the length, for a name without a trigram; nobody asks for it.
ShortKey(bytes) == <<<<"nul", 1>>, <<"nul", 1>>, <<"length", Len(bytes)>>>>

\* symbols is the Vec of names, trigrams the map of a key to indices into it.
EmptyIndex == [symbols |-> <<>>, trigrams |-> [key \in {} |-> {}]]

\* Mutant: the keys are those of the name as it is written.
insert_CaseSensitive(index, symbol) ==
    LET keys == IF Len(BytesOf(symbol)) >= 3 THEN Windows(BytesOf(symbol)) ELSE {ShortKey(BytesOf(symbol))}
        filed(key) == IF key \in DOMAIN index.trigrams THEN index.trigrams[key] ELSE {}
    IN  [symbols  |-> Append(index.symbols, symbol),
         trigrams |-> [key \in DOMAIN index.trigrams \cup keys |->
                          filed(key) \cup (IF key \in keys THEN {Len(index.symbols) + 1} ELSE {})]]

insert(index, symbol) ==
    LET bytes      == LowerBytes(symbol)
        keys       == IF Len(bytes) >= 3 THEN Windows(bytes) ELSE {ShortKey(bytes)}
        filed(key) == IF key \in DOMAIN index.trigrams THEN index.trigrams[key] ELSE {}
    IN  [symbols  |-> Append(index.symbols, symbol),
         trigrams |-> [key \in DOMAIN index.trigrams \cup keys |->
                          filed(key) \cup (IF key \in keys THEN {Len(index.symbols) + 1} ELSE {})]]

clear(index) == EmptyIndex

\* ensure_fuzzy_built: what was indexed goes, the names defined now come in.
Rebuilt(index, names) == FoldLeft(insert, clear(index), names)

-----------------------------------------------------------------------------
\* One row of the distance matrix from the one before: the distances of the
\* prefixes of a from the first n elements of b, the last of which is c.
NextRow(row, a, c, n) ==
    LET filled[j \in 0 .. Len(a)] ==
            IF j = 0 THEN <<n>>
            ELSE LET left == filled[j - 1]
                 IN  Append(left, Min({row[j + 1] + 1, left[j] + 1,
                                       row[j] + (IF a[j] = c THEN 0 ELSE 1)}))
    IN  filled[Len(a)]

\* The rows one after the other; None when all distances of one exceed the bound.
RowsWithin(a, b, max_dist) ==
    LET rows[n \in 0 .. Len(b)] ==
            IF n = 0 THEN [j \in 1 .. Len(a) + 1 |-> j - 1]
            ELSE LET before == rows[n - 1]
                 IN  IF before = None THEN None
                     ELSE LET row == NextRow(before, a, b[n], n)
                          IN  IF Min(Range(row)) > max_dist THEN None ELSE row
    IN  rows[Len(b)]

\* The shorter one lies along the row.
bounded_levenshtein(a, b, max_dist) ==
    LET shorter == IF Len(a) > Len(b) THEN b ELSE a
        longer  == IF Len(a) > Len(b) THEN a ELSE b
        row     == RowsWithin(shorter, longer, max_dist)
    IN  row # None /\ row[Len(shorter) + 1] <= max_dist

\* Bytes when both are ASCII, characters otherwise.
within_distance(query, symbol) ==
    LET ascii == IsAscii(query) /\ IsAscii(symbol)
        a == IF ascii THEN BytesOf(query) ELSE query
        b == IF ascii THEN BytesOf(symbol) ELSE symbol
    IN  /\ Len(a) - Len(b) \in -MAX_EDIT_DISTANCE .. MAX_EDIT_DISTANCE
        /\ bounded_levenshtein(a, b, MAX_EDIT_DISTANCE)

length_filtered_candidates(index, length) ==
    {n \in 1 .. Len(index.symbols) :
        Len(BytesOf(index.symbols[n])) - length \in -MAX_EDIT_DISTANCE .. MAX_EDIT_DISTANCE}

\* What shares a trigram with the query, or else what is about as long.
trigram_candidates(index, query) ==
    LET bytes  == LowerBytes(query)
        shared == UNION {index.trigrams[key] : key \in Windows(bytes) \cap DOMAIN index.trigrams}
    IN  IF Len(bytes) < 3 \/ shared = {} THEN length_filtered_candidates(index, Len(bytes))
        ELSE shared

\* The names found, in an order no property is about.
resolve(index, query) ==
    {symbol \in {index.symbols[n] : n \in trigram_candidates(index, query)} :
        within_distance(query, symbol)}

-----------------------------------------------------------------------------
(***************************************************************************)
(* Properties.                                                             *)
(***************************************************************************)
\* The names one edit away from name, and name itself.
Edited(name, letters) ==
    {name} \cup {RemoveAt(name, k) : k \in 1 .. Len(name)}
           \cup {InsertAt(name, k, c) : k \in 1 .. Len(name) + 1, c \in letters}
           \cup {ReplaceAt(name, k, c) : k \in 1 .. Len(name), c \in letters}
Letters(a, b) == Range(a) \cup Range(b)
Near(a, b) == LET letters == Letters(a, b)
              IN  Edited(a, letters) \cap Edited(b, letters) # {}

\* After a rebuild an answer is a name that is defined now, whatever the index
\* held before, and two edits from the query at most (workspace.rs:298).
AnswersAreDefinedAndNear(before, names, query) ==
    \A symbol \in resolve(Rebuilt(Rebuilt(EmptyIndex, before), names), query) :
        symbol \in Range(names) /\ Near(query, symbol)

\* The comparison that stops early says what the definition of the distance
\* says (deletion_neighborhood.rs:186, "Returns true if distance <= max_dist,
\* false otherwise").
DistanceIsTheNumberOfEdits(a, b) == within_distance(a, b) <=> Near(a, b)

\* A name is found by its own spelling, and one of six characters or more with
\* one typo anywhere in it, whatever else is indexed: an edit spoils three of
\* its trigrams at most.
TypoFindsTheName(names, query) ==
    \A symbol \in Range(names) :
        \/ symbol = query
        \/ Len(symbol) >= 6 /\ query \in Edited(symbol, Letters(symbol, query))
        => symbol \in resolve(Rebuilt(EmptyIndex, names), query)

\* When nothing shares a trigram with the query, all ASCII names two edits away
\* are found (deletion_neighborhood.rs:123, "fall back to length-filtered scan").
FallbackFindsTheNearOnes(names, query) ==
    LET index == Rebuilt(EmptyIndex, names)
    IN  IsAscii(query) /\ Windows(LowerBytes(query)) \cap DOMAIN index.trigrams = {} =>
            \A symbol \in Range(names) : IsAscii(symbol) /\ Near(query, symbol) => symbol \in resolve(index, query)
=============================================================================

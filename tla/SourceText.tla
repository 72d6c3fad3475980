----------------------------- MODULE SourceText -----------------------------
(***************************************************************************)
(* The text algorithms that answer a request at a cursor: column           *)
(* conversion, the word and the qualifier under the cursor                 *)
(* (lsp/server.rs), the word search behind find_references, the backward   *)
(* scan of signature help (workspace.rs) and the parameter list cut out of *)
(* a signature (parsing/symbols.rs).                                       *)
(*                                                                         *)
(* A source is a sequence of characters. A character is a value whose      *)
(* widths the tables below give; indices and byte offsets count from 0, as *)
(* in the code. Slicing a string inside a character is the value Panic.    *)
(***************************************************************************)
EXTENDS Integers, Sequences, SequencesExt, FiniteSetsExt

CONSTANTS
    None,   \* Option::None
    Panic   \* what a function that panics returns

NewLine == "nl"

\* e2 an accented letter, q3 an ideograph (both identifier characters),
\* d3 a dash, w4 an emoji. Every other character is ASCII.
Utf8Width(c) == CASE c = "e2" -> 2 [] c \in {"q3", "d3"} -> 3 [] c = "w4" -> 4 [] OTHER -> 1
Utf16Width(c) == IF c = "w4" THEN 2 ELSE 1

Punctuation == {" ", ".", ":", "-", ">", "<", "(", ")", "[", "]", ",", NewLine, "d3", "w4"}
is_ident_char(c) == c \notin Punctuation

\* The offset of every character of text, and of its end, under a table of
\* widths.
Offsets(Table(_), text) ==
    LET offset[n \in 0 .. Len(text)] ==
            IF n = 0 THEN 0 ELSE offset[n - 1] + Table(text[n])
    IN  offset
Width(Table(_), text) == Offsets(Table, text)[Len(text)]
Bytes(text) == Width(Utf8Width, text)

\* The characters [from, to) of text, in the code's 0-based half-open form.
Slice(text, from, to) == SubSeq(text, from + 1, to)
Ch(text, i) == text[i + 1]

\* The byte offsets of text that are character boundaries, and the number of
\* characters before the one at byte.
Boundaries(text) == Range(Offsets(Utf8Width, text))
CharsBefore(text, byte) ==
    LET offset == Offsets(Utf8Width, text) IN Min({k \in 0 .. Len(text) : offset[k] >= byte})

\* str::lines: the pieces between newlines, no last empty one.
Newlines(text) == {i \in 0 .. Len(text) - 1 : Ch(text, i) = NewLine}
LineStart(text, i) == Max({0} \cup {n + 1 : n \in {m \in Newlines(text) : m < i}})
LineEnd(text, i) == Min({Len(text)} \cup {n \in Newlines(text) : n >= i})
LineNumber(text, i) == Cardinality({n \in Newlines(text) : n < i})
LineCount(text) == IF text = <<>> THEN 0
                   ELSE Cardinality(Newlines(text)) + (IF Last(text) = NewLine THEN 0 ELSE 1)
LineAt(text, line) ==
    LET start == CHOOSE i \in 0 .. Len(text) : LineNumber(text, i) = line /\ LineStart(text, i) = i
    IN  Slice(text, start, LineEnd(text, start))

-----------------------------------------------------------------------------
(* Columns. *)

PosEncoding == {"Utf8", "Utf16", "Utf32"}

byte_col_to_encoding(line, col, encoding) ==
    LET byte_col == Min({col, Bytes(line)})
        prefix   == Slice(line, 0, CharsBefore(line, byte_col))
    IN  CASE encoding = "Utf8" -> byte_col
          [] byte_col \notin Boundaries(line) -> Panic
          [] encoding = "Utf32" -> Len(prefix)
          [] encoding = "Utf16" -> Width(Utf16Width, prefix)

\* Mutant: the character that holds the column is passed as well.
encoding_col_to_byte_Past(line, col, encoding) ==
    LET reached == {k \in 0 .. Len(line) :
                      \/ k = Len(line)
                      \/ encoding = "Utf32" /\ k = col
                      \/ encoding = "Utf16" /\ Offsets(Utf16Width, line)[k] > col}
    IN  IF encoding = "Utf8" THEN Min({col, Bytes(line)})
        ELSE Offsets(Utf8Width, line)[Min(reached)]

\* Utf32: the offset of the n-th character, the line's length when it has
\* fewer; Utf16: the first character at or after the column.
encoding_col_to_byte(line, col, encoding) ==
    LET reached == {k \in 0 .. Len(line) :
                      \/ k = Len(line)
                      \/ encoding = "Utf32" /\ k = col
                      \/ encoding = "Utf16" /\ Offsets(Utf16Width, line)[k] >= col}
    IN  IF encoding = "Utf8" THEN Min({col, Bytes(line)})
        ELSE Offsets(Utf8Width, line)[Min(reached)]

client_col_to_char_index(line, col, encoding) ==
    LET byte == encoding_col_to_byte(line, col, encoding)
    IN  IF byte \in Boundaries(line) THEN CharsBefore(line, byte) ELSE Panic

-----------------------------------------------------------------------------
(* Words. *)

\* while start > 0 && is_ident_char(chars[start - 1]) { start -= 1 }, and the
\* same loop over blanks.
BackWhile(chars, from, Test(_)) ==
    Max({0} \cup {i \in 1 .. from : ~Test(Ch(chars, i - 1))})
ForthWhile(chars, from, Test(_)) ==
    Min({Len(chars)} \cup {i \in from .. Len(chars) - 1 : ~Test(Ch(chars, i))})
IsBlank(c) == c = " "

\* Mutant: the word starts at the cursor.
word_at_position_Forward(chars, col) ==
    IF col > Len(chars) THEN None
    ELSE LET word == Slice(chars, col, ForthWhile(chars, col, is_ident_char))
         IN  IF word = <<>> THEN None ELSE word

word_at_position(chars, col) ==
    IF col > Len(chars) THEN None
    ELSE LET word == Slice(chars, BackWhile(chars, col, is_ident_char),
                                  ForthWhile(chars, col, is_ident_char))
         IN  IF word = <<>> THEN None ELSE word

\* The length of the separator that ends at end: "::", "->" or ".".
SeparatorLen(chars, end) ==
    CASE end >= 2 /\ Slice(chars, end - 2, end) \in {<<":", ":">>, <<"-", ">">>} -> 2
      [] end >= 1 /\ Slice(chars, end - 1, end) = <<".">> -> 1
      [] OTHER -> 0

\* The identifier before the separator that ends at end.
QualifierEndingAt(chars, end) ==
    LET sep   == SeparatorLen(chars, end)
        q_end == BackWhile(chars, end - sep, IsBlank)
        q     == Slice(chars, BackWhile(chars, q_end, is_ident_char), q_end)
    IN  IF sep = 0 \/ q = <<>> THEN None ELSE q

qualifier_at_position(chars, col) ==
    IF col > Len(chars) THEN None
    ELSE QualifierEndingAt(chars, BackWhile(chars, col, is_ident_char))

\* workspace.rs has a second copy of it, asked at the start of the called name.
extract_qualifier_before(chars, pos) == QualifierEndingAt(chars, pos)

-----------------------------------------------------------------------------
(* find_references' search: a substring search by bytes, then a word       *)
(* boundary test on the byte before and the byte after the match.          *)

\* &source[pos..]: a byte inside a character panics.
is_ident_char_at(source, pos) ==
    CASE pos >= Bytes(source) -> FALSE
      [] pos \notin Boundaries(source) -> Panic
      [] OTHER -> is_ident_char(Ch(source, CharsBefore(source, pos)))

Reference(source, at, word) ==
    [line |-> LineNumber(source, at),
     col |-> Bytes(Slice(source, LineStart(source, at), at)), len |-> Bytes(word)]

\* The matches found from search_from on, non-overlapping, left to right.
MatchesFrom(word, source) ==
    LET found[from \in 0 .. Len(source)] ==
            LET at == {i \in from .. Len(source) - Len(word) :
                         Slice(source, i, i + Len(word)) = word}
            IN  IF at = {} THEN {} ELSE {Min(at)} \cup found[Min(at) + Len(word)]
    IN  found[0]

\* Mutant: the end of the match is not looked at.
find_word_occurrences_Prefix(word, source) ==
    LET offset    == Offsets(Utf8Width, source)
        Before(i) == IF i = 0 THEN FALSE ELSE is_ident_char_at(source, offset[i] - 1)
        at        == IF word = <<>> THEN {} ELSE MatchesFrom(word, source)
    IN  IF \E i \in at : Before(i) = Panic THEN Panic
        ELSE {Reference(source, i, word) : i \in {j \in at : Before(j) = FALSE}}

find_word_occurrences(word, source) ==
    LET offset    == Offsets(Utf8Width, source)
        Before(i) == IF i = 0 THEN FALSE ELSE is_ident_char_at(source, offset[i] - 1)
        After(i)  == is_ident_char_at(source, offset[i + Len(word)])
        at        == IF word = <<>> THEN {} ELSE MatchesFrom(word, source)
    IN  IF \E i \in at : Before(i) = Panic THEN Panic
        ELSE {Reference(source, i, word) : i \in {j \in at : Before(j) = FALSE /\ After(j) = FALSE}}

-----------------------------------------------------------------------------
(* Signature help. *)

Opens(chars, from, to) == Cardinality({i \in from .. to - 1 : Ch(chars, i) = "("})
Closes(chars, from, to) == Cardinality({i \in from .. to - 1 : Ch(chars, i) = ")"})

\* The backward loop of signature_help_at as a recursive function of the
\* column: the called name, its qualifier and the commas passed.
signature_help_scan(chars, col) ==
    LET Called(paren, commas) ==
            LET name_end   == BackWhile(chars, paren, IsBlank)
                name_start == BackWhile(chars, name_end, is_ident_char)
            IN  IF name_start = name_end THEN None
                ELSE [name |-> Slice(chars, name_start, name_end), paren |-> paren,
                      qualifier |-> extract_qualifier_before(chars, name_start),
                      active |-> commas]
        scan[n \in 0 .. Len(chars), depth \in 0 .. Len(chars), commas \in 0 .. Len(chars)] ==
            IF n = 0 THEN None
            ELSE LET c == Ch(chars, n - 1)
                 IN  CASE c = ")" -> scan[n - 1, depth + 1, commas]
                       [] c = "(" /\ depth = 0 -> Called(n - 1, commas)
                       [] c = "(" /\ depth > 0 -> scan[n - 1, depth - 1, commas]
                       [] c = "," /\ depth = 0 -> scan[n - 1, depth, commas + 1]
                       [] OTHER -> scan[n - 1, depth, commas]
    IN  scan[Min({col, Len(chars)}), 0, 0]

Trim(text) ==
    LET from == ForthWhile(text, 0, IsBlank)
    IN  IF from = Len(text) THEN <<>> ELSE Slice(text, from, BackWhile(text, Len(text), IsBlank))

\* The parameters between the first "(" and the last ")", split at the commas
\* where the depth, counted over all brackets, is zero.
extract_parameters(signature) ==
    LET open   == SelectInSeq(signature, LAMBDA c: c = "(")
        close  == SelectLastInSeq(signature, LAMBDA c: c = ")")
        params == SubSeq(signature, open + 1, close - 1)
        Step(s, c) ==
            IF c = "," /\ s.depth = 0
            THEN [s EXCEPT !.done = Append(@, Trim(s.current)), !.current = <<>>]
            ELSE [s EXCEPT !.current = Append(@, c),
                           !.depth = @ + (CASE c \in {"<", "(", "["} -> 1
                                            [] c \in {">", ")", "]"} -> -1
                                            [] OTHER -> 0)]
        end == FoldLeft(Step, [done |-> <<>>, current |-> <<>>, depth |-> 0], params)
    IN  IF open = 0 \/ close <= open + 1 THEN <<>>
        ELSE SelectSeq(Append(end.done, Trim(end.current)), LAMBDA p: p # <<>>)

-----------------------------------------------------------------------------
(* Properties of one input. *)

\* A cursor between two characters comes back where it was, under every
\* encoding; any other column, inside a surrogate pair or past the end, is
\* taken to a place between two characters, so that slicing does not panic.
CursorRoundTrips(line, encoding) ==
    LET Table(c) == CASE encoding = "Utf8" -> Utf8Width(c) [] encoding = "Utf16" -> Utf16Width(c) [] OTHER -> 1
        columns  == Offsets(Table, line)
        Back(col) == byte_col_to_encoding(line, encoding_col_to_byte(line, col, encoding), encoding)
    IN  /\ \A k \in 0 .. Len(line) :
             /\ Back(columns[k]) = columns[k]
             /\ client_col_to_char_index(line, columns[k], encoding) = k
        /\ encoding # "Utf8" => \A col \in 0 .. columns[Len(line)] + 2 :
             client_col_to_char_index(line, col, encoding) \in 0 .. Len(line)

\* A word as a cursor can stand in: identifier characters throughout.
IsIdentifier(word) ==
    word \in Seq(STRING) /\ word # <<>> /\ \A n \in 1 .. Len(word) : is_ident_char(word[n])

\* The places where word stands by itself in source.
WholeWords(word, source) ==
    {k \in 0 .. Len(source) - Len(word) :
        /\ BackWhile(source, k, is_ident_char) = k
        /\ ForthWhile(source, k, is_ident_char) = k + Len(word)
        /\ Slice(source, k, k + Len(word)) = word}

\* References are the whole words equal to the one asked for: the search by
\* substring, which goes on after every match, skips and adds none.
ReferencesAreTheWords(word, source) ==
    find_word_occurrences(word, source) # Panic =>
        find_word_occurrences(word, source) = {Reference(source, k, word) : k \in WholeWords(word, source)}

\* Two loops split a parameter list: the one that goes back from the cursor and
\* the one that goes forth over the signature.  The parameter the first says is
\* active is the last one the second finds in what was typed before the cursor,
\* calls inside an argument included.
ActiveParameterIsTheOneTyped(typed) ==
    LET help   == signature_help_scan(typed, Len(typed))
        params == extract_parameters(Slice(typed, help.paren, Len(typed)) \o <<"x", ")">>)
        Empty(k) == typed[k] \in {"(", ","} /\ typed[k + 1] \in {",", ")"}
    IN  (help # None /\ \A k \in 1 .. Len(typed) - 1 : ~Empty(k)) => Len(params) = help.active + 1
=============================================================================

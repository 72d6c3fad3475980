------------------------------- MODULE Lexer -------------------------------
(***************************************************************************)
(* The hand-written scanner (src/parsing/tokenizer.rs) that extracts       *)
(* definitions where no tree-sitter grammar is registered, as the loop it  *)
(* is: one step per turn of `while i < len`, one action per branch.        *)
(*                                                                         *)
(* A source is a sequence of units: a whole word, or a single character    *)
(* that no word contains. i counts units, so a column is a number of       *)
(* units. The code looks at bytes, which tells it apart in two places. A   *)
(* character of several bytes that no word contains begins with a byte     *)
(* that a name may begin with. And what follows a quote of a Rust text is  *)
(* passed byte by byte: there a source holds the bytes, each a unit, and   *)
(* then what is left of the word ('static is "squote", "s", "tatic") or of *)
(* the character ("lead", "cont"). No other two words are adjacent.        *)
(***************************************************************************)
EXTENDS SourceText

CONSTANTS
    LangFamily,  \* the families scanned
    Sources,     \* for each of them, the texts scanned
    ByteWords    \* the words of one byte

ASSUME SourcesAssumption ==
    /\ LangFamily \subseteq {"Rust", "CLike", "Go", "Python", "JsTs", "JavaCSharp", "Ruby"}
    /\ \A l \in LangFamily : Sources[l] \subseteq Seq(STRING)
ASSUME NoneAssumption == None \notin STRING

NoName == ""
ASSUME NoNameAssumption == NoName \in STRING

\* Characters of several bytes that no word contains, or the first byte of one,
\* and the bytes after the first.
Wide == {"d3", "w4", "lead"}
Symbolic == Punctuation \cup Wide \cup
    {"{", "}", ";", "/", "*", "&", "#", "dquote", "squote", "bquote", "\\", "cont"}
IsWord(u) == u \notin Symbolic
is_ident_start_byte(u) == IsWord(u) \/ u \in Wide

\* The units behind a quote of a Rust text, those of an escape included, are
\* bytes.
IsByte(u) == u \in ByteWords \cup (Symbolic \ {"d3", "w4"})
BehindQuote(text, n) == {n + 1} \cup (IF n < Len(text) /\ text[n + 1] = "\\" THEN {n + 2, n + 3} ELSE {})
ASSUME BytesAssumption ==
    "Rust" \in LangFamily =>
        \A text \in Sources["Rust"] : \A n \in DOMAIN text : text[n] = "squote" =>
            \A k \in BehindQuote(text, n) \cap DOMAIN text : IsByte(text[k])

IsSpace(u) == u \in {" ", NewLine}

def_keywords(lang) ==
    CASE lang = "Rust" -> {"fn", "struct", "enum", "trait", "type", "const", "static", "mod"}
      [] lang = "CLike" -> {"struct", "enum", "class", "union", "typedef", "namespace"}
      [] lang = "Go" -> {"func", "type", "var", "const"}
      [] lang = "Python" -> {"def", "class"}
      [] lang = "JsTs" -> {"function", "class", "const", "let", "var", "interface", "type", "enum"}
      [] lang = "JavaCSharp" -> {"class", "interface", "enum", "record", "struct"}
      [] lang = "Ruby" -> {"def", "class", "module"}

scope_openers(lang) ==
    CASE lang = "Rust" -> {"impl", "struct", "enum", "trait", "mod"}
      [] lang = "CLike" -> {"class", "struct", "enum", "namespace"}
      [] lang = "Go" -> {}
      [] lang = "Python" -> {"class"}
      [] lang = "JsTs" -> {"class", "interface", "enum", "namespace"}
      [] lang = "JavaCSharp" -> {"class", "interface", "enum"}
      [] lang = "Ruby" -> {"class", "module"}

noise_words(lang) ==
    CASE lang = "Rust" -> {"pub", "crate", "super", "self", "unsafe", "async", "mut", "ref", "dyn"}
      [] lang = "CLike" -> {"static", "inline", "extern", "volatile", "const", "unsigned", "signed",
                            "long", "short"}
      [] lang = "Go" -> {"chan", "map", "error"}
      [] lang = "Python" -> {"async"}
      [] lang = "JsTs" -> {"async", "export", "default", "abstract", "static", "readonly",
                           "declare", "new"}
      [] lang = "JavaCSharp" -> {"public", "private", "protected", "static", "final", "abstract",
                                 "sealed", "partial", "virtual", "override", "new"}
      [] lang = "Ruby" -> {"self"}

check_visibility(lang, word) ==
    CASE lang = "Rust" /\ word = "pub" -> "Public"
      [] lang = "JsTs" /\ word = "export" -> "Public"
      [] lang \in {"JavaCSharp", "CLike", "Ruby"} /\ word = "public" -> "Public"
      [] lang \in {"JavaCSharp", "CLike", "Ruby"} /\ word \in {"private", "protected"} -> "Private"
      [] OTHER -> None

hash_line_comment(lang) == lang \in {"Python", "Ruby"}
slash_comments(lang) == lang \notin {"Python", "Ruby"}
indent_scoping(lang) == lang = "Python"

\* A definition without a visibility keyword. Go's case and Python's underscore
\* are looked for in the keyword, not in the name: no keyword has them.
default_visibility(lang) ==
    CASE lang = "Go" -> "Private"
      [] lang = "Python" -> "Public"
      [] OTHER -> "Unknown"

VARIABLES
    source, lang,
    i, line, line_start,
    brace_depth, container_stack, \* <<name, depth when opened>>
    pending_visibility, pending_scope_opener,
    indent_stack, py_at_line_start,
    tokens, occurrences, def_contexts,
    drifted   \* history: a newline was counted twice, or skipped uncounted

place == <<i, line, line_start>>
scopes == <<brace_depth, container_stack, pending_scope_opener, indent_stack, py_at_line_start>>
output == <<tokens, occurrences, def_contexts>>
vars == <<source, lang, place, scopes, pending_visibility, output, drifted>>

LexerTypeOK ==
    /\ i \in 0 .. Len(source) /\ line \in Nat /\ line_start \in 0 .. Len(source)
    /\ brace_depth \in Nat
    /\ \A c \in ToSet(container_stack) : IsWord(c[1]) /\ c[2] \in Nat
    /\ pending_visibility \in {None, "Public", "Private"}
    /\ indent_stack \in Seq(Nat) /\ py_at_line_start \in BOOLEAN
    /\ \A t \in ToSet(tokens) : t.kind \in {"DefKeyword", "Ident"} /\ IsWord(t.text)
    /\ \A o \in ToSet(occurrences) : o.word_offset \in 0 .. Len(source) - 1
    /\ \A c \in ToSet(def_contexts) : c.visibility \in {"Public", "Private", "Unknown"}

LexerInit ==
    /\ lang \in LangFamily /\ source \in Sources[lang]
    /\ i = 0 /\ line = 0 /\ line_start = 0
    /\ brace_depth = 0 /\ container_stack = <<>>
    /\ pending_visibility = None /\ pending_scope_opener = None
    /\ indent_stack = IF indent_scoping(lang) THEN <<0>> ELSE <<>>
    /\ py_at_line_start = TRUE
    /\ tokens = <<>> /\ occurrences = <<>> /\ def_contexts = <<>>
    /\ drifted = FALSE

-----------------------------------------------------------------------------
(* The skipping helpers: where they stop, and the newlines they count. *)

\* The unit at j; past the end there is none.
Unit(j) == IF j < Len(source) THEN Ch(source, j) ELSE "end"
\* What consume_identifier takes at j: of a character that only begins like a
\* name, nothing.
WordAt(j) == IF IsWord(Unit(j)) THEN Unit(j) ELSE NoName
NameBegins(j) == j < Len(source) /\ is_ident_start_byte(Unit(j))
FirstFrom(j, Test(_)) == Min({Len(source)} \cup {k \in j .. Len(source) - 1 : Test(k)})
LinesIn(from, to) == {n \in Newlines(source) : from <= n /\ n < to}

skip_to_eol(j) == FirstFrom(j, LAMBDA k : Unit(k) = NewLine)

skip_block_comment(j) ==
    LET end == FirstFrom(j, LAMBDA k : Unit(k) = "*" /\ Unit(k + 1) = "/")
    IN  [to |-> Min({Len(source), end + 2}), counted |-> LinesIn(j, Min({end, Len(source) - 1}))]

\* Mutant: an escaped quote ends the string.
skip_string_NoEscape(j, quote) ==
    LET end == FirstFrom(j, LAMBDA k : Unit(k) = quote \/ (Unit(k) = NewLine /\ quote # "bquote"))
    IN  [to |-> IF Unit(end) = quote THEN end + 1 ELSE end, counted |-> LinesIn(j, Min({end + 1, Len(source)}))]

\* A backslash skips two units, a newline among them uncounted. A newline ends
\* every string but a template: it is counted here, and the main loop, which
\* goes on at it, counts it again.
skip_string(j, quote) ==
    LET skip[k \in j .. Len(source) + 1] ==
            CASE k >= Len(source) -> [to |-> Len(source), counted |-> {}]
              [] Unit(k) = NewLine /\ quote # "bquote" -> [to |-> k, counted |-> {k}]
              [] Unit(k) = NewLine /\ quote = "bquote" ->
                   [skip[k + 1] EXCEPT !.counted = @ \cup {k}]
              [] Unit(k) = "\\" -> skip[k + 2]
              [] Unit(k) = quote -> [to |-> k + 1, counted |-> {}]
              [] OTHER -> skip[k + 1]
    IN  skip[j]

skip_triple_quote(j, quote) ==
    LET skip[k \in j .. Len(source) + 2] ==
            IF k + 2 >= Len(source) THEN [to |-> Len(source), counted |-> {}]
            ELSE IF {Unit(k), Unit(k + 1), Unit(k + 2)} = {quote} THEN [to |-> k + 3, counted |-> {}]
            ELSE IF Unit(k) = "\\" THEN skip[k + 2]
            ELSE IF Unit(k) = NewLine THEN [skip[k + 1] EXCEPT !.counted = @ \cup {k}]
            ELSE skip[k + 1]
    IN  skip[j]

\* The ")" that closes Go's receiver; the end of the text if none does.
AfterReceiver(j) ==
    LET Depth(k) == Opens(source, j, k + 1) - Closes(source, j, k + 1)
        close == FirstFrom(j, LAMBDA k : Unit(k) = ")" /\ Depth(k) = 0)
    IN  Min({Len(source), close + 1})

\* Blanks, Go's receiver, blanks, "*" and "&", blanks.
skip_to_ident(j) ==
    LET AfterSpace(k) == ForthWhile(source, k, IsSpace)
        receiver  == AfterSpace(j)
        name      == AfterSpace(IF lang = "Go" /\ Unit(receiver) = "("
                                THEN AfterReceiver(receiver) ELSE receiver)
        modifiers == ForthWhile(source, name, LAMBDA u : u \in {"*", "&"})
    IN  AfterSpace(modifiers)

-----------------------------------------------------------------------------
(* The turns of the loop. *)

Here == Unit(i)
Running == i < Len(source)
Line_(counted) == line' = line + Cardinality(counted)
                  /\ line_start' = Max({line_start} \cup {n + 1 : n \in counted})

\* Go on at to, the newlines of counted being counted.
Skip(to, counted) ==
    /\ i' = to
    /\ Line_(counted)
    /\ drifted' = (drifted \/ counted # LinesIn(i, to))
    /\ UNCHANGED <<source, lang>>

Indenting == indent_scoping(lang) /\ py_at_line_start /\ ~IsSpace(Here) /\ Here # "#"
Turn == Running /\ ~Indenting

\* Mutant: the newline is counted and not passed.
NextLine_Stays ==
    /\ Turn /\ Here = NewLine
    /\ Skip(i, {i})
    /\ py_at_line_start' = (py_at_line_start \/ indent_scoping(lang))
    /\ UNCHANGED <<brace_depth, container_stack, pending_scope_opener, indent_stack,
                   pending_visibility, output>>

NextLine ==
    /\ Turn /\ Here = NewLine
    /\ Skip(i + 1, {i})
    /\ py_at_line_start' = (py_at_line_start \/ indent_scoping(lang))
    /\ UNCHANGED <<brace_depth, container_stack, pending_scope_opener, indent_stack,
                   pending_visibility, output>>

\* What is left of the containers when those at the top that were opened at
\* depth or deeper are popped.
OpenBelow(depth) ==
    SubSeq(container_stack, 1,
           Max({0} \cup {n \in DOMAIN container_stack : container_stack[n][2] < depth}))

\* Python, at the first unit of a line: every level at or right of it ends,
\* and with it the containers opened in it. The loop goes on with the unit.
Dedent ==
    /\ Running /\ Indenting
    /\ LET indent == i - line_start
           kept == Max({1} \cup {n \in 1 .. Len(indent_stack) : indent_stack[n] < indent})
       IN  /\ indent_stack' = SubSeq(indent_stack, 1, kept)
           /\ container_stack' = IF kept < Len(indent_stack) THEN OpenBelow(kept) ELSE container_stack
           /\ brace_depth' = kept - 1
    /\ py_at_line_start' = FALSE
    /\ UNCHANGED <<source, lang, place, pending_scope_opener, pending_visibility, output, drifted>>

Blank ==
    /\ Turn /\ Here = " "
    /\ Skip(i + 1, {})
    /\ UNCHANGED <<scopes, pending_visibility, output>>

LineComment ==
    /\ Turn
    /\ \/ hash_line_comment(lang) /\ Here = "#"
       \/ slash_comments(lang) /\ Here = "/" /\ Unit(i + 1) = "/"
    /\ Skip(skip_to_eol(i), {})
    /\ UNCHANGED <<scopes, pending_visibility, output>>

\* Mutant: the comment's lines are not counted.
BlockComment_OneLine ==
    /\ Turn /\ slash_comments(lang) /\ Here = "/" /\ Unit(i + 1) = "*"
    /\ i' = skip_block_comment(i + 2).to
    /\ UNCHANGED <<source, lang, line, line_start, drifted, scopes, pending_visibility, output>>

BlockComment ==
    /\ Turn /\ slash_comments(lang) /\ Here = "/" /\ Unit(i + 1) = "*"
    /\ LET skipped == skip_block_comment(i + 2) IN Skip(skipped.to, skipped.counted)
    /\ UNCHANGED <<scopes, pending_visibility, output>>

IsTriple == /\ indent_scoping(lang) /\ Here \in {"dquote", "squote"}
            /\ Unit(i + 1) = Here /\ Unit(i + 2) = Here

TripleQuote ==
    /\ Turn /\ IsTriple
    /\ LET skipped == skip_triple_quote(i + 3, Here) IN Skip(skipped.to, skipped.counted)
    /\ UNCHANGED <<scopes, pending_visibility, output>>

String ==
    /\ Turn /\ ~IsTriple
    /\ \/ Here = "dquote"
       \/ Here = "squote" /\ lang # "Rust"
       \/ Here = "bquote" /\ lang = "JsTs"
    /\ LET skipped == skip_string(i + 1, Here) IN Skip(skipped.to, skipped.counted)
    /\ UNCHANGED <<scopes, pending_visibility, output>>

\* A lifetime or a character literal, of which one byte is passed, or an escape
\* and two, and then a quote; a newline in it is not counted.
RustQuote ==
    /\ Turn /\ Here = "squote" /\ lang = "Rust"
    /\ LET first == IF Unit(i + 1) = "\\" THEN i + 3 ELSE i + 1
           after == first + 1
       IN  Skip(Min({Len(source), IF Unit(after) = "squote" THEN after + 1 ELSE after}), {})
    /\ UNCHANGED <<scopes, pending_visibility, output>>

OpenBrace ==
    /\ Turn /\ Here = "{" /\ ~indent_scoping(lang)
    /\ Skip(i + 1, {})
    /\ container_stack' = IF pending_scope_opener = None THEN container_stack
                          ELSE Append(container_stack, <<pending_scope_opener, brace_depth>>)
    /\ pending_scope_opener' = None
    /\ brace_depth' = brace_depth + 1
    /\ UNCHANGED <<indent_stack, py_at_line_start, pending_visibility, output>>

\* Mutant: one container is popped per brace, whatever its depth.
CloseBrace_PopsOne ==
    /\ Turn /\ Here = "}" /\ ~indent_scoping(lang)
    /\ Skip(i + 1, {})
    /\ brace_depth' = Max({0, brace_depth - 1})
    /\ container_stack' = IF container_stack = <<>> THEN <<>> ELSE Front(container_stack)
    /\ UNCHANGED <<pending_scope_opener, indent_stack, py_at_line_start, pending_visibility, output>>

CloseBrace ==
    /\ Turn /\ Here = "}" /\ ~indent_scoping(lang)
    /\ Skip(i + 1, {})
    /\ brace_depth' = Max({0, brace_depth - 1})
    /\ container_stack' = OpenBelow(brace_depth')
    /\ UNCHANGED <<pending_scope_opener, indent_stack, py_at_line_start, pending_visibility, output>>

\* The level a Python class opens is one column right of the current one.
Colon ==
    /\ Turn /\ Here = ":" /\ indent_scoping(lang)
    /\ Skip(i + 1, {})
    /\ IF pending_scope_opener = None
       THEN UNCHANGED <<container_stack, indent_stack, brace_depth>>
       ELSE /\ container_stack' = Append(container_stack, <<pending_scope_opener, Len(indent_stack)>>)
            /\ indent_stack' = Append(indent_stack, Last(indent_stack) + 1)
            /\ brace_depth' = Len(indent_stack)
    /\ pending_scope_opener' = None
    /\ UNCHANGED <<py_at_line_start, pending_visibility, output>>

\* The word a scope opener names: found by peeking, nothing is consumed.
Peeked == LET peek_i == skip_to_ident(i + 1)
          IN  IF NameBegins(peek_i) /\ WordAt(peek_i) \notin noise_words(lang)
              THEN WordAt(peek_i) ELSE pending_scope_opener

Occurrence(at, role, on) == [word_offset |-> at, line |-> on.line, col |-> at - on.line_start, role |-> role]
Token(kind, at, on) == [kind |-> kind, text |-> WordAt(at), line |-> on.line, col |-> at - on.line_start]
CurrentLine == [line |-> line, line_start |-> line_start]
Container == IF container_stack = <<>> THEN None ELSE Last(container_stack)[1]

VisibilityKeyword ==
    /\ Turn /\ check_visibility(lang, Here) # None
    /\ pending_visibility' = check_visibility(lang, Here)
    /\ Skip(i + 1, {})
    /\ UNCHANGED <<scopes, output>>

WordTurn == Turn /\ IsWord(Here) /\ check_visibility(lang, Here) = None
Scope == /\ pending_scope_opener' = IF Here \in scope_openers(lang) THEN Peeked ELSE pending_scope_opener
         /\ UNCHANGED <<brace_depth, container_stack, indent_stack, py_at_line_start>>

\* A keyword and the name after it, on whatever line that is, an empty one
\* before a character that only begins like one; a noise word is consumed and
\* gives nothing.
Definition ==
    /\ WordTurn /\ Here \in def_keywords(lang)
    /\ Scope
    /\ pending_visibility' = None
    /\ LET name_start == skip_to_ident(i + 1)
           named == NameBegins(name_start) /\ WordAt(name_start) \notin noise_words(lang)
           on == [line |-> line', line_start |-> line_start']
           visibility == IF pending_visibility # None THEN pending_visibility ELSE default_visibility(lang)
       IN  /\ Skip(IF name_start < Len(source) /\ IsWord(Unit(name_start)) THEN name_start + 1 ELSE name_start,
                   LinesIn(i, name_start))
           /\ tokens' = tokens \o <<Token("DefKeyword", i, CurrentLine)>>
                               \o (IF named THEN <<Token("Ident", name_start, on)>> ELSE <<>>)
           /\ def_contexts' = IF ~named THEN def_contexts
                              ELSE Append(def_contexts, [visibility |-> visibility, container |-> Container,
                                                         depth |-> brace_depth])
           /\ occurrences' = IF ~named THEN occurrences
                             ELSE Append(occurrences, Occurrence(name_start, "Definition", on))

\* Every other word is a reference.
Word ==
    /\ WordTurn /\ Here \notin def_keywords(lang)
    /\ Scope
    /\ pending_visibility' = None
    /\ occurrences' = Append(occurrences, Occurrence(i, "Reference", CurrentLine))
    /\ Skip(i + 1, {})
    /\ UNCHANGED <<tokens, def_contexts>>

\* Whatever starts none of the above is passed over, a character of several
\* bytes at once.
StartsSomething ==
    \/ IsWord(Here) \/ IsSpace(Here) \/ Here \in {"dquote", "squote"}
    \/ hash_line_comment(lang) /\ Here = "#"
    \/ slash_comments(lang) /\ Here = "/" /\ Unit(i + 1) \in {"/", "*"}
    \/ lang = "JsTs" /\ Here = "bquote"
    \/ Here \in (IF indent_scoping(lang) THEN {":"} ELSE {"{", "}"})

Other ==
    /\ Turn /\ ~StartsSomething
    /\ Skip(i + 1, {})
    /\ UNCHANGED <<scopes, pending_visibility, output>>

Done == i = Len(source) /\ UNCHANGED vars

LexerNext ==
    \/ NextLine \/ Dedent \/ Blank \/ LineComment \/ BlockComment \/ TripleQuote \/ String \/ RustQuote
    \/ OpenBrace \/ CloseBrace \/ Colon \/ VisibilityKeyword \/ Definition \/ Word \/ Other
    \/ Done

LexerSpec == LexerInit /\ [][LexerNext]_vars

-----------------------------------------------------------------------------
(* Symbol::from_tokens_with_contexts (symbols.rs): the n-th pair of a keyword *)
(* and a name goes with the n-th context.                                  *)

from_keyword(keyword) ==
    CASE keyword \in {"fn", "func", "function", "def"} -> "Function"
      [] keyword \in {"class", "record"} -> "Class"
      [] keyword \in {"struct", "union"} -> "Struct"
      [] keyword = "enum" -> "Enum"
      [] keyword = "interface" -> "Interface"
      [] keyword = "trait" -> "Trait"
      [] keyword \in {"type", "typedef"} -> "TypeAlias"
      [] keyword \in {"const", "static"} -> "Constant"
      [] keyword \in {"let", "var", "val"} -> "Variable"
      [] keyword \in {"mod", "module", "namespace"} -> "Module"
      [] OTHER -> "Unknown"

\* The place of n in S, from 1.
Rank(n, S) == Cardinality({m \in S : m <= n})
Pairs == {n \in 1 .. Len(tokens) - 1 : tokens[n].kind = "DefKeyword" /\ tokens[n + 1].kind = "Ident"}
NthPair(c) == CHOOSE n \in Pairs : Rank(n, Pairs) = c

from_tokens_with_contexts ==
    LET Symbol(c) ==
            LET ident == tokens[NthPair(c) + 1]
            IN  [name |-> ident.text, kind |-> from_keyword(tokens[NthPair(c)].text),
                 line |-> ident.line, col |-> ident.col,
                 visibility |-> IF c \in DOMAIN def_contexts THEN def_contexts[c].visibility ELSE "Unknown",
                 container |-> IF c \in DOMAIN def_contexts THEN def_contexts[c].container ELSE None,
                 depth |-> IF c \in DOMAIN def_contexts THEN def_contexts[c].depth ELSE 0]
    IN  [c \in 1 .. Cardinality(Pairs) |-> Symbol(c)]

-----------------------------------------------------------------------------
(* Properties. *)

\* The word that the keyword or the scope opener at k names, if it names one.
NameOf(k) == WordAt(skip_to_ident(k + 1))
IsNamed(k) == NameBegins(skip_to_ident(k + 1)) /\ NameOf(k) \notin noise_words(lang)

\* A text without comments and strings, in which no keyword takes a scope
\* opener for its name, as "typedef struct" does.
Quoting == {"dquote", "squote", "bquote", "#", "/"}
Plain ==
    /\ \A n \in DOMAIN source : source[n] \notin Quoting
    /\ \A k \in 0 .. Len(source) - 1 : Unit(k) \in def_keywords(lang) => NameOf(k) \notin scope_openers(lang)

\* The occurrences of names that are defined, and the n-th of them.
DefinitionsAt == {n \in DOMAIN occurrences : occurrences[n].role = "Definition"}
NthDefinition(c) == occurrences[CHOOSE n \in DefinitionsAt : Rank(n, DefinitionsAt) = c]

\* Every occurrence has the line and the column of its word, whatever strings
\* and comments of several lines come before it, as long as no string ran into
\* the end of its line (tokenizer.rs:443, "Track line numbers").
PositionsAreRight ==
    ~drifted => \A o \in ToSet(occurrences) :
        /\ o.line = LineNumber(source, o.word_offset)
        /\ o.col = o.word_offset - LineStart(source, o.word_offset)

\* A symbol is at the occurrence that defines it and carries the context that
\* was current there: as many contexts as pairs, though keywords without a
\* name and noise words leave tokens and no context (symbols.rs:77, "the Nth
\* DefContext corresponds to the Nth DefKeyword+Ident pair").
SymbolsMatchContexts ==
    /\ Len(def_contexts) = Cardinality(Pairs)
    /\ Cardinality(DefinitionsAt) = Cardinality(Pairs)
    /\ \A c \in 1 .. Cardinality(Pairs) :
         LET symbol == from_tokens_with_contexts[c]
             definition == NthDefinition(c)
         IN  /\ symbol.name = WordAt(definition.word_offset)
             /\ symbol.line = definition.line /\ symbol.col = definition.col

\* The innermost type around p, found by matching braces: the last name a scope
\* opener gives before an open brace, no other brace opening in between.
Level(b, e) == Cardinality({k \in b .. e - 1 : Unit(k) = "{"}) - Cardinality({k \in b .. e - 1 : Unit(k) = "}"})
OpenBracesAt(p) == {b \in 0 .. p - 1 : Unit(b) = "{" /\ \A e \in b + 1 .. p : Level(b, e) > 0}
OpenersOf(b) ==
    {k \in 0 .. b - 1 : /\ Unit(k) \in scope_openers(lang) /\ IsNamed(k)
                        /\ \A e \in k .. b - 1 : Unit(e) # "{"}
EnclosingType(p) ==
    LET named == {b \in OpenBracesAt(p) : OpenersOf(b) # {}}
    IN  IF named = {} THEN None ELSE NameOf(Max(OpenersOf(Max(named))))

\* A member belongs to the innermost type around it, after inner blocks have
\* closed as well as before, and what a keyword at the left margin of a Python
\* file defines belongs to none (tokenizer.rs:410, "Container stack: (name,
\* brace_depth_when_opened)").
MembersHaveTheirContainer ==
    Plain => \A c \in 1 .. Cardinality(Pairs) :
        IF indent_scoping(lang)
        THEN tokens[NthPair(c)].col = 0 => def_contexts[c].container = None
        ELSE def_contexts[c].container = EnclosingType(NthDefinition(c).word_offset)

\* What a comment or a string holds is no occurrence (tokenizer.rs:477, "Skip
\* line comments"): the texts write this word nowhere else. Behind a literal of
\* several bytes the closing quote opens another, and what it passes may be the
\* quote of a string.
HiddenWord == "hidden"
LongLiteral(n) == /\ lang = "Rust" /\ Unit(n) = "squote"
                  /\ Unit(n + 1) \in Wide \/ (Unit(n + 1) = "\\" /\ Unit(n + 3) # "squote")
OnlyCodeIsIndexed ==
    (\A n \in DOMAIN source : ~LongLiteral(n - 1)) =>
        \A o \in ToSet(occurrences) : Unit(o.word_offset) # HiddenWord

\* What is recorded is recorded where it is, and the symbols are the
\* definitions, each with its own context; with the types.
SymbolsAreInPlace == LexerTypeOK /\ PositionsAreRight /\ SymbolsMatchContexts

\* No turn of the loop leaves i where it is, but the one that sees to the
\* indentation, once per line: the scan of every text ends, a character of
\* several bytes and an unterminated string included (tokenizer.rs:793,
\* "advance 1 to avoid infinite loop").
TurnsAdvance == [][i' > i \/ (Indenting /\ ~Indenting')]_vars
=============================================================================

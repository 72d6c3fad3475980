------------------------------ MODULE Parsing ------------------------------
(***************************************************************************)
(* The parsing layer: the tokenizer scanning a text (Lexer), and beside it *)
(* the algorithms that are functions (columns, words and references, doc   *)
(* comments and signatures, what is extracted from a syntax tree, the      *)
(* fuzzy index), each asked one input. A behaviour that is given an input  *)
(* scans an empty text, so that every input is looked at once.             *)
(***************************************************************************)
EXTENDS Lexer, SymbolText, Extraction, FuzzyIndex

\* What is asked of the functions, for a grammar what its trees hold, and what
\* it is asked about: a record each.
Questions == {"columns", "references", "calls", "docs", "signatures", "names", "rebuilds", "typos"} \cup Grammars
CONSTANT Inputs(_)
NoInput == [none |-> TRUE]

\* A column of a line, a word and a text it is searched in, a syntax tree and
\* the grammar it was parsed with.
ASSUME InputsAssumption ==
    \A question \in Questions : \A x \in Inputs(question) :
        /\ "column_line" \in DOMAIN x => x.column_line \in Seq(STRING) /\ x.encoding \in PosEncoding
        /\ "word" \in DOMAIN x => IsIdentifier(x.word) /\ x.text \in Seq(STRING)
        /\ "tree" \in DOMAIN x => x.grammar \in Grammars /\ IsTree(x.tree)

VARIABLE input

ParsingInit ==
    /\ LexerInit
    /\ \/ input = NoInput
       \/ source = <<>> /\ lang = "Rust" /\ \E question \in Questions : input \in Inputs(question)
ParsingNext == LexerNext /\ UNCHANGED input
ParsingSpec == ParsingInit /\ [][ParsingNext]_<<vars, input>>

-----------------------------------------------------------------------------
(* The properties of the functions, of the input at hand. *)

Has(field) == field \in DOMAIN input

\* A column comes back from every encoding, and the word under the cursor is
\* found where it stands by itself and nowhere else.
CursorIsUnderstood ==
    /\ Has("column_line") => CursorRoundTrips(input.column_line, input.encoding)
    /\ Has("word") => ReferencesAreTheWords(input.word, input.text)

\* The search comes back, whatever characters are before the word
\* (workspace.rs:1496, "Find the char boundary at or before pos").
ReferencesDoNotPanic == Has("word") => find_word_occurrences(input.word, input.text) # Panic

\* What is shown of a symbol is its comment and its whole parameter list, and
\* the parameter marked active is the one that is being typed.
ShownTextIsWhole ==
    /\ Has("doc_lines") =>
         DocIsTheCommentAbove(Append(input.doc_lines, DocLine("", TRUE)), Len(input.doc_lines), input.doc_lang)
    /\ Has("code") => SignatureIsWhole(input.code, 0, input.sig_lang)
    /\ Has("typed") => ActiveParameterIsTheOneTyped(input.typed)

\* A name gets one symbol, and a member the type it is written in.
OneSymbolInItsType ==
    Has("tree") => OneSymbolPerName(input.grammar, input.tree) /\ MembersKeepTheirType(input.grammar, input.tree)

\* A local is found where it is in scope and, but for the row the scope ends on,
\* nowhere else, before the one it shadows; and it is no global definition. Only
\* the tables of three languages keep the words is_local looks for: in the
\* others it is one.
LocalsStayInScope ==
    Has("tree") =>
        /\ LocalsAreSeenInScope(input.grammar, input.tree)
        /\ input.grammar \in {"Rust", "C", "Cpp"} => LocalsAreLocal(input.grammar, input.tree)

\* A search answers with what is defined and near, and misses no near name that
\* its keys or its fallback could find.
SearchesFindTheNear ==
    /\ Has("before") => AnswersAreDefinedAndNear(input.before, input.names, input.query)
    /\ Has("symbol") =>
         /\ DistanceIsTheNumberOfEdits(input.query, input.symbol)
         /\ FallbackFindsTheNearOnes(<<input.symbol>>, input.query)
    /\ Has("indexed") => TypoFindsTheName(input.indexed, input.query)
=============================================================================

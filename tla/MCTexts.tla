------------------------------ MODULE MCTexts ------------------------------
(***************************************************************************)
(* The parsing layer for TLC: the texts the tokenizer scans, and the       *)
(* inputs of the algorithms that are functions.                            *)
(***************************************************************************)
EXTENDS Parsing

nl == NewLine

\* Structure, in the words of a language with braces.
BracePhrases(opener, other, def) ==
    {<<opener, " ", "A", " ", "{", nl>>, <<other, " ", "B", "{">>, <<def, " ", "x", "(", ")", "{", "}", nl>>,
     <<def, " ", "y", ";">>, <<"}", nl>>}

\* Comments, strings and the characters that no branch is about.
Hidden == {<<"/", "*", nl, "hidden", nl, "*", "/">>, <<"/", "/", "hidden", nl>>,
           <<"dquote", "\\", "dquote", "hidden", "dquote">>, <<"dquote", "hidden", nl>>,
           <<"dquote", "\\", nl, "hidden", "dquote">>, <<"w4", "d3">>}

Texts(phrases, n) == {FlattenSeq(f) : f \in UNION {[1 .. k -> phrases] : k \in 0 .. n}}
Mixed(lang_phrases, hidden) ==
    {FlattenSeq(f) : f \in [1 .. 2 -> lang_phrases \cup hidden] \cup
                         {<<x, h, y>> : x \in lang_phrases, h \in hidden, y \in lang_phrases}}

Words == [
    Rust |-> BracePhrases("struct", "impl", "fn"), CLike |-> BracePhrases("struct", "namespace", "enum"),
    Go |-> BracePhrases("type", "func", "func"), JsTs |-> BracePhrases("class", "interface", "function"),
    JavaCSharp |-> BracePhrases("class", "interface", "enum"), Ruby |-> BracePhrases("class", "module", "def"),
    Python |-> {<<"class", " ", "A", ":", nl>>, <<" ", " ", "def", " ", "x", "(", ")", ":", nl>>,
                <<"def", " ", "_y", ":", nl>>, <<"x", nl>>, <<nl>>}]

Special == [
    Rust |-> {<<"pub", " ", "fn", " ", "x", " ">>, <<"const", " ", "mut", " ">>, <<"squote", "a", " ", "x", " ">>,
              <<"squote", "s", "tatic", " ">>, <<"squote", "f", "fn", " ", "y", " ">>,
              <<"squote", "\\", "n", "squote", " ">>, <<"squote", "lead", "cont", "squote", " ", " ">>,
              <<"squote", "lead", "cont", "squote", "dquote", "hidden", "dquote", nl>>, <<"struct", " ", "w4", "{", nl>>,
              <<"squote", "\\", "u", "{", "x", "}", "squote", " ", " ">>},
    CLike |-> {<<"typedef", " ", "const", " ", "x", " ">>, <<"private", ":", "struct", "*", "y", " ">>},
    Go |-> {<<"func", "(", "x", nl, "*", "A", ")", nl, "y", " ">>, <<"func", "(", "x", " ">>, <<"var", nl>>},
    JsTs |-> {<<"bquote", "hidden", nl, "bquote">>, <<"export", " ", "default", " ", "function", "(">>,
              <<"class", nl, "d3", " ", "A", "{">>,
              <<"const", " ", "async", " ", "x", " ">>},
    JavaCSharp |-> {<<"public", " ", "class", " ", "A", " ">>, <<"private", " ", "x", " ", "class", nl, nl, "y", " ">>},
    Ruby |-> {<<"def", " ", "self", ".", "x", " ">>, <<"#", "hidden", nl>>,
              <<"protected", nl, "def", nl, "y", " ">>, <<"class", " ">>},
    Python |-> {<<"dquote", "dquote", "dquote", nl, "hidden", nl, "dquote", "dquote", "dquote">>, <<"#", "hidden", nl>>,
                <<" ", " ", "class", " ", "B", ":", nl>>, <<"squote", "\\", "squote", "hidden", "squote", nl>>,
                <<"async", " ", "def", " ", "async", nl>>}]

ShownIn(l) == IF slash_comments(l) THEN Hidden ELSE {h \in Hidden : h[1] # "/"}

MCSources == [l \in LangFamily |->
    Texts(Words[l], 4) \cup Mixed(Words[l] \cup Special[l], ShownIn(l))]

-----------------------------------------------------------------------------
Sequences(S, n) == UNION {[1 .. k -> S] : k \in 0 .. n}

Columns == [column_line : Sequences({"x", "e2", "q3", "w4"}, 4), encoding : PosEncoding]

Searches == [word : {<<"x">>, <<"x", "y">>, <<"e2", "x">>},
             text : Sequences({"x", "y", "e2", " ", NewLine}, 5)]
\* The same with a character of several bytes that no word contains.
WideSearches == [word : {<<"x">>}, text : Sequences({"x", "d3", " "}, 3)]

Calls == {[typed |-> <<"f", "(">> \o arguments] : arguments \in Sequences({"(", ")", ",", "x"}, 6)}

DocLines == {EmptyLine, DocLine("", TRUE), DocLine("//", TRUE), DocLine("*", TRUE), DocLine("*", FALSE),
             DocLine("/**", TRUE), DocLine("/**", FALSE), DocLine("*/", FALSE)}
\* A "*" begins a line of a comment only inside one.
WellFormed(lines) == \A n \in 0 .. Len(lines) - 1 :
    LineOf(lines, n).begins \in {"*", "*/"} => InBlock(lines, n)
Docs == [doc_lang : {"Rust"}, doc_lines : {lines \in Sequences(DocLines, 4) : WellFormed(lines)}]
    \cup [doc_lang : {"Python"}, doc_lines : Sequences({EmptyLine, DocLine("", TRUE), DocLine("#", TRUE), DocLine("3q", TRUE), DocLine("..3q", FALSE)}, 3)]

CodeLines == Sequences({"x", "(", ")", "{"}, 3)
LongList == <<"x", "(">>
Signatures == [sig_lang : {"Rust", "Python"}, code : [1 .. 2 -> CodeLines]]
    \cup [sig_lang : {"JsTs"}, code : {<<LongList>> \o [k \in 1 .. n |-> <<"x">>] \o <<<<")", "{">>>> : n \in 0 .. 5}]

NamePairs == [query : Sequences({"x", "y", "e2"}, 4), symbol : Sequences({"x", "y", "e2"}, 4)]
    \cup [query : [1 .. 5 -> {"x", "y"}], symbol : [1 .. 6 -> {"x", "y"}]]

ShortNames == {<<"x">>} \cup [1 .. 3 -> {"x", "y"}]
Rebuilds == [before : Sequences(ShortNames, 1), names : Sequences(ShortNames, 2), query : ShortNames]

LongNames == {f \in [1 .. 6 -> {"x", "X"}] : f[1] = "X"} \cup
    {<<"a", "x", "b", "e2", "c", "X">>, <<"w4", "a", "b", "x", "c", "d">>, <<"a", "b", "c", "d", "e", "X", "f">>}
Typos == {[indexed |-> names, query |-> query] : <<names, query>> \in
             UNION {{<<names, query>> : names \in {<<name>>, <<name, query>>, <<query, name>>, <<<<"x">>, name>>}} :
                 <<name, query>> \in UNION {{<<n, q>> : q \in Edited(n, {"x", "b", "X", "e2"})} : n \in LongNames}}}

\* What may be inside what.
RustIn(kind) ==
    CASE kind \in {"root", "module"} -> {"function", "impl", "trait", "struct", "enum", "constant", "module"}
      [] kind = "impl" -> {"function", "constant"} [] kind = "trait" -> {"signature", "function"}
      [] kind = "struct" -> {"field"} [] kind = "enum" -> {"variant"}
      [] kind = "signature" -> {"parameter"}
      [] kind \in {"function", "lambda"} -> {"parameter", "let", "lambda", "function"}
      [] OTHER -> {}
PythonIn(kind) ==
    CASE kind = "root" -> {"function", "class", "let"} [] kind = "class" -> {"function", "let"}
      [] kind \in {"function", "lambda"} -> {"parameter", "let", "lambda", "class"} [] OTHER -> {}
GoIn(kind) ==
    CASE kind = "root" -> {"function", "method", "struct", "interface", "type", "variable"}
      [] kind = "struct" -> {"field"} [] kind = "interface" -> {"signature"}
      [] kind \in {"function", "method"} -> {"variable", "constant"} [] OTHER -> {}
JsIn(kind) ==
    CASE kind = "root" -> {"function", "class", "let", "arrow", "export"}
      [] kind = "export" -> {"function", "class", "const"} [] kind = "class" -> {"method"}
      [] kind \in {"function", "method", "arrow"} -> {"parameter", "let", "const", "arrow"} [] OTHER -> {}
TsIn(kind) == CASE kind = "root" -> {"interface", "enum", "type", "class", "arrow", "function", "export"}
      [] kind = "export" -> {"interface", "enum", "type"}
      [] kind = "interface" -> {"signature", "field"} [] kind = "enum" -> {"variant"}
      [] kind = "class" -> {"method", "field"}
      [] kind \in {"function", "method", "arrow"} -> {"parameter", "const"} [] OTHER -> {}
JavaIn(kind) ==
    CASE kind = "root" -> {"class", "interface", "enum", "record", "annotation"}
      [] kind = "class" -> {"method", "constructor", "field", "class"} [] kind = "interface" -> {"method"}
      [] kind = "enum" -> {"variant", "method"}
      [] kind \in {"method", "constructor", "lambda"} -> {"parameter", "let", "lambda"} [] OTHER -> {}
RubyIn(kind) ==
    CASE kind \in {"root", "module"} -> {"module", "class", "method", "constant"}
      [] kind = "class" -> {"method", "singleton", "class"} [] OTHER -> {}
CIn(kind) ==
    CASE kind \in {"root", "preproc"} -> {"function", "typedef", "struct", "enum", "let", "fnptr", "preproc"}
      [] kind \in {"struct"} -> {"field"} [] kind = "typedef" -> {"field", "variant"} [] kind = "enum" -> {"variant"}
      [] kind = "function" -> {"parameter", "let", "block", "control", "other", "function"}
      [] kind \in {"block", "control", "other"} -> {"let", "block", "control"} [] OTHER -> {}
CppIn(kind) ==
    CASE kind \in {"root", "namespace"} -> {"function", "qualified", "class", "struct", "namespace", "let"}
      [] kind \in {"class", "struct"} -> {"method", "field", "public", "protected", "class"}
      [] kind \in {"function", "method", "qualified"} -> {"parameter", "let", "block", "other"}
      [] kind \in {"block", "other"} -> {"let"} [] OTHER -> {}
Inside(l, kind) ==
    CASE l = "Rust" -> RustIn(kind) [] l = "Python" -> PythonIn(kind) [] l = "Go" -> GoIn(kind)
      [] l = "Js" -> JsIn(kind) [] l = "Ts" -> TsIn(kind) [] l = "Java" -> JavaIn(kind)
      [] l = "Ruby" -> RubyIn(kind) [] l = "C" -> CIn(kind) [] l = "Cpp" -> CppIn(kind)

NodeNames == <<"A", "x", "_y", "B", "z">>
Trees(l, size) ==
    LET below[d \in 0 .. size] ==
            IF d = 0 THEN {"root"} ELSE UNION {Inside(l, kind) : kind \in below[d - 1]}
        kinds == UNION {below[d] : d \in 1 .. size}
        grown[n \in 0 .. size] ==
            IF n = 0 THEN {<<>>}
            ELSE {Append(t, [kind |-> k, parent |-> p, name |-> NodeNames[n], receiver |-> "B"]) :
                     <<t, p, k>> \in {<<t, p, k>> \in grown[n - 1] \X (0 .. n - 1) \X kinds :
                         /\ p \in {0, n - 1} \cup (IF n = 1 THEN {} ELSE Ancestors(t, n - 1))
                         /\ k \in Inside(l, Kind(t, p))}}
    IN  UNION {grown[n] : n \in 1 .. size}

Parsed == {try_parse(ext) : ext \in {"c", "cpp", "rs", "go", "py", "js", "ts", "java", "rb"}}
TreeSize == 4

\* The rows of a tree: those of each node apart from the others', or all on two
\* rows, the second from the k-th node on (one row for the first), where a node
\* is closed only when the next one behind it starts. Rows tell nothing apart in
\* a tree without a scope.
LastInside(t, n) == Max({n} \cup {m \in Nodes(t) : n \in Ancestors(t, m)})
Placed(t, Start(_), End(_)) ==
    [n \in Nodes(t) |-> [kind |-> t[n].kind, parent |-> t[n].parent, name |-> t[n].name, receiver |-> t[n].receiver,
                          start |-> Start(n), end |-> End(n)]]
Apart(t) ==
    LET Row(n) == n * (Len(t) + 1)
    IN  Placed(t, Row, LAMBDA n : Row(LastInside(t, n) + 1) - 1 - Cardinality(Ancestors(t, n)))
BrokenAt(t, k) ==
    LET Row(n) == IF n < k THEN 0 ELSE 1
    IN  Placed(t, Row, LAMBDA n : Row(Min({LastInside(t, n) + 1, Len(t)})))
LaidOut(l, t, k) ==
    IF k \in Nodes(t) /\ (\E n \in Nodes(t) : Scopes(l, t, n) # {}) THEN BrokenAt(t, k) ELSE Apart(t)

MCInputs(question) ==
    CASE question = "columns" -> Columns
      [] question = "references" -> Searches \cup WideSearches
      [] question = "calls" -> Calls
      [] question = "docs" -> Docs
      [] question = "signatures" -> Signatures
      [] question = "names" -> NamePairs
      [] question = "rebuilds" -> Rebuilds
      [] question = "typos" -> Typos
      [] question \in Parsed ->
             {[grammar |-> question, tree |-> LaidOut(question, t, k)] : t \in Trees(question, TreeSize), k \in 0 .. TreeSize}
=============================================================================

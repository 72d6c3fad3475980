----------------------------- MODULE Extraction -----------------------------
(***************************************************************************)
(* How symbols are extracted from a syntax tree                            *)
(* (parsing/tree_sitter_parse): the query engine and its rules for each    *)
(* language, the removal of duplicates, and the walkers that add what the  *)
(* queries of C and C++ do not see.                                        *)
(*                                                                         *)
(* A tree is a sequence of nodes in document order, each with its kind,    *)
(* its name and its parent's index (0 for the root), and a method of Go    *)
(* with the type of its receiver. A kind stands for what the grammars call *)
(* differently; "let", "const" and "arrow" declare a variable, the last    *)
(* one with a function for its value; a function in a function (GNU C) has *)
(* its locals in it like a block. A node has the rows it starts and ends   *)
(* on, which it may share with any other; its name is on its first row, a  *)
(* C typedef's on its last.                                                *)
(* Visibility is what the code finds by name, by export or by an access    *)
(* specifier; modifiers of a single declaration are left out.              *)
(***************************************************************************)
EXTENDS SourceText

ASSUME NoScopeAssumption == None \notin [depth : Nat, end : Nat, container : STRING \cup {None}]

Nodes(tree) == 1 .. Len(tree)
Kind(tree, n) == IF n = 0 THEN "root" ELSE tree[n].kind
ParentKind(tree, n) == Kind(tree, tree[n].parent)
Children(tree, n) == {m \in Nodes(tree) : tree[m].parent = n}
Ancestors(tree, n) ==
    LET up[m \in 0 .. n] == IF m = 0 \/ tree[m].parent = 0 THEN {} ELSE {tree[m].parent} \cup up[tree[m].parent]
    IN  up[n]
\* A node's rows are among those of what it is in, and what comes behind it
\* starts on the row it ends on, or below.
RowsInOrder(tree) ==
    /\ \A n \in Nodes(tree) : tree[n].start <= tree[n].end
    /\ \A n \in Nodes(tree) : \A a \in Ancestors(tree, n) : tree[a].start <= tree[n].start /\ tree[n].end <= tree[a].end
    /\ \A n, m \in Nodes(tree) : n < m /\ n \notin Ancestors(tree, m) => tree[n].end <= tree[m].start
IsTree(tree) ==
    /\ tree \in Seq([kind : STRING, parent : Nat, name : STRING, receiver : STRING, start : Nat, end : Nat])
    /\ \A n \in Nodes(tree) : tree[n].parent \in 0 .. n - 1 /\ tree[n].name # None
    /\ RowsInOrder(tree)

StartLine(tree, n) == tree[n].start
EndLine(tree, n) == tree[n].end
NameLine(tree, n) == IF Kind(tree, n) = "typedef" THEN EndLine(tree, n) ELSE StartLine(tree, n)

-----------------------------------------------------------------------------
(* The queries. A rule captures the name of a node of a kind, anywhere or  *)
(* directly in a node of other kinds, as "definition.<suffix>"; a member's *)
(* rule captures the name of what it is in as its container as well.       *)

Anywhere == {}
Rule(kind, suffix) == [kind |-> kind, in |-> Anywhere, suffix |-> suffix, contained |-> FALSE]
Within(kind, in, suffix) == [kind |-> kind, in |-> in, suffix |-> suffix, contained |-> FALSE]
Member(kind, in, suffix) == [kind |-> kind, in |-> in, suffix |-> suffix, contained |-> TRUE]

\* The kinds whose rule's suffix is the kind itself.
AsNamed(kinds) == {Rule(k, k) : k \in kinds}
Declarations == {"let", "const", "arrow"}
Locals == {Rule(d, "local") : d \in Declarations}

RUST_QUERY ==
    AsNamed({"function", "struct", "enum", "trait", "type", "constant", "variable", "module", "macro", "parameter"})
    \cup {Member("function", {"impl", "trait"}, "method"), Member("signature", {"trait"}, "method"),
          Member("constant", {"impl"}, "constant"), Member("field", {"struct"}, "field"),
          Member("variant", {"enum"}, "variant"), Rule("let", "local")}

PYTHON_QUERY ==
    AsNamed({"function", "class", "parameter"})
    \cup {Member("function", {"class"}, "method"), Within("let", {"root"}, "variable"), Rule("let", "local")}

GO_QUERY ==
    AsNamed({"function", "method", "struct", "interface", "type", "variable", "constant"})
    \cup {Rule("struct", "type"), Rule("interface", "type"), Member("field", {"struct"}, "field"),
          Member("signature", {"interface"}, "method")}

JS_QUERY ==
    AsNamed({"function", "class", "parameter"}) \cup Locals
    \cup {Rule(d, "variable") : d \in Declarations}
    \cup {Rule("arrow", "function"), Member("method", {"class"}, "method"),
          Within("function", {"export"}, "function"), Within("class", {"export"}, "class")}
    \cup {Within(d, {"export"}, "variable") : d \in Declarations}

TS_QUERY ==
    JS_QUERY \cup AsNamed({"interface", "type", "enum"})
    \cup {Member("signature", {"interface"}, "method"), Member("field", {"class", "interface"}, "field"),
          Member("variant", {"enum"}, "variant")}
    \cup {Within(k, {"export"}, k) : k \in {"interface", "type", "enum"}}

JAVA_QUERY ==
    AsNamed({"class", "interface", "enum", "parameter"})
    \cup {Rule("record", "struct"), Rule("annotation", "interface"), Rule("let", "local"),
          Member("method", {"class", "interface", "enum"}, "method"), Member("field", {"class"}, "field"),
          Member("constructor", {"class"}, "constructor"), Member("variant", {"enum"}, "constant")}

RUBY_QUERY ==
    AsNamed({"class", "module", "constant"})
    \cup {Rule("method", "function"), Rule("singleton", "function"),
          Member("method", {"class", "module"}, "method"), Member("singleton", {"class"}, "method")}

C_QUERY ==
    AsNamed({"function", "struct", "enum"})
    \cup {Rule("union", "struct"), Rule("variant", "constant"), Rule("typedef", "type"),
          Rule("define", "constant"), Member("field", {"struct"}, "field")}

CPP_QUERY ==
    AsNamed({"function", "class", "struct", "enum"})
    \cup {Rule("qualified", "function"), Rule("union", "struct"), Rule("variant", "constant"),
          Rule("namespace", "module"), Rule("typedef", "type"), Rule("define", "constant")}

Query(lang) ==
    CASE lang = "Rust" -> RUST_QUERY [] lang = "Python" -> PYTHON_QUERY [] lang = "Go" -> GO_QUERY
      [] lang = "Js" -> JS_QUERY [] lang = "Ts" -> TS_QUERY [] lang = "Java" -> JAVA_QUERY
      [] lang = "Ruby" -> RUBY_QUERY [] lang = "C" -> C_QUERY [] lang = "Cpp" -> CPP_QUERY

Grammars == {"C", "Cpp", "Rust", "Go", "Python", "Js", "Ts", "Java", "Ruby"}

\* try_parse: the grammar of a file by its extension; the others are left to
\* the tokenizer.
try_parse(ext) ==
    CASE ext \in {"c", "h"} -> "C"
      [] ext \in {"cpp", "cc", "cxx", "hpp", "hxx"} -> "Cpp"
      [] ext = "rs" -> "Rust" [] ext = "go" -> "Go"
      [] ext \in {"py", "pyi"} -> "Python"
      [] ext \in {"js", "jsx", "mjs", "cjs"} -> "Js"
      [] ext \in {"ts", "mts", "tsx"} -> "Ts"
      [] ext = "java" -> "Java" [] ext = "rb" -> "Ruby"
      [] OTHER -> None

ScopeKinds(lang) ==
    CASE lang = "Rust" -> {"function", "signature", "lambda"}
      [] lang = "Python" -> {"function", "lambda"}
      [] lang \in {"Js", "Ts"} -> {"function", "method", "arrow", "lambda"}
      [] lang = "Java" -> {"method", "constructor", "lambda"}
      [] lang = "Go" -> {"function", "method", "lambda"}
      [] lang = "Ruby" -> {"method", "singleton", "lambda"}
      [] OTHER -> {}

\* A closure and an arrow function have no name of their own.
ScopeName(tree, n) == IF Kind(tree, n) \in {"lambda", "arrow"} THEN None ELSE tree[n].name

capture_to_kind(suffix) ==
    CASE suffix \in {"function", "macro", "constructor"} -> "Function"
      [] suffix \in {"variable", "field", "local", "parameter"} -> "Variable"
      [] suffix \in {"constant", "variant"} -> "Constant"
      [] suffix = "type" -> "TypeAlias"
      [] OTHER -> suffix

default_def_keyword(suffix) ==
    CASE suffix = "function" -> "fn" [] suffix = "module" -> "mod"
      [] suffix \in {"constant", "variant"} -> "const"
      [] suffix \in {"variable", "field", "local"} -> "variable"
      [] OTHER -> suffix

\* Where a language's own table has no word for a suffix it has one for all.
def_keyword(lang, suffix) ==
    CASE lang = "Rust" -> (CASE suffix = "variable" -> "static"
                             [] suffix \in {"field", "variant"} -> suffix
                             [] OTHER -> default_def_keyword(suffix))
      [] lang = "Python" -> IF suffix \in {"method", "class", "variable"} THEN suffix ELSE "def"
      [] lang = "Go" -> IF suffix \in {"method", "struct", "interface", "type", "field"} THEN suffix
                        ELSE CASE suffix = "variable" -> "var" [] suffix = "constant" -> "const" [] OTHER -> "func"
      [] lang = "Js" -> IF suffix \in {"method", "class", "variable"} THEN suffix
                        ELSE IF suffix = "constant" THEN "const" ELSE "function"
      [] lang = "Ts" -> IF suffix \in {"method", "class", "interface", "type", "enum", "variable"} THEN suffix
                        ELSE CASE suffix = "field" -> "variable" [] suffix = "variant" -> "enum"
                               [] suffix = "constant" -> "const" [] OTHER -> "function"
      [] lang = "Java" -> IF suffix \in {"function", "method", "interface", "enum", "constructor"} THEN suffix
                          ELSE CASE suffix = "struct" -> "record" [] suffix = "constant" -> "enum"
                                 [] suffix \in {"variable", "field"} -> "field" [] OTHER -> "class"
      [] lang = "Ruby" -> IF suffix \in {"class", "module", "constant"} THEN suffix ELSE "def"
      [] lang \in {"C", "Cpp"} ->
           IF suffix \in {"struct", "enum", "field", "variable"} \cup (IF lang = "Cpp" THEN {"method", "class"} ELSE {})
           THEN suffix
           ELSE CASE suffix = "constant" -> "enum" [] suffix = "type" -> "typedef"
                  [] lang = "Cpp" /\ suffix = "module" -> "namespace" [] OTHER -> "function"

-----------------------------------------------------------------------------
(* run_query_parse. *)

Symbol(tree, n, kind, keyword, container, depth, scope_end) ==
    [name |-> tree[n].name, node |-> n, line |-> NameLine(tree, n), kind |-> kind, def_keyword |-> keyword,
     visibility |-> "Unknown", container |-> container, depth |-> depth, scope_end |-> scope_end]

\* The innermost function around a name, and how many there are.
find_enclosing_scope(lang, tree, n) ==
    LET scopes == {a \in Ancestors(tree, n) : Kind(tree, a) \in ScopeKinds(lang)}
    IN  IF scopes = {} THEN None
        ELSE [depth |-> Cardinality(scopes), end |-> EndLine(tree, Max(scopes)),
              container |-> ScopeName(tree, Max(scopes))]

Matches(lang, tree, n) ==
    {r \in Query(lang) : r.kind = Kind(tree, n) /\ (r.in = Anywhere \/ ParentKind(tree, n) \in r.in)}

\* One match as a symbol: a local or a parameter outside of any function is a
\* global like any other.
Captured(lang, tree, n, rule) ==
    LET scope   == find_enclosing_scope(lang, tree, n)
        keyword == def_keyword(lang, rule.suffix)
        kind    == capture_to_kind(rule.suffix)
    IN  IF rule.suffix \in {"local", "parameter"} /\ scope # None
        THEN Symbol(tree, n, kind, keyword, scope.container, scope.depth, scope.end)
        ELSE IF rule.contained
             THEN Symbol(tree, n, kind, keyword, tree[tree[n].parent].name, 1, None)
             ELSE Symbol(tree, n, kind, keyword, None, 0, None)

\* Mutant: of two at one place the later one is kept.
deduplicate_symbols_LastWins(symbols) == Last(symbols)

\* Of the symbols at one place: the later of two neighbours, unless only the
\* earlier one has a container.
deduplicate_symbols(symbols) ==
    LET kept[k \in 1 .. Len(symbols)] ==
            IF k = 1 THEN symbols[1]
            ELSE IF kept[k - 1].container # None /\ symbols[k].container = None THEN kept[k - 1] ELSE symbols[k]
    IN  kept[Len(symbols)]

\* What may become of node n, whose matches come in an order that the query
\* engine of tree-sitter chooses.
QueryOutcomes(lang, tree, n) ==
    LET matches == Matches(lang, tree, n)
        orders  == {f \in [1 .. Cardinality(matches) -> matches] : ToSet(f) = matches}
    IN  IF matches = {} THEN {}
        ELSE {deduplicate_symbols([k \in DOMAIN f |-> Captured(lang, tree, n, f[k])]) : f \in orders}

-----------------------------------------------------------------------------
(* What a language does to its symbols afterwards. *)

Upper == {"A", "B"}
Underscored == {"_y"}

\* JS and TS: everything on the lines of an export is public, every variable on
\* the lines of a const declaration a constant.
On(tree, n, line) == line \in StartLine(tree, n) .. EndLine(tree, n)
Exported(tree, line) == \E e \in Nodes(tree) : Kind(tree, e) = "export" /\ On(tree, e, line)
ConstAround(tree, line) == \E c \in Nodes(tree) : Kind(tree, c) \in {"const", "arrow"} /\ On(tree, c, line)

PostProcessed(lang, tree, s) ==
    LET constant == /\ s.kind = "Variable"
                    /\ \/ lang = "Python" /\ s.container = None /\ s.name \in Upper
                       \/ lang \in {"Js", "Ts"} /\ ConstAround(tree, s.line)
        visibility ==
            CASE lang = "Python" -> (IF s.name \in Underscored THEN "Private" ELSE "Public")
              [] lang = "Ruby" -> (IF s.name \in Underscored THEN "Private" ELSE "Unknown")
              [] lang = "Go" -> (IF s.name \in Upper THEN "Public" ELSE "Private")
              [] lang \in {"Js", "Ts"} /\ Exported(tree, s.line) -> "Public"
              [] OTHER -> s.visibility
        receiver == IF lang = "Go" /\ Kind(tree, s.node) = "method" THEN tree[s.node].receiver ELSE s.container
    IN  [s EXCEPT !.kind = IF constant THEN "Constant" ELSE @,
                  !.def_keyword = IF constant THEN "const" ELSE @,
                  !.visibility = visibility, !.container = receiver]

-----------------------------------------------------------------------------
(* The walkers of C and C++. *)

Preproc(tree, n) == Kind(tree, n) = "preproc"
AllAncestorsIn(tree, n, kinds) == \A a \in Ancestors(tree, n) : Kind(tree, a) \in kinds
AtFileScope(tree, n) == AllAncestorsIn(tree, n, {"preproc"})
IsDeclaration(tree, n) == Kind(tree, n) = "let"

\* extract_typedef_function_ptrs; make_symbol
FunctionPointers(tree) ==
    {Symbol(tree, n, "TypeAlias", "typedef", None, 0, None) :
        n \in {m \in Nodes(tree) : Kind(tree, m) = "fnptr" /\ AtFileScope(tree, m)}}

\* extract_typedef_inner_defs: a typedef's enumerators and fields, those that
\* no query had.
TypedefMembers(lang, tree) ==
    LET inner == {m \in Nodes(tree) : ParentKind(tree, m) = "typedef" /\ AtFileScope(tree, tree[m].parent)}
    IN  {Symbol(tree, n, "Constant", "enum", None, 0, None) :
            n \in {m \in inner : Kind(tree, m) = "variant" /\ Matches(lang, tree, m) = {}}}
        \cup {Symbol(tree, n, "Variable", "field", tree[tree[n].parent].name, 1, None) :
            n \in {m \in inner : Kind(tree, m) = "field" /\ Matches(lang, tree, m) = {}}}

\* extract_file_scope_vars
FileScopeVars(tree) ==
    {Symbol(tree, n, "Variable", "variable", None, 0, None) :
        n \in {m \in Nodes(tree) : IsDeclaration(tree, m) /\ AtFileScope(tree, m)}}

\* extract_params_and_locals goes into types, namespaces and templates.
Entered == {"preproc", "class", "struct", "namespace", "template"}
Functions(tree) ==
    {n \in Nodes(tree) : Kind(tree, n) \in {"function", "method", "qualified"} /\ AllAncestorsIn(tree, n, Entered)}
\* Only a plain identifier is taken for the function's name.
FunctionName(tree, f) == IF Kind(tree, f) = "function" THEN tree[f].name ELSE None

\* extract_function_params: of a function whose name was taken.
Parameters(tree) ==
    {Symbol(tree, n, "Variable", "parameter", tree[tree[n].parent].name, 1, EndLine(tree, tree[n].parent)) :
        n \in {m \in Nodes(tree) : /\ Kind(tree, m) = "parameter" /\ tree[m].parent \in Functions(tree)
                                    /\ FunctionName(tree, tree[m].parent) # None}}

\* has_nested_declarations: a block or a declaration directly inside.
has_nested_declarations(tree, n) == \E c \in Children(tree, n) : Kind(tree, c) \in {"block", "let"}

Between(tree, f, n) == {a \in Ancestors(tree, n) : f \in Ancestors(tree, a)}
BlockKinds == {"block", "control", "function"}
Blocks(tree, f, n) == {a \in Between(tree, f, n) : Kind(tree, a) \in BlockKinds}

\* Mutant: an inner block's locals live as long as the function.
ScopeEnd_Function(tree, f, n) == EndLine(tree, f)
ScopeEnd(tree, f, n) == EndLine(tree, Max({f} \cup Blocks(tree, f, n)))

\* extract_locals_from_compound: down through blocks, control statements and
\* functions in the function, and through anything else that has a block or a declaration in it.
BodyLocals(tree, f) ==
    {Symbol(tree, n, "Variable", "variable", FunctionName(tree, f),
            1 + Cardinality(Blocks(tree, f, n)), ScopeEnd(tree, f, n)) :
        n \in {m \in Nodes(tree) :
                 /\ IsDeclaration(tree, m) /\ f \in Ancestors(tree, m)
                 /\ \A a \in Between(tree, f, m) :
                      Kind(tree, a) \in BlockKinds \/ (Kind(tree, a) = "other" /\ has_nested_declarations(tree, a))}}
BlockLocals(tree) == UNION {BodyLocals(tree, f) : f \in Functions(tree)}

\* extract_class_bodies: the members of every class that is in no other one;
\* an access specifier holds for what comes after it.
Access(tree, n) ==
    LET class      == tree[n].parent
        specifiers == {m \in Children(tree, class) : m < n /\ Kind(tree, m) \in {"public", "private", "protected"}}
    IN  IF specifiers = {} THEN (IF Kind(tree, class) = "class" THEN "Private" ELSE "Public")
        ELSE CASE Kind(tree, Max(specifiers)) = "public" -> "Public"
               [] Kind(tree, Max(specifiers)) = "private" -> "Private"
               [] OTHER -> "Unknown"
ClassMembers(lang, tree) ==
    LET members == {m \in Nodes(tree) :
            /\ ParentKind(tree, m) \in {"class", "struct"}
            /\ \A a \in Ancestors(tree, tree[m].parent) : Kind(tree, a) \notin {"class", "struct"}
            /\ Matches(lang, tree, m) = {}}
        Of(n, kind, keyword) ==
            [Symbol(tree, n, kind, keyword, tree[tree[n].parent].name, 1, None) EXCEPT !.visibility = Access(tree, n)]
    IN  {Of(n, "Method", "method") : n \in {m \in members : Kind(tree, m) = "method"}}
        \cup {Of(n, "Variable", "field") : n \in {m \in members : Kind(tree, m) = "field"}}

\* c_post_process, cpp_post_process
Walked(lang, tree) ==
    CASE lang = "C" -> FunctionPointers(tree) \cup TypedefMembers(lang, tree) \cup FileScopeVars(tree)
                       \cup Parameters(tree) \cup BlockLocals(tree)
      [] lang = "Cpp" -> ClassMembers(lang, tree) \cup FunctionPointers(tree) \cup FileScopeVars(tree)
                         \cup Parameters(tree) \cup BlockLocals(tree)
      [] OTHER -> {}

\* All that may be extracted for a tree, whatever the order of the matches.
Symbols(lang, tree) ==
    {PostProcessed(lang, tree, s) : s \in UNION {QueryOutcomes(lang, tree, n) : n \in Nodes(tree)}}
    \cup Walked(lang, tree)

\* collect_occurrences: a name is a definition where a symbol is.
Role(lang, tree, n) ==
    IF \E s \in Symbols(lang, tree) : s.node = n THEN "Definition" ELSE "Reference"

\* insert_file_entry and document_symbol leave out what is_local is true of.
is_local(s) == s.depth > 0 /\ s.def_keyword \in {"variable", "parameter", "field"}

-----------------------------------------------------------------------------
(* Properties of one tree. *)

\* A name gets one symbol: what the queries found no walker finds again, and no
\* walker what another one found (common.rs:497, "Remove duplicate symbols at
\* the same position").
OneSymbolPerName(lang, tree) ==
    /\ \A n \in Nodes(tree) : Cardinality({s \in Walked(lang, tree) : s.node = n}) <= 1
    /\ \A s \in Walked(lang, tree) : Matches(lang, tree, s.node) = {}

\* A member belongs to the type it is written in, in whatever order the matches
\* of the general rule and of the member's rule come (common.rs:434, "keep the
\* one with a container (more specific)").
MembersKeepTheirType(lang, tree) ==
    \A n \in Nodes(tree) : (\E r \in Matches(lang, tree, n) : r.contained) =>
        \A s \in QueryOutcomes(lang, tree, n) : s.container = tree[tree[n].parent].name /\ s.depth = 1

FunctionKinds(lang) == IF lang \in {"C", "Cpp"} THEN {"function", "method", "qualified"} ELSE ScopeKinds(lang)
Scopes(lang, tree, n) ==
    {a \in Ancestors(tree, n) :
        Kind(tree, a) \in FunctionKinds(lang) \cup (IF lang \in {"C", "Cpp"} THEN {"block", "control"} ELSE {})}

\* What find_local_definition_at (workspace.rs:819) goes by. Of a name behind a
\* local: it is on the local's lines if it is in the local's scope, and only
\* then, unless it is on the very row that scope ends on ("the cursor must be
\* within scope"). And a local in a scope further inside lives no longer and is
\* deeper ("preferring deeper scopes (inner blocks shadow outer ones)").
OnLinesOf(s, line) == s.line <= line /\ line <= s.scope_end
LocalsAreSeenInScope(lang, tree) ==
    LET scoped == {s \in Symbols(lang, tree) : s.scope_end # None}
        Around(n) == Scopes(lang, tree, n)
    IN  /\ \A s \in scoped : \A n \in Nodes(tree) : n > s.node =>
             /\ Around(s.node) \subseteq Around(n) => OnLinesOf(s, NameLine(tree, n))
             /\ OnLinesOf(s, NameLine(tree, n)) =>
                  Around(s.node) \subseteq Around(n) \/ NameLine(tree, n) = s.scope_end
        /\ \A s, t \in scoped :
             (Around(s.node) \subseteq Around(t.node) /\ Around(s.node) # Around(t.node))
                => t.scope_end <= s.scope_end /\ t.depth > s.depth

\* What is declared inside a function is left out of the global definitions and
\* of the outline.
LocalsAreLocal(lang, tree) ==
    \A s \in Symbols(lang, tree) :
        (/\ Kind(tree, s.node) \in {"let", "parameter"}
         /\ \E a \in Ancestors(tree, s.node) : Kind(tree, a) \in FunctionKinds(lang)) => is_local(s)
=============================================================================

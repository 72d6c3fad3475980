--------------------------- MODULE LanguageServer ---------------------------
(***************************************************************************)
(* The request handlers of the LSP server (src/lsp/server.rs) over the     *)
(* parts of the workspace they read: the editor's overlays, the cached     *)
(* syntax trees, the symbol index, the dependency index and the disk.      *)
(*                                                                         *)
(* A handler awaits only its first lock, so it is one action: it reads one *)
(* state of the index. What moves between two handlers is the editor, the  *)
(* background scan and the disk.                                           *)
(*                                                                         *)
(* A text is a value; Parse gives [source, lines, symbols, nodes, headers].*)
(*   symbols  [name, line, col (bytes), depth, keyword, scope_end,         *)
(*             container, visibility]                                      *)
(*   nodes    the named leaf nodes of its syntax tree: [line, from, to     *)
(*             (bytes), kind, parent, field]                               *)
(*   headers  the lines "impl Q", "struct Q", ...: [line, name]            *)
(* A symbol's signature is its line in the text it was extracted from.     *)
(***************************************************************************)
EXTENDS SourceText

CONSTANTS
    Paths,          \* workspace files
    DepPaths,       \* files of the dependencies
    Texts,          \* what a workspace file can hold
    Parse,          \* the parse of every text
    Disks,          \* what the workspace files may hold at the start
    DepTexts,       \* the text of every dependency file
    Similar,        \* pairs <<query, name>> the fuzzy index resolves
    Lowercase,      \* the small letter of every ASCII capital of the texts
    Absent,         \* no text, no tree, no entry
    HeaderReach,    \* lines definition_matches_qualifier looks up: 30
    MaxItems,       \* items of one answer: 20
    MaxEdits,       \* bound: notifications of the editor
    MaxScans        \* bound: scans

ASSUME LimitsAssumption == {HeaderReach, MaxItems, MaxEdits, MaxScans} \subseteq Nat
ASSUME AbsentAssumption == Absent \notin Texts \cup PosEncoding \cup {DepTexts[p] : p \in DepPaths}
ASSUME PanicAssumption == Panic \notin Nat
ASSUME DisksAssumption == Disks \subseteq [Paths -> Texts \cup {Absent}]
\* A file is the workspace's or a dependency's: the scan passes the directories
\* of dependencies over (workspace.rs:1394); an editor that opens one is left out.
ASSUME PathsAssumption ==
    Paths \cap DepPaths = {} /\ IsFiniteSet(Paths) /\ IsFiniteSet(DepPaths)
\* The parser finds a symbol on a line of its text.
ASSUME ParseAssumption ==
    \A t \in Texts : \A s \in Parse[t].symbols :
        /\ s.depth \in Nat /\ s.line \in 0 .. Len(Parse[t].lines) - 1
        /\ Parse[t].lines[s.line + 1] # None

\* What the ranges of an answer rest on, of the files' and the dependencies'
\* texts: a line is what the source holds between two newlines, and a name
\* stands where its node starts, both taken from the name's node
\* (tree_sitter_parse/common.rs:415).
ParsedTexts == Texts \cup {DepTexts[p] : p \in DepPaths}
ASSUME LinesAssumption ==
    \A t \in ParsedTexts :
        LET source == Parse[t].source
            lines  == Parse[t].lines
        IN  /\ source \in Seq(STRING) /\ lines \in Seq(Seq(STRING))
            /\ \A i \in 0 .. Len(source) - 1 :
                 /\ LineNumber(source, i) \in 0 .. Len(lines) - 1
                 /\ lines[LineNumber(source, i) + 1]
                      = Slice(source, LineStart(source, i), LineEnd(source, i))
\* The parser finds finitely many names.
ASSUME NamesAssumption ==
    \A t \in ParsedTexts : IsFiniteSet(Parse[t].symbols) /\ \A s \in Parse[t].symbols :
        /\ s.name \in Seq(STRING) /\ s.line \in 0 .. Len(Parse[t].lines) - 1
        /\ LET line == Parse[t].lines[s.line + 1]
           IN  \E k \in 0 .. Len(line) - Len(s.name) :
                 /\ Offsets(Utf8Width, line)[k] = s.col
                 /\ Slice(line, k, k + Len(s.name)) = s.name

VARIABLES
    disk, open_sources,
    trees,          \* SyntaxCache: the text each tree was parsed from
    files,          \* [text, stripped]: the text indexed; the scan strips signatures
    scanning, collected, \* a scan runs; what it has read and not installed
    deps_ready,     \* the dependency pass has run
    pos_encoding, position_encoding, \* the server's encoding, the one it announced
    answer,
    edits, scans

index == <<open_sources, trees, files>>
scan == <<scanning, collected>>
encodings == <<pos_encoding, position_encoding>>
vars == <<disk, index, scan, deps_ready, encodings, answer, edits, scans>>

NoAnswer == [kind |-> "none"]

TypeOK ==
    /\ disk \in [Paths -> Texts \cup {Absent}]
    /\ open_sources \in [Paths -> Texts \cup {Absent}]
    /\ trees \in [Paths -> Texts \cup {Absent}]
    /\ files \in [Paths -> [text: Texts \cup {Absent}, stripped: BOOLEAN]]
    /\ scanning \in BOOLEAN
    /\ collected \in [Paths -> Texts \cup {Absent}]
    /\ deps_ready \in BOOLEAN
    /\ pos_encoding \in PosEncoding
    /\ position_encoding \in PosEncoding \cup {Absent}
    /\ edits \in 0 .. MaxEdits /\ scans \in 0 .. MaxScans

NotIndexed == [text |-> Absent, stripped |-> FALSE]
NoText == [p \in Paths |-> Absent]

-----------------------------------------------------------------------------
(* initialize. *)

\* Mutant: UTF-32 is preferred and not announced.
Negotiate_Silent(offered) ==
    IF "Utf32" \in offered THEN [used |-> "Utf32", announced |-> Absent]
                           ELSE [used |-> "Utf16", announced |-> Absent]

\* The encoding used, and the one announced: none is announced for UTF-16,
\* which the protocol then assumes.
Negotiate(offered) ==
    CASE "Utf8" \in offered -> [used |-> "Utf8", announced |-> "Utf8"]
      [] "Utf8" \notin offered /\ "Utf32" \in offered -> [used |-> "Utf32", announced |-> "Utf32"]
      [] OTHER -> [used |-> "Utf16", announced |-> Absent]

Init ==
    /\ disk \in Disks
    /\ open_sources = NoText /\ trees = NoText /\ collected = NoText
    /\ files = [p \in Paths |-> NotIndexed]
    /\ scanning = FALSE /\ deps_ready = FALSE
    /\ \E offered \in SUBSET PosEncoding :
         LET n == Negotiate(offered)
         IN  pos_encoding = n.used /\ position_encoding = n.announced
    /\ answer = NoAnswer
    /\ edits = 0 /\ scans = 0

\* The encoding the client speaks.
ClientEncoding == IF position_encoding = Absent THEN "Utf16" ELSE position_encoding

-----------------------------------------------------------------------------
(* The editor, the disk, the scan and the dependency pass. *)

Edit(p) ==
    /\ edits < MaxEdits
    /\ edits' = edits + 1
    /\ answer' = NoAnswer
    /\ UNCHANGED <<scan, deps_ready, encodings, scans>>

\* Workspace::index_file: tree, overlay, then the index entry.
IndexFile(p, text) ==
    /\ trees' = [trees EXCEPT ![p] = text]
    /\ open_sources' = [open_sources EXCEPT ![p] = text]
    /\ files' = [files EXCEPT ![p] = [text |-> text, stripped |-> FALSE]]

DidOpen(p, text) ==
    /\ open_sources[p] = Absent
    /\ disk[p] # Absent => text = disk[p]
    /\ Edit(p) /\ IndexFile(p, text)
    /\ UNCHANGED disk

DidChange(p, text) ==
    /\ open_sources[p] \notin {Absent, text}
    /\ Edit(p) /\ IndexFile(p, text)
    /\ UNCHANGED disk

\* Mutant: the tree outlives the overlay.
DidClose_KeepsTree(p) ==
    /\ open_sources[p] # Absent
    /\ Edit(p)
    /\ open_sources' = [open_sources EXCEPT ![p] = Absent]
    /\ UNCHANGED <<disk, files, trees>>

\* Workspace::close_file: the symbols stay.
DidClose(p) ==
    /\ open_sources[p] # Absent
    /\ Edit(p)
    /\ open_sources' = [open_sources EXCEPT ![p] = Absent]
    /\ trees' = [trees EXCEPT ![p] = Absent]
    /\ UNCHANGED <<disk, files>>

\* The editor writes the buffer; the server has no didSave handler.
Save(p) ==
    /\ open_sources[p] \notin {Absent, disk[p]}
    /\ Edit(p)
    /\ disk' = [disk EXCEPT ![p] = open_sources[p]]
    /\ UNCHANGED index

\* scan_directory reads the files that are not open as it starts.
ScanRead ==
    /\ scans < MaxScans /\ ~scanning
    /\ scanning' = TRUE
    /\ scans' = scans + 1
    /\ collected' = [p \in Paths |-> IF open_sources[p] = Absent THEN disk[p] ELSE Absent]
    /\ answer' = NoAnswer
    /\ UNCHANGED <<disk, index, deps_ready, encodings, edits>>

\* A unit replaces the path's entry, whether the file is open by now or not.
ScanInstall(p) ==
    /\ collected[p] # Absent
    /\ collected' = [collected EXCEPT ![p] = Absent]
    /\ files' = [files EXCEPT ![p] = [text |-> collected[p], stripped |-> FALSE]]
    /\ answer' = NoAnswer
    /\ UNCHANGED <<disk, open_sources, trees, scanning, deps_ready, encodings, edits, scans>>

\* At its end every entry loses its signatures, the open files' too.
ScanStrip ==
    /\ scanning /\ collected = NoText
    /\ scanning' = FALSE
    /\ files' = [p \in Paths |-> [files[p] EXCEPT !.stripped = TRUE]]
    /\ answer' = NoAnswer
    /\ UNCHANGED <<disk, open_sources, trees, collected, deps_ready, encodings, edits, scans>>

IndexDependencies ==
    /\ ~deps_ready
    /\ deps_ready' = TRUE
    /\ answer' = NoAnswer
    /\ UNCHANGED <<disk, index, scan, encodings, edits, scans>>

-----------------------------------------------------------------------------
(* What the handlers read. *)

file_source(p) ==
    IF p \in DepPaths THEN DepTexts[p]
    ELSE IF open_sources[p] # Absent THEN open_sources[p] ELSE disk[p]

OnDisk(p) == IF p \in DepPaths THEN DepTexts[p] ELSE disk[p]

HasLine(text, n) == text # Absent /\ n < Len(Parse[text].lines)
Line(text, n) == IF HasLine(text, n) THEN Parse[text].lines[n + 1] ELSE <<>>

\* extract_signature at a symbol's line; a text that is shorter has none.
extract_signature(text, line) ==
    IF HasLine(text, line) THEN Line(text, line) ELSE None

Location(p, text, stripped, s) ==
    [file |-> p, symbol |-> s, parsed |-> text,
     signature |-> IF stripped THEN None ELSE extract_signature(text, s.line)]

SymbolsOf(p) ==
    LET text == files[p].text
    IN  IF text = Absent THEN {}
        ELSE {Location(p, text, files[p].stripped, s) : s \in Parse[text].symbols}

\* The symbols insert_file_entry keeps out of the global definitions.
is_local(s) == s.depth > 0 /\ s.keyword \in {"variable", "parameter", "field"}

WorkspaceDefinitions == {loc \in UNION {SymbolsOf(p) : p \in Paths} : ~is_local(loc.symbol)}

\* DependencyIndex delegates every query to a Workspace of its own.
DependencyDefinitions ==
    IF ~deps_ready THEN {}
    ELSE UNION {{Location(p, DepTexts[p], FALSE, s) : s \in {t \in Parse[DepTexts[p]].symbols : ~is_local(t)}}
                : p \in DepPaths}

find_definitions(defs, name) == {loc \in defs : loc.symbol.name = name}

find_local_definitions(name, p) ==
    {loc \in SymbolsOf(p) : loc.symbol.depth > 0 /\ loc.symbol.name = name}

\* max_by_key over (depth, line) of the declarations in scope at the cursor.
find_local_definition_at(name, p, cursor_line) ==
    LET InScope(s) == /\ s.line <= cursor_line
                      /\ s.scope_end # None => cursor_line <= s.scope_end
        local      == {loc \in find_local_definitions(name, p) : InScope(loc.symbol)}
        Beats(a, b) == \/ a.depth > b.depth
                       \/ a.depth = b.depth /\ a.line >= b.line
    IN  {a \in local : \A b \in local : Beats(a.symbol, b.symbol)}

\* The container the parser recorded, else a header line above it.
definition_matches_qualifier(loc, qualifier) ==
    LET s == loc.symbol
        source == file_source(loc.file)
    IN  IF s.container # None THEN s.container = qualifier
        ELSE /\ source # Absent
             /\ \E h \in Parse[source].headers : h.name = qualifier /\ h.line < s.line
                                          /\ h.line >= s.line - HeaderReach

definition_score(loc, current_file, qualifier) ==
    (IF loc.file = current_file THEN 2 ELSE 0)
    + (IF qualifier # None /\ definition_matches_qualifier(loc, qualifier) THEN 4 ELSE 0)

\* The definitions the sort can put first: equal scores keep the order of
\* the index, which is abstracted.
rank_definitions(defs, current_file, qualifier) ==
    {a \in defs : \A b \in defs : definition_score(a, current_file, qualifier)
                                   >= definition_score(b, current_file, qualifier)}

\* SyntaxCache::node_at: the named leaf that starts at or before the byte
\* column and ends after it.
node_at(p, line, col) ==
    IF trees[p] = Absent THEN {}
    ELSE {n \in Parse[trees[p]].nodes : n.line = line /\ n.from <= col /\ col < n.to}

classify_node(n) ==
    CASE n.kind = "field_identifier" -> "FieldAccess"
      [] n.kind = "type_identifier" -> "TypeRef"
      [] n.kind = "identifier" /\ n.parent = "call_expression" /\ n.field = "function" -> "FunctionCall"
      [] OTHER -> "Plain"

\* Leaves do not overlap, and one that is an identifier of some kind does not
\* begin or end inside a word.
ASSUME NodesAssumption ==
    \A t \in Texts : \A n \in Parse[t].nodes :
        LET line == Parse[t].lines[n.line + 1]
            Spans(m, k) == LET col == Offsets(Utf8Width, line)[k]
                           IN  m.line = n.line /\ m.from <= col /\ col < m.to
        IN  \A k \in 0 .. Len(line) - 1 :
              /\ \A m \in Parse[t].nodes : Spans(n, k) /\ Spans(m, k) => m = n
              /\ (/\ classify_node(n) # "Plain" /\ k + 1 < Len(line)
                  /\ is_ident_char(Ch(line, k)) /\ is_ident_char(Ch(line, k + 1)))
                 => (Spans(n, k) <=> Spans(n, k + 1))

ident_context_at(p, line, col) ==
    LET info == node_at(p, line, col)
    IN  IF info = {} THEN "Plain" ELSE classify_node(CHOOSE n \in info : TRUE)

\* SyntaxCache is asked with the cursor's character index.
AtCursor(p, line, character) ==
    LET text == Line(file_source(p), line)
        col  == client_col_to_char_index(text, character, pos_encoding)
    IN  [file |-> p, line |-> line, character |-> character, col |-> col,
         word |-> word_at_position(text, col),
         qualifier |-> qualifier_at_position(text, col),
         context |-> ident_context_at(p, line, col)]

range(loc, source) ==
    LET line == Line(source, loc.symbol.line)
        from == loc.symbol.col
        to   == loc.symbol.col + Bytes(loc.symbol.name)
    IN  IF ~HasLine(source, loc.symbol.line)
        THEN [line |-> loc.symbol.line, start |-> from, end |-> to]
        ELSE [line |-> loc.symbol.line,
              start |-> byte_col_to_encoding(line, from, pos_encoding),
              end |-> byte_col_to_encoding(line, to, pos_encoding)]

loc_to_lsp(loc) ==
    [file |-> loc.file, name |-> loc.symbol.name, range |-> range(loc, file_source(loc.file))]

-----------------------------------------------------------------------------
(* The handlers: the answers each can give. *)

FieldsOrGlobals(at) ==
    LET fields == {loc \in find_local_definitions(at.word, at.file) : loc.symbol.keyword = "field"}
    IN  IF fields # {} THEN fields ELSE find_definitions(WorkspaceDefinitions, at.word)

GlobalsOrDependencies(word) ==
    LET global == find_definitions(WorkspaceDefinitions, word)
    IN  IF global # {} THEN global ELSE find_definitions(DependencyDefinitions, word)

\* Mutant: the workspace is asked before the locals, as hover does.
DefinitionsFor_GlobalFirst(at) ==
    CASE at.context = "FieldAccess" -> FieldsOrGlobals(at)
      [] at.context = "TypeRef" -> find_definitions(WorkspaceDefinitions, at.word)
      [] OTHER -> LET global == GlobalsOrDependencies(at.word)
                  IN  IF global # {} THEN global
                      ELSE find_local_definition_at(at.word, at.file, at.line)

\* goto_definition: a local in scope shadows every global.
DefinitionsFor(at) ==
    CASE at.context = "FieldAccess" -> FieldsOrGlobals(at)
      [] at.context = "TypeRef" -> find_definitions(WorkspaceDefinitions, at.word)
      [] OTHER -> LET local == find_local_definition_at(at.word, at.file, at.line)
                  IN  IF local # {} THEN local ELSE GlobalsOrDependencies(at.word)

goto_definition(at) ==
    IF at.word = None THEN {}
    ELSE {loc_to_lsp(loc) : loc \in rank_definitions(DefinitionsFor(at), at.file, at.qualifier)}

\* Mutant: the signature is extracted again though the symbol has one.
enrich_symbol_if_needed_Always(loc) ==
    IF OnDisk(loc.file) = Absent THEN loc
    ELSE [loc EXCEPT !.signature = extract_signature(OnDisk(loc.file), loc.symbol.line)]

\* A signature the scan stripped is extracted from the file on disk.
enrich_symbol_if_needed(loc) ==
    IF loc.signature # None \/ OnDisk(loc.file) = Absent THEN loc
    ELSE [loc EXCEPT !.signature = extract_signature(OnDisk(loc.file), loc.symbol.line)]

\* hover asks the locals last; a plain local is found only when no global and
\* no dependency has its name.
hover_definitions(at) ==
    IF at.context \in {"FieldAccess", "TypeRef"} THEN DefinitionsFor(at)
    ELSE LET global == GlobalsOrDependencies(at.word)
         IN  IF global # {} THEN global ELSE find_local_definition_at(at.word, at.file, at.line)

hover(at) ==
    IF at.word = None THEN {}
    ELSE {loc \in {enrich_symbol_if_needed(d) :
                     d \in rank_definitions(hover_definitions(at), at.file, at.qualifier)} :
            loc.signature # None}

\* The workspace is asked, then the dependencies; the called name has no
\* current file to be ranked by.
signature_help(at) ==
    LET call == signature_help_scan(Line(file_source(at.file), at.line), at.col)
        Best(defs) == rank_definitions(find_definitions(defs, call.name), None, call.qualifier)
        best == IF Best(WorkspaceDefinitions) # {} THEN Best(WorkspaceDefinitions)
                                                   ELSE Best(DependencyDefinitions)
        Help(loc) == [label |-> loc.signature, parameters |-> extract_parameters(loc.signature),
                      active_parameter |-> call.active]
    IN  IF call = None THEN {}
        ELSE {Help(loc) : loc \in {d \in {enrich_symbol_if_needed(b) : b \in best} :
                                     d.signature # None}}

\* Every indexed file is searched; the posting list, where there is one, leaves
\* some of them out (ScanSession models it).
references(at) ==
    LET Found(p) ==
            LET source == file_source(p)
                Span(r) == [line |-> r.line,
                            start |-> byte_col_to_encoding(Line(source, r.line), r.col, pos_encoding),
                            end |-> byte_col_to_encoding(Line(source, r.line), r.col + r.len, pos_encoding)]
                refs == find_word_occurrences(at.word, Parse[source].source)
            IN  IF source = Absent THEN {}
                ELSE IF refs = Panic THEN {Panic}
                ELSE {[file |-> p, name |-> at.word, range |-> Span(r)] : r \in refs}
    IN  IF at.word = None THEN {} ELSE UNION {Found(p) : p \in {q \in Paths : files[q].text # Absent}}

\* The outline of a text that has lost the symbol's line is of an empty line.
document_symbol(p) ==
    LET Outlined(loc) ==
            IF HasLine(file_source(p), loc.symbol.line) THEN loc_to_lsp(loc)
            ELSE [file |-> p, name |-> loc.symbol.name,
                  range |-> [line |-> loc.symbol.line, start |-> 0, end |-> 0]]
    IN  {Outlined(loc) : loc \in {l \in SymbolsOf(p) : ~is_local(l.symbol)}}

visibility_score(loc, current_file) ==
    CASE loc.symbol.visibility = "Private" /\ loc.file = current_file -> 3
      [] loc.symbol.visibility = "Public" -> 2
      [] loc.symbol.visibility = "Unknown" -> 1
      [] OTHER -> 0

search_symbols(defs, query) ==
    {loc \in defs : loc.symbol.name = query \/ <<query, loc.symbol.name>> \in Similar}

\* sort_by: the index's maps hand their entries over in no order, so equal
\* scores stand in any.
SortByScore(results, current_file) ==
    {s \in SetToSeqs(results) : \A i, j \in DOMAIN s :
        i < j => visibility_score(s[i], current_file) >= visibility_score(s[j], current_file)}

\* workspace/symbol has no current file: a private symbol scores 0.
symbol(query) ==
    {{loc_to_lsp(s[i]) : i \in 1 .. Min({MaxItems, Len(s)})} :
        s \in SortByScore(search_symbols(WorkspaceDefinitions, query), None)}

to_ascii_lowercase(name) ==
    [k \in DOMAIN name |-> IF name[k] \in DOMAIN Lowercase THEN Lowercase[name[k]] ELSE name[k]]

completions(defs, prefix) ==
    LET Starts(name) == IsPrefix(to_ascii_lowercase(prefix), to_ascii_lowercase(name))
        found == {loc \in defs : Starts(loc.symbol.name)}
    IN  IF found # {} THEN found ELSE search_symbols(defs, prefix)

\* What filter(seen.insert(name)) lets by: the first entry of every name.
Unseen(s) == {i \in DOMAIN s : \A j \in 1 .. i - 1 : s[j].symbol.name # s[i].symbol.name}

\* ... and what take(20) ends: the entries let by so far are counted.
Taken(s) == {i \in Unseen(s) : Cardinality(Unseen(s) \cap 1 .. i - 1) < MaxItems}

\* Mutant: the names are made unique before the sort.
Offered_Unsorted(results, current_file) ==
    LET first == {{order[i] : i \in Unseen(order)} : order \in SetToSeqs(results)}
    IN  {{s[i].symbol.name : i \in Taken(s)} : s \in UNION {SortByScore(f, current_file) : f \in first}}

\* The labels offered.
Offered(results, current_file) ==
    {{s[i].symbol.name : i \in Taken(s)} : s \in SortByScore(results, current_file)}

completion(at) ==
    LET results == completions(WorkspaceDefinitions, at.word) \cup completions(DependencyDefinitions, at.word)
    IN  IF at.word = None THEN {} ELSE Offered(results, at.file)

-----------------------------------------------------------------------------
(* A request: the client sends a column of its own text in the encoding it *)
(* was told. The set of possible answers is kept in the answer.            *)

Columns ==
    [encoding \in PosEncoding |-> [t \in Texts |-> [n \in 1 .. Len(Parse[t].lines) |->
        {byte_col_to_encoding(Parse[t].lines[n], b, encoding) : b \in Boundaries(Parse[t].lines[n])}]]]

Cursors(p) ==
    LET columns == Columns[ClientEncoding][open_sources[p]]
    IN  UNION {{AtCursor(p, n - 1, c) : c \in columns[n]} : n \in DOMAIN columns}

Respond(kind, at, result) ==
    /\ answer = NoAnswer
    /\ answer' = [kind |-> kind, at |-> at, result |-> result]
    /\ UNCHANGED <<disk, index, scan, deps_ready, encodings, edits, scans>>

RequestAt(p) ==
    \E at \in Cursors(p) :
      \/ Respond("goto_definition", at, goto_definition(at))
      \/ Respond("hover", at, hover(at))
      \/ Respond("signature_help", at, signature_help(at))
      \/ Respond("references", at, references(at))
      \/ Respond("completion", at, completion(at))

RequestOutline(p) == Respond("document_symbol", [file |-> p], document_symbol(p))

RequestSymbol(query) == Respond("symbol", [word |-> query], symbol(query))

Opened == {p \in Paths : open_sources[p] # Absent}
Words == {s.name : s \in UNION {Parse[t].symbols : t \in Texts}}

Next ==
    \/ \E p \in Paths, t \in Texts : DidOpen(p, t) \/ DidChange(p, t)
    \/ \E p \in Paths : DidClose(p) \/ Save(p) \/ ScanInstall(p)
    \/ ScanRead \/ ScanStrip
    \/ IndexDependencies
    \/ \E p \in Opened : RequestAt(p) \/ RequestOutline(p)
    \/ \E w \in Words : RequestSymbol(w)

Spec == Init /\ [][Next]_vars

-----------------------------------------------------------------------------
(* What the handlers promise. *)

\* The index entry of a path is of the text a handler reads for it.
Current(p) == p \in DepPaths \/ files[p].text = file_source(p)

\* A cached tree is of the overlay, and only open files have one: node_at
\* slices the caller's source by the tree's offsets (syntax_cache.rs:137).
TreeIsOfTheText == trees = open_sources

\* With the types of the variables.
ServerInv == TypeOK /\ TreeIsOfTheText

\* Every range of an answer about a current file, read by the client in the
\* encoding it was told, covers exactly the symbol's name; no conversion
\* slices inside a character.
RangesCoverTheName ==
    LET Covers(loc) ==
            LET line == Line(file_source(loc.file), loc.range.line)
                from == client_col_to_char_index(line, loc.range.start, ClientEncoding)
                to   == client_col_to_char_index(line, loc.range.end, ClientEncoding)
            IN  Panic \notin {from, to} /\ Slice(line, from, to) = loc.name
        Checked(locs) == \A loc \in locs : (loc # Panic /\ Current(loc.file)) => Covers(loc)
    IN  CASE answer.kind \in {"goto_definition", "document_symbol", "references"} -> Checked(answer.result)
          [] answer.kind = "symbol" -> \A locs \in answer.result : Checked(locs)
          [] OTHER -> TRUE

\* A name that a declaration of its own function binds is never answered with
\* another file's definition or with an outer or a finished scope's, whatever
\* the scan and the dependencies have added (server.rs:540).
LocalsShadow ==
    LET at == answer.at
        symbols == Parse[open_sources[at.file]].symbols
        Binds(s) == /\ s.depth > 0 /\ s.name = at.word /\ s.line <= at.line
                    /\ s.scope_end = None \/ at.line <= s.scope_end
    IN  (/\ answer.kind = "goto_definition" /\ at.word # None
         /\ Current(at.file) /\ at.context \in {"Plain", "FunctionCall"}
         /\ \E s \in symbols : Binds(s)) =>
        /\ answer.result # {}
        /\ \A loc \in answer.result :
             \E s \in symbols :
                /\ loc.file = at.file /\ loc.name = at.word /\ loc.range.line = s.line
                /\ Binds(s)
                /\ \A t \in symbols : Binds(t) => t.depth <= s.depth

\* The signature hover shows is the line the symbol was indexed at, also in a
\* buffer that was never saved; a stripped one needs the file unchanged.
HoverShowsTheIndexedText ==
    answer.kind = "hover" =>
        \A loc \in answer.result :
            LET p == loc.file
                Kept == p \in Paths /\ (~files[p].stripped \/ disk[p] = files[p].text)
            IN  p \in DepPaths \/ Kept =>
                loc.signature = Line(loc.parsed, loc.symbol.line)

\* A completion list has no better name left out while a worse one is in, and
\* is full whenever enough names match (server.rs:973-977).
CompletionOffersTheBest ==
    answer.kind = "completion" =>
        LET at == answer.at
            all == completions(WorkspaceDefinitions, at.word) \cup completions(DependencyDefinitions, at.word)
            names == {loc.symbol.name : loc \in all}
        IN  \A labels \in answer.result :
                /\ Cardinality(labels) = Min({MaxItems, Cardinality(names)})
                /\ \A loc \in all : loc.symbol.name \notin labels =>
                      \A name \in labels : \E other \in all :
                          /\ other.symbol.name = name
                          /\ visibility_score(other, at.file) >= visibility_score(loc, at.file)

\* What is nearer to the cursor comes first: a local hides what is outside its
\* function, and in a list of limited length no name keeps a better one out.
NearerComesFirst == LocalsShadow /\ CompletionOffersTheBest

\* On a line of ASCII every cursor inside a word gets the word's answer; the
\* cursor at its end asks the tree for what follows it.
GotoIsPerWord ==
    answer = NoAnswer =>
        \A p \in Opened : \A at \in Cursors(p) :
            LET line == Line(open_sources[p], at.line)
                Inside(i) == i < Len(line) /\ is_ident_char(Ch(line, i))
            IN  Bytes(line) = Len(line) /\ Inside(at.col) /\ Inside(at.col + 1) =>
                goto_definition(at) = goto_definition(AtCursor(p, at.line, at.character + 1))
=============================================================================

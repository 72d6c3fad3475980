----------------------- MODULE LanguageServer_proofs -----------------------
(***************************************************************************)
(* Proofs about LanguageServer, for any files, texts and parses, however   *)
(* many edits and scans.  An answer is of the state it was given in: every *)
(* step but the request's takes it back, so what an answer promises is     *)
(* proved of the handler, in the state it reads.  What a handler does with *)
(* columns and words is proved in SourceText_proofs.                       *)
(***************************************************************************)
EXTENDS LanguageServer, SourceText_proofs

Text == Texts \cup {Absent}

-----------------------------------------------------------------------------
(* The types, and the trees of the open files. *)

LEMMA Limits == HeaderReach \in Nat /\ MaxItems \in Nat /\ MaxEdits \in Nat /\ MaxScans \in Nat
BY LimitsAssumption

LEMMA InitInv == Init => ServerInv
<1>. SUFFICES ASSUME Init PROVE ServerInv
  OBVIOUS
<1>1. disk \in [Paths -> Text]
  BY DisksAssumption DEF Init, Text
<1>2. /\ open_sources \in [Paths -> Text] /\ trees = open_sources
      /\ collected \in [Paths -> Text]
  BY DEF Init, NoText, Text
<1>3. files \in [Paths -> [text: Text, stripped: BOOLEAN]]
  BY DEF Init, NotIndexed, Text
<1>4. pos_encoding \in PosEncoding /\ position_encoding \in PosEncoding \cup {Absent}
  BY DEF Init, Negotiate, PosEncoding
<1>5. /\ scanning \in BOOLEAN /\ deps_ready \in BOOLEAN
      /\ edits \in 0 .. MaxEdits /\ scans \in 0 .. MaxScans
  <2>1. scanning = FALSE /\ deps_ready = FALSE /\ edits = 0 /\ scans = 0
    BY DEF Init
  <2>2. edits \in 0 .. MaxEdits /\ scans \in 0 .. MaxScans
    BY <2>1, Limits
  <2>3. scanning \in BOOLEAN /\ deps_ready \in BOOLEAN
    BY <2>1, Zenon
  <2>. QED BY <2>2, <2>3
<1>. QED BY <1>1, <1>2, <1>3, <1>4, <1>5 DEF ServerInv, TypeOK, TreeIsOfTheText, Text

\* The editor's notifications.
LEMMA EditorKeeps ==
    ASSUME ServerInv, NEW p \in Paths,
           (\E t \in Texts : DidOpen(p, t) \/ DidChange(p, t)) \/ DidClose(p) \/ Save(p)
    PROVE  ServerInv'
<1>1. /\ edits' \in 0 .. MaxEdits /\ UNCHANGED <<scan, deps_ready, encodings, scans>>
  BY Limits DEF DidOpen, DidChange, DidClose, Save, Edit, ServerInv, TypeOK
<1>2. CASE \E t \in Texts : DidOpen(p, t) \/ DidChange(p, t)
  <2>1. PICK t \in Texts : IndexFile(p, t)
    BY <1>2 DEF DidOpen, DidChange
  <2>2. disk' = disk
    BY <1>2 DEF DidOpen, DidChange
  <2>3. /\ trees' \in [Paths -> Text] /\ open_sources' \in [Paths -> Text]
        /\ files' \in [Paths -> [text: Text, stripped: BOOLEAN]]
    BY <2>1 DEF IndexFile, ServerInv, TypeOK, Text
  <2>4. trees' = open_sources'
    BY <2>1 DEF IndexFile, ServerInv, TypeOK, TreeIsOfTheText
  <2>. QED BY <1>1, <2>2, <2>3, <2>4
           DEF ServerInv, TypeOK, TreeIsOfTheText, scan, encodings, Text
<1>3. CASE DidClose(p)
  <2>1. /\ open_sources' = [open_sources EXCEPT ![p] = Absent]
        /\ trees' = [trees EXCEPT ![p] = Absent] /\ UNCHANGED <<disk, files>>
    BY <1>3 DEF DidClose
  <2>. QED BY <1>1, <2>1 DEF ServerInv, TypeOK, TreeIsOfTheText, scan, encodings
<1>4. CASE Save(p)
  <2>1. disk' = [disk EXCEPT ![p] = open_sources[p]] /\ UNCHANGED index
    BY <1>4 DEF Save
  <2>. QED BY <1>1, <2>1 DEF ServerInv, TypeOK, TreeIsOfTheText, scan, encodings, index
<1>. QED BY <1>2, <1>3, <1>4

\* The background work.
LEMMA ScanKeeps ==
    ASSUME ServerInv, ScanRead \/ ScanStrip \/ IndexDependencies \/ \E p \in Paths : ScanInstall(p)
    PROVE  ServerInv'
<1>1. UNCHANGED <<disk, open_sources, trees, encodings, edits>>
  BY DEF ScanRead, ScanStrip, IndexDependencies, ScanInstall, index
<1>2. scanning' \in BOOLEAN /\ deps_ready' \in BOOLEAN /\ scans' \in 0 .. MaxScans
  <2>1. scans' = scans \/ (scans < MaxScans /\ scans' = scans + 1)
    BY DEF ScanRead, ScanStrip, IndexDependencies, ScanInstall
  <2>2. scans' \in 0 .. MaxScans
    BY <2>1, Limits DEF ServerInv, TypeOK
  <2>. QED BY <2>2 DEF ScanRead, ScanStrip, IndexDependencies, ScanInstall, ServerInv, TypeOK, scan
<1>3. collected' \in [Paths -> Text] /\ files' \in [Paths -> [text: Text, stripped: BOOLEAN]]
  <2>1. CASE ScanRead
    BY <2>1 DEF ScanRead, ServerInv, TypeOK, index, Text
  <2>2. CASE ScanStrip
    BY <2>2 DEF ScanStrip, ServerInv, TypeOK, Text
  <2>3. CASE IndexDependencies
    BY <2>3 DEF IndexDependencies, ServerInv, TypeOK, index, scan, Text
  <2>4. ASSUME NEW p \in Paths, ScanInstall(p)
        PROVE  /\ collected' \in [Paths -> Text]
               /\ files' \in [Paths -> [text: Text, stripped: BOOLEAN]]
    BY <2>4 DEF ScanInstall, ServerInv, TypeOK, Text
  <2>. QED BY <2>1, <2>2, <2>3, <2>4
<1>. QED BY <1>1, <1>2, <1>3 DEF ServerInv, TypeOK, TreeIsOfTheText, encodings, Text

Request ==
    \/ \E p \in Opened : RequestAt(p) \/ RequestOutline(p)
    \/ \E w \in Words : RequestSymbol(w)

LEMMA RequestReads ==
    ASSUME Request
    PROVE  UNCHANGED <<disk, index, scan, deps_ready, encodings, edits, scans>>
BY DEF Request, RequestAt, RequestOutline, RequestSymbol, Respond

LEMMA StepInv == ServerInv /\ [Next]_vars => ServerInv'
<1>. SUFFICES ASSUME ServerInv, [Next]_vars PROVE ServerInv'
  OBVIOUS
<1>1. CASE Request \/ UNCHANGED vars
  <2>1. UNCHANGED <<disk, index, scan, deps_ready, encodings, edits, scans>>
    BY <1>1, RequestReads DEF vars
  <2>. QED BY <2>1 DEF ServerInv, TypeOK, TreeIsOfTheText, index, scan, encodings
<1>. QED BY <1>1, EditorKeeps, ScanKeeps DEF Next, Request

\* In any sequence of notifications, scans and saves the cached trees are the
\* trees of the overlays and of nothing else: node_at never slices the caller's
\* text by the offsets of another one (syntax_cache.rs:137).
THEOREM TreesAreOfTheOverlays == Spec => []ServerInv
<1>. QED BY InitInv, StepInv, PTL DEF Spec

-----------------------------------------------------------------------------
(* What a request answers, and when the answer is taken back. *)

reads == <<disk, index, deps_ready, encodings>>

\* The answer one of the handlers gives at a cursor.
Answers(at) ==
    \/ answer' = [kind |-> "goto_definition", at |-> at, result |-> goto_definition(at)]
    \/ answer' = [kind |-> "hover", at |-> at, result |-> hover(at)]
    \/ answer' = [kind |-> "signature_help", at |-> at, result |-> signature_help(at)]
    \/ answer' = [kind |-> "references", at |-> at, result |-> references(at)]
    \/ answer' = [kind |-> "completion", at |-> at, result |-> completion(at)]

\* The answers of the requests that have no cursor.
AnswersOutline(p) == answer' = [kind |-> "document_symbol", at |-> [file |-> p], result |-> document_symbol(p)]
AnswersSymbol(query) == answer' = [kind |-> "symbol", at |-> [word |-> query], result |-> symbol(query)]

\* Whatever a handler read is as it was as long as its answer stands.
LEMMA AnswerStands ==
    ASSUME [Next]_vars
    PROVE  \/ answer'.kind = "none"
           \/ /\ UNCHANGED reads
              /\ \/ answer' = answer
                 \/ \E p \in Opened : AnswersOutline(p)
                 \/ \E w \in Words : AnswersSymbol(w)
                 \/ \E p \in Opened : \E at \in Cursors(p) : Answers(at)
<1>1. CASE UNCHANGED vars
  BY <1>1 DEF vars, reads
<1>2. CASE Request
  <2>1. UNCHANGED reads
    BY <1>2, RequestReads DEF reads
  <2>2. ASSUME NEW p \in Opened, RequestAt(p) PROVE \E at \in Cursors(p) : Answers(at)
    BY <2>2, Zenon DEF RequestAt, Respond, Answers
  <2>3. ASSUME NEW p \in Opened, RequestOutline(p) PROVE AnswersOutline(p)
    BY <2>3, Zenon DEF RequestOutline, Respond, AnswersOutline
  <2>4. ASSUME NEW w \in Words, RequestSymbol(w) PROVE AnswersSymbol(w)
    BY <2>4, Zenon DEF RequestSymbol, Respond, AnswersSymbol
  <2>. QED BY <1>2, <2>1, <2>2, <2>3, <2>4, Zenon DEF Request
<1>3. CASE Next /\ ~Request
  <2>1. answer' = NoAnswer
    BY <1>3, Zenon DEF Next, Request, DidOpen, DidChange, DidClose, Save, Edit, ScanInstall,
       ScanRead, ScanStrip, IndexDependencies
  <2>. QED BY <2>1 DEF NoAnswer
<1>. QED BY <1>1, <1>2, <1>3

LEMMA CursorFile ==
    ASSUME NEW p, NEW at \in Cursors(p)
    PROVE  at.file = p
<1>1. PICK n, c : at = AtCursor(p, n - 1, c)
  BY Zenon DEF Cursors
<1>. QED BY <1>1 DEF AtCursor

-----------------------------------------------------------------------------
(* goto_definition: the nearest local. *)

Binds(at, s) ==
    /\ s.depth > 0 /\ s.name = at.word /\ s.line <= at.line
    /\ s.scope_end = None \/ at.line <= s.scope_end

\* What LocalsShadow says of an answer.
Shadows(at, result) ==
    LET symbols == Parse[open_sources[at.file]].symbols
    IN  (/\ at.word # None /\ Current(at.file) /\ at.context \in {"Plain", "FunctionCall"}
         /\ \E s \in symbols : Binds(at, s)) =>
        /\ result # {}
        /\ \A loc \in result :
             \E s \in symbols :
                /\ loc.file = at.file /\ loc.name = at.word /\ loc.range.line = s.line
                /\ Binds(at, s)
                /\ \A t \in symbols : Binds(at, t) => t.depth <= s.depth

LEMMA ShadowsReads ==
    ASSUME UNCHANGED reads, NEW at, NEW result
    PROVE  Shadows(at, result)' = Shadows(at, result)
<1>1. open_sources' = open_sources /\ Current(at.file)' = Current(at.file)
  BY DEF reads, index, Current, file_source
<1>. QED BY <1>1 DEF Shadows, Binds

\* The nearest of the declarations in scope, when the index is of the overlay.
LEMMA NearestLocal ==
    ASSUME ServerInv, NEW at, at.file \in Opened, Current(at.file),
           NEW s \in Parse[open_sources[at.file]].symbols, Binds(at, s)
    PROVE  LET found == find_local_definition_at(at.word, at.file, at.line)
           IN  /\ found # {}
               /\ \A a \in found :
                    /\ a.file = at.file /\ a.symbol \in Parse[open_sources[at.file]].symbols
                    /\ Binds(at, a.symbol)
                    /\ \A t \in Parse[open_sources[at.file]].symbols :
                          Binds(at, t) => t.depth <= a.symbol.depth
<1>. DEFINE p == at.file
            text == open_sources[p]
            symbols == Parse[text].symbols
            Beats(a, b) == a.depth > b.depth \/ (a.depth = b.depth /\ a.line >= b.line)
            Loc(t) == Location(p, text, files[p].stripped, t)
            local == {loc \in {Loc(t) : t \in symbols} : Binds(at, loc.symbol)}
<1>1. /\ p \in Paths /\ text \in Texts /\ text # Absent /\ files[p].text = text
  BY PathsAssumption, AbsentAssumption
     DEF Opened, Current, file_source, ServerInv, TypeOK
<1>2. SymbolsOf(p) = {Loc(t) : t \in symbols}
  BY <1>1, Zenon DEF SymbolsOf
<1>3. ASSUME NEW t PROVE Loc(t).file = p /\ Loc(t).symbol = t
  BY DEF Location
<1>4. find_local_definition_at(at.word, p, at.line)
         = {a \in local : \A b \in local : Beats(a.symbol, b.symbol)}
  <2>1. \A t : /\ t.depth > 0 /\ t.name = at.word /\ t.line <= at.line
               /\ t.scope_end # None => at.line <= t.scope_end
               <=> Binds(at, t)
    BY DEF Binds
  <2>. QED BY <1>2, <2>1, Zenon DEF find_local_definition_at, find_local_definitions
<1>. HIDE DEF Loc
<1>5. \A t \in symbols : t.depth \in Nat /\ t.line \in Nat
  BY <1>1, ParseAssumption
<1>6. IsFiniteSet({t \in symbols : Binds(at, t)})
  <2>1. IsFiniteSet(symbols)
    BY <1>1, NamesAssumption DEF ParsedTexts
  <2>. QED BY <2>1, FS_Subset
<1>7. \E t \in symbols : Binds(at, t) /\ \A u \in symbols : Binds(at, u) => Beats(t, u)
  <2>. DEFINE S == {t \in symbols : Binds(at, t)}
  <2>1. PICK deep \in S : \A x \in S : x.depth <= deep.depth
    <3>. DEFINE f == [t \in S |-> t.depth]
    <3>1. f \in [S -> Int] /\ S # {}
      BY <1>5
    <3>2. PICK m \in S : \A x \in S : f[x] <= f[m]
      <4>. HIDE DEF f, S
      <4>. QED BY <1>6, <3>1, Largest DEF S
    <3>. QED BY <3>2
  <2>. DEFINE D == {t \in S : t.depth = deep.depth}
  <2>2. PICK low \in D : \A x \in D : x.line <= low.line
    <3>. DEFINE f == [t \in D |-> t.line]
    <3>1. f \in [D -> Int] /\ D # {} /\ IsFiniteSet(D)
      BY <1>5, <1>6, FS_Subset
    <3>2. PICK m \in D : \A x \in D : f[x] <= f[m]
      <4>. HIDE DEF f, D, S
      <4>. QED BY <3>1, Largest
    <3>. QED BY <3>2
  <2>3. ASSUME NEW u \in symbols, Binds(at, u) PROVE Beats(low, u)
    BY <1>5, <2>1, <2>2, <2>3
  <2>. QED BY <2>3
<1>8. PICK t \in symbols : Binds(at, t) /\ \A u \in symbols : Binds(at, u) => Beats(t, u)
  BY <1>7
<1>9. /\ \A b \in local : b.symbol \in symbols /\ Binds(at, b.symbol) /\ b.file = p
      /\ \A u \in symbols : Binds(at, u) => Loc(u) \in local
  BY <1>3
<1>10. Loc(t) \in local /\ \A b \in local : Beats(Loc(t).symbol, b.symbol)
  BY <1>3, <1>8, <1>9
<1>11. ASSUME NEW a \in local, \A b \in local : Beats(a.symbol, b.symbol),
              NEW u \in symbols, Binds(at, u)
       PROVE  u.depth <= a.symbol.depth
  <2>1. Loc(u) \in local /\ Loc(u).symbol = u /\ a.symbol \in symbols
    BY <1>3, <1>9, <1>11
  <2>2. Beats(a.symbol, u)
    BY <1>11, <2>1
  <2>. QED BY <1>5, <2>1, <2>2
<1>. HIDE DEF local, Beats
<1>. QED BY <1>4, <1>9, <1>10, <1>11

\* rank_definitions takes from a set that has any.
LEMMA Ranked ==
    ASSUME NEW defs, NEW current_file, NEW qualifier
    PROVE  LET ranked == rank_definitions(defs, current_file, qualifier)
           IN  ranked \subseteq defs /\ (defs # {} => ranked # {})
<1>. DEFINE Score(a) == definition_score(a, current_file, qualifier)
<1>1. \A a : Score(a) \in 0 .. 6
  BY DEF definition_score
<1>. HIDE DEF Score
<1>2. defs # {} => \E m \in defs : \A x \in defs : Score(m) >= Score(x)
  <2>1. ASSUME NEW a \in defs, ~\E m \in defs : \A x \in defs : Score(m) >= Score(x) PROVE FALSE
    <3>1. \A m \in defs : \E x \in defs : Score(x) > Score(m)
      BY <1>1, <2>1
    <3>2. \E b \in defs : Score(b) >= 1
      BY <1>1, <3>1
    <3>3. \E b \in defs : Score(b) >= 2
      BY <1>1, <3>1, <3>2
    <3>4. \E b \in defs : Score(b) >= 3
      BY <1>1, <3>1, <3>3
    <3>5. \E b \in defs : Score(b) >= 4
      BY <1>1, <3>1, <3>4
    <3>6. \E b \in defs : Score(b) >= 5
      BY <1>1, <3>1, <3>5
    <3>7. \E b \in defs : Score(b) >= 6
      BY <1>1, <3>1, <3>6
    <3>. QED BY <1>1, <3>1, <3>7
  <2>. QED BY <2>1
<1>. QED BY <1>2 DEF rank_definitions, Score

LEMMA GotoShadows ==
    ASSUME ServerInv, NEW p \in Opened, NEW at \in Cursors(p)
    PROVE  Shadows(at, goto_definition(at))
<1>. DEFINE symbols == Parse[open_sources[at.file]].symbols
            found == find_local_definition_at(at.word, at.file, at.line)
            ranked == rank_definitions(found, at.file, at.qualifier)
<1>. SUFFICES ASSUME at.word # None, Current(at.file), at.context \in {"Plain", "FunctionCall"},
                     NEW s \in symbols, Binds(at, s)
              PROVE  /\ goto_definition(at) # {}
                     /\ \A loc \in goto_definition(at) :
                          \E b \in symbols :
                             /\ loc.file = at.file /\ loc.name = at.word /\ loc.range.line = b.line
                             /\ Binds(at, b)
                             /\ \A t \in symbols : Binds(at, t) => t.depth <= b.depth
  BY DEF Shadows
<1>1. at.file \in Opened
  BY CursorFile
<1>2. /\ found # {}
      /\ \A a \in found : /\ a.file = at.file /\ a.symbol \in symbols /\ Binds(at, a.symbol)
                          /\ \A t \in symbols : Binds(at, t) => t.depth <= a.symbol.depth
  BY <1>1, NearestLocal
<1>3. DefinitionsFor(at) = found
  BY <1>2, Zenon DEF DefinitionsFor
<1>4. goto_definition(at) = {loc_to_lsp(loc) : loc \in ranked}
  BY <1>3, Zenon DEF goto_definition
<1>5. ranked \subseteq found /\ ranked # {}
  BY <1>2, Ranked
<1>6. ASSUME NEW loc
      PROVE  /\ loc_to_lsp(loc).file = loc.file /\ loc_to_lsp(loc).name = loc.symbol.name
             /\ loc_to_lsp(loc).range.line = loc.symbol.line
  BY DEF loc_to_lsp, range
<1>. HIDE DEF found, ranked, symbols
<1>7. goto_definition(at) # {}
  BY <1>4, <1>5
<1>8. ASSUME NEW a \in ranked
      PROVE  /\ a.symbol \in symbols /\ Binds(at, a.symbol)
             /\ loc_to_lsp(a).file = at.file /\ loc_to_lsp(a).name = at.word
             /\ loc_to_lsp(a).range.line = a.symbol.line
             /\ \A t \in symbols : Binds(at, t) => t.depth <= a.symbol.depth
  BY <1>2, <1>5, <1>6, <1>8 DEF Binds
<1>. QED BY <1>4, <1>7, <1>8, Zenon

-----------------------------------------------------------------------------
(* hover: the line the symbol was indexed at. *)

\* What HoverShowsTheIndexedText says of an answer.
Shows(result) ==
    \A loc \in result :
        LET p == loc.file
            Kept == p \in Paths /\ (~files[p].stripped \/ disk[p] = files[p].text)
        IN  p \in DepPaths \/ Kept => loc.signature = Line(loc.parsed, loc.symbol.line)

LEMMA ShowsReads ==
    ASSUME UNCHANGED reads, NEW result
    PROVE  Shows(result)' = Shows(result)
BY DEF reads, index, Shows

\* Every definition the workspace or the dependencies answer with.
Indexed(loc) ==
    \/ \E p \in DepPaths : \E s \in Parse[DepTexts[p]].symbols :
          loc = Location(p, DepTexts[p], FALSE, s)
    \/ \E p \in Paths : loc \in SymbolsOf(p)

LEMMA WorkspaceIsIndexed ==
    ASSUME NEW l \in WorkspaceDefinitions
    PROVE  Indexed(l)
<1>1. \E p \in Paths : l \in SymbolsOf(p)
  BY DEF WorkspaceDefinitions
<1>. QED BY <1>1, Zenon DEF Indexed

LEMMA AnswersAreIndexed ==
    ASSUME NEW at, at.file \in Paths, NEW d, d \in DefinitionsFor(at) \/ d \in hover_definitions(at)
    PROVE  Indexed(d)
<1>1. \A l \in WorkspaceDefinitions : Indexed(l)
  BY WorkspaceIsIndexed
<1>2. ASSUME NEW l \in DependencyDefinitions PROVE Indexed(l)
  <2>1. \E p \in DepPaths : \E s \in Parse[DepTexts[p]].symbols :
          l = Location(p, DepTexts[p], FALSE, s)
    BY DEF DependencyDefinitions
  <2>. QED BY <2>1, Zenon DEF Indexed
<1>3. ASSUME NEW l \in find_local_definitions(at.word, at.file) PROVE Indexed(l)
  BY <1>3, Zenon DEF find_local_definitions, Indexed
<1>4. ASSUME NEW l \in find_local_definition_at(at.word, at.file, at.line) PROVE Indexed(l)
  <2>1. l \in find_local_definitions(at.word, at.file)
    BY <1>4, Zenon DEF find_local_definition_at
  <2>. QED BY <1>3, <2>1
<1>5. ASSUME NEW l \in GlobalsOrDependencies(at.word) PROVE Indexed(l)
  <2>1. l \in WorkspaceDefinitions \/ l \in DependencyDefinitions
    BY <1>5 DEF GlobalsOrDependencies, find_definitions
  <2>. QED BY <1>1, <1>2, <2>1
<1>6. ASSUME NEW l \in FieldsOrGlobals(at) PROVE Indexed(l)
  <2>1. l \in find_local_definitions(at.word, at.file) \/ l \in WorkspaceDefinitions
    BY <1>6 DEF FieldsOrGlobals, find_definitions
  <2>. QED BY <1>1, <1>3, <2>1
<1>7. \/ d \in FieldsOrGlobals(at) \/ d \in WorkspaceDefinitions
      \/ d \in GlobalsOrDependencies(at.word)
      \/ d \in find_local_definition_at(at.word, at.file, at.line)
  BY DEF hover_definitions, DefinitionsFor, find_definitions
<1>. QED BY <1>1, <1>4, <1>5, <1>6, <1>7

LEMMA EnrichedLine ==
    ASSUME ServerInv, NEW d, Indexed(d), enrich_symbol_if_needed(d).signature # None,
           \/ d.file \in DepPaths
           \/ d.file \in Paths /\ (~files[d.file].stripped \/ disk[d.file] = files[d.file].text)
    PROVE  LET loc == enrich_symbol_if_needed(d)
           IN  loc.signature = Line(loc.parsed, loc.symbol.line)
<1>. DEFINE loc == enrich_symbol_if_needed(d)
<1>1. CASE \E p \in DepPaths : \E s \in Parse[DepTexts[p]].symbols :
             d = Location(p, DepTexts[p], FALSE, s)
  <2>0. PICK p \in DepPaths :
            \E s \in Parse[DepTexts[p]].symbols : d = Location(p, DepTexts[p], FALSE, s)
    BY <1>1
  <2>1. PICK s \in Parse[DepTexts[p]].symbols : d = Location(p, DepTexts[p], FALSE, s)
    BY <2>0
  <2>2. /\ d.file = p /\ d.symbol = s /\ d.parsed = DepTexts[p]
        /\ d.signature = extract_signature(DepTexts[p], s.line)
    BY <2>1 DEF Location
  <2>3. OnDisk(d.file) = DepTexts[p]
    BY <2>2 DEF OnDisk
  <2>4. loc.parsed = d.parsed /\ loc.symbol = d.symbol
        /\ loc.signature \in {None, extract_signature(DepTexts[p], s.line)}
    BY <2>1, <2>2, <2>3 DEF enrich_symbol_if_needed, Location
  <2>. QED BY <2>2, <2>4 DEF extract_signature
<1>2. CASE \E p \in Paths : d \in SymbolsOf(p)
  <2>. DEFINE text == files[d.file].text
  <2>1. PICK p \in Paths : d \in SymbolsOf(p)
    BY <1>2
  <2>2. files[p].text # Absent
    BY <2>1 DEF SymbolsOf
  <2>3. PICK s \in Parse[files[p].text].symbols :
               d = Location(p, files[p].text, files[p].stripped, s)
    BY <2>1, <2>2 DEF SymbolsOf
  <2>4. /\ d.file = p /\ d.symbol = s /\ d.parsed = files[p].text
        /\ d.signature = (IF files[p].stripped THEN None ELSE extract_signature(files[p].text, s.line))
    BY <2>3 DEF Location
  <2>5. files[p].text \in Texts /\ files[p].stripped \in BOOLEAN /\ p \notin DepPaths
    BY <2>2, PathsAssumption DEF ServerInv, TypeOK
  <2>6. /\ extract_signature(files[p].text, s.line) = Line(files[p].text, s.line)
        /\ Line(files[p].text, s.line) # None
    BY <2>2, <2>3, <2>5, ParseAssumption DEF extract_signature, HasLine, Line
  <2>7. OnDisk(d.file) = disk[p]
    BY <2>4, <2>5 DEF OnDisk
  <2>8. CASE files[p].stripped
    <3>1. d.signature = None /\ disk[p] = files[p].text
      BY <2>4, <2>5, <2>8
    <3>2. loc = [d EXCEPT !.signature = extract_signature(files[p].text, s.line)]
      BY <2>2, <2>4, <2>7, <3>1 DEF enrich_symbol_if_needed
    <3>. QED BY <2>3, <2>4, <2>6, <3>2 DEF Location
  <2>9. CASE ~files[p].stripped
    <3>1. loc = d
      BY <2>4, <2>6, <2>9 DEF enrich_symbol_if_needed
    <3>. QED BY <2>4, <2>6, <2>9, <3>1
  <2>. QED BY <2>5, <2>8, <2>9
<1>. QED BY <1>1, <1>2 DEF Indexed

LEMMA HoverShows ==
    ASSUME ServerInv, NEW p \in Opened, NEW at \in Cursors(p)
    PROVE  Shows(hover(at))
<1>. SUFFICES ASSUME NEW loc \in hover(at),
                     \/ loc.file \in DepPaths
                     \/ /\ loc.file \in Paths
                        /\ ~files[loc.file].stripped \/ disk[loc.file] = files[loc.file].text
              PROVE  loc.signature = Line(loc.parsed, loc.symbol.line)
  BY Zenon DEF Shows
<1>1. at.file \in Paths
  BY CursorFile DEF Opened
<1>2. PICK d \in rank_definitions(hover_definitions(at), at.file, at.qualifier) :
             loc = enrich_symbol_if_needed(d) /\ loc.signature # None
  BY DEF hover
<1>3. Indexed(d)
  BY <1>1, <1>2, Ranked, AnswersAreIndexed
<1>4. loc.file = d.file
  <2>1. \E q, t, u, s : d = Location(q, t, u, s)
    BY <1>3 DEF Indexed, SymbolsOf
  <2>. QED BY <1>2, <2>1 DEF enrich_symbol_if_needed, Location
<1>. QED BY <1>2, <1>3, <1>4, EnrichedLine

-----------------------------------------------------------------------------
(* completion: the best of what matches. *)

all(at) == completions(WorkspaceDefinitions, at.word)
           \cup completions(DependencyDefinitions, at.word)

\* What CompletionOffersTheBest says of an answer.
Best(at, result) ==
    \A labels \in result :
        /\ Cardinality(labels) = Min({MaxItems, Cardinality({loc.symbol.name : loc \in all(at)})})
        /\ \A loc \in all(at) : loc.symbol.name \notin labels =>
              \A name \in labels : \E other \in all(at) :
                  /\ other.symbol.name = name
                  /\ visibility_score(other, at.file) >= visibility_score(loc, at.file)

LEMMA BestReads ==
    ASSUME UNCHANGED reads, NEW at, NEW result
    PROVE  Best(at, result)' = Best(at, result)
<1>1. /\ WorkspaceDefinitions' = WorkspaceDefinitions
      /\ DependencyDefinitions' = DependencyDefinitions
  <2>1. files' = files /\ deps_ready' = deps_ready
    BY DEF reads, index
  <2>2. \A p \in Paths : SymbolsOf(p)' = SymbolsOf(p)
    BY <2>1 DEF SymbolsOf
  <2>3. WorkspaceDefinitions' = WorkspaceDefinitions
    BY <2>2 DEF WorkspaceDefinitions
  <2>4. DependencyDefinitions' = DependencyDefinitions
    BY <2>1 DEF DependencyDefinitions
  <2>. QED BY <2>3, <2>4
<1>2. all(at)' = all(at)
  BY <1>1, Zenon DEF all, completions, search_symbols
<1>. QED BY <1>2, Zenon DEF Best

\* The index answers with finitely many definitions.
LEMMA DefinitionsFinite ==
    ASSUME ServerInv
    PROVE  IsFiniteSet(WorkspaceDefinitions) /\ IsFiniteSet(DependencyDefinitions)
<1>1. ASSUME NEW S, IsFiniteSet(S), NEW p, NEW text, NEW stripped
      PROVE  IsFiniteSet({Location(p, text, stripped, s) : s \in S})
  <2>. DEFINE f == [s \in S |-> Location(p, text, stripped, s)]
  <2>1. f \in Surjection(S, {Location(p, text, stripped, s) : s \in S})
    BY DEF Surjection
  <2>. QED BY <1>1, <2>1, FS_Surjection
<1>2. ASSUME NEW S, IsFiniteSet(S), NEW f PROVE IsFiniteSet({f[p] : p \in S})
  <2>. DEFINE g == [p \in S |-> f[p]]
  <2>1. g \in Surjection(S, {f[p] : p \in S})
    BY DEF Surjection
  <2>. QED BY <1>2, <2>1, FS_Surjection
<1>3. \A p \in Paths : IsFiniteSet(SymbolsOf(p))
  <2>. SUFFICES ASSUME NEW p \in Paths PROVE IsFiniteSet(SymbolsOf(p))
    OBVIOUS
  <2>1. CASE files[p].text = Absent
    BY <2>1, FS_EmptySet DEF SymbolsOf
  <2>2. CASE files[p].text # Absent
    <3>1. files[p].text \in Texts
      BY <2>2 DEF ServerInv, TypeOK
    <3>2. IsFiniteSet(Parse[files[p].text].symbols)
      BY <3>1, NamesAssumption DEF ParsedTexts
    <3>3. SymbolsOf(p) = {Location(p, files[p].text, files[p].stripped, s) : s \in Parse[files[p].text].symbols}
      BY <2>2, Zenon DEF SymbolsOf
    <3>. QED BY <1>1, <3>2, <3>3
  <2>. QED BY <2>1, <2>2
<1>4. IsFiniteSet(WorkspaceDefinitions)
  <2>. DEFINE f == [p \in Paths |-> SymbolsOf(p)]
              U == {f[p] : p \in Paths}
  <2>1. IsFiniteSet(U) /\ \A T \in U : IsFiniteSet(T)
    BY <1>2, <1>3, PathsAssumption
  <2>2. IsFiniteSet(UNION U)
    <3>. HIDE DEF U
    <3>. QED BY <2>1, FS_UNION
  <2>3. WorkspaceDefinitions \in SUBSET UNION U
    BY DEF WorkspaceDefinitions
  <2>. HIDE DEF U
  <2>. QED BY <2>2, <2>3, FS_Subset
<1>5. IsFiniteSet(DependencyDefinitions)
  <2>. DEFINE D(p) == {t \in Parse[DepTexts[p]].symbols : ~is_local(t)}
              f == [p \in DepPaths |-> {Location(p, DepTexts[p], FALSE, s) : s \in D(p)}]
              U == {f[p] : p \in DepPaths}
  <2>1. ASSUME NEW p \in DepPaths PROVE IsFiniteSet(f[p])
    <3>1. IsFiniteSet(Parse[DepTexts[p]].symbols)
      BY NamesAssumption DEF ParsedTexts
    <3>2. IsFiniteSet(D(p))
      BY <3>1, FS_Subset
    <3>. HIDE DEF D
    <3>3. IsFiniteSet({Location(p, DepTexts[p], FALSE, s) : s \in D(p)})
      <4>. DEFINE g == [s \in D(p) |-> Location(p, DepTexts[p], FALSE, s)]
      <4>1. g \in Surjection(D(p), {Location(p, DepTexts[p], FALSE, s) : s \in D(p)})
        BY DEF Surjection
      <4>. QED BY <3>2, <4>1, FS_Surjection
    <3>4. f[p] = {Location(p, DepTexts[p], FALSE, s) : s \in D(p)}
      BY Zenon
    <3>. QED BY <3>3, <3>4, Zenon
  <2>2. IsFiniteSet(U) /\ \A T \in U : IsFiniteSet(T)
    <3>. HIDE DEF f
    <3>. QED BY <1>2, <2>1, PathsAssumption
  <2>3. IsFiniteSet(UNION U)
    <3>. HIDE DEF U
    <3>. QED BY <2>2, FS_UNION
  <2>4. DependencyDefinitions \in SUBSET UNION U
    BY Zenon DEF DependencyDefinitions
  <2>. HIDE DEF U
  <2>. QED BY <2>3, <2>4, FS_Subset
<1>. QED BY <1>4, <1>5

LEMMA AllFinite == ASSUME ServerInv, NEW at PROVE IsFiniteSet(all(at))
<1>1. all(at) \in SUBSET (WorkspaceDefinitions \cup DependencyDefinitions)
  BY DEF all, completions, search_symbols
<1>2. IsFiniteSet(WorkspaceDefinitions \cup DependencyDefinitions)
  BY DefinitionsFinite, FS_Union
<1>. QED BY <1>1, <1>2, FS_Subset

\* What is left of the entries let by is the first M of them.
LEMMA FirstOnesAre ==
    ASSUME NEW N \in Nat, NEW F \in SUBSET (1 .. N), NEW M \in Nat
    PROVE  LET L == {i \in F : Cardinality(F \cap 1 .. i - 1) < M}
           IN  /\ Cardinality(L) = Min({M, Cardinality(F)})
               /\ \A i \in L, k \in F \ L : i < k
<1>. DEFINE Below(i) == F \cap 1 .. i
            c == [i \in 0 .. N |-> Cardinality(Below(i))]
            L == {i \in F : Cardinality(F \cap 1 .. i - 1) < M}
<1>1. IsFiniteSet(F)
  <2>1. IsFiniteSet(1 .. N)
    BY FS_Interval, 1 \in Int, N \in Int, Zenon
  <2>. QED BY <2>1, FS_Subset
<1>2. \A i \in 0 .. N : IsFiniteSet(Below(i)) /\ c[i] \in Nat /\ c[i] = Cardinality(Below(i))
  BY <1>1, FS_Subset, FS_CardinalityType
<1>3. \A i, j \in 0 .. N : i <= j => c[i] <= c[j]
  <2>. SUFFICES ASSUME NEW i \in 0 .. N, NEW j \in 0 .. N, i <= j PROVE c[i] <= c[j]
    OBVIOUS
  <2>1. Below(i) \in SUBSET Below(j)
    OBVIOUS
  <2>. HIDE DEF Below
  <2>. QED BY <1>2, <2>1, FS_Subset
<1>4. \A i \in 1 .. N : i - 1 \in 0 .. N /\ i \in 0 .. N
                         /\ c[i] = IF i \in F THEN c[i - 1] + 1 ELSE c[i - 1]
  <2>. SUFFICES ASSUME NEW i \in 1 .. N
                PROVE  /\ i - 1 \in 0 .. N /\ i \in 0 .. N
                       /\ c[i] = IF i \in F THEN c[i - 1] + 1 ELSE c[i - 1]
    BY Zenon
  <2>1. i - 1 \in 0 .. N /\ i \in 0 .. N /\ i \notin Below(i - 1)
    OBVIOUS
  <2>2. Below(i) = IF i \in F THEN Below(i - 1) \cup {i} ELSE Below(i - 1)
    OBVIOUS
  <2>3. Cardinality(Below(i - 1) \cup {i}) = Cardinality(Below(i - 1)) + 1
    <3>. HIDE DEF Below
    <3>. QED BY <1>2, <2>1, FS_AddElement
  <2>. HIDE DEF Below
  <2>. QED BY <1>2, <2>1, <2>2, <2>3
<1>5. c[0] = 0 /\ Below(N) = F /\ c[N] = Cardinality(F)
  <2>1. \A i \in F : i \in 1 .. N /\ ~(i \in 1 .. 0)
    OBVIOUS
  <2>2. Below(0) = {} /\ Below(N) = F
    BY <2>1
  <2>3. c[0] = Cardinality(Below(0)) /\ c[N] = Cardinality(Below(N))
    OBVIOUS
  <2>. HIDE DEF c, Below
  <2>. QED BY <2>2, <2>3, FS_EmptySet
<1>6. L = {i \in F : c[i - 1] < M}
  <2>1. \A i \in F : i - 1 \in 0 .. N /\ Cardinality(F \cap 1 .. i - 1) = c[i - 1]
    OBVIOUS
  <2>. QED BY <2>1
<1>7. Max({m \in 0 .. N : c[m] <= M}) \in {m \in 0 .. N : c[m] <= M}
      /\ \A m \in {k \in 0 .. N : c[k] <= M} : m <= Max({k \in 0 .. N : c[k] <= M})
  <2>. DEFINE S == {m \in 0 .. N : c[m] <= M}
  <2>1. S \in SUBSET (0 .. N) /\ 0 \in S
    BY <1>5
  <2>. HIDE DEF S
  <2>2. Max(S) \in S /\ \A m \in S : m <= Max(S)
    BY <2>1, LargestOf
  <2>. QED BY <2>2 DEF S
<1>8. PICK m \in 0 .. N : c[m] <= M /\ \A k \in 0 .. N : c[k] <= M => k <= m
  BY <1>7
<1>. HIDE DEF c, Below, L
<1>9. L = Below(m)
  <2>1. ASSUME NEW i \in F PROVE c[i - 1] < M <=> i <= m
    <3>1. i \in 1 .. N /\ i - 1 \in 0 .. N /\ i \in 0 .. N /\ c[i] = c[i - 1] + 1
      BY <1>4, <2>1
    <3>2. c[i - 1] \in Nat /\ c[i] \in Nat /\ c[m] \in Nat
      BY <1>2, <3>1
    <3>3. i <= m => c[i] <= c[m]
      BY <1>3, <3>1
    <3>4. c[i] <= M => i <= m
      BY <1>8, <3>1
    <3>. QED BY <1>8, <3>1, <3>2, <3>3, <3>4
  <2>2. ASSUME NEW i \in F PROVE i \in Below(m) <=> i <= m
    <3>1. i \in 1 .. N /\ m \in 0 .. N
      OBVIOUS
    <3>. QED BY <3>1 DEF Below
  <2>3. Below(m) \subseteq F
    BY DEF Below
  <2>. QED BY <1>6, <2>1, <2>2, <2>3
<1>10. Cardinality(L) = c[m] /\ c[m] \in Nat /\ c[m] <= c[N]
  BY <1>2, <1>3, <1>9
<1>11. CASE m = N
  <2>1. L = F /\ F \ L = {} /\ c[N] <= M /\ c[N] \in Nat
    BY <1>5, <1>8, <1>9, <1>10, <1>11
  <2>2. Min({M, c[N]}) = c[N]
    BY <2>1 DEF Min
  <2>. QED BY <1>5, <1>10, <1>11, <2>1, <2>2 DEF L
<1>12. CASE m # N
  <2>1. m + 1 \in 1 .. N /\ m + 1 \in 0 .. N /\ (m + 1) - 1 = m
    BY <1>12
  <2>2. ~(c[m + 1] <= M)
    BY <1>8, <2>1
  <2>3. c[m + 1] <= c[m] + 1 /\ c[m + 1] \in Nat
    BY <1>2, <1>4, <2>1
  <2>4. c[m] = M
    BY <1>2, <1>8, <2>2, <2>3
  <2>5. Min({M, c[N]}) = M
    BY <1>10, <1>2, <2>4 DEF Min
  <2>6. \A i \in L, k \in F \ L : i < k
    BY <1>9 DEF Below
  <2>. QED BY <1>5, <1>10, <2>4, <2>5, <2>6 DEF L
<1>. QED BY <1>11, <1>12

\* What every step of completion leaves of the entries.
LEMMA CompletionIsBest ==
    ASSUME ServerInv, NEW at
    PROVE  Best(at, completion(at))
<1>. DEFINE A == all(at)
            Score(loc) == visibility_score(loc, at.file)
            names == {loc.symbol.name : loc \in A}
            Holds(labels) ==
                /\ Cardinality(labels) = Min({MaxItems, Cardinality(names)})
                /\ \A loc \in A : loc.symbol.name \notin labels =>
                      \A name \in labels : \E other \in A :
                          other.symbol.name = name /\ Score(other) >= Score(loc)
<1>. SUFFICES ASSUME NEW s \in SortByScore(A, at.file)
              PROVE  Holds({s[i].symbol.name : i \in Taken(s)})
  <2>1. \A labels \in completion(at) :
          \E s \in SortByScore(A, at.file) : labels = {s[i].symbol.name : i \in Taken(s)}
    BY Zenon DEF completion, Offered, all
  <2>2. (\A labels \in completion(at) : Holds(labels)) => Best(at, completion(at))
    BY Zenon DEF Best
  <2>. HIDE DEF Holds
  <2>. QED BY <2>1, <2>2
<1>. DEFINE N == Cardinality(A)
            F == Unseen(s)
            T == Taken(s)
<1>1. IsFiniteSet(A) /\ N \in Nat
  BY AllFinite, FS_CardinalityType
<1>2. /\ s \in [1 .. N -> A] /\ \A i, j \in 1 .. N : i # j => s[i] # s[j]
      /\ \A i, j \in 1 .. N : i < j => Score(s[i]) >= Score(s[j])
  <2>1. /\ s \in SetToSeqs(A)
        /\ \A i, j \in DOMAIN s : i < j => Score(s[i]) >= Score(s[j])
    BY Zenon DEF SortByScore
  <2>2. s \in [1 .. N -> A] /\ \A i, j \in 1 .. N : i # j => s[i] # s[j]
    BY <2>1, Zenon DEF SetToSeqs
  <2>. QED BY <2>1, <2>2
<1>. HIDE DEF A, Score, N
<1>3. \A loc \in A : \E i \in 1 .. N : s[i] = loc
  <2>1. s \in Injection(1 .. N, A)
    BY <1>2 DEF Injection, IsInjective
  <2>2. Cardinality(1 .. N) = Cardinality(A)
    <3>1. Cardinality(1 .. N) = IF 1 > N THEN 0 ELSE N - 1 + 1
      BY <1>1, FS_Interval, 1 \in Int, N \in Int
    <3>. QED BY <1>1, <3>1 DEF N
  <2>3. s \in Surjection(1 .. N, A)
    BY <1>1, <2>1, <2>2, FS_Injection
  <2>. QED BY <2>3 DEF Surjection
<1>4. /\ F = {i \in 1 .. N : \A j \in 1 .. i - 1 : s[j].symbol.name # s[i].symbol.name}
      /\ F \in SUBSET (1 .. N)
      /\ T = {i \in F : Cardinality(F \cap 1 .. i - 1) < MaxItems}
  BY <1>2 DEF Unseen, Taken
<1>. HIDE DEF F, T
<1>5. /\ Cardinality(T) = Min({MaxItems, Cardinality(F)})
      /\ \A i \in T, k \in F \ T : i < k
  <2>1. MaxItems \in Nat /\ N \in Nat /\ F \in SUBSET (1 .. N)
    BY <1>1, <1>4, Limits
  <2>2. LET L == {i \in F : Cardinality(F \cap 1 .. i - 1) < MaxItems}
        IN  /\ Cardinality(L) = Min({MaxItems, Cardinality(F)})
            /\ \A i \in L, k \in F \ L : i < k
    BY <2>1, FirstOnesAre, Zenon
  <2>. QED BY <1>4, <2>2, Zenon
<1>6. \A k \in 1 .. N : \E i \in F : i <= k /\ s[i].symbol.name = s[k].symbol.name
  <2>. SUFFICES ASSUME NEW k \in 1 .. N
                PROVE  \E i \in F : i <= k /\ s[i].symbol.name = s[k].symbol.name
    OBVIOUS
  <2>. DEFINE S == {i \in 1 .. N : s[i].symbol.name = s[k].symbol.name}
  <2>1. S \in SUBSET Nat /\ S # {}
    OBVIOUS
  <2>2. Min(S) \in S /\ \A n \in S : Min(S) <= n
    <3>. HIDE DEF S
    <3>. QED BY <2>1, Smallest
  <2>. DEFINE i == Min(S)
  <2>3. i \in 1 .. N /\ s[i].symbol.name = s[k].symbol.name /\ k \in S
    BY <2>2
  <2>4. \A n \in S : i <= n
    BY <2>2
  <2>. HIDE DEF i
  <2>5. ASSUME NEW j \in 1 .. i - 1 PROVE s[j].symbol.name # s[i].symbol.name
    <3>1. j \in 1 .. N /\ j < i
      BY <1>1, <2>3
    <3>2. j \notin S
      <4>. HIDE DEF S
      <4>. QED BY <1>1, <2>3, <2>4, <3>1
    <3>. QED BY <2>3, <3>1, <3>2
  <2>. HIDE DEF S
  <2>6. i \in F /\ i <= k
    BY <1>4, <2>3, <2>4, <2>5
  <2>. QED BY <2>3, <2>6
<1>7. \A i, j \in F : i # j => s[i].symbol.name # s[j].symbol.name
  <2>. SUFFICES ASSUME NEW i \in F, NEW j \in F, i < j PROVE s[i].symbol.name # s[j].symbol.name
    BY <1>4
  <2>. QED BY <1>1, <1>4
<1>8. ASSUME NEW I \in SUBSET F
      PROVE  Cardinality({s[i].symbol.name : i \in I}) = Cardinality(I)
  <2>. DEFINE f == [i \in I |-> s[i].symbol.name]
              R == {s[i].symbol.name : i \in I}
  <2>1. IsFiniteSet(1 .. N)
    BY <1>1, FS_Interval, 1 \in Int, N \in Int, Zenon
  <2>2. IsFiniteSet(I)
    BY <1>4, <2>1, FS_Subset
  <2>3. f \in Surjection(I, R)
    BY DEF Surjection
  <2>4. f \in Injection(I, R)
    BY <1>7 DEF Injection, IsInjective
  <2>. QED BY <2>2, <2>3, <2>4, FS_Surjection
<1>9. names = {s[i].symbol.name : i \in F}
  BY <1>2, <1>3, <1>4, <1>6
<1>10. Cardinality({s[i].symbol.name : i \in T}) = Min({MaxItems, Cardinality(names)})
  <2>1. T \in SUBSET F /\ F \in SUBSET F
    BY <1>4
  <2>. HIDE DEF names
  <2>. QED BY <1>5, <1>8, <1>9, <2>1
<1>11. ASSUME NEW loc \in A, loc.symbol.name \notin {s[i].symbol.name : i \in T},
              NEW i \in T
       PROVE  s[i] \in A /\ Score(s[i]) >= Score(loc)
  <2>1. PICK k \in 1 .. N : s[k] = loc
    BY <1>3
  <2>2. PICK first \in F : first <= k /\ s[first].symbol.name = loc.symbol.name
    BY <1>6, <2>1
  <2>3. first \in F \ T
    BY <1>11, <2>2
  <2>4. i < first /\ i \in 1 .. N /\ first \in 1 .. N
    BY <1>4, <1>5, <2>3
  <2>5. i < k
    BY <1>1, <2>2, <2>4
  <2>. QED BY <1>2, <2>1, <2>4, <2>5
<1>12. \A loc \in A : loc.symbol.name \notin {s[i].symbol.name : i \in T} =>
          \A name \in {s[i].symbol.name : i \in T} : \E other \in A :
              other.symbol.name = name /\ Score(other) >= Score(loc)
  BY <1>11
<1>. QED BY <1>10, <1>12, Zenon DEF T

\* The line a place of a source is on.
LEMMA LineHolds ==
    ASSUME NEW t \in ParsedTexts, NEW word, IsOneLine(word), NEW i \in MatchPlaces(word, Parse[t].source)
    PROVE  LET source == Parse[t].source
               n      == LineNumber(source, i)
               line   == Parse[t].lines[n + 1]
               start  == LineStart(source, i)
           IN  /\ n \in 0 .. Len(Parse[t].lines) - 1 /\ line \in Seq(STRING)
               /\ start \in 0 .. i /\ i - start \in 0 .. Len(line) - Len(word)
               /\ Slice(line, i - start, (i - start) + Len(word)) = word
               /\ o8(line)[i - start] = Bytes(Slice(source, start, i))
<1>. DEFINE source == Parse[t].source
            n == LineNumber(source, i)
            line == Parse[t].lines[n + 1]
            start == LineStart(source, i)
            end == LineEnd(source, i)
            k == i - start
            W == Len(word)
<1>1. /\ source \in Seq(STRING) /\ Len(source) \in Nat /\ W \in Nat \ {0} /\ word \in Seq(STRING)
      /\ i \in 0 .. Len(source) - W /\ i \in 0 .. Len(source) - 1 /\ Slice(source, i, i + W) = word
      /\ \A m \in 1 .. W : word[m] # NewLine
  <2>1. source \in Seq(STRING)
    BY LinesAssumption
  <2>2. word \in Seq(STRING) /\ word # <<>> /\ \A m \in 1 .. W : word[m] # NewLine
    BY DEF IsOneLine
  <2>3. i \in 0 .. Len(source) - W /\ Slice(source, i, i + W) = word
    BY DEF MatchPlaces
  <2>4. Len(source) \in Nat /\ W \in Nat \ {0}
    BY <2>1, <2>2
  <2>. HIDE DEF source, W
  <2>5. i \in 0 .. Len(source) - 1
    BY <2>3, <2>4
  <2>. QED BY <2>1, <2>2, <2>3, <2>4, <2>5
<1>2. /\ n \in 0 .. Len(Parse[t].lines) - 1 /\ line = Slice(source, start, end)
      /\ Parse[t].lines \in Seq(Seq(STRING))
  BY <1>1, LinesAssumption
<1>3. line \in Seq(STRING)
  <2>1. n + 1 \in 1 .. Len(Parse[t].lines)
    <3>. HIDE DEF n
    <3>. QED BY <1>2
  <2>. HIDE DEF n
  <2>. QED BY <1>2, <2>1
<1>4. start \in 0 .. i
  <2>. DEFINE S == {0} \cup {m + 1 : m \in {l \in Newlines(source) : l < i}}
  <2>1. start = Max(S)
    BY Zenon DEF LineStart
  <2>2. S \in SUBSET (0 .. i) /\ S # {} /\ i \in Nat
    BY <1>1 DEF Newlines
  <2>. HIDE DEF S, start
  <2>3. Max(S) \in S
    BY <2>2, LargestOf
  <2>. QED BY <2>1, <2>2, <2>3
<1>5. end \in i + W .. Len(source)
  <2>. DEFINE S == {Len(source)} \cup {m \in Newlines(source) : m >= i}
  <2>1. end = Min(S)
    BY Zenon DEF LineEnd
  <2>2. S \in SUBSET Nat /\ S # {}
    BY <1>1 DEF Newlines
  <2>3. Min(S) \in S
    <3>. HIDE DEF S
    <3>. QED BY <2>2, Smallest
  <2>4. CASE end = Len(source)
    BY <1>1, <2>4
  <2>5. CASE end # Len(source)
    <3>1. end \in Newlines(source) /\ end >= i
      BY <2>1, <2>3, <2>5
    <3>2. end \in 0 .. Len(source) - 1 /\ source[end + 1] = NewLine
      BY <3>1 DEF Newlines, Ch
    <3>. HIDE DEF end
    <3>3. ASSUME end < i + W PROVE FALSE
      <4>. DEFINE m == end - i + 1
      <4>1. m \in 1 .. W /\ i + m = end + 1
        BY <1>1, <3>1, <3>2, <3>3
      <4>2. word[m] = source[i + m]
        BY <1>1, <4>1 DEF Slice
      <4>. QED BY <1>1, <3>2, <4>1, <4>2
    <3>. QED BY <1>1, <3>2, <3>3
  <2>. QED BY <2>4, <2>5
<1>. HIDE DEF source, start, end, n, line, W
<1>6. start \in 0 .. Len(source) /\ end \in start .. Len(source) /\ i \in start .. Len(source)
  BY <1>1, <1>4, <1>5
<1>7. k \in 0 .. end - start /\ start + k = i /\ k \in 0 .. i - start
      /\ k + W <= end - start /\ i + W <= Len(source)
  BY <1>1, <1>4, <1>5
<1>8. Len(line) = end - start
  BY <1>1, <1>2, <1>6, SliceOffsets
<1>9. o8(line)[k] = Bytes(Slice(source, start, i))
  <2>1. o8(source)[start + k] = o8(source)[start] + o8(line)[k]
    BY <1>1, <1>2, <1>6, <1>7, SliceOffsets
  <2>2. /\ o8(source)[start + k] = o8(source)[start] + o8(Slice(source, start, i))[k]
        /\ Slice(source, start, i) \in Seq(STRING) /\ Len(Slice(source, start, i)) = k
    BY <1>1, <1>6, <1>7, SliceOffsets
  <2>3. o8(source)[start] \in Nat /\ o8(line)[k] \in Nat /\ o8(Slice(source, start, i))[k] \in Nat
    <3>1. k \in 0 .. Len(line) /\ k \in 0 .. k
      BY <1>7, <1>8
    <3>2. /\ o8(source) \in [0 .. Len(source) -> Nat] /\ o8(line) \in [0 .. Len(line) -> Nat]
          /\ o8(Slice(source, start, i)) \in [0 .. k -> Nat]
      BY <1>1, <1>3, <2>2, Grows
    <3>. QED BY <1>6, <3>1, <3>2
  <2>4. Bytes(Slice(source, start, i)) = o8(Slice(source, start, i))[k]
    BY <2>2 DEF Bytes, Width, o8
  <2>. QED BY <2>1, <2>2, <2>3, <2>4
<1>10. Slice(line, k, k + W) = word
  <2>1. /\ Slice(line, k, k + W) \in Seq(STRING) /\ Len(Slice(line, k, k + W)) = W
        /\ \A m \in 1 .. W : Slice(line, k, k + W)[m] = line[k + m]
    <3>1. k \in Nat /\ W \in Nat /\ k + W <= Len(line)
      BY <1>1, <1>6, <1>7, <1>8
    <3>. HIDE DEF k
    <3>. QED BY <1>3, <3>1 DEF Slice
  <2>2. \A m \in 1 .. W : line[k + m] = source[start + (k + m)]
    BY <1>1, <1>2, <1>6, <1>7 DEF Slice
  <2>3. \A m \in 1 .. W : word[m] = source[i + m]
    BY <1>1, <1>7 DEF Slice
  <2>4. \A m \in 1 .. W : start + (k + m) = i + m
    BY <1>1, <1>6, <1>7
  <2>5. Len(word) = W
    BY DEF W
  <2>. QED BY <1>1, <2>1, <2>2, <2>3, <2>4, <2>5
<1>11. k \in 0 .. Len(line) - W
  BY <1>1, <1>6, <1>7, <1>8
<1>. QED BY <1>2, <1>3, <1>4, <1>9, <1>10, <1>11 DEF source, start, n, line, W

-----------------------------------------------------------------------------
(* Ranges: what the client finds where an answer points. *)

\* The encoding the client speaks is the one the server converts with.
Told == ClientEncoding = pos_encoding

LEMMA InitTold == Init => Told
BY AbsentAssumption DEF Init, Negotiate, Told, ClientEncoding, PosEncoding

LEMMA StepTold == Told /\ [Next]_vars => Told'
<1>. SUFFICES ASSUME Told, [Next]_vars PROVE Told'
  OBVIOUS
<1>1. UNCHANGED encodings
  <2>1. ASSUME NEW p \in Paths, NEW t \in Texts, DidOpen(p, t) \/ DidChange(p, t) PROVE UNCHANGED encodings
    BY <2>1 DEF DidOpen, DidChange, Edit
  <2>2. ASSUME NEW p \in Paths, DidClose(p) \/ Save(p) \/ ScanInstall(p) PROVE UNCHANGED encodings
    BY <2>2 DEF DidClose, Save, ScanInstall, Edit
  <2>3. ASSUME ScanRead \/ ScanStrip \/ IndexDependencies PROVE UNCHANGED encodings
    BY <2>3 DEF ScanRead, ScanStrip, IndexDependencies
  <2>. QED BY <2>1, <2>2, <2>3, RequestReads DEF Next, Request, vars
<1>. QED BY <1>1 DEF encodings, Told, ClientEncoding

\* What RangesCoverTheName says of a location and of a set of them.
Covers(loc) ==
    LET line == Line(file_source(loc.file), loc.range.line)
        from == client_col_to_char_index(line, loc.range.start, ClientEncoding)
        to   == client_col_to_char_index(line, loc.range.end, ClientEncoding)
    IN  Panic \notin {from, to} /\ Slice(line, from, to) = loc.name
Checked(locs) == \A loc \in locs : (loc # Panic /\ Current(loc.file)) => Covers(loc)

LEMMA CheckedReads ==
    ASSUME UNCHANGED reads, NEW locs
    PROVE  Checked(locs)' = Checked(locs)
<1>1. /\ \A p : file_source(p)' = file_source(p) /\ Current(p)' = Current(p)
      /\ ClientEncoding' = ClientEncoding
  BY DEF reads, index, encodings, Current, file_source, ClientEncoding
<1>2. \A loc : Covers(loc)' = Covers(loc)
  BY <1>1 DEF Covers
<1>. QED BY <1>1, <1>2 DEF Checked

\* A name at a place of a line is what the client cuts out at its two columns.
LEMMA RangeIsRead ==
    ASSUME NEW line \in Seq(STRING), NEW name \in Seq(STRING), NEW k \in 0 .. Len(line) - Len(name),
           Slice(line, k, k + Len(name)) = name, pos_encoding \in PosEncoding, Told
    PROVE  LET col  == o8(line)[k]
               from == client_col_to_char_index(line, byte_col_to_encoding(line, col, pos_encoding), ClientEncoding)
               to   == client_col_to_char_index(line,
                           byte_col_to_encoding(line, col + Bytes(name), pos_encoding), ClientEncoding)
           IN  Panic \notin {from, to} /\ Slice(line, from, to) = name
<1>. DEFINE W == Len(name)
            e == k + W
<1>1. /\ W \in Nat /\ k \in 0 .. Len(line) /\ e \in k .. Len(line) /\ e \in 0 .. Len(line)
      /\ e - k = W /\ W \in 0 .. W
  OBVIOUS
<1>. HIDE DEF W, e
<1>2. o8(line)[k] + Bytes(name) = o8(line)[e]
  <2>1. Slice(line, k, e) = name /\ k + W = e
    BY DEF W, e
  <2>2. o8(line)[k + W] = o8(line)[k] + o8(name)[W]
    BY <1>1, <2>1, SliceOffsets
  <2>. QED BY <2>1, <2>2 DEF Bytes, Width, o8, W
<1>3. /\ byte_col_to_encoding(line, o8(line)[k], pos_encoding) = Column(line, k, pos_encoding)
      /\ byte_col_to_encoding(line, o8(line)[e], pos_encoding) = Column(line, e, pos_encoding)
  BY <1>1, ToColumn
<1>4. /\ client_col_to_char_index(line, Column(line, k, pos_encoding), pos_encoding) = k
      /\ client_col_to_char_index(line, Column(line, e, pos_encoding), pos_encoding) = e
  BY <1>1, ToIndex
<1>5. Panic \notin {k, e}
  BY <1>1, PanicAssumption
<1>6. Slice(line, k, e) = name
  BY DEF e, W
<1>7. ClientEncoding = pos_encoding
  BY DEF Told
<1>. QED BY <1>2, <1>3, <1>4, <1>5, <1>6, <1>7

\* A location the index answers with covers its name.
LEMMA LocationCovers ==
    ASSUME ServerInv, Told, NEW d, Indexed(d), Current(d.file)
    PROVE  Covers(loc_to_lsp(d))
<1>. DEFINE p == d.file
            s == d.symbol
            text == file_source(p)
            line == Parse[text].lines[s.line + 1]
            loc == loc_to_lsp(d)
<1>1. text \in ParsedTexts /\ text # Absent /\ s \in Parse[text].symbols
  <2>1. CASE \E q \in DepPaths : \E t \in Parse[DepTexts[q]].symbols : d = Location(q, DepTexts[q], FALSE, t)
    <3>1. PICK q \in DepPaths : \E t \in Parse[DepTexts[q]].symbols : d = Location(q, DepTexts[q], FALSE, t)
      BY <2>1
    <3>2. PICK t \in Parse[DepTexts[q]].symbols : d = Location(q, DepTexts[q], FALSE, t)
      BY <3>1
    <3>3. p = q /\ s = t
      BY <3>2 DEF Location
    <3>4. text = DepTexts[q] /\ DepTexts[q] # Absent
      BY <3>3, AbsentAssumption DEF file_source
    <3>. QED BY <3>3, <3>4 DEF ParsedTexts
  <2>2. CASE \E q \in Paths : d \in SymbolsOf(q)
    <3>1. PICK q \in Paths : d \in SymbolsOf(q)
      BY <2>2
    <3>2. files[q].text # Absent
      BY <3>1 DEF SymbolsOf
    <3>3. PICK t \in Parse[files[q].text].symbols : d = Location(q, files[q].text, files[q].stripped, t)
      BY <3>1, <3>2 DEF SymbolsOf
    <3>4. p = q /\ s = t
      BY <3>3 DEF Location
    <3>5. files[q].text = text /\ files[q].text \in Texts
      BY <3>2, <3>4, PathsAssumption DEF Current, ServerInv, TypeOK
    <3>. QED BY <3>2, <3>4, <3>5 DEF ParsedTexts
  <2>. QED BY <2>1, <2>2 DEF Indexed
<1>2. /\ s.name \in Seq(STRING) /\ s.line \in 0 .. Len(Parse[text].lines) - 1
      /\ \E k \in 0 .. Len(line) - Len(s.name) :
            Offsets(Utf8Width, line)[k] = s.col /\ Slice(line, k, k + Len(s.name)) = s.name
  BY <1>1, NamesAssumption, Zenon
<1>3. line \in Seq(STRING)
  <2>. DEFINE lines == Parse[text].lines
              n == s.line + 1
  <2>1. lines \in Seq(Seq(STRING))
    BY <1>1, LinesAssumption, Zenon
  <2>2. n \in 1 .. Len(lines)
    BY <1>2
  <2>. HIDE DEF lines, n
  <2>3. lines[n] \in Seq(STRING)
    BY <2>1, <2>2
  <2>. QED BY <2>3 DEF lines, n
<1>4. HasLine(text, s.line) /\ Line(text, s.line) = line
  BY <1>1, <1>2 DEF HasLine, Line
<1>5. loc = [file |-> p, name |-> s.name,
             range |-> [line |-> s.line,
                        start |-> byte_col_to_encoding(line, s.col, pos_encoding),
                        end |-> byte_col_to_encoding(line, s.col + Bytes(s.name), pos_encoding)]]
  BY <1>4, Zenon DEF loc_to_lsp, range
<1>6. PICK k \in 0 .. Len(line) - Len(s.name) :
             o8(line)[k] = s.col /\ Slice(line, k, k + Len(s.name)) = s.name
  BY <1>2 DEF o8
<1>7. pos_encoding \in PosEncoding
  BY DEF ServerInv, TypeOK
<1>. DEFINE start == byte_col_to_encoding(line, s.col, pos_encoding)
            end == byte_col_to_encoding(line, s.col + Bytes(s.name), pos_encoding)
            from == client_col_to_char_index(line, start, ClientEncoding)
            to == client_col_to_char_index(line, end, ClientEncoding)
<1>8. Panic \notin {from, to} /\ Slice(line, from, to) = s.name
  <2>. DEFINE name == s.name
  <2>. HIDE DEF line, name
  <2>1. /\ line \in Seq(STRING) /\ name \in Seq(STRING) /\ k \in 0 .. Len(line) - Len(name)
        /\ Slice(line, k, k + Len(name)) = name
    BY <1>2, <1>3, <1>6 DEF name
  <2>2. LET col == o8(line)[k]
            f   == client_col_to_char_index(line, byte_col_to_encoding(line, col, pos_encoding), ClientEncoding)
            t   == client_col_to_char_index(line,
                       byte_col_to_encoding(line, col + Bytes(name), pos_encoding), ClientEncoding)
        IN  Panic \notin {f, t} /\ Slice(line, f, t) = name
    BY <1>7, <2>1, RangeIsRead
  <2>. QED BY <1>6, <2>2 DEF name
<1>9. /\ loc.file = p /\ loc.name = s.name /\ loc.range.line = s.line
      /\ loc.range.start = start /\ loc.range.end = end
  <2>. HIDE DEF start, end, loc
  <2>. QED BY <1>5 DEF start, end
<1>10. Line(file_source(loc.file), loc.range.line) = line
  <2>. HIDE DEF loc, line
  <2>. QED BY <1>4, <1>9
<1>. HIDE DEF loc, line, start, end
<1>11. Covers(loc)
  BY <1>8, <1>9, <1>10 DEF Covers
<1>. QED BY <1>11 DEF loc

\* Every definition goto_definition, document_symbol and symbol answer with.
LEMMA IndexedRangesCover ==
    ASSUME ServerInv, Told, NEW defs, \A d \in defs : Indexed(d)
    PROVE  Checked({loc_to_lsp(d) : d \in defs})
<1>. SUFFICES ASSUME NEW d \in defs, Current(loc_to_lsp(d).file) PROVE Covers(loc_to_lsp(d))
  BY DEF Checked
<1>1. loc_to_lsp(d).file = d.file
  BY DEF loc_to_lsp
<1>. QED BY <1>1, LocationCovers

LEMMA GotoCovers ==
    ASSUME ServerInv, Told, NEW p \in Opened, NEW at \in Cursors(p)
    PROVE  Checked(goto_definition(at))
<1>. DEFINE defs == rank_definitions(DefinitionsFor(at), at.file, at.qualifier)
<1>1. CASE at.word = None
  BY <1>1 DEF goto_definition, Checked
<1>2. CASE at.word # None
  <2>1. goto_definition(at) = {loc_to_lsp(d) : d \in defs}
    BY <1>2, Zenon DEF goto_definition
  <2>2. at.file \in Paths
    BY CursorFile DEF Opened
  <2>3. \A d \in defs : Indexed(d)
    BY <2>2, Ranked, AnswersAreIndexed
  <2>. HIDE DEF defs
  <2>. QED BY <2>1, <2>3, IndexedRangesCover
<1>. QED BY <1>1, <1>2

LEMMA OutlineCovers ==
    ASSUME ServerInv, Told, NEW p \in Opened
    PROVE  Checked(document_symbol(p))
<1>. DEFINE defs == {l \in SymbolsOf(p) : ~is_local(l.symbol)}
<1>1. CASE Current(p)
  <2>1. /\ p \in Paths /\ files[p].text = file_source(p)
    BY <1>1, PathsAssumption DEF Opened, Current
  <2>2. ASSUME NEW d \in defs PROVE HasLine(file_source(p), d.symbol.line) /\ Indexed(d)
    <3>1. /\ d \in SymbolsOf(p) /\ files[p].text # Absent
          /\ \E s \in Parse[files[p].text].symbols : d.symbol = s
      BY DEF SymbolsOf, Location
    <3>2. file_source(p) \in Texts /\ d.symbol \in Parse[file_source(p)].symbols
      BY <2>1, <3>1 DEF ServerInv, TypeOK
    <3>3. d.symbol.line < Len(Parse[file_source(p)].lines)
      BY <3>2, ParseAssumption
    <3>. QED BY <2>1, <3>1, <3>3, Zenon DEF HasLine, Indexed
  <2>3. document_symbol(p) = {loc_to_lsp(d) : d \in defs}
    BY <2>2, Zenon DEF document_symbol
  <2>. HIDE DEF defs
  <2>. QED BY <2>2, <2>3, IndexedRangesCover
<1>2. CASE ~Current(p)
  <2>1. \A d \in defs : loc_to_lsp(d).file = p
    <3>1. \A d \in SymbolsOf(p) : d.file = p
      BY DEF SymbolsOf, Location
    <3>. QED BY <3>1 DEF loc_to_lsp
  <2>2. \A r \in document_symbol(p) : r.file = p
    BY <2>1 DEF document_symbol
  <2>. QED BY <1>2, <2>2 DEF Checked
<1>. QED BY <1>1, <1>2

LEMMA SymbolCovers ==
    ASSUME ServerInv, Told, NEW query, NEW locs \in symbol(query)
    PROVE  Checked(locs)
<1>. DEFINE found == search_symbols(WorkspaceDefinitions, query)
<1>1. PICK top \in SUBSET found : locs = {loc_to_lsp(d) : d \in top}
  <2>1. PICK s \in SortByScore(found, None) : locs = {loc_to_lsp(s[i]) : i \in 1 .. Min({MaxItems, Len(s)})}
    BY Zenon DEF symbol
  <2>2. s \in [1 .. Cardinality(found) -> found]
    BY <2>1, Zenon DEF SortByScore, SetToSeqs
  <2>3. IsFiniteSet(found) /\ Cardinality(found) \in Nat
    <3>1. found \in SUBSET WorkspaceDefinitions
      BY DEF search_symbols
    <3>2. IsFiniteSet(WorkspaceDefinitions)
      BY DefinitionsFinite
    <3>. QED BY <3>1, <3>2, FS_Subset, FS_CardinalityType
  <2>. HIDE DEF found
  <2>. DEFINE I == 1 .. Min({MaxItems, Len(s)})
              top == {s[i] : i \in I}
  <2>4. Len(s) = Cardinality(found) /\ Min({MaxItems, Len(s)}) <= Len(s) /\ Min({MaxItems, Len(s)}) \in Int
    BY <2>2, <2>3, Limits DEF Min
  <2>5. \A i \in I : s[i] \in found
    BY <2>2, <2>4
  <2>. HIDE DEF I
  <2>6. locs = {loc_to_lsp(d) : d \in top} /\ top \in SUBSET found
    BY <2>1, <2>5 DEF I
  <2>. QED BY <2>6
<1>2. \A d \in top : Indexed(d)
  <2>1. \A d \in top : d \in WorkspaceDefinitions
    BY <1>1 DEF search_symbols
  <2>. QED BY <2>1, WorkspaceIsIndexed
<1>. QED BY <1>1, <1>2, IndexedRangesCover

\* A cursor is before a character of a line of the client's text, or at its end.
LEMMA CursorIsAt ==
    ASSUME ServerInv, Told, NEW p \in Opened, NEW at \in Cursors(p)
    PROVE  LET lines == Parse[open_sources[p]].lines
           IN  \E n \in 0 .. Len(lines) - 1 :
                 /\ lines[n + 1] \in Seq(STRING) /\ Line(file_source(p), n) = lines[n + 1]
                 /\ \E k \in 0 .. Len(lines[n + 1]) : at = AtCursor(p, n, Column(lines[n + 1], k, pos_encoding))
<1>. DEFINE text == open_sources[p]
            lines == Parse[text].lines
<1>1. /\ p \in Paths /\ text \in Texts /\ text # Absent /\ text \in ParsedTexts
      /\ file_source(p) = text /\ pos_encoding \in PosEncoding /\ ClientEncoding = pos_encoding
  BY PathsAssumption, AbsentAssumption
     DEF Opened, ServerInv, TypeOK, ParsedTexts, file_source, Told
<1>2. PICK n \in 1 .. Len(lines) :
             \E b \in Boundaries(lines[n]) :
                at = AtCursor(p, n - 1, byte_col_to_encoding(lines[n], b, pos_encoding))
  <2>. DEFINE columns == Columns[ClientEncoding][text]
  <2>1. columns = [n \in 1 .. Len(lines) |->
                     {byte_col_to_encoding(lines[n], b, pos_encoding) : b \in Boundaries(lines[n])}]
    BY <1>1 DEF Columns
  <2>2. PICK n \in DOMAIN columns : \E c \in columns[n] : at = AtCursor(p, n - 1, c)
    BY Zenon DEF Cursors
  <2>. HIDE DEF columns
  <2>. QED BY <2>1, <2>2
<1>. DEFINE line == lines[n]
<1>3. line \in Seq(STRING)
  <2>1. lines \in Seq(Seq(STRING))
    BY <1>1, LinesAssumption, Zenon
  <2>. HIDE DEF lines
  <2>. QED BY <1>2, <2>1
<1>4. PICK b \in Boundaries(line) : at = AtCursor(p, n - 1, byte_col_to_encoding(line, b, pos_encoding))
  BY <1>2
<1>5. PICK k \in 0 .. Len(line) : b = o8(line)[k]
  BY <1>3, <1>4, BoundariesAre
<1>6. byte_col_to_encoding(line, b, pos_encoding) = Column(line, k, pos_encoding)
  BY <1>1, <1>3, <1>5, ToColumn
<1>7. Len(lines) \in Nat
  BY <1>1, LinesAssumption
<1>8. Line(text, n - 1) = line
  <2>1. n - 1 < Len(lines) /\ (n - 1) + 1 = n
    BY <1>2, <1>7
  <2>. QED BY <1>1, <2>1 DEF Line, HasLine
<1>9. n - 1 \in 0 .. Len(lines) - 1 /\ lines[(n - 1) + 1] = line
  BY <1>2, <1>7
<1>10. at = AtCursor(p, n - 1, Column(line, k, pos_encoding))
  BY <1>4, <1>6
<1>. HIDE DEF line, lines
<1>11. \E m \in 0 .. Len(lines) - 1 :
         /\ lines[m + 1] \in Seq(STRING) /\ Line(file_source(p), m) = lines[m + 1]
         /\ \E l \in 0 .. Len(lines[m + 1]) : at = AtCursor(p, m, Column(lines[m + 1], l, pos_encoding))
  <2>. WITNESS n - 1 \in 0 .. Len(lines) - 1
  <2>. QED BY <1>1, <1>3, <1>5, <1>8, <1>9, <1>10
<1>. QED BY <1>11 DEF lines

\* What a handler is asked at a character of a line.
LEMMA AskedAt ==
    ASSUME ServerInv, NEW p, NEW n, NEW line \in Seq(STRING), Line(file_source(p), n) = line,
           NEW k \in 0 .. Len(line)
    PROVE  LET at == AtCursor(p, n, Column(line, k, pos_encoding))
           IN  /\ at.file = p /\ at.line = n /\ at.col = k /\ at.character = Column(line, k, pos_encoding)
               /\ at.word = word_at_position(line, k) /\ at.qualifier = qualifier_at_position(line, k)
               /\ at.context = ident_context_at(p, n, k)
<1>1. pos_encoding \in PosEncoding
  BY DEF ServerInv, TypeOK
<1>2. client_col_to_char_index(line, Column(line, k, pos_encoding), pos_encoding) = k
  BY <1>1, ToIndex
<1>. QED BY <1>2 DEF AtCursor

\* The word a request asks for.
LEMMA CursorWord ==
    ASSUME ServerInv, Told, NEW p \in Opened, NEW at \in Cursors(p), at.word # None
    PROVE  IsOneLine(at.word)
<1>. DEFINE lines == Parse[open_sources[p]].lines
<1>1. PICK n \in 0 .. Len(lines) - 1 :
        /\ lines[n + 1] \in Seq(STRING) /\ Line(file_source(p), n) = lines[n + 1]
        /\ \E k \in 0 .. Len(lines[n + 1]) : at = AtCursor(p, n, Column(lines[n + 1], k, pos_encoding))
  BY CursorIsAt
<1>2. PICK k \in 0 .. Len(lines[n + 1]) : at = AtCursor(p, n, Column(lines[n + 1], k, pos_encoding))
  BY <1>1
<1>. DEFINE line == lines[n + 1]
<1>. HIDE DEF lines
<1>3. at.word = word_at_position(line, k) /\ line \in Seq(STRING)
  BY <1>1, <1>2, AskedAt
<1>. QED BY <1>2, <1>3, CursorIsInWord

LEMMA ReferencesCover ==
    ASSUME ServerInv, Told, NEW p \in Opened, NEW at \in Cursors(p)
    PROVE  Checked(references(at))
<1>. DEFINE word == at.word
            Span(source, r) ==
                [line |-> r.line,
                 start |-> byte_col_to_encoding(Line(source, r.line), r.col, pos_encoding),
                 end |-> byte_col_to_encoding(Line(source, r.line), r.col + r.len, pos_encoding)]
<1>. SUFFICES ASSUME NEW loc \in references(at), loc # Panic, Current(loc.file) PROVE Covers(loc)
  BY DEF Checked
<1>1. word # None
  BY DEF references
<1>2. IsOneLine(word)
  BY <1>1, CursorWord
<1>3. PICK q \in Paths :
             /\ files[q].text # Absent /\ file_source(q) # Absent
             /\ find_word_occurrences(word, Parse[file_source(q)].source) # Panic
             /\ \E r \in find_word_occurrences(word, Parse[file_source(q)].source) :
                   loc = [file |-> q, name |-> word, range |-> Span(file_source(q), r)]
  BY <1>1 DEF references
<1>. DEFINE text == file_source(q)
            source == Parse[text].source
<1>4. PICK r \in find_word_occurrences(word, source) : loc = [file |-> q, name |-> word, range |-> Span(text, r)]
  BY <1>3
<1>5. text \in ParsedTexts /\ text # Absent
  <2>1. files[q].text = text
    BY <1>3, <1>4, PathsAssumption DEF Current
  <2>2. files[q].text \in Texts
    BY <1>3 DEF ServerInv, TypeOK
  <2>. QED BY <1>3, <2>1, <2>2 DEF ParsedTexts
<1>6. source \in Seq(STRING)
  BY <1>5, LinesAssumption
<1>7. PICK i \in MatchesFrom(word, source) : r = Reference(source, i, word)
  <2>1. word # <<>>
    BY <1>2 DEF IsOneLine
  <2>. HIDE DEF source, word
  <2>. QED BY <1>3, <1>4, <2>1 DEF find_word_occurrences, source
<1>8. i \in MatchPlaces(word, source)
  BY <1>2, <1>6, <1>7, MatchesAre
<1>. DEFINE n == LineNumber(source, i)
            line == Parse[text].lines[n + 1]
            k == i - LineStart(source, i)
<1>9. /\ n \in 0 .. Len(Parse[text].lines) - 1 /\ line \in Seq(STRING)
      /\ k \in 0 .. Len(line) - Len(word) /\ Slice(line, k, k + Len(word)) = word
      /\ o8(line)[k] = Bytes(Slice(source, LineStart(source, i), i))
  <2>. HIDE DEF text, word
  <2>. QED BY <1>2, <1>5, <1>8, LineHolds
<1>10. /\ r.line = n /\ r.col = o8(line)[k] /\ r.len = Bytes(word)
  BY <1>7, <1>9 DEF Reference
<1>11. Line(text, n) = line
  <2>. HIDE DEF n
  <2>. QED BY <1>5, <1>9 DEF Line, HasLine
<1>. DEFINE start == byte_col_to_encoding(line, o8(line)[k], pos_encoding)
            end == byte_col_to_encoding(line, o8(line)[k] + Bytes(word), pos_encoding)
<1>12. /\ loc.file = q /\ loc.name = word /\ loc.range.line = n
       /\ loc.range.start = start /\ loc.range.end = end
  <2>. HIDE DEF n, line, k, text, word
  <2>. QED BY <1>4, <1>10, <1>11 DEF Span
<1>13. pos_encoding \in PosEncoding /\ word \in Seq(STRING)
  BY <1>2 DEF ServerInv, TypeOK, IsOneLine
<1>14. LET from == client_col_to_char_index(line, start, ClientEncoding)
           to   == client_col_to_char_index(line, end, ClientEncoding)
       IN  Panic \notin {from, to} /\ Slice(line, from, to) = word
  <2>. HIDE DEF line, k, word
  <2>. QED BY <1>9, <1>13, RangeIsRead
<1>. HIDE DEF line, start, end, n, word
<1>. QED BY <1>11, <1>12, <1>14 DEF Covers

-----------------------------------------------------------------------------
(* Every answer the client can be given keeps what is promised. *)

Keeps(kind, at, result) ==
    /\ kind = "goto_definition" => Shadows(at, result)
    /\ kind = "hover" => Shows(result)
    /\ kind = "completion" => Best(at, result)
    /\ kind \in {"goto_definition", "document_symbol", "references"} => Checked(result)
    /\ kind = "symbol" => \A locs \in result : Checked(locs)
AnswerInv == Keeps(answer.kind, answer.at, answer.result)

LEMMA KeepsReads ==
    ASSUME UNCHANGED reads, NEW kind, NEW at, NEW result
    PROVE  Keeps(kind, at, result)' = Keeps(kind, at, result)
<1>1. /\ Shadows(at, result)' = Shadows(at, result) /\ Shows(result)' = Shows(result)
      /\ Best(at, result)' = Best(at, result) /\ \A locs : Checked(locs)' = Checked(locs)
  BY ShadowsReads, ShowsReads, BestReads, CheckedReads
<1>. QED BY <1>1 DEF Keeps

LEMMA StepAnswer == ServerInv /\ Told /\ AnswerInv /\ [Next]_vars => AnswerInv'
<1>. SUFFICES ASSUME ServerInv, Told, AnswerInv, [Next]_vars PROVE AnswerInv'
  OBVIOUS
<1>. DEFINE kind == answer'.kind
            at == answer'.at
            result == answer'.result
<1>1. CASE kind = "none"
  BY <1>1 DEF AnswerInv, Keeps
<1>2. ASSUME UNCHANGED reads, Keeps(kind, at, result) PROVE AnswerInv'
  <2>1. \A k, a, r : Keeps(k, a, r)' = Keeps(k, a, r)
    BY <1>2, KeepsReads
  <2>. QED BY <1>2, <2>1 DEF AnswerInv
<1>3. ASSUME NEW p \in Opened, NEW cursor \in Cursors(p), Answers(cursor)
      PROVE  Keeps(kind, at, result)
  <2>1. /\ at = cursor /\ kind \notin {"document_symbol", "symbol"}
        /\ kind = "goto_definition" => result = goto_definition(at)
        /\ kind = "hover" => result = hover(at)
        /\ kind = "completion" => result = completion(at)
        /\ kind = "references" => result = references(at)
    BY <1>3 DEF Answers
  <2>. HIDE DEF kind, at, result
  <2>. QED BY <2>1, GotoShadows, HoverShows, CompletionIsBest, GotoCovers, ReferencesCover DEF Keeps
<1>4. ASSUME NEW p \in Opened, AnswersOutline(p) PROVE Keeps(kind, at, result)
  BY <1>4, OutlineCovers DEF AnswersOutline, Keeps
<1>5. ASSUME NEW w \in Words, AnswersSymbol(w) PROVE Keeps(kind, at, result)
  BY <1>5, SymbolCovers DEF AnswersSymbol, Keeps
<1>6. answer' = answer => Keeps(kind, at, result)
  BY DEF AnswerInv
<1>7. kind = "none" \/ (UNCHANGED reads /\ Keeps(kind, at, result))
  <2>1. \/ kind = "none"
        \/ /\ UNCHANGED reads
           /\ \/ answer' = answer
              \/ \E p \in Opened : AnswersOutline(p)
              \/ \E w \in Words : AnswersSymbol(w)
              \/ \E p \in Opened : \E cursor \in Cursors(p) : Answers(cursor)
    BY AnswerStands
  <2>. HIDE DEF kind, at, result
  <2>. QED BY <1>3, <1>4, <1>5, <1>6, <2>1, Zenon
<1>. QED BY <1>1, <1>2, <1>7

LEMMA AnswersInvariance == Spec => [](ServerInv /\ Told /\ AnswerInv)
<1>1. Init => ServerInv /\ Told /\ AnswerInv
  <2>1. Init => answer.kind = "none"
    BY DEF Init, NoAnswer
  <2>. QED BY <2>1, InitInv, InitTold DEF AnswerInv, Keeps
<1>. QED BY <1>1, StepInv, StepTold, StepAnswer, PTL DEF Spec

\* Whatever the scan and the dependencies have added in the meantime, a name
\* bound in its own function is answered with the innermost binding in scope
\* (server.rs:540), and a completion list that is cut keeps its best names
\* (server.rs:973): for any texts, parses, limits and interleavings.
THEOREM NearestAnswersFirst == Spec => []NearerComesFirst
<1>1. AnswerInv => NearerComesFirst
  <2>1. ASSUME AnswerInv PROVE LocalsShadow
    BY <2>1, Zenon DEF AnswerInv, Keeps, LocalsShadow, Shadows, Binds
  <2>2. ASSUME AnswerInv PROVE CompletionOffersTheBest
    BY <2>2, Zenon DEF AnswerInv, Keeps, CompletionOffersTheBest, Best, all
  <2>. QED BY <2>1, <2>2 DEF NearerComesFirst
<1>. QED BY <1>1, AnswersInvariance, PTL

\* hover shows the line the symbol was indexed at, through overlays that were
\* never saved, scans that strip the signature and the end of a scan between
\* two requests; a stripped one is read back from a file that did not change.
THEOREM HoverIsOfTheIndexedText == Spec => []HoverShowsTheIndexedText
<1>1. AnswerInv => HoverShowsTheIndexedText
  BY Zenon DEF AnswerInv, Keeps, HoverShowsTheIndexedText, Shows
<1>. QED BY <1>1, AnswersInvariance, PTL

\* Whatever encoding was agreed on, every range of an answer about a file whose
\* index is current, read by the client, covers exactly the symbol's name, and
\* no conversion slices inside a character: for lines of any length, with any
\* mix of characters of one to four bytes, and any interleaving of edits, scans
\* and requests (server.rs:31-106).
THEOREM RangesAreOfTheName == Spec => []RangesCoverTheName
<1>1. AnswerInv => RangesCoverTheName
  <2>1. RangesCoverTheName <=>
          CASE answer.kind \in {"goto_definition", "document_symbol", "references"} -> Checked(answer.result)
            [] answer.kind = "symbol" -> \A locs \in answer.result : Checked(locs)
            [] OTHER -> TRUE
    BY Zenon DEF RangesCoverTheName, Checked, Covers
  <2>. QED BY <2>1 DEF AnswerInv, Keeps
<1>. QED BY <1>1, AnswersInvariance, PTL

-----------------------------------------------------------------------------
(* goto_definition from anywhere in a word. *)

LEMMA AsciiColumns ==
    ASSUME NEW line \in Seq(STRING), Bytes(line) = Len(line), NEW encoding \in PosEncoding
    PROVE  \A k \in 0 .. Len(line) : o8(line)[k] = k /\ Column(line, k, encoding) = k
<1>. DEFINE N == Len(line)
            f == o8(line)
            g == o16(line)
<1>1. /\ N \in Nat /\ f \in [0 .. N -> Nat] /\ g \in [0 .. N -> Nat] /\ f[0] = 0 /\ g[0] = 0
      /\ \A a, b \in 0 .. N : a < b => f[a] < f[b]
      /\ \A n \in 1 .. N : f[n] = f[n - 1] + Utf8Width(line[n]) /\ g[n] = g[n - 1] + Utf16Width(line[n])
  <2>1. Len(Widths16(line)) = N /\ \A n \in 1 .. N : Widths16(line)[n] = Utf16Width(line[n])
    BY DEF Widths16
  <2>2. \A n \in 1 .. N : g[n] = g[n - 1] + Widths16(line)[n]
    <3>1. Widths16(line) \in Seq(Nat \ {0}) /\ IsSum(g, Widths16(line))
      BY Offsets16 DEF o16
    <3>2. \A n \in 1 .. Len(Widths16(line)) : g[n] = g[n - 1] + Widths16(line)[n]
      <4>. HIDE DEF g
      <4>. QED BY <3>1, SumFacts
    <3>. QED BY <2>1, <3>2
  <2>. QED BY <2>1, <2>2, Grows
<1>2. f[N] = N
  BY DEF Bytes, Width, o8
<1>. HIDE DEF N, f, g
\* Every character is one byte: the offsets grow, and reach no more than N.
<1>3. \A k \in 0 .. N : f[k] >= k
  <2>. DEFINE S == {k \in 0 .. N : f[k] >= k}
  <2>1. 0 \in S
    BY <1>1
  <2>2. ASSUME NEW k \in 0 .. N - 1, k \in S PROVE k + 1 \in S
    <3>1. k \in 0 .. N /\ k + 1 \in 0 .. N /\ k < k + 1
      BY <1>1
    <3>2. f[k] < f[k + 1] /\ f[k] \in Nat /\ f[k + 1] \in Nat
      BY <1>1, <3>1
    <3>. QED BY <2>2, <3>1, <3>2
  <2>. HIDE DEF S
  <2>3. \A k \in 0 .. N : k \in S
    BY <1>1, <2>1, <2>2, Onwards
  <2>. QED BY <2>3 DEF S
<1>4. \A k \in 0 .. N : f[N - k] <= N - k
  <2>. DEFINE S == {k \in 0 .. N : f[N - k] <= N - k}
  <2>1. 0 \in S
    BY <1>1, <1>2
  <2>2. ASSUME NEW k \in 0 .. N - 1, k \in S PROVE k + 1 \in S
    <3>. DEFINE a == N - (k + 1)
    <3>1. a \in 0 .. N /\ a + 1 \in 0 .. N /\ a < a + 1 /\ N - k = a + 1 /\ k + 1 \in 0 .. N
      BY <1>1
    <3>2. f[a + 1] <= a + 1
      BY <2>2, <3>1
    <3>. HIDE DEF a
    <3>3. f[a] < f[a + 1] /\ f[a] \in Nat /\ f[a + 1] \in Nat
      BY <1>1, <3>1
    <3>4. f[a] <= a
      BY <3>1, <3>2, <3>3
    <3>. QED BY <3>1, <3>4 DEF a
  <2>. HIDE DEF S
  <2>3. \A k \in 0 .. N : k \in S
    BY <1>1, <2>1, <2>2, Onwards
  <2>. QED BY <2>3 DEF S
<1>5. \A k \in 0 .. N : f[k] = k
  <2>. SUFFICES ASSUME NEW k \in 0 .. N PROVE f[k] = k
    OBVIOUS
  <2>1. N - k \in 0 .. N /\ N - (N - k) = k
    BY <1>1
  <2>2. f[k] <= k /\ f[k] \in Nat
    BY <1>1, <1>4, <2>1
  <2>. QED BY <1>3, <2>2
<1>6. \A k \in 0 .. N : g[k] = k
  <2>. DEFINE S == {k \in 0 .. N : g[k] = k}
  <2>1. 0 \in S
    BY <1>1
  <2>2. ASSUME NEW k \in 0 .. N - 1, k \in S PROVE k + 1 \in S
    <3>1. k \in 0 .. N /\ k + 1 \in 1 .. N /\ k + 1 \in 0 .. N /\ (k + 1) - 1 = k
      BY <1>1
    <3>2. k + 1 = k + Utf8Width(line[k + 1])
      BY <1>1, <1>5, <3>1
    <3>3. Utf16Width(line[k + 1]) = 1
      BY <3>1, <3>2 DEF Utf8Width, Utf16Width
    <3>. QED BY <1>1, <2>2, <3>1, <3>3
  <2>. HIDE DEF S
  <2>3. \A k \in 0 .. N : k \in S
    BY <1>1, <2>1, <2>2, Onwards
  <2>. QED BY <2>3 DEF S
<1>. QED BY <1>5, <1>6 DEF N, f, g, Column

\* Two neighbouring places of a word are of the same word.
LEMMA SameWord ==
    ASSUME NEW line \in Seq(STRING), NEW k \in 0 .. Len(line) - 2, is_ident_char(Ch(line, k))
    PROVE  /\ word_at_position(line, k + 1) = word_at_position(line, k)
           /\ qualifier_at_position(line, k + 1) = qualifier_at_position(line, k)
<1>. DEFINE B(m) == {0} \cup {i \in 1 .. m : ~is_ident_char(Ch(line, i - 1))}
            F(m) == {Len(line)} \cup {i \in m .. Len(line) - 1 : ~is_ident_char(Ch(line, i))}
<1>1. B(k + 1) = B(k)
  <2>1. \A i \in 1 .. k + 1 : i \in 1 .. k \/ (i = k + 1 /\ i - 1 = k)
    OBVIOUS
  <2>. QED BY <2>1
<1>2. F(k + 1) = F(k)
  <2>1. \A i \in k .. Len(line) - 1 : i \in k + 1 .. Len(line) - 1 \/ i = k
    OBVIOUS
  <2>. QED BY <2>1
<1>3. BackWhile(line, k + 1, is_ident_char) = BackWhile(line, k, is_ident_char)
  <2>1. /\ BackWhile(line, k + 1, is_ident_char) = Max(B(k + 1))
        /\ BackWhile(line, k, is_ident_char) = Max(B(k))
    BY Zenon DEF BackWhile
  <2>. HIDE DEF B
  <2>. QED BY <1>1, <2>1
<1>4. ForthWhile(line, k + 1, is_ident_char) = ForthWhile(line, k, is_ident_char)
  <2>1. /\ ForthWhile(line, k + 1, is_ident_char) = Min(F(k + 1))
        /\ ForthWhile(line, k, is_ident_char) = Min(F(k))
    BY Zenon DEF ForthWhile
  <2>. HIDE DEF F
  <2>. QED BY <1>2, <2>1
<1>5. ~(k > Len(line)) /\ ~(k + 1 > Len(line))
  OBVIOUS
<1>. QED BY <1>3, <1>4, <1>5 DEF word_at_position, qualifier_at_position

\* ... and of the same leaf, or of leaves that name nothing.
LEMMA SameContext ==
    ASSUME ServerInv, NEW p \in Opened, NEW n \in 0 .. Len(Parse[open_sources[p]].lines) - 1,
           NEW line \in Seq(STRING), line = Parse[open_sources[p]].lines[n + 1], Bytes(line) = Len(line),
           NEW k \in 0 .. Len(line) - 2, is_ident_char(Ch(line, k)), is_ident_char(Ch(line, k + 1))
    PROVE  ident_context_at(p, n, k + 1) = ident_context_at(p, n, k)
<1>. DEFINE text == open_sources[p]
            nodes == Parse[text].nodes
            At(m, col) == m.line = n /\ m.from <= col /\ col < m.to
            info(col) == {m \in nodes : At(m, col)}
<1>1. p \in Paths /\ text \in Texts /\ text # Absent /\ trees[p] = text
  BY AbsentAssumption DEF Opened, ServerInv, TypeOK, TreeIsOfTheText
<1>2. \A col : node_at(p, n, col) = info(col)
  BY <1>1 DEF node_at
<1>3. k \in 0 .. Len(line) - 1 /\ k + 1 \in 0 .. Len(line) - 1 /\ k + 1 < Len(line)
      /\ k \in 0 .. Len(line) /\ k + 1 \in 0 .. Len(line)
  OBVIOUS
<1>4. Offsets(Utf8Width, line)[k] = k /\ Offsets(Utf8Width, line)[k + 1] = k + 1
  BY <1>3, AsciiColumns DEF o8, PosEncoding
<1>5. ASSUME NEW m \in nodes, m.line = n
      PROVE  /\ \A col \in {k, k + 1}, l \in nodes : At(m, col) /\ At(l, col) => l = m
             /\ classify_node(m) # "Plain" => (At(m, k) <=> At(m, k + 1))
  <2>1. Parse[text].lines[m.line + 1] = line
    BY <1>5
  <2>2. \A j \in 0 .. Len(line) - 1 :
          LET col == Offsets(Utf8Width, line)[j]
              next == Offsets(Utf8Width, line)[j + 1]
          IN  /\ \A l \in nodes : At(m, col) /\ At(l, col) => l = m
              /\ (/\ classify_node(m) # "Plain" /\ j + 1 < Len(line)
                  /\ is_ident_char(Ch(line, j)) /\ is_ident_char(Ch(line, j + 1)))
                 => (At(m, col) <=> At(m, next))
    BY <1>1, <1>5, <2>1, NodesAssumption, Zenon
  <2>. HIDE DEF At, nodes
  <2>. DEFINE ByteAt(j) == Offsets(Utf8Width, line)[j]
              Alone(col) == \A l \in nodes : At(m, col) /\ At(l, col) => l = m
  <2>3. \A j \in {k, k + 1} : Alone(ByteAt(j))
    BY <1>3, <2>2, Zenon
  <2>4. classify_node(m) # "Plain" => (At(m, ByteAt(k)) <=> At(m, ByteAt(k + 1)))
    BY <1>3, <2>2, Zenon
  <2>5. ByteAt(k) = k /\ ByteAt(k + 1) = k + 1
    BY <1>4, Zenon
  <2>. HIDE DEF ByteAt
  <2>. QED BY <2>3, <2>4, <2>5, Zenon
<1>6. ASSUME NEW col \in {k, k + 1}, NEW other \in {k, k + 1}, ident_context_at(p, n, col) # "Plain"
      PROVE  ident_context_at(p, n, other) = ident_context_at(p, n, col)
  <2>. DEFINE m == CHOOSE m \in node_at(p, n, col) : TRUE
              l == CHOOSE l \in node_at(p, n, other) : TRUE
  <2>1. /\ node_at(p, n, col) # {} /\ ident_context_at(p, n, col) = classify_node(m)
        /\ ident_context_at(p, n, other) = IF node_at(p, n, other) = {} THEN "Plain" ELSE classify_node(l)
    BY <1>6, Zenon DEF ident_context_at
  <2>2. m \in node_at(p, n, col) /\ (node_at(p, n, other) # {} => l \in node_at(p, n, other))
    BY <2>1
  <2>. HIDE DEF m, l
  <2>3. m \in nodes /\ m.line = n /\ At(m, col) /\ classify_node(m) # "Plain"
    BY <1>2, <1>6, <2>1, <2>2
  <2>4. At(m, other) /\ m \in node_at(p, n, other)
    BY <1>2, <1>5, <2>3
  <2>5. l \in nodes /\ At(l, other)
    BY <1>2, <2>2, <2>4
  <2>6. l = m
    BY <1>5, <2>3, <2>4, <2>5
  <2>. QED BY <2>1, <2>4, <2>6
<1>. QED BY <1>6

LEMMA GotoDependsOn ==
    ASSUME NEW a, NEW b, a.file = b.file, a.line = b.line, a.word = b.word,
           a.qualifier = b.qualifier, a.context = b.context
    PROVE  goto_definition(a) = goto_definition(b)
<1>1. FieldsOrGlobals(a) = FieldsOrGlobals(b)
  BY DEF FieldsOrGlobals
<1>2. DefinitionsFor(a) = DefinitionsFor(b)
  BY <1>1 DEF DefinitionsFor
<1>3. rank_definitions(DefinitionsFor(a), a.file, a.qualifier) = rank_definitions(DefinitionsFor(b), b.file, b.qualifier)
  BY <1>2
<1>. QED BY <1>3 DEF goto_definition

\* Wherever in a word the cursor is, goto_definition answers the same: the loops
\* that find the word and its qualifier meet at the same two ends, and the leaf
\* of the tree is the same (server.rs:108-171), on any line of ASCII.
THEOREM GotoIsOfTheWord == Spec => []GotoIsPerWord
<1>1. ServerInv /\ Told => GotoIsPerWord
  <2>. SUFFICES ASSUME ServerInv, Told, NEW p \in Opened, NEW at \in Cursors(p),
                       Bytes(Line(open_sources[p], at.line)) = Len(Line(open_sources[p], at.line)),
                       \A i \in {at.col, at.col + 1} :
                           /\ i < Len(Line(open_sources[p], at.line))
                           /\ is_ident_char(Ch(Line(open_sources[p], at.line), i))
                PROVE  goto_definition(at) = goto_definition(AtCursor(p, at.line, at.character + 1))
    BY Zenon DEF GotoIsPerWord
  <2>. DEFINE lines == Parse[open_sources[p]].lines
  <2>1. PICK n \in 0 .. Len(lines) - 1 :
          /\ lines[n + 1] \in Seq(STRING) /\ Line(file_source(p), n) = lines[n + 1]
          /\ \E k \in 0 .. Len(lines[n + 1]) : at = AtCursor(p, n, Column(lines[n + 1], k, pos_encoding))
    BY CursorIsAt
  <2>2. PICK k \in 0 .. Len(lines[n + 1]) : at = AtCursor(p, n, Column(lines[n + 1], k, pos_encoding))
    BY <2>1
  <2>. DEFINE line == lines[n + 1]
              next == AtCursor(p, n, Column(line, k + 1, pos_encoding))
  <2>3. line \in Seq(STRING) /\ Line(file_source(p), n) = line /\ pos_encoding \in PosEncoding
    BY <2>1 DEF ServerInv, TypeOK
  <2>4. /\ at.file = p /\ at.line = n /\ at.col = k /\ at.character = Column(line, k, pos_encoding)
        /\ at.word = word_at_position(line, k) /\ at.qualifier = qualifier_at_position(line, k)
        /\ at.context = ident_context_at(p, n, k)
    <3>1. at = AtCursor(p, n, Column(line, k, pos_encoding)) /\ k \in 0 .. Len(line)
      BY <2>2
    <3>. HIDE DEF line
    <3>. QED BY <2>3, <3>1, AskedAt
  <2>5. file_source(p) = open_sources[p]
    BY PathsAssumption DEF Opened, file_source
  <2>6. Bytes(line) = Len(line) /\ \A i \in {k, k + 1} : i < Len(line) /\ is_ident_char(Ch(line, i))
    <3>. HIDE DEF line
    <3>. QED BY <2>3, <2>4, <2>5
  <2>7. k \in 0 .. Len(line) - 2 /\ k + 1 \in 0 .. Len(line) /\ k \in 0 .. Len(line)
    <3>1. Len(line) \in Nat /\ k \in 0 .. Len(line) /\ k + 1 < Len(line)
      BY <2>3, <2>6
    <3>. HIDE DEF line
    <3>. QED BY <3>1
  <2>8. /\ next.file = p /\ next.line = n /\ next.word = word_at_position(line, k + 1)
        /\ next.qualifier = qualifier_at_position(line, k + 1)
        /\ next.context = ident_context_at(p, n, k + 1)
    <3>. HIDE DEF line
    <3>. QED BY <2>3, <2>7, AskedAt
  <2>9. Column(line, k, pos_encoding) = k /\ Column(line, k + 1, pos_encoding) = k + 1
    <3>. HIDE DEF line
    <3>. QED BY <2>3, <2>6, <2>7, AsciiColumns
  <2>10. /\ word_at_position(line, k + 1) = word_at_position(line, k)
         /\ qualifier_at_position(line, k + 1) = qualifier_at_position(line, k)
    <3>. HIDE DEF line
    <3>. QED BY <2>3, <2>6, <2>7, SameWord
  <2>11. ident_context_at(p, n, k + 1) = ident_context_at(p, n, k)
    BY <2>1, <2>6, <2>7, SameContext
  <2>12. next = AtCursor(p, at.line, at.character + 1)
    BY <2>4, <2>9
  <2>. HIDE DEF line, next
  <2>13. goto_definition(at) = goto_definition(next)
    BY <2>4, <2>8, <2>10, <2>11, GotoDependsOn
  <2>. QED BY <2>12, <2>13
<1>. QED BY <1>1, AnswersInvariance, PTL

=============================================================================

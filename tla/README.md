# quicklsp in TLA+

quicklsp is a language server: it indexes the definitions of a source tree,
keeps the index current while an editor changes files, answers queries from
it, and caches its parses on disk for the next start and for other worktrees.
This directory models its concurrent and its persistent parts, the request
handlers over them and the text and tree algorithms below them, checks all of
it with TLC and proves facts about the index, the scan, the caches, the package
queue, the server's session, its answers, the tokenizer and what is extracted from
syntax trees with TLAPS.

Paths below are relative to the repository: `workspace.rs` is
`src/workspace.rs`, `state.rs` is `src/cache/state.rs`, `deps` is
`src/deps/mod.rs`.

## 1. The system

| Component | State | Operations | Talks to |
|---|---|---|---|
| **Workspace** (`workspace.rs`) | `files`, `definitions`, `file_ids`, `id_to_path`, `fuzzy`, `fuzzy_dirty`, `open_sources`, `cache` | `index_file`, `update_file`, `close_file`, `remove_file`, `scan_directory`; queries | all caches; called by the LSP task and the scan thread |
| **Scan** (`workspace.rs:363`) | locals of `scan_directory`; manifest rows; posting lists | five phases: open, collect, parallel scan, install, persist and publish | layer A, layer B, `open_sources` |
| **Content store, layer A** (`cache/content_store.rs`) | one file per content hash and parser version | `get`, `put`, `ensure_file_unit` | shared by all threads and all processes of a user |
| **Manifest, layer B** (`cache/manifest.rs`) | SQLite rows path, hash, size, mtime, generation; meta | `put_rows`, `delete_rows`, `clear`, `all_rows`, `set_meta` | one database per worktree |
| **Registry, identity** (`cache/registry.rs`, `cache/identity.rs`) | known worktrees; ids from git | `upsert`, `all_worktrees`, `detect_identity` | subsumption of sibling manifests (`state.rs`) |
| **Dependency index** (`deps`) | `pending_packages`, `indexed_packages`, `indexing_in_progress`, `workspace_root`, `last_resolve`, a second Workspace | `detect_and_resolve`, `refresh_if_stale`, `enqueue_packages`, `index_pending` | resolvers for Cargo, npm, Python, Go |
| **Fuzzy index** (`fuzzy/`) | names and trigrams | `insert`, `clear`, `resolve` | rebuilt lazily by `ensure_fuzzy_built` |
| **Syntax cache** (`syntax_cache.rs`) | a tree per open file | `update`, `remove`, `node_at` | written by `index_file`, read by queries |
| **Server** (`lsp/server.rs`) | root, negotiated encoding | LSP handlers; the background task of `initialized` | everything |
| **Parsing** (`parsing/`) | none | a text to symbols and words: a hand-written tokenizer, and queries and walkers over tree-sitter's trees | everything |
| **Resolvers** (`deps/cargo.rs`, `npm.rs`, `python.rs`, `go.rs`, `files.rs`) | none | a lock file to packages on disk, a package to its source files | `deps` |

How they interact. The LSP task handles notifications and queries one after
the other on the in-memory maps. `initialized` starts a background task that
runs `scan_directory` on a blocking thread, then `index_pending` on another.
Both write the same DashMaps as the LSP task, with no lock over a sequence of
calls. The scan itself is parallel (rayon) and its workers share layer A, as do
other processes. `scan_directory` builds a new `CacheState` (posting lists,
manifest connection) and stores it in `Workspace::cache` at its very end.

What is hard here:

- interleavings on the maps: an update is ten calls and only each call is atomic;
- checks that are old when used: `open_sources` is asked before a scan installs,
  `fuzzy_dirty` is cleared after the names were read, the posting lists are
  those of the last scan;
- the disk, the editor and the index are three versions of one file;
- processes that end anywhere, between two transactions or between two system
  calls, and leave what is on disk to the next one;
- several writers of one content-addressed file;
- a queue that is resolved, replaced, taken and marked by different calls;
- progress that parallel workers report through channels, with panics on either side;
- three units of text (bytes, characters, the client's), and positions found in
  one version of a text and used in another;
- hand-written scanners whose every branch must advance, count lines and skip what is not code.

What makes each component correct:

| Component | Correct when |
|---|---|
| Workspace | `definitions` is the exact inverse of `files`; queries answer for the asked name; file ids are unique and stable; the fuzzy index holds what is defined when its flag says so; nothing blocks |
| Scan | after a scan every file is indexed and posted as a query would read it, the overlay if it is open; the manifest matches the disk |
| Content store | no reader meets half an entry; a unit is that of the file; races do not fail a scan |
| Dependency index | a queued package is indexed, once; calls return; what is declared is found and a package's interface is read |
| Server | what it answers is about the text the client sees, in the client's units; the nearest definition first; Begin, reports, End, always |
| Parsing | positions are right, only code is indexed, members have their container, one symbol for one definition, locals stay in scope |
| Manifest | a fresh row stands for the content on disk; a restart never trusts what it should not |
| Text functions (columns, word search, edit distance, signature help) | equal to their reference definition, without a panic |

The full list of hazards, with the lines where they bite, is in `PROJECT.json`.

## 2. The modules

| Module | Models | Run by, proved in |
|---|---|---|
| `DefinitionIndex` | the abstract promise of the symbol index: changes one file at a time, answers exactly | refined by `WorkspaceIndex`: checked, and proved in `WorkspaceIndex_proofs` |
| `WorkspaceIndex` | the maps of the Workspace, one action per call on a shared map or lock | `MCWorkspaceIndex`, `WorkspaceIndex_proofs` |
| `ScanSession` | a server process over a worktree: editor, scan, manifest rows, disk, process ends | `MCScanSession`, `ScanSession_proofs` |
| `ManifestScan` | layer B: processes that scan, their manifests, the registry, layer A, the disk | `MCManifestScan`, `ManifestScan_proofs` |
| `ContentStore` | layer A, one action per system call | `MCContentStore`, `ContentStore_proofs` |
| `PackageQueue` | the queue of dependency packages | `MCPackageQueue`, `ServerSession_proofs` |
| `PackageSources` | the resolvers: lock files to packages, packages to source files | `MCPackageQueue` |
| `ServerSession` | the background task of `initialized`; extends `PackageQueue` with the scan's workers, the channels and the client | `MCServerSession`, `ServerSession_proofs` |
| `LanguageServer` | the LSP handlers over overlays, trees, index, dependencies and disk | `MCLanguageServer`, `LanguageServer_proofs` |
| `SourceText` | characters and their widths; columns, word under the cursor, word search, signature help | extended by the next three and by `LanguageServer`; `SourceText_proofs` |
| `Lexer` | the hand-written tokenizer, one action per branch of its loop, and the table from tokens to symbols | `Parsing` |
| `SymbolText` | doc comments and signatures | `Parsing` |
| `Extraction` | queries, removal of duplicates and walkers over syntax trees | `Parsing` |
| `FuzzyIndex` | trigram keys, fallback, bounded edit distance | `Parsing` |
| `Parsing` | the four above together: a text that is scanned, or an input for one of the functions | `MCTexts`, `Parsing_proofs` |

The `MC` modules hold nothing but small constants and small inputs.

### WorkspaceIndex

`pc[t]` is where thread `t` is; `op[t]` are the locals of a write
(`insert_file_entry`, `install_file_unit`, `remove_file`), `ask[t]` those of a
query. The actions follow the code in order:

    index / install   Start, ReadOldNames, ReadOldId, (Retain, DropKey)*, LookupId,
                      LockTable, InsertId, PushRef*, EndPush, MarkDirty, InsertFile
    remove            Start, ReadOldNames, ReadOldId, (Retain, DropKey)*, DropFile
    scan              InstallFileUnit*, DropDeadRow*, FinishScan
    search_symbols    FuzzyCheck, FuzzyLock, FuzzyIter*, FuzzyClean, FuzzyRead,
                      (GetEntry, ReadTable, ResolveRef*, EndResolve)*, Return
    find_definitions  GetEntry, ReadTable, ResolveRef*, EndResolve, Return

A `Vec<SymbolRef>` is a set: its order matters to no property, and a ref pushed
twice gets a copy number so that duplicates stay visible. `def_keys` tells a
name whose vector is empty from a name without an entry, which is what
`remove_definitions_for_file` gets wrong at line 781. Two locks are modelled where
they can be waited for: the write lock of `id_to_path` between push and insert, and the
read guard of a `definitions` entry that `find_definitions` keeps while it waits
for `id_to_path`. A fuzzy lookup is exact match or nothing; the distances
are in `FuzzyIndex`.

### ScanSession

A text is the set of its words. That is all the posting lists see of it, and two
texts are different parses. `open_sources`, `files`, `rows` and `cache` are the
code's; `disk` is the real tree. Re-indexing one file is one step, because
`WorkspaceIndex` takes it apart. `scan` is the record of the locals of
`scan_directory`, and `scan.pc` its phase:

    collect (690-742) -> scan (446-550) -> install (558-570) -> find_dead (572-588)
      -> delete_rows (601-607) -> drop_dead (608-617) -> fold (626-630) -> published (649)

The overlay check is made for each path in `CollectPath` and, as in the code, not again.
The fast path (a row with equal size and mtime) yields the unit of the text on disk as
the slow path does: stat identifies the content here, and SQLite calls succeed;
`ManifestScan` does without either assumption.

`touched` is a history variable. It holds the paths that the editor or the
disk changed while a scan ran (or since, behind the server's back: a change on
disk, a buffer closed unsaved). The positive properties speak of the paths
outside it. The ones inside are what the statements that do not hold are about.

### ManifestScan

The same scan as the other processes see it. The in-memory index is left out;
the manifests, the registry, layer A's set of units and the disk are shared, and a
file's stat, its read and each SQLite call are steps of their own:

    Open (registers), CheckParserVersion, CollectPaths, LoadRows, ReadOther*, MergeRows
    (StatFile, ReadFile)* , EndScan
    ReadGeneration, FindDead, (Clear, SetParserVersion)?, PutRows, DeleteRows,
    SetGeneration, Return

`local[q]` are the locals of `scan_directory`. Every SQLite call can fail where the code
goes on (`unwrap_or`, `let _ =`, `warn!`): a read yields the default, a write changes
nothing. Paths are absolute, so that the prefix put before or taken off a
borrowed row's `rel_path` needs no model. A content stands for its hash, and all
contents have one size: a row is told from a file by the mtime alone. Each
change of a file gives it a new mtime, which is what `workspace.rs:471` relies on;
edits within one tick of the clock, or with an mtime set back, are outside the model.
`held[q][p]` is a history variable: what path `p` was since `q`'s scan began.

### ContentStore

A file is an inode with data, and a name is an entry that points to it. This is
needed because `File::create` truncates the inode under an existing temporary
name, `rename` moves whatever inode has that name by then, and a thread that has
the inode open writes to it wherever it went. The temporary name is a function
of hash and process id (`content_store.rs:59`), so threads of a process share it. A
unit is a function of the hash and of the language of the path it was parsed
for.

### PackageQueue

One action per access to a shared structure. Each thread has a plan, the calls
it makes. `workspace_root`'s read guards are modelled because `refresh_if_stale`
holds one while `detect_and_resolve` wants the write guard. Whether enough time
has passed for a refresh is a free choice. A resolution finds what is
installed, and may find some of it twice (`python.rs:123`: `VIRTUAL_ENV` is
looked at besides the workspace's own `venv` directories). In which order it
finds packages matters to no property, and is left to `SetToSeq`.

### PackageSources

A directory is the sequence of its entries in the order of `read_dir`, which is
any order, and a name the sequence of its parts, because the code compares
extensions as suffixes. `collect_source_files` is the walk of `files.rs` with
its limits, the stubs that replace sources and the cut at the end; Cargo's
puts `src/lib.rs` first, sorts and cuts again (`cargo.rs`). `resolve_package_dirs`
of Cargo, the module path encoding of Go and the sections of `package.json` are
functions from what a lock file says to what is found.
`MCPackageQueue` puts each input beside a queue that does nothing.

### ServerSession

`task` is where the task of `initialized` stands, from the request for a progress
token to the End notification. The scan begins with `OpenCache`; a cache that does not open
ends it at once (`workspace.rs:385`). Its threads are `worker[w]`: take a file and
count it, load `last_progress`, compare-exchange it, send, one action each
(`workspace.rs:667`); a file that cannot be stat'ed, read or stored is left by `continue`,
without being counted (`FailFile`). `scan_rx` and `progress_rx` are the two unbounded channels;
`forwarder` is the task that drains the second. The dependency pass is
`PackageQueue`'s, step by step, with the callback where the code calls it.
Either thread may panic in a file: rayon's other workers may stop then, the joins
return an error that `.ok()` drops, and `indexing_in_progress` keeps its value.
The client may refuse the token; what it is sent is `notifications`.

### LanguageServer

A handler awaits only its first lock, so it is one action. The state is what handlers
read: `open_sources`, `trees`, `files` (the text each entry was parsed from and whether
its signatures were stripped), `disk`, whether dependencies are indexed, and the
encodings both sides think they have agreed on. A text is a value; `Parse` gives its
characters, symbols, named leaves of its tree and header lines, so that every position
is a number in a line the model has. The functions keep the code's names:
`find_definitions`, `find_local_definition_at`, `rank_definitions`,
`definition_matches_qualifier`, `enrich_symbol_if_needed`, `ident_context_at`. `completion` is
the chain of its code: the candidates of a prefix in either case, `sort_by` their scores, what
`seen` lets by (`Unseen`), `take` (`Taken`). `references` searches every indexed file: which of
them the posting lists leave over (`workspace.rs:979`) is `ScanSession`'s. A request
is asked at every cursor of every open document, as the client counts columns, and its
answer is kept in `answer`. Where the code's order of equal candidates is that of a hash
map, the answer is the set of possible ones. The background scan reads, strips and
installs between handlers; what the scan does in detail is `ScanSession`'s.

### SourceText, SymbolText

A source is a sequence of characters with a width in UTF-8 and in UTF-16: ASCII,
a two-byte and a three-byte letter, a three-byte dash, a four-byte emoji. Offsets count
from 0 as in the code, and slicing inside a character is the value `Panic`.
`client_col_to_char_index`, `byte_col_to_encoding`, `word_at_position`,
`find_word_occurrences`, `signature_help_scan` and `extract_parameters` are the code's loops as
functions of the character reached. In `SymbolText` a line above a definition
is what its trimmed text begins with and whether there is more.

### Lexer

The variables are the locals of `scan_full`: `i`, line and the place it begins,
the depth of braces or the levels of indentation, the stack of containers, the
pending visibility and scope opener, and what is written down: `tokens`,
`occurrences`, `def_contexts`. One action per branch of the loop: newline,
indentation, blank, comment, string, quote, brace, colon, visibility keyword,
definition, word, other. A unit is a whole word or one character no word
contains. The code goes by bytes, of which two things are kept. A wide character that no word
contains begins with a byte that a name may begin with: behind a keyword it makes a
definition with an empty name, behind a scope opener a type with one (`NoName`). And behind the
quote of a Rust text the code steps one byte on, so that the texts of Rust have bytes there
(`ByteWords`, `BytesAssumption`): `'static` is a quote, `s` and `tatic`. The skipping helpers return where they stop and the newlines they
count; `drifted` is a history variable, true once a helper counted other
newlines than it passed. `from_tokens_with_contexts` makes the symbols.

### Extraction

A tree is a sequence of nodes in document order with kind, name and parent. The queries
of the nine languages are sets of rules (a kind, where, under which suffix, with which
container); `QueryOutcomes` turns their matches, in any order, into symbols, and keeps
one of two at one place as `deduplicate_symbols` does; the walkers of C and C++ and the
scope ends are functions of the same tree. tree-sitter, which finds the tree, is
external. The rows a node begins and ends on are the tree's; a node is within its parent's
and ends no later than what comes behind it begins (`RowsInOrder`), and any of them may share
a row. A function in a function, as GNU C has them, is entered like a block. Results are sets:
of identical symbols from one walker there is one.

### FuzzyIndex

`insert` files a name under the trigrams of its lowercase bytes, `resolve` collects
candidates by the query's trigrams, falls back to names of a similar length when
there are none, and judges them by the bounded edit distance, computed row by
row as in the code. Its reference is the distance by definition.

### Parsing

The tokenizer is a loop, everything beside it a function of one input. Their composition
has the variable `input`, whose every value is an initial state: what is asked of a
function, or nothing, in which case the tokenizer scans one of the texts. `Inputs(question)` is
a constant operator, so that the proofs are about any inputs that are as
`InputsAssumption` says, and `MCTexts` gives the small ones.

## 3. What the runs check

Runs that pass:

| Run | Properties | Instance | States |
|---|---|---|---|
| `index_serial` | `TypeOK`, `FuzzyComplete`, `PromiseKept` (refinement of `DefinitionIndex`) | one thread, 2 paths, 2 names, 4 parse results, 2 writes per path, 2 queries | 1.4 M |
| `index_cold` | `IndexIsExact`, `OperationsFinish` | LSP task and scan, each path indexed for the first time, 1 query; fair | 0.1 M |
| `index_shared` | `FileIdTable`, `RefsInBounds`, `AnswersAreOfTheAskedName`, `FileIdsStable` | LSP task and scan, one path written by both, one by the scan alone, 3 parse results, 2 writes per path, removals, 1 query | 2.6 M |
| `scan_session` | `ScanInv`, `PostingsExact`, `ManifestExact` | 2 paths, 2 texts, 2 scans per process, 3 notifications, 1 disk change, 1 process end | 3.1 M |
| `manifest_scan` | `TypeOK`, `ScanIsRegular`, `RowsAreTruthful`, `RowsHaveUnits` | 2 processes, 2 scans, a worktree and one inside it, 2 builds, 1 file, 2 contents, 1 change, 1 process end | 1.6 M |
| `store` | `StoreInv`, `CleanAtRest`, `RacesDoNotFail` | a process with 2 threads and one with 1, 1 hash, 3 files each, 1 end per process | 0.1 M |
| `packages_queue` | `QueueInv`, `NothingLost`, `PackagesAreWhole`, `DeclaredAreResolved` | 3 threads: hand over, resolve, refresh, index; 2 packages; limits of 3 files and depth 1, lock files of up to 3 entries | 0.1 M |
| `server_session` | `SessionInv`, `EndMeansIndexed`, `IndexingEnds` | 2 workers, 5 files, a report every 2 files, 2 packages, 1 panic; fair | 0.1 M |
| `language_server` | `ServerInv`, `RangesCoverTheName`, `NearerComesFirst`, `HoverShowsTheIndexedText`, `GotoIsPerWord` | 2 workspace files, 1 dependency file, 3 texts, 3 encodings, 2 notifications, 1 scan | 64 k |
| `texts` | `SymbolsAreInPlace`, `OnlyCodeIsIndexed`, `MembersHaveTheirContainer`, `CursorIsUnderstood`, `ShownTextIsWhole`, `OneSymbolInItsType`, `LocalsStayInScope`, `SearchesFindTheNear`, `TurnsAdvance` | short texts of 7 families scanned turn by turn; every small input of the functions; trees of up to 4 nodes in 9 grammars, each laid out on rows of its own, on one row, and broken at each node | 0.4 M |

Properties with the ending `Inv` are the module's types together with the
invariant that gives them meaning: `ScanInv` has `IndexIsCurrent`, `StoreInv`
`TornIsBeingWritten`, `QueueInv` `IndexedOnce`, `SessionInv`
`ProgressWellFormed`, `PackagesReportedInOrder` and `ScanReportsAreThrottled`,
`ServerInv` `TreeIsOfTheText`. `NearerComesFirst` is `LocalsShadow` and
`CompletionOffersTheBest`; `SymbolsAreInPlace` is `LexerTypeOK`,
`PositionsAreRight` and `SymbolsMatchContexts`; `CursorIsUnderstood` is
`CursorRoundTrips` of the columns and `ReferencesAreTheWords` of the texts asked.

What they show.

*Index:* done by one thread, ten calls per update are as good as
one step, also for the queries in between; on a cold start, where every path is
indexed once, the LSP task and the scan may interleave as they like; the file ids
survive every interleaving; and a file may be indexed again or removed by the one
thread that writes it while a query holds refs of its old version: between two such
writes every ref the query resolves is of the name it asked for.

*Scan:* a file nobody touches during a scan ends up
indexed and posted as a query reads it, whatever happens to the other files and
wherever an earlier process ended.

*Manifest:* two scans of one worktree, or of one
inside the other, need no lock between them (the design's `scan.lock` does not exist):
whatever rows they take from each other, and whichever of their transactions
fail, each indexes what the files were since it began.

*Store:* half an entry is met only
where two threads of one process share a temporary name and one of them is still writing, or
its process ended while it was; the store is clean again when they are
done, and none of them fails.

*Packages:* each queued package is indexed at most
once and waits until it is, though a resolution may name it twice. A package within
the limits is read whole, of a larger one its top is; of what is installed the locked versions, the
modules of `go.sum` and the declared scoped packages are found, and nothing else.

*Session:* a client that created the token gets Begin, reports in order and
End; End means, unless something panicked, that every package was indexed and, if the cache
opened, every file was counted or was an error the client is not told of; no two workers report
the same step; and End comes, also after a panic, when the cache does not open, and
when the last report is lost.

*Requests:* a cached tree is always of the overlay, so that
slicing the overlay by its offsets is safe; every range is in the client's units and covers the
name; a local of the cursor's function hides all else; completion keeps no better name
out; hover shows text that was indexed.

*Texts:* the tokenizer advances in every turn, keeps line and column, indexes only code,
and gives members their container; columns survive a round trip through the three
encodings; search finds words and nothing else; doc comments and signatures are whole;
one definition gives one symbol; and a search finds every name within the distance that
shares a trigram with the query, and no name farther away.

Runs that end in a violation, each of a statement of a comment or document
(quoted in `PROJECT.json`, "findings"):

| Run | Statement | What the trace shows |
|---|---|---|
| `scan_overlay_clobbered` | "Overlay wins for that path" (design 5.5) | didOpen after the path was collected; the scan installs the disk's symbols |
| `references_panic` | "Unicode-aware" (`workspace.rs:1453`) | the byte before a match lies inside a wide character, and slicing there panics |

### More statements that do not hold

Found with the same modules. They have no run
of their own; take the instance named and check the operator as its invariant, or read the
line: where no operator is named, the model has the code's behaviour and a property was
narrowed to leave it out.

Index, scan, caches and queue:

| Statement | Operator and instance | Trace |
|---|---|---|
| "All data is exact" (`workspace.rs:13`) | `IndexIsExact`, `index_cold` with 2 writes per path | two threads on different paths: a name's key is removed with a ref just pushed into it; on one path: refs of the parse that loses the `files` entry stay for good |
| same | `AnswersAreOfTheAskedName` without `~UnderWrite(path)`, `index_shared` | a query resolves a new ref against the old `files` entry (`workspace.rs:176`) and returns another symbol |
| same | the same without `OneWriterOf(path)` | two threads indexed the path and the refs of the parse that lost the `files` entry stay, so that later queries return other symbols |
| "Set to true when definitions change" (`workspace.rs:109`) | `FuzzyComplete`, `index_cold` | the rebuild clears a flag that the scan has just set |
| "Overlay wins" (design 5.5) | `OverlayWins` with `files[p] # NoText` in place of the equality, `scan_overlay_clobbered` with a disk change and two scans | a file that is open is gone from disk: its row is dead and its definitions are dropped |
| "across all indexed files" (`workspace.rs:974`) | `ReferencesComplete`, `scan_session` | an edited file is not in the posting lists, another file is |
| "still valid from the last save" (`workspace.rs:758`) | `ClosedAsSaved`, `scan_session` | an edited buffer is closed without saving and its symbols stay |
| "Writes are atomic" (`content_store.rs:5`) | `EntriesAreComplete`, `store` | one thread renames what another of its process has just truncated |
| "Depends only on (file_bytes, parser_version)" (`types.rs:63`) | `UnitIsOfTheFile`, `store` with two languages | equal bytes, two extensions |
| "set-union, not the multiset" (design T8) | `WrittenOnce`, `store` | two writers both saw no entry and both rename |
| "Re-resolve dependencies if enough time has passed" (`deps:147`) | `CallsReturn` under `FairSpec`, `packages_queue` with `RefreshPlan` | the refresh waits for its own read guard (nothing calls it yet) |
| "Add package directories to the pending index queue" (`deps:286`) | `NothingLost`, `packages_queue` with one thread resolving and another handing over | the resolution replaces the list |
| "Prioritizes src/lib.rs" (`cargo.rs:126`) | `PackageSources` with `MAX_FILES_PER_PACKAGE = 2` and two names before `lib.rs` | the list is sorted again and cut, and `src/lib.rs` is what goes |
| the limit of files per package (`cargo.rs`) | a crate with exactly that many | `src/lib.rs` counts twice and one file is lost |
| "only the stub is included" (`files.rs:16`) | `word.ts` beside `word.d.ts` | the stems are compared with different extensions cut off |
| "only declared deps are indexed" (`deps:9`) | npm, Python | everything in the directory is taken |

Server and requests:

| Statement | Where | What happens |
|---|---|---|
| the last report says all files | `server_session`, a report with `count = TotalFiles` | the worker with the last file loses the exchange, or an earlier report is sent after it |
| End says that the workspace is indexed | `EndMeansIndexed` with `indexed = TotalFiles` | of a cache that does not open, and of a file that cannot be read or stored, the client is told nothing (`workspace.rs:385`, `workspace.rs:495`) |
| indexing starts in the background | `IndexingEnds` without fairness of `ClientAnswers` | a client that never answers `workDoneProgress/create` is never indexed for (`server.rs:322`) |
| hover and definition speak of one symbol | `hover` instead of `goto_definition` in `LocalsShadow` | hover asks the locals last |
| hover shows the buffer | `HoverShowsTheIndexedText` without `Kept` | signatures were stripped and the file on disk has other lines |
| the context is that of the word | `GotoIsPerWord` with the cursor at the word's end, or behind wide characters | the tree is asked for the next node, or with characters for bytes |
| "Python, Java, JS, TS and Go locals" are local (`workspace.rs:262`) | `LocalsStayInScope` for these languages | their keywords are not in `is_local`'s list: they are global |

Parsing:

| Statement | Where | What happens |
|---|---|---|
| lines are counted | `PositionsAreRight` with unterminated strings | the newline that ends the string is skipped |
| only code is indexed | `OnlyCodeIsIndexed` without the condition on what is behind a quote | of `'static` the word `tatic` remains; the last quote of `'世'` opens another and takes the quote of the string behind it, whose words are then indexed |
| a definition has a name | `Definition` before a wide character | it is filed under the empty name (`tokenizer.rs:662`) |
| a scope opener opens its own scope | `MembersHaveTheirContainer` with a `;` ending an opener's reach in `OpenersOf` | after `struct A;` the opener is still pending at the next brace, whatever opens it |
| an opener's name is the type's | the same without the second conjunct of `Plain` | in `typedef struct A {` the name of `typedef` is `struct`, which no longer opens a scope |
| Python classes nest | the same with `EnclosingType` by indentation | the inner level is never adjusted (`tokenizer.rs:574`) |
| visibility by name in Go and Python | `SymbolsMatchContexts` with visibility | the fallback looks at the keyword |
| "allow one blank line gap" (`symbols.rs:150`) | `ShownTextIsWhole` | it always breaks; a line `*ptr = ..` above is taken as a comment |
| parameters of a signature | `ShownTextIsWhole` with `->` in a parameter, or commas in brackets | the arrow closes an angle bracket, every comma counts |
| "cursor must be within scope" (`workspace.rs:849`) | `LocalsAreSeenInScope` without leaving out the row a scope ends on | scopes are compared by rows: behind `{ int a; }` on its row, that `a` is found |
| every local is found | `LocalsStayInScope` with an `else if` | the walker does not go into it; of `int a, b;` it takes the first |
| one kind for one definition | `OneSymbolInItsType` with a constant arrow function | the kind depends on the order of matches; a range marks locals in its body as constants, and a use of an enum in C counts as a definition |
| "Stable identifier ... across clones" (`identity.rs:12`) | not modelled | remotes are hashed in |
| near names are found | `SearchesFindTheNear` | a near name that shares no trigram is hidden when others share one; the fallback compares lengths in bytes |

### Bounds and why they are enough

- *Two paths, two names.* A property of the index relates one ref, its path and
  at most one other path (a shared name, a neighbouring id) or one other name (an old and
  a new parse). Parse results define nothing, one name, or both names in the
  order that makes an index mean another symbol, one of them local; in `index_shared`
  nothing, or one of the two names, so that the first symbol changes its name from
  version to version.
- *Two writes per path.* The second write is the one that has something to
  remove. Violations show up with two; in `index_serial` two writes per path
  interleave with two queries.
- *Two threads* on the index: the LSP task is one thread and a server has one
  scan. `store` has three, two that share a temporary name and one that does not;
  three calls each let every one write, lose a race and read the other's entry. Its properties
  are proved for all numbers besides.
- *Two scans, three notifications, one disk change.* A second scan meets rows,
  overlays and entries the first one left; an open, a change and a close need
  three notifications; one disk change makes a row dead or stale, and the editor's
  saves are not counted.
- *One process end.* What a process leaves is on disk; a second end repeats the
  first from a state that a scan can reach anyway.
- *Two scans by two processes over one file* (`manifest_scan`): a row is written by one
  scan and trusted, borrowed, overwritten or deleted by another, at the same time
  or later; one change makes a row stale before, between or after a scan's
  stat and read. Files do not interact in layer B. `RowsAreTruthful` and `ScanIsRegular` are
  proved for all values besides.
- *Two workers, five files, a report every two* (`ReportStep`, 500 in the code): a worker may
  lose an exchange, send late, or take the last file while another still has a report due.
- *Limits scaled down*: 3 files per package (20 in the code), depth 1 (4), `HeaderReach` 2
  (30 lines), `MaxItems` 2 (20). In each case there are inputs below, at and above the limit.
- *Texts of a few lines*: `language_server` has a text with a local that shadows a global, one
  with wide characters before names, one that lacks a name of the others; the
  dependency file defines a name of its own and one of the workspace's. `texts` has for each family
  comments, strings and nested containers cut short at every place, and all short sequences of
  characters for the functions, whose loops look at one character and its neighbours.
- *Trees of four nodes*: a member, its container, what contains that, and a
  sibling; a rule looks at a node and its parent only. Each tree is laid out on rows of
  its own, on one row, and broken before each of its nodes, so that begins and ends tie
  in every way two neighbours can.
- Postings stop at 2 per word and path: a duplicate is a duplicate.

`CHECK_DEADLOCK FALSE` is set where the bounds let the systems stop. `texts` and
`references_panic` check for deadlock: a scan that has no branch to take would be one. Whether
an operation can be blocked is `OperationsFinish`, `IndexingEnds`, and `CallsReturn` above.

### Fairness

`FairSpec` of `WorkspaceIndex` and `PackageQueue` is weak fairness of each
thread's steps inside an operation: straight-line code on a scheduled thread. Lock
acquisition is a step that is enabled while the lock is free, and weak fairness
is enough because every holder releases in its next steps. Starting an operation (a
client's request, an installation) is never fair.

`SessionSpec` is weak fairness of the task, of the forwarder, of the pass, of each
worker, and of `Initialize`: tokio and rayon schedule what can run. It also assumes that
the client answers its request, which the code waits for without a timeout. Panics and
installations are not fair.

## 4. What is proved

`WorkspaceIndex_proofs` proves, for every set of paths, names, parse results
and threads and every bound (from the module's five `ASSUME`s alone):

| Theorem | States |
|---|---|
| `TypeCorrect` | `Spec => []TypeOK` |
| `IdsAreExact` | `Spec => []FileIdTable`: `file_ids` and `id_to_path` are inverse, no path has two ids |
| `RefsStayInBounds` | `Spec => []RefsInBounds`: the unchecked index at `workspace.rs:175` cannot fail |
| `IdsStayStable` | `Spec => FileIdsStable`: an id, once given, means the same path for ever |

The assumptions say that parse results are sequences of symbols and include the
empty one, that the "none" values differ from real ones, that there is a
path and a name, that the editor's and the scan's paths are paths, and that the
bounds are naturals.

The argument. `FileIdTable` is not inductive. `get_or_create_file_id` pushes the
path under the write lock and inserts its id as a separate step, so between the
two the table has a path without an id, and a second thread that took the lock
then would push the path again. `IInv` therefore adds:

- `WriterInTable`: the lock is held exactly by the thread at `insert_id`, whose
  path is the last of the table, has no id yet, and is the only such path;
- `RefsInBounds`, with the ids that pushing threads hold, because a ref
  filed takes its id from there;
- `NamesLeft`: the removal loop is entered only with names left, without which
  `Head` has no type;
- `TypeOK`.

`IInv` is shown to hold initially (`InitKeeps`) and to be kept by each action
(one lemma `<Action>Keeps` per action, collected in `StepKeeps`); `Invariance`
is `Spec => []IInv`, from which the first three theorems follow. For the last,
`TableStep` shows that only `LockTable` appends to `id_to_path` and only
`InsertId` sets a `file_ids` entry, one that had none.

The second half of the module has the same assumptions. Most of what it proves does not hold
of all threads (see the statements that do not hold), so a theorem has as its
hypothesis the threads, or the writes, for which it does:

| Theorem | States | For |
|---|---|---|
| `IndexBecomesExact` | `Spec => []IndexIsExact`: when no write is under way, `definitions` is the exact inverse of `files` | `OneWriter`: all writes come from one thread, while others query; or `Cold`: any number of threads, each path indexed once |
| `AnswersStayOnName` | `Spec => []AnswersAreOfTheAskedName`: a ref that a query resolves is of a symbol with the name it asked for, if one thread alone writes the ref's file and no write of it is under way | all threads |
| `FuzzyStaysComplete` | `Spec => []FuzzyComplete` | `OneThread` |
| `IndexImplementsPromise` | `Spec => PromiseKept`: the calls, one by one, implement `DefinitionIndex` | `OneThread` |

`OneThread` is a language server whose start-up scan is over, `OneWriter` such a server with
queries on other threads, `Cold` its start with an empty index. All three have instances among
the runs: `index_serial` has one thread, `index_cold` is cold.

The argument. Which refs are in `definitions` while updates are half done? `Allowed`
says which may be there (those `files` calls for and no thread has taken out yet, and
those a thread has filed ahead of `files`), `Owed` which must be. They differ while a
thread takes the old refs of its path out name by name. `EInv` says that `definitions`
lies between the two (`Sound`, `Complete`), that no entry is empty (`Keys`), that a
thread's id is its path's (`IdsOK`) and its list of old names complete (`RemovalOK`),
and that no two threads work on one path while one of them removes (`Apart`). `Apart` is
what the hypotheses are needed for. When no thread writes, the two are one, which is the
theorem.

For the answers, `AInv` follows a query: the refs it has taken and not yet resolved are
still in the entry of its name, whose guard it holds (`HeldOK`). What such refs may lead to
is in `CInv`: of a path that one thread alone may write, every filed ref fits the version
in `files`, and while that thread replaces the version the ref is where its position lets it
be (`Expected`): under a name it has still to take out, nowhere between removal and
filing, or at a symbol of the new version. It does not need `EInv`: other paths may be in
any disorder, and `DropKey` may lose their refs, but no thread files a ref under the id of
a path that is not its own. A ref is met between push and `files.insert` only while the write is
under way (`workspace.rs:176`), which is what the statement leaves out, as it has to. For the refinement,
`SInv` adds what the one thread's query has gathered (`QueryOK`), so that the step that
returns it maps to the abstract query, the step that inserts or drops the file to the
abstract change, and all others stutter; and which names a clean fuzzy index may lack
(`FuzzyOK`): those its thread is about to set the flag for.

`ScanSession_proofs` proves, for every set of paths, words and texts and every bound
(from the module's two `ASSUME`s: texts are sets of words, "no text" is neither a text
nor a path, bounds are naturals):

| Theorem | States |
|---|---|
| `ScansAreCurrent` | `Spec => []ScanInv`: types, and after a scan every path left alone is indexed as a query would read it, the overlay if it is open |
| `PostingsArePublishedExactly` | `Spec => PostingsExact`: a published posting list holds a path once, and of a path left alone exactly its words |
| `ManifestIsExact` | `Spec => ManifestExact`: a row goes only if its file is missing or was touched, and rows match the disk when a scan ends |

The argument. Two kinds of paths run through one scan, those the editor or the disk
touched since it began, of which next to nothing is known, and the quiet ones. `IInv`
says phase by phase how far the scan has come with a quiet path: collected if it is on
disk and not open (`CollectOK`), read as it is on disk (`ScanFilesOK`, `ResultOK`),
installed once it has left `todo` (`FilesOK`), dead only if it is missing (`DeadOK`),
counted once under each of its words (`PostingsOK`). Between scans `IdleOK` keeps what
the last one established, and `EditorOK` that `files` has the overlay, or is about to. A
process end empties all of this and starts from the rows (`RowsOK`).

`ManifestScan_proofs` proves, for every set of worktrees (also overlapping ones), paths,
contents, processes and builds and every bound (from the module's four `ASSUME`s):

| Theorem | States |
|---|---|
| `TypeCorrect` | `Spec => []TypeOK` |
| `ScansAreRegular` | `Spec => []ScanIsRegular`: a scan indexes what a file was since the scan began |
| `RowsDoNotLie` | `Spec => []RowsAreTruthful`: size and mtime are enough to trust a row |
| `UnitsComeFirst` | `Spec => []RowsHaveUnits`: layer A is written before layer B |

The assumptions say that every worktree's paths are paths and not none, that the
"none" values differ from real ones, that there is a worktree and a build, and that the
bounds are naturals.

The argument. A row that is put comes from a result, which comes from a
stat and a read or from another row, maybe of another worktree and maybe taken long
ago. So truthfulness of the manifests alone is not inductive. `IInv` therefore says the
same of everything a scan holds of a path, and more:

- `RowsOK`, `HoldsOK`: each row, borrowed row and result is `Believable`, that is truthful
  and with an mtime not after the clock. An untruthful one could only come about by the file
  getting again an mtime somebody holds; a file that was changed between its stat and its
  read gives a row that is merely old;
- `HoldsOK` also says that a result has its unit in layer A;
- `ProgressOK`: what a path is now is in `held`; once collected, a path is still to be
  stat, or being read, or an error, or its result (none, if the file was not there) is in `held`.

One lemma per action again. `OthersKeep` shows that a process keeps its part while another
one moves, `QuietStepKeeps`, `ManifestStepKeeps`, `KnowRowsKeeps` and `OnePathKeeps` what the
actions of a phase have in common.

`ContentStore_proofs` proves, for every set of hashes, languages, processes and any finite
number of threads of each, every bound (from the module's two `ASSUME`s):

| Theorem | States |
|---|---|
| `TornEntriesAreShared` | `Spec => []StoreInv`: an entry is torn only while, or because a process ended while, one of several threads of a process was writing it |
| `EntriesStayComplete` | with at most one thread per process, `Spec => []EntriesAreComplete`: "Writes are atomic" |
| `StoreRestsClean` | `Spec => []CleanAtRest` |
| `WritersDoNotFail` | `Spec => []RacesDoNotFail` |

The argument. Who may write to an inode is not in the file system but in the threads'
open files, so `IInv` ties the two together: a temporary file of a running process
is that of a thread between create and rename, and if it is torn some thread of the process is about
to write it (`TmpsOK`); an inode has one name at a time (`OneName`), so that truncating a
temporary file never touches an entry; and a thread whose temporary file is gone finds an entry
(`ThreadOK`), because whoever took the file made one, which is why nobody fails. A torn
inode becomes an entry only by a rename of one thread while another one writes, which makes two
of one process (`TwoShare`).

`ServerSession_proofs` begins with the queue it extends, for every finite set of packages, any
threads and plans (from the two `ASSUME`s of `PackageQueue`):

| Theorem | States |
|---|---|
| `QueueIsOrderly` | `Spec => []QueueInv`: the flag belongs to exactly one pass, no package is indexed twice |
| `NothingIsLost` | `Spec => []NothingLost`, if one thread only resolves and hands packages over (`OneQueuer`) |

The argument. `IndexedOnce` is not inductive: between indexing and marking a package it
is counted and not marked. `IInv` says that the count of a package is 1 exactly if it is
marked or at the head of the list of the pass that is about to mark it, that such a
package is not marked yet, and that there is one pass. For `NothingIsLost`, `LInv`
follows a resolution: what was found includes all that was queued before, since packages
are not uninstalled; what the filter drops is indexed; nobody hands over meanwhile. A
refresh never gets past its own read guard, so that it replaces nothing.

It then proves of the session, for any number of workers, files, packages and panics and
every `ReportStep` (from `ServerAssumption` and the assumptions of `PackageQueue`):

| Theorem | States |
|---|---|
| `SessionIsOrderly` | `SessionSpec => []SessionInv`: Begin, reports in order, End; packages are reported in order; no step of the scan is reported twice |
| `IndexingIsOverAtTheEnd` | `SessionSpec => []EndMeansIndexed`: after End, unless something panicked, all packages queued are indexed and, if the cache opened, each file was counted or was an error; if it did not, none was taken |

`ServerAssumption` says who the threads are and what they call (the LSP task resolves,
the background task runs the pass, `server.rs:249` and `server.rs:399`), that there are
finitely many workers and at least one, since rayon's pool is never empty, and that a
report is due every one or more files.

The argument. The client's notifications are the end of a chain: worker, `scan_rx`,
task, client; pass, `progress_rx`, forwarder, client. `SessionIInv` has a part per link.
`TaskOK` ties the task to what it has started and not yet joined; `CountsOK` says that
the counts in the workers' hands are distinct, because `fetch_add` gave each once;
`ThrottleOK` that those that were or will be sent are distinct and not above
`last_progress`, because only the winner of the exchange sends, and that every report
sent has moved `last_progress` on by a step, the last file's excepted; `FilesOK` that a
file taken is a file counted or an error, that none is taken of a cache that did not open,
and that no worker leaves while there are files; `ReportsOK` that what the
client has got and what is on its way are in order together; `PackagesOK` the same for
packages, of which it says how many the pass is through with. `QueueOK` and `NoneLost`
say where the packages that were resolved are. The installations of packages and the
resolver's list are as in the proofs of the queue, whose lemmas on lists are used.

`LanguageServer_proofs` proves, for any files, texts, parses, encodings and limits (from the
module's nine `ASSUME`s):

| Theorem | States |
|---|---|
| `TreesAreOfTheOverlays` | `Spec => []ServerInv`: types, and a cached tree is of the overlay |
| `NearestAnswersFirst` | `Spec => []NearerComesFirst`: a local hides all else, completion keeps no better name out |
| `HoverIsOfTheIndexedText` | `Spec => []HoverShowsTheIndexedText` |
| `RangesAreOfTheName` | `Spec => []RangesCoverTheName`: ranges, read in the encoding the client was told, cover the name |
| `GotoIsOfTheWord` | `Spec => []GotoIsPerWord`: on a line of ASCII, two cursors in one word get one answer |

The ranges rest on what `SourceText_proofs` proves of the operators of `SourceText`, on
inputs of any length:

| Theorem | States |
|---|---|
| `CursorsComeBack` | `CursorRoundTrips(line, encoding)` for every line and encoding: columns convert back to themselves |
| `ReferencesAreWholeWords` | `ReferencesAreTheWords(word, source)` for every source and every identifier: the search skips and adds none |

What the assumptions say, and why the code justifies it:

- `PathsAssumption`: a file is the workspace's or a dependency's. The scan passes
  dependencies' directories over (`workspace.rs:1394`); an editor that opens
  one of their files is left out. There are finitely many of both.
- `ParseAssumption`: the external parser finds a symbol on a line its text has.
- `LinesAssumption`: the lines are those of the source, by `str::lines`, whose lines are
  the pieces between newlines. It leaves the carriage return out, which `str::lines` drops and
  the search for references keeps.
- `NamesAssumption`: a text has finitely many symbols, and each has its name at its line
  and column. Every
  extractor takes the text, the row and the column from one node
  (`tree_sitter_parse/common.rs:415`).
- `NodesAssumption`: leaves do not overlap, and one that is classified as an identifier
  neither begins nor ends inside a word. This is the grammars' part, and of
  what the request reads of a tree the only thing asked.
- The other four are about "none" values, what panics return, disks and bounds.

TLC evaluates all of them on the instance of `language_server`.

The argument. An answer is about the state it was given in, and every step but the
request's takes it back. `AnswerInv` says of the answer that stands what the property
says of the handler: `Shadows`, `Shows`, `Best`, `Checked`. It follows from the definitions of the
handlers alone, for all positions: that stripped signatures are read again from a text whose line
is the symbol's, and that the steps of completion keep the best. In a sorted list the first
entry of a name is its best (`FirstOnesAre`), so that an offered name whose rank is worse than a
missing one's would stand behind the latter's first entry, which `take` had then let by
(`CompletionIsBest`); that the list has an end needs `DefinitionsFinite`.

The ranges rest on columns. The offsets of the characters of a line are a recursive function
of the line, so the proof begins with what such a sum is: that there is one
(`SumExists`), that it grows (`SumFacts`), and that the sums of a part are
differences of those of the whole (`SumShift`), by `Onwards`, an induction over a set of places that
needs no operator as a parameter. From there on a column is a place in a line:
`ToColumn`, `ToByte` and `ToIndex` are inverse at such places (`ColumnsAre`), and
`ToSomewhere` is about all other columns. `Told` (the encoding the server
uses is the one it told the client) is the only thing the ranges need of the state. For the range of
a symbol the name's place comes from the parser (`LocationCovers`), for one of a reference from the
search, whose lines and columns are counted in the whole source and read in a line
(`LineHolds`, `ReferencesCover`).

The search goes from match to match of the substring, so that a word could be missed
that begins inside a match. `SearchGoesOn` says what the recursive function behind the loop
returns at each place; `MatchesAre` that it returns matches, `MatchesComplete`, by
induction backwards over the source, that it returns each word that stands by itself:
one that began inside an earlier match would have an identifier character before it.
`NextToMatch` is about the bytes next to a match, where the search may panic.

For `GotoIsPerWord`, `SameWord` shows that the loops to both sides of two
neighbouring cursors end at the same places, and `SameContext` that the leaf found is the same or
that neither is classified.

`Parsing_proofs` proves, for every family, every text and all inputs of the functions
(from the modules' six `ASSUME`s):

| Theorem | States |
|---|---|
| `EveryTurnAdvances` | `LexerSpec => TurnsAdvance`: every turn of the loop goes on in the text, but the one that sees to the indentation, and that happens once per line |
| `SymbolsStayInPlace` | `LexerSpec => []SymbolsAreInPlace`: types; every occurrence has the line and column of its word, unless a string ran into the end of its line or a newline was escaped; the n-th symbol is made from the n-th definition, and has a context |
| `MembersStayInTheirType` | `LexerSpec => []MembersHaveTheirContainer`: in a text without comments and strings a definition's container is the innermost type around it, found by matching braces |
| `CursorStaysUnderstood` | `ParsingSpec => []CursorIsUnderstood`: columns and references of every line and text asked about |
| `NamesKeepOneSymbol` | `ParsingSpec => []OneSymbolInItsType`: one symbol for a name in every tree of the nine grammars, and a member keeps its type |
| `LocalsKeepTheirScope` | `ParsingSpec => []LocalsStayInScope`: a local is found on the rows of its scope, before the one it shadows, and behind the scope's last row no more; in Rust, C and C++ what a function declares is recognised as local |

`ParsingScans` says that `ParsingSpec` implements `LexerSpec`, so that the first three hold of
it too. The assumptions: a text is a sequence of units, one of Rust has bytes behind a quote, the
families are the seven of `LangFamily`, "none" is no string and no scope, the empty name is a
string, a word asked about is an identifier, and a tree is `IsTree`, a sequence in which every
parent comes before its children and rows are nested and in order. TLC evaluates them on `texts`.

The argument, for the scan. `skip_string` and `skip_triple_quote` are recursive functions in a
LET, so that it has to be shown that such a function exists at all, and then
where it stops. Both go backwards over the text (`Backwards`: what holds of a
place if it holds of all places behind it, holds of all), a form of induction
that needs no operator as a parameter. `Skipped` says what a helper may return,
and `TurnSkips` that each turn goes on to a place further on and counts newlines
from `i` on, which is `EveryTurnAdvances`. `PlaceOK` says that line and column
are those of `i` while nothing has drifted (`LinesCount` and `LineBegins`: they can be
computed from where the last turn stood). `PairsOK` is what
`from_tokens_with_contexts` relies on without saying so: there are as many contexts
as pairs of a keyword and a name, and as many definitions among the occurrences; a
pair and a definition of the same rank have the same name and place, and the context of that rank
has the container of that place. A keyword without a name adds to none of the three
(`PairsMade`, `DefinitionsMade`, `RankAppended`).

For the containers, the scanner keeps a stack and a depth where the property matches braces over
the whole text. `TypesOK` ties the two together, for each way of scoping. Where braces
count, `Follows` says that there is a sequence of the braces that are open at `i`, outermost first
(`Nests`), that the depth is its length, that the stack has an entry for each of them
that a type owns (`Contained`: its name is the last one a scope opener gave before that brace, its depth
the brace's), and that the pending opener is the one the next brace would get. A closing
brace takes the last of the sequence away, which is why inner blocks that close do
not matter (`NestsClosed`, `ContainedClosed`); a superfluous one finds it empty. That the type found is the
innermost one (`InnermostIsType`) is then a matter of the last owned brace. A keyword
that reads a name skips units on the way, none of which may be a brace or an opener
(`DefinitionPasses`, `QuietUnits`): this is where `Plain` is needed, as a quote or a comment
could hide a brace, and a keyword could take an opener for its name. In Python
`MarginFollows` says that the containers on the stack belong to levels of indentation that are
still open, and that at the left margin, once the line's indentation was seen to,
nothing is left on it; Go has no scope openers. Since a step changes variables and the
facts about braces do not depend on them, they are stated of a text and a place (`UnitOf`,
`OpenIn`, `TypeIn` and others); `TextIs` says that they are `Lexer`'s.

For the trees, ancestors are a recursive function of the node; `AncestorsAre` gives the way it unfolds, and
`AncestorsChain` that of two ancestors of a node one is the other's. `RowsAre` has
what is known of rows: a node's name is on one of its rows, these are among those of what it is
in, and what comes behind it begins on its last row or below. `OutcomeIs` and `OneIsKept` are about the order of matches:
whichever comes first, the fold that removes duplicates keeps one with a container if there is
one (`MembersKept`). `WalkedAt` says which nodes each walker makes symbols of, and `OnePerName` that
no two walkers, nor a walker and a query, take the same name. For the scopes, what a symbol ends
with is the end of the nearest scope around it (`QueryScoped`, `WalkedScoped`), and a name
behind a local is either in that scope's node, and so on one of its rows, or comes behind the node,
and so is on its last row or below (`SeenInScope`).

### Model-checked only

- `OperationsFinish`, `IndexingEnds` and `CallsReturn` are liveness under fairness,
  which the proof system does not handle.
- `ShownTextIsWhole`: signatures are collected by a function of five arguments that goes
  unit by unit over trimmed lines, and the call at the cursor by a loop that goes back
  where the reference goes forth; both inductions are over the data, as are those of
  `SearchesFindTheNear`, whose rows, folds and edits are compared with each other.
- `OnlyCodeIsIndexed` says of the texts of the instance that the word only their comments
  and strings hold is no occurrence. It is a statement about those texts; for every text
  it would need a second definition of what a comment is, for each family.
- `PackagesAreWhole` and `DeclaredAreResolved` are about the walk of a directory tree, a
  `RECURSIVE` operator.

## 5. Not modelled

- *Repository identity* (`cache/identity.rs`): runs git and hashes what it says; no
  state.
- *Tools, examples, scripts, the VS Code extension*: clients. The extension's restart
  (stop, then start, `extension.ts:168`) rests on what vscode-languageclient does in
  between, which is not in the repository.
- *tree-sitter*: external; `Extraction` starts from a tree, `LanguageServer` from the
  named leaves of one.
- In *layer B*: sizes, mtimes that do not grow with each change (edits within one tick
  of the clock), the GLOB pattern of a prefix with wildcard characters,
  `bump_generation`, `delete_row` and `get_row`, which no scan calls.
- In *layer A*: disk errors apart from the rename that loses a race; `ManifestScan` lets
  reading a file or storing its unit fail.
- In the *resolvers*: the requirements of Python, which only a log line uses;
  environment variables; the names skipped in site-packages.
- In the *extraction*: visibility modifiers of a single declaration, the second
  declarator of a C declaration.
- Which directories the scan's walk skips, the statistics counters, the wording and
  layout of hovers.

## 6. Plan

Done, in this order: `WorkspaceIndex` with `DefinitionIndex` and its proofs,
`ScanSession`, `ContentStore`, `PackageQueue`, `ManifestScan` with its proofs; then
`ServerSession`, `LanguageServer`, `SourceText`, `Lexer`, `SymbolText`, `Extraction`,
`FuzzyIndex`, `PackageSources`, and the proofs of `ContentStore` and `PackageQueue`;
then the proofs of `ScanSession`, `ServerSession`, `LanguageServer` and the tokenizer, those
of the index being exact, and those of columns, words and the search for references; last
`Parsing`, which brings the functions of the parsing layer into one specification, with the proofs
of containers and of what is extracted from trees.

What could come next, most important first:

1. Proofs: exactness of the index for several writers that never work on one path at a
   time (`Apart` as an assumption, with the removed key of `workspace.rs:781` as the obstacle);
   the backward loop of signature help against `extract_parameters`.
2. Larger instances where time allows: two processes in `ScanSession`.
3. Requirements and site-packages of Python, once the code uses them for more than a log line.

--------------------------- MODULE WorkspaceIndex ---------------------------
(***************************************************************************)
(* The in-memory symbol index of quicklsp's Workspace (src/workspace.rs),  *)
(* shared without a global lock by the LSP task (didOpen, didChange and    *)
(* the queries) and by the thread that runs scan_directory.                *)
(*                                                                         *)
(* Every DashMap call is atomic and every pair of calls may be separated   *)
(* by a step of another thread, so an operation is a sequence of actions   *)
(* whose position is pc[t]: one action per call on a shared structure.     *)
(*                                                                         *)
(*   files, file_ids        DashMap, one value per path                    *)
(*   definitions, def_keys  DashMap name -> Vec<SymbolRef>: the refs filed *)
(*                          under a name, and the names that have an entry *)
(*                          (an entry may be empty between two calls)      *)
(*   id_to_path             RwLock<Vec<PathBuf>>                           *)
(*   fuzzy, fuzzy_dirty     the names the deletion index holds, its flag   *)
(*                                                                         *)
(* The order inside a Vec<SymbolRef> is abstracted: a Vec is a set of refs *)
(* in which a ref pushed again is told apart by its copy number.           *)
(***************************************************************************)
EXTENDS Integers, Sequences, FiniteSets

CONSTANTS
    Paths,        \* absolute file paths
    EditedPaths,  \* those the editor opens
    ScannedPaths, \* those a scan finds on disk
    Names,        \* symbol names
    Contents,     \* parse results: sequences of symbols
    Editors,      \* threads that run index_file (the LSP task)
    Removers,     \* threads that run remove_file (public, not called by the server)
    Scanners,     \* threads that run scan_directory
    Askers,       \* threads that run queries (the LSP task)
    NoFile,       \* files has no entry
    NoId,         \* file_ids has no entry
    NoThread,     \* id_to_path is not write-locked
    WritesPerPath,\* bound: index operations started per path
    MaxAsks       \* bound: queries started

Threads == Editors \cup Removers \cup Scanners \cup Askers

\* A symbol of a parse result; local: depth > 0 and a variable, parameter or
\* field, which insert_file_entry keeps out of the global index.
Symbol == [name: Names, local: BOOLEAN]

\* A file that defines nothing parses to the empty sequence.
ASSUME ContentsAssumption ==
    /\ Contents \subseteq Seq(Symbol)
    /\ <<>> \in Contents
ASSUME SentinelAssumption ==
    /\ NoFile \notin Contents
    /\ NoId \notin Nat
    /\ NoThread \notin Threads
ASSUME NonEmptyAssumption == Paths # {} /\ Names # {}
ASSUME PathAssumption == EditedPaths \subseteq Paths /\ ScannedPaths \subseteq Paths
ASSUME BoundAssumption == WritesPerPath \in Nat /\ MaxAsks \in Nat

VARIABLES
    files, definitions, def_keys, file_ids, id_to_path, table_writer,
    fuzzy, fuzzy_dirty,
    scan,         \* per thread: "no" scan, scan "installing" units, or "dropping" dead rows
    pc, op, ask,  \* per thread: position, locals of a write, locals of a query
    answer,       \* what the last query returned
    writes, asks  \* operations started so far, for the bounds

index_vars == <<files, definitions, def_keys>>
table_vars == <<file_ids, id_to_path, table_writer>>
fuzzy_vars == <<fuzzy, fuzzy_dirty>>
bounds == <<writes, asks>>
vars == <<index_vars, table_vars, fuzzy_vars, scan, pc, op, ask, answer, bounds>>

-----------------------------------------------------------------------------
SymbolRef == [file_id: Nat, symbol_idx: Nat, copy: Nat]

\* A SymbolLocation: the file and the symbol found at symbol_idx in it.
Location == [file: Paths, symbol_idx: Nat, copy: Nat, name: Names]

\* The locals of insert_file_entry / install_file_unit / remove_file, with the
\* names and file_id of the remove_definitions_for_file they call.
Op == [kind: {"none", "index", "install", "remove"}, path: Paths,
       symbols: Contents,
       names: Seq(Names), file_id: Nat \cup {NoId}, next: Nat \ {0}]
NoOp == [kind |-> "none", path |-> CHOOSE p \in Paths : TRUE, symbols |-> <<>>,
         names |-> <<>>, file_id |-> NoId, next |-> 1]

\* The locals of find_definitions / search_symbols / completions.
Ask == [wanted: SUBSET Names, fallback: SUBSET Names, names: SUBSET Names,
        todo: SUBSET Names, name: Names, refs: SUBSET SymbolRef,
        found: SUBSET Location]
NoAsk == [wanted |-> {}, fallback |-> {}, names |-> {}, todo |-> {},
          name |-> CHOOSE n \in Names : TRUE, refs |-> {}, found |-> {}]

WriterPC == {"old_names", "old_id", "retain", "drop_key", "lookup_id",
             "lock_table", "insert_id", "push", "dirty", "insert_file",
             "remove_file"}
AskerPC == {"fuzzy_check", "fuzzy_lock", "fuzzy_build", "fuzzy_read",
            "next_name", "read_table", "resolve"}

TypeOK ==
    /\ files \in [Paths -> Contents \cup {NoFile}]
    /\ definitions \in [Names -> SUBSET SymbolRef]
    /\ \A n \in Names : IsFiniteSet(definitions[n])
    /\ def_keys \subseteq Names
    /\ file_ids \in [Paths -> Nat \cup {NoId}]
    /\ id_to_path \in Seq(Paths)
    /\ table_writer \in Threads \cup {NoThread}
    /\ fuzzy \subseteq Names
    /\ fuzzy_dirty \in BOOLEAN
    /\ scan \in [Threads -> {"no", "installing", "dropping"}]
    /\ pc \in [Threads -> {"idle"} \cup WriterPC \cup AskerPC]
    /\ op \in [Threads -> Op]
    /\ ask \in [Threads -> Ask]
    /\ answer \in [wanted: SUBSET Names, found: SUBSET Location]
    /\ writes \in [Paths -> Nat]
    /\ asks \in Nat

Init ==
    /\ files = [p \in Paths |-> NoFile]
    /\ definitions = [n \in Names |-> {}]
    /\ def_keys = {}
    /\ file_ids = [p \in Paths |-> NoId]
    /\ id_to_path = <<>>
    /\ table_writer = NoThread
    /\ fuzzy = {}
    /\ fuzzy_dirty = FALSE
    /\ scan = [t \in Threads |-> "no"]
    /\ pc = [t \in Threads |-> "idle"]
    /\ op = [t \in Threads |-> NoOp]
    /\ ask = [t \in Threads |-> NoAsk]
    /\ answer = [wanted |-> {}, found |-> {}]
    /\ writes = [p \in Paths |-> 0]
    /\ asks = 0

Goto(t, label) == pc' = [pc EXCEPT ![t] = label]

-----------------------------------------------------------------------------
(***************************************************************************)
(* Locks held across steps.  A query holds the read guard of the name's    *)
(* definitions entry from definitions.get to the end of resolve_refs, and  *)
(* resolve_refs holds id_to_path's read lock.  Names that share a shard    *)
(* are modelled as if they did not: a guard blocks one name.               *)
(***************************************************************************)
\* Mutant: find_definitions clones the refs and lets the entry go.
Guarded_Cloned(n) == n \notin Names

Guarded(n) == \E t \in Threads : pc[t] \in {"read_table", "resolve"} /\ ask[t].name = n
TableRead == \E t \in Threads : pc[t] = "resolve"
FuzzyLocked == \E t \in Threads : pc[t] = "fuzzy_build"

-----------------------------------------------------------------------------
(***************************************************************************)
(* Starting an operation.                                                  *)
(***************************************************************************)
Start(t, kind, p, c) ==
    /\ pc[t] = "idle"
    /\ writes[p] < WritesPerPath
    /\ writes' = [writes EXCEPT ![p] = @ + 1]
    /\ op' = [op EXCEPT ![t] = [kind |-> kind, path |-> p, symbols |-> c,
                                names |-> <<>>, file_id |-> NoId, next |-> 1]]
    /\ Goto(t, "old_names")
    /\ UNCHANGED <<index_vars, table_vars, fuzzy_vars, ask, answer, asks>>

\* index_file: the editor's text, already parsed (parse_file is pure).
IndexFile(t, p, c) ==
    /\ t \in Editors /\ p \in EditedPaths /\ scan[t] = "no"
    /\ Start(t, "index", p, c)
    /\ UNCHANGED scan

RemoveFile(t, p) ==
    /\ t \in Removers /\ p \in EditedPaths /\ scan[t] = "no"
    /\ Start(t, "remove", p, <<>>)
    /\ UNCHANGED scan

\* scan_directory calls install_file_unit for each file it read ...
InstallFileUnit(t, p, c) ==
    /\ t \in Scanners /\ p \in ScannedPaths /\ scan[t] # "dropping"
    /\ Start(t, "install", p, c)
    /\ scan' = [scan EXCEPT ![t] = "installing"]

\* ... then removes the files of dead manifest rows, as remove_file does ...
DropDeadRow(t, p) ==
    /\ t \in Scanners /\ p \in ScannedPaths
    /\ Start(t, "remove", p, <<>>)
    /\ scan' = [scan EXCEPT ![t] = "dropping"]

\* ... and only at its end marks the fuzzy index dirty.
FinishScan(t) ==
    /\ pc[t] = "idle" /\ scan[t] # "no"
    /\ scan' = [scan EXCEPT ![t] = "no"]
    /\ fuzzy_dirty' = TRUE
    /\ UNCHANGED <<index_vars, table_vars, fuzzy, pc, op, ask, answer, bounds>>

-----------------------------------------------------------------------------
(***************************************************************************)
(* remove_definitions_for_file                                             *)
(***************************************************************************)
AfterRemoval(t) == IF op[t].kind = "remove" THEN "remove_file" ELSE "lookup_id"

\* Where remove_definitions_for_file continues with these names left.
NextName(t, names) == IF names = <<>> THEN AfterRemoval(t) ELSE "retain"

ReadOldNames(t) ==
    /\ pc[t] = "old_names"
    /\ LET old == files[op[t].path]
       IN  \/ /\ old = NoFile
              /\ Goto(t, AfterRemoval(t))
              /\ UNCHANGED op
           \/ /\ old # NoFile
              /\ op' = [op EXCEPT ![t].names = [i \in 1..Len(old) |-> old[i].name]]
              /\ Goto(t, "old_id")
    /\ UNCHANGED <<index_vars, table_vars, fuzzy_vars, scan, ask, answer, bounds>>

ReadOldId(t) ==
    /\ pc[t] = "old_id"
    /\ LET id == file_ids[op[t].path]
       IN  \/ /\ id = NoId
              /\ Goto(t, AfterRemoval(t))
              /\ UNCHANGED op
           \/ /\ id # NoId
              /\ op' = [op EXCEPT ![t].file_id = id]
              /\ Goto(t, NextName(t, op[t].names))
    /\ UNCHANGED <<index_vars, table_vars, fuzzy_vars, scan, ask, answer, bounds>>

\* Mutant: the entry is cleared, not filtered by file id.
Retain_Unfiltered(t) ==
    /\ pc[t] = "retain"
    /\ LET name == Head(op[t].names)
       IN  /\ ~Guarded(name)
           /\ definitions' = [definitions EXCEPT ![name] = {}]
           /\ def_keys' = def_keys \ {name}
           /\ op' = [op EXCEPT ![t].names = Tail(@)]
           /\ Goto(t, NextName(t, Tail(op[t].names)))
    /\ UNCHANGED <<files, table_vars, fuzzy_vars, scan, ask, answer, bounds>>

\* definitions.get_mut(&name) and retain.
Retain(t) ==
    /\ pc[t] = "retain"
    /\ LET name == Head(op[t].names)
           kept == {r \in definitions[name] : r.file_id # op[t].file_id}
       IN  /\ ~Guarded(name)
           /\ definitions' = [definitions EXCEPT ![name] = kept]
           /\ IF name \in def_keys /\ kept = {}
              THEN Goto(t, "drop_key") /\ UNCHANGED op
              ELSE /\ op' = [op EXCEPT ![t].names = Tail(@)]
                   /\ Goto(t, NextName(t, Tail(op[t].names)))
    /\ UNCHANGED <<files, def_keys, table_vars, fuzzy_vars, scan, ask, answer, bounds>>

\* drop(entry); definitions.remove(&name): whatever the entry holds by now.
DropKey(t) ==
    /\ pc[t] = "drop_key"
    /\ LET name == Head(op[t].names)
       IN  /\ ~Guarded(name)
           /\ definitions' = [definitions EXCEPT ![name] = {}]
           /\ def_keys' = def_keys \ {name}
           /\ op' = [op EXCEPT ![t].names = Tail(@)]
           /\ Goto(t, NextName(t, Tail(op[t].names)))
    /\ UNCHANGED <<files, table_vars, fuzzy_vars, scan, ask, answer, bounds>>

-----------------------------------------------------------------------------
(***************************************************************************)
(* get_or_create_file_id                                                   *)
(***************************************************************************)
\* Mutant: the lookup's result is used without asking whether there is one.
LookupId_Unchecked(t) ==
    /\ pc[t] = "lookup_id"
    /\ op' = [op EXCEPT ![t].file_id = file_ids[op[t].path]]
    /\ Goto(t, "push")
    /\ UNCHANGED <<index_vars, table_vars, fuzzy_vars, scan, ask, answer, bounds>>

LookupId(t) ==
    /\ pc[t] = "lookup_id"
    /\ LET id == file_ids[op[t].path]
       IN  \/ /\ id = NoId
              /\ Goto(t, "lock_table")
              /\ UNCHANGED op
           \/ /\ id # NoId
              /\ op' = [op EXCEPT ![t].file_id = id]
              /\ Goto(t, "push")
    /\ UNCHANGED <<index_vars, table_vars, fuzzy_vars, scan, ask, answer, bounds>>

\* Mutant: no second look at file_ids under the lock.
LockTable_NoDoubleCheck(t) ==
    /\ pc[t] = "lock_table"
    /\ table_writer = NoThread
    /\ ~TableRead
    /\ op' = [op EXCEPT ![t].file_id = Len(id_to_path)]
    /\ id_to_path' = Append(id_to_path, op[t].path)
    /\ table_writer' = t
    /\ Goto(t, "insert_id")
    /\ UNCHANGED <<index_vars, file_ids, fuzzy_vars, scan, ask, answer, bounds>>

\* Mutant: the id is the table's length after the push.
LockTable_LenAfterPush(t) ==
    /\ pc[t] = "lock_table"
    /\ table_writer = NoThread
    /\ ~TableRead
    /\ LET id == file_ids[op[t].path]
       IN  \/ /\ id # NoId
              /\ op' = [op EXCEPT ![t].file_id = id]
              /\ Goto(t, "push")
              /\ UNCHANGED <<id_to_path, table_writer>>
           \/ /\ id = NoId
              /\ op' = [op EXCEPT ![t].file_id = Len(id_to_path) + 1]
              /\ id_to_path' = Append(id_to_path, op[t].path)
              /\ table_writer' = t
              /\ Goto(t, "insert_id")
    /\ UNCHANGED <<index_vars, file_ids, fuzzy_vars, scan, ask, answer, bounds>>

\* Take the write lock, look again, and append the path if it is still new.
LockTable(t) ==
    /\ pc[t] = "lock_table"
    /\ table_writer = NoThread
    /\ ~TableRead
    /\ LET id == file_ids[op[t].path]
       IN  \/ /\ id # NoId
              /\ op' = [op EXCEPT ![t].file_id = id]
              /\ Goto(t, "push")
              /\ UNCHANGED <<id_to_path, table_writer>>
           \/ /\ id = NoId
              /\ op' = [op EXCEPT ![t].file_id = Len(id_to_path)]
              /\ id_to_path' = Append(id_to_path, op[t].path)
              /\ table_writer' = t
              /\ Goto(t, "insert_id")
    /\ UNCHANGED <<index_vars, file_ids, fuzzy_vars, scan, ask, answer, bounds>>

\* Mutant: the write lock is not released.
InsertId_KeepsLock(t) ==
    /\ pc[t] = "insert_id"
    /\ file_ids' = [file_ids EXCEPT ![op[t].path] = op[t].file_id]
    /\ Goto(t, "push")
    /\ UNCHANGED <<index_vars, id_to_path, table_writer, fuzzy_vars, scan, op, ask, answer, bounds>>

\* file_ids.insert, still under the write lock, which is then released.
InsertId(t) ==
    /\ pc[t] = "insert_id"
    /\ file_ids' = [file_ids EXCEPT ![op[t].path] = op[t].file_id]
    /\ table_writer' = NoThread
    /\ Goto(t, "push")
    /\ UNCHANGED <<index_vars, id_to_path, fuzzy_vars, scan, op, ask, answer, bounds>>

-----------------------------------------------------------------------------
(***************************************************************************)
(* The rest of insert_file_entry / install_file_unit, and of remove_file.  *)
(***************************************************************************)
\* One turn of the loop over the symbols: file `ref` under the symbol's name,
\* unless it is `skipped`.
PushTurn(t, skipped, idx) ==
    /\ pc[t] = "push"
    /\ op[t].next <= Len(op[t].symbols)
    /\ LET sym == op[t].symbols[op[t].next]
           same == {r \in definitions[sym.name] :
                      r.file_id = op[t].file_id /\ r.symbol_idx = idx}
           ref == [file_id |-> op[t].file_id, symbol_idx |-> idx,
                   copy |-> Cardinality(same)]
       IN  \/ /\ skipped
              /\ UNCHANGED <<definitions, def_keys>>
           \/ /\ ~skipped
              /\ ~Guarded(sym.name)
              /\ definitions' = [definitions EXCEPT ![sym.name] = @ \cup {ref}]
              /\ def_keys' = def_keys \cup {sym.name}
    /\ op' = [op EXCEPT ![t].next = @ + 1]
    /\ UNCHANGED <<files, table_vars, fuzzy_vars, scan, pc, ask, answer, bounds>>

NextIsLocal(t) == op[t].symbols[op[t].next].local

\* Mutant: locals are filed too.
PushRef_Locals(t) == PushTurn(t, FALSE, op[t].next)

\* Locals are kept out of the global index.
PushRef(t) == PushTurn(t, NextIsLocal(t), op[t].next)

EndPush(t) ==
    /\ pc[t] = "push"
    /\ op[t].next > Len(op[t].symbols)
    /\ Goto(t, IF op[t].kind = "index" THEN "dirty" ELSE "insert_file")
    /\ UNCHANGED <<index_vars, table_vars, fuzzy_vars, scan, op, ask, answer, bounds>>

\* Mutant: the flag is forgotten.
MarkDirty_Forgotten(t) ==
    /\ pc[t] = "dirty"
    /\ Goto(t, "insert_file")
    /\ UNCHANGED <<index_vars, table_vars, fuzzy_vars, scan, op, ask, answer, bounds>>

\* update_fuzzy is true for the editor's files only.
MarkDirty(t) ==
    /\ pc[t] = "dirty"
    /\ fuzzy_dirty' = TRUE
    /\ Goto(t, "insert_file")
    /\ UNCHANGED <<index_vars, table_vars, fuzzy, scan, op, ask, answer, bounds>>

InsertFile(t) ==
    /\ pc[t] = "insert_file"
    /\ files' = [files EXCEPT ![op[t].path] = op[t].symbols]
    /\ op' = [op EXCEPT ![t] = NoOp]
    /\ Goto(t, "idle")
    /\ UNCHANGED <<definitions, def_keys, table_vars, fuzzy_vars, scan, ask, answer, bounds>>

DropFile(t) ==
    /\ pc[t] = "remove_file"
    /\ files' = [files EXCEPT ![op[t].path] = NoFile]
    /\ op' = [op EXCEPT ![t] = NoOp]
    /\ Goto(t, "idle")
    /\ UNCHANGED <<definitions, def_keys, table_vars, fuzzy_vars, scan, ask, answer, bounds>>

-----------------------------------------------------------------------------
(***************************************************************************)
(* Queries.  wanted is the set of names the query string stands for: one   *)
(* name (find_definitions), those within edit distance (search_symbols) or *)
(* with the prefix (completions, which falls back to search_symbols when   *)
(* nothing is found).                                                      *)
(***************************************************************************)
StartAsk(t, wanted, fallback, label) ==
    /\ t \in Askers
    /\ pc[t] = "idle" /\ scan[t] = "no"
    /\ asks < MaxAsks
    /\ asks' = asks + 1
    /\ ask' = [ask EXCEPT ![t] = [wanted |-> wanted, fallback |-> fallback,
                                  names |-> wanted, todo |-> {}, name |-> NoAsk.name,
                                  refs |-> {}, found |-> {}]]
    /\ Goto(t, label)
    /\ UNCHANGED <<index_vars, table_vars, fuzzy_vars, scan, op, answer, writes>>

FindDefinitions(t, n) == StartAsk(t, {n}, {}, "next_name")
SearchSymbols(t, close) == StartAsk(t, close, {}, "fuzzy_check")
Completions(t, prefixed, close) == StartAsk(t, prefixed, close, "next_name")

\* ensure_fuzzy_built: the first load of the flag.
FuzzyCheck(t) ==
    /\ pc[t] = "fuzzy_check"
    /\ Goto(t, IF fuzzy_dirty THEN "fuzzy_lock" ELSE "fuzzy_read")
    /\ UNCHANGED <<index_vars, table_vars, fuzzy_vars, scan, op, ask, answer, bounds>>

\* The write lock, the second load, and clear.
FuzzyLock(t) ==
    /\ pc[t] = "fuzzy_lock"
    /\ ~FuzzyLocked
    /\ \/ /\ ~fuzzy_dirty
          /\ Goto(t, "fuzzy_read")
          /\ UNCHANGED <<fuzzy, ask>>
       \/ /\ fuzzy_dirty
          /\ fuzzy' = {}
          /\ ask' = [ask EXCEPT ![t].todo = Names]
          /\ Goto(t, "fuzzy_build")
    /\ UNCHANGED <<index_vars, table_vars, fuzzy_dirty, scan, op, answer, bounds>>

\* definitions.iter() reaches the place of name n, in the map's own order.
FuzzyIter(t) ==
    /\ pc[t] = "fuzzy_build"
    /\ \E n \in ask[t].todo :
         /\ fuzzy' = fuzzy \cup ({n} \cap def_keys)
         /\ ask' = [ask EXCEPT ![t].todo = @ \ {n}]
    /\ UNCHANGED <<index_vars, table_vars, fuzzy_dirty, scan, pc, op, answer, bounds>>

FuzzyClean(t) ==
    /\ pc[t] = "fuzzy_build"
    /\ ask[t].todo = {}
    /\ fuzzy_dirty' = FALSE
    /\ Goto(t, "fuzzy_read")
    /\ UNCHANGED <<index_vars, table_vars, fuzzy, scan, op, ask, answer, bounds>>

\* fuzzy.resolve: of the names within edit distance, those the index holds.
FuzzyRead(t) ==
    /\ pc[t] = "fuzzy_read"
    /\ ~FuzzyLocked
    /\ ask' = [ask EXCEPT ![t].names = ask[t].wanted \cap fuzzy]
    /\ Goto(t, "next_name")
    /\ UNCHANGED <<index_vars, table_vars, fuzzy_vars, scan, op, answer, bounds>>

\* definitions.get(&name), keeping the guard if there is an entry.
GetEntry(t) ==
    /\ pc[t] = "next_name"
    /\ \E n \in ask[t].names :
         \/ /\ n \in def_keys
            /\ ask' = [ask EXCEPT ![t].names = @ \ {n}, ![t].name = n,
                                  ![t].refs = definitions[n]]
            /\ Goto(t, "read_table")
         \/ /\ n \notin def_keys
            /\ ask' = [ask EXCEPT ![t].names = @ \ {n}]
            /\ UNCHANGED pc
    /\ UNCHANGED <<index_vars, table_vars, fuzzy_vars, scan, op, answer, bounds>>

\* resolve_refs takes id_to_path's read lock.
ReadTable(t) ==
    /\ pc[t] = "read_table"
    /\ table_writer = NoThread
    /\ Goto(t, "resolve")
    /\ UNCHANGED <<index_vars, table_vars, fuzzy_vars, scan, op, ask, answer, bounds>>

\* One turn of the loop of resolve_refs: a file or an index that is not there
\* is skipped.
ResolveRef(t) ==
    /\ pc[t] = "resolve"
    /\ \E r \in ask[t].refs :
         LET path == id_to_path[r.file_id + 1]
             entry == files[path]
         IN  ask' = [ask EXCEPT
                       ![t].refs = @ \ {r},
                       ![t].found =
                          IF entry # NoFile /\ r.symbol_idx \in 1..Len(entry)
                          THEN @ \cup {[file |-> path, symbol_idx |-> r.symbol_idx,
                                        copy |-> r.copy,
                                        name |-> entry[r.symbol_idx].name]}
                          ELSE @]
    /\ UNCHANGED <<index_vars, table_vars, fuzzy_vars, scan, pc, op, answer, bounds>>

EndResolve(t) ==
    /\ pc[t] = "resolve"
    /\ ask[t].refs = {}
    /\ Goto(t, "next_name")
    /\ UNCHANGED <<index_vars, table_vars, fuzzy_vars, scan, op, ask, answer, bounds>>

\* Nothing found by prefix: completions calls search_symbols.
FallBack(t) ==
    /\ pc[t] = "next_name"
    /\ ask[t].names = {} /\ ask[t].found = {} /\ ask[t].fallback # {}
    /\ ask' = [ask EXCEPT ![t].wanted = ask[t].fallback, ![t].fallback = {}]
    /\ Goto(t, "fuzzy_check")
    /\ UNCHANGED <<index_vars, table_vars, fuzzy_vars, scan, op, answer, bounds>>

Return(t) ==
    /\ pc[t] = "next_name"
    /\ ask[t].names = {}
    /\ ask[t].found # {} \/ ask[t].fallback = {}
    /\ answer' = [wanted |-> ask[t].wanted, found |-> ask[t].found]
    /\ ask' = [ask EXCEPT ![t] = NoAsk]
    /\ Goto(t, "idle")
    /\ UNCHANGED <<index_vars, table_vars, fuzzy_vars, scan, op, bounds>>

-----------------------------------------------------------------------------
Request(t) ==
    \/ \E p \in Paths, c \in Contents : IndexFile(t, p, c) \/ InstallFileUnit(t, p, c)
    \/ \E p \in Paths : RemoveFile(t, p) \/ DropDeadRow(t, p)
    \/ \E n \in Names : FindDefinitions(t, n)
    \/ \E close \in SUBSET Names \ {{}} : SearchSymbols(t, close)
    \/ \E close \in SUBSET Names : \E prefixed \in SUBSET close \ {{}} :
          Completions(t, prefixed, close)

WriteStep(t) ==
    \/ ReadOldNames(t) \/ ReadOldId(t) \/ Retain(t) \/ DropKey(t)
    \/ LookupId(t) \/ LockTable(t) \/ InsertId(t)
    \/ PushRef(t) \/ EndPush(t) \/ MarkDirty(t) \/ InsertFile(t)
    \/ DropFile(t) \/ FinishScan(t)

AskStep(t) ==
    \/ FuzzyCheck(t) \/ FuzzyLock(t) \/ FuzzyIter(t) \/ FuzzyClean(t) \/ FuzzyRead(t)
    \/ GetEntry(t) \/ ReadTable(t) \/ ResolveRef(t) \/ EndResolve(t)
    \/ FallBack(t) \/ Return(t)

Step(t) == WriteStep(t) \/ AskStep(t)

Next == \E t \in Threads : Request(t) \/ Step(t)

Spec == Init /\ [][Next]_vars

\* A started operation keeps running: it is straight-line code on a scheduled
\* thread.  Requests are the client's and are not fair.
FairSpec == Spec /\ \A t \in Threads : WF_vars(Step(t))
-----------------------------------------------------------------------------
(***************************************************************************)
(* Properties.                                                             *)
(***************************************************************************)
\* The promise: an index that changes in one step and answers exactly.
Promise == INSTANCE DefinitionIndex WITH index <- files

Writing == \E t \in Threads : pc[t] \in WriterPC

\* The refs the files table calls for under name n.
ExactRefs(n) ==
    UNION {{[file_id |-> file_ids[p], symbol_idx |-> i, copy |-> 0] :
              i \in Promise!Globals(p, {n})} : p \in Paths}

\* Whenever no write is under way, `definitions` is the exact inverse of
\* `files`: no ref missing, none stale, none twice, no name without a ref
\* (workspace.rs:13, "All data is exact").  remove_definitions_for_file finds
\* the refs to drop through the old entry of `files`, so one wrong state
\* stays wrong.
IndexIsExact ==
    ~Writing => /\ \A n \in Names : definitions[n] = ExactRefs(n)
                /\ def_keys = {n \in Names : ExactRefs(n) # {}}

\* When nothing runs and the flag says clean, the fuzzy index holds every
\* defined name: search_symbols can find it (workspace.rs:109).
FuzzyComplete ==
    (\A t \in Threads : pc[t] = "idle" /\ scan[t] = "no") /\ ~fuzzy_dirty
        => def_keys \subseteq fuzzy

\* The threads that may write a path, and whether one does.
WritersOf(p) ==
    (IF p \in EditedPaths THEN Editors \cup Removers ELSE {})
        \cup (IF p \in ScannedPaths THEN Scanners ELSE {})
OneWriterOf(p) == \A t, o \in WritersOf(p) : t = o
UnderWrite(p) == \E t \in Threads : pc[t] \in WriterPC /\ op[t].path = p

\* Every ref a query goes on to resolve leads to a symbol of the name it asked
\* for, also when another thread re-indexed the file since the ref was read, if
\* one thread alone writes the file and no write of it is under way.  Between
\* the first push and files.insert a ref may meet the symbols of the other
\* version (workspace.rs:176), and two writers of a file may leave it so.
AnswersAreOfTheAskedName ==
    \A t \in Threads : pc[t] = "resolve" =>
        \A r \in ask[t].refs :
            LET path == id_to_path[r.file_id + 1]
                entry == files[path]
            IN  OneWriterOf(path) /\ ~UnderWrite(path) =>
                    /\ entry # NoFile /\ r.symbol_idx \in 1..Len(entry)
                    /\ entry[r.symbol_idx].name = ask[t].name

\* file_ids and id_to_path are inverse of each other, up to the one path being
\* inserted under the write lock: no path gets two ids, whoever races.
FileIdTable ==
    /\ \A i, j \in 1..Len(id_to_path) : id_to_path[i] = id_to_path[j] => i = j
    /\ \A p \in Paths : file_ids[p] # NoId =>
          /\ file_ids[p] < Len(id_to_path)
          /\ id_to_path[file_ids[p] + 1] = p
    /\ table_writer = NoThread =>
          \A i \in 1..Len(id_to_path) : file_ids[id_to_path[i]] = i - 1

\* Threads that hold the id they are about to push under.
Pushing(t) == pc[t] \in {"insert_id", "push", "dirty", "insert_file"}

HasOwnId(t) ==
    /\ op[t].file_id \in 0..(Len(id_to_path) - 1)
    /\ id_to_path[op[t].file_id + 1] = op[t].path

\* resolve_refs indexes id_table without a bounds check: every ref filed or
\* being resolved is in bounds, and a thread pushes under its own path's id.
RefsInBounds ==
    /\ \A n \in Names : \A r \in definitions[n] : r.file_id < Len(id_to_path)
    /\ \A t \in Threads : \A r \in ask[t].refs : r.file_id < Len(id_to_path)
    /\ \A t \in Threads : Pushing(t) => HasOwnId(t)

\* A path's id never changes and the table only grows, so that a ref filed
\* long ago still means the same file.
FileIdsStable ==
    [][/\ \A p \in Paths : file_ids[p] # NoId => file_ids'[p] = file_ids[p]
       /\ Len(id_to_path') >= Len(id_to_path)
       /\ \A i \in 1..Len(id_to_path) : id_to_path'[i] = id_to_path[i]]_vars

LastIsNew(t) ==
    /\ op[t].file_id = Len(id_to_path) - 1
    /\ file_ids[op[t].path] = NoId
    /\ \A i \in 1..(Len(id_to_path) - 1) : file_ids[id_to_path[i]] = i - 1

\* What the properties above need to be inductive: the write lock is held
\* exactly at insert_id, by a thread whose path is the table's last and has no
\* id yet; removal loops only while names are left.
WriterInTable ==
    /\ \A t \in Threads : pc[t] = "insert_id" <=> table_writer = t
    /\ \A t \in Threads : pc[t] = "insert_id" => LastIsNew(t)
NamesLeft == \A t \in Threads : pc[t] \in {"retain", "drop_key"} => op[t].names # <<>>
IInv == TypeOK /\ FileIdTable /\ RefsInBounds /\ WriterInTable /\ NamesLeft

\* No operation blocks for ever: the read guard of a definitions entry is held
\* while waiting for id_to_path's lock, and that lock's writer needs no entry.
OperationsFinish == \A t \in Threads : (pc[t] # "idle") ~> (pc[t] = "idle")

\* Call by call, the index implements DefinitionIndex: no query made between
\* two operations can tell that an update takes many steps.
PromiseKept == Promise!Spec
=============================================================================

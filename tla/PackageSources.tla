--------------------------- MODULE PackageSources ---------------------------
(***************************************************************************)
(* The resolvers of DependencyIndex (src/deps): which packages a lock file *)
(* declares and where they are on disk, and which source files of a        *)
(* package are indexed. PackageQueue takes the packages from here and      *)
(* hands their files to the index.                                         *)
(*                                                                         *)
(* A directory is the sequence of its entries in the order of read_dir,    *)
(* which is any order: files, and directories with entries of their own. A *)
(* name is the sequence of its parts, because extensions are compared as   *)
(* suffixes of the whole path.                                             *)
(***************************************************************************)
EXTENDS Integers, Sequences, SequencesExt, FiniteSets, FiniteSetsExt

CONSTANTS
    MAX_FILES_PER_PACKAGE,   \* 20 in the code
    MAX_DEPTH,               \* 4 in the code
    NameOrder,               \* the names there are, in the order of their bytes
    NoName                   \* Option::None

ASSUME LimitsAssumption == MAX_FILES_PER_PACKAGE \in Nat \ {0} /\ MAX_DEPTH \in Nat

-----------------------------------------------------------------------------
(* The files of a package. *)

Ecosystem == {"Cargo", "Npm", "Python", "Go"}
extensions(ecosystem) ==
    CASE ecosystem = "Cargo" -> <<<<"rs">>>> [] ecosystem = "Go" -> <<<<"go">>>>
      [] ecosystem = "Npm" -> <<<<"d", ".", "ts">>, <<"ts">>, <<"js">>>>
      [] ecosystem = "Python" -> <<<<"pyi">>, <<"py">>>>
prefers_stubs(ecosystem) == ecosystem \in {"Npm", "Python"}

SkippedDirs == {<<"tests">>, <<"node_modules">>}
IsDir(entry) == "entries" \in DOMAIN entry
Stem(name, ext) == SubSeq(name, 1, Len(name) - Len(ext))

\* A file is named by its path, the names on the way from the package.
In(dir_path, entry) == Append(dir_path, entry.name)
FilesHere(entries, dir_path, exts) ==
    LET files == SelectSeq(entries, LAMBDA e : ~IsDir(e) /\ \E k \in DOMAIN exts : IsSuffix(exts[k], e.name))
    IN  [k \in DOMAIN files |-> In(dir_path, files[k])]

Subdirs(entries) == SelectSeq(entries, LAMBDA e : IsDir(e) /\ e.name \notin SkippedDirs)

\* files_here.retain: a source is dropped when cutting its extension off leaves
\* what cutting the stub's off left of a stub.
WithoutStubbed(files, exts) ==
    LET stub      == exts[1]
        IsStub(f) == IsSuffix(stub, Last(f))
        stems     == {Stem(Last(files[k]), stub) : k \in {n \in DOMAIN files : IsStub(files[n])}}
        Stubbed(f) == \E k \in 2 .. Len(exts) :
                        /\ IsSuffix(exts[k], Last(f))
                        /\ {Stem(Last(f), exts[k]), Stem(Last(f), exts[k]) \o stub} \cap stems # {}
    IN  SelectSeq(files, LAMBDA f : IsStub(f) \/ ~Stubbed(f))

\* Mutant: the subdirectories' files come before the directory's own.
RECURSIVE collect_source_files_DeepFirst(_, _, _, _, _)
collect_source_files_DeepFirst(entries, dir_path, ecosystem, depth, out) ==
    IF depth > MAX_DEPTH \/ Len(out) >= MAX_FILES_PER_PACKAGE THEN out
    ELSE LET exts  == extensions(ecosystem)
             files == FilesHere(entries, dir_path, exts)
             kept  == IF prefers_stubs(ecosystem) THEN WithoutStubbed(files, exts) ELSE files
         IN  FoldLeft(LAMBDA found, dir : collect_source_files_DeepFirst(dir.entries, In(dir_path, dir), ecosystem, depth + 1, found),
                      out, Subdirs(entries)) \o kept

\* The files of this directory, all of them, then each subdirectory while the
\* limit is not reached.
RECURSIVE collect_source_files(_, _, _, _, _)
collect_source_files(entries, dir_path, ecosystem, depth, out) ==
    IF depth > MAX_DEPTH \/ Len(out) >= MAX_FILES_PER_PACKAGE THEN out
    ELSE LET exts  == extensions(ecosystem)
             files == FilesHere(entries, dir_path, exts)
             kept  == IF prefers_stubs(ecosystem) THEN WithoutStubbed(files, exts) ELSE files
         IN  FoldLeft(LAMBDA found, dir : collect_source_files(dir.entries, In(dir_path, dir), ecosystem, depth + 1, found),
                      out \o kept, Subdirs(entries))

Truncated(files) == SubSeq(files, 1, Min({Len(files), MAX_FILES_PER_PACKAGE}))

\* Paths in the order of their names, one by one.
Rank(name) == CHOOSE k \in DOMAIN NameOrder : NameOrder[k] = name
Before(a, b) ==
    \/ IsStrictPrefix(a, b)
    \/ \E k \in 1 .. Min({Len(a), Len(b)}) :
          SubSeq(a, 1, k - 1) = SubSeq(b, 1, k - 1) /\ Rank(a[k]) < Rank(b[k])

Entry(entries, name, Test(_)) == {k \in DOMAIN entries : entries[k].name = name /\ Test(entries[k])}
Lib == <<"lib", ".", "rs">>

\* cargo::collect_package_files: src/lib.rs, then src or else the package, in
\* sorted order.
CargoFiles(entries) ==
    LET src  == Entry(entries, <<"src">>, IsDir)
        base == IF src = {} THEN <<>> ELSE <<<<"src">>>>
        scan == IF src = {} THEN entries ELSE entries[CHOOSE k \in src : TRUE].entries
        lib  == IF src # {} /\ Entry(scan, Lib, LAMBDA e : ~IsDir(e)) # {}
                THEN <<Append(base, Lib)>> ELSE <<>>
    IN  Truncated(SetToSortSeq(ToSet(collect_source_files(scan, base, "Cargo", 0, lib)), Before))

collect_package_files(entries, ecosystem) ==
    IF ecosystem = "Cargo" THEN CargoFiles(entries)
    ELSE Truncated(collect_source_files(entries, <<>>, ecosystem, 0, <<>>))

-----------------------------------------------------------------------------
(* The packages of a workspace. *)

\* Mutant: the version is expected before the name.
parse_lock_file_VersionFirst(lines) ==
    LET read(state, line) ==
            CASE line.key = "version" -> [state EXCEPT !.current_name = line.value]
              [] line.key = "name" /\ state.current_name # NoName ->
                    [deps |-> Append(state.deps, <<line.value, state.current_name>>), current_name |-> NoName]
              [] OTHER -> state
    IN  FoldLeft(read, [deps |-> <<>>, current_name |-> NoName], lines).deps

\* Cargo.lock line by line: a version belongs to the name before it.
parse_lock_file(lines) ==
    LET read(state, line) ==
            CASE line.key = "[[package]]" -> [state EXCEPT !.current_name = NoName]
              [] line.key = "name" -> [state EXCEPT !.current_name = line.value]
              [] line.key = "version" /\ state.current_name # NoName ->
                    [deps |-> Append(state.deps, <<state.current_name, line.value>>), current_name |-> NoName]
              [] OTHER -> state
    IN  FoldLeft(read, [deps |-> <<>>, current_name |-> NoName], lines).deps

\* The directories name-version of every registry.
cargo_resolve_package_dirs(declared_deps, registries) ==
    {<<root, dir>> \in UNION {{root} \X registries[root] : root \in DOMAIN registries} :
        dir \in ToSet(declared_deps)}

GoMod == <<"/go.mod">>

\* Mutant: the line of a module's go.mod is a version of its own.
parse_go_sum_Suffixed(lines) ==
    LET read(deps, words) == IF Len(words) < 2 THEN deps ELSE Append(deps, <<words[1], words[2]>>)
    IN  FoldLeft(read, <<>>, lines)

\* go.sum has a line for a module and one for its go.mod, whose version ends in
\* "/go.mod"; a line is the sequence of its words.
parse_go_sum(lines) ==
    LET Version(word) == IF IsSuffix(GoMod, word) THEN Stem(word, GoMod) ELSE word
        read(deps, words) ==
            IF Len(words) < 2 THEN deps
            ELSE LET dep == <<words[1], Version(words[2])>>
                 IN  IF Contains(deps, dep) THEN deps ELSE Append(deps, dep)
    IN  FoldLeft(read, <<>>, lines)

IsUpper(c) == c \in {"A", "B"}
Lower(c) == CASE c = "A" -> "a" [] c = "B" -> "b" [] OTHER -> c

encode_module_path(module) ==
    FlattenSeq([k \in DOMAIN module |->
        IF IsUpper(module[k]) THEN <<"!", Lower(module[k])>> ELSE <<module[k]>>])

\* The cache directories of the modules that are downloaded.
go_resolve_package_dirs(declared_deps, cache) ==
    SelectSeq([k \in DOMAIN declared_deps |->
                  [path |-> encode_module_path(declared_deps[k][1]), version |-> declared_deps[k][2]]],
              LAMBDA dir : dir \in cache)
-----------------------------------------------------------------------------
(* package.json, token by token: a section's name in quotes, the first brace  *)
(* behind it, and the keys up to the brace that closes it.                    *)

Quoted(token) == <<"dquote", token, "dquote">>
Places(text, part) == {k \in 0 .. Len(text) - Len(part) : SubSeq(text, k + 1, k + Len(part)) = part}

\* The end of the object that begins at place i, or NoName when it is open.
find_matching_brace(text, i) ==
    LET depth(k) == 1 + Cardinality({n \in i .. k : text[n] = "{"}) - Cardinality({n \in i .. k : text[n] = "}"})
        ends     == {k \in i .. Len(text) : depth(k) = 0}
    IN  IF ends = {} THEN NoName ELSE Min(ends)

RECURSIVE StringEnd(_, _)
StringEnd(text, i) ==
    IF i > Len(text) \/ text[i] = "dquote" THEN i
    ELSE StringEnd(text, i + (IF text[i] = "\\" THEN 2 ELSE 1))

\* A colon follows the string that ends here.
IsKey(obj, end) ==
    LET behind == {k \in end + 1 .. Len(obj) : obj[k] # " "}
    IN  behind # {} /\ obj[Min(behind)] = ":"

RECURSIVE extract_json_keys(_, _)
extract_json_keys(obj, i) ==
    LET quotes == {k \in i .. Len(obj) : obj[k] = "dquote"}
        start  == Min(quotes)
        end    == StringEnd(obj, start + 1)
    IN  IF quotes = {} THEN {}
        ELSE {key \in {SubSeq(obj, start + 1, end - 1)} : IsKey(obj, end)} \cup extract_json_keys(obj, end + 1)

Sections == {"dependencies", "devDependencies", "peerDependencies"}
parse_package_json(text) ==
    LET KeysFrom(section) ==
            LET found  == Places(text, Quoted(section))
                braces == {k \in Min(found) + 1 .. Len(text) : text[k] = "{"}
                begin  == Min(braces) + 1
                end    == find_matching_brace(text, begin)
            IN  IF found = {} \/ braces = {} THEN {}
                ELSE IF end = NoName THEN {} ELSE extract_json_keys(SubSeq(text, begin, end - 1), 1)
    IN  UNION {KeysFrom(section) : section \in Sections}

\* Everything in node_modules that is not hidden; of a scope other than @types
\* what is declared.
npm_resolve_package_dirs(declared_deps, node_modules) ==
    {dir \in node_modules :
        /\ dir[1] # ".bin"
        /\ dir[1] = "@scope" => dir \in declared_deps}

-----------------------------------------------------------------------------
(***************************************************************************)
(* Properties.                                                             *)
(***************************************************************************)
\* The source files of a package by definition: not too deep, in no directory
\* that is passed over, and with one of the extensions.
RECURSIVE Reachable(_, _, _, _)
Reachable(entries, dir_path, ecosystem, depth) ==
    IF depth > MAX_DEPTH THEN {}
    ELSE ToSet(FilesHere(entries, dir_path, extensions(ecosystem))) \cup
         UNION {Reachable(dir.entries, In(dir_path, dir), ecosystem, depth + 1) : dir \in ToSet(Subdirs(entries))}

\* Of a crate they are those of its src directory, if it has one.
Sources(entries, ecosystem) ==
    LET src == Entry(entries, <<"src">>, IsDir)
    IN  IF ecosystem = "Cargo" /\ src # {}
        THEN Reachable(entries[CHOOSE k \in src : TRUE].entries, <<<<"src">>>>, ecosystem, 0)
        ELSE Reachable(entries, <<>>, ecosystem, 0)

\* The stub of the module that file is a source of.
StubOf(file, ext, stub) == Append(Front(file), Stem(Last(file), ext) \o stub)
HasStub(file, ecosystem, files) ==
    LET exts == extensions(ecosystem)
    IN  /\ prefers_stubs(ecosystem)
        /\ \E k \in 2 .. Len(exts) : IsSuffix(exts[k], Last(file)) /\ StubOf(file, exts[k], exts[1]) \in files

\* Of a package below the limit every source file is indexed, but a source that
\* has a stub (files.rs:16, "only the stub is included"). A source whose name ends like a
\* stub's is another matter: word.ts ends in d.ts.
SmallPackageIsWhole(entries, ecosystem) ==
    LET files   == ToSet(collect_package_files(entries, ecosystem))
        sources == Sources(entries, ecosystem)
        EndsLikeAStub(f) == IsSuffix(extensions(ecosystem)[1], Last(f))
    IN  Cardinality(sources) < MAX_FILES_PER_PACKAGE =>
            /\ files \subseteq sources
            /\ \A f \in sources : IF EndsLikeAStub(f) THEN f \in files
                                  ELSE f \in files <=> ~HasStub(f, ecosystem, sources)

\* However large a package is, the limit is kept, no file comes twice, and no
\* file at its top is cut off while one below is kept (files.rs:6, "Most useful
\* doc/signature info is in the top-level source files anyway"). Cargo's list
\* is sorted before it is cut, so the last is not said of it.
LargePackageIsCutBelow(entries, ecosystem) ==
    LET files   == collect_package_files(entries, ecosystem)
        sources == Sources(entries, ecosystem)
        AtTop(f) == Len(f) = 1
    IN  /\ Len(files) <= MAX_FILES_PER_PACKAGE /\ IsInjective(files)
        /\ ecosystem # "Cargo" /\ (\E k \in DOMAIN files : ~AtTop(files[k])) =>
              \A f \in sources : AtTop(f) /\ ~HasStub(f, ecosystem, sources) => Contains(files, f)

\* A Cargo.lock as Cargo writes it: its own version, and the packages with
\* what else is said of them.
CargoLock(packages) ==
    <<[key |-> "version", value |-> "3"]>> \o
    FlattenSeq([k \in DOMAIN packages |->
        <<[key |-> "[[package]]"], [key |-> "name", value |-> packages[k][1]],
          [key |-> "version", value |-> packages[k][2]], [key |-> "dependencies"]>>])

\* What is resolved of the registries is what the lock file has, each name with
\* its own version (cargo.rs:46, "directories matching name-version").
LockedVersionsAreResolved(packages, registries) ==
    cargo_resolve_package_dirs(parse_lock_file(CargoLock(packages)), registries) =
        {found \in UNION {{root} \X registries[root] : root \in DOMAIN registries} :
            Contains(packages, found[2])}

\* The module a directory of Go's cache is of: a letter behind "!" is a capital.
ModuleOf(path) ==
    LET Upper(c) == CASE c = "a" -> "A" [] c = "b" -> "B"
        Letters(k) == IF path[k] = "!" THEN <<>>
                      ELSE IF k > 1 /\ path[k - 1] = "!" THEN <<Upper(path[k])>> ELSE <<path[k]>>
    IN  FlattenSeq([k \in DOMAIN path |-> Letters(k)])

\* Of the modules in Go's cache the ones go.sum has a line for, its own or its
\* go.mod's, are resolved, each once, and no others (go.rs:41 and 108, "uppercase
\* letters become `!` + lowercase").
SummedModulesAreResolved(lines, cache) ==
    LET resolved == go_resolve_package_dirs(parse_go_sum(lines), cache)
        Summed(dir) == \E k \in DOMAIN lines :
                          /\ Len(lines[k]) >= 2 /\ lines[k][1] = ModuleOf(dir.path)
                          /\ lines[k][2] \in {dir.version, dir.version \o GoMod}
    IN  IsInjective(resolved) /\ ToSet(resolved) = {dir \in cache : Summed(dir)}

\* A package.json as npm writes it.
PackageJson(sections) ==
    <<"{">> \o Quoted("name") \o <<":">> \o Quoted("x") \o
    FlattenSeq([k \in DOMAIN sections |->
        <<",">> \o Quoted(sections[k].section) \o <<":", " ", "{">> \o
        FlattenSeq([n \in DOMAIN sections[k].names |->
            (IF n = 1 THEN <<>> ELSE <<",">>) \o <<"dquote">> \o sections[k].names[n] \o <<"dquote", ":", " ", "dquote">>
            \o sections[k].version \o <<"dquote">>])
        \o <<"}">>])
    \o <<"}">>

\* Of the scoped packages installed the ones declared in any section are
\* resolved, those of @types always, and no others (npm.rs:96, "Always include
\* @types packages; for others check declared").
ScopedAreDeclared(sections, node_modules) ==
    {dir \in npm_resolve_package_dirs(parse_package_json(PackageJson(sections)), node_modules) :
        dir[1] \in {"@scope", "@types"}} =
    {dir \in node_modules :
        \/ dir[1] = "@types"
        \/ dir[1] = "@scope" /\ \E k \in DOMAIN sections : Contains(sections[k].names, dir)}
=============================================================================

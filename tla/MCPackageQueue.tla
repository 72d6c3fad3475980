--------------------------- MODULE MCPackageQueue ---------------------------
(***************************************************************************)
(* PackageQueue for TLC: the plans of the threads, and next to it packages *)
(* and lock files for the resolvers, each an initial state of a queue that *)
(* does nothing.                                                           *)
(***************************************************************************)
EXTENDS PackageQueue, PackageSources

CONSTANTS t1, t2, t3

\* One thread resolves, hands packages over and starts passes; others start
\* passes as well and ask for a refresh.
BusyPlan == [t \in Threads |->
    IF t = t1 THEN <<"enqueue_packages", "detect_and_resolve", "index_pending",
                     "enqueue_packages", "detect_and_resolve", "index_pending">>
    ELSE IF t = t2 THEN <<"refresh_if_stale", "index_pending", "index_pending">>
    ELSE <<"index_pending">>]

\* The server resolves in initialize; a refresh comes later.
RefreshPlan == [t \in Threads |-> <<"detect_and_resolve", "refresh_if_stale">>]

-----------------------------------------------------------------------------
VARIABLE input

File(name) == [name |-> name]
Dir(name, entries) == [name |-> <<name>>, entries |-> entries]
Directories(S, n) ==
    LET grown[k \in 0 .. n] ==
            IF k = 0 THEN {<<>>}
            ELSE {<<>>} \cup {Append(pair[1], pair[2]) : pair \in
                    {p \in grown[k - 1] \X S : \A m \in DOMAIN p[1] : p[1][m].name # p[2].name}}
    IN  grown[n]

\* The files of two modules, one with a stub, a source that ends like a stub
\* and a file of another kind.
Files(ecosystem) ==
    {File(name) : name \in
        CASE ecosystem = "Cargo" -> {Lib, <<"a", ".", "rs">>, <<"z", ".", "rs">>}
          [] ecosystem = "Go" -> {<<"a", ".", "go">>, <<"z", ".", "go">>, <<"README">>}
          [] ecosystem = "Python" -> {<<"a", ".", "pyi">>, <<"a", ".", "py">>, <<"z", ".", "py">>}
          [] ecosystem = "Npm" -> {<<"a", ".", "d", ".", "ts">>, <<"a", ".", "ts">>, <<"a", ".", "js">>,
                                   <<"z", ".", "js">>, <<"wor", "d", ".", "ts">>}}
Below(ecosystem) == Files(ecosystem) \cup {Dir("m", <<f>>) : f \in Files(ecosystem)}
Subdirectories(ecosystem) ==
    {Dir("m", d) : d \in Directories(Below(ecosystem), 2)} \cup {Dir("tests", <<f>>) : f \in Files(ecosystem)}
Tops(ecosystem) == Directories(Files(ecosystem) \cup Subdirectories(ecosystem), 3)
Trees == UNION {[ecosystem : {e}, top : Tops(e)] : e \in {"Npm", "Python", "Go"}}
    \cup [ecosystem : {"Cargo"}, top : {<<Dir("src", d)>> : d \in Tops("Cargo")}]

Versions == {<<"p", "1">>, <<"p", "2">>, <<"q", "1">>}
Locks == [packages : UNION {[1 .. k -> Versions] : k \in 0 .. 3},
          registries : [{"r1", "r2"} -> SUBSET Versions]]

\* The lines of three modules that differ in capitals and of their go.mod, and
\* one that is cut short; of a version that was never downloaded there is the
\* go.mod only.
GoLines == ({<<"A", "b">>, <<"a", "B">>, <<"a", "b">>} \X {<<"1">>, <<"1", "/go.mod">>, <<"2", "/go.mod">>})
           \cup {<<<<"a", "b">>>>}
GoSums == [lines : UNION {[1 .. k -> GoLines] : k \in 0 .. 3}]
GoCache == [path : {<<"!", "a", "b">>, <<"a", "!", "b">>, <<"a", "b">>}, version : {<<"1">>}]

NpmNames == {<<"@scope", "/", "a">>, <<"@scope", "/", "b">>, <<"@types", "/", "a">>, <<"a">>}
Manifest == [section : Sections, names : UNION {[1 .. k -> NpmNames] : k \in 0 .. 2},
             version : {<<"1">>, <<"npm", ":", "a">>}]
Manifests == [sections : UNION {[1 .. k -> Manifest] : k \in 0 .. 1} \cup
                 {f \in [1 .. 2 -> Manifest] : f[1].section # f[2].section /\ f[1].version = <<"1">>}]

NameList == <<<<"a", ".", "rs">>, Lib, <<"m">>, <<"src">>, <<"tests">>, <<"z", ".", "rs">>>>

NoInput == [none |-> TRUE]
MCInit ==
    /\ Init
    /\ IF installed # {} THEN input = NoInput
       ELSE input \in {NoInput} \cup Trees \cup Locks \cup GoSums \cup Manifests
MCNext == input = NoInput /\ Next /\ UNCHANGED input
MCSpec == MCInit /\ [][MCNext]_<<vars, input>>

Has(field) == field \in DOMAIN input

\* The properties of PackageSources, for the input at hand. Of a package that
\* is within the limits every file is taken, but sources with a stub; of one
\* beyond them its top.
PackagesAreWhole == Has("top") =>
    SmallPackageIsWhole(input.top, input.ecosystem) /\ LargePackageIsCutBelow(input.top, input.ecosystem)

\* What is declared and installed is resolved and nothing else: the versions of
\* Cargo.lock, the modules of go.sum, the scoped packages of package.json.
DeclaredAreResolved ==
    /\ Has("registries") => LockedVersionsAreResolved(input.packages, input.registries)
    /\ Has("lines") =>
         \A cache \in {GoCache, {dir \in GoCache : dir.path # <<"a", "b">>}} :
             SummedModulesAreResolved(input.lines, cache)
    /\ Has("sections") => ScopedAreDeclared(input.sections, NpmNames)
=============================================================================

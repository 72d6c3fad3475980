---------------------------- MODULE ManifestScan ----------------------------
(***************************************************************************)
(* Layer B of the cache: scan_directory (src/workspace.rs) as its          *)
(* processes see the manifests, the registry and the content store they    *)
(* share, and the files under them.  Processes scan at the same time, also *)
(* the same worktree or one inside the other, with different builds of the *)
(* parser, and end anywhere.                                               *)
(*                                                                         *)
(* A file's content hash stands for its content.  Paths are absolute: the  *)
(* prefixes put before or taken off a borrowed row's rel_path make it name *)
(* the same file below another root.  All contents have the same size, so  *)
(* that a row is told from a file by the mtime alone.                      *)
(***************************************************************************)
EXTENDS Integers, FiniteSets

CONSTANTS
    Paths, Contents, Processes,
    Worktrees,
    Under,       \* the paths below each worktree's root
    Versions,    \* PARSER_VERSION of the builds in use
    NoFile,      \* there is no such file
    None,        \* no row, no stored version, no result
    MaxWrites,   \* bound: changes of files
    MaxScans,    \* bound: scans started
    MaxCrashes   \* bound: processes that end

ASSUME UnderAssumption == Under \in [Worktrees -> (SUBSET Paths) \ {{}}]
ASSUME SentinelAssumption ==
    /\ NoFile \notin [content: Contents, mtime: Nat]
    /\ NoFile \notin Contents
    /\ None \notin Versions /\ None \notin Nat
    /\ None \notin [content: Contents, mtime: Nat]
    /\ None \notin [content: Contents, mtime: Nat, generation: Nat]
ASSUME NonEmptyAssumption == Worktrees # {} /\ Versions # {}
ASSUME BoundsAssumption == {MaxWrites, MaxScans, MaxCrashes} \subseteq Nat

VARIABLES
    disk,            \* path -> its content and mtime, or NoFile
    clock,           \* the last mtime given
    units,           \* layer A: contents and the versions they were parsed by
    registry,        \* worktrees somebody has opened
    rows, parser_version, generation,   \* the manifest of each worktree
    pc, local,       \* per process: position and locals of scan_directory
    held,            \* history: what each path was since the process began
    scans, crashes

manifests == <<rows, parser_version, generation>>
bounds == <<scans, crashes>>
vars == <<disk, clock, units, registry, manifests, pc, local, held, bounds>>

File == [content: Contents, mtime: Nat]
ManifestRow == [content: Contents, mtime: Nat, generation: Nat]
Rows == [Paths -> ManifestRow \cup {None}]
NoRows == [p \in Paths |-> None]
Nothing == [p \in Paths |-> {}]

\* The locals: existing rows, other manifests still to ask, the rows asked for,
\* paths still to stat, the mtime of paths still to read, results, the files
\* errors counts, dead rows.
Local == [root: Worktrees, version: Versions, parser_ok: BOOLEAN,
          existing: Rows, others: SUBSET Worktrees, subsumed: [Paths -> SUBSET ManifestRow],
          paths: SUBSET Paths, reading: [Paths -> Nat \cup {None}],
          result: [Paths -> File \cup {None}], errors: SUBSET Paths, generation: Nat, dead: SUBSET Paths]

Scanned == {"generation", "find_dead", "clear", "set_version", "put", "delete", "bump", "done"}
Collected == {"load", "subsume", "scan"} \cup Scanned
Labels == {"idle", "check", "collect"} \cup Collected

TypeOK ==
    /\ disk \in [Paths -> File \cup {NoFile}]
    /\ clock \in Nat
    /\ units \subseteq Contents \X Versions
    /\ registry \subseteq Worktrees
    /\ rows \in [Worktrees -> Rows]
    /\ parser_version \in [Worktrees -> Versions \cup {None}]
    /\ generation \in [Worktrees -> Nat]
    /\ pc \in [Processes -> Labels]
    /\ local \in [Processes -> Local]
    /\ held \in [Processes -> [Paths -> SUBSET (Contents \cup {NoFile})]]
    /\ scans \in Nat /\ crashes \in Nat
    \* A file is read or has its result, not both.
    /\ \A q \in Processes, p \in Paths :
          local[q].reading[p] = None \/ local[q].result[p] = None

Fresh(w, v) == [root |-> w, version |-> v, parser_ok |-> FALSE,
                existing |-> NoRows, others |-> {}, subsumed |-> Nothing,
                paths |-> {}, reading |-> NoRows, result |-> NoRows,
                errors |-> {}, generation |-> 0, dead |-> {}]

NoScan == Fresh(CHOOSE w \in Worktrees : TRUE, CHOOSE v \in Versions : TRUE)

ContentOf(p) == IF disk[p] = NoFile THEN NoFile ELSE disk[p].content

Init ==
    /\ disk \in [Paths -> {[content |-> c, mtime |-> 0] : c \in Contents} \cup {NoFile}]
    /\ clock = 0
    /\ units = {}
    /\ registry = {}
    /\ rows = [w \in Worktrees |-> NoRows]
    /\ parser_version = [w \in Worktrees |-> None]
    /\ generation = [w \in Worktrees |-> 0]
    /\ pc = [q \in Processes |-> "idle"]
    /\ local = [q \in Processes |-> NoScan]
    /\ held = [q \in Processes |-> Nothing]
    /\ scans = 0 /\ crashes = 0

-----------------------------------------------------------------------------
\* Somebody writes or deletes a file.
ChangeOnDisk(p) ==
    /\ clock < MaxWrites
    /\ clock' = clock + 1
    /\ \E file \in {[content |-> c, mtime |-> clock + 1] : c \in Contents} \cup {NoFile} :
          /\ file # disk[p]
          /\ disk' = [disk EXCEPT ![p] = file]
    /\ held' = [q \in Processes |->
          IF pc[q] = "idle" THEN held[q] ELSE [held[q] EXCEPT ![p] = @ \cup {ContentOf(p)'}]]
    /\ UNCHANGED <<units, registry, manifests, pc, local, bounds>>

At(q, label) == pc[q] = label
Goto(q, label) == pc' = [pc EXCEPT ![q] = label]
Root(q) == local[q].root

\* CacheState::open: the worktree is registered if the registry can be written.
\* (If the manifest cannot be opened the scan returns and nothing changes.)
Open(q, w, v) ==
    /\ At(q, "idle") /\ scans < MaxScans
    /\ scans' = scans + 1
    /\ \/ registry' = registry \cup {w}
       \/ UNCHANGED registry
    /\ local' = [local EXCEPT ![q] = Fresh(w, v)]
    /\ held' = [held EXCEPT ![q] = [p \in Paths |-> {ContentOf(p)}]]
    /\ Goto(q, "check")
    /\ UNCHANGED <<disk, clock, units, manifests, crashes>>

\* A version that cannot be read counts as another one.
CheckParserVersion(q) ==
    /\ At(q, "check")
    /\ \E readable \in BOOLEAN :
          local' = [local EXCEPT ![q].parser_ok =
                       readable /\ parser_version[Root(q)] = local[q].version]
    /\ Goto(q, "collect")
    /\ UNCHANGED <<disk, clock, units, registry, manifests, held, bounds>>

CollectPaths(q) ==
    /\ At(q, "collect")
    /\ local' = [local EXCEPT ![q].paths = {p \in Under[Root(q)] : disk[p] # NoFile}]
    /\ Goto(q, "load")
    /\ UNCHANGED <<disk, clock, units, registry, manifests, held, bounds>>

\* Worktrees whose root is an ancestor or a descendant of ours.
Related(w) ==
    {o \in registry \ {w} : Under[o] \subseteq Under[w] \/ Under[w] \subseteq Under[o]}

\* Rows, or a registry, that cannot be read are none.
LoadRows(q) ==
    /\ At(q, "load")
    /\ \E existing \in {NoRows} \cup (IF local[q].parser_ok THEN {rows[Root(q)]} ELSE {}),
          others \in {{}, Related(Root(q))} :
          local' = [local EXCEPT ![q].existing = existing, ![q].others = others]
    /\ Goto(q, "subsume")
    /\ UNCHANGED <<disk, clock, units, registry, manifests, held, bounds>>

\* collect_subsumable_rows: one manifest after the other is read, if it can be.
ReadOther(q, o) ==
    /\ At(q, "subsume") /\ o \in local[q].others
    /\ \E read \in {{}, {p \in Under[Root(q)] : rows[o][p] # None}} :
          local' = [local EXCEPT
              ![q].others = @ \ {o},
              ![q].subsumed = [p \in Paths |-> @[p] \cup (IF p \in read THEN {rows[o][p]} ELSE {})]]
    /\ UNCHANGED <<disk, clock, units, registry, manifests, pc, held, bounds>>

\* Of several borrowed rows for a path one with the highest generation wins,
\* and a row of ours wins over it.
Newest(S) == {r \in S : \A s \in S : s.generation <= r.generation}

Candidates(q, p) ==
    IF local[q].existing[p] # None THEN {local[q].existing[p]}
    ELSE IF local[q].subsumed[p] # {} THEN Newest(local[q].subsumed[p])
    ELSE {None}

MergeRows(q) ==
    /\ At(q, "subsume") /\ local[q].others = {}
    /\ \E merged \in [Paths -> UNION {Candidates(q, p) : p \in Paths}] :
          /\ \A p \in Paths : merged[p] \in Candidates(q, p)
          /\ local' = [local EXCEPT ![q].existing = merged, ![q].subsumed = Nothing]
    /\ Goto(q, "scan")
    /\ UNCHANGED <<disk, clock, units, registry, manifests, held, bounds>>

-----------------------------------------------------------------------------
(***************************************************************************)
(* The parallel scan: each file is looked at, and read if need be, at a    *)
(* time of its own.                                                        *)
(***************************************************************************)
FreshRow(q, p) ==
    /\ local[q].existing[p] # None
    /\ local[q].existing[p].mtime = disk[p].mtime
    /\ <<local[q].existing[p].content, local[q].version>> \in units

\* Mutant: a row is trusted whatever the file's mtime.
StatFile_AnyRow(q, p) ==
    /\ At(q, "scan") /\ p \in local[q].paths
    /\ LET row == local[q].existing[p]
       IN  \/ /\ disk[p] = NoFile
              /\ local' = [local EXCEPT ![q].paths = @ \ {p}]
           \/ /\ disk[p] # NoFile /\ row # None
              /\ <<row.content, local[q].version>> \in units
              /\ local' = [local EXCEPT
                    ![q].paths = @ \ {p},
                    ![q].result[p] = [content |-> row.content, mtime |-> disk[p].mtime]]
           \/ /\ disk[p] # NoFile
              /\ ~(row # None /\ <<row.content, local[q].version>> \in units)
              /\ local' = [local EXCEPT ![q].paths = @ \ {p}, ![q].reading[p] = disk[p].mtime]
    /\ UNCHANGED <<disk, clock, units, registry, manifests, pc, held, bounds>>

\* Mutant: a file whose row is fresh is read all the same.
StatFile_NoContinue(q, p) ==
    /\ At(q, "scan") /\ p \in local[q].paths
    /\ \/ /\ disk[p] = NoFile
          /\ local' = [local EXCEPT ![q].paths = @ \ {p}]
       \/ /\ disk[p] # NoFile
          /\ local' = [local EXCEPT
                ![q].paths = @ \ {p}, ![q].reading[p] = disk[p].mtime,
                ![q].result[p] = IF FreshRow(q, p)
                                 THEN [content |-> local[q].existing[p].content,
                                       mtime |-> disk[p].mtime] ELSE @]
    /\ UNCHANGED <<disk, clock, units, registry, manifests, pc, held, bounds>>

\* The file's stat: it is gone (an error is counted), or its row is fresh and
\* the unit is taken from layer A, or it has to be read.
StatFile(q, p) ==
    /\ At(q, "scan") /\ p \in local[q].paths
    /\ \/ /\ disk[p] = NoFile
          /\ local' = [local EXCEPT ![q].paths = @ \ {p}, ![q].errors = @ \cup {p}]
       \/ /\ disk[p] # NoFile /\ FreshRow(q, p)
          /\ local' = [local EXCEPT
                ![q].paths = @ \ {p},
                ![q].result[p] = [content |-> local[q].existing[p].content,
                                  mtime |-> disk[p].mtime]]
       \/ /\ disk[p] # NoFile /\ ~FreshRow(q, p)
          /\ local' = [local EXCEPT ![q].paths = @ \ {p}, ![q].reading[p] = disk[p].mtime]
    /\ UNCHANGED <<disk, clock, units, registry, manifests, pc, held, bounds>>

\* Mutant: a unit that could not be stored is installed and gets a row.
ReadFile_NotStored(q, p) ==
    /\ At(q, "scan") /\ local[q].reading[p] # None
    /\ local' = [local EXCEPT
          ![q].reading[p] = None,
          ![q].result[p] = IF disk[p] = NoFile THEN None
                           ELSE [content |-> disk[p].content, mtime |-> local[q].reading[p]]]
    /\ UNCHANGED <<disk, clock, units, registry, manifests, pc, held, bounds>>

\* The file is read and ensure_file_unit puts its unit; if either fails, as it
\* does when the file is gone by now, that is an error.  The row gets the mtime
\* from before the read.
ReadFile(q, p) ==
    /\ At(q, "scan") /\ local[q].reading[p] # None
    /\ \/ /\ local' = [local EXCEPT ![q].reading[p] = None, ![q].errors = @ \cup {p}]
          /\ UNCHANGED units
       \/ /\ disk[p] # NoFile
          /\ units' = units \cup {<<disk[p].content, local[q].version>>}
          /\ local' = [local EXCEPT
                ![q].reading[p] = None,
                ![q].result[p] = [content |-> disk[p].content, mtime |-> local[q].reading[p]]]
    /\ UNCHANGED <<disk, clock, registry, manifests, pc, held, bounds>>

EndScan(q) ==
    /\ At(q, "scan")
    /\ local[q].paths = {} /\ \A p \in Paths : local[q].reading[p] = None
    /\ Goto(q, "generation")
    /\ UNCHANGED <<disk, clock, units, registry, manifests, local, held, bounds>>

-----------------------------------------------------------------------------
(***************************************************************************)
(* Phases 4 and 5.  Each change of the manifest is an SQLite transaction   *)
(* of its own, whose failure is at most warned about.                      *)
(***************************************************************************)
ReadGeneration(q) ==
    /\ At(q, "generation")
    /\ \E read \in {0, generation[Root(q)]} :
          local' = [local EXCEPT ![q].generation = read + 1]
    /\ Goto(q, "find_dead")
    /\ UNCHANGED <<disk, clock, units, registry, manifests, held, bounds>>

Live(q) == {p \in Paths : local[q].result[p] # None}

\* Rows this scan did not meet, of files that are gone; none if the rows were
\* not ours to use.
FindDead(q) ==
    /\ At(q, "find_dead")
    /\ local' = [local EXCEPT ![q].dead =
          IF local[q].parser_ok
          THEN {p \in Paths \ Live(q) : local[q].existing[p] # None /\ disk[p] = NoFile}
          ELSE {}]
    /\ Goto(q, IF local[q].parser_ok THEN "put" ELSE "clear")
    /\ UNCHANGED <<disk, clock, units, registry, manifests, held, bounds>>

Clear(q) ==
    /\ At(q, "clear")
    /\ rows' \in {rows, [rows EXCEPT ![Root(q)] = NoRows]}
    /\ Goto(q, "set_version")
    /\ UNCHANGED <<disk, clock, units, registry, parser_version, generation, local, held, bounds>>

SetParserVersion(q) ==
    /\ At(q, "set_version")
    /\ parser_version' \in {parser_version, [parser_version EXCEPT ![Root(q)] = local[q].version]}
    /\ Goto(q, "put")
    /\ UNCHANGED <<disk, clock, units, registry, rows, generation, local, held, bounds>>

Row(q, p) == [content |-> local[q].result[p].content, mtime |-> local[q].result[p].mtime,
              generation |-> local[q].generation]

\* Mutant: ON CONFLICT DO UPDATE does not set content_hash.
PutRows_KeepsHash(q) ==
    /\ At(q, "put")
    /\ rows' = [rows EXCEPT ![Root(q)] = [p \in Paths |->
                  IF p \notin Live(q) THEN @[p]
                  ELSE IF @[p] = None THEN Row(q, p)
                  ELSE [Row(q, p) EXCEPT !.content = rows[Root(q)][p].content]]]
    /\ Goto(q, "delete")
    /\ UNCHANGED <<disk, clock, units, registry, parser_version, generation, local, held, bounds>>

PutRows(q) ==
    /\ At(q, "put")
    /\ rows' \in {rows, [rows EXCEPT ![Root(q)] = [p \in Paths |->
                            IF p \in Live(q) THEN Row(q, p) ELSE @[p]]]}
    /\ Goto(q, "delete")
    /\ UNCHANGED <<disk, clock, units, registry, parser_version, generation, local, held, bounds>>

DeleteRows(q) ==
    /\ At(q, "delete")
    /\ rows' \in {rows, [rows EXCEPT ![Root(q)] = [p \in Paths |->
                            IF p \in local[q].dead THEN None ELSE @[p]]]}
    /\ Goto(q, "bump")
    /\ UNCHANGED <<disk, clock, units, registry, parser_version, generation, local, held, bounds>>

\* set_meta("generation"), from the value read before phase 5.
SetGeneration(q) ==
    /\ At(q, "bump")
    /\ generation' \in {generation, [generation EXCEPT ![Root(q)] = local[q].generation]}
    /\ Goto(q, "done")
    /\ UNCHANGED <<disk, clock, units, registry, rows, parser_version, local, held, bounds>>

Ended(q) ==
    /\ Goto(q, "idle")
    /\ local' = [local EXCEPT ![q] = NoScan]
    /\ held' = [held EXCEPT ![q] = Nothing]

\* The scan returns; the process may scan again.
Return(q) ==
    /\ At(q, "done")
    /\ Ended(q)
    /\ UNCHANGED <<disk, clock, units, registry, manifests, bounds>>

\* The process ends in the middle of a scan.
Crash(q) ==
    /\ crashes < MaxCrashes /\ ~At(q, "idle")
    /\ crashes' = crashes + 1
    /\ Ended(q)
    /\ UNCHANGED <<disk, clock, units, registry, manifests, scans>>

Step(q) ==
    \/ \E w \in Worktrees, v \in Versions : Open(q, w, v)
    \/ CheckParserVersion(q) \/ CollectPaths(q) \/ LoadRows(q)
    \/ (\E o \in Worktrees : ReadOther(q, o)) \/ MergeRows(q)
    \/ (\E p \in Paths : StatFile(q, p) \/ ReadFile(q, p)) \/ EndScan(q)
    \/ ReadGeneration(q) \/ FindDead(q) \/ Clear(q) \/ SetParserVersion(q)
    \/ PutRows(q) \/ DeleteRows(q) \/ SetGeneration(q) \/ Return(q) \/ Crash(q)

Next == (\E p \in Paths : ChangeOnDisk(p)) \/ (\E q \in Processes : Step(q))

Spec == Init /\ [][Next]_vars

-----------------------------------------------------------------------------
(***************************************************************************)
(* Properties.                                                             *)
(***************************************************************************)
ResultOf(q, p) == IF local[q].result[p] = None THEN NoFile ELSE local[q].result[p].content

\* Errors apart, what a scan indexes for a path is what the path was at some
\* moment since the scan began, nothing included: however old the rows are that it trusts, from
\* whichever worktree they come, whoever scans at the same time, and wherever
\* earlier processes ended (docs/cache-v3-design.md:302, T10, "Results match
\* fresh baseline").
ScanIsRegular ==
    \A q \in Processes : pc[q] \in Scanned =>
        \A p \in Under[Root(q)] \ local[q].errors : ResultOf(q, p) \in held[q][p]

\* A row whose mtime is the file's names the content of the file, also when the
\* file changed between its stat and its read: the fast path may skip reading.
Truthful(row, p) ==
    row # None /\ disk[p] # NoFile => (row.mtime = disk[p].mtime => row.content = disk[p].content)

RowsAreTruthful == \A w \in Worktrees, p \in Paths : Truthful(rows[w][p], p)

\* No row names a content that layer A has not got: units are put before rows,
\* so a process that ends in between leaves nothing dangling.
RowsHaveUnits ==
    \A w \in Worktrees, p \in Paths :
        rows[w][p] # None => \E v \in Versions : <<rows[w][p].content, v>> \in units

-----------------------------------------------------------------------------
(***************************************************************************)
(* The inductive invariant of the proofs.  A row goes from one manifest    *)
(* through a scan to another, so whatever a scan holds of a file is as     *)
(* good as a row: it may be old, but no mtime it has will be given again.  *)
(***************************************************************************)
Believable(row, p) == row # None => row.mtime <= clock /\ Truthful(row, p)

RowsOK ==
    /\ \A p \in Paths : disk[p] # NoFile => disk[p].mtime <= clock
    /\ \A w \in Worktrees, p \in Paths : Believable(rows[w][p], p)
    /\ RowsHaveUnits

\* What a process holds of a path.
HoldsOK(q, p) ==
    /\ Believable(local[q].existing[p], p)
    /\ \A row \in local[q].subsumed[p] : Believable(row, p)
    /\ local[q].reading[p] # None => local[q].reading[p] <= clock
    /\ local[q].result[p] # None =>
          /\ Believable(local[q].result[p], p)
          /\ <<local[q].result[p].content, local[q].version>> \in units

\* How far a process has come with a path.
ProgressOK(q, p) ==
    /\ pc[q] # "idle" => ContentOf(p) \in held[q][p]
    /\ pc[q] \in {"check", "collect"} =>
          p \notin local[q].paths /\ local[q].reading[p] = None /\ local[q].result[p] = None
    /\ p \in local[q].paths => local[q].reading[p] = None /\ local[q].result[p] = None
    /\ pc[q] \in Scanned => p \notin local[q].paths /\ local[q].reading[p] = None
    /\ pc[q] \in Collected /\ p \in Under[Root(q)] \ local[q].errors =>
          \/ p \in local[q].paths
          \/ local[q].reading[p] # None
          \/ ResultOf(q, p) \in held[q][p]

ProcessOK(q) == \A p \in Paths : HoldsOK(q, p) /\ ProgressOK(q, p)

IInv == TypeOK /\ RowsOK /\ (\A q \in Processes : ProcessOK(q))
=============================================================================

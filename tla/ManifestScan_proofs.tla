------------------------ MODULE ManifestScan_proofs ------------------------
(***************************************************************************)
(* Proofs about ManifestScan, for any number of processes, worktrees,      *)
(* paths, contents and builds of the parser.  The invariant IInv says that *)
(* whatever a scan holds of a file is as good as a row, and how far a scan *)
(* has come with each path.                                                *)
(***************************************************************************)
EXTENDS ManifestScan, TLAPS

\* A process that begins a scan, or has none, holds nothing.
LEMMA FreshType ==
    ASSUME NEW w \in Worktrees, NEW v \in Versions
    PROVE  Fresh(w, v) \in Local
BY DEF Fresh, Local, Rows, NoRows, Nothing

LEMMA NoScanType ==
    /\ NoScan \in Local
    /\ \E w \in Worktrees, v \in Versions : NoScan = Fresh(w, v)
<1>1. /\ (CHOOSE w \in Worktrees : TRUE) \in Worktrees
      /\ (CHOOSE v \in Versions : TRUE) \in Versions
  BY NonEmptyAssumption
<1>. QED BY <1>1, FreshType DEF NoScan

\* A process keeps its part of the invariant when only others move and no file
\* changes.
LEMMA OthersKeep ==
    ASSUME TypeOK, NEW o \in Processes, ProcessOK(o),
           pc'[o] = pc[o], local'[o] = local[o], held'[o] = held[o],
           disk' = disk, clock' = clock, units \subseteq units'
    PROVE  ProcessOK(o)'
<1>. SUFFICES ASSUME NEW p \in Paths PROVE HoldsOK(o, p)' /\ ProgressOK(o, p)'
  BY DEF ProcessOK
<1>1. HoldsOK(o, p) /\ ProgressOK(o, p)
  BY DEF ProcessOK
<1>2. HoldsOK(o, p)'
  BY <1>1 DEF HoldsOK, Believable, Truthful
<1>3. ProgressOK(o, p)'
  BY <1>1 DEF ProgressOK, ContentOf, ResultOf, Root
<1>. QED BY <1>2, <1>3

\* The shared part of the invariant, when neither files nor rows change.
LEMMA RowsKeep ==
    ASSUME TypeOK, RowsOK, disk' = disk, clock' = clock, rows' = rows, units \subseteq units'
    PROVE  RowsOK'
BY DEF RowsOK, RowsHaveUnits, Believable, Truthful

\* A step of one process that moves it and changes its locals and nothing else
\* but manifests, keeps its type if the new values have theirs.
LEMMA TypeKeeps ==
    ASSUME TypeOK, NEW q \in Processes, NEW label \in Labels, NEW l \in Local,
           \A p \in Paths : l.reading[p] = None \/ l.result[p] = None,
           pc' = [pc EXCEPT ![q] = label], local' = [local EXCEPT ![q] = l],
           disk' = disk, clock' = clock,
           held' \in [Processes -> [Paths -> SUBSET (Contents \cup {NoFile})]],
           scans' \in Nat, crashes' \in Nat,
           registry' \subseteq Worktrees,
           units' \subseteq Contents \X Versions,
           rows' \in [Worktrees -> Rows],
           parser_version' \in [Worktrees -> Versions \cup {None}],
           generation' \in [Worktrees -> Nat]
    PROVE  TypeOK'
<1>1. pc' \in [Processes -> Labels] /\ local' \in [Processes -> Local]
  BY DEF TypeOK
<1>2. ASSUME NEW o \in Processes, NEW p \in Paths
      PROVE  local'[o].reading[p] = None \/ local'[o].result[p] = None
  BY DEF TypeOK
<1>. QED BY <1>1, <1>2 DEF TypeOK

\* A process that goes on without touching what it holds of any path.
LEMMA GoOnKeeps ==
    ASSUME TypeOK, NEW q \in Processes, ProcessOK(q),
           disk' = disk, clock' = clock, units' = units, held' = held,
           local'[q].root = local[q].root, local'[q].version = local[q].version,
           local'[q].existing = local[q].existing, local'[q].subsumed = local[q].subsumed,
           local'[q].paths = local[q].paths, local'[q].reading = local[q].reading,
           local'[q].result = local[q].result, local'[q].errors = local[q].errors,
           pc[q] # "idle",
           pc'[q] \in {"check", "collect"} => pc[q] \in {"check", "collect"},
           pc'[q] \in Collected => pc[q] \in Collected,
           pc'[q] \in Scanned =>
               \/ pc[q] \in Scanned
               \/ local[q].paths = {} /\ \A p \in Paths : local[q].reading[p] = None
    PROVE  ProcessOK(q)'
<1>. SUFFICES ASSUME NEW p \in Paths PROVE HoldsOK(q, p)' /\ ProgressOK(q, p)'
  BY DEF ProcessOK
<1>1. HoldsOK(q, p) /\ ProgressOK(q, p)
  BY DEF ProcessOK
<1>2. HoldsOK(q, p)'
  BY <1>1 DEF HoldsOK, Believable, Truthful
<1>3. ProgressOK(q, p)'
  BY <1>1 DEF ProgressOK, ContentOf, ResultOf, Root
<1>. QED BY <1>2, <1>3

\* A step of one process keeps the invariant if it keeps types, rows and its own part.
LEMMA OneStepKeeps ==
    ASSUME IInv, NEW q \in Processes, NEW label \in Labels, NEW l,
           pc' = [pc EXCEPT ![q] = label], local' = [local EXCEPT ![q] = l],
           \A o \in Processes \ {q} : held'[o] = held[o],
           disk' = disk, clock' = clock, units \subseteq units',
           TypeOK', RowsOK', ProcessOK(q)'
    PROVE  IInv'
<1>1. ASSUME NEW o \in Processes \ {q} PROVE ProcessOK(o)'
  <2>1. pc'[o] = pc[o] /\ local'[o] = local[o]
    BY DEF IInv, TypeOK
  <2>. QED BY <2>1, OthersKeep DEF IInv
<1>. QED BY <1>1 DEF IInv

\* Steps that only move on, or change locals which hold nothing of a file.
LEMMA QuietStepKeeps ==
    ASSUME IInv, NEW q \in Processes, NEW label \in Labels, NEW l \in Local,
           pc' = [pc EXCEPT ![q] = label], local' = [local EXCEPT ![q] = l],
           UNCHANGED <<disk, clock, units, held, registry, bounds>>,
           rows' \in [Worktrees -> Rows], RowsOK',
           parser_version' \in [Worktrees -> Versions \cup {None}],
           generation' \in [Worktrees -> Nat],
           l.root = local[q].root, l.version = local[q].version,
           l.existing = local[q].existing, l.subsumed = local[q].subsumed,
           l.paths = local[q].paths, l.reading = local[q].reading,
           l.result = local[q].result, l.errors = local[q].errors,
           pc[q] # "idle",
           label \in {"check", "collect"} => pc[q] \in {"check", "collect"},
           label \in Collected => pc[q] \in Collected,
           label \in Scanned =>
               \/ pc[q] \in Scanned
               \/ local[q].paths = {} /\ \A p \in Paths : local[q].reading[p] = None
    PROVE  IInv'
<1>1. TypeOK /\ ProcessOK(q)
  BY DEF IInv
<1>2. pc'[q] = label /\ local'[q] = l
  BY <1>1 DEF TypeOK
<1>3. ProcessOK(q)'
  BY <1>1, <1>2, GoOnKeeps
<1>4. TypeOK'
  <2>1. \A p \in Paths : l.reading[p] = None \/ l.result[p] = None
    BY <1>1 DEF TypeOK
  <2>. QED BY <1>1, <2>1, TypeKeeps DEF TypeOK, bounds
<1>. QED BY <1>3, <1>4, OneStepKeeps

-----------------------------------------------------------------------------
\* Steps that change locals only.
LEMMA CheckParserVersionKeeps ==
    ASSUME IInv, NEW q \in Processes, CheckParserVersion(q)
    PROVE  IInv'
<1>0. local \in [Processes -> Local] /\ local[q] \in Local
  BY DEF IInv, TypeOK
<1>1. PICK ok \in BOOLEAN : local' = [local EXCEPT ![q] = [local[q] EXCEPT !.parser_ok = ok]]
  BY <1>0 DEF CheckParserVersion
<1>. DEFINE l == [local[q] EXCEPT !.parser_ok = ok]
<1>2. l \in Local
  BY <1>0 DEF Local
<1>3. RowsOK'
  BY RowsKeep DEF IInv, CheckParserVersion, manifests
<1>4. /\ l.root = local[q].root /\ l.version = local[q].version
      /\ l.existing = local[q].existing /\ l.subsumed = local[q].subsumed
      /\ l.paths = local[q].paths /\ l.reading = local[q].reading
      /\ l.result = local[q].result /\ l.errors = local[q].errors
  BY <1>0 DEF Local
<1>5. local' = [local EXCEPT ![q] = l]
  BY <1>1
<1>. HIDE DEF l
<1>6. /\ rows' \in [Worktrees -> Rows]
      /\ parser_version' \in [Worktrees -> Versions \cup {None}]
      /\ generation' \in [Worktrees -> Nat]
      /\ UNCHANGED <<disk, clock, units, held, registry, bounds>>
  BY DEF CheckParserVersion, manifests, IInv, TypeOK
<1>7. pc[q] = "check" /\ pc' = [pc EXCEPT ![q] = "collect"]
  BY DEF CheckParserVersion, At, Goto
<1>. QED
  BY <1>2, <1>3, <1>4, <1>5, <1>6, <1>7, QuietStepKeeps
  DEF Labels, Collected, Scanned

LEMMA EndScanKeeps ==
    ASSUME IInv, NEW q \in Processes, EndScan(q)
    PROVE  IInv'
<1>1. local' = [local EXCEPT ![q] = local[q]] /\ local[q] \in Local
  BY DEF EndScan, IInv, TypeOK
<1>2. RowsOK'
  BY RowsKeep DEF IInv, EndScan, manifests
<1>. QED
  BY <1>1, <1>2, QuietStepKeeps
  DEF EndScan, At, Goto, manifests, Labels, Collected, Scanned, IInv, TypeOK

LEMMA ReadGenerationKeeps ==
    ASSUME IInv, NEW q \in Processes, ReadGeneration(q)
    PROVE  IInv'
<1>0. local \in [Processes -> Local] /\ local[q] \in Local
  BY DEF IInv, TypeOK
<1>1. PICK g \in Nat : local' = [local EXCEPT ![q] = [local[q] EXCEPT !.generation = g]]
  <2>1. generation[Root(q)] \in Nat
    BY <1>0 DEF IInv, TypeOK, Local, Root
  <2>2. PICK read \in {0, generation[Root(q)]} :
           local' = [local EXCEPT ![q].generation = read + 1]
    BY DEF ReadGeneration
  <2>3. read + 1 \in Nat
    BY <2>1
  <2>. QED BY <1>0, <2>2, <2>3
<1>. DEFINE l == [local[q] EXCEPT !.generation = g]
<1>2. l \in Local
  BY <1>0 DEF Local
<1>3. RowsOK'
  BY RowsKeep DEF IInv, ReadGeneration, manifests
<1>4. /\ l.root = local[q].root /\ l.version = local[q].version
      /\ l.existing = local[q].existing /\ l.subsumed = local[q].subsumed
      /\ l.paths = local[q].paths /\ l.reading = local[q].reading
      /\ l.result = local[q].result /\ l.errors = local[q].errors
  BY <1>0 DEF Local
<1>5. local' = [local EXCEPT ![q] = l]
  BY <1>1
<1>. HIDE DEF l
<1>6. /\ rows' \in [Worktrees -> Rows]
      /\ parser_version' \in [Worktrees -> Versions \cup {None}]
      /\ generation' \in [Worktrees -> Nat]
      /\ UNCHANGED <<disk, clock, units, held, registry, bounds>>
  BY DEF ReadGeneration, manifests, IInv, TypeOK
<1>7. pc[q] = "generation" /\ pc' = [pc EXCEPT ![q] = "find_dead"]
  BY DEF ReadGeneration, At, Goto
<1>. QED
  BY <1>2, <1>3, <1>4, <1>5, <1>6, <1>7, QuietStepKeeps
  DEF Labels, Collected, Scanned

LEMMA FindDeadKeeps ==
    ASSUME IInv, NEW q \in Processes, FindDead(q)
    PROVE  IInv'
<1>0. local \in [Processes -> Local] /\ local[q] \in Local
  BY DEF IInv, TypeOK
<1>1. PICK D \in SUBSET Paths : local' = [local EXCEPT ![q] = [local[q] EXCEPT !.dead = D]]
  BY <1>0 DEF FindDead
<1>. DEFINE l == [local[q] EXCEPT !.dead = D]
<1>2. l \in Local
  BY <1>0 DEF Local
<1>3. PICK label \in {"put", "clear"} : pc' = [pc EXCEPT ![q] = label]
  BY DEF FindDead, Goto
<1>4. RowsOK'
  BY RowsKeep DEF IInv, FindDead, manifests
<1>5. /\ l.root = local[q].root /\ l.version = local[q].version
      /\ l.existing = local[q].existing /\ l.subsumed = local[q].subsumed
      /\ l.paths = local[q].paths /\ l.reading = local[q].reading
      /\ l.result = local[q].result /\ l.errors = local[q].errors
  BY <1>0 DEF Local
<1>6. local' = [local EXCEPT ![q] = l]
  BY <1>1
<1>. HIDE DEF l
<1>7. /\ rows' \in [Worktrees -> Rows]
      /\ parser_version' \in [Worktrees -> Versions \cup {None}]
      /\ generation' \in [Worktrees -> Nat]
      /\ UNCHANGED <<disk, clock, units, held, registry, bounds>>
  BY DEF FindDead, manifests, IInv, TypeOK
<1>8. pc[q] = "find_dead"
  BY DEF FindDead, At
<1>. QED
  BY <1>2, <1>4, <1>3, <1>5, <1>6, <1>7, <1>8, QuietStepKeeps
  DEF Labels, Collected, Scanned

-----------------------------------------------------------------------------
\* Steps that change a manifest.
LEMMA ManifestStepKeeps ==
    ASSUME IInv, NEW q \in Processes, NEW label \in Scanned, pc[q] \in Scanned,
           pc' = [pc EXCEPT ![q] = label],
           UNCHANGED <<disk, clock, units, held, registry, local, bounds>>,
           rows' \in [Worktrees -> Rows], RowsOK',
           parser_version' \in [Worktrees -> Versions \cup {None}],
           generation' \in [Worktrees -> Nat]
    PROVE  IInv'
<1>1. local' = [local EXCEPT ![q] = local[q]] /\ local[q] \in Local
  BY DEF IInv, TypeOK
<1>. QED BY <1>1, QuietStepKeeps DEF Labels, Collected, Scanned

LEMMA ClearKeeps ==
    ASSUME IInv, NEW q \in Processes, Clear(q)
    PROVE  IInv'
<1>1. rows \in [Worktrees -> Rows] /\ NoRows \in Rows
  BY DEF IInv, TypeOK, Rows, NoRows
<1>2. /\ rows' \in [Worktrees -> Rows]
      /\ \A w \in Worktrees, p \in Paths : rows'[w][p] = rows[w][p] \/ rows'[w][p] = None
  BY <1>1 DEF Clear, NoRows
<1>3. RowsOK'
  BY <1>2 DEF Clear, IInv, RowsOK, RowsHaveUnits, Believable, Truthful
<1>. QED
  BY <1>2, <1>3, ManifestStepKeeps DEF Clear, At, Goto, Scanned, IInv, TypeOK

LEMMA DeleteRowsKeeps ==
    ASSUME IInv, NEW q \in Processes, DeleteRows(q)
    PROVE  IInv'
<1>1. rows \in [Worktrees -> Rows]
  BY DEF IInv, TypeOK
<1>2. /\ rows' \in [Worktrees -> Rows]
      /\ \A w \in Worktrees, p \in Paths : rows'[w][p] = rows[w][p] \/ rows'[w][p] = None
  BY <1>1 DEF DeleteRows, Rows
<1>3. RowsOK'
  BY <1>2 DEF DeleteRows, IInv, RowsOK, RowsHaveUnits, Believable, Truthful
<1>. QED
  BY <1>2, <1>3, ManifestStepKeeps DEF DeleteRows, At, Goto, Scanned, IInv, TypeOK

LEMMA SetParserVersionKeeps ==
    ASSUME IInv, NEW q \in Processes, SetParserVersion(q)
    PROVE  IInv'
<1>1. local[q] \in Local
  BY DEF IInv, TypeOK
<1>2. parser_version' \in [Worktrees -> Versions \cup {None}]
  BY <1>1 DEF SetParserVersion, IInv, TypeOK, Local
<1>3. RowsOK'
  BY RowsKeep DEF IInv, SetParserVersion
<1>. QED
  BY <1>2, <1>3, ManifestStepKeeps DEF SetParserVersion, At, Goto, Scanned, IInv, TypeOK

LEMMA SetGenerationKeeps ==
    ASSUME IInv, NEW q \in Processes, SetGeneration(q)
    PROVE  IInv'
<1>1. local[q] \in Local
  BY DEF IInv, TypeOK
<1>2. generation' \in [Worktrees -> Nat]
  BY <1>1 DEF SetGeneration, IInv, TypeOK, Local
<1>3. RowsOK'
  BY RowsKeep DEF IInv, SetGeneration
<1>. QED
  BY <1>2, <1>3, ManifestStepKeeps DEF SetGeneration, At, Goto, Scanned, IInv, TypeOK

\* The rows put are results, and those are believable and have their units.
LEMMA PutRowsKeeps ==
    ASSUME IInv, NEW q \in Processes, PutRows(q)
    PROVE  IInv'
<1>1. /\ rows \in [Worktrees -> Rows]
      /\ local[q] \in Local
      /\ local[q].result \in [Paths -> File \cup {None}]
      /\ local[q].generation \in Nat /\ local[q].version \in Versions
  BY DEF IInv, TypeOK, Local
<1>2. ASSUME NEW p \in Live(q)
      PROVE  /\ Row(q, p) \in ManifestRow
             /\ Row(q, p).content = local[q].result[p].content
             /\ Row(q, p).mtime = local[q].result[p].mtime
  BY <1>1 DEF Live, Row, ManifestRow, File
<1>3. /\ rows' \in [Worktrees -> Rows]
      /\ \A w \in Worktrees, p \in Paths :
            rows'[w][p] = rows[w][p] \/ (p \in Live(q) /\ rows'[w][p] = Row(q, p))
  BY <1>1, <1>2 DEF PutRows, Rows
<1>4. ASSUME NEW p \in Live(q)
      PROVE  /\ Believable(Row(q, p), p)
             /\ \E v \in Versions : <<Row(q, p).content, v>> \in units
  <2>1. HoldsOK(q, p) /\ p \in Paths /\ local[q].result[p] # None
    BY DEF IInv, ProcessOK, Live
  <2>2. Believable(local[q].result[p], p)
    BY <2>1 DEF HoldsOK
  <2>3. <<local[q].result[p].content, local[q].version>> \in units
    BY <2>1 DEF HoldsOK
  <2>4. Believable(Row(q, p), p)
    BY <1>2, <2>1, <2>2 DEF Believable, Truthful
  <2>. QED BY <1>1, <1>2, <2>3, <2>4
<1>5. RowsOK'
  <2>1. ASSUME NEW w \in Worktrees, NEW p \in Paths PROVE Believable(rows'[w][p], p)
    BY <1>3, <1>4 DEF IInv, RowsOK
  <2>2. ASSUME NEW w \in Worktrees, NEW p \in Paths, rows'[w][p] # None
        PROVE  \E v \in Versions : <<rows'[w][p].content, v>> \in units
    BY <1>3, <1>4, <2>2 DEF IInv, RowsOK, RowsHaveUnits
  <2>3. UNCHANGED <<disk, clock, units>>
    BY DEF PutRows
  <2>. QED BY <2>1, <2>2, <2>3 DEF IInv, RowsOK, RowsHaveUnits, Believable, Truthful
<1>. QED
  BY <1>3, <1>5, ManifestStepKeeps DEF PutRows, At, Goto, Scanned, IInv, TypeOK

-----------------------------------------------------------------------------
\* A scan begins and ends with nothing in hand.
LEMMA FreshHolds ==
    ASSUME NEW q \in Processes, NEW p \in Paths, NEW w \in Worktrees, NEW v \in Versions,
           local'[q] = Fresh(w, v)
    PROVE  /\ HoldsOK(q, p)'
           /\ local'[q].paths = {} /\ local'[q].reading[p] = None
           /\ local'[q].result[p] = None
BY DEF Fresh, HoldsOK, Believable, NoRows, Nothing

LEMMA OpenKeeps ==
    ASSUME IInv, NEW q \in Processes, NEW w \in Worktrees, NEW v \in Versions, Open(q, w, v)
    PROVE  IInv'
<1>1. TypeOK /\ local[q] \in Local /\ Fresh(w, v) \in Local
  BY FreshType DEF IInv, TypeOK
<1>2. pc'[q] = "check" /\ local'[q] = Fresh(w, v)
  BY <1>1 DEF Open, Goto, TypeOK
<1>3. ASSUME NEW p \in Paths PROVE ContentOf(p) \in Contents \cup {NoFile}
  BY <1>1 DEF ContentOf, TypeOK, File
<1>4. /\ held' \in [Processes -> [Paths -> SUBSET (Contents \cup {NoFile})]]
      /\ \A p \in Paths : ContentOf(p)' \in held'[q][p]
      /\ \A o \in Processes \ {q} : held'[o] = held[o]
  BY <1>1, <1>3 DEF Open, TypeOK, ContentOf
<1>5. TypeOK'
  <2>1. \A p \in Paths : Fresh(w, v).reading[p] = None \/ Fresh(w, v).result[p] = None
    BY DEF Fresh, NoRows
  <2>. QED
    BY <1>1, <1>4, <2>1, TypeKeeps DEF Open, Goto, Labels, TypeOK, manifests
<1>6. ProcessOK(q)'
  BY <1>2, <1>4, FreshHolds DEF ProcessOK, ProgressOK, Collected, Scanned
<1>7. RowsOK'
  BY RowsKeep DEF IInv, Open, manifests
<1>. QED
  BY <1>4, <1>5, <1>6, <1>7, OneStepKeeps DEF Open, Goto, Labels

LEMMA EndKeeps ==
    ASSUME IInv, NEW q \in Processes, Ended(q), crashes' \in Nat,
           UNCHANGED <<disk, clock, units, registry, manifests, scans>>
    PROVE  IInv'
<1>1. TypeOK /\ NoScan \in Local
  BY NoScanType DEF IInv
<1>2. PICK w \in Worktrees, v \in Versions : NoScan = Fresh(w, v)
  BY NoScanType
<1>3. pc'[q] = "idle" /\ local'[q] = Fresh(w, v)
  BY <1>1, <1>2 DEF Ended, Goto, TypeOK
<1>4. /\ held' \in [Processes -> [Paths -> SUBSET (Contents \cup {NoFile})]]
      /\ \A o \in Processes \ {q} : held'[o] = held[o]
  BY <1>1 DEF Ended, TypeOK, Nothing
<1>5. TypeOK'
  <2>1. \A p \in Paths : NoScan.reading[p] = None \/ NoScan.result[p] = None
    BY <1>2 DEF Fresh, NoRows
  <2>. QED
    BY <1>1, <1>4, <2>1, TypeKeeps DEF Ended, Goto, Labels, TypeOK, manifests
<1>6. ProcessOK(q)'
  BY <1>3, FreshHolds DEF ProcessOK, ProgressOK, Collected, Scanned
<1>7. RowsOK'
  BY RowsKeep DEF IInv, manifests
<1>. QED
  BY <1>4, <1>5, <1>6, <1>7, OneStepKeeps DEF Ended, Goto, Labels

-----------------------------------------------------------------------------
\* The paths and the rows a scan starts from.
LEMMA CollectPathsKeeps ==
    ASSUME IInv, NEW q \in Processes, CollectPaths(q)
    PROVE  IInv'
<1>. DEFINE found == {p \in Under[Root(q)] : disk[p] # NoFile}
            l == [local[q] EXCEPT !.paths = found]
<1>1. TypeOK /\ local \in [Processes -> Local] /\ local[q] \in Local /\ ProcessOK(q)
  BY DEF IInv, TypeOK
<1>2. Under[Root(q)] \subseteq Paths
  BY <1>1, UnderAssumption DEF Root, Local
<1>3. found \in SUBSET Paths
  BY <1>2
<1>4. l \in Local
  BY <1>1, <1>3 DEF Local
<1>5. /\ local' = [local EXCEPT ![q] = l]
      /\ pc' = [pc EXCEPT ![q] = "load"]
      /\ pc[q] = "collect"
      /\ UNCHANGED <<disk, clock, units, registry, rows, parser_version, generation, held,
                     scans, crashes>>
  BY <1>1 DEF CollectPaths, At, Goto, manifests, bounds
<1>6. pc'[q] = "load" /\ local'[q] = l
  BY <1>1, <1>5 DEF TypeOK
<1>7. ASSUME NEW p \in Paths PROVE local[q].reading[p] = None /\ local[q].result[p] = None
  BY <1>1, <1>5 DEF ProcessOK, ProgressOK
<1>8. /\ l.reading = local[q].reading /\ l.result = local[q].result
      /\ l.existing = local[q].existing /\ l.subsumed = local[q].subsumed
      /\ l.root = local[q].root /\ l.version = local[q].version
      /\ l.errors = local[q].errors /\ l.paths = found
  BY <1>1 DEF Local
<1>. HIDE DEF l
<1>9. TypeOK'
  BY <1>1, <1>4, <1>5, <1>7, <1>8, TypeKeeps DEF TypeOK, Labels, Collected
<1>10. ASSUME NEW p \in Paths PROVE HoldsOK(q, p)' /\ ProgressOK(q, p)'
  <2>1. HoldsOK(q, p) /\ ProgressOK(q, p)
    BY <1>1 DEF ProcessOK
  <2>2. HoldsOK(q, p)'
    BY <1>5, <1>6, <1>8, <2>1 DEF HoldsOK, Believable, Truthful
  <2>3. p \in Under[Root(q)] => p \in found \/ ContentOf(p) = NoFile
    BY DEF ContentOf
  <2>4. ContentOf(p) \in held[q][p]
    BY <1>5, <2>1 DEF ProgressOK
  <2>5. ResultOf(q, p)' = NoFile
    BY <1>6, <1>7, <1>8 DEF ResultOf
  <2>6. Root(q)' = Root(q) /\ ContentOf(p)' = ContentOf(p)
    BY <1>5, <1>6, <1>8 DEF Root, ContentOf
  <2>7. ProgressOK(q, p)'
    BY <1>5, <1>6, <1>7, <1>8, <2>3, <2>4, <2>5, <2>6 DEF ProgressOK, Collected, Scanned
  <2>. QED BY <2>2, <2>7
<1>11. RowsOK'
  BY <1>5, RowsKeep DEF IInv
<1>. QED
  BY <1>5, <1>9, <1>10, <1>11, OneStepKeeps DEF ProcessOK, Labels, Collected

\* A step in which a process changes only the rows it knows, to believable ones.
LEMMA KnowRowsKeeps ==
    ASSUME IInv, NEW q \in Processes, NEW label \in Collected \ Scanned, NEW l \in Local,
           pc[q] \in Collected \ Scanned,
           pc' = [pc EXCEPT ![q] = label], local' = [local EXCEPT ![q] = l],
           UNCHANGED <<disk, clock, units, held, registry, manifests, bounds>>,
           l.root = local[q].root, l.version = local[q].version,
           l.paths = local[q].paths, l.reading = local[q].reading,
           l.result = local[q].result, l.errors = local[q].errors,
           \A p \in Paths : /\ Believable(l.existing[p], p)
                            /\ \A row \in l.subsumed[p] : Believable(row, p)
    PROVE  IInv'
<1>1. TypeOK /\ ProcessOK(q)
  BY DEF IInv
<1>2. pc'[q] = label /\ local'[q] = l
  BY <1>1 DEF TypeOK
<1>3. ASSUME NEW p \in Paths PROVE HoldsOK(q, p)' /\ ProgressOK(q, p)'
  <2>1. HoldsOK(q, p) /\ ProgressOK(q, p)
    BY <1>1 DEF ProcessOK
  <2>2. HoldsOK(q, p)'
    BY <1>2, <2>1 DEF HoldsOK, Believable, Truthful
  <2>3. ProgressOK(q, p)'
    BY <1>2, <2>1 DEF ProgressOK, ContentOf, ResultOf, Root, Collected, Scanned
  <2>. QED BY <2>2, <2>3
<1>4. TypeOK'
  <2>1. \A p \in Paths : l.reading[p] = None \/ l.result[p] = None
    BY <1>1 DEF TypeOK
  <2>. QED BY <1>1, <2>1, TypeKeeps DEF TypeOK, manifests, bounds, Labels
<1>5. RowsOK'
  BY RowsKeep DEF IInv, manifests
<1>. QED BY <1>3, <1>4, <1>5, OneStepKeeps DEF ProcessOK, Labels

LEMMA LoadRowsKeeps ==
    ASSUME IInv, NEW q \in Processes, LoadRows(q)
    PROVE  IInv'
<1>1. TypeOK /\ local \in [Processes -> Local] /\ local[q] \in Local /\ ProcessOK(q)
  BY DEF IInv, TypeOK
<1>2. PICK existing \in {NoRows, rows[Root(q)]}, others \in {{}, Related(Root(q))} :
         local' = [local EXCEPT ![q].existing = existing, ![q].others = others]
  BY DEF LoadRows
<1>3. Root(q) \in Worktrees /\ NoRows \in Rows /\ Related(Root(q)) \subseteq Worktrees
  BY <1>1 DEF Root, Local, Rows, NoRows, Related, TypeOK
<1>. DEFINE l == [local[q] EXCEPT !.existing = existing, !.others = others]
<1>4. existing \in Rows /\ others \in SUBSET Worktrees
  BY <1>1, <1>3 DEF TypeOK
<1>5. l \in Local
  BY <1>1, <1>4 DEF Local
<1>6. /\ l.existing = existing /\ l.subsumed = local[q].subsumed
      /\ l.root = local[q].root /\ l.version = local[q].version
      /\ l.paths = local[q].paths /\ l.reading = local[q].reading
      /\ l.result = local[q].result /\ l.errors = local[q].errors
  BY <1>1 DEF Local
<1>7. local' = [local EXCEPT ![q] = l]
  BY <1>1, <1>2
<1>. HIDE DEF l
<1>8. ASSUME NEW p \in Paths
      PROVE  /\ Believable(l.existing[p], p)
             /\ \A row \in l.subsumed[p] : Believable(row, p)
  <2>1. Believable(rows[Root(q)][p], p) /\ Believable(None, p) /\ HoldsOK(q, p)
    BY <1>1, <1>3 DEF IInv, RowsOK, Believable, ProcessOK
  <2>2. existing[p] = rows[Root(q)][p] \/ existing[p] = None
    BY <1>2 DEF NoRows
  <2>. QED BY <1>6, <2>1, <2>2 DEF HoldsOK
<1>. QED
  BY <1>5, <1>6, <1>7, <1>8, KnowRowsKeeps DEF LoadRows, At, Goto, Collected, Scanned

LEMMA ReadOtherKeeps ==
    ASSUME IInv, NEW q \in Processes, NEW o \in Worktrees, ReadOther(q, o)
    PROVE  IInv'
<1>1. TypeOK /\ local \in [Processes -> Local] /\ local[q] \in Local /\ ProcessOK(q)
  BY DEF IInv, TypeOK
<1>2. PICK read \in {{}, {p \in Under[Root(q)] : rows[o][p] # None}} :
         local' = [local EXCEPT
              ![q].others = @ \ {o},
              ![q].subsumed = [p \in Paths |-> @[p] \cup (IF p \in read THEN {rows[o][p]} ELSE {})]]
  BY DEF ReadOther
<1>. DEFINE S == [p \in Paths |->
                     local[q].subsumed[p] \cup (IF p \in read THEN {rows[o][p]} ELSE {})]
            l == [local[q] EXCEPT !.others = @ \ {o}, !.subsumed = S]
<1>3. S \in [Paths -> SUBSET ManifestRow]
  <2>1. ASSUME NEW p \in Paths, p \in read PROVE rows[o][p] \in ManifestRow
    BY <1>1, <1>2, <2>1 DEF TypeOK, Rows
  <2>2. \A p \in Paths : local[q].subsumed[p] \subseteq ManifestRow
    BY <1>1 DEF Local
  <2>. QED BY <2>1, <2>2
<1>4. local[q].others \ {o} \in SUBSET Worktrees
  BY <1>1 DEF Local
<1>5. local' = [local EXCEPT ![q] = l]
  BY <1>1, <1>2
<1>6. \A p \in Paths : \A row \in S[p] : row \in local[q].subsumed[p] \/ row = rows[o][p]
  OBVIOUS
<1>. HIDE DEF S
<1>7. l \in Local
  BY <1>1, <1>3, <1>4 DEF Local
<1>8. /\ l.existing = local[q].existing /\ l.subsumed = S
      /\ l.root = local[q].root /\ l.version = local[q].version
      /\ l.paths = local[q].paths /\ l.reading = local[q].reading
      /\ l.result = local[q].result /\ l.errors = local[q].errors
  BY <1>1 DEF Local
<1>. HIDE DEF l
<1>9. ASSUME NEW p \in Paths
      PROVE  /\ Believable(l.existing[p], p)
             /\ \A row \in l.subsumed[p] : Believable(row, p)
  <2>1. Believable(rows[o][p], p) /\ HoldsOK(q, p)
    BY <1>1 DEF IInv, RowsOK, ProcessOK
  <2>. QED BY <1>6, <1>8, <2>1 DEF HoldsOK
<1>10. pc' = [pc EXCEPT ![q] = "subsume"] /\ pc[q] = "subsume"
  BY <1>1 DEF ReadOther, At, TypeOK
<1>. QED
  BY <1>5, <1>7, <1>8, <1>9, <1>10, KnowRowsKeeps DEF ReadOther, Collected, Scanned

LEMMA MergeRowsKeeps ==
    ASSUME IInv, NEW q \in Processes, MergeRows(q)
    PROVE  IInv'
<1>1. TypeOK /\ local \in [Processes -> Local] /\ local[q] \in Local /\ ProcessOK(q)
  BY DEF IInv, TypeOK
<1>2. PICK merged \in [Paths -> UNION {Candidates(q, p) : p \in Paths}] :
         /\ \A p \in Paths : merged[p] \in Candidates(q, p)
         /\ local' = [local EXCEPT ![q].existing = merged, ![q].subsumed = Nothing]
  BY DEF MergeRows
<1>3. ASSUME NEW p \in Paths
      PROVE  merged[p] \in ManifestRow \cup {None} /\ Believable(merged[p], p)
  <2>1. HoldsOK(q, p) /\ Believable(None, p)
    BY <1>1 DEF ProcessOK, Believable
  <2>2. /\ local[q].existing[p] \in ManifestRow \cup {None}
        /\ local[q].subsumed[p] \subseteq ManifestRow
    BY <1>1 DEF Local, Rows
  <2>3. \/ merged[p] = local[q].existing[p]
        \/ merged[p] \in local[q].subsumed[p]
        \/ merged[p] = None
    BY <1>2 DEF Candidates, Newest
  <2>. QED BY <2>1, <2>2, <2>3 DEF HoldsOK
<1>4. merged \in Rows
  BY <1>2, <1>3 DEF Rows
<1>. DEFINE l == [local[q] EXCEPT !.existing = merged, !.subsumed = Nothing]
<1>5. l \in Local
  <2>1. Nothing \in [Paths -> SUBSET ManifestRow]
    BY DEF Nothing
  <2>. QED BY <1>1, <1>4, <2>1 DEF Local
<1>6. /\ l.existing = merged /\ l.subsumed = Nothing
      /\ l.root = local[q].root /\ l.version = local[q].version
      /\ l.paths = local[q].paths /\ l.reading = local[q].reading
      /\ l.result = local[q].result /\ l.errors = local[q].errors
  BY <1>1 DEF Local
<1>7. local' = [local EXCEPT ![q] = l]
  BY <1>1, <1>2
<1>. HIDE DEF l
<1>8. ASSUME NEW p \in Paths
      PROVE  /\ Believable(l.existing[p], p)
             /\ \A row \in l.subsumed[p] : Believable(row, p)
  BY <1>3, <1>6 DEF Nothing
<1>. QED
  BY <1>5, <1>6, <1>7, <1>8, KnowRowsKeeps DEF MergeRows, At, Goto, Collected, Scanned

-----------------------------------------------------------------------------
\* A step of the scan that is about one path.
LEMMA OnePathKeeps ==
    ASSUME IInv, NEW q \in Processes, NEW p \in Paths, NEW l \in Local, pc[q] = "scan",
           local' = [local EXCEPT ![q] = l],
           UNCHANGED <<disk, clock, registry, manifests, pc, held, bounds>>,
           units \subseteq units', units' \subseteq Contents \X Versions,
           l.root = local[q].root, l.version = local[q].version,
           l.existing = local[q].existing, l.subsumed = local[q].subsumed,
           p \notin l.paths, l.paths \subseteq local[q].paths,
           \A o \in Paths \ {p} :
               /\ l.reading[o] = local[q].reading[o] /\ l.result[o] = local[q].result[o]
               /\ o \in local[q].paths => o \in l.paths
               /\ o \in local[q].errors => o \in l.errors,
           l.reading[p] = None \/ l.result[p] = None,
           l.reading[p] # None => l.reading[p] <= clock,
           l.result[p] # None =>
               /\ Believable(l.result[p], p)
               /\ <<l.result[p].content, l.version>> \in units'
               /\ l.result[p].content \in held[q][p],
           l.result[p] # None \/ l.reading[p] # None \/ p \in l.errors
    PROVE  IInv'
<1>1. TypeOK /\ ProcessOK(q)
  BY DEF IInv
<1>2. pc' = [pc EXCEPT ![q] = "scan"] /\ pc'[q] = "scan" /\ local'[q] = l
  BY <1>1 DEF TypeOK
<1>3. ASSUME NEW o \in Paths PROVE HoldsOK(q, o)'
  <2>1. HoldsOK(q, o)
    BY <1>1 DEF ProcessOK
  <2>. QED BY <1>2, <2>1 DEF HoldsOK, Believable, Truthful
<1>4. ASSUME NEW o \in Paths PROVE ProgressOK(q, o)'
  <2>1. ProgressOK(q, o)
    BY <1>1 DEF ProcessOK
  <2>. QED BY <1>2, <2>1 DEF ProgressOK, ContentOf, ResultOf, Root, Collected, Scanned
<1>5. TypeOK'
  <2>1. \A o \in Paths : l.reading[o] = None \/ l.result[o] = None
    BY <1>1 DEF TypeOK
  <2>. QED
    BY <1>1, <1>2, <2>1, TypeKeeps DEF TypeOK, manifests, bounds, Labels, Collected
<1>6. RowsOK'
  BY RowsKeep DEF IInv, manifests
<1>. QED BY <1>2, <1>3, <1>4, <1>5, <1>6, OneStepKeeps DEF ProcessOK, Labels, Collected

LEMMA StatFileKeeps ==
    ASSUME IInv, NEW q \in Processes, NEW p \in Paths, StatFile(q, p)
    PROVE  IInv'
<1>1. TypeOK /\ local \in [Processes -> Local] /\ local[q] \in Local /\ ProcessOK(q)
  BY DEF IInv, TypeOK
<1>2. /\ pc[q] = "scan" /\ p \in local[q].paths
      /\ UNCHANGED <<disk, clock, units, registry, manifests, pc, held, bounds>>
  BY DEF StatFile, At
<1>3. HoldsOK(q, p) /\ ProgressOK(q, p)
  BY <1>1 DEF ProcessOK
<1>4. local[q].reading[p] = None /\ local[q].result[p] = None
  BY <1>2, <1>3 DEF ProgressOK
<1>5. units \subseteq Contents \X Versions
  BY <1>1 DEF TypeOK
<1>6. CASE local' = [local EXCEPT ![q].paths = @ \ {p}, ![q].errors = @ \cup {p}]
  <2>. DEFINE l == [local[q] EXCEPT !.paths = @ \ {p}, !.errors = @ \cup {p}]
  <2>1. l \in Local /\ local' = [local EXCEPT ![q] = l]
    BY <1>1, <1>6 DEF Local
  <2>2. /\ l.root = local[q].root /\ l.version = local[q].version
        /\ l.existing = local[q].existing /\ l.subsumed = local[q].subsumed
        /\ l.paths = local[q].paths \ {p} /\ l.errors = local[q].errors \cup {p}
        /\ l.reading = local[q].reading /\ l.result = local[q].result
    BY <1>1 DEF Local
  <2>. HIDE DEF l
  <2>. QED BY <1>2, <1>4, <1>5, <2>1, <2>2, OnePathKeeps
<1>7. CASE /\ disk[p] # NoFile /\ FreshRow(q, p)
           /\ local' = [local EXCEPT
                 ![q].paths = @ \ {p},
                 ![q].result[p] = [content |-> local[q].existing[p].content,
                                   mtime |-> disk[p].mtime]]
  <2>1. /\ local[q].existing[p] \in ManifestRow /\ disk[p] \in File
        /\ local[q].result \in [Paths -> File \cup {None}]
    BY <1>1, <1>7 DEF FreshRow, Local, Rows, TypeOK
  <2>. DEFINE file == [content |-> local[q].existing[p].content, mtime |-> disk[p].mtime]
  <2>2. file \in File /\ file.content = local[q].existing[p].content
        /\ file.mtime = disk[p].mtime
    BY <2>1 DEF File, ManifestRow
  <2>3. local[q].existing[p].content = disk[p].content
    BY <1>3, <1>7 DEF FreshRow, HoldsOK, Believable, Truthful
  <2>4. file.content \in held[q][p]
    BY <1>2, <1>3, <1>7, <2>2, <2>3 DEF ProgressOK, ContentOf
  <2>5. Believable(file, p)
    BY <1>7, <2>2, <2>3 DEF Believable, Truthful, IInv, RowsOK
  <2>6. <<file.content, local[q].version>> \in units
    BY <1>7, <2>2 DEF FreshRow
  <2>. DEFINE results == [local[q].result EXCEPT ![p] = file]
              l == [local[q] EXCEPT !.paths = @ \ {p}, !.result = results]
  <2>7. local' = [local EXCEPT ![q] = l]
    BY <1>1, <1>7
  <2>. HIDE DEF file
  <2>8. /\ results \in [Paths -> File \cup {None}] /\ results[p] = file
        /\ \A o \in Paths \ {p} : results[o] = local[q].result[o]
    BY <2>1, <2>2
  <2>. HIDE DEF results
  <2>9. l \in Local
    BY <1>1, <2>8 DEF Local
  <2>10. /\ l.root = local[q].root /\ l.version = local[q].version
         /\ l.existing = local[q].existing /\ l.subsumed = local[q].subsumed
         /\ l.paths = local[q].paths \ {p} /\ l.errors = local[q].errors
         /\ l.reading = local[q].reading /\ l.result = results
    BY <1>1 DEF Local
  <2>. HIDE DEF l
  <2>11. file # None
    BY <2>2, SentinelAssumption DEF File
  <2>. QED
    BY <1>2, <1>4, <1>5, <2>4, <2>5, <2>6, <2>7, <2>8, <2>9, <2>10, <2>11, OnePathKeeps
<1>8. CASE /\ disk[p] # NoFile
           /\ local' = [local EXCEPT ![q].paths = @ \ {p}, ![q].reading[p] = disk[p].mtime]
  <2>1. /\ disk[p].mtime \in Nat /\ disk[p].mtime <= clock
        /\ local[q].reading \in [Paths -> Nat \cup {None}]
    BY <1>1, <1>8 DEF IInv, RowsOK, TypeOK, File, Local
  <2>. DEFINE times == [local[q].reading EXCEPT ![p] = disk[p].mtime]
              l == [local[q] EXCEPT !.paths = @ \ {p}, !.reading = times]
  <2>2. local' = [local EXCEPT ![q] = l]
    BY <1>1, <1>8
  <2>3. /\ times \in [Paths -> Nat \cup {None}] /\ times[p] = disk[p].mtime
        /\ \A o \in Paths \ {p} : times[o] = local[q].reading[o]
    BY <2>1
  <2>. HIDE DEF times
  <2>4. l \in Local
    BY <1>1, <2>3 DEF Local
  <2>5. /\ l.root = local[q].root /\ l.version = local[q].version
        /\ l.existing = local[q].existing /\ l.subsumed = local[q].subsumed
        /\ l.paths = local[q].paths \ {p} /\ l.errors = local[q].errors
        /\ l.reading = times /\ l.result = local[q].result
    BY <1>1 DEF Local
  <2>. HIDE DEF l
  <2>6. times[p] # None
    BY <2>1, <2>3, SentinelAssumption
  <2>. QED BY <1>2, <1>4, <1>5, <2>1, <2>2, <2>3, <2>4, <2>5, <2>6, OnePathKeeps
<1>. QED BY <1>6, <1>7, <1>8 DEF StatFile

\* The row of a file that is read gets the mtime of its stat.  If that is still
\* the file's, it was not changed in between; if not, it never will be again.
LEMMA ReadFileKeeps ==
    ASSUME IInv, NEW q \in Processes, NEW p \in Paths, ReadFile(q, p)
    PROVE  IInv'
<1>1. TypeOK /\ local \in [Processes -> Local] /\ local[q] \in Local /\ ProcessOK(q)
  BY DEF IInv, TypeOK
<1>2. /\ pc[q] = "scan" /\ local[q].reading[p] # None
      /\ UNCHANGED <<disk, clock, registry, manifests, pc, held, bounds>>
  BY DEF ReadFile, At
<1>3. HoldsOK(q, p) /\ ProgressOK(q, p)
  BY <1>1 DEF ProcessOK
<1>4. p \notin local[q].paths /\ local[q].result[p] = None
  BY <1>1, <1>2, <1>3 DEF ProgressOK, TypeOK
<1>5. /\ local[q].reading \in [Paths -> Nat \cup {None}]
      /\ local[q].result \in [Paths -> File \cup {None}]
      /\ local[q].version \in Versions
      /\ units \subseteq Contents \X Versions
  BY <1>1 DEF TypeOK, Local
<1>. DEFINE times == [local[q].reading EXCEPT ![p] = None]
<1>6. /\ times \in [Paths -> Nat \cup {None}] /\ times[p] = None
      /\ \A o \in Paths \ {p} : times[o] = local[q].reading[o]
  BY <1>5
<1>7. CASE /\ local' = [local EXCEPT ![q].reading[p] = None, ![q].errors = @ \cup {p}]
           /\ UNCHANGED units
  <2>. DEFINE l == [local[q] EXCEPT !.reading = times, !.errors = @ \cup {p}]
  <2>1. local' = [local EXCEPT ![q] = l]
    BY <1>1, <1>7
  <2>. HIDE DEF times
  <2>2. l \in Local
    BY <1>1, <1>6 DEF Local
  <2>3. /\ l.root = local[q].root /\ l.version = local[q].version
        /\ l.existing = local[q].existing /\ l.subsumed = local[q].subsumed
        /\ l.paths = local[q].paths /\ l.errors = local[q].errors \cup {p}
        /\ l.reading = times /\ l.result = local[q].result
    BY <1>1 DEF Local
  <2>. HIDE DEF l
  <2>4. /\ p \notin l.paths /\ l.paths \subseteq local[q].paths
        /\ l.reading[p] = None /\ l.result[p] = None /\ p \in l.errors
    BY <1>4, <1>6, <2>3
  <2>5. \A o \in Paths \ {p} :
           /\ l.reading[o] = local[q].reading[o] /\ l.result[o] = local[q].result[o]
           /\ o \in local[q].paths => o \in l.paths
           /\ o \in local[q].errors => o \in l.errors
    BY <1>6, <2>3
  <2>. QED BY <1>2, <1>5, <1>7, <2>1, <2>2, <2>3, <2>4, <2>5, OnePathKeeps
<1>8. CASE /\ disk[p] # NoFile
           /\ units' = units \cup {<<disk[p].content, local[q].version>>}
           /\ local' = [local EXCEPT
                ![q].reading[p] = None,
                ![q].result[p] = [content |-> disk[p].content, mtime |-> local[q].reading[p]]]
  <2>. DEFINE file == [content |-> disk[p].content, mtime |-> local[q].reading[p]]
              results == [local[q].result EXCEPT ![p] = file]
              l == [local[q] EXCEPT !.reading = times, !.result = results]
  <2>1. local' = [local EXCEPT ![q] = l]
    BY <1>1, <1>8
  <2>2. disk[p] \in File /\ local[q].reading[p] \in Nat
    BY <1>1, <1>2, <1>5, <1>8 DEF TypeOK
  <2>3. file \in File /\ file.content = disk[p].content /\ file.mtime = local[q].reading[p]
    BY <2>2 DEF File
  <2>4. file.content \in held[q][p]
    BY <1>2, <1>3, <1>8, <2>3 DEF ProgressOK, ContentOf
  <2>5. Believable(file, p)
    BY <1>2, <1>3, <2>3 DEF Believable, Truthful, HoldsOK
  <2>6. /\ <<file.content, local[q].version>> \in units'
        /\ units \subseteq units' /\ units' \subseteq Contents \X Versions
    BY <1>5, <1>8, <2>2, <2>3 DEF File
  <2>7. file # None
    BY <2>3, SentinelAssumption DEF File
  <2>. HIDE DEF times, file
  <2>8. /\ results \in [Paths -> File \cup {None}] /\ results[p] = file
        /\ \A o \in Paths \ {p} : results[o] = local[q].result[o]
    BY <1>5, <2>3
  <2>. HIDE DEF results
  <2>9. l \in Local
    BY <1>1, <1>6, <2>8 DEF Local
  <2>10. /\ l.root = local[q].root /\ l.version = local[q].version
         /\ l.existing = local[q].existing /\ l.subsumed = local[q].subsumed
         /\ l.paths = local[q].paths /\ l.errors = local[q].errors
         /\ l.reading = times /\ l.result = results
    BY <1>1 DEF Local
  <2>. HIDE DEF l
  <2>11. p \notin l.paths /\ l.reading[p] = None /\ l.result[p] = file
    BY <1>4, <1>6, <2>8, <2>10
  <2>12. \A o \in Paths \ {p} :
            /\ l.reading[o] = local[q].reading[o] /\ l.result[o] = local[q].result[o]
            /\ o \in local[q].paths => o \in l.paths
            /\ o \in local[q].errors => o \in l.errors
    BY <1>6, <2>8, <2>10
  <2>13. /\ l.result[p] # None /\ Believable(l.result[p], p)
         /\ <<l.result[p].content, l.version>> \in units'
         /\ l.result[p].content \in held[q][p]
    BY <2>4, <2>5, <2>6, <2>7, <2>10, <2>11
  <2>14. /\ l.root = local[q].root /\ l.version = local[q].version
         /\ l.existing = local[q].existing /\ l.subsumed = local[q].subsumed
         /\ l.paths \subseteq local[q].paths
    BY <2>10
  <2>. QED
    BY <1>2, <2>1, <2>6, <2>9, <2>11, <2>12, <2>13, <2>14, OnePathKeeps
<1>. QED BY <1>7, <1>8 DEF ReadFile

-----------------------------------------------------------------------------
\* A file gets an mtime that nobody holds.
LEMMA ChangeOnDiskKeeps ==
    ASSUME IInv, NEW p \in Paths, ChangeOnDisk(p)
    PROVE  IInv'
<1>1. TypeOK
  BY DEF IInv
<1>2. PICK file \in {[content |-> c, mtime |-> clock + 1] : c \in Contents} \cup {NoFile} :
         disk' = [disk EXCEPT ![p] = file]
  BY DEF ChangeOnDisk
<1>3. /\ clock' = clock + 1 /\ clock \in Nat
      /\ UNCHANGED <<units, registry, rows, parser_version, generation, pc, local,
                     scans, crashes>>
  BY <1>1 DEF ChangeOnDisk, manifests, bounds, TypeOK
<1>4. /\ file \in File \cup {NoFile}
      /\ file # NoFile => file.mtime = clock + 1
  BY <1>3 DEF File
<1>5. /\ disk' \in [Paths -> File \cup {NoFile}] /\ disk'[p] = file
      /\ \A o \in Paths \ {p} : disk'[o] = disk[o]
  BY <1>1, <1>2, <1>4 DEF TypeOK
<1>6. ContentOf(p)' \in Contents \cup {NoFile}
  BY <1>4, <1>5 DEF ContentOf, File
<1>7. held' \in [Processes -> [Paths -> SUBSET (Contents \cup {NoFile})]]
  BY <1>1, <1>6 DEF ChangeOnDisk, TypeOK
<1>8. ASSUME NEW q \in Processes, NEW o \in Paths
      PROVE  /\ held[q][o] \subseteq held'[q][o]
             /\ pc[q] # "idle" => ContentOf(p)' \in held'[q][p]
  BY <1>1, <1>8 DEF ChangeOnDisk, TypeOK
<1>9. TypeOK'
  BY <1>1, <1>3, <1>5, <1>7 DEF TypeOK
<1>10. ASSUME NEW row \in ManifestRow \cup File \cup {None}, NEW o \in Paths, Believable(row, o)
       PROVE  Believable(row, o)'
  <2>1. CASE row = None
    BY <2>1 DEF Believable
  <2>2. CASE row # None
    <3>1. row.mtime \in Nat /\ row.mtime <= clock /\ Truthful(row, o)
      BY <1>10, <2>2 DEF Believable, ManifestRow, File
    <3>2. CASE o = p
      BY <1>3, <1>4, <1>5, <3>1, <3>2 DEF Believable, Truthful
    <3>3. CASE o # p
      BY <1>3, <1>5, <3>1, <3>3 DEF Believable, Truthful
    <3>. QED BY <3>2, <3>3
  <2>. QED BY <2>1, <2>2
<1>11. RowsOK'
  <2>1. ASSUME NEW o \in Paths, disk'[o] # NoFile PROVE disk'[o].mtime <= clock'
    <3>1. CASE o = p
      BY <1>3, <1>4, <1>5, <2>1, <3>1
    <3>2. CASE o # p
      <4>1. disk'[o] = disk[o] /\ disk[o] \in File /\ disk[o].mtime <= clock
        BY <1>1, <1>5, <2>1, <3>2 DEF IInv, RowsOK, TypeOK
      <4>. QED BY <1>3, <4>1 DEF File
    <3>. QED BY <3>1, <3>2
  <2>2. ASSUME NEW w \in Worktrees, NEW o \in Paths PROVE Believable(rows[w][o], o)'
    <3>1. rows[w][o] \in ManifestRow \cup {None} /\ Believable(rows[w][o], o)
      BY <1>1 DEF IInv, RowsOK, TypeOK, Rows
    <3>. QED BY <1>3, <1>10, <3>1
  <2>. QED BY <1>3, <2>1, <2>2 DEF IInv, RowsOK, RowsHaveUnits
<1>12. ASSUME NEW q \in Processes, NEW o \in Paths PROVE HoldsOK(q, o)' /\ ProgressOK(q, o)'
  <2>1. HoldsOK(q, o) /\ ProgressOK(q, o) /\ local[q] \in Local
    BY <1>1 DEF IInv, ProcessOK, TypeOK
  <2>2. /\ local[q].existing[o] \in ManifestRow \cup {None}
        /\ local[q].subsumed[o] \subseteq ManifestRow
        /\ local[q].reading[o] \in Nat \cup {None}
        /\ local[q].result[o] \in File \cup {None}
    BY <2>1 DEF Local, Rows
  <2>3. Believable(local[q].existing[o], o)'
    BY <1>3, <1>10, <2>1, <2>2 DEF HoldsOK
  <2>4. \A row \in local[q].subsumed[o] : Believable(row, o)'
    BY <1>10, <2>1, <2>2 DEF HoldsOK
  <2>5. local[q].result[o] # None => Believable(local[q].result[o], o)'
    BY <1>3, <1>10, <2>1, <2>2 DEF HoldsOK
  <2>6. local[q].reading[o] # None => local[q].reading[o] <= clock'
    BY <1>3, <2>1, <2>2 DEF HoldsOK
  <2>7. HoldsOK(q, o)'
    BY <1>3, <2>1, <2>3, <2>4, <2>5, <2>6 DEF HoldsOK
  <2>8. pc[q] # "idle" => ContentOf(o)' \in held'[q][o]
    <3>1. CASE o = p
      BY <1>8, <3>1
    <3>2. CASE o # p
      BY <1>5, <1>8, <2>1, <3>2 DEF ProgressOK, ContentOf
    <3>. QED BY <3>1, <3>2
  <2>9. ProgressOK(q, o)'
    BY <1>3, <1>8, <2>1, <2>8 DEF ProgressOK, ResultOf, Root
  <2>. QED BY <2>7, <2>9
<1>. QED BY <1>9, <1>11, <1>12 DEF IInv, ProcessOK

-----------------------------------------------------------------------------
(***************************************************************************)
(* The invariant and what follows from it.                                 *)
(***************************************************************************)
LEMMA InitKeeps == Init => IInv
<1>. SUFFICES ASSUME Init PROVE IInv
  OBVIOUS
<1>1. /\ pc = [q \in Processes |-> "idle"]
      /\ local = [q \in Processes |-> NoScan] /\ NoScan \in Local
      /\ held = [q \in Processes |-> Nothing]
      /\ clock = 0 /\ units = {} /\ scans = 0 /\ crashes = 0 /\ registry = {}
      /\ rows = [w \in Worktrees |-> NoRows]
      /\ parser_version = [w \in Worktrees |-> None]
      /\ generation = [w \in Worktrees |-> 0]
  BY NoScanType DEF Init
<1>2. PICK w \in Worktrees, v \in Versions : NoScan = Fresh(w, v)
  BY NoScanType
<1>3. /\ disk \in [Paths -> File \cup {NoFile}]
      /\ \A p \in Paths : disk[p] # NoFile => disk[p].mtime <= clock
  <2>1. disk \in [Paths -> {[content |-> c, mtime |-> 0] : c \in Contents} \cup {NoFile}]
    BY DEF Init
  <2>2. \A f \in {[content |-> c, mtime |-> 0] : c \in Contents} : f \in File /\ f.mtime = 0
    BY DEF File
  <2>3. \A p \in Paths : /\ disk[p] \in File \cup {NoFile}
                         /\ disk[p] # NoFile => disk[p].mtime <= clock
    BY <1>1, <2>1, <2>2
  <2>. QED BY <2>1, <2>3
<1>4. NoRows \in Rows /\ Nothing \in [Paths -> SUBSET (Contents \cup {NoFile})]
  BY DEF Rows, NoRows, Nothing
<1>5. \A p \in Paths : NoScan.reading[p] = None /\ NoScan.result[p] = None
  BY <1>2 DEF Fresh, NoRows
<1>6. TypeOK
  BY <1>1, <1>3, <1>4, <1>5 DEF TypeOK, Labels
<1>7. RowsOK
  BY <1>1, <1>3 DEF RowsOK, RowsHaveUnits, Believable, NoRows
<1>8. ASSUME NEW q \in Processes, NEW p \in Paths PROVE HoldsOK(q, p) /\ ProgressOK(q, p)
  BY <1>1, <1>2 DEF Fresh, HoldsOK, ProgressOK, Believable, NoRows, Nothing, Collected, Scanned
<1>. QED BY <1>6, <1>7, <1>8 DEF IInv, ProcessOK

LEMMA StepKeeps == IInv /\ [Next]_vars => IInv'
<1>. SUFFICES ASSUME IInv, [Next]_vars PROVE IInv'
  OBVIOUS
<1>1. CASE UNCHANGED vars
  <2>1. /\ UNCHANGED <<disk, clock, units, registry, rows, parser_version, generation>>
        /\ UNCHANGED <<pc, local, held, scans, crashes>>
    BY <1>1 DEF vars, manifests, bounds
  <2>2. TypeOK'
    BY <2>1 DEF IInv, TypeOK
  <2>3. RowsOK'
    BY <2>1, RowsKeep DEF IInv
  <2>4. ASSUME NEW q \in Processes PROVE ProcessOK(q)'
    BY <2>1, OthersKeep DEF IInv
  <2>. QED BY <2>2, <2>3, <2>4 DEF IInv
<1>2. ASSUME NEW q \in Processes, Step(q) PROVE IInv'
  <2>1. ASSUME Return(q) PROVE IInv'
    BY <2>1, EndKeeps DEF Return, bounds, IInv, TypeOK
  <2>2. ASSUME Crash(q) PROVE IInv'
    BY <2>2, EndKeeps DEF Crash, IInv, TypeOK
  <2>3. ASSUME NEW w \in Worktrees, NEW v \in Versions, Open(q, w, v) PROVE IInv'
    BY <2>3, OpenKeeps
  <2>4. ASSUME NEW o \in Worktrees, ReadOther(q, o) PROVE IInv'
    BY <2>4, ReadOtherKeeps
  <2>5. ASSUME NEW p \in Paths, StatFile(q, p) \/ ReadFile(q, p) PROVE IInv'
    BY <2>5, StatFileKeeps, ReadFileKeeps
  <2>6. ASSUME CheckParserVersion(q) \/ CollectPaths(q) \/ LoadRows(q) \/ MergeRows(q)
        PROVE  IInv'
    BY <2>6, CheckParserVersionKeeps, CollectPathsKeeps, LoadRowsKeeps, MergeRowsKeeps
  <2>7. ASSUME EndScan(q) \/ ReadGeneration(q) \/ FindDead(q) PROVE IInv'
    BY <2>7, EndScanKeeps, ReadGenerationKeeps, FindDeadKeeps
  <2>8. ASSUME Clear(q) \/ SetParserVersion(q) \/ PutRows(q) \/ DeleteRows(q) \/ SetGeneration(q)
        PROVE  IInv'
    BY <2>8, ClearKeeps, SetParserVersionKeeps, PutRowsKeeps, DeleteRowsKeeps, SetGenerationKeeps
  <2>. QED BY <1>2, <2>1, <2>2, <2>3, <2>4, <2>5, <2>6, <2>7, <2>8 DEF Step
<1>3. ASSUME NEW p \in Paths, ChangeOnDisk(p) PROVE IInv'
  BY <1>3, ChangeOnDiskKeeps
<1>. QED BY <1>1, <1>2, <1>3 DEF Next

LEMMA Invariance == Spec => []IInv
BY InitKeeps, StepKeeps, PTL DEF Spec

\* Every variable keeps its type, the locals of every scan included.
THEOREM TypeCorrect == Spec => []TypeOK
<1>1. IInv => TypeOK
  BY DEF IInv
<1>. QED BY <1>1, Invariance, PTL

\* The fast path (workspace.rs:471) may take a row with the file's mtime for the
\* file: such a row names the content of the file, whoever wrote it, borrowed it or
\* failed in between.
THEOREM RowsDoNotLie == Spec => []RowsAreTruthful
<1>1. IInv => RowsAreTruthful
  <2>. SUFFICES ASSUME IInv, NEW w \in Worktrees, NEW p \in Paths
                PROVE  Truthful(rows[w][p], p)
    BY DEF RowsAreTruthful
  <2>1. Believable(rows[w][p], p)
    BY DEF IInv, RowsOK
  <2>. QED BY <2>1 DEF Believable, Truthful
<1>. QED BY <1>1, Invariance, PTL

\* Layer A is written before layer B: no manifest names a content without a unit.
THEOREM UnitsComeFirst == Spec => []RowsHaveUnits
<1>1. IInv => RowsHaveUnits
  BY DEF IInv, RowsOK
<1>. QED BY <1>1, Invariance, PTL

\* A scan indexes of each file what the file was at some moment since the scan
\* began, for any number of scans that run over any worktrees at the same time.
THEOREM ScansAreRegular == Spec => []ScanIsRegular
<1>1. IInv => ScanIsRegular
  <2>. SUFFICES ASSUME IInv, NEW q \in Processes, pc[q] \in Scanned,
                       NEW p \in Under[Root(q)] \ local[q].errors
                PROVE  ResultOf(q, p) \in held[q][p]
    BY DEF ScanIsRegular
  <2>1. p \in Paths
    BY UnderAssumption DEF IInv, TypeOK, Local, Root
  <2>. QED BY <2>1 DEF IInv, ProcessOK, ProgressOK, Collected
<1>. QED BY <1>1, Invariance, PTL
=============================================================================

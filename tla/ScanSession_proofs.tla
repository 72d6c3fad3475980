------------------------- MODULE ScanSession_proofs -------------------------
(***************************************************************************)
(* Proofs about ScanSession, for any paths, texts and bounds.  IInv says   *)
(* how far a scan has come with each path, phase by phase; of a path that  *)
(* the editor and the disk leave alone it also says what the scan knows.   *)
(***************************************************************************)
EXTENDS ScanSession, TLAPS

Quietly(p) == p \notin touched

\* What collect_paths takes.
Collectable(p) == OnDisk(p) /\ ~IsOpen(p)

\* The overlay is what `files` has, or is about to have.
EditorOK ==
    /\ lsp # NoText => IsOpen(lsp)
    /\ \A p \in Paths : Quietly(p) /\ IsOpen(p) => files[p] = open_sources[p] \/ lsp = p

\* Between scans, once there was one.
IdleOK(p) ==
    ~Scanning /\ cache # NoCache /\ Quietly(p) /\ Collectable(p) => files[p] = disk[p]

\* A path that is open and not on disk is not left alone.
OpenOK(p) == Scanning /\ Quietly(p) /\ IsOpen(p) => OnDisk(p)

CollectOK(p) ==
    ScanIs("collect") =>
        /\ scan.result[p] = NoText
        /\ p \in scan.collected => p \notin scan.todo
        /\ Quietly(p) /\ p \notin scan.todo => (p \in scan.collected <=> Collectable(p))

ScanFilesOK(p) ==
    ScanIs("scan") =>
        /\ p \in scan.todo => p \in scan.collected
        /\ scan.result[p] # NoText => p \in scan.collected \ scan.todo
        /\ Quietly(p) =>
              /\ p \in scan.collected <=> Collectable(p)
              /\ p \in scan.collected \ scan.todo => scan.result[p] = disk[p]

Installing == ScanIs("install")
Finishing == scan.pc \in {"delete_rows", "drop_dead", "fold"}
Ending == ScanIs("find_dead") \/ Finishing

ResultOK(p) ==
    (Installing \/ Ending) /\ Quietly(p) =>
        scan.result[p] = IF IsOpen(p) THEN NoText ELSE disk[p]

FilesOK(p) ==
    /\ Installing /\ p \in scan.todo => p \in Live
    /\ Quietly(p) /\ p \in Live =>
          /\ Installing => p \in scan.todo \/ files[p] = disk[p]
          /\ Ending => files[p] = disk[p]

\* The rows a scan gives up are those of missing files.
DeadOK(p) ==
    /\ p \in scan.dead => Ending /\ p \in scan.existing \ Live
    /\ ScanIs("find_dead") /\ p \in scan.todo => p \in scan.existing \ Live
    /\ ScanIs("drop_dead") /\ p \in scan.todo => p \in scan.dead
    /\ Quietly(p) /\ Ending /\ p \in scan.existing \ Live =>
          /\ p \in scan.dead => ~OnDisk(p)
          /\ ~OnDisk(p) => p \in scan.dead \/ (ScanIs("find_dead") /\ p \in scan.todo)

RowsOK ==
    /\ scan.pc \in {"scan", "install", "find_dead"} => rows = scan.existing
    /\ ScanIs("delete_rows") => rows = scan.existing \cup Live
    /\ scan.pc \in {"drop_dead", "fold"} => rows = (scan.existing \cup Live) \ scan.dead

\* The entry of a word and a path that the posting lists have.
PostingsOK(w, p) ==
    LET count == scan.postings[<<w, p>>]
    IN  /\ scan.pc \in {"collect", "scan"} => count = 0
        /\ Installing =>
              count = IF p \in Live \ scan.todo /\ w \in scan.result[p] THEN 1 ELSE 0
        /\ Ending /\ p \in Live => count = IF w \in scan.result[p] THEN 1 ELSE 0
        /\ Ending /\ p \notin Live =>
              /\ count <= 1
              /\ ~ScanIs("fold") \/ p \in scan.todo => count = 0
              /\ ScanIs("fold") /\ p \notin scan.todo /\ Quietly(p) =>
                    (count = 1 <=> IsOpen(p) /\ w \in open_sources[p])

PathOK(p) ==
    /\ IdleOK(p) /\ OpenOK(p)
    /\ CollectOK(p) /\ ScanFilesOK(p) /\ ResultOK(p) /\ FilesOK(p) /\ DeadOK(p)

IInv ==
    /\ TypeOK
    /\ EditorOK
    /\ RowsOK
    /\ \A p \in Paths : PathOK(p)
    /\ \A w \in Words, p \in Paths : PostingsOK(w, p)

-----------------------------------------------------------------------------
\* Types.

LEMMA AddToPostingsType ==
    ASSUME NEW postings \in Postings, NEW p, NEW text
    PROVE  AddToPostings(postings, p, text) \in Postings
BY DEF AddToPostings, Postings

LEMMA AddToPostingsAt ==
    ASSUME NEW postings, NEW p, NEW text, NEW added, added = AddToPostings(postings, p, text),
           NEW w \in Words, NEW o \in Paths
    PROVE  /\ o = p /\ w \in text /\ postings[<<w, o>>] = 0 => added[<<w, o>>] = 1
           /\ o # p \/ w \notin text => added[<<w, o>>] = postings[<<w, o>>]
BY DEF AddToPostings

LEMMA RemoveFromPostingsType ==
    ASSUME NEW postings \in Postings, NEW ps
    PROVE  RemoveFromPostings(postings, ps) \in Postings
BY DEF RemoveFromPostings, Postings

LEMMA NoScanType == NoScan.postings \in Postings /\ NoScan.result \in [Paths -> Stored]
BY DEF NoScan, NoPostings, Postings, Stored

LEMMA InitType == Init => TypeOK
BY BoundsAssumption DEF Init, TypeOK, Stored, NoScan, NoPostings, Postings

LEMMA EditorType == TypeOK /\ Editor => TypeOK'
<1>. SUFFICES ASSUME TypeOK, Editor PROVE TypeOK'
  OBVIOUS
<1>. USE DEF TypeOK, bounds, Stored
<1>1. ASSUME NEW p \in Paths, NEW text \in Texts, DidOpen(p, text) \/ DidChange(p, text)
      PROVE  TypeOK'
  BY <1>1 DEF DidOpen, DidChange, SetSource, Notify
<1>2. ASSUME NEW p \in Paths, CloseFile(p) PROVE TypeOK'
  BY <1>2 DEF CloseFile, Notify
<1>3. ASSUME NEW p \in Paths, Save(p) PROVE TypeOK'
  BY <1>3 DEF Save
<1>4. CASE IndexFileCore
  BY <1>4 DEF IndexFileCore
<1>. QED
  BY <1>1, <1>2, <1>3, <1>4 DEF Editor

LEMMA ScannerType == TypeOK /\ Scanner => TypeOK'
<1>. SUFFICES ASSUME TypeOK, Scanner PROVE TypeOK'
  OBVIOUS
<1>. USE DEF TypeOK, bounds, Live
<1>1. CASE StartScan
  <2>1. /\ scan'.pc = "collect" /\ scan'.todo = Paths /\ scan'.collected = {}
        /\ scan'.existing = {} /\ scan'.dead = {} /\ scan'.postings = NoPostings
        /\ scan' = [NoScan EXCEPT !.pc = "collect", !.todo = Paths]
    BY <1>1 DEF StartScan, NoScan
  <2>2. scan' \in [pc: {"collect"}, todo: SUBSET Paths, collected: SUBSET Paths,
                   existing: SUBSET Paths, dead: SUBSET Paths,
                   result: [Paths -> Stored], postings: Postings]
    BY <2>1, NoScanType DEF NoScan
  <2>. QED BY <1>1, <2>2 DEF StartScan
<1>2. CASE LoadRows
  BY <1>2 DEF LoadRows
<1>3. CASE EndScanFiles
  BY <1>3 DEF EndScanFiles
<1>4. CASE EndInstall
  BY <1>4 DEF EndInstall
<1>5. CASE PutRows
  BY <1>5 DEF PutRows
<1>6. CASE DeleteRows
  BY <1>6 DEF DeleteRows
<1>7. CASE EndDropDead
  BY <1>7, RemoveFromPostingsType DEF EndDropDead
<1>8. CASE Publish
  BY <1>8, NoScanType DEF Publish, NoScan
<1>9. ASSUME NEW p \in Paths, CollectPath(p) PROVE TypeOK'
  BY <1>9 DEF CollectPath
<1>10. ASSUME NEW p \in Paths, ScanFile(p) PROVE TypeOK'
  BY <1>10 DEF ScanFile
<1>11. ASSUME NEW p \in Paths, InstallFile(p) PROVE TypeOK'
  BY <1>11, AddToPostingsType DEF InstallFile
<1>12. ASSUME NEW p \in Paths, FindDead(p) PROVE TypeOK'
  BY <1>12 DEF FindDead
<1>13. ASSUME NEW p \in Paths, DropDead(p) PROVE TypeOK'
  BY <1>13 DEF DropDead, Stored
<1>14. ASSUME NEW p \in Paths, FoldOpenSource(p) PROVE TypeOK'
  BY <1>14, AddToPostingsType DEF FoldOpenSource
<1>. QED
  BY <1>1, <1>2, <1>3, <1>4, <1>5, <1>6, <1>7, <1>8, <1>9, <1>10, <1>11, <1>12, <1>13, <1>14
     DEF Scanner

LEMMA OutsideType ==
    ASSUME TypeOK,
           \/ Crash
           \/ \E p \in Paths, text \in Stored : ChangeOnDisk(p, text)
           \/ UNCHANGED vars
    PROVE  TypeOK'
BY NoScanType DEF TypeOK, Crash, ChangeOnDisk, vars, bounds, NoScan, Stored

LEMMA StepType == TypeOK /\ [Next]_vars => TypeOK'
BY EditorType, ScannerType, OutsideType DEF Next

-----------------------------------------------------------------------------
\* The invariant holds at first, and each action keeps it.

LEMMA InitKeeps == Init => IInv
<1>. SUFFICES ASSUME Init PROVE IInv
  OBVIOUS
<1>1. TypeOK
  BY InitType
<1>2. /\ scan.pc = "idle" /\ scan.dead = {} /\ ~Scanning
      /\ \A p \in Paths : ~IsOpen(p)
  BY DEF Init, NoScan, Scanning, IsOpen
<1>3. EditorOK /\ RowsOK
  BY <1>2 DEF EditorOK, RowsOK, ScanIs, Init
<1>4. \A p \in Paths : PathOK(p)
  BY <1>2 DEF PathOK, IdleOK, OpenOK, CollectOK, ScanFilesOK, ResultOK, FilesOK, DeadOK,
              ScanIs, Installing, Ending, Finishing, Init
<1>5. \A w \in Words, p \in Paths : PostingsOK(w, p)
  BY <1>2 DEF PostingsOK, ScanIs, Installing, Ending, Finishing
<1>. QED BY <1>1, <1>3, <1>4, <1>5 DEF IInv

\* What a step of the editor or of another program may do to a path.
Undisturbed(p) ==
    /\ Quietly(p)
    /\ disk'[p] = disk[p] /\ open_sources'[p] = open_sources[p]
    /\ files'[p] = files[p] \/ IsOpen(p)

LEMMA OutsideStepKeeps ==
    ASSUME IInv, TypeOK',
           UNCHANGED <<rows, scan, cache>>, EditorOK', touched \subseteq touched',
           \A p \in Paths : Quietly(p)' => Undisturbed(p) \/ (~Scanning /\ IdleOK(p)')
    PROVE  IInv'
<1>. USE DEF IInv
<1>1. RowsOK'
  BY DEF RowsOK, ScanIs, Live
<1>2. ASSUME NEW p \in Paths PROVE PathOK(p)'
  <2>. USE DEF Undisturbed, Collectable, OnDisk, IsOpen, Quietly, Scanning
  <2>0. PathOK(p) /\ scan' = scan
    OBVIOUS
  <2>1. IdleOK(p)'
    BY <2>0 DEF PathOK, IdleOK
  <2>2. OpenOK(p)'
    BY <2>0 DEF PathOK, OpenOK
  <2>3. CollectOK(p)' /\ ScanFilesOK(p)'
    BY <2>0 DEF PathOK, CollectOK, ScanFilesOK, ScanIs
  <2>4. ResultOK(p)'
    BY <2>0 DEF PathOK, ResultOK, ScanIs, Installing, Ending, Finishing
  <2>5. FilesOK(p)'
    BY <2>0 DEF PathOK, FilesOK, ResultOK, ScanIs, Installing, Ending, Finishing, Live
  <2>6. DeadOK(p)'
    BY <2>0 DEF PathOK, DeadOK, ScanIs, Ending, Finishing, Live
  <2>. QED BY <2>1, <2>2, <2>3, <2>4, <2>5, <2>6 DEF PathOK
<1>3. ASSUME NEW w \in Words, NEW p \in Paths PROVE PostingsOK(w, p)'
  BY DEF PostingsOK, ScanIs, Installing, Ending, Finishing, Live, Undisturbed, IsOpen,
         Quietly, Scanning
<1>. QED BY <1>1, <1>2, <1>3

LEMMA SetSourceKeeps ==
    ASSUME IInv, NEW p \in Paths, NEW text \in Texts, SetSource(p, text),
           IsOpen(p) \/ (OnDisk(p) => text = disk[p])
    PROVE  IInv'
<1>. USE DEF IInv, TypeOK
<1>1. TypeOK'
  BY DEF SetSource, Notify, Stored
<1>2. EditorOK'
  BY <1>1, TextsAssumption DEF EditorOK, SetSource, Notify, IsOpen, Quietly
<1>3. ASSUME NEW o \in Paths, Quietly(o)'
      PROVE  Undisturbed(o) \/ (~Scanning /\ IdleOK(o)')
  <2>1. CASE o # p
    BY <1>3, <2>1 DEF SetSource, Notify, Undisturbed, Quietly
  <2>2. CASE o = p
    BY <1>3, <2>2, TextsAssumption
       DEF SetSource, Notify, Quietly, IdleOK, Collectable, IsOpen
  <2>. QED BY <2>1, <2>2
<1>. QED
  BY <1>1, <1>2, <1>3, OutsideStepKeeps DEF SetSource, Notify

LEMMA IndexFileCoreKeeps == IInv /\ IndexFileCore => IInv'
<1>. SUFFICES ASSUME IInv, IndexFileCore PROVE IInv'
  OBVIOUS
<1>. USE DEF IInv
<1>1. TypeOK'
  BY EditorType DEF Editor
<1>2. EditorOK'
  BY DEF EditorOK, IndexFileCore, TypeOK, IsOpen, Quietly
<1>3. \A o \in Paths : Quietly(o)' => Undisturbed(o)
  BY DEF IndexFileCore, Undisturbed, Quietly, EditorOK, TypeOK
<1>. QED
  BY <1>1, <1>2, <1>3, OutsideStepKeeps DEF IndexFileCore

LEMMA CloseFileKeeps == ASSUME IInv, NEW p \in Paths, CloseFile(p) PROVE IInv'
<1>. USE DEF IInv
<1>1. TypeOK'
  BY EditorType DEF Editor
<1>2. EditorOK'
  BY DEF EditorOK, CloseFile, Notify, TypeOK, IsOpen, Quietly
<1>3. ASSUME NEW o \in Paths, Quietly(o)'
      PROVE  Undisturbed(o) \/ (~Scanning /\ IdleOK(o)')
  <2>1. CASE o # p
    BY <1>3, <2>1 DEF CloseFile, Notify, Undisturbed, Quietly, TypeOK
  <2>2. CASE o = p
    BY <1>3, <2>2, TextsAssumption
       DEF CloseFile, Notify, Quietly, IdleOK, EditorOK, Scanning
  <2>. QED BY <2>1, <2>2
<1>. QED
  BY <1>1, <1>2, <1>3, OutsideStepKeeps DEF CloseFile, Notify

LEMMA SaveKeeps == ASSUME IInv, NEW p \in Paths, Save(p) PROVE IInv'
<1>. USE DEF IInv
<1>1. TypeOK'
  BY EditorType DEF Editor
<1>2. EditorOK'
  BY DEF EditorOK, Save, bounds, IsOpen, Quietly
<1>3. ASSUME NEW o \in Paths, Quietly(o)'
      PROVE  Undisturbed(o) \/ (~Scanning /\ IdleOK(o)')
  <2>1. CASE o # p
    BY <1>3, <2>1 DEF Save, bounds, Undisturbed, Quietly, TypeOK, Scanning
  <2>2. CASE o = p
    BY <1>3, <2>2 DEF Save, bounds, Quietly, IdleOK, Collectable, IsOpen, Scanning
  <2>. QED BY <2>1, <2>2
<1>. QED
  BY <1>1, <1>2, <1>3, OutsideStepKeeps DEF Save, bounds

LEMMA ChangeOnDiskKeeps ==
    ASSUME IInv, NEW p \in Paths, NEW text \in Stored, ChangeOnDisk(p, text) PROVE IInv'
<1>. USE DEF IInv
<1>1. TypeOK'
  BY OutsideType
<1>2. EditorOK'
  BY DEF EditorOK, ChangeOnDisk, IsOpen, Quietly
<1>3. \A o \in Paths : Quietly(o)' => Undisturbed(o)
  BY DEF ChangeOnDisk, Undisturbed, Quietly, TypeOK
<1>. QED
  BY <1>1, <1>2, <1>3, OutsideStepKeeps DEF ChangeOnDisk

LEMMA CrashKeeps == IInv /\ Crash => IInv'
<1>. SUFFICES ASSUME IInv, Crash PROVE IInv'
  OBVIOUS
<1>1. TypeOK'
  BY OutsideType DEF IInv
<1>2. /\ scan'.pc = "idle" /\ scan'.dead = {} /\ ~Scanning' /\ cache' = NoCache
      /\ lsp' = NoText /\ \A p \in Paths : ~IsOpen(p)'
  BY DEF Crash, NoScan, Scanning, IsOpen
<1>3. EditorOK' /\ RowsOK'
  BY <1>2 DEF EditorOK, RowsOK, ScanIs
<1>4. \A p \in Paths : PathOK(p)'
  BY <1>2 DEF PathOK, IdleOK, OpenOK, CollectOK, ScanFilesOK, ResultOK, FilesOK, DeadOK,
              ScanIs, Installing, Ending, Finishing
<1>5. \A w \in Words, p \in Paths : PostingsOK(w, p)'
  BY <1>2 DEF PostingsOK, ScanIs, Installing, Ending, Finishing
<1>. QED BY <1>1, <1>3, <1>4, <1>5 DEF IInv

LEMMA StartScanKeeps == IInv /\ StartScan => IInv'
<1>. SUFFICES ASSUME IInv, StartScan PROVE IInv'
  OBVIOUS
<1>. USE DEF IInv
<1>1. TypeOK'
  BY ScannerType DEF Scanner
<1>2. /\ scan'.pc = "collect" /\ scan'.todo = Paths /\ scan'.collected = {} /\ scan'.dead = {}
      /\ scan'.result = [p \in Paths |-> NoText] /\ scan'.postings = NoPostings /\ Scanning'
  BY DEF StartScan, NoScan, Scanning
<1>3. \A p \in Paths : Quietly(p)' /\ IsOpen(p) => Quietly(p) /\ OnDisk(p)
  BY DEF StartScan, Quietly
<1>4. EditorOK' /\ RowsOK'
  BY <1>2, <1>3 DEF EditorOK, RowsOK, ScanIs, StartScan, IsOpen
<1>5. ASSUME NEW p \in Paths PROVE PathOK(p)'
  <2>1. OpenOK(p)'
    BY <1>3 DEF OpenOK, StartScan, IsOpen, OnDisk
  <2>. QED
    BY <1>2, <2>1 DEF PathOK, IdleOK, CollectOK, ScanFilesOK, ResultOK, FilesOK, DeadOK,
                      ScanIs, Installing, Ending, Finishing
<1>6. ASSUME NEW w \in Words, NEW p \in Paths PROVE PostingsOK(w, p)'
  BY <1>2 DEF PostingsOK, ScanIs, Installing, Ending, Finishing, NoPostings
<1>. QED BY <1>1, <1>4, <1>5, <1>6

\* The other steps of the scan leave these alone, and the editor's part of the
\* invariant with them.
ScanKeeps == UNCHANGED <<disk, open_sources, lsp, touched>>

LEMMA CollectPathKeeps == ASSUME IInv, NEW p \in Paths, CollectPath(p) PROVE IInv'
<1>. USE DEF IInv
<1>1. TypeOK'
  BY ScannerType DEF Scanner
<1>2. /\ scan.pc = "collect" /\ scan'.pc = "collect" /\ scan'.todo = scan.todo \ {p}
      /\ scan'.collected = IF Collectable(p) THEN scan.collected \cup {p} ELSE scan.collected
      /\ UNCHANGED <<rows, files, scan.existing, scan.dead, scan.result, scan.postings>>
      /\ ScanKeeps
  BY DEF CollectPath, ScanIs, TypeOK, bounds, ScanKeeps, Collectable
<1>3. EditorOK' /\ RowsOK'
  BY <1>2 DEF EditorOK, RowsOK, ScanIs, IsOpen, Quietly, ScanKeeps
<1>4. ASSUME NEW o \in Paths PROVE PathOK(o)'
  <2>. USE DEF Quietly, Collectable, OnDisk, IsOpen, ScanKeeps
  <2>1. CollectOK(o)'
    BY <1>2 DEF PathOK, CollectOK, ScanIs
  <2>2. OpenOK(o)'
    BY <1>2 DEF PathOK, OpenOK, Scanning
  <2>. QED
    BY <1>2, <2>1, <2>2 DEF PathOK, IdleOK, ScanFilesOK, ResultOK, FilesOK, DeadOK,
                            ScanIs, Scanning, Installing, Ending, Finishing
<1>5. ASSUME NEW w \in Words, NEW o \in Paths PROVE PostingsOK(w, o)'
  BY <1>2 DEF PostingsOK, ScanIs, Installing, Ending, Finishing
<1>. QED BY <1>1, <1>3, <1>4, <1>5

LEMMA LoadRowsKeeps == IInv /\ LoadRows => IInv'
<1>. SUFFICES ASSUME IInv, LoadRows PROVE IInv'
  OBVIOUS
<1>. USE DEF IInv
<1>1. TypeOK'
  BY ScannerType DEF Scanner
<1>2. /\ scan.pc = "collect" /\ scan'.pc = "scan"
      /\ scan.todo = {} /\ scan'.todo = scan.collected /\ scan'.existing = rows
      /\ UNCHANGED <<rows, files, scan.collected, scan.dead, scan.result, scan.postings>>
      /\ ScanKeeps
  BY DEF LoadRows, ScanIs, TypeOK, bounds, ScanKeeps
<1>3. EditorOK' /\ RowsOK'
  BY <1>2 DEF EditorOK, RowsOK, ScanIs, IsOpen, Quietly, ScanKeeps
<1>4. ASSUME NEW o \in Paths PROVE PathOK(o)'
  <2>. USE DEF Quietly, Collectable, OnDisk, IsOpen, ScanKeeps
  <2>1. ScanFilesOK(o)'
    BY <1>2 DEF PathOK, CollectOK, ScanFilesOK, ScanIs
  <2>2. OpenOK(o)'
    BY <1>2 DEF PathOK, OpenOK, Scanning
  <2>. QED
    BY <1>2, <2>1, <2>2 DEF PathOK, IdleOK, CollectOK, ResultOK, FilesOK, DeadOK,
                            ScanIs, Scanning, Installing, Ending, Finishing
<1>5. ASSUME NEW w \in Words, NEW o \in Paths PROVE PostingsOK(w, o)'
  BY <1>2 DEF PostingsOK, ScanIs, Installing, Ending, Finishing
<1>. QED BY <1>1, <1>3, <1>4, <1>5

LEMMA ScanFileKeeps == ASSUME IInv, NEW p \in Paths, ScanFile(p) PROVE IInv'
<1>. USE DEF IInv
<1>1. TypeOK'
  BY ScannerType DEF Scanner
<1>2. /\ scan.pc = "scan" /\ scan'.pc = "scan"
      /\ p \in scan.todo /\ scan'.todo = scan.todo \ {p}
      /\ scan'.result = [scan.result EXCEPT ![p] = disk[p]]
      /\ UNCHANGED <<rows, files, scan.collected, scan.existing, scan.dead, scan.postings>>
      /\ ScanKeeps
  BY DEF ScanFile, ScanIs, TypeOK, bounds, ScanKeeps
<1>3. EditorOK' /\ RowsOK'
  BY <1>2 DEF EditorOK, RowsOK, ScanIs, IsOpen, Quietly, ScanKeeps
<1>4. ASSUME NEW o \in Paths PROVE PathOK(o)'
  <2>. USE DEF Quietly, Collectable, OnDisk, IsOpen, ScanKeeps
  <2>1. ScanFilesOK(o)'
    BY <1>2 DEF PathOK, ScanFilesOK, ScanIs, TypeOK
  <2>2. OpenOK(o)'
    BY <1>2 DEF PathOK, OpenOK, Scanning
  <2>. QED
    BY <1>2, <2>1, <2>2 DEF PathOK, IdleOK, CollectOK, ResultOK, FilesOK, DeadOK,
                            ScanIs, Scanning, Installing, Ending, Finishing
<1>5. ASSUME NEW w \in Words, NEW o \in Paths PROVE PostingsOK(w, o)'
  <2>1. scan.postings[<<w, o>>] = 0
    BY <1>2 DEF PostingsOK, ScanIs
  <2>. QED BY <1>2, <2>1 DEF PostingsOK, ScanIs, Installing, Ending, Finishing
<1>. QED BY <1>1, <1>3, <1>4, <1>5

LEMMA EndScanFilesKeeps == IInv /\ EndScanFiles => IInv'
<1>. SUFFICES ASSUME IInv, EndScanFiles PROVE IInv'
  OBVIOUS
<1>. USE DEF IInv
<1>1. TypeOK'
  BY ScannerType DEF Scanner
<1>2. /\ scan.pc = "scan" /\ scan'.pc = "install"
      /\ scan.todo = {} /\ scan'.todo = Live
      /\ UNCHANGED <<rows, files, scan.collected, scan.existing, scan.dead, scan.result,
                     scan.postings>>
      /\ ScanKeeps /\ Live' = Live
  BY DEF EndScanFiles, ScanIs, TypeOK, bounds, ScanKeeps, Live
<1>3. EditorOK' /\ RowsOK'
  BY <1>2 DEF EditorOK, RowsOK, ScanIs, IsOpen, Quietly, ScanKeeps
<1>4. ASSUME NEW o \in Paths PROVE PathOK(o)'
  <2>. USE DEF Quietly, Collectable, OnDisk, IsOpen, ScanKeeps
  <2>1. ResultOK(o)'
    BY <1>2 DEF PathOK, ScanFilesOK, ResultOK, ScanIs, Installing, Ending, Finishing
  <2>2. OpenOK(o)'
    BY <1>2 DEF PathOK, OpenOK, Scanning
  <2>. QED
    BY <1>2, <2>1, <2>2 DEF PathOK, IdleOK, CollectOK, ScanFilesOK, FilesOK, DeadOK,
                            ScanIs, Scanning, Installing, Ending, Finishing
<1>5. ASSUME NEW w \in Words, NEW o \in Paths PROVE PostingsOK(w, o)'
  <2>1. scan.postings[<<w, o>>] = 0
    BY <1>2 DEF PostingsOK, ScanIs
  <2>2. o \notin Live' \ scan'.todo
    BY <1>2
  <2>. QED BY <1>2, <2>1, <2>2 DEF PostingsOK, ScanIs, Installing, Ending, Finishing
<1>. QED BY <1>1, <1>3, <1>4, <1>5

LEMMA InstallFileKeeps == ASSUME IInv, NEW p \in Paths, InstallFile(p) PROVE IInv'
<1>. USE DEF IInv
<1>1. TypeOK'
  BY ScannerType DEF Scanner
<1>2. /\ scan.pc = "install" /\ scan'.pc = "install"
      /\ p \in scan.todo /\ scan'.todo = scan.todo \ {p}
      /\ scan'.postings = AddToPostings(scan.postings, p, scan.result[p])
      /\ files' = [files EXCEPT ![p] = scan.result[p]]
      /\ UNCHANGED <<rows, scan.collected, scan.existing, scan.dead, scan.result>>
      /\ ScanKeeps /\ Live' = Live
  BY DEF InstallFile, ScanIs, TypeOK, bounds, ScanKeeps, Live
<1>3. p \in Live /\ (Quietly(p) => ~IsOpen(p) /\ scan.result[p] = disk[p])
  BY <1>2 DEF PathOK, FilesOK, ResultOK, ScanIs, Installing, Live
<1>4. EditorOK' /\ RowsOK'
  BY <1>2, <1>3 DEF EditorOK, RowsOK, ScanIs, IsOpen, Quietly, ScanKeeps, TypeOK
<1>5. ASSUME NEW o \in Paths PROVE PathOK(o)'
  <2>. USE DEF Quietly, Collectable, OnDisk, IsOpen, ScanKeeps
  <2>1. ResultOK(o)' /\ OpenOK(o)'
    BY <1>2 DEF PathOK, ResultOK, OpenOK, ScanIs, Scanning, Installing, Ending, Finishing
  <2>2. FilesOK(o)'
    BY <1>2, <1>3 DEF PathOK, FilesOK, ScanIs, Installing, Ending, Finishing, TypeOK
  <2>. QED
    BY <1>2, <2>1, <2>2 DEF PathOK, IdleOK, CollectOK, ScanFilesOK, DeadOK,
                            ScanIs, Scanning, Installing, Ending, Finishing
<1>6. ASSUME NEW w \in Words, NEW o \in Paths PROVE PostingsOK(w, o)'
  <2>1. scan.postings[<<w, o>>] =
          IF o \in Live \ scan.todo /\ w \in scan.result[o] THEN 1 ELSE 0
    BY <1>2 DEF PostingsOK, ScanIs, Installing
  <2>2. /\ o = p /\ w \in scan.result[p] /\ scan.postings[<<w, o>>] = 0 => scan'.postings[<<w, o>>] = 1
        /\ o # p \/ w \notin scan.result[p] => scan'.postings[<<w, o>>] = scan.postings[<<w, o>>]
    <3>. DEFINE added == AddToPostings(scan.postings, p, scan.result[p])
    <3>1. /\ o = p /\ w \in scan.result[p] /\ scan.postings[<<w, o>>] = 0 => added[<<w, o>>] = 1
          /\ o # p \/ w \notin scan.result[p] => added[<<w, o>>] = scan.postings[<<w, o>>]
      BY AddToPostingsAt
    <3>. QED BY <1>2, <3>1
  <2>3. /\ o = p => o \in Live \ scan'.todo
        /\ o # p => (o \in scan'.todo <=> o \in scan.todo)
    BY <1>2, <1>3
  <2>4. scan'.postings[<<w, o>>] =
          IF o \in Live' \ scan'.todo /\ w \in scan'.result[o] THEN 1 ELSE 0
    BY <1>2, <2>1, <2>2, <2>3
  <2>. QED
    BY <1>2, <2>4 DEF PostingsOK, ScanIs, Installing, Ending, Finishing
<1>. QED BY <1>1, <1>4, <1>5, <1>6

LEMMA EndInstallKeeps == IInv /\ EndInstall => IInv'
<1>. SUFFICES ASSUME IInv, EndInstall PROVE IInv'
  OBVIOUS
<1>. USE DEF IInv
<1>1. TypeOK'
  BY ScannerType DEF Scanner
<1>2. /\ scan.pc = "install" /\ scan'.pc = "find_dead"
      /\ scan.todo = {} /\ scan'.todo = scan.existing \ Live
      /\ UNCHANGED <<rows, files, scan.collected, scan.existing, scan.dead, scan.result,
                     scan.postings>>
      /\ ScanKeeps /\ Live' = Live
  BY DEF EndInstall, ScanIs, TypeOK, bounds, ScanKeeps, Live
<1>3. EditorOK' /\ RowsOK'
  BY <1>2 DEF EditorOK, RowsOK, ScanIs, IsOpen, Quietly, ScanKeeps
<1>4. ASSUME NEW o \in Paths PROVE PathOK(o)'
  <2>. USE DEF Quietly, Collectable, OnDisk, IsOpen, ScanKeeps
  <2>1. ResultOK(o)' /\ OpenOK(o)'
    BY <1>2 DEF PathOK, ResultOK, OpenOK, ScanIs, Scanning, Installing, Ending, Finishing
  <2>2. FilesOK(o)' /\ DeadOK(o)'
    BY <1>2 DEF PathOK, FilesOK, DeadOK, ScanIs, Installing, Ending, Finishing
  <2>. QED
    BY <1>2, <2>1, <2>2 DEF PathOK, IdleOK, CollectOK, ScanFilesOK, ScanIs, Scanning
<1>5. ASSUME NEW w \in Words, NEW o \in Paths PROVE PostingsOK(w, o)'
  <2>1. scan.postings[<<w, o>>] = IF o \in Live /\ w \in scan.result[o] THEN 1 ELSE 0
    BY <1>2 DEF PostingsOK, ScanIs, Installing
  <2>2. scan'.postings[<<w, o>>] = IF o \in Live' /\ w \in scan'.result[o] THEN 1 ELSE 0
    BY <1>2, <2>1
  <2>3. CASE o \in Live'
    BY <1>2, <2>2, <2>3 DEF PostingsOK, ScanIs, Installing, Ending, Finishing
  <2>4. CASE o \notin Live'
    BY <1>2, <2>2, <2>4 DEF PostingsOK, ScanIs, Installing, Ending, Finishing
  <2>. QED BY <2>3, <2>4
<1>. QED BY <1>1, <1>3, <1>4, <1>5

\* What the steps after the files are installed have in common: no result
\* changes, and a file in the index only if it is dead.
LEMMA EndingStepKeeps ==
    ASSUME IInv, TypeOK', RowsOK',
           Ending, Ending', ScanKeeps,
           UNCHANGED <<scan.collected, scan.existing, scan.result>>,
           \A p \in Paths : files'[p] = files[p] \/ p \in scan.dead,
           \A p \in Paths : DeadOK(p)',
           \A w \in Words, p \in Paths : PostingsOK(w, p)'
    PROVE  IInv'
<1>. USE DEF IInv, Quietly, Collectable, OnDisk, IsOpen, ScanKeeps
<1>1. Live' = Live
  BY DEF Live
<1>2. \A p \in Paths : Quietly(p) /\ p \in scan.dead => ~OnDisk(p) /\ ~IsOpen(p)
  BY DEF PathOK, DeadOK, OpenOK, Ending, Finishing, ScanIs, Scanning
<1>3. EditorOK'
  BY <1>2 DEF EditorOK
<1>4. ASSUME NEW o \in Paths PROVE PathOK(o)'
  <2>1. ResultOK(o)' /\ OpenOK(o)'
    BY DEF PathOK, ResultOK, OpenOK, ScanIs, Scanning, Ending, Finishing
  <2>2. FilesOK(o)'
    BY <1>1, <1>2 DEF PathOK, FilesOK, DeadOK, ScanIs, Installing, Ending, Finishing
  <2>. QED
    BY <2>1, <2>2 DEF PathOK, IdleOK, CollectOK, ScanFilesOK, ScanIs, Scanning, Ending, Finishing
<1>. QED BY <1>3, <1>4

LEMMA FindDeadKeeps == ASSUME IInv, NEW p \in Paths, FindDead(p) PROVE IInv'
<1>. USE DEF IInv
<1>1. TypeOK'
  BY ScannerType DEF Scanner
<1>2. /\ scan.pc = "find_dead" /\ scan'.pc = "find_dead"
      /\ p \in scan.todo /\ scan'.todo = scan.todo \ {p}
      /\ scan'.dead = IF OnDisk(p) THEN scan.dead ELSE scan.dead \cup {p}
      /\ UNCHANGED <<rows, files, scan.collected, scan.existing, scan.result, scan.postings>>
      /\ ScanKeeps /\ Live' = Live
  BY DEF FindDead, ScanIs, TypeOK, bounds, ScanKeeps, Live
<1>3. RowsOK' /\ Ending /\ Ending'
  BY <1>2 DEF RowsOK, ScanIs, Ending
<1>4. ASSUME NEW o \in Paths PROVE DeadOK(o)'
  BY <1>2 DEF PathOK, DeadOK, ScanIs, Ending, Finishing, Quietly, OnDisk, ScanKeeps
<1>5. ASSUME NEW w \in Words, NEW o \in Paths PROVE PostingsOK(w, o)'
  <2>1. PostingsOK(w, o)
    OBVIOUS
  <2>. QED BY <1>2, <2>1 DEF PostingsOK, ScanIs, Installing, Ending, Finishing
<1>. QED BY <1>1, <1>2, <1>3, <1>4, <1>5, EndingStepKeeps

LEMMA PutRowsKeeps == IInv /\ PutRows => IInv'
<1>. SUFFICES ASSUME IInv, PutRows PROVE IInv'
  OBVIOUS
<1>. USE DEF IInv
<1>1. TypeOK'
  BY ScannerType DEF Scanner
<1>2. /\ scan.pc = "find_dead" /\ scan'.pc = "delete_rows"
      /\ scan.todo = {} /\ rows' = rows \cup Live
      /\ UNCHANGED <<files, scan.collected, scan.existing, scan.dead, scan.result, scan.postings>>
      /\ ScanKeeps /\ Live' = Live
  BY DEF PutRows, ScanIs, TypeOK, bounds, ScanKeeps, Live
<1>3. RowsOK' /\ Ending /\ Ending'
  BY <1>2 DEF RowsOK, ScanIs, Ending, Finishing
<1>4. ASSUME NEW o \in Paths PROVE DeadOK(o)'
  BY <1>2 DEF PathOK, DeadOK, ScanIs, Ending, Finishing, Quietly, OnDisk, ScanKeeps
<1>5. ASSUME NEW w \in Words, NEW o \in Paths PROVE PostingsOK(w, o)'
  <2>1. PostingsOK(w, o)
    OBVIOUS
  <2>. QED BY <1>2, <2>1 DEF PostingsOK, ScanIs, Installing, Ending, Finishing
<1>. QED BY <1>1, <1>2, <1>3, <1>4, <1>5, EndingStepKeeps

LEMMA DeleteRowsKeeps == IInv /\ DeleteRows => IInv'
<1>. SUFFICES ASSUME IInv, DeleteRows PROVE IInv'
  OBVIOUS
<1>. USE DEF IInv
<1>1. TypeOK'
  BY ScannerType DEF Scanner
<1>2. /\ scan.pc = "delete_rows" /\ scan'.pc = "drop_dead"
      /\ scan'.todo = scan.dead /\ rows' = rows \ scan.dead
      /\ UNCHANGED <<files, scan.collected, scan.existing, scan.dead, scan.result, scan.postings>>
      /\ ScanKeeps /\ Live' = Live
  BY DEF DeleteRows, ScanIs, TypeOK, bounds, ScanKeeps, Live
<1>3. RowsOK' /\ Ending /\ Ending'
  BY <1>2 DEF RowsOK, ScanIs, Ending, Finishing
<1>4. ASSUME NEW o \in Paths PROVE DeadOK(o)'
  BY <1>2 DEF PathOK, DeadOK, ScanIs, Ending, Finishing, Quietly, OnDisk, ScanKeeps
<1>5. ASSUME NEW w \in Words, NEW o \in Paths PROVE PostingsOK(w, o)'
  <2>1. PostingsOK(w, o)
    OBVIOUS
  <2>. QED BY <1>2, <2>1 DEF PostingsOK, ScanIs, Installing, Ending, Finishing
<1>. QED BY <1>1, <1>2, <1>3, <1>4, <1>5, EndingStepKeeps

LEMMA DropDeadKeeps == ASSUME IInv, NEW p \in Paths, DropDead(p) PROVE IInv'
<1>. USE DEF IInv
<1>1. TypeOK'
  BY ScannerType DEF Scanner
<1>2. /\ scan.pc = "drop_dead" /\ scan'.pc = "drop_dead"
      /\ p \in scan.todo /\ scan'.todo = scan.todo \ {p}
      /\ files' = [files EXCEPT ![p] = NoText]
      /\ UNCHANGED <<rows, scan.collected, scan.existing, scan.dead, scan.result, scan.postings>>
      /\ ScanKeeps /\ Live' = Live
  BY DEF DropDead, ScanIs, TypeOK, bounds, ScanKeeps, Live
<1>3. RowsOK' /\ Ending /\ Ending'
  BY <1>2 DEF RowsOK, ScanIs, Ending, Finishing
<1>4. p \in scan.dead
  BY <1>2 DEF PathOK, DeadOK, ScanIs
<1>5. ASSUME NEW o \in Paths PROVE DeadOK(o)'
  BY <1>2 DEF PathOK, DeadOK, ScanIs, Ending, Finishing, Quietly, OnDisk, ScanKeeps
<1>6. ASSUME NEW w \in Words, NEW o \in Paths PROVE PostingsOK(w, o)'
  <2>1. PostingsOK(w, o)
    OBVIOUS
  <2>. QED BY <1>2, <2>1 DEF PostingsOK, ScanIs, Installing, Ending, Finishing
<1>7. \A o \in Paths : files'[o] = files[o] \/ o \in scan.dead
  BY <1>2, <1>4 DEF TypeOK
<1>. QED BY <1>1, <1>2, <1>3, <1>5, <1>6, <1>7, EndingStepKeeps

LEMMA EndDropDeadKeeps == IInv /\ EndDropDead => IInv'
<1>. SUFFICES ASSUME IInv, EndDropDead PROVE IInv'
  OBVIOUS
<1>. USE DEF IInv
<1>1. TypeOK'
  BY ScannerType DEF Scanner
<1>2. /\ scan.pc = "drop_dead" /\ scan'.pc = "fold"
      /\ scan'.todo = Paths
      /\ scan'.postings = RemoveFromPostings(scan.postings, scan.dead)
      /\ UNCHANGED <<rows, files, scan.collected, scan.existing, scan.dead, scan.result>>
      /\ ScanKeeps /\ Live' = Live
  BY DEF EndDropDead, ScanIs, TypeOK, bounds, ScanKeeps, Live
<1>3. RowsOK' /\ Ending /\ Ending'
  BY <1>2 DEF RowsOK, ScanIs, Ending, Finishing
<1>4. ASSUME NEW o \in Paths PROVE DeadOK(o)'
  BY <1>2 DEF PathOK, DeadOK, ScanIs, Ending, Finishing, Quietly, OnDisk, ScanKeeps
<1>5. ASSUME NEW w \in Words, NEW o \in Paths PROVE PostingsOK(w, o)'
  <2>1. PostingsOK(w, o) /\ (o \in scan.dead => o \notin Live)
    BY DEF PathOK, DeadOK
  <2>2. scan'.postings[<<w, o>>] = IF o \in scan.dead THEN 0 ELSE scan.postings[<<w, o>>]
    BY <1>2 DEF RemoveFromPostings
  <2>3. CASE o \in Live
    BY <1>2, <2>1, <2>2, <2>3 DEF PostingsOK, ScanIs, Installing, Ending, Finishing
  <2>4. CASE o \notin Live
    BY <1>2, <2>1, <2>2, <2>4 DEF PostingsOK, ScanIs, Installing, Ending, Finishing
  <2>. QED BY <2>3, <2>4
<1>. QED BY <1>1, <1>2, <1>3, <1>4, <1>5, EndingStepKeeps

LEMMA FoldOpenSourceKeeps == ASSUME IInv, NEW p \in Paths, FoldOpenSource(p) PROVE IInv'
<1>. USE DEF IInv
<1>1. TypeOK'
  BY ScannerType DEF Scanner
<1>2. /\ scan.pc = "fold" /\ scan'.pc = "fold"
      /\ p \in scan.todo /\ scan'.todo = scan.todo \ {p}
      /\ scan'.postings = IF IsOpen(p) /\ p \notin Live
                          THEN AddToPostings(scan.postings, p, open_sources[p])
                          ELSE scan.postings
      /\ UNCHANGED <<rows, files, scan.collected, scan.existing, scan.dead, scan.result>>
      /\ ScanKeeps /\ Live' = Live
  BY DEF FoldOpenSource, ScanIs, TypeOK, bounds, ScanKeeps, Live
<1>3. RowsOK' /\ Ending /\ Ending'
  BY <1>2 DEF RowsOK, ScanIs, Ending, Finishing
<1>4. ASSUME NEW o \in Paths PROVE DeadOK(o)'
  BY <1>2 DEF PathOK, DeadOK, ScanIs, Ending, Finishing, Quietly, OnDisk, ScanKeeps
<1>5. ASSUME NEW w \in Words, NEW o \in Paths PROVE PostingsOK(w, o)'
  <2>. DEFINE added == AddToPostings(scan.postings, p, open_sources[p])
  <2>1. PostingsOK(w, o)
    OBVIOUS
  <2>2. /\ o = p /\ w \in open_sources[p] /\ scan.postings[<<w, o>>] = 0 => added[<<w, o>>] = 1
        /\ o # p \/ w \notin open_sources[p] => added[<<w, o>>] = scan.postings[<<w, o>>]
    BY AddToPostingsAt
  <2>. HIDE DEF added
  <2>3. scan'.postings = IF IsOpen(p) /\ p \notin Live THEN added ELSE scan.postings
    BY <1>2 DEF added
  <2>4. CASE o \in Live \/ o # p
    BY <1>2, <2>1, <2>2, <2>3, <2>4
       DEF PostingsOK, ScanIs, Installing, Ending, Finishing, ScanKeeps, IsOpen, Quietly
  <2>5. CASE o \notin Live /\ o = p
    <3>1. scan.postings[<<w, o>>] = 0
      BY <1>2, <2>1, <2>5 DEF PostingsOK, ScanIs, Ending, Finishing
    <3>2. scan'.postings[<<w, o>>] = IF IsOpen(o) /\ w \in open_sources[o] THEN 1 ELSE 0
      BY <2>2, <2>3, <2>5, <3>1
    <3>. QED
      BY <1>2, <2>5, <3>2
         DEF PostingsOK, ScanIs, Installing, Ending, Finishing, ScanKeeps, IsOpen
  <2>. QED BY <2>4, <2>5
<1>. QED BY <1>1, <1>2, <1>3, <1>4, <1>5, EndingStepKeeps

LEMMA PublishKeeps == IInv /\ Publish => IInv'
<1>. SUFFICES ASSUME IInv, Publish PROVE IInv'
  OBVIOUS
<1>. USE DEF IInv
<1>1. TypeOK'
  BY ScannerType DEF Scanner
<1>2. /\ scan.pc = "fold" /\ scan'.pc = "idle" /\ scan'.dead = {} /\ ~Scanning'
      /\ UNCHANGED <<rows, files>> /\ ScanKeeps
  BY DEF Publish, NoScan, ScanIs, Scanning, bounds, ScanKeeps
<1>3. EditorOK' /\ RowsOK'
  BY <1>2 DEF EditorOK, RowsOK, ScanIs, IsOpen, Quietly, ScanKeeps
<1>4. ASSUME NEW o \in Paths PROVE PathOK(o)'
  <2>1. Quietly(o) /\ Collectable(o) => files[o] = disk[o]
    <3>1. ResultOK(o) /\ FilesOK(o) /\ Ending
      BY <1>2 DEF PathOK, Ending, Finishing
    <3>2. Quietly(o) /\ Collectable(o) => o \in Live
      BY <3>1 DEF ResultOK, Live, Collectable, OnDisk
    <3>. QED BY <3>1, <3>2 DEF FilesOK
  <2>2. IdleOK(o)' /\ OpenOK(o)'
    BY <1>2, <2>1 DEF IdleOK, OpenOK, Collectable, Quietly, OnDisk, IsOpen, ScanKeeps
  <2>. QED
    BY <1>2, <2>2 DEF PathOK, CollectOK, ScanFilesOK, ResultOK, FilesOK, DeadOK,
                      ScanIs, Installing, Ending, Finishing
<1>5. ASSUME NEW w \in Words, NEW o \in Paths PROVE PostingsOK(w, o)'
  BY <1>2 DEF PostingsOK, ScanIs, Installing, Ending, Finishing
<1>. QED BY <1>1, <1>3, <1>4, <1>5

LEMMA StutterKeeps == IInv /\ UNCHANGED vars => IInv'
<1>. SUFFICES ASSUME IInv, UNCHANGED vars PROVE IInv'
  OBVIOUS
<1>. USE DEF IInv, vars, bounds, Quietly, IsOpen, OnDisk, Scanning, ScanIs, Live
<1>1. TypeOK'
  BY OutsideType
<1>2. EditorOK' /\ RowsOK'
  BY DEF EditorOK, RowsOK
<1>3. \A p \in Paths : PathOK(p)'
  BY DEF PathOK, IdleOK, OpenOK, CollectOK, ScanFilesOK, ResultOK, FilesOK, DeadOK,
         Collectable, Installing, Ending, Finishing
<1>4. \A w \in Words, p \in Paths : PostingsOK(w, p)'
  BY DEF PostingsOK, Installing, Ending, Finishing
<1>. QED BY <1>1, <1>2, <1>3, <1>4

LEMMA EditorKeeps == IInv /\ Editor => IInv'
BY SetSourceKeeps, IndexFileCoreKeeps, CloseFileKeeps, SaveKeeps
   DEF Editor, DidOpen, DidChange

LEMMA ScannerKeeps == IInv /\ Scanner => IInv'
BY StartScanKeeps, CollectPathKeeps, LoadRowsKeeps, ScanFileKeeps, EndScanFilesKeeps,
   InstallFileKeeps, EndInstallKeeps, FindDeadKeeps, PutRowsKeeps, DeleteRowsKeeps,
   DropDeadKeeps, EndDropDeadKeeps, FoldOpenSourceKeeps, PublishKeeps
   DEF Scanner

LEMMA StepKeeps == IInv /\ [Next]_vars => IInv'
BY EditorKeeps, ScannerKeeps, CrashKeeps, ChangeOnDiskKeeps, StutterKeeps DEF Next

LEMMA Invariance == Spec => []IInv
<1>1. Init => IInv
  BY InitKeeps
<1>2. IInv /\ [Next]_vars => IInv'
  BY StepKeeps
<1>. QED BY <1>1, <1>2, PTL DEF Spec

-----------------------------------------------------------------------------
\* A file that nobody touched while the last scan ran is indexed as it is.
THEOREM ScansAreCurrent == Spec => []ScanInv
<1>1. IInv => IndexIsCurrent
  BY TextsAssumption DEF IInv, IndexIsCurrent, Quiet, Source, PathOK, IdleOK, EditorOK,
                         Collectable, OnDisk, Quietly
<1>2. IInv => ScanInv
  BY <1>1 DEF ScanInv, IInv
<1>. QED BY <1>2, Invariance, PTL

\* The posting lists a scan publishes name each path once per word, and those
\* of a file left alone are its words (find_references, workspace.rs:974).
PostingsPublished ==
    Published => \A w \in Words, p \in Paths :
        /\ cache'[w, p] <= 1
        /\ p \notin touched =>
              (cache'[w, p] = 1 <=> Source(p) # NoText /\ w \in Source(p))

LEMMA PublishedIsPublish == IInv /\ [Next]_vars /\ Published => Publish
<1>. SUFFICES ASSUME IInv, [Next]_vars, Published PROVE Publish
  OBVIOUS
<1>1. scan.pc = "fold" /\ scan'.pc = "idle" /\ cache' # NoCache
  BY DEF Published
<1>2. ~(Editor \/ UNCHANGED vars \/ \E p \in Paths, text \in Stored : ChangeOnDisk(p, text))
  BY <1>1 DEF Editor, DidOpen, DidChange, SetSource, Notify, CloseFile, Save, IndexFileCore,
              ChangeOnDisk, vars
<1>3. ~Crash
  BY <1>1 DEF Crash
<1>4. Scanner => Publish
  BY <1>1 DEF Scanner, ScanIs, IInv, TypeOK, StartScan, LoadRows, EndScanFiles, EndInstall, PutRows,
              DeleteRows, EndDropDead, CollectPath, ScanFile, InstallFile, FindDead,
              DropDead, FoldOpenSource
<1>. QED BY <1>2, <1>3, <1>4 DEF Next

\* The posting lists a scan publishes have each path at most once per word and,
\* for a file nobody touched meanwhile, exactly the words of its source
\* (workspace.rs:987 relies on them).
THEOREM PostingsArePublishedExactly == Spec => PostingsExact
<1>1. IInv /\ [Next]_vars => PostingsPublished
  <2>. SUFFICES ASSUME IInv, Publish, NEW w \in Words, NEW p \in Paths
                PROVE  /\ cache'[w, p] <= 1
                       /\ Quietly(p) =>
                             (cache'[w, p] = 1 <=> Source(p) # NoText /\ w \in Source(p))
    BY PublishedIsPublish DEF PostingsPublished, Quietly
  <2>1. cache' = scan.postings /\ scan.pc = "fold" /\ scan.todo = {} /\ Ending
    BY DEF Publish, ScanIs, Ending, Finishing
  <2>2. PostingsOK(w, p) /\ ResultOK(p) /\ OpenOK(p)
    BY DEF IInv, PathOK
  <2>. DEFINE count == scan.postings[<<w, p>>]
  <2>3. count <= 1 /\ (Quietly(p) => (count = 1 <=> Source(p) # NoText /\ w \in Source(p)))
    <3>1. CASE p \in Live
      BY <2>1, <2>2, <3>1 DEF PostingsOK, ResultOK, Live, Source
    <3>2. CASE p \notin Live
      BY <2>1, <2>2, <3>2
         DEF PostingsOK, ResultOK, Live, Source, ScanIs, IsOpen
    <3>. QED BY <3>1, <3>2
  <2>4. cache'[w, p] = count
    BY <2>1
  <2>. QED BY <2>3, <2>4
<1>. QED BY <1>1, Invariance, PTL DEF Spec, PostingsExact, PostingsPublished

\* When a scan ends the manifest has the rows of the files on disk, and no
\* transaction of it drops the row of a file that is there.
ManifestKept ==
    /\ \A p \in rows \ rows' : ~OnDisk(p) \/ p \in touched
    /\ Published => \A p \in Paths \ touched :
          /\ p \in rows => OnDisk(p)
          /\ OnDisk(p) /\ ~IsOpen(p) => p \in rows

\* A scan ends with a row for every closed file on disk and without one for a
\* missing file; rows of files that are there are never dropped.
THEOREM ManifestIsExact == Spec => ManifestExact
<1>1. IInv /\ [Next]_vars => ManifestKept
  <2>. SUFFICES ASSUME IInv, [Next]_vars PROVE ManifestKept
    OBVIOUS
  <2>1. ASSUME NEW p \in rows \ rows' PROVE ~OnDisk(p) \/ p \in touched
    <3>1. DeleteRows
      BY <2>1 DEF Next, Editor, DidOpen, DidChange, SetSource, Notify, CloseFile, Save,
              IndexFileCore, ChangeOnDisk, Crash, vars, Scanner, StartScan, LoadRows,
              EndScanFiles, EndInstall, PutRows, EndDropDead, CollectPath, ScanFile,
              InstallFile, FindDead, DropDead, FoldOpenSource, Publish
    <3>2. p \in scan.dead /\ scan.pc = "delete_rows" /\ p \in Paths
      BY <2>1, <3>1 DEF DeleteRows, ScanIs, IInv, TypeOK
    <3>. QED BY <3>2 DEF IInv, PathOK, DeadOK, Ending, Finishing, Quietly, ScanIs
  <2>2. ASSUME Publish, NEW p \in Paths, Quietly(p)
        PROVE  /\ p \in rows => OnDisk(p)
               /\ OnDisk(p) /\ ~IsOpen(p) => p \in rows
    <3>1. scan.pc = "fold" /\ Ending /\ rows = (scan.existing \cup Live) \ scan.dead
      BY <2>2 DEF Publish, ScanIs, Ending, Finishing, IInv, RowsOK
    <3>2. ResultOK(p) /\ DeadOK(p) /\ OpenOK(p)
      BY DEF IInv, PathOK
    <3>3. p \in Live <=> Collectable(p)
      BY <2>2, <3>1, <3>2 DEF ResultOK, Live, Collectable, OnDisk
    <3>. QED
      BY <2>2, <3>1, <3>2, <3>3 DEF DeadOK, Collectable, OnDisk, ScanIs
  <2>. QED BY <2>1, <2>2, PublishedIsPublish DEF ManifestKept, Quietly
<1>. QED BY <1>1, Invariance, PTL DEF Spec, ManifestExact, ManifestKept
=============================================================================

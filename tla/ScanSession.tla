---------------------------- MODULE ScanSession ----------------------------
(***************************************************************************)
(* A server process of quicklsp over a worktree: the editor's open files   *)
(* (Workspace::open_sources), the scan that runs beside them on a blocking *)
(* thread (Workspace::scan_directory), the manifest rows that survive the  *)
(* process, and the files the disk really holds.                           *)
(*                                                                         *)
(* A text is the set of words in it: its words are what the posting lists  *)
(* file it under, and a file's entry in `files` is the parse of one text.  *)
(* Re-indexing one file is one step here; WorkspaceIndex takes it apart.   *)
(* The fast path of the scan (a row whose stat still matches) yields the   *)
(* unit of the text on disk, as the slow path does.                        *)
(***************************************************************************)
EXTENDS Integers, FiniteSets

CONSTANTS
    Paths,          \* source files below the workspace root
    Words,
    Texts,          \* what a file can hold: sets of words
    NoText,         \* there is no such file / entry / overlay
    NoCache,        \* Workspace::cache before the first scan completes
    MaxScans,       \* bound: scans started by one process
    MaxEdits,       \* bound: didOpen, didChange and didClose notifications
    MaxDiskChanges, \* bound: changes another program makes on disk
    MaxCrashes      \* bound: processes that end

ASSUME TextsAssumption == Texts \subseteq SUBSET Words /\ NoText \notin Texts \cup Paths
ASSUME BoundsAssumption == {MaxScans, MaxEdits, MaxDiskChanges, MaxCrashes} \subseteq Nat

VARIABLES
    disk,         \* what each path holds on disk
    rows,         \* paths with a row in the manifest
    open_sources, files, cache,
    lsp,          \* the path index_file is about to insert, or NoText
    scan,         \* the locals of scan_directory
    touched,      \* history: paths opened, edited, closed or changed on disk
                  \* while a scan ran, changed on disk or closed unsaved since;
                  \* the next scan reads them afresh unless they are open, and
                  \* cannot when they are open and not on disk
    scans, edits, disk_changes, crashes

bounds == <<scans, edits, disk_changes, crashes>>
vars == <<disk, rows, open_sources, files, cache, lsp, scan, touched, bounds>>

Stored == Texts \cup {NoText}
Postings == [Words \X Paths -> 0..2]
NoPostings == [wp \in Words \X Paths |-> 0]

NoScan == [pc |-> "idle", todo |-> {}, collected |-> {}, existing |-> {}, dead |-> {},
           result |-> [p \in Paths |-> NoText], postings |-> NoPostings]

TypeOK ==
    /\ disk \in [Paths -> Stored]
    /\ rows \subseteq Paths
    /\ open_sources \in [Paths -> Stored]
    /\ files \in [Paths -> Stored]
    /\ cache \in Postings \cup {NoCache}
    /\ lsp \in Paths \cup {NoText}
    /\ scan \in [pc: {"idle", "collect", "scan", "install", "find_dead",
                      "delete_rows", "drop_dead", "fold"},
                 todo: SUBSET Paths, collected: SUBSET Paths, existing: SUBSET Paths,
                 dead: SUBSET Paths, result: [Paths -> Stored], postings: Postings]
    /\ touched \subseteq Paths
    /\ {scans, edits, disk_changes, crashes} \subseteq Nat

Init ==
    /\ disk \in [Paths -> Stored]
    /\ rows = {}
    /\ open_sources = [p \in Paths |-> NoText]
    /\ files = [p \in Paths |-> NoText]
    /\ cache = NoCache
    /\ lsp = NoText
    /\ scan = NoScan
    /\ touched = {}
    /\ scans = 0 /\ edits = 0 /\ disk_changes = 0 /\ crashes = 0

IsOpen(p) == open_sources[p] # NoText
OnDisk(p) == disk[p] # NoText
Scanning == scan.pc # "idle"

\* add_to_postings, for every word of the text.
AddToPostings(postings, p, text) ==
    [wp \in Words \X Paths |->
        IF wp[2] = p /\ wp[1] \in text /\ postings[wp] < 2 THEN postings[wp] + 1
                                                           ELSE postings[wp]]

\* remove_from_postings, for every path of the set.
RemoveFromPostings(postings, ps) ==
    [wp \in Words \X Paths |-> IF wp[2] \in ps THEN 0 ELSE postings[wp]]

-----------------------------------------------------------------------------
(***************************************************************************)
(* The editor.  A notification is handled by the LSP task, one at a time.  *)
(***************************************************************************)
Notify(p, lost) ==
    /\ lsp = NoText
    /\ edits < MaxEdits
    /\ edits' = edits + 1
    /\ touched' = touched \cup (IF Scanning \/ lost THEN {p} ELSE {})
    /\ UNCHANGED <<disk, rows, cache, scan, scans, disk_changes, crashes>>

\* index_file, its first half: the editor's text becomes the overlay.
SetSource(p, text) ==
    /\ Notify(p, FALSE)
    /\ open_sources' = [open_sources EXCEPT ![p] = text]
    /\ lsp' = p
    /\ UNCHANGED files

\* The editor opens a file it read from disk, or a buffer for a new one.
DidOpen(p, text) ==
    /\ ~IsOpen(p)
    /\ OnDisk(p) => text = disk[p]
    /\ SetSource(p, text)

DidChange(p, text) ==
    /\ IsOpen(p)
    /\ text # open_sources[p]
    /\ SetSource(p, text)

\* index_file, its second half: index_file_core.
IndexFileCore ==
    /\ lsp # NoText
    /\ files' = [files EXCEPT ![lsp] = open_sources[lsp]]
    /\ lsp' = NoText
    /\ UNCHANGED <<disk, rows, open_sources, cache, scan, touched, bounds>>

\* close_file: the overlay is dropped, the symbols parsed from it stay, also
\* when the buffer was not saved.
CloseFile(p) ==
    /\ IsOpen(p)
    /\ Notify(p, open_sources[p] # disk[p])
    /\ open_sources' = [open_sources EXCEPT ![p] = NoText]
    /\ UNCHANGED <<files, lsp>>

\* The editor saves the buffer; the server handles no didSave.
Save(p) ==
    /\ IsOpen(p) /\ disk[p] # open_sources[p]
    /\ disk' = [disk EXCEPT ![p] = open_sources[p]]
    /\ touched' = touched \cup (IF Scanning THEN {p} ELSE {})
    /\ UNCHANGED <<rows, open_sources, files, cache, lsp, scan, bounds>>

\* Another program writes or deletes a file.
ChangeOnDisk(p, text) ==
    /\ disk_changes < MaxDiskChanges
    /\ text # disk[p]
    /\ disk_changes' = disk_changes + 1
    /\ disk' = [disk EXCEPT ![p] = text]
    /\ touched' = touched \cup {p}
    /\ UNCHANGED <<rows, open_sources, files, cache, lsp, scan, scans, edits, crashes>>

-----------------------------------------------------------------------------
(***************************************************************************)
(* scan_directory.                                                         *)
(***************************************************************************)
ScanIs(pc) == scan.pc = pc

StartScan ==
    /\ ScanIs("idle") /\ scans < MaxScans
    /\ scans' = scans + 1
    /\ scan' = [NoScan EXCEPT !.pc = "collect", !.todo = Paths]
    /\ touched' = {p \in Paths : IsOpen(p) /\ (p \in touched \/ ~OnDisk(p))}
    /\ UNCHANGED <<disk, rows, open_sources, files, cache, lsp, edits, disk_changes, crashes>>

\* Mutant: open files are collected as well.
CollectPath_IgnoresOverlays(p) ==
    /\ ScanIs("collect") /\ p \in scan.todo
    /\ scan' = [scan EXCEPT !.todo = @ \ {p},
                            !.collected = IF OnDisk(p) THEN @ \cup {p} ELSE @]
    /\ UNCHANGED <<disk, rows, open_sources, files, cache, lsp, touched, bounds>>

\* collect_paths looks at one directory entry: an open file is skipped.
CollectPath(p) ==
    /\ ScanIs("collect") /\ p \in scan.todo
    /\ scan' = [scan EXCEPT !.todo = @ \ {p},
                            !.collected = IF OnDisk(p) /\ ~IsOpen(p)
                                          THEN @ \cup {p} ELSE @]
    /\ UNCHANGED <<disk, rows, open_sources, files, cache, lsp, touched, bounds>>

\* The manifest's rows are read once the paths are known.
LoadRows ==
    /\ ScanIs("collect") /\ scan.todo = {}
    /\ scan' = [scan EXCEPT !.pc = "scan", !.todo = scan.collected,
                            !.existing = rows]
    /\ UNCHANGED <<disk, rows, open_sources, files, cache, lsp, touched, bounds>>

\* One file of the parallel scan; a file that is gone is counted as an error.
ScanFile(p) ==
    /\ ScanIs("scan") /\ p \in scan.todo
    /\ scan' = [scan EXCEPT !.todo = @ \ {p}, !.result[p] = disk[p]]
    /\ UNCHANGED <<disk, rows, open_sources, files, cache, lsp, touched, bounds>>

Live == {p \in Paths : scan.result[p] # NoText}

EndScanFiles ==
    /\ ScanIs("scan") /\ scan.todo = {}
    /\ scan' = [scan EXCEPT !.pc = "install", !.todo = Live]
    /\ UNCHANGED <<disk, rows, open_sources, files, cache, lsp, touched, bounds>>

\* Phase 4: add_to_postings and install_file_unit.
InstallFile(p) ==
    /\ ScanIs("install") /\ p \in scan.todo
    /\ scan' = [scan EXCEPT !.todo = @ \ {p},
                            !.postings = AddToPostings(@, p, scan.result[p])]
    /\ files' = [files EXCEPT ![p] = scan.result[p]]
    /\ UNCHANGED <<disk, rows, open_sources, cache, lsp, touched, bounds>>

EndInstall ==
    /\ ScanIs("install") /\ scan.todo = {}
    /\ scan' = [scan EXCEPT !.pc = "find_dead", !.todo = scan.existing \ Live]
    /\ UNCHANGED <<disk, rows, open_sources, files, cache, lsp, touched, bounds>>

\* Mutant: a row that this scan did not meet is dead, on disk or not.
FindDead_Unchecked(p) ==
    /\ ScanIs("find_dead") /\ p \in scan.todo
    /\ scan' = [scan EXCEPT !.todo = @ \ {p}, !.dead = @ \cup {p}]
    /\ UNCHANGED <<disk, rows, open_sources, files, cache, lsp, touched, bounds>>

\* A row that this scan did not meet is dead if its file is really missing.
FindDead(p) ==
    /\ ScanIs("find_dead") /\ p \in scan.todo
    /\ scan' = [scan EXCEPT !.todo = @ \ {p},
                            !.dead = IF OnDisk(p) THEN @ ELSE @ \cup {p}]
    /\ UNCHANGED <<disk, rows, open_sources, files, cache, lsp, touched, bounds>>

\* Phase 5: one SQLite transaction each.
PutRows ==
    /\ ScanIs("find_dead") /\ scan.todo = {}
    /\ rows' = rows \cup Live
    /\ scan' = [scan EXCEPT !.pc = "delete_rows"]
    /\ UNCHANGED <<disk, open_sources, files, cache, lsp, touched, bounds>>

DeleteRows ==
    /\ ScanIs("delete_rows")
    /\ rows' = rows \ scan.dead
    /\ scan' = [scan EXCEPT !.pc = "drop_dead", !.todo = scan.dead]
    /\ UNCHANGED <<disk, open_sources, files, cache, lsp, touched, bounds>>

\* remove_definitions_for_file and files.remove for a dead row.
DropDead(p) ==
    /\ ScanIs("drop_dead") /\ p \in scan.todo
    /\ scan' = [scan EXCEPT !.todo = @ \ {p}]
    /\ files' = [files EXCEPT ![p] = NoText]
    /\ UNCHANGED <<disk, rows, open_sources, cache, lsp, touched, bounds>>

EndDropDead ==
    /\ ScanIs("drop_dead") /\ scan.todo = {}
    /\ scan' = [scan EXCEPT !.pc = "fold", !.todo = Paths,
                            !.postings = RemoveFromPostings(@, scan.dead)]
    /\ UNCHANGED <<disk, rows, open_sources, files, cache, lsp, touched, bounds>>

\* Mutant: the scanned files are folded in again.
FoldOpenSource_Again(p) ==
    /\ ScanIs("fold") /\ p \in scan.todo
    /\ scan' = [scan EXCEPT !.todo = @ \ {p},
                            !.postings = IF IsOpen(p)
                                         THEN AddToPostings(@, p, open_sources[p]) ELSE @]
    /\ UNCHANGED <<disk, rows, open_sources, files, cache, lsp, touched, bounds>>

\* install_open_sources_not_yet_cached reaches the place of p in open_sources.
FoldOpenSource(p) ==
    /\ ScanIs("fold") /\ p \in scan.todo
    /\ scan' = [scan EXCEPT !.todo = @ \ {p},
                            !.postings = IF IsOpen(p) /\ p \notin Live
                                         THEN AddToPostings(@, p, open_sources[p]) ELSE @]
    /\ UNCHANGED <<disk, rows, open_sources, files, cache, lsp, touched, bounds>>

\* The state of this scan becomes Workspace::cache.
Publish ==
    /\ ScanIs("fold") /\ scan.todo = {}
    /\ cache' = scan.postings
    /\ scan' = NoScan
    /\ UNCHANGED <<disk, rows, open_sources, files, lsp, touched, bounds>>

-----------------------------------------------------------------------------
\* The process ends, wherever it is, and another one starts: what is on disk
\* and in the manifest stays.
Crash ==
    /\ crashes < MaxCrashes
    /\ crashes' = crashes + 1
    /\ open_sources' = [p \in Paths |-> NoText]
    /\ files' = [p \in Paths |-> NoText]
    /\ cache' = NoCache
    /\ lsp' = NoText
    /\ scan' = NoScan
    /\ scans' = 0
    /\ UNCHANGED <<disk, rows, touched, edits, disk_changes>>

Editor ==
    \/ \E p \in Paths, text \in Texts : DidOpen(p, text) \/ DidChange(p, text)
    \/ \E p \in Paths : CloseFile(p) \/ Save(p)
    \/ IndexFileCore

Scanner ==
    \/ StartScan \/ LoadRows \/ EndScanFiles \/ EndInstall
    \/ PutRows \/ DeleteRows \/ EndDropDead \/ Publish
    \/ \E p \in Paths : \/ CollectPath(p) \/ ScanFile(p) \/ InstallFile(p)
                        \/ FindDead(p) \/ DropDead(p) \/ FoldOpenSource(p)

Next ==
    \/ Editor \/ Scanner \/ Crash
    \/ \E p \in Paths, text \in Stored : ChangeOnDisk(p, text)

Spec == Init /\ [][Next]_vars
-----------------------------------------------------------------------------
(***************************************************************************)
(* Properties.                                                             *)
(***************************************************************************)
Quiet == ~Scanning /\ lsp = NoText

\* What file_source returns: the overlay, or else the file on disk.
Source(p) == IF IsOpen(p) THEN open_sources[p] ELSE disk[p]

\* Once a scan has completed, a file that the editor and the disk left alone
\* while it ran is indexed as the text a query would read for it: the scan
\* does not disturb an open buffer, nor miss a closed file, whatever it meets
\* elsewhere, and whenever an earlier process ended.
IndexIsCurrent ==
    Quiet /\ cache # NoCache =>
        \A p \in Paths \ touched : Source(p) # NoText => files[p] = Source(p)

\* With the types of the variables, which say that a posting list has no entry
\* too many or too few after files were opened, changed and dropped.
ScanInv == TypeOK /\ IndexIsCurrent

Published == scan.pc = "fold" /\ scan'.pc = "idle" /\ cache' # NoCache

\* The posting lists a scan publishes hold each path at most once per word, or
\* find_references would report its occurrences twice; and for a file left
\* alone, exactly the words a query would read in it.
PostingsExact ==
    [][Published => \A w \in Words, p \in Paths :
          /\ cache'[w, p] <= 1
          /\ p \notin touched =>
                (cache'[w, p] = 1 <=> Source(p) # NoText /\ w \in Source(p))]_vars

\* When a scan ends the manifest has a row for every closed file on disk and
\* none for a missing one; the row of a file that is skipped because it is
\* open survives; a process that ended between two transactions does no harm.
ManifestExact ==
    [][/\ \A p \in rows \ rows' : ~OnDisk(p) \/ p \in touched
       /\ Published => \A p \in Paths \ touched :
             /\ p \in rows => OnDisk(p)
             /\ OnDisk(p) /\ ~IsOpen(p) => p \in rows]_vars

\* "Overlay wins for that path over any on-disk FileUnit"
\* (docs/cache-v3-design.md:206): an open file is indexed as its buffer.
OverlayWins == Quiet => \A p \in Paths : IsOpen(p) => files[p] = open_sources[p]

\* close_file keeps the symbols because "they're still valid from the last
\* save" (workspace.rs:758): a closed file is indexed as it is on disk.  It is
\* not when the buffer was closed unsaved.
ClosedAsSaved ==
    Quiet => \A p \in Paths : ~IsOpen(p) /\ files[p] # NoText => files[p] = disk[p]

\* find_references, its choice of files: the candidates of the posting list,
\* or every indexed file if there are none.
FilesToScan(w) ==
    LET candidates == {p \in Paths : cache # NoCache /\ cache[w, p] > 0}
    IN  IF candidates # {} THEN candidates ELSE {p \in Paths : files[p] # NoText}

\* "Find all references of a symbol name across all indexed files"
\* (workspace.rs:974): no indexed file with the word is left out.
ReferencesComplete ==
    Quiet => \A w \in Words, p \in Paths :
        files[p] # NoText /\ Source(p) # NoText /\ w \in Source(p) => p \in FilesToScan(w)
=============================================================================

--------------------------- MODULE ServerSession ---------------------------
(***************************************************************************)
(* The background task `initialized` spawns (src/lsp/server.rs:303), from  *)
(* the progress token to the End notification: the workspace scan and the  *)
(* dependency pass run on blocking threads and report through unbounded    *)
(* channels, the task and a forwarder task drain them to the client.       *)
(*                                                                         *)
(* The dependency pass is PackageQueue's index_pending, step by step; the  *)
(* scan is its workers' files, of which each is counted by progress_bump   *)
(* (src/workspace.rs:667) or was an error. Either thread may panic: the    *)
(* task joins with .ok().                                                  *)
(***************************************************************************)
EXTENDS PackageQueue

CONSTANTS
    lsp,         \* the thread that runs initialize
    indexer,     \* the blocking thread that runs index_pending
    Workers,     \* the scan's threads
    TotalFiles,
    ReportStep,  \* files between two reports: 500
    MaxPanics    \* bound: panics while a file is parsed

ASSUME ServerAssumption ==
    /\ Threads = {lsp, indexer}
    /\ Plan[lsp] = <<"detect_and_resolve">> /\ Plan[indexer] = <<"index_pending">>
    /\ IsFiniteSet(Workers) /\ Workers # {}
    /\ TotalFiles \in Nat /\ ReportStep \in Nat \ {0} /\ MaxPanics \in Nat

VARIABLES
    task,                 \* position of the spawned task
    progress_supported,   \* the client created the token
    cache_opened,         \* the scan has its CacheState
    todo, indexed, errors, last_progress, worker, \* files left, the atomics, the threads
    scan_rx, progress_rx, \* the channels
    forwarder,
    total,                \* packages the dependency pass took
    notifications,        \* history: what the client was sent
    panics

scan_vars == <<cache_opened, todo, indexed, errors, last_progress, worker>>
task_vars == <<task, progress_supported, forwarder, notifications>>
session_vars == <<vars, scan_vars, task_vars, scan_rx, progress_rx, total, panics>>

IdleWorker == [pc |-> "take", count |-> 0, prev |-> 0]

SessionTypeOK ==
    /\ task \in {"initialize", "create", "begin", "scan", "join_scan", "report", "spawn",
                 "join_index", "join_forwarder", "end", "ended"}
    /\ progress_supported \in BOOLEAN
    /\ cache_opened \in BOOLEAN
    /\ {todo, indexed, errors, last_progress} \subseteq 0 .. TotalFiles
    /\ worker \in [Workers -> [pc: {"off", "take", "load", "exchange", "send", "gone"},
                               count: 0 .. TotalFiles, prev: 0 .. TotalFiles]]
    /\ scan_rx \in Seq(1 .. TotalFiles)
    /\ progress_rx \in Seq(1 .. total)
    /\ forwarder \in {"off", "on", "gone"}
    /\ panics \in 0 .. MaxPanics
    \* Every file left the list once; the last report is of a count reached.
    /\ indexed + errors <= TotalFiles - todo /\ last_progress <= indexed

SessionInit ==
    /\ Init
    /\ task = "initialize" /\ progress_supported = FALSE
    /\ cache_opened = FALSE
    /\ todo = TotalFiles /\ indexed = 0 /\ errors = 0 /\ last_progress = 0
    /\ worker = [w \in Workers |-> [IdleWorker EXCEPT !.pc = "off"]]
    /\ scan_rx = <<>> /\ progress_rx = <<>>
    /\ forwarder = "off" /\ total = 0 /\ notifications = <<>> /\ panics = 0

-----------------------------------------------------------------------------
(* The scan's threads. *)

At(w, label) == worker[w].pc = label
Moves(w, label) == worker' = [worker EXCEPT ![w].pc = label]
ScanKeeps == UNCHANGED <<vars, task_vars, progress_rx, total>>

\* CacheState::open; without it the scan returns at once, and the task goes on.
OpenCache ==
    /\ task = "scan" /\ \A w \in Workers : At(w, "off")
    /\ cache_opened' \in BOOLEAN
    /\ worker' = [w \in Workers |-> [IdleWorker EXCEPT !.pc = IF cache_opened' THEN "take" ELSE "gone"]]
    /\ ScanKeeps /\ UNCHANGED <<todo, indexed, errors, last_progress, scan_rx, panics>>

\* The file's unit is there: it is counted.
TakeFile(w) ==
    /\ At(w, "take") /\ todo > 0
    /\ todo' = todo - 1
    /\ indexed' = indexed + 1
    /\ worker' = [worker EXCEPT ![w].pc = "load", ![w].count = indexed + 1]
    /\ ScanKeeps /\ UNCHANGED <<cache_opened, errors, last_progress, scan_rx, panics>>

\* It cannot be stat'ed, read or stored: progress_bump is not called.
FailFile(w) ==
    /\ At(w, "take") /\ todo > 0
    /\ todo' = todo - 1
    /\ errors' = errors + 1
    /\ ScanKeeps /\ UNCHANGED <<cache_opened, indexed, last_progress, worker, scan_rx, panics>>

\* The parse panics: the file is not counted and the thread takes no other.
PanicInFile(w) ==
    /\ At(w, "take") /\ todo > 0 /\ panics < MaxPanics
    /\ panics' = panics + 1
    /\ todo' = todo - 1
    /\ Moves(w, "gone")
    /\ ScanKeeps /\ UNCHANGED <<cache_opened, indexed, errors, last_progress, scan_rx>>

\* count >= prev + 500 || count == total_files
LoadLast(w) ==
    /\ At(w, "load")
    /\ LET due == worker[w].count >= last_progress + ReportStep \/ worker[w].count = TotalFiles
       IN  worker' = [worker EXCEPT ![w].pc = IF due THEN "exchange" ELSE "take",
                                    ![w].prev = last_progress]
    /\ ScanKeeps /\ UNCHANGED <<cache_opened, todo, indexed, errors, last_progress, scan_rx, panics>>

\* compare_exchange: the loser reports nothing, even with the last count.
Exchange(w) ==
    /\ At(w, "exchange")
    /\ IF last_progress = worker[w].prev
       THEN last_progress' = worker[w].count /\ Moves(w, "send")
       ELSE Moves(w, "take") /\ UNCHANGED last_progress
    /\ ScanKeeps /\ UNCHANGED <<cache_opened, todo, indexed, errors, scan_rx, panics>>

SendScan(w) ==
    /\ At(w, "send")
    /\ scan_rx' = Append(scan_rx, worker[w].count)
    /\ Moves(w, "take")
    /\ ScanKeeps /\ UNCHANGED <<cache_opened, todo, indexed, errors, last_progress, panics>>

\* No file is left; after a panic the others may stop before that.
StopWorker(w) ==
    /\ At(w, "take") /\ (todo = 0 \/ panics > 0)
    /\ Moves(w, "gone")
    /\ ScanKeeps /\ UNCHANGED <<cache_opened, todo, indexed, errors, last_progress, scan_rx, panics>>

Scanner(w) ==
    \/ TakeFile(w) \/ FailFile(w) \/ PanicInFile(w) \/ LoadLast(w) \/ Exchange(w) \/ SendScan(w) \/ StopWorker(w)

\* The closure that owns the sender is dropped.
ScanDone == \A w \in Workers : At(w, "gone")

-----------------------------------------------------------------------------
(* The dependency pass: PackageQueue's steps, with the progress callback    *)
(* where a package is passed over or marked.                                *)

PassDone == done[indexer] = 1

Passed == Len(packages'[indexer]) < Len(packages[indexer])

\* cb(i + 1, total)
Callback ==
    IF Passed THEN progress_rx' = Append(progress_rx, total - Len(packages'[indexer]))
              ELSE UNCHANGED progress_rx

Pass ==
    /\ forwarder # "off"
    /\ Step(indexer)
    /\ Callback
    /\ total' = IF pc[indexer] = "take" THEN Len(pending_packages) ELSE total
    /\ UNCHANGED <<scan_vars, task_vars, scan_rx, panics>>

\* Indexing a package's files panics: the thread is gone, the flag stays.
PanicInPackage ==
    /\ forwarder # "off" /\ panics < MaxPanics
    /\ pc[indexer] = "mark"
    /\ panics' = panics + 1
    /\ Returns(indexer)
    /\ UNCHANGED <<installed, queue_vars, workspace_root, root_readers, packages, history,
                   scan_vars, task_vars, scan_rx, progress_rx, total>>

-----------------------------------------------------------------------------
(* The task, the forwarder and the client. *)

TaskKeeps == UNCHANGED <<vars, scan_vars, progress_rx, total, panics>>
Notify(n) == notifications' = IF progress_supported THEN Append(notifications, n) ELSE notifications
MoveTo(from, to) == task = from /\ task' = to

\* initialize resolves the packages before it answers; initialized comes after.
Initialize ==
    /\ task = "initialize"
    /\ Step(lsp)
    /\ UNCHANGED <<scan_vars, task_vars, scan_rx, progress_rx, total, panics>>

Initialized ==
    /\ done[lsp] = 1 /\ MoveTo("initialize", "create")
    /\ TaskKeeps /\ UNCHANGED <<progress_supported, forwarder, notifications, scan_rx>>

\* A client that named no root: nothing is resolved, and the task returns.
NoRoot ==
    /\ pc[lsp] = "idle" /\ ~workspace_root /\ MoveTo("initialize", "ended")
    /\ TaskKeeps /\ UNCHANGED <<progress_supported, forwarder, notifications, scan_rx>>

\* The answer to window/workDoneProgress/create: Ok or an error.
ClientAnswers ==
    /\ MoveTo("create", "begin")
    /\ progress_supported' \in BOOLEAN
    /\ TaskKeeps /\ UNCHANGED <<forwarder, notifications, scan_rx>>

\* Begin, then the scan is spawned.
Begin ==
    /\ MoveTo("begin", "scan")
    /\ Notify([stage |-> "begin", count |-> 0])
    /\ TaskKeeps /\ UNCHANGED <<progress_supported, forwarder, scan_rx>>

ForwardScan ==
    /\ task = "scan" /\ scan_rx # <<>>
    /\ scan_rx' = Tail(scan_rx)
    /\ Notify([stage |-> "scan", count |-> Head(scan_rx)])
    /\ TaskKeeps /\ UNCHANGED <<task, progress_supported, forwarder>>

\* Mutant: the task waits for the report of the last file.
LeaveScan_AtTheLastFile ==
    /\ last_progress = TotalFiles /\ ScanDone /\ scan_rx = <<>>
    /\ MoveTo("scan", "report")
    /\ TaskKeeps /\ UNCHANGED <<progress_supported, forwarder, notifications, scan_rx>>

\* Mutant: the task goes on when the channel is empty.
LeaveScan_WhenEmpty ==
    /\ scan_rx = <<>>
    /\ MoveTo("scan", "report")
    /\ TaskKeeps /\ UNCHANGED <<progress_supported, forwarder, notifications, scan_rx>>

\* recv returns None when the sender is gone and the channel is empty;
\* scan_handle.await.ok()
LeaveScan ==
    /\ ScanDone /\ scan_rx = <<>>
    /\ MoveTo("scan", "report")
    /\ TaskKeeps /\ UNCHANGED <<progress_supported, forwarder, notifications, scan_rx>>

\* "Indexing dependencies...", then the pass and its forwarder are spawned.
SpawnPass ==
    /\ MoveTo("report", "join_index")
    /\ Notify([stage |-> "report", count |-> 0])
    /\ forwarder' = "on"
    /\ TaskKeeps /\ UNCHANGED <<progress_supported, scan_rx>>

ForwardPackage ==
    /\ forwarder = "on" /\ progress_rx # <<>>
    /\ progress_rx' = Tail(progress_rx)
    /\ Notify([stage |-> "package", count |-> Head(progress_rx)])
    /\ UNCHANGED <<vars, scan_vars, task, progress_supported, forwarder, scan_rx, total, panics>>

ForwarderReturns ==
    /\ forwarder = "on" /\ progress_rx = <<>> /\ PassDone
    /\ forwarder' = "gone"
    /\ TaskKeeps /\ UNCHANGED <<task, progress_supported, notifications, scan_rx>>

JoinIndex ==
    /\ PassDone /\ MoveTo("join_index", "join_forwarder")
    /\ TaskKeeps /\ UNCHANGED <<progress_supported, forwarder, notifications, scan_rx>>

\* Mutant: the forwarder is not awaited.
JoinForwarder_Detached ==
    /\ MoveTo("join_forwarder", "end")
    /\ TaskKeeps /\ UNCHANGED <<progress_supported, forwarder, notifications, scan_rx>>

JoinForwarder ==
    /\ forwarder = "gone" /\ MoveTo("join_forwarder", "end")
    /\ TaskKeeps /\ UNCHANGED <<progress_supported, forwarder, notifications, scan_rx>>

End ==
    /\ MoveTo("end", "ended")
    /\ Notify([stage |-> "end", count |-> 0])
    /\ TaskKeeps /\ UNCHANGED <<progress_supported, forwarder, scan_rx>>

Task ==
    \/ Initialized \/ Begin \/ ForwardScan \/ LeaveScan \/ SpawnPass
    \/ JoinIndex \/ JoinForwarder \/ End
Forwarder == ForwardPackage \/ ForwarderReturns
InstallOne ==
    /\ \E p \in Packages : Install(p)
    /\ UNCHANGED <<scan_vars, task_vars, scan_rx, progress_rx, total, panics>>

SessionNext ==
    \/ Initialize \/ NoRoot \/ ClientAnswers \/ Task \/ Forwarder
    \/ OpenCache \/ (\E w \in Workers : Scanner(w))
    \/ Pass \/ PanicInPackage \/ InstallOne

\* Scheduled threads and tasks run on; the client answers the request.
SessionSpec ==
    /\ SessionInit /\ [][SessionNext]_session_vars
    /\ WF_session_vars(Initialize) /\ WF_session_vars(ClientAnswers)
    /\ WF_session_vars(Task) /\ WF_session_vars(Forwarder) /\ WF_session_vars(Pass)
    /\ WF_session_vars(OpenCache) /\ \A w \in Workers : WF_session_vars(Scanner(w))

-----------------------------------------------------------------------------
(* What the client is promised. *)

Rank(n) == [begin |-> 1, scan |-> 2, report |-> 3, package |-> 4, end |-> 5][n.stage]
Reports(stage) == {i \in DOMAIN notifications : notifications[i].stage = stage}

\* What a client that created the token gets is Begin, then reports, then End
\* and nothing after it, the scan's before the packages'; a client that
\* refused gets nothing (server.rs:321).
ProgressWellFormed ==
    /\ ~progress_supported => notifications = <<>>
    /\ notifications # <<>> => Head(notifications).stage = "begin"
    /\ \A i, j \in DOMAIN notifications : i < j =>
         /\ Rank(notifications[i]) <= Rank(notifications[j])
         /\ notifications[i].stage = notifications[j].stage =>
               notifications[i].stage \in {"scan", "package"}

\* The packages are reported one by one, in order, and all of them before End.
PackagesReportedInOrder ==
    LET reports == Reports("package")
    IN  /\ \A i \in reports : notifications[i].count = Cardinality({j \in reports : j <= i})
        /\ task = "ended" /\ progress_supported /\ panics = 0 => Cardinality(reports) = total

\* However the workers race, no more reports are sent than one per ReportStep
\* files and one for the last, and no count twice (workspace.rs:676).
ScanReportsAreThrottled ==
    LET sent == Reports("scan")
    IN  /\ Len(scan_rx) + Cardinality(sent) <= TotalFiles \div ReportStep + 1
        /\ \A i, j \in DOMAIN scan_rx : scan_rx[i] = scan_rx[j] => i = j
        /\ \A i, j \in sent : notifications[i].count = notifications[j].count => i = j
        /\ \A i \in DOMAIN scan_rx, j \in sent : scan_rx[i] # notifications[j].count

\* What is sent, and what is on its way, is in order and not too much.
SessionInv == SessionTypeOK /\ ProgressWellFormed /\ PackagesReportedInOrder /\ ScanReportsAreThrottled

\* End is sent when every file was counted or was an error and every package that
\* was resolved has been indexed, unless something panicked; of a cache that does
\* not open the client is told nothing (workspace.rs:385), nor of an error.
EndMeansIndexed ==
    task = "ended" /\ panics = 0 /\ workspace_root =>
        /\ cache_opened => todo = 0 /\ indexed + errors = TotalFiles
        /\ ~cache_opened => todo = TotalFiles /\ indexed = 0
        /\ queued \subseteq indexed_packages /\ ~indexing_in_progress

\* Indexing comes to its end, also when a parse panics, when files are errors or
\* the cache does not open, and when the last file's report is lost in a race.
IndexingEnds == task = "create" ~> task = "ended"
=============================================================================

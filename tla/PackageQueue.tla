---------------------------- MODULE PackageQueue ----------------------------
(***************************************************************************)
(* DependencyIndex (src/deps/mod.rs): the queue of dependency packages     *)
(* between those who resolve them and the pass that indexes their sources. *)
(*                                                                         *)
(* Every thread runs the calls of its plan one after the other.  A step is *)
(* one access to a shared structure; the parsing of lock files is left out *)
(* and a package is resolved when it is installed on disk.                 *)
(***************************************************************************)
EXTENDS Integers, FiniteSets, Sequences, SequencesExt

CONSTANTS
    Packages,
    Threads,
    Plan        \* per thread, the calls it makes

Calls == {"detect_and_resolve", "refresh_if_stale", "enqueue_packages", "index_pending"}

ASSUME PackagesAssumption == IsFiniteSet(Packages)
ASSUME PlanAssumption == Plan \in [Threads -> Seq(Calls)]

VARIABLES
    installed,            \* packages on disk
    pending_packages, indexed_packages, indexing_in_progress,
    workspace_root,       \* whether it is known
    root_readers,         \* threads holding workspace_root's read guard
    pc, packages,         \* per thread: position, local list of packages
    done,                 \* per thread: calls of its plan that returned
    queued, indexings     \* history: packages ever queued; how often each was indexed

queue_vars == <<pending_packages, indexed_packages, indexing_in_progress>>
history == <<queued, indexings>>
vars == <<installed, queue_vars, workspace_root, root_readers, pc, packages, done, history>>

TypeOK ==
    /\ installed \subseteq Packages
    /\ pending_packages \in Seq(Packages)
    /\ indexed_packages \subseteq Packages
    /\ indexing_in_progress \in BOOLEAN
    /\ workspace_root \in BOOLEAN
    /\ root_readers \subseteq Threads
    /\ pc \in [Threads -> {"idle", "set_root", "resolve", "filter", "replace",
                           "take", "next", "mark"}]
    /\ packages \in [Threads -> Seq(Packages)]
    /\ done \in [Threads -> Nat]
    /\ \A t \in Threads : done[t] <= Len(Plan[t])
    /\ queued \subseteq Packages
    /\ indexings \in [Packages -> Nat]
    \* The pass that runs is the one that holds the flag.
    /\ indexing_in_progress <=> \E t \in Threads : pc[t] \in {"take", "next", "mark"}

Init ==
    /\ installed \in SUBSET Packages
    /\ pending_packages = <<>>
    /\ indexed_packages = {}
    /\ indexing_in_progress = FALSE
    /\ workspace_root = FALSE
    /\ root_readers = {}
    /\ pc = [t \in Threads |-> "idle"]
    /\ packages = [t \in Threads |-> <<>>]
    /\ done = [t \in Threads |-> 0]
    /\ queued = {}
    /\ indexings = [p \in Packages |-> 0]

Goto(t, label) == pc' = [pc EXCEPT ![t] = label]
Calling(t, call) == pc[t] = "idle" /\ done[t] < Len(Plan[t]) /\ Plan[t][done[t] + 1] = call
Returns(t) == Goto(t, "idle") /\ done' = [done EXCEPT ![t] = @ + 1]

\* The user runs cargo build or npm install.
Install(p) ==
    /\ p \notin installed
    /\ installed' = installed \cup {p}
    /\ UNCHANGED <<queue_vars, workspace_root, root_readers, pc, packages, done, history>>

-----------------------------------------------------------------------------
DetectAndResolve(t) ==
    /\ Calling(t, "detect_and_resolve")
    /\ Goto(t, "set_root")
    /\ UNCHANGED <<installed, queue_vars, workspace_root, root_readers, packages, done, history>>

\* refresh_if_stale, when enough time has passed: the read guard of the `if let`
\* lives until the end of its block, and the block calls detect_and_resolve.
RefreshIfStale(t) ==
    /\ Calling(t, "refresh_if_stale")
    /\ \/ /\ workspace_root
          /\ root_readers' = root_readers \cup {t}
          /\ Goto(t, "set_root")
          /\ UNCHANGED done
       \/ /\ Returns(t)
          /\ UNCHANGED root_readers
    /\ UNCHANGED <<installed, queue_vars, workspace_root, packages, history>>

\* workspace_root.write()
SetRoot(t) ==
    /\ pc[t] = "set_root"
    /\ root_readers = {}
    /\ workspace_root' = TRUE
    /\ Goto(t, "resolve")
    /\ UNCHANGED <<installed, queue_vars, root_readers, packages, done, history>>

\* What is installed is found, some of it twice: VIRTUAL_ENV may be the venv of
\* the workspace as well (python.rs:123).
Resolve(t) ==
    /\ pc[t] = "resolve"
    /\ \E twice \in SUBSET installed :
          packages' = [packages EXCEPT ![t] = SetToSeq(twice) \o SetToSeq(installed)]
    /\ Goto(t, "filter")
    /\ UNCHANGED <<installed, queue_vars, workspace_root, root_readers, done, history>>

\* packages.retain, in some order.
Retained(s) ==
    LET kept == SetToSeq({i \in DOMAIN s : s[i] \notin indexed_packages})
    IN  [k \in DOMAIN kept |-> s[kept[k]]]

\* The ones already indexed are dropped.
Filter(t) ==
    /\ pc[t] = "filter"
    /\ packages' = [packages EXCEPT ![t] = Retained(@)]
    /\ Goto(t, "replace")
    /\ UNCHANGED <<installed, queue_vars, workspace_root, root_readers, done, history>>

\* The new list takes the place of the old one.
Replace(t) ==
    /\ pc[t] = "replace"
    /\ pending_packages' = packages[t]
    /\ queued' = queued \cup ToSet(packages[t])
    /\ packages' = [packages EXCEPT ![t] = <<>>]
    /\ root_readers' = root_readers \ {t}
    /\ Returns(t)
    /\ UNCHANGED <<installed, indexed_packages, indexing_in_progress, workspace_root, indexings>>

EnqueuePackages(t, p) ==
    /\ Calling(t, "enqueue_packages")
    /\ pending_packages' = Append(pending_packages, p)
    /\ queued' = queued \cup {p}
    /\ Returns(t)
    /\ UNCHANGED <<installed, indexed_packages, indexing_in_progress, workspace_root,
                   root_readers, packages, indexings>>

-----------------------------------------------------------------------------
(***************************************************************************)
(* index_pending                                                           *)
(***************************************************************************)
\* Mutant: the list is taken before the pass knows that it may run.
IndexPending_TakesFirst(t) ==
    /\ Calling(t, "index_pending")
    /\ pending_packages' = <<>>
    /\ IF indexing_in_progress
       THEN Returns(t) /\ UNCHANGED <<indexing_in_progress, packages>>
       ELSE /\ packages' = [packages EXCEPT ![t] = pending_packages]
            /\ indexing_in_progress' = TRUE
            /\ Goto(t, "next")
            /\ UNCHANGED done
    /\ UNCHANGED <<installed, indexed_packages, workspace_root, root_readers, history>>

\* compare_exchange on the flag; the loser returns at once.
IndexPending(t) ==
    /\ Calling(t, "index_pending")
    /\ \/ indexing_in_progress /\ Returns(t) /\ UNCHANGED indexing_in_progress
       \/ /\ ~indexing_in_progress
          /\ indexing_in_progress' = TRUE
          /\ Goto(t, "take")
          /\ UNCHANGED done
    /\ UNCHANGED <<installed, pending_packages, indexed_packages, workspace_root,
                   root_readers, packages, history>>

\* std::mem::take
Take(t) ==
    /\ pc[t] = "take"
    /\ packages' = [packages EXCEPT ![t] = pending_packages]
    /\ pending_packages' = <<>>
    /\ Goto(t, "next")
    /\ UNCHANGED <<installed, indexed_packages, indexing_in_progress, workspace_root,
                   root_readers, done, history>>

\* A package that was indexed since it was resolved is passed over.
SkipPackage(t) ==
    /\ pc[t] = "next" /\ packages[t] # <<>>
    /\ Head(packages[t]) \in indexed_packages
    /\ packages' = [packages EXCEPT ![t] = Tail(@)]
    /\ UNCHANGED <<installed, queue_vars, workspace_root, root_readers, pc, done, history>>

\* Mutant: the package is not looked up.
IndexPackage_Again(t) ==
    /\ pc[t] = "next" /\ packages[t] # <<>>
    /\ indexings' = [indexings EXCEPT ![Head(packages[t])] = @ + 1]
    /\ Goto(t, "mark")
    /\ UNCHANGED <<installed, queue_vars, workspace_root, root_readers, packages, done, queued>>

\* Its files are indexed ...
IndexPackage(t) ==
    /\ pc[t] = "next" /\ packages[t] # <<>>
    /\ Head(packages[t]) \notin indexed_packages
    /\ indexings' = [indexings EXCEPT ![Head(packages[t])] = @ + 1]
    /\ Goto(t, "mark")
    /\ UNCHANGED <<installed, queue_vars, workspace_root, root_readers, packages, done, queued>>

\* ... and the package is marked.
MarkIndexed(t) ==
    /\ pc[t] = "mark"
    /\ indexed_packages' = indexed_packages \cup {Head(packages[t])}
    /\ packages' = [packages EXCEPT ![t] = Tail(@)]
    /\ Goto(t, "next")
    /\ UNCHANGED <<installed, pending_packages, indexing_in_progress, workspace_root,
                   root_readers, done, history>>

EndPass(t) ==
    /\ pc[t] = "next" /\ packages[t] = <<>>
    /\ indexing_in_progress' = FALSE
    /\ Returns(t)
    /\ UNCHANGED <<installed, pending_packages, indexed_packages, workspace_root,
                   root_readers, packages, history>>

Step(t) ==
    \/ DetectAndResolve(t) \/ RefreshIfStale(t)
    \/ SetRoot(t) \/ Resolve(t) \/ Filter(t) \/ Replace(t)
    \/ \E p \in installed : EnqueuePackages(t, p)
    \/ IndexPending(t) \/ Take(t) \/ SkipPackage(t) \/ IndexPackage(t)
    \/ MarkIndexed(t) \/ EndPass(t)

Next == (\E t \in Threads : Step(t)) \/ (\E p \in Packages : Install(p))

Spec == Init /\ [][Next]_vars

\* The calls are straight-line code on a scheduled thread.
FairSpec == Spec /\ \A t \in Threads : WF_vars(Step(t))

-----------------------------------------------------------------------------
(***************************************************************************)
(* Properties.                                                             *)
(***************************************************************************)
\* However often a package is resolved and whoever calls index_pending, its
\* files are indexed once (mod.rs:60, "Packages that have already been
\* indexed").
IndexedOnce == \A p \in Packages : indexings[p] <= 1

\* With the types, which say that the flag is held by one pass exactly.
QueueInv == TypeOK /\ IndexedOnce

Waiting(p) ==
    \/ p \in ToSet(pending_packages)
    \/ \E t \in Threads : pc[t] \in {"next", "mark"} /\ p \in ToSet(packages[t])

\* A package once queued is waiting until it is indexed: neither a later
\* resolution nor a call that finds a pass running loses it (mod.rs:286, "Add
\* package directories to the pending index queue").  It needs that nobody
\* queues while somebody else resolves: Replace drops what came since Resolve.
NothingLost == \A p \in queued : p \in indexed_packages \/ Waiting(p)

\* A refresh comes back, having resolved again (mod.rs:147, "Re-resolve
\* dependencies if enough time has passed since the last check").
CallsReturn == \A t \in Threads : (pc[t] # "idle") ~> (pc[t] = "idle")
=============================================================================

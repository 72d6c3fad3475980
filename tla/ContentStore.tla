---------------------------- MODULE ContentStore ----------------------------
(***************************************************************************)
(* Layer A of the cache: the directory of FileUnits that every quicklsp    *)
(* process of a user shares (src/cache/content_store.rs), as the threads   *)
(* of a parallel scan use it (CacheOps::ensure_file_unit).                 *)
(*                                                                         *)
(* One action per file system call.  A file is an inode: the temporary     *)
(* name of a hash is the same for all threads of a process, File::create   *)
(* truncates the inode it finds there, rename moves an inode, and a thread *)
(* that has a file open keeps writing to its inode wherever it went.       *)
(*                                                                         *)
(* A FileUnit is what parsing gives: a function of the bytes, which their  *)
(* hash stands for, and of the language of the path they were read from.   *)
(***************************************************************************)
EXTENDS Integers, Sequences, FiniteSets

CONSTANTS
    Hashes,      \* content hashes
    Langs,       \* language families
    Processes, Threads,
    ProcessOf,   \* the process of each thread
    Torn,        \* the data of a file that is not a whole FileUnit
    NoFile,      \* no directory entry, no open file
    Failed,      \* ensure_file_unit returned an error
    MaxCalls,    \* bound: files scanned by one thread
    MaxCrashes   \* bound: processes that end

ASSUME ProcessAssumption == IsFiniteSet(Threads) /\ ProcessOf \in [Threads -> Processes]
ASSUME DataAssumption ==
    /\ Torn \notin Langs /\ Failed \notin Langs /\ Torn # Failed /\ NoFile \notin Nat
    /\ MaxCalls \in Nat /\ MaxCrashes \in Nat

VARIABLES
    entry,    \* hash -> the inode at its final path
    tmp,      \* hash, process id -> the inode at the temporary path
    data,     \* inode -> what it holds
    pid,      \* the running incarnation of each process
    pc, job,  \* per thread: position, and the file it is scanning
    layer_a_writes, calls

vars == <<entry, tmp, data, pid, pc, job, layer_a_writes, calls>>

Inodes == 1..Len(data)
Pids == Processes \X (0..MaxCrashes)
Pid(t) == <<ProcessOf[t], pid[ProcessOf[t]]>>

Job == [hash: Hashes, lang: Langs, fd: Nat \cup {NoFile},
        unit: Langs \cup {Torn, Failed}]

TypeOK ==
    /\ entry \in [Hashes -> Inodes \cup {NoFile}]
    /\ tmp \in [Hashes \X Pids -> Inodes \cup {NoFile}]
    /\ data \in Seq(Langs \cup {Torn})
    /\ pid \in [Processes -> 0..MaxCrashes]
    /\ pc \in [Threads -> {"idle", "exists", "create", "write", "rename", "remove", "recheck"}]
    /\ job \in [Threads -> Job]
    /\ \A t \in Threads : pc[t] \in {"write", "rename"} => job[t].fd \in Inodes
    /\ layer_a_writes \in [Hashes -> Nat]
    /\ calls \in [Threads -> 0..MaxCalls]

Init ==
    /\ entry = [h \in Hashes |-> NoFile]
    /\ tmp = [hp \in Hashes \X Pids |-> NoFile]
    /\ data = <<>>
    /\ pid = [q \in Processes |-> 0]
    /\ pc = [t \in Threads |-> "idle"]
    \* The unit of an idle thread is the last it returned: none yet, and Torn
    \* stands for that, which is never returned.
    /\ job \in [Threads -> {[hash |-> h, lang |-> l, fd |-> NoFile, unit |-> Torn] :
                              h \in Hashes, l \in Langs}]
    /\ layer_a_writes = [h \in Hashes |-> 0]
    /\ calls = [t \in Threads |-> 0]

Goto(t, label) == pc' = [pc EXCEPT ![t] = label]
Return(t, unit) == Goto(t, "idle") /\ job' = [job EXCEPT ![t].unit = unit, ![t].fd = NoFile]

TmpName(t) == <<job[t].hash, Pid(t)>>
Tmp(t) == tmp[TmpName(t)]

-----------------------------------------------------------------------------
\* What get reads: nothing if there is no file or it does not deserialize.
Got(h) == IF entry[h] = NoFile THEN Torn ELSE data[entry[h]]

\* ensure_file_unit: get the unit of the hash, whatever path it came from, or
\* parse the file in hand and put that.
EnsureFileUnit(t, h, l) ==
    /\ pc[t] = "idle"
    /\ calls[t] < MaxCalls
    /\ calls' = [calls EXCEPT ![t] = @ + 1]
    /\ \/ /\ Got(h) # Torn
          /\ job' = [job EXCEPT ![t] = [hash |-> h, lang |-> l, fd |-> NoFile, unit |-> Got(h)]]
          /\ UNCHANGED pc
       \/ /\ Got(h) = Torn
          /\ job' = [job EXCEPT ![t] = [hash |-> h, lang |-> l, fd |-> NoFile, unit |-> Torn]]
          /\ Goto(t, "exists")
    /\ UNCHANGED <<entry, tmp, data, pid, layer_a_writes>>

\* put: an entry that exists is left alone, readable or not.
Exists(t) ==
    /\ pc[t] = "exists"
    /\ \/ entry[job[t].hash] # NoFile /\ Return(t, job[t].lang)
       \/ entry[job[t].hash] = NoFile /\ Goto(t, "create") /\ UNCHANGED job
    /\ UNCHANGED <<entry, tmp, data, pid, layer_a_writes, calls>>

\* Mutant: the file is created under its final name.
Create_InPlace(t) ==
    /\ pc[t] = "create"
    /\ data' = Append(data, Torn)
    /\ entry' = [entry EXCEPT ![job[t].hash] = Len(data')]
    /\ tmp' = [tmp EXCEPT ![TmpName(t)] = Len(data')]
    /\ job' = [job EXCEPT ![t].fd = Len(data')]
    /\ Goto(t, "write")
    /\ UNCHANGED <<pid, layer_a_writes, calls>>

\* File::create: a file of that name, a thread of this process may have it
\* open, is truncated.
Create(t) ==
    /\ pc[t] = "create"
    /\ \/ /\ Tmp(t) = NoFile
          /\ data' = Append(data, Torn)
          /\ tmp' = [tmp EXCEPT ![TmpName(t)] = Len(data')]
          /\ job' = [job EXCEPT ![t].fd = Len(data')]
       \/ /\ Tmp(t) # NoFile
          /\ data' = [data EXCEPT ![Tmp(t)] = Torn]
          /\ job' = [job EXCEPT ![t].fd = Tmp(t)]
          /\ UNCHANGED tmp
    /\ Goto(t, "write")
    /\ UNCHANGED <<entry, pid, layer_a_writes, calls>>

\* Mutant: a short write goes unnoticed.
Write_Short(t) ==
    /\ pc[t] = "write"
    /\ Goto(t, "rename")
    /\ UNCHANGED <<entry, tmp, data, pid, job, layer_a_writes, calls>>

\* write_all and sync_data.  Written over a longer unit it leaves a tail, which
\* bincode does not look at.
Write(t) ==
    /\ pc[t] = "write"
    /\ data' = [data EXCEPT ![job[t].fd] = job[t].lang]
    /\ Goto(t, "rename")
    /\ UNCHANGED <<entry, tmp, pid, job, layer_a_writes, calls>>

\* rename: whatever inode has the temporary name by now.
Rename(t) ==
    /\ pc[t] = "rename"
    /\ \/ /\ Tmp(t) # NoFile
          /\ entry' = [entry EXCEPT ![job[t].hash] = Tmp(t)]
          /\ tmp' = [tmp EXCEPT ![TmpName(t)] = NoFile]
          /\ layer_a_writes' = [layer_a_writes EXCEPT ![job[t].hash] = @ + 1]
          /\ Return(t, job[t].lang)
       \/ /\ Tmp(t) = NoFile
          /\ Goto(t, "remove")
          /\ UNCHANGED <<entry, tmp, layer_a_writes, job>>
    /\ UNCHANGED <<data, pid, calls>>

\* The rename failed: remove_file, of whatever has the name by now ...
RemoveTmp(t) ==
    /\ pc[t] = "remove"
    /\ tmp' = [tmp EXCEPT ![TmpName(t)] = NoFile]
    /\ Goto(t, "recheck")
    /\ UNCHANGED <<entry, data, pid, job, layer_a_writes, calls>>

\* Mutant: a failed rename is an error.
Recheck_Never(t) ==
    /\ pc[t] = "recheck"
    /\ Return(t, Failed)
    /\ UNCHANGED <<entry, tmp, data, pid, layer_a_writes, calls>>

\* ... and if another writer made the entry, all is well.
Recheck(t) ==
    /\ pc[t] = "recheck"
    /\ Return(t, IF entry[job[t].hash] # NoFile THEN job[t].lang ELSE Failed)
    /\ UNCHANGED <<entry, tmp, data, pid, layer_a_writes, calls>>

\* A process ends and is started again under another id.
Crash(q) ==
    /\ pid[q] < MaxCrashes
    /\ pid' = [pid EXCEPT ![q] = @ + 1]
    /\ pc' = [t \in Threads |-> IF ProcessOf[t] = q THEN "idle" ELSE pc[t]]
    /\ job' = [t \in Threads |-> IF ProcessOf[t] = q
                                 THEN [job[t] EXCEPT !.unit = Torn, !.fd = NoFile]
                                 ELSE job[t]]
    /\ UNCHANGED <<entry, tmp, data, layer_a_writes, calls>>

Step(t) ==
    \/ \E h \in Hashes, l \in Langs : EnsureFileUnit(t, h, l)
    \/ Exists(t) \/ Create(t) \/ Write(t) \/ Rename(t) \/ RemoveTmp(t) \/ Recheck(t)

Next == (\E t \in Threads : Step(t)) \/ (\E q \in Processes : Crash(q))

Spec == Init /\ [][Next]_vars

-----------------------------------------------------------------------------
(***************************************************************************)
(* Properties.                                                             *)
(***************************************************************************)
\* "Writes are atomic (write tmp + rename)" (content_store.rs:5): no reader
\* meets half an entry.  It holds where every process has one scanning thread.
EntriesAreComplete == \A h \in Hashes : entry[h] # NoFile => data[entry[h]] # Torn

\* Threads of one process share the temporary file of a hash, and one of them
\* may rename what another has just truncated.  That is the only way to a torn
\* entry: the other one still has it open and is about to write it, unless its
\* process has ended in between.
TornIsBeingWritten ==
    \A h \in Hashes : (entry[h] # NoFile /\ data[entry[h]] = Torn) =>
        \E q \in Processes :
            /\ Cardinality({t \in Threads : ProcessOf[t] = q}) > 1
            /\ pid[q] > 0 \/ \E t \in Threads : ProcessOf[t] = q /\ pc[t] = "write" /\ job[t].fd = entry[h]

\* With the types, which say that who writes or renames has a file open.
StoreInv == TypeOK /\ TornIsBeingWritten

\* Once nobody is in ensure_file_unit and no process has ended inside it, all
\* entries are whole and no temporary file is left, however the threads of a
\* process shared it.
CleanAtRest ==
    (\A t \in Threads : pc[t] = "idle") /\ (\A q \in Processes : pid[q] = 0) =>
        /\ EntriesAreComplete
        /\ \A name \in Hashes \X Pids : tmp[name] = NoFile

\* A writer that loses a race, to a thread that takes its temporary file or
\* removes it, does not fail: its file would be missing from the index.
RacesDoNotFail == \A t \in Threads : job[t].unit # Failed

\* FileUnit "Depends only on `(file_bytes, parser_version)`" (types.rs:63): what
\* a file gets from the store is what parsing it gives.  It holds for one
\* language only: a hash does not tell what the bytes were parsed as.
UnitIsOfTheFile ==
    \A t \in Threads : pc[t] = "idle" /\ job[t].unit \in Langs => job[t].unit = job[t].lang

\* "layer_a_writes is the set-union, not the multiset"
\* (docs/cache-v3-design.md:300, T8): no entry is written twice.  It fails for
\* two writers that both saw no entry.
WrittenOnce == \A h \in Hashes : layer_a_writes[h] <= 1
=============================================================================

------------------------ MODULE ContentStore_proofs ------------------------
(***************************************************************************)
(* Proofs about ContentStore, for any hashes, languages, processes and     *)
(* threads of each.  IInv says who stands behind a temporary file, that a  *)
(* file has one name at a time, and that a temporary file which is gone    *)
(* has become an entry.                                                    *)
(***************************************************************************)
EXTENDS ContentStore, TLAPS, FiniteSetTheorems

Shared(q) == Cardinality({t \in Threads : ProcessOf[t] = q}) > 1
Keys == Hashes \X Pids
Writing(t, i) == pc[t] = "write" /\ job[t].fd = i

\* A temporary file of a running process is some thread's, and if it is torn
\* some thread is about to write it.
TmpOK(h, q, k) ==
    LET i == tmp[<<h, <<q, k>>>>]
    IN  i # NoFile =>
          /\ k <= pid[q]
          /\ k = pid[q] =>
               /\ \E t \in Threads : /\ ProcessOf[t] = q
                                     /\ job[t].hash = h
                                     /\ pc[t] \in {"write", "rename"}
               /\ data[i] = Torn => \E t \in Threads : ProcessOf[t] = q /\ Writing(t, i)

TmpsOK == \A h \in Hashes, q \in Processes, k \in 0..MaxCrashes : TmpOK(h, q, k)

\* A file has one name.
OneName ==
    /\ \A key \in Keys, h \in Hashes : tmp[key] # NoFile => entry[h] # tmp[key]
    /\ \A key, other \in Keys : tmp[key] # NoFile /\ tmp[key] = tmp[other] => key = other

\* If the temporary file a thread made is gone, there is an entry.
ThreadOK(t) ==
    /\ pc[t] \in {"write", "rename"} /\ tmp[TmpName(t)] = NoFile => entry[job[t].hash] # NoFile
    /\ pc[t] \in {"remove", "recheck"} => entry[job[t].hash] # NoFile

TornOK(h) ==
    entry[h] # NoFile /\ data[entry[h]] = Torn =>
        \E q \in Processes :
            /\ Shared(q)
            /\ pid[q] > 0 \/ \E t \in Threads : ProcessOf[t] = q /\ Writing(t, entry[h])

IInv ==
    /\ TypeOK
    /\ TmpsOK
    /\ OneName
    /\ \A t \in Threads : ThreadOK(t)
    /\ \A h \in Hashes : TornOK(h)
    /\ RacesDoNotFail

LEMMA KeyType ==
    ASSUME TypeOK, NEW t \in Threads
    PROVE  /\ TmpName(t) \in Keys /\ job[t].hash \in Hashes /\ job[t] \in Job
           /\ ProcessOf[t] \in Processes /\ pid[ProcessOf[t]] \in 0..MaxCrashes
           /\ TmpName(t) = <<job[t].hash, <<ProcessOf[t], pid[ProcessOf[t]]>>>>
           /\ Tmp(t) = tmp[TmpName(t)]
BY ProcessAssumption DEF TypeOK, Job, TmpName, Keys, Pids, Pid, Tmp

\* Two threads of one process are two.
LEMMA TwoShare ==
    ASSUME NEW t \in Threads, NEW o \in Threads, t # o, ProcessOf[t] = ProcessOf[o]
    PROVE  Shared(ProcessOf[t])
<1>. DEFINE S == {r \in Threads : ProcessOf[r] = ProcessOf[t]}
<1>1. IsFiniteSet(S)
  BY ProcessAssumption, FS_Subset
<1>2. Cardinality({t, o}) = 2
  <2>1. IsFiniteSet({t}) /\ Cardinality({t}) = 1
    BY FS_Singleton
  <2>2. Cardinality({t} \cup {o}) = 2
    BY <2>1, FS_AddElement
  <2>3. {t} \cup {o} = {t, o}
    OBVIOUS
  <2>. QED BY <2>2, <2>3
<1>3. Cardinality({t, o}) <= Cardinality(S) /\ Cardinality(S) \in Nat
  <2>1. {t, o} \in SUBSET S
    OBVIOUS
  <2>. QED BY <1>1, <2>1, FS_Subset, FS_CardinalityType
<1>. QED BY <1>2, <1>3 DEF Shared

-----------------------------------------------------------------------------
LEMMA InitKeeps == Init => IInv
<1>. SUFFICES ASSUME Init PROVE IInv
  OBVIOUS
<1>1. TypeOK
  <2>1. <<>> \in Seq(Langs \cup {Torn})
    OBVIOUS
  <2>2. job \in [Threads -> Job]
    BY DEF Init, Job
  <2>3. pid \in [Processes -> 0..MaxCrashes] /\ calls \in [Threads -> 0..MaxCalls]
    BY DataAssumption DEF Init
  <2>. QED BY <2>1, <2>2, <2>3 DEF Init, TypeOK
<1>2. \A key \in Keys : tmp[key] = NoFile
  BY DEF Init, Keys
<1>3. TmpsOK
  BY <1>2 DEF TmpsOK, TmpOK, Keys, Pids
<1>4. OneName
  BY <1>2 DEF OneName
<1>5. \A h \in Hashes : TornOK(h)
  BY DEF Init, TornOK
<1>6. RacesDoNotFail
  BY DataAssumption DEF Init, RacesDoNotFail
<1>7. \A t \in Threads : ThreadOK(t)
  BY DEF Init, ThreadOK
<1>. QED BY <1>1, <1>3, <1>4, <1>5, <1>6, <1>7 DEF IInv

-----------------------------------------------------------------------------
\* Steps of a thread that is not between create and rename, and does not get
\* there, leave files alone.
LEMMA OutsideKeeps ==
    ASSUME IInv, TypeOK', NEW t \in Threads,
           UNCHANGED <<entry, tmp, data, pid>>,
           pc[t] \notin {"write", "rename"}, pc'[t] \notin {"write", "rename"},
           \A o \in Threads \ {t} : pc'[o] = pc[o] /\ job'[o] = job[o],
           ThreadOK(t)', job'[t].unit # Failed
    PROVE  IInv'
<1>1. ASSUME NEW h \in Hashes, NEW q \in Processes, NEW k \in 0..MaxCrashes
      PROVE  TmpOK(h, q, k)'
  BY DEF IInv, TmpsOK, TmpOK, Writing
<1>2. OneName'
  BY DEF IInv, OneName
<1>3. ASSUME NEW o \in Threads PROVE ThreadOK(o)'
  BY DEF IInv, ThreadOK, TmpName, Pid
<1>4. ASSUME NEW h \in Hashes PROVE TornOK(h)'
  BY DEF IInv, TornOK, Writing
<1>5. RacesDoNotFail'
  BY DEF IInv, RacesDoNotFail
<1>. QED BY <1>1, <1>2, <1>3, <1>4, <1>5 DEF IInv, TmpsOK

\* What a thread returns is a unit.
LEMMA ReturnType ==
    ASSUME TypeOK, NEW t \in Threads, NEW unit \in Langs \cup {Torn, Failed}, Return(t, unit)
    PROVE  /\ job' \in [Threads -> Job] /\ job'[t].unit = unit
           /\ pc' = [pc EXCEPT ![t] = "idle"] /\ pc'[t] = "idle"
           /\ \A o \in Threads \ {t} : job'[o] = job[o] /\ pc'[o] = pc[o]
BY DEF TypeOK, Return, Goto, Job

LEMMA EnsureFileUnitKeeps ==
    ASSUME IInv, NEW t \in Threads, NEW h \in Hashes, NEW l \in Langs, EnsureFileUnit(t, h, l)
    PROVE  IInv'
<1>. USE DEF EnsureFileUnit, Goto
<1>1. Got(h) \in Langs \cup {Torn}
  BY DEF IInv, TypeOK, Got, Inodes
<1>2. PICK unit \in Langs \cup {Torn} :
        job' = [job EXCEPT ![t] = [hash |-> h, lang |-> l, fd |-> NoFile, unit |-> unit]]
  BY <1>1
<1>3. job' \in [Threads -> Job] /\ job'[t].unit # Failed
      /\ \A o \in Threads \ {t} : job'[o] = job[o]
  BY <1>2, DataAssumption DEF IInv, TypeOK, Job
<1>4. pc'[t] \in {"idle", "exists"} /\ \A o \in Threads \ {t} : pc'[o] = pc[o]
  BY DEF IInv, TypeOK
<1>5. calls' \in [Threads -> 0..MaxCalls]
  BY DataAssumption DEF IInv, TypeOK
<1>6. TypeOK'
  BY <1>3, <1>4, <1>5 DEF IInv, TypeOK, Inodes
<1>7. ThreadOK(t)'
  BY <1>4 DEF ThreadOK
<1>. QED BY <1>3, <1>4, <1>6, <1>7, OutsideKeeps

LEMMA ExistsKeeps ==
    ASSUME IInv, NEW t \in Threads, Exists(t)
    PROVE  IInv'
<1>1. CASE Return(t, job[t].lang)
  <2>1. job[t].lang \in Langs
    BY DEF IInv, TypeOK, Job
  <2>2. /\ job' \in [Threads -> Job] /\ job'[t].unit = job[t].lang /\ pc'[t] = "idle"
        /\ pc' = [pc EXCEPT ![t] = "idle"]
        /\ \A o \in Threads \ {t} : job'[o] = job[o] /\ pc'[o] = pc[o]
    BY <1>1, <2>1, ReturnType DEF IInv
  <2>3. TypeOK'
    BY <2>2 DEF IInv, TypeOK, Exists, Inodes
  <2>. QED BY <2>1, <2>2, <2>3, OutsideKeeps, DataAssumption DEF Exists, ThreadOK
<1>2. CASE Goto(t, "create") /\ UNCHANGED job
  <2>1. TypeOK' /\ pc'[t] = "create" /\ \A o \in Threads \ {t} : pc'[o] = pc[o]
    BY <1>2 DEF IInv, TypeOK, Exists, Goto, Inodes
  <2>2. job'[t].unit # Failed
    BY <1>2 DEF IInv, RacesDoNotFail
  <2>. QED BY <1>2, <2>1, <2>2, OutsideKeeps DEF Exists, ThreadOK
<1>. QED BY <1>1, <1>2 DEF Exists

LEMMA RecheckKeeps ==
    ASSUME IInv, NEW t \in Threads, Recheck(t)
    PROVE  IInv'
<1>1. job[t].lang \in Langs /\ entry[job[t].hash] # NoFile
  BY DEF IInv, TypeOK, Job, ThreadOK, Recheck
<1>2. /\ job' \in [Threads -> Job] /\ job'[t].unit = job[t].lang /\ pc'[t] = "idle"
      /\ pc' = [pc EXCEPT ![t] = "idle"]
      /\ \A o \in Threads \ {t} : job'[o] = job[o] /\ pc'[o] = pc[o]
  BY <1>1, ReturnType DEF IInv, Recheck
<1>3. TypeOK'
  BY <1>2 DEF IInv, TypeOK, Recheck, Inodes
<1>. QED BY <1>1, <1>2, <1>3, OutsideKeeps, DataAssumption DEF Recheck, ThreadOK

-----------------------------------------------------------------------------
\* A key is its hash, its process and the incarnation of that.
LEMMA KeyParts ==
    /\ \A key \in Keys : \E h \in Hashes, q \in Processes, k \in 0..MaxCrashes :
          key = <<h, <<q, k>>>>
    /\ \A h \in Hashes, q \in Processes, k \in 0..MaxCrashes : <<h, <<q, k>>>> \in Keys
BY DEF Keys, Pids

\* The temporary file under the thread's name, and the thread as its writer.
LEMMA CreateKeeps ==
    ASSUME IInv, NEW t \in Threads, Create(t)
    PROVE  IInv'
<1>. DEFINE i == job'[t].fd
            mine == TmpName(t)
<1>0. /\ mine \in Keys /\ job[t].hash \in Hashes /\ job[t] \in Job
      /\ ProcessOf[t] \in Processes /\ pid[ProcessOf[t]] \in 0..MaxCrashes
      /\ mine = <<job[t].hash, <<ProcessOf[t], pid[ProcessOf[t]]>>>>
      /\ Tmp(t) = tmp[mine]
  BY KeyType DEF IInv
<1>1. /\ pc[t] = "create" /\ pc'[t] = "write"
      /\ pc' = [pc EXCEPT ![t] = "write"] /\ job' = [job EXCEPT ![t].fd = i]
      /\ \A o \in Threads \ {t} : pc'[o] = pc[o] /\ job'[o] = job[o]
      /\ job'[t].hash = job[t].hash /\ job'[t].unit = job[t].unit
      /\ UNCHANGED <<entry, pid, layer_a_writes, calls>>
  BY <1>0 DEF Create, Goto, IInv, TypeOK, Job
<1>2. /\ data' \in Seq(Langs \cup {Torn}) /\ i \in 1..Len(data') /\ Len(data') >= Len(data)
      /\ data'[i] = Torn
      /\ \A n \in Inodes : n # i => data'[n] = data[n]
      /\ tmp' = [tmp EXCEPT ![mine] = i]
      /\ i \in Nat
      /\ i = tmp[mine] \/ i \notin Inodes
  <2>1. Len(data) \in Nat /\ data \in Seq(Langs \cup {Torn})
    BY DEF IInv, TypeOK
  <2>2. CASE /\ data' = Append(data, Torn)
             /\ tmp' = [tmp EXCEPT ![TmpName(t)] = Len(data')]
             /\ job' = [job EXCEPT ![t].fd = Len(data')]
    <3>1. i = Len(data')
      BY <1>0, <2>2 DEF IInv, TypeOK, Job
    <3>. HIDE DEF mine, i
    <3>2. Len(data') = Len(data) + 1 /\ data' \in Seq(Langs \cup {Torn})
          /\ data'[Len(data) + 1] = Torn /\ \A n \in Inodes : data'[n] = data[n]
      BY <2>1, <2>2 DEF Inodes
    <3>3. tmp' = [tmp EXCEPT ![mine] = i]
      BY <2>2, <3>1 DEF mine
    <3>4. i \in 1..Len(data') /\ Len(data') >= Len(data) /\ i \in Nat /\ i \notin Inodes
      BY <2>1, <3>1, <3>2 DEF Inodes
    <3>5. data'[i] = Torn
      BY <3>1, <3>2, <3>4
    <3>. QED BY <3>2, <3>3, <3>4, <3>5
  <2>3. CASE /\ Tmp(t) # NoFile
             /\ data' = [data EXCEPT ![Tmp(t)] = Torn]
             /\ job' = [job EXCEPT ![t].fd = Tmp(t)]
             /\ UNCHANGED tmp
    <3>1. i = tmp[mine] /\ tmp[mine] \in Inodes
      BY <1>0, <2>3 DEF IInv, TypeOK, Job, Keys
    <3>. HIDE DEF mine, i
    <3>2. data' = [data EXCEPT ![i] = Torn] /\ i \in 1..Len(data)
      BY <1>0, <2>3, <3>1 DEF Inodes
    <3>3. Len(data') = Len(data) /\ data' \in Seq(Langs \cup {Torn})
          /\ data'[i] = Torn /\ \A n \in Inodes : n # i => data'[n] = data[n]
      BY <2>1, <3>2 DEF Inodes
    <3>4. tmp' = [tmp EXCEPT ![mine] = i]
      BY <1>0, <2>3, <3>1 DEF IInv, TypeOK, Keys
    <3>5. i \in 1..Len(data') /\ Len(data') >= Len(data) /\ i \in Nat
      BY <2>1, <3>2, <3>3
    <3>. QED BY <3>1, <3>3, <3>4, <3>5
  <2>. QED BY <2>2, <2>3 DEF Create
<1>. HIDE DEF mine, i
<1>3. /\ tmp'[mine] = i
      /\ \A key \in Keys : key # mine => tmp'[key] = tmp[key]
      /\ \A key \in Keys : tmp[key] # NoFile => tmp[key] \in Inodes /\ (key # mine => tmp[key] # i)
      /\ \A h \in Hashes : entry[h] # NoFile => entry[h] \in Inodes /\ entry[h] # i
      /\ i # NoFile
  <2>1. tmp'[mine] = i /\ \A key \in Keys : key # mine => tmp'[key] = tmp[key]
    BY <1>0, <1>2 DEF IInv, TypeOK, Keys
  <2>2. ASSUME NEW key \in Keys, tmp[key] # NoFile
        PROVE  tmp[key] \in Inodes /\ (key # mine => tmp[key] # i)
    BY <1>0, <1>2, <2>2 DEF IInv, TypeOK, OneName, Keys
  <2>3. ASSUME NEW h \in Hashes, entry[h] # NoFile
        PROVE  entry[h] \in Inodes /\ entry[h] # i
    BY <1>0, <1>2, <2>3 DEF IInv, TypeOK, OneName
  <2>4. i # NoFile
    BY <1>2, DataAssumption
  <2>. QED BY <2>1, <2>2, <2>3, <2>4
<1>4. TypeOK'
  <2>1. Len(data) \in Nat /\ Len(data') \in Nat
    BY <1>2 DEF IInv, TypeOK
  <2>2. \A n \in Inodes : n \in 1..Len(data')
    BY <1>2, <2>1 DEF Inodes
  <2>3. entry' \in [Hashes -> 1..Len(data') \cup {NoFile}]
    BY <1>1, <2>2 DEF IInv, TypeOK
  <2>4. tmp' \in [Hashes \X Pids -> 1..Len(data') \cup {NoFile}]
    <3>1. tmp \in [Hashes \X Pids -> 1..Len(data') \cup {NoFile}]
      BY <2>2 DEF IInv, TypeOK
    <3>. QED BY <1>2, <3>1
  <2>5. job' \in [Threads -> Job]
    <3>1. [job[t] EXCEPT !.fd = i] \in Job
      BY <1>0, <1>2 DEF Job
    <3>2. job' = [job EXCEPT ![t] = [job[t] EXCEPT !.fd = i]]
      BY <1>1 DEF IInv, TypeOK
    <3>. QED BY <3>1, <3>2 DEF IInv, TypeOK
  <2>6. pc' \in [Threads -> {"idle", "exists", "create", "write", "rename", "remove", "recheck"}]
    BY <1>1 DEF IInv, TypeOK
  <2>7. ASSUME NEW o \in Threads, pc'[o] \in {"write", "rename"}
        PROVE  job'[o].fd \in 1..Len(data')
    <3>1. CASE o = t
      BY <1>2, <3>1 DEF i
    <3>2. CASE o # t
      BY <1>1, <2>2, <2>7, <3>2 DEF IInv, TypeOK
    <3>. QED BY <3>1, <3>2
  <2>8. /\ data' \in Seq(Langs \cup {Torn}) /\ pid' \in [Processes -> 0..MaxCrashes]
        /\ layer_a_writes' \in [Hashes -> Nat] /\ calls' \in [Threads -> 0..MaxCalls]
    BY <1>1, <1>2 DEF IInv, TypeOK
  <2>. QED BY <2>3, <2>4, <2>5, <2>6, <2>7, <2>8 DEF TypeOK, Inodes
<1>5. ASSUME NEW o \in Threads, NEW n, Writing(o, n) PROVE Writing(o, n)'
  BY <1>1, <1>5 DEF Writing
<1>6. ASSUME NEW h \in Hashes, NEW q \in Processes, NEW k \in 0..MaxCrashes
      PROVE  TmpOK(h, q, k)'
  <2>. DEFINE key == <<h, <<q, k>>>>
  <2>1. key \in Keys /\ TmpOK(h, q, k)
    BY KeyParts DEF IInv, TmpsOK
  <2>2. CASE key = mine
    <3>1. h = job[t].hash /\ q = ProcessOf[t] /\ k = pid[q]
      BY <1>0, <2>2
    <3>2. pc'[t] = "write" /\ job'[t].fd = i
      BY <1>1 DEF i
    <3>3. tmp'[<<h, <<q, k>>>>] = i
      BY <1>3, <2>2
    <3>. QED BY <1>0, <1>1, <3>1, <3>2, <3>3 DEF TmpOK, Writing
  <2>3. CASE key # mine
    <3>1. tmp'[key] = tmp[key] /\ (tmp[key] # NoFile => data'[tmp[key]] = data[tmp[key]])
      BY <1>2, <1>3, <2>1, <2>3
    <3>2. \A o \in Threads : job'[o].hash = job[o].hash /\ (pc[o] \in {"write", "rename"} => pc'[o] = pc[o])
      BY <1>1
    <3>. QED BY <1>1, <1>5, <2>1, <3>1, <3>2 DEF TmpOK
  <2>. QED BY <2>2, <2>3
<1>7. OneName'
  <2>1. ASSUME NEW key \in Keys, NEW h \in Hashes, tmp'[key] # NoFile
        PROVE  entry'[h] # tmp'[key]
    BY <1>1, <1>3, <2>1, DataAssumption DEF IInv, OneName
  <2>2. ASSUME NEW key \in Keys, NEW other \in Keys, tmp'[key] # NoFile, tmp'[key] = tmp'[other]
        PROVE  key = other
    BY <1>3, <2>2 DEF IInv, OneName
  <2>. QED BY <2>1, <2>2 DEF OneName
<1>8. ASSUME NEW o \in Threads PROVE ThreadOK(o)'
  <2>1. TmpName(o)' = TmpName(o) /\ TmpName(o) \in Keys /\ job'[o].hash = job[o].hash
    BY <1>1, KeyType DEF IInv, TmpName, Pid
  <2>2. CASE o = t
    BY <1>1, <1>3, <2>1, <2>2 DEF ThreadOK, mine
  <2>3. CASE o # t
    <3>1. pc'[o] = pc[o] /\ (tmp'[TmpName(o)] = NoFile => tmp[TmpName(o)] = NoFile)
      BY <1>1, <1>3, <2>1, <2>3
    <3>. QED BY <1>1, <2>1, <3>1 DEF IInv, ThreadOK
  <2>. QED BY <2>2, <2>3
<1>9. ASSUME NEW h \in Hashes PROVE TornOK(h)'
  BY <1>1, <1>2, <1>3, <1>5 DEF IInv, TornOK
<1>10. RacesDoNotFail'
  BY <1>1 DEF IInv, RacesDoNotFail
<1>. QED BY <1>4, <1>6, <1>7, <1>8, <1>9, <1>10 DEF IInv, TmpsOK
LEMMA WriteKeeps ==
    ASSUME IInv, NEW t \in Threads, Write(t)
    PROVE  IInv'
<1>. DEFINE i == job[t].fd
<1>1. /\ pc[t] = "write" /\ pc' = [pc EXCEPT ![t] = "rename"] /\ pc'[t] = "rename"
      /\ \A o \in Threads \ {t} : pc'[o] = pc[o]
      /\ data' = [data EXCEPT ![i] = job[t].lang]
      /\ UNCHANGED <<entry, tmp, pid, job, layer_a_writes, calls>>
  BY DEF Write, Goto, IInv, TypeOK
<1>2. i \in 1..Len(data) /\ job[t].lang \in Langs /\ data \in Seq(Langs \cup {Torn})
  BY <1>1 DEF IInv, TypeOK, Inodes, Job
<1>. HIDE DEF i
<1>3. /\ data' \in Seq(Langs \cup {Torn}) /\ Len(data') = Len(data)
      /\ \A n \in 1..Len(data) : data'[n] = Torn => data[n] = Torn /\ n # i
  BY <1>1, <1>2, DataAssumption
<1>4. TypeOK'
  BY <1>1, <1>3 DEF IInv, TypeOK, Inodes
<1>5. ASSUME NEW n \in 1..Len(data), data'[n] = Torn, NEW o \in Threads, Writing(o, n)
      PROVE  Writing(o, n)'
  BY <1>1, <1>3, <1>5 DEF Writing, i
<1>6. ASSUME NEW h \in Hashes, NEW q \in Processes, NEW k \in 0..MaxCrashes
      PROVE  TmpOK(h, q, k)'
  <2>. DEFINE key == <<h, <<q, k>>>>
  <2>1. TmpOK(h, q, k) /\ (tmp[key] # NoFile => tmp[key] \in 1..Len(data))
    BY KeyParts DEF IInv, TmpsOK, TypeOK, Inodes, Keys
  <2>2. \A o \in Threads : pc[o] \in {"write", "rename"} => pc'[o] \in {"write", "rename"}
    BY <1>1
  <2>3. tmp[key] # NoFile /\ data'[tmp[key]] = Torn => data[tmp[key]] = Torn
    BY <1>3, <2>1
  <2>. QED BY <1>1, <1>5, <2>1, <2>2, <2>3 DEF TmpOK
<1>7. ASSUME NEW h \in Hashes PROVE TornOK(h)'
  <2>1. TornOK(h) /\ (entry[h] # NoFile => entry[h] \in 1..Len(data))
    BY DEF IInv, TypeOK, Inodes
  <2>2. entry[h] # NoFile /\ data'[entry[h]] = Torn => data[entry[h]] = Torn
    BY <1>3, <2>1
  <2>. QED BY <1>1, <1>5, <2>1, <2>2 DEF TornOK
<1>8. OneName' /\ RacesDoNotFail'
  BY <1>1 DEF IInv, OneName, RacesDoNotFail
<1>9. ASSUME NEW o \in Threads PROVE ThreadOK(o)'
  BY <1>1 DEF IInv, ThreadOK, TmpName, Pid
<1>. QED BY <1>4, <1>6, <1>7, <1>8, <1>9 DEF IInv, TmpsOK

\* A thread gives up its temporary name, which is free then, and the file that
\* had it may have become the entry.
LEMMA LeaveKeeps ==
    ASSUME IInv, TypeOK', NEW t \in Threads, pc[t] \in {"rename", "remove"},
           pc'[t] \notin {"write", "rename"},
           \A o \in Threads \ {t} : pc'[o] = pc[o] /\ job'[o] = job[o],
           UNCHANGED <<data, pid>>,
           tmp' = [tmp EXCEPT ![TmpName(t)] = NoFile],
           \A h \in Hashes \ {job[t].hash} : entry'[h] = entry[h],
           LET h == job[t].hash
           IN  \/ entry'[h] = entry[h]
               \/ pc[t] = "rename" /\ tmp[TmpName(t)] # NoFile /\ entry'[h] = tmp[TmpName(t)],
           entry'[job[t].hash] # NoFile,
           ThreadOK(t)', job'[t].unit # Failed
    PROVE  IInv'
<1>. DEFINE mine == TmpName(t)
<1>1. /\ mine \in Keys /\ job[t].hash \in Hashes /\ ProcessOf[t] \in Processes
      /\ pid[ProcessOf[t]] \in 0..MaxCrashes
      /\ mine = <<job[t].hash, <<ProcessOf[t], pid[ProcessOf[t]]>>>>
  BY KeyType DEF IInv
<1>. HIDE DEF mine
<1>2. tmp'[mine] = NoFile /\ \A key \in Keys : key # mine => tmp'[key] = tmp[key]
  BY <1>1 DEF mine, IInv, TypeOK, Keys
<1>3. \A h \in Hashes : entry[h] # NoFile => entry'[h] # NoFile
  OBVIOUS
<1>4. ASSUME NEW o \in Threads, NEW n, Writing(o, n)
      PROVE  Writing(o, n)' /\ o # t
  BY <1>4 DEF Writing
<1>5. ASSUME NEW h \in Hashes, NEW q \in Processes, NEW k \in 0..MaxCrashes
      PROVE  TmpOK(h, q, k)'
  <2>. DEFINE key == <<h, <<q, k>>>>
  <2>1. key \in Keys /\ TmpOK(h, q, k)
    BY KeyParts DEF IInv, TmpsOK
  <2>2. CASE key = mine
    BY <1>2, <2>2 DEF TmpOK
  <2>3. CASE key # mine
    <3>1. tmp'[key] = tmp[key]
      BY <1>2, <2>1, <2>3
    <3>2. ASSUME NEW o \in Threads, k = pid[q], ProcessOf[o] = q, job[o].hash = h,
                 pc[o] \in {"write", "rename"}
          PROVE  job'[o].hash = h /\ pc'[o] \in {"write", "rename"}
      BY <1>1, <2>3, <3>2
    <3>. QED BY <1>4, <2>1, <3>1, <3>2 DEF TmpOK
  <2>. QED BY <2>2, <2>3
<1>6. OneName'
  <2>1. ASSUME NEW key \in Keys, NEW other \in Keys, tmp'[key] # NoFile, tmp'[key] = tmp'[other]
        PROVE  key = other
    BY <1>2, <2>1 DEF IInv, OneName
  <2>2. ASSUME NEW key \in Keys, NEW h \in Hashes, tmp'[key] # NoFile
        PROVE  entry'[h] # tmp'[key]
    <3>1. key # mine /\ tmp'[key] = tmp[key]
      BY <1>2, <2>2
    <3>2. entry[h] # tmp[key] /\ tmp[mine] # tmp[key]
      BY <1>1, <2>2, <3>1 DEF IInv, OneName
    <3>. QED BY <3>1, <3>2 DEF mine
  <2>. QED BY <2>1, <2>2 DEF OneName
<1>7. ASSUME NEW o \in Threads PROVE ThreadOK(o)'
  <2>1. CASE o = t
    BY <2>1
  <2>2. CASE o # t
    <3>1. pc'[o] = pc[o] /\ job'[o] = job[o] /\ TmpName(o)' = TmpName(o)
      BY <2>2 DEF TmpName, Pid
    <3>2. TmpName(o) \in Keys /\ job[o].hash \in Hashes
          /\ TmpName(o) = <<job[o].hash, <<ProcessOf[o], pid[ProcessOf[o]]>>>>
      BY KeyType DEF IInv
    <3>3. CASE TmpName(o) = mine
      BY <1>1, <3>1, <3>2, <3>3, <1>3 DEF ThreadOK, IInv
    <3>4. CASE TmpName(o) # mine
      BY <1>2, <1>3, <3>1, <3>2, <3>4 DEF ThreadOK, IInv
    <3>. QED BY <3>3, <3>4
  <2>. QED BY <2>1, <2>2
<1>8. ASSUME NEW h \in Hashes PROVE TornOK(h)'
  <2>1. CASE entry'[h] = entry[h]
    BY <1>4, <2>1 DEF IInv, TornOK
  <2>2. CASE entry'[h] # entry[h] /\ data'[entry'[h]] = Torn
    <3>0. PICK i : i = tmp[mine]
      OBVIOUS
    <3>1. h = job[t].hash /\ i # NoFile /\ entry'[h] = i /\ data[i] = Torn
      BY <2>2, <3>0 DEF mine
    <3>2. TmpOK(h, ProcessOf[t], pid[ProcessOf[t]])
      BY <1>1, <3>1 DEF IInv, TmpsOK
    <3>3. PICK o \in Threads : ProcessOf[o] = ProcessOf[t] /\ Writing(o, i)
      BY <1>1, <3>0, <3>1, <3>2 DEF TmpOK
    <3>4. Shared(ProcessOf[t]) /\ Writing(o, i)'
      BY <1>4, <3>3, TwoShare
    <3>5. Writing(o, entry[h])'
      BY <3>1, <3>4 DEF Writing
    <3>. QED BY <1>1, <3>3, <3>4, <3>5 DEF TornOK
  <2>. QED BY <2>1, <2>2 DEF TornOK
<1>9. RacesDoNotFail'
  BY DEF IInv, RacesDoNotFail
<1>. QED BY <1>5, <1>6, <1>7, <1>8, <1>9 DEF IInv, TmpsOK
LEMMA RenameKeeps ==
    ASSUME IInv, NEW t \in Threads, Rename(t)
    PROVE  IInv'
<1>0. /\ TmpName(t) \in Keys /\ job[t].hash \in Hashes /\ Tmp(t) = tmp[TmpName(t)]
      /\ job[t].lang \in Langs
  BY KeyType DEF IInv, Job
<1>1. CASE /\ Tmp(t) # NoFile
           /\ entry' = [entry EXCEPT ![job[t].hash] = Tmp(t)]
           /\ tmp' = [tmp EXCEPT ![TmpName(t)] = NoFile]
           /\ layer_a_writes' = [layer_a_writes EXCEPT ![job[t].hash] = @ + 1]
           /\ Return(t, job[t].lang)
  <2>1. /\ job' \in [Threads -> Job] /\ job'[t].unit = job[t].lang /\ pc'[t] = "idle"
        /\ pc' = [pc EXCEPT ![t] = "idle"]
        /\ \A o \in Threads \ {t} : job'[o] = job[o] /\ pc'[o] = pc[o]
    BY <1>0, <1>1, ReturnType DEF IInv
  <2>2. Tmp(t) \in Inodes
    BY <1>0, <1>1 DEF IInv, TypeOK, Keys
  <2>3. /\ entry' \in [Hashes -> Inodes \cup {NoFile}] /\ entry'[job[t].hash] = Tmp(t)
        /\ \A h \in Hashes \ {job[t].hash} : entry'[h] = entry[h]
    BY <1>0, <1>1, <2>2 DEF IInv, TypeOK
  <2>4. TypeOK'
    <3>1. tmp' \in [Hashes \X Pids -> Inodes \cup {NoFile}]
          /\ layer_a_writes' \in [Hashes -> Nat]
      BY <1>0, <1>1 DEF IInv, TypeOK, Keys
    <3>. QED BY <2>1, <2>3, <3>1 DEF IInv, TypeOK, Rename, Inodes
  <2>. QED BY <1>0, <1>1, <2>1, <2>3, <2>4, LeaveKeeps, DataAssumption DEF Rename, ThreadOK
<1>2. CASE Tmp(t) = NoFile /\ Goto(t, "remove") /\ UNCHANGED <<entry, tmp, layer_a_writes, job>>
  <2>1. pc'[t] = "remove" /\ \A o \in Threads \ {t} : pc'[o] = pc[o]
    BY <1>2 DEF IInv, TypeOK, Goto
  <2>2. TypeOK'
    BY <1>2, <2>1 DEF IInv, TypeOK, Rename, Goto, Inodes
  <2>3. entry[job[t].hash] # NoFile
    BY <1>0, <1>2 DEF IInv, ThreadOK, Rename
  <2>4. tmp' = [tmp EXCEPT ![TmpName(t)] = NoFile]
    BY <1>0, <1>2 DEF IInv, TypeOK, Keys
  <2>5. ThreadOK(t)' /\ job'[t].unit # Failed
    BY <1>2, <2>1, <2>3 DEF ThreadOK, IInv, RacesDoNotFail
  <2>. QED BY <1>2, <2>1, <2>2, <2>3, <2>4, <2>5, LeaveKeeps DEF Rename
<1>. QED BY <1>1, <1>2 DEF Rename

LEMMA RemoveTmpKeeps ==
    ASSUME IInv, NEW t \in Threads, RemoveTmp(t)
    PROVE  IInv'
<1>0. TmpName(t) \in Keys /\ job[t].hash \in Hashes
  BY KeyType DEF IInv
<1>1. /\ pc[t] = "remove" /\ pc'[t] = "recheck" /\ \A o \in Threads \ {t} : pc'[o] = pc[o]
      /\ tmp' = [tmp EXCEPT ![TmpName(t)] = NoFile]
      /\ UNCHANGED <<entry, data, pid, job, layer_a_writes, calls>>
  BY DEF RemoveTmp, Goto, IInv, TypeOK
<1>2. TypeOK'
  <2>1. tmp' \in [Hashes \X Pids -> Inodes \cup {NoFile}]
    BY <1>0, <1>1 DEF IInv, TypeOK, Keys
  <2>. QED BY <1>1, <2>1 DEF IInv, TypeOK, RemoveTmp, Goto, Inodes
<1>3. entry[job[t].hash] # NoFile
  BY <1>1 DEF IInv, ThreadOK
<1>4. ThreadOK(t)' /\ job'[t].unit # Failed
  BY <1>1, <1>3 DEF ThreadOK, IInv, RacesDoNotFail
<1>. QED BY <1>1, <1>2, <1>3, <1>4, LeaveKeeps

\* What a process that ends leaves behind has the name of an incarnation that
\* is over.
LEMMA CrashKeeps ==
    ASSUME IInv, NEW q \in Processes, Crash(q)
    PROVE  IInv'
<1>1. /\ pid[q] \in 0..MaxCrashes /\ MaxCrashes \in Nat
      /\ pid'[q] = pid[q] + 1 /\ pid' \in [Processes -> 0..MaxCrashes]
      /\ \A o \in Processes \ {q} : pid'[o] = pid[o]
      /\ UNCHANGED <<entry, tmp, data, layer_a_writes, calls>>
  <2>1. /\ pid \in [Processes -> 0..MaxCrashes] /\ pid[q] < MaxCrashes
        /\ pid' = [pid EXCEPT ![q] = @ + 1]
        /\ UNCHANGED <<entry, tmp, data, layer_a_writes, calls>>
    BY DEF Crash, IInv, TypeOK
  <2>. QED BY <2>1, DataAssumption
<1>2. ASSUME NEW t \in Threads
      PROVE  /\ ProcessOf[t] = q =>
                   pc'[t] = "idle" /\ job'[t] = [job[t] EXCEPT !.unit = Torn, !.fd = NoFile]
             /\ ProcessOf[t] # q => pc'[t] = pc[t] /\ job'[t] = job[t]
  BY DEF Crash
<1>3. TypeOK'
  <2>1. job' \in [Threads -> Job]
    BY DEF Crash, IInv, TypeOK, Job
  <2>2. pc' \in [Threads -> {"idle", "exists", "create", "write", "rename", "remove", "recheck"}]
    BY DEF Crash, IInv, TypeOK
  <2>. QED BY <1>1, <1>2, <2>1, <2>2 DEF IInv, TypeOK, Inodes
<1>4. ASSUME NEW h \in Hashes, NEW o \in Processes, NEW k \in 0..MaxCrashes
      PROVE  TmpOK(h, o, k)'
  <2>1. TmpOK(h, o, k)
    BY DEF IInv, TmpsOK
  <2>2. CASE o = q
    BY <1>1, <2>1, <2>2 DEF TmpOK
  <2>3. CASE o # q
    BY <1>1, <1>2, <2>1, <2>3 DEF TmpOK, Writing
  <2>. QED BY <2>2, <2>3
<1>5. OneName'
  BY <1>1 DEF IInv, OneName
<1>6. ASSUME NEW t \in Threads PROVE ThreadOK(t)'
  <2>1. CASE ProcessOf[t] = q
    BY <1>2, <2>1 DEF ThreadOK
  <2>2. CASE ProcessOf[t] # q
    <3>1. TmpName(t)' = TmpName(t)
      BY <1>1, <1>2, <2>2, KeyType DEF IInv, TmpName, Pid
    <3>. QED BY <1>1, <1>2, <2>2, <3>1 DEF IInv, ThreadOK
  <2>. QED BY <2>1, <2>2
<1>7. ASSUME NEW h \in Hashes PROVE TornOK(h)'
  <2>1. SUFFICES ASSUME entry[h] # NoFile, data[entry[h]] = Torn
        PROVE  \E o \in Processes : /\ Shared(o)
                                    /\ \/ pid'[o] > 0
                                       \/ \E t \in Threads : ProcessOf[t] = o /\ Writing(t, entry[h])'
    BY <1>1 DEF TornOK
  <2>2. PICK o \in Processes :
           Shared(o) /\ (pid[o] > 0 \/ \E t \in Threads : ProcessOf[t] = o /\ Writing(t, entry[h]))
    BY <2>1 DEF IInv, TornOK
  <2>3. CASE o = q
    BY <1>1, <2>2, <2>3
  <2>4. CASE o # q
    BY <1>1, <1>2, <2>2, <2>4 DEF Writing
  <2>. QED BY <2>3, <2>4
<1>8. RacesDoNotFail'
  BY <1>2, DataAssumption DEF IInv, TypeOK, Job, RacesDoNotFail
<1>. QED BY <1>3, <1>4, <1>5, <1>6, <1>7, <1>8 DEF IInv, TmpsOK

-----------------------------------------------------------------------------
LEMMA StepKeeps == IInv /\ [Next]_vars => IInv'
<1>. SUFFICES ASSUME IInv, [Next]_vars PROVE IInv'
  OBVIOUS
<1>1. ASSUME NEW t \in Threads, Step(t) PROVE IInv'
  BY <1>1, EnsureFileUnitKeeps, ExistsKeeps, CreateKeeps, WriteKeeps, RenameKeeps,
     RemoveTmpKeeps, RecheckKeeps
     DEF Step
<1>2. ASSUME NEW q \in Processes, Crash(q) PROVE IInv'
  BY <1>2, CrashKeeps
<1>3. CASE UNCHANGED vars
  <2>. USE <1>3 DEF vars, IInv
  <2>1. TypeOK'
    BY DEF TypeOK, Inodes
  <2>2. TmpsOK'
    <3>1. ASSUME NEW h \in Hashes, NEW q \in Processes, NEW k \in 0..MaxCrashes
          PROVE  TmpOK(h, q, k)'
      BY DEF TmpsOK, TmpOK, Writing
    <3>. QED BY <3>1 DEF TmpsOK
  <2>3. OneName' /\ RacesDoNotFail'
    BY DEF OneName, RacesDoNotFail
  <2>4. \A t \in Threads : ThreadOK(t)'
    BY DEF ThreadOK, TmpName, Pid
  <2>5. \A h \in Hashes : TornOK(h)'
    BY DEF TornOK, Writing
  <2>. QED BY <2>1, <2>2, <2>3, <2>4, <2>5
<1>. QED BY <1>1, <1>2, <1>3 DEF Next

LEMMA Invariance == Spec => []IInv
BY InitKeeps, StepKeeps, PTL DEF Spec

\* A torn entry is the work of two threads of one process, one of which is
\* still writing it, unless its process has ended.
THEOREM TornEntriesAreShared == Spec => []StoreInv
<1>1. IInv => StoreInv
  BY DEF IInv, TornOK, Shared, Writing, StoreInv, TornIsBeingWritten
<1>. QED BY <1>1, Invariance, PTL

\* "Writes are atomic (write tmp + rename)": with one thread per process no
\* reader ever meets half an entry, wherever processes end.
THEOREM EntriesStayComplete ==
    ASSUME \A t, o \in Threads : ProcessOf[t] = ProcessOf[o] => t = o
    PROVE  Spec => []EntriesAreComplete
<1>1. ASSUME NEW q \in Processes PROVE ~Shared(q)
  <2>. DEFINE S == {t \in Threads : ProcessOf[t] = q}
  <2>1. CASE S = {}
    BY <2>1, FS_EmptySet DEF Shared
  <2>2. CASE S # {}
    <3>1. PICK t \in S : S = {t}
      BY <2>2
    <3>2. Cardinality({t}) = 1
      BY FS_Singleton
    <3>. QED BY <3>1, <3>2 DEF Shared
  <2>. QED BY <2>1, <2>2
<1>2. IInv => EntriesAreComplete
  BY <1>1 DEF IInv, TornOK, EntriesAreComplete
<1>. QED BY <1>2, Invariance, PTL

\* When no call is under way and no process has ended, all entries are whole
\* and no temporary file is left.
THEOREM StoreRestsClean == Spec => []CleanAtRest
<1>1. ASSUME IInv, \A t \in Threads : pc[t] = "idle", \A q \in Processes : pid[q] = 0
      PROVE  EntriesAreComplete /\ \A name \in Hashes \X Pids : tmp[name] = NoFile
  <2>1. EntriesAreComplete
    BY <1>1 DEF IInv, TornOK, Writing, EntriesAreComplete
  <2>2. ASSUME NEW h \in Hashes, NEW q \in Processes, NEW k \in 0..MaxCrashes
        PROVE  tmp[<<h, <<q, k>>>>] = NoFile
    <3>1. TmpOK(h, q, k) /\ pid[q] = 0
      BY <1>1 DEF IInv, TmpsOK
    <3>2. k <= 0 => k = pid[q]
      BY <3>1
    <3>. QED BY <1>1, <3>1, <3>2 DEF TmpOK
  <2>. QED BY <2>1, <2>2, KeyParts DEF Keys
<1>2. IInv => CleanAtRest
  BY <1>1 DEF CleanAtRest
<1>. QED BY <1>2, Invariance, PTL

\* A writer whose temporary file was taken or removed finds an entry.
THEOREM WritersDoNotFail == Spec => []RacesDoNotFail
<1>1. IInv => RacesDoNotFail
  BY DEF IInv
<1>. QED BY <1>1, Invariance, PTL
=============================================================================

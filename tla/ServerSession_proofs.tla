------------------------ MODULE ServerSession_proofs ------------------------
(***************************************************************************)
(* Proofs about PackageQueue, for any packages, threads and plans, then    *)
(* about ServerSession, for any number of files and panics as well.  Of    *)
(* the queue, IInv says that one pass runs at a time and that what was     *)
(* indexed is what is marked or about to be, and LInv where a queued       *)
(* package can be when one thread only resolves and hands packages over.   *)
(* Of the session, TaskOK ties the task to what it has started, QueueOK    *)
(* says where the resolved packages are, CountsOK which counts the scan's  *)
(* threads have in hand, FilesOK which files are done, ThrottleOK which    *)
(* counts were reported, ReportsOK and PackagesOK what the client has got  *)
(* and what is on its way.                                                 *)
(***************************************************************************)
EXTENDS ServerSession, TLAPS, FiniteSetTheorems, SequenceTheorems

PassPC == {"take", "next", "mark"}
Resolving == {"resolve", "filter", "replace"}

\* Indexed, with or without the mark.
Covered(p) ==
    \/ p \in indexed_packages
    \/ \E t \in Threads : pc[t] = "mark" /\ Head(packages[t]) = p

OnePass == \A t, o \in Threads : pc[t] \in PassPC /\ pc[o] \in PassPC => t = o

ThreadOK(t) ==
    /\ pc[t] # "idle" => done[t] < Len(Plan[t])
    /\ pc[t] = "mark" => packages[t] # <<>> /\ Head(packages[t]) \notin indexed_packages

Counted == \A p \in Packages : indexings[p] = IF Covered(p) THEN 1 ELSE 0

IInv ==
    /\ TypeOK
    /\ OnePass
    /\ \A t \in Threads : ThreadOK(t)
    /\ Counted

-----------------------------------------------------------------------------
\* Lists as sets.

LEMMA SetToSeqType ==
    ASSUME NEW S, IsFiniteSet(S)
    PROVE  SetToSeq(S) \in Seq(S) /\ ToSet(SetToSeq(S)) = S
<1>. DEFINE n == Cardinality(S)
<1>1. n \in Nat /\ \E f \in [1..n -> S] : IsInjective(f)
  BY FS_CardinalityType DEF ExistsBijection, Bijection, Injection
<1>2. SetToSeq(S) \in [1..n -> S] /\ IsInjective(SetToSeq(S))
  BY <1>1, Zenon DEF SetToSeq
<1>3. SetToSeq(S) \in Surjection(1..n, S)
  <2>1. SetToSeq(S) \in Injection(1..n, S)
    BY <1>2 DEF Injection
  <2>2. Cardinality(1..n) = n
    BY <1>1, FS_Interval
  <2>. QED BY <2>1, <2>2, FS_Injection
<1>4. \A x \in S : \E i \in 1..n : SetToSeq(S)[i] = x
  BY <1>3 DEF Surjection
<1>. HIDE DEF n
<1>5. ASSUME NEW f \in [1..n -> S], \A x \in S : \E i \in 1..n : f[i] = x
      PROVE  f \in Seq(S) /\ ToSet(f) = S
  <2>1. f \in Seq(S)
    BY <1>1
  <2>2. DOMAIN f = 1..n /\ \A i \in 1..n : f[i] \in S
    OBVIOUS
  <2>3. ToSet(f) = S
    BY <1>5, <2>2, Zenon DEF ToSet
  <2>. QED BY <2>1, <2>3
<1>. QED BY <1>2, <1>4, <1>5

LEMMA AppendSet ==
    ASSUME NEW S, NEW s \in Seq(S), NEW e \in S
    PROVE  Append(s, e) \in Seq(S) /\ ToSet(Append(s, e)) = ToSet(s) \cup {e}
<1>1. /\ Append(s, e) \in Seq(S) /\ Len(Append(s, e)) = Len(s) + 1
      /\ Append(s, e)[Len(s) + 1] = e
      /\ \A i \in 1..Len(s) : Append(s, e)[i] = s[i]
  OBVIOUS
<1>2. DOMAIN Append(s, e) = 1..Len(s) + 1 /\ DOMAIN s = 1..Len(s) /\ Len(s) \in Nat
  BY <1>1
<1>3. ToSet(s) \cup {e} \subseteq ToSet(Append(s, e))
  <2>1. ASSUME NEW i \in 1..Len(s) PROVE s[i] \in ToSet(Append(s, e))
    BY <1>1, <1>2 DEF ToSet
  <2>2. e \in ToSet(Append(s, e))
    BY <1>1, <1>2 DEF ToSet
  <2>. QED BY <1>2, <2>1, <2>2 DEF ToSet
<1>4. ToSet(Append(s, e)) \subseteq ToSet(s) \cup {e}
  <2>1. ASSUME NEW i \in 1..Len(s) + 1 PROVE Append(s, e)[i] \in ToSet(s) \cup {e}
    <3>1. CASE i = Len(s) + 1
      BY <1>1, <3>1
    <3>2. CASE i # Len(s) + 1
      <4>1. i \in 1..Len(s)
        BY <1>2, <3>2
      <4>. QED BY <1>1, <1>2, <4>1 DEF ToSet
    <3>. QED BY <3>1, <3>2
  <2>. QED BY <1>2, <2>1 DEF ToSet
<1>. QED BY <1>1, <1>3, <1>4

LEMMA ConcatSet ==
    ASSUME NEW S, NEW s \in Seq(S), NEW r \in Seq(S)
    PROVE  s \o r \in Seq(S) /\ ToSet(r) \subseteq ToSet(s \o r) /\ ToSet(s \o r) \subseteq S
<1>1. s \o r \in Seq(S) /\ Len(s \o r) = Len(s) + Len(r)
  OBVIOUS
<1>2. ASSUME NEW i \in DOMAIN r PROVE r[i] \in ToSet(s \o r)
  <2>1. Len(s) + i \in DOMAIN (s \o r) /\ (s \o r)[Len(s) + i] = r[i]
    OBVIOUS
  <2>. QED BY <2>1 DEF ToSet
<1>. QED BY <1>1, <1>2 DEF ToSet

LEMMA TailSet ==
    ASSUME NEW S, NEW s \in Seq(S), s # <<>>
    PROVE  /\ Head(s) \in S /\ Tail(s) \in Seq(S)
           /\ ToSet(s) = {Head(s)} \cup ToSet(Tail(s))
<1>1. Head(s) \in S /\ Tail(s) \in Seq(S) /\ Len(Tail(s)) = Len(s) - 1
      /\ \A i \in 1..Len(Tail(s)) : Tail(s)[i] = s[i + 1]
  OBVIOUS
<1>2. ToSet(s) \subseteq {Head(s)} \cup ToSet(Tail(s))
  <2>1. ASSUME NEW i \in DOMAIN s, i # 1 PROVE s[i] \in ToSet(Tail(s))
    <3>1. i - 1 \in DOMAIN Tail(s) /\ Tail(s)[i - 1] = s[i]
      BY <1>1, <2>1
    <3>. QED BY <3>1 DEF ToSet
  <2>2. s[1] = Head(s)
    OBVIOUS
  <2>. QED BY <2>1, <2>2 DEF ToSet
<1>3. {Head(s)} \cup ToSet(Tail(s)) \subseteq ToSet(s)
  <2>1. 1 \in DOMAIN s /\ s[1] = Head(s)
    OBVIOUS
  <2>2. ASSUME NEW i \in DOMAIN Tail(s) PROVE i + 1 \in DOMAIN s /\ s[i + 1] = Tail(s)[i]
    BY <1>1
  <2>. QED BY <2>1, <2>2 DEF ToSet
<1>. QED BY <1>1, <1>2, <1>3

\* What Filter leaves is what was not indexed.
LEMMA RetainedSet ==
    ASSUME NEW s \in Seq(Packages)
    PROVE  /\ Retained(s) \in Seq(Packages)
           /\ ToSet(Retained(s)) = ToSet(s) \ indexed_packages
<1>. DEFINE K == {i \in DOMAIN s : s[i] \notin indexed_packages}
            kept == SetToSeq(K)
<1>1. IsFiniteSet(K)
  <2>1. IsFiniteSet(1..Len(s))
    BY FS_Interval
  <2>2. K \in SUBSET (1..Len(s))
    OBVIOUS
  <2>. QED BY <2>1, <2>2, FS_Subset
<1>2. kept \in Seq(K) /\ ToSet(kept) = K
  BY <1>1, SetToSeqType
<1>3. Retained(s) = [k \in DOMAIN kept |-> s[kept[k]]]
  BY Zenon DEF Retained
<1>. HIDE DEF kept
<1>4. ToSet(Retained(s)) = ToSet(s) \ indexed_packages
  BY <1>2, <1>3 DEF ToSet
<1>5. Retained(s) \in Seq(Packages)
  BY <1>2, <1>3
<1>. QED BY <1>4, <1>5

-----------------------------------------------------------------------------
LEMMA InitKeeps == Init => IInv
<1>. SUFFICES ASSUME Init PROVE IInv
  OBVIOUS
<1>1. \A t \in Threads : Len(Plan[t]) \in Nat
  BY PlanAssumption
<1>2. <<>> \in Seq(Packages)
  OBVIOUS
<1>3. \A t \in Threads : done[t] <= Len(Plan[t])
  BY <1>1 DEF Init
<1>4. TypeOK
  BY <1>2, <1>3 DEF Init, TypeOK
<1>. QED BY <1>4 DEF Init, IInv, OnePass, ThreadOK, Counted, Covered, PassPC

\* Steps of threads that run no pass.
LEMMA OutsideKeeps ==
    ASSUME IInv, TypeOK', NEW t \in Threads, pc[t] \notin PassPC, pc'[t] \notin PassPC,
           \A o \in Threads \ {t} :
               pc'[o] = pc[o] /\ packages'[o] = packages[o] /\ done'[o] = done[o],
           pc'[t] # "idle" => done'[t] < Len(Plan[t]),
           UNCHANGED <<indexed_packages, indexings>>
    PROVE  IInv'
<1>1. OnePass'
  BY DEF IInv, OnePass
<1>2. ASSUME NEW o \in Threads PROVE ThreadOK(o)'
  BY DEF IInv, ThreadOK, PassPC
<1>3. \A p \in Packages : Covered(p)' <=> Covered(p)
  BY DEF Covered, PassPC
<1>4. Counted'
  BY <1>3 DEF IInv, Counted
<1>. QED BY <1>1, <1>2, <1>4 DEF IInv

LEMMA DetectAndResolveKeeps ==
    ASSUME IInv, NEW t \in Threads, DetectAndResolve(t) PROVE IInv'
<1>1. TypeOK'
  BY DEF IInv, TypeOK, DetectAndResolve, Calling, Goto, queue_vars, history
<1>. QED
  BY <1>1, OutsideKeeps DEF IInv, TypeOK, DetectAndResolve, Calling, Goto, queue_vars, history, PassPC

LEMMA RefreshIfStaleKeeps ==
    ASSUME IInv, NEW t \in Threads, RefreshIfStale(t) PROVE IInv'
<1>. USE DEF RefreshIfStale, Calling, Goto, Returns, queue_vars, history
<1>1. Len(Plan[t]) \in Nat
  BY PlanAssumption
<1>2. TypeOK'
  <2>1. CASE workspace_root /\ root_readers' = root_readers \cup {t}
             /\ Goto(t, "set_root") /\ UNCHANGED done
    BY <2>1 DEF IInv, TypeOK
  <2>2. CASE Returns(t) /\ UNCHANGED root_readers
    BY <1>1, <2>2 DEF IInv, TypeOK
  <2>. QED BY <2>1, <2>2
<1>. QED BY <1>2, OutsideKeeps DEF IInv, TypeOK, PassPC

LEMMA SetRootKeeps ==
    ASSUME IInv, NEW t \in Threads, SetRoot(t) PROVE IInv'
<1>1. TypeOK'
  BY DEF IInv, TypeOK, SetRoot, Goto, queue_vars, history
<1>. QED
  BY <1>1, OutsideKeeps DEF IInv, TypeOK, SetRoot, Goto, queue_vars, history, PassPC, ThreadOK

\* Resolve finds everything that is installed, and nothing else.
LEMMA ResolveList ==
    ASSUME installed \subseteq Packages, packages \in [Threads -> Seq(Packages)],
           NEW t \in Threads, Resolve(t)
    PROVE  /\ packages'[t] \in Seq(Packages)
           /\ packages' = [packages EXCEPT ![t] = packages'[t]]
           /\ ToSet(packages'[t]) = installed
<1>1. PICK twice \in SUBSET installed :
        packages' = [packages EXCEPT ![t] = SetToSeq(twice) \o SetToSeq(installed)]
  BY DEF Resolve
<1>2. IsFiniteSet(installed) /\ IsFiniteSet(twice)
  BY PackagesAssumption, FS_Subset
<1>3. /\ SetToSeq(twice) \in Seq(twice) /\ SetToSeq(installed) \in Seq(installed)
      /\ ToSet(SetToSeq(installed)) = installed
  BY <1>2, SetToSeqType
<1>4. packages'[t] = SetToSeq(twice) \o SetToSeq(installed)
  BY <1>1
<1>5. SetToSeq(twice) \in Seq(installed)
  BY <1>3
<1>6. packages'[t] \in Seq(installed) /\ ToSet(packages'[t]) = installed
  <2>. DEFINE found == SetToSeq(installed)
              extra == SetToSeq(twice)
  <2>1. \A s, r \in Seq(installed) :
          s \o r \in Seq(installed) /\ ToSet(r) \subseteq ToSet(s \o r) /\ ToSet(s \o r) \subseteq installed
    BY ConcatSet
  <2>2. found \in Seq(installed) /\ extra \in Seq(installed) /\ ToSet(found) = installed
        /\ packages'[t] = extra \o found
    BY <1>3, <1>4, <1>5
  <2>. HIDE DEF found, extra
  <2>3. packages'[t] \in Seq(installed)
    BY <2>1, <2>2
  <2>4. ToSet(found) \subseteq ToSet(packages'[t]) /\ ToSet(packages'[t]) \subseteq installed
    BY <2>1, <2>2, Zenon
  <2>. QED BY <2>2, <2>3, <2>4
<1>7. packages'[t] \in Seq(Packages)
  BY <1>6
<1>. QED BY <1>1, <1>4, <1>6, <1>7

LEMMA ResolveKeeps ==
    ASSUME IInv, NEW t \in Threads, Resolve(t) PROVE IInv'
<1>1. packages'[t] \in Seq(Packages) /\ packages' = [packages EXCEPT ![t] = packages'[t]]
  BY ResolveList DEF IInv, TypeOK
<1>2. packages' \in [Threads -> Seq(Packages)] /\ \A o \in Threads \ {t} : packages'[o] = packages[o]
  BY <1>1 DEF IInv, TypeOK
<1>3. TypeOK'
  BY <1>2 DEF IInv, TypeOK, Resolve, Goto, queue_vars, history
<1>. QED
  BY <1>2, <1>3, OutsideKeeps DEF IInv, TypeOK, Resolve, Goto, queue_vars, history, PassPC, ThreadOK

LEMMA FilterKeeps ==
    ASSUME IInv, NEW t \in Threads, Filter(t) PROVE IInv'
<1>1. Retained(packages[t]) \in Seq(Packages)
  BY RetainedSet DEF IInv, TypeOK
<1>2. TypeOK'
  BY <1>1 DEF IInv, TypeOK, Filter, Goto, queue_vars, history
<1>. QED
  BY <1>2, OutsideKeeps DEF IInv, TypeOK, Filter, Goto, queue_vars, history, PassPC, ThreadOK

LEMMA ReplaceKeeps ==
    ASSUME IInv, NEW t \in Threads, Replace(t) PROVE IInv'
<1>1. ToSet(packages[t]) \subseteq Packages
  BY DEF IInv, TypeOK, ToSet
<1>2. Len(Plan[t]) \in Nat /\ done[t] < Len(Plan[t])
  BY PlanAssumption DEF IInv, ThreadOK, Replace
<1>3. TypeOK'
  BY <1>1, <1>2 DEF IInv, TypeOK, Replace, Goto, Returns
<1>. QED
  BY <1>3, OutsideKeeps DEF IInv, TypeOK, Replace, Goto, Returns, PassPC

LEMMA EnqueuePackagesKeeps ==
    ASSUME IInv, NEW t \in Threads, NEW p \in installed, EnqueuePackages(t, p) PROVE IInv'
<1>1. Append(pending_packages, p) \in Seq(Packages) /\ Len(Plan[t]) \in Nat
  BY PlanAssumption DEF IInv, TypeOK
<1>2. TypeOK'
  BY <1>1 DEF IInv, TypeOK, EnqueuePackages, Calling, Goto, Returns
<1>. QED
  BY <1>2, OutsideKeeps DEF IInv, TypeOK, EnqueuePackages, Calling, Goto, Returns, PassPC
LEMMA InstallKeeps ==
    ASSUME IInv, NEW p \in Packages, Install(p) PROVE IInv'
<1>1. TypeOK'
  BY DEF IInv, TypeOK, Install, queue_vars, history
<1>. QED
  BY <1>1 DEF IInv, Install, queue_vars, history, OnePass, ThreadOK, Counted, Covered

-----------------------------------------------------------------------------
\* Steps of the pass.

LEMMA IndexPendingKeeps ==
    ASSUME IInv, NEW t \in Threads, IndexPending(t) PROVE IInv'
<1>. USE DEF IndexPending, Calling, Goto, history
<1>1. Len(Plan[t]) \in Nat
  BY PlanAssumption
<1>2. CASE indexing_in_progress /\ Returns(t) /\ UNCHANGED indexing_in_progress
  <2>1. TypeOK'
    BY <1>1, <1>2 DEF IInv, TypeOK, Returns
  <2>. QED BY <1>2, <2>1, OutsideKeeps DEF IInv, TypeOK, Returns, PassPC
<1>3. CASE ~indexing_in_progress /\ indexing_in_progress' = TRUE
           /\ Goto(t, "take") /\ UNCHANGED done
  <2>1. \A o \in Threads : pc[o] \notin PassPC
    BY <1>3 DEF IInv, TypeOK, PassPC
  <2>2. TypeOK'
    BY <1>3 DEF IInv, TypeOK
  <2>3. \A o \in Threads : pc'[o] = IF o = t THEN "take" ELSE pc[o]
    BY <1>3 DEF IInv, TypeOK
  <2>4. OnePass'
    BY <2>1, <2>3 DEF OnePass
  <2>5. ASSUME NEW o \in Threads PROVE ThreadOK(o)'
    <3>1. ThreadOK(o) /\ done' = done /\ packages' = packages /\ indexed_packages' = indexed_packages
      BY <1>3 DEF IInv
    <3>. QED BY <2>3, <3>1 DEF ThreadOK
  <2>6. Counted'
    BY <2>1, <2>3 DEF IInv, Counted, Covered, PassPC
  <2>. QED BY <2>2, <2>4, <2>5, <2>6 DEF IInv
<1>. QED BY <1>2, <1>3

\* Steps of the thread that runs the pass and stays in it.  What is covered
\* and what was counted change together.
LEMMA PassKeeps ==
    ASSUME IInv, TypeOK', NEW t \in Threads, pc[t] \in PassPC, pc'[t] \in PassPC,
           \A o \in Threads \ {t} : pc'[o] = pc[o] /\ packages'[o] = packages[o],
           UNCHANGED done,
           ThreadOK(t)', Counted'
    PROVE  IInv'
<1>1. \A o \in Threads \ {t} : pc[o] \notin PassPC
  BY DEF IInv, OnePass
<1>2. OnePass'
  BY <1>1 DEF OnePass
<1>3. ASSUME NEW o \in Threads PROVE ThreadOK(o)'
  BY <1>1 DEF IInv, ThreadOK, PassPC
<1>. QED BY <1>2, <1>3 DEF IInv

\* What is covered is indexed or what the pass is about to mark.
LEMMA CoveredInPass ==
    ASSUME OnePass, NEW t \in Threads, pc[t] \in PassPC, NEW p
    PROVE  Covered(p) <=> \/ p \in indexed_packages
                          \/ pc[t] = "mark" /\ Head(packages[t]) = p
BY DEF OnePass, Covered, PassPC

LEMMA TakeKeeps ==
    ASSUME IInv, NEW t \in Threads, Take(t) PROVE IInv'
<1>. USE DEF Take, Goto, history
<1>1. TypeOK'
  BY DEF IInv, TypeOK
<1>2. pc'[t] = "next" /\ \A o \in Threads \ {t} : pc'[o] = pc[o] /\ packages'[o] = packages[o]
  BY DEF IInv, TypeOK
<1>3. ThreadOK(t)'
  BY <1>2 DEF IInv, ThreadOK
<1>4. \A p : Covered(p)' <=> Covered(p)
  BY <1>2 DEF Covered
<1>5. Counted'
  BY <1>4 DEF IInv, Counted
<1>. QED BY <1>1, <1>2, <1>3, <1>5, PassKeeps DEF PassPC

LEMMA SkipPackageKeeps ==
    ASSUME IInv, NEW t \in Threads, SkipPackage(t) PROVE IInv'
<1>. USE DEF SkipPackage, queue_vars, history
<1>1. Tail(packages[t]) \in Seq(Packages)
  BY TailSet DEF IInv, TypeOK
<1>2. TypeOK'
  BY <1>1 DEF IInv, TypeOK
<1>3. \A o \in Threads \ {t} : packages'[o] = packages[o]
  BY DEF IInv, TypeOK
<1>4. ThreadOK(t)'
  BY DEF IInv, ThreadOK
<1>5. \A p : Covered(p)' <=> Covered(p)
  BY <1>3 DEF Covered
<1>6. Counted'
  BY <1>5 DEF IInv, Counted
<1>. QED BY <1>2, <1>3, <1>4, <1>6, PassKeeps DEF PassPC

\* The count of the package at the head goes from 0 to 1 as it becomes covered.
LEMMA IndexPackageKeeps ==
    ASSUME IInv, NEW t \in Threads, IndexPackage(t) PROVE IInv'
<1>. DEFINE q == Head(packages[t])
<1>. USE DEF IndexPackage, Goto, queue_vars
<1>1. q \in Packages
  BY TailSet DEF IInv, TypeOK
<1>2. TypeOK'
  BY <1>1 DEF IInv, TypeOK
<1>3. pc'[t] = "mark" /\ \A o \in Threads \ {t} : pc'[o] = pc[o]
  BY DEF IInv, TypeOK
<1>4. ThreadOK(t)'
  BY <1>3 DEF IInv, ThreadOK
<1>5. OnePass'
  BY <1>3 DEF IInv, OnePass, PassPC
<1>6. ~Covered(q) /\ Covered(q)' /\ \A p : p # q => (Covered(p)' <=> Covered(p))
  <2>1. \A p : Covered(p) <=> p \in indexed_packages
    BY CoveredInPass DEF IInv, PassPC
  <2>2. \A p : Covered(p)' <=> p \in indexed_packages \/ p = q
    BY <1>3, <1>5, CoveredInPass DEF Covered, OnePass, PassPC
  <2>. QED BY <2>1, <2>2
<1>7. Counted'
  BY <1>1, <1>6 DEF IInv, TypeOK, Counted
<1>. QED BY <1>2, <1>3, <1>4, <1>7, PassKeeps DEF PassPC

\* The mark takes over what the position of the pass stood for.
LEMMA MarkIndexedKeeps ==
    ASSUME IInv, NEW t \in Threads, MarkIndexed(t) PROVE IInv'
<1>. USE DEF MarkIndexed, Goto, history
<1>1. packages[t] # <<>>
  BY DEF IInv, ThreadOK
<1>2. Head(packages[t]) \in Packages /\ Tail(packages[t]) \in Seq(Packages)
  BY <1>1, TailSet DEF IInv, TypeOK
<1>3. TypeOK'
  BY <1>2 DEF IInv, TypeOK
<1>4. pc'[t] = "next" /\ \A o \in Threads \ {t} : pc'[o] = pc[o] /\ packages'[o] = packages[o]
  BY DEF IInv, TypeOK
<1>5. ThreadOK(t)'
  BY <1>4 DEF IInv, ThreadOK
<1>6. \A p : Covered(p)' <=> Covered(p)
  <2>1. \A o \in Threads \ {t} : pc[o] # "mark"
    BY DEF IInv, OnePass, PassPC
  <2>. QED BY <1>4, <2>1 DEF Covered
<1>7. Counted'
  BY <1>6 DEF IInv, Counted
<1>. QED BY <1>3, <1>4, <1>5, <1>7, PassKeeps DEF PassPC

LEMMA EndPassKeeps ==
    ASSUME IInv, NEW t \in Threads, EndPass(t) PROVE IInv'
<1>. USE DEF EndPass, Goto, Returns, history
<1>1. Len(Plan[t]) \in Nat /\ done[t] < Len(Plan[t])
  BY PlanAssumption DEF IInv, ThreadOK
<1>2. pc'[t] = "idle" /\ \A o \in Threads \ {t} : pc'[o] = pc[o] /\ done'[o] = done[o]
  BY DEF IInv, TypeOK
<1>3. \A o \in Threads : pc'[o] \notin PassPC
  BY <1>2 DEF IInv, OnePass, PassPC
<1>4. TypeOK'
  <2>1. /\ pc' \in [Threads -> {"idle", "set_root", "resolve", "filter", "replace",
                                "take", "next", "mark"}]
        /\ done' \in [Threads -> Nat] /\ \A o \in Threads : done'[o] <= Len(Plan[o])
    BY <1>1 DEF IInv, TypeOK
  <2>. QED BY <1>3, <2>1 DEF IInv, TypeOK, PassPC
<1>5. OnePass' /\ \A o \in Threads : ThreadOK(o)'
  BY <1>2, <1>3 DEF IInv, OnePass, ThreadOK, PassPC
<1>6. \A p : Covered(p)' <=> Covered(p)
  BY <1>2 DEF Covered
<1>7. Counted'
  BY <1>6 DEF IInv, Counted
<1>. QED BY <1>4, <1>5, <1>7 DEF IInv

-----------------------------------------------------------------------------
LEMMA StepKeeps == IInv /\ [Next]_vars => IInv'
<1>. SUFFICES ASSUME IInv, [Next]_vars PROVE IInv'
  OBVIOUS
<1>1. ASSUME NEW t \in Threads, Step(t) PROVE IInv'
  BY <1>1, DetectAndResolveKeeps, RefreshIfStaleKeeps, SetRootKeeps, ResolveKeeps, FilterKeeps,
     ReplaceKeeps, EnqueuePackagesKeeps, IndexPendingKeeps, TakeKeeps, SkipPackageKeeps,
     IndexPackageKeeps, MarkIndexedKeeps, EndPassKeeps
     DEF Step
<1>2. ASSUME NEW p \in Packages, Install(p) PROVE IInv'
  BY <1>2, InstallKeeps
<1>3. CASE UNCHANGED vars
  BY <1>3 DEF vars, queue_vars, history, IInv, TypeOK, OnePass, ThreadOK, Counted, Covered
<1>. QED BY <1>1, <1>2, <1>3 DEF Next

LEMMA Invariance == Spec => []IInv
BY InitKeeps, StepKeeps, PTL DEF Spec

\* However often packages are resolved and whoever calls index_pending: the
\* flag belongs to exactly one pass and no package is indexed twice.
THEOREM QueueIsOrderly == Spec => []QueueInv
<1>1. IInv => QueueInv
  BY DEF IInv, Counted, QueueInv, IndexedOnce
<1>. QED BY <1>1, Invariance, PTL
-----------------------------------------------------------------------------
(***************************************************************************)
(* Nothing is lost, if one thread only resolves and hands packages over.   *)
(* In the code that is the LSP task, which resolves in initialize; nobody  *)
(* but a test hands packages over yet.                                     *)
(***************************************************************************)
OneQueuer ==
    \E q \in Threads : \A t \in Threads \ {q} : \A i \in 1..Len(Plan[t]) :
        Plan[t][i] \in {"refresh_if_stale", "index_pending"}

Detecting(t) == done[t] < Len(Plan[t]) /\ Plan[t][done[t] + 1] = "detect_and_resolve"

\* A resolution finds what was queued before, since packages are never removed,
\* and filters what was indexed.  A refresh does not get past its own guard.
ListOK(t) ==
    /\ pc[t] \in Resolving => Detecting(t)
    /\ pc[t] = "set_root" => t \in root_readers \/ Detecting(t)
    /\ pc[t] \in {"filter", "replace"} => ToSet(packages[t]) \subseteq installed
    /\ pc[t] = "filter" => queued \subseteq ToSet(packages[t])
    /\ pc[t] = "replace" => queued \subseteq indexed_packages \cup ToSet(packages[t])

LInv ==
    /\ queued \subseteq installed
    /\ \A t \in root_readers : pc[t] = "set_root"
    /\ \A t \in Threads : ListOK(t)
    /\ NothingLost

\* Steps of a thread that leave what is queued.
LEMMA QueuedKeeps ==
    ASSUME IInv, LInv, NEW t \in Threads,
           \A o \in Threads \ {t} :
               pc'[o] = pc[o] /\ packages'[o] = packages[o] /\ done'[o] = done[o],
           UNCHANGED <<installed, queued>>,
           indexed_packages \subseteq indexed_packages',
           root_readers \subseteq root_readers',
           \A r \in root_readers' : pc'[r] = "set_root",
           ListOK(t)',
           \A p \in queued : Waiting(p) => p \in indexed_packages' \/ Waiting(p)'
    PROVE  LInv'
<1>1. ASSUME NEW o \in Threads PROVE ListOK(o)'
  <2>1. CASE o = t
    BY <2>1
  <2>2. CASE o # t
    <3>1. ListOK(o)
      BY DEF LInv
    <3>2. pc'[o] = pc[o] /\ packages'[o] = packages[o] /\ done'[o] = done[o]
      BY <2>2
    <3>. QED BY <3>1, <3>2 DEF ListOK, Detecting
  <2>. QED BY <2>1, <2>2
<1>2. NothingLost'
  BY DEF LInv, NothingLost
<1>. QED BY <1>1, <1>2 DEF LInv

\* The steps of a resolution, up to the one that replaces the list.
LEMMA ResolutionLeavesLists ==
    ASSUME IInv, LInv, NEW t \in Threads,
           DetectAndResolve(t) \/ RefreshIfStale(t) \/ SetRoot(t) \/ Resolve(t) \/ Filter(t)
    PROVE  LInv'
<1>1. /\ pc[t] \notin PassPC /\ pc'[t] \notin PassPC
      /\ \A o \in Threads \ {t} :
            pc'[o] = pc[o] /\ packages'[o] = packages[o] /\ done'[o] = done[o]
      /\ UNCHANGED <<installed, queue_vars, history>>
  BY DEF IInv, TypeOK, DetectAndResolve, RefreshIfStale, SetRoot, Resolve, Filter,
         Calling, Goto, Returns, queue_vars, PassPC
<1>2. \A p \in queued : Waiting(p) => Waiting(p)'
  BY <1>1 DEF Waiting, queue_vars, PassPC
<1>3. ListOK(t) /\ queued \subseteq installed /\ \A r \in root_readers : pc[r] = "set_root"
  BY DEF LInv
<1>4. \A r \in root_readers : r \in Threads
  BY DEF IInv, TypeOK
<1>5. /\ root_readers \subseteq root_readers' /\ \A r \in root_readers' : pc'[r] = "set_root"
      /\ ListOK(t)'
  <2>1. CASE DetectAndResolve(t)
    BY <1>3, <1>4, <2>1
       DEF DetectAndResolve, Calling, Goto, IInv, TypeOK, ListOK, Detecting, Resolving
  <2>2. CASE RefreshIfStale(t)
    BY <1>3, <1>4, <2>2
       DEF RefreshIfStale, Calling, Goto, Returns, IInv, TypeOK, ListOK, Detecting, Resolving
  <2>3. CASE SetRoot(t)
    BY <1>3, <2>3 DEF SetRoot, Goto, IInv, TypeOK, ListOK, Detecting, Resolving
  <2>4. CASE Resolve(t)
    <3>1. ToSet(packages'[t]) = installed
      BY <2>4, ResolveList DEF IInv, TypeOK
    <3>2. pc'[t] = "filter" /\ pc[t] = "resolve" /\ UNCHANGED <<root_readers, done>>
          /\ \A o \in Threads \ {t} : pc'[o] = pc[o]
      BY <2>4 DEF Resolve, Goto, IInv, TypeOK
    <3>. QED BY <1>1, <1>3, <1>4, <3>1, <3>2 DEF ListOK, Detecting, Resolving, history
  <2>5. CASE Filter(t)
    <3>1. pc'[t] = "replace" /\ pc[t] = "filter" /\ UNCHANGED <<root_readers, done>>
          /\ packages'[t] = Retained(packages[t])
          /\ \A o \in Threads \ {t} : pc'[o] = pc[o]
      BY <2>5 DEF Filter, Goto, IInv, TypeOK
    <3>2. ToSet(packages'[t]) = ToSet(packages[t]) \ indexed_packages
      BY <3>1, RetainedSet DEF IInv, TypeOK
    <3>. QED
      BY <1>1, <1>3, <1>4, <3>1, <3>2 DEF ListOK, Detecting, Resolving, history, queue_vars
  <2>. QED BY <2>1, <2>2, <2>3, <2>4, <2>5
<1>. QED BY <1>1, <1>2, <1>5, QueuedKeeps DEF queue_vars, history

LEMMA OnlyOneQueues ==
    ASSUME OneQueuer, TypeOK, NEW t \in Threads, NEW o \in Threads,
           done[t] < Len(Plan[t]), done[o] < Len(Plan[o]),
           Plan[t][done[t] + 1] \in {"detect_and_resolve", "enqueue_packages"},
           Plan[o][done[o] + 1] \in {"detect_and_resolve", "enqueue_packages"}
    PROVE  t = o
<1>1. done[t] + 1 \in 1..Len(Plan[t]) /\ done[o] + 1 \in 1..Len(Plan[o])
  BY PlanAssumption DEF TypeOK
<1>2. PICK q \in Threads : \A r \in Threads \ {q} : \A i \in 1..Len(Plan[r]) :
         Plan[r][i] \in {"refresh_if_stale", "index_pending"}
  BY Zenon DEF OneQueuer
<1>3. t = q
  <2>1. ASSUME t # q
        PROVE  Plan[t][done[t] + 1] \in {"refresh_if_stale", "index_pending"}
    BY <1>1, <1>2, <2>1
  <2>. QED BY <2>1
<1>4. o = q
  <2>1. ASSUME o # q
        PROVE  Plan[o][done[o] + 1] \in {"refresh_if_stale", "index_pending"}
    BY <1>1, <1>2, <2>1
  <2>. QED BY <2>1
<1>. QED BY <1>3, <1>4

\* The new list has all that was queued and is not indexed.
LEMMA ReplaceLeavesLists ==
    ASSUME OneQueuer, IInv, LInv, NEW t \in Threads, Replace(t) PROVE LInv'
<1>1. /\ pc[t] = "replace" /\ pc'[t] = "idle"
      /\ pending_packages' = packages[t]
      /\ queued' = queued \cup ToSet(packages[t])
      /\ \A o \in Threads \ {t} :
            pc'[o] = pc[o] /\ packages'[o] = packages[o] /\ done'[o] = done[o]
      /\ UNCHANGED <<installed, indexed_packages>>
      /\ root_readers' = root_readers \ {t}
  BY DEF Replace, Goto, Returns, IInv, TypeOK
<1>2. /\ Detecting(t) /\ ToSet(packages[t]) \subseteq installed
      /\ queued \subseteq indexed_packages \cup ToSet(packages[t])
  BY <1>1 DEF LInv, ListOK, Resolving
<1>3. ASSUME NEW o \in Threads \ {t}, pc[o] \in Resolving PROVE FALSE
  <2>1. Detecting(o)
    BY <1>3 DEF LInv, ListOK
  <2>. QED BY <1>2, <2>1, OnlyOneQueues DEF IInv, Detecting
<1>4. ASSUME NEW o \in Threads PROVE ListOK(o)'
  <2>1. CASE o = t
    BY <1>1, <2>1 DEF ListOK, Resolving
  <2>2. CASE o # t
    <3>1. ListOK(o) /\ pc[o] \notin Resolving
      BY <1>3, <2>2 DEF LInv
    <3>2. pc'[o] = pc[o] /\ packages'[o] = packages[o] /\ done'[o] = done[o]
      BY <1>1, <2>2
    <3>. QED BY <1>1, <2>2, <3>1, <3>2 DEF ListOK, Detecting, Resolving
  <2>. QED BY <2>1, <2>2
<1>5. NothingLost'
  BY <1>1, <1>2 DEF NothingLost, Waiting
<1>6. \A r \in root_readers' : pc'[r] = "set_root"
  BY <1>1 DEF LInv, IInv, TypeOK
<1>7. queued' \subseteq installed'
  BY <1>1, <1>2 DEF LInv
<1>. QED BY <1>4, <1>5, <1>6, <1>7 DEF LInv

\* Nobody resolves while a package is handed over.
LEMMA EnqueuePackagesLeavesLists ==
    ASSUME OneQueuer, IInv, LInv, NEW t \in Threads, NEW p \in installed, EnqueuePackages(t, p)
    PROVE  LInv'
<1>1. /\ pc[t] = "idle" /\ pc' = pc /\ packages' = packages
      /\ queued' = queued \cup {p}
      /\ \A o \in Threads \ {t} : done'[o] = done[o]
      /\ UNCHANGED <<installed, indexed_packages, root_readers>>
      /\ done[t] < Len(Plan[t]) /\ Plan[t][done[t] + 1] = "enqueue_packages"
  BY DEF EnqueuePackages, Calling, Goto, Returns, IInv, TypeOK
<1>2. ToSet(pending_packages') = ToSet(pending_packages) \cup {p}
  BY AppendSet DEF EnqueuePackages, IInv, TypeOK
<1>3. ASSUME NEW o \in Threads, pc[o] \in Resolving PROVE FALSE
  <2>1. Detecting(o) /\ o # t
    BY <1>1, <1>3 DEF LInv, ListOK, Resolving
  <2>. QED BY <1>1, <2>1, OnlyOneQueues DEF IInv, Detecting
<1>4. ASSUME NEW o \in Threads PROVE ListOK(o)'
  <2>1. ListOK(o) /\ pc[o] \notin Resolving
    BY <1>3 DEF LInv
  <2>2. CASE o = t
    BY <1>1, <2>2 DEF ListOK, Resolving
  <2>3. CASE o # t
    BY <1>1, <2>1, <2>3 DEF ListOK, Detecting, Resolving
  <2>. QED BY <2>2, <2>3
<1>5. NothingLost'
  BY <1>1, <1>2 DEF LInv, NothingLost, Waiting
<1>. QED BY <1>1, <1>4, <1>5 DEF LInv
\* The steps of the pass: what it takes, it holds until the mark.
LEMMA PassLeavesLists ==
    ASSUME IInv, LInv, NEW t \in Threads,
           \/ IndexPending(t) \/ Take(t) \/ SkipPackage(t) \/ IndexPackage(t)
           \/ MarkIndexed(t) \/ EndPass(t)
    PROVE  LInv'
<1>. USE DEF IInv, TypeOK, Calling, Goto, Returns, queue_vars, history
<1>1. /\ pc[t] \in {"idle"} \cup PassPC /\ pc'[t] \in {"idle"} \cup PassPC
      /\ \A o \in Threads \ {t} :
            pc'[o] = pc[o] /\ packages'[o] = packages[o] /\ done'[o] = done[o]
      /\ UNCHANGED <<installed, queued, root_readers>>
      /\ indexed_packages \subseteq indexed_packages'
  BY DEF IndexPending, Take, SkipPackage, IndexPackage, MarkIndexed, EndPass, PassPC
<1>2. \A r \in root_readers' : pc'[r] = "set_root"
  BY <1>1 DEF LInv, PassPC
<1>3. ListOK(t)'
  BY <1>1 DEF ListOK, Resolving, PassPC
<1>4. ASSUME NEW p \in queued, Waiting(p) PROVE p \in indexed_packages' \/ Waiting(p)'
  <2>1. ASSUME NEW o \in Threads \ {t}, pc[o] \in {"next", "mark"}, p \in ToSet(packages[o])
        PROVE  Waiting(p)'
    BY <1>1, <2>1 DEF Waiting
  <2>2. ASSUME p \in ToSet(pending_packages)
        PROVE  Waiting(p)'
    <3>1. CASE Take(t)
      BY <2>2, <3>1 DEF Waiting, Take
    <3>2. CASE ~Take(t)
      <4>1. pending_packages' = pending_packages
        BY <3>2 DEF IndexPending, SkipPackage, IndexPackage, MarkIndexed, EndPass
      <4>. QED BY <2>2, <4>1 DEF Waiting
    <3>. QED BY <3>1, <3>2
  <2>3. ASSUME pc[t] \in {"next", "mark"}, p \in ToSet(packages[t])
        PROVE  p \in indexed_packages' \/ Waiting(p)'
    <3>1. CASE IndexPackage(t)
      BY <2>3, <3>1 DEF IndexPackage, Waiting
    <3>2. CASE SkipPackage(t) \/ MarkIndexed(t)
      <4>1. packages[t] # <<>>
        BY <3>2 DEF SkipPackage, MarkIndexed, ThreadOK
      <4>2. ToSet(packages[t]) = {Head(packages[t])} \cup ToSet(Tail(packages[t]))
        BY <4>1, TailSet
      <4>3. Head(packages[t]) \in indexed_packages'
        BY <3>2 DEF SkipPackage, MarkIndexed
      <4>4. pc'[t] = "next" /\ packages'[t] = Tail(packages[t])
        BY <3>2 DEF SkipPackage, MarkIndexed
      <4>. QED BY <2>3, <4>2, <4>3, <4>4 DEF Waiting
    <3>3. CASE IndexPending(t) \/ Take(t) \/ EndPass(t)
      BY <2>3, <3>3 DEF IndexPending, Take, EndPass, ToSet
    <3>. QED BY <3>1, <3>2, <3>3
  <2>. QED BY <1>4, <2>1, <2>2, <2>3 DEF Waiting
<1>. QED BY <1>1, <1>2, <1>3, <1>4, QueuedKeeps

LEMMA InstallLeavesLists ==
    ASSUME LInv, NEW p \in Packages, Install(p) PROVE LInv'
BY DEF LInv, Install, ListOK, Detecting, Resolving, NothingLost, Waiting, queue_vars, history

LEMMA StepLeavesLists ==
    ASSUME OneQueuer, IInv, LInv, [Next]_vars
    PROVE  LInv'
<1>1. ASSUME NEW t \in Threads, Step(t) PROVE LInv'
  BY <1>1, ResolutionLeavesLists, ReplaceLeavesLists, EnqueuePackagesLeavesLists, PassLeavesLists
     DEF Step
<1>2. ASSUME NEW p \in Packages, Install(p) PROVE LInv'
  BY <1>2, InstallLeavesLists
<1>3. CASE UNCHANGED vars
  BY <1>3 DEF vars, queue_vars, history, LInv, ListOK, Detecting, NothingLost, Waiting
<1>. QED BY <1>1, <1>2, <1>3 DEF Next

\* With one thread that resolves and hands packages over, a package once
\* queued waits until it is indexed, whatever the passes do meanwhile.
THEOREM NothingIsLost == ASSUME OneQueuer PROVE Spec => []NothingLost
<1>1. Init => LInv
  BY DEF Init, LInv, ListOK, Resolving, NothingLost
<1>2. IInv /\ LInv /\ [Next]_vars => LInv'
  BY StepLeavesLists
<1>3. LInv => NothingLost
  BY DEF LInv
<1>. QED BY <1>1, <1>2, <1>3, Invariance, PTL DEF Spec

-----------------------------------------------------------------------------
(* The session. *)

Early == {"initialize", "create", "begin"}
Passing == {"join_index", "join_forwarder"}
ResolvePC == {"set_root", "resolve", "filter", "replace"}

\* The task ended at once: the client named no root.
Rootless == task = "ended" /\ forwarder = "off"

TaskOK ==
    /\ task \in Early \cup {"scan", "report"} \cup Passing \cup {"end", "ended"}
    /\ progress_supported \in BOOLEAN /\ panics \in 0 .. MaxPanics
    /\ task \in Early \cup {"scan", "report"} => forwarder = "off"
    /\ task \in Passing => forwarder \in {"on", "gone"}
    /\ task \in {"end", "ended"} => forwarder = "gone" \/ Rootless
    /\ task = "end" => forwarder = "gone"
    /\ Rootless => ~progress_supported /\ ~workspace_root
    /\ task \in {"initialize", "create"} => ~progress_supported
    /\ forwarder = "gone" => progress_rx = <<>> /\ PassDone
    /\ forwarder = "off" => pc[indexer] = "idle" /\ done[indexer] = 0 /\ progress_rx = <<>>
    /\ task = "initialize" \/ Rootless \/ done[lsp] = 1

QueueOK ==
    /\ installed \subseteq Packages
    /\ pending_packages \in Seq(Packages)
    /\ pc \in [Threads -> {"idle"} \cup ResolvePC \cup PassPC]
    /\ packages \in [Threads -> Seq(Packages)]
    /\ done \in [Threads -> {0, 1}]
    /\ pc[lsp] \notin PassPC /\ pc[indexer] \notin ResolvePC
    /\ \A t \in Threads : pc[t] # "idle" => done[t] = 0
    /\ done[lsp] = 0 => queued = {}
    /\ pc[indexer] \in {"idle", "take"} /\ done[indexer] = 0 =>
          packages[indexer] = <<>> /\ total = 0
    /\ pc[indexer] = "mark" => packages[indexer] # <<>>

\* Unless something panicked, nothing that was queued is lost.
NoneLost ==
    panics = 0 =>
        /\ indexing_in_progress <=> pc[indexer] \in PassPC
        /\ done[indexer] = 1 => packages[indexer] = <<>>
        /\ pc[indexer] \in {"next", "mark"} \/ done[indexer] = 1 => pending_packages = <<>>
        /\ \A p \in queued : \/ p \in indexed_packages
                             \/ p \in ToSet(pending_packages)
                             \/ p \in ToSet(packages[indexer])

Note == [stage : {"begin", "scan", "report", "package", "end"}, count : Nat]

\* How far the client can have been told.
Level ==
    CASE task \in Early -> 0
      [] task \in {"scan", "report"} -> 2
      [] task \in Passing \cup {"end"} -> 4
      [] task = "ended" -> 5

ReportsOK ==
    /\ notifications \in Seq(Note)
    /\ ProgressWellFormed
    /\ \A i \in DOMAIN notifications : Rank(notifications[i]) <= Level
    /\ Level = 0 => notifications = <<>>
    /\ progress_supported /\ Level > 0 => notifications # <<>>

\* The packages the pass is through with.
Through == total - Len(packages[indexer])

PackagesOK ==
    LET reports == Reports("package")
    IN  /\ total \in Nat /\ progress_rx \in Seq(Nat) /\ Len(progress_rx) <= Through
        /\ \A i \in DOMAIN progress_rx : progress_rx[i] = Through - Len(progress_rx) + i
        /\ \A i \in reports : notifications[i].count = Cardinality({j \in reports : j <= i})
        /\ progress_supported => Cardinality(reports) = Through - Len(progress_rx)

\* A worker that has a count which it may report.
Holds(w) == worker[w].pc \in {"load", "exchange", "send"}
Sending == {w \in Workers : At(w, "send")}
\* The reports sent or about to be.
Sent == Cardinality(Sending) + Len(scan_rx) + Cardinality(Reports("scan"))

WorkerRecord == [pc: {"off", "take", "load", "exchange", "send", "gone"},
                 count: 0 .. TotalFiles, prev: 0 .. TotalFiles]

CountsOK ==
    /\ {todo, indexed, errors, last_progress} \subseteq 0 .. TotalFiles
    /\ worker \in [Workers -> WorkerRecord]
    /\ indexed + errors <= TotalFiles - todo /\ last_progress <= indexed
    /\ \A w \in Workers : Holds(w) => 1 <= worker[w].count /\ worker[w].count <= indexed
    /\ \A w, v \in Workers : Holds(w) /\ Holds(v) /\ w # v => worker[w].count # worker[v].count
    /\ \A w \in Workers : worker[w].pc \in {"load", "exchange"} => worker[w].count # last_progress
    /\ \A w \in Workers : At(w, "exchange") =>
          worker[w].count >= worker[w].prev + ReportStep \/ worker[w].count = TotalFiles

\* The scan's threads run when the cache is open; without it no file is touched.
CacheOK ==
    /\ cache_opened \in BOOLEAN
    /\ cache_opened => \A w \in Workers : ~At(w, "off")
    /\ ~cache_opened => \A w \in Workers : At(w, "off") \/ At(w, "gone")
    /\ ~cache_opened => todo = TotalFiles /\ indexed = 0 /\ errors = 0

FilesOK ==
    /\ CacheOK
    /\ task \in Early => \A w \in Workers : At(w, "off")
    /\ task = "report" \/ forwarder # "off" => ScanDone /\ scan_rx = <<>>
    /\ panics = 0 => indexed + errors = TotalFiles - todo
    /\ panics = 0 /\ cache_opened /\ (\E w \in Workers : At(w, "gone")) => todo = 0

ThrottleOK ==
    /\ scan_rx \in Seq(1 .. TotalFiles)
    /\ \A w \in Sending : worker[w].count <= last_progress
    /\ \A i \in DOMAIN scan_rx : scan_rx[i] <= last_progress
    /\ \A i \in Reports("scan") : notifications[i].count <= last_progress
    /\ \A w \in Sending, i \in DOMAIN scan_rx : worker[w].count # scan_rx[i]
    /\ \A w \in Sending, i \in Reports("scan") : worker[w].count # notifications[i].count
    /\ \A i, j \in DOMAIN scan_rx : scan_rx[i] = scan_rx[j] => i = j
    /\ \A i, j \in Reports("scan") : notifications[i].count = notifications[j].count => i = j
    /\ \A i \in DOMAIN scan_rx, j \in Reports("scan") : scan_rx[i] # notifications[j].count
    \* The last report may come early, the others are ReportStep files apart.
    /\ \/ Sent * ReportStep <= last_progress
       \/ last_progress = TotalFiles /\ (Sent - 1) * ReportStep <= TotalFiles

SessionIInv ==
    TaskOK /\ QueueOK /\ NoneLost /\ ReportsOK /\ PackagesOK /\ CountsOK /\ FilesOK /\ ThrottleOK

-----------------------------------------------------------------------------
(* Facts about the constants and the variables that stay. *)

LEMMA Constants ==
    /\ lsp \in Threads /\ indexer \in Threads /\ lsp # indexer
    /\ \A t \in Threads : t = lsp \/ t = indexer
    /\ TotalFiles \in Nat /\ ReportStep \in Nat /\ ReportStep >= 1 /\ MaxPanics \in Nat
    /\ IsFiniteSet(Workers) /\ Workers # {}
<1>1. Plan[lsp][1] # Plan[indexer][1]
  BY ServerAssumption
<1>. QED BY <1>1, ServerAssumption

\* The calls the two threads make.
LEMMA Planned ==
    ASSUME NEW t \in Threads, NEW call, Calling(t, call), done[t] \in {0, 1}
    PROVE  /\ done[t] = 0 /\ pc[t] = "idle"
           /\ t = lsp => call = "detect_and_resolve"
           /\ t = indexer => call = "index_pending"
<1>1. Len(Plan[t]) = 1
  BY ServerAssumption
<1>2. done[t] = 0 /\ Plan[t][1] = call /\ pc[t] = "idle"
  BY <1>1 DEF Calling
<1>. QED BY <1>2, ServerAssumption

LEMMA QueueStays ==
    ASSUME QueueOK, UNCHANGED <<vars, total>>
    PROVE  QueueOK'
BY DEF QueueOK, vars, queue_vars, history

LEMMA NoneLostStays ==
    ASSUME NoneLost, UNCHANGED vars, panics' = 0 => panics = 0
    PROVE  NoneLost'
BY DEF NoneLost, vars, queue_vars, history

LEMMA CountsStay ==
    ASSUME CountsOK, UNCHANGED scan_vars
    PROVE  CountsOK'
BY DEF CountsOK, scan_vars, Holds, At

LEMMA SentStays ==
    ASSUME UNCHANGED <<worker, scan_rx>>, Reports("scan")' = Reports("scan")
    PROVE  Sent' = Sent /\ Sending' = Sending
BY DEF Sent, Sending, At

LEMMA ThrottleStays ==
    ASSUME ThrottleOK, UNCHANGED <<scan_vars, scan_rx, notifications>>
    PROVE  ThrottleOK'
<1>1. Reports("scan")' = Reports("scan") /\ worker' = worker /\ last_progress' = last_progress
  BY DEF Reports, scan_vars
<1>2. Sent' = Sent /\ Sending' = Sending
  BY <1>1, SentStays
<1>. QED BY <1>1, <1>2 DEF ThrottleOK

LEMMA PackagesStay ==
    ASSUME PackagesOK, UNCHANGED <<total, progress_rx, notifications, progress_supported>>,
           packages'[indexer] = packages[indexer]
    PROVE  PackagesOK'
<1>1. Reports("package")' = Reports("package") /\ Through' = Through
  BY DEF Reports, Through
<1>. QED BY <1>1 DEF PackagesOK

LEMMA FilesStay ==
    ASSUME FilesOK, UNCHANGED <<scan_vars, scan_rx, panics, task, forwarder>>
    PROVE  FilesOK'
BY DEF FilesOK, CacheOK, scan_vars, At, ScanDone

LEMMA ReportsStay ==
    ASSUME ReportsOK, UNCHANGED <<notifications, progress_supported>>,
           Level' = Level
    PROVE  ReportsOK'
<1>1. ProgressWellFormed'
  BY DEF ReportsOK, ProgressWellFormed, Rank
<1>. QED BY <1>1 DEF ReportsOK, Rank

-----------------------------------------------------------------------------
(* The initial states. *)

LEMMA SessionInitKeeps == SessionInit => SessionIInv
<1>. SUFFICES ASSUME SessionInit PROVE SessionIInv
  OBVIOUS
<1>1. TaskOK
  <2>1. panics \in 0 .. MaxPanics
    BY Constants DEF SessionInit
  <2>2. /\ task = "initialize" /\ forwarder = "off" /\ progress_supported = FALSE
        /\ progress_rx = <<>> /\ pc[indexer] = "idle" /\ done[indexer] = 0
    BY Constants DEF SessionInit, Init
  <2>. QED BY <2>1, <2>2, Zenon DEF TaskOK, Early, Passing, Rootless
<1>2. QueueOK
  BY Constants DEF SessionInit, Init, QueueOK, ResolvePC, PassPC
<1>3. NoneLost
  <2>1. /\ indexing_in_progress = FALSE /\ pc[indexer] = "idle" /\ done[indexer] = 0
        /\ pending_packages = <<>> /\ queued = {}
    BY Constants DEF SessionInit, Init
  <2>2. pc[indexer] \notin PassPC /\ done[indexer] # 1 /\ pc[indexer] \notin {"next", "mark"}
    BY <2>1 DEF PassPC
  <2>. QED BY <2>1, <2>2, Zenon DEF NoneLost
<1>4. ReportsOK
  BY DEF SessionInit, ReportsOK, ProgressWellFormed, Level, Early
<1>5. CountsOK
  BY Constants DEF SessionInit, CountsOK, Holds, At, IdleWorker, WorkerRecord
<1>6. FilesOK
  <2>1. /\ task = "initialize" /\ forwarder = "off" /\ cache_opened = FALSE
        /\ todo = TotalFiles /\ indexed = 0 /\ errors = 0 /\ TotalFiles \in Nat
        /\ worker = [w \in Workers |-> [IdleWorker EXCEPT !.pc = "off"]]
    BY Constants DEF SessionInit
  <2>2. \A w \in Workers : At(w, "off") /\ ~At(w, "gone")
    BY <2>1 DEF At, IdleWorker
  <2>3. CacheOK
    BY <2>1, <2>2 DEF CacheOK
  <2>4. indexed + errors = TotalFiles - todo
    BY <2>1
  <2>. QED BY <2>1, <2>2, <2>3, <2>4, Zenon DEF FilesOK
<1>7. Reports("scan") = {} /\ Reports("package") = {} /\ Sending = {}
  BY DEF SessionInit, Reports, Sending, At, IdleWorker
<1>8. PackagesOK
  <2>1. Through = 0 /\ progress_rx = <<>>
    <3>1. packages[indexer] = <<>> /\ total = 0 /\ progress_rx = <<>>
      BY Constants DEF SessionInit, Init
    <3>2. Len(packages[indexer]) = 0 /\ 0 - 0 = 0
      BY <3>1
    <3>3. Through = 0
      BY <3>1, <3>2, Zenon DEF Through
    <3>. QED BY <3>1, <3>3
  <2>. QED BY <1>7, <2>1, FS_EmptySet DEF SessionInit, PackagesOK
<1>9. ThrottleOK
  <2>1. Sent = 0
    <3>1. scan_rx = <<>> /\ Len(<<>>) = 0
      BY DEF SessionInit
    <3>. QED BY <1>7, <3>1, FS_EmptySet DEF Sent
  <2>. QED BY <1>7, <2>1, Constants DEF SessionInit, ThrottleOK
<1>. QED BY <1>1, <1>2, <1>3, <1>4, <1>5, <1>6, <1>8, <1>9 DEF SessionIInv

-----------------------------------------------------------------------------
(* The scan's threads. *)

\* What a scanner step leaves alone.
LEMMA ScannerLeaves ==
    ASSUME SessionIInv, ScanKeeps, panics' \in 0 .. MaxPanics, panics' = 0 => panics = 0
    PROVE  TaskOK' /\ QueueOK' /\ NoneLost' /\ ReportsOK' /\ PackagesOK'
<1>1. UNCHANGED <<vars, task_vars, progress_rx, total>>
  BY DEF ScanKeeps
<1>2. /\ task' = task /\ progress_supported' = progress_supported /\ forwarder' = forwarder
      /\ notifications' = notifications /\ progress_rx' = progress_rx /\ total' = total
      /\ pc' = pc /\ done' = done /\ workspace_root' = workspace_root /\ packages' = packages
  BY <1>1 DEF task_vars, vars
<1>3. TaskOK'
  BY <1>2, Zenon DEF SessionIInv, TaskOK, Rootless, PassDone
<1>4. Level' = Level
  BY <1>2 DEF Level
<1>5. QueueOK'
  BY <1>1, QueueStays DEF SessionIInv
<1>6. NoneLost'
  BY <1>1, NoneLostStays DEF SessionIInv
<1>7. ReportsOK'
  BY <1>2, <1>4, ReportsStay DEF SessionIInv
<1>8. PackagesOK'
  BY <1>2, PackagesStay DEF SessionIInv
<1>. QED BY <1>3, <1>5, <1>6, <1>7, <1>8

\* A thread that is not gone works in the scan phase.
LEMMA ScanPhase ==
    ASSUME SessionIInv, NEW w \in Workers, worker[w].pc \in {"take", "load", "exchange", "send"}
    PROVE  task \notin Early /\ task # "report" /\ forwarder = "off" /\ cache_opened = TRUE
<1>1. ~At(w, "off") /\ ~At(w, "gone")
  BY DEF At
<1>. QED BY <1>1 DEF SessionIInv, FilesOK, CacheOK, ScanDone

\* The cache stays open under the step of a thread.
LEMMA CacheKeeps ==
    ASSUME cache_opened = TRUE, CacheOK, UNCHANGED cache_opened, NEW w \in Workers, worker'[w].pc # "off",
           \A v \in Workers \ {w} : worker'[v] = worker[v]
    PROVE  CacheOK'
BY DEF CacheOK, At

\* The threads that send are the same, and what was reported.
LEMMA ThrottleKeeps ==
    ASSUME ThrottleOK, UNCHANGED <<last_progress, scan_rx, notifications>>,
           Sending' = Sending, \A v \in Sending : worker'[v] = worker[v]
    PROVE  ThrottleOK'
<1>1. Reports("scan")' = Reports("scan")
  BY DEF Reports
<1>2. Sent' = Sent
  BY <1>1 DEF Sent
<1>. QED BY <1>1, <1>2 DEF ThrottleOK

LEMMA WorkerFields ==
    ASSUME NEW r \in WorkerRecord, NEW count \in 0 .. TotalFiles, NEW label,
           label \in {"off", "take", "load", "exchange", "send", "gone"}
    PROVE  /\ [r EXCEPT !.pc = label, !.count = count] \in WorkerRecord
           /\ [r EXCEPT !.pc = label, !.prev = count] \in WorkerRecord
           /\ [r EXCEPT !.pc = label] \in WorkerRecord
BY DEF WorkerRecord

LEMMA TakeFileKeeps ==
    ASSUME SessionIInv, NEW w \in Workers, TakeFile(w)
    PROVE  SessionIInv'
<1>. USE Constants
<1>1. /\ worker[w].pc = "take" /\ todo > 0 /\ todo' = todo - 1 /\ indexed' = indexed + 1
      /\ UNCHANGED <<cache_opened, errors, last_progress, scan_rx, panics>>
      /\ UNCHANGED <<notifications, task, forwarder>>
      /\ worker' = [worker EXCEPT ![w].pc = "load", ![w].count = indexed + 1]
  BY DEF TakeFile, At, ScanKeeps, task_vars
<1>2. CountsOK
  BY DEF SessionIInv
<1>3. /\ {todo, indexed, errors, last_progress} \subseteq 0 .. TotalFiles
      /\ indexed + 1 + errors <= TotalFiles - (todo - 1) /\ indexed + 1 \in 1 .. TotalFiles
      /\ last_progress <= indexed
  BY <1>1, <1>2 DEF CountsOK
<1>4. /\ worker'[w].pc = "load" /\ worker'[w].count = indexed + 1
      /\ worker'[w].prev = worker[w].prev
      /\ \A v \in Workers \ {w} : worker'[v] = worker[v]
      /\ worker' \in [Workers -> WorkerRecord]
  <2>1. worker \in [Workers -> WorkerRecord]
    BY <1>2 DEF CountsOK
  <2>2. /\ worker'[w].pc = "load" /\ worker'[w].count = indexed + 1
        /\ worker'[w].prev = worker[w].prev
        /\ \A v \in Workers \ {w} : worker'[v] = worker[v]
    BY <1>1, <2>1
  <2>3. worker'[w] \in WorkerRecord
    <3>1. worker'[w] = [worker[w] EXCEPT !.pc = "load", !.count = indexed + 1]
      BY <1>1, <2>1
    <3>2. worker[w] \in WorkerRecord /\ indexed + 1 \in 0 .. TotalFiles
      BY <1>3, <2>1
    <3>3. [worker[w] EXCEPT !.pc = "load", !.count = indexed + 1] \in WorkerRecord
      BY <3>2, WorkerFields
    <3>. QED BY <3>1, <3>3, Zenon
  <2>4. worker' \in [Workers -> WorkerRecord]
    BY <1>1, <2>1, <2>2, <2>3
  <2>. QED BY <2>2, <2>4
<1>5. CountsOK'
  <2>1. {todo, indexed, errors, last_progress}' \subseteq 0 .. TotalFiles
        /\ indexed' + errors' <= TotalFiles - todo' /\ last_progress' <= indexed'
    BY <1>1, <1>3
  <2>2. ASSUME NEW v \in Workers, Holds(v)'
        PROVE  1 <= worker'[v].count /\ worker'[v].count <= indexed'
    <3>1. CASE v = w
      BY <1>1, <1>3, <1>4, <3>1
    <3>2. CASE v # w
      <4>1. /\ 1 <= worker[v].count /\ worker[v].count <= indexed
            /\ worker[v].count \in Int /\ indexed \in Int
        BY <1>2, <1>4, <2>2, <3>2 DEF CountsOK, Holds, WorkerRecord
      <4>. QED BY <1>1, <1>4, <3>2, <4>1
    <3>. QED BY <3>1, <3>2
  <2>3. ASSUME NEW v \in Workers \ {w}, Holds(v)' PROVE worker'[v].count # worker'[w].count
    BY <1>2, <1>3, <1>4, <2>3 DEF CountsOK, Holds
  <2>4. \A u, v \in Workers : Holds(u)' /\ Holds(v)' /\ u # v => worker'[u].count # worker'[v].count
    BY <1>2, <1>4, <2>3 DEF CountsOK, Holds
  <2>5. \A v \in Workers :
          worker'[v].pc \in {"load", "exchange"} => worker'[v].count # last_progress'
    BY <1>1, <1>2, <1>3, <1>4 DEF CountsOK
  <2>6. \A v \in Workers : At(v, "exchange")' =>
          worker'[v].count >= worker'[v].prev + ReportStep \/ worker'[v].count = TotalFiles
    BY <1>2, <1>4 DEF CountsOK, At
  <2>. QED BY <1>4, <2>1, <2>2, <2>4, <2>5, <2>6 DEF CountsOK
<1>6. FilesOK'
  <2>1. task \notin Early /\ task # "report" /\ forwarder = "off" /\ cache_opened = TRUE
    BY <1>1, ScanPhase
  <2>2. panics = 0 => indexed + errors = TotalFiles - todo /\ ~ \E v \in Workers : At(v, "gone")
    BY <1>1, <1>3, <2>1 DEF SessionIInv, FilesOK
  <2>3. panics' = 0 => indexed' + errors' = TotalFiles - todo' /\ ~ \E v \in Workers : At(v, "gone")'
    BY <1>1, <1>3, <1>4, <2>2 DEF At
  <2>4. CacheOK'
    BY <1>1, <1>4, <2>1, CacheKeeps DEF SessionIInv, FilesOK
  <2>. QED BY <1>1, <2>1, <2>3, <2>4 DEF FilesOK
<1>7. ThrottleOK'
  <2>1. Sending' = Sending /\ \A v \in Sending : worker'[v] = worker[v]
    BY <1>1, <1>4 DEF Sending, At
  <2>. QED BY <1>1, <2>1, ThrottleKeeps DEF SessionIInv
<1>8. ScanKeeps /\ panics' \in 0 .. MaxPanics
  BY <1>1 DEF TakeFile, SessionIInv, TaskOK
<1>. QED BY <1>1, <1>5, <1>6, <1>7, <1>8, ScannerLeaves DEF SessionIInv

\* A file that is an error: nothing but the two counts changes.
LEMMA FailFileKeeps ==
    ASSUME SessionIInv, NEW w \in Workers, FailFile(w)
    PROVE  SessionIInv'
<1>. USE Constants
<1>1. /\ worker[w].pc = "take" /\ todo > 0 /\ todo' = todo - 1 /\ errors' = errors + 1
      /\ UNCHANGED <<cache_opened, indexed, last_progress, worker, scan_rx, panics>>
      /\ UNCHANGED <<notifications, task, forwarder>> /\ ScanKeeps
  BY DEF FailFile, At, ScanKeeps, task_vars
<1>2. CountsOK /\ FilesOK
  BY DEF SessionIInv
<1>3. /\ {todo, indexed, errors, last_progress}' \subseteq 0 .. TotalFiles
      /\ indexed' + errors' <= TotalFiles - todo' /\ last_progress' <= indexed'
      /\ indexed + errors = TotalFiles - todo => indexed' + errors' = TotalFiles - todo'
  BY <1>1, <1>2 DEF CountsOK
<1>4. CountsOK'
  BY <1>1, <1>2, <1>3 DEF CountsOK, Holds, At
<1>5. task \notin Early /\ task # "report" /\ forwarder = "off" /\ cache_opened = TRUE
  BY <1>1, ScanPhase
<1>6. CacheOK'
  BY <1>1, <1>2, <1>5 DEF FilesOK, CacheOK, At
<1>7. FilesOK'
  <2>1. panics = 0 => ~ \E v \in Workers : At(v, "gone")
    BY <1>1, <1>2, <1>5 DEF FilesOK
  <2>. QED BY <1>1, <1>2, <1>3, <1>5, <1>6, <2>1 DEF FilesOK, At
<1>8. ThrottleOK'
  <2>1. Sending' = Sending
    BY <1>1 DEF Sending, At
  <2>. QED BY <1>1, <2>1, ThrottleKeeps DEF SessionIInv
<1>9. panics' \in 0 .. MaxPanics /\ (panics' = 0 => panics = 0)
  BY <1>1 DEF SessionIInv, TaskOK
<1>. QED BY <1>1, <1>4, <1>7, <1>8, <1>9, ScannerLeaves DEF SessionIInv

\* Steps after which a thread has no count to report, or the same one.
LEMMA CountsMove ==
    ASSUME CountsOK, NEW w \in Workers, NEW r,
           worker' = [worker EXCEPT ![w] = r],
           r \in WorkerRecord,
           r.pc \in {"take", "gone"} \/ (Holds(w) /\ r.count = worker[w].count),
           r.pc \in {"load", "exchange"} => r.count # last_progress,
           r.pc = "exchange" => r.count >= r.prev + ReportStep \/ r.count = TotalFiles,
           UNCHANGED <<indexed, errors, last_progress>>, todo' \in 0 .. TotalFiles,
           indexed + errors <= TotalFiles - todo'
    PROVE  CountsOK'
<1>. USE Constants
<1>1. /\ worker'[w] = r /\ \A v \in Workers \ {w} : worker'[v] = worker[v]
      /\ worker' \in [Workers -> WorkerRecord]
  BY DEF CountsOK
<1>2. \A v \in Workers : Holds(v)' => Holds(v) /\ worker'[v].count = worker[v].count
  BY <1>1 DEF Holds
<1>3. \A v \in Workers : Holds(v)' => 1 <= worker'[v].count /\ worker'[v].count <= indexed'
  BY <1>2 DEF CountsOK
<1>4. \A u, v \in Workers : Holds(u)' /\ Holds(v)' /\ u # v => worker'[u].count # worker'[v].count
  BY <1>2 DEF CountsOK
<1>5. \A v \in Workers : worker'[v].pc \in {"load", "exchange"} => worker'[v].count # last_progress'
  BY <1>1 DEF CountsOK
<1>6. \A v \in Workers : At(v, "exchange")' =>
        worker'[v].count >= worker'[v].prev + ReportStep \/ worker'[v].count = TotalFiles
  BY <1>1 DEF CountsOK, At
<1>7. {todo, indexed, errors, last_progress}' \subseteq 0 .. TotalFiles
      /\ indexed' + errors' <= TotalFiles - todo' /\ last_progress' <= indexed'
  BY DEF CountsOK
<1>. QED BY <1>1, <1>3, <1>4, <1>5, <1>6, <1>7 DEF CountsOK

LEMMA MovesTo ==
    ASSUME CountsOK, NEW w \in Workers, NEW label, Moves(w, label),
           label \in {"off", "take", "load", "exchange", "send", "gone"}
    PROVE  /\ worker' = [worker EXCEPT ![w] = worker'[w]]
           /\ worker'[w] \in WorkerRecord
           /\ worker'[w].pc = label
           /\ worker'[w].count = worker[w].count /\ worker'[w].prev = worker[w].prev
           /\ \A v \in Workers \ {w} : worker'[v] = worker[v]
<1>1. worker \in [Workers -> WorkerRecord] /\ worker[w] \in WorkerRecord
  BY DEF CountsOK
<1>2. worker' = [worker EXCEPT ![w].pc = label]
  BY DEF Moves
<1>3. worker'[w] = [worker[w] EXCEPT !.pc = label]
  BY <1>1, <1>2
<1>4. /\ worker'[w].pc = label
      /\ worker'[w].count = worker[w].count /\ worker'[w].prev = worker[w].prev
      /\ \A v \in Workers \ {w} : worker'[v] = worker[v]
  BY <1>1, <1>2 DEF WorkerRecord
<1>5. 0 \in 0 .. TotalFiles
  BY Constants
<1>6. [worker[w] EXCEPT !.pc = label] \in WorkerRecord
  BY <1>1, <1>5, WorkerFields, Zenon
<1>7. worker'[w] \in WorkerRecord
  BY <1>3, <1>6, Zenon
<1>8. worker' = [worker EXCEPT ![w] = worker'[w]]
  BY <1>1, <1>2, <1>3
<1>. QED BY <1>4, <1>7, <1>8

\* A thread that stops, with or without a panic.
LEMMA StopKeeps ==
    ASSUME SessionIInv, NEW w \in Workers, PanicInFile(w) \/ StopWorker(w)
    PROVE  SessionIInv'
<1>. USE Constants
<1>1. CountsOK /\ worker[w].pc = "take" /\ Moves(w, "gone") /\ ScanKeeps
      /\ UNCHANGED <<cache_opened, indexed, errors, last_progress, scan_rx>>
  BY DEF SessionIInv, PanicInFile, StopWorker, At
<1>2. /\ todo' \in 0 .. TotalFiles /\ indexed + errors <= TotalFiles - todo'
      /\ panics' = 0 => panics = 0 /\ todo = 0 /\ todo' = todo
      /\ panics' \in 0 .. MaxPanics
  <2>1. /\ todo \in 0 .. TotalFiles /\ indexed \in 0 .. TotalFiles /\ errors \in 0 .. TotalFiles
        /\ indexed + errors <= TotalFiles - todo
        /\ panics \in 0 .. MaxPanics
    BY <1>1 DEF CountsOK, SessionIInv, TaskOK
  <2>2. CASE PanicInFile(w)
    BY <2>1, <2>2 DEF PanicInFile
  <2>3. CASE StopWorker(w)
    BY <2>1, <2>3 DEF StopWorker
  <2>. QED BY <2>2, <2>3
<1>3. /\ worker' = [worker EXCEPT ![w] = worker'[w]] /\ worker'[w] \in WorkerRecord
      /\ worker'[w].pc = "gone" /\ \A v \in Workers \ {w} : worker'[v] = worker[v]
  BY <1>1, MovesTo
<1>4. CountsOK'
  <2>1. PICK r : r = worker'[w]
    OBVIOUS
  <2>2. r \in WorkerRecord /\ r.pc = "gone" /\ worker' = [worker EXCEPT ![w] = r]
    BY <1>3, <2>1
  <2>3. UNCHANGED <<indexed, errors, last_progress>> /\ todo' \in 0 .. TotalFiles
        /\ indexed + errors <= TotalFiles - todo'
    BY <1>1, <1>2
  <2>4. r.pc \in {"take", "gone"} \/ (Holds(w) /\ r.count = worker[w].count)
    BY <2>2
  <2>5. r.pc \in {"load", "exchange"} => r.count # last_progress
    BY <2>2
  <2>6. r.pc = "exchange" => r.count >= r.prev + ReportStep \/ r.count = TotalFiles
    BY <2>2
  <2>. QED BY <1>1, <2>2, <2>3, <2>4, <2>5, <2>6, CountsMove
<1>5. /\ task \notin Early /\ task # "report" /\ forwarder = "off" /\ cache_opened = TRUE
      /\ UNCHANGED <<task, forwarder>>
  BY <1>1, ScanPhase DEF ScanKeeps, task_vars
<1>6. FilesOK'
  <2>1. panics = 0 => indexed + errors = TotalFiles - todo
    BY DEF SessionIInv, FilesOK
  <2>2. CacheOK'
    BY <1>1, <1>3, <1>5, CacheKeeps DEF SessionIInv, FilesOK
  <2>. QED BY <1>1, <1>2, <1>5, <2>1, <2>2 DEF FilesOK
<1>7. ThrottleOK'
  <2>1. Sending' = Sending /\ \A v \in Sending : worker'[v] = worker[v]
    BY <1>1, <1>3 DEF Sending, At
  <2>. QED BY <1>1, <2>1, ThrottleKeeps DEF SessionIInv, ScanKeeps, task_vars
<1>. QED BY <1>1, <1>2, <1>4, <1>6, <1>7, ScannerLeaves DEF SessionIInv

LEMMA LoadLastKeeps ==
    ASSUME SessionIInv, NEW w \in Workers, LoadLast(w)
    PROVE  SessionIInv'
<1>. USE Constants
<1>. DEFINE due == worker[w].count >= last_progress + ReportStep \/ worker[w].count = TotalFiles
            label == IF due THEN "exchange" ELSE "take"
            r == [worker[w] EXCEPT !.pc = label, !.prev = last_progress]
<1>1. /\ CountsOK /\ worker[w].pc = "load" /\ ScanKeeps
      /\ UNCHANGED <<cache_opened, todo, indexed, errors, last_progress, scan_rx, panics>>
      /\ UNCHANGED <<notifications, task, forwarder>>
      /\ worker' = [worker EXCEPT ![w].pc = label, ![w].prev = last_progress]
  BY DEF SessionIInv, LoadLast, At, ScanKeeps, task_vars
<1>2. /\ worker \in [Workers -> WorkerRecord] /\ worker[w] \in WorkerRecord
      /\ last_progress \in 0 .. TotalFiles /\ worker[w].count # last_progress
      /\ todo \in 0 .. TotalFiles /\ indexed + errors <= TotalFiles - todo
  BY <1>1 DEF CountsOK
<1>3. label \in {"take", "exchange"} /\ (label = "exchange" => due)
  OBVIOUS
<1>. HIDE DEF label
<1>4. r.pc = label /\ r.count = worker[w].count /\ r.prev = last_progress
  BY <1>2 DEF WorkerRecord
<1>5. label \in {"off", "take", "load", "exchange", "send", "gone"}
  BY <1>3
<1>6. r \in WorkerRecord
  BY <1>2, <1>5, WorkerFields, Zenon
<1>7. worker'[w] = r /\ \A v \in Workers \ {w} : worker'[v] = worker[v]
  BY <1>1, <1>2
<1>8. worker' = [worker EXCEPT ![w] = r]
  BY <1>1, <1>2, <1>7
<1>. HIDE DEF r
<1>9. CountsOK'
  <2>1. Holds(w)
    BY <1>1 DEF Holds
  <2>2. r.pc = "exchange" => r.count >= r.prev + ReportStep \/ r.count = TotalFiles
    BY <1>3, <1>4
  <2>3. r.pc \in {"load", "exchange"} => r.count # last_progress
    BY <1>2, <1>4
  <2>4. /\ todo' \in 0 .. TotalFiles /\ indexed + errors <= TotalFiles - todo'
        /\ UNCHANGED <<indexed, errors, last_progress>>
    BY <1>1, <1>2
  <2>5. r.pc \in {"take", "gone"} \/ (Holds(w) /\ r.count = worker[w].count)
    BY <1>4, <2>1
  <2>. QED BY <1>1, <1>6, <1>8, <2>2, <2>3, <2>4, <2>5, CountsMove
<1>10. FilesOK'
  <2>1. task \notin Early /\ task # "report" /\ forwarder = "off" /\ cache_opened = TRUE
    BY <1>1, ScanPhase
  <2>2. \A v \in Workers : At(v, "gone")' => At(v, "gone")
    BY <1>3, <1>4, <1>7 DEF At
  <2>3. CacheOK'
    <3>1. worker'[w].pc # "off"
      BY <1>3, <1>4, <1>7
    <3>. QED BY <1>1, <1>7, <2>1, <3>1, CacheKeeps DEF SessionIInv, FilesOK
  <2>. QED BY <1>1, <2>1, <2>2, <2>3 DEF SessionIInv, FilesOK
<1>11. ThrottleOK'
  <2>1. Sending' = Sending /\ \A v \in Sending : worker'[v] = worker[v]
    BY <1>1, <1>3, <1>4, <1>7 DEF Sending, At
  <2>. QED BY <1>1, <2>1, ThrottleKeeps DEF SessionIInv
<1>12. panics' \in 0 .. MaxPanics /\ (panics' = 0 => panics = 0)
  BY <1>1 DEF SessionIInv, TaskOK
<1>. QED BY <1>1, <1>9, <1>10, <1>11, <1>12, ScannerLeaves DEF SessionIInv

LEMMA OneMore ==
    ASSUME NEW n \in Int, NEW s \in Nat
    PROVE  (n + 1) * s = n * s + s /\ n * s \in Int
OBVIOUS

LEMMA SentType ==
    ASSUME ThrottleOK, ReportsOK
    PROVE  /\ IsFiniteSet(Sending) /\ IsFiniteSet(Reports("scan"))
           /\ Sent \in Nat /\ Cardinality(Sending) \in Nat /\ Cardinality(Reports("scan")) \in Nat
           /\ Reports("scan") \subseteq 1 .. Len(notifications)
<1>1. Sending \subseteq Workers
  BY DEF Sending
<1>2. notifications \in Seq(Note)
  BY DEF ReportsOK
<1>3. Reports("scan") \subseteq 1 .. Len(notifications)
  BY <1>2 DEF Reports
<1>4. IsFiniteSet(1 .. Len(notifications))
  BY <1>2, FS_Interval
<1>5. IsFiniteSet(Sending) /\ IsFiniteSet(Reports("scan"))
  BY <1>1, <1>3, <1>4, Constants, FS_Subset
<1>6. Cardinality(Sending) \in Nat /\ Cardinality(Reports("scan")) \in Nat
  BY <1>5, FS_CardinalityType
<1>7. Len(scan_rx) \in Nat
  BY DEF ThrottleOK
<1>. QED BY <1>3, <1>5, <1>6, <1>7 DEF Sent

\* Another thread was faster: nothing is reported.
LEMMA LostExchange ==
    ASSUME SessionIInv, NEW w \in Workers, Exchange(w), last_progress # worker[w].prev
    PROVE  CountsOK' /\ ThrottleOK'
<1>1. /\ CountsOK /\ worker[w].pc = "exchange" /\ Moves(w, "take") /\ ScanKeeps
      /\ UNCHANGED <<todo, indexed, errors, last_progress, scan_rx>>
  BY DEF SessionIInv, Exchange, At
<1>2. PICK r : r = worker'[w]
  OBVIOUS
<1>3. /\ worker' = [worker EXCEPT ![w] = r] /\ r \in WorkerRecord
      /\ r.pc = "take" /\ worker'[w] = r /\ \A v \in Workers \ {w} : worker'[v] = worker[v]
  BY <1>1, <1>2, MovesTo
<1>4. CountsOK'
  <2>1. UNCHANGED <<indexed, errors, last_progress>> /\ todo' \in 0 .. TotalFiles
        /\ indexed + errors <= TotalFiles - todo'
    BY <1>1 DEF CountsOK
  <2>2. r.pc \in {"take", "gone"} \/ (Holds(w) /\ r.count = worker[w].count)
    BY <1>3
  <2>3. r.pc \in {"load", "exchange"} => r.count # last_progress
    BY <1>3
  <2>4. r.pc = "exchange" => r.count >= r.prev + ReportStep \/ r.count = TotalFiles
    BY <1>3
  <2>. QED BY <1>1, <1>3, <2>1, <2>2, <2>3, <2>4, CountsMove
<1>5. ThrottleOK'
  <2>1. Sending' = Sending /\ \A v \in Sending : worker'[v] = worker[v]
    BY <1>1, <1>3 DEF Sending, At
  <2>. QED BY <1>1, <2>1, ThrottleKeeps DEF SessionIInv, ScanKeeps, task_vars
<1>. QED BY <1>4, <1>5

\* The report is due: its count is beyond all that were reported.
LEMMA WonExchange ==
    ASSUME SessionIInv, NEW w \in Workers, Exchange(w), last_progress = worker[w].prev
    PROVE  CountsOK' /\ ThrottleOK'
<1>. USE Constants
<1>. DEFINE count == worker[w].count
<1>1. /\ CountsOK /\ worker[w].pc = "exchange" /\ Moves(w, "send") /\ ScanKeeps
      /\ last_progress' = count
      /\ UNCHANGED <<todo, indexed, errors, scan_rx>>
  BY DEF SessionIInv, Exchange, At
<1>2. notifications' = notifications
  BY <1>1 DEF ScanKeeps, task_vars
<1>3. PICK r : r = worker'[w]
  OBVIOUS
<1>4. /\ worker' = [worker EXCEPT ![w] = r] /\ r \in WorkerRecord /\ worker'[w] = r
      /\ r.pc = "send" /\ r.count = count /\ \A v \in Workers \ {w} : worker'[v] = worker[v]
  BY <1>1, <1>3, MovesTo
<1>5. /\ count \in 1 .. TotalFiles /\ count <= indexed /\ last_progress \in 0 .. TotalFiles
      /\ last_progress < count
      /\ count >= last_progress + ReportStep \/ count = TotalFiles
  <2>1. /\ worker[w] \in WorkerRecord /\ indexed \in 0 .. TotalFiles
        /\ last_progress \in 0 .. TotalFiles
    BY <1>1 DEF CountsOK
  <2>2. count # last_progress /\ 1 <= count /\ count <= indexed
    BY <1>1 DEF CountsOK, Holds
  <2>3. count >= last_progress + ReportStep \/ count = TotalFiles
    BY <1>1 DEF CountsOK, At
  <2>4. count \in 0 .. TotalFiles
    BY <2>1 DEF WorkerRecord
  <2>. HIDE DEF count
  <2>. QED BY <2>1, <2>2, <2>3, <2>4
<1>. HIDE DEF count
<1>6. CountsOK'
  <2>1. \A v \in Workers : Holds(v)' => Holds(v) /\ worker'[v].count = worker[v].count
    BY <1>1, <1>4 DEF Holds, count
  <2>2. \A v \in Workers : Holds(v)' => 1 <= worker'[v].count /\ worker'[v].count <= indexed'
    BY <1>1, <2>1 DEF CountsOK
  <2>3. \A u, v \in Workers : Holds(u)' /\ Holds(v)' /\ u # v => worker'[u].count # worker'[v].count
    BY <1>1, <2>1 DEF CountsOK
  <2>4. \A v \in Workers :
          worker'[v].pc \in {"load", "exchange"} => worker'[v].count # last_progress'
    <3>1. ASSUME NEW v \in Workers \ {w}, worker[v].pc \in {"load", "exchange"}
          PROVE  worker[v].count # count
      BY <1>1, <3>1 DEF CountsOK, Holds, count
    <3>. QED BY <1>1, <1>4, <3>1
  <2>5. \A v \in Workers : At(v, "exchange")' =>
          worker'[v].count >= worker'[v].prev + ReportStep \/ worker'[v].count = TotalFiles
    BY <1>1, <1>4 DEF CountsOK, At
  <2>6. {todo, indexed, errors, last_progress}' \subseteq 0 .. TotalFiles
        /\ indexed' + errors' <= TotalFiles - todo' /\ last_progress' <= indexed'
    BY <1>1, <1>5 DEF CountsOK
  <2>7. worker' \in [Workers -> WorkerRecord]
    BY <1>1, <1>4 DEF CountsOK
  <2>. QED BY <2>2, <2>3, <2>4, <2>5, <2>6, <2>7 DEF CountsOK
<1>7. ThrottleOK /\ ReportsOK
  BY DEF SessionIInv
<1>8. Reports("scan")' = Reports("scan") /\ scan_rx' = scan_rx
  BY <1>1, <1>2 DEF Reports
<1>9. w \notin Sending /\ Sending' = Sending \cup {w}
  BY <1>1, <1>4 DEF Sending, At
<1>10. /\ \A v \in Sending : worker[v].count \in Int /\ worker[v].count < count
       /\ \A i \in DOMAIN scan_rx : scan_rx[i] \in Int /\ scan_rx[i] < count
       /\ \A i \in Reports("scan") :
             notifications[i].count \in Int /\ notifications[i].count < count
  <2>1. \A v \in Workers : worker[v].count \in Int
    BY <1>1 DEF CountsOK, WorkerRecord
  <2>2. \A i \in Reports("scan") : notifications[i].count \in Int
    <3>1. ASSUME NEW i \in Reports("scan") PROVE notifications[i] \in Note
      BY <1>7 DEF ReportsOK, Reports
    <3>. QED BY <3>1 DEF Note
  <2>3. \A i \in DOMAIN scan_rx : scan_rx[i] \in Int
    BY <1>7 DEF ThrottleOK
  <2>. QED BY <1>5, <1>7, <2>1, <2>2, <2>3 DEF ThrottleOK, Sending
<1>11. Sent' = Sent + 1 /\ Sent \in Nat
  <2>1. Cardinality(Sending \cup {w}) = Cardinality(Sending) + 1
    BY <1>7, <1>9, SentType, FS_AddElement
  <2>2. Sent \in Nat /\ Cardinality(Sending) \in Nat /\ Cardinality(Reports("scan")) \in Nat
        /\ Len(scan_rx) \in Nat
    BY <1>7, SentType DEF ThrottleOK
  <2>3. Sent' = Cardinality(Sending) + 1 + Len(scan_rx) + Cardinality(Reports("scan"))
    BY <1>8, <1>9, <2>1 DEF Sent
  <2>. QED BY <2>2, <2>3 DEF Sent
<1>12. \/ Sent' * ReportStep <= last_progress'
       \/ last_progress' = TotalFiles /\ (Sent' - 1) * ReportStep <= TotalFiles
  <2>1. PICK n \in Nat : n = Sent
    BY <1>11
  <2>2. Sent' = n + 1 /\ Sent' - 1 = n
    BY <1>11, <2>1
  <2>3. (n + 1) * ReportStep = n * ReportStep + ReportStep /\ n * ReportStep \in Int
    BY OneMore
  <2>4. n * ReportStep <= last_progress
    BY <1>5, <1>7, <2>1 DEF ThrottleOK
  <2>. QED BY <1>1, <1>5, <2>2, <2>3, <2>4
<1>13. ThrottleOK'
  <2>1. \A v \in Sending' : worker'[v].count <= last_progress'
    BY <1>1, <1>4, <1>5, <1>9, <1>10
  <2>2. \A i \in DOMAIN scan_rx' : scan_rx'[i] <= last_progress'
    BY <1>1, <1>5, <1>8, <1>10
  <2>3. \A i \in Reports("scan")' : notifications'[i].count <= last_progress'
    BY <1>1, <1>2, <1>5, <1>8, <1>10
  <2>4. \A v \in Sending', i \in DOMAIN scan_rx' : worker'[v].count # scan_rx'[i]
    BY <1>4, <1>5, <1>7, <1>8, <1>9, <1>10 DEF ThrottleOK
  <2>5. \A v \in Sending', i \in Reports("scan")' : worker'[v].count # notifications'[i].count
    BY <1>2, <1>4, <1>5, <1>7, <1>8, <1>9, <1>10 DEF ThrottleOK
  <2>. QED BY <1>2, <1>7, <1>8, <1>12, <2>1, <2>2, <2>3, <2>4, <2>5 DEF ThrottleOK
<1>. QED BY <1>6, <1>13

LEMMA ExchangeKeeps ==
    ASSUME SessionIInv, NEW w \in Workers, Exchange(w)
    PROVE  SessionIInv'
<1>1. CountsOK' /\ ThrottleOK'
  BY LostExchange, WonExchange
<1>2. /\ ScanKeeps /\ CountsOK /\ worker[w].pc = "exchange"
      /\ Moves(w, "take") \/ Moves(w, "send")
      /\ UNCHANGED <<cache_opened, todo, indexed, errors, scan_rx, panics, task, forwarder>>
  BY DEF Exchange, At, SessionIInv, ScanKeeps, task_vars
<1>3. task \notin Early /\ task # "report" /\ forwarder = "off" /\ cache_opened = TRUE
  BY <1>2, ScanPhase
<1>4. CacheOK' /\ \A v \in Workers : At(v, "gone")' => At(v, "gone")
  <2>1. worker'[w].pc \notin {"gone", "off"} /\ \A v \in Workers \ {w} : worker'[v] = worker[v]
    <3>1. CASE Moves(w, "take")
      BY <1>2, <3>1, MovesTo
    <3>2. CASE Moves(w, "send")
      BY <1>2, <3>2, MovesTo
    <3>. QED BY <1>2, <3>1, <3>2
  <2>2. CacheOK'
    BY <1>2, <1>3, <2>1, CacheKeeps DEF SessionIInv, FilesOK
  <2>. QED BY <2>1, <2>2 DEF At
<1>5. FilesOK'
  BY <1>2, <1>3, <1>4 DEF SessionIInv, FilesOK
<1>6. panics' \in 0 .. MaxPanics /\ (panics' = 0 => panics = 0)
  BY <1>2 DEF SessionIInv, TaskOK
<1>. QED BY <1>1, <1>2, <1>5, <1>6, ScannerLeaves DEF SessionIInv

\* The count goes from the thread into the channel.
LEMMA SendScanThrottled ==
    ASSUME SessionIInv, NEW w \in Workers, SendScan(w)
    PROVE  ThrottleOK'
<1>. USE Constants
<1>. DEFINE count == worker[w].count
<1>1. /\ CountsOK /\ ThrottleOK /\ ReportsOK /\ w \in Sending /\ Moves(w, "take")
      /\ scan_rx' = Append(scan_rx, count)
      /\ UNCHANGED <<last_progress, notifications>>
  BY DEF SessionIInv, SendScan, Sending, At, ScanKeeps, task_vars
<1>2. worker'[w].pc = "take" /\ \A v \in Workers \ {w} : worker'[v] = worker[v]
  BY <1>1, MovesTo
<1>3. Sending' = Sending \ {w} /\ \A v \in Sending' : worker'[v] = worker[v]
  BY <1>2 DEF Sending, At
<1>4. Reports("scan")' = Reports("scan")
  BY <1>1 DEF Reports
<1>5. count \in 1 .. TotalFiles /\ count <= last_progress
  <2>1. worker[w].count \in 0 .. TotalFiles /\ 1 <= worker[w].count
    BY <1>1 DEF CountsOK, Holds, Sending, At, WorkerRecord
  <2>. QED BY <1>1, <2>1 DEF ThrottleOK
<1>6. /\ \A v \in Sending' : worker[v].count # count
      /\ \A i \in DOMAIN scan_rx : scan_rx[i] # count
      /\ \A i \in Reports("scan") : notifications[i].count # count
  <2>1. \A v \in Sending' : worker[v].count # count
    BY <1>1, <1>3 DEF CountsOK, Holds, Sending, At
  <2>. QED BY <1>1, <2>1 DEF ThrottleOK
<1>. HIDE DEF count
<1>7. /\ scan_rx' \in Seq(1 .. TotalFiles) /\ Len(scan_rx') = Len(scan_rx) + 1
      /\ Len(scan_rx) \in Nat /\ DOMAIN scan_rx = 1 .. Len(scan_rx)
      /\ DOMAIN scan_rx' = 1 .. Len(scan_rx) + 1
      /\ \A i \in DOMAIN scan_rx : scan_rx'[i] = scan_rx[i]
      /\ scan_rx'[Len(scan_rx) + 1] = count
  <2>1. scan_rx \in Seq(1 .. TotalFiles)
    BY <1>1 DEF ThrottleOK
  <2>. QED BY <1>1, <1>5, <2>1
<1>8. \A i \in DOMAIN scan_rx' : i \in DOMAIN scan_rx \/ i = Len(scan_rx) + 1
  BY <1>7
<1>9. Sent' = Sent
  <2>1. /\ Cardinality(Sending \ {w}) = Cardinality(Sending) - 1
        /\ Cardinality(Sending) \in Nat /\ Cardinality(Reports("scan")) \in Nat
    BY <1>1, SentType, FS_RemoveElement
  <2>. QED BY <1>3, <1>4, <1>7, <2>1 DEF Sent
<1>10. \A v \in Sending' : worker'[v].count <= last_progress'
  BY <1>1, <1>3 DEF ThrottleOK
<1>11. \A i \in DOMAIN scan_rx' : scan_rx'[i] <= last_progress'
  BY <1>1, <1>5, <1>7, <1>8 DEF ThrottleOK
<1>12. \A v \in Sending', i \in DOMAIN scan_rx' : worker'[v].count # scan_rx'[i]
  BY <1>1, <1>3, <1>6, <1>7, <1>8 DEF ThrottleOK
<1>13. \A v \in Sending', i \in Reports("scan")' : worker'[v].count # notifications'[i].count
  BY <1>1, <1>3, <1>4 DEF ThrottleOK
<1>14. \A i, j \in DOMAIN scan_rx' : scan_rx'[i] = scan_rx'[j] => i = j
  BY <1>1, <1>6, <1>7, <1>8 DEF ThrottleOK
<1>15. \A i \in DOMAIN scan_rx', j \in Reports("scan")' : scan_rx'[i] # notifications'[j].count
  BY <1>1, <1>4, <1>6, <1>7, <1>8 DEF ThrottleOK
<1>. QED
  BY <1>1, <1>4, <1>7, <1>9, <1>10, <1>11, <1>12, <1>13, <1>14, <1>15 DEF ThrottleOK

LEMMA SendScanKeeps ==
    ASSUME SessionIInv, NEW w \in Workers, SendScan(w)
    PROVE  SessionIInv'
<1>1. /\ CountsOK /\ worker[w].pc = "send" /\ Moves(w, "take") /\ ScanKeeps
      /\ UNCHANGED <<cache_opened, todo, indexed, errors, last_progress, panics, task, forwarder>>
  BY DEF SessionIInv, SendScan, At, ScanKeeps, task_vars
<1>2. PICK r : r = worker'[w]
  OBVIOUS
<1>3. /\ worker' = [worker EXCEPT ![w] = r] /\ r \in WorkerRecord
      /\ r.pc = "take" /\ worker'[w] = r /\ \A v \in Workers \ {w} : worker'[v] = worker[v]
  BY <1>1, <1>2, MovesTo
<1>4. CountsOK'
  <2>1. UNCHANGED <<indexed, errors, last_progress>> /\ todo' \in 0 .. TotalFiles
        /\ indexed + errors <= TotalFiles - todo'
    BY <1>1 DEF CountsOK
  <2>2. r.pc \in {"take", "gone"} \/ (Holds(w) /\ r.count = worker[w].count)
    BY <1>3
  <2>3. r.pc \in {"load", "exchange"} => r.count # last_progress
    BY <1>3
  <2>4. r.pc = "exchange" => r.count >= r.prev + ReportStep \/ r.count = TotalFiles
    BY <1>3
  <2>. QED BY <1>1, <1>3, <2>1, <2>2, <2>3, <2>4, CountsMove
<1>5. FilesOK'
  <2>1. task \notin Early /\ task # "report" /\ forwarder = "off" /\ cache_opened = TRUE
    BY <1>1, ScanPhase
  <2>2. \A v \in Workers : At(v, "gone")' => At(v, "gone")
    BY <1>3 DEF At
  <2>3. CacheOK'
    BY <1>1, <1>3, <2>1, CacheKeeps DEF SessionIInv, FilesOK
  <2>. QED BY <1>1, <2>1, <2>2, <2>3 DEF SessionIInv, FilesOK
<1>6. panics' \in 0 .. MaxPanics /\ (panics' = 0 => panics = 0)
  BY <1>1 DEF SessionIInv, TaskOK
<1>. QED BY <1>1, <1>4, <1>5, <1>6, SendScanThrottled, ScannerLeaves DEF SessionIInv

LEMMA ScannerKeeps ==
    ASSUME SessionIInv, NEW w \in Workers, Scanner(w)
    PROVE  SessionIInv'
BY TakeFileKeeps, FailFileKeeps, StopKeeps, LoadLastKeeps, ExchangeKeeps, SendScanKeeps DEF Scanner

-----------------------------------------------------------------------------
(* What a notification changes. *)

LEMMA Ranks ==
    ASSUME NEW n \in Note
    PROVE  /\ Rank(n) \in 1 .. 5
           /\ Rank(n) = 1 <=> n.stage = "begin"
           /\ Rank(n) = 2 <=> n.stage = "scan"
           /\ Rank(n) = 3 <=> n.stage = "report"
           /\ Rank(n) = 4 <=> n.stage = "package"
           /\ Rank(n) = 5 <=> n.stage = "end"
BY DEF Rank, Note

\* The list with one more.
LEMMA Appended ==
    ASSUME NEW s \in Seq(Note), NEW n \in Note
    PROVE  /\ Append(s, n) \in Seq(Note) /\ Len(s) \in Nat /\ DOMAIN s = 1 .. Len(s)
           /\ DOMAIN Append(s, n) = 1 .. Len(s) + 1
           /\ \A i \in 1 .. Len(s) + 1 : i \in 1 .. Len(s) \/ i = Len(s) + 1
           /\ \A i \in 1 .. Len(s) : Append(s, n)[i] = s[i]
           /\ Append(s, n)[Len(s) + 1] = n
           /\ Append(s, n) # <<>>
           /\ s # <<>> => Head(Append(s, n)) = Head(s)
           /\ s = <<>> => Head(Append(s, n)) = n
<1>1. /\ Append(s, n) \in Seq(Note) /\ Len(s) \in Nat /\ DOMAIN s = 1 .. Len(s)
      /\ DOMAIN Append(s, n) = 1 .. Len(s) + 1
      /\ \A i \in 1 .. Len(s) : Append(s, n)[i] = s[i]
      /\ Append(s, n)[Len(s) + 1] = n
      /\ Append(s, n) # <<>>
  OBVIOUS
<1>2. \A i \in 1 .. Len(s) + 1 : i \in 1 .. Len(s) \/ i = Len(s) + 1
  BY <1>1
<1>3. s # <<>> => Head(Append(s, n)) = Head(s)
  <2>1. ASSUME s # <<>> PROVE 1 \in 1 .. Len(s)
    BY <2>1
  <2>. QED BY <1>1, <2>1
<1>4. s = <<>> => Head(Append(s, n)) = n
  OBVIOUS
<1>. QED BY <1>1, <1>2, <1>3, <1>4

\* A notification whose turn it is.
LEMMA NotifyReports ==
    ASSUME ReportsOK, NEW n \in Note, Notify(n), progress_supported' = progress_supported,
           NEW low \in 0 .. 5, NEW high \in 1 .. 5, Level = low, Level' = high,
           low <= Rank(n), Rank(n) <= high,
           low = 0 <=> n.stage = "begin",
           Rank(n) > low \/ n.stage \in {"scan", "package"}
    PROVE  ReportsOK'
<1>1. /\ notifications \in Seq(Note) /\ ProgressWellFormed
      /\ \A i \in DOMAIN notifications : Rank(notifications[i]) <= low
      /\ low = 0 => notifications = <<>>
      /\ progress_supported /\ low > 0 => notifications # <<>>
  BY DEF ReportsOK
<1>2. CASE ~progress_supported
  <2>1. notifications = <<>> /\ notifications' = <<>>
    BY <1>1, <1>2 DEF Notify, ProgressWellFormed
  <2>2. ProgressWellFormed'
    BY <2>1 DEF ProgressWellFormed
  <2>. QED BY <1>2, <2>1, <2>2 DEF ReportsOK
<1>3. CASE progress_supported
  <2>1. notifications' = Append(notifications, n)
    BY <1>3 DEF Notify
  <2>. DEFINE k == Len(notifications)
  <2>2. /\ notifications' \in Seq(Note) /\ k \in Nat /\ DOMAIN notifications = 1 .. k
        /\ DOMAIN notifications' = 1 .. k + 1
        /\ \A i \in 1 .. k + 1 : i \in 1 .. k \/ i = k + 1
        /\ \A i \in 1 .. k : notifications'[i] = notifications[i]
        /\ notifications'[k + 1] = n
        /\ notifications' # <<>>
        /\ notifications # <<>> => Head(notifications') = Head(notifications)
        /\ notifications = <<>> => Head(notifications') = n
    BY <1>1, <2>1, Appended
  <2>. HIDE DEF k
  <2>3. Head(notifications').stage = "begin"
    BY <1>1, <1>3, <2>2 DEF ProgressWellFormed
  <2>4. \A i \in 1 .. k : notifications[i] \in Note /\ Rank(notifications[i]) \in 1 .. 5
    BY <1>1, <2>2, Ranks
  <2>5. Rank(n) \in 1 .. 5
    BY Ranks
  <2>6. \A i \in 1 .. k + 1 : Rank(notifications'[i]) <= high
    BY <1>1, <2>2, <2>4, <2>5
  <2>7. ASSUME NEW i \in 1 .. k + 1, NEW j \in 1 .. k + 1, i < j
        PROVE  /\ Rank(notifications'[i]) <= Rank(notifications'[j])
               /\ notifications'[i].stage = notifications'[j].stage =>
                     notifications'[i].stage \in {"scan", "package"}
    <3>1. i \in 1 .. k /\ notifications'[i] = notifications[i]
      BY <2>2, <2>7
    <3>2. CASE j \in 1 .. k
      BY <1>1, <2>2, <2>7, <3>1, <3>2 DEF ProgressWellFormed
    <3>3. CASE j = k + 1
      <4>1. Rank(notifications[i]) <= low /\ Rank(notifications[i]) \in 1 .. 5
        BY <1>1, <2>2, <2>4, <3>1
      <4>2. Rank(notifications[i]) <= Rank(n)
        BY <2>5, <4>1
      <4>3. ASSUME notifications[i].stage = n.stage PROVE Rank(notifications[i]) = Rank(n)
        BY <4>3 DEF Rank
      <4>4. notifications[i].stage = n.stage => n.stage \in {"scan", "package"}
        BY <2>5, <4>1, <4>3
      <4>. QED BY <2>2, <3>1, <3>3, <4>2, <4>4
    <3>. QED BY <2>2, <3>2, <3>3
  <2>8. ProgressWellFormed'
    BY <1>3, <2>2, <2>3, <2>7 DEF ProgressWellFormed
  <2>. QED BY <2>2, <2>6, <2>8 DEF ReportsOK
<1>. QED BY <1>2, <1>3

LEMMA NotifyOther ==
    ASSUME ReportsOK, NEW n \in Note, Notify(n), NEW stage, n.stage # stage
    PROVE  /\ Reports(stage)' = Reports(stage)
           /\ \A i \in Reports(stage) : notifications'[i] = notifications[i]
<1>1. notifications \in Seq(Note)
  BY DEF ReportsOK
<1>2. CASE notifications' = notifications
  BY <1>2 DEF Reports
<1>3. CASE notifications' = Append(notifications, n)
  BY <1>1, <1>3, Appended DEF Reports
<1>. QED BY <1>2, <1>3 DEF Notify

LEMMA NotifySame ==
    ASSUME ReportsOK, NEW n \in Note, Notify(n), progress_supported, NEW stage, n.stage = stage
    PROVE  /\ Reports(stage)' = Reports(stage) \cup {Len(notifications) + 1}
           /\ notifications'[Len(notifications) + 1] = n
           /\ \A i \in Reports(stage) : /\ notifications'[i] = notifications[i]
                                        /\ i \in Nat /\ i < Len(notifications) + 1
<1>1. notifications \in Seq(Note) /\ notifications' = Append(notifications, n)
  BY DEF ReportsOK, Notify
<1>. DEFINE k == Len(notifications)
<1>2. /\ k \in Nat /\ DOMAIN notifications = 1 .. k
      /\ DOMAIN notifications' = 1 .. k + 1
      /\ \A i \in 1 .. k + 1 : i \in 1 .. k \/ i = k + 1
      /\ \A i \in 1 .. k : notifications'[i] = notifications[i]
      /\ notifications'[k + 1] = n
  BY <1>1, Appended
<1>. HIDE DEF k
<1>3. k + 1 \in 1 .. k + 1 /\ \A i \in 1 .. k : i \in Nat /\ i < k + 1
  BY <1>2
<1>4. \A i \in Reports(stage) : i \in 1 .. k
  BY <1>2 DEF Reports
<1>5. Reports(stage)' = Reports(stage) \cup {k + 1}
  BY <1>2, <1>3 DEF Reports
<1>. QED BY <1>2, <1>3, <1>4, <1>5 DEF k

LEMMA ThrottleNotify ==
    ASSUME ThrottleOK, ReportsOK, NEW n \in Note, Notify(n), n.stage # "scan",
           UNCHANGED <<scan_rx, last_progress>>, Sending' = Sending,
           \A w \in Sending : worker'[w] = worker[w]
    PROVE  ThrottleOK'
<1>1. /\ Reports("scan")' = Reports("scan")
      /\ \A i \in Reports("scan") : notifications'[i] = notifications[i]
  BY NotifyOther
<1>2. Sent' = Sent
  BY <1>1 DEF Sent
<1>. QED BY <1>1, <1>2 DEF ThrottleOK

LEMMA PackagesNotify ==
    ASSUME PackagesOK, ReportsOK, NEW n \in Note, Notify(n), n.stage # "package",
           UNCHANGED <<packages, total, progress_rx, progress_supported>>
    PROVE  PackagesOK'
<1>1. /\ Reports("package")' = Reports("package")
      /\ \A i \in Reports("package") : notifications'[i] = notifications[i]
  BY NotifyOther
<1>2. Through' = Through
  BY DEF Through
<1>. QED BY <1>1, <1>2 DEF PackagesOK

-----------------------------------------------------------------------------
(* The task's steps. *)

LEMMA Levels ==
    /\ task \in Early => Level = 0
    /\ task \in {"scan", "report"} => Level = 2
    /\ task \in Passing \cup {"end"} => Level = 4
    /\ task = "ended" => Level = 5
BY DEF Level, Early, Passing

\* What a step of the task leaves alone.
LEMMA TaskLeaves ==
    ASSUME SessionIInv, TaskKeeps
    PROVE  /\ QueueOK' /\ NoneLost' /\ CountsOK' /\ panics' \in 0 .. MaxPanics
           /\ UNCHANGED <<cache_opened, todo, indexed, errors, last_progress, worker, progress_rx, total, panics>>
           /\ UNCHANGED <<pc, done, packages, workspace_root>>
<1>1. UNCHANGED <<vars, scan_vars, progress_rx, total, panics>>
  BY DEF TaskKeeps
<1>2. QueueOK' /\ NoneLost' /\ CountsOK'
  BY <1>1, QueueStays, NoneLostStays, CountsStay DEF SessionIInv
<1>3. UNCHANGED <<pc, done, packages, workspace_root>>
      /\ UNCHANGED <<cache_opened, todo, indexed, errors, last_progress, worker, progress_rx, total, panics>>
  BY <1>1 DEF vars, scan_vars
<1>4. panics' \in 0 .. MaxPanics
  BY <1>3 DEF SessionIInv, TaskOK
<1>. QED BY <1>2, <1>3, <1>4

\* A step that tells the client nothing.
LEMMA QuietKeeps ==
    ASSUME SessionIInv, TaskKeeps, UNCHANGED <<progress_supported, notifications, scan_rx>>,
           Level' = Level, TaskOK', FilesOK'
    PROVE  SessionIInv'
<1>1. /\ QueueOK' /\ NoneLost' /\ CountsOK'
      /\ UNCHANGED <<scan_vars, progress_rx, total, packages>>
  BY TaskLeaves DEF scan_vars
<1>2. ReportsOK'
  BY ReportsStay DEF SessionIInv
<1>3. PackagesOK'
  BY <1>1, PackagesStay DEF SessionIInv
<1>4. ThrottleOK'
  BY <1>1, ThrottleStays DEF SessionIInv
<1>. QED BY <1>1, <1>2, <1>3, <1>4 DEF SessionIInv

\* Where the task goes, and what its invariant needs there.
LEMMA TaskGoes ==
    ASSUME SessionIInv, TaskKeeps, UNCHANGED <<progress_supported, forwarder>>,
           NEW from, NEW to, MoveTo(from, to),
           \/ <<from, to>> = <<"initialize", "create">> /\ done[lsp] = 1
           \/ <<from, to>> = <<"begin", "scan">>
           \/ <<from, to>> = <<"scan", "report">>
           \/ <<from, to>> = <<"join_index", "join_forwarder">>
           \/ <<from, to>> = <<"join_forwarder", "end">> /\ forwarder = "gone"
           \/ <<from, to>> = <<"end", "ended">>
    PROVE  TaskOK'
<1>1. /\ UNCHANGED <<progress_rx, pc, done, workspace_root, panics>>
      /\ panics' \in 0 .. MaxPanics
  BY TaskLeaves
<1>2. TaskOK /\ task = from /\ task' = to
  BY DEF SessionIInv, MoveTo
<1>3. PassDone' <=> PassDone
  BY <1>1 DEF PassDone
<1>. QED
  BY <1>1, <1>2, <1>3 DEF TaskOK, Early, Passing, Rootless

LEMMA InitializedKeeps ==
    ASSUME SessionIInv, Initialized
    PROVE  SessionIInv'
<1>1. /\ TaskKeeps /\ UNCHANGED <<progress_supported, notifications, scan_rx, forwarder>>
      /\ MoveTo("initialize", "create") /\ done[lsp] = 1
  BY DEF Initialized
<1>2. TaskOK'
  BY <1>1, TaskGoes
<1>3. task \in Early /\ task' \in Early
  BY <1>1 DEF MoveTo, Early
<1>4. Level' = Level
  BY <1>3 DEF Level, Early, Passing
<1>5. FilesOK'
  BY <1>1, <1>3, TaskLeaves DEF SessionIInv, FilesOK, CacheOK, ScanDone, At, Early
<1>. QED BY <1>1, <1>2, <1>4, <1>5, QuietKeeps

LEMMA LeaveScanKeeps ==
    ASSUME SessionIInv, LeaveScan
    PROVE  SessionIInv'
<1>1. /\ TaskKeeps /\ UNCHANGED <<progress_supported, notifications, scan_rx, forwarder>>
      /\ MoveTo("scan", "report") /\ ScanDone /\ scan_rx = <<>>
  BY DEF LeaveScan
<1>2. TaskOK'
  BY <1>1, TaskGoes
<1>3. task = "scan" /\ task' = "report"
  BY <1>1 DEF MoveTo
<1>4. Level' = Level
  <2>1. Level' = 2
    BY <1>3 DEF Level, Early, Passing
  <2>. QED BY <1>3, <2>1, Levels
<1>5. FilesOK'
  BY <1>1, <1>3, TaskLeaves DEF SessionIInv, FilesOK, CacheOK, ScanDone, At, Early
<1>. QED BY <1>1, <1>2, <1>4, <1>5, QuietKeeps

LEMMA JoinKeeps ==
    ASSUME SessionIInv, JoinIndex \/ JoinForwarder
    PROVE  SessionIInv'
<1>1. /\ TaskKeeps /\ UNCHANGED <<progress_supported, notifications, scan_rx, forwarder>>
      /\ \/ MoveTo("join_index", "join_forwarder")
         \/ MoveTo("join_forwarder", "end") /\ forwarder = "gone"
  BY DEF JoinIndex, JoinForwarder
<1>2. TaskOK'
  BY <1>1, TaskGoes
<1>3. task \in Passing \cup {"end"} /\ task' \in Passing \cup {"end"}
  BY <1>1 DEF MoveTo, Passing
<1>4. Level' = Level
  <2>1. Level' = 4
    BY <1>3 DEF Level, Early, Passing
  <2>. QED BY <1>3, <2>1, Levels
<1>5. FilesOK'
  BY <1>1, <1>3, TaskLeaves DEF SessionIInv, FilesOK, CacheOK, ScanDone, At, Early, Passing
<1>. QED BY <1>1, <1>2, <1>4, <1>5, QuietKeeps

LEMMA ForwarderReturnsKeeps ==
    ASSUME SessionIInv, ForwarderReturns
    PROVE  SessionIInv'
<1>1. /\ TaskKeeps /\ UNCHANGED <<progress_supported, notifications, scan_rx, task>>
      /\ forwarder = "on" /\ forwarder' = "gone" /\ progress_rx = <<>> /\ PassDone
  BY DEF ForwarderReturns
<1>2. /\ UNCHANGED <<progress_rx, pc, done, workspace_root, panics>>
      /\ panics' \in 0 .. MaxPanics
  BY <1>1, TaskLeaves
<1>3. TaskOK /\ PassDone'
  BY <1>1, <1>2 DEF SessionIInv, PassDone
<1>4. TaskOK'
  BY <1>1, <1>2, <1>3 DEF TaskOK, Early, Passing, Rootless
<1>5. Level' = Level
  BY <1>1 DEF Level
<1>6. FilesOK'
  BY <1>1, TaskLeaves DEF SessionIInv, FilesOK, CacheOK, ScanDone, At
<1>. QED BY <1>1, <1>4, <1>5, <1>6, QuietKeeps

LEMMA NoRootKeeps ==
    ASSUME SessionIInv, NoRoot
    PROVE  SessionIInv'
<1>1. /\ TaskKeeps /\ UNCHANGED <<progress_supported, notifications, scan_rx, forwarder>>
      /\ task = "initialize" /\ task' = "ended" /\ ~workspace_root
  BY DEF NoRoot, MoveTo
<1>2. /\ UNCHANGED <<progress_rx, pc, done, workspace_root, panics>>
      /\ panics' \in 0 .. MaxPanics /\ QueueOK' /\ NoneLost' /\ CountsOK'
      /\ UNCHANGED <<cache_opened, todo, indexed, errors, last_progress, worker, total, packages>>
  BY <1>1, TaskLeaves
<1>3. TaskOK /\ forwarder = "off" /\ ~progress_supported
  BY <1>1 DEF SessionIInv, TaskOK, Early
<1>4. PassDone' <=> PassDone
  BY <1>2 DEF PassDone
<1>5. TaskOK'
  BY <1>1, <1>2, <1>3, <1>4 DEF TaskOK, Early, Passing, Rootless
<1>6. ReportsOK'
  <2>1. notifications = <<>>
    BY <1>3 DEF SessionIInv, ReportsOK, ProgressWellFormed
  <2>2. notifications' = <<>> /\ ~progress_supported'
    BY <1>1, <1>3, <2>1
  <2>3. ProgressWellFormed'
    BY <2>2 DEF ProgressWellFormed
  <2>. QED BY <2>2, <2>3 DEF ReportsOK
<1>7. PackagesOK'
  BY <1>1, <1>2, PackagesStay DEF SessionIInv
<1>8. FilesOK'
  BY <1>1, <1>2 DEF SessionIInv, FilesOK, CacheOK, ScanDone, At, Early
<1>9. ThrottleOK'
  BY <1>1, <1>2, ThrottleStays DEF SessionIInv, scan_vars
<1>. QED BY <1>2, <1>5, <1>6, <1>7, <1>8, <1>9 DEF SessionIInv

LEMMA ClientAnswersKeeps ==
    ASSUME SessionIInv, ClientAnswers
    PROVE  SessionIInv'
<1>1. /\ TaskKeeps /\ UNCHANGED <<notifications, scan_rx, forwarder>>
      /\ task = "create" /\ task' = "begin" /\ progress_supported' \in BOOLEAN
  BY DEF ClientAnswers, MoveTo
<1>2. /\ UNCHANGED <<progress_rx, pc, done, workspace_root, panics>>
      /\ panics' \in 0 .. MaxPanics /\ QueueOK' /\ NoneLost' /\ CountsOK'
      /\ UNCHANGED <<cache_opened, todo, indexed, errors, last_progress, worker, total, packages>>
  BY <1>1, TaskLeaves
<1>3. TaskOK /\ forwarder = "off" /\ done[lsp] = 1
      /\ pc[indexer] = "idle" /\ done[indexer] = 0 /\ progress_rx = <<>>
  BY <1>1 DEF SessionIInv, TaskOK, Early, Rootless
<1>4. TaskOK'
  <2>1. PassDone' <=> PassDone
    BY <1>2 DEF PassDone
  <2>. QED BY <1>1, <1>2, <1>3, <2>1 DEF TaskOK, Early, Passing, Rootless
<1>5. notifications = <<>> /\ notifications' = <<>>
  <2>1. task \in Early
    BY <1>1 DEF Early
  <2>2. Level = 0
    BY <2>1, Levels
  <2>. QED BY <1>1, <2>2 DEF SessionIInv, ReportsOK
<1>6. ReportsOK'
  <2>1. ProgressWellFormed'
    BY <1>5 DEF ProgressWellFormed
  <2>2. Level' = 0
    BY <1>1 DEF Level, Early, Passing
  <2>. QED BY <1>5, <2>1, <2>2 DEF ReportsOK
<1>7. PackagesOK'
  <2>1. packages[indexer] = <<>> /\ total = 0
    BY <1>3 DEF SessionIInv, QueueOK
  <2>2. Len(packages[indexer]) = 0 /\ 0 - 0 = 0
    BY <2>1
  <2>3. Through' = 0
    BY <1>2, <2>1, <2>2 DEF Through
  <2>4. Reports("package")' = {}
    BY <1>5 DEF Reports
  <2>5. progress_rx' = <<>> /\ total' = 0
    BY <1>2, <1>3, <2>1
  <2>6. Cardinality(Reports("package")') = 0
    BY <2>4, FS_EmptySet
  <2>. QED BY <2>3, <2>4, <2>5, <2>6 DEF PackagesOK
<1>8. FilesOK'
  BY <1>1, <1>2 DEF SessionIInv, FilesOK, CacheOK, ScanDone, At, Early
<1>9. ThrottleOK'
  BY <1>1, <1>2, ThrottleStays DEF SessionIInv, scan_vars
<1>. QED BY <1>2, <1>4, <1>6, <1>7, <1>8, <1>9 DEF SessionIInv

LEMMA Notes ==
    ASSUME NEW stage \in {"begin", "scan", "report", "package", "end"}, NEW count \in Nat
    PROVE  [stage |-> stage, count |-> count] \in Note
BY DEF Note

LEMMA BeginKeeps ==
    ASSUME SessionIInv, Begin
    PROVE  SessionIInv'
<1>1. PICK n : n = [stage |-> "begin", count |-> 0]
  OBVIOUS
<1>2. /\ TaskKeeps /\ MoveTo("begin", "scan") /\ task = "begin" /\ task' = "scan" /\ Notify(n)
      /\ UNCHANGED <<progress_supported, scan_rx, forwarder>>
  BY <1>1 DEF Begin, MoveTo
<1>3. n \in Note /\ n.stage = "begin" /\ Rank(n) = 1
  <2>1. n \in Note
    BY <1>1, Notes
  <2>. QED BY <1>1, <2>1, Ranks
<1>4. task \in Early /\ Level = 0 /\ Level' = 2
  <2>1. task \in Early
    BY <1>2 DEF Early
  <2>. QED BY <1>2, <2>1, Levels DEF Level, Early, Passing
<1>5. /\ QueueOK' /\ NoneLost' /\ CountsOK' /\ UNCHANGED panics
      /\ UNCHANGED <<cache_opened, todo, indexed, errors, last_progress, worker, total, packages, progress_rx>>
  BY <1>2, TaskLeaves
<1>6. TaskOK'
  BY <1>2, TaskGoes
<1>7. ReportsOK'
  <2>1. 0 \in 0 .. 5 /\ 2 \in 1 .. 5 /\ 0 <= 1 /\ 1 <= 2 /\ 1 > 0
    OBVIOUS
  <2>. QED BY <1>2, <1>3, <1>4, <2>1, NotifyReports DEF SessionIInv
<1>8. PackagesOK'
  BY <1>2, <1>3, <1>5, PackagesNotify DEF SessionIInv
<1>9. FilesOK'
  <2>1. forwarder = "off"
    BY <1>2 DEF SessionIInv, TaskOK, Early
  <2>. QED BY <1>2, <1>5, <2>1 DEF SessionIInv, FilesOK, CacheOK, ScanDone, At, Early
<1>10. ThrottleOK'
  <2>1. Sending' = Sending /\ \A w \in Sending : worker'[w] = worker[w]
    BY <1>5 DEF Sending, At
  <2>. QED BY <1>2, <1>3, <1>5, <2>1, ThrottleNotify DEF SessionIInv
<1>. QED BY <1>5, <1>6, <1>7, <1>8, <1>9, <1>10 DEF SessionIInv

\* The scan's threads start, or the scan returns without them.
LEMMA OpenCacheKeeps ==
    ASSUME SessionIInv, OpenCache
    PROVE  SessionIInv'
<1>. USE Constants
<1>. DEFINE label == IF cache_opened' THEN "take" ELSE "gone"
<1>1. /\ task = "scan" /\ cache_opened' \in BOOLEAN /\ ScanKeeps
      /\ UNCHANGED <<todo, indexed, errors, last_progress, scan_rx, panics, task, forwarder, notifications>>
      /\ \A w \in Workers : worker[w].pc = "off"
      /\ worker' = [w \in Workers |-> [pc |-> label, count |-> 0, prev |-> 0]]
  BY DEF OpenCache, ScanKeeps, task_vars, At, IdleWorker
<1>2. label \in {"take", "gone"} /\ (cache_opened' <=> label = "take")
  BY <1>1
<1>. HIDE DEF label
<1>3. worker' \in [Workers -> WorkerRecord] /\ \A w \in Workers : worker'[w].pc = label
  BY <1>1, <1>2 DEF WorkerRecord
<1>4. CountsOK /\ FilesOK
  BY DEF SessionIInv
<1>5. CountsOK'
  BY <1>1, <1>2, <1>3, <1>4 DEF CountsOK, Holds, At
<1>6. /\ task \notin Early /\ task # "report" /\ forwarder = "off"
      /\ ~cache_opened /\ todo = TotalFiles /\ indexed = 0 /\ errors = 0
  BY <1>1, <1>4 DEF FilesOK, CacheOK, ScanDone, At, Early
<1>7. FilesOK'
  BY <1>1, <1>2, <1>3, <1>6 DEF FilesOK, CacheOK, At
<1>8. ThrottleOK'
  <2>1. Sending' = Sending /\ \A v \in Sending : worker'[v] = worker[v]
    BY <1>1, <1>2, <1>3 DEF Sending, At
  <2>. QED BY <1>1, <2>1, ThrottleKeeps DEF SessionIInv
<1>9. panics' \in 0 .. MaxPanics /\ (panics' = 0 => panics = 0)
  BY <1>1 DEF SessionIInv, TaskOK
<1>. QED BY <1>1, <1>5, <1>7, <1>8, <1>9, ScannerLeaves DEF SessionIInv

LEMMA SpawnPassKeeps ==
    ASSUME SessionIInv, SpawnPass
    PROVE  SessionIInv'
<1>1. PICK n : n = [stage |-> "report", count |-> 0]
  OBVIOUS
<1>2. /\ TaskKeeps /\ task = "report" /\ task' = "join_index" /\ Notify(n)
      /\ forwarder' = "on" /\ UNCHANGED <<progress_supported, scan_rx>>
  BY <1>1 DEF SpawnPass, MoveTo
<1>3. n \in Note /\ n.stage = "report" /\ Rank(n) = 3
  <2>1. n \in Note
    BY <1>1, Notes
  <2>. QED BY <1>1, <2>1, Ranks
<1>4. Level = 2 /\ Level' = 4
  BY <1>2, Levels DEF Level, Early, Passing
<1>5. /\ UNCHANGED <<progress_rx, pc, done, workspace_root, panics>>
      /\ panics' \in 0 .. MaxPanics /\ QueueOK' /\ NoneLost' /\ CountsOK'
      /\ UNCHANGED <<cache_opened, todo, indexed, errors, last_progress, worker, total, packages>>
  BY <1>2, TaskLeaves
<1>6. TaskOK'
  <2>1. TaskOK
    BY DEF SessionIInv
  <2>. QED BY <1>2, <1>5, <2>1 DEF TaskOK, Early, Passing, Rootless
<1>7. ReportsOK'
  <2>1. 2 \in 0 .. 5 /\ 4 \in 1 .. 5 /\ 2 <= 3 /\ 3 <= 4 /\ 3 > 2 /\ 2 # 0
    OBVIOUS
  <2>. QED BY <1>2, <1>3, <1>4, <2>1, NotifyReports DEF SessionIInv
<1>8. PackagesOK'
  BY <1>2, <1>3, <1>5, PackagesNotify DEF SessionIInv
<1>9. FilesOK'
  BY <1>2, <1>5 DEF SessionIInv, FilesOK, CacheOK, ScanDone, At, Early
<1>10. ThrottleOK'
  <2>1. Sending' = Sending /\ \A w \in Sending : worker'[w] = worker[w]
    BY <1>5 DEF Sending, At
  <2>. QED BY <1>2, <1>3, <1>5, <2>1, ThrottleNotify DEF SessionIInv
<1>. QED BY <1>5, <1>6, <1>7, <1>8, <1>9, <1>10 DEF SessionIInv

LEMMA EndKeeps ==
    ASSUME SessionIInv, End
    PROVE  SessionIInv'
<1>1. PICK n : n = [stage |-> "end", count |-> 0]
  OBVIOUS
<1>2. /\ TaskKeeps /\ MoveTo("end", "ended") /\ task = "end" /\ task' = "ended" /\ Notify(n)
      /\ UNCHANGED <<progress_supported, scan_rx, forwarder>>
  BY <1>1 DEF End, MoveTo
<1>3. n \in Note /\ n.stage = "end" /\ Rank(n) = 5
  <2>1. n \in Note
    BY <1>1, Notes
  <2>. QED BY <1>1, <2>1, Ranks
<1>4. Level = 4 /\ Level' = 5
  BY <1>2, Levels DEF Level, Early, Passing
<1>5. /\ QueueOK' /\ NoneLost' /\ CountsOK' /\ UNCHANGED panics
      /\ UNCHANGED <<cache_opened, todo, indexed, errors, last_progress, worker, total, packages, progress_rx>>
  BY <1>2, TaskLeaves
<1>6. TaskOK'
  BY <1>2, TaskGoes
<1>7. ReportsOK'
  <2>1. 4 \in 0 .. 5 /\ 5 \in 1 .. 5 /\ 4 <= 5 /\ 5 <= 5 /\ 5 > 4 /\ 4 # 0
    OBVIOUS
  <2>. QED BY <1>2, <1>3, <1>4, <2>1, NotifyReports DEF SessionIInv
<1>8. PackagesOK'
  BY <1>2, <1>3, <1>5, PackagesNotify DEF SessionIInv
<1>9. FilesOK'
  BY <1>2, <1>5 DEF SessionIInv, FilesOK, CacheOK, ScanDone, At, Early
<1>10. ThrottleOK'
  <2>1. Sending' = Sending /\ \A w \in Sending : worker'[w] = worker[w]
    BY <1>5 DEF Sending, At
  <2>. QED BY <1>2, <1>3, <1>5, <2>1, ThrottleNotify DEF SessionIInv
<1>. QED BY <1>5, <1>6, <1>7, <1>8, <1>9, <1>10 DEF SessionIInv

-----------------------------------------------------------------------------
(* What goes from a channel to the client. *)

LEMMA TailOf ==
    ASSUME NEW S, NEW s \in Seq(S), s # <<>>
    PROVE  /\ Head(s) = s[1] /\ Tail(s) \in Seq(S)
           /\ Len(s) \in Nat /\ Len(s) >= 1 /\ Len(Tail(s)) = Len(s) - 1
           /\ DOMAIN s = 1 .. Len(s) /\ DOMAIN Tail(s) = 1 .. Len(s) - 1
           /\ \A i \in 1 .. Len(s) - 1 : Tail(s)[i] = s[i + 1] /\ i + 1 \in 1 .. Len(s)
           /\ 1 \in 1 .. Len(s)
OBVIOUS

\* The report leaves the channel for the client, or is dropped.
LEMMA ForwardScanThrottled ==
    ASSUME SessionIInv, ForwardScan
    PROVE  ThrottleOK'
<1>. USE Constants
<1>1. PICK n : n = [stage |-> "scan", count |-> Head(scan_rx)]
  OBVIOUS
<1>2. /\ scan_rx # <<>> /\ scan_rx' = Tail(scan_rx) /\ Notify(n)
      /\ UNCHANGED <<worker, last_progress, progress_supported>>
      /\ ThrottleOK /\ ReportsOK /\ CountsOK
  BY <1>1 DEF ForwardScan, TaskKeeps, scan_vars, SessionIInv
<1>3. scan_rx \in Seq(1 .. TotalFiles)
  BY <1>2 DEF ThrottleOK
<1>. DEFINE k == Len(scan_rx)
            m == Len(notifications) + 1
<1>4. /\ Head(scan_rx) = scan_rx[1] /\ scan_rx' \in Seq(1 .. TotalFiles)
      /\ k \in Nat /\ k >= 1 /\ Len(scan_rx') = k - 1
      /\ DOMAIN scan_rx = 1 .. k /\ DOMAIN scan_rx' = 1 .. k - 1
      /\ \A i \in 1 .. k - 1 : scan_rx'[i] = scan_rx[i + 1] /\ i + 1 \in 1 .. k
      /\ 1 \in 1 .. k /\ scan_rx[1] \in 1 .. TotalFiles
  BY <1>2, <1>3, TailOf
<1>. HIDE DEF k
<1>5. n.stage = "scan" /\ n.count = scan_rx[1] /\ n \in Note
  <2>1. n = [stage |-> "scan", count |-> scan_rx[1]] /\ scan_rx[1] \in Nat
    BY <1>1, <1>4
  <2>. QED BY <2>1 DEF Note
<1>6. Sending' = Sending
  BY <1>2 DEF Sending, At
<1>7. \A i \in DOMAIN scan_rx' : scan_rx'[i] <= last_progress'
  BY <1>2, <1>4 DEF ThrottleOK
<1>8. \A w \in Sending', i \in DOMAIN scan_rx' : worker'[w].count # scan_rx'[i]
  BY <1>2, <1>4, <1>6 DEF ThrottleOK
<1>9. \A i, j \in DOMAIN scan_rx' : scan_rx'[i] = scan_rx'[j] => i = j
  <2>1. ASSUME NEW i \in 1 .. k - 1, NEW j \in 1 .. k - 1, scan_rx'[i] = scan_rx'[j]
        PROVE  i = j
    <3>1. i + 1 = j + 1
      BY <1>2, <1>4, <2>1 DEF ThrottleOK
    <3>. QED BY <1>4, <3>1
  <2>. QED BY <1>4, <2>1
<1>10. \A i \in DOMAIN scan_rx' : scan_rx'[i] # n.count
  <2>1. ASSUME NEW i \in 1 .. k - 1 PROVE scan_rx[i + 1] # scan_rx[1]
    <3>1. i + 1 # 1 /\ i + 1 \in DOMAIN scan_rx /\ 1 \in DOMAIN scan_rx
      BY <1>4
    <3>. QED BY <1>2, <3>1 DEF ThrottleOK
  <2>. QED BY <1>4, <1>5, <2>1
<1>11. \A w \in Sending : worker[w].count # n.count
  BY <1>2, <1>4, <1>5 DEF ThrottleOK
<1>12. n.count <= last_progress
  BY <1>2, <1>4, <1>5 DEF ThrottleOK
<1>13. \A i \in Reports("scan") : notifications[i].count # n.count
  BY <1>2, <1>4, <1>5 DEF ThrottleOK
<1>14. /\ Cardinality(Sending) \in Nat /\ Cardinality(Reports("scan")) \in Nat
       /\ IsFiniteSet(Reports("scan")) /\ Sent \in Nat
  BY <1>2, SentType
<1>15. CASE progress_supported
  <2>1. /\ Reports("scan")' = Reports("scan") \cup {m}
        /\ notifications'[m] = n
        /\ \A i \in Reports("scan") : notifications'[i] = notifications[i] /\ i # m
    BY <1>2, <1>5, <1>15, NotifySame
  <2>. HIDE DEF m
  <2>2. Sent' = Sent
    <3>1. Cardinality(Reports("scan") \cup {m}) = Cardinality(Reports("scan")) + 1
      BY <1>14, <2>1, FS_AddElement
    <3>2. Sent' = Cardinality(Sending) + (k - 1) + (Cardinality(Reports("scan")) + 1)
      BY <1>4, <1>6, <2>1, <3>1, Zenon DEF Sent
    <3>3. Sent = Cardinality(Sending) + k + Cardinality(Reports("scan"))
      BY DEF Sent, k
    <3>. QED BY <1>4, <1>14, <3>2, <3>3
  <2>3. \A i \in Reports("scan")' : notifications'[i].count <= last_progress'
    BY <1>2, <1>12, <2>1 DEF ThrottleOK
  <2>4. \A w \in Sending', i \in Reports("scan")' : worker'[w].count # notifications'[i].count
    BY <1>2, <1>6, <1>11, <2>1 DEF ThrottleOK
  <2>5. \A i, j \in Reports("scan")' : notifications'[i].count = notifications'[j].count => i = j
    BY <1>2, <1>13, <2>1 DEF ThrottleOK
  <2>6. \A i \in DOMAIN scan_rx', j \in Reports("scan")' : scan_rx'[i] # notifications'[j].count
    <3>1. ASSUME NEW i \in DOMAIN scan_rx', NEW j \in Reports("scan")
          PROVE  scan_rx'[i] # notifications[j].count
      BY <1>2, <1>4 DEF ThrottleOK
    <3>. QED BY <1>10, <2>1, <3>1
  <2>. QED
    BY <1>2, <1>4, <1>6, <1>7, <1>8, <1>9, <2>2, <2>3, <2>4, <2>5, <2>6 DEF ThrottleOK
<1>16. CASE ~progress_supported
  <2>1. notifications' = notifications
    BY <1>2, <1>16 DEF Notify
  <2>2. Reports("scan")' = Reports("scan")
    BY <2>1 DEF Reports
  <2>3. Sent' = Sent - 1
    BY <1>4, <1>6, <1>14, <2>2 DEF Sent, k
  <2>4. \/ Sent' * ReportStep <= last_progress'
        \/ last_progress' = TotalFiles /\ (Sent' - 1) * ReportStep <= TotalFiles
    <3>1. PICK x \in Int : x = Sent
      BY <1>14
    <3>2. Sent' = x - 1 /\ Sent' - 1 = x - 2 /\ Sent - 1 = x - 1
      BY <2>3, <3>1
    <3>3. /\ x * ReportStep = (x - 1) * ReportStep + ReportStep
          /\ (x - 1) * ReportStep = (x - 2) * ReportStep + ReportStep
          /\ x * ReportStep \in Int /\ (x - 1) * ReportStep \in Int /\ (x - 2) * ReportStep \in Int
      <4>1. x - 1 \in Int /\ x - 2 \in Int /\ (x - 1) + 1 = x /\ (x - 2) + 1 = x - 1
        OBVIOUS
      <4>. QED BY <4>1, OneMore
    <3>4. \/ x * ReportStep <= last_progress
          \/ last_progress = TotalFiles /\ (x - 1) * ReportStep <= TotalFiles
      BY <1>2, <3>1, <3>2 DEF ThrottleOK
    <3>5. last_progress \in Int
      BY <1>2 DEF CountsOK
    <3>. QED BY <1>2, <3>2, <3>3, <3>4, <3>5
  <2>5. \A i \in DOMAIN scan_rx', j \in Reports("scan") : scan_rx'[i] # notifications[j].count
    BY <1>2, <1>4 DEF ThrottleOK
  <2>. QED BY <1>2, <1>4, <1>6, <1>7, <1>8, <1>9, <2>1, <2>2, <2>4, <2>5 DEF ThrottleOK
<1>. QED BY <1>15, <1>16

LEMMA ForwardScanKeeps ==
    ASSUME SessionIInv, ForwardScan
    PROVE  SessionIInv'
<1>1. PICK n : n = [stage |-> "scan", count |-> Head(scan_rx)]
  OBVIOUS
<1>2. /\ TaskKeeps /\ task = "scan" /\ task' = "scan" /\ Notify(n) /\ scan_rx # <<>>
      /\ UNCHANGED <<task, progress_supported, forwarder>>
  BY <1>1 DEF ForwardScan
<1>3. n \in Note /\ n.stage = "scan" /\ Rank(n) = 2
  <2>1. scan_rx \in Seq(1 .. TotalFiles)
    BY DEF SessionIInv, ThrottleOK
  <2>2. Head(scan_rx) \in Nat
    <3>1. Head(scan_rx) = scan_rx[1] /\ 1 \in 1 .. Len(scan_rx)
      BY <1>2, <2>1, TailOf
    <3>2. scan_rx[1] \in 1 .. TotalFiles
      BY <2>1, <3>1, Constants
    <3>. QED BY <3>1, <3>2, Constants
  <2>3. n \in Note
    BY <1>1, <2>2, Notes
  <2>. QED BY <1>1, <2>3, Ranks
<1>4. Level = 2 /\ Level' = 2
  BY <1>2, Levels DEF Level, Early, Passing
<1>5. /\ UNCHANGED <<progress_rx, pc, done, workspace_root, panics>>
      /\ panics' \in 0 .. MaxPanics /\ QueueOK' /\ NoneLost' /\ CountsOK'
      /\ UNCHANGED <<cache_opened, todo, indexed, errors, last_progress, worker, total, packages>>
  BY <1>2, TaskLeaves
<1>6. TaskOK'
  <2>1. TaskOK /\ (PassDone' <=> PassDone)
    BY <1>5 DEF SessionIInv, PassDone
  <2>. QED BY <1>2, <1>5, <2>1 DEF TaskOK, Early, Passing, Rootless
<1>7. ReportsOK'
  <2>1. 2 \in 0 .. 5 /\ 2 \in 1 .. 5 /\ 2 <= 2 /\ 2 # 0
    OBVIOUS
  <2>. QED BY <1>2, <1>3, <1>4, <2>1, NotifyReports DEF SessionIInv
<1>8. PackagesOK'
  BY <1>2, <1>3, <1>5, PackagesNotify DEF SessionIInv
<1>9. FilesOK'
  <2>1. FilesOK /\ TaskOK
    BY DEF SessionIInv
  <2>2. forwarder = "off" /\ task # "report" /\ task \notin Early
    BY <1>2, <2>1 DEF TaskOK, Early
  <2>. QED BY <1>2, <1>5, <2>1, <2>2 DEF FilesOK, CacheOK, At
<1>. QED BY <1>5, <1>6, <1>7, <1>8, <1>9, ForwardScanThrottled DEF SessionIInv

LEMMA ThroughType ==
    ASSUME total \in Nat, packages[indexer] \in Seq(Packages)
    PROVE  Through \in Int
<1>1. Len(packages[indexer]) \in Nat
  OBVIOUS
<1>2. total - Len(packages[indexer]) \in Int
  BY <1>1
<1>. QED BY <1>2, Zenon DEF Through

LEMMA ForwardPackageReports ==
    ASSUME SessionIInv, ForwardPackage
    PROVE  PackagesOK'
<1>1. PICK n : n = [stage |-> "package", count |-> Head(progress_rx)]
  OBVIOUS
<1>2. /\ progress_rx # <<>> /\ progress_rx' = Tail(progress_rx) /\ Notify(n)
      /\ UNCHANGED <<packages, total, progress_supported>>
      /\ PackagesOK /\ ReportsOK /\ QueueOK
  BY <1>1 DEF ForwardPackage, vars, SessionIInv
<1>. DEFINE k == Len(progress_rx)
            m == Len(notifications) + 1
            reports == Reports("package")
<1>3. total \in Nat /\ progress_rx \in Seq(Nat) /\ packages[indexer] \in Seq(Packages)
  BY <1>2, Constants DEF PackagesOK, QueueOK
<1>4. /\ Head(progress_rx) = progress_rx[1] /\ progress_rx' \in Seq(Nat)
      /\ k \in Nat /\ k >= 1 /\ Len(progress_rx') = k - 1
      /\ DOMAIN progress_rx = 1 .. k /\ DOMAIN progress_rx' = 1 .. k - 1
      /\ \A i \in 1 .. k - 1 : progress_rx'[i] = progress_rx[i + 1] /\ i + 1 \in 1 .. k
      /\ 1 \in 1 .. k
  BY <1>2, <1>3, TailOf
<1>5. PICK x \in Int : x = Through
  BY <1>3, ThroughType
<1>6. Through' = x
  BY <1>2, <1>5 DEF Through
<1>7. k <= x /\ \A i \in 1 .. k : progress_rx[i] = x - k + i
  BY <1>2, <1>4, <1>5 DEF PackagesOK
<1>. HIDE DEF k
<1>8. n.stage = "package" /\ n.count = x - k + 1 /\ n \in Note
  <2>1. n.count = progress_rx[1] /\ progress_rx[1] = x - k + 1
    BY <1>1, <1>4, <1>7
  <2>2. x - k + 1 \in Nat
    BY <1>4, <1>5, <1>7
  <2>. QED BY <1>1, <2>1, <2>2 DEF Note
<1>9. \A i \in DOMAIN progress_rx' : progress_rx'[i] = Through' - Len(progress_rx') + i
  <2>1. ASSUME NEW i \in 1 .. k - 1 PROVE progress_rx'[i] = x - (k - 1) + i
    <3>1. progress_rx'[i] = x - k + (i + 1)
      BY <1>4, <1>7
    <3>. QED BY <1>4, <1>5, <3>1
  <2>. QED BY <1>4, <1>6, <2>1
<1>10. Len(progress_rx') <= Through'
  BY <1>4, <1>5, <1>6, <1>7
<1>11. \A i \in reports : notifications[i].count = Cardinality({j \in reports : j <= i})
  BY <1>2 DEF PackagesOK
<1>12. CASE ~progress_supported
  <2>1. notifications' = notifications
    BY <1>2, <1>12 DEF Notify
  <2>2. Reports("package")' = reports
    BY <2>1 DEF Reports
  <2>. HIDE DEF reports
  <2>. QED BY <1>2, <1>3, <1>4, <1>9, <1>10, <1>11, <1>12, <2>1, <2>2 DEF PackagesOK
<1>13. CASE progress_supported
  <2>1. /\ Reports("package")' = reports \cup {m}
        /\ notifications'[m] = n
        /\ \A i \in reports : notifications'[i] = notifications[i] /\ i \in Nat /\ i < m
    BY <1>2, <1>8, <1>13, NotifySame
  <2>2. m \in Nat /\ reports \subseteq 1 .. Len(notifications)
    BY <1>2 DEF ReportsOK, Reports
  <2>3. Cardinality(reports) = x - k
    BY <1>2, <1>5, <1>13 DEF PackagesOK, k
  <2>4. IsFiniteSet(reports)
    <3>1. IsFiniteSet(1 .. Len(notifications))
      BY <1>2, FS_Interval DEF ReportsOK
    <3>. QED BY <2>2, <3>1, FS_Subset
  <2>. HIDE DEF reports, m
  <2>5. Cardinality(reports \cup {m}) = x - k + 1
    <3>1. m \notin reports
      BY <2>1, <2>2
    <3>2. Cardinality(reports \cup {m}) = Cardinality(reports) + 1
      BY <2>4, <3>1, FS_AddElement
    <3>. QED BY <2>3, <3>2
  <2>6. ASSUME NEW i \in reports
        PROVE  notifications'[i].count = Cardinality({j \in reports \cup {m} : j <= i})
    <3>1. {j \in reports \cup {m} : j <= i} = {j \in reports : j <= i}
      <4>1. ~(m <= i)
        BY <2>1, <2>2
      <4>. QED BY <4>1
    <3>. QED BY <1>11, <2>1, <3>1
  <2>7. notifications'[m].count = Cardinality({j \in reports \cup {m} : j <= m})
    <3>1. \A j \in reports \cup {m} : j <= m
      BY <2>1, <2>2
    <3>2. {j \in reports \cup {m} : j <= m} = reports \cup {m}
      BY <3>1
    <3>. QED BY <1>8, <2>1, <2>5, <3>2
  <2>8. \A i \in Reports("package")' :
            notifications'[i].count = Cardinality({j \in Reports("package")' : j <= i})
    BY <2>1, <2>6, <2>7
  <2>9. Cardinality(Reports("package")') = Through' - Len(progress_rx')
    <3>1. Through' - Len(progress_rx') = x - k + 1
      BY <1>4, <1>5, <1>6
    <3>. QED BY <2>1, <2>5, <3>1, Zenon
  <2>. QED BY <1>2, <1>3, <1>4, <1>9, <1>10, <2>8, <2>9 DEF PackagesOK
<1>. QED BY <1>12, <1>13

LEMMA ForwardPackageKeeps ==
    ASSUME SessionIInv, ForwardPackage
    PROVE  SessionIInv'
<1>1. PICK n : n = [stage |-> "package", count |-> Head(progress_rx)]
  OBVIOUS
<1>2. /\ forwarder = "on" /\ progress_rx # <<>> /\ Notify(n)
      /\ UNCHANGED <<vars, scan_vars, task, progress_supported, forwarder, scan_rx, total, panics>>
  BY <1>1 DEF ForwardPackage
<1>3. n \in Note /\ n.stage = "package" /\ Rank(n) = 4
  <2>1. progress_rx \in Seq(Nat)
    BY DEF SessionIInv, PackagesOK
  <2>2. Head(progress_rx) \in Nat
    BY <1>2, <2>1
  <2>3. n \in Note
    BY <1>1, <2>2, Notes
  <2>. QED BY <1>1, <2>3, Ranks
<1>4. TaskOK /\ task \in Passing
  BY <1>2 DEF SessionIInv, TaskOK, Early, Rootless
<1>5. Level = 4 /\ Level' = 4
  BY <1>2, <1>4, Levels DEF Level
<1>6. UNCHANGED <<pc, done, packages, workspace_root, worker, last_progress>>
  BY <1>2 DEF vars, scan_vars
<1>7. TaskOK'
  <2>1. panics' \in 0 .. MaxPanics
    BY <1>2, <1>4 DEF TaskOK
  <2>. QED BY <1>2, <1>4, <1>6, <2>1 DEF TaskOK, Early, Passing, Rootless
<1>8. QueueOK' /\ NoneLost' /\ CountsOK'
  BY <1>2, QueueStays, NoneLostStays, CountsStay DEF SessionIInv
<1>9. ReportsOK'
  <2>1. 4 \in 0 .. 5 /\ 4 \in 1 .. 5 /\ 4 <= 4 /\ 4 # 0
    OBVIOUS
  <2>. QED BY <1>2, <1>3, <1>5, <2>1, NotifyReports DEF SessionIInv
<1>10. FilesOK'
  BY <1>2, FilesStay DEF SessionIInv
<1>11. ThrottleOK'
  <2>1. Sending' = Sending /\ \A w \in Sending : worker'[w] = worker[w]
    BY <1>6 DEF Sending, At
  <2>. QED BY <1>2, <1>3, <1>6, <2>1, ThrottleNotify DEF SessionIInv
<1>. QED BY <1>7, <1>8, <1>9, <1>10, <1>11, ForwardPackageReports DEF SessionIInv

-----------------------------------------------------------------------------
(* The steps on the queue. *)

\* They leave the scan and what the client has got.
LEMMA QueueLeaves ==
    ASSUME SessionIInv, UNCHANGED <<scan_vars, task_vars, scan_rx>>, panics' = 0 => panics = 0
    PROVE  ReportsOK' /\ CountsOK' /\ FilesOK' /\ ThrottleOK'
<1>1. UNCHANGED <<task, progress_supported, forwarder, notifications>>
  BY DEF task_vars
<1>2. Level' = Level
  BY <1>1 DEF Level
<1>3. ReportsOK'
  BY <1>1, <1>2, ReportsStay DEF SessionIInv
<1>4. FilesOK'
  BY <1>1 DEF SessionIInv, FilesOK, CacheOK, scan_vars, ScanDone, At
<1>5. CountsOK' /\ ThrottleOK'
  BY <1>1, CountsStay, ThrottleStays DEF SessionIInv
<1>. QED BY <1>3, <1>4, <1>5

\* The thread that runs initialize resolves, and does nothing else.
LEMMA Resolutions ==
    ASSUME QueueOK, Step(lsp)
    PROVE  /\ \/ DetectAndResolve(lsp) \/ SetRoot(lsp) \/ Resolve(lsp) \/ Filter(lsp)
              \/ Replace(lsp)
           /\ done[lsp] = 0
<1>. USE Constants
<1>1. pc[lsp] \notin PassPC /\ done[lsp] \in {0, 1} /\ (pc[lsp] # "idle" => done[lsp] = 0)
  BY DEF QueueOK
<1>2. ~RefreshIfStale(lsp)
  BY <1>1, Planned DEF RefreshIfStale
<1>3. ~IndexPending(lsp)
  BY <1>1, Planned DEF IndexPending
<1>4. \A p : ~EnqueuePackages(lsp, p)
  BY <1>1, Planned DEF EnqueuePackages
<1>5. ~Take(lsp) /\ ~SkipPackage(lsp) /\ ~IndexPackage(lsp) /\ ~MarkIndexed(lsp) /\ ~EndPass(lsp)
  BY <1>1 DEF Take, SkipPackage, IndexPackage, MarkIndexed, EndPass, PassPC
<1>6. \/ DetectAndResolve(lsp) \/ SetRoot(lsp) \/ Resolve(lsp) \/ Filter(lsp) \/ Replace(lsp)
  BY <1>2, <1>3, <1>4, <1>5 DEF Step
<1>7. done[lsp] = 0
  <2>1. CASE DetectAndResolve(lsp)
    BY <1>1, <2>1, Planned DEF DetectAndResolve
  <2>2. CASE SetRoot(lsp) \/ Resolve(lsp) \/ Filter(lsp) \/ Replace(lsp)
    BY <1>1, <2>2 DEF SetRoot, Resolve, Filter, Replace
  <2>. QED BY <1>6, <2>1, <2>2
<1>. QED BY <1>6, <1>7

LEMMA ResolutionEffect ==
    ASSUME QueueOK, Step(lsp)
    PROVE  /\ pc'[lsp] \in {"idle"} \cup ResolvePC /\ pc' = [pc EXCEPT ![lsp] = pc'[lsp]]
           /\ packages'[lsp] \in Seq(Packages)
           /\ packages' = [packages EXCEPT ![lsp] = packages'[lsp]]
           /\ pending_packages' \in Seq(Packages)
           /\ done[lsp] = 0 /\ done' = [done EXCEPT ![lsp] = done'[lsp]]
           /\ \/ done'[lsp] = 0 /\ queued' = queued
              \/ /\ done'[lsp] = 1 /\ pc'[lsp] = "idle"
                 /\ queued' = queued \cup ToSet(pending_packages')
           /\ UNCHANGED <<installed, indexed_packages, indexing_in_progress>>
<1>. USE Constants
<1>1. /\ installed \subseteq Packages /\ pending_packages \in Seq(Packages)
      /\ pc \in [Threads -> {"idle"} \cup ResolvePC \cup PassPC]
      /\ packages \in [Threads -> Seq(Packages)] /\ done \in [Threads -> {0, 1}]
      /\ done[lsp] = 0
  BY Resolutions DEF QueueOK
<1>2. CASE DetectAndResolve(lsp)
  BY <1>1, <1>2 DEF DetectAndResolve, Goto, queue_vars, history, ResolvePC
<1>3. CASE SetRoot(lsp)
  BY <1>1, <1>3 DEF SetRoot, Goto, queue_vars, history, ResolvePC
<1>4. CASE Resolve(lsp)
  <2>1. packages'[lsp] \in Seq(Packages) /\ packages' = [packages EXCEPT ![lsp] = packages'[lsp]]
    BY <1>1, <1>4, ResolveList
  <2>. QED BY <1>1, <1>4, <2>1 DEF Resolve, Goto, queue_vars, history, ResolvePC
<1>5. CASE Filter(lsp)
  <2>1. packages' = [packages EXCEPT ![lsp] = Retained(packages[lsp])]
    BY <1>5 DEF Filter
  <2>2. Retained(packages[lsp]) \in Seq(Packages)
    BY <1>1, RetainedSet
  <2>3. packages'[lsp] \in Seq(Packages) /\ packages' = [packages EXCEPT ![lsp] = packages'[lsp]]
    BY <1>1, <2>1, <2>2
  <2>. QED BY <1>1, <1>5, <2>3 DEF Filter, Goto, queue_vars, history, ResolvePC
<1>6. CASE Replace(lsp)
  <2>1. /\ pending_packages' = packages[lsp] /\ queued' = queued \cup ToSet(packages[lsp])
        /\ packages' = [packages EXCEPT ![lsp] = <<>>]
        /\ pc' = [pc EXCEPT ![lsp] = "idle"] /\ done' = [done EXCEPT ![lsp] = done[lsp] + 1]
        /\ UNCHANGED <<installed, indexed_packages, indexing_in_progress>>
    BY <1>6 DEF Replace, Returns, Goto
  <2>2. packages'[lsp] = <<>> /\ pc'[lsp] = "idle" /\ done'[lsp] = 1
    BY <1>1, <2>1
  <2>. QED BY <1>1, <2>1, <2>2
<1>. QED BY <1>2, <1>3, <1>4, <1>5, <1>6, Resolutions

LEMMA InitializeKeeps ==
    ASSUME SessionIInv, Initialize
    PROVE  SessionIInv'
<1>. USE Constants
<1>1. /\ task = "initialize" /\ Step(lsp) /\ TaskOK /\ QueueOK /\ NoneLost
      /\ UNCHANGED <<scan_vars, task_vars, scan_rx, progress_rx, total, panics>>
  BY DEF SessionIInv, Initialize
<1>2. UNCHANGED <<task, progress_supported, forwarder, notifications>>
  BY <1>1 DEF task_vars
<1>3. /\ pc'[lsp] \in {"idle"} \cup ResolvePC /\ pc' = [pc EXCEPT ![lsp] = pc'[lsp]]
      /\ packages'[lsp] \in Seq(Packages)
      /\ packages' = [packages EXCEPT ![lsp] = packages'[lsp]]
      /\ pending_packages' \in Seq(Packages)
      /\ done[lsp] = 0 /\ done' = [done EXCEPT ![lsp] = done'[lsp]]
      /\ \/ done'[lsp] = 0 /\ queued' = queued
         \/ /\ done'[lsp] = 1 /\ pc'[lsp] = "idle"
            /\ queued' = queued \cup ToSet(pending_packages')
      /\ UNCHANGED <<installed, indexed_packages, indexing_in_progress>>
  BY <1>1, ResolutionEffect
<1>4. pc'[indexer] = pc[indexer] /\ packages'[indexer] = packages[indexer]
      /\ done'[indexer] = done[indexer]
  BY <1>1, <1>3 DEF QueueOK
<1>5. forwarder = "off" /\ pc[indexer] = "idle" /\ done[indexer] = 0 /\ progress_rx = <<>>
      /\ ~progress_supported
  BY <1>1 DEF TaskOK, Early, Rootless
<1>6. TaskOK'
  <2>1. panics' \in 0 .. MaxPanics
    BY <1>1 DEF TaskOK
  <2>. QED BY <1>1, <1>2, <1>4, <1>5, <2>1 DEF TaskOK, Early, Passing, Rootless
<1>7. queued = {}
  BY <1>1, <1>3 DEF QueueOK
<1>8. QueueOK'
  <2>1. /\ pc' \in [Threads -> {"idle"} \cup ResolvePC \cup PassPC]
        /\ packages' \in [Threads -> Seq(Packages)] /\ done' \in [Threads -> {0, 1}]
        /\ installed' \subseteq Packages
    <3>1. /\ pc \in [Threads -> {"idle"} \cup ResolvePC \cup PassPC]
          /\ packages \in [Threads -> Seq(Packages)] /\ done \in [Threads -> {0, 1}]
          /\ installed \subseteq Packages
      BY <1>1, Zenon DEF QueueOK
    <3>2. pc' \in [Threads -> {"idle"} \cup ResolvePC \cup PassPC]
      BY <1>3, <3>1
    <3>3. packages' \in [Threads -> Seq(Packages)]
      BY <1>3, <3>1, Zenon
    <3>4. done' \in [Threads -> {0, 1}]
      BY <1>3, <3>1
    <3>. QED BY <1>3, <3>1, <3>2, <3>3, <3>4, Zenon
  <2>2. pc'[lsp] \notin PassPC /\ pc'[indexer] \notin ResolvePC
    BY <1>3, <1>4, <1>5 DEF ResolvePC, PassPC
  <2>3. \A t \in Threads : pc'[t] # "idle" => done'[t] = 0
    BY <1>3, <1>4, <1>5
  <2>4. done'[lsp] = 0 => queued' = {}
    BY <1>3, <1>7
  <2>5. packages'[indexer] = <<>> /\ total' = 0 /\ pc'[indexer] = "idle"
    BY <1>1, <1>4, <1>5 DEF QueueOK
  <2>. QED BY <1>3, <2>1, <2>2, <2>3, <2>4, <2>5 DEF QueueOK
<1>9. NoneLost'
  <2>1. panics' = 0 => (indexing_in_progress' <=> pc'[indexer] \in PassPC)
    BY <1>1, <1>3, <1>4, Zenon DEF NoneLost
  <2>2. pc'[indexer] \notin {"next", "mark"} /\ done'[indexer] # 1
    BY <1>4, <1>5
  <2>3. \A p \in queued' : p \in ToSet(pending_packages')
    BY <1>3, <1>7
  <2>. QED BY <2>1, <2>2, <2>3, Zenon DEF NoneLost
<1>10. PackagesOK'
  BY <1>1, <1>2, <1>4, PackagesStay DEF SessionIInv
<1>. QED BY <1>1, <1>6, <1>8, <1>9, <1>10, QueueLeaves DEF SessionIInv

LEMMA InstallOneKeeps ==
    ASSUME SessionIInv, InstallOne
    PROVE  SessionIInv'
<1>1. PICK p \in Packages : Install(p)
  BY DEF InstallOne
<1>2. /\ installed' = installed \cup {p}
      /\ UNCHANGED <<queue_vars, workspace_root, pc, packages, done, history>>
      /\ UNCHANGED <<scan_vars, task_vars, scan_rx, progress_rx, total, panics>>
  BY <1>1 DEF Install, InstallOne
<1>3. UNCHANGED <<task, progress_supported, forwarder, notifications>>
  BY <1>2 DEF task_vars
<1>4. QueueOK'
  BY <1>2 DEF SessionIInv, QueueOK, queue_vars, history
<1>5. NoneLost'
  BY <1>2 DEF SessionIInv, NoneLost, queue_vars, history
<1>6. TaskOK'
  BY <1>2, <1>3 DEF SessionIInv, TaskOK, Rootless, PassDone
<1>7. PackagesOK'
  BY <1>2, <1>3, PackagesStay DEF SessionIInv
<1>. QED BY <1>2, <1>4, <1>5, <1>6, <1>7, QueueLeaves DEF SessionIInv

\* The pass indexes, and does nothing else.
LEMMA Passes ==
    ASSUME QueueOK, Step(indexer)
    PROVE  /\ \/ IndexPending(indexer) \/ Take(indexer) \/ SkipPackage(indexer)
              \/ IndexPackage(indexer) \/ MarkIndexed(indexer) \/ EndPass(indexer)
           /\ done[indexer] = 0
<1>. USE Constants
<1>1. /\ pc[indexer] \notin ResolvePC /\ done[indexer] \in {0, 1}
      /\ pc[indexer] # "idle" => done[indexer] = 0
  BY DEF QueueOK
<1>2. ~DetectAndResolve(indexer)
  BY <1>1, Planned DEF DetectAndResolve
<1>3. ~RefreshIfStale(indexer)
  BY <1>1, Planned DEF RefreshIfStale
<1>4. \A p : ~EnqueuePackages(indexer, p)
  BY <1>1, Planned DEF EnqueuePackages
<1>5. ~SetRoot(indexer) /\ ~Resolve(indexer) /\ ~Filter(indexer) /\ ~Replace(indexer)
  BY <1>1 DEF SetRoot, Resolve, Filter, Replace, ResolvePC
<1>6. \/ IndexPending(indexer) \/ Take(indexer) \/ SkipPackage(indexer)
      \/ IndexPackage(indexer) \/ MarkIndexed(indexer) \/ EndPass(indexer)
  BY <1>2, <1>3, <1>4, <1>5 DEF Step
<1>7. done[indexer] = 0
  <2>1. CASE IndexPending(indexer)
    BY <1>1, <2>1, Planned DEF IndexPending
  <2>2. CASE ~IndexPending(indexer)
    BY <1>1, <1>6, <2>2 DEF Take, SkipPackage, IndexPackage, MarkIndexed, EndPass
  <2>. QED BY <2>1, <2>2
<1>. QED BY <1>6, <1>7

\* What each of its steps does, as far as nothing panicked before.
LEMMA PassQueue ==
    ASSUME QueueOK, NoneLost, Step(indexer),
           total' = IF pc[indexer] = "take" THEN Len(pending_packages) ELSE total
    PROVE  QueueOK' /\ (panics' = panics => NoneLost')
<1>. USE Constants
<1>1. /\ pending_packages \in Seq(Packages)
      /\ pc \in [Threads -> {"idle"} \cup ResolvePC \cup PassPC]
      /\ packages \in [Threads -> Seq(Packages)] /\ done \in [Threads -> {0, 1}]
      /\ packages[indexer] \in Seq(Packages)
      /\ done[indexer] = 0
  BY Passes DEF QueueOK
<1>2. ASSUME \* the thread's own entries, and what it may not touch
             NEW label \in {"idle"} \cup PassPC, NEW list \in Seq(Packages), NEW n \in {0, 1},
             pc' = [pc EXCEPT ![indexer] = label],
             packages' = [packages EXCEPT ![indexer] = list],
             done' = [done EXCEPT ![indexer] = n],
             label # "idle" => n = 0,
             label = "take" => list = <<>> /\ total' = 0,
             label = "idle" => n = 1,
             label = "mark" => list # <<>>,
             pending_packages' \in Seq(Packages), UNCHANGED <<installed, queued>>
      PROVE  /\ QueueOK'
             /\ pc'[indexer] = label /\ packages'[indexer] = list /\ done'[indexer] = n
  <2>1. /\ pc'[indexer] = label /\ packages'[indexer] = list /\ done'[indexer] = n
        /\ pc'[lsp] = pc[lsp] /\ done'[lsp] = done[lsp]
    BY <1>1, <1>2
  <2>2. /\ pc' \in [Threads -> {"idle"} \cup ResolvePC \cup PassPC]
        /\ packages' \in [Threads -> Seq(Packages)] /\ done' \in [Threads -> {0, 1}]
    BY <1>1, <1>2
  <2>3. label \notin ResolvePC
    BY <1>2 DEF PassPC, ResolvePC
  <2>4. \A t \in Threads : pc'[t] # "idle" => done'[t] = 0
    BY <1>2, <2>1 DEF QueueOK
  <2>. QED BY <1>2, <2>1, <2>2, <2>3, <2>4 DEF QueueOK
<1>3. CASE IndexPending(indexer)
  <2>1. /\ pc[indexer] = "idle" /\ packages[indexer] = <<>> /\ total = 0
        /\ UNCHANGED <<installed, pending_packages, indexed_packages, packages, queued, total>>
    BY <1>1, <1>3 DEF IndexPending, Calling, QueueOK, history
  <2>2. packages' = [packages EXCEPT ![indexer] = packages[indexer]]
    BY <1>1, <2>1
  <2>3. CASE indexing_in_progress /\ Returns(indexer)
    <3>1. /\ pc' = [pc EXCEPT ![indexer] = "idle"] /\ done' = [done EXCEPT ![indexer] = 1]
      BY <1>1, <2>3 DEF Returns, Goto
    <3>2. QueueOK'
      BY <1>1, <1>2, <2>1, <2>2, <3>1
    <3>3. panics # 0
      <4>1. pc[indexer] \notin PassPC
        BY <2>1 DEF PassPC
      <4>. QED BY <2>3, <4>1, Zenon DEF NoneLost
    <3>. QED BY <3>2, <3>3 DEF NoneLost
  <2>4. CASE indexing_in_progress' = TRUE /\ Goto(indexer, "take") /\ UNCHANGED done
    <3>1. /\ pc' = [pc EXCEPT ![indexer] = "take"] /\ done' = [done EXCEPT ![indexer] = 0]
      BY <1>1, <2>4 DEF Goto
    <3>2. "take" \in {"idle"} \cup PassPC /\ "take" \in PassPC
      BY DEF PassPC
    <3>3. QueueOK' /\ pc'[indexer] = "take" /\ done'[indexer] = 0
      BY <1>1, <1>2, <2>1, <2>2, <3>1, <3>2
    <3>4. panics' = panics => NoneLost'
      <4>1. indexing_in_progress' <=> pc'[indexer] \in PassPC
        BY <2>4, <3>2, <3>3, Zenon
      <4>2. pc'[indexer] \notin {"next", "mark"} /\ done'[indexer] # 1
        BY <3>3
      <4>. QED BY <2>1, <4>1, <4>2, Zenon DEF NoneLost
    <3>. QED BY <3>3, <3>4
  <2>. QED BY <1>3, <2>3, <2>4 DEF IndexPending
<1>4. CASE Take(indexer)
  <2>1. /\ pc[indexer] = "take" /\ packages' = [packages EXCEPT ![indexer] = pending_packages]
        /\ pending_packages' = <<>> /\ pc' = [pc EXCEPT ![indexer] = "next"]
        /\ done' = [done EXCEPT ![indexer] = 0]
        /\ UNCHANGED <<installed, indexed_packages, indexing_in_progress, queued>>
    BY <1>1, <1>4 DEF Take, Goto, history
  <2>2. packages[indexer] = <<>>
    BY <1>1, <2>1 DEF QueueOK
  <2>3. "next" \in {"idle"} \cup PassPC /\ "next" \in PassPC /\ "take" \in PassPC
    BY DEF PassPC
  <2>4. /\ QueueOK' /\ pc'[indexer] = "next" /\ packages'[indexer] = pending_packages
        /\ done'[indexer] = 0
    <3>1. pending_packages' \in Seq(Packages) /\ UNCHANGED <<installed, queued>>
      BY <2>1
    <3>2. "next" # "idle" /\ "next" # "take" /\ "next" # "mark" /\ 0 \in {0, 1}
      OBVIOUS
    <3>. QED BY <1>1, <1>2, <2>1, <2>3, <3>1, <3>2
  <2>5. ToSet(packages[indexer]) = {}
    BY <2>2 DEF ToSet
  <2>6. panics' = panics => NoneLost'
    BY <2>1, <2>3, <2>4, <2>5 DEF NoneLost
  <2>. QED BY <2>4, <2>6
<1>5. CASE SkipPackage(indexer) \/ MarkIndexed(indexer)
  <2>1. /\ pc[indexer] \in {"next", "mark"}
        /\ packages' = [packages EXCEPT ![indexer] = Tail(packages[indexer])]
        /\ indexed_packages' = indexed_packages \cup {Head(packages[indexer])}
        /\ pc' = [pc EXCEPT ![indexer] = "next"] /\ done' = [done EXCEPT ![indexer] = 0]
        /\ UNCHANGED <<installed, pending_packages, indexing_in_progress, queued>>
    <3>1. CASE SkipPackage(indexer)
      BY <1>1, <3>1 DEF SkipPackage, queue_vars, history
    <3>2. CASE MarkIndexed(indexer)
      BY <1>1, <3>2 DEF MarkIndexed, Goto, history
    <3>. QED BY <1>5, <3>1, <3>2
  <2>2. packages[indexer] # <<>>
    BY <1>5 DEF SkipPackage, MarkIndexed, QueueOK
  <2>3. /\ Tail(packages[indexer]) \in Seq(Packages)
        /\ ToSet(packages[indexer]) = {Head(packages[indexer])} \cup ToSet(Tail(packages[indexer]))
    BY <1>1, <2>2, TailSet
  <2>4. "next" \in {"idle"} \cup PassPC /\ "next" \in PassPC /\ "mark" \in PassPC
    BY DEF PassPC
  <2>5. /\ QueueOK' /\ pc'[indexer] = "next" /\ packages'[indexer] = Tail(packages[indexer])
        /\ done'[indexer] = 0
    BY <1>1, <1>2, <2>1, <2>3, <2>4
  <2>6. panics' = panics => NoneLost'
    BY <2>1, <2>3, <2>4, <2>5 DEF NoneLost
  <2>. QED BY <2>5, <2>6
<1>6. CASE IndexPackage(indexer)
  <2>1. /\ pc[indexer] = "next" /\ packages[indexer] # <<>>
        /\ packages' = [packages EXCEPT ![indexer] = packages[indexer]]
        /\ pc' = [pc EXCEPT ![indexer] = "mark"] /\ done' = [done EXCEPT ![indexer] = 0]
        /\ UNCHANGED <<installed, queue_vars, queued>>
    BY <1>1, <1>6 DEF IndexPackage, Goto, queue_vars
  <2>2. "mark" \in {"idle"} \cup PassPC /\ "next" \in PassPC /\ "mark" \in PassPC
    BY DEF PassPC
  <2>3. /\ QueueOK' /\ pc'[indexer] = "mark" /\ packages'[indexer] = packages[indexer]
        /\ done'[indexer] = 0
    BY <1>1, <1>2, <2>1, <2>2 DEF queue_vars
  <2>4. panics' = panics => NoneLost'
    BY <2>1, <2>2, <2>3 DEF NoneLost, queue_vars
  <2>. QED BY <2>3, <2>4
<1>7. CASE EndPass(indexer)
  <2>1. /\ pc[indexer] = "next" /\ packages[indexer] = <<>>
        /\ packages' = [packages EXCEPT ![indexer] = packages[indexer]]
        /\ indexing_in_progress' = FALSE
        /\ pc' = [pc EXCEPT ![indexer] = "idle"] /\ done' = [done EXCEPT ![indexer] = 1]
        /\ UNCHANGED <<installed, pending_packages, indexed_packages, queued>>
    BY <1>1, <1>7 DEF EndPass, Returns, Goto, history
  <2>2. "idle" \notin PassPC
    BY DEF PassPC
  <2>3. /\ QueueOK' /\ pc'[indexer] = "idle" /\ packages'[indexer] = packages[indexer]
        /\ done'[indexer] = 1
    BY <1>1, <1>2, <2>1
  <2>4. panics' = panics => NoneLost'
    BY <2>1, <2>2, <2>3 DEF NoneLost
  <2>. QED BY <2>3, <2>4
<1>. QED BY <1>3, <1>4, <1>5, <1>6, <1>7, Passes

\* A call of the progress callback per package the pass is through with.
LEMMA PassReports ==
    ASSUME SessionIInv, Pass
    PROVE  PackagesOK'
<1>. USE Constants
<1>1. /\ Step(indexer) /\ Callback /\ PackagesOK /\ QueueOK
      /\ total' = IF pc[indexer] = "take" THEN Len(pending_packages) ELSE total
      /\ UNCHANGED <<notifications, progress_supported>>
  BY DEF SessionIInv, Pass, task_vars
<1>2. /\ packages \in [Threads -> Seq(Packages)] /\ packages[indexer] \in Seq(Packages)
      /\ pending_packages \in Seq(Packages)
      /\ total \in Nat /\ progress_rx \in Seq(Nat) /\ done[indexer] = 0
  BY <1>1, Passes DEF QueueOK, PackagesOK
<1>3. Reports("package")' = Reports("package")
  BY <1>1 DEF Reports
<1>4. CASE IndexPending(indexer) \/ IndexPackage(indexer) \/ EndPass(indexer)
  <2>1. packages'[indexer] = packages[indexer] /\ pc[indexer] # "take"
    BY <1>4 DEF IndexPending, IndexPackage, EndPass, Calling
  <2>2. ~Passed
    <3>1. Len(packages'[indexer]) = Len(packages[indexer]) /\ Len(packages[indexer]) \in Nat
      BY <1>2, <2>1
    <3>. QED BY <3>1 DEF Passed
  <2>. QED BY <1>1, <2>1, <2>2, PackagesStay DEF Callback
<1>5. CASE Take(indexer)
  <2>1. pc[indexer] = "take" /\ packages'[indexer] = pending_packages
    BY <1>2, <1>5 DEF Take
  <2>2. packages[indexer] = <<>> /\ total = 0 /\ total' = Len(pending_packages)
    BY <1>1, <1>2, <2>1 DEF QueueOK
  <2>3. Len(packages[indexer]) = 0 /\ Len(pending_packages) \in Nat /\ 0 - 0 = 0
    BY <1>2, <2>2
  <2>4. Through = 0 /\ Through' = 0
    <3>1. Through = 0
      BY <2>2, <2>3, Zenon DEF Through
    <3>2. Len(pending_packages) - Len(pending_packages) = 0
      BY <2>3
    <3>3. Through' = 0
      BY <2>1, <2>2, <3>2, Zenon DEF Through
    <3>. QED BY <3>1, <3>3
  <2>5. ~Passed
    BY <2>1, <2>3 DEF Passed
  <2>6. progress_rx' = progress_rx
    BY <1>1, <2>5 DEF Callback
  <2>. QED BY <1>1, <1>2, <1>3, <2>2, <2>3, <2>4, <2>6 DEF PackagesOK
<1>6. CASE SkipPackage(indexer) \/ MarkIndexed(indexer)
  <2>1. packages[indexer] # <<>> /\ packages'[indexer] = Tail(packages[indexer])
        /\ pc[indexer] # "take"
    BY <1>1, <1>2, <1>6 DEF SkipPackage, MarkIndexed, QueueOK
  <2>2. /\ Len(packages[indexer]) \in Nat
        /\ Len(packages'[indexer]) = Len(packages[indexer]) - 1
    BY <1>2, <2>1, TailOf
  <2>3. Passed
    BY <2>2 DEF Passed
  <2>. DEFINE k == Len(progress_rx)
  <2>4. PICK x \in Int : x = Through
    BY <1>2, ThroughType
  <2>5. Through' = x + 1 /\ total' = total
    <3>1. x = total - Len(packages[indexer])
      BY <2>4 DEF Through
    <3>2. total' = total
      BY <1>1, <2>1
    <3>3. total - (Len(packages[indexer]) - 1) = x + 1
      BY <1>2, <2>2, <3>1
    <3>4. Through' = total - (Len(packages[indexer]) - 1)
      BY <2>2, <3>2, Zenon DEF Through
    <3>. QED BY <3>2, <3>3, <3>4
  <2>6. progress_rx' = Append(progress_rx, x + 1)
    <3>1. progress_rx' = Append(progress_rx, total - Len(packages'[indexer]))
      BY <1>1, <2>3 DEF Callback
    <3>2. x = total - Len(packages[indexer])
      BY <2>4 DEF Through
    <3>3. total - Len(packages'[indexer]) = x + 1
      BY <1>2, <2>2, <3>2
    <3>. QED BY <3>1, <3>3
  <2>7. k \in Nat /\ k <= x /\ \A i \in 1 .. k : progress_rx[i] = x - k + i
    BY <1>1, <1>2, <2>4 DEF PackagesOK
  <2>8. x + 1 \in Nat
    BY <2>7
  <2>9. /\ progress_rx' \in Seq(Nat) /\ Len(progress_rx') = k + 1
        /\ DOMAIN progress_rx' = 1 .. k + 1
        /\ \A i \in 1 .. k : progress_rx'[i] = progress_rx[i]
        /\ progress_rx'[k + 1] = x + 1
    BY <1>2, <2>6, <2>8
  <2>. HIDE DEF k
  <2>10. \A i \in DOMAIN progress_rx' : progress_rx'[i] = (x + 1) - (k + 1) + i
    <3>1. ASSUME NEW i \in 1 .. k + 1 PROVE progress_rx'[i] = (x + 1) - (k + 1) + i
      <4>1. CASE i = k + 1
        BY <2>4, <2>7, <2>9, <4>1
      <4>2. CASE i # k + 1
        <5>1. i \in 1 .. k
          BY <2>7, <4>2
        <5>2. progress_rx'[i] = x - k + i
          BY <2>7, <2>9, <5>1
        <5>. QED BY <2>4, <2>7, <5>2
      <4>. QED BY <4>1, <4>2
    <3>. QED BY <2>9, <3>1
  <2>11. Len(progress_rx') <= Through'
    BY <2>4, <2>5, <2>7, <2>9
  <2>12. \A i \in DOMAIN progress_rx' : progress_rx'[i] = Through' - Len(progress_rx') + i
    BY <2>5, <2>9, <2>10
  <2>13. progress_supported' => Cardinality(Reports("package")') = Through' - Len(progress_rx')
    <3>1. (x + 1) - (k + 1) = x - k
      BY <2>4, <2>7
    <3>2. progress_supported => Cardinality(Reports("package")) = x - k
      BY <1>1, <2>4, Zenon DEF PackagesOK, k
    <3>. QED BY <1>1, <1>3, <2>5, <2>9, <3>1, <3>2, Zenon
  <2>14. total' \in Nat
    BY <1>2, <2>5
  <2>. QED BY <1>1, <1>3, <2>9, <2>11, <2>12, <2>13, <2>14 DEF PackagesOK
<1>. QED BY <1>1, <1>4, <1>5, <1>6, Passes

LEMMA PassKeepsTask ==
    ASSUME SessionIInv, forwarder # "off", done[indexer] = 0, UNCHANGED task_vars,
           done'[lsp] = done[lsp], panics' \in 0 .. MaxPanics
    PROVE  TaskOK'
<1>1. UNCHANGED <<task, progress_supported, forwarder>>
  BY DEF task_vars
<1>2. TaskOK /\ ~PassDone
  BY DEF SessionIInv, PassDone
<1>3. forwarder = "on"
  BY <1>2 DEF TaskOK, Early, Passing, Rootless
<1>. QED BY <1>1, <1>2, <1>3 DEF TaskOK, Early, Passing, Rootless

LEMMA PassStepKeeps ==
    ASSUME SessionIInv, Pass
    PROVE  SessionIInv'
<1>. USE Constants
<1>1. /\ Step(indexer) /\ forwarder # "off" /\ QueueOK /\ NoneLost
      /\ total' = IF pc[indexer] = "take" THEN Len(pending_packages) ELSE total
      /\ UNCHANGED <<scan_vars, task_vars, scan_rx, panics>>
  BY DEF SessionIInv, Pass
<1>2. QueueOK' /\ NoneLost'
  BY <1>1, PassQueue
<1>3. done[indexer] = 0 /\ done'[lsp] = done[lsp]
  <2>1. done \in [Threads -> {0, 1}]
    BY <1>1 DEF QueueOK
  <2>. QED
    BY <1>1, <2>1, Passes DEF IndexPending, Take, SkipPackage, IndexPackage, MarkIndexed,
       EndPass, Returns
<1>4. panics' \in 0 .. MaxPanics
  BY <1>1 DEF SessionIInv, TaskOK
<1>5. TaskOK'
  BY <1>1, <1>3, <1>4, PassKeepsTask
<1>. QED BY <1>1, <1>2, <1>5, PassReports, QueueLeaves DEF SessionIInv

LEMMA PanicInPackageKeeps ==
    ASSUME SessionIInv, PanicInPackage
    PROVE  SessionIInv'
<1>. USE Constants
<1>1. /\ forwarder # "off" /\ pc[indexer] = "mark" /\ panics < MaxPanics /\ panics' = panics + 1
      /\ pc' = [pc EXCEPT ![indexer] = "idle"] /\ done' = [done EXCEPT ![indexer] = @ + 1]
      /\ UNCHANGED <<installed, queue_vars, workspace_root, root_readers, packages, history,
                     scan_vars, task_vars, scan_rx, progress_rx, total>>
      /\ QueueOK /\ PackagesOK
  BY DEF SessionIInv, PanicInPackage, Returns, Goto
<1>2. /\ pc \in [Threads -> {"idle"} \cup ResolvePC \cup PassPC] /\ done \in [Threads -> {0, 1}]
      /\ done[indexer] = 0
  BY <1>1 DEF QueueOK
<1>3. /\ pc'[indexer] = "idle" /\ done'[indexer] = 1
      /\ pc'[lsp] = pc[lsp] /\ done'[lsp] = done[lsp]
  BY <1>1, <1>2
<1>4. panics' \in 0 .. MaxPanics /\ panics' # 0
  BY <1>1 DEF SessionIInv, TaskOK
<1>5. TaskOK'
  BY <1>1, <1>2, <1>3, <1>4, PassKeepsTask
<1>6. QueueOK'
  <2>1. /\ pc' \in [Threads -> {"idle"} \cup ResolvePC \cup PassPC]
        /\ done' \in [Threads -> {0, 1}]
    BY <1>1, <1>2, <1>3
  <2>2. pc'[lsp] \notin PassPC /\ pc'[indexer] \notin ResolvePC
    BY <1>1, <1>3 DEF QueueOK, ResolvePC
  <2>3. \A t \in Threads : pc'[t] # "idle" => done'[t] = 0
    BY <1>1, <1>3 DEF QueueOK
  <2>. QED BY <1>1, <1>3, <2>1, <2>2, <2>3 DEF QueueOK, queue_vars, history
<1>7. NoneLost'
  BY <1>4 DEF NoneLost
<1>8. PackagesOK'
  BY <1>1, PackagesStay DEF task_vars
<1>. QED BY <1>1, <1>4, <1>5, <1>6, <1>7, <1>8, QueueLeaves DEF SessionIInv

-----------------------------------------------------------------------------
LEMMA SessionStepKeeps == SessionIInv /\ [SessionNext]_session_vars => SessionIInv'
<1>. SUFFICES ASSUME SessionIInv, [SessionNext]_session_vars PROVE SessionIInv'
  OBVIOUS
<1>1. CASE Initialize \/ NoRoot \/ ClientAnswers
  BY <1>1, InitializeKeeps, NoRootKeeps, ClientAnswersKeeps
<1>2. CASE Task
  BY <1>2, InitializedKeeps, BeginKeeps, ForwardScanKeeps, LeaveScanKeeps, SpawnPassKeeps,
     JoinKeeps, EndKeeps DEF Task
<1>3. CASE Forwarder
  BY <1>3, ForwardPackageKeeps, ForwarderReturnsKeeps DEF Forwarder
<1>4. CASE OpenCache \/ \E w \in Workers : Scanner(w)
  BY <1>4, OpenCacheKeeps, ScannerKeeps
<1>5. CASE Pass \/ PanicInPackage \/ InstallOne
  BY <1>5, PassStepKeeps, PanicInPackageKeeps, InstallOneKeeps
<1>6. CASE UNCHANGED session_vars
  <2>1. /\ UNCHANGED <<vars, scan_vars, task_vars, scan_rx, progress_rx, total, panics>>
        /\ UNCHANGED <<task, progress_supported, forwarder, notifications>>
        /\ UNCHANGED <<pc, done, packages, workspace_root>>
    BY <1>6 DEF session_vars, task_vars, vars
  <2>2. TaskOK'
    BY <2>1 DEF SessionIInv, TaskOK, Rootless, PassDone
  <2>3. QueueOK' /\ NoneLost' /\ PackagesOK'
    BY <2>1, QueueStays, NoneLostStays, PackagesStay DEF SessionIInv
  <2>. QED BY <2>1, <2>2, <2>3, QueueLeaves DEF SessionIInv
<1>. QED BY <1>1, <1>2, <1>3, <1>4, <1>5, <1>6 DEF SessionNext

LEMMA SessionInvariance == SessionSpec => []SessionIInv
BY SessionInitKeeps, SessionStepKeeps, PTL DEF SessionSpec

\* How many steps of s fit.
LEMMA Fits ==
    ASSUME NEW n \in Int, NEW s \in Nat, s >= 1, NEW t \in Nat, n * s <= t
    PROVE  n <= t \div s
<1>. DEFINE q == t \div s
<1>1. q \in Int /\ t < s * q + s
  OBVIOUS
<1>. HIDE DEF q
<1>2. ASSUME n > q PROVE FALSE
  <2>1. PICK d \in Nat : n = q + 1 + d
    <3>1. n - q - 1 \in Nat /\ n = q + 1 + (n - q - 1)
      BY <1>1, <1>2
    <3>. QED BY <3>1
  <2>2. n * s = q * s + s + d * s /\ d * s >= 0 /\ q * s = s * q
    BY <1>1, <2>1
  <2>3. s * q \in Int /\ d * s \in Int
    BY <1>1, <2>1
  <2>. QED BY <2>2, <2>3, <1>1
<1>3. n <= q
  BY <1>1, <1>2
<1>. QED BY <1>3 DEF q

\* When the task ended with the token, the pass is over.
LEMMA Ended ==
    ASSUME SessionIInv, task = "ended", progress_supported \/ workspace_root
    PROVE  forwarder = "gone" /\ done[indexer] = 1 /\ progress_rx = <<>>
<1>1. TaskOK /\ ~Rootless
  BY DEF SessionIInv, TaskOK
<1>. QED BY <1>1 DEF TaskOK, PassDone

LEMMA ReportsAreThrottled == SessionIInv => ScanReportsAreThrottled
<1>. SUFFICES ASSUME SessionIInv PROVE ScanReportsAreThrottled
  OBVIOUS
<1>. USE Constants
<1>1. ThrottleOK /\ ReportsOK /\ CountsOK
  BY DEF SessionIInv
<1>2. /\ Cardinality(Sending) \in Nat /\ Cardinality(Reports("scan")) \in Nat
      /\ Len(scan_rx) \in Nat /\ Sent \in Nat
  BY <1>1, SentType DEF ThrottleOK
<1>3. Len(scan_rx) + Cardinality(Reports("scan")) <= Sent
  BY <1>2 DEF Sent
<1>4. Sent <= TotalFiles \div ReportStep + 1
  <2>1. PICK x \in Int : x = Sent
    BY <1>2
  <2>2. x * ReportStep = (x - 1) * ReportStep + ReportStep /\ (x - 1) * ReportStep \in Int
    <3>1. x - 1 \in Int /\ (x - 1) + 1 = x
      OBVIOUS
    <3>. QED BY <3>1, OneMore
  <2>3. last_progress \in 0 .. TotalFiles
    BY <1>1 DEF CountsOK
  <2>4. (x - 1) * ReportStep <= TotalFiles
    <3>1. CASE x * ReportStep <= last_progress
      BY <2>2, <2>3, <3>1
    <3>2. CASE (x - 1) * ReportStep <= TotalFiles
      BY <3>2
    <3>. QED BY <1>1, <2>1, <3>1, <3>2 DEF ThrottleOK
  <2>5. x - 1 <= TotalFiles \div ReportStep
    BY <2>4, Fits
  <2>6. TotalFiles \div ReportStep \in Int
    OBVIOUS
  <2>. QED BY <2>1, <2>5, <2>6
<1>5. TotalFiles \div ReportStep \in Int
  OBVIOUS
<1>6. Len(scan_rx) + Cardinality(Reports("scan")) <= TotalFiles \div ReportStep + 1
  BY <1>2, <1>3, <1>4, <1>5
<1>. QED BY <1>1, <1>6 DEF ScanReportsAreThrottled, ThrottleOK

LEMMA PackagesAreInOrder == SessionIInv => PackagesReportedInOrder
<1>. SUFFICES ASSUME SessionIInv PROVE PackagesReportedInOrder
  OBVIOUS
<1>1. PackagesOK /\ NoneLost /\ QueueOK
  BY DEF SessionIInv
<1>2. ASSUME task = "ended", progress_supported, panics = 0
      PROVE  Cardinality(Reports("package")) = total
  <2>1. done[indexer] = 1 /\ progress_rx = <<>>
    BY <1>2, Ended
  <2>2. packages[indexer] = <<>>
    BY <1>1, <1>2, <2>1 DEF NoneLost
  <2>3. Len(packages[indexer]) = 0 /\ Len(progress_rx) = 0 /\ total \in Nat
    BY <1>1, <2>1, <2>2 DEF PackagesOK
  <2>4. Through - Len(progress_rx) = total
    <3>1. (total - 0) - 0 = total
      BY <2>3
    <3>. QED BY <2>3, <3>1, Zenon DEF Through
  <2>. QED BY <1>1, <1>2, <2>4, Zenon DEF PackagesOK
<1>. QED BY <1>1, <1>2 DEF PackagesReportedInOrder, PackagesOK

LEMMA SessionTypes == SessionIInv => SessionTypeOK
<1>. SUFFICES ASSUME SessionIInv PROVE SessionTypeOK
  OBVIOUS
<1>1. TaskOK /\ PackagesOK /\ CountsOK /\ ThrottleOK /\ QueueOK /\ cache_opened \in BOOLEAN
  BY DEF SessionIInv, FilesOK, CacheOK
<1>2. progress_rx \in Seq(1 .. total)
  <2>1. /\ total \in Nat /\ progress_rx \in Seq(Nat) /\ packages[indexer] \in Seq(Packages)
        /\ Len(packages[indexer]) \in Nat
    BY <1>1, Constants DEF PackagesOK, QueueOK
  <2>2. PICK x \in Int : x = Through
    BY <2>1, ThroughType
  <2>3. x <= total
    <3>1. x = total - Len(packages[indexer])
      BY <2>2 DEF Through
    <3>. QED BY <2>1, <3>1
  <2>. DEFINE k == Len(progress_rx)
  <2>4. k \in Nat /\ k <= x /\ \A i \in 1 .. k : progress_rx[i] = x - k + i
    BY <1>1, <2>1, <2>2 DEF PackagesOK
  <2>5. \A i \in 1 .. k : progress_rx[i] \in 1 .. total
    <3>. HIDE DEF k
    <3>1. ASSUME NEW i \in 1 .. k PROVE x - k + i \in 1 .. total
      BY <2>1, <2>2, <2>3, <2>4
    <3>. QED BY <2>4, <3>1
  <2>. QED BY <2>1, <2>5
<1>3. /\ task \in {"initialize", "create", "begin", "scan", "join_scan", "report", "spawn",
                   "join_index", "join_forwarder", "end", "ended"}
      /\ forwarder \in {"off", "on", "gone"}
  BY <1>1 DEF TaskOK, Early, Passing, Rootless
<1>4. progress_supported \in BOOLEAN /\ panics \in 0 .. MaxPanics
  BY <1>1 DEF TaskOK
<1>5. /\ {todo, indexed, errors, last_progress} \subseteq 0 .. TotalFiles
      /\ worker \in [Workers -> [pc: {"off", "take", "load", "exchange", "send", "gone"},
                                 count: 0 .. TotalFiles, prev: 0 .. TotalFiles]]
      /\ indexed + errors <= TotalFiles - todo /\ last_progress <= indexed
  BY <1>1, Zenon DEF CountsOK, WorkerRecord
<1>6. scan_rx \in Seq(1 .. TotalFiles)
  BY <1>1 DEF ThrottleOK
<1>. QED BY <1>1, <1>2, <1>3, <1>4, <1>5, <1>6, Zenon DEF SessionTypeOK

\* What the client is sent from `initialized` on is Begin, the scan's reports,
\* the packages' one by one, End and nothing else, however the scan's threads
\* race for the report and wherever a parse panics; and no more than a report
\* per ReportStep files and one for the last (server.rs:303, workspace.rs:667).
THEOREM SessionIsOrderly == SessionSpec => []SessionInv
<1>1. SessionIInv => SessionInv
  BY SessionTypes, PackagesAreInOrder, ReportsAreThrottled
     DEF SessionInv, SessionIInv, ReportsOK
<1>. QED BY <1>1, SessionInvariance, PTL

\* When End was sent and nothing panicked, every file of a scan that has its
\* cache was counted or was an error, a scan without its cache touched none,
\* and every package that initialize resolved is indexed (server.rs:303).
THEOREM IndexingIsOverAtTheEnd == SessionSpec => []EndMeansIndexed
<1>1. ASSUME SessionIInv, task = "ended", panics = 0, workspace_root
      PROVE  /\ cache_opened => todo = 0 /\ indexed + errors = TotalFiles
             /\ ~cache_opened => todo = TotalFiles /\ indexed = 0
             /\ queued \subseteq indexed_packages /\ ~indexing_in_progress
  <2>1. forwarder = "gone" /\ done[indexer] = 1
    BY <1>1, Ended
  <2>2. pc[indexer] \notin PassPC
    BY <1>1, <2>1, Constants DEF SessionIInv, QueueOK, PassPC
  <2>3. packages[indexer] = <<>> /\ pending_packages = <<>> /\ ~indexing_in_progress
    BY <1>1, <2>1, <2>2, Zenon DEF SessionIInv, NoneLost
  <2>4. ToSet(packages[indexer]) = {} /\ ToSet(pending_packages) = {}
    BY <2>3 DEF ToSet
  <2>5. queued \subseteq indexed_packages
    BY <1>1, <2>4 DEF SessionIInv, NoneLost
  <2>6. \E w \in Workers : At(w, "gone")
    BY <1>1, <2>1, Constants DEF SessionIInv, FilesOK, ScanDone
  <2>7. cache_opened => todo = 0 /\ indexed + errors = TotalFiles - todo
    BY <1>1, <2>6 DEF SessionIInv, FilesOK
  <2>8. ~cache_opened => todo = TotalFiles /\ indexed = 0
    BY <1>1 DEF SessionIInv, FilesOK, CacheOK
  <2>. QED BY <2>3, <2>5, <2>7, <2>8, Constants
<1>2. SessionIInv => EndMeansIndexed
  BY <1>1, Zenon DEF EndMeansIndexed
<1>. QED BY <1>2, SessionInvariance, PTL
=============================================================================

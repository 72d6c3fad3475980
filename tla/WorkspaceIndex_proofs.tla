----------------------- MODULE WorkspaceIndex_proofs -----------------------
(***************************************************************************)
(* Proofs about WorkspaceIndex, for any number of threads, paths, names    *)
(* and symbols.  The invariant IInv is inductive: one lemma per action     *)
(* shows that the action keeps it, StepKeeps puts them together, and the   *)
(* first four theorems follow.  What the index holds, and the names that   *)
(* queries answer with, have invariants of their own, EInv and CInv.       *)
(***************************************************************************)
EXTENDS WorkspaceIndex, TLAPS, FiniteSetTheorems, SequenceTheorems

\* The records of an idle thread have the type of locals.
LEMMA NoLocals == NoOp \in Op /\ NoAsk \in Ask
BY NonEmptyAssumption, ContentsAssumption DEF NoOp, NoAsk, Op, Ask

-----------------------------------------------------------------------------
\* Starting an operation: the locals are set, no shared table changes.
LEMMA StartKeeps ==
    ASSUME IInv, NEW t \in Threads, NEW kind \in {"index", "install", "remove"},
           NEW p \in Paths, NEW c \in Contents, Start(t, kind, p, c),
           scan' \in [Threads -> {"no", "installing", "dropping"}]
    PROVE  IInv'
<1>. USE ContentsAssumption, SentinelAssumption, NoLocals
     DEF IInv, Start, Goto, index_vars, table_vars, fuzzy_vars, bounds
<1>1. TypeOK'
  <2>1. [kind |-> kind, path |-> p, symbols |-> c, names |-> <<>>,
         file_id |-> NoId, next |-> 1] \in Op
    BY DEF Op
  <2>2. op' \in [Threads -> Op]
    BY <2>1 DEF TypeOK
  <2>3. pc' \in [Threads -> {"idle"} \cup WriterPC \cup AskerPC]
    BY DEF TypeOK, WriterPC
  <2>4. writes' \in [Paths -> Nat]
    BY DEF TypeOK
  <2>. QED BY <2>2, <2>3, <2>4 DEF TypeOK
<1>2. FileIdTable'
  BY DEF FileIdTable, TypeOK, WriterInTable, LastIsNew
<1>3. ASSUME NEW n \in Names, NEW r \in definitions'[n] PROVE r.file_id < Len(id_to_path')
  BY DEF RefsInBounds, TypeOK, SymbolRef
<1>4. ASSUME NEW u \in Threads, NEW r \in ask'[u].refs PROVE r.file_id < Len(id_to_path')
  BY DEF RefsInBounds, TypeOK, Ask, NoAsk, SymbolRef
<1>5. ASSUME NEW u \in Threads, Pushing(u)' PROVE HasOwnId(u)'
  BY <1>5 DEF RefsInBounds, Pushing, HasOwnId, TypeOK, Op, FileIdTable
<1>6. ASSUME NEW u \in Threads PROVE pc'[u] = "insert_id" <=> table_writer' = u
  BY DEF WriterInTable, TypeOK
<1>7. ASSUME NEW u \in Threads, pc'[u] = "insert_id" PROVE LastIsNew(u)'
  BY <1>7 DEF WriterInTable, LastIsNew, TypeOK, Op, FileIdTable
<1>8. NamesLeft'
  BY DEF NamesLeft, TypeOK, Op
<1>. QED BY <1>1, <1>2, <1>3, <1>4, <1>5, <1>6, <1>7, <1>8 DEF RefsInBounds, WriterInTable

-----------------------------------------------------------------------------
\* Steps that only move the program counter, or set flags and the files map.
LEMMA FinishScanKeeps ==
    ASSUME IInv, NEW t \in Threads, FinishScan(t)
    PROVE  IInv'
<1>. USE ContentsAssumption, SentinelAssumption, NoLocals
     DEF IInv, FinishScan, Goto, index_vars, table_vars, fuzzy_vars, bounds
<1>1. TypeOK'
  BY DEF TypeOK, Op, Ask, WriterPC, AskerPC, SymbolRef, Location, Symbol
<1>2. FileIdTable'
  BY DEF FileIdTable, TypeOK, WriterInTable, LastIsNew
<1>3. ASSUME NEW n \in Names, NEW r \in definitions'[n] PROVE r.file_id < Len(id_to_path')
  BY DEF RefsInBounds, TypeOK, SymbolRef
<1>4. ASSUME NEW u \in Threads, NEW r \in ask'[u].refs PROVE r.file_id < Len(id_to_path')
  BY DEF RefsInBounds, TypeOK, Ask, NoAsk, SymbolRef
<1>5. ASSUME NEW u \in Threads, Pushing(u)' PROVE HasOwnId(u)'
  BY <1>5 DEF RefsInBounds, Pushing, HasOwnId, TypeOK, Op, FileIdTable
<1>6. ASSUME NEW u \in Threads PROVE pc'[u] = "insert_id" <=> table_writer' = u
  BY DEF WriterInTable, TypeOK
<1>7. ASSUME NEW u \in Threads, pc'[u] = "insert_id" PROVE LastIsNew(u)'
  BY <1>7 DEF WriterInTable, LastIsNew, TypeOK, Op, FileIdTable
<1>8. NamesLeft'
  BY DEF NamesLeft, TypeOK, Op
<1>. QED BY <1>1, <1>2, <1>3, <1>4, <1>5, <1>6, <1>7, <1>8 DEF RefsInBounds, WriterInTable

LEMMA EndPushKeeps ==
    ASSUME IInv, NEW t \in Threads, EndPush(t)
    PROVE  IInv'
<1>. USE ContentsAssumption, SentinelAssumption, NoLocals
     DEF IInv, EndPush, Goto, index_vars, table_vars, fuzzy_vars, bounds
<1>1. TypeOK'
  BY DEF TypeOK, Op, Ask, WriterPC, AskerPC, SymbolRef, Location, Symbol
<1>2. FileIdTable'
  BY DEF FileIdTable, TypeOK, WriterInTable, LastIsNew
<1>3. ASSUME NEW n \in Names, NEW r \in definitions'[n] PROVE r.file_id < Len(id_to_path')
  BY DEF RefsInBounds, TypeOK, SymbolRef
<1>4. ASSUME NEW u \in Threads, NEW r \in ask'[u].refs PROVE r.file_id < Len(id_to_path')
  BY DEF RefsInBounds, TypeOK, Ask, NoAsk, SymbolRef
<1>5. ASSUME NEW u \in Threads, Pushing(u)' PROVE HasOwnId(u)'
  BY <1>5 DEF RefsInBounds, Pushing, HasOwnId, TypeOK, Op, FileIdTable
<1>6. ASSUME NEW u \in Threads PROVE pc'[u] = "insert_id" <=> table_writer' = u
  BY DEF WriterInTable, TypeOK
<1>7. ASSUME NEW u \in Threads, pc'[u] = "insert_id" PROVE LastIsNew(u)'
  BY <1>7 DEF WriterInTable, LastIsNew, TypeOK, Op, FileIdTable
<1>8. NamesLeft'
  BY DEF NamesLeft, TypeOK, Op
<1>. QED BY <1>1, <1>2, <1>3, <1>4, <1>5, <1>6, <1>7, <1>8 DEF RefsInBounds, WriterInTable

LEMMA MarkDirtyKeeps ==
    ASSUME IInv, NEW t \in Threads, MarkDirty(t)
    PROVE  IInv'
<1>. USE ContentsAssumption, SentinelAssumption, NoLocals
     DEF IInv, MarkDirty, Goto, index_vars, table_vars, fuzzy_vars, bounds
<1>1. TypeOK'
  BY DEF TypeOK, Op, Ask, WriterPC, AskerPC, SymbolRef, Location, Symbol
<1>2. FileIdTable'
  BY DEF FileIdTable, TypeOK, WriterInTable, LastIsNew
<1>3. ASSUME NEW n \in Names, NEW r \in definitions'[n] PROVE r.file_id < Len(id_to_path')
  BY DEF RefsInBounds, TypeOK, SymbolRef
<1>4. ASSUME NEW u \in Threads, NEW r \in ask'[u].refs PROVE r.file_id < Len(id_to_path')
  BY DEF RefsInBounds, TypeOK, Ask, NoAsk, SymbolRef
<1>5. ASSUME NEW u \in Threads, Pushing(u)' PROVE HasOwnId(u)'
  BY <1>5 DEF RefsInBounds, Pushing, HasOwnId, TypeOK, Op, FileIdTable
<1>6. ASSUME NEW u \in Threads PROVE pc'[u] = "insert_id" <=> table_writer' = u
  BY DEF WriterInTable, TypeOK
<1>7. ASSUME NEW u \in Threads, pc'[u] = "insert_id" PROVE LastIsNew(u)'
  BY <1>7 DEF WriterInTable, LastIsNew, TypeOK, Op, FileIdTable
<1>8. NamesLeft'
  BY DEF NamesLeft, TypeOK, Op
<1>. QED BY <1>1, <1>2, <1>3, <1>4, <1>5, <1>6, <1>7, <1>8 DEF RefsInBounds, WriterInTable

LEMMA InsertFileKeeps ==
    ASSUME IInv, NEW t \in Threads, InsertFile(t)
    PROVE  IInv'
<1>. USE ContentsAssumption, SentinelAssumption, NoLocals
     DEF IInv, InsertFile, Goto, index_vars, table_vars, fuzzy_vars, bounds
<1>1. TypeOK'
  BY DEF TypeOK, Op, Ask, WriterPC, AskerPC, SymbolRef, Location, Symbol
<1>2. FileIdTable'
  BY DEF FileIdTable, TypeOK, WriterInTable, LastIsNew
<1>3. ASSUME NEW n \in Names, NEW r \in definitions'[n] PROVE r.file_id < Len(id_to_path')
  BY DEF RefsInBounds, TypeOK, SymbolRef
<1>4. ASSUME NEW u \in Threads, NEW r \in ask'[u].refs PROVE r.file_id < Len(id_to_path')
  BY DEF RefsInBounds, TypeOK, Ask, NoAsk, SymbolRef
<1>5. ASSUME NEW u \in Threads, Pushing(u)' PROVE HasOwnId(u)'
  BY <1>5 DEF RefsInBounds, Pushing, HasOwnId, TypeOK, Op, FileIdTable
<1>6. ASSUME NEW u \in Threads PROVE pc'[u] = "insert_id" <=> table_writer' = u
  BY DEF WriterInTable, TypeOK
<1>7. ASSUME NEW u \in Threads, pc'[u] = "insert_id" PROVE LastIsNew(u)'
  BY <1>7 DEF WriterInTable, LastIsNew, TypeOK, Op, FileIdTable
<1>8. NamesLeft'
  BY DEF NamesLeft, TypeOK, Op
<1>. QED BY <1>1, <1>2, <1>3, <1>4, <1>5, <1>6, <1>7, <1>8 DEF RefsInBounds, WriterInTable

LEMMA DropFileKeeps ==
    ASSUME IInv, NEW t \in Threads, DropFile(t)
    PROVE  IInv'
<1>. USE ContentsAssumption, SentinelAssumption, NoLocals
     DEF IInv, DropFile, Goto, index_vars, table_vars, fuzzy_vars, bounds
<1>1. TypeOK'
  BY DEF TypeOK, Op, Ask, WriterPC, AskerPC, SymbolRef, Location, Symbol
<1>2. FileIdTable'
  BY DEF FileIdTable, TypeOK, WriterInTable, LastIsNew
<1>3. ASSUME NEW n \in Names, NEW r \in definitions'[n] PROVE r.file_id < Len(id_to_path')
  BY DEF RefsInBounds, TypeOK, SymbolRef
<1>4. ASSUME NEW u \in Threads, NEW r \in ask'[u].refs PROVE r.file_id < Len(id_to_path')
  BY DEF RefsInBounds, TypeOK, Ask, NoAsk, SymbolRef
<1>5. ASSUME NEW u \in Threads, Pushing(u)' PROVE HasOwnId(u)'
  BY <1>5 DEF RefsInBounds, Pushing, HasOwnId, TypeOK, Op, FileIdTable
<1>6. ASSUME NEW u \in Threads PROVE pc'[u] = "insert_id" <=> table_writer' = u
  BY DEF WriterInTable, TypeOK
<1>7. ASSUME NEW u \in Threads, pc'[u] = "insert_id" PROVE LastIsNew(u)'
  BY <1>7 DEF WriterInTable, LastIsNew, TypeOK, Op, FileIdTable
<1>8. NamesLeft'
  BY DEF NamesLeft, TypeOK, Op
<1>. QED BY <1>1, <1>2, <1>3, <1>4, <1>5, <1>6, <1>7, <1>8 DEF RefsInBounds, WriterInTable

LEMMA FuzzyCheckKeeps ==
    ASSUME IInv, NEW t \in Threads, FuzzyCheck(t)
    PROVE  IInv'
<1>. USE ContentsAssumption, SentinelAssumption, NoLocals
     DEF IInv, FuzzyCheck, Goto, index_vars, table_vars, fuzzy_vars, bounds
<1>1. TypeOK'
  BY DEF TypeOK, Op, Ask, WriterPC, AskerPC, SymbolRef, Location, Symbol
<1>2. FileIdTable'
  BY DEF FileIdTable, TypeOK, WriterInTable, LastIsNew
<1>3. ASSUME NEW n \in Names, NEW r \in definitions'[n] PROVE r.file_id < Len(id_to_path')
  BY DEF RefsInBounds, TypeOK, SymbolRef
<1>4. ASSUME NEW u \in Threads, NEW r \in ask'[u].refs PROVE r.file_id < Len(id_to_path')
  BY DEF RefsInBounds, TypeOK, Ask, NoAsk, SymbolRef
<1>5. ASSUME NEW u \in Threads, Pushing(u)' PROVE HasOwnId(u)'
  BY <1>5 DEF RefsInBounds, Pushing, HasOwnId, TypeOK, Op, FileIdTable
<1>6. ASSUME NEW u \in Threads PROVE pc'[u] = "insert_id" <=> table_writer' = u
  BY DEF WriterInTable, TypeOK
<1>7. ASSUME NEW u \in Threads, pc'[u] = "insert_id" PROVE LastIsNew(u)'
  BY <1>7 DEF WriterInTable, LastIsNew, TypeOK, Op, FileIdTable
<1>8. NamesLeft'
  BY DEF NamesLeft, TypeOK, Op
<1>. QED BY <1>1, <1>2, <1>3, <1>4, <1>5, <1>6, <1>7, <1>8 DEF RefsInBounds, WriterInTable

LEMMA FuzzyCleanKeeps ==
    ASSUME IInv, NEW t \in Threads, FuzzyClean(t)
    PROVE  IInv'
<1>. USE ContentsAssumption, SentinelAssumption, NoLocals
     DEF IInv, FuzzyClean, Goto, index_vars, table_vars, fuzzy_vars, bounds
<1>1. TypeOK'
  BY DEF TypeOK, Op, Ask, WriterPC, AskerPC, SymbolRef, Location, Symbol
<1>2. FileIdTable'
  BY DEF FileIdTable, TypeOK, WriterInTable, LastIsNew
<1>3. ASSUME NEW n \in Names, NEW r \in definitions'[n] PROVE r.file_id < Len(id_to_path')
  BY DEF RefsInBounds, TypeOK, SymbolRef
<1>4. ASSUME NEW u \in Threads, NEW r \in ask'[u].refs PROVE r.file_id < Len(id_to_path')
  BY DEF RefsInBounds, TypeOK, Ask, NoAsk, SymbolRef
<1>5. ASSUME NEW u \in Threads, Pushing(u)' PROVE HasOwnId(u)'
  BY <1>5 DEF RefsInBounds, Pushing, HasOwnId, TypeOK, Op, FileIdTable
<1>6. ASSUME NEW u \in Threads PROVE pc'[u] = "insert_id" <=> table_writer' = u
  BY DEF WriterInTable, TypeOK
<1>7. ASSUME NEW u \in Threads, pc'[u] = "insert_id" PROVE LastIsNew(u)'
  BY <1>7 DEF WriterInTable, LastIsNew, TypeOK, Op, FileIdTable
<1>8. NamesLeft'
  BY DEF NamesLeft, TypeOK, Op
<1>. QED BY <1>1, <1>2, <1>3, <1>4, <1>5, <1>6, <1>7, <1>8 DEF RefsInBounds, WriterInTable

LEMMA ReadTableKeeps ==
    ASSUME IInv, NEW t \in Threads, ReadTable(t)
    PROVE  IInv'
<1>. USE ContentsAssumption, SentinelAssumption, NoLocals
     DEF IInv, ReadTable, Goto, index_vars, table_vars, fuzzy_vars, bounds
<1>1. TypeOK'
  BY DEF TypeOK, Op, Ask, WriterPC, AskerPC, SymbolRef, Location, Symbol
<1>2. FileIdTable'
  BY DEF FileIdTable, TypeOK, WriterInTable, LastIsNew
<1>3. ASSUME NEW n \in Names, NEW r \in definitions'[n] PROVE r.file_id < Len(id_to_path')
  BY DEF RefsInBounds, TypeOK, SymbolRef
<1>4. ASSUME NEW u \in Threads, NEW r \in ask'[u].refs PROVE r.file_id < Len(id_to_path')
  BY DEF RefsInBounds, TypeOK, Ask, NoAsk, SymbolRef
<1>5. ASSUME NEW u \in Threads, Pushing(u)' PROVE HasOwnId(u)'
  BY <1>5 DEF RefsInBounds, Pushing, HasOwnId, TypeOK, Op, FileIdTable
<1>6. ASSUME NEW u \in Threads PROVE pc'[u] = "insert_id" <=> table_writer' = u
  BY DEF WriterInTable, TypeOK
<1>7. ASSUME NEW u \in Threads, pc'[u] = "insert_id" PROVE LastIsNew(u)'
  BY <1>7 DEF WriterInTable, LastIsNew, TypeOK, Op, FileIdTable
<1>8. NamesLeft'
  BY DEF NamesLeft, TypeOK, Op
<1>. QED BY <1>1, <1>2, <1>3, <1>4, <1>5, <1>6, <1>7, <1>8 DEF RefsInBounds, WriterInTable

LEMMA EndResolveKeeps ==
    ASSUME IInv, NEW t \in Threads, EndResolve(t)
    PROVE  IInv'
<1>. USE ContentsAssumption, SentinelAssumption, NoLocals
     DEF IInv, EndResolve, Goto, index_vars, table_vars, fuzzy_vars, bounds
<1>1. TypeOK'
  BY DEF TypeOK, Op, Ask, WriterPC, AskerPC, SymbolRef, Location, Symbol
<1>2. FileIdTable'
  BY DEF FileIdTable, TypeOK, WriterInTable, LastIsNew
<1>3. ASSUME NEW n \in Names, NEW r \in definitions'[n] PROVE r.file_id < Len(id_to_path')
  BY DEF RefsInBounds, TypeOK, SymbolRef
<1>4. ASSUME NEW u \in Threads, NEW r \in ask'[u].refs PROVE r.file_id < Len(id_to_path')
  BY DEF RefsInBounds, TypeOK, Ask, NoAsk, SymbolRef
<1>5. ASSUME NEW u \in Threads, Pushing(u)' PROVE HasOwnId(u)'
  BY <1>5 DEF RefsInBounds, Pushing, HasOwnId, TypeOK, Op, FileIdTable
<1>6. ASSUME NEW u \in Threads PROVE pc'[u] = "insert_id" <=> table_writer' = u
  BY DEF WriterInTable, TypeOK
<1>7. ASSUME NEW u \in Threads, pc'[u] = "insert_id" PROVE LastIsNew(u)'
  BY <1>7 DEF WriterInTable, LastIsNew, TypeOK, Op, FileIdTable
<1>8. NamesLeft'
  BY DEF NamesLeft, TypeOK, Op
<1>. QED BY <1>1, <1>2, <1>3, <1>4, <1>5, <1>6, <1>7, <1>8 DEF RefsInBounds, WriterInTable

LEMMA ReturnKeeps ==
    ASSUME IInv, NEW t \in Threads, Return(t)
    PROVE  IInv'
<1>. USE ContentsAssumption, SentinelAssumption, NoLocals
     DEF IInv, Return, Goto, index_vars, table_vars, fuzzy_vars, bounds
<1>1. TypeOK'
  BY DEF TypeOK, Op, Ask, WriterPC, AskerPC, SymbolRef, Location, Symbol
<1>2. FileIdTable'
  BY DEF FileIdTable, TypeOK, WriterInTable, LastIsNew
<1>3. ASSUME NEW n \in Names, NEW r \in definitions'[n] PROVE r.file_id < Len(id_to_path')
  BY DEF RefsInBounds, TypeOK, SymbolRef
<1>4. ASSUME NEW u \in Threads, NEW r \in ask'[u].refs PROVE r.file_id < Len(id_to_path')
  BY DEF RefsInBounds, TypeOK, Ask, NoAsk, SymbolRef
<1>5. ASSUME NEW u \in Threads, Pushing(u)' PROVE HasOwnId(u)'
  BY <1>5 DEF RefsInBounds, Pushing, HasOwnId, TypeOK, Op, FileIdTable
<1>6. ASSUME NEW u \in Threads PROVE pc'[u] = "insert_id" <=> table_writer' = u
  BY DEF WriterInTable, TypeOK
<1>7. ASSUME NEW u \in Threads, pc'[u] = "insert_id" PROVE LastIsNew(u)'
  BY <1>7 DEF WriterInTable, LastIsNew, TypeOK, Op, FileIdTable
<1>8. NamesLeft'
  BY DEF NamesLeft, TypeOK, Op
<1>. QED BY <1>1, <1>2, <1>3, <1>4, <1>5, <1>6, <1>7, <1>8 DEF RefsInBounds, WriterInTable

-----------------------------------------------------------------------------
\* remove_definitions_for_file: refs are only taken away, and the loop has a
\* name left whenever it turns.
LEMMA ReadOldNamesKeeps ==
    ASSUME IInv, NEW t \in Threads, ReadOldNames(t)
    PROVE  IInv'
<1>. USE ContentsAssumption, SentinelAssumption, NoLocals
     DEF IInv, ReadOldNames, AfterRemoval, NextName, Goto,
         index_vars, table_vars, fuzzy_vars, bounds
<1>0. /\ op' \in [Threads -> Op]
      /\ \A u \in Threads : u # t => op'[u] = op[u] /\ pc'[u] = pc[u]
      /\ pc'[t] \in {"old_id", "retain", "drop_key", "lookup_id", "remove_file"}
      /\ pc'[t] \in {"retain", "drop_key"} => op'[t].names # <<>>
  <2>1. CASE files[op[t].path] = NoFile
    BY <2>1 DEF TypeOK
  <2>2. CASE files[op[t].path] # NoFile
    <3>. DEFINE old == files[op[t].path]
    <3>1. old \in Seq(Symbol)
      BY <2>2 DEF TypeOK, Op
    <3>2. [i \in 1..Len(old) |-> old[i].name] \in Seq(Names)
      <4>1. Len(old) \in Nat
        BY <3>1, LenProperties
      <4>2. ASSUME NEW i \in 1..Len(old) PROVE old[i].name \in Names
        <5>1. old[i] \in Symbol
          BY <3>1, ElementOfSeq
        <5>. QED BY <5>1 DEF Symbol
      <4>3. [i \in 1..Len(old) |-> old[i].name] \in [1..Len(old) -> Names]
        BY <4>2
      <4>. QED BY <4>1, <4>3, SeqDef
    <3>3. op' = [op EXCEPT ![t].names = [i \in 1..Len(old) |-> old[i].name]]
      BY <2>2
    <3>4. op' \in [Threads -> Op]
      BY <3>2, <3>3 DEF TypeOK, Op
    <3>. QED BY <2>2, <3>3, <3>4 DEF TypeOK
  <2>. QED BY <2>1, <2>2
<1>1. TypeOK'
  <2>1. pc' \in [Threads -> {"idle"} \cup WriterPC \cup AskerPC]
    BY <1>0 DEF TypeOK, WriterPC
  <2>. QED BY <1>0, <2>1 DEF TypeOK
<1>2. FileIdTable'
  BY DEF FileIdTable, TypeOK, WriterInTable, LastIsNew
<1>3. ASSUME NEW n \in Names, NEW r \in definitions'[n] PROVE r.file_id < Len(id_to_path')
  BY DEF RefsInBounds, TypeOK, SymbolRef
<1>4. ASSUME NEW u \in Threads, NEW r \in ask'[u].refs PROVE r.file_id < Len(id_to_path')
  BY DEF RefsInBounds, TypeOK, Ask, NoAsk, SymbolRef
<1>5. ASSUME NEW u \in Threads, Pushing(u)' PROVE HasOwnId(u)'
  BY <1>0, <1>5 DEF RefsInBounds, Pushing, HasOwnId
<1>6. ASSUME NEW u \in Threads PROVE pc'[u] = "insert_id" <=> table_writer' = u
  BY DEF WriterInTable, TypeOK
<1>7. ASSUME NEW u \in Threads, pc'[u] = "insert_id" PROVE LastIsNew(u)'
  BY <1>0, <1>7 DEF WriterInTable, LastIsNew
<1>8. NamesLeft'
  BY <1>0 DEF NamesLeft
<1>. QED BY <1>1, <1>2, <1>3, <1>4, <1>5, <1>6, <1>7, <1>8 DEF RefsInBounds, WriterInTable

LEMMA ReadOldIdKeeps ==
    ASSUME IInv, NEW t \in Threads, ReadOldId(t)
    PROVE  IInv'
<1>. USE ContentsAssumption, SentinelAssumption, NoLocals
     DEF IInv, ReadOldId, AfterRemoval, NextName, Goto,
         index_vars, table_vars, fuzzy_vars, bounds
<1>0. /\ op' \in [Threads -> Op]
      /\ \A u \in Threads : u # t => op'[u] = op[u] /\ pc'[u] = pc[u]
      /\ pc'[t] \in {"old_id", "retain", "drop_key", "lookup_id", "remove_file"}
      /\ pc'[t] \in {"retain", "drop_key"} => op'[t].names # <<>>
  <2>1. CASE file_ids[op[t].path] = NoId
    BY <2>1 DEF TypeOK
  <2>2. CASE file_ids[op[t].path] # NoId
    <3>1. op' = [op EXCEPT ![t].file_id = file_ids[op[t].path]]
      BY <2>2
    <3>2. op' \in [Threads -> Op]
      BY <3>1 DEF TypeOK, Op
    <3>3. op'[t].names = op[t].names
      BY <3>1 DEF TypeOK, Op
    <3>. QED BY <2>2, <3>1, <3>2, <3>3 DEF TypeOK
  <2>. QED BY <2>1, <2>2
<1>1. TypeOK'
  <2>1. pc' \in [Threads -> {"idle"} \cup WriterPC \cup AskerPC]
    BY <1>0 DEF TypeOK, WriterPC
  <2>. QED BY <1>0, <2>1 DEF TypeOK
<1>2. FileIdTable'
  BY DEF FileIdTable, TypeOK, WriterInTable, LastIsNew
<1>3. ASSUME NEW n \in Names, NEW r \in definitions'[n] PROVE r.file_id < Len(id_to_path')
  BY DEF RefsInBounds, TypeOK, SymbolRef
<1>4. ASSUME NEW u \in Threads, NEW r \in ask'[u].refs PROVE r.file_id < Len(id_to_path')
  BY DEF RefsInBounds, TypeOK, Ask, NoAsk, SymbolRef
<1>5. ASSUME NEW u \in Threads, Pushing(u)' PROVE HasOwnId(u)'
  BY <1>0, <1>5 DEF RefsInBounds, Pushing, HasOwnId
<1>6. ASSUME NEW u \in Threads PROVE pc'[u] = "insert_id" <=> table_writer' = u
  BY DEF WriterInTable, TypeOK
<1>7. ASSUME NEW u \in Threads, pc'[u] = "insert_id" PROVE LastIsNew(u)'
  BY <1>0, <1>7 DEF WriterInTable, LastIsNew
<1>8. NamesLeft'
  BY <1>0 DEF NamesLeft
<1>. QED BY <1>1, <1>2, <1>3, <1>4, <1>5, <1>6, <1>7, <1>8 DEF RefsInBounds, WriterInTable

LEMMA RetainKeeps ==
    ASSUME IInv, NEW t \in Threads, Retain(t)
    PROVE  IInv'
<1>. USE ContentsAssumption, SentinelAssumption, NoLocals
     DEF IInv, Retain, AfterRemoval, NextName, Goto,
         index_vars, table_vars, fuzzy_vars, bounds
<1>0. /\ op' \in [Threads -> Op]
      /\ \A u \in Threads : u # t => op'[u] = op[u] /\ pc'[u] = pc[u]
      /\ pc'[t] \in {"old_id", "retain", "drop_key", "lookup_id", "remove_file"}
      /\ pc'[t] \in {"retain", "drop_key"} => op'[t].names # <<>>
  <2>. DEFINE name == Head(op[t].names)
              kept == {r \in definitions[name] : r.file_id # op[t].file_id}
  <2>1. CASE name \in def_keys /\ kept = {}
    BY <2>1 DEF TypeOK, NamesLeft
  <2>2. CASE ~(name \in def_keys /\ kept = {})
    <3>1. op[t].names \in Seq(Names) /\ op[t].names # <<>>
      BY DEF TypeOK, Op, NamesLeft
    <3>2. Tail(op[t].names) \in Seq(Names)
      BY <3>1
    <3>3. op' = [op EXCEPT ![t].names = Tail(op[t].names)]
      BY <2>2 DEF TypeOK, Op
    <3>4. op' \in [Threads -> Op] /\ op'[t].names = Tail(op[t].names)
      <4>1. op \in [Threads -> Op] /\ op[t] \in Op
        BY DEF TypeOK
      <4>2. [op[t] EXCEPT !.names = Tail(op[t].names)] \in Op
        BY <3>2, <4>1 DEF Op
      <4>3. op' = [op EXCEPT ![t] = [op[t] EXCEPT !.names = Tail(op[t].names)]]
        BY <3>3
      <4>4. op'[t] = [op[t] EXCEPT !.names = Tail(op[t].names)]
        BY <4>1, <4>3
      <4>5. op'[t].names = Tail(op[t].names)
        BY <4>1, <4>4 DEF Op
      <4>. QED BY <4>1, <4>2, <4>3, <4>5
    <3>. QED BY <2>2, <3>3, <3>4 DEF TypeOK
  <2>. QED BY <2>1, <2>2
<1>1. TypeOK'
  <2>1. pc' \in [Threads -> {"idle"} \cup WriterPC \cup AskerPC]
    BY <1>0 DEF TypeOK, WriterPC
  <2>2. Head(op[t].names) \in Names
    BY DEF TypeOK, Op, NamesLeft
  <2>3. definitions' \in [Names -> SUBSET SymbolRef]
    BY <2>2 DEF TypeOK
  <2>4. ASSUME NEW n \in Names PROVE IsFiniteSet(definitions'[n])
    BY <2>2, FS_Subset DEF TypeOK
  <2>. QED BY <1>0, <2>1, <2>3, <2>4 DEF TypeOK
<1>2. FileIdTable'
  BY DEF FileIdTable, TypeOK, WriterInTable, LastIsNew
<1>3. ASSUME NEW n \in Names, NEW r \in definitions'[n] PROVE r.file_id < Len(id_to_path')
  BY DEF RefsInBounds, TypeOK, SymbolRef
<1>4. ASSUME NEW u \in Threads, NEW r \in ask'[u].refs PROVE r.file_id < Len(id_to_path')
  BY DEF RefsInBounds, TypeOK, Ask, NoAsk, SymbolRef
<1>5. ASSUME NEW u \in Threads, Pushing(u)' PROVE HasOwnId(u)'
  BY <1>0, <1>5 DEF RefsInBounds, Pushing, HasOwnId
<1>6. ASSUME NEW u \in Threads PROVE pc'[u] = "insert_id" <=> table_writer' = u
  BY DEF WriterInTable, TypeOK
<1>7. ASSUME NEW u \in Threads, pc'[u] = "insert_id" PROVE LastIsNew(u)'
  BY <1>0, <1>7 DEF WriterInTable, LastIsNew
<1>8. NamesLeft'
  BY <1>0 DEF NamesLeft
<1>. QED BY <1>1, <1>2, <1>3, <1>4, <1>5, <1>6, <1>7, <1>8 DEF RefsInBounds, WriterInTable

LEMMA DropKeyKeeps ==
    ASSUME IInv, NEW t \in Threads, DropKey(t)
    PROVE  IInv'
<1>. USE ContentsAssumption, SentinelAssumption, NoLocals
     DEF IInv, DropKey, AfterRemoval, NextName, Goto,
         index_vars, table_vars, fuzzy_vars, bounds
<1>0. /\ op' \in [Threads -> Op]
      /\ \A u \in Threads : u # t => op'[u] = op[u] /\ pc'[u] = pc[u]
      /\ pc'[t] \in {"old_id", "retain", "drop_key", "lookup_id", "remove_file"}
      /\ pc'[t] \in {"retain", "drop_key"} => op'[t].names # <<>>
  <2>. QED
    <3>1. op[t].names \in Seq(Names) /\ op[t].names # <<>>
      BY DEF TypeOK, Op, NamesLeft
    <3>2. Tail(op[t].names) \in Seq(Names)
      BY <3>1
    <3>3. op' = [op EXCEPT ![t].names = Tail(op[t].names)]
      BY DEF TypeOK, Op
    <3>4. op' \in [Threads -> Op] /\ op'[t].names = Tail(op[t].names)
      <4>1. op \in [Threads -> Op] /\ op[t] \in Op
        BY DEF TypeOK
      <4>2. [op[t] EXCEPT !.names = Tail(op[t].names)] \in Op
        BY <3>2, <4>1 DEF Op
      <4>3. op' = [op EXCEPT ![t] = [op[t] EXCEPT !.names = Tail(op[t].names)]]
        BY <3>3
      <4>4. op'[t] = [op[t] EXCEPT !.names = Tail(op[t].names)]
        BY <4>1, <4>3
      <4>5. op'[t].names = Tail(op[t].names)
        BY <4>1, <4>4 DEF Op
      <4>. QED BY <4>1, <4>2, <4>3, <4>5
    <3>. QED BY <3>3, <3>4 DEF TypeOK
<1>1. TypeOK'
  <2>1. pc' \in [Threads -> {"idle"} \cup WriterPC \cup AskerPC]
    BY <1>0 DEF TypeOK, WriterPC
  <2>2. Head(op[t].names) \in Names
    BY DEF TypeOK, Op, NamesLeft
  <2>3. definitions' \in [Names -> SUBSET SymbolRef] /\ def_keys' \subseteq Names
    BY <2>2 DEF TypeOK
  <2>4. ASSUME NEW n \in Names PROVE IsFiniteSet(definitions'[n])
    BY <2>2, FS_EmptySet DEF TypeOK
  <2>. QED BY <1>0, <2>1, <2>3, <2>4 DEF TypeOK
<1>2. FileIdTable'
  BY DEF FileIdTable, TypeOK, WriterInTable, LastIsNew
<1>3. ASSUME NEW n \in Names, NEW r \in definitions'[n] PROVE r.file_id < Len(id_to_path')
  BY DEF RefsInBounds, TypeOK, SymbolRef
<1>4. ASSUME NEW u \in Threads, NEW r \in ask'[u].refs PROVE r.file_id < Len(id_to_path')
  BY DEF RefsInBounds, TypeOK, Ask, NoAsk, SymbolRef
<1>5. ASSUME NEW u \in Threads, Pushing(u)' PROVE HasOwnId(u)'
  BY <1>0, <1>5 DEF RefsInBounds, Pushing, HasOwnId
<1>6. ASSUME NEW u \in Threads PROVE pc'[u] = "insert_id" <=> table_writer' = u
  BY DEF WriterInTable, TypeOK
<1>7. ASSUME NEW u \in Threads, pc'[u] = "insert_id" PROVE LastIsNew(u)'
  BY <1>0, <1>7 DEF WriterInTable, LastIsNew
<1>8. NamesLeft'
  BY <1>0 DEF NamesLeft
<1>. QED BY <1>1, <1>2, <1>3, <1>4, <1>5, <1>6, <1>7, <1>8 DEF RefsInBounds, WriterInTable

-----------------------------------------------------------------------------
\* get_or_create_file_id: the id a thread leaves with is its own path's.
LEMMA LookupIdKeeps ==
    ASSUME IInv, NEW t \in Threads, LookupId(t)
    PROVE  IInv'
<1>. USE ContentsAssumption, SentinelAssumption, NoLocals
     DEF IInv, LookupId, Goto, index_vars, table_vars, fuzzy_vars, bounds
<1>0. /\ op' \in [Threads -> Op]
      /\ \A u \in Threads : u # t => op'[u] = op[u] /\ pc'[u] = pc[u]
      /\ op'[t].path = op[t].path
      /\ op'[t].names = op[t].names
      /\ pc'[t] \in {"push", "lock_table", "insert_id"}
  <2>1. CASE file_ids[op[t].path] = NoId
    BY <2>1 DEF TypeOK
  <2>2. CASE file_ids[op[t].path] # NoId
    <3>1. op' = [op EXCEPT ![t].file_id = file_ids[op[t].path]]
      BY <2>2
    <3>2. op' \in [Threads -> Op] /\ op'[t].names = op[t].names /\ op'[t].path = op[t].path
      BY <3>1 DEF TypeOK, Op
    <3>. QED BY <2>2, <3>1, <3>2 DEF TypeOK
  <2>. QED BY <2>1, <2>2
<1>1. TypeOK'
  <2>1. pc' \in [Threads -> {"idle"} \cup WriterPC \cup AskerPC]
    BY <1>0 DEF TypeOK, WriterPC
  <2>. QED BY <1>0, <2>1 DEF TypeOK
<1>2. FileIdTable'
  BY DEF FileIdTable, TypeOK, WriterInTable, LastIsNew
<1>3. ASSUME NEW n \in Names, NEW r \in definitions'[n] PROVE r.file_id < Len(id_to_path')
  BY DEF RefsInBounds, TypeOK, SymbolRef
<1>4. ASSUME NEW u \in Threads, NEW r \in ask'[u].refs PROVE r.file_id < Len(id_to_path')
  BY DEF RefsInBounds, TypeOK, Ask, NoAsk, SymbolRef
<1>5. ASSUME NEW u \in Threads, Pushing(u)' PROVE HasOwnId(u)'
  <2>1. CASE u = t
    <3>1. file_ids[op[t].path] # NoId /\ op'[t].file_id = file_ids[op[t].path]
      BY <1>5, <2>1 DEF Pushing, TypeOK, Op
    <3>2. op[t].path \in Paths /\ id_to_path' = id_to_path
      BY DEF TypeOK, Op
    <3>3. file_ids[op[t].path] \in Nat /\ Len(id_to_path) \in Nat
      BY <3>1, <3>2 DEF TypeOK
    <3>4. /\ file_ids[op[t].path] < Len(id_to_path)
          /\ id_to_path[file_ids[op[t].path] + 1] = op[t].path
      BY <3>1, <3>2 DEF FileIdTable
    <3>. QED BY <1>0, <2>1, <3>1, <3>2, <3>3, <3>4 DEF HasOwnId
  <2>2. CASE u # t
    BY <1>0, <1>5, <2>2 DEF RefsInBounds, Pushing, HasOwnId
  <2>. QED BY <2>1, <2>2
<1>6. ASSUME NEW u \in Threads PROVE pc'[u] = "insert_id" <=> table_writer' = u
  BY DEF WriterInTable, TypeOK
<1>7. ASSUME NEW u \in Threads, pc'[u] = "insert_id" PROVE LastIsNew(u)'
  BY <1>0, <1>7 DEF WriterInTable, LastIsNew, TypeOK
<1>8. NamesLeft'
  BY <1>0 DEF NamesLeft
<1>. QED BY <1>1, <1>2, <1>3, <1>4, <1>5, <1>6, <1>7, <1>8 DEF RefsInBounds, WriterInTable

\* The path is appended under the write lock: it was not in the table, because
\* everyone who appended before has also inserted its id (FileIdTable), so no
\* path is in the table twice.
LEMMA LockTableKeeps ==
    ASSUME IInv, NEW t \in Threads, LockTable(t)
    PROVE  IInv'
<1>. USE SentinelAssumption DEF IInv, LockTable, Goto, index_vars, fuzzy_vars, bounds
<1>n. /\ Len(id_to_path) \in Nat
      /\ op[t].path \in Paths
      /\ file_ids' = file_ids
  BY DEF TypeOK, Op
<1>t. /\ op \in [Threads -> Op] /\ op[t] \in Op
      /\ pc \in [Threads -> {"idle"} \cup WriterPC \cup AskerPC]
  BY DEF TypeOK
<1>a. CASE file_ids[op[t].path] # NoId
  <2>1. op' = [op EXCEPT ![t].file_id = file_ids[op[t].path]]
        /\ UNCHANGED <<id_to_path, table_writer>> /\ pc' = [pc EXCEPT ![t] = "push"]
    BY <1>a
  <2>2. /\ op' \in [Threads -> Op]
        /\ op'[t].names = op[t].names /\ op'[t].path = op[t].path
        /\ op'[t].file_id = file_ids[op[t].path]
        /\ \A u \in Threads : u # t => op'[u] = op[u] /\ pc'[u] = pc[u]
        /\ pc'[t] = "push"
    <3>1. file_ids[op[t].path] \in Nat \cup {NoId}
      BY <1>n DEF TypeOK
    <3>2. [op[t] EXCEPT !.file_id = file_ids[op[t].path]] \in Op
      BY <1>t, <3>1 DEF Op
    <3>3. op' = [op EXCEPT ![t] = [op[t] EXCEPT !.file_id = file_ids[op[t].path]]]
      BY <2>1
    <3>4. op'[t] = [op[t] EXCEPT !.file_id = file_ids[op[t].path]]
      BY <1>t, <3>3
    <3>5. /\ op'[t].names = op[t].names /\ op'[t].path = op[t].path
          /\ op'[t].file_id = file_ids[op[t].path]
      BY <1>t, <3>4 DEF Op
    <3>. QED BY <1>t, <2>1, <3>2, <3>3, <3>5
  <2>3. TypeOK'
    BY <2>1, <2>2 DEF TypeOK, WriterPC
  <2>4. FileIdTable'
    BY <2>1 DEF FileIdTable
  <2>5. ASSUME NEW u \in Threads, Pushing(u)' PROVE HasOwnId(u)'
    <3>1. CASE u = t
      BY <1>n, <1>a, <2>1, <2>2, <3>1 DEF FileIdTable, HasOwnId, TypeOK
    <3>2. CASE u # t
      BY <2>1, <2>2, <2>5, <3>2 DEF RefsInBounds, Pushing, HasOwnId
    <3>. QED BY <3>1, <3>2
  <2>6. RefsInBounds'
    BY <2>1, <2>5 DEF RefsInBounds
  <2>7. WriterInTable'
    BY <2>1, <2>2 DEF WriterInTable, LastIsNew
  <2>8. NamesLeft'
    BY <2>2 DEF NamesLeft
  <2>. QED BY <2>3, <2>4, <2>6, <2>7, <2>8
<1>b. CASE file_ids[op[t].path] = NoId
  <2>. DEFINE len == Len(id_to_path)
  <2>1. /\ op' = [op EXCEPT ![t].file_id = len]
        /\ id_to_path' = Append(id_to_path, op[t].path)
        /\ table_writer' = t /\ pc' = [pc EXCEPT ![t] = "insert_id"]
    BY <1>b
  <2>2. /\ op' \in [Threads -> Op]
        /\ op'[t].names = op[t].names /\ op'[t].path = op[t].path
        /\ op'[t].file_id = len
        /\ \A u \in Threads : u # t => op'[u] = op[u] /\ pc'[u] = pc[u]
        /\ pc'[t] = "insert_id"
    <3>1. [op[t] EXCEPT !.file_id = len] \in Op
      BY <1>n, <1>t DEF Op
    <3>2. op' = [op EXCEPT ![t] = [op[t] EXCEPT !.file_id = len]]
      BY <2>1
    <3>3. op'[t] = [op[t] EXCEPT !.file_id = len]
      BY <1>t, <3>2
    <3>4. op'[t].names = op[t].names /\ op'[t].path = op[t].path /\ op'[t].file_id = len
      BY <1>t, <3>3 DEF Op
    <3>. QED BY <1>t, <2>1, <3>1, <3>2, <3>4
  <2>3. /\ id_to_path' \in Seq(Paths)
        /\ Len(id_to_path') = len + 1
        /\ \A i \in 1..len : id_to_path'[i] = id_to_path[i]
        /\ id_to_path'[len + 1] = op[t].path
    BY <1>n, <2>1 DEF TypeOK
  <2>4. \A u \in Threads : pc[u] # "insert_id"
    BY DEF WriterInTable, TypeOK
  <2>5. \A i \in 1..len : id_to_path[i] # op[t].path
    BY <1>n, <1>b DEF FileIdTable, TypeOK
  <2>6. TypeOK'
    BY <2>1, <2>2, <2>3 DEF TypeOK, WriterPC
  <2>7. FileIdTable'
    <3>1. \A i, j \in 1..(len + 1) : id_to_path'[i] = id_to_path'[j] => i = j
      BY <1>n, <2>3, <2>5 DEF FileIdTable
    <3>2. ASSUME NEW p \in Paths, file_ids[p] # NoId
          PROVE  file_ids[p] < len + 1 /\ id_to_path'[file_ids[p] + 1] = p
      <4>1. file_ids[p] \in Nat /\ file_ids[p] < len /\ id_to_path[file_ids[p] + 1] = p
        BY <3>2 DEF FileIdTable, TypeOK
      <4>. QED BY <1>n, <2>3, <4>1
    <3>. QED BY <1>n, <2>1, <2>3, <3>1, <3>2 DEF FileIdTable
  <2>8. ASSUME NEW u \in Threads, Pushing(u)' PROVE HasOwnId(u)'
    <3>1. CASE u = t
      BY <1>n, <2>2, <2>3, <3>1 DEF HasOwnId
    <3>2. CASE u # t
      <4>1. HasOwnId(u) /\ op'[u] = op[u]
        BY <2>2, <2>8, <3>2 DEF RefsInBounds, Pushing
      <4>. QED BY <1>n, <2>3, <4>1 DEF HasOwnId
    <3>. QED BY <3>1, <3>2
  <2>9. ASSUME NEW n \in Names, NEW r \in definitions[n] PROVE r.file_id < len + 1
    BY <1>n DEF RefsInBounds, TypeOK, SymbolRef
  <2>10. ASSUME NEW u \in Threads, NEW r \in ask[u].refs PROVE r.file_id < len + 1
    BY <1>n DEF RefsInBounds, TypeOK, Ask, SymbolRef
  <2>11. RefsInBounds'
    BY <2>3, <2>8, <2>9, <2>10 DEF RefsInBounds
  <2>12. LastIsNew(t)'
    BY <1>n, <1>b, <2>2, <2>3 DEF LastIsNew, FileIdTable
  <2>13. WriterInTable'
    BY <2>1, <2>2, <2>4, <2>12 DEF WriterInTable
  <2>14. NamesLeft'
    BY <2>2 DEF NamesLeft
  <2>. QED BY <2>6, <2>7, <2>11, <2>13, <2>14
<1>. QED BY <1>a, <1>b

\* file_ids gets the id of the last path of the table: the two are inverse again.
LEMMA InsertIdKeeps ==
    ASSUME IInv, NEW t \in Threads, InsertId(t)
    PROVE  IInv'
<1>. USE ContentsAssumption, SentinelAssumption, NoLocals
     DEF IInv, InsertId, Goto, index_vars, table_vars, fuzzy_vars, bounds
<1>1. TypeOK'
  BY DEF TypeOK, Op, Ask, WriterPC, AskerPC, SymbolRef, Location, Symbol
<1>2. FileIdTable'
  <2>. DEFINE path == op[t].path
              len == Len(id_to_path)
  <2>1. /\ len \in Nat /\ path \in Paths
        /\ op[t].file_id = len - 1 /\ op[t].file_id \in 0..(len - 1)
        /\ id_to_path[len] = path
        /\ file_ids[path] = NoId
        /\ \A i \in 1..(len - 1) : file_ids[id_to_path[i]] = i - 1
    BY DEF WriterInTable, LastIsNew, RefsInBounds, Pushing, HasOwnId, TypeOK, Op
  <2>2. /\ \A q \in Paths : q # path => file_ids'[q] = file_ids[q]
        /\ file_ids'[path] = len - 1
        /\ id_to_path' = id_to_path
    BY <2>1 DEF TypeOK
  <2>3. ASSUME NEW i \in 1..len PROVE file_ids'[id_to_path[i]] = i - 1
    <3>1. CASE i = len
      BY <2>1, <2>2, <3>1
    <3>2. CASE i # len
      <4>1. id_to_path[i] # path /\ id_to_path[i] \in Paths
        BY <2>1, <3>2 DEF FileIdTable, TypeOK
      <4>. QED BY <2>1, <2>2, <3>2, <4>1
    <3>. QED BY <3>1, <3>2
  <2>4. ASSUME NEW q \in Paths, file_ids'[q] # NoId
        PROVE  file_ids'[q] < len /\ id_to_path[file_ids'[q] + 1] = q
    <3>1. CASE q = path
      BY <2>1, <2>2, <3>1
    <3>2. CASE q # path
      BY <2>2, <2>4, <3>2 DEF FileIdTable
    <3>. QED BY <3>1, <3>2
  <2>. QED BY <2>2, <2>3, <2>4 DEF FileIdTable
<1>3. ASSUME NEW n \in Names, NEW r \in definitions'[n] PROVE r.file_id < Len(id_to_path')
  BY DEF RefsInBounds, TypeOK, SymbolRef
<1>4. ASSUME NEW u \in Threads, NEW r \in ask'[u].refs PROVE r.file_id < Len(id_to_path')
  BY DEF RefsInBounds, TypeOK, Ask, NoAsk, SymbolRef
<1>5. ASSUME NEW u \in Threads, Pushing(u)' PROVE HasOwnId(u)'
  BY <1>5 DEF RefsInBounds, Pushing, HasOwnId, TypeOK, Op, FileIdTable
<1>6. ASSUME NEW u \in Threads PROVE pc'[u] = "insert_id" <=> table_writer' = u
  BY DEF WriterInTable, TypeOK
<1>7. ASSUME NEW u \in Threads, pc'[u] = "insert_id" PROVE LastIsNew(u)'
  BY <1>7 DEF WriterInTable, LastIsNew, TypeOK, Op, FileIdTable
<1>8. NamesLeft'
  BY DEF NamesLeft, TypeOK, Op
<1>. QED BY <1>1, <1>2, <1>3, <1>4, <1>5, <1>6, <1>7, <1>8 DEF RefsInBounds, WriterInTable

-----------------------------------------------------------------------------
\* A ref is filed under the id its thread holds, which is in bounds.
LEMMA PushRefKeeps ==
    ASSUME IInv, NEW t \in Threads, PushRef(t)
    PROVE  IInv'
<1>. USE ContentsAssumption, SentinelAssumption
     DEF IInv
<1>. DEFINE sym == op[t].symbols[op[t].next]
            same == {r \in definitions[sym.name] :
                       r.file_id = op[t].file_id /\ r.symbol_idx = op[t].next}
            ref == [file_id |-> op[t].file_id, symbol_idx |-> op[t].next,
                    copy |-> Cardinality(same)]
<1>1. op \in [Threads -> Op] /\ op[t] \in Op /\ Len(id_to_path) \in Nat
  <2>1. op \in [Threads -> Op] /\ id_to_path \in Seq(Paths)
    BY DEF TypeOK
  <2>. QED BY <2>1, LenProperties
<1>0. /\ pc[t] = "push"
      /\ op[t].next <= Len(op[t].symbols)
      /\ op' = [op EXCEPT ![t].next = @ + 1]
      /\ UNCHANGED <<files, file_ids, id_to_path, table_writer, fuzzy, fuzzy_dirty,
                     scan, pc, ask, answer, writes, asks>>
  BY DEF PushRef, PushTurn, table_vars, fuzzy_vars, bounds
<1>2. op[t].file_id \in 0..(Len(id_to_path) - 1)
  BY <1>0 DEF RefsInBounds, Pushing, HasOwnId
<1>3. sym.name \in Names
  <2>1. op[t].symbols \in Seq(Symbol)
    BY <1>1 DEF Op
  <2>2. op[t].next \in 1..Len(op[t].symbols)
    <3>1. op[t].next \in Nat \ {0}
      BY <1>1 DEF Op
    <3>2. Len(op[t].symbols) \in Nat
      BY <2>1, LenProperties
    <3>. QED BY <1>0, <3>1, <3>2
  <2>3. sym \in Symbol
    BY <2>1, <2>2, ElementOfSeq
  <2>. QED BY <2>3 DEF Symbol
<1>4. ref \in SymbolRef
  <2>1. IsFiniteSet(same)
    BY <1>3, FS_Subset DEF TypeOK
  <2>2. Cardinality(same) \in Nat
    BY <2>1, FS_CardinalityType
  <2>. QED BY <1>1, <1>2, <2>2 DEF Op, SymbolRef
<1>5. /\ op' \in [Threads -> Op]
      /\ \A u \in Threads : /\ op'[u].file_id = op[u].file_id
                             /\ op'[u].path = op[u].path
                             /\ op'[u].names = op[u].names
  <2>0. op[t].next + 1 \in Nat \ {0}
    BY <1>1 DEF Op
  <2>1. [op[t] EXCEPT !.next = @ + 1] \in Op
    BY <1>1, <2>0 DEF Op
  <2>2. op' = [op EXCEPT ![t] = [op[t] EXCEPT !.next = @ + 1]]
    BY <1>0, <1>1
  <2>3. op'[t] = [op[t] EXCEPT !.next = @ + 1]
    BY <1>1, <2>2
  <2>4. /\ op'[t].file_id = op[t].file_id
        /\ op'[t].path = op[t].path
        /\ op'[t].names = op[t].names
    BY <1>1, <2>3 DEF Op
  <2>. QED BY <1>1, <2>1, <2>2, <2>4
<1>6. \/ UNCHANGED <<definitions, def_keys>>
      \/ /\ definitions' = [definitions EXCEPT ![sym.name] = @ \cup {ref}]
         /\ def_keys' = def_keys \cup {sym.name}
  BY DEF PushRef, PushTurn
<1>12. ref.file_id < Len(id_to_path)
  BY <1>1, <1>2
<1>16. definitions \in [Names -> SUBSET SymbolRef] /\ def_keys \subseteq Names
  BY DEF TypeOK
<1>. DEFINE name == sym.name
<1>17. name \in Names
  BY <1>3
<1>18. \/ UNCHANGED <<definitions, def_keys>>
       \/ /\ definitions' = [definitions EXCEPT ![name] = definitions[name] \cup {ref}]
          /\ def_keys' = def_keys \cup {name}
  BY <1>6
<1>. HIDE DEF sym, same, ref, name
<1>7. definitions' \in [Names -> SUBSET SymbolRef] /\ def_keys' \subseteq Names
  BY <1>4, <1>16, <1>17, <1>18
<1>8. ASSUME NEW n \in Names
      PROVE  definitions'[n] = definitions[n] \/ definitions'[n] = definitions[n] \cup {ref}
  BY <1>16, <1>17, <1>18
<1>9. ASSUME NEW n \in Names PROVE IsFiniteSet(definitions'[n])
  <2>1. IsFiniteSet(definitions[n])
    BY DEF TypeOK
  <2>2. IsFiniteSet(definitions[n] \cup {ref})
    BY <2>1, FS_AddElement
  <2>. QED BY <1>8, <2>1, <2>2
<1>10. TypeOK'
  BY <1>0, <1>5, <1>7, <1>9 DEF TypeOK
<1>11. FileIdTable'
  BY <1>0 DEF FileIdTable
<1>13. RefsInBounds'
  <2>1. ASSUME NEW n \in Names, NEW r \in definitions'[n] PROVE r.file_id < Len(id_to_path)
    BY <1>0, <1>8, <1>12 DEF RefsInBounds
  <2>2. ASSUME NEW u \in Threads, Pushing(u)' PROVE HasOwnId(u)'
    BY <1>0, <1>5, <2>2 DEF RefsInBounds, Pushing, HasOwnId
  <2>. QED BY <1>0, <2>1, <2>2 DEF RefsInBounds
<1>14. WriterInTable'
  BY <1>0, <1>5 DEF WriterInTable, LastIsNew
<1>15. NamesLeft'
  BY <1>0, <1>5 DEF NamesLeft
<1>. QED BY <1>10, <1>11, <1>13, <1>14, <1>15

-----------------------------------------------------------------------------
\* What a step of a query leaves as it was, and what it may change: its own
\* locals, the fuzzy index, the last answer and the bound.
LEMMA AskStepKeeps ==
    ASSUME IInv, NEW t \in Threads, NEW a \in Ask, NEW label \in AskerPC,
           ask' = [ask EXCEPT ![t] = a],
           \A r \in a.refs : r.file_id < Len(id_to_path),
           pc[t] \in {"idle"} \cup AskerPC,
           pc' = [pc EXCEPT ![t] = label],
           fuzzy' \subseteq Names,
           fuzzy_dirty' \in BOOLEAN,
           asks' \in Nat,
           UNCHANGED <<index_vars, table_vars, scan, op, answer, writes>>
    PROVE  IInv'
<1>. USE DEF IInv, index_vars, table_vars
<1>1. /\ pc' \in [Threads -> {"idle"} \cup WriterPC \cup AskerPC]
      /\ ask' \in [Threads -> Ask]
      /\ ask'[t] = a
      /\ \A u \in Threads : u # t => ask'[u] = ask[u]
      /\ \A u \in Threads : pc'[u] # pc[u] => u = t /\ pc'[u] \in AskerPC
  BY DEF TypeOK
<1>2. /\ "insert_id" \notin {"idle"} \cup AskerPC
      /\ AskerPC \cap {"insert_id", "push", "dirty", "insert_file", "retain", "drop_key"} = {}
  BY DEF AskerPC
<1>3. TypeOK'
  BY <1>1 DEF TypeOK
<1>4. FileIdTable'
  BY DEF FileIdTable
<1>5. RefsInBounds'
  BY <1>1, <1>2 DEF RefsInBounds, Pushing, HasOwnId
<1>6. WriterInTable'
  BY <1>1, <1>2 DEF WriterInTable, LastIsNew
<1>7. NamesLeft'
  BY <1>1, <1>2 DEF NamesLeft
<1>. QED BY <1>3, <1>4, <1>5, <1>6, <1>7

LEMMA StartAskKeeps ==
    ASSUME IInv, NEW t \in Threads, NEW wanted \in SUBSET Names,
           NEW fallback \in SUBSET Names, NEW label \in AskerPC,
           StartAsk(t, wanted, fallback, label)
    PROVE  IInv'
<1>. DEFINE a == [wanted |-> wanted, fallback |-> fallback, names |-> wanted,
                  todo |-> {}, name |-> NoAsk.name, refs |-> {}, found |-> {}]
<1>1. a \in Ask
  BY NoLocals DEF Ask
<1>2. /\ ask' = [ask EXCEPT ![t] = a] /\ pc' = [pc EXCEPT ![t] = label]
      /\ pc[t] = "idle" /\ asks' = asks + 1
      /\ UNCHANGED <<index_vars, table_vars, fuzzy, fuzzy_dirty, scan, op, answer, writes>>
  BY DEF StartAsk, Goto, fuzzy_vars
<1>3. a.refs = {}
  OBVIOUS
<1>4. fuzzy' \subseteq Names /\ fuzzy_dirty' \in BOOLEAN /\ asks' \in Nat
  BY <1>2 DEF IInv, TypeOK
<1>. HIDE DEF a
<1>. QED BY <1>1, <1>2, <1>3, <1>4, AskStepKeeps

LEMMA FuzzyLockKeeps ==
    ASSUME IInv, NEW t \in Threads, FuzzyLock(t)
    PROVE  IInv'
<1>. USE DEF FuzzyLock, Goto, bounds
<1>1. /\ ask \in [Threads -> Ask] /\ ask[t] \in Ask
      /\ \A r \in ask[t].refs : r.file_id < Len(id_to_path)
  BY DEF IInv, TypeOK, RefsInBounds
<1>2. /\ fuzzy' \subseteq Names /\ fuzzy_dirty' \in BOOLEAN /\ asks' \in Nat
      /\ UNCHANGED <<index_vars, table_vars, scan, op, answer, writes>>
      /\ pc[t] \in AskerPC
  BY DEF IInv, TypeOK, AskerPC
<1>3. CASE ~fuzzy_dirty
  <2>1. ask' = [ask EXCEPT ![t] = ask[t]] /\ pc' = [pc EXCEPT ![t] = "fuzzy_read"]
    BY <1>1, <1>3
  <2>2. "fuzzy_read" \in AskerPC
    BY DEF AskerPC
  <2>. QED BY <1>1, <1>2, <2>1, <2>2, AskStepKeeps
<1>4. CASE fuzzy_dirty
  <2>. DEFINE a == [ask[t] EXCEPT !.todo = Names]
  <2>1. ask' = [ask EXCEPT ![t] = a] /\ pc' = [pc EXCEPT ![t] = "fuzzy_build"]
    BY <1>1, <1>4
  <2>2. "fuzzy_build" \in AskerPC
    BY DEF AskerPC
  <2>3. a \in Ask /\ a.refs = ask[t].refs
    BY <1>1 DEF Ask
  <2>. HIDE DEF a
  <2>. QED BY <1>1, <1>2, <2>1, <2>2, <2>3, AskStepKeeps
<1>. QED BY <1>3, <1>4

LEMMA FuzzyIterKeeps ==
    ASSUME IInv, NEW t \in Threads, FuzzyIter(t)
    PROVE  IInv'
<1>1. PICK n \in ask[t].todo : /\ fuzzy' = fuzzy \cup ({n} \cap def_keys)
                               /\ ask' = [ask EXCEPT ![t].todo = @ \ {n}]
  BY DEF FuzzyIter
<1>. DEFINE a == [ask[t] EXCEPT !.todo = @ \ {n}]
<1>2. /\ ask \in [Threads -> Ask] /\ ask[t] \in Ask
      /\ \A r \in ask[t].refs : r.file_id < Len(id_to_path)
  BY DEF IInv, TypeOK, RefsInBounds
<1>3. a \in Ask /\ a.refs = ask[t].refs
  BY <1>2 DEF Ask
<1>4. ask' = [ask EXCEPT ![t] = a]
  BY <1>1, <1>2
<1>5. /\ fuzzy' \subseteq Names /\ fuzzy_dirty' \in BOOLEAN /\ asks' \in Nat
      /\ UNCHANGED <<index_vars, table_vars, scan, op, answer, writes>>
      /\ pc[t] = "fuzzy_build" /\ pc[t] \in AskerPC /\ pc' = [pc EXCEPT ![t] = "fuzzy_build"]
  BY <1>1 DEF FuzzyIter, IInv, TypeOK, AskerPC, bounds
<1>. HIDE DEF a
<1>. QED BY <1>2, <1>3, <1>4, <1>5, AskStepKeeps

LEMMA FuzzyReadKeeps ==
    ASSUME IInv, NEW t \in Threads, FuzzyRead(t)
    PROVE  IInv'
<1>. DEFINE a == [ask[t] EXCEPT !.names = ask[t].wanted \cap fuzzy]
<1>1. /\ ask \in [Threads -> Ask] /\ ask[t] \in Ask
      /\ \A r \in ask[t].refs : r.file_id < Len(id_to_path)
  BY DEF IInv, TypeOK, RefsInBounds
<1>2. a \in Ask /\ a.refs = ask[t].refs
  BY <1>1 DEF Ask
<1>3. ask' = [ask EXCEPT ![t] = a]
  BY <1>1 DEF FuzzyRead
<1>4. /\ fuzzy' \subseteq Names /\ fuzzy_dirty' \in BOOLEAN /\ asks' \in Nat
      /\ UNCHANGED <<index_vars, table_vars, scan, op, answer, writes>>
      /\ pc[t] \in AskerPC /\ "next_name" \in AskerPC /\ pc' = [pc EXCEPT ![t] = "next_name"]
  BY DEF FuzzyRead, Goto, IInv, TypeOK, AskerPC, bounds, fuzzy_vars
<1>. HIDE DEF a
<1>. QED BY <1>1, <1>2, <1>3, <1>4, AskStepKeeps

LEMMA GetEntryKeeps ==
    ASSUME IInv, NEW t \in Threads, GetEntry(t)
    PROVE  IInv'
<1>1. /\ ask \in [Threads -> Ask] /\ ask[t] \in Ask
      /\ \A r \in ask[t].refs : r.file_id < Len(id_to_path)
  BY DEF IInv, TypeOK, RefsInBounds
<1>2. /\ fuzzy' \subseteq Names /\ fuzzy_dirty' \in BOOLEAN /\ asks' \in Nat
      /\ UNCHANGED <<index_vars, table_vars, scan, op, answer, writes>>
      /\ pc[t] = "next_name" /\ pc[t] \in AskerPC /\ "read_table" \in AskerPC
  BY DEF GetEntry, IInv, TypeOK, AskerPC, bounds, fuzzy_vars
<1>3. PICK n \in ask[t].names :
        \/ /\ ask' = [ask EXCEPT ![t].names = @ \ {n}, ![t].name = n,
                                 ![t].refs = definitions[n]]
           /\ pc' = [pc EXCEPT ![t] = "read_table"]
        \/ ask' = [ask EXCEPT ![t].names = @ \ {n}] /\ UNCHANGED pc
  BY DEF GetEntry, Goto
<1>4. n \in Names
  BY <1>1 DEF Ask
<1>5. definitions[n] \in SUBSET SymbolRef /\ \A r \in definitions[n] : r.file_id < Len(id_to_path)
  BY <1>4 DEF IInv, TypeOK, RefsInBounds
<1>6. CASE /\ ask' = [ask EXCEPT ![t].names = @ \ {n}, ![t].name = n,
                                 ![t].refs = definitions[n]]
           /\ pc' = [pc EXCEPT ![t] = "read_table"]
  <2>. DEFINE a == [ask[t] EXCEPT !.names = @ \ {n}, !.name = n, !.refs = definitions[n]]
  <2>1. a \in Ask /\ a.refs = definitions[n]
    BY <1>1, <1>4, <1>5 DEF Ask
  <2>2. ask' = [ask EXCEPT ![t] = a]
    BY <1>1, <1>6
  <2>. HIDE DEF a
  <2>. QED BY <1>2, <1>5, <1>6, <2>1, <2>2, AskStepKeeps
<1>7. CASE ask' = [ask EXCEPT ![t].names = @ \ {n}] /\ UNCHANGED pc
  <2>. DEFINE a == [ask[t] EXCEPT !.names = @ \ {n}]
  <2>1. a \in Ask /\ a.refs = ask[t].refs
    BY <1>1 DEF Ask
  <2>2. ask' = [ask EXCEPT ![t] = a] /\ pc' = [pc EXCEPT ![t] = "next_name"]
    BY <1>1, <1>2, <1>7 DEF IInv, TypeOK
  <2>. HIDE DEF a
  <2>. QED BY <1>1, <1>2, <2>1, <2>2, AskStepKeeps
<1>. QED BY <1>3, <1>6, <1>7

LEMMA ResolveRefKeeps ==
    ASSUME IInv, NEW t \in Threads, ResolveRef(t)
    PROVE  IInv'
<1>1. /\ ask \in [Threads -> Ask] /\ ask[t] \in Ask
      /\ \A r \in ask[t].refs : r.file_id < Len(id_to_path)
  BY DEF IInv, TypeOK, RefsInBounds
<1>2. PICK r \in ask[t].refs :
        LET path == id_to_path[r.file_id + 1]
            entry == files[path]
        IN  ask' = [ask EXCEPT
                      ![t].refs = @ \ {r},
                      ![t].found =
                         IF entry # NoFile /\ r.symbol_idx \in 1..Len(entry)
                         THEN @ \cup {[file |-> path, symbol_idx |-> r.symbol_idx,
                                       copy |-> r.copy,
                                       name |-> entry[r.symbol_idx].name]}
                         ELSE @]
  BY DEF ResolveRef
<1>. DEFINE path == id_to_path[r.file_id + 1]
            entry == files[path]
            loc == [file |-> path, symbol_idx |-> r.symbol_idx, copy |-> r.copy,
                    name |-> entry[r.symbol_idx].name]
            found == IF entry # NoFile /\ r.symbol_idx \in 1..Len(entry)
                     THEN ask[t].found \cup {loc} ELSE ask[t].found
            a == [ask[t] EXCEPT !.refs = @ \ {r}, !.found = found]
<1>3. path \in Paths /\ r \in SymbolRef
  <2>1. r \in SymbolRef /\ r.file_id < Len(id_to_path)
    BY <1>1 DEF Ask
  <2>2. id_to_path \in Seq(Paths)
    BY DEF IInv, TypeOK
  <2>3. r.file_id + 1 \in 1..Len(id_to_path)
    BY <2>1, <2>2, LenProperties DEF SymbolRef
  <2>. QED BY <2>1, <2>2, <2>3, ElementOfSeq
<1>4. found \in SUBSET Location
  <2>1. CASE entry # NoFile /\ r.symbol_idx \in 1..Len(entry)
    <3>1. entry \in Seq(Symbol)
      BY <1>3, <2>1, ContentsAssumption DEF IInv, TypeOK
    <3>2. entry[r.symbol_idx] \in Symbol
      BY <2>1, <3>1, ElementOfSeq
    <3>3. loc \in Location
      BY <1>3, <3>2 DEF Location, SymbolRef, Symbol
    <3>4. ask[t].found \in SUBSET Location
      BY <1>1 DEF Ask
    <3>. QED BY <2>1, <3>3, <3>4
  <2>2. CASE ~(entry # NoFile /\ r.symbol_idx \in 1..Len(entry))
    BY <1>1, <2>2 DEF Ask
  <2>. QED BY <2>1, <2>2
<1>5. ask' = [ask EXCEPT ![t] = a]
  BY <1>1, <1>2
<1>. HIDE DEF found
<1>6. a \in Ask /\ a.refs = ask[t].refs \ {r}
  BY <1>1, <1>4 DEF Ask
<1>7. /\ fuzzy' \subseteq Names /\ fuzzy_dirty' \in BOOLEAN /\ asks' \in Nat
      /\ UNCHANGED <<index_vars, table_vars, scan, op, answer, writes>>
      /\ pc[t] = "resolve" /\ pc[t] \in AskerPC /\ pc' = [pc EXCEPT ![t] = "resolve"]
  BY DEF ResolveRef, IInv, TypeOK, AskerPC, bounds, fuzzy_vars
<1>. HIDE DEF a
<1>. QED BY <1>1, <1>5, <1>6, <1>7, AskStepKeeps

LEMMA FallBackKeeps ==
    ASSUME IInv, NEW t \in Threads, FallBack(t)
    PROVE  IInv'
<1>. DEFINE a == [ask[t] EXCEPT !.wanted = ask[t].fallback, !.fallback = {}]
<1>1. /\ ask \in [Threads -> Ask] /\ ask[t] \in Ask
      /\ \A r \in ask[t].refs : r.file_id < Len(id_to_path)
  BY DEF IInv, TypeOK, RefsInBounds
<1>2. a \in Ask /\ a.refs = ask[t].refs
  BY <1>1 DEF Ask
<1>3. ask' = [ask EXCEPT ![t] = a]
  BY <1>1 DEF FallBack
<1>4. /\ fuzzy' \subseteq Names /\ fuzzy_dirty' \in BOOLEAN /\ asks' \in Nat
      /\ UNCHANGED <<index_vars, table_vars, scan, op, answer, writes>>
      /\ pc[t] \in AskerPC /\ "fuzzy_check" \in AskerPC /\ pc' = [pc EXCEPT ![t] = "fuzzy_check"]
  BY DEF FallBack, Goto, IInv, TypeOK, AskerPC, bounds, fuzzy_vars
<1>. HIDE DEF a
<1>. QED BY <1>1, <1>2, <1>3, <1>4, AskStepKeeps

-----------------------------------------------------------------------------
\* The inductive invariant holds initially, and every step keeps it.
LEMMA InitKeeps == Init => IInv
<1>. SUFFICES ASSUME Init PROVE IInv
  OBVIOUS
<1>. USE NoLocals DEF Init
<1>1. TypeOK
  <2>1. /\ files \in [Paths -> Contents \cup {NoFile}]
        /\ file_ids \in [Paths -> Nat \cup {NoId}]
        /\ writes \in [Paths -> Nat]
    OBVIOUS
  <2>2. definitions \in [Names -> SUBSET SymbolRef]
    OBVIOUS
  <2>3. \A n \in Names : IsFiniteSet(definitions[n])
    BY FS_EmptySet
  <2>4. id_to_path \in Seq(Paths)
    OBVIOUS
  <2>5. /\ scan \in [Threads -> {"no", "installing", "dropping"}]
        /\ pc \in [Threads -> {"idle"} \cup WriterPC \cup AskerPC]
        /\ op \in [Threads -> Op]
        /\ ask \in [Threads -> Ask]
    OBVIOUS
  <2>. QED BY <2>1, <2>2, <2>3, <2>4, <2>5 DEF TypeOK
<1>2. FileIdTable
  BY DEF FileIdTable
<1>3. RefsInBounds
  BY DEF RefsInBounds, Pushing, NoAsk
<1>4. WriterInTable /\ NamesLeft
  BY SentinelAssumption DEF WriterInTable, NamesLeft
<1>. QED BY <1>1, <1>2, <1>3, <1>4 DEF IInv

LEMMA StepKeeps == IInv /\ [Next]_vars => IInv'
<1>. SUFFICES ASSUME IInv, [Next]_vars PROVE IInv'
  OBVIOUS
<1>1. ASSUME NEW t \in Threads, Request(t) PROVE IInv'
  <2>. USE DEF AskerPC
  <2>1. ASSUME NEW p \in Paths, NEW c \in Contents, IndexFile(t, p, c) \/ InstallFileUnit(t, p, c)
        PROVE  IInv'
    BY <2>1, StartKeeps DEF IndexFile, InstallFileUnit, IInv, TypeOK
  <2>2. ASSUME NEW p \in Paths, RemoveFile(t, p) \/ DropDeadRow(t, p)
        PROVE  IInv'
    BY <2>2, StartKeeps, ContentsAssumption DEF RemoveFile, DropDeadRow, IInv, TypeOK
  <2>3. CASE \E n \in Names : FindDefinitions(t, n)
    BY <2>3, StartAskKeeps DEF FindDefinitions
  <2>4. CASE \E close \in SUBSET Names \ {{}} : SearchSymbols(t, close)
    BY <2>4, StartAskKeeps DEF SearchSymbols
  <2>5. CASE \E close \in SUBSET Names : \E prefixed \in SUBSET close \ {{}} :
               Completions(t, prefixed, close)
    BY <2>5, StartAskKeeps DEF Completions
  <2>. QED BY <1>1, <2>1, <2>2, <2>3, <2>4, <2>5 DEF Request
<1>2. ASSUME NEW t \in Threads, WriteStep(t) PROVE IInv'
  BY <1>2, ReadOldNamesKeeps, ReadOldIdKeeps, RetainKeeps, DropKeyKeeps, LookupIdKeeps,
     LockTableKeeps, InsertIdKeeps, PushRefKeeps, EndPushKeeps, MarkDirtyKeeps,
     InsertFileKeeps, DropFileKeeps, FinishScanKeeps DEF WriteStep
<1>3. ASSUME NEW t \in Threads, AskStep(t) PROVE IInv'
  BY <1>3, FuzzyCheckKeeps, FuzzyLockKeeps, FuzzyIterKeeps, FuzzyCleanKeeps,
     FuzzyReadKeeps, GetEntryKeeps, ReadTableKeeps, ResolveRefKeeps, EndResolveKeeps,
     FallBackKeeps, ReturnKeeps DEF AskStep
<1>4. CASE UNCHANGED vars
  <2>. USE <1>4 DEF vars, index_vars, table_vars, fuzzy_vars, bounds
  <2>1. TypeOK'
    BY DEF IInv, TypeOK
  <2>2. FileIdTable'
    BY DEF IInv, FileIdTable
  <2>3. RefsInBounds'
    BY DEF IInv, RefsInBounds, Pushing, HasOwnId
  <2>4. WriterInTable' /\ NamesLeft'
    BY DEF IInv, WriterInTable, NamesLeft, LastIsNew
  <2>. QED BY <2>1, <2>2, <2>3, <2>4 DEF IInv
<1>. QED BY <1>1, <1>2, <1>3, <1>4 DEF Next, Step

LEMMA Invariance == Spec => []IInv
BY InitKeeps, StepKeeps, PTL DEF Spec

-----------------------------------------------------------------------------
\* Every variable of the index has its type in every reachable state, for every
\* set of threads, paths, names and parse results.
THEOREM TypeCorrect == Spec => []TypeOK
<1>1. IInv => TypeOK
  BY DEF IInv
<1>. QED BY <1>1, Invariance, PTL

\* get_or_create_file_id (workspace.rs:153) under any race of any number of
\* threads: file_ids and id_to_path stay inverse of each other, so no path ever
\* gets two ids.
THEOREM IdsAreExact == Spec => []FileIdTable
<1>1. IInv => FileIdTable
  BY DEF IInv
<1>. QED BY <1>1, Invariance, PTL

\* resolve_refs (workspace.rs:175) never indexes id_to_path out of bounds: every
\* ref filed in the index, or taken from it by a query, names a path of the table.
THEOREM RefsStayInBounds == Spec => []RefsInBounds
<1>1. IInv => RefsInBounds
  BY DEF IInv
<1>. QED BY <1>1, Invariance, PTL

\* Only get_or_create_file_id changes the two tables of file ids.
LEMMA TableStep ==
    ASSUME IInv, [Next]_vars
    PROVE  \/ UNCHANGED <<file_ids, id_to_path>>
           \/ \E t \in Threads : LockTable(t) \/ InsertId(t)
<1>1. CASE UNCHANGED vars
  BY <1>1 DEF vars, table_vars
<1>2. ASSUME NEW t \in Threads, Request(t) PROVE UNCHANGED <<file_ids, id_to_path>>
  BY <1>2 DEF Request, IndexFile, InstallFileUnit, RemoveFile, DropDeadRow, Start,
     FindDefinitions, SearchSymbols, Completions, StartAsk, table_vars
<1>3. ASSUME NEW t \in Threads, AskStep(t) PROVE UNCHANGED <<file_ids, id_to_path>>
  BY <1>3 DEF AskStep, FuzzyCheck, FuzzyLock, FuzzyIter, FuzzyClean, FuzzyRead, GetEntry,
     ReadTable, ResolveRef, EndResolve, FallBack, Return, table_vars
<1>4. ASSUME NEW t \in Threads, WriteStep(t), ~LockTable(t), ~InsertId(t)
      PROVE  UNCHANGED <<file_ids, id_to_path>>
  BY <1>4 DEF WriteStep, ReadOldNames, ReadOldId, Retain, DropKey, LookupId, PushRef,
     PushTurn, EndPush, MarkDirty, InsertFile, DropFile, FinishScan, table_vars
<1>. QED BY <1>1, <1>2, <1>3, <1>4 DEF Next, Step

\* A step never changes a path's id and only ever extends id_to_path: a ref filed
\* by one thread means the same file to any other, whenever it reads it.
THEOREM IdsStayStable == Spec => FileIdsStable
<1>. DEFINE Stable == /\ \A p \in Paths : file_ids[p] # NoId => file_ids'[p] = file_ids[p]
                      /\ Len(id_to_path') >= Len(id_to_path)
                      /\ \A i \in 1..Len(id_to_path) : id_to_path'[i] = id_to_path[i]
<1>1. IInv /\ [Next]_vars => [Stable]_vars
  <2>. SUFFICES ASSUME IInv, [Next]_vars PROVE Stable
    OBVIOUS
  <2>1. /\ Len(id_to_path) \in Nat /\ id_to_path \in Seq(Paths)
        /\ file_ids \in [Paths -> Nat \cup {NoId}]
    BY DEF IInv, TypeOK
  <2>2. CASE UNCHANGED <<file_ids, id_to_path>>
    BY <2>1, <2>2
  <2>3. ASSUME NEW t \in Threads, LockTable(t) PROVE Stable
    <3>1. op[t].path \in Paths /\ file_ids' = file_ids
      BY <2>3 DEF LockTable, IInv, TypeOK, Op
    <3>2. id_to_path' = id_to_path \/ id_to_path' = Append(id_to_path, op[t].path)
      BY <2>3 DEF LockTable
    <3>. QED BY <2>1, <3>1, <3>2
  <2>4. ASSUME NEW t \in Threads, InsertId(t) PROVE Stable
    <3>1. /\ id_to_path' = id_to_path
          /\ file_ids' = [file_ids EXCEPT ![op[t].path] = op[t].file_id]
      BY <2>4 DEF InsertId
    <3>2. file_ids[op[t].path] = NoId
      BY <2>4 DEF InsertId, IInv, WriterInTable, LastIsNew
    <3>. QED BY <2>1, <3>1, <3>2
  <2>. QED BY <2>2, <2>3, <2>4, TableStep
<1>. QED BY <1>1, Invariance, PTL DEF Spec, FileIdsStable

-----------------------------------------------------------------------------
(***************************************************************************)
(* The index keeps what it promises where the code does not race with      *)
(* itself: `definitions` is the exact inverse of `files` when one thread   *)
(* writes, or when each path is indexed for the first time by any number   *)
(* of threads; and one thread alone implements DefinitionIndex.            *)
(*                                                                         *)
(* A ref may be in the index only if it is Allowed, and must be if it is   *)
(* Owed.  The two differ while a thread takes the old refs of its path out *)
(* name by name.                                                           *)
(***************************************************************************)

Writers == Editors \cup Removers \cup Scanners

OneWriter == \A t, o \in Writers : t = o
OneThread == \E t \in Threads : Threads = {t}

\* A cold start: each path is indexed once.
Cold == WritesPerPath <= 1

RemovalPC == {"retain", "drop_key"}
ClearedPC == {"lookup_id", "lock_table", "insert_id", "push", "dirty", "insert_file",
              "remove_file"}
FilingPC == {"push", "dirty", "insert_file"}

NamesAhead(t) == {op[t].names[k] : k \in 1..Len(op[t].names)}

\* The old refs of t's path under name n are gone.
Cleared(t, n) ==
    \/ pc[t] \in ClearedPC
    \/ pc[t] \in RemovalPC /\ n \notin NamesAhead(t)

\* t has filed symbol i of its path under name n.
FiledBy(t, n, i) ==
    /\ pc[t] \in FilingPC
    /\ i \in 1..Len(op[t].symbols)
    /\ op[t].symbols[i].name = n /\ ~op[t].symbols[i].local
    /\ pc[t] = "push" => i < op[t].next

Filed(n, p, i) == \E t \in Threads : op[t].path = p /\ FiledBy(t, n, i)

Allowed(n, p, i) ==
    \/ /\ i \in Promise!Globals(p, {n})
       /\ \A t \in Threads : op[t].path = p => ~Cleared(t, n)
    \/ Filed(n, p, i)

Owed(n, p, i) ==
    \/ /\ i \in Promise!Globals(p, {n})
       /\ \A t \in Threads : op[t].path = p => pc[t] \notin RemovalPC \cup ClearedPC
    \/ Filed(n, p, i)

Ref(p, i) == [file_id |-> file_ids[p], symbol_idx |-> i, copy |-> 0]

Sound ==
    \A n \in Names, p \in Paths, i \in Nat : \A r \in definitions[n] :
        id_to_path[r.file_id + 1] = p /\ r.symbol_idx = i => r.copy = 0 /\ Allowed(n, p, i)

Complete ==
    \A n \in Names, p \in Paths, i \in Nat : Owed(n, p, i) => Ref(p, i) \in definitions[n]

Keys ==
    /\ \A n \in Names : definitions[n] # {} => n \in def_keys
    /\ \A n \in def_keys : definitions[n] = {} =>
          \E t \in Threads : pc[t] = "drop_key" /\ Head(op[t].names) = n
    /\ \A t \in Threads : pc[t] = "drop_key" => definitions[Head(op[t].names)] = {}

\* A path in `files` has an id, and so has one whose symbols are filed.
IdsOK ==
    /\ \A p \in Paths : files[p] # NoFile => file_ids[p] # NoId
    /\ \A t \in Threads :
          pc[t] \in RemovalPC \cup FilingPC =>
              file_ids[op[t].path] # NoId /\ op[t].file_id = file_ids[op[t].path]

RemovalOK(t) ==
    /\ pc[t] = "old_id" \/ pc[t] \in RemovalPC => files[op[t].path] # NoFile
    /\ pc[t] = "old_id" =>
          op[t].names = [i \in 1..Len(files[op[t].path]) |-> files[op[t].path][i].name]
    /\ pc[t] \in WriterPC \ FilingPC => op[t].next = 1

\* Two threads write at the same time only on a cold start, and different paths.
Apart ==
    /\ \A t \in Threads : pc[t] \in WriterPC => t \in Writers
    /\ \A t, o \in Threads :
          pc[t] \in WriterPC /\ pc[o] \in WriterPC /\ t # o => op[t].path # op[o].path
    /\ Cold => /\ \A t \in Threads : pc[t] \in WriterPC =>
                     writes[op[t].path] >= 1 /\ files[op[t].path] = NoFile
               /\ \A p \in Paths : files[p] # NoFile => writes[p] >= 1

EInv ==
    /\ IInv
    /\ Sound /\ Complete /\ Keys /\ IdsOK
    /\ \A t \in Threads : RemovalOK(t)
    /\ Apart

-----------------------------------------------------------------------------
\* Queries.

AskingPC == {"next_name", "read_table", "resolve"}
HoldingPC == {"read_table", "resolve"}

\* What a query has taken is still there: it holds the name's guard.
HeldOK(t) ==
    pc[t] \in HoldingPC =>
        /\ ask[t].refs \subseteq definitions[ask[t].name]
        /\ ask[t].name \in ask[t].wanted

NamesOK(t) == ask[t].names \subseteq ask[t].wanted

AInv == \A t \in Threads : pc[t] \in AskerPC => HeldOK(t) /\ NamesOK(t)

-----------------------------------------------------------------------------
\* One thread.

\* A clean fuzzy index lacks only names that its thread will make it dirty for.
FuzzyOK(t) ==
    /\ ~fuzzy_dirty => \/ def_keys \subseteq fuzzy
                       \/ scan[t] # "no"
                       \/ pc[t] \in {"push", "dirty"} /\ op[t].kind = "index"
    /\ pc[t] \in WriterPC /\ op[t].kind = "install" => scan[t] # "no"
    /\ pc[t] \in WriterPC => op[t].kind # "none"
    /\ pc[t] \in ClearedPC \ {"remove_file"} => op[t].kind # "remove"
    /\ pc[t] \in AskerPC => scan[t] = "no"
    /\ pc[t] = "fuzzy_build" => def_keys \subseteq fuzzy \cup ask[t].todo
    /\ pc[t] = "fuzzy_read" => ~fuzzy_dirty

\* What is found so far: the definitions of the names gone through, without
\* those of the refs that are still to be resolved.
Reached(t) ==
    {l \in Promise!Definitions(ask[t].wanted) :
        /\ l.name \notin ask[t].names
        /\ pc[t] \in HoldingPC /\ l.name = ask[t].name
              => Ref(l.file, l.symbol_idx) \notin ask[t].refs}

QueryOK(t) ==
    /\ pc[t] \in {"fuzzy_check", "fuzzy_lock", "fuzzy_build", "fuzzy_read"} => ask[t].found = {}
    /\ pc[t] \in AskingPC => ask[t].found = Reached(t)
    /\ pc[t] \in HoldingPC => ask[t].name \notin ask[t].names

SInv == EInv /\ AInv /\ \A t \in Threads : FuzzyOK(t) /\ QueryOK(t)

-----------------------------------------------------------------------------
(***************************************************************************)
(* Steps of one thread t that leave the index itself alone.                *)
(***************************************************************************)
OthersStay(t) == \A o \in Threads : o # t => pc'[o] = pc[o] /\ op'[o] = op[o]

LEMMA GlobalsStay ==
    ASSUME NEW p, files'[p] = files[p], NEW n
    PROVE  Promise!Globals(p, {n})' = Promise!Globals(p, {n})
BY DEF Promise!Globals

\* A ref stays allowed if t clears no more than before, or nothing of that name
\* is in its file, and what t has filed stays filed.
LEMMA AllowedStays ==
    ASSUME NEW t \in Threads, OthersStay(t), NEW n, NEW p, NEW i,
           files'[p] = files[p],
           op'[t].path = p /\ Cleared(t, n)' /\ i \in Promise!Globals(p, {n})
               => op[t].path = p /\ Cleared(t, n),
           op[t].path = p /\ FiledBy(t, n, i) => op'[t].path = p /\ FiledBy(t, n, i)',
           Allowed(n, p, i)
    PROVE  Allowed(n, p, i)'
<1>1. ASSUME NEW o \in Threads, o # t
      PROVE  /\ Cleared(o, n)' = Cleared(o, n) /\ op'[o].path = op[o].path
             /\ FiledBy(o, n, i)' = FiledBy(o, n, i)
  BY <1>1 DEF OthersStay, Cleared, FiledBy, NamesAhead
<1>2. CASE Filed(n, p, i)
  <2>1. PICK o \in Threads : op[o].path = p /\ FiledBy(o, n, i)
    BY <1>2 DEF Filed
  <2>2. op'[o].path = p /\ FiledBy(o, n, i)'
    BY <1>1, <2>1
  <2>3. Filed(n, p, i)'
    BY <2>2 DEF Filed
  <2>. QED BY <2>3 DEF Allowed
<1>3. CASE /\ i \in Promise!Globals(p, {n})
           /\ \A o \in Threads : op[o].path = p => ~Cleared(o, n)
  <2>1. i \in Promise!Globals(p, {n})'
    BY <1>3, GlobalsStay
  <2>2. ASSUME NEW o \in Threads, op'[o].path = p PROVE ~Cleared(o, n)'
    BY <1>1, <1>3, <2>2
  <2>. QED BY <2>1, <2>2 DEF Allowed
<1>. QED BY <1>2, <1>3 DEF Allowed

\* A ref that is owed was owed before if t is in its removal or its filing as
\* before, and files nothing.
LEMMA OwedBefore ==
    ASSUME NEW t \in Threads, OthersStay(t), NEW n, NEW p, NEW i,
           files'[p] = files[p],
           op[t].path = p /\ pc[t] \in RemovalPC \cup ClearedPC
               => op'[t].path = p /\ pc'[t] \in RemovalPC \cup ClearedPC,
           op'[t].path = p /\ FiledBy(t, n, i)' => op[t].path = p /\ FiledBy(t, n, i),
           Owed(n, p, i)'
    PROVE  Owed(n, p, i)
<1>1. ASSUME NEW o \in Threads, o # t
      PROVE  /\ pc'[o] = pc[o] /\ op'[o].path = op[o].path
             /\ FiledBy(o, n, i)' = FiledBy(o, n, i)
  BY <1>1 DEF OthersStay, FiledBy
<1>2. CASE Filed(n, p, i)'
  <2>1. PICK o \in Threads : op'[o].path = p /\ FiledBy(o, n, i)'
    BY <1>2 DEF Filed
  <2>2. op[o].path = p /\ FiledBy(o, n, i)
    BY <1>1, <2>1
  <2>3. Filed(n, p, i)
    BY <2>2 DEF Filed
  <2>. QED BY <2>3 DEF Owed
<1>3. CASE /\ i \in Promise!Globals(p, {n})'
           /\ \A o \in Threads : op'[o].path = p => pc'[o] \notin RemovalPC \cup ClearedPC
  <2>1. i \in Promise!Globals(p, {n})
    BY <1>3, GlobalsStay
  <2>2. ASSUME NEW o \in Threads, op[o].path = p PROVE pc[o] \notin RemovalPC \cup ClearedPC
    BY <1>1, <1>3, <2>2
  <2>. QED BY <2>1, <2>2 DEF Owed
<1>. QED BY <1>2, <1>3 DEF Owed

LEMMA ApartStays ==
    ASSUME Apart, NEW t \in Threads, OthersStay(t), UNCHANGED <<files, writes>>,
           pc'[t] \in WriterPC => pc[t] \in WriterPC /\ op'[t].path = op[t].path
    PROVE  Apart'
<1>1. ASSUME NEW o \in Threads, pc'[o] \in WriterPC
      PROVE  pc[o] \in WriterPC /\ op'[o].path = op[o].path
  BY <1>1 DEF OthersStay
<1>. QED BY <1>1 DEF Apart

\* What a step must show of its thread for the invariant to survive it when it
\* changes neither `files` nor the refs.
Quiet(t) ==
    /\ OthersStay(t)
    /\ UNCHANGED <<files, definitions, def_keys>>
    /\ \A k \in 1..Len(id_to_path) : id_to_path'[k] = id_to_path[k]
    /\ \A p \in Paths : file_ids[p] # NoId => file_ids'[p] = file_ids[p]
    /\ pc[t] # "drop_key" /\ pc'[t] # "drop_key"
    /\ pc[t] \in RemovalPC \cup ClearedPC =>
          op'[t].path = op[t].path /\ pc'[t] \in RemovalPC \cup ClearedPC

QuietOn(t, n, i) ==
    /\ Cleared(t, n)' /\ i \in Promise!Globals(op'[t].path, {n})
          => op'[t].path = op[t].path /\ Cleared(t, n)
    /\ FiledBy(t, n, i) => op'[t].path = op[t].path /\ FiledBy(t, n, i)'
    /\ FiledBy(t, n, i)' => op'[t].path = op[t].path /\ FiledBy(t, n, i)

LEMMA RefPath ==
    ASSUME EInv, NEW n \in Names, NEW r \in definitions[n]
    PROVE  /\ r \in SymbolRef /\ r.symbol_idx \in Nat
           /\ r.file_id + 1 \in 1..Len(id_to_path)
           /\ id_to_path[r.file_id + 1] \in Paths
<1>1. /\ id_to_path \in Seq(Paths) /\ r \in SymbolRef /\ r.file_id < Len(id_to_path)
  BY DEF EInv, IInv, TypeOK, RefsInBounds
<1>2. r.file_id + 1 \in 1..Len(id_to_path)
  BY <1>1, LenProperties DEF SymbolRef
<1>. QED BY <1>1, <1>2, ElementOfSeq DEF SymbolRef

LEMMA QuietKeeps ==
    ASSUME EInv, IInv', NEW t \in Threads, Quiet(t),
           \A n \in Names, i \in Nat : QuietOn(t, n, i),
           \A n \in Names, p \in Paths, i \in Nat :
              Owed(n, p, i)' => file_ids'[p] = file_ids[p],
           pc'[t] \in RemovalPC \cup FilingPC =>
              file_ids'[op'[t].path] # NoId /\ op'[t].file_id = file_ids'[op'[t].path],
           RemovalOK(t)', Apart'
    PROVE  EInv'
<1>1. Sound'
  <2>. SUFFICES ASSUME NEW n \in Names, NEW p \in Paths, NEW i \in Nat, NEW r \in definitions'[n],
                       id_to_path'[r.file_id + 1] = p, r.symbol_idx = i
                PROVE  r.copy = 0 /\ Allowed(n, p, i)'
    BY DEF Sound
  <2>1. r \in definitions[n]
    BY DEF Quiet
  <2>2. p = id_to_path[r.file_id + 1]
    BY <2>1, RefPath DEF Quiet
  <2>3. r.copy = 0 /\ Allowed(n, p, i)
    BY <2>1, <2>2 DEF EInv, Sound
  <2>4. QuietOn(t, n, i)
    OBVIOUS
  <2>5. OthersStay(t) /\ files'[p] = files[p]
    BY DEF Quiet
  <2>6. op'[t].path = p /\ Cleared(t, n)' /\ i \in Promise!Globals(p, {n})
           => op[t].path = p /\ Cleared(t, n)
    BY <2>4 DEF QuietOn
  <2>7. op[t].path = p /\ FiledBy(t, n, i) => op'[t].path = p /\ FiledBy(t, n, i)'
    BY <2>4 DEF QuietOn
  <2>8. Allowed(n, p, i)'
    BY <2>3, <2>5, <2>6, <2>7, AllowedStays, Zenon
  <2>. QED BY <2>3, <2>8
<1>2. Complete'
  <2>. SUFFICES ASSUME NEW n \in Names, NEW p \in Paths, NEW i \in Nat, Owed(n, p, i)'
                PROVE  Ref(p, i)' \in definitions'[n]
    BY DEF Complete
  <2>1. QuietOn(t, n, i)
    OBVIOUS
  <2>2. Owed(n, p, i)
    BY <2>1, OwedBefore DEF Quiet, QuietOn
  <2>3. Ref(p, i) \in definitions[n]
    BY <2>2 DEF EInv, Complete
  <2>4. Ref(p, i)' = Ref(p, i)
    BY DEF Ref
  <2>. QED BY <2>3, <2>4 DEF Quiet
<1>3. Keys'
  <2>1. ASSUME NEW o \in Threads
        PROVE  /\ (pc[o] = "drop_key") = (pc'[o] = "drop_key")
               /\ pc[o] = "drop_key" => op'[o] = op[o]
    BY DEF Quiet, OthersStay
  <2>. QED BY <2>1 DEF EInv, Keys, Quiet
<1>4. IdsOK'
  <2>1. ASSUME NEW p \in Paths, files'[p] # NoFile PROVE file_ids'[p] # NoId
    BY <2>1 DEF EInv, IdsOK, Quiet
  <2>2. ASSUME NEW o \in Threads, o # t, pc'[o] \in RemovalPC \cup FilingPC
        PROVE  file_ids'[op'[o].path] # NoId /\ op'[o].file_id = file_ids'[op'[o].path]
    <3>1. pc[o] \in RemovalPC \cup FilingPC /\ op'[o] = op[o] /\ op[o].path \in Paths
      BY <2>2 DEF Quiet, OthersStay, EInv, IInv, TypeOK, Op
    <3>. QED BY <3>1 DEF EInv, IdsOK, Quiet
  <2>. QED BY <2>1, <2>2 DEF IdsOK
<1>5. ASSUME NEW o \in Threads, o # t PROVE RemovalOK(o)'
  <2>1. pc'[o] = pc[o] /\ op'[o] = op[o] /\ files' = files
    BY <1>5 DEF Quiet, OthersStay
  <2>. QED BY <2>1 DEF EInv, RemovalOK
<1>. QED BY <1>1, <1>2, <1>3, <1>4, <1>5 DEF EInv

\* Positions outside the writers' code clear and file nothing.
LEMMA Aside ==
    /\ RemovalPC \subseteq WriterPC /\ ClearedPC \subseteq WriterPC
    /\ FilingPC \subseteq ClearedPC /\ WriterPC \cap AskerPC = {}
    /\ "idle" \notin WriterPC \cup AskerPC /\ "drop_key" \in RemovalPC
    /\ RemovalPC \cap ClearedPC = {} /\ "old_names" \notin RemovalPC \cup ClearedPC
    /\ "old_id" \notin RemovalPC \cup ClearedPC
BY DEF RemovalPC, ClearedPC, FilingPC, WriterPC, AskerPC

\* Steps of queries, and the end of a scan.
LEMMA AsideKeeps ==
    ASSUME EInv, IInv', NEW t \in Threads, OthersStay(t),
           UNCHANGED <<files, definitions, def_keys, file_ids, id_to_path, op, writes>>,
           pc[t] \notin WriterPC, pc'[t] \notin WriterPC
    PROVE  EInv'
<1>1. Quiet(t)
  BY Aside DEF Quiet
<1>2. ASSUME NEW n \in Names, NEW i \in Nat PROVE QuietOn(t, n, i)
  BY Aside DEF QuietOn, Cleared, FiledBy
<1>3. pc'[t] \notin RemovalPC \cup FilingPC
  BY Aside
<1>4. RemovalOK(t)'
  BY Aside DEF RemovalOK, WriterPC
<1>5. Apart'
  BY ApartStays DEF EInv
<1>. QED BY <1>1, <1>2, <1>3, <1>4, <1>5, QuietKeeps

LEMMA AskExact ==
    ASSUME EInv, IInv', NEW t \in Threads, AskStep(t) \/ FinishScan(t)
    PROVE  EInv'
<1>1. UNCHANGED <<files, definitions, def_keys, file_ids, id_to_path, op, writes>>
  BY Zenon DEF AskStep, FuzzyCheck, FuzzyLock, FuzzyIter, FuzzyClean, FuzzyRead, GetEntry,
     ReadTable, ResolveRef, EndResolve, FallBack, Return, FinishScan,
     index_vars, table_vars, bounds
<1>2. pc \in [Threads -> {"idle"} \cup WriterPC \cup AskerPC]
  BY DEF EInv, IInv, TypeOK
<1>3. pc[t] \notin WriterPC /\ pc'[t] \notin WriterPC /\ OthersStay(t)
  BY <1>1, <1>2, Zenon DEF AskStep, FuzzyCheck, FuzzyLock, FuzzyIter, FuzzyClean, FuzzyRead, GetEntry,
     ReadTable, ResolveRef, EndResolve, FallBack, Return, FinishScan, Goto, WriterPC, OthersStay
<1>. QED BY <1>1, <1>3, AsideKeeps

LEMMA StartAskExact ==
    ASSUME EInv, IInv', NEW t \in Threads, NEW wanted, NEW fallback,
           NEW label \in {"next_name", "fuzzy_check"}, StartAsk(t, wanted, fallback, label)
    PROVE  EInv'
<1>1. UNCHANGED <<files, definitions, def_keys, file_ids, id_to_path, op, writes>>
  BY DEF StartAsk, index_vars, table_vars
<1>2. pc \in [Threads -> {"idle"} \cup WriterPC \cup AskerPC]
  BY DEF EInv, IInv, TypeOK
<1>3. pc[t] \notin WriterPC /\ pc'[t] \notin WriterPC /\ OthersStay(t)
  BY <1>1, <1>2 DEF StartAsk, Goto, WriterPC, OthersStay
<1>. QED BY <1>1, <1>3, AsideKeeps

-----------------------------------------------------------------------------
\* A write starts on a path that no other write is about: there is no other
\* writer, or the path was never written.
LEMMA StartExact ==
    ASSUME EInv, IInv', OneWriter \/ Cold, NEW t \in Writers,
           NEW kind \in {"index", "install", "remove"},
           NEW p \in Paths, NEW c \in Contents, Start(t, kind, p, c)
    PROVE  EInv'
<1>. USE DEF Start, Goto, index_vars, table_vars
<1>1. /\ t \in Threads /\ pc[t] = "idle" /\ pc'[t] = "old_names" /\ OthersStay(t)
      /\ op'[t].path = p /\ op'[t].next = 1
      /\ writes[p] < WritesPerPath /\ writes' = [writes EXCEPT ![p] = @ + 1]
      /\ writes \in [Paths -> Nat]
      /\ UNCHANGED <<files, definitions, def_keys, file_ids, id_to_path>>
  BY DEF EInv, IInv, TypeOK, Threads, Writers, OthersStay
<1>2. Quiet(t)
  BY <1>1, Aside DEF Quiet
<1>3. ASSUME NEW n \in Names, NEW i \in Nat PROVE QuietOn(t, n, i)
  BY <1>1, Aside DEF QuietOn, Cleared, FiledBy
<1>4. pc'[t] \notin RemovalPC \cup FilingPC
  BY <1>1, Aside
<1>5. RemovalOK(t)'
  BY <1>1, Aside DEF RemovalOK
<1>6. Apart'
  <2>1. ASSUME NEW o \in Threads, o # t, pc'[o] \in WriterPC
        PROVE  pc[o] \in WriterPC /\ op'[o] = op[o] /\ o \in Writers /\ op[o].path \in Paths
    BY <1>1, <2>1 DEF OthersStay, EInv, Apart, IInv, TypeOK, Op
  <2>2. ASSUME NEW o \in Threads, pc'[o] \in WriterPC, o # t PROVE op'[o].path # p
    <3>1. CASE OneWriter
      BY <2>1, <2>2, <3>1 DEF OneWriter
    <3>2. CASE Cold
      <4>1. writes[p] < 1 /\ writes[op[o].path] >= 1
        BY <1>1, <2>1, <2>2, <3>2, BoundAssumption DEF Cold, EInv, Apart
      <4>. QED BY <1>1, <2>1, <2>2, <4>1
    <3>. QED BY <3>1, <3>2
  <2>3. ASSUME NEW o \in Threads, pc'[o] \in WriterPC PROVE o \in Writers
    BY <2>1, <2>3
  <2>4. ASSUME NEW u \in Threads, NEW o \in Threads, pc'[u] \in WriterPC, pc'[o] \in WriterPC,
               u # o
        PROVE  op'[u].path # op'[o].path
    <3>1. CASE u = t
      BY <1>1, <2>2, <2>4, <3>1
    <3>2. CASE o = t
      BY <1>1, <2>2, <2>4, <3>2
    <3>3. CASE u # t /\ o # t
      BY <2>1, <2>4, <3>3 DEF EInv, Apart
    <3>. QED BY <3>1, <3>2, <3>3
  <2>5. ASSUME Cold
        PROVE  /\ \A o \in Threads : pc'[o] \in WriterPC =>
                     writes'[op'[o].path] >= 1 /\ files'[op'[o].path] = NoFile
               /\ \A q \in Paths : files'[q] # NoFile => writes'[q] >= 1
    <3>1. writes[p] = 0
      BY <1>1, <2>5, BoundAssumption DEF Cold
    <3>2. files[p] = NoFile
      BY <2>5, <3>1 DEF EInv, Apart
    <3>3. \A q \in Paths : writes'[q] >= writes[q]
      BY <1>1
    <3>4. ASSUME NEW o \in Threads, pc'[o] \in WriterPC
          PROVE  writes'[op'[o].path] >= 1 /\ files'[op'[o].path] = NoFile
      <4>1. CASE o = t
        BY <1>1, <3>1, <3>2, <4>1
      <4>2. CASE o # t
        <5>1. writes[op[o].path] >= 1 /\ files[op[o].path] = NoFile
          BY <2>1, <2>5, <3>4, <4>2 DEF EInv, Apart
        <5>2. op'[o].path = op[o].path /\ op[o].path \in Paths
          BY <2>1, <3>4, <4>2
        <5>. QED BY <1>1, <2>2, <3>4, <4>2, <5>1, <5>2
      <4>. QED BY <4>1, <4>2
    <3>5. ASSUME NEW q \in Paths, files'[q] # NoFile PROVE writes'[q] >= 1
      <4>1. writes[q] >= 1
        BY <1>1, <2>5, <3>5 DEF EInv, Apart
      <4>. QED BY <1>1, <3>3, <4>1
    <3>. QED BY <3>4, <3>5
  <2>. QED BY <2>3, <2>4, <2>5 DEF Apart
<1>. QED BY <1>1, <1>2, <1>3, <1>4, <1>5, <1>6, QuietKeeps

-----------------------------------------------------------------------------
\* The reads of remove_definitions_for_file: t clears the refs of a file that
\* defines nothing, at most.
LEMMA SymbolsOf ==
    ASSUME TypeOK, NEW p \in Paths, files[p] # NoFile
    PROVE  /\ files[p] \in Contents /\ files[p] \in Seq(Symbol)
           /\ Len(files[p]) \in Nat
           /\ \A i \in 1..Len(files[p]) : files[p][i].name \in Names
<1>1. files[p] \in Contents /\ files[p] \in Seq(Symbol)
  BY ContentsAssumption DEF TypeOK
<1>2. Len(files[p]) \in Nat
  BY <1>1, LenProperties
<1>3. ASSUME NEW i \in 1..Len(files[p]) PROVE files[p][i].name \in Names
  <2>1. files[p][i] \in Symbol
    BY <1>1, ElementOfSeq
  <2>. QED BY <2>1 DEF Symbol
<1>. QED BY <1>1, <1>2, <1>3

\* The locals of a thread, and what setting some of them changes.
LEMMA Locals ==
    ASSUME EInv, NEW t \in Threads
    PROVE  /\ op \in [Threads -> Op] /\ op[t] \in Op /\ op[t].path \in Paths
           /\ pc \in [Threads -> {"idle"} \cup WriterPC \cup AskerPC]
           /\ pc[t] \in WriterPC \ FilingPC => op[t].next = 1
<1>1. op \in [Threads -> Op] /\ pc \in [Threads -> {"idle"} \cup WriterPC \cup AskerPC]
  BY DEF EInv, IInv, TypeOK
<1>2. op[t] \in Op /\ op[t].path \in Paths
  BY <1>1 DEF Op
<1>. QED BY <1>1, <1>2 DEF EInv, RemovalOK

LEMMA SetId ==
    ASSUME op \in [Threads -> Op], NEW t \in Threads, NEW id,
           op' = [op EXCEPT ![t].file_id = id]
    PROVE  /\ op'[t].file_id = id /\ \A o \in Threads : o # t => op'[o] = op[o]
           /\ op'[t].path = op[t].path /\ op'[t].symbols = op[t].symbols
           /\ op'[t].names = op[t].names /\ op'[t].next = op[t].next
           /\ op'[t].kind = op[t].kind
BY DEF Op

LEMMA SetNames ==
    ASSUME op \in [Threads -> Op], NEW t \in Threads, NEW names,
           op' = [op EXCEPT ![t].names = names]
    PROVE  /\ op'[t].names = names /\ \A o \in Threads : o # t => op'[o] = op[o]
           /\ op'[t].path = op[t].path /\ op'[t].symbols = op[t].symbols
           /\ op'[t].file_id = op[t].file_id /\ op'[t].next = op[t].next
           /\ op'[t].kind = op[t].kind
BY DEF Op

LEMMA SetNext ==
    ASSUME op \in [Threads -> Op], NEW t \in Threads, NEW next,
           op' = [op EXCEPT ![t].next = next]
    PROVE  /\ op'[t].next = next /\ \A o \in Threads : o # t => op'[o] = op[o]
           /\ op'[t].path = op[t].path /\ op'[t].symbols = op[t].symbols
           /\ op'[t].file_id = op[t].file_id /\ op'[t].names = op[t].names
           /\ op'[t].kind = op[t].kind
BY DEF Op

LEMMA Goes ==
    ASSUME EInv, NEW t \in Threads, NEW label, Goto(t, label)
    PROVE  pc'[t] = label /\ \A o \in Threads : o # t => pc'[o] = pc[o]
BY DEF Goto, EInv, IInv, TypeOK

LEMMA ReadOldNamesExact ==
    ASSUME EInv, IInv', NEW t \in Threads, ReadOldNames(t)
    PROVE  EInv'
<1>. DEFINE p == op[t].path
            old == files[p]
<1>1. /\ pc[t] = "old_names" /\ OthersStay(t) /\ p \in Paths /\ op'[t].path = p
      /\ op'[t].next = 1 /\ op[t] \in Op
      /\ UNCHANGED <<files, definitions, def_keys, file_ids, id_to_path, writes>>
      /\ \/ old = NoFile /\ pc'[t] \in {"lookup_id", "remove_file"}
         \/ /\ old # NoFile /\ pc'[t] = "old_id"
            /\ op'[t].names = [i \in 1..Len(old) |-> old[i].name]
  <2>1. pc[t] = "old_names" /\ p \in Paths /\ op[t].next = 1 /\ op[t] \in Op
    BY Locals DEF ReadOldNames, WriterPC, FilingPC
  <2>2. UNCHANGED <<files, definitions, def_keys, file_ids, id_to_path, writes>>
    BY DEF ReadOldNames, index_vars, table_vars, bounds
  <2>3. CASE old = NoFile /\ Goto(t, AfterRemoval(t)) /\ UNCHANGED op
    BY <2>1, <2>2, <2>3, Goes DEF AfterRemoval, OthersStay
  <2>4. CASE /\ old # NoFile /\ Goto(t, "old_id")
             /\ op' = [op EXCEPT ![t].names = [i \in 1..Len(old) |-> old[i].name]]
    <3>. HIDE DEF old
    <3>. QED BY <2>1, <2>2, <2>4, Goes, Locals, SetNames DEF OthersStay
  <2>. QED BY <2>3, <2>4 DEF ReadOldNames
<1>. HIDE DEF p, old
<1>2. Quiet(t)
  BY <1>1, Aside DEF Quiet
<1>3. ASSUME NEW n \in Names, NEW i \in Nat PROVE QuietOn(t, n, i)
  <2>1. Cleared(t, n)' => old = NoFile
    BY <1>1, Aside DEF Cleared
  <2>2. ~FiledBy(t, n, i) /\ ~FiledBy(t, n, i)'
    BY <1>1 DEF FiledBy, FilingPC
  <2>. QED BY <1>1, <2>1, <2>2 DEF QuietOn, Promise!Globals, p, old
<1>4. pc'[t] \notin RemovalPC \cup FilingPC
  BY <1>1 DEF RemovalPC, FilingPC
<1>5. RemovalOK(t)'
  BY <1>1 DEF RemovalOK, RemovalPC, p, old
<1>6. Apart'
  BY <1>1, ApartStays DEF EInv, WriterPC, p
<1>. QED BY <1>1, <1>2, <1>3, <1>4, <1>5, <1>6, QuietKeeps

LEMMA ReadOldIdExact ==
    ASSUME EInv, IInv', NEW t \in Threads, ReadOldId(t)
    PROVE  EInv'
<1>. DEFINE p == op[t].path
            old == files[p]
            id == file_ids[p]
<1>1. /\ pc[t] = "old_id" /\ p \in Paths /\ op[t] \in Op /\ op \in [Threads -> Op]
      /\ old # NoFile /\ id # NoId /\ id \in Nat
      /\ op[t].names = [i \in 1..Len(old) |-> old[i].name] /\ op[t].next = 1
      /\ op' = [op EXCEPT ![t].file_id = id]
      /\ pc' = [pc EXCEPT ![t] = NextName(t, op[t].names)]
  <2>1. pc[t] = "old_id"
    BY DEF ReadOldId
  <2>2. /\ op[t] \in Op /\ op \in [Threads -> Op] /\ p \in Paths
        /\ file_ids \in [Paths -> Nat \cup {NoId}]
    BY <2>1 DEF EInv, IInv, TypeOK, Op, WriterPC
  <2>3. /\ old # NoFile /\ op[t].names = [i \in 1..Len(old) |-> old[i].name]
        /\ op[t].next = 1
    BY <2>1 DEF EInv, RemovalOK, WriterPC, FilingPC
  <2>4. id # NoId
    BY <2>2, <2>3 DEF EInv, IdsOK
  <2>5. /\ op' = [op EXCEPT ![t].file_id = id]
        /\ pc' = [pc EXCEPT ![t] = NextName(t, op[t].names)]
    BY <2>4 DEF ReadOldId, Goto
  <2>. QED BY <2>1, <2>2, <2>3, <2>4, <2>5
<1>2. /\ OthersStay(t) /\ op'[t].path = p /\ op'[t].next = 1
      /\ op'[t].names = op[t].names /\ op'[t].file_id = id
      /\ UNCHANGED <<files, definitions, def_keys, file_ids, id_to_path, writes>>
      /\ \/ op[t].names = <<>> /\ pc'[t] \in {"lookup_id", "remove_file"}
         \/ op[t].names # <<>> /\ pc'[t] = "retain"
  <2>1. /\ pc'[t] = NextName(t, op[t].names)
        /\ \A o \in Threads : o # t => pc'[o] = pc[o]
    BY <1>1, Goes DEF Goto
  <2>2. /\ op'[t].file_id = id /\ op'[t].names = op[t].names /\ op'[t].path = p
        /\ op'[t].next = 1 /\ \A o \in Threads : o # t => op'[o] = op[o]
    BY <1>1, SetId
  <2>3. UNCHANGED <<files, definitions, def_keys, file_ids, id_to_path, writes>>
    BY DEF ReadOldId, index_vars, table_vars, bounds
  <2>. QED BY <2>1, <2>2, <2>3 DEF NextName, AfterRemoval, OthersStay
<1>. HIDE DEF p, old, id
<1>3. Quiet(t)
  BY <1>1, <1>2, Aside DEF Quiet, RemovalPC
<1>4. Len(old) \in Nat /\ (op[t].names = <<>> => Len(old) = 0)
  <2>1. Len(old) \in Nat
    BY <1>1, SymbolsOf DEF EInv, IInv, old
  <2>2. DOMAIN op[t].names = 1..Len(old)
    BY <1>1
  <2>. QED BY <2>1, <2>2
<1>5. ASSUME NEW n \in Names, NEW i \in Nat PROVE QuietOn(t, n, i)
  <2>1. ~(Cleared(t, n)' /\ i \in Promise!Globals(p, {n}))
    <3>1. SUFFICES ASSUME Cleared(t, n)', i \in Promise!Globals(p, {n}) PROVE FALSE
      OBVIOUS
    <3>2. i \in 1..Len(old) /\ old[i].name = n
      BY <3>1 DEF Promise!Globals, old
    <3>3. op[t].names # <<>> /\ pc'[t] = "retain"
      BY <1>2, <1>4, <3>2
    <3>4. Len(op'[t].names) = Len(old) /\ op'[t].names[i] = n
      BY <1>1, <1>2, <1>4, <3>2
    <3>. QED BY <3>1, <3>2, <3>3, <3>4 DEF Cleared, NamesAhead, ClearedPC
  <2>2. ~FiledBy(t, n, i) /\ ~FiledBy(t, n, i)'
    BY <1>1, <1>2 DEF FiledBy, FilingPC
  <2>. QED BY <1>2, <2>1, <2>2 DEF QuietOn, p
<1>6. file_ids'[op'[t].path] # NoId /\ op'[t].file_id = file_ids'[op'[t].path]
  BY <1>1, <1>2 DEF id
<1>7. RemovalOK(t)'
  BY <1>1, <1>2, Zenon DEF RemovalOK, p, old
<1>8. Apart'
  BY <1>1, <1>2, ApartStays DEF EInv, WriterPC, p
<1>. QED BY <1>2, <1>3, <1>5, <1>6, <1>7, <1>8, QuietKeeps

-----------------------------------------------------------------------------
\* get_or_create_file_id
LEMMA IdKnownExact ==
    ASSUME EInv, IInv', NEW t \in Threads,
           pc[t] \in {"lookup_id", "lock_table"}, file_ids[op[t].path] # NoId,
           op' = [op EXCEPT ![t].file_id = file_ids[op[t].path]],
           pc' = [pc EXCEPT ![t] = "push"],
           UNCHANGED <<files, definitions, def_keys, file_ids, id_to_path, writes>>
    PROVE  EInv'
<1>1. /\ OthersStay(t) /\ pc'[t] = "push" /\ op'[t].path = op[t].path
      /\ op[t].next = 1 /\ op'[t].next = 1 /\ op'[t].file_id = file_ids[op[t].path]
  <2>1. op[t].next = 1
    BY Locals DEF WriterPC, FilingPC
  <2>2. Goto(t, "push")
    BY DEF Goto
  <2>. QED BY <2>1, <2>2, Locals, SetId, Goes DEF OthersStay
<1>2. Quiet(t)
  BY <1>1 DEF Quiet, RemovalPC, ClearedPC
<1>3. ASSUME NEW n \in Names, NEW i \in Nat PROVE QuietOn(t, n, i)
  BY <1>1 DEF QuietOn, Cleared, ClearedPC, FiledBy, FilingPC
<1>4. RemovalOK(t)'
  BY <1>1 DEF RemovalOK, RemovalPC, FilingPC
<1>5. Apart'
  BY <1>1, ApartStays DEF EInv, WriterPC
<1>. QED BY <1>1, <1>2, <1>3, <1>4, <1>5, QuietKeeps

LEMMA LookupIdExact ==
    ASSUME EInv, IInv', NEW t \in Threads, LookupId(t)
    PROVE  EInv'
<1>. USE DEF LookupId, Goto, index_vars, table_vars, bounds
<1>1. CASE file_ids[op[t].path] # NoId
  BY <1>1, IdKnownExact
<1>2. CASE file_ids[op[t].path] = NoId
  <2>1. /\ OthersStay(t) /\ pc[t] = "lookup_id" /\ pc'[t] = "lock_table" /\ op' = op
        /\ UNCHANGED <<files, definitions, def_keys, file_ids, id_to_path, writes>>
    BY <1>2 DEF OthersStay, EInv, IInv, TypeOK
  <2>2. Quiet(t)
    BY <2>1 DEF Quiet, RemovalPC, ClearedPC
  <2>3. ASSUME NEW n \in Names, NEW i \in Nat PROVE QuietOn(t, n, i)
    BY <2>1 DEF QuietOn, Cleared, ClearedPC, FiledBy, FilingPC
  <2>4. RemovalOK(t)' /\ pc'[t] \notin RemovalPC \cup FilingPC
    BY <2>1 DEF EInv, RemovalOK, RemovalPC, FilingPC, WriterPC
  <2>5. Apart'
    BY <2>1, ApartStays DEF EInv, WriterPC
  <2>. QED BY <2>1, <2>2, <2>3, <2>4, <2>5, QuietKeeps
<1>. QED BY <1>1, <1>2

LEMMA LockTableExact ==
    ASSUME EInv, IInv', NEW t \in Threads, LockTable(t)
    PROVE  EInv'
<1>1. CASE file_ids[op[t].path] # NoId
  BY <1>1, IdKnownExact DEF LockTable, Goto, index_vars, bounds
<1>2. CASE file_ids[op[t].path] = NoId
  <2>1. /\ OthersStay(t) /\ pc[t] = "lock_table" /\ pc'[t] = "insert_id"
        /\ op'[t].path = op[t].path /\ op'[t].next = 1
        /\ id_to_path' = Append(id_to_path, op[t].path)
        /\ UNCHANGED <<files, definitions, def_keys, file_ids, writes>>
    <3>1. /\ pc[t] = "lock_table" /\ Goto(t, "insert_id")
          /\ op' = [op EXCEPT ![t].file_id = Len(id_to_path)]
          /\ id_to_path' = Append(id_to_path, op[t].path)
          /\ UNCHANGED <<files, definitions, def_keys, file_ids, writes>>
      BY <1>2 DEF LockTable, index_vars, bounds
    <3>2. op[t].next = 1
      BY <3>1, Locals DEF WriterPC, FilingPC
    <3>. QED BY <3>1, <3>2, Goes, Locals, SetId DEF OthersStay
  <2>2. \A k \in 1..Len(id_to_path) : id_to_path'[k] = id_to_path[k]
    BY <2>1 DEF EInv, IInv, TypeOK
  <2>3. Quiet(t)
    BY <2>1, <2>2 DEF Quiet, RemovalPC, ClearedPC
  <2>4. ASSUME NEW n \in Names, NEW i \in Nat PROVE QuietOn(t, n, i)
    BY <2>1 DEF QuietOn, Cleared, ClearedPC, FiledBy, FilingPC
  <2>5. RemovalOK(t)' /\ pc'[t] \notin RemovalPC \cup FilingPC
    BY <2>1 DEF EInv, RemovalOK, RemovalPC, FilingPC, WriterPC
  <2>6. Apart'
    BY <2>1, ApartStays DEF EInv, WriterPC
  <2>. QED BY <2>1, <2>3, <2>4, <2>5, <2>6, QuietKeeps
<1>. QED BY <1>1, <1>2

\* Nothing is owed of a path that gets its first id.
LEMMA InsertIdExact ==
    ASSUME EInv, IInv', NEW t \in Threads, InsertId(t)
    PROVE  EInv'
<1>. DEFINE q == op[t].path
<1>1. /\ OthersStay(t) /\ pc[t] = "insert_id" /\ pc'[t] = "push" /\ op' = op
      /\ op[t].next = 1 /\ q \in Paths
      /\ UNCHANGED <<files, definitions, def_keys, id_to_path, writes>>
      /\ file_ids' = [file_ids EXCEPT ![q] = op[t].file_id]
  BY Goes, Locals DEF InsertId, index_vars, bounds, OthersStay, WriterPC, FilingPC
<1>2. /\ file_ids[q] = NoId /\ file_ids'[q] = op[t].file_id /\ file_ids'[q] # NoId
      /\ \A p \in Paths : p # q => file_ids'[p] = file_ids[p]
  <2>1. file_ids[q] = NoId /\ file_ids \in [Paths -> Nat \cup {NoId}]
    BY <1>1 DEF EInv, IInv, WriterInTable, LastIsNew, TypeOK
  <2>2. op[t].file_id \in Nat
    BY <1>1, LenProperties DEF EInv, IInv, RefsInBounds, Pushing, HasOwnId, TypeOK
  <2>. QED BY <1>1, <2>1, <2>2, SentinelAssumption
<1>3. Quiet(t)
  BY <1>1, <1>2 DEF Quiet, RemovalPC, ClearedPC
<1>4. ASSUME NEW n \in Names, NEW i \in Nat PROVE QuietOn(t, n, i)
  BY <1>1 DEF QuietOn, Cleared, ClearedPC, FiledBy, FilingPC
<1>5. ASSUME NEW n \in Names, NEW p \in Paths, NEW i \in Nat, Owed(n, p, i)'
      PROVE  file_ids'[p] = file_ids[p]
  <2>1. SUFFICES ASSUME p = q PROVE FALSE
    BY <1>2
  <2>2. files[q] = NoFile
    BY <1>1, <1>2 DEF EInv, IdsOK
  <2>3. Filed(n, p, i)'
    BY <1>1, <1>5, <2>1, <2>2 DEF Owed, Promise!Globals
  <2>4. PICK o \in Threads : op'[o].path = p /\ FiledBy(o, n, i)'
    BY <2>3 DEF Filed
  <2>5. o # t
    BY <1>1, <2>4 DEF FiledBy
  <2>6. pc[o] \in WriterPC /\ op[o].path = q
    BY <1>1, <2>1, <2>4, <2>5 DEF FiledBy, FilingPC, WriterPC, OthersStay
  <2>. QED BY <1>1, <2>5, <2>6 DEF EInv, Apart, WriterPC
<1>6. RemovalOK(t)'
  BY <1>1 DEF RemovalOK, RemovalPC, FilingPC
<1>7. Apart'
  BY <1>1, ApartStays DEF EInv, WriterPC
<1>. QED BY <1>1, <1>2, <1>3, <1>4, <1>5, <1>6, <1>7, QuietKeeps

-----------------------------------------------------------------------------
\* Filing the symbols.
LEMMA Pushed ==
    ASSUME EInv, NEW t \in Threads
    PROVE  /\ op[t].symbols \in Seq(Symbol) /\ Len(op[t].symbols) \in Nat
           /\ op[t].symbols \in Contents /\ op[t].next \in Nat \ {0}
           /\ \A i \in 1..Len(op[t].symbols) :
                op[t].symbols[i].name \in Names /\ op[t].symbols[i].local \in BOOLEAN
<1>1. op[t] \in Op
  BY Locals
<1>2. op[t].symbols \in Contents /\ op[t].next \in Nat \ {0}
  BY <1>1 DEF Op
<1>3. op[t].symbols \in Seq(Symbol)
  BY <1>2, ContentsAssumption
<1>4. Len(op[t].symbols) \in Nat
  BY <1>3, LenProperties
<1>5. ASSUME NEW i \in 1..Len(op[t].symbols)
      PROVE  op[t].symbols[i].name \in Names /\ op[t].symbols[i].local \in BOOLEAN
  <2>1. op[t].symbols[i] \in Symbol
    BY <1>3, ElementOfSeq
  <2>. QED BY <2>1 DEF Symbol
<1>. QED BY <1>2, <1>3, <1>4, <1>5

LEMMA EndPushExact ==
    ASSUME EInv, IInv', NEW t \in Threads, EndPush(t) \/ MarkDirty(t)
    PROVE  EInv'
<1>1. /\ OthersStay(t) /\ op' = op /\ UNCHANGED <<files, definitions, def_keys>>
      /\ UNCHANGED <<file_ids, id_to_path, writes>>
      /\ pc[t] \in {"push", "dirty"} /\ pc'[t] \in {"dirty", "insert_file"}
      /\ pc[t] = "push" => op[t].next > Len(op[t].symbols)
  BY Goes DEF EndPush, MarkDirty, index_vars, table_vars, bounds, OthersStay
<1>2. Quiet(t)
  BY <1>1 DEF Quiet, RemovalPC, ClearedPC
<1>3. ASSUME NEW n \in Names, NEW i \in Nat PROVE QuietOn(t, n, i)
  <2>1. Len(op[t].symbols) \in Nat /\ op[t].next \in Nat
    BY Pushed
  <2>2. FiledBy(t, n, i)' <=> FiledBy(t, n, i)
    BY <1>1, <2>1 DEF FiledBy, FilingPC
  <2>. QED BY <1>1, <2>2 DEF QuietOn, Cleared, ClearedPC
<1>4. op'[t].file_id = file_ids'[op'[t].path] /\ file_ids'[op'[t].path] # NoId
  BY <1>1 DEF EInv, IdsOK, FilingPC
<1>5. RemovalOK(t)'
  BY <1>1 DEF RemovalOK, RemovalPC, FilingPC
<1>6. Apart'
  BY <1>1, ApartStays DEF EInv, WriterPC
<1>. QED BY <1>1, <1>2, <1>3, <1>4, <1>5, <1>6, QuietKeeps

\* No other thread takes refs out while t writes: there is no other writer, or
\* no path that is written has refs yet.
LEMMA NoRemovalBeside ==
    ASSUME EInv, OneWriter \/ Cold, NEW t \in Threads, pc[t] \in WriterPC,
           NEW o \in Threads, o # t
    PROVE  pc[o] \notin RemovalPC
<1>1. SUFFICES ASSUME pc[o] \in RemovalPC PROVE FALSE
  OBVIOUS
<1>2. pc[o] \in WriterPC /\ files[op[o].path] # NoFile
  BY <1>1, Aside DEF EInv, RemovalOK
<1>3. CASE OneWriter
  BY <1>2, <1>3 DEF EInv, Apart, OneWriter
<1>4. CASE Cold
  BY <1>2, <1>4 DEF EInv, Apart
<1>. QED BY <1>3, <1>4

LEMMA SkipExact ==
    ASSUME EInv, IInv', NEW t \in Threads, pc[t] = "push",
           op[t].next <= Len(op[t].symbols), NextIsLocal(t),
           op' = [op EXCEPT ![t].next = @ + 1],
           UNCHANGED <<pc, files, definitions, def_keys, file_ids, id_to_path, writes>>
    PROVE  EInv'
<1>1. /\ OthersStay(t) /\ pc'[t] = "push" /\ op'[t].next = op[t].next + 1
      /\ op'[t].path = op[t].path /\ op'[t].symbols = op[t].symbols
      /\ op'[t].file_id = op[t].file_id
  BY Locals, SetNext DEF OthersStay
<1>2. Quiet(t)
  BY <1>1 DEF Quiet, RemovalPC, ClearedPC
<1>3. ASSUME NEW n \in Names, NEW i \in Nat PROVE QuietOn(t, n, i)
  <2>1. Len(op[t].symbols) \in Nat /\ op[t].next \in Nat
    BY Pushed
  <2>2. FiledBy(t, n, i)' <=> FiledBy(t, n, i)
    BY <1>1, <2>1 DEF FiledBy, FilingPC, NextIsLocal
  <2>. QED BY <1>1, <2>2 DEF QuietOn, Cleared, ClearedPC
<1>4. op'[t].file_id = file_ids'[op'[t].path] /\ file_ids'[op'[t].path] # NoId
  BY <1>1 DEF EInv, IdsOK, FilingPC
<1>5. RemovalOK(t)'
  BY <1>1 DEF RemovalOK, RemovalPC, FilingPC
<1>6. Apart'
  BY <1>1, ApartStays DEF EInv, WriterPC
<1>. QED BY <1>1, <1>2, <1>3, <1>4, <1>5, <1>6, QuietKeeps

\* The id under which a thread files is that of its path.
LEMMA OwnPath ==
    ASSUME EInv, NEW p \in Paths, file_ids[p] # NoId
    PROVE  /\ file_ids[p] \in Nat /\ file_ids[p] + 1 \in 1..Len(id_to_path)
           /\ id_to_path[file_ids[p] + 1] = p
<1>1. file_ids[p] \in Nat /\ id_to_path \in Seq(Paths)
  BY DEF EInv, IInv, TypeOK
<1>2. file_ids[p] < Len(id_to_path) /\ id_to_path[file_ids[p] + 1] = p
  BY DEF EInv, IInv, FileIdTable
<1>. QED BY <1>1, <1>2, LenProperties

\* No ref of the symbol that is filed next is there yet: its copy number is 0.
LEMMA FileNext ==
    ASSUME EInv, NEW t \in Threads, pc[t] = "push", NEW n \in Names,
           op[t].next <= Len(op[t].symbols),
           NEW r \in definitions[n], r.file_id = op[t].file_id
    PROVE  r.symbol_idx # op[t].next
<1>. DEFINE p == op[t].path
<1>1. SUFFICES ASSUME r.symbol_idx = op[t].next PROVE FALSE
  OBVIOUS
<1>2. p \in Paths /\ op[t].next \in Nat
  BY Locals, Pushed
<1>3. id_to_path[r.file_id + 1] = p
  BY <1>2, OwnPath DEF EInv, IdsOK, FilingPC
<1>4. Allowed(n, p, op[t].next)
  BY <1>1, <1>2, <1>3 DEF EInv, Sound
<1>5. Cleared(t, n)
  BY DEF Cleared, ClearedPC
<1>6. PICK o \in Threads : op[o].path = p /\ FiledBy(o, n, op[t].next)
  BY <1>4, <1>5 DEF Allowed, Filed
<1>7. o = t
  BY <1>6 DEF FiledBy, FilingPC, EInv, Apart, WriterPC
<1>. QED BY <1>2, <1>6, <1>7 DEF FiledBy

LEMMA FileExact ==
    ASSUME EInv, IInv', OneWriter \/ Cold, NEW t \in Threads, pc[t] = "push",
           op[t].next <= Len(op[t].symbols), ~NextIsLocal(t), NEW name,
           name = op[t].symbols[op[t].next].name,
           definitions' = [definitions EXCEPT ![name] = @ \cup {Ref(op[t].path, op[t].next)}],
           def_keys' = def_keys \cup {name},
           op' = [op EXCEPT ![t].next = @ + 1],
           UNCHANGED <<pc, files, file_ids, id_to_path, writes>>
    PROVE  EInv'
<1>. DEFINE q == op[t].path
            idx == op[t].next
<1>1. /\ OthersStay(t) /\ pc'[t] = "push" /\ op'[t].next = op[t].next + 1
      /\ op'[t].path = op[t].path /\ op'[t].symbols = op[t].symbols
      /\ op'[t].file_id = op[t].file_id
  BY Locals, SetNext DEF OthersStay
<1>2. /\ Len(op[t].symbols) \in Nat /\ idx \in Nat /\ idx \in 1..Len(op[t].symbols)
      /\ name \in Names /\ q \in Paths
  BY Locals, Pushed
<1>3. /\ op[t].file_id = file_ids[q] /\ file_ids[q] # NoId
      /\ id_to_path[file_ids[q] + 1] = q
  BY <1>2, OwnPath DEF EInv, IdsOK, FilingPC
<1>4. definitions \in [Names -> SUBSET SymbolRef]
  BY DEF EInv, IInv, TypeOK
<1>5. ASSUME NEW n, NEW i \in Nat
      PROVE  FiledBy(t, n, i)' <=> FiledBy(t, n, i) \/ (n = name /\ i = idx)
  BY <1>1, <1>2 DEF FiledBy, FilingPC, NextIsLocal
<1>6. Sound'
  <2>. SUFFICES ASSUME NEW n \in Names, NEW p \in Paths, NEW i \in Nat, NEW r \in definitions'[n],
                       id_to_path'[r.file_id + 1] = p, r.symbol_idx = i
                PROVE  r.copy = 0 /\ Allowed(n, p, i)'
    BY DEF Sound
  <2>1. CASE r \in definitions[n]
    <3>1. r.copy = 0 /\ Allowed(n, p, i)
      BY <2>1 DEF EInv, Sound
    <3>2. Cleared(t, n)
      BY DEF Cleared, ClearedPC
    <3>. QED BY <1>1, <1>5, <3>1, <3>2, AllowedStays
  <2>2. CASE r \notin definitions[n]
    <3>1. n = name /\ r = Ref(q, idx)
      BY <1>2, <1>4, <2>2
    <3>2. p = q /\ i = idx /\ r.copy = 0
      BY <1>3, <3>1 DEF Ref
    <3>3. op'[t].path = p /\ FiledBy(t, n, i)'
      BY <1>1, <1>2, <1>5, <3>1, <3>2
    <3>. QED BY <3>2, <3>3 DEF Allowed, Filed
  <2>. QED BY <2>1, <2>2
<1>7. Complete'
  <2>. SUFFICES ASSUME NEW n \in Names, NEW p \in Paths, NEW i \in Nat, Owed(n, p, i)'
                PROVE  Ref(p, i)' \in definitions'[n]
    BY DEF Complete
  <2>1. Ref(p, i)' = Ref(p, i)
    BY DEF Ref
  <2>2. CASE p = q /\ n = name /\ i = idx
    BY <1>2, <1>4, <2>1, <2>2
  <2>3. CASE ~(p = q /\ n = name /\ i = idx)
    <3>1. Owed(n, p, i)
      BY <1>1, <1>5, <2>3, OwedBefore
    <3>2. Ref(p, i) \in definitions[n]
      BY <3>1 DEF EInv, Complete
    <3>. QED BY <1>2, <1>4, <2>1, <3>2
  <2>. QED BY <2>2, <2>3
<1>8. Keys'
  <2>1. ASSUME NEW o \in Threads PROVE pc[o] # "drop_key" /\ pc'[o] # "drop_key"
    BY <1>1, NoRemovalBeside DEF RemovalPC, WriterPC
  <2>2. ASSUME NEW n \in Names PROVE definitions'[n] # {} <=> definitions[n] # {} \/ n = name
    BY <1>2, <1>4
  <2>3. \A n \in Names : definitions[n] # {} => n \in def_keys
    BY DEF EInv, Keys
  <2>4. \A n \in def_keys : n \in Names /\ definitions[n] # {}
    BY <2>1 DEF EInv, Keys, IInv, TypeOK
  <2>. QED BY <1>2, <2>1, <2>2, <2>3, <2>4 DEF Keys
<1>9. IdsOK'
  <2>1. ASSUME NEW o \in Threads, pc'[o] \in RemovalPC \cup FilingPC
        PROVE  /\ pc[o] \in RemovalPC \cup FilingPC /\ op'[o].path = op[o].path
               /\ op'[o].file_id = op[o].file_id
    BY <1>1, <2>1 DEF OthersStay
  <2>. QED BY <2>1 DEF EInv, IdsOK
<1>10. ASSUME NEW o \in Threads PROVE RemovalOK(o)'
  <2>1. CASE o = t
    BY <1>1, <2>1 DEF RemovalOK, RemovalPC, FilingPC
  <2>2. CASE o # t
    BY <1>1, <2>2 DEF EInv, RemovalOK, OthersStay
  <2>. QED BY <2>1, <2>2
<1>11. Apart'
  BY <1>1, ApartStays DEF EInv, WriterPC
<1>. QED BY <1>6, <1>7, <1>8, <1>9, <1>10, <1>11 DEF EInv

LEMMA PushRefExact ==
    ASSUME EInv, IInv', OneWriter \/ Cold, NEW t \in Threads, PushRef(t)
    PROVE  EInv'
<1>. DEFINE name == op[t].symbols[op[t].next].name
            same == {r \in definitions[name] :
                       r.file_id = op[t].file_id /\ r.symbol_idx = op[t].next}
<1>1. /\ pc[t] = "push" /\ op[t].next <= Len(op[t].symbols)
      /\ op' = [op EXCEPT ![t].next = @ + 1]
      /\ UNCHANGED <<pc, files, file_ids, id_to_path, writes>>
  BY Zenon DEF PushRef, PushTurn, table_vars, bounds
<1>2. CASE NextIsLocal(t) /\ UNCHANGED <<definitions, def_keys>>
  BY <1>1, <1>2, SkipExact
<1>3. CASE /\ ~NextIsLocal(t) /\ def_keys' = def_keys \cup {name}
           /\ definitions' = [definitions EXCEPT ![name] = @ \cup
                 {[file_id |-> op[t].file_id, symbol_idx |-> op[t].next,
                   copy |-> Cardinality(same)]}]
  <2>1. name \in Names
    BY <1>1, Pushed
  <2>2. same = {}
    BY <1>1, <2>1, FileNext
  <2>3. Cardinality(same) = 0
    BY <2>2, FS_EmptySet
  <2>4. op[t].file_id = file_ids[op[t].path]
    BY <1>1 DEF EInv, IdsOK, FilingPC
  <2>. HIDE DEF same
  <2>5. definitions' = [definitions EXCEPT ![name] = @ \cup {Ref(op[t].path, op[t].next)}]
    BY <1>3, <2>3, <2>4 DEF Ref
  <2>. QED BY <1>1, <1>3, <2>5, FileExact, Zenon
<1>. QED BY <1>2, <1>3, Zenon DEF PushRef, PushTurn

-----------------------------------------------------------------------------
\* Taking the refs of t's path out from under one name.
LEMMA TakeOut ==
    ASSUME EInv, IInv', NEW t \in Threads, pc[t] \in RemovalPC, NEW name \in Names,
           definitions' = [definitions EXCEPT
                             ![name] = {r \in @ : r.file_id # op[t].file_id}],
           Keys', OthersStay(t),
           UNCHANGED <<files, file_ids, id_to_path, writes>>,
           op'[t].path = op[t].path, op'[t].file_id = op[t].file_id,
           op'[t].next = op[t].next,
           pc'[t] \in {"retain", "drop_key", "lookup_id", "remove_file"},
           \A n \in Names : Cleared(t, n)' => Cleared(t, n) \/ n = name
    PROVE  EInv'
<1>. DEFINE q == op[t].path
<1>1. /\ q \in Paths /\ op[t].file_id = file_ids[q] /\ file_ids[q] # NoId
      /\ file_ids[q] + 1 \in 1..Len(id_to_path) /\ id_to_path[file_ids[q] + 1] = q
      /\ file_ids[q] \in Nat
  BY Locals, OwnPath DEF EInv, IdsOK
<1>2. definitions \in [Names -> SUBSET SymbolRef]
  BY DEF EInv, IInv, TypeOK
<1>3. ASSUME NEW n, NEW i PROVE ~FiledBy(t, n, i) /\ ~FiledBy(t, n, i)'
  BY Aside DEF FiledBy, FilingPC, RemovalPC
<1>4. Sound'
  <2>. SUFFICES ASSUME NEW n \in Names, NEW p \in Paths, NEW i \in Nat, NEW r \in definitions'[n],
                       id_to_path'[r.file_id + 1] = p, r.symbol_idx = i
                PROVE  r.copy = 0 /\ Allowed(n, p, i)'
    BY DEF Sound
  <2>1. r \in definitions[n] /\ (n = name => r.file_id # file_ids[q])
    BY <1>1, <1>2
  <2>2. r.copy = 0 /\ Allowed(n, p, i)
    BY <2>1 DEF EInv, Sound
  <2>3. r.file_id \in Nat /\ r.file_id < Len(id_to_path) /\ Len(id_to_path) \in Nat
    BY <1>2, <2>1, LenProperties DEF EInv, IInv, RefsInBounds, SymbolRef, TypeOK
  <2>4. p = q => n # name
    <3>1. r.file_id + 1 \in 1..Len(id_to_path)
      BY <2>3
    <3>2. p = q => r.file_id + 1 = file_ids[q] + 1
      BY <1>1, <3>1 DEF EInv, IInv, FileIdTable
    <3>. QED BY <1>1, <2>1, <2>3, <3>2
  <2>. QED BY <1>3, <2>2, <2>4, AllowedStays
<1>5. Complete'
  <2>. SUFFICES ASSUME NEW n \in Names, NEW p \in Paths, NEW i \in Nat, Owed(n, p, i)'
                PROVE  Ref(p, i)' \in definitions'[n]
    BY DEF Complete
  <2>1. Ref(p, i)' = Ref(p, i)
    BY DEF Ref
  <2>2. Owed(n, p, i)
    <3>1. pc'[t] \in RemovalPC \cup ClearedPC
      BY DEF RemovalPC, ClearedPC
    <3>. QED BY <1>3, <3>1, OwedBefore
  <2>3. Ref(p, i) \in definitions[n]
    BY <2>2 DEF EInv, Complete
  <2>4. p # q
    <3>1. SUFFICES ASSUME p = q PROVE FALSE
      OBVIOUS
    <3>2. PICK o \in Threads : op[o].path = q /\ FiledBy(o, n, i)
      BY <2>2, <3>1 DEF Owed, Filed
    <3>3. o # t /\ pc[o] \in WriterPC /\ pc[t] \in WriterPC
      BY <1>3, <3>2, Aside DEF FiledBy
    <3>. QED BY <3>2, <3>3 DEF EInv, Apart
  <2>5. file_ids[p] # file_ids[q]
    BY <1>1, <2>4, OwnPath
  <2>. QED BY <1>1, <1>2, <2>1, <2>3, <2>5 DEF Ref
<1>6. IdsOK'
  <2>1. ASSUME NEW o \in Threads, pc'[o] \in RemovalPC \cup FilingPC
        PROVE  /\ pc[o] \in RemovalPC \cup FilingPC /\ op'[o].path = op[o].path
               /\ op'[o].file_id = op[o].file_id
    BY <2>1 DEF OthersStay
  <2>. QED BY <2>1 DEF EInv, IdsOK
<1>7. ASSUME NEW o \in Threads PROVE RemovalOK(o)'
  <2>1. CASE o = t
    <3>1. op[t].next = 1 /\ files[q] # NoFile
      BY Aside, Locals DEF FilingPC, RemovalPC, EInv, RemovalOK
    <3>. QED BY <2>1, <3>1 DEF RemovalOK
  <2>2. CASE o # t
    BY <2>2 DEF EInv, RemovalOK, OthersStay
  <2>. QED BY <2>1, <2>2
<1>8. Apart'
  BY Aside, ApartStays DEF EInv
<1>. QED BY <1>4, <1>5, <1>6, <1>7, <1>8 DEF EInv

\* The loop over the old names goes on with the rest of them.
LEMMA NextNameClears ==
    ASSUME EInv, NEW t \in Threads, pc[t] \in RemovalPC,
           op' = [op EXCEPT ![t].names = Tail(@)],
           Goto(t, NextName(t, Tail(op[t].names)))
    PROVE  /\ OthersStay(t) /\ Head(op[t].names) \in Names
           /\ op'[t].path = op[t].path /\ op'[t].file_id = op[t].file_id
           /\ op'[t].next = op[t].next
           /\ pc'[t] \in {"retain", "lookup_id", "remove_file"}
           /\ \A n \in Names : Cleared(t, n)' => Cleared(t, n) \/ n = Head(op[t].names)
<1>. DEFINE names == op[t].names
<1>1. names \in Seq(Names) /\ names # <<>>
  <2>1. op[t] \in Op
    BY Locals
  <2>. QED BY <2>1 DEF Op, EInv, IInv, NamesLeft, RemovalPC
<1>2. /\ op'[t].names = Tail(names) /\ OthersStay(t)
      /\ op'[t].path = op[t].path /\ op'[t].file_id = op[t].file_id
      /\ op'[t].next = op[t].next
      /\ pc'[t] = NextName(t, Tail(names))
  BY Goes, Locals, SetNames DEF OthersStay
<1>3. pc'[t] \in {"retain", "lookup_id", "remove_file"} /\ (Tail(names) # <<>> => pc'[t] = "retain")
  BY <1>2 DEF NextName, AfterRemoval
<1>4. Head(names) \in Names /\ Head(names) = names[1]
  BY <1>1
<1>5. ASSUME NEW n \in Names, n # Head(names), Cleared(t, n)' PROVE Cleared(t, n)
  <2>1. SUFFICES ASSUME n \in NamesAhead(t) PROVE FALSE
    BY DEF Cleared
  <2>2. PICK k \in 1..Len(names) : names[k] = n
    BY <2>1 DEF NamesAhead
  <2>3. k # 1 /\ Len(names) \in Nat /\ k \in Nat
    BY <1>1, <1>4, <1>5, <2>2, LenProperties
  <2>4. k - 1 \in 1..Len(Tail(names)) /\ Tail(names)[k - 1] = n
    BY <1>1, <2>2, <2>3
  <2>5. Tail(names) # <<>>
    BY <2>4
  <2>6. n \in NamesAhead(t)'
    BY <1>2, <2>4 DEF NamesAhead
  <2>. QED BY <1>3, <1>5, <2>5, <2>6 DEF Cleared, ClearedPC
<1>. QED BY <1>2, <1>3, <1>4, <1>5

LEMMA RetainExact ==
    ASSUME EInv, IInv', NEW t \in Threads, Retain(t)
    PROVE  EInv'
<1>. DEFINE name == Head(op[t].names)
            kept == {r \in definitions[name] : r.file_id # op[t].file_id}
<1>1. /\ pc[t] = "retain" /\ pc[t] \in RemovalPC
      /\ definitions' = [definitions EXCEPT ![name] = kept]
      /\ UNCHANGED <<files, def_keys, file_ids, id_to_path, writes>>
  BY DEF Retain, RemovalPC, table_vars, bounds
<1>2. definitions \in [Names -> SUBSET SymbolRef] /\ name \in Names
  <2>1. op[t].names \in Seq(Names) /\ op[t].names # <<>>
    BY <1>1, Locals DEF Op, EInv, IInv, NamesLeft
  <2>. QED BY <2>1 DEF EInv, IInv, TypeOK
<1>3. definitions'[name] = kept /\ \A n \in Names : definitions'[n] \subseteq definitions[n]
  BY <1>1, <1>2
<1>. HIDE DEF name
<1>4. ASSUME NEW o \in Threads, o # t, OthersStay(t), pc'[o] = "drop_key"
      PROVE  /\ pc[o] = "drop_key" /\ op'[o] = op[o] /\ definitions'[Head(op'[o].names)] = {}
  <2>1. pc[o] = "drop_key" /\ op'[o] = op[o]
    BY <1>4 DEF OthersStay
  <2>2. definitions[Head(op[o].names)] = {}
    BY <2>1 DEF EInv, Keys
  <2>. QED BY <1>1, <1>2, <2>1, <2>2
<1>5. ASSUME NEW n \in def_keys, definitions'[n] = {}, OthersStay(t), n # name
      PROVE  \E o \in Threads : pc'[o] = "drop_key" /\ Head(op'[o].names) = n
  <2>1. definitions[n] = {} /\ n \in Names
    BY <1>1, <1>2, <1>5 DEF EInv, IInv, TypeOK
  <2>2. PICK o \in Threads : pc[o] = "drop_key" /\ Head(op[o].names) = n
    BY <2>1 DEF EInv, Keys
  <2>3. o # t
    BY <1>1, <2>2
  <2>. QED BY <1>5, <2>2, <2>3 DEF OthersStay
<1>6. CASE name \in def_keys /\ kept = {} /\ Goto(t, "drop_key") /\ UNCHANGED op
  <2>1. OthersStay(t) /\ pc'[t] = "drop_key" /\ op' = op
    BY <1>6, Goes DEF OthersStay
  <2>2. ASSUME NEW o \in Threads, pc'[o] = "drop_key" PROVE definitions'[Head(op'[o].names)] = {}
    BY <1>3, <1>4, <1>6, <2>1, <2>2 DEF name
  <2>3. ASSUME NEW n \in def_keys, definitions'[n] = {}
        PROVE  \E o \in Threads : pc'[o] = "drop_key" /\ Head(op'[o].names) = n
    BY <1>5, <2>1, <2>3 DEF name
  <2>4. Keys'
    BY <1>1, <1>3, <2>2, <2>3 DEF EInv, Keys
  <2>5. \A n \in Names : Cleared(t, n)' => Cleared(t, n)
    BY <1>1, <2>1 DEF Cleared, ClearedPC, RemovalPC, NamesAhead
  <2>. QED BY <1>1, <1>2, <2>1, <2>4, <2>5, TakeOut
<1>7. CASE /\ ~(name \in def_keys /\ kept = {})
           /\ op' = [op EXCEPT ![t].names = Tail(@)]
           /\ Goto(t, NextName(t, Tail(op[t].names)))
  <2>1. /\ OthersStay(t)
        /\ op'[t].path = op[t].path /\ op'[t].file_id = op[t].file_id
        /\ op'[t].next = op[t].next
        /\ pc'[t] \in {"retain", "lookup_id", "remove_file"}
        /\ \A n \in Names : Cleared(t, n)' => Cleared(t, n) \/ n = name
    BY <1>1, <1>7, NextNameClears DEF name
  <2>2. ASSUME NEW o \in Threads, pc'[o] = "drop_key" PROVE definitions'[Head(op'[o].names)] = {}
    BY <1>4, <2>1, <2>2
  <2>3. ASSUME NEW n \in def_keys, definitions'[n] = {}
        PROVE  \E o \in Threads : pc'[o] = "drop_key" /\ Head(op'[o].names) = n
    BY <1>3, <1>5, <1>7, <2>1, <2>3
  <2>4. Keys'
    BY <1>1, <1>3, <2>2, <2>3 DEF EInv, Keys
  <2>. QED BY <1>1, <1>2, <2>1, <2>4, TakeOut
<1>. QED BY <1>6, <1>7 DEF Retain, name

LEMMA DropKeyExact ==
    ASSUME EInv, IInv', NEW t \in Threads, DropKey(t)
    PROVE  EInv'
<1>. DEFINE name == Head(op[t].names)
<1>1. /\ pc[t] = "drop_key" /\ pc[t] \in RemovalPC
      /\ definitions' = [definitions EXCEPT ![name] = {}]
      /\ def_keys' = def_keys \ {name}
      /\ op' = [op EXCEPT ![t].names = Tail(@)]
      /\ Goto(t, NextName(t, Tail(op[t].names)))
      /\ UNCHANGED <<files, file_ids, id_to_path, writes>>
  BY DEF DropKey, RemovalPC, table_vars, bounds
<1>2. definitions[name] = {} /\ definitions \in [Names -> SUBSET SymbolRef]
  BY <1>1 DEF EInv, Keys, IInv, TypeOK
<1>3. /\ OthersStay(t) /\ name \in Names
      /\ op'[t].path = op[t].path /\ op'[t].file_id = op[t].file_id
      /\ op'[t].next = op[t].next
      /\ pc'[t] \in {"retain", "lookup_id", "remove_file"}
      /\ \A n \in Names : Cleared(t, n)' => Cleared(t, n) \/ n = name
  BY <1>1, NextNameClears
<1>. HIDE DEF name
<1>4. /\ definitions' = definitions
      /\ definitions' = [definitions EXCEPT
                           ![name] = {r \in @ : r.file_id # op[t].file_id}]
  BY <1>1, <1>2, <1>3
<1>5. ASSUME NEW o \in Threads, pc'[o] = "drop_key" PROVE definitions'[Head(op'[o].names)] = {}
  <2>1. pc[o] = "drop_key" /\ op'[o] = op[o]
    BY <1>3, <1>5 DEF OthersStay
  <2>. QED BY <1>4, <2>1 DEF EInv, Keys
<1>6. ASSUME NEW n \in def_keys', definitions'[n] = {}
      PROVE  \E o \in Threads : pc'[o] = "drop_key" /\ Head(op'[o].names) = n
  <2>1. PICK o \in Threads : pc[o] = "drop_key" /\ Head(op[o].names) = n
    BY <1>1, <1>4, <1>6 DEF EInv, Keys
  <2>2. o # t
    BY <1>1, <1>6, <2>1 DEF name
  <2>. QED BY <1>3, <2>1, <2>2 DEF OthersStay
<1>7. ASSUME NEW n \in Names, definitions'[n] # {} PROVE n \in def_keys'
  BY <1>1, <1>2, <1>4, <1>7 DEF EInv, Keys
<1>8. Keys'
  BY <1>5, <1>6, <1>7 DEF Keys
<1>. QED BY <1>1, <1>3, <1>4, <1>8, TakeOut

-----------------------------------------------------------------------------
\* Ending a write: what t has filed is what `files` says from now on.
LEMMA EndWrite ==
    ASSUME EInv, IInv', NEW t \in Threads, pc[t] \in {"insert_file", "remove_file"},
           pc'[t] = "idle", OthersStay(t), NEW c, NEW q \in Paths, q = op[t].path,
           files' = [files EXCEPT ![q] = c],
           UNCHANGED <<definitions, def_keys, file_ids, id_to_path, writes>>,
           \A n \in Names, i \in Nat :
              i \in Promise!Globals(q, {n})' <=> FiledBy(t, n, i),
           c # NoFile => pc[t] = "insert_file"
    PROVE  EInv'
<1>1. /\ q \in Paths /\ files'[q] = c /\ \A p \in Paths : p # q => files'[p] = files[p]
      /\ pc[t] \in WriterPC /\ pc[t] \in ClearedPC
  BY Locals DEF EInv, IInv, TypeOK, WriterPC, ClearedPC
<1>2. ASSUME NEW o \in Threads, o # t, pc'[o] \in WriterPC \/ pc[o] \in WriterPC
      PROVE  pc'[o] = pc[o] /\ op'[o] = op[o] /\ op[o].path # q /\ op[o].path \in Paths
  <2>1. pc'[o] = pc[o] /\ op'[o] = op[o] /\ pc[o] \in WriterPC
    BY <1>2 DEF OthersStay
  <2>. QED BY <1>1, <1>2, <2>1, Locals DEF EInv, Apart
<1>3. ASSUME NEW n PROVE ~Cleared(t, n)' /\ \A i : ~FiledBy(t, n, i)'
  BY DEF Cleared, FiledBy, FilingPC, RemovalPC, ClearedPC
<1>4. Sound'
  <2>. SUFFICES ASSUME NEW n \in Names, NEW p \in Paths, NEW i \in Nat, NEW r \in definitions'[n],
                       id_to_path'[r.file_id + 1] = p, r.symbol_idx = i
                PROVE  r.copy = 0 /\ Allowed(n, p, i)'
    BY DEF Sound
  <2>1. r.copy = 0 /\ Allowed(n, p, i)
    BY DEF EInv, Sound
  <2>2. CASE p # q
    BY <1>1, <1>3, <2>1, <2>2, AllowedStays
  <2>3. CASE p = q
    <3>1. Cleared(t, n)
      BY <1>1 DEF Cleared
    <3>2. PICK o \in Threads : op[o].path = q /\ FiledBy(o, n, i)
      BY <2>1, <2>3, <3>1 DEF Allowed, Filed
    <3>3. o = t
      BY <1>2, <3>2, Aside DEF FiledBy
    <3>4. i \in Promise!Globals(p, {n})'
      BY <2>3, <3>2, <3>3
    <3>5. ASSUME NEW u \in Threads, op'[u].path = p, Cleared(u, n)' PROVE FALSE
      <4>1. u # t /\ pc'[u] \in WriterPC
        BY <1>3, <3>5, Aside DEF Cleared
      <4>. QED BY <1>2, <2>3, <3>5, <4>1
    <3>. QED BY <2>1, <3>4, <3>5 DEF Allowed
  <2>. QED BY <2>2, <2>3
<1>5. Complete'
  <2>. SUFFICES ASSUME NEW n \in Names, NEW p \in Paths, NEW i \in Nat, Owed(n, p, i)'
                PROVE  Ref(p, i)' \in definitions'[n]
    BY DEF Complete
  <2>1. Owed(n, p, i)
    <3>1. CASE p # q
      BY <1>1, <1>3, <3>1, OwedBefore
    <3>2. CASE p = q
      <4>1. ~Filed(n, p, i)'
        <5>1. SUFFICES ASSUME NEW o \in Threads, op'[o].path = p, FiledBy(o, n, i)' PROVE FALSE
          BY DEF Filed
        <5>2. o # t /\ pc'[o] \in WriterPC
          BY <1>3, <5>1, Aside DEF FiledBy
        <5>. QED BY <1>2, <3>2, <5>1, <5>2
      <4>2. i \in Promise!Globals(p, {n})'
        BY <4>1 DEF Owed
      <4>3. FiledBy(t, n, i)
        BY <3>2, <4>2
      <4>. QED BY <3>2, <4>3 DEF Owed, Filed
    <3>. QED BY <3>1, <3>2
  <2>2. Ref(p, i) \in definitions[n] /\ Ref(p, i)' = Ref(p, i)
    BY <2>1 DEF EInv, Complete, Ref
  <2>. QED BY <2>2
<1>6. Keys'
  <2>1. ASSUME NEW o \in Threads
        PROVE  /\ (pc[o] = "drop_key") = (pc'[o] = "drop_key")
               /\ pc[o] = "drop_key" => op'[o] = op[o]
    BY DEF OthersStay
  <2>. QED BY <2>1 DEF EInv, Keys
<1>7. IdsOK'
  <2>1. ASSUME NEW p \in Paths, files'[p] # NoFile PROVE file_ids'[p] # NoId
    BY <1>1, <2>1 DEF EInv, IdsOK, FilingPC
  <2>2. ASSUME NEW o \in Threads, pc'[o] \in RemovalPC \cup FilingPC
        PROVE  pc'[o] = pc[o] /\ op'[o] = op[o]
    BY <2>2 DEF OthersStay, RemovalPC, FilingPC
  <2>. QED BY <2>1, <2>2 DEF EInv, IdsOK
<1>8. ASSUME NEW o \in Threads PROVE RemovalOK(o)'
  <2>1. CASE pc'[o] \in WriterPC
    <3>1. o # t
      BY <2>1, Aside
    <3>2. pc'[o] = pc[o] /\ op'[o] = op[o] /\ files'[op[o].path] = files[op[o].path]
      BY <1>1, <1>2, <2>1, <3>1
    <3>. QED BY <3>2 DEF EInv, RemovalOK
  <2>2. CASE pc'[o] \notin WriterPC
    BY <2>2 DEF RemovalOK, RemovalPC, WriterPC
  <2>. QED BY <2>1, <2>2
<1>9. Apart'
  <2>1. ASSUME NEW o \in Threads, pc'[o] \in WriterPC
        PROVE  /\ pc[o] \in WriterPC /\ op'[o] = op[o]
               /\ files'[op[o].path] = files[op[o].path]
    <3>1. o # t
      BY <2>1, Aside
    <3>. QED BY <1>1, <1>2, <2>1, <3>1
  <2>2. ASSUME Cold, NEW p \in Paths, files'[p] # NoFile PROVE writes'[p] >= 1
    BY <1>1, <2>2 DEF EInv, Apart
  <2>. QED BY <2>1, <2>2 DEF EInv, Apart
<1>. QED BY <1>4, <1>5, <1>6, <1>7, <1>8, <1>9 DEF EInv

LEMMA InsertFileExact ==
    ASSUME EInv, IInv', NEW t \in Threads, InsertFile(t)
    PROVE  EInv'
<1>. DEFINE c == op[t].symbols
<1>0. PICK q \in Paths : q = op[t].path
  BY Locals
<1>1. /\ pc[t] = "insert_file" /\ pc'[t] = "idle" /\ OthersStay(t)
      /\ files' = [files EXCEPT ![q] = c]
      /\ UNCHANGED <<definitions, def_keys, file_ids, id_to_path, writes>>
  BY <1>0, Goes, Locals DEF InsertFile, OthersStay, table_vars, bounds
<1>2. files'[q] = c /\ c # NoFile
  BY <1>0, <1>1, Locals, Pushed, SentinelAssumption DEF EInv, IInv, TypeOK
<1>3. ASSUME NEW n \in Names, NEW i \in Nat
      PROVE  i \in Promise!Globals(q, {n})' <=> FiledBy(t, n, i)
  BY <1>1, <1>2 DEF Promise!Globals, FiledBy, FilingPC
<1>. QED BY <1>0, <1>1, <1>3, EndWrite

LEMMA DropFileExact ==
    ASSUME EInv, IInv', NEW t \in Threads, DropFile(t)
    PROVE  EInv'
<1>0. PICK q \in Paths : q = op[t].path
  BY Locals
<1>1. /\ pc[t] = "remove_file" /\ pc'[t] = "idle" /\ OthersStay(t)
      /\ files' = [files EXCEPT ![q] = NoFile]
      /\ UNCHANGED <<definitions, def_keys, file_ids, id_to_path, writes>>
  BY <1>0, Goes, Locals DEF DropFile, OthersStay, table_vars, bounds
<1>2. files'[q] = NoFile
  BY <1>0, <1>1, Locals DEF EInv, IInv, TypeOK
<1>3. ASSUME NEW n \in Names, NEW i \in Nat
      PROVE  i \in Promise!Globals(q, {n})' <=> FiledBy(t, n, i)
  BY <1>1, <1>2 DEF Promise!Globals, FiledBy, FilingPC
<1>. QED BY <1>0, <1>1, <1>3, EndWrite

-----------------------------------------------------------------------------
\* The invariant holds initially, and every step keeps it.
LEMMA InitExact == Init => EInv
<1>. SUFFICES ASSUME Init PROVE EInv
  OBVIOUS
<1>1. IInv
  BY InitKeeps
<1>2. \A t \in Threads : pc[t] = "idle"
  BY DEF Init
<1>3. ASSUME NEW n, NEW p \in Paths, NEW i PROVE ~Owed(n, p, i)
  BY <1>2 DEF Owed, Filed, FiledBy, FilingPC, Promise!Globals, Init
<1>4. Sound /\ Complete /\ Keys
  BY <1>2, <1>3 DEF Sound, Complete, Keys, Init
<1>5. IdsOK /\ \A t \in Threads : RemovalOK(t)
  BY <1>2 DEF IdsOK, RemovalOK, RemovalPC, FilingPC, WriterPC, Init
<1>6. Apart
  BY <1>2 DEF Apart, WriterPC, Init
<1>. QED BY <1>1, <1>4, <1>5, <1>6 DEF EInv

LEMMA StepExact ==
    ASSUME OneWriter \/ Cold, EInv, [Next]_vars
    PROVE  EInv'
<1>1. IInv'
  BY StepKeeps DEF EInv
<1>2. ASSUME NEW t \in Threads, Request(t) PROVE EInv'
  <2>1. ASSUME NEW p \in Paths, NEW c \in Contents, IndexFile(t, p, c) \/ InstallFileUnit(t, p, c)
        PROVE  EInv'
    BY <1>1, <2>1, StartExact DEF IndexFile, InstallFileUnit, Writers
  <2>2. ASSUME NEW p \in Paths, RemoveFile(t, p) \/ DropDeadRow(t, p) PROVE EInv'
    BY <1>1, <2>2, StartExact, ContentsAssumption DEF RemoveFile, DropDeadRow, Writers
  <2>3. ASSUME \/ \E n \in Names : FindDefinitions(t, n)
               \/ \E close \in SUBSET Names \ {{}} : SearchSymbols(t, close)
               \/ \E close \in SUBSET Names : \E prefixed \in SUBSET close \ {{}} :
                     Completions(t, prefixed, close)
        PROVE  EInv'
    BY <1>1, <2>3, StartAskExact DEF FindDefinitions, SearchSymbols, Completions
  <2>. QED BY <1>2, <2>1, <2>2, <2>3 DEF Request
<1>3. ASSUME NEW t \in Threads, WriteStep(t) PROVE EInv'
  BY <1>1, <1>3, ReadOldNamesExact, ReadOldIdExact, RetainExact, DropKeyExact, LookupIdExact,
     LockTableExact, InsertIdExact, PushRefExact, EndPushExact, InsertFileExact,
     DropFileExact, AskExact DEF WriteStep
<1>4. ASSUME NEW t \in Threads, AskStep(t) PROVE EInv'
  BY <1>1, <1>4, AskExact
<1>5. CASE UNCHANGED vars
  <2>. USE <1>5 DEF vars, index_vars, table_vars, fuzzy_vars, bounds
  <2>1. \A n, p, i : Allowed(n, p, i)' = Allowed(n, p, i) /\ Owed(n, p, i)' = Owed(n, p, i)
    BY DEF Allowed, Owed, Filed, FiledBy, Cleared, NamesAhead, Promise!Globals
  <2>2. Sound' /\ Complete'
    BY <2>1 DEF EInv, Sound, Complete, Ref
  <2>3. Keys' /\ IdsOK' /\ Apart' /\ \A t \in Threads : RemovalOK(t)'
    BY DEF EInv, Keys, IdsOK, Apart, RemovalOK
  <2>. QED BY <1>1, <2>2, <2>3 DEF EInv
<1>. QED BY <1>2, <1>3, <1>4, <1>5 DEF Next, Step

LEMMA ExactInvariance == OneWriter \/ Cold => (Spec => []EInv)
<1>. SUFFICES ASSUME OneWriter \/ Cold PROVE Spec => []EInv
  OBVIOUS
<1>1. EInv /\ [Next]_vars => EInv'
  BY StepExact
<1>. QED BY <1>1, InitExact, PTL DEF Spec

-----------------------------------------------------------------------------
\* With no write under way, what is allowed, what is owed and what `files` says
\* are the same.
LEMMA Settled ==
    ASSUME EInv, ~Writing, NEW n \in Names, NEW p \in Paths, NEW i
    PROVE  /\ Allowed(n, p, i) <=> i \in Promise!Globals(p, {n})
           /\ Owed(n, p, i) <=> i \in Promise!Globals(p, {n})
           /\ i \in Promise!Globals(p, {n}) => i \in Nat
<1>1. \A t \in Threads : /\ pc[t] \notin RemovalPC \cup ClearedPC
                         /\ ~Cleared(t, n) /\ ~FiledBy(t, n, i)
  BY Aside DEF Writing, Cleared, FiledBy
<1>2. i \in Promise!Globals(p, {n}) => i \in Nat
  BY SymbolsOf DEF Promise!Globals, EInv, IInv
<1>. QED BY <1>1, <1>2 DEF Allowed, Owed, Filed

LEMMA ExactWhenSettled == EInv => IndexIsExact
<1>. SUFFICES ASSUME EInv, ~Writing
              PROVE  /\ \A n \in Names : definitions[n] = ExactRefs(n)
                     /\ def_keys = {n \in Names : ExactRefs(n) # {}}
  BY DEF IndexIsExact
<1>1. table_writer = NoThread
  BY DEF EInv, IInv, WriterInTable, TypeOK, Writing, WriterPC
<1>2. ASSUME NEW n \in Names, NEW r \in definitions[n] PROVE r \in ExactRefs(n)
  <2>1. PICK p \in Paths : p = id_to_path[r.file_id + 1]
    BY RefPath
  <2>2. r \in SymbolRef /\ r.symbol_idx \in Nat /\ r.file_id + 1 \in 1..Len(id_to_path)
    BY RefPath
  <2>3. r.copy = 0 /\ r.symbol_idx \in Promise!Globals(p, {n})
    <3>1. r.copy = 0 /\ Allowed(n, p, r.symbol_idx)
      BY <2>1, <2>2 DEF EInv, Sound
    <3>. QED BY <3>1, Settled
  <2>4. file_ids[p] = r.file_id
    <3>1. r.file_id \in Nat
      BY <2>2 DEF SymbolRef
    <3>. QED BY <1>1, <2>1, <2>2, <3>1 DEF EInv, IInv, FileIdTable
  <2>5. r = [file_id |-> file_ids[p], symbol_idx |-> r.symbol_idx, copy |-> 0]
    BY <2>2, <2>3, <2>4 DEF SymbolRef
  <2>. QED BY <2>3, <2>5 DEF ExactRefs
<1>3. ASSUME NEW n \in Names, NEW r \in ExactRefs(n) PROVE r \in definitions[n]
  <2>1. PICK p \in Paths : \E i \in Promise!Globals(p, {n}) :
           r = [file_id |-> file_ids[p], symbol_idx |-> i, copy |-> 0]
    BY DEF ExactRefs
  <2>2. PICK i \in Promise!Globals(p, {n}) :
           r = [file_id |-> file_ids[p], symbol_idx |-> i, copy |-> 0]
    BY <2>1
  <2>3. i \in Nat /\ Owed(n, p, i)
    BY Settled
  <2>. QED BY <2>2, <2>3 DEF EInv, Complete, Ref
<1>4. \A n \in Names : definitions[n] = ExactRefs(n)
  BY <1>2, <1>3
<1>5. \A n \in Names : n \in def_keys <=> definitions[n] # {}
  <2>1. \A t \in Threads : pc[t] # "drop_key"
    BY DEF Writing, WriterPC
  <2>. QED BY <2>1 DEF EInv, Keys
<1>6. def_keys \subseteq Names
  BY DEF EInv, IInv, TypeOK
<1>. QED BY <1>4, <1>5, <1>6

\* As long as one thread writes, or every path is indexed for the first time by
\* whatever threads, `definitions` is the exact inverse of `files` whenever no
\* write is under way (workspace.rs:13, "All data is exact").  Two threads that
\* index the same path again may break it.
THEOREM IndexBecomesExact == OneWriter \/ Cold => (Spec => []IndexIsExact)
<1>. SUFFICES ASSUME OneWriter \/ Cold PROVE Spec => []IndexIsExact
  OBVIOUS
<1>1. Spec => []EInv
  BY ExactInvariance
<1>. QED BY <1>1, ExactWhenSettled, PTL

-----------------------------------------------------------------------------
(***************************************************************************)
(* Queries.                                                                *)
(***************************************************************************)
\* A write by t leaves the queries of the other threads alone, and the entries
\* whose guard they hold.
LEMMA WritesAside ==
    ASSUME IInv, NEW t \in Threads, WriteStep(t)
    PROVE  /\ UNCHANGED <<ask, answer>> /\ pc'[t] \notin AskerPC
           /\ \A o \in Threads : o # t => pc'[o] = pc[o]
           /\ \A n \in Names : Guarded(n) => definitions'[n] = definitions[n]
<1>1. UNCHANGED <<ask, answer>>
  BY Zenon DEF WriteStep, ReadOldNames, ReadOldId, Retain, DropKey, LookupId, LockTable, InsertId,
     PushRef, PushTurn, EndPush, MarkDirty, InsertFile, DropFile, FinishScan
<1>2. pc \in [Threads -> {"idle"} \cup WriterPC \cup AskerPC]
  BY DEF IInv, TypeOK
<1>3. pc'[t] \notin AskerPC /\ \A o \in Threads : o # t => pc'[o] = pc[o]
  <2>1. \E label \in {"idle"} \cup WriterPC : Goto(t, label) \/ (pc' = pc /\ pc[t] = label)
    BY Zenon DEF WriteStep, ReadOldNames, ReadOldId, Retain, DropKey, LookupId, LockTable, InsertId,
       PushRef, PushTurn, EndPush, MarkDirty, InsertFile, DropFile, FinishScan, NextName,
       AfterRemoval, WriterPC
  <2>. QED BY <1>2, <2>1 DEF Goto, WriterPC, AskerPC
<1>4. definitions \in [Names -> SUBSET SymbolRef]
  BY DEF IInv, TypeOK
<1>5. ASSUME NEW n \in Names, Guarded(n) PROVE definitions'[n] = definitions[n]
  <2>1. \/ UNCHANGED definitions
        \/ \E m, s : definitions' = [definitions EXCEPT ![m] = s] /\ ~Guarded(m)
    BY Zenon DEF WriteStep, ReadOldNames, ReadOldId, Retain, DropKey, LookupId, LockTable,
       InsertId, PushRef, PushTurn, EndPush, MarkDirty, InsertFile, DropFile, FinishScan,
       index_vars
  <2>. QED BY <1>4, <1>5, <2>1
<1>. QED BY <1>1, <1>3, <1>5

\* What a step must keep for the queries of the other threads.
LEMMA OthersAnswers ==
    ASSUME AInv, NEW t \in Threads,
           \A o \in Threads : o # t => pc'[o] = pc[o] /\ ask'[o] = ask[o],
           \A o \in Threads : o # t /\ pc[o] \in HoldingPC =>
              definitions[ask[o].name] \subseteq definitions'[ask[o].name],
           pc'[t] \in AskerPC => HeldOK(t)' /\ NamesOK(t)'
    PROVE  AInv'
<1>1. ASSUME NEW o \in Threads, o # t, pc'[o] \in AskerPC PROVE HeldOK(o)' /\ NamesOK(o)'
  <2>1. pc'[o] = pc[o] /\ ask'[o] = ask[o] /\ HeldOK(o) /\ NamesOK(o)
    BY <1>1 DEF AInv
  <2>. QED BY <1>1, <2>1 DEF HeldOK, NamesOK
<1>. QED BY <1>1 DEF AInv

LEMMA WriteAnswers ==
    ASSUME IInv, AInv, NEW t \in Threads, WriteStep(t)
    PROVE  AInv'
<1>1. ASSUME NEW o \in Threads, pc[o] \in HoldingPC
      PROVE  definitions'[ask[o].name] = definitions[ask[o].name]
  <2>1. ask[o].name \in Names
    BY DEF IInv, TypeOK, Ask
  <2>2. Guarded(ask[o].name)
    BY <1>1 DEF Guarded, HoldingPC
  <2>. QED BY <2>1, <2>2, WritesAside
<1>. QED BY <1>1, WritesAside, OthersAnswers

\* A step of a query changes that thread's locals alone.
LEMMA AskMoves ==
    ASSUME IInv, NEW t \in Threads, AskStep(t)
    PROVE  /\ \A o \in Threads : o # t => pc'[o] = pc[o] /\ ask'[o] = ask[o]
           /\ UNCHANGED <<files, definitions, def_keys, file_ids, id_to_path, op, scan>>
           /\ ask[t] \in Ask /\ ask \in [Threads -> Ask]
           /\ pc \in [Threads -> {"idle"} \cup WriterPC \cup AskerPC]
<1>1. /\ ask \in [Threads -> Ask] /\ ask[t] \in Ask
      /\ pc \in [Threads -> {"idle"} \cup WriterPC \cup AskerPC]
  BY DEF IInv, TypeOK
<1>2. UNCHANGED <<files, definitions, def_keys, file_ids, id_to_path, op, scan>>
  BY Zenon DEF AskStep, FuzzyCheck, FuzzyLock, FuzzyIter, FuzzyClean, FuzzyRead, GetEntry,
     ReadTable, ResolveRef, EndResolve, FallBack, Return, index_vars, table_vars
<1>3. \A o \in Threads : o # t => pc'[o] = pc[o]
  <2>1. pc' = pc \/ \E label : pc' = [pc EXCEPT ![t] = label]
    BY Zenon DEF AskStep, FuzzyCheck, FuzzyLock, FuzzyIter, FuzzyClean, FuzzyRead, GetEntry,
       ReadTable, ResolveRef, EndResolve, FallBack, Return, Goto
  <2>. QED BY <1>1, <2>1
<1>4. ASSUME NEW o \in Threads, o # t PROVE ask'[o] = ask[o]
  <2>1. ask' = ask \/ \E own : ask' = [ask EXCEPT ![t] = own]
    BY Zenon DEF AskStep, FuzzyCheck, FuzzyLock, FuzzyIter, FuzzyClean, FuzzyRead, GetEntry,
       ReadTable, ResolveRef, EndResolve, FallBack, Return
  <2>. QED BY <1>1, <1>4, <2>1
<1>. QED BY <1>1, <1>2, <1>3, <1>4

LEMMA ResolveAnswers ==
    ASSUME IInv, AInv, NEW t \in Threads, ResolveRef(t)
    PROVE  HeldOK(t)' /\ NamesOK(t)'
<1>1. ask[t] \in Ask /\ ask \in [Threads -> Ask] /\ definitions' = definitions
  BY AskMoves DEF AskStep
<1>2. /\ pc[t] = "resolve" /\ pc' = pc /\ HeldOK(t) /\ NamesOK(t)
  BY DEF ResolveRef, AInv, AskerPC
<1>3. PICK r, f : ask' = [ask EXCEPT ![t].refs = @ \ {r}, ![t].found = f]
  BY Zenon DEF ResolveRef
<1>4. /\ ask'[t].refs \subseteq ask[t].refs /\ ask'[t].name = ask[t].name
      /\ ask'[t].names = ask[t].names /\ ask'[t].wanted = ask[t].wanted
  BY <1>1, <1>3 DEF Ask
<1>. QED BY <1>1, <1>2, <1>4 DEF HeldOK, NamesOK

LEMMA GetEntryAnswers ==
    ASSUME IInv, AInv, NEW t \in Threads, GetEntry(t)
    PROVE  HeldOK(t)' /\ NamesOK(t)'
<1>1. /\ ask[t] \in Ask /\ ask \in [Threads -> Ask] /\ definitions' = definitions
      /\ pc[t] = "next_name" /\ NamesOK(t)
      /\ pc \in [Threads -> {"idle"} \cup WriterPC \cup AskerPC]
  BY AskMoves, Zenon DEF AskStep, GetEntry, AInv, AskerPC
<1>2. PICK n \in ask[t].names :
        \/ /\ ask' = [ask EXCEPT ![t].names = @ \ {n}, ![t].name = n,
                                 ![t].refs = definitions[n]]
           /\ pc' = [pc EXCEPT ![t] = "read_table"]
        \/ ask' = [ask EXCEPT ![t].names = @ \ {n}] /\ UNCHANGED pc
  BY Zenon DEF GetEntry, Goto
<1>3. CASE /\ ask' = [ask EXCEPT ![t].names = @ \ {n}, ![t].name = n,
                                 ![t].refs = definitions[n]]
           /\ pc' = [pc EXCEPT ![t] = "read_table"]
  <2>1. /\ ask'[t].names = ask[t].names \ {n} /\ ask'[t].name = n
        /\ ask'[t].refs = definitions[n] /\ ask'[t].wanted = ask[t].wanted
        /\ ask'[t].found = ask[t].found
    BY <1>1, <1>3 DEF Ask
  <2>. QED BY <1>1, <2>1 DEF HeldOK, NamesOK
<1>4. CASE ask' = [ask EXCEPT ![t].names = @ \ {n}] /\ UNCHANGED pc
  <2>1. /\ ask'[t].names = ask[t].names \ {n} /\ ask'[t].wanted = ask[t].wanted
        /\ ask'[t].found = ask[t].found
    BY <1>1, <1>4 DEF Ask
  <2>. QED BY <1>1, <1>4, <2>1 DEF HeldOK, NamesOK, HoldingPC
<1>. QED BY <1>2, <1>3, <1>4

\* The steps of the fuzzy index take no ref.
LEMMA FuzzyAnswers ==
    ASSUME IInv, AInv, NEW t \in Threads,
           FuzzyCheck(t) \/ FuzzyLock(t) \/ FuzzyIter(t) \/ FuzzyClean(t) \/ FuzzyRead(t)
    PROVE  HeldOK(t)' /\ NamesOK(t)'
<1>1. /\ ask[t] \in Ask /\ ask \in [Threads -> Ask]
      /\ pc \in [Threads -> {"idle"} \cup WriterPC \cup AskerPC]
  BY AskMoves DEF AskStep
<1>2. NamesOK(t) /\ pc'[t] \notin HoldingPC
  BY <1>1 DEF FuzzyCheck, FuzzyLock, FuzzyIter, FuzzyClean, FuzzyRead, Goto, AInv, AskerPC,
     HoldingPC
<1>3. /\ ask'[t].wanted = ask[t].wanted /\ ask'[t].found = ask[t].found
      /\ ask'[t].names \subseteq ask[t].wanted
  <2>1. CASE FuzzyRead(t)
    BY <1>1, <2>1 DEF FuzzyRead, Ask
  <2>2. CASE FuzzyLock(t)
    BY <1>1, <1>2, <2>2 DEF FuzzyLock, Ask, NamesOK
  <2>3. CASE FuzzyIter(t)
    BY <1>1, <1>2, <2>3 DEF FuzzyIter, Ask, NamesOK
  <2>4. CASE FuzzyCheck(t) \/ FuzzyClean(t)
    BY <1>2, <2>4 DEF FuzzyCheck, FuzzyClean, NamesOK
  <2>. QED BY <2>1, <2>2, <2>3, <2>4
<1>. QED BY <1>2, <1>3 DEF HeldOK, NamesOK

LEMMA StepAnswers ==
    ASSUME IInv, AInv, NEW t \in Threads, AskStep(t)
    PROVE  AInv'
<1>1. /\ ask[t] \in Ask /\ ask \in [Threads -> Ask] /\ definitions' = definitions
      /\ pc \in [Threads -> {"idle"} \cup WriterPC \cup AskerPC]
      /\ \A o \in Threads : o # t => pc'[o] = pc[o] /\ ask'[o] = ask[o]
  BY AskMoves
<1>2. CASE ReadTable(t) \/ EndResolve(t)
  <2>1. /\ ask' = ask /\ pc[t] \in AskerPC
        /\ pc'[t] \in HoldingPC => pc[t] \in HoldingPC
    BY <1>1, <1>2 DEF ReadTable, EndResolve, Goto, AskerPC, HoldingPC
  <2>2. HeldOK(t)' /\ NamesOK(t)'
    BY <1>1, <2>1 DEF AInv, HeldOK, NamesOK
  <2>. QED BY <1>1, <2>2, OthersAnswers
<1>3. CASE FallBack(t)
  <2>1. /\ pc'[t] = "fuzzy_check" /\ ask[t].names = {} /\ ask[t].found = {}
        /\ ask'[t].names = {} /\ ask'[t].found = {}
    BY <1>1, <1>3 DEF FallBack, Goto, Ask
  <2>2. HeldOK(t)' /\ NamesOK(t)'
    BY <2>1 DEF HeldOK, NamesOK, HoldingPC
  <2>. QED BY <1>1, <2>2, OthersAnswers
<1>4. CASE Return(t)
  <2>1. pc'[t] \notin AskerPC
    BY <1>1, <1>4, Aside DEF Return, Goto
  <2>. QED BY <1>1, <2>1, OthersAnswers
<1>5. CASE ResolveRef(t)
  BY <1>1, <1>5, ResolveAnswers, OthersAnswers
<1>6. CASE GetEntry(t)
  BY <1>1, <1>6, GetEntryAnswers, OthersAnswers
<1>7. CASE FuzzyCheck(t) \/ FuzzyLock(t) \/ FuzzyIter(t) \/ FuzzyClean(t) \/ FuzzyRead(t)
  BY <1>1, <1>7, FuzzyAnswers, OthersAnswers
<1>. QED BY <1>2, <1>3, <1>4, <1>5, <1>6, <1>7 DEF AskStep

LEMMA RequestAnswers ==
    ASSUME IInv, AInv, NEW t \in Threads, Request(t)
    PROVE  AInv'
<1>1. /\ ask \in [Threads -> Ask]
      /\ pc \in [Threads -> {"idle"} \cup WriterPC \cup AskerPC]
  BY DEF IInv, TypeOK
<1>2. ASSUME NEW wanted, NEW fallback, NEW label \in {"next_name", "fuzzy_check"},
             StartAsk(t, wanted, fallback, label)
      PROVE  AInv'
  <2>1. /\ \A o \in Threads : o # t => pc'[o] = pc[o] /\ ask'[o] = ask[o]
        /\ pc'[t] = label /\ ask'[t].names = wanted /\ ask'[t].wanted = wanted
        /\ ask'[t].found = {} /\ definitions' = definitions
    BY <1>1, <1>2 DEF StartAsk, Goto, index_vars
  <2>2. HeldOK(t)' /\ NamesOK(t)'
    BY <2>1 DEF HeldOK, NamesOK, HoldingPC
  <2>. QED BY <2>1, <2>2, OthersAnswers
<1>3. ASSUME NEW kind, NEW p, NEW c, Start(t, kind, p, c)
      PROVE  AInv'
  <2>1. /\ \A o \in Threads : o # t => pc'[o] = pc[o] /\ ask'[o] = ask[o]
        /\ pc'[t] \notin AskerPC /\ definitions' = definitions
    BY <1>1, <1>3 DEF Start, Goto, index_vars, AskerPC
  <2>. QED BY <2>1, OthersAnswers
<1>. QED BY <1>2, <1>3 DEF Request, IndexFile, InstallFileUnit, RemoveFile, DropDeadRow,
     FindDefinitions, SearchSymbols, Completions

LEMMA NextAnswers ==
    ASSUME IInv, AInv, [Next]_vars
    PROVE  AInv'
<1>1. CASE UNCHANGED vars
  BY <1>1 DEF vars, index_vars, AInv, HeldOK, NamesOK
<1>2. CASE Next
  BY <1>2, RequestAnswers, WriteAnswers, StepAnswers DEF Next, Step
<1>. QED BY <1>1, <1>2

\* A ref that a query holds is of a symbol with the name it was found under: no
\* write is at that symbol's file.
LEMMA HeldRef ==
    ASSUME EInv, AInv, OneThread, NEW t \in Threads, pc[t] = "resolve",
           NEW r \in ask[t].refs
    PROVE  /\ r \in definitions[ask[t].name] /\ r.copy = 0
           /\ ask[t].name \in Names /\ ask[t].name \in ask[t].wanted
           /\ files[id_to_path[r.file_id + 1]] # NoFile =>
                 r.symbol_idx \in
                    Promise!Globals(id_to_path[r.file_id + 1], {ask[t].name})
<1>. DEFINE n == ask[t].name
<1>1. r \in definitions[n] /\ n \in ask[t].wanted
  BY DEF AInv, HeldOK, AskerPC, HoldingPC
<1>2. n \in Names
  BY DEF EInv, IInv, TypeOK, Ask
<1>3. PICK p \in Paths : p = id_to_path[r.file_id + 1]
  BY <1>1, <1>2, RefPath
<1>4. r.symbol_idx \in Nat
  BY <1>1, <1>2, RefPath
<1>5. r.copy = 0 /\ Allowed(n, p, r.symbol_idx)
  BY <1>1, <1>2, <1>3, <1>4 DEF EInv, Sound
<1>6. ASSUME files[p] # NoFile, Filed(n, p, r.symbol_idx) PROVE FALSE
  <2>1. PICK o \in Threads : op[o].path = p /\ pc[o] \in FilingPC
    BY <1>6 DEF Filed, FiledBy
  <2>. QED BY <2>1 DEF OneThread, FilingPC
<1>. QED BY <1>1, <1>2, <1>3, <1>5, <1>6 DEF Allowed

LEMMA OneIsOneWriter == OneThread => OneWriter
BY DEF OneThread, OneWriter, Threads, Writers

-----------------------------------------------------------------------------
(***************************************************************************)
(* A path that one thread alone writes.  What is filed of it always fits   *)
(* the version in `files`, but while that thread replaces it; then it fits *)
(* the version that is there until then, or the new one.                   *)
(***************************************************************************)
Home(r) == id_to_path[r.file_id + 1]
Fits(symbols, n, r) == r.symbol_idx \in 1..Len(symbols) /\ symbols[r.symbol_idx].name = n
Writes(t, p) == pc[t] \in WriterPC /\ op[t].path = p

\* The refs of its path that thread t meets at each of its positions: until it
\* has read them, those of the old version; those it has still to take out; none;
\* those of the new version.
Expected(t, n, r) ==
    /\ pc[t] = "old_names" =>
          files[op[t].path] # NoFile /\ Fits(files[op[t].path], n, r)
    /\ pc[t] \in {"old_id"} \cup RemovalPC => n \in NamesAhead(t)
    /\ pc[t] \in RemovalPC => r.file_id = op[t].file_id
    /\ pc[t] \notin {"lookup_id", "lock_table", "insert_id", "remove_file"}
    /\ pc[t] \in FilingPC => Fits(op[t].symbols, n, r)

RefOK(n, r) ==
    OneWriterOf(Home(r)) =>
        /\ ~UnderWrite(Home(r)) => files[Home(r)] # NoFile /\ Fits(files[Home(r)], n, r)
        /\ \A t \in Threads : Writes(t, Home(r)) => Expected(t, n, r)

WritersKnown == \A t \in Threads : pc[t] \in WriterPC => t \in WritersOf(op[t].path)

CInv == IInv /\ WritersKnown /\ \A n \in Names : \A r \in definitions[n] : RefOK(n, r)

\* What a filed ref is, and where.
LEMMA RefHome ==
    ASSUME IInv, NEW n \in Names, NEW r \in definitions[n]
    PROVE  /\ r \in SymbolRef /\ r.file_id \in Nat /\ r.symbol_idx \in Nat
           /\ r.file_id + 1 \in 1..Len(id_to_path) /\ Home(r) \in Paths
<1>1. /\ id_to_path \in Seq(Paths) /\ r \in SymbolRef /\ r.file_id < Len(id_to_path)
  BY DEF IInv, TypeOK, RefsInBounds
<1>2. r.file_id \in Nat /\ r.symbol_idx \in Nat
  BY <1>1 DEF SymbolRef
<1>3. r.file_id + 1 \in 1..Len(id_to_path)
  BY <1>1, <1>2, LenProperties
<1>. QED BY <1>1, <1>2, <1>3, ElementOfSeq DEF Home

\* A step of t that is not at the ref's file.
LEMMA Beside ==
    ASSUME NEW t \in Threads, OthersStay(t), NEW n, NEW r, RefOK(n, r),
           Home(r)' = Home(r), files'[Home(r)] = files[Home(r)],
           ~Writes(t, Home(r)), ~(pc'[t] \in WriterPC /\ op'[t].path = Home(r))
    PROVE  RefOK(n, r)'
<1>1. ASSUME NEW o \in Threads PROVE Writes(o, Home(r))' <=> Writes(o, Home(r))
  BY <1>1 DEF OthersStay, Writes
<1>2. UnderWrite(Home(r))' <=> UnderWrite(Home(r))
  BY <1>1 DEF UnderWrite, Writes
<1>3. ASSUME NEW o \in Threads, Writes(o, Home(r)), Expected(o, n, r) PROVE Expected(o, n, r)'
  <2>1. pc'[o] = pc[o] /\ op'[o] = op[o] /\ op[o].path = Home(r)
    BY <1>3 DEF OthersStay, Writes
  <2>. QED BY <1>3, <2>1 DEF Expected, Fits, NamesAhead
<1>4. OneWriterOf(Home(r))' <=> OneWriterOf(Home(r))
  BY DEF OneWriterOf, WritersOf
<1>. QED BY <1>1, <1>2, <1>3, <1>4 DEF RefOK, Fits

\* Of a path with one writer, nobody but t is at it when t may write it.
LEMMA Sole ==
    ASSUME WritersKnown, NEW p, OneWriterOf(p), NEW t \in WritersOf(p),
           NEW o \in Threads, Writes(o, p)
    PROVE  o = t
BY DEF WritersKnown, OneWriterOf, Writes

\* What a step of thread t must leave at the refs of the path p it writes.
Left(t, n, r, p) ==
    IF pc[t] \in WriterPC THEN op[t].path = p /\ Expected(t, n, r)
                          ELSE files[p] # NoFile /\ Fits(files[p], n, r)

LEMMA OwnRefOK ==
    ASSUME WritersKnown', NEW t \in Threads, NEW n, NEW r, NEW p, Home(r)' = p,
           OneWriterOf(p) => t \in WritersOf(p) /\ Left(t, n, r, p)'
    PROVE  RefOK(n, r)'
<1>. SUFFICES ASSUME OneWriterOf(p)
              PROVE  /\ ~UnderWrite(p)' => files'[p] # NoFile /\ Fits(files'[p], n, r)
                     /\ \A o \in Threads : Writes(o, p)' => Expected(o, n, r)'
  BY DEF RefOK, OneWriterOf, WritersOf, Fits, UnderWrite, Writes
<1>1. ASSUME NEW o \in Threads, Writes(o, p)' PROVE o = t /\ pc'[t] \in WriterPC
  BY <1>1 DEF WritersKnown, OneWriterOf, WritersOf, Writes
<1>2. ASSUME NEW o \in Threads, Writes(o, p)' PROVE Expected(o, n, r)'
  BY <1>1, <1>2 DEF Left
<1>3. ASSUME ~UnderWrite(p)' PROVE files'[p] # NoFile /\ Fits(files'[p], n, r)
  BY <1>3 DEF Left, UnderWrite, Fits
<1>. QED BY <1>2, <1>3

\* A step of a thread that writes.
LEMMA WriteFits ==
    ASSUME CInv, NEW t \in Threads, NEW p, op[t].path = p, pc[t] \in WriterPC, OthersStay(t),
           \A k \in 1..Len(id_to_path) : id_to_path'[k] = id_to_path[k],
           \A u \in Paths : u # p => files'[u] = files[u],
           pc'[t] \in WriterPC => op'[t].path = p,
           \A n \in Names : \A r \in definitions'[n] :
              r \in definitions[n] \/ Home(r)' = p,
           \A n \in Names : \A r \in definitions'[n] :
              /\ OneWriterOf(p) /\ Home(r)' = p
              /\ r \in definitions[n] => Expected(t, n, r)
              => Left(t, n, r, p)'
    PROVE  WritersKnown' /\ \A n \in Names : \A r \in definitions'[n] : RefOK(n, r)'
<1>1. WritersKnown'
  BY DEF CInv, WritersKnown, OthersStay, WritersOf
<1>2. ASSUME NEW n \in Names, NEW r \in definitions'[n], Home(r)' # p
      PROVE  RefOK(n, r)'
  <2>1. r \in definitions[n] /\ RefOK(n, r)
    BY <1>2 DEF CInv
  <2>2. Home(r)' = Home(r) /\ Home(r) \in Paths
    BY <2>1, RefHome DEF CInv, Home
  <2>3. ~Writes(t, Home(r)) /\ ~(pc'[t] \in WriterPC /\ op'[t].path = Home(r))
    BY <1>2, <2>2 DEF Writes
  <2>. QED BY <1>2, <2>1, <2>2, <2>3, Beside
<1>3. ASSUME NEW n \in Names, NEW r \in definitions'[n], Home(r)' = p
      PROVE  RefOK(n, r)'
  <2>1. t \in WritersOf(p)
    BY DEF CInv, WritersKnown
  <2>2. ASSUME OneWriterOf(p), r \in definitions[n] PROVE Expected(t, n, r)
    <3>1. Home(r)' = Home(r) /\ RefOK(n, r)
      BY <2>2, RefHome DEF CInv, Home
    <3>. QED BY <1>3, <2>2, <3>1 DEF RefOK, Writes
  <2>3. OneWriterOf(p) => Left(t, n, r, p)'
    BY <1>3, <2>2
  <2>. QED BY <1>1, <1>3, <2>1, <2>3, OwnRefOK
<1>. QED BY <1>1, <1>2, <1>3

\* The locals of a thread, and that it alone moves in its step.
LEMMA OwnLocals ==
    ASSUME IInv, NEW t \in Threads
    PROVE  /\ op \in [Threads -> Op] /\ op[t] \in Op /\ op[t].path \in Paths
           /\ op[t].names \in Seq(Names) /\ op[t].symbols \in Contents
           /\ pc \in [Threads -> {"idle"} \cup WriterPC \cup AskerPC]
           /\ id_to_path \in Seq(Paths) /\ files \in [Paths -> Contents \cup {NoFile}]
           /\ definitions \in [Names -> SUBSET SymbolRef]
<1>1. /\ op \in [Threads -> Op]
      /\ pc \in [Threads -> {"idle"} \cup WriterPC \cup AskerPC]
      /\ id_to_path \in Seq(Paths) /\ files \in [Paths -> Contents \cup {NoFile}]
      /\ definitions \in [Names -> SUBSET SymbolRef]
  BY DEF IInv, TypeOK
<1>2. op[t] \in Op
  BY <1>1
<1>. QED BY <1>1, <1>2 DEF Op

LEMMA ReadOldNamesFits ==
    ASSUME CInv, NEW t \in Threads, ReadOldNames(t)
    PROVE  WritersKnown' /\ \A n \in Names : \A r \in definitions'[n] : RefOK(n, r)'
<1>1. /\ op \in [Threads -> Op] /\ op[t].path \in Paths
      /\ pc \in [Threads -> {"idle"} \cup WriterPC \cup AskerPC]
      /\ pc[t] = "old_names" /\ UNCHANGED <<files, definitions, id_to_path>>
  BY OwnLocals DEF CInv, ReadOldNames, index_vars, table_vars
<1>2. PICK p : p = op[t].path
  OBVIOUS
<1>3. CASE files[p] = NoFile
  <2>1. op' = op /\ pc' = [pc EXCEPT ![t] = AfterRemoval(t)]
    BY <1>2, <1>3 DEF ReadOldNames, Goto
  <2>2. AfterRemoval(t) \in {"remove_file", "lookup_id"}
    BY DEF AfterRemoval
  <2>3. pc'[t] \in WriterPC /\ pc[t] \in WriterPC /\ OthersStay(t)
    BY <1>1, <2>1, <2>2 DEF OthersStay, WriterPC
  <2>4. ASSUME NEW n \in Names, NEW r \in definitions[n], Expected(t, n, r) PROVE FALSE
    BY <1>1, <1>2, <1>3, <2>4 DEF Expected
  <2>. QED BY <1>1, <1>2, <2>1, <2>3, <2>4, WriteFits
<1>4. CASE files[p] # NoFile
  <2>. DEFINE old == [i \in 1..Len(files[p]) |-> files[p][i].name]
  <2>1. op' = [op EXCEPT ![t].names = old] /\ pc' = [pc EXCEPT ![t] = "old_id"]
    BY <1>2, <1>4 DEF ReadOldNames, Goto
  <2>2. Len(files[p]) \in Nat
    BY <1>1, <1>2, <1>4, SymbolsOf DEF CInv, IInv
  <2>3. Len(old) = Len(files[p])
    BY <2>2
  <2>4. \A i \in 1..Len(files[p]) : old[i] = files[p][i].name
    OBVIOUS
  <2>. HIDE DEF old
  <2>5. op'[t].names = old /\ op'[t].path = p /\ pc'[t] = "old_id" /\ OthersStay(t)
    BY <1>1, <1>2, <2>1, SetNames DEF OthersStay
  <2>6. ASSUME NEW n \in Names, NEW r \in definitions[n], Expected(t, n, r)
        PROVE  Left(t, n, r, p)'
    <3>1. r.symbol_idx \in 1..Len(files[p]) /\ files[p][r.symbol_idx].name = n
      BY <1>1, <1>2, <2>6 DEF Expected, Fits
    <3>2. n \in NamesAhead(t)'
      BY <2>3, <2>4, <2>5, <3>1 DEF NamesAhead
    <3>. QED BY <2>5, <3>2 DEF Left, Expected, RemovalPC, FilingPC, WriterPC
  <2>7. pc[t] \in WriterPC
    BY <1>1 DEF WriterPC
  <2>. QED BY <1>1, <1>2, <2>5, <2>6, <2>7, WriteFits
<1>. QED BY <1>3, <1>4

\* Every ref of a path is filed under the path's id: a path that has none yet is
\* in the table only while the thread that put it there is at insert_id.
LEMMA IdOfPath ==
    ASSUME IInv, NEW p \in Paths, NEW k \in Nat, k + 1 \in 1..Len(id_to_path),
           id_to_path[k + 1] = p,
           \A o \in Threads : pc[o] = "insert_id" => op[o].path # p
    PROVE  file_ids[p] = k
<1>1. id_to_path \in Seq(Paths) /\ Len(id_to_path) \in Nat
  BY LenProperties DEF IInv, TypeOK
<1>2. CASE table_writer = NoThread
  BY <1>2 DEF IInv, FileIdTable
<1>3. CASE table_writer # NoThread
  <2>1. PICK o \in Threads : pc[o] = "insert_id"
    BY <1>3 DEF IInv, WriterInTable, TypeOK
  <2>2. LastIsNew(o) /\ HasOwnId(o) /\ op[o].path # p
    BY <2>1 DEF IInv, WriterInTable, RefsInBounds, Pushing
  <2>3. k + 1 # Len(id_to_path)
    BY <1>1, <2>2 DEF LastIsNew, HasOwnId
  <2>4. k + 1 \in 1..(Len(id_to_path) - 1)
    BY <1>1, <2>3
  <2>. QED BY <2>2, <2>4 DEF LastIsNew
<1>. QED BY <1>2, <1>3

LEMMA ReadOldIdFits ==
    ASSUME CInv, NEW t \in Threads, ReadOldId(t)
    PROVE  WritersKnown' /\ \A n \in Names : \A r \in definitions'[n] : RefOK(n, r)'
<1>1. /\ op \in [Threads -> Op] /\ op[t].path \in Paths /\ op[t].names \in Seq(Names)
      /\ pc \in [Threads -> {"idle"} \cup WriterPC \cup AskerPC]
      /\ pc[t] = "old_id" /\ UNCHANGED <<files, definitions, id_to_path>>
  BY OwnLocals DEF CInv, ReadOldId, index_vars, table_vars
<1>2. PICK p \in Paths : p = op[t].path
  BY <1>1
<1>3. ASSUME NEW n \in Names, NEW r \in definitions[n], Home(r) = p, OneWriterOf(p)
      PROVE  file_ids[p] = r.file_id /\ file_ids[p] # NoId
  <2>1. r.file_id \in Nat /\ r.file_id + 1 \in 1..Len(id_to_path)
    BY RefHome DEF CInv
  <2>2. ASSUME NEW o \in Threads, pc[o] = "insert_id" PROVE op[o].path # p
    <3>1. t \in WritersOf(p) /\ pc[o] \in WriterPC
      BY <1>1, <1>2, <2>2 DEF CInv, WritersKnown, WriterPC
    <3>. QED BY <1>1, <1>3, <2>2, <3>1, Sole DEF CInv, Writes
  <2>3. file_ids[p] = r.file_id
    BY <1>3, <2>1, <2>2, IdOfPath DEF CInv, Home
  <2>. QED BY <2>1, <2>3, SentinelAssumption
<1>4. CASE file_ids[p] = NoId
  <2>1. op' = op /\ pc' = [pc EXCEPT ![t] = AfterRemoval(t)]
    BY <1>2, <1>4 DEF ReadOldId, Goto
  <2>2. AfterRemoval(t) \in {"remove_file", "lookup_id"}
    BY DEF AfterRemoval
  <2>3. pc'[t] \in WriterPC /\ pc[t] \in WriterPC /\ OthersStay(t)
    BY <1>1, <2>1, <2>2 DEF OthersStay, WriterPC
  <2>4. \A n \in Names : \A r \in definitions[n] : ~(Home(r)' = p /\ OneWriterOf(p))
    BY <1>1, <1>3, <1>4 DEF Home
  <2>. QED BY <1>1, <1>2, <2>1, <2>3, <2>4, WriteFits
<1>5. CASE file_ids[p] # NoId
  <2>1. /\ op' = [op EXCEPT ![t].file_id = file_ids[p]]
        /\ pc' = [pc EXCEPT ![t] = NextName(t, op[t].names)]
    BY <1>2, <1>5 DEF ReadOldId, Goto
  <2>2. /\ op'[t].file_id = file_ids[p] /\ op'[t].path = p /\ op'[t].names = op[t].names
        /\ OthersStay(t) /\ pc'[t] = NextName(t, op[t].names)
    BY <1>1, <1>2, <2>1, SetId DEF OthersStay
  <2>3. pc[t] \in WriterPC /\ pc'[t] \in WriterPC
    BY <1>1, <2>2 DEF WriterPC, NextName, AfterRemoval
  <2>4. ASSUME NEW n \in Names, NEW r \in definitions[n], Home(r)' = p, OneWriterOf(p),
               Expected(t, n, r)
        PROVE  Left(t, n, r, p)'
    <3>1. r.file_id = op'[t].file_id
      BY <1>1, <1>3, <2>2, <2>4 DEF Home
    <3>2. n \in NamesAhead(t)
      BY <1>1, <2>4 DEF Expected
    <3>3. n \in NamesAhead(t)' /\ op[t].names # <<>>
      BY <2>2, <3>2, EmptySeq DEF NamesAhead
    <3>4. pc'[t] = "retain"
      BY <2>2, <3>3 DEF NextName
    <3>. QED BY <2>2, <2>3, <3>1, <3>3, <3>4 DEF Left, Expected, RemovalPC, FilingPC
  <2>. QED BY <1>1, <1>2, <2>2, <2>3, <2>4, WriteFits
<1>. QED BY <1>4, <1>5

\* A name that is still ahead, and is not the next one, is ahead after it.
LEMMA AheadInTail ==
    ASSUME NEW t \in Threads, op[t].names \in Seq(Names), NEW n \in NamesAhead(t),
           n # Head(op[t].names), op'[t].names = Tail(op[t].names)
    PROVE  n \in NamesAhead(t)' /\ Tail(op[t].names) # <<>>
<1>1. PICK k \in 1..Len(op[t].names) : n = op[t].names[k]
  BY DEF NamesAhead
<1>2. op[t].names # <<>> /\ Len(op[t].names) \in Nat /\ k # 1
  BY <1>1, EmptySeq, LenProperties
<1>3. /\ Len(Tail(op[t].names)) = Len(op[t].names) - 1
      /\ \A i \in 1..(Len(op[t].names) - 1) : Tail(op[t].names)[i] = op[t].names[i + 1]
  BY <1>2, HeadTailProperties
<1>4. k - 1 \in 1..Len(Tail(op[t].names)) /\ Tail(op[t].names)[k - 1] = n
  <2>1. k - 1 \in 1..(Len(op[t].names) - 1) /\ (k - 1) + 1 = k
    BY <1>1, <1>2
  <2>. QED BY <1>1, <1>3, <2>1
<1>5. n \in NamesAhead(t)'
  BY <1>4 DEF NamesAhead
<1>6. Tail(op[t].names) # <<>>
  <2>1. Len(Tail(op[t].names)) # 0
    BY <1>4
  <2>2. Len(<<>>) = 0
    OBVIOUS
  <2>. QED BY <2>1, <2>2, Zenon
<1>. QED BY <1>5, <1>6

\* A turn of the removal that leaves no ref of the path under the next name.
LEMMA TurnFits ==
    ASSUME CInv, NEW t \in Threads, pc[t] \in RemovalPC,
           op' = [op EXCEPT ![t].names = Tail(@)],
           Goto(t, NextName(t, Tail(op[t].names))),
           UNCHANGED <<files, id_to_path>>,
           \A n \in Names : definitions'[n] \subseteq definitions[n],
           \A r \in definitions'[Head(op[t].names)] : r.file_id # op[t].file_id
    PROVE  WritersKnown' /\ \A n \in Names : \A r \in definitions'[n] : RefOK(n, r)'
<1>1. /\ op \in [Threads -> Op] /\ op[t].path \in Paths /\ op[t].names \in Seq(Names)
      /\ pc \in [Threads -> {"idle"} \cup WriterPC \cup AskerPC]
  BY OwnLocals DEF CInv
<1>2. PICK p \in Paths : p = op[t].path
  BY <1>1
<1>3. /\ op'[t].path = p /\ op'[t].names = Tail(op[t].names) /\ OthersStay(t)
      /\ op'[t].file_id = op[t].file_id /\ pc'[t] = NextName(t, Tail(op[t].names))
  BY <1>1, <1>2, SetNames DEF OthersStay, Goto
<1>4. pc[t] \in WriterPC /\ pc'[t] \in WriterPC
  BY <1>3 DEF NextName, AfterRemoval, RemovalPC, WriterPC
<1>5. ASSUME NEW n \in Names, NEW r \in definitions'[n], Expected(t, n, r)
      PROVE  Left(t, n, r, p)'
  <2>1. n \in NamesAhead(t) /\ r.file_id = op[t].file_id
    BY <1>5 DEF Expected
  <2>2. n # Head(op[t].names)
    BY <1>5, <2>1
  <2>3. n \in NamesAhead(t)' /\ pc'[t] = "retain"
    BY <1>1, <1>3, <2>1, <2>2, AheadInTail DEF NextName
  <2>. QED BY <1>3, <1>4, <2>1, <2>3 DEF Left, Expected, RemovalPC, FilingPC
<1>6. \A n \in Names : \A r \in definitions'[n] : r \in definitions[n]
  OBVIOUS
<1>. QED BY <1>1, <1>2, <1>3, <1>4, <1>5, <1>6, WriteFits

LEMMA RetainFits ==
    ASSUME CInv, NEW t \in Threads, Retain(t)
    PROVE  WritersKnown' /\ \A n \in Names : \A r \in definitions'[n] : RefOK(n, r)'
<1>. DEFINE name == Head(op[t].names)
            kept == {r \in definitions[name] : r.file_id # op[t].file_id}
<1>1. /\ op \in [Threads -> Op] /\ op[t].path \in Paths /\ op[t].names \in Seq(Names)
      /\ pc \in [Threads -> {"idle"} \cup WriterPC \cup AskerPC]
      /\ definitions \in [Names -> SUBSET SymbolRef]
  BY OwnLocals DEF CInv
<1>2. /\ pc[t] = "retain" /\ definitions' = [definitions EXCEPT ![name] = kept]
      /\ UNCHANGED <<files, id_to_path>>
  BY DEF Retain, table_vars
<1>3. PICK p \in Paths : p = op[t].path
  BY <1>1
<1>4. name \in Names
  BY <1>1, <1>2 DEF CInv, IInv, NamesLeft
<1>5. /\ definitions'[name] = kept /\ \A n \in Names : definitions'[n] \subseteq definitions[n]
      /\ \A r \in kept : r.file_id # op[t].file_id
  BY <1>1, <1>2, <1>4
<1>. HIDE DEF name, kept
<1>6. CASE Goto(t, "drop_key") /\ UNCHANGED op
  <2>1. /\ pc[t] \in WriterPC /\ pc'[t] = "drop_key" /\ OthersStay(t) /\ op' = op
    BY <1>1, <1>2, <1>6 DEF Goto, OthersStay, WriterPC
  <2>2. ASSUME NEW n \in Names, NEW r \in definitions'[n], Expected(t, n, r)
        PROVE  Left(t, n, r, p)'
    BY <1>2, <1>3, <2>1, <2>2 DEF Expected, Left, RemovalPC, FilingPC, NamesAhead, WriterPC
  <2>3. \A n \in Names : \A r \in definitions'[n] : r \in definitions[n]
    BY <1>5
  <2>. QED BY <1>2, <1>3, <2>1, <2>2, <2>3, WriteFits
<1>7. CASE /\ op' = [op EXCEPT ![t].names = Tail(@)]
           /\ Goto(t, NextName(t, Tail(op[t].names)))
  <2>1. pc[t] \in RemovalPC
    BY <1>2 DEF RemovalPC
  <2>2. \A r \in definitions'[Head(op[t].names)] : r.file_id # op[t].file_id
    BY <1>5 DEF name
  <2>. QED BY <1>2, <1>5, <1>7, <2>1, <2>2, TurnFits
<1>. QED BY <1>6, <1>7 DEF Retain

LEMMA DropKeyFits ==
    ASSUME CInv, NEW t \in Threads, DropKey(t)
    PROVE  WritersKnown' /\ \A n \in Names : \A r \in definitions'[n] : RefOK(n, r)'
<1>. DEFINE name == Head(op[t].names)
<1>1. op[t].names \in Seq(Names) /\ definitions \in [Names -> SUBSET SymbolRef]
  BY OwnLocals DEF CInv
<1>2. /\ pc[t] = "drop_key" /\ definitions' = [definitions EXCEPT ![name] = {}]
      /\ op' = [op EXCEPT ![t].names = Tail(@)]
      /\ Goto(t, NextName(t, Tail(op[t].names)))
      /\ UNCHANGED <<files, id_to_path>>
  BY DEF DropKey, table_vars
<1>3. name \in Names
  BY <1>1, <1>2 DEF CInv, IInv, NamesLeft
<1>4. definitions'[name] = {} /\ \A n \in Names : definitions'[n] \subseteq definitions[n]
  BY <1>1, <1>2, <1>3
<1>5. pc[t] \in RemovalPC
  BY <1>2 DEF RemovalPC
<1>6. \A r \in definitions'[Head(op[t].names)] : r.file_id # op[t].file_id
  BY <1>4
<1>. HIDE DEF name
<1>. QED BY <1>2, <1>4, <1>5, <1>6, TurnFits

\* While the id is looked up or made, and when a removal ends, nothing of the
\* path is filed.
LEMMA ClearFits ==
    ASSUME CInv, NEW t \in Threads,
           LookupId(t) \/ LockTable(t) \/ InsertId(t) \/ DropFile(t)
    PROVE  WritersKnown' /\ \A n \in Names : \A r \in definitions'[n] : RefOK(n, r)'
<1>1. /\ op \in [Threads -> Op] /\ op[t].path \in Paths /\ id_to_path \in Seq(Paths)
      /\ pc \in [Threads -> {"idle"} \cup WriterPC \cup AskerPC]
      /\ files \in [Paths -> Contents \cup {NoFile}]
  BY OwnLocals DEF CInv
<1>2. /\ pc[t] \in {"lookup_id", "lock_table", "insert_id", "remove_file"}
      /\ definitions' = definitions
      /\ pc' = [pc EXCEPT ![t] = pc'[t]]
      /\ pc'[t] \in {"push", "lock_table", "insert_id", "idle"}
  BY <1>1 DEF LookupId, LockTable, InsertId, DropFile, Goto, index_vars
<1>3. PICK p \in Paths : p = op[t].path
  BY <1>1
<1>4. \A u \in Paths : u # p => files'[u] = files[u]
  BY <1>1, <1>3 DEF LookupId, LockTable, InsertId, DropFile, index_vars
<1>5. \A k \in 1..Len(id_to_path) : id_to_path'[k] = id_to_path[k]
  <2>1. id_to_path' = id_to_path \/ id_to_path' = Append(id_to_path, op[t].path)
    BY Zenon DEF LookupId, LockTable, InsertId, DropFile, table_vars
  <2>. QED BY <1>1, <2>1, AppendProperties
<1>6. OthersStay(t) /\ (pc'[t] \in WriterPC => op'[t].path = p)
  <2>1. CASE DropFile(t)
    BY <1>1, <2>1 DEF DropFile, Goto, OthersStay, WriterPC
  <2>2. CASE ~DropFile(t)
    <3>1. op' = op \/ \E id : op' = [op EXCEPT ![t].file_id = id]
      BY <2>2, Zenon DEF LookupId, LockTable, InsertId
    <3>. QED BY <1>1, <1>2, <1>3, <3>1, SetId DEF OthersStay
  <2>. QED BY <2>1, <2>2
<1>7. pc[t] \in WriterPC
  BY <1>2 DEF WriterPC
<1>8. ASSUME NEW n \in Names, NEW r \in definitions'[n], Expected(t, n, r) PROVE FALSE
  BY <1>2, <1>8 DEF Expected
<1>. QED BY <1>2, <1>3, <1>4, <1>5, <1>6, <1>7, <1>8, WriteFits

\* Filing: each ref is of a symbol of the new version.
LEMMA PushFits ==
    ASSUME CInv, NEW t \in Threads, PushRef(t)
    PROVE  WritersKnown' /\ \A n \in Names : \A r \in definitions'[n] : RefOK(n, r)'
<1>1. /\ op \in [Threads -> Op] /\ op[t].path \in Paths /\ op[t].next \in Nat \ {0}
      /\ op[t].symbols \in Seq(Symbol) /\ Len(op[t].symbols) \in Nat
      /\ definitions \in [Names -> SUBSET SymbolRef]
  BY OwnLocals, ContentsAssumption, LenProperties DEF CInv, Op
<1>2. PICK p \in Paths : p = op[t].path
  BY <1>1
<1>. DEFINE i == op[t].next
            name == op[t].symbols[i].name
<1>3. /\ pc[t] = "push" /\ i <= Len(op[t].symbols) /\ pc' = pc
      /\ op' = [op EXCEPT ![t].next = @ + 1] /\ UNCHANGED <<files, id_to_path>>
  BY DEF PushRef, PushTurn, table_vars
<1>4. i \in 1..Len(op[t].symbols)
  BY <1>1, <1>3
<1>5. name \in Names
  <2>1. op[t].symbols[i] \in Symbol
    BY <1>1, <1>4, ElementOfSeq
  <2>. QED BY <2>1 DEF Symbol
<1>6. \/ definitions' = definitions
      \/ \E copy : definitions' =
            [definitions EXCEPT ![name] =
                @ \cup {[file_id |-> op[t].file_id, symbol_idx |-> i, copy |-> copy]}]
  BY Zenon DEF PushRef, PushTurn
<1>7. ASSUME NEW n \in Names, NEW r \in definitions'[n]
      PROVE  \/ r \in definitions[n]
             \/ r.file_id = op[t].file_id /\ r.symbol_idx = i /\ n = name
  BY <1>1, <1>5, <1>6, <1>7
<1>8. HasOwnId(t)
  BY <1>3 DEF CInv, IInv, RefsInBounds, Pushing
<1>9. /\ op'[t].path = p /\ op'[t].symbols = op[t].symbols /\ OthersStay(t)
      /\ pc[t] \in WriterPC
  BY <1>1, <1>2, <1>3, SetNext DEF OthersStay, WriterPC
<1>10. ASSUME NEW n \in Names, NEW r \in definitions'[n]
       PROVE  r \in definitions[n] \/ Home(r)' = p
  BY <1>2, <1>3, <1>7, <1>8, <1>10 DEF HasOwnId, Home
<1>11. ASSUME NEW n \in Names, NEW r \in definitions'[n],
              r \in definitions[n] => Expected(t, n, r)
       PROVE  Left(t, n, r, p)'
  <2>1. Fits(op[t].symbols, n, r)
    BY <1>3, <1>4, <1>7, <1>11 DEF Fits, Expected, FilingPC
  <2>. QED BY <1>3, <1>9, <2>1 DEF Left, Expected, RemovalPC, FilingPC, WriterPC, Fits
<1>. HIDE DEF i, name
<1>. QED BY <1>2, <1>3, <1>9, <1>10, <1>11, WriteFits

LEMMA EndPushFits ==
    ASSUME CInv, NEW t \in Threads, EndPush(t) \/ MarkDirty(t)
    PROVE  WritersKnown' /\ \A n \in Names : \A r \in definitions'[n] : RefOK(n, r)'
<1>1. /\ op[t].path \in Paths /\ pc \in [Threads -> {"idle"} \cup WriterPC \cup AskerPC]
  BY OwnLocals DEF CInv
<1>2. /\ pc[t] \in {"push", "dirty"} /\ UNCHANGED <<op, files, definitions, id_to_path>>
      /\ pc'[t] \in {"dirty", "insert_file"} /\ OthersStay(t)
  BY <1>1 DEF EndPush, MarkDirty, Goto, OthersStay, index_vars, table_vars
<1>3. PICK p \in Paths : p = op[t].path
  BY <1>1
<1>4. ASSUME NEW n \in Names, NEW r \in definitions[n], Expected(t, n, r)
      PROVE  Left(t, n, r, p)'
  BY <1>2, <1>3, <1>4 DEF Expected, Left, RemovalPC, FilingPC, WriterPC, Fits
<1>5. pc[t] \in WriterPC /\ pc'[t] \in WriterPC
  BY <1>2 DEF WriterPC
<1>. QED BY <1>2, <1>3, <1>4, <1>5, WriteFits

LEMMA InsertFileFits ==
    ASSUME CInv, NEW t \in Threads, InsertFile(t)
    PROVE  WritersKnown' /\ \A n \in Names : \A r \in definitions'[n] : RefOK(n, r)'
<1>1. /\ op \in [Threads -> Op] /\ op[t].path \in Paths
      /\ op[t].symbols \in Contents /\ files \in [Paths -> Contents \cup {NoFile}]
      /\ pc \in [Threads -> {"idle"} \cup WriterPC \cup AskerPC]
  BY OwnLocals DEF CInv
<1>2. PICK p \in Paths : p = op[t].path
  BY <1>1
<1>3. /\ pc[t] = "insert_file" /\ pc'[t] = "idle" /\ OthersStay(t)
      /\ files'[p] = op[t].symbols /\ files'[p] # NoFile
      /\ \A u \in Paths : u # p => files'[u] = files[u]
      /\ UNCHANGED <<definitions, id_to_path>>
  BY <1>1, <1>2, SentinelAssumption DEF InsertFile, Goto, OthersStay, table_vars
<1>4. ASSUME NEW n \in Names, NEW r \in definitions[n], Expected(t, n, r)
      PROVE  Left(t, n, r, p)'
  BY <1>3, <1>4 DEF Expected, Left, FilingPC, WriterPC, Fits
<1>5. pc[t] \in WriterPC /\ pc'[t] \notin WriterPC
  BY <1>3 DEF WriterPC
<1>. QED BY <1>2, <1>3, <1>4, <1>5, WriteFits

\* A thread that begins to write meets refs of the version that is in `files`.
LEMMA StartFits ==
    ASSUME CInv, NEW t \in Threads, NEW kind, NEW p, NEW c, Start(t, kind, p, c),
           t \in WritersOf(p)
    PROVE  WritersKnown' /\ \A n \in Names : \A r \in definitions'[n] : RefOK(n, r)'
<1>1. /\ op \in [Threads -> Op] /\ pc \in [Threads -> {"idle"} \cup WriterPC \cup AskerPC]
  BY OwnLocals DEF CInv
<1>2. /\ pc[t] = "idle" /\ pc'[t] = "old_names" /\ op'[t].path = p /\ OthersStay(t)
      /\ UNCHANGED <<files, definitions, id_to_path>>
  BY <1>1 DEF Start, Goto, OthersStay, index_vars, table_vars
<1>3. pc[t] \notin WriterPC /\ pc'[t] \in WriterPC
  BY <1>2, Aside DEF WriterPC
<1>4. WritersKnown'
  BY <1>2 DEF CInv, WritersKnown, OthersStay, WritersOf
<1>5. ASSUME NEW n \in Names, NEW r \in definitions[n], Home(r) # p PROVE RefOK(n, r)'
  <2>1. RefOK(n, r) /\ Home(r)' = Home(r) /\ files'[Home(r)] = files[Home(r)]
    BY <1>2 DEF CInv, Home
  <2>2. ~Writes(t, Home(r)) /\ ~(pc'[t] \in WriterPC /\ op'[t].path = Home(r))
    BY <1>2, <1>3, <1>5 DEF Writes
  <2>. QED BY <1>2, <2>1, <2>2, Beside
<1>6. ASSUME NEW n \in Names, NEW r \in definitions[n], Home(r) = p PROVE RefOK(n, r)'
  <2>1. ASSUME OneWriterOf(p) PROVE Left(t, n, r, p)'
    <3>1. ~UnderWrite(p)
      <4>. SUFFICES ASSUME NEW o \in Threads, Writes(o, p) PROVE FALSE
        BY DEF UnderWrite, Writes
      <4>1. o = t
        BY <2>1, Sole DEF CInv
      <4>. QED BY <1>3, <4>1 DEF Writes
    <3>2. files[p] # NoFile /\ Fits(files[p], n, r)
      BY <1>6, <2>1, <3>1 DEF CInv, RefOK
    <3>. QED BY <1>2, <1>3, <3>2 DEF Left, Expected, Fits, RemovalPC, FilingPC
  <2>2. Home(r)' = p
    BY <1>2, <1>6 DEF Home
  <2>. QED BY <1>4, <2>1, <2>2, OwnRefOK
<1>. QED BY <1>2, <1>4, <1>5, <1>6

\* The steps of a thread that does not write.
LEMMA AsideFits ==
    ASSUME CInv, NEW t \in Threads, OthersStay(t),
           UNCHANGED <<files, definitions, id_to_path>>,
           pc[t] \notin WriterPC, pc'[t] \notin WriterPC
    PROVE  WritersKnown' /\ \A n \in Names : \A r \in definitions'[n] : RefOK(n, r)'
<1>1. WritersKnown'
  BY DEF CInv, WritersKnown, OthersStay, WritersOf
<1>2. ASSUME NEW n \in Names, NEW r \in definitions[n] PROVE RefOK(n, r)'
  <2>1. RefOK(n, r) /\ Home(r)' = Home(r) /\ files'[Home(r)] = files[Home(r)]
    BY DEF CInv, Home
  <2>2. ~Writes(t, Home(r)) /\ ~(pc'[t] \in WriterPC /\ op'[t].path = Home(r))
    BY DEF Writes
  <2>. QED BY <2>1, <2>2, Beside
<1>. QED BY <1>1, <1>2

LEMMA RequestFits ==
    ASSUME CInv, NEW t \in Threads, Request(t)
    PROVE  WritersKnown' /\ \A n \in Names : \A r \in definitions'[n] : RefOK(n, r)'
<1>1. ASSUME NEW wanted, NEW fallback, NEW label \in {"next_name", "fuzzy_check"},
             StartAsk(t, wanted, fallback, label)
      PROVE  WritersKnown' /\ \A n \in Names : \A r \in definitions'[n] : RefOK(n, r)'
  <2>1. pc \in [Threads -> {"idle"} \cup WriterPC \cup AskerPC]
    BY OwnLocals DEF CInv
  <2>2. /\ pc[t] = "idle" /\ pc'[t] = label /\ OthersStay(t)
        /\ UNCHANGED <<files, definitions, id_to_path>>
    BY <1>1, <2>1 DEF StartAsk, Goto, OthersStay, index_vars, table_vars
  <2>3. pc[t] \notin WriterPC /\ pc'[t] \notin WriterPC
    BY <2>2, Aside DEF AskerPC, WriterPC
  <2>. QED BY <2>2, <2>3, AsideFits
<1>2. ASSUME NEW p, NEW c, IndexFile(t, p, c) \/ InstallFileUnit(t, p, c)
      PROVE  WritersKnown' /\ \A n \in Names : \A r \in definitions'[n] : RefOK(n, r)'
  <2>1. t \in WritersOf(p)
    BY <1>2 DEF IndexFile, InstallFileUnit, WritersOf
  <2>. QED BY <1>2, <2>1, StartFits DEF IndexFile, InstallFileUnit
<1>3. ASSUME NEW p, RemoveFile(t, p) \/ DropDeadRow(t, p)
      PROVE  WritersKnown' /\ \A n \in Names : \A r \in definitions'[n] : RefOK(n, r)'
  <2>1. t \in WritersOf(p)
    BY <1>3 DEF RemoveFile, DropDeadRow, WritersOf
  <2>. QED BY <1>3, <2>1, StartFits DEF RemoveFile, DropDeadRow
<1>4. CASE \/ \E n \in Names : FindDefinitions(t, n)
           \/ \E close \in SUBSET Names \ {{}} : SearchSymbols(t, close)
           \/ \E close \in SUBSET Names : \E prefixed \in SUBSET close \ {{}} :
                 Completions(t, prefixed, close)
  BY <1>1, <1>4 DEF FindDefinitions, SearchSymbols, Completions
<1>. QED BY <1>2, <1>3, <1>4 DEF Request

LEMMA AskFits ==
    ASSUME CInv, NEW t \in Threads, AskStep(t) \/ FinishScan(t)
    PROVE  WritersKnown' /\ \A n \in Names : \A r \in definitions'[n] : RefOK(n, r)'
<1>1. UNCHANGED <<files, definitions, id_to_path, op>>
  BY Zenon DEF AskStep, FuzzyCheck, FuzzyLock, FuzzyIter, FuzzyClean, FuzzyRead, GetEntry,
     ReadTable, ResolveRef, EndResolve, FallBack, Return, FinishScan, index_vars, table_vars
<1>2. pc \in [Threads -> {"idle"} \cup WriterPC \cup AskerPC]
  BY OwnLocals DEF CInv
<1>3. pc[t] \notin WriterPC /\ pc'[t] \notin WriterPC /\ OthersStay(t)
  BY <1>1, <1>2, Zenon DEF AskStep, FuzzyCheck, FuzzyLock, FuzzyIter, FuzzyClean, FuzzyRead,
     GetEntry, ReadTable, ResolveRef, EndResolve, FallBack, Return, FinishScan, Goto, WriterPC,
     OthersStay
<1>. QED BY <1>1, <1>3, AsideFits

LEMMA StepFits == CInv /\ [Next]_vars => CInv'
<1>. SUFFICES ASSUME CInv, [Next]_vars PROVE CInv'
  OBVIOUS
<1>1. IInv'
  BY StepKeeps DEF CInv
<1>2. CASE UNCHANGED vars
  <2>1. WritersKnown'
    BY <1>2 DEF CInv, WritersKnown, WritersOf, vars
  <2>2. ASSUME NEW n \in Names, NEW r \in definitions[n] PROVE RefOK(n, r)'
    <3>1. RefOK(n, r)
      BY DEF CInv
    <3>. QED BY <1>2, <3>1 DEF RefOK, Home, OneWriterOf, WritersOf, UnderWrite, Writes, Fits,
         Expected, NamesAhead, vars, index_vars, table_vars
  <2>. QED BY <1>1, <1>2, <2>1, <2>2 DEF CInv, vars, index_vars
<1>3. ASSUME NEW t \in Threads, Request(t) \/ Step(t)
      PROVE  WritersKnown' /\ \A n \in Names : \A r \in definitions'[n] : RefOK(n, r)'
  BY <1>3, RequestFits, AskFits, ReadOldNamesFits, ReadOldIdFits, RetainFits, DropKeyFits,
     ClearFits, PushFits, EndPushFits, InsertFileFits, Zenon DEF Step, WriteStep
<1>. QED BY <1>1, <1>2, <1>3 DEF Next, CInv

\* Whatever threads re-index, install and remove, a ref that a query resolves is
\* of a symbol with the name it asked for, if one thread alone writes the ref's
\* file and is not at it: the guard of the entry keeps the removal of the old refs,
\* and with it the new version, waiting until resolve_refs (workspace.rs:175) is
\* done.
THEOREM AnswersStayOnName == Spec => []AnswersAreOfTheAskedName
<1>1. Init => CInv /\ AInv
  <2>. SUFFICES ASSUME Init PROVE CInv /\ AInv
    OBVIOUS
  <2>1. /\ \A t \in Threads : pc[t] = "idle"
        /\ \A n \in Names : definitions[n] = {}
    BY DEF Init
  <2>2. WritersKnown /\ AInv
    BY <2>1, Aside DEF WritersKnown, AInv
  <2>. QED BY <2>1, <2>2, InitKeeps DEF CInv
<1>2. CInv /\ AInv /\ [Next]_vars => (CInv /\ AInv)'
  BY StepFits, NextAnswers DEF CInv
<1>3. CInv /\ AInv => AnswersAreOfTheAskedName
  <2>. SUFFICES ASSUME CInv, AInv, NEW t \in Threads, pc[t] = "resolve",
                       NEW r \in ask[t].refs,
                       OneWriterOf(Home(r)), ~UnderWrite(Home(r))
                PROVE  files[Home(r)] # NoFile /\ Fits(files[Home(r)], ask[t].name, r)
    BY DEF AnswersAreOfTheAskedName, Home, Fits
  <2>1. r \in definitions[ask[t].name] /\ ask[t].name \in Names
    BY DEF AInv, HeldOK, AskerPC, HoldingPC, CInv, IInv, TypeOK, Ask
  <2>. QED BY <2>1 DEF CInv, RefOK
<1>. QED BY <1>1, <1>2, <1>3, PTL DEF Spec

-----------------------------------------------------------------------------
(***************************************************************************)
(* One thread.                                                             *)
(***************************************************************************)
\* A write that goes on: what is filed is made up for by the flag.
LEMMA FuzzyWrites ==
    ASSUME NEW t \in Threads, FuzzyOK(t), pc[t] \in WriterPC, pc'[t] \in WriterPC,
           op'[t].kind = op[t].kind, scan' = scan, fuzzy' = fuzzy, op[t] \in Op,
           fuzzy_dirty' = fuzzy_dirty \/ fuzzy_dirty' = TRUE,
           pc'[t] \in ClearedPC \ {"remove_file"} =>
              pc[t] \in ClearedPC \ {"remove_file"} \/ op[t].kind # "remove",
           ~fuzzy_dirty' =>
              \/ def_keys' \subseteq def_keys /\ pc[t] \notin {"push", "dirty"}
              \/ def_keys' \subseteq def_keys /\ op[t].kind # "index"
              \/ pc[t] = "push" /\ pc'[t] \in {"push", "dirty"}
    PROVE  FuzzyOK(t)'
<1>1. op[t].kind \in {"none", "index", "install", "remove"}
  BY DEF Op
<1>2. pc'[t] \notin AskerPC /\ pc'[t] # "fuzzy_build" /\ pc'[t] # "fuzzy_read"
  BY Aside DEF WriterPC
<1>3. ASSUME ~fuzzy_dirty'
      PROVE  \/ def_keys' \subseteq fuzzy'
             \/ scan'[t] # "no"
             \/ pc'[t] \in {"push", "dirty"} /\ op'[t].kind = "index"
  <2>1. CASE pc[t] = "push" /\ pc'[t] \in {"push", "dirty"}
    BY <1>1, <2>1 DEF FuzzyOK, WriterPC, ClearedPC
  <2>2. CASE /\ def_keys' \subseteq def_keys
             /\ pc[t] \notin {"push", "dirty"} \/ op[t].kind # "index"
    BY <1>3, <2>2 DEF FuzzyOK
  <2>. QED BY <1>3, <2>1, <2>2
<1>. QED BY <1>2, <1>3 DEF FuzzyOK

LEMMA FuzzyWriteSteps ==
    ASSUME EInv, NEW t \in Threads, FuzzyOK(t), WriteStep(t)
    PROVE  FuzzyOK(t)'
<1>. USE DEF index_vars, table_vars, fuzzy_vars, bounds
<1>1. /\ op \in [Threads -> Op] /\ op[t] \in Op
      /\ pc \in [Threads -> {"idle"} \cup WriterPC \cup AskerPC]
      /\ definitions \in [Names -> SUBSET SymbolRef]
      /\ op[t].kind \in {"none", "index", "install", "remove"}
  BY Locals DEF Op, EInv, IInv, TypeOK
<1>2. CASE ReadOldNames(t) \/ ReadOldId(t)
  <2>1. /\ pc[t] \in {"old_names", "old_id"}
        /\ pc'[t] \in {"old_id", "retain", AfterRemoval(t)}
        /\ op'[t].kind = op[t].kind /\ UNCHANGED <<def_keys, fuzzy, fuzzy_dirty, scan>>
    <3>1. op'[t].kind = op[t].kind
      <4>1. CASE op' = op
        BY <4>1
      <4>2. CASE \E x : op' = [op EXCEPT ![t].names = x]
        BY <1>1, <4>2, SetNames
      <4>3. CASE \E x : op' = [op EXCEPT ![t].file_id = x]
        BY <1>1, <4>3, SetId
      <4>. QED BY <1>2, <4>1, <4>2, <4>3 DEF ReadOldNames, ReadOldId
    <3>2. pc'[t] \in {"old_id", "retain", AfterRemoval(t)}
      BY <1>2, Goes DEF ReadOldNames, ReadOldId, NextName
    <3>. QED BY <1>2, <3>1, <3>2 DEF ReadOldNames, ReadOldId
  <2>2. /\ pc[t] \in WriterPC /\ pc'[t] \in WriterPC
        /\ pc'[t] \in ClearedPC \ {"remove_file"} => op[t].kind # "remove"
    BY <2>1 DEF WriterPC, ClearedPC, AfterRemoval
  <2>. QED BY <1>1, <2>1, <2>2, FuzzyWrites
<1>3. CASE Retain(t) \/ DropKey(t)
  <2>1. /\ pc[t] \in {"retain", "drop_key"}
        /\ pc'[t] \in {"drop_key", "retain", AfterRemoval(t)}
        /\ op'[t].kind = op[t].kind /\ def_keys' \subseteq def_keys
        /\ UNCHANGED <<fuzzy, fuzzy_dirty, scan>>
    <3>1. op'[t].kind = op[t].kind
      <4>1. CASE op' = op
        BY <4>1
      <4>2. CASE op' = [op EXCEPT ![t].names = Tail(@)]
        BY <1>1, <4>2, SetNames
      <4>. QED BY <1>3, <4>1, <4>2 DEF Retain, DropKey
    <3>2. pc'[t] \in {"drop_key", "retain", AfterRemoval(t)}
      BY <1>3, Goes DEF Retain, DropKey, NextName
    <3>. QED BY <1>3, <3>1, <3>2 DEF Retain, DropKey
  <2>2. /\ pc[t] \in WriterPC /\ pc'[t] \in WriterPC
        /\ pc'[t] \in ClearedPC \ {"remove_file"} => op[t].kind # "remove"
    BY <2>1 DEF WriterPC, ClearedPC, AfterRemoval
  <2>. QED BY <1>1, <2>1, <2>2, FuzzyWrites
<1>4. CASE LookupId(t) \/ LockTable(t) \/ InsertId(t)
  <2>1. /\ pc[t] \in {"lookup_id", "lock_table", "insert_id"}
        /\ pc'[t] \in {"lock_table", "insert_id", "push"}
        /\ op'[t].kind = op[t].kind /\ UNCHANGED <<def_keys, fuzzy, fuzzy_dirty, scan>>
    <3>1. op'[t].kind = op[t].kind
      <4>1. CASE op' = op
        BY <4>1
      <4>2. CASE \E x : op' = [op EXCEPT ![t].file_id = x]
        BY <1>1, <4>2, SetId
      <4>. QED BY <1>4, <4>1, <4>2 DEF LookupId, LockTable, InsertId
    <3>2. pc'[t] \in {"lock_table", "insert_id", "push"}
      BY <1>4, Goes DEF LookupId, LockTable, InsertId
    <3>. QED BY <1>4, <3>1, <3>2 DEF LookupId, LockTable, InsertId
  <2>2. /\ pc[t] \in WriterPC /\ pc'[t] \in WriterPC
        /\ pc[t] \in ClearedPC \ {"remove_file"}
    BY <2>1 DEF WriterPC, ClearedPC
  <2>. QED BY <1>1, <2>1, <2>2, FuzzyWrites
<1>5. CASE PushRef(t)
  <2>1. /\ pc[t] = "push" /\ pc' = pc /\ op' = [op EXCEPT ![t].next = op[t].next + 1]
        /\ UNCHANGED <<fuzzy, fuzzy_dirty, scan>>
    BY <1>5, Zenon DEF PushRef, PushTurn, fuzzy_vars
  <2>2. op'[t].kind = op[t].kind
    BY <1>1, <2>1, SetNext
  <2>. QED BY <1>1, <2>1, <2>2, FuzzyWrites DEF WriterPC, ClearedPC
<1>6. CASE EndPush(t)
  <2>1. /\ pc[t] = "push" /\ op' = op
        /\ pc'[t] = IF op[t].kind = "index" THEN "dirty" ELSE "insert_file"
        /\ UNCHANGED <<def_keys, fuzzy, fuzzy_dirty, scan>>
    BY <1>1, <1>6, Goes DEF EndPush
  <2>. QED BY <1>1, <2>1, FuzzyWrites DEF WriterPC, ClearedPC
<1>7. CASE MarkDirty(t)
  <2>1. /\ pc[t] = "dirty" /\ op' = op /\ pc'[t] = "insert_file"
        /\ UNCHANGED <<def_keys, fuzzy, scan>> /\ fuzzy_dirty' = TRUE
    BY <1>1, <1>7, Goes DEF MarkDirty
  <2>. QED BY <1>1, <2>1, FuzzyWrites DEF WriterPC, ClearedPC
<1>8. CASE InsertFile(t) \/ DropFile(t)
  <2>1. /\ pc[t] \in {"insert_file", "remove_file"} /\ pc'[t] = "idle"
        /\ UNCHANGED <<def_keys, fuzzy, fuzzy_dirty, scan>>
    BY <1>1, <1>8, Goes DEF InsertFile, DropFile
  <2>. QED BY <2>1, Aside DEF FuzzyOK
<1>9. CASE FinishScan(t)
  <2>1. pc' = pc /\ pc[t] = "idle" /\ fuzzy_dirty' = TRUE
    BY <1>9 DEF FinishScan
  <2>. QED BY <2>1, Aside DEF FuzzyOK
<1>. QED BY <1>2, <1>3, <1>4, <1>5, <1>6, <1>7, <1>8, <1>9 DEF WriteStep

LEMMA FuzzyRequests ==
    ASSUME EInv, NEW t \in Threads, FuzzyOK(t), Request(t)
    PROVE  FuzzyOK(t)'
<1>. USE DEF index_vars, table_vars, fuzzy_vars, bounds
<1>1. /\ op \in [Threads -> Op]
      /\ pc \in [Threads -> {"idle"} \cup WriterPC \cup AskerPC]
      /\ scan \in [Threads -> {"no", "installing", "dropping"}]
  BY DEF EInv, IInv, TypeOK
<1>2. ASSUME NEW kind \in {"index", "install", "remove"}, NEW p, NEW c, Start(t, kind, p, c),
             scan'[t] = scan[t] \/ scan'[t] # "no", kind = "install" => scan'[t] # "no"
      PROVE  FuzzyOK(t)'
  <2>1. /\ pc[t] = "idle" /\ pc'[t] = "old_names" /\ op'[t].kind = kind
        /\ UNCHANGED <<def_keys, fuzzy, fuzzy_dirty>>
    BY <1>1, <1>2 DEF Start, Goto
  <2>2. /\ pc'[t] \notin AskerPC /\ pc'[t] \notin ClearedPC
        /\ pc'[t] # "fuzzy_build" /\ pc'[t] # "fuzzy_read"
    BY <2>1 DEF AskerPC, ClearedPC
  <2>3. ~fuzzy_dirty => def_keys \subseteq fuzzy \/ scan[t] # "no"
    BY <2>1 DEF FuzzyOK
  <2>. QED BY <1>2, <2>1, <2>2, <2>3 DEF FuzzyOK
<1>3. ASSUME NEW wanted, NEW fallback, NEW label \in {"next_name", "fuzzy_check"},
             StartAsk(t, wanted, fallback, label)
      PROVE  FuzzyOK(t)'
  <2>1. /\ pc[t] = "idle" /\ pc'[t] \in {"next_name", "fuzzy_check"} /\ scan'[t] = "no"
        /\ op' = op /\ UNCHANGED <<def_keys, fuzzy, fuzzy_dirty, scan>>
    BY <1>1, <1>3 DEF StartAsk, Goto
  <2>2. pc'[t] \notin WriterPC /\ pc'[t] \notin ClearedPC
    BY <2>1 DEF WriterPC, ClearedPC
  <2>. QED BY <2>1, <2>2 DEF FuzzyOK
<1>4. ASSUME NEW p, NEW c, IndexFile(t, p, c) \/ InstallFileUnit(t, p, c) PROVE FuzzyOK(t)'
  BY <1>1, <1>2, <1>4 DEF IndexFile, InstallFileUnit
<1>5. ASSUME NEW p, RemoveFile(t, p) \/ DropDeadRow(t, p) PROVE FuzzyOK(t)'
  BY <1>1, <1>2, <1>5 DEF RemoveFile, DropDeadRow
<1>. QED BY <1>3, <1>4, <1>5 DEF Request, FindDefinitions, SearchSymbols, Completions

LEMMA FuzzyAsks ==
    ASSUME EInv, NEW t \in Threads, FuzzyOK(t), AskStep(t)
    PROVE  FuzzyOK(t)'
<1>. USE DEF index_vars, table_vars, fuzzy_vars, bounds
<1>1. /\ ask[t] \in Ask /\ ask \in [Threads -> Ask] /\ def_keys \subseteq Names
      /\ pc \in [Threads -> {"idle"} \cup WriterPC \cup AskerPC]
      /\ UNCHANGED <<def_keys, op, scan>>
  BY AskMoves DEF EInv, IInv, TypeOK
<1>2. ASSUME pc[t] \in AskerPC, pc'[t] \notin WriterPC,
             ~fuzzy_dirty' => def_keys \subseteq fuzzy',
             pc'[t] = "fuzzy_build" => def_keys \subseteq fuzzy' \cup ask'[t].todo,
             pc'[t] = "fuzzy_read" => ~fuzzy_dirty'
      PROVE  FuzzyOK(t)'
  BY <1>1, <1>2, Aside DEF FuzzyOK
<1>3. pc[t] \in AskerPC /\ (~fuzzy_dirty => def_keys \subseteq fuzzy)
  <2>1. pc[t] \in AskerPC
    BY Zenon DEF AskStep, FuzzyCheck, FuzzyLock, FuzzyIter, FuzzyClean, FuzzyRead, GetEntry,
       ReadTable, ResolveRef, EndResolve, FallBack, Return, AskerPC
  <2>. QED BY <2>1 DEF FuzzyOK, AskerPC
<1>4. CASE FuzzyCheck(t)
  <2>1. /\ pc'[t] = (IF fuzzy_dirty THEN "fuzzy_lock" ELSE "fuzzy_read")
        /\ UNCHANGED <<fuzzy, fuzzy_dirty>>
    BY <1>1, <1>4 DEF FuzzyCheck, Goto
  <2>. QED BY <1>2, <1>3, <2>1 DEF WriterPC
<1>5. CASE FuzzyLock(t)
  <2>1. \/ pc'[t] = "fuzzy_read" /\ ~fuzzy_dirty /\ UNCHANGED <<fuzzy, fuzzy_dirty>>
        \/ /\ pc'[t] = "fuzzy_build" /\ fuzzy_dirty /\ fuzzy_dirty' = fuzzy_dirty
           /\ ask'[t].todo = Names
    BY <1>1, <1>5 DEF FuzzyLock, Goto, Ask
  <2>. QED BY <1>1, <1>2, <1>3, <2>1 DEF WriterPC
<1>6. CASE FuzzyIter(t)
  <2>1. PICK n \in ask[t].todo : /\ fuzzy' = fuzzy \cup ({n} \cap def_keys)
                                 /\ ask' = [ask EXCEPT ![t].todo = @ \ {n}]
    BY <1>6 DEF FuzzyIter
  <2>2. /\ pc'[t] = "fuzzy_build" /\ pc[t] = "fuzzy_build" /\ fuzzy_dirty' = fuzzy_dirty
        /\ ask'[t].todo = ask[t].todo \ {n}
    BY <1>1, <1>6, <2>1 DEF FuzzyIter, Ask
  <2>3. def_keys \subseteq fuzzy \cup ask[t].todo
    BY <2>2 DEF FuzzyOK
  <2>. QED BY <1>2, <1>3, <2>1, <2>2, <2>3 DEF WriterPC
<1>7. CASE FuzzyClean(t)
  <2>1. /\ pc[t] = "fuzzy_build" /\ pc'[t] = "fuzzy_read" /\ ask[t].todo = {}
        /\ fuzzy' = fuzzy /\ fuzzy_dirty' = FALSE
    BY <1>1, <1>7 DEF FuzzyClean, Goto
  <2>2. def_keys \subseteq fuzzy
    BY <2>1 DEF FuzzyOK
  <2>. QED BY <1>2, <1>3, <2>1, <2>2 DEF WriterPC
<1>8. CASE \/ FuzzyRead(t) \/ GetEntry(t) \/ ReadTable(t) \/ ResolveRef(t) \/ EndResolve(t)
           \/ FallBack(t) \/ Return(t)
  <2>1. /\ pc'[t] \in {"idle", "next_name", "read_table", "resolve", "fuzzy_check"}
        /\ UNCHANGED <<fuzzy, fuzzy_dirty>>
    BY <1>1, <1>8, Zenon DEF FuzzyRead, GetEntry, ReadTable, ResolveRef, EndResolve, FallBack, Return, Goto
  <2>. QED BY <1>2, <1>3, <2>1 DEF WriterPC
<1>. QED BY <1>4, <1>5, <1>6, <1>7, <1>8 DEF AskStep

\* A definition of `files` is filed in the index when no write is under way.
LEMMA DefinitionFiled ==
    ASSUME EInv, ~Writing, NEW wanted, wanted \subseteq Names,
           NEW l \in Promise!Definitions(wanted)
    PROVE  /\ l.file \in Paths /\ l.name \in wanted /\ l.copy = 0
           /\ l = [file |-> l.file, symbol_idx |-> l.symbol_idx, copy |-> 0, name |-> l.name]
           /\ Ref(l.file, l.symbol_idx) \in definitions[l.name]
           /\ file_ids[l.file] # NoId /\ l.name \in def_keys
<1>1. PICK p \in Paths : \E i \in Promise!Globals(p, wanted) :
         l = [file |-> p, symbol_idx |-> i, copy |-> 0, name |-> files[p][i].name]
  BY DEF Promise!Definitions
<1>2. PICK i \in Promise!Globals(p, wanted) :
         l = [file |-> p, symbol_idx |-> i, copy |-> 0, name |-> files[p][i].name]
  BY <1>1
<1>3. /\ l.file = p /\ l.symbol_idx = i /\ l.copy = 0 /\ l.name = files[p][i].name
      /\ l.name \in wanted /\ i \in Promise!Globals(p, {l.name}) /\ files[p] # NoFile
  BY <1>2 DEF Promise!Globals
<1>4. i \in Nat /\ Owed(l.name, p, i)
  BY <1>3, Settled
<1>5. Ref(p, i) \in definitions[l.name]
  BY <1>3, <1>4 DEF EInv, Complete
<1>6. l.name \in def_keys
  BY <1>3, <1>5 DEF EInv, Keys
<1>. QED BY <1>2, <1>3, <1>5, <1>6 DEF EInv, IdsOK

\* A definition of one wanted name is a definition of the wanted names.
LEMMA DefinitionWanted ==
    ASSUME NEW wanted, NEW n \in wanted, NEW p \in Paths, NEW i \in Promise!Globals(p, {n})
    PROVE  [file |-> p, symbol_idx |-> i, copy |-> 0, name |-> n] \in Promise!Definitions(wanted)
<1>1. i \in Promise!Globals(p, wanted) /\ files[p][i].name = n
  BY DEF Promise!Globals
<1>. QED BY <1>1 DEF Promise!Definitions

LEMMA ReachedNext ==
    ASSUME NEW t \in Threads, UNCHANGED <<files, file_ids>>
    PROVE  Reached(t)' =
             {l \in Promise!Definitions(ask'[t].wanted) :
                 /\ l.name \notin ask'[t].names
                 /\ pc'[t] \in HoldingPC /\ l.name = ask'[t].name
                       => Ref(l.file, l.symbol_idx) \notin ask'[t].refs}
BY DEF Reached, Promise!Definitions, Promise!Globals, Ref

\* Only its thread writes, so nobody writes while it asks.
LEMMA AskingAlone ==
    ASSUME EInv, OneThread, NEW t \in Threads, pc[t] \in AskerPC
    PROVE  ~Writing /\ \A p \in Paths, i \in Nat : file_ids[p] # NoId =>
              id_to_path[file_ids[p] + 1] = p
<1>1. ~Writing
  BY Aside DEF OneThread, Writing
<1>. QED BY <1>1, OwnPath

LEMMA QueryResolves ==
    ASSUME EInv, AInv, OneThread, NEW t \in Threads, QueryOK(t), ResolveRef(t)
    PROVE  QueryOK(t)'
<1>1. /\ ask[t] \in Ask /\ ask \in [Threads -> Ask] /\ UNCHANGED <<files, file_ids>>
      /\ pc[t] = "resolve" /\ pc' = pc
  BY AskMoves, Zenon DEF EInv, AskStep, ResolveRef
<1>2. PICK r \in ask[t].refs :
        LET path == id_to_path[r.file_id + 1]
            entry == files[path]
        IN  ask' = [ask EXCEPT
                      ![t].refs = @ \ {r},
                      ![t].found =
                         IF entry # NoFile /\ r.symbol_idx \in 1..Len(entry)
                         THEN @ \cup {[file |-> path, symbol_idx |-> r.symbol_idx,
                                       copy |-> r.copy,
                                       name |-> entry[r.symbol_idx].name]}
                         ELSE @]
  BY DEF ResolveRef
<1>3. PICK n : n = ask[t].name
  OBVIOUS
<1>4. /\ r \in definitions[n] /\ r.copy = 0 /\ n \in Names /\ n \in ask[t].wanted
  BY <1>1, <1>3, HeldRef
<1>5. PICK p \in Paths, i \in Nat : p = id_to_path[r.file_id + 1] /\ i = r.symbol_idx
  BY <1>4, RefPath
<1>6. ~Writing
  BY <1>1, AskingAlone DEF AskerPC
<1>7. i \in Promise!Globals(p, {n})
  <2>1. Allowed(n, p, i)
    BY <1>4, <1>5 DEF EInv, Sound
  <2>. QED BY <1>4, <1>6, <2>1, Settled
<1>8. files[p] # NoFile /\ i \in 1..Len(files[p]) /\ files[p][i].name = n
  BY <1>7 DEF Promise!Globals
<1>. DEFINE loc == [file |-> p, symbol_idx |-> i, copy |-> 0, name |-> n]
<1>9. ask' = [ask EXCEPT ![t].refs = @ \ {r}, ![t].found = @ \cup {loc}]
  BY <1>2, <1>4, <1>5, <1>8
<1>. HIDE DEF loc
<1>10. /\ ask'[t].refs = ask[t].refs \ {r} /\ ask'[t].found = ask[t].found \cup {loc}
       /\ ask'[t].names = ask[t].names /\ ask'[t].name = n
       /\ ask'[t].wanted = ask[t].wanted
  BY <1>1, <1>3, <1>9 DEF Ask
<1>11. r = Ref(p, i)
  <2>1. r \in ExactRefs(n)
    BY <1>4, <1>6, ExactWhenSettled DEF IndexIsExact
  <2>2. PICK u \in Paths : \E j \in Promise!Globals(u, {n}) : r = Ref(u, j)
    BY <2>1 DEF ExactRefs, Ref
  <2>3. file_ids[u] # NoId /\ r.file_id = file_ids[u]
    BY <2>2 DEF EInv, IdsOK, Ref, Promise!Globals
  <2>4. u = p
    BY <1>5, <2>3, OwnPath
  <2>. QED BY <1>5, <2>2, <2>4 DEF Ref
<1>12. ask[t].found = Reached(t) /\ n \notin ask[t].names
  BY <1>1, <1>3 DEF QueryOK, AskingPC, HoldingPC
<1>13. Reached(t)' = {l \in Promise!Definitions(ask[t].wanted) :
                        /\ l.name \notin ask[t].names
                        /\ l.name = n => Ref(l.file, l.symbol_idx) \notin ask[t].refs \ {r}}
  BY <1>1, <1>10, ReachedNext DEF HoldingPC
<1>14. Reached(t) = {l \in Promise!Definitions(ask[t].wanted) :
                        /\ l.name \notin ask[t].names
                        /\ l.name = n => Ref(l.file, l.symbol_idx) \notin ask[t].refs}
  BY <1>1, <1>3 DEF Reached, HoldingPC
<1>15. loc \in Promise!Definitions(ask[t].wanted)
  BY <1>4, <1>7, DefinitionWanted DEF loc
<1>16. ASSUME NEW l \in Promise!Definitions(ask[t].wanted), l.name = n,
              Ref(l.file, l.symbol_idx) = r
       PROVE  l = loc
  <2>1. /\ l.file \in Paths /\ file_ids[l.file] # NoId
        /\ l = [file |-> l.file, symbol_idx |-> l.symbol_idx, copy |-> 0, name |-> l.name]
    BY <1>1, <1>6, <1>16, DefinitionFiled DEF Ask
  <2>2. file_ids[l.file] = r.file_id /\ l.symbol_idx = i
    BY <1>5, <1>16 DEF Ref
  <2>3. l.file = p
    BY <1>5, <2>1, <2>2, OwnPath
  <2>. QED BY <1>16, <2>1, <2>2, <2>3 DEF loc
<1>17. loc.name = n /\ Ref(loc.file, loc.symbol_idx) = r
  BY <1>11 DEF loc
<1>18. ask'[t].found = Reached(t)'
  BY <1>10, <1>12, <1>13, <1>14, <1>15, <1>16, <1>17
<1>. QED BY <1>1, <1>10, <1>12, <1>18 DEF QueryOK, AskingPC, HoldingPC

LEMMA QueryTakes ==
    ASSUME EInv, AInv, OneThread, NEW t \in Threads, QueryOK(t), GetEntry(t)
    PROVE  QueryOK(t)'
<1>1. /\ ask[t] \in Ask /\ ask \in [Threads -> Ask] /\ UNCHANGED <<files, file_ids>>
      /\ pc[t] = "next_name" /\ NamesOK(t)
      /\ pc \in [Threads -> {"idle"} \cup WriterPC \cup AskerPC]
  BY AskMoves, Zenon DEF EInv, AskStep, GetEntry, AInv, AskerPC
<1>2. PICK n \in ask[t].names :
        \/ /\ n \in def_keys
           /\ ask' = [ask EXCEPT ![t].names = @ \ {n}, ![t].name = n,
                                 ![t].refs = definitions[n]]
           /\ pc' = [pc EXCEPT ![t] = "read_table"]
        \/ /\ n \notin def_keys
           /\ ask' = [ask EXCEPT ![t].names = @ \ {n}] /\ UNCHANGED pc
  BY Zenon DEF GetEntry, Goto
<1>3. /\ ask[t].wanted \subseteq Names /\ n \in Names /\ ~Writing
  BY <1>1, AskingAlone DEF Ask, AskerPC
<1>4. /\ ask[t].found = Reached(t)
      /\ Reached(t) = {l \in Promise!Definitions(ask[t].wanted) : l.name \notin ask[t].names}
  BY <1>1 DEF QueryOK, Reached, AskingPC, HoldingPC
<1>5. CASE /\ ask' = [ask EXCEPT ![t].names = @ \ {n}, ![t].name = n,
                                 ![t].refs = definitions[n]]
           /\ pc' = [pc EXCEPT ![t] = "read_table"]
  <2>1. /\ ask'[t].names = ask[t].names \ {n} /\ ask'[t].name = n
        /\ ask'[t].refs = definitions[n] /\ ask'[t].wanted = ask[t].wanted
        /\ ask'[t].found = ask[t].found /\ pc'[t] = "read_table"
    BY <1>1, <1>5 DEF Ask
  <2>2. Reached(t)' = {l \in Promise!Definitions(ask[t].wanted) :
                         /\ l.name \notin ask[t].names \ {n}
                         /\ l.name = n => Ref(l.file, l.symbol_idx) \notin definitions[n]}
    BY <1>1, <2>1, ReachedNext DEF HoldingPC
  <2>3. \A l \in Promise!Definitions(ask[t].wanted) :
           l.name = n => Ref(l.file, l.symbol_idx) \in definitions[n]
    BY <1>3, DefinitionFiled
  <2>4. ask'[t].found = Reached(t)'
    BY <1>2, <1>4, <2>1, <2>2, <2>3
  <2>. QED BY <2>1, <2>4 DEF QueryOK, AskingPC, HoldingPC
<1>6. CASE n \notin def_keys /\ ask' = [ask EXCEPT ![t].names = @ \ {n}] /\ UNCHANGED pc
  <2>1. /\ ask'[t].names = ask[t].names \ {n} /\ ask'[t].wanted = ask[t].wanted
        /\ ask'[t].found = ask[t].found
    BY <1>1, <1>6 DEF Ask
  <2>2. Reached(t)' = {l \in Promise!Definitions(ask[t].wanted) :
                         l.name \notin ask[t].names \ {n}}
    BY <1>1, <1>6, <2>1, ReachedNext DEF HoldingPC
  <2>3. \A l \in Promise!Definitions(ask[t].wanted) : l.name # n
    BY <1>3, <1>6, DefinitionFiled
  <2>4. ask'[t].found = Reached(t)'
    BY <1>4, <2>1, <2>2, <2>3
  <2>. QED BY <1>1, <1>6, <2>4 DEF QueryOK, AskingPC, HoldingPC
<1>. QED BY <1>2, <1>5, <1>6

LEMMA QueryAsks ==
    ASSUME EInv, AInv, OneThread, NEW t \in Threads, FuzzyOK(t), QueryOK(t), AskStep(t)
    PROVE  QueryOK(t)'
<1>1. /\ ask[t] \in Ask /\ ask \in [Threads -> Ask]
      /\ UNCHANGED <<files, file_ids, definitions, def_keys>>
      /\ pc \in [Threads -> {"idle"} \cup WriterPC \cup AskerPC]
  BY AskMoves DEF EInv
<1>2. CASE FuzzyCheck(t) \/ FuzzyLock(t) \/ FuzzyIter(t) \/ FuzzyClean(t)
  <2>1. /\ pc[t] \in {"fuzzy_check", "fuzzy_lock", "fuzzy_build", "fuzzy_read"}
        /\ pc'[t] \in {"fuzzy_check", "fuzzy_lock", "fuzzy_build", "fuzzy_read"}
    BY <1>1, <1>2 DEF FuzzyCheck, FuzzyLock, FuzzyIter, FuzzyClean, Goto
  <2>2. ask'[t].found = ask[t].found
    BY <1>1, <1>2 DEF FuzzyCheck, FuzzyLock, FuzzyIter, FuzzyClean, Ask
  <2>. QED BY <2>1, <2>2 DEF QueryOK, AskingPC, HoldingPC
<1>3. CASE FuzzyRead(t)
  <2>1. /\ pc[t] = "fuzzy_read" /\ pc'[t] = "next_name" /\ ask[t].found = {}
        /\ ask'[t].found = {} /\ ask'[t].wanted = ask[t].wanted
        /\ ask'[t].names = ask[t].wanted \cap fuzzy
    BY <1>1, <1>3 DEF FuzzyRead, Goto, QueryOK, Ask
  <2>2. def_keys \subseteq fuzzy
    BY <2>1 DEF FuzzyOK, AskerPC
  <2>3. ask[t].wanted \subseteq Names /\ ~Writing
    BY <1>1, <2>1, AskingAlone DEF Ask, AskerPC
  <2>4. \A l \in Promise!Definitions(ask[t].wanted) : l.name \in ask[t].wanted \cap fuzzy
    BY <2>2, <2>3, DefinitionFiled
  <2>5. Reached(t)' = {}
    BY <1>1, <2>1, <2>4, ReachedNext DEF HoldingPC
  <2>. QED BY <2>1, <2>5 DEF QueryOK, AskingPC, HoldingPC
<1>4. CASE ReadTable(t)
  <2>1. pc[t] = "read_table" /\ pc'[t] = "resolve" /\ ask' = ask
    BY <1>1, <1>4 DEF ReadTable, Goto
  <2>2. Reached(t)' = Reached(t)
    BY <1>1, <2>1, ReachedNext DEF Reached, HoldingPC
  <2>. QED BY <2>1, <2>2 DEF QueryOK, AskingPC, HoldingPC
<1>5. CASE EndResolve(t)
  <2>1. pc[t] = "resolve" /\ pc'[t] = "next_name" /\ ask' = ask /\ ask[t].refs = {}
    BY <1>1, <1>5 DEF EndResolve, Goto
  <2>2. Reached(t)' = Reached(t)
    BY <1>1, <2>1, ReachedNext DEF Reached, HoldingPC
  <2>. QED BY <2>1, <2>2 DEF QueryOK, AskingPC, HoldingPC
<1>6. CASE FallBack(t)
  <2>1. pc'[t] = "fuzzy_check" /\ ask'[t].found = {}
    BY <1>1, <1>6 DEF FallBack, Goto, Ask
  <2>. QED BY <2>1 DEF QueryOK, AskingPC, HoldingPC
<1>7. CASE Return(t)
  <2>1. pc'[t] = "idle"
    BY <1>1, <1>7 DEF Return, Goto
  <2>. QED BY <2>1 DEF QueryOK, AskingPC, HoldingPC
<1>. QED BY <1>2, <1>3, <1>4, <1>5, <1>6, <1>7, QueryResolves, QueryTakes DEF AskStep

LEMMA QueryRequests ==
    ASSUME EInv, NEW t \in Threads, Request(t)
    PROVE  QueryOK(t)'
<1>1. /\ ask \in [Threads -> Ask]
      /\ pc \in [Threads -> {"idle"} \cup WriterPC \cup AskerPC]
  BY DEF EInv, IInv, TypeOK
<1>2. ASSUME NEW kind, NEW p, NEW c, Start(t, kind, p, c) PROVE QueryOK(t)'
  <2>1. pc'[t] = "old_names"
    BY <1>1, <1>2 DEF Start, Goto
  <2>. QED BY <2>1 DEF QueryOK, AskingPC, HoldingPC
<1>3. ASSUME NEW wanted \in SUBSET Names, NEW fallback, NEW label \in {"next_name", "fuzzy_check"},
             StartAsk(t, wanted, fallback, label)
      PROVE  QueryOK(t)'
  <2>1. /\ pc'[t] = label /\ ask'[t].names = wanted /\ ask'[t].wanted = wanted
        /\ ask'[t].found = {} /\ UNCHANGED <<files, file_ids>>
    BY <1>1, <1>3 DEF StartAsk, Goto, index_vars, table_vars
  <2>2. \A l \in Promise!Definitions(wanted) : l.name \in wanted
    BY DEF Promise!Definitions, Promise!Globals
  <2>3. Reached(t)' = {}
    BY <2>1, <2>2, ReachedNext
  <2>. QED BY <2>1, <2>3 DEF QueryOK, AskingPC, HoldingPC
<1>. QED BY <1>2, <1>3 DEF Request, IndexFile, InstallFileUnit, RemoveFile, DropDeadRow,
     FindDefinitions, SearchSymbols, Completions

-----------------------------------------------------------------------------
\* The invariant of one thread holds initially, and every step keeps it.
LEMMA InitSerial == Init => SInv
<1>. SUFFICES ASSUME Init PROVE SInv
  OBVIOUS
<1>1. AInv
  BY Aside DEF Init, AInv
<1>2. ASSUME NEW t \in Threads PROVE FuzzyOK(t) /\ QueryOK(t)
  BY Aside DEF Init, FuzzyOK, QueryOK, ClearedPC, AskingPC, HoldingPC
<1>. QED BY <1>1, <1>2, InitExact DEF SInv

LEMMA StepSerial ==
    ASSUME OneThread, SInv, [Next]_vars
    PROVE  SInv'
<1>1. EInv' /\ AInv'
  BY StepExact, NextAnswers, OneIsOneWriter DEF SInv, EInv
<1>2. CASE UNCHANGED vars
  <2>. USE <1>2 DEF vars, index_vars, table_vars, fuzzy_vars, bounds
  <2>1. ASSUME NEW t \in Threads PROVE FuzzyOK(t)'
    BY DEF SInv, FuzzyOK
  <2>2. ASSUME NEW t \in Threads PROVE QueryOK(t)'
    BY DEF SInv, QueryOK, Reached, Promise!Definitions, Promise!Globals, Ref
  <2>. QED BY <1>1, <2>1, <2>2 DEF SInv
<1>3. ASSUME NEW t \in Threads, Request(t) \/ Step(t) PROVE SInv'
  <2>1. FuzzyOK(t)'
    BY <1>3, FuzzyRequests, FuzzyWriteSteps, FuzzyAsks DEF SInv, Step
  <2>2. QueryOK(t)'
    <3>1. CASE Request(t)
      BY <3>1, QueryRequests DEF SInv
    <3>2. CASE WriteStep(t)
      <4>1. pc'[t] \notin AskerPC
        BY <3>2, WritesAside DEF SInv, EInv
      <4>. QED BY <4>1 DEF QueryOK, AskingPC, HoldingPC, AskerPC
    <3>3. CASE AskStep(t)
      BY <3>3, QueryAsks DEF SInv
    <3>. QED BY <1>3, <3>1, <3>2, <3>3 DEF Step
  <2>3. \A o \in Threads : o = t
    BY DEF OneThread
  <2>. QED BY <1>1, <2>1, <2>2, <2>3 DEF SInv
<1>. QED BY <1>2, <1>3 DEF Next

LEMMA SerialInvariance == OneThread => (Spec => []SInv)
<1>. SUFFICES ASSUME OneThread PROVE Spec => []SInv
  OBVIOUS
<1>1. SInv /\ [Next]_vars => SInv'
  BY StepSerial
<1>. QED BY <1>1, InitSerial, PTL DEF Spec

\* When one thread does everything, the fuzzy index holds every defined name
\* whenever nothing runs and its flag is clean (workspace.rs:109): a search can
\* find whatever was indexed.
THEOREM FuzzyStaysComplete == OneThread => (Spec => []FuzzyComplete)
<1>. SUFFICES ASSUME OneThread PROVE Spec => []FuzzyComplete
  OBVIOUS
<1>1. SInv => FuzzyComplete
  <2>. SUFFICES ASSUME SInv, \A t \in Threads : pc[t] = "idle" /\ scan[t] = "no",
                       ~fuzzy_dirty
                PROVE  def_keys \subseteq fuzzy
    BY DEF FuzzyComplete
  <2>1. PICK t \in Threads : pc[t] = "idle" /\ scan[t] = "no"
    BY DEF OneThread
  <2>. QED BY <2>1 DEF SInv, FuzzyOK
<1>. QED BY <1>1, SerialInvariance, PTL

-----------------------------------------------------------------------------
(***************************************************************************)
(* Refinement.  An update takes effect when it writes `files`, a query     *)
(* when it returns.                                                        *)
(***************************************************************************)
LEMMA PromiseInit == Init => Promise!Init
BY DEF Init, Promise!Init

LEMMA PromiseWrites ==
    ASSUME EInv, NEW t \in Threads, WriteStep(t)
    PROVE  Promise!Next \/ UNCHANGED <<files, answer>>
<1>1. answer' = answer
  BY WritesAside DEF EInv
<1>2. CASE InsertFile(t)
  <2>1. /\ files' = [files EXCEPT ![op[t].path] = op[t].symbols]
        /\ op[t].path \in Paths /\ op[t].symbols \in Contents
    BY <1>2, Locals, Pushed DEF InsertFile
  <2>. QED BY <1>1, <2>1 DEF Promise!Next, Promise!Reindex
<1>3. CASE DropFile(t)
  <2>1. files' = [files EXCEPT ![op[t].path] = NoFile] /\ op[t].path \in Paths
    BY <1>3, Locals DEF DropFile
  <2>. QED BY <1>1, <2>1 DEF Promise!Next, Promise!Forget
<1>4. CASE ~InsertFile(t) /\ ~DropFile(t)
  <2>1. files' = files
    BY <1>4, Zenon DEF WriteStep, ReadOldNames, ReadOldId, Retain, DropKey, LookupId, LockTable, InsertId,
       PushRef, PushTurn, EndPush, MarkDirty, FinishScan, index_vars
  <2>. QED BY <1>1, <2>1
<1>. QED BY <1>2, <1>3, <1>4

LEMMA PromiseAsks ==
    ASSUME EInv, NEW t \in Threads, QueryOK(t), AskStep(t)
    PROVE  Promise!Next \/ UNCHANGED <<files, answer>>
<1>1. files' = files /\ ask[t] \in Ask
  BY AskMoves DEF EInv
<1>2. CASE Return(t)
  <2>1. /\ pc[t] = "next_name" /\ ask[t].names = {}
        /\ answer' = [wanted |-> ask[t].wanted, found |-> ask[t].found]
    BY <1>2 DEF Return
  <2>2. ask[t].found = Promise!Definitions(ask[t].wanted)
    BY <2>1 DEF QueryOK, Reached, AskingPC, HoldingPC
  <2>3. ask[t].wanted \in SUBSET Names
    BY <1>1 DEF Ask
  <2>. QED BY <1>1, <2>1, <2>2, <2>3 DEF Promise!Next, Promise!Query
<1>3. CASE ~Return(t)
  <2>1. answer' = answer
    BY <1>3, Zenon DEF AskStep, FuzzyCheck, FuzzyLock, FuzzyIter, FuzzyClean, FuzzyRead, GetEntry,
       ReadTable, ResolveRef, EndResolve, FallBack
  <2>. QED BY <1>1, <2>1
<1>. QED BY <1>2, <1>3

\* Call by call, one thread's index is DefinitionIndex: every write takes effect
\* at once, and a query returns every global definition of the wanted names, each
\* once, and nothing else, however many calls lie between.
THEOREM IndexImplementsPromise == OneThread => (Spec => PromiseKept)
<1>. SUFFICES ASSUME OneThread PROVE Spec => PromiseKept
  OBVIOUS
<1>1. SInv /\ [Next]_vars => [Promise!Next]_<<files, answer>>
  <2>. SUFFICES ASSUME SInv, [Next]_vars PROVE Promise!Next \/ UNCHANGED <<files, answer>>
    OBVIOUS
  <2>1. CASE UNCHANGED vars
    BY <2>1 DEF vars, index_vars
  <2>2. ASSUME NEW t \in Threads, Request(t) PROVE UNCHANGED <<files, answer>>
    BY <2>2 DEF Request, IndexFile, InstallFileUnit, RemoveFile, DropDeadRow, Start,
       FindDefinitions, SearchSymbols, Completions, StartAsk, index_vars
  <2>3. ASSUME NEW t \in Threads, WriteStep(t)
        PROVE  Promise!Next \/ UNCHANGED <<files, answer>>
    BY <2>3, PromiseWrites DEF SInv
  <2>4. ASSUME NEW t \in Threads, AskStep(t)
        PROVE  Promise!Next \/ UNCHANGED <<files, answer>>
    BY <2>4, PromiseAsks DEF SInv
  <2>. QED BY <2>1, <2>2, <2>3, <2>4 DEF Next, Step
<1>. QED BY <1>1, PromiseInit, SerialInvariance, PTL DEF Spec, PromiseKept, Promise!Spec
=============================================================================

------------------------- MODULE HybridErasureProofs -------------------------
(***************************************************************************)
(* Proofs about HybridErasure, for any number of documents, revisions,      *)
(* tenants, writers, executors and failures.                                *)
(***************************************************************************)
EXTENDS HybridErasure, TLAPS

-----------------------------------------------------------------------------
(* Type correctness                                                         *)

\* a writer inside index_chunks has a document and a revision
Writing == \A w \in Writers : wpc[w] # "idle" => doc[w] \in Docs /\ rev[w] \in Revisions

Typed == TypeOK /\ Writing

(* A revision and what overwriting leaves are copies of a document; it holds   *)
(* all items and no id less than before.                                      *)
LEMMA ContentsAreCopies ==
  ASSUME NEW r \in Revisions
  PROVE  Contents(r) \in Copies /\ Ids(Contents(r)) = ChunksOf[r]
<1>1. ChunksOf[r] \in SUBSET Chunks
  BY ErasureAssumption
<1>2. Contents(r) \in Copies
  BY <1>1 DEF Contents, Copies
<1>3. ASSUME NEW i \in ChunksOf[r] PROVE i \in Ids(Contents(r))
  <2>1. <<i, r>> \in Contents(r) /\ <<i, r>>[1] = i
    BY <1>3 DEF Contents
  <2> QED
    BY <2>1 DEF Ids
<1>4. ASSUME NEW i \in Ids(Contents(r)) PROVE i \in ChunksOf[r]
  BY <1>4 DEF Contents, Ids
<1> QED
  BY <1>2, <1>3, <1>4

LEMMA OverwriteKeepsIds ==
  ASSUME NEW copy \in Copies, NEW items \in Copies
  PROVE  /\ Overwrite(copy, items) \in Copies
         /\ items \subseteq Overwrite(copy, items)
         /\ Ids(copy) \subseteq Ids(Overwrite(copy, items))
<1>1. Overwrite(copy, items) \in Copies /\ items \subseteq Overwrite(copy, items)
  BY DEF Overwrite, Copies
<1>2. ASSUME NEW i \in Ids(copy) PROVE i \in Ids(Overwrite(copy, items))
  <2>1. PICK c \in copy : i = c[1]
    BY DEF Ids
  <2>2. CASE i \in Ids(items)
    BY <1>1, <2>2 DEF Ids
  <2>3. CASE i \notin Ids(items)
    <3>1. c \in Overwrite(copy, items)
      BY <2>1, <2>3 DEF Overwrite
    <3> QED
      BY <2>1, <3>1 DEF Ids
  <2> QED
    BY <2>2, <2>3
<1> QED
  BY <1>1, <1>2

(* What an operation has enumerated are evidence ids of documents.            *)
LEMMA VictimsAreDocs ==
  ASSUME TypeOK, NEW e \in Executors
  PROVE  op[e].doomed \in SUBSET (Docs \X Chunks) /\ Victims(e) \in SUBSET Docs
<1>1. op[e].doomed \in SUBSET (Docs \X Chunks)
  BY DEF TypeOK, Operations
<1> QED
  BY <1>1 DEF Victims

(* An interrupted operation takes from OpenSearch some of what it was to delete. *)
LEMMA InterruptedTakesAway ==
  ASSUME TypeOK, NEW e \in Executors, OperationInterrupted(e)
  PROVE  /\ os' \in [Docs -> Copies]
         /\ \A d \in Docs : os'[d] \subseteq os[d] /\ os[d] \ os'[d] \subseteq Found(e, d)
         /\ os' = os \/ epc[e] = "delete"
<1> USE DEF TypeOK
<1>1. CASE epc[e] = "delete"
  <2>1. PICK gone \in SUBSET {x \in Docs \X (Chunks \X Revisions) : x[2] \in Found(e, x[1])} :
          os' = [d \in Docs |-> {c \in os[d] : <<d, c>> \notin gone}]
    BY <1>1 DEF OperationInterrupted
  <2>2. \A d \in Docs : os'[d] = {c \in os[d] : <<d, c>> \notin gone}
    BY <2>1
  <2>3. ASSUME NEW d \in Docs, NEW c \in os[d], c \notin os'[d] PROVE c \in Found(e, d)
    <3>1. <<d, c>> \in gone
      BY <2>2, <2>3
    <3> QED
      BY <2>1, <3>1
  <2>4. os' \in [Docs -> Copies]
    BY <2>1 DEF Copies
  <2> QED
    BY <1>1, <2>2, <2>3, <2>4
<1>2. CASE epc[e] # "delete"
  BY <1>2 DEF OperationInterrupted
<1> QED
  BY <1>1, <1>2

(* The row _begin writes into the journal, and the operation it hands out,    *)
(* are well typed.                                                            *)
LEMMA CutoffIsInt ==
  ASSUME NEW s, NEW at \in Nat, NEW days \in RetentionDays
  PROVE  Cutoff(s, at, days) \in Int
  BY ErasureAssumption DEF Cutoff

(* Giving an operation up keeps types.                                        *)
LEMMA AbandonTyped ==
  ASSUME Typed, NEW e \in Executors, Abandon(e)
  PROVE  /\ journal' \in [Scopes -> Rows]
         /\ epc' \in [Executors -> ExecutorPCs]
         /\ op' \in [Executors -> Operations]
         /\ lock' \in [Tenants -> Writers \cup Executors \cup {None}]
<1> USE DEF Typed, TypeOK
<1>1. op[e].scope \in Scopes /\ journal[op[e].scope] \in Rows
  BY DEF Operations
<1>2. journal' \in [Scopes -> Rows]
  <2> DEFINE released == [journal[op[e].scope] EXCEPT !.status = "pending", !.live = FALSE]
  <2>1. released \in Rows
    BY <1>1 DEF Rows, JournalStatuses
  <2>2. \/ journal' = journal
        \/ journal' = [journal EXCEPT ![op[e].scope] = released]
        \/ journal' = [journal EXCEPT ![op[e].scope] = journal[op[e].scope]]
    BY <1>1 DEF Abandon
  <2> HIDE DEF released
  <2> QED
    BY <1>1, <2>1, <2>2
<1>3. NoOperation \in Operations
  BY DEF NoOperation, Operations, Scopes
<1> QED
  BY <1>2, <1>3 DEF Abandon, EndOperation, EGoto, Release, ExecutorPCs

(* Every step keeps types, failures included.                                 *)
LEMMA TypedStep == ASSUME Typed, [Next]_vars PROVE Typed'
<1> USE ErasureAssumption DEF Typed, TypeOK, Writing, WriterPCs, storeVars, writerVars,
      executorVars
<1>1. ASSUME NEW w \in Writers, NEW d \in Docs, NEW r \in Revisions, BeginWrite(w, d, r)
      PROVE  Typed'
  BY <1>1 DEF BeginWrite, Goto
<1>2. ASSUME NEW w \in Writers, CheckFence(w) PROVE Typed'
  BY <1>2 DEF CheckFence, EndWrite, Release, Goto
<1>3. ASSUME NEW w \in Writers, BulkIndex(w) PROVE Typed'
  <2>1. doc[w] \in Docs /\ rev[w] \in Revisions
    BY <1>3 DEF BulkIndex
  <2>2. PICK written \in Copies : written = Overwrite(os[doc[w]], Contents(rev[w]))
    BY <2>1, ContentsAreCopies, OverwriteKeepsIds
  <2>3. os' = [os EXCEPT ![doc[w]] = written]
    BY <1>3, <2>2 DEF BulkIndex
  <2> QED
    BY <1>3, <2>1, <2>3 DEF BulkIndex, Goto
<1>4. ASSUME NEW w \in Writers, ReconcileRevisions(w) PROVE Typed'
  <2>1. os' \in [Docs -> Copies]
    BY <1>4 DEF ReconcileRevisions, Copies
  <2> QED
    BY <1>4, <2>1 DEF ReconcileRevisions, Goto
<1>5. ASSUME NEW w \in Writers, CommitPgvector(w) PROVE Typed'
  <2>1. doc[w] \in Docs /\ Contents(rev[w]) \in Copies
    BY <1>5, ContentsAreCopies DEF CommitPgvector
  <2> QED
    BY <1>5, <2>1 DEF CommitPgvector, EndWrite, Release, Goto
<1>20. ASSUME NEW w \in Writers, UpsertPgvector(w) PROVE Typed'
  <2>1. doc[w] \in Docs
    BY <1>20 DEF UpsertPgvector
  <2> QED
    BY <1>20, <2>1 DEF UpsertPgvector, EndWrite, Release, Goto
<1>6. ASSUME NEW w \in Writers, WriteInterrupted(w) PROVE Typed'
  <2>1. doc[w] \in Docs /\ rev[w] \in Revisions
    BY <1>6 DEF WriteInterrupted
  <2>0. PICK written \in Copies : written = Contents(rev[w])
    BY <2>1, ContentsAreCopies
  <2>2. /\ os' \in [Docs -> Copies] /\ pg' \in [Docs -> Copies]
        /\ updatedAt' \in [Docs -> Nat] /\ late' \subseteq Docs \X (Chunks \X Revisions)
    <3>1. CASE wpc[w] = "bulk"
      <4>1. PICK done \in SUBSET written :
              /\ os' = [os EXCEPT ![doc[w]] = Overwrite(@, done)]
              /\ \/ UNCHANGED late
                 \/ late' = late \cup ({doc[w]} \X (written \ done))
        <5>1. \E done \in SUBSET Contents(rev[w]) :
                /\ os' = [os EXCEPT ![doc[w]] = Overwrite(@, done)]
                /\ \/ UNCHANGED late
                   \/ LateBulks /\ late' = late \cup ({doc[w]} \X (Contents(rev[w]) \ done))
          BY <1>6, <3>1 DEF WriteInterrupted
        <5> QED
          BY <2>0, <5>1
      <4>2. PICK copy \in Copies : copy = Overwrite(os[doc[w]], done)
        <5>1. done \in Copies
          BY <2>0 DEF Copies
        <5>2. os[doc[w]] \in Copies
          BY <2>1
        <5> QED
          BY <5>1, <5>2, OverwriteKeepsIds
      <4>3. os' = [os EXCEPT ![doc[w]] = copy]
        BY <4>1, <4>2
      <4>4. late' \subseteq Docs \X (Chunks \X Revisions)
        BY <2>0, <2>1, <4>1 DEF Copies
      <4> QED
        BY <1>6, <2>1, <3>1, <4>3, <4>4 DEF WriteInterrupted
    <3>2. CASE wpc[w] = "reconcile"
      <4>1. PICK gone : os' = [os EXCEPT ![doc[w]] = @ \ gone]
        BY <1>6, <3>2 DEF WriteInterrupted
      <4>2. os' \in [Docs -> Copies]
        BY <4>1 DEF Copies
      <4> QED
        BY <1>6, <3>2, <4>2 DEF WriteInterrupted
    <3>3. CASE wpc[w] = "commit"
      BY <1>6, <2>0, <2>1, <3>3 DEF WriteInterrupted
    <3>4. CASE wpc[w] \in {"fence", "pgvector"}
      BY <1>6, <2>1, <3>4 DEF WriteInterrupted
    <3> QED
      BY <1>6, <3>1, <3>2, <3>3, <3>4 DEF WriteInterrupted
  <2> QED
    BY <1>6, <2>1, <2>2 DEF WriteInterrupted, SpendFault, EndWrite, Release, Goto
<1>7. ASSUME NEW w \in Writers, LoseSession(w) PROVE Typed'
  BY <1>7 DEF LoseSession, SpendFault, Release
<1>8. CASE ApplyLateBulk
  <2>1. PICK b \in late : /\ os' = [os EXCEPT ![b[1]] = Overwrite(@, {b[2]})]
                          /\ late' = late \ {b}
    BY <1>8 DEF ApplyLateBulk
  <2>2. b[1] \in Docs /\ {b[2]} \in Copies
    BY DEF Copies
  <2>3. PICK copy \in Copies : copy = Overwrite(os[b[1]], {b[2]})
    BY <2>2, OverwriteKeepsIds
  <2>4. os' = [os EXCEPT ![b[1]] = copy]
    BY <2>1, <2>3
  <2> QED
    BY <1>8, <2>1, <2>2, <2>4 DEF ApplyLateBulk
<1>9. ASSUME NEW e \in Executors, NEW s \in Scopes, NEW days \in RetentionDays,
             BeginOperation(e, s, days)
      PROVE  Typed'
  <2> DEFINE row == [status |-> "processing", token |-> journal[s].token + 1, live |-> TRUE,
                     executedAt |-> IF Open(s) THEN journal[s].executedAt ELSE now,
                     cutoff |-> IF Open(s) THEN journal[s].cutoff ELSE Cutoff(s, now, days)]
             begun == [scope |-> s, token |-> row.token, cutoff |-> row.cutoff,
                       pgCutoff |-> Cutoff(s, row.executedAt, days),
                       want |-> {}, doomed |-> {}]
  <2>1. row \in Rows
    BY CutoffIsInt DEF Rows, JournalStatuses
  <2>2. begun \in Operations
    BY <2>1, CutoffIsInt DEF Operations, Rows
  <2>3. journal' = [journal EXCEPT ![s] = row] /\ op' = [op EXCEPT ![e] = begun]
    BY <1>9 DEF BeginOperation
  <2>4. operations' \in [Scopes -> Nat]
    BY <1>9 DEF BeginOperation
  <2> HIDE DEF row, begun
  <2>5. journal' \in [Scopes -> Rows] /\ op' \in [Executors -> Operations]
    BY <2>1, <2>2, <2>3
  <2>6. epc' \in [Executors -> ExecutorPCs]
    BY <1>9 DEF BeginOperation, EGoto, ExecutorPCs
  <2>7. UNCHANGED <<storeVars, tombstones, lock, writerVars, successes, now, suspect, faults>>
    BY <1>9 DEF BeginOperation
  <2> QED
    BY <2>4, <2>5, <2>6, <2>7
<1>10. ASSUME NEW s \in Scopes, LeaseExpires(s) PROVE Typed'
  <2> DEFINE expired == [journal[s] EXCEPT !.live = FALSE]
  <2>1. expired \in Rows
    <3>1. journal[s] \in Rows
      OBVIOUS
    <3> QED
      BY <3>1 DEF Rows
  <2>2. journal' = [journal EXCEPT ![s] = expired]
    BY <1>10 DEF LeaseExpires
  <2> HIDE DEF expired
  <2>3. journal' \in [Scopes -> Rows]
    BY <2>1, <2>2
  <2> QED
    BY <1>10, <2>3 DEF LeaseExpires
<1>11. ASSUME NEW e \in Executors, ReadTargets(e) PROVE Typed'
  <2>1. {TenantOf[d] : d \in Expired(op[e].cutoff)} \in SUBSET Tenants
    BY DEF Expired
  <2>2. op[e].scope # Everyone => {op[e].scope} \in SUBSET Tenants
    BY DEF Operations, Scopes
  <2> DEFINE wanted == IF op[e].scope = Everyone
                         THEN {TenantOf[d] : d \in Expired(op[e].cutoff)} ELSE {op[e].scope}
             read == [op[e] EXCEPT !.want = wanted]
  <2>3. wanted \in SUBSET Tenants
    BY <2>1, <2>2
  <2>4. op' = [op EXCEPT ![e] = read]
    BY <1>11 DEF ReadTargets
  <2> HIDE DEF wanted
  <2>5. read \in Operations
    <3>1. op[e] \in Operations
      OBVIOUS
    <3> QED
      BY <2>3, <3>1 DEF Operations
  <2> HIDE DEF read
  <2>6. op' \in [Executors -> Operations]
    BY <2>4, <2>5
  <2> QED
    BY <1>11, <2>6 DEF ReadTargets, EGoto, ExecutorPCs
<1>12. ASSUME NEW e \in Executors, TakeLock(e) PROVE Typed'
  <2>1. Missing(e) \in SUBSET Tenants
    BY DEF Missing, Operations
  <2> QED
    BY <1>12, <2>1 DEF TakeLock
<1>13. ASSUME NEW e \in Executors, Enumerate(e) PROVE Typed'
  <2>1. PICK listed \in SUBSET (Docs \X Chunks) : listed = Listed(e)
    BY DEF Listed, ExpiredIds, Expired, DocsOf
  <2>2. op' = [op EXCEPT ![e] = [op[e] EXCEPT !.doomed = listed]]
    BY <1>13, <2>1 DEF Enumerate
  <2>3. PICK enumerated \in Operations : enumerated = [op[e] EXCEPT !.doomed = listed]
    <3>1. op[e] \in Operations
      OBVIOUS
    <3> QED
      BY <2>1, <3>1 DEF Operations
  <2>4. op' \in [Executors -> Operations]
    BY <2>2, <2>3
  <2> QED
    BY <1>13, <2>4 DEF Enumerate, EGoto, ExecutorPCs
<1>14. ASSUME NEW e \in Executors, DeleteExternal(e) PROVE Typed'
  <2>1. os' \in [Docs -> Copies]
    BY <1>14 DEF DeleteExternal, Copies
  <2> QED
    BY <1>14, <2>1 DEF DeleteExternal, EGoto, ExecutorPCs
<1>15. ASSUME NEW e \in Executors, Verify(e) PROVE Typed'
  <2>1. Victims(e) \in SUBSET Docs
    BY VictimsAreDocs
  <2>2. CASE Abandon(e) /\ suspect' = suspect \cup (Victims(e) \X {"erase"})
    BY <1>15, <2>1, <2>2, AbandonTyped DEF Verify
  <2>3. CASE EGoto(e, "commit") /\ UNCHANGED <<journal, op, lock, suspect>>
    BY <1>15, <2>3 DEF Verify, EGoto, ExecutorPCs
  <2> QED
    BY <1>15, <2>2, <2>3 DEF Verify
<1>16. ASSUME NEW e \in Executors, Commit(e) PROVE Typed'
  <2>1. Victims(e) \in SUBSET Docs /\ op[e].scope \in Scopes
    BY VictimsAreDocs DEF Operations
  <2>2. CASE HoldsLease(e)
    <3>1. journal' \in [Scopes -> Rows]
      BY <1>16, <2>1, <2>2 DEF Commit, Rows, JournalStatuses
    <3>2. NoOperation \in Operations
      BY DEF NoOperation, Operations, Scopes
    <3>3. /\ pg' = [d \in Docs |-> IF d \in Swept(e) THEN {} ELSE pg[d]]
          /\ successes' = [successes EXCEPT ![op[e].scope] = @ + 1]
      BY <1>16, <2>2 DEF Commit
    <3>5. pg' \in [Docs -> Copies]
      BY <3>3 DEF Copies
    <3>6. successes' \in [Scopes -> Nat]
      BY <2>1, <3>3
    <3>4. tombstones' \subseteq Tenants /\ suspect' \subseteq Docs \X {"write", "erase"}
      BY <1>16, <2>1, <2>2 DEF Commit
    <3> QED
      BY <1>16, <2>2, <3>1, <3>2, <3>4, <3>5, <3>6
      DEF Commit, EndOperation, EGoto, Release, ExecutorPCs
  <2>3. CASE ~HoldsLease(e)
    BY <1>16, <2>1, <2>3, AbandonTyped DEF Commit
  <2> QED
    BY <2>2, <2>3
<1>17. ASSUME NEW e \in Executors, OperationInterrupted(e) PROVE Typed'
  <2>1. Victims(e) \in SUBSET Docs
    BY VictimsAreDocs
  <2>2. os' \in [Docs -> Copies]
    BY <1>17, InterruptedTakesAway
  <2> QED
    BY <1>17, <2>1, <2>2, AbandonTyped DEF OperationInterrupted, SpendFault
<1>18. CASE Tick
  BY <1>18 DEF Tick
<1>19. CASE UNCHANGED vars
  BY <1>19 DEF vars
<1> QED
  BY <1>1, <1>2, <1>3, <1>4, <1>5, <1>6, <1>7, <1>8, <1>9, <1>10, <1>11, <1>12, <1>13,
     <1>14, <1>15, <1>16, <1>17, <1>18, <1>19, <1>20 DEF Next

(* Initially everything is well typed.                                        *)
LEMMA TypedInit == Init => Typed
<1> SUFFICES ASSUME Init PROVE Typed
  OBVIOUS
<1>1. {} \in Copies /\ NoOperation \in Operations
  BY DEF Copies, NoOperation, Operations, Scopes
<1>2. [status |-> "none", token |-> 0, live |-> FALSE, executedAt |-> 0, cutoff |-> 0] \in Rows
  BY DEF Rows, JournalStatuses
<1> QED
  BY <1>1, <1>2, ErasureAssumption
  DEF Init, Typed, TypeOK, Writing, WriterPCs, ExecutorPCs

(* Stores, locks, journal and processes stay within their types.              *)
THEOREM ErasureTypeCorrect == Spec => []TypeOK
<1>1. Typed => TypeOK
  BY DEF Typed
<1> QED
  BY <1>1, TypedInit, TypedStep, PTL DEF Spec

-----------------------------------------------------------------------------
(* The journal, under any failure                                           *)

(* The journal row of a scope moves between pending and processing while its  *)
(* operation is incomplete, a new operation is inserted only when it is not,  *)
(* and the commit that completes it is the one that counts its success.       *)
LEMMA SuccessStep ==
  ASSUME Typed, OneSuccessPerOperation, [Next]_vars
  PROVE  OneSuccessPerOperation'
<1> USE DEF Typed, TypeOK, OneSuccessPerOperation, executorVars
<1>1. ASSUME NEW e \in Executors, Abandon(e), UNCHANGED <<operations, successes>>
      PROVE  OneSuccessPerOperation'
  <2>1. op[e].scope \in Scopes /\ \A s \in Scopes : journal[s] \in Rows
    BY DEF Operations
  <2>2. ASSUME NEW s \in Scopes PROVE Open(s)' = Open(s)
    <3> DEFINE scope == op[e].scope
               released == [journal[scope] EXCEPT !.status = "pending", !.live = FALSE]
    <3>1. CASE journal' = journal
      BY <3>1 DEF Open
    <3>2. CASE /\ journal[scope].status = "processing"
               /\ journal' = [journal EXCEPT ![scope] = released]
      <4>1. released.status = "pending"
        BY <2>1 DEF Rows
      <4> HIDE DEF released
      <4>2. s = scope => journal'[s].status = "pending"
        BY <2>1, <3>2, <4>1
      <4>3. s # scope => journal'[s] = journal[s]
        BY <3>2
      <4> QED
        BY <3>2, <4>2, <4>3 DEF Open
    <3>3. journal' = [journal EXCEPT ![scope] = journal[scope]] => journal' = journal
      BY <2>1
    <3> QED
      BY <1>1, <3>1, <3>2, <3>3 DEF Abandon
  <2> QED
    BY <1>1, <2>2
<1>2. ASSUME NEW e \in Executors, NEW s \in Scopes, NEW days \in RetentionDays,
             BeginOperation(e, s, days)
      PROVE  OneSuccessPerOperation'
  <2>1. journal'[s].status = "processing"
    BY <1>2 DEF BeginOperation
  <2>2. operations'[s] = operations[s] + (IF Open(s) THEN 0 ELSE 1)
    BY <1>2 DEF BeginOperation
  <2>3. \A t \in Scopes \ {s} : journal'[t] = journal[t] /\ operations'[t] = operations[t]
    BY <1>2 DEF BeginOperation
  <2>4. successes' = successes
    BY <1>2 DEF BeginOperation
  <2>5. operations'[s] = successes'[s] + 1
    BY <2>2, <2>4
  <2> QED
    BY <2>1, <2>3, <2>4, <2>5 DEF Open
<1>3. ASSUME NEW s \in Scopes, LeaseExpires(s) PROVE OneSuccessPerOperation'
  <2>1. \A t \in Scopes : journal[t] \in Rows
    OBVIOUS
  <2>2. \A t \in Scopes : Open(t)' = Open(t)
    BY <1>3, <2>1 DEF LeaseExpires, Open, Rows
  <2> QED
    BY <1>3, <2>2 DEF LeaseExpires
<1>4. ASSUME NEW e \in Executors, Commit(e) PROVE OneSuccessPerOperation'
  <2>1. CASE HoldsLease(e)
    <3>0. op[e].scope \in Scopes
      BY DEF Operations
    <3> PICK s \in Scopes : s = op[e].scope
      BY <3>0
    <3>1. s \in Scopes /\ \A t \in Scopes : journal[t] \in Rows
      OBVIOUS
    <3>2. /\ journal' = [journal EXCEPT ![s].status = "completed", ![s].live = FALSE]
          /\ successes' = [successes EXCEPT ![s] = @ + 1]
          /\ UNCHANGED operations
      BY <1>4, <2>1 DEF Commit
    <3>3. Open(s) /\ ~Open(s)'
      <4>1. journal[s].status = "processing"
        BY <2>1 DEF HoldsLease
      <4>2. journal'[s].status = "completed"
        BY <3>1, <3>2 DEF Rows
      <4> QED
        BY <4>1, <4>2 DEF Open
    <3>4. successes'[s] = successes[s] + 1
      BY <3>1, <3>2
    <3>5. \A t \in Scopes \ {s} : Open(t)' = Open(t) /\ successes'[t] = successes[t]
      BY <3>1, <3>2 DEF Open
    <3>6. operations[s] = successes[s] + 1
      BY <3>1, <3>3
    <3>7. operations'[s] = successes'[s]
      BY <3>1, <3>2, <3>4, <3>6
    <3>8. \A t \in Scopes \ {s} :
            operations'[t] = successes'[t] + (IF Open(t)' THEN 1 ELSE 0)
      BY <3>2, <3>5
    <3>9. operations'[s] = successes'[s] + (IF Open(s)' THEN 1 ELSE 0)
      BY <3>1, <3>3, <3>4, <3>7
    <3> QED
      BY <3>8, <3>9
  <2>2. CASE ~HoldsLease(e)
    BY <1>1, <1>4, <2>2 DEF Commit
  <2> QED
    BY <2>1, <2>2
<1>5. ASSUME NEW e \in Executors, Verify(e) PROVE OneSuccessPerOperation'
  <2>1. CASE Abandon(e)
    BY <1>1, <1>5, <2>1 DEF Verify
  <2>2. CASE UNCHANGED journal
    BY <1>5, <2>2 DEF Verify, Open
  <2> QED
    BY <1>5, <2>1, <2>2 DEF Verify
<1>6. ASSUME NEW e \in Executors, OperationInterrupted(e) PROVE OneSuccessPerOperation'
  BY <1>1, <1>6 DEF OperationInterrupted
<1>7. ASSUME UNCHANGED <<journal, operations, successes>> PROVE OneSuccessPerOperation'
  BY <1>7 DEF Open
<1> QED
  BY <1>2, <1>3, <1>4, <1>5, <1>6, <1>7
  DEF Next, BeginWrite, CheckFence, BulkIndex, ReconcileRevisions, UpsertPgvector,
      CommitPgvector, WriteInterrupted, ApplyLateBulk, LoseSession, ReadTargets, TakeLock, Enumerate,
      DeleteExternal, Tick, vars

(* Every operation that was ever journaled has committed its success audit    *)
(* exactly once, or is the incomplete one of its scope: leases that expire    *)
(* and executors that replay an operation never count it twice.               *)
THEOREM SuccessIsAuditedOnce == Spec => []OneSuccessPerOperation
<1>1. Init => OneSuccessPerOperation
  BY DEF Init, OneSuccessPerOperation, Open
<1> QED
  BY <1>1, TypedInit, TypedStep, SuccessStep, PTL DEF Spec

-----------------------------------------------------------------------------
(* A deletion holds the lock of its tenant                                  *)

\* a deletion wants the lock of its tenant, then holds it, over all its documents
DeletionsHold ==
  \A e \in Executors : op[e].scope \in Tenants =>
    /\ epc[e] = "locks" => op[e].want = {op[e].scope}
    /\ epc[e] \in {"delete", "verify", "commit"} =>
         lock[op[e].scope] = e /\ op[e].doomed = DocsOf(op[e].scope) \X Chunks

(* No writer takes or frees a lock that an executor holds, and an executor     *)
(* goes on only with the lock it wants.                                        *)
LEMMA DeletionsHoldStep ==
  ASSUME Typed, DeletionsHold, [Next]_vars
  PROVE  DeletionsHold'
<1> USE ErasureAssumption DEF Typed, TypeOK, Writing
<1>1. ASSUME UNCHANGED <<epc, op>>,
             \A t \in Tenants, f \in Executors : lock[t] = f => lock'[t] = f
      PROVE  DeletionsHold'
  BY <1>1 DEF DeletionsHold, DocsOf
<1>2. ASSUME NEW e \in Executors, op'[e].scope \notin Tenants,
             \A f \in Executors \ {e} : op'[f] = op[f] /\ epc'[f] = epc[f],
             \A t \in Tenants, f \in Executors \ {e} : lock[t] = f => lock'[t] = f
      PROVE  DeletionsHold'
  <2>1. ASSUME NEW f \in Executors, op'[f].scope \in Tenants
        PROVE  /\ epc'[f] = "locks" => op'[f].want = {op'[f].scope}
               /\ epc'[f] \in {"delete", "verify", "commit"} =>
                    lock'[op'[f].scope] = f /\ op'[f].doomed = DocsOf(op'[f].scope) \X Chunks
    <3>1. f # e /\ op'[f] = op[f] /\ epc'[f] = epc[f]
      BY <1>2, <2>1
    <3>2. /\ epc[f] = "locks" => op[f].want = {op[f].scope}
          /\ epc[f] \in {"delete", "verify", "commit"} =>
               lock[op[f].scope] = f /\ op[f].doomed = DocsOf(op[f].scope) \X Chunks
      BY <2>1, <3>1 DEF DeletionsHold
    <3>3. lock[op[f].scope] = f => lock'[op[f].scope] = f
      BY <1>2, <2>1, <3>1
    <3> QED
      BY <3>1, <3>2, <3>3
  <2> QED
    BY <2>1 DEF DeletionsHold, DocsOf
<1>3. ASSUME NEW e \in Executors, EndOperation(e) PROVE DeletionsHold'
  <2>1. op'[e].scope \notin Tenants
    BY <1>3 DEF EndOperation, NoOperation
  <2>2. \A f \in Executors \ {e} : op'[f] = op[f] /\ epc'[f] = epc[f]
    BY <1>3 DEF EndOperation, EGoto
  <2>3. \A t \in Tenants, f \in Executors \ {e} : lock[t] = f => lock'[t] = f
    BY <1>3 DEF EndOperation, Release
  <2> QED
    BY <1>2, <2>1, <2>2, <2>3
<1>4. ASSUME NEW e \in Executors, op'[e].scope = op[e].scope, lock' = lock,
             \A f \in Executors \ {e} : op'[f] = op[f] /\ epc'[f] = epc[f],
             op[e].scope \in Tenants =>
               /\ epc'[e] = "locks" => op'[e].want = {op[e].scope}
               /\ epc'[e] \in {"delete", "verify", "commit"} =>
                    lock[op[e].scope] = e /\ op'[e].doomed = DocsOf(op[e].scope) \X Chunks
      PROVE  DeletionsHold'
  BY <1>4 DEF DeletionsHold, DocsOf
<1>5. ASSUME NEW w \in Writers, Release(w), UNCHANGED <<epc, op>> PROVE DeletionsHold'
  BY <1>1, <1>5 DEF Release
<1>6. ASSUME NEW w \in Writers, NEW d \in Docs, NEW r \in Revisions, BeginWrite(w, d, r)
      PROVE  DeletionsHold'
  BY <1>1, <1>6 DEF BeginWrite, executorVars
<1>7. ASSUME NEW w \in Writers,
             \/ CheckFence(w) \/ BulkIndex(w) \/ ReconcileRevisions(w) \/ UpsertPgvector(w)
             \/ CommitPgvector(w) \/ WriteInterrupted(w) \/ LoseSession(w)
      PROVE  DeletionsHold'
  BY <1>1, <1>5, <1>7
  DEF CheckFence, BulkIndex, ReconcileRevisions, UpsertPgvector, CommitPgvector,
      WriteInterrupted, LoseSession, EndWrite, executorVars
<1>8. ASSUME NEW e \in Executors, NEW s \in Scopes, NEW days \in RetentionDays,
             BeginOperation(e, s, days)
      PROVE  DeletionsHold'
  <2>1. \A f \in Executors \ {e} : op'[f] = op[f] /\ epc'[f] = epc[f]
    BY <1>8 DEF BeginOperation, EGoto
  <2>2. epc'[e] = "targets" /\ lock' = lock
    BY <1>8 DEF BeginOperation, EGoto
  <2> QED
    BY <2>1, <2>2 DEF DeletionsHold, DocsOf
<1>9. ASSUME NEW e \in Executors, ReadTargets(e) PROVE DeletionsHold'
  <2>1. \A f \in Executors \ {e} : op'[f] = op[f] /\ epc'[f] = epc[f]
    BY <1>9 DEF ReadTargets, EGoto
  <2>2. epc'[e] = "locks" /\ op'[e].scope = op[e].scope /\ lock' = lock
    BY <1>9 DEF ReadTargets, EGoto, Operations
  <2>3. op[e].scope \in Tenants => op'[e].want = {op[e].scope}
    BY <1>9 DEF ReadTargets, Operations
  <2> QED
    BY <1>4, <2>1, <2>2, <2>3
<1>10. ASSUME NEW e \in Executors, TakeLock(e) PROVE DeletionsHold'
  <2>1. Missing(e) \subseteq Tenants
    BY DEF Missing, Operations
  <2>2. PICK t \in Tenants : lock[t] = None /\ lock' = [lock EXCEPT ![t] = e]
    BY <1>10, <2>1 DEF TakeLock
  <2> QED
    BY <1>1, <1>10, <2>2 DEF TakeLock, executorVars
<1>11. ASSUME NEW e \in Executors, Enumerate(e) PROVE DeletionsHold'
  <2>1. \A f \in Executors \ {e} : op'[f] = op[f] /\ epc'[f] = epc[f]
    BY <1>11 DEF Enumerate, EGoto
  <2>2. epc'[e] = "delete" /\ op'[e].scope = op[e].scope /\ lock' = lock
    BY <1>11 DEF Enumerate, EGoto, Operations
  <2>3. op[e].scope \in Tenants => lock[op[e].scope] = e
    BY <1>11 DEF Enumerate, Missing, DeletionsHold
  <2>4. op[e].scope \in Tenants => op'[e].doomed = DocsOf(op[e].scope) \X Chunks
    BY <1>11 DEF Enumerate, Operations, Listed
  <2> QED
    BY <1>4, <2>1, <2>2, <2>3, <2>4
<1>12. ASSUME NEW e \in Executors, epc[e] \in {"delete", "verify"},
              EGoto(e, "verify") \/ EGoto(e, "commit"), UNCHANGED <<lock, op>>
       PROVE  DeletionsHold'
  BY <1>12 DEF EGoto, DeletionsHold, DocsOf
<1>13. ASSUME NEW e \in Executors, DeleteExternal(e) PROVE DeletionsHold'
  BY <1>12, <1>13 DEF DeleteExternal
<1>14. ASSUME NEW e \in Executors, Verify(e) PROVE DeletionsHold'
  BY <1>3, <1>12, <1>14 DEF Verify, Abandon
<1>15. ASSUME NEW e \in Executors, Commit(e) \/ OperationInterrupted(e) PROVE DeletionsHold'
  BY <1>3, <1>15 DEF Commit, OperationInterrupted, Abandon
<1>16. ASSUME UNCHANGED <<lock, epc, op>> PROVE DeletionsHold'
  BY <1>1, <1>16
<1> QED
  BY <1>6, <1>7, <1>8, <1>9, <1>10, <1>11, <1>13, <1>14, <1>15, <1>16
  DEF Next, LeaseExpires, ApplyLateBulk, Tick, vars, writerVars, executorVars

\* a writer past the fence that still holds its lock writes for a tenant that is
\* not erased
Guarded ==
  \A w \in Writers :
    wpc[w] \in {"bulk", "reconcile", "pgvector", "commit"} /\ lock[TenantOf[doc[w]]] = w
      => TenantOf[doc[w]] \notin tombstones

(* A step that leaves a writer and the tombstones alone, and gives the writer    *)
(* no lock, keeps it guarded.                                                   *)
LEMMA StaysGuarded ==
  ASSUME Typed, Guarded, NEW w \in Writers, UNCHANGED tombstones,
         wpc'[w] = wpc[w], doc'[w] = doc[w], \A t \in Tenants : lock'[t] = w => lock[t] = w,
         wpc'[w] \in {"bulk", "reconcile", "pgvector", "commit"}, lock'[TenantOf[doc'[w]]] = w
  PROVE  TenantOf[doc'[w]] \notin tombstones'
<1>1. TenantOf[doc[w]] \in Tenants
  BY ErasureAssumption DEF Typed, Writing
<1> QED
  BY <1>1 DEF Guarded

(* A deletion needs the lock to add a tombstone, so it cannot do so behind the  *)
(* back of a writer that holds it.                                              *)
LEMMA GuardedStep ==
  ASSUME Typed, DeletionsHold, Guarded, [Next]_vars
  PROVE  Guarded'
<1> USE ErasureAssumption DEF Typed, TypeOK, Writing
<1>1. ASSUME UNCHANGED <<tombstones, wpc, doc>>,
             \A t \in Tenants, w \in Writers : lock'[t] = w => lock[t] = w
      PROVE  Guarded'
  BY <1>1, StaysGuarded DEF Guarded
<1>2. ASSUME NEW w \in Writers, EndWrite(w), UNCHANGED tombstones PROVE Guarded'
  <2>1. wpc'[w] = "idle"
    BY <1>2 DEF EndWrite, Goto
  <2>2. ASSUME NEW v \in Writers \ {w}
        PROVE  /\ wpc'[v] = wpc[v] /\ doc'[v] = doc[v]
               /\ \A t \in Tenants : lock'[t] = v => lock[t] = v
    BY <1>2 DEF EndWrite, Goto, Release
  <2>3. ASSUME NEW v \in Writers, lock'[TenantOf[doc'[v]]] = v,
               wpc'[v] \in {"bulk", "reconcile", "pgvector", "commit"}
        PROVE  TenantOf[doc'[v]] \notin tombstones'
    BY <1>2, <2>1, <2>2, <2>3, StaysGuarded
  <2> QED
    BY <2>3 DEF Guarded
<1>3. ASSUME NEW w \in Writers, UNCHANGED <<tombstones, lock, doc>>,
             NEW label \in WriterPCs, Goto(w, label),
             label \in {"bulk", "reconcile", "pgvector", "commit"} =>
               \/ wpc[w] \in {"bulk", "reconcile", "pgvector", "commit"}
               \/ TenantOf[doc[w]] \notin tombstones
      PROVE  Guarded'
  BY <1>3 DEF Guarded, Goto, WriterPCs
<1>4. ASSUME NEW w \in Writers, NEW d \in Docs, NEW r \in Revisions, BeginWrite(w, d, r)
      PROVE  Guarded'
  <2>1. wpc'[w] = "fence" /\ tombstones' = tombstones
    BY <1>4 DEF BeginWrite, Goto
  <2>2. ASSUME NEW v \in Writers \ {w}
        PROVE  /\ wpc'[v] = wpc[v] /\ doc'[v] = doc[v]
               /\ \A t \in Tenants : lock'[t] = v => lock[t] = v
    BY <1>4 DEF BeginWrite, Goto
  <2>3. ASSUME NEW v \in Writers, lock'[TenantOf[doc'[v]]] = v,
               wpc'[v] \in {"bulk", "reconcile", "pgvector", "commit"}
        PROVE  TenantOf[doc'[v]] \notin tombstones'
    BY <2>1, <2>2, <2>3, StaysGuarded
  <2> QED
    BY <2>3 DEF Guarded
<1>5. ASSUME NEW w \in Writers, CheckFence(w) PROVE Guarded'
  BY <1>2, <1>3, <1>5 DEF CheckFence, WriterPCs
<1>6. ASSUME NEW w \in Writers, BulkIndex(w) \/ ReconcileRevisions(w) PROVE Guarded'
  BY <1>3, <1>6 DEF BulkIndex, ReconcileRevisions, WriterPCs
<1>7. ASSUME NEW w \in Writers, UpsertPgvector(w) PROVE Guarded'
  BY <1>2, <1>3, <1>7 DEF UpsertPgvector, WriterPCs
<1>8. ASSUME NEW w \in Writers, CommitPgvector(w) \/ WriteInterrupted(w) PROVE Guarded'
  BY <1>2, <1>8 DEF CommitPgvector, WriteInterrupted
<1>9. ASSUME NEW w \in Writers, LoseSession(w) PROVE Guarded'
  BY <1>1, <1>9 DEF LoseSession, Release, writerVars
<1>10. ASSUME NEW e \in Executors, TakeLock(e) PROVE Guarded'
  <2>1. Missing(e) \subseteq Tenants
    BY DEF Missing, Operations
  <2>2. PICK t \in Tenants : lock' = [lock EXCEPT ![t] = e]
    BY <1>10, <2>1 DEF TakeLock
  <2>3. \A u \in Tenants, w \in Writers : lock'[u] = w => lock[u] = w
    BY <2>2
  <2> QED
    BY <1>1, <1>10, <2>3 DEF TakeLock, writerVars
<1>11. ASSUME NEW e \in Executors, EndOperation(e), UNCHANGED <<tombstones, wpc, doc>>
       PROVE  Guarded'
  BY <1>1, <1>11 DEF EndOperation, Release
<1>12. ASSUME NEW e \in Executors, Verify(e) \/ OperationInterrupted(e) PROVE Guarded'
  BY <1>1, <1>11, <1>12 DEF Verify, OperationInterrupted, Abandon, writerVars
<1>13. ASSUME NEW e \in Executors, Commit(e) PROVE Guarded'
  <2>1. CASE ~HoldsLease(e)
    BY <1>11, <1>13, <2>1 DEF Commit, Abandon, writerVars
  <2>2. CASE HoldsLease(e)
    <3>1. /\ tombstones' = tombstones \cup ({op[e].scope} \cap Tenants)
          /\ UNCHANGED writerVars /\ EndOperation(e) /\ epc[e] = "commit"
      BY <1>13, <2>2 DEF Commit
    <3>2. \A t \in Tenants, w \in Writers : lock'[t] = w => lock[t] = w
      BY <3>1 DEF EndOperation, Release
    <3>3. \A w \in Writers : lock[op[e].scope] = w => op[e].scope \notin Tenants
      BY <3>1 DEF DeletionsHold
    <3>4. ASSUME NEW v \in Writers, lock'[TenantOf[doc'[v]]] = v,
                 wpc'[v] \in {"bulk", "reconcile", "pgvector", "commit"}
          PROVE  TenantOf[doc'[v]] \notin tombstones'
      <4>1. wpc[v] = wpc'[v] /\ doc[v] = doc'[v]
        BY <3>1 DEF writerVars
      <4>2. TenantOf[doc[v]] \in Tenants
        BY <3>4, <4>1
      <4>3. lock[TenantOf[doc[v]]] = v
        BY <3>2, <3>4, <4>1, <4>2
      <4>4. TenantOf[doc[v]] \notin tombstones
        BY <3>4, <4>1, <4>3 DEF Guarded
      <4>5. TenantOf[doc[v]] # op[e].scope
        BY <3>3, <4>2, <4>3
      <4> QED
        BY <3>1, <4>1, <4>4, <4>5
    <3> QED
      BY <3>4 DEF Guarded
  <2> QED
    BY <2>1, <2>2
<1>14. ASSUME UNCHANGED <<tombstones, wpc, doc, lock>> PROVE Guarded'
  BY <1>1, <1>14
<1> QED
  BY <1>4, <1>5, <1>6, <1>7, <1>8, <1>9, <1>10, <1>12, <1>13, <1>14
  DEF Next, BeginOperation, ReadTargets, Enumerate, DeleteExternal, LeaseExpires,
      ApplyLateBulk, Tick, vars, writerVars

(* A row of an erased tenant appears in PostgreSQL only through a write that    *)
(* has lost its lock, and that write raises.                                    *)
LEMMA UnreportedStep ==
  ASSUME Typed, DeletionsHold, Guarded, NoSuccessAfterErasure, [Next]_vars
  PROVE  NoSuccessAfterErasure'
<1> USE ErasureAssumption DEF Typed, TypeOK, Writing, NoSuccessAfterErasure, storeVars
<1>1. ASSUME UNCHANGED <<tombstones, pg>>, suspect \subseteq suspect'
      PROVE  NoSuccessAfterErasure'
  BY <1>1
<1>2. ASSUME NEW w \in Writers, CommitPgvector(w) PROVE NoSuccessAfterErasure'
  <2>1. CASE lock[TenantOf[doc[w]]] = w
    <3>1. TenantOf[doc[w]] \notin tombstones
      BY <1>2, <2>1 DEF CommitPgvector, Guarded
    <3> QED
      BY <1>2, <2>1, <3>1 DEF CommitPgvector
  <2>2. CASE lock[TenantOf[doc[w]]] # w
    BY <1>2, <2>2 DEF CommitPgvector
  <2> QED
    BY <2>1, <2>2
<1>3. ASSUME NEW w \in Writers, WriteInterrupted(w) PROVE NoSuccessAfterErasure'
  <2>1. tombstones' = tombstones /\ suspect \subseteq suspect'
    BY <1>3 DEF WriteInterrupted
  <2>2. CASE wpc[w] = "commit"
    <3>1. pg' = pg \/ pg' = [pg EXCEPT ![doc[w]] = Contents(rev[w])]
      BY <1>3, <2>2 DEF WriteInterrupted
    <3>2. <<doc[w], "write">> \in suspect'
      BY <1>3, <2>2 DEF WriteInterrupted
    <3> QED
      BY <2>1, <3>1, <3>2
  <2>3. CASE wpc[w] # "commit"
    <3>1. pg' = pg
      BY <1>3, <2>3 DEF WriteInterrupted
    <3> QED
      BY <2>1, <3>1
  <2> QED
    BY <2>2, <2>3
<1>4. ASSUME NEW e \in Executors, Commit(e) PROVE NoSuccessAfterErasure'
  <2>1. CASE ~HoldsLease(e)
    BY <1>1, <1>4, <2>1 DEF Commit
  <2>2. CASE HoldsLease(e)
    <3>1. /\ tombstones' = tombstones \cup ({op[e].scope} \cap Tenants)
          /\ pg' = [d \in Docs |-> IF d \in Swept(e) THEN {} ELSE pg[d]]
          /\ suspect' = suspect \ MadeGood(e)
      BY <1>4, <2>2 DEF Commit
    <3>2. op[e].scope \in Tenants => \A d \in Docs : TenantOf[d] = op[e].scope => d \in Swept(e)
      BY DEF Swept, DocsOf
    <3>3. \A d \in Docs : <<d, "write">> \in MadeGood(e) => d \in Swept(e)
      BY DEF MadeGood, Swept, DocsOf
    <3> QED
      BY <3>1, <3>2, <3>3
  <2> QED
    BY <2>1, <2>2
<1>5. ASSUME NEW w \in Writers, UpsertPgvector(w) PROVE NoSuccessAfterErasure'
  BY <1>1, <1>5 DEF UpsertPgvector
<1>6. ASSUME NEW e \in Executors, Verify(e) \/ OperationInterrupted(e)
      PROVE  NoSuccessAfterErasure'
  BY <1>1, <1>6 DEF Verify, OperationInterrupted
<1>7. ASSUME UNCHANGED <<tombstones, pg, suspect>> PROVE NoSuccessAfterErasure'
  BY <1>1, <1>7
<1> QED
  BY <1>2, <1>3, <1>4, <1>5, <1>6, <1>7
  DEF Next, BeginWrite, CheckFence, BulkIndex, ReconcileRevisions, LoseSession,
      BeginOperation, ReadTargets, TakeLock, Enumerate, DeleteExternal, LeaseExpires,
      ApplyLateBulk, Tick, vars

(* Whatever happens to sessions, leases and OpenSearch requests, no write of an *)
(* erased tenant that left a row in PostgreSQL was reported as a success.       *)
THEOREM ErasedTenantsSeeNoSuccess == Spec => []NoSuccessAfterErasure
<1>1. Init => Typed /\ DeletionsHold /\ Guarded /\ NoSuccessAfterErasure
  BY ErasureAssumption, TypedInit
  DEF Init, DeletionsHold, NoOperation, Guarded, NoSuccessAfterErasure
<1>2. Typed /\ DeletionsHold /\ Guarded /\ NoSuccessAfterErasure /\ [Next]_vars
        => (Typed /\ DeletionsHold /\ Guarded /\ NoSuccessAfterErasure)'
  BY TypedStep, DeletionsHoldStep, GuardedStep, UnreportedStep
<1> QED
  BY <1>1, <1>2, PTL DEF Spec

-----------------------------------------------------------------------------
(* Erasure is final when sessions last and no bulk outlives its client      *)

\* a writer at work holds the lifecycle lock of its tenant
WritersHold == \A w \in Writers : wpc[w] # "idle" => lock[TenantOf[doc[w]]] = w

(* Only the loss of its session takes a lock from a writer.                   *)
LEMMA WritersHoldStep ==
  ASSUME SessionLoss = FALSE, Typed, WritersHold, [Next]_vars
  PROVE  WritersHold'
<1> USE ErasureAssumption DEF Typed, TypeOK, Writing
<1>1. ASSUME UNCHANGED <<wpc, doc>>,
             \A t \in Tenants, w \in Writers : lock[t] = w => lock'[t] = w
      PROVE  WritersHold'
  BY <1>1 DEF WritersHold
<1>2. ASSUME NEW w \in Writers, EndWrite(w) PROVE WritersHold'
  BY <1>2 DEF WritersHold, EndWrite, Goto, Release
<1>3. ASSUME NEW w \in Writers, wpc[w] # "idle", NEW label, Goto(w, label),
             UNCHANGED <<lock, doc>>
      PROVE  WritersHold'
  BY <1>3 DEF WritersHold, Goto
<1>4. ASSUME NEW w \in Writers, NEW d \in Docs, NEW r \in Revisions, BeginWrite(w, d, r)
      PROVE  WritersHold'
  BY <1>4 DEF WritersHold, BeginWrite, Goto
<1>5. ASSUME NEW w \in Writers, CheckFence(w) \/ UpsertPgvector(w) PROVE WritersHold'
  BY <1>2, <1>3, <1>5 DEF CheckFence, UpsertPgvector
<1>6. ASSUME NEW w \in Writers, BulkIndex(w) \/ ReconcileRevisions(w) PROVE WritersHold'
  BY <1>3, <1>6 DEF BulkIndex, ReconcileRevisions
<1>7. ASSUME NEW w \in Writers, CommitPgvector(w) \/ WriteInterrupted(w) PROVE WritersHold'
  BY <1>2, <1>7 DEF CommitPgvector, WriteInterrupted
<1>8. ASSUME NEW w \in Writers PROVE ~LoseSession(w)
  BY DEF LoseSession
<1>9. ASSUME NEW e \in Executors, TakeLock(e) PROVE WritersHold'
  <2>1. Missing(e) \subseteq Tenants
    BY DEF Missing, Operations
  <2>2. PICK t \in Tenants : lock[t] = None /\ lock' = [lock EXCEPT ![t] = e]
    BY <1>9, <2>1 DEF TakeLock
  <2> QED
    BY <1>1, <1>9, <2>2 DEF TakeLock, writerVars
<1>10. ASSUME NEW e \in Executors, EndOperation(e), UNCHANGED <<wpc, doc>>
       PROVE  WritersHold'
  BY <1>1, <1>10 DEF EndOperation, Release
<1>11. ASSUME NEW e \in Executors, Verify(e) \/ Commit(e) \/ OperationInterrupted(e)
       PROVE  WritersHold'
  BY <1>1, <1>10, <1>11 DEF Verify, Commit, OperationInterrupted, Abandon, writerVars
<1>12. ASSUME UNCHANGED <<wpc, doc, lock>> PROVE WritersHold'
  BY <1>1, <1>12
<1> QED
  BY <1>4, <1>5, <1>6, <1>7, <1>8, <1>9, <1>11, <1>12
  DEF Next, BeginOperation, ReadTargets, Enumerate, DeleteExternal, LeaseExpires,
      ApplyLateBulk, Tick, vars, writerVars

\* a deletion that has verified finds OpenSearch empty until it commits
Verified ==
  \A e \in Executors : op[e].scope \in Tenants /\ epc[e] = "commit" =>
    \A d \in DocsOf(op[e].scope) : os[d] = {}

Erased == late = {} /\ Verified /\ NoEvidenceAfterErasure

(* No step puts evidence of an erased tenant back: whoever writes to a store   *)
(* holds the lock that a deletion needs from its enumeration to its commit.    *)
LEMMA ErasedStep ==
  ASSUME LateBulks = FALSE, SessionLoss = FALSE, Typed, DeletionsHold, Guarded, WritersHold,
         Erased, [Next]_vars
  PROVE  Erased'
<1> USE ErasureAssumption DEF Typed, TypeOK, Writing, Erased, NoEvidenceAfterErasure,
      storeVars, writerVars, executorVars
<1>1. ASSUME NEW w \in Writers, wpc[w] \in {"bulk", "reconcile", "pgvector", "commit"},
             \A d \in Docs \ {doc[w]} : os'[d] = os[d] /\ pg'[d] = pg[d],
             UNCHANGED <<tombstones, epc, op, late>>
      PROVE  Erased'
  <2>1. doc[w] \in Docs /\ TenantOf[doc[w]] \notin tombstones
    BY <1>1 DEF Guarded, WritersHold
  <2>2. \A e \in Executors : op[e].scope \in Tenants /\ epc[e] = "commit" =>
          doc[w] \notin DocsOf(op[e].scope)
    BY <1>1 DEF WritersHold, DeletionsHold, DocsOf
  <2>3. Verified'
    BY <1>1, <2>2 DEF Verified, DocsOf
  <2> QED
    BY <1>1, <2>1, <2>3
<1>2. ASSUME NEW e \in Executors, UNCHANGED <<tombstones, late, pg>>,
             \A f \in Executors \ {e} : epc'[f] = epc[f] /\ op'[f] = op[f],
             epc'[e] # "commit", \A d \in Docs : os'[d] \subseteq os[d]
      PROVE  Erased'
  <2>1. Verified'
    BY <1>2 DEF Verified, DocsOf
  <2> QED
    BY <1>2, <2>1
<1>3. ASSUME UNCHANGED <<tombstones, late, os, pg, epc, op>> PROVE Erased'
  BY <1>3 DEF Verified, DocsOf
<1>4. ASSUME NEW w \in Writers,
             BulkIndex(w) \/ ReconcileRevisions(w) \/ UpsertPgvector(w) \/ CommitPgvector(w)
      PROVE  Erased'
  <2>1. /\ wpc[w] \in {"bulk", "reconcile", "pgvector", "commit"}
        /\ UNCHANGED <<tombstones, epc, op, late>>
    BY <1>4 DEF BulkIndex, ReconcileRevisions, UpsertPgvector, CommitPgvector
  <2>2. \A d \in Docs \ {doc[w]} : os'[d] = os[d] /\ pg'[d] = pg[d]
    BY <1>4 DEF BulkIndex, ReconcileRevisions, UpsertPgvector, CommitPgvector
  <2> QED
    BY <1>1, <2>1, <2>2
<1>5. ASSUME NEW w \in Writers, WriteInterrupted(w) PROVE Erased'
  <2>1. UNCHANGED <<tombstones, epc, op>> /\ wpc[w] # "idle"
    BY <1>5 DEF WriteInterrupted
  <2>2. late' = late
    BY <1>5 DEF WriteInterrupted
  <2>3. CASE wpc[w] = "fence"
    BY <1>3, <1>5, <2>1, <2>3 DEF WriteInterrupted
  <2>4. CASE wpc[w] # "fence"
    <3>1. wpc[w] \in {"bulk", "reconcile", "pgvector", "commit"}
      BY <2>1, <2>4 DEF WriterPCs
    <3>2. \A d \in Docs \ {doc[w]} : os'[d] = os[d]
      BY <1>5 DEF WriteInterrupted
    <3>3. \A d \in Docs \ {doc[w]} : pg'[d] = pg[d]
      BY <1>5 DEF WriteInterrupted
    <3> QED
      BY <1>1, <2>1, <2>2, <3>1, <3>2, <3>3
  <2> QED
    BY <2>3, <2>4
<1>6. ASSUME NEW e \in Executors, NEW s \in Scopes, NEW days \in RetentionDays,
             BeginOperation(e, s, days)
      PROVE  Erased'
  BY <1>2, <1>6 DEF BeginOperation, EGoto
<1>7. ASSUME NEW e \in Executors, ReadTargets(e) \/ Enumerate(e) PROVE Erased'
  BY <1>2, <1>7 DEF ReadTargets, Enumerate, EGoto
<1>8. ASSUME NEW e \in Executors, DeleteExternal(e) PROVE Erased'
  BY <1>2, <1>8 DEF DeleteExternal, EGoto
<1>9. ASSUME NEW e \in Executors, OperationInterrupted(e) PROVE Erased'
  <2>1. \A d \in Docs : os'[d] \subseteq os[d]
    BY <1>9, InterruptedTakesAway
  <2> QED
    BY <1>2, <1>9, <2>1 DEF OperationInterrupted, Abandon, EndOperation, EGoto
<1>10. ASSUME NEW e \in Executors, Verify(e) PROVE Erased'
  <2>1. CASE Abandon(e)
    BY <1>2, <1>10, <2>1 DEF Verify, Abandon, EndOperation, EGoto
  <2>2. CASE EGoto(e, "commit") /\ op' = op /\ \A d \in Docs : Found(e, d) = {}
    <3>1. op[e].scope \in Tenants => \A d \in DocsOf(op[e].scope) : os[d] = {}
      <4> SUFFICES ASSUME op[e].scope \in Tenants, NEW d \in DocsOf(op[e].scope), NEW c \in os[d]
                   PROVE  FALSE
        OBVIOUS
      <4>1. d \in Docs /\ c[1] \in Chunks
        BY DEF DocsOf, Copies
      <4>2. <<d, c[1]>> \in op[e].doomed
        BY <1>10, <4>1 DEF Verify, DeletionsHold
      <4> QED
        BY <2>2, <4>1, <4>2 DEF Found
    <3>2. UNCHANGED <<os, pg, late, tombstones>>
      BY <1>10 DEF Verify
    <3>3. Verified'
      BY <2>2, <3>1, <3>2 DEF Verified, EGoto, DocsOf
    <3> QED
      BY <3>2, <3>3
  <2> QED
    BY <1>10, <2>1, <2>2 DEF Verify
<1>11. ASSUME NEW e \in Executors, Commit(e) PROVE Erased'
  <2>1. CASE ~HoldsLease(e)
    BY <1>2, <1>11, <2>1 DEF Commit, Abandon, EndOperation, EGoto
  <2>2. CASE HoldsLease(e)
    <3>1. /\ tombstones' = tombstones \cup ({op[e].scope} \cap Tenants)
          /\ pg' = [d \in Docs |-> IF d \in Swept(e) THEN {} ELSE pg[d]]
          /\ UNCHANGED <<os, late>> /\ EndOperation(e) /\ epc[e] = "commit"
      BY <1>11, <2>2 DEF Commit
    <3>2. Verified'
      <4>1. \A f \in Executors \ {e} : epc'[f] = epc[f] /\ op'[f] = op[f]
        BY <3>1 DEF EndOperation, EGoto
      <4>2. epc'[e] = "idle"
        BY <3>1 DEF EndOperation, EGoto
      <4> QED
        BY <3>1, <4>1, <4>2 DEF Verified, DocsOf
    <3>3. \A d \in Docs : TenantOf[d] \in tombstones' => os'[d] = {}
      BY <3>1 DEF Verified, DocsOf
    <3>4. op[e].scope \in Tenants => \A d \in Docs : TenantOf[d] = op[e].scope => d \in Swept(e)
      BY DEF Swept, DocsOf
    <3>5. \A d \in Docs : TenantOf[d] \in tombstones' => pg'[d] = {}
      BY <3>1, <3>4
    <3> QED
      BY <3>1, <3>2, <3>3, <3>5
  <2> QED
    BY <2>1, <2>2
<1>12. ASSUME NEW w \in Writers PROVE ~LoseSession(w)
  BY DEF LoseSession
<1>13. ~ApplyLateBulk
  BY DEF ApplyLateBulk
<1>14. ASSUME NEW w \in Writers, CheckFence(w) PROVE Erased'
  BY <1>3, <1>14 DEF CheckFence
<1> QED
  BY <1>3, <1>4, <1>5, <1>6, <1>7, <1>8, <1>9, <1>10, <1>11, <1>12, <1>13, <1>14
  DEF Next, BeginWrite, LeaseExpires, TakeLock, Tick, vars

(* A coordinated tenant deletion is final in both stores, for every number of   *)
(* writers, executors, crashes and expired leases, as long as PostgreSQL keeps  *)
(* the sessions that hold advisory locks and OpenSearch applies no bulk after   *)
(* its client has given up.                                                     *)
THEOREM ErasureIsFinalInBothStores ==
  ASSUME LateBulks = FALSE, SessionLoss = FALSE
  PROVE  Spec => []NoEvidenceAfterErasure
<1> DEFINE Invariant == Typed /\ DeletionsHold /\ Guarded /\ WritersHold /\ Erased
<1>1. Init => Invariant
  <2> SUFFICES ASSUME Init PROVE Invariant
    OBVIOUS
  <2>1. DeletionsHold /\ Verified
    BY DEF Init, DeletionsHold, NoOperation, Verified
  <2>2. Guarded /\ WritersHold /\ late = {} /\ NoEvidenceAfterErasure
    BY DEF Init, Guarded, WritersHold, NoEvidenceAfterErasure
  <2> QED
    BY <2>1, <2>2, TypedInit DEF Erased
<1>2. Invariant /\ [Next]_vars => Invariant'
  <2> SUFFICES ASSUME Invariant, [Next]_vars PROVE Invariant'
    OBVIOUS
  <2>1. Typed'
    BY TypedStep
  <2>2. DeletionsHold' /\ Guarded'
    BY DeletionsHoldStep, GuardedStep
  <2>3. WritersHold'
    BY WritersHoldStep
  <2>4. Erased'
    BY ErasedStep
  <2> QED
    BY <2>1, <2>2, <2>3, <2>4
<1>3. Invariant => NoEvidenceAfterErasure
  BY DEF Erased
<1> QED
  BY <1>1, <1>2, <1>3, PTL DEF Spec

-----------------------------------------------------------------------------
(* Retention with one policy, and what the stores agree on                  *)

\* the retention period does not change while operations are open
OnePolicy == \A a, b \in RetentionDays : a = b

\* an open operation was journaled with the cutoff of its date
JournalDated ==
  \A s \in Scopes : Open(s) =>
    /\ journal[s].executedAt <= now
    /\ \A days \in RetentionDays : journal[s].cutoff = Cutoff(s, journal[s].executedAt, days)

\* A retention run: one cutoff for both stores, which lies in the past; it wants
\* the locks of all tenants with expired rows; once it has them, its list is
\* the ids of what is expired.
RetainingFor(e) ==
  epc[e] # "idle" /\ op[e].scope = Everyone =>
    /\ op[e].pgCutoff = op[e].cutoff /\ op[e].cutoff <= now
    /\ epc[e] # "targets" => \A d \in Expired(op[e].cutoff) : TenantOf[d] \in op[e].want
    /\ epc[e] \in {"delete", "verify", "commit"} =>
         /\ op[e].doomed = ExpiredIds(op[e].cutoff)
         /\ \A t \in op[e].want : lock[t] = e

Retaining == \A e \in Executors : RetainingFor(e)

\* what an operation has verified stays away until it commits
Emptied == \A e \in Executors : epc[e] = "commit" => \A d \in Docs : Found(e, d) = {}

\* what a writer has written, and then reconciled, stays until it commits
Reconciled ==
  \A w \in Writers :
    /\ wpc[w] = "reconcile" => Contents(rev[w]) \subseteq os[doc[w]]
    /\ wpc[w] \in {"pgvector", "commit"} => os[doc[w]] = Contents(rev[w])

\* a writer with the lock has changed OpenSearch and is about to change PostgreSQL
BeingWritten(d) ==
  \E w \in Writers : /\ lock[TenantOf[d]] = w /\ doc[w] = d
                     /\ wpc[w] \in {"reconcile", "pgvector", "commit"}

\* an operation with the lock has
BeingErased(d) ==
  \E e \in Executors : /\ lock[TenantOf[d]] = e /\ d \in Victims(e)
                       /\ epc[e] \in {"verify", "commit"}

\* OpenSearch is behind only by what a retention or deletion has taken out of it
Behind(d) == os[d] \subseteq pg[d] /\ (<<d, "erase">> \in suspect \/ BeingErased(d))

Parity ==
  \A d \in Docs : os[d] # pg[d] => <<d, "write">> \in suspect \/ BeingWritten(d) \/ Behind(d)

(* Time only adds to the age of an operation, and _begin keeps its date.      *)
LEMMA JournalDatedStep ==
  ASSUME OnePolicy, Typed, JournalDated, [Next]_vars
  PROVE  JournalDated'
<1> USE ErasureAssumption DEF Typed, TypeOK, Rows, JournalDated, Open
<1>1. ASSUME now <= now',
             \A s \in Scopes : Open(s)' => /\ Open(s) /\ journal'[s].executedAt = journal[s].executedAt
                                           /\ journal'[s].cutoff = journal[s].cutoff
      PROVE  JournalDated'
  <2> SUFFICES ASSUME NEW s \in Scopes, Open(s)'
               PROVE  /\ journal'[s].executedAt <= now'
                      /\ \A days \in RetentionDays :
                           journal'[s].cutoff = Cutoff(s, journal'[s].executedAt, days)
    BY DEF Cutoff
  <2>1. journal[s].executedAt \in Nat /\ now \in Nat /\ now' \in Nat
    BY TypedStep
  <2>2. /\ journal[s].executedAt <= now
        /\ \A days \in RetentionDays : journal[s].cutoff = Cutoff(s, journal[s].executedAt, days)
        /\ journal'[s].executedAt = journal[s].executedAt /\ journal'[s].cutoff = journal[s].cutoff
    BY <1>1
  <2> HIDE DEF Typed, TypeOK, JournalDated, Open
  <2>3. journal'[s].executedAt <= now'
    BY <1>1, <2>1, <2>2
  <2> QED
    BY <2>2, <2>3
<1>2. ASSUME NEW e \in Executors, NEW s \in Scopes, NEW days \in RetentionDays,
             BeginOperation(e, s, days)
      PROVE  JournalDated'
  <2>1. now' = now /\ \A t \in Scopes \ {s} : journal'[t] = journal[t]
    BY <1>2 DEF BeginOperation
  <2>2. CASE Open(s)
    <3>1. journal'[s].executedAt = journal[s].executedAt /\ journal'[s].cutoff = journal[s].cutoff
      BY <1>2, <2>2 DEF BeginOperation
    <3> QED
      BY <1>1, <2>1, <2>2, <3>1
  <2>3. CASE ~Open(s)
    <3>1. journal'[s].executedAt = now /\ journal'[s].cutoff = Cutoff(s, now, days)
      BY <1>2, <2>3 DEF BeginOperation
    <3>2. /\ journal'[s].executedAt <= now'
          /\ \A other \in RetentionDays :
               journal'[s].cutoff = Cutoff(s, journal'[s].executedAt, other)
      BY <2>1, <3>1 DEF OnePolicy, Cutoff
    <3>3. ASSUME NEW t \in Scopes \ {s}, Open(t)'
          PROVE  /\ journal'[t].executedAt <= now'
                 /\ \A other \in RetentionDays :
                      journal'[t].cutoff = Cutoff(t, journal'[t].executedAt, other)
      <4>1. Open(t) /\ journal'[t] = journal[t] /\ now' = now
        BY <2>1, <3>3
      <4> HIDE DEF Typed, TypeOK, Open
      <4> QED
        BY <4>1
    <3> HIDE DEF Typed, TypeOK, Open
    <3> QED
      BY <3>2, <3>3 DEF Cutoff
  <2> QED
    BY <2>2, <2>3
<1>3. ASSUME NEW e \in Executors, Abandon(e), now' = now PROVE JournalDated'
  <2>1. op[e].scope \in Scopes
    BY DEF Operations
  <2>2. \A s \in Scopes :
          /\ journal'[s].executedAt = journal[s].executedAt
          /\ journal'[s].cutoff = journal[s].cutoff
          /\ journal'[s].status = journal[s].status \/ journal[s].status = "processing"
    <3> DEFINE row == journal[op[e].scope]
               released == [row EXCEPT !.status = "pending", !.live = FALSE]
    <3>1. \/ journal' = journal
          \/ journal' = [journal EXCEPT ![op[e].scope] = released] /\ row.status = "processing"
          \/ journal' = [journal EXCEPT ![op[e].scope] = row]
      BY <1>3, <2>1 DEF Abandon
    <3>2. released.executedAt = row.executedAt /\ released.cutoff = row.cutoff
      BY <2>1
    <3> QED
      BY <2>1, <3>1, <3>2
  <2> QED
    BY <1>1, <1>3, <2>2
<1>4. ASSUME NEW e \in Executors, Commit(e) PROVE JournalDated'
  <2>1. CASE HoldsLease(e)
    <3>1. PICK s : s = op[e].scope
      OBVIOUS
    <3>2. /\ journal' = [journal EXCEPT ![s].status = "completed", ![s].live = FALSE]
          /\ now' = now /\ s \in Scopes
      BY <1>4, <2>1, <3>1 DEF Commit, Operations
    <3>3. \A x \in Scopes : journal'[x].status = "completed" \/ journal'[x] = journal[x]
      BY <3>2
    <3> QED
      BY <1>1, <3>2, <3>3
  <2>2. CASE ~HoldsLease(e)
    BY <1>3, <1>4, <2>2 DEF Commit
  <2> QED
    BY <2>1, <2>2
<1>5. ASSUME NEW s \in Scopes, LeaseExpires(s) PROVE JournalDated'
  BY <1>1, <1>5 DEF LeaseExpires
<1>6. CASE Tick
  BY <1>1, <1>6 DEF Tick, executorVars
<1>7. ASSUME UNCHANGED <<journal, now>> PROVE JournalDated'
  BY <1>1, <1>7
<1>8. ASSUME NEW e \in Executors, Verify(e) \/ OperationInterrupted(e) PROVE JournalDated'
  BY <1>3, <1>7, <1>8 DEF Verify, OperationInterrupted
<1> QED
  BY <1>2, <1>4, <1>5, <1>6, <1>7, <1>8
  DEF Next, BeginWrite, CheckFence, BulkIndex, ReconcileRevisions, UpsertPgvector, CommitPgvector,
      WriteInterrupted, LoseSession, ReadTargets, TakeLock, Enumerate, DeleteExternal,
      ApplyLateBulk, vars, executorVars

(* What an operation is about to delete is locked by it, and only by it.      *)
LEMMA DoomedAreLocked ==
  ASSUME Typed, DeletionsHold, Retaining, NEW e \in Executors,
         epc[e] \in {"delete", "verify", "commit"}, NEW d \in Victims(e)
  PROVE  d \in Docs /\ lock[TenantOf[d]] = e
<1>1. op[e] \in Operations
  BY DEF Typed, TypeOK
<1>2. PICK x \in op[e].doomed : d = x[1]
  BY DEF Victims
<1>3. CASE op[e].scope \in Tenants
  BY <1>2, <1>3 DEF DeletionsHold, DocsOf
<1>4. CASE op[e].scope = Everyone
  <2>1. d \in Expired(op[e].cutoff)
    BY <1>2, <1>4 DEF Retaining, RetainingFor, ExpiredIds
  <2> QED
    BY <1>4, <2>1 DEF Retaining, RetainingFor, Expired
<1> QED
  BY <1>1, <1>3, <1>4 DEF Operations, Scopes

(* PostgreSQL loses in the final transaction the ids that OpenSearch has lost  *)
(* before, under the same locks.                                              *)
LEMMA SweptAreDoomed ==
  ASSUME Typed, DeletionsHold, Retaining, NEW e \in Executors, epc[e] = "commit"
  PROVE  /\ Victims(e) \subseteq Swept(e)
         /\ \A d \in Swept(e) : /\ d \in Docs /\ lock[TenantOf[d]] = e
                               /\ \A i \in Ids(pg[d]) : <<d, i>> \in op[e].doomed
<1>1. op[e] \in Operations
  BY DEF Typed, TypeOK
<1>2. ASSUME NEW d \in Docs, NEW i \in Ids(pg[d]) PROVE i \in Chunks
  BY <1>2 DEF Typed, TypeOK, Copies, Ids
<1>3. CASE op[e].scope \in Tenants
  <2>1. Swept(e) = DocsOf(op[e].scope) /\ op[e].doomed = DocsOf(op[e].scope) \X Chunks
    BY <1>3, ErasureAssumption DEF DeletionsHold, Swept
  <2>2. Victims(e) \subseteq Swept(e)
    BY <2>1 DEF Victims
  <2>3. \A d \in Swept(e) : d \in Docs /\ lock[TenantOf[d]] = e
    BY <1>3, <2>1 DEF DeletionsHold, DocsOf
  <2> QED
    BY <1>2, <2>1, <2>2, <2>3
<1>4. CASE op[e].scope = Everyone
  <2>1. Swept(e) = Expired(op[e].cutoff) /\ op[e].doomed = ExpiredIds(op[e].cutoff)
    BY <1>4 DEF Retaining, RetainingFor, Swept
  <2>2. Victims(e) \subseteq Swept(e)
    BY <2>1 DEF Victims, ExpiredIds
  <2>3. \A d \in Swept(e) : d \in Docs /\ lock[TenantOf[d]] = e
    BY <1>4, <2>1 DEF Retaining, RetainingFor, Expired
  <2>4. ASSUME NEW d \in Swept(e), NEW i \in Ids(pg[d]) PROVE <<d, i>> \in op[e].doomed
    BY <1>2, <2>1, <2>3 DEF ExpiredIds
  <2> QED
    BY <2>2, <2>3, <2>4
<1> QED
  BY <1>1, <1>3, <1>4 DEF Operations, Scopes

(* A row changes only under the lock of its tenant, and no row becomes old    *)
(* by being written.                                                          *)
LEMMA RowsChangeUnderLock ==
  ASSUME Typed, DeletionsHold, WritersHold, Retaining, [Next]_vars
  PROVE  /\ \A d \in Docs : \/ pg'[d] = pg[d] /\ updatedAt'[d] = updatedAt[d]
                            \/ lock[TenantOf[d]] \in Writers
                            \/ \E e \in Executors : lock[TenantOf[d]] = e /\ Commit(e)
         /\ \A c \in Int : c <= now => Expired(c)' \subseteq Expired(c)
<1> USE ErasureAssumption DEF Typed, TypeOK, Writing, Expired, storeVars
<1>1. ASSUME UNCHANGED <<pg, updatedAt>>
      PROVE  /\ \A d \in Docs : pg'[d] = pg[d] /\ updatedAt'[d] = updatedAt[d]
             /\ \A c \in Int : c <= now => Expired(c)' \subseteq Expired(c)
  BY <1>1
<1>2. ASSUME NEW w \in Writers, wpc[w] # "idle",
             pg' = [pg EXCEPT ![doc[w]] = Contents(rev[w])], updatedAt' = [updatedAt EXCEPT ![doc[w]] = now]
      PROVE  /\ \A d \in Docs : \/ pg'[d] = pg[d] /\ updatedAt'[d] = updatedAt[d]
                                \/ lock[TenantOf[d]] \in Writers
             /\ \A c \in Int : c <= now => Expired(c)' \subseteq Expired(c)
  BY <1>2 DEF WritersHold
<1>3. ASSUME NEW e \in Executors, Commit(e), HoldsLease(e)
      PROVE  /\ \A d \in Docs : \/ pg'[d] = pg[d] /\ updatedAt'[d] = updatedAt[d]
                                \/ lock[TenantOf[d]] = e
             /\ \A c \in Int : c <= now => Expired(c)' \subseteq Expired(c)
  <2>1. /\ epc[e] = "commit" /\ updatedAt' = updatedAt
        /\ pg' = [d \in Docs |-> IF d \in Swept(e) THEN {} ELSE pg[d]]
    BY <1>3 DEF Commit
  <2>2. \A d \in Swept(e) : lock[TenantOf[d]] = e
    BY <2>1, SweptAreDoomed
  <2> QED
    BY <2>1, <2>2
<1>4. ASSUME NEW w \in Writers, CommitPgvector(w)
      PROVE  wpc[w] # "idle" /\ pg' = [pg EXCEPT ![doc[w]] = Contents(rev[w])]
             /\ updatedAt' = [updatedAt EXCEPT ![doc[w]] = now]
  BY <1>4 DEF CommitPgvector
<1>5. ASSUME NEW w \in Writers, WriteInterrupted(w)
      PROVE  /\ wpc[w] # "idle"
             /\ \/ UNCHANGED <<pg, updatedAt>>
                \/ /\ pg' = [pg EXCEPT ![doc[w]] = Contents(rev[w])]
                   /\ updatedAt' = [updatedAt EXCEPT ![doc[w]] = now]
  BY <1>5 DEF WriteInterrupted
<1>6. ASSUME NEW e \in Executors, Commit(e), ~HoldsLease(e) PROVE UNCHANGED <<pg, updatedAt>>
  BY <1>6 DEF Commit
<1>7. \/ UNCHANGED <<pg, updatedAt>>
      \/ \E w \in Writers : CommitPgvector(w) \/ WriteInterrupted(w)
      \/ \E e \in Executors : Commit(e)
  BY DEF Next, BeginWrite, CheckFence, BulkIndex, ReconcileRevisions, UpsertPgvector, LoseSession,
         BeginOperation, ReadTargets, TakeLock, Enumerate, DeleteExternal, Verify,
         OperationInterrupted, LeaseExpires, ApplyLateBulk, Tick, vars
<1> QED
  <2>1. CASE UNCHANGED <<pg, updatedAt>>
    BY <1>1, <2>1
  <2>2. ASSUME NEW w \in Writers, CommitPgvector(w) \/ WriteInterrupted(w),
               ~UNCHANGED <<pg, updatedAt>>
        PROVE  /\ \A d \in Docs : \/ pg'[d] = pg[d] /\ updatedAt'[d] = updatedAt[d]
                                  \/ lock[TenantOf[d]] \in Writers
               /\ \A c \in Int : c <= now => Expired(c)' \subseteq Expired(c)
    BY <1>2, <1>4, <1>5, <2>2
  <2>3. ASSUME NEW e \in Executors, Commit(e), ~UNCHANGED <<pg, updatedAt>>
        PROVE  /\ \A d \in Docs : \/ pg'[d] = pg[d] /\ updatedAt'[d] = updatedAt[d]
                                  \/ lock[TenantOf[d]] = e /\ Commit(e)
               /\ \A c \in Int : c <= now => Expired(c)' \subseteq Expired(c)
    BY <1>3, <1>6, <2>3
  <2> QED
    BY <1>7, <2>1, <2>2, <2>3

(* A retention run to which nothing happens in a step stays as it is.         *)
LEMMA RetainingStays ==
  ASSUME Typed, Typed', Retaining, NEW e \in Executors, op'[e] = op[e], epc'[e] = epc[e], now <= now',
         \A t \in Tenants : lock[t] = e => lock'[t] = e,
         \A d \in Docs : lock[TenantOf[d]] = e => pg'[d] = pg[d] /\ updatedAt'[d] = updatedAt[d],
         \A c \in Int : c <= now => Expired(c)' \subseteq Expired(c)
  PROVE  RetainingFor(e)'
<1> SUFFICES ASSUME epc[e] # "idle", op[e].scope = Everyone
             PROVE  /\ op[e].pgCutoff = op[e].cutoff /\ op[e].cutoff <= now'
                    /\ epc[e] # "targets" =>
                         \A d \in Expired(op[e].cutoff)' : TenantOf[d] \in op[e].want
                    /\ epc[e] \in {"delete", "verify", "commit"} =>
                         /\ op[e].doomed = ExpiredIds(op[e].cutoff)'
                         /\ \A t \in op[e].want : lock'[t] = e
  BY DEF RetainingFor, Expired, ExpiredIds
<1>1. PICK c \in Int : c = op[e].cutoff /\ c = op'[e].cutoff
  BY DEF Typed, TypeOK, Operations
<1>2. /\ now \in Nat /\ now' \in Nat /\ op[e].want \subseteq Tenants
      /\ c <= now /\ op[e].pgCutoff = c
  BY <1>1 DEF Typed, TypeOK, Operations, Retaining, RetainingFor
<1>3. Expired(c)' \subseteq Expired(c)
  BY <1>2
<1>4. ASSUME epc[e] \in {"delete", "verify", "commit"} PROVE Expired(c) \subseteq Expired(c)'
  <2> SUFFICES ASSUME NEW d \in Expired(c) PROVE d \in Expired(c)'
    OBVIOUS
  <2>1. d \in Docs /\ lock[TenantOf[d]] = e
    BY <1>1, <1>4 DEF Retaining, RetainingFor, Expired
  <2>2. pg'[d] = pg[d] /\ updatedAt'[d] = updatedAt[d]
    BY <2>1
  <2> QED
    BY <2>1, <2>2 DEF Expired
<1>5. Expired(op[e].cutoff)' = Expired(c)'
  BY <1>1 DEF Expired
<1>6. Expired(op[e].cutoff) = Expired(c)
  BY <1>1
<1>7. RetainingFor(e)
  BY DEF Retaining
<1>8. ASSUME epc[e] # "targets", NEW d \in Expired(op[e].cutoff)' PROVE TenantOf[d] \in op[e].want
  BY <1>3, <1>5, <1>6, <1>7, <1>8 DEF RetainingFor
<1>9. ASSUME epc[e] \in {"delete", "verify", "commit"}
      PROVE  op[e].doomed = ExpiredIds(op[e].cutoff)' /\ \A t \in op[e].want : lock'[t] = e
  <2>1. op[e].doomed = ExpiredIds(c) /\ \A t \in op[e].want : lock[t] = e
    BY <1>1, <1>7, <1>9 DEF RetainingFor
  <2>2. Expired(c)' = Expired(c)
    BY <1>3, <1>4, <1>9
  <2>3. \A d \in Expired(c) : pg'[d] = pg[d]
    BY <1>1, <1>7, <1>9 DEF RetainingFor, Expired
  <2>4. ExpiredIds(c)' = ExpiredIds(c)
    BY <2>2, <2>3 DEF ExpiredIds
  <2>5. ExpiredIds(op[e].cutoff)' = ExpiredIds(c)'
    BY <1>1 DEF ExpiredIds, Expired
  <2>6. \A t \in op[e].want : lock'[t] = e
    BY <1>2, <2>1
  <2> QED
    BY <2>1, <2>4, <2>5, <2>6
<1> QED
  BY <1>1, <1>2, <1>8, <1>9

(* Every step of a retention run keeps what it knows, and no other step takes  *)
(* that away.                                                                 *)
LEMMA RetainingStep ==
  ASSUME Typed, DeletionsHold, WritersHold, JournalDated, Retaining, [Next]_vars
  PROVE  Retaining'
<1> SUFFICES ASSUME NEW e \in Executors PROVE RetainingFor(e)'
  BY DEF Retaining
<1> USE ErasureAssumption
<1>0. /\ Typed' /\ now \in Nat /\ now <= now' /\ op[e] \in Operations
      /\ epc \in [Executors -> ExecutorPCs] /\ op \in [Executors -> Operations]
      /\ lock \in [Tenants -> Writers \cup Executors \cup {None}]
  <2>1. now' = now \/ now' = now + 1
    <3>1. ASSUME NEW w \in Writers, NEW d \in Docs, NEW r \in Revisions, BeginWrite(w, d, r)
          PROVE  now' = now
      BY <3>1 DEF BeginWrite
    <3>2. ASSUME NEW w \in Writers,
                 \/ CheckFence(w) \/ BulkIndex(w) \/ ReconcileRevisions(w) \/ UpsertPgvector(w)
                 \/ CommitPgvector(w) \/ WriteInterrupted(w) \/ LoseSession(w)
          PROVE  now' = now
      BY <3>2 DEF CheckFence, BulkIndex, ReconcileRevisions, UpsertPgvector, CommitPgvector,
                  WriteInterrupted, LoseSession
    <3>3. ASSUME NEW f \in Executors, NEW s \in Scopes, NEW days \in RetentionDays,
                 BeginOperation(f, s, days)
          PROVE  now' = now
      BY <3>3 DEF BeginOperation
    <3>4. ASSUME NEW f \in Executors,
                 \/ ReadTargets(f) \/ TakeLock(f) \/ Enumerate(f) \/ DeleteExternal(f)
                 \/ Verify(f) \/ Commit(f) \/ OperationInterrupted(f)
          PROVE  now' = now
      BY <3>4 DEF ReadTargets, TakeLock, Enumerate, DeleteExternal, Verify, Commit,
                  OperationInterrupted
    <3>5. CASE (\E s \in Scopes : LeaseExpires(s)) \/ ApplyLateBulk \/ UNCHANGED vars
      BY <3>5 DEF LeaseExpires, ApplyLateBulk, vars
    <3> QED
      BY <3>1, <3>2, <3>3, <3>4, <3>5 DEF Next, Tick
  <2> QED
    BY <2>1, TypedStep DEF Typed, TypeOK
<1>1. ASSUME op'[e] = op[e], epc'[e] = epc[e], ~Commit(e),
             \A t \in Tenants : lock[t] = e => lock'[t] = e
      PROVE  RetainingFor(e)'
  <2>1. \A d \in Docs : lock[TenantOf[d]] = e => pg'[d] = pg[d] /\ updatedAt'[d] = updatedAt[d]
    BY <1>1, RowsChangeUnderLock
  <2> QED
    BY <1>0, <1>1, <2>1, RowsChangeUnderLock, RetainingStays
<1>2. ASSUME epc'[e] = "idle" PROVE RetainingFor(e)'
  BY <1>2 DEF RetainingFor
<1>3. ASSUME UNCHANGED <<op, epc>>, ~Commit(e), \A t \in Tenants : lock[t] = e => lock'[t] = e
      PROVE  RetainingFor(e)'
  BY <1>1, <1>3
<1>4. ASSUME NEW w \in Writers, NEW d \in Docs, NEW r \in Revisions, BeginWrite(w, d, r)
      PROVE  RetainingFor(e)'
  <2>1. UNCHANGED <<op, epc>> /\ epc' = epc /\ \A t \in Tenants : lock[t] = e => lock'[t] = e
    BY <1>0, <1>4 DEF BeginWrite, executorVars
  <2>2. ~Commit(e)
    BY <1>0, <1>4 DEF BeginWrite, writerVars, Commit, Goto, Typed, TypeOK
  <2> QED
    BY <1>3, <2>1, <2>2
<1>5. ASSUME NEW w \in Writers,
             \/ CheckFence(w) \/ BulkIndex(w) \/ ReconcileRevisions(w) \/ UpsertPgvector(w)
             \/ CommitPgvector(w) \/ WriteInterrupted(w) \/ LoseSession(w)
      PROVE  RetainingFor(e)'
  <2>1. UNCHANGED <<op, epc>>
    BY <1>5 DEF CheckFence, BulkIndex, ReconcileRevisions, UpsertPgvector, CommitPgvector,
                WriteInterrupted, LoseSession, executorVars
  <2>2. \A t \in Tenants : lock[t] = e => lock'[t] = e
    BY <1>0, <1>5 DEF CheckFence, BulkIndex, ReconcileRevisions, UpsertPgvector, CommitPgvector,
                WriteInterrupted, LoseSession, EndWrite, Release
  <2>3. ~Commit(e)
    BY <1>0, <2>1 DEF Commit, Abandon, EndOperation, EGoto, ExecutorPCs
  <2> QED
    BY <1>3, <2>1, <2>2, <2>3
<1>6. ASSUME NEW f \in Executors \ {e}, epc' = [epc EXCEPT ![f] = epc'[f]],
             op' = [op EXCEPT ![f] = op'[f]], \A t \in Tenants : lock[t] = e => lock'[t] = e
      PROVE  RetainingFor(e)'
  <2>1. op'[e] = op[e] /\ epc'[e] = epc[e]
    BY <1>0, <1>6
  <2>2. ~Commit(e)
    BY <1>0, <2>1 DEF Commit, Abandon, EndOperation, EGoto, ExecutorPCs
  <2> QED
    BY <1>1, <1>6, <2>1, <2>2
<1>7. ASSUME NEW f \in Executors \ {e}, EndOperation(f) PROVE RetainingFor(e)'
  BY <1>0, <1>6, <1>7 DEF EndOperation, EGoto, Release
<1>8. ASSUME NEW f \in Executors, NEW s \in Scopes, NEW days \in RetentionDays,
             BeginOperation(f, s, days)
      PROVE  RetainingFor(e)'
  <2>1. CASE f # e
    BY <1>0, <1>6, <1>8, <2>1 DEF BeginOperation, EGoto
  <2>2. CASE f = e
    <3> DEFINE at == IF Open(s) THEN journal[s].executedAt ELSE now
               cutoff == IF Open(s) THEN journal[s].cutoff ELSE Cutoff(s, now, days)
    <3>1. /\ epc'[e] = "targets" /\ op'[e].scope = s /\ op'[e].cutoff = cutoff
          /\ op'[e].pgCutoff = Cutoff(s, at, days) /\ now' = now
      BY <1>0, <1>8, <2>2 DEF BeginOperation, EGoto
    <3>2. at \in Nat /\ now \in Nat /\ at <= now
      BY <1>0 DEF JournalDated, Typed, TypeOK, Rows
    <3>3. cutoff = Cutoff(s, at, days)
      <4>1. CASE Open(s)
        BY <1>0, <4>1 DEF JournalDated
      <4>2. CASE ~Open(s)
        BY <4>2
      <4> QED
        BY <4>1, <4>2
    <3>4. s = Everyone => Cutoff(s, at, days) <= now
      <4>1. days \in Nat
        BY ErasureAssumption
      <4> HIDE DEF at, cutoff
      <4> QED
        BY <3>2, <4>1 DEF Cutoff
    <3> HIDE DEF at, cutoff
    <3> QED
      BY <3>1, <3>3, <3>4 DEF RetainingFor
  <2> QED
    BY <2>1, <2>2
<1>9. ASSUME NEW f \in Executors, ReadTargets(f) PROVE RetainingFor(e)'
  <2>1. CASE f # e
    BY <1>0, <1>6, <1>9, <2>1 DEF ReadTargets, EGoto
  <2>2. CASE f = e
    <3>1. /\ epc[e] = "targets" /\ epc'[e] = "locks" /\ UNCHANGED <<pg, updatedAt, now>>
          /\ op'[e].scope = op[e].scope /\ op'[e].cutoff = op[e].cutoff
          /\ op'[e].pgCutoff = op[e].pgCutoff
          /\ op[e].scope = Everyone => op'[e].want = {TenantOf[d] : d \in Expired(op[e].cutoff)}
      BY <1>0, <1>9, <2>2 DEF ReadTargets, EGoto, Operations, storeVars
    <3>2. Expired(op[e].cutoff)' = Expired(op[e].cutoff)
      BY <3>1 DEF Expired
    <3>3. RetainingFor(e)
      BY DEF Retaining
    <3> QED
      BY <3>1, <3>2, <3>3 DEF RetainingFor
  <2> QED
    BY <2>1, <2>2
<1>10. ASSUME NEW f \in Executors, TakeLock(f) PROVE RetainingFor(e)'
  <2>1. Missing(f) \subseteq Tenants
    BY <1>0 DEF Missing, Operations
  <2>2. PICK t \in Tenants : lock[t] = None /\ lock' = [lock EXCEPT ![t] = f]
    BY <1>10, <2>1 DEF TakeLock
  <2>3. UNCHANGED <<op, epc>> /\ \A u \in Tenants : lock[u] = e => lock'[u] = e
    BY <1>0, <1>10, <2>2 DEF TakeLock, executorVars
  <2>4. ~Commit(e)
    BY <1>0, <2>3 DEF Commit, Abandon, EndOperation, EGoto, ExecutorPCs
  <2> QED
    BY <1>3, <2>3, <2>4
<1>11. ASSUME NEW f \in Executors, Enumerate(f) PROVE RetainingFor(e)'
  <2>1. CASE f # e
    BY <1>0, <1>6, <1>11, <2>1 DEF Enumerate, EGoto
  <2>2. CASE f = e
    <3>1. /\ epc[e] = "locks" /\ epc'[e] = "delete" /\ UNCHANGED <<pg, updatedAt, now, lock>>
          /\ op'[e].scope = op[e].scope /\ op'[e].cutoff = op[e].cutoff
          /\ op'[e].pgCutoff = op[e].pgCutoff /\ op'[e].want = op[e].want
          /\ op[e].scope = Everyone => op'[e].doomed = ExpiredIds(op[e].cutoff)
          /\ \A t \in op[e].want : lock[t] = e
      BY <1>0, <1>11, <2>2 DEF Enumerate, Listed, EGoto, Operations, storeVars, Missing
    <3>2. /\ Expired(op[e].cutoff)' = Expired(op[e].cutoff)
          /\ ExpiredIds(op[e].cutoff)' = ExpiredIds(op[e].cutoff)
      BY <3>1 DEF Expired, ExpiredIds
    <3>3. RetainingFor(e)
      BY DEF Retaining
    <3> QED
      BY <3>1, <3>2, <3>3 DEF RetainingFor
  <2> QED
    BY <2>1, <2>2
<1>12. ASSUME NEW f \in Executors, epc[f] \in {"delete", "verify"}, NEW label, EGoto(f, label),
              label \in {"verify", "commit"}, UNCHANGED <<op, lock, pg, updatedAt, now>>
       PROVE  RetainingFor(e)'
  <2>1. CASE f # e
    BY <1>0, <1>6, <1>12, <2>1 DEF EGoto
  <2>2. CASE f = e
    <3>1. epc'[e] \in {"verify", "commit"} /\ op'[e] = op[e]
      BY <1>0, <1>12, <2>2 DEF EGoto
    <3>2. /\ Expired(op[e].cutoff)' = Expired(op[e].cutoff)
          /\ ExpiredIds(op[e].cutoff)' = ExpiredIds(op[e].cutoff)
      BY <1>12, <3>1 DEF Expired, ExpiredIds
    <3>3. RetainingFor(e)
      BY DEF Retaining
    <3> QED
      BY <1>12, <2>2, <3>1, <3>2, <3>3 DEF RetainingFor
  <2> QED
    BY <2>1, <2>2
<1>13. ASSUME NEW f \in Executors, DeleteExternal(f) PROVE RetainingFor(e)'
  BY <1>12, <1>13 DEF DeleteExternal
<1>14. ASSUME NEW f \in Executors, EndOperation(f) PROVE RetainingFor(e)'
  <2>1. CASE f = e
    BY <1>0, <1>2, <1>14, <2>1 DEF EndOperation, EGoto
  <2> QED
    BY <1>7, <1>14, <2>1
<1>15. ASSUME NEW f \in Executors, Verify(f) PROVE RetainingFor(e)'
  <2>1. CASE Abandon(f)
    BY <1>14, <2>1 DEF Abandon
  <2>2. CASE ~Abandon(f)
    BY <1>12, <1>15, <2>2 DEF Verify, storeVars
  <2> QED
    BY <2>1, <2>2
<1>16. ASSUME NEW f \in Executors, Commit(f) \/ OperationInterrupted(f) PROVE RetainingFor(e)'
  BY <1>14, <1>16 DEF Commit, OperationInterrupted, Abandon
<1>17. ASSUME UNCHANGED <<op, epc, lock>> PROVE RetainingFor(e)'
  <2>1. ~Commit(e)
    BY <1>0, <1>17 DEF Commit, Abandon, EndOperation, EGoto, ExecutorPCs
  <2> QED
    BY <1>3, <1>17, <2>1
<1> QED
  BY <1>4, <1>5, <1>8, <1>9, <1>10, <1>11, <1>13, <1>15, <1>16, <1>17
  DEF Next, LeaseExpires, ApplyLateBulk, Tick, vars, executorVars

(* OpenSearch changes only under the lock of the document's tenant: by a       *)
(* writer at its document, which takes away no id before it reconciles and     *)
(* nothing of its own then, or by an operation at what it has enumerated.      *)
LEMMA EvidenceChangesUnderLock ==
  ASSUME Typed, DeletionsHold, WritersHold, Retaining, late = {}, [Next]_vars,
         NEW d \in Docs, os'[d] # os[d]
  PROVE  \/ \E w \in Writers :
              /\ lock[TenantOf[d]] = w /\ doc[w] = d
              /\ \/ wpc[w] = "bulk" /\ Ids(os[d]) \subseteq Ids(os'[d])
                 \/ wpc[w] = "reconcile" /\ os[d] \cap Contents(rev[w]) \subseteq os'[d]
         \/ \E e \in Executors :
              /\ lock[TenantOf[d]] = e /\ epc[e] = "delete" /\ d \in Victims(e)
              /\ os'[d] \subseteq os[d] /\ os[d] \ os'[d] \subseteq Found(e, d)
<1> USE ErasureAssumption DEF Typed, TypeOK, Writing, storeVars
<1>1. ASSUME NEW w \in Writers, wpc[w] = "bulk", NEW done \in Copies,
             os' = [os EXCEPT ![doc[w]] = Overwrite(@, done)]
      PROVE  lock[TenantOf[d]] = w /\ doc[w] = d /\ Ids(os[d]) \subseteq Ids(os'[d])
  <2>1. doc[w] \in Docs /\ lock[TenantOf[doc[w]]] = w
    BY <1>1 DEF WritersHold
  <2>2. d = doc[w]
    BY <1>1, <2>1
  <2>3. os[d] \in Copies /\ os'[d] = Overwrite(os[d], done)
    BY <1>1, <2>1, <2>2
  <2> QED
    BY <2>1, <2>2, <2>3, OverwriteKeepsIds
<1>2. ASSUME NEW w \in Writers, wpc[w] = "reconcile", NEW kept,
             Contents(rev[w]) \cap os[doc[w]] \subseteq kept, os' = [os EXCEPT ![doc[w]] = kept]
      PROVE  lock[TenantOf[d]] = w /\ doc[w] = d /\ os[d] \cap Contents(rev[w]) \subseteq os'[d]
  <2>1. doc[w] \in Docs /\ lock[TenantOf[doc[w]]] = w
    BY <1>2 DEF WritersHold
  <2>2. d = doc[w]
    BY <1>2, <2>1
  <2> QED
    BY <1>2, <2>1, <2>2
<1>3. ASSUME NEW w \in Writers, BulkIndex(w) \/ ReconcileRevisions(w) \/ WriteInterrupted(w)
      PROVE  /\ lock[TenantOf[d]] = w /\ doc[w] = d
             /\ \/ wpc[w] = "bulk" /\ Ids(os[d]) \subseteq Ids(os'[d])
                \/ wpc[w] = "reconcile" /\ os[d] \cap Contents(rev[w]) \subseteq os'[d]
  <2>0. wpc[w] # "idle"
    BY <1>3 DEF BulkIndex, ReconcileRevisions, WriteInterrupted
  <2>1. rev[w] \in Revisions /\ Contents(rev[w]) \in Copies
    BY <2>0, ContentsAreCopies
  <2>2. CASE BulkIndex(w)
    BY <1>1, <2>1, <2>2 DEF BulkIndex
  <2>3. CASE ReconcileRevisions(w)
    <3>1. PICK kept : kept = os[doc[w]] \cap Contents(rev[w])
      OBVIOUS
    <3>2. os' = [os EXCEPT ![doc[w]] = kept] /\ wpc[w] = "reconcile"
      BY <2>3, <3>1 DEF ReconcileRevisions
    <3> QED
      BY <1>2, <3>1, <3>2
  <2>4. CASE WriteInterrupted(w)
    <3>1. CASE wpc[w] = "bulk"
      <4>1. PICK done \in SUBSET Contents(rev[w]) : os' = [os EXCEPT ![doc[w]] = Overwrite(@, done)]
        BY <2>4, <3>1 DEF WriteInterrupted
      <4>2. done \in Copies
        BY <2>1 DEF Copies
      <4> QED
        BY <1>1, <3>1, <4>1, <4>2
    <3>2. CASE wpc[w] = "reconcile"
      <4>1. PICK gone \in SUBSET (os[doc[w]] \ Contents(rev[w])) :
              os' = [os EXCEPT ![doc[w]] = @ \ gone]
        BY <2>4, <3>2 DEF WriteInterrupted
      <4>2. PICK kept : kept = os[doc[w]] \ gone
        OBVIOUS
      <4>3. os' = [os EXCEPT ![doc[w]] = kept] /\ Contents(rev[w]) \cap os[doc[w]] \subseteq kept
        BY <4>1, <4>2
      <4> QED
        BY <1>2, <3>2, <4>3
    <3>3. CASE wpc[w] \notin {"bulk", "reconcile"}
      BY <2>4, <3>3 DEF WriteInterrupted
    <3> QED
      BY <3>1, <3>2, <3>3
  <2> QED
    BY <1>3, <2>2, <2>3, <2>4
<1>4. ASSUME NEW e \in Executors, DeleteExternal(e) \/ OperationInterrupted(e)
      PROVE  /\ lock[TenantOf[d]] = e /\ epc[e] = "delete" /\ d \in Victims(e)
             /\ os'[d] \subseteq os[d] /\ os[d] \ os'[d] \subseteq Found(e, d)
  <2>1. /\ epc[e] = "delete" /\ os'[d] \subseteq os[d] /\ os[d] \ os'[d] \subseteq Found(e, d)
    BY <1>4, InterruptedTakesAway DEF DeleteExternal
  <2>2. PICK c : c \in Found(e, d)
    BY <2>1
  <2>3. d \in Victims(e)
    BY <2>2 DEF Found, Victims
  <2> QED
    BY <2>1, <2>3, DoomedAreLocked
<1>5. \/ \E w \in Writers : BulkIndex(w) \/ ReconcileRevisions(w) \/ WriteInterrupted(w)
      \/ \E e \in Executors : DeleteExternal(e) \/ OperationInterrupted(e)
  <2> USE DEF storeVars
  <2>1. ASSUME NEW w \in Writers, CheckFence(w) \/ UpsertPgvector(w) \/ CommitPgvector(w)
                                  \/ LoseSession(w)
        PROVE  FALSE
    BY <2>1 DEF CheckFence, UpsertPgvector, CommitPgvector, LoseSession
  <2>2. ASSUME NEW w \in Writers, NEW x \in Docs, NEW r \in Revisions, BeginWrite(w, x, r)
        PROVE  FALSE
    BY <2>2 DEF BeginWrite
  <2>3. ASSUME NEW e \in Executors, NEW s \in Scopes, NEW days \in RetentionDays,
               BeginOperation(e, s, days)
        PROVE  FALSE
    BY <2>3 DEF BeginOperation
  <2>4. ASSUME NEW e \in Executors, ReadTargets(e) \/ TakeLock(e) \/ Enumerate(e) \/ Verify(e)
                                    \/ Commit(e)
        PROVE  FALSE
    BY <2>4 DEF ReadTargets, TakeLock, Enumerate, Verify, Commit
  <2>5. ASSUME NEW s \in Scopes PROVE ~LeaseExpires(s)
    BY DEF LeaseExpires
  <2>6. ~ApplyLateBulk /\ ~Tick /\ ~UNCHANGED vars
    BY DEF ApplyLateBulk, Tick, vars
  <2> QED
    BY <2>1, <2>2, <2>3, <2>4, <2>5, <2>6 DEF Next
<1> QED
  BY <1>3, <1>4, <1>5

(* What has been verified is deleted, and nobody else gets at it.             *)
LEMMA EmptiedStep ==
  ASSUME Typed, DeletionsHold, WritersHold, Retaining, late = {}, Emptied, [Next]_vars
  PROVE  Emptied'
<1> USE ErasureAssumption DEF Typed, TypeOK
<1> SUFFICES ASSUME NEW e \in Executors, epc'[e] = "commit", NEW d \in Docs
             PROVE  Found(e, d)' = {}
  BY DEF Emptied, Found
<1>1. CASE epc[e] = "commit" /\ op'[e] = op[e]
  <2>1. CASE d \in Victims(e)
    <3>1. lock[TenantOf[d]] = e /\ Found(e, d) = {}
      BY <1>1, <2>1, DoomedAreLocked DEF Emptied
    <3>2. os'[d] = os[d]
      BY <1>1, <3>1, EvidenceChangesUnderLock
    <3> QED
      BY <1>1, <3>1, <3>2 DEF Found
  <2>2. CASE d \notin Victims(e)
    BY <1>1, <2>2 DEF Found, Victims
  <2> QED
    BY <2>1, <2>2
<1>2. CASE Verify(e)
  <2>1. ~Abandon(e)
    BY DEF Abandon, EndOperation, EGoto
  <2>2. op' = op /\ os' = os /\ Found(e, d) = {}
    BY <1>2, <2>1 DEF Verify, storeVars
  <2> QED
    BY <2>2 DEF Found
<1>3. Verify(e) \/ (epc[e] = "commit" /\ op'[e] = op[e])
  <2> SUFFICES ASSUME ~Verify(e) PROVE epc[e] = "commit" /\ op'[e] = op[e]
    OBVIOUS
  <2>1. ASSUME NEW f \in Executors, EndOperation(f) PROVE epc[e] = "commit" /\ op'[e] = op[e]
    BY <2>1 DEF EndOperation, EGoto
  <2>2. ASSUME NEW f \in Executors, Commit(f) \/ OperationInterrupted(f) \/ Verify(f)
        PROVE epc[e] = "commit" /\ op'[e] = op[e]
    <3>1. CASE EndOperation(f)
      BY <2>1, <3>1
    <3>2. CASE ~EndOperation(f)
      <4>1. Verify(f) /\ EGoto(f, "commit") /\ op' = op
        BY <2>2, <3>2 DEF Commit, OperationInterrupted, Abandon, Verify
      <4> QED
        BY <4>1 DEF EGoto
    <3> QED
      BY <3>1, <3>2
  <2>3. ASSUME NEW f \in Executors, NEW s \in Scopes, NEW days \in RetentionDays,
               BeginOperation(f, s, days)
        PROVE epc[e] = "commit" /\ op'[e] = op[e]
    BY <2>3 DEF BeginOperation, EGoto
  <2>4. ASSUME NEW f \in Executors,
               ReadTargets(f) \/ TakeLock(f) \/ Enumerate(f) \/ DeleteExternal(f)
        PROVE epc[e] = "commit" /\ op'[e] = op[e]
    BY <2>4 DEF ReadTargets, TakeLock, Enumerate, DeleteExternal, EGoto, executorVars
  <2>5. ASSUME UNCHANGED <<epc, op>> PROVE epc[e] = "commit" /\ op'[e] = op[e]
    BY <2>5
  <2> QED
    BY <2>2, <2>3, <2>4, <2>5
    DEF Next, BeginWrite, CheckFence, BulkIndex, ReconcileRevisions, UpsertPgvector,
        CommitPgvector, WriteInterrupted, LoseSession, LeaseExpires, ApplyLateBulk, Tick, vars,
        executorVars
<1> QED
  BY <1>1, <1>2, <1>3

(* What a writer has written it finds when it reconciles, and its own alone    *)
(* from then on.                                                              *)
LEMMA ReconciledStep ==
  ASSUME Typed, DeletionsHold, WritersHold, Retaining, late = {}, Reconciled, [Next]_vars
  PROVE  Reconciled'
<1> USE ErasureAssumption DEF Typed, TypeOK, Writing
<1> SUFFICES ASSUME NEW w \in Writers, wpc'[w] \in {"reconcile", "pgvector", "commit"}
             PROVE  /\ wpc'[w] = "reconcile" => Contents(rev'[w]) \subseteq os'[doc'[w]]
                    /\ wpc'[w] \in {"pgvector", "commit"} => os'[doc'[w]] = Contents(rev'[w])
  BY DEF Reconciled, Contents
<1> DEFINE Stays == /\ doc'[w] = doc[w] /\ rev'[w] = rev[w]
                    /\ wpc'[w] = "reconcile" => wpc[w] = "reconcile"
                    /\ wpc'[w] \in {"pgvector", "commit"} => wpc[w] \in {"pgvector", "commit"}
<1>1. CASE BulkIndex(w)
  <2>1. doc[w] \in Docs /\ Contents(rev[w]) \in Copies /\ os[doc[w]] \in Copies
    BY <1>1, ContentsAreCopies DEF BulkIndex
  <2>2. os'[doc[w]] = Overwrite(os[doc[w]], Contents(rev[w])) /\ wpc'[w] = "reconcile"
        /\ doc' = doc /\ rev' = rev
    BY <1>1, <2>1 DEF BulkIndex, Goto
  <2> QED
    BY <2>1, <2>2, OverwriteKeepsIds
<1>2. CASE ReconcileRevisions(w)
  <2>1. doc[w] \in Docs /\ Contents(rev[w]) \subseteq os[doc[w]]
    BY <1>2 DEF ReconcileRevisions, Reconciled
  <2>2. os'[doc[w]] = os[doc[w]] \cap Contents(rev[w]) /\ wpc'[w] = "pgvector"
        /\ doc' = doc /\ rev' = rev
    BY <1>2, <2>1 DEF ReconcileRevisions, Goto
  <2> QED
    BY <2>1, <2>2
<1>3. CASE Stays
  <2>1. doc[w] \in Docs /\ lock[TenantOf[doc[w]]] = w
    BY <1>3 DEF WritersHold
  <2>2. PICK d \in Docs : d = doc[w]
    BY <2>1
  <2>3. CASE os'[d] = os[d]
    BY <1>3, <2>2, <2>3 DEF Reconciled
  <2>4. CASE os'[d] # os[d]
    <3>1. wpc[w] \in {"bulk", "reconcile"}
          /\ (wpc[w] = "reconcile" => os[d] \cap Contents(rev[w]) \subseteq os'[d])
      BY <2>1, <2>2, <2>4, EvidenceChangesUnderLock
    <3>2. wpc[w] = "reconcile"
      BY <1>3, <3>1
    <3> QED
      BY <1>3, <2>2, <3>1, <3>2 DEF Reconciled
  <2> QED
    BY <2>3, <2>4
<1>4. BulkIndex(w) \/ ReconcileRevisions(w) \/ Stays
  <2>1. ASSUME NEW v \in Writers, EndWrite(v) PROVE Stays
    BY <2>1 DEF EndWrite, Goto
  <2>2. ASSUME NEW v \in Writers, CommitPgvector(v) \/ WriteInterrupted(v) PROVE Stays
    BY <2>1, <2>2 DEF CommitPgvector, WriteInterrupted
  <2>3. ASSUME NEW v \in Writers, CheckFence(v) \/ UpsertPgvector(v) PROVE Stays
    BY <2>1, <2>3 DEF CheckFence, UpsertPgvector, Goto
  <2>4. ASSUME NEW v \in Writers, NEW d \in Docs, NEW r \in Revisions, BeginWrite(v, d, r)
        PROVE Stays
    BY <2>4 DEF BeginWrite, Goto
  <2>5. ASSUME NEW v \in Writers \ {w}, ReconcileRevisions(v) \/ BulkIndex(v) PROVE Stays
    BY <2>5 DEF ReconcileRevisions, BulkIndex, Goto
  <2>6. ASSUME UNCHANGED writerVars PROVE Stays
    BY <2>6 DEF writerVars
  <2>7. ASSUME NEW v \in Writers, ReconcileRevisions(v) \/ BulkIndex(v)
        PROVE  BulkIndex(w) \/ ReconcileRevisions(w) \/ Stays
    BY <2>5, <2>7
  <2>8. ASSUME NEW e \in Executors, NEW s \in Scopes, NEW days \in RetentionDays,
               BeginOperation(e, s, days)
        PROVE  UNCHANGED writerVars
    BY <2>8 DEF BeginOperation
  <2>9. ASSUME NEW e \in Executors, ReadTargets(e) \/ TakeLock(e) \/ Enumerate(e)
                                    \/ DeleteExternal(e) \/ Verify(e)
        PROVE  UNCHANGED writerVars
    BY <2>9 DEF ReadTargets, TakeLock, Enumerate, DeleteExternal, Verify
  <2>10. ASSUME NEW e \in Executors, Commit(e) \/ OperationInterrupted(e)
         PROVE  UNCHANGED writerVars
    BY <2>10 DEF Commit, OperationInterrupted
  <2>11. ASSUME NEW v \in Writers, LoseSession(v) PROVE UNCHANGED writerVars
    BY <2>11 DEF LoseSession
  <2>12. ASSUME NEW s \in Scopes, LeaseExpires(s) PROVE UNCHANGED writerVars
    BY <2>12 DEF LeaseExpires
  <2>13. ApplyLateBulk \/ Tick \/ UNCHANGED vars => UNCHANGED writerVars
    BY DEF ApplyLateBulk, Tick, vars
  <2> HIDE DEF Stays
  <2> QED
    BY <2>2, <2>3, <2>4, <2>6, <2>7, <2>8, <2>9, <2>10, <2>11, <2>12, <2>13 DEF Next
<1> QED
  BY <1>1, <1>2, <1>3, <1>4

(* Who changes one store without the other is at work, until it has changed    *)
(* both or has failed; and no retention ends a failed write's difference.      *)
LEMMA ParityStep ==
  ASSUME SessionLoss = FALSE, Typed, DeletionsHold, WritersHold, Retaining, late = {},
         Verified, Emptied, Reconciled, Parity, [Next]_vars
  PROVE  Parity'
<1> USE ErasureAssumption DEF Typed, TypeOK, Writing
<1> DEFINE Told(d) == <<d, "write">> \in suspect
<1> SUFFICES ASSUME NEW d \in Docs, os'[d] # pg'[d]
             PROVE  Told(d)' \/ BeingWritten(d)' \/ Behind(d)'
  BY DEF Parity
<1> DEFINE Fine == Told(d)' \/ BeingWritten(d)' \/ Behind(d)'
           KeptWritten == BeingWritten(d) => BeingWritten(d)'
           KeptErased == BeingErased(d) => BeingErased(d)'
           KeptSuspect == suspect \cap {<<d, "write">>, <<d, "erase">>} \subseteq suspect'
<1>T. TenantOf[d] \in Tenants
  OBVIOUS
<1>V. ASSUME NEW f \in Executors, op'[f] = op[f] PROVE Victims(f)' = Victims(f)
  BY <1>V DEF Victims
<1>1. ASSUME os'[d] = os[d], pg'[d] = pg[d], KeptSuspect, KeptWritten, KeptErased PROVE Fine
  BY <1>1 DEF Parity, Behind
<1>2. ASSUME UNCHANGED <<epc, op>>, NEW w \in Writers,
             doc[w] # d \/ wpc[w] \in {"idle", "fence", "bulk"},
             \A v \in Writers \ {w} : wpc'[v] = wpc[v] /\ doc'[v] = doc[v],
             lock[TenantOf[d]] # None /\ lock[TenantOf[d]] # w => lock'[TenantOf[d]] = lock[TenantOf[d]]
      PROVE  KeptWritten /\ KeptErased
  <2>1. KeptWritten
    BY <1>2, <1>T DEF BeingWritten, WritersHold
  <2>2. KeptErased
    BY <1>2, <1>T, <1>V DEF BeingErased
  <2> QED
    BY <2>1, <2>2
<1>3. ASSUME UNCHANGED <<wpc, doc>>, NEW e \in Executors,
             d \notin Victims(e) \/ epc[e] \notin {"verify", "commit"},
             \A f \in Executors \ {e} : epc'[f] = epc[f] /\ op'[f] = op[f],
             lock[TenantOf[d]] # None /\ lock[TenantOf[d]] # e => lock'[TenantOf[d]] = lock[TenantOf[d]]
      PROVE  KeptWritten /\ KeptErased
  <2>1. KeptWritten
    BY <1>3, <1>T DEF BeingWritten
  <2>2. KeptErased
    BY <1>3, <1>T, <1>V DEF BeingErased
  <2> QED
    BY <2>1, <2>2
<1>4. ASSUME NEW w \in Writers, EndWrite(w), UNCHANGED <<epc, op>>,
             doc[w] # d \/ wpc[w] \in {"idle", "fence", "bulk"}
      PROVE  KeptWritten /\ KeptErased
  <2>1. \A v \in Writers \ {w} : wpc'[v] = wpc[v] /\ doc'[v] = doc[v]
    BY <1>4 DEF EndWrite, Goto
  <2>2. lock[TenantOf[d]] # w => lock'[TenantOf[d]] = lock[TenantOf[d]]
    BY <1>4, <1>T DEF EndWrite, Release
  <2> HIDE DEF KeptWritten, KeptErased
  <2> QED
    BY <1>2, <1>4, <2>1, <2>2
<1>5. ASSUME NEW e \in Executors, EndOperation(e), UNCHANGED <<wpc, doc>>
      PROVE  /\ KeptWritten
             /\ d \notin Victims(e) \/ epc[e] \notin {"verify", "commit"} => KeptErased
  <2>1. \A f \in Executors \ {e} : epc'[f] = epc[f] /\ op'[f] = op[f]
    BY <1>5 DEF EndOperation, EGoto
  <2>2. lock[TenantOf[d]] # e => lock'[TenantOf[d]] = lock[TenantOf[d]]
    BY <1>5, <1>T DEF EndOperation, Release
  <2>3. KeptWritten
    BY <1>5, <2>2 DEF BeingWritten
  <2> HIDE DEF KeptWritten, KeptErased
  <2> QED
    BY <1>3, <1>5, <2>1, <2>2, <2>3
<1>L. ASSUME NEW e \in Executors, lock[TenantOf[d]] = e PROVE Told(d) \/ os[d] \subseteq pg[d]
  <2>1. ~BeingWritten(d)
    BY <1>L DEF BeingWritten
  <2> QED
    BY <2>1 DEF Parity, Behind
<1>6. ASSUME NEW w \in Writers, NEW c \in Docs, NEW r \in Revisions, BeginWrite(w, c, r)
      PROVE  Fine
  <2>1. /\ UNCHANGED <<os, pg, suspect, epc, op>> /\ wpc[w] = "idle"
        /\ \A v \in Writers \ {w} : wpc'[v] = wpc[v] /\ doc'[v] = doc[v]
        /\ lock[TenantOf[d]] # None => lock'[TenantOf[d]] = lock[TenantOf[d]]
    BY <1>6, <1>T DEF BeginWrite, Goto, storeVars, executorVars
  <2>2. KeptWritten /\ KeptErased
    BY <1>2, <2>1
  <2> QED
    BY <1>1, <2>1, <2>2
<1>7. ASSUME NEW w \in Writers, CheckFence(w) PROVE Fine
  <2>1. UNCHANGED <<os, pg, suspect, epc, op>> /\ wpc[w] = "fence"
    BY <1>7 DEF CheckFence, storeVars, executorVars
  <2>2. KeptWritten /\ KeptErased
    <3>1. CASE EndWrite(w)
      BY <1>4, <2>1, <3>1
    <3>2. CASE Goto(w, "bulk") /\ UNCHANGED <<lock, doc>>
      BY <1>2, <2>1, <3>2 DEF Goto
    <3> QED
      BY <1>7, <3>1, <3>2 DEF CheckFence
  <2> QED
    BY <1>1, <2>1, <2>2
<1>8. ASSUME NEW w \in Writers, NEW label \in {"reconcile", "pgvector", "commit"}, Goto(w, label),
             wpc[w] # "idle", UNCHANGED <<pg, lock, doc, suspect, epc, op>>,
             doc[w] # d => os'[d] = os[d]
      PROVE  Fine
  <2>1. CASE doc[w] = d
    BY <1>8, <2>1 DEF BeingWritten, Goto, WritersHold
  <2>2. CASE doc[w] # d
    <3>1. \A v \in Writers \ {w} : wpc'[v] = wpc[v] /\ doc'[v] = doc[v]
      BY <1>8 DEF Goto
    <3>2. KeptWritten /\ KeptErased
      BY <1>2, <1>8, <2>2, <3>1
    <3> QED
      BY <1>1, <1>8, <2>2, <3>2
  <2> QED
    BY <2>1, <2>2
<1>9. ASSUME NEW w \in Writers, BulkIndex(w) \/ ReconcileRevisions(w) PROVE Fine
  <2>1. /\ wpc[w] # "idle" /\ UNCHANGED <<pg, lock, doc, suspect, epc, op>>
        /\ Goto(w, "reconcile") \/ Goto(w, "pgvector")
    BY <1>9 DEF BulkIndex, ReconcileRevisions, executorVars
  <2>2. doc[w] # d => os'[d] = os[d]
    BY <1>9 DEF BulkIndex, ReconcileRevisions
  <2> HIDE DEF Fine
  <2> QED
    BY <1>8, <2>1, <2>2
<1>10. ASSUME NEW w \in Writers, UpsertPgvector(w) PROVE Fine
  <2>1. CASE EndWrite(w) /\ suspect' = suspect \cup {<<doc[w], "write">>}
    <3>1. CASE doc[w] = d
      BY <2>1, <3>1
    <3>2. CASE doc[w] # d
      <4>1. UNCHANGED <<os, pg, epc, op>>
        BY <1>10 DEF UpsertPgvector, storeVars, executorVars
      <4>2. KeptWritten /\ KeptErased
        BY <1>4, <2>1, <3>2, <4>1
      <4> QED
        BY <1>1, <2>1, <4>1, <4>2
    <3> QED
      BY <3>1, <3>2
  <2>2. CASE Goto(w, "commit") /\ UNCHANGED <<lock, doc, suspect>>
    <3>1. wpc[w] # "idle" /\ UNCHANGED <<os, pg, epc, op>>
      BY <1>10 DEF UpsertPgvector, storeVars, executorVars
    <3> HIDE DEF Fine
    <3> QED
      BY <1>8, <2>2, <3>1
  <2> QED
    BY <1>10, <2>1, <2>2 DEF UpsertPgvector
<1>11. ASSUME NEW w \in Writers, CommitPgvector(w) PROVE Fine
  <2>1. /\ wpc[w] = "commit" /\ EndWrite(w) /\ os' = os /\ UNCHANGED <<epc, op>>
        /\ pg' = [pg EXCEPT ![doc[w]] = Contents(rev[w])]
        /\ suspect \ ({doc[w]} \X {"write", "erase"}) \subseteq suspect'
    BY <1>11 DEF CommitPgvector, executorVars
  <2>2. doc[w] # d
    BY <2>1 DEF Reconciled
  <2>3. KeptWritten /\ KeptErased
    BY <1>4, <2>1, <2>2
  <2>4. KeptSuspect
    BY <2>1, <2>2
  <2>5. os'[d] = os[d] /\ pg'[d] = pg[d]
    BY <2>1, <2>2
  <2> QED
    BY <1>1, <2>3, <2>4, <2>5
<1>12. ASSUME NEW w \in Writers, WriteInterrupted(w) PROVE Fine
  <2>1. /\ EndWrite(w) /\ UNCHANGED <<epc, op>> /\ wpc[w] # "idle"
        /\ suspect' = IF wpc[w] = "fence" THEN suspect ELSE suspect \cup {<<doc[w], "write">>}
    BY <1>12 DEF WriteInterrupted, executorVars
  <2>2. CASE wpc[w] = "fence"
    <3>1. UNCHANGED <<os, pg>>
      BY <1>12, <2>2 DEF WriteInterrupted, storeVars
    <3>2. KeptWritten /\ KeptErased
      BY <1>4, <2>1, <2>2
    <3> QED
      BY <1>1, <2>1, <2>2, <3>1, <3>2
  <2>3. CASE wpc[w] # "fence" /\ doc[w] = d
    BY <2>1, <2>3
  <2>4. CASE wpc[w] # "fence" /\ doc[w] # d
    <3>1. os'[d] = os[d]
      BY <1>12, <2>4 DEF WriteInterrupted, storeVars
    <3>2. pg'[d] = pg[d]
      BY <1>12, <2>4 DEF WriteInterrupted, storeVars
    <3>3. KeptWritten /\ KeptErased
      BY <1>4, <2>1, <2>4
    <3> QED
      BY <1>1, <2>1, <3>1, <3>2, <3>3
  <2> QED
    BY <2>2, <2>3, <2>4
<1>13. ASSUME NEW w \in Writers PROVE ~LoseSession(w)
  BY DEF LoseSession
<1>14. ASSUME NEW e \in Executors, NEW s \in Scopes, NEW days \in RetentionDays,
              BeginOperation(e, s, days)
       PROVE  Fine
  <2>1. /\ UNCHANGED <<os, pg, suspect, wpc, doc, lock>> /\ epc[e] = "idle"
        /\ \A f \in Executors \ {e} : epc'[f] = epc[f] /\ op'[f] = op[f]
    BY <1>14 DEF BeginOperation, EGoto, storeVars, writerVars
  <2>2. KeptWritten /\ KeptErased
    BY <1>3, <2>1
  <2> QED
    BY <1>1, <2>1, <2>2
<1>15. ASSUME NEW e \in Executors, ReadTargets(e) \/ Enumerate(e) PROVE Fine
  <2>1. /\ UNCHANGED <<os, pg, suspect, wpc, doc, lock>> /\ epc[e] \in {"targets", "locks"}
        /\ \A f \in Executors \ {e} : epc'[f] = epc[f] /\ op'[f] = op[f]
    BY <1>15 DEF ReadTargets, Enumerate, EGoto, storeVars, writerVars
  <2>2. KeptWritten /\ KeptErased
    BY <1>3, <2>1
  <2> QED
    BY <1>1, <2>1, <2>2
<1>16. ASSUME NEW e \in Executors, TakeLock(e) PROVE Fine
  <2>1. PICK t \in Missing(e) : lock[t] = None /\ lock' = [lock EXCEPT ![t] = e]
    BY <1>16 DEF TakeLock
  <2>2. UNCHANGED <<os, pg, suspect, wpc, doc, epc, op>> /\ epc[e] = "locks"
    BY <1>16 DEF TakeLock, storeVars, writerVars, executorVars
  <2>3. lock[TenantOf[d]] # None => lock'[TenantOf[d]] = lock[TenantOf[d]]
    BY <2>1, <1>T
  <2>4. KeptWritten /\ KeptErased
    BY <1>3, <2>2, <2>3
  <2> QED
    BY <1>1, <2>2, <2>4
<1>17. ASSUME NEW e \in Executors, DeleteExternal(e) PROVE Fine
  <2>1. /\ epc[e] = "delete" /\ EGoto(e, "verify") /\ UNCHANGED <<pg, suspect, wpc, doc, lock, op>>
        /\ os'[d] = os[d] \ Found(e, d)
    BY <1>17 DEF DeleteExternal, storeVars, writerVars
  <2>2. CASE d \in Victims(e)
    <3>1. lock[TenantOf[d]] = e
      BY <2>1, <2>2, DoomedAreLocked
    <3>2. BeingErased(d)'
      BY <1>V, <2>1, <2>2, <3>1 DEF BeingErased, EGoto
    <3>3. Told(d) \/ os[d] \subseteq pg[d]
      BY <1>L, <3>1
    <3> QED
      BY <2>1, <3>2, <3>3 DEF Behind
  <2>3. CASE d \notin Victims(e)
    <3>1. \A f \in Executors \ {e} : epc'[f] = epc[f] /\ op'[f] = op[f]
      BY <2>1 DEF EGoto
    <3>2. KeptWritten /\ KeptErased
      BY <1>3, <2>1, <2>3, <3>1
    <3>3. Found(e, d) = {}
      BY <2>3 DEF Found, Victims
    <3> QED
      BY <1>1, <2>1, <3>2, <3>3
  <2> QED
    BY <2>2, <2>3
<1>18. ASSUME NEW e \in Executors, Abandon(e), suspect' = suspect \cup (Victims(e) \X {"erase"}),
              UNCHANGED <<pg, wpc, doc>>, os'[d] \subseteq os[d],
              os'[d] # os[d] => epc[e] = "delete" /\ d \in Victims(e)
       PROVE  Fine
  <2>1. KeptSuspect /\ EndOperation(e)
    BY <1>18 DEF Abandon
  <2>2. CASE os'[d] # os[d]
    <3>1. lock[TenantOf[d]] = e
      BY <1>18, <2>2, DoomedAreLocked
    <3>2. Told(d) \/ os[d] \subseteq pg[d]
      BY <1>L, <3>1
    <3> QED
      BY <1>18, <2>1, <2>2, <3>2 DEF Behind
  <2>3. CASE os'[d] = os[d] /\ d \in Victims(e)
    <3>1. KeptWritten
      BY <1>5, <1>18, <2>1
    <3>2. <<d, "erase">> \in suspect'
      BY <1>18, <2>3
    <3> QED
      BY <1>18, <2>1, <2>3, <3>1, <3>2 DEF Parity, Behind
  <2>4. CASE os'[d] = os[d] /\ d \notin Victims(e)
    <3>1. KeptWritten /\ KeptErased
      BY <1>5, <1>18, <2>1, <2>4
    <3> QED
      BY <1>1, <1>18, <2>1, <2>4, <3>1
  <2> QED
    BY <2>2, <2>3, <2>4
<1>19. ASSUME NEW e \in Executors, Verify(e) PROVE Fine
  <2>1. UNCHANGED <<os, pg, wpc, doc>> /\ epc[e] = "verify"
    BY <1>19 DEF Verify, storeVars, writerVars
  <2>2. CASE Abandon(e) /\ suspect' = suspect \cup (Victims(e) \X {"erase"})
    <3> HIDE DEF Fine
    <3> QED
      BY <1>18, <2>1, <2>2
  <2>3. CASE EGoto(e, "commit") /\ UNCHANGED <<op, lock, suspect>>
    <3>1. KeptWritten
      BY <2>1, <2>3 DEF BeingWritten
    <3>2. KeptErased
      BY <1>V, <2>1, <2>3 DEF BeingErased, EGoto
    <3> QED
      BY <1>1, <2>1, <2>3, <3>1, <3>2
  <2> QED
    BY <1>19, <2>2, <2>3 DEF Verify
<1>20. ASSUME NEW e \in Executors, Commit(e) PROVE Fine
  <2>1. UNCHANGED <<os, wpc, doc>> /\ epc[e] = "commit"
    BY <1>20 DEF Commit, writerVars
  <2>2. CASE ~HoldsLease(e)
    <3>1. Abandon(e) /\ suspect' = suspect \cup (Victims(e) \X {"erase"}) /\ pg' = pg
      BY <1>20, <2>2 DEF Commit
    <3> HIDE DEF Fine
    <3> QED
      BY <1>18, <2>1, <3>1
  <2>3. CASE HoldsLease(e)
    <3>1. /\ pg'[d] = IF d \in Swept(e) THEN {} ELSE pg[d]
          /\ suspect' = suspect \ MadeGood(e) /\ EndOperation(e)
      BY <1>20, <2>3 DEF Commit
    <3>2. CASE d \notin Swept(e)
      <4>1. d \notin Victims(e)
        BY <2>1, <3>2, SweptAreDoomed
      <4>2. KeptWritten /\ KeptErased
        BY <1>5, <2>1, <3>1, <4>1
      <4>3. <<d, "write">> \notin MadeGood(e) /\ <<d, "erase">> \notin MadeGood(e)
        BY <3>2, <4>1 DEF MadeGood, Swept
      <4>4. KeptSuspect
        BY <3>1, <4>3
      <4> QED
        BY <1>1, <2>1, <3>1, <3>2, <4>2, <4>4
    <3>3. CASE d \in Swept(e) /\ op[e].scope = Everyone
      <4>1. lock[TenantOf[d]] = e /\ \A i \in Ids(pg[d]) : <<d, i>> \in op[e].doomed
        BY <2>1, <3>3, SweptAreDoomed
      <4>2. os[d] # {}
        BY <2>1, <3>1, <3>3
      <4>3. ~(os[d] \subseteq pg[d])
        <5> SUFFICES ASSUME os[d] \subseteq pg[d] PROVE FALSE
          OBVIOUS
        <5>1. PICK c \in os[d] : c \in pg[d]
          BY <4>2
        <5>2. c[1] \in Ids(pg[d])
          BY <5>1 DEF Ids
        <5>3. c \in Found(e, d)
          BY <4>1, <5>1, <5>2 DEF Found
        <5> QED
          BY <2>1, <5>3 DEF Emptied
      <4>4. Told(d)
        BY <1>L, <4>1, <4>3
      <4>5. <<d, "write">> \notin MadeGood(e)
        BY <3>3 DEF MadeGood
      <4> QED
        BY <3>1, <4>4, <4>5
    <3>4. CASE d \in Swept(e) /\ op[e].scope # Everyone
      <4>1. op[e].scope \in Tenants /\ d \in DocsOf(op[e].scope)
        BY <3>4 DEF Operations, Scopes, Swept
      <4>2. os[d] = {}
        BY <2>1, <4>1 DEF Verified
      <4> QED
        BY <2>1, <3>1, <3>4, <4>2
    <3> QED
      BY <3>2, <3>3, <3>4
  <2> QED
    BY <2>2, <2>3
<1>21. ASSUME NEW e \in Executors, OperationInterrupted(e) PROVE Fine
  <2>1. /\ Abandon(e) /\ suspect' = suspect \cup (Victims(e) \X {"erase"})
        /\ UNCHANGED <<pg, wpc, doc>>
    BY <1>21 DEF OperationInterrupted, writerVars
  <2>2. os'[d] \subseteq os[d] /\ os[d] \ os'[d] \subseteq Found(e, d)
        /\ (os'[d] # os[d] => epc[e] = "delete")
    BY <1>21, InterruptedTakesAway
  <2>3. os'[d] # os[d] => d \in Victims(e)
    <3> SUFFICES ASSUME os'[d] # os[d] PROVE d \in Victims(e)
      OBVIOUS
    <3>1. PICK c : c \in Found(e, d)
      BY <2>2
    <3> QED
      BY <3>1 DEF Found, Victims
  <2> HIDE DEF Fine
  <2> QED
    BY <1>18, <2>1, <2>2, <2>3
<1>22. ASSUME UNCHANGED <<os, pg, suspect, wpc, doc, epc, op, lock>> PROVE Fine
  <2>1. KeptWritten
    BY <1>22 DEF BeingWritten
  <2>2. KeptErased
    BY <1>V, <1>22 DEF BeingErased
  <2> QED
    BY <1>1, <1>22, <2>1, <2>2
<1>23. ~ApplyLateBulk
  BY DEF ApplyLateBulk
<1> HIDE DEF Fine
<1>24. Fine
  BY <1>6, <1>7, <1>9, <1>10, <1>11, <1>12, <1>13, <1>14, <1>15, <1>16, <1>17, <1>19, <1>20, <1>21,
     <1>22, <1>23
  DEF Next, LeaseExpires, Tick, vars, storeVars, writerVars, executorVars
<1> QED
  BY <1>24 DEF Fine

\* what the stores agree on, with all it rests on
Agreement ==
  /\ Typed /\ DeletionsHold /\ Guarded /\ WritersHold /\ Erased
  /\ JournalDated /\ Retaining /\ Emptied /\ Reconciled /\ Parity

(* The agreement holds initially and is kept by every step.                   *)
LEMMA AgreementInvariance ==
  ASSUME LateBulks = FALSE, SessionLoss = FALSE, OnePolicy
  PROVE  Spec => []Agreement
<1>1. Init => Agreement
  <2> SUFFICES ASSUME Init PROVE Agreement
    OBVIOUS
  <2>1. DeletionsHold /\ Verified /\ Retaining /\ Emptied
    BY DEF Init, DeletionsHold, NoOperation, Verified, Retaining, RetainingFor, Emptied
  <2>2. Guarded /\ WritersHold /\ Reconciled /\ late = {} /\ NoEvidenceAfterErasure
    BY DEF Init, Guarded, WritersHold, Reconciled, NoEvidenceAfterErasure
  <2>3. JournalDated /\ Parity
    BY DEF Init, JournalDated, Open, Parity
  <2> QED
    BY <2>1, <2>2, <2>3, TypedInit DEF Agreement, Erased
<1>2. Agreement /\ [Next]_vars => Agreement'
  <2> SUFFICES ASSUME Agreement, [Next]_vars PROVE Agreement'
    OBVIOUS
  <2> USE DEF Agreement
  <2>1. late = {} /\ Verified
    BY DEF Erased
  <2>2. Typed' /\ DeletionsHold' /\ Guarded'
    BY TypedStep, DeletionsHoldStep, GuardedStep
  <2>3. WritersHold' /\ JournalDated'
    BY WritersHoldStep, JournalDatedStep
  <2>4. Erased'
    BY ErasedStep
  <2>5. Retaining'
    BY RetainingStep
  <2>6. Emptied' /\ Reconciled'
    BY <2>1, EmptiedStep, ReconciledStep
  <2>7. Parity'
    BY <2>1, ParityStep
  <2> QED
    BY <2>2, <2>3, <2>4, <2>5, <2>6, <2>7
<1> QED
  BY <1>1, <1>2, PTL DEF Spec

(* The stores hold the same chunks of every document nobody is at work on,      *)
(* unless a write of it was reported as failed, or a retention was and OpenSearch*)
(* is only behind: whatever the number of writers, executors, expired leases   *)
(* and failures, as long as PostgreSQL keeps the sessions that hold locks,      *)
(* OpenSearch applies no bulk nobody waits for, and the retention period does   *)
(* not change under an open operation.                                         *)
THEOREM StoresAgreeOrRetry ==
  ASSUME LateBulks = FALSE, SessionLoss = FALSE, OnePolicy
  PROVE  Spec => []ParityOrRetry
<1>1. Agreement => ParityOrRetry
  <2> SUFFICES ASSUME Agreement, NEW d \in Docs, os[d] # pg[d], <<d, "write">> \notin suspect
               PROVE  \/ lock[TenantOf[d]] # None
                      \/ <<d, "erase">> \in suspect /\ os[d] \subseteq pg[d]
    BY DEF ParityOrRetry
  <2>1. BeingWritten(d) \/ Behind(d)
    BY DEF Agreement, Parity
  <2>2. BeingWritten(d) \/ BeingErased(d) => lock[TenantOf[d]] # None
    BY ErasureAssumption DEF BeingWritten, BeingErased
  <2> QED
    BY <2>1, <2>2 DEF Behind
<1> QED
  BY <1>1, AgreementInvariance, PTL

(* An evidence id leaves OpenSearch only by the deletion of its tenant, by a    *)
(* retention run past whose cutoff its document still is when the request is   *)
(* made, or because the writer that reconciles has no such chunk.              *)
THEOREM RetentionSparesTheFresh ==
  ASSUME LateBulks = FALSE, SessionLoss = FALSE, OnePolicy
  PROVE  Spec => FreshEvidenceIsKept
<1> DEFINE Spared(d) ==
      \A i \in Chunks : i \in Ids(os[d]) /\ i \notin Ids(os'[d]) =>
        \/ \E e \in Executors : \/ op[e].scope = TenantOf[d]
                                \/ op[e].scope = Everyone /\ d \in Expired(op[e].cutoff)
        \/ \E w \in Writers : /\ wpc[w] = "reconcile" /\ doc[w] = d
                              /\ i \notin ChunksOf[rev[w]]
<1>1. ASSUME Agreement, [Next]_vars, NEW d \in Docs PROVE Spared(d)
  <2> SUFFICES ASSUME NEW i \in Chunks, i \in Ids(os[d]), i \notin Ids(os'[d]),
                      \A w \in Writers : wpc[w] = "reconcile" /\ doc[w] = d => i \in ChunksOf[rev[w]]
               PROVE  \E e \in Executors : \/ op[e].scope = TenantOf[d]
                                           \/ op[e].scope = Everyone /\ d \in Expired(op[e].cutoff)
    OBVIOUS
  <2> USE <1>1 DEF Agreement
  <2>1. late = {}
    BY DEF Erased
  <2>2. os'[d] # os[d]
    OBVIOUS
  <2>3. ASSUME NEW w \in Writers, wpc[w] = "reconcile", doc[w] = d,
               os[d] \cap Contents(rev[w]) \subseteq os'[d]
        PROVE  FALSE
    <3>1. Contents(rev[w]) \subseteq os'[d]
      BY <2>3 DEF Reconciled
    <3>2. i \in Ids(Contents(rev[w]))
      BY <2>3, ContentsAreCopies DEF Typed, Writing
    <3> QED
      BY <3>1, <3>2 DEF Ids
  <2>4. PICK e \in Executors : epc[e] = "delete" /\ d \in Victims(e)
    BY <2>1, <2>2, <2>3, EvidenceChangesUnderLock
  <2>5. PICK x \in op[e].doomed : d = x[1]
    BY <2>4 DEF Victims
  <2>6. op[e].scope \in Scopes
    BY DEF Typed, TypeOK, Operations
  <2>7. CASE op[e].scope \in Tenants
    BY <2>4, <2>5, <2>7 DEF DeletionsHold, DocsOf
  <2>8. CASE op[e].scope = Everyone
    BY <2>4, <2>5, <2>8 DEF Retaining, RetainingFor, ExpiredIds
  <2> QED
    BY <2>6, <2>7, <2>8 DEF Scopes
<1> DEFINE Every == \A d \in Docs, i \in Chunks :
      i \in Ids(os[d]) /\ i \notin Ids(os'[d]) =>
        \/ \E e \in Executors : \/ op[e].scope = TenantOf[d]
                                \/ op[e].scope = Everyone /\ d \in Expired(op[e].cutoff)
        \/ \E w \in Writers : /\ wpc[w] = "reconcile" /\ doc[w] = d
                              /\ i \notin ChunksOf[rev[w]]
<1>2. Agreement /\ [Next]_vars => [Every]_vars
  BY <1>1
<1> QED
  BY <1>2, AgreementInvariance, PTL DEF Spec, FreshEvidenceIsKept

(* The row of an evidence id leaves PostgreSQL only when OpenSearch holds        *)
(* nothing under that id: the final transaction sweeps what was verified, a     *)
(* writer commits what it has reconciled, and nobody could write in between.    *)
(* Chunks that were never listed are outside what it says.                     *)
THEOREM CatalogIsLast ==
  ASSUME LateBulks = FALSE, SessionLoss = FALSE, OnePolicy
  PROVE  Spec => CatalogOutlivesEvidence
<1> DEFINE Last(d) ==
      \A i \in Chunks : i \in Ids(pg[d]) /\ i \notin Ids(pg'[d]) => i \notin Ids(os'[d])
<1>1. ASSUME Agreement, [Next]_vars, NEW d \in Docs PROVE Last(d)
  <2> SUFFICES ASSUME NEW i \in Chunks, i \in Ids(pg[d]), i \notin Ids(pg'[d])
               PROVE  i \notin Ids(os'[d])
    OBVIOUS
  <2> USE <1>1 DEF Agreement, Typed, TypeOK, Writing, storeVars
  <2>1. ASSUME NEW w \in Writers, wpc[w] = "commit", pg' = [pg EXCEPT ![doc[w]] = Contents(rev[w])],
               os' = os
        PROVE  i \notin Ids(os'[d])
    <3>1. d = doc[w] /\ pg'[d] = Contents(rev[w])
      BY <2>1
    <3> QED
      BY <2>1, <3>1 DEF Reconciled
  <2>2. ASSUME NEW w \in Writers, CommitPgvector(w) PROVE i \notin Ids(os'[d])
    BY <2>1, <2>2 DEF CommitPgvector
  <2>3. ASSUME NEW w \in Writers, WriteInterrupted(w) PROVE i \notin Ids(os'[d])
    <3>1. pg' # pg
      OBVIOUS
    <3>2. /\ wpc[w] = "commit" /\ os' = os
          /\ pg' = [pg EXCEPT ![doc[w]] = Contents(rev[w])]
      BY <2>3, <3>1 DEF WriteInterrupted
    <3> QED
      BY <2>1, <3>2
  <2>4. ASSUME NEW e \in Executors, Commit(e) PROVE i \notin Ids(os'[d])
    <3>1. epc[e] = "commit" /\ d \in Swept(e) /\ os' = os
      BY <2>4 DEF Commit
    <3>2. <<d, i>> \in op[e].doomed
      BY <3>1, SweptAreDoomed
    <3>3. \A c \in os[d] : c[1] # i
      BY <3>1, <3>2 DEF Emptied, Found
    <3> QED
      BY <3>1, <3>3 DEF Ids
  <2> QED
    BY <2>2, <2>3, <2>4
    DEF Next, BeginWrite, CheckFence, BulkIndex, ReconcileRevisions, UpsertPgvector, LoseSession,
        BeginOperation, ReadTargets, TakeLock, Enumerate, DeleteExternal, Verify,
        OperationInterrupted, LeaseExpires, ApplyLateBulk, Tick, vars
<1> DEFINE Every == \A d \in Docs, i \in Chunks :
      i \in Ids(pg[d]) /\ i \notin Ids(pg'[d]) => i \notin Ids(os'[d])
<1>2. Agreement /\ [Next]_vars => [Every]_vars
  BY <1>1
<1> QED
  BY <1>2, AgreementInvariance, PTL DEF Spec, CatalogOutlivesEvidence
=============================================================================

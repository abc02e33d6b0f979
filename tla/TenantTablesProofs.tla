------------------------- MODULE TenantTablesProofs -------------------------
(***************************************************************************)
(* The two PostgreSQL ledgers of a tenant, which share no row: the audit   *)
(* ledger (AuditLedger), for any number of workers, traces, requests, rows *)
(* of a page or an export, days and every pair of retention periods of     *)
(* which events have the longer one; and the grants of its corpora         *)
(* (CorpusGrants), for any number of corpora, administrators, days,        *)
(* versions and deletions.                                                 *)
(***************************************************************************)
EXTENDS AuditLedger, CorpusGrants, FiniteSetTheorems, TLAPS

-----------------------------------------------------------------------------
(* THE AUDIT LEDGER. Its units.                                             *)

\* A completion that a worker is persisting, before and after the insert.
Computed == [pc : {"computed"}, trace : Traces, path : Paths, decision : Decisions,
             source : Traces \cup {NoSource}, created : Int]
Inserted == [pc : {"inserted"}, trace : Traces, path : Paths, decision : Decisions,
             source : Traces \cup {NoSource}, created : Int,
             fresh : BOOLEAN, stamped : Int, id : Int]

\* The part of the type invariant that the proof needs.
Dated ==
  /\ today \in Int /\ lastRow \in Int
  /\ \A x \in auditRuns \cup auditEvents : x.created \in Int
  /\ work \in [LedgerWorkers -> {IdleWork} \cup Computed \cup Inserted]

\* A row was not created before it was computed: a run is stamped before the
\* events of its unit, and neither in the future.
Stamped ==
  \A w \in LedgerWorkers :
    /\ work[w].pc = "computed" => work[w].created <= today
    /\ work[w].pc = "inserted" => work[w].created <= work[w].stamped

\* The event of type ty of the unit of r, stamped no earlier than the run.
OfUnit(e, r, ty) ==
  /\ Key(e) = Key(r) /\ e.type = ty /\ e.decision = r.decision
  /\ ty = "replay" => e.source = r.source
  /\ e.created >= r.created

\* Every stored run has its unit, young enough to outlive it.
UnitsAreWhole ==
  \A r \in auditRuns :
    /\ \E e \in auditEvents : OfUnit(e, r, "completed")
    /\ r.path = Replay => \E e \in auditEvents : OfUnit(e, r, "replay")

\* A worker whose insert went through is alone with its key: no stored run and
\* no other such worker has it.
InsertsAreAlone ==
  \A w \in LedgerWorkers : work[w].pc = "inserted" /\ work[w].fresh =>
    /\ \A r \in auditRuns : Key(r) # Key(work[w])
    /\ \A v \in LedgerWorkers \ {w} :
         work[v].pc = "inserted" /\ work[v].fresh => Key(work[v]) # Key(work[w])

\* A key has one run, and every answer that stands is the answer of a run.
AnswersHaveRuns ==
  /\ \A r, s \in auditRuns : Key(r) = Key(s) => r = s
  /\ \A a \in answers : \E r \in auditRuns : AcceptedAnswer(r) = a

LInv == Dated /\ Stamped /\ UnitsAreWhole /\ InsertsAreAlone /\ AnswersHaveRuns

\* The steps that complete no run and delete none.
Reads ==
  \/ \E f \in Traces \cup {NoSource}, b \in BOOLEAN : StartExport(f, b)
  \/ FinishExport \/ StartHistory \/ ReadPage \/ DropReader

LEMMA LedgerStarts == LedgerInit => LInv
BY DEF LedgerInit, LInv, Dated, Stamped, UnitsAreWhole, InsertsAreAlone, AnswersHaveRuns, IdleWork

(* Readers write nothing.                                                   *)
LEMMA ReadsKeep == ASSUME LInv, Reads \/ UNCHANGED ledgerVars PROVE LInv'
BY DEF Reads, StartExport, FinishExport, StartHistory, ReadPage, DropReader, ledgerVars, LInv,
   Dated, Stamped, UnitsAreWhole, InsertsAreAlone, AnswersHaveRuns

(* A request begins: its run is stamped with the present day.               *)
LEMMA BeginKeeps ==
  ASSUME LInv, NEW w \in LedgerWorkers, NEW t \in Traces, NEW p \in Paths, NEW d \in Decisions,
         NEW s \in Traces \cup {NoSource}, Begin(w, t, p, d, s)
  PROVE  LInv'
<1>1. Dated'
  BY DEF LInv, Dated, Begin, Computed
<1>2. \A v \in LedgerWorkers : v # w => work'[v] = work[v]
  BY DEF LInv, Dated, Begin
<1>3. work'[w].pc = "computed" /\ work'[w].created = today /\ today' = today
  BY DEF LInv, Dated, Begin
<1>4. Stamped'
  BY <1>2, <1>3 DEF LInv, Dated, Stamped
<1>5. InsertsAreAlone'
  BY <1>2, <1>3 DEF LInv, InsertsAreAlone, Begin
<1>6. UnitsAreWhole' /\ AnswersHaveRuns'
  BY DEF LInv, UnitsAreWhole, AnswersHaveRuns, Begin
<1> QED
  BY <1>1, <1>4, <1>5, <1>6 DEF LInv

(* The insert waits for workers with its key, so it is alone when it is fresh. *)
LEMMA InsertKeeps ==
  ASSUME LInv, NEW w \in LedgerWorkers, InsertRun(w)
  PROVE  LInv'
<1>1. work[w] \in Computed
  BY DEF LInv, Dated, InsertRun, IdleWork, Inserted
<1>2. \A v \in LedgerWorkers : v # w => work'[v] = work[v]
  BY DEF LInv, Dated, InsertRun
<1>3. /\ work'[w] \in Inserted /\ Key(work'[w]) = Key(work[w])
      /\ work'[w].created = work[w].created /\ work'[w].stamped = today
      /\ work'[w].fresh <=> \A r \in auditRuns : Key(r) # Key(work[w])
  BY <1>1 DEF LInv, Dated, InsertRun, Computed, Inserted, Key
<1>4. UNCHANGED <<today, auditRuns, auditEvents, answers>>
  BY DEF InsertRun
<1>5. Dated'
  <2>1. work' \in [LedgerWorkers -> {IdleWork} \cup Computed \cup Inserted]
    BY <1>2, <1>3 DEF LInv, Dated, InsertRun
  <2>2. lastRow' \in Int
    BY DEF LInv, Dated, InsertRun
  <2> QED
    BY <2>1, <2>2, <1>4 DEF LInv, Dated
<1>6. Stamped'
  BY <1>1, <1>2, <1>3, <1>4 DEF LInv, Dated, Stamped, Computed, Inserted
<1>7. InsertsAreAlone'
  <2>1. \A v \in LedgerWorkers : work[v].pc = "inserted" /\ work[v].fresh =>
                                    Key(work[v]) # Key(work[w])
    BY DEF InsertRun
  <2> QED
    BY <2>1, <1>1, <1>2, <1>3, <1>4 DEF LInv, InsertsAreAlone, Computed
<1>8. UnitsAreWhole' /\ AnswersHaveRuns'
  BY <1>4 DEF LInv, UnitsAreWhole, AnswersHaveRuns
<1> QED
  BY <1>5, <1>6, <1>7, <1>8 DEF LInv

(* A worker that ends leaves the others as they were.                       *)
LEMMA FinishWork ==
  ASSUME LInv, NEW w \in LedgerWorkers, NEW answered, Finish(w, answered)
  PROVE  /\ work' \in [LedgerWorkers -> {IdleWork} \cup Computed \cup Inserted]
         /\ \A v \in LedgerWorkers : v # w => work'[v] = work[v]
         /\ work'[w].pc = "idle"
         /\ today' = today
         /\ Stamped'
<1>1. /\ work' \in [LedgerWorkers -> {IdleWork} \cup Computed \cup Inserted]
      /\ \A v \in LedgerWorkers : v # w => work'[v] = work[v]
      /\ work'[w].pc = "idle"
      /\ today' = today
  BY DEF LInv, Dated, Finish, IdleWork
<1>2. Stamped'
  BY <1>1 DEF LInv, Stamped
<1> QED
  BY <1>1, <1>2

\* A unit has at least one event.
LEMMA UnitsAreFew ==
  ASSUME NEW c
  PROVE  IsFiniteSet(UnitEvents(c)) /\ Cardinality(UnitEvents(c)) \in Nat \ {0}
<1> DEFINE first  == {EventRow(c, "completed", lastRow + 1)}
           second == IF c.path = Replay THEN {EventRow(c, "replay", lastRow + 2)} ELSE {}
<1>1. IsFiniteSet(first) /\ first # {}
  BY FS_Singleton
<1>2. IsFiniteSet(second)
  BY FS_Singleton, FS_EmptySet
<1> HIDE DEF first, second
<1>3. IsFiniteSet(first \cup second) /\ first \cup second # {}
  BY <1>1, <1>2, FS_Union
<1>4. Cardinality(first \cup second) \in Nat \ {0}
  BY <1>3, FS_CardinalityType, FS_EmptySet
<1> QED BY <1>3, <1>4 DEF UnitEvents, first, second

(* The unit is committed as a whole, with a key that no other run has.       *)
LEMMA CommitKeeps ==
  ASSUME LInv, NEW w \in LedgerWorkers, CommitUnit(w)
  PROVE  LInv'
<1> DEFINE c == work[w]
<1>1. c \in Inserted /\ c.fresh
  BY DEF LInv, Dated, CommitUnit, IdleWork, Computed
<1>2. PICK lost \in BOOLEAN : Finish(w, IF lost THEN {} ELSE {AcceptedAnswer(c)})
  BY DEF CommitUnit, AnswerOrLost
<1>3. /\ work' \in [LedgerWorkers -> {IdleWork} \cup Computed \cup Inserted]
      /\ \A v \in LedgerWorkers : v # w => work'[v] = work[v]
      /\ work'[w].pc = "idle" /\ today' = today /\ Stamped'
  BY <1>2, FinishWork
<1>4. /\ auditRuns' = auditRuns \cup {RunRow(c)}
      /\ auditEvents' = auditEvents \cup UnitEvents(c)
  BY DEF CommitUnit
<1>5. answers' \subseteq answers \cup {AcceptedAnswer(c)}
  BY <1>2 DEF Finish
<1>6. /\ Key(RunRow(c)) = Key(c) /\ RunRow(c).created = c.created
      /\ RunRow(c).decision = c.decision /\ RunRow(c).source = c.source
      /\ RunRow(c).path = c.path /\ AcceptedAnswer(RunRow(c)) = AcceptedAnswer(c)
  BY DEF RunRow, Key, AcceptedAnswer
<1>7. \A e \in UnitEvents(c) : e.created = c.stamped
  BY DEF UnitEvents, EventRow
<1>8. c.created \in Int /\ c.stamped \in Int /\ c.created <= c.stamped
  BY <1>1 DEF LInv, Stamped, Inserted
<1>9. \A r \in auditRuns : Key(r) # Key(c)
  BY <1>1 DEF LInv, InsertsAreAlone, Inserted
<1>10. Dated'
  <2>1. lastRow' \in Int
    BY UnitsAreFew DEF LInv, Dated, CommitUnit
  <2> QED
    BY <2>1, <1>3, <1>4, <1>6, <1>7, <1>8 DEF LInv, Dated
<1>11. UnitsAreWhole'
  <2>1. \E e \in auditEvents' : OfUnit(e, RunRow(c), "completed")
    <3> DEFINE e == EventRow(c, "completed", lastRow + 1)
    <3>1. e \in auditEvents'
      BY <1>4 DEF UnitEvents
    <3>2. OfUnit(e, RunRow(c), "completed")
      BY <1>6, <1>8 DEF OfUnit, EventRow, Key
    <3> QED
      BY <3>1, <3>2
  <2>2. ASSUME c.path = Replay PROVE \E e \in auditEvents' : OfUnit(e, RunRow(c), "replay")
    <3> DEFINE e == EventRow(c, "replay", lastRow + 2)
    <3>1. e \in auditEvents'
      BY <2>2, <1>4 DEF UnitEvents
    <3>2. OfUnit(e, RunRow(c), "replay")
      BY <1>6, <1>8 DEF OfUnit, EventRow, Key
    <3> QED
      BY <3>1, <3>2
  <2> QED
    BY <2>1, <2>2, <1>4, <1>6 DEF LInv, UnitsAreWhole
<1>12. InsertsAreAlone'
  BY <1>1, <1>3, <1>4, <1>6 DEF LInv, InsertsAreAlone, Inserted
<1>13. AnswersHaveRuns'
  BY <1>4, <1>5, <1>6, <1>9 DEF LInv, AnswersHaveRuns
<1> QED
  BY <1>3, <1>10, <1>11, <1>12, <1>13 DEF LInv

(* A retry answers with the run it found, or with nothing.                   *)
LEMMA EndKeeps ==
  ASSUME LInv, NEW w \in LedgerWorkers, AdoptUnit(w) \/ RollBack(w)
  PROVE  LInv'
<1>1. UNCHANGED <<auditRuns, auditEvents>>
  BY DEF AdoptUnit, RollBack
<1>2. PICK answered : /\ Finish(w, answered)
                      /\ \A a \in answered : \E r \in auditRuns : AcceptedAnswer(r) = a
  <2>1. CASE RollBack(w)
    BY <2>1 DEF RollBack
  <2>2. CASE AdoptUnit(w)
    <3>1. PICK r \in StoredUnit(work[w]) : AnswerOrLost(w, r)
      BY <2>2 DEF AdoptUnit
    <3>2. r \in auditRuns
      BY DEF StoredUnit
    <3>3. PICK lost \in BOOLEAN : Finish(w, IF lost THEN {} ELSE {AcceptedAnswer(r)})
      BY <3>1 DEF AnswerOrLost
    <3> QED
      BY <3>2, <3>3
  <2> QED
    BY <2>1, <2>2
<1>3. /\ work' \in [LedgerWorkers -> {IdleWork} \cup Computed \cup Inserted]
      /\ \A v \in LedgerWorkers : v # w => work'[v] = work[v]
      /\ work'[w].pc = "idle" /\ today' = today /\ Stamped'
  BY <1>2, FinishWork
<1>4. answers' = answers \cup answered
  BY <1>2 DEF Finish
<1>5. Dated'
  BY <1>1, <1>3 DEF LInv, Dated, AdoptUnit, RollBack
<1>6. InsertsAreAlone'
  BY <1>1, <1>3 DEF LInv, InsertsAreAlone
<1>7. UnitsAreWhole' /\ AnswersHaveRuns'
  BY <1>1, <1>2, <1>4 DEF LInv, UnitsAreWhole, AnswersHaveRuns
<1> QED
  BY <1>3, <1>5, <1>6, <1>7 DEF LInv

(* The cutoffs differ, and a run has gone by the time its events go.         *)
LEMMA RetentionKeeps == ASSUME LInv, ExecuteRetention PROVE LInv'
<1>1. /\ auditRuns' \subseteq auditRuns /\ auditEvents' \subseteq auditEvents
      /\ UNCHANGED <<today, work>>
  BY DEF ExecuteRetention, Kept
<1>2. Dated' /\ Stamped' /\ InsertsAreAlone'
  BY <1>1 DEF LInv, Dated, Stamped, InsertsAreAlone, ExecuteRetention
<1>3. UnitsAreWhole'
  <2> SUFFICES ASSUME NEW r \in auditRuns', NEW e \in auditEvents, NEW ty, OfUnit(e, r, ty)
               PROVE  e \in auditEvents'
    BY <1>1 DEF LInv, UnitsAreWhole
  <2>1. r.created >= today - RunDays /\ e.created >= r.created
    BY DEF ExecuteRetention, Kept, OfUnit
  <2>2. today \in Int /\ r.created \in Int /\ e.created \in Int
    BY <1>1 DEF LInv, Dated
  <2>3. e.created >= today - EventDays
    BY <2>1, <2>2, LedgerConstants, RunsGoFirst
  <2> QED
    BY <2>3 DEF ExecuteRetention, Kept
<1>4. AnswersHaveRuns'
  BY <1>1 DEF LInv, AnswersHaveRuns, ExecuteRetention
<1> QED
  BY <1>2, <1>3, <1>4 DEF LInv

(* Other events, the deletion of the tenant and the clock.                   *)
LEMMA OthersKeep ==
  ASSUME LInv, (\E t \in Traces : AppendEvent(t)) \/ DeleteTenant \/ NextDay
  PROVE  LInv'
<1>1. CASE \E t \in Traces : AppendEvent(t)
  <2>1. PICK t \in Traces : AppendEvent(t)
    BY <1>1
  <2>2. /\ auditEvents \subseteq auditEvents' /\ UNCHANGED <<today, auditRuns, work, answers>>
        /\ \A e \in auditEvents' \ auditEvents : e.created = today
    BY <2>1 DEF AppendEvent
  <2>3. lastRow' \in Int
    BY <2>1 DEF AppendEvent, LInv, Dated
  <2> QED
    BY <2>2, <2>3 DEF LInv, Dated, Stamped, UnitsAreWhole, InsertsAreAlone, AnswersHaveRuns
<1>2. CASE DeleteTenant
  BY <1>2 DEF DeleteTenant, LInv, Dated, Stamped, UnitsAreWhole, InsertsAreAlone, AnswersHaveRuns
<1>3. CASE NextDay
  <2>1. today' = today + 1 /\ UNCHANGED <<auditRuns, auditEvents, work, lastRow, answers>>
    BY <1>3 DEF NextDay
  <2>2. Stamped'
    <3> SUFFICES ASSUME NEW w \in LedgerWorkers, work[w].pc = "computed"
                 PROVE  work[w].created <= today + 1
      BY <2>1 DEF LInv, Stamped
    <3>1. work[w] \in Computed
      BY DEF LInv, Dated, IdleWork, Inserted
    <3> QED
      BY <3>1 DEF LInv, Stamped, Dated, Computed
  <2> QED
    BY <2>1, <2>2 DEF LInv, Dated, UnitsAreWhole, InsertsAreAlone, AnswersHaveRuns
<1> QED
  BY <1>1, <1>2, <1>3
-----------------------------------------------------------------------------
(* The invariant holds: one lemma above for each group of steps.             *)
THEOREM LedgerInvariance == LedgerSpec => []LInv
<1>1. ASSUME LInv, [LedgerNext]_ledgerVars PROVE LInv'
  <2>1. ASSUME NEW w \in LedgerWorkers, NEW t \in Traces, NEW d \in Decisions,
               CompleteVerification(w, t, d)
        PROVE  LInv'
    BY <1>1, <2>1, BeginKeeps DEF CompleteVerification, Paths
  <2>2. ASSUME NEW w \in LedgerWorkers, NEW t \in Traces, NEW d \in Decisions,
               NEW s \in Traces, ReplayVerification(w, t, s, d)
        PROVE  LInv'
    BY <1>1, <2>2, BeginKeeps DEF ReplayVerification, Paths
  <2>3. ASSUME NEW w \in LedgerWorkers, InsertRun(w) PROVE LInv'
    BY <1>1, <2>3, InsertKeeps
  <2>4. ASSUME NEW w \in LedgerWorkers, CommitUnit(w) PROVE LInv'
    BY <1>1, <2>4, CommitKeeps
  <2>5. ASSUME NEW w \in LedgerWorkers, AdoptUnit(w) \/ RollBack(w) PROVE LInv'
    BY <1>1, <2>5, EndKeeps
  <2>6. ASSUME (\E t \in Traces : AppendEvent(t)) \/ DeleteTenant \/ NextDay PROVE LInv'
    BY <1>1, <2>6, OthersKeep
  <2>7. CASE ExecuteRetention
    BY <1>1, <2>7, RetentionKeeps
  <2>8. CASE Reads \/ UNCHANGED ledgerVars
    BY <1>1, <2>8, ReadsKeep
  <2> QED
    BY <1>1, <2>1, <2>2, <2>3, <2>4, <2>5, <2>6, <2>7, <2>8 DEF LedgerNext, Reads
<1> QED
  BY <1>1, LedgerStarts, PTL DEF LedgerSpec

(* No retention period, no retry and no concurrent completion leaves a run    *)
(* without the events of its unit (_append_completion_unit, the retention    *)
(* targets of data_lifecycle.py).                                            *)
THEOREM RunsAreBacked == LedgerSpec => []RunsKeepTheirEvents
<1>1. LInv => RunsKeepTheirEvents
  BY DEF LInv, UnitsAreWhole, OfUnit, RunsKeepTheirEvents
<1> QED
  BY <1>1, LedgerInvariance, PTL

(* What a client was answered is the one stored run of its trace and path,    *)
(* however many retries raced for it (_append_completion_unit).              *)
THEOREM AnswersAreKept == LedgerSpec => []AnswersAreStored
<1>1. LInv => AnswersAreStored
  <2> SUFFICES ASSUME LInv, NEW a \in answers
               PROVE  {AcceptedAnswer(r) : r \in {r \in auditRuns : Key(r) = Key(a)}} = {a}
    BY DEF AnswersAreStored
  <2>1. PICK r \in auditRuns : AcceptedAnswer(r) = a
    BY DEF LInv, AnswersHaveRuns
  <2>2. Key(r) = Key(a)
    BY <2>1 DEF Key, AcceptedAnswer
  <2>3. \A s \in auditRuns : Key(s) = Key(a) => s = r
    BY <2>2 DEF LInv, AnswersHaveRuns
  <2> QED
    BY <2>1, <2>2, <2>3
<1> QED
  BY <1>1, LedgerInvariance, PTL
-----------------------------------------------------------------------------
(* The order in which rows are read.                                         *)

\* Rows that can be compared: a table, or what has been read of one.
Ordered(S) == IsFiniteSet(S) /\ \A x \in S : x.created \in Int /\ x.id \in Int

\* The rows that a query lists before x.
Ahead(S, x) == {y \in S : Newer(y, x)}

\* Listing rows newest first is a strict order.
LEMMA NewerIsStrict ==
  ASSUME NEW x, NEW y, NEW z, x.created \in Int, y.created \in Int, z.created \in Int,
         x.id \in Int, y.id \in Int, z.id \in Int
  PROVE  /\ ~Newer(x, x)
         /\ Newer(x, y) /\ Newer(y, z) => Newer(x, z)
         /\ Newer(x, y) \/ Newer(y, x) \/ x.id = y.id
BY DEF Newer

\* The rows ahead of a row of S can be counted; a later row has more.
LEMMA AheadGrows ==
  ASSUME NEW S, Ordered(S), NEW x \in S, NEW y \in S, Newer(x, y)
  PROVE  /\ Cardinality(Ahead(S, x)) \in Nat /\ Cardinality(Ahead(S, y)) \in Nat
         /\ Cardinality(Ahead(S, x)) < Cardinality(Ahead(S, y))
<1>1. Ahead(S, x) \subseteq Ahead(S, y)
  BY NewerIsStrict DEF Ordered, Ahead
<1>2. x \in Ahead(S, y) /\ x \notin Ahead(S, x)
  BY NewerIsStrict DEF Ordered, Ahead
<1>3. IsFiniteSet(Ahead(S, y))
  BY FS_Subset DEF Ordered, Ahead
<1> QED BY <1>1, <1>2, <1>3, FS_Subset, FS_CardinalityType

\* A set of numbers has a least one.
LEMMA LeastNumber ==
  ASSUME NEW T \in SUBSET Nat, T # {}
  PROVE  \E n \in T : \A i \in T : n <= i
<1>1. PICK n \in T : \A i \in T : ~ (<<i, n>> \in OpToRel(<, Nat))
  BY NatLessThanWellFounded, WFMin
<1>2. ASSUME NEW i \in T PROVE n <= i
  <2>1. n \in Nat /\ i \in Nat
    OBVIOUS
  <2>2. ~ (i < n)
    BY <1>1, <2>1 DEF OpToRel
  <2> QED BY <2>1, <2>2
<1> QED BY <1>2

\* A table that is not empty has a newest row.
LEMMA HasNewest ==
  ASSUME NEW S, Ordered(S), S # {}
  PROVE  \E x \in S : \A y \in S : ~Newer(y, x)
<1> DEFINE T == {Cardinality(Ahead(S, x)) : x \in S}
<1>1. \A x \in S : Cardinality(Ahead(S, x)) \in Nat
  BY FS_Subset, FS_CardinalityType DEF Ordered, Ahead
<1>2. T \in SUBSET Nat /\ T # {}
  BY <1>1
<1>3. PICK x \in S : \A y \in S : Cardinality(Ahead(S, x)) <= Cardinality(Ahead(S, y))
  <2>1. \E n \in T : \A i \in T : n <= i
    <3> HIDE DEF T
    <3> QED BY <1>2, LeastNumber
  <2> QED BY <2>1
<1>4. ASSUME NEW y \in S, Newer(y, x) PROVE FALSE
  BY <1>3, <1>4, AheadGrows
<1> QED BY <1>4

\* ... and an oldest.
LEMMA HasOldest ==
  ASSUME NEW S, Ordered(S), S # {}
  PROVE  \E x \in S : \A y \in S : ~Newer(x, y)
<1> DEFINE Rest(x) == Cardinality(S \ Ahead(S, x))
           T == {Rest(x) : x \in S}
<1>1. \A x \in S : Rest(x) \in Nat
  <2> TAKE x \in S
  <2>1. IsFiniteSet(S \ Ahead(S, x))
    BY FS_Subset DEF Ordered
  <2> QED BY <2>1, FS_CardinalityType
<1>2. T \in SUBSET Nat /\ T # {}
  BY <1>1
<1>3. PICK x \in S : \A y \in S : Rest(x) <= Rest(y)
  <2>1. \E n \in T : \A i \in T : n <= i
    <3> HIDE DEF T
    <3> QED BY <1>2, LeastNumber
  <2> QED BY <2>1
<1>4. ASSUME NEW y \in S, Newer(x, y) PROVE FALSE
  <2>1. Ahead(S, x) \subseteq Ahead(S, y) /\ x \in Ahead(S, y) /\ x \notin Ahead(S, x)
    BY <1>4, NewerIsStrict DEF Ordered, Ahead
  <2>2. IsFiniteSet(S \ Ahead(S, x))
    BY FS_Subset DEF Ordered
  <2>3. S \ Ahead(S, y) \subseteq S \ Ahead(S, x) /\ S \ Ahead(S, y) # S \ Ahead(S, x)
    BY <2>1
  <2>4. Rest(y) < Rest(x)
    BY <2>2, <2>3, FS_Subset, FS_CardinalityType
  <2>5. Rest(x) <= Rest(y) /\ Rest(x) \in Nat /\ Rest(y) \in Nat
    BY <1>1, <1>3
  <2> HIDE DEF Rest
  <2> QED BY <2>4, <2>5
<1> QED BY <1>4

\* What a limited query returns: rows, with all that are newer than any.
LEMMA NewestIsUpward ==
  ASSUME NEW S, Ordered(S), NEW n \in Nat
  PROVE  /\ Newest(S, n) \subseteq S /\ Ordered(Newest(S, n))
         /\ \A x \in Newest(S, n), y \in S : Newer(y, x) => y \in Newest(S, n)
<1>1. Newest(S, n) \subseteq S
  BY DEF Newest
<1>2. Ordered(Newest(S, n))
  BY <1>1, FS_Subset DEF Ordered
<1>3. ASSUME NEW x \in Newest(S, n), NEW y \in S, Newer(y, x) PROVE y \in Newest(S, n)
  <2>1. /\ Cardinality(Ahead(S, y)) \in Nat /\ Cardinality(Ahead(S, x)) \in Nat
        /\ Cardinality(Ahead(S, y)) < Cardinality(Ahead(S, x))
    BY <1>1, <1>3, AheadGrows
  <2>2. Cardinality(Ahead(S, x)) < n
    BY DEF Newest, Ahead
  <2>3. Cardinality(Ahead(S, y)) < n
    BY <2>1, <2>2
  <2> QED BY <2>3 DEF Newest, Ahead
<1> QED BY <1>1, <1>2, <1>3

\* A query for more rows than there are, or than it returns, returns all.
LEMMA NewestIsAll ==
  ASSUME NEW S, Ordered(S), NEW n \in Nat
  PROVE  /\ Cardinality(S) <= n => Newest(S, n) = S
         /\ Cardinality(Newest(S, n + 1)) <= n => Newest(S, n + 1) = S
<1>1. ASSUME Cardinality(S) <= n, NEW x \in S PROVE x \in Newest(S, n)
  <2>1. Ahead(S, x) \subseteq S /\ Ahead(S, x) # S
    BY NewerIsStrict DEF Ordered, Ahead
  <2>2. Cardinality(Ahead(S, x)) < Cardinality(S) /\ Cardinality(Ahead(S, x)) \in Nat
        /\ Cardinality(S) \in Nat
    BY <2>1, FS_Subset, FS_CardinalityType DEF Ordered
  <2>3. Cardinality(Ahead(S, x)) < n
    BY <1>1, <2>2
  <2> QED BY <2>3 DEF Newest, Ahead
<1>2. ASSUME Cardinality(Newest(S, n + 1)) <= n, S \ Newest(S, n + 1) # {} PROVE FALSE
  <2>1. Ordered(S \ Newest(S, n + 1))
    BY FS_Subset DEF Ordered
  <2>2. PICK x \in S \ Newest(S, n + 1) : \A y \in S \ Newest(S, n + 1) : ~Newer(y, x)
    BY <1>2, <2>1, HasNewest
  <2>3. Ahead(S, x) \subseteq Newest(S, n + 1)
    BY <2>2 DEF Ahead
  <2>4. IsFiniteSet(Newest(S, n + 1))
    BY FS_Subset DEF Newest, Ordered
  <2>5. Cardinality(Ahead(S, x)) <= Cardinality(Newest(S, n + 1))
        /\ Cardinality(Ahead(S, x)) \in Nat /\ Cardinality(Newest(S, n + 1)) \in Nat
    BY <2>3, <2>4, FS_Subset, FS_CardinalityType
  <2>6. Cardinality(Ahead(S, x)) < n + 1
    BY <1>2, <2>5
  <2> QED BY <2>6, <2>2 DEF Newest, Ahead
<1> QED BY <1>1, <1>2 DEF Newest
-----------------------------------------------------------------------------
(* Types.                                                                    *)

LTyped == LedgerTypeOK /\ work = [w \in LedgerWorkers |-> work[w]]

\* The rows of a unit are rows of the two tables.
LEMMA UnitsAreTyped ==
  ASSUME lastRow \in Nat,
         NEW c \in [pc : {"inserted"}, trace : Traces, path : Paths, decision : Decisions,
                    source : Traces \cup {NoSource}, created : 0..MaxDay,
                    fresh : BOOLEAN, stamped : 0..MaxDay, id : Nat]
  PROVE  /\ RunRow(c) \in RunRows /\ UnitEvents(c) \subseteq EventRows
         /\ AcceptedAnswer(c) \in [trace : Traces, path : Paths, decision : Decisions,
                                   created : 0..MaxDay]
<1>1. EventRow(c, "completed", lastRow + 1) \in EventRows
  BY DEF EventRow, EventRows
<1>2. EventRow(c, "replay", lastRow + 2) \in EventRows
  BY DEF EventRow, EventRows
<1> QED BY <1>1, <1>2 DEF RunRow, RunRows, UnitEvents, AcceptedAnswer

\* Types are kept by every step, the function of the workers among them.
THEOREM LedgerTyping == LedgerSpec => []LTyped
<1> USE LedgerConstants
<1>1. LedgerInit => LTyped
  BY DEF LedgerInit, LTyped, LedgerTypeOK, IdleWork
<1>2. ASSUME LTyped, [LedgerNext]_ledgerVars PROVE LTyped'
  <2>1. ASSUME NEW w \in LedgerWorkers, NEW t \in Traces, NEW p \in Paths, NEW d \in Decisions,
               NEW s \in Traces \cup {NoSource}, Begin(w, t, p, d, s)
        PROVE  LTyped'
    <3>1. requests' \in 0..MaxRequests
      BY <1>2, <2>1 DEF LTyped, LedgerTypeOK, Begin, MoreRequests
    <3> QED BY <1>2, <2>1, <3>1 DEF LTyped, LedgerTypeOK, Begin
  <2>2. ASSUME NEW w \in LedgerWorkers, InsertRun(w) PROVE LTyped'
    <3>1. work[w] \in [pc : {"computed"}, trace : Traces, path : Paths, decision : Decisions,
                       source : Traces \cup {NoSource}, created : 0..MaxDay]
      BY <1>2, <2>2 DEF LTyped, LedgerTypeOK, InsertRun, IdleWork
    <3>2. today \in 0..MaxDay /\ lastRow + 1 \in Nat
      BY <1>2 DEF LTyped, LedgerTypeOK
    <3>3. work'[w] \in [pc : {"inserted"}, trace : Traces, path : Paths, decision : Decisions,
                        source : Traces \cup {NoSource}, created : 0..MaxDay,
                        fresh : BOOLEAN, stamped : 0..MaxDay, id : Nat]
      BY <1>2, <2>2, <3>1, <3>2 DEF LTyped, InsertRun
    <3>4. \A v \in LedgerWorkers : v # w => work'[v] = work[v]
      BY <1>2, <2>2 DEF LTyped, InsertRun
    <3>5. work' = [v \in LedgerWorkers |-> work'[v]]
      BY <1>2, <2>2 DEF LTyped, InsertRun
    <3>6. UNCHANGED <<today, auditRuns, auditEvents, requests, answers, reader>> /\ lastRow' = lastRow + 1
      BY <2>2 DEF InsertRun
    <3> QED BY <1>2, <3>2, <3>3, <3>4, <3>5, <3>6 DEF LTyped, LedgerTypeOK
  <2>3. ASSUME NEW w \in LedgerWorkers, NEW answered, Finish(w, answered),
               answered \subseteq [trace : Traces, path : Paths, decision : Decisions, created : 0..MaxDay],
               auditRuns' \subseteq RunRows, auditEvents' \subseteq EventRows, lastRow' \in Nat
        PROVE  LTyped'
    <3>1. \A v \in LedgerWorkers : v # w => work'[v] = work[v]
      BY <1>2, <2>3 DEF LTyped, Finish
    <3>2. work'[w] = IdleWork /\ work' = [v \in LedgerWorkers |-> work'[v]]
      BY <1>2, <2>3 DEF LTyped, Finish
    <3> QED BY <1>2, <2>3, <3>1, <3>2 DEF LTyped, LedgerTypeOK, Finish
  <2>4. ASSUME NEW w \in LedgerWorkers, CommitUnit(w) PROVE LTyped'
    <3>1. work[w] \in [pc : {"inserted"}, trace : Traces, path : Paths, decision : Decisions,
                       source : Traces \cup {NoSource}, created : 0..MaxDay,
                       fresh : BOOLEAN, stamped : 0..MaxDay, id : Nat]
      BY <1>2, <2>4 DEF LTyped, LedgerTypeOK, CommitUnit, IdleWork
    <3>2. /\ RunRow(work[w]) \in RunRows /\ UnitEvents(work[w]) \subseteq EventRows
          /\ AcceptedAnswer(work[w]) \in [trace : Traces, path : Paths, decision : Decisions,
                                          created : 0..MaxDay]
      BY <1>2, <3>1, UnitsAreTyped DEF LTyped, LedgerTypeOK
    <3>3. auditRuns' \subseteq RunRows /\ auditEvents' \subseteq EventRows /\ lastRow' \in Nat
      BY <1>2, <2>4, <3>2, UnitsAreFew DEF LTyped, LedgerTypeOK, CommitUnit
    <3>4. PICK lost \in BOOLEAN : Finish(w, IF lost THEN {} ELSE {AcceptedAnswer(work[w])})
      BY <2>4 DEF CommitUnit, AnswerOrLost
    <3> QED BY <2>3, <3>2, <3>3, <3>4
  <2>5. ASSUME NEW w \in LedgerWorkers, AdoptUnit(w) \/ RollBack(w) PROVE LTyped'
    <3>1. auditRuns' \subseteq RunRows /\ auditEvents' \subseteq EventRows /\ lastRow' \in Nat
      BY <1>2, <2>5 DEF LTyped, LedgerTypeOK, AdoptUnit, RollBack
    <3>2. CASE RollBack(w)
      BY <2>3, <3>1, <3>2 DEF RollBack
    <3>3. CASE AdoptUnit(w)
      <4>1. PICK r \in StoredUnit(work[w]) : AnswerOrLost(w, r)
        BY <3>3 DEF AdoptUnit
      <4>2. PICK lost \in BOOLEAN : Finish(w, IF lost THEN {} ELSE {AcceptedAnswer(r)})
        BY <4>1 DEF AnswerOrLost
      <4>3. AcceptedAnswer(r) \in [trace : Traces, path : Paths, decision : Decisions,
                                   created : 0..MaxDay]
        BY <1>2 DEF StoredUnit, LTyped, LedgerTypeOK, RunRows, AcceptedAnswer
      <4> QED BY <2>3, <3>1, <4>2, <4>3
    <3> QED BY <2>5, <3>2, <3>3
  <2>6. ASSUME NEW t \in Traces, AppendEvent(t) PROVE LTyped'
    <3>1. requests' \in 0..MaxRequests
      BY <1>2, <2>6 DEF LTyped, LedgerTypeOK, AppendEvent, MoreRequests
    <3>2. auditEvents' \subseteq EventRows /\ lastRow' \in Nat
      BY <1>2, <2>6 DEF LTyped, LedgerTypeOK, AppendEvent, EventRows, Paths
    <3> QED BY <1>2, <2>6, <3>1, <3>2 DEF LTyped, LedgerTypeOK, AppendEvent
  <2>7. CASE ExecuteRetention \/ DeleteTenant
    <3>1. auditRuns' \subseteq auditRuns /\ auditEvents' \subseteq auditEvents /\ answers' \subseteq answers
      BY <2>7 DEF ExecuteRetention, DeleteTenant, Kept
    <3> QED BY <1>2, <2>7, <3>1 DEF LTyped, LedgerTypeOK, ExecuteRetention, DeleteTenant
  <2>8. CASE NextDay
    BY <1>2, <2>8 DEF LTyped, LedgerTypeOK, NextDay
  <2>9. CASE Reads
    <3>1. reader'.kind \in {"none", "export", "exported", "refused", "history", "listed"}
      <4>1. CASE \E f \in Traces \cup {NoSource}, b \in BOOLEAN : StartExport(f, b)
        BY <4>1 DEF StartExport
      <4>2. CASE FinishExport
        BY <4>2 DEF FinishExport
      <4>3. CASE StartHistory
        BY <4>3 DEF StartHistory
      <4>4. CASE ReadPage
        BY <4>4 DEF ReadPage
      <4>5. CASE DropReader
        BY <4>5 DEF DropReader
      <4> QED BY <2>9, <4>1, <4>2, <4>3, <4>4, <4>5 DEF Reads
    <3> QED BY <1>2, <2>9, <3>1 DEF LTyped, LedgerTypeOK, Reads, StartExport, FinishExport,
                                   StartHistory, ReadPage, DropReader
  <2>10. CASE UNCHANGED ledgerVars
    BY <1>2, <2>10 DEF LTyped, LedgerTypeOK, ledgerVars
  <2> QED
    BY <1>2, <2>1, <2>2, <2>4, <2>5, <2>6, <2>7, <2>8, <2>9, <2>10
       DEF LedgerNext, Reads, CompleteVerification, ReplayVerification, Paths
<1> QED BY <1>1, <1>2, PTL DEF LedgerSpec

\* The ledger, the completions, the answers and the reader keep their types,
\* for every number of workers, traces, requests and days.
THEOREM LedgerTypes == LedgerSpec => []LedgerTypeOK
<1>1. LTyped => LedgerTypeOK
  BY DEF LTyped
<1> QED BY <1>1, LedgerTyping, PTL
-----------------------------------------------------------------------------
(* What readers see.                                                         *)

\* The rows of a table, and of what has been read of it, are finitely many.
FewRows == IsFiniteSet(auditRuns) /\ IsFiniteSet(auditEvents)

\* An event of a unit is the only one of its kind with its key, and a replay
\* event stands with the completed event of the same transaction.
UnitsAgree ==
  /\ \A e, f \in auditEvents :
       e.type \in {"completed", "replay"} /\ f.type = e.type /\ Key(f) = Key(e) => e = f
  /\ \A e \in Replayed(auditEvents) :
       /\ e.path = Replay
       /\ \E c \in Completed(auditEvents) :
            Key(c) = Key(e) /\ c.decision = e.decision /\ c.created = e.created

\* The sequence gives a completed event a number of its own.
RowsAreNumbered ==
  /\ \A e \in Completed(auditEvents) : e.id <= lastRow
  /\ \A e, f \in Completed(auditEvents) : e.id = f.id => e = f

\* An export under way will be found sound, unless it saw a split unit.
ExportIsSound ==
  reader.kind = "export" /\ ~reader.split =>
    SnapshotIsSound(Newest(reader.runs, ExportCap), Newest(ExportedEvents(reader), ExportCap),
                    /\ reader.withEvents
                    /\ Cardinality(reader.runs) <= ExportCap
                    /\ Cardinality(ExportedEvents(reader)) <= ExportCap)

\* Where a walk over the pages of the history is: what it has seen is at or
\* above the cursor, and what is due and still there is below it or seen.
HistoryIsAt(x) ==
  /\ x.again = {}
  /\ \A e \in x.seen \cup x.after : e.created \in Int /\ e.id \in Int
  /\ \A e \in x.seen, y \in x.after : e = y \/ Newer(e, y)
  /\ x.after = {} => x.seen = {}
  /\ \A e \in x.due : e.type = "completed" /\ e.id \in 0..lastRow
  /\ \A e \in x.due \cap auditEvents : e \in x.seen \/ \A y \in x.after : Newer(y, e)

ReaderIsRight ==
  /\ ExportIsSound
  /\ reader.kind = "history" => HistoryIsAt(reader)
  /\ RefusedExportsSawASplitUnit /\ HistoryPagesAreComplete

RInv == FewRows /\ UnitsAgree /\ RowsAreNumbered /\ ReaderIsRight

\* Rows that have different keys are as many as their keys.
LEMMA KeysCount ==
  ASSUME NEW rows, IsFiniteSet(rows), \A x, y \in rows : Key(x) = Key(y) => x = y
  PROVE  Cardinality(Keys(rows)) = Cardinality(rows)
<1> DEFINE f == [x \in rows |-> Key(x)]
<1>1. f \in [rows -> Keys(rows)] /\ (\A x \in rows : f[x] = Key(x))
  BY DEF Keys
<1>2. f \in Injection(rows, Keys(rows))
  <2>1. f \in [rows -> Keys(rows)] /\ (\A x, y \in rows : f[x] = f[y] => x = y)
    BY <1>1
  <2> HIDE DEF f
  <2>2. DOMAIN f = rows
    BY <2>1
  <2> QED BY <2>1, <2>2 DEF Injection, IsInjective
<1>3. f \in Surjection(rows, Keys(rows))
  <2>1. \A k \in Keys(rows) : \E x \in rows : f[x] = k
    BY <1>1 DEF Keys
  <2> HIDE DEF f
  <2> QED BY <1>1, <2>1 DEF Surjection
<1> QED BY <1>2, <1>3, FS_Surjection

\* The data steps leave the numbering behind them: every completed event that
\* a step adds has a number that was not given before.
Grows ==
  /\ lastRow <= lastRow'
  /\ \A e \in Completed(auditEvents') : e \in auditEvents \/ e.id > lastRow

Sound == FewRows /\ UnitsAgree /\ RowsAreNumbered

\* A unit is committed only where none of its kind is stored, with new numbers.
LEMMA CommitIsSound ==
  ASSUME LTyped, Sound, NEW w \in LedgerWorkers, CommitUnit(w) PROVE Sound' /\ Grows
<1> DEFINE c == work[w]
           e1 == EventRow(c, "completed", lastRow + 1)
           e2 == EventRow(c, "replay", lastRow + 2)
<1>1. /\ auditRuns' = auditRuns \cup {RunRow(c)} /\ auditEvents' = auditEvents \cup UnitEvents(c)
      /\ lastRow' = lastRow + Cardinality(UnitEvents(c))
      /\ \A e \in UnitEvents(c) : ~Occupied(e)
  BY DEF CommitUnit
<1>2. IsFiniteSet(UnitEvents(c)) /\ lastRow \in Nat /\ lastRow' \in Nat /\ lastRow' >= lastRow + 1
  BY <1>1, UnitsAreFew DEF LTyped, LedgerTypeOK
<1>3. FewRows'
  BY <1>1, <1>2, FS_Union, FS_AddElement DEF Sound, FewRows
<1>4. /\ UnitEvents(c) \subseteq {e1, e2} /\ e1 \in UnitEvents(c)
      /\ e2 \in UnitEvents(c) => c.path = Replay
  BY DEF UnitEvents, EventRow
<1>5. /\ e1.type = "completed" /\ e2.type = "replay" /\ Key(e1) = Key(c) /\ Key(e2) = Key(c)
      /\ e1.id = lastRow + 1 /\ e2.path = c.path /\ e1.decision = e2.decision
      /\ e1.created = e2.created
  BY DEF EventRow, Key
<1>6. \A e \in UnitEvents(c), f \in auditEvents : f.type = e.type => Key(f) # Key(e)
  BY <1>1 DEF Occupied
<1> HIDE DEF e1, e2, c
<1>7. UnitsAgree'
  <2>1. \A e, f \in auditEvents' :
          e.type \in {"completed", "replay"} /\ f.type = e.type /\ Key(f) = Key(e) => e = f
    BY <1>1, <1>4, <1>5, <1>6 DEF Sound, UnitsAgree
  <2>2. \A e \in Replayed(auditEvents') :
          /\ e.path = Replay
          /\ \E d \in Completed(auditEvents') :
               Key(d) = Key(e) /\ d.decision = e.decision /\ d.created = e.created
    <3> TAKE e \in Replayed(auditEvents')
    <3>1. CASE e \in Replayed(auditEvents)
      BY <1>1, <3>1 DEF Sound, UnitsAgree, Completed
    <3>2. CASE e \notin Replayed(auditEvents)
      <4>1. e = e2 /\ c.path = Replay
        BY <1>1, <1>4, <1>5, <3>2 DEF Replayed
      <4>2. e1 \in Completed(auditEvents')
        BY <1>1, <1>4, <1>5 DEF Completed
      <4> QED BY <1>5, <4>1, <4>2
    <3> QED BY <3>1, <3>2
  <2> QED BY <2>1, <2>2 DEF UnitsAgree
<1>8. \A e \in Completed(auditEvents') : e \in Completed(auditEvents) \/ e = e1
  BY <1>1, <1>4, <1>5 DEF Completed
<1>9. \A e \in Completed(auditEvents) : e.id \in Nat /\ e.id <= lastRow
  BY DEF LTyped, LedgerTypeOK, EventRows, Completed, Sound, RowsAreNumbered
<1>10. RowsAreNumbered'
  <2>1. \A e \in Completed(auditEvents') : e.id <= lastRow'
    BY <1>2, <1>5, <1>8, <1>9
  <2>2. \A e \in Completed(auditEvents) : e.id # e1.id
    BY <1>2, <1>5, <1>9
  <2> QED BY <1>8, <2>1, <2>2 DEF Sound, RowsAreNumbered
<1>11. Grows
  BY <1>2, <1>5, <1>8 DEF Grows, Completed
<1> QED BY <1>3, <1>7, <1>10, <1>11 DEF Sound

\* Other events have a type of their own; a replay event and the completed
\* one of its unit have one age, so that retention takes both.
LEMMA OtherWritesAreSound ==
  ASSUME LTyped, Sound,
         (\E t \in Traces : AppendEvent(t)) \/ ExecuteRetention \/ DeleteTenant
  PROVE  Sound' /\ Grows
<1>1. CASE \E t \in Traces : AppendEvent(t)
  <2> PICK t \in Traces : AppendEvent(t)
    BY <1>1
  <2> DEFINE n == [trace |-> t, path |-> Run, decision |-> NoSource, source |-> NoSource,
                   created |-> today, id |-> lastRow + 1, type |-> "other"]
  <2>1. auditEvents' = auditEvents \cup {n} /\ auditRuns' = auditRuns /\ lastRow' = lastRow + 1
    BY DEF AppendEvent
  <2>2. n.type = "other"
    OBVIOUS
  <2> HIDE DEF n
  <2>3. Completed(auditEvents') = Completed(auditEvents) /\ Replayed(auditEvents') = Replayed(auditEvents)
    BY <2>1, <2>2 DEF Completed, Replayed
  <2>4. FewRows'
    BY <2>1, FS_AddElement DEF Sound, FewRows
  <2>5. UnitsAgree'
    BY <2>1, <2>2, <2>3 DEF Sound, UnitsAgree
  <2>6. lastRow \in Nat /\ \A e \in Completed(auditEvents) : e.id \in Nat
    BY DEF LTyped, LedgerTypeOK, EventRows, Completed
  <2>7. RowsAreNumbered' /\ Grows
    BY <2>1, <2>3, <2>6 DEF Sound, RowsAreNumbered, Grows, Completed
  <2> QED BY <2>4, <2>5, <2>7 DEF Sound
<1>2. CASE ExecuteRetention \/ DeleteTenant
  <2>1. /\ auditRuns' \subseteq auditRuns /\ auditEvents' \subseteq auditEvents /\ lastRow' = lastRow
        /\ \A e, c \in auditEvents : e \in auditEvents' /\ c.created = e.created => c \in auditEvents'
    BY <1>2 DEF ExecuteRetention, DeleteTenant, Kept
  <2>2. lastRow \in Nat
    BY DEF LTyped, LedgerTypeOK
  <2>3. FewRows'
    BY <2>1, FS_Subset DEF Sound, FewRows
  <2>4. UnitsAgree'
    BY <2>1 DEF Sound, UnitsAgree, Completed, Replayed
  <2>5. RowsAreNumbered' /\ Grows
    BY <2>1, <2>2 DEF Sound, RowsAreNumbered, Grows, Completed
  <2> QED BY <2>3, <2>4, <2>5 DEF Sound
<1> QED BY <1>1, <1>2

\* A reader that only waits stays right while others write.
LEMMA WaitingReaderIsRight ==
  ASSUME LTyped, ReaderIsRight, Grows, lastRow' \in Nat, reader' = reader
  PROVE  ReaderIsRight'
<1>1. reader.kind = "history" => HistoryIsAt(reader)'
  <2> SUFFICES ASSUME HistoryIsAt(reader) PROVE HistoryIsAt(reader)'
    BY DEF ReaderIsRight
  <2>1. \A e \in reader.due : e.type = "completed" /\ e.id \in 0..lastRow
    BY DEF HistoryIsAt
  <2>2. \A e \in reader.due \cap auditEvents' : e \in reader.due \cap auditEvents
    BY <2>1 DEF Grows, Completed, LTyped, LedgerTypeOK
  <2> QED BY <2>1, <2>2 DEF HistoryIsAt, Grows, LTyped, LedgerTypeOK
<1> QED BY <1>1 DEF ReaderIsRight, ExportIsSound, ExportedEvents, RefusedExportsSawASplitUnit,
                   HistoryPagesAreComplete

\* The tables can be listed.
LEMMA TablesAreOrdered ==
  ASSUME LTyped, FewRows, NEW f, NEW S,
         \/ S \subseteq auditRuns \/ S \subseteq auditEvents
  PROVE  Ordered(S)
<1>1. IsFiniteSet(S)
  BY FS_Subset DEF FewRows
<1> QED BY <1>1 DEF Ordered, LTyped, LedgerTypeOK, RunRows, EventRows

\* Equal keys are of equal traces and paths.
LEMMA KeysAgree ==
  ASSUME NEW x, NEW y, Key(x) = Key(y) PROVE x.trace = y.trace /\ x.path = y.path
BY DEF Key

\* Whatever rows an export shows agree with each other; only that it shows
\* the same units of both tables is left to see.
LEMMA RowsAgree ==
  ASSUME LInv, LTyped, FewRows, UnitsAgree,
         NEW rs \in SUBSET auditRuns, NEW es \in SUBSET auditEvents, NEW whole,
         whole => /\ Keys(rs) = Keys(Completed(es))
                  /\ {k \in Keys(rs) : k[2] = Replay} = Keys(Replayed(es))
  PROVE  SnapshotIsSound(rs, es, whole)
<1>1. IsFiniteSet(rs) /\ IsFiniteSet(Completed(es)) /\ IsFiniteSet(Replayed(es))
  BY FS_Subset DEF FewRows, Completed, Replayed
<1>2. \A x, y \in rs : Key(x) = Key(y) => x = y
  BY DEF LInv, AnswersHaveRuns
<1>3. \A x, y \in Completed(es) : Key(x) = Key(y) => x = y
  BY DEF UnitsAgree, Completed
<1>4. \A x, y \in Replayed(es) : Key(x) = Key(y) => x = y
  BY DEF UnitsAgree, Replayed
<1>5. \A rows \in {rs, Completed(es), Replayed(es)} : Cardinality(Keys(rows)) = Cardinality(rows)
  BY <1>1, <1>2, <1>3, <1>4, KeysCount
<1>6. ASSUME NEW r \in rs, NEW e \in Completed(es), Key(r) = Key(e) PROVE r.decision = e.decision
  <2>1. PICK d \in auditEvents : OfUnit(d, r, "completed")
    BY DEF LInv, UnitsAreWhole
  <2>2. d = e
    BY <1>6, <2>1 DEF OfUnit, UnitsAgree, Completed
  <2> QED BY <2>1, <2>2 DEF OfUnit
<1>7. ASSUME NEW r \in rs, NEW e \in Replayed(es), Key(r) = Key(e)
      PROVE  r.decision = e.decision /\ r.source = e.source
  <2>1. r.path = Replay
    BY <1>7, KeysAgree DEF UnitsAgree, Replayed
  <2>2. PICK d \in auditEvents : OfUnit(d, r, "replay")
    BY <2>1 DEF LInv, UnitsAreWhole
  <2>3. d = e
    BY <1>7, <2>2 DEF OfUnit, UnitsAgree, Replayed
  <2> QED BY <2>2, <2>3 DEF OfUnit
<1>8. ASSUME NEW c \in Completed(es), NEW e \in Replayed(es), Key(c) = Key(e)
      PROVE  c.decision = e.decision
  <2>1. PICK d \in Completed(auditEvents) : Key(d) = Key(e) /\ d.decision = e.decision
    BY DEF UnitsAgree, Replayed
  <2>2. d = c
    BY <1>8, <2>1 DEF UnitsAgree, Completed
  <2> QED BY <2>1, <2>2
<1> QED BY <1>5, <1>6, <1>7, <1>8 DEF SnapshotIsSound

\* Both tables have the same units of a trace unless retention split one.
LEMMA UnitsMatch ==
  ASSUME LInv, UnitsAgree, NEW f, SplitUnits(f) = {},
         NEW rs, rs = OfTrace(auditRuns, f), NEW es, es = OfTrace(auditEvents, f)
  PROVE  /\ Keys(rs) = Keys(Completed(es))
         /\ {k \in Keys(rs) : k[2] = Replay} = Keys(Replayed(es))
<1>1. ASSUME NEW r \in rs PROVE \E e \in Completed(es) : Key(e) = Key(r)
  <2>1. PICK e \in auditEvents : OfUnit(e, r, "completed")
    BY DEF LInv, UnitsAreWhole, OfTrace
  <2>2. e.trace = r.trace /\ e.type = "completed" /\ Key(e) = Key(r)
    BY <2>1, KeysAgree DEF OfUnit
  <2> QED BY <2>2 DEF OfTrace, Completed
<1>2. Keys(Completed(es)) \subseteq Keys(rs)
  BY DEF SplitUnits
<1>3. Keys(rs) = Keys(Completed(es))
  BY <1>1, <1>2 DEF Keys
<1>4. ASSUME NEW r \in rs, r.path = Replay PROVE \E e \in Replayed(es) : Key(e) = Key(r)
  <2>1. PICK e \in auditEvents : OfUnit(e, r, "replay")
    BY <1>4 DEF LInv, UnitsAreWhole, OfTrace
  <2>2. e.trace = r.trace /\ e.type = "replay" /\ Key(e) = Key(r)
    BY <2>1, KeysAgree DEF OfUnit
  <2> QED BY <2>2 DEF OfTrace, Replayed
<1>5. ASSUME NEW e \in Replayed(es) PROVE e.path = Replay /\ \E r \in rs : Key(r) = Key(e)
  <2>1. e \in Replayed(auditEvents)
    BY DEF Replayed, OfTrace
  <2>2. PICK c \in Completed(auditEvents) : Key(c) = Key(e)
    BY <2>1 DEF UnitsAgree
  <2>3. c.trace = e.trace
    BY <2>2, KeysAgree
  <2>4. c \in Completed(es)
    BY <2>3 DEF Completed, Replayed, OfTrace
  <2>5. Key(e) \in Keys(rs)
    BY <1>2, <2>2, <2>4 DEF Keys
  <2> QED BY <2>1, <2>5 DEF Keys, UnitsAgree
<1>6. \A x : Key(x)[2] = x.path
  BY DEF Key
<1>7. {k \in Keys(rs) : k[2] = Replay} = Keys(Replayed(es))
  BY <1>4, <1>5, <1>6 DEF Keys
<1> QED BY <1>3, <1>7

\* An export starts with what it will be found to show, whether the caps cut
\* it short or not.
LEMMA StartExportIsRight ==
  ASSUME LInv, LTyped, Sound, NEW f \in Traces \cup {NoSource}, NEW b \in BOOLEAN,
         StartExport(f, b)
  PROVE  ExportIsSound'
<1> USE LedgerConstants
<1> DEFINE R == OfTrace(auditRuns, f)
           E == IF b THEN OfTrace(auditEvents, f) ELSE {}
           runs == Newest(R, ExportCap + 1)
           snapshot == IF b THEN Newest(OfTrace(auditEvents, f), ExportCap + 1) ELSE {}
           whole == b /\ Cardinality(runs) <= ExportCap /\ Cardinality(snapshot) <= ExportCap
           rs == Newest(runs, ExportCap)
           es == Newest(snapshot, ExportCap)
<1>1. R \subseteq auditRuns /\ OfTrace(auditEvents, f) \subseteq auditEvents
  BY DEF OfTrace
<1>2. Ordered(R) /\ Ordered(OfTrace(auditEvents, f))
  BY <1>1, TablesAreOrdered DEF Sound
<1>3. ExportCap \in Nat /\ ExportCap + 1 \in Nat
  OBVIOUS
<1>4. runs \subseteq R /\ Ordered(runs) /\ snapshot \subseteq OfTrace(auditEvents, f)
  BY <1>2, <1>3, NewestIsUpward
<1>5. rs \subseteq auditRuns /\ es \subseteq auditEvents
  BY <1>1, <1>4 DEF Newest
<1>6. ASSUME whole PROVE rs = R /\ es = OfTrace(auditEvents, f)
  <2>1. runs = R /\ snapshot = OfTrace(auditEvents, f)
    BY <1>2, <1>3, <1>6, NewestIsAll
  <2> QED BY <1>2, <1>3, <1>6, <2>1, NewestIsAll
<1>7. ASSUME SplitUnits(f) = {} PROVE SnapshotIsSound(rs, es, whole)
  <2>1. whole => /\ Keys(rs) = Keys(Completed(es))
                 /\ {k \in Keys(rs) : k[2] = Replay} = Keys(Replayed(es))
    BY <1>6, <1>7, UnitsMatch DEF Sound
  <2> HIDE DEF rs, es, whole
  <2> QED BY <1>5, <2>1, RowsAgree DEF Sound
<1>8. /\ reader'.split <=> SplitUnits(f) # {}
      /\ reader'.runs = runs /\ reader'.snapshot = snapshot /\ reader'.withEvents = b
  BY DEF StartExport
<1> QED BY <1>7, <1>8 DEF ExportIsSound, ExportedEvents

\* An export ends as it was bound to, a walk begins with nothing seen.
LEMMA OtherReadsAreRight ==
  ASSUME LTyped, Sound, ReaderIsRight, FinishExport \/ StartHistory \/ DropReader
  PROVE  ReaderIsRight'
<1>1. CASE FinishExport
  <2> DEFINE es == ExportedEvents(reader)
             whole == /\ reader.withEvents
                      /\ Cardinality(reader.runs) <= ExportCap
                      /\ Cardinality(es) <= ExportCap
             sound == SnapshotIsSound(Newest(reader.runs, ExportCap), Newest(es, ExportCap), whole)
  <2>1. /\ reader.kind = "export" /\ reader'.split = reader.split
        /\ reader'.kind = IF sound THEN "exported" ELSE "refused"
    BY <1>1 DEF FinishExport
  <2>2. ~reader.split => sound
    BY <2>1 DEF ReaderIsRight, ExportIsSound
  <2> HIDE DEF sound
  <2>3. reader'.kind = "refused" => reader'.split
    BY <2>1, <2>2
  <2>4. reader'.kind \in {"exported", "refused"}
    BY <2>1
  <2> QED BY <2>3, <2>4 DEF ReaderIsRight, ExportIsSound, RefusedExportsSawASplitUnit,
                            HistoryPagesAreComplete
<1>2. CASE StartHistory
  <2>1. /\ reader'.kind = "history" /\ reader'.due = Completed(auditEvents)
        /\ reader'.seen = {} /\ reader'.again = {} /\ reader'.after = {}
        /\ auditEvents' = auditEvents /\ lastRow' = lastRow
    BY <1>2 DEF StartHistory
  <2>2. \A e \in Completed(auditEvents) : e.type = "completed" /\ e.id \in 0..lastRow
    BY DEF Sound, RowsAreNumbered, Completed, LTyped, LedgerTypeOK, EventRows
  <2>3. HistoryIsAt(reader)'
    BY <2>1, <2>2 DEF HistoryIsAt
  <2> QED BY <2>1, <2>3 DEF ReaderIsRight, ExportIsSound, RefusedExportsSawASplitUnit,
                            HistoryPagesAreComplete
<1>3. CASE DropReader
  <2>1. reader'.kind = "none"
    BY <1>3 DEF DropReader
  <2> QED BY <2>1 DEF ReaderIsRight, ExportIsSound, RefusedExportsSawASplitUnit,
                      HistoryPagesAreComplete
<1> QED BY <1>1, <1>2, <1>3

\* A page continues the walk: it shows what is next below the cursor, leaves
\* the cursor at its oldest row, and is the last one only if it shows all that
\* is left.
LEMMA ReadPageIsRight ==
  ASSUME LTyped, Sound, ReaderIsRight, ReadPage PROVE ReaderIsRight'
<1> USE LedgerConstants
<1> DEFINE x == reader
           B == Behind(Completed(auditEvents), x.after)
           found == Newest(B, PageLimit + 1)
           page == Newest(found, PageLimit)
           cursor == {e \in page : \A y \in page : y = e \/ Newer(y, e)}
           more == Cardinality(found) > PageLimit
<1>1. /\ x.kind = "history" /\ reader'.kind = IF more THEN "history" ELSE "listed"
      /\ reader'.due = x.due \cap auditEvents /\ reader'.seen = x.seen \cup page
      /\ reader'.again = x.again \cup (x.seen \cap page) /\ reader'.after = cursor
      /\ auditEvents' = auditEvents /\ lastRow' = lastRow
  BY DEF ReadPage
<1>2. HistoryIsAt(x)
  BY <1>1 DEF ReaderIsRight
<1>3. B \subseteq Completed(auditEvents) /\ B \subseteq auditEvents
  BY DEF Behind, Completed
<1>4. PageLimit \in Nat /\ PageLimit + 1 \in Nat
  OBVIOUS
<1>5. Ordered(B)
  BY <1>3, TablesAreOrdered DEF Sound
<1>6. /\ found \subseteq B /\ Ordered(found)
      /\ \A e \in found, y \in B : Newer(y, e) => y \in found
  BY <1>4, <1>5, NewestIsUpward
<1>7. /\ page \subseteq found /\ Ordered(page)
      /\ \A e \in page, y \in found : Newer(y, e) => y \in page
  BY <1>4, <1>6, NewestIsUpward
<1>8. \A e, y \in B : e = y \/ Newer(e, y) \/ Newer(y, e)
  BY <1>3, <1>5, NewerIsStrict DEF Ordered, Sound, RowsAreNumbered
<1>9. ~more => page = B
  <2>1. Cardinality(found) \in Nat
    BY <1>6, FS_CardinalityType DEF Ordered
  <2>2. ~more => Cardinality(found) <= PageLimit
    BY <1>4, <2>1
  <2>3. ~more => found = B
    BY <1>4, <1>5, <2>2, NewestIsAll
  <2>4. ~more => page = found
    BY <1>4, <1>6, <2>2, NewestIsAll
  <2> QED BY <2>3, <2>4
<1>10. more => cursor # {}
  <2> SUFFICES ASSUME more PROVE cursor # {}
    OBVIOUS
  <2>1. found # {}
    <3>1. Cardinality({}) = 0
      BY FS_EmptySet
    <3>2. Cardinality(found) # Cardinality({})
      BY <1>4, <3>1
    <3> QED BY <3>2
  <2>2. page # {}
    <3>1. PICK e \in found : \A y \in found : ~Newer(y, e)
      BY <1>6, <2>1, HasNewest
    <3>2. {y \in found : Newer(y, e)} = {}
      BY <3>1
    <3>3. Cardinality({y \in found : Newer(y, e)}) = 0
      BY <3>2, FS_EmptySet
    <3> HIDE DEF found
    <3>4. e \in page
      BY <1>4, <3>3 DEF Newest
    <3> QED BY <3>4
  <2>3. PICK e \in page : \A y \in page : ~Newer(e, y)
    BY <1>7, <2>2, HasOldest
  <2>4. e \in cursor
    BY <1>6, <1>7, <1>8, <2>3
  <2> QED BY <2>4
<1> HIDE DEF page, found, more
<1>11. x.seen \cap page = {}
  <2> SUFFICES ASSUME NEW e \in page, e \in x.seen PROVE FALSE
    OBVIOUS
  <2>1. PICK y \in x.after : e = y \/ Newer(e, y)
    BY <1>2 DEF HistoryIsAt
  <2>2. Newer(y, e)
    BY <1>6, <1>7 DEF Behind
  <2>3. /\ e.created \in Int /\ e.id \in Int /\ y.created \in Int /\ y.id \in Int
    BY <1>2 DEF HistoryIsAt
  <2> QED BY <2>1, <2>2, <2>3, NewerIsStrict
<1>12. \A e \in x.due \cap auditEvents : e \in x.seen \/ e \in B
  BY <1>2 DEF HistoryIsAt, Behind, Completed
<1>13. HistoryIsAt(reader)' \/ ~more
  <2> SUFFICES ASSUME more PROVE HistoryIsAt(reader)'
    OBVIOUS
  <2>1. \A e \in x.seen \cup page : e.created \in Int /\ e.id \in Int
    BY <1>2, <1>7 DEF HistoryIsAt, Ordered
  <2>2. ASSUME NEW e \in x.seen, NEW y \in cursor PROVE Newer(e, y)
    <3>1. PICK z \in x.after : e = z \/ Newer(e, z)
      BY <1>2 DEF HistoryIsAt
    <3>2. Newer(z, y)
      BY <1>6, <1>7 DEF Behind
    <3>3. /\ e.created \in Int /\ e.id \in Int /\ z.created \in Int /\ z.id \in Int
          /\ y.created \in Int /\ y.id \in Int
      BY <1>2, <2>1 DEF HistoryIsAt
    <3> QED BY <3>1, <3>2, <3>3, NewerIsStrict
  <2>3. \A e \in page, y \in cursor : e = y \/ Newer(e, y)
    OBVIOUS
  <2>4. ASSUME NEW e \in x.due \cap auditEvents, e \notin x.seen \cup page, NEW y \in cursor
        PROVE  Newer(y, e)
    <3>1. e \in B /\ y \in B /\ y \in found /\ y \in page
      BY <1>6, <1>7, <1>12, <2>4
    <3>2. ~Newer(e, y)
      BY <1>6, <1>7, <2>4, <3>1
    <3> QED BY <1>8, <2>4, <3>1, <3>2
  <2>5. cursor \subseteq page
    OBVIOUS
  <2>6. \A e \in x.due : e.type = "completed" /\ e.id \in 0..lastRow
    BY <1>2 DEF HistoryIsAt
  <2> HIDE DEF cursor
  <2>7. x.again \cup (x.seen \cap page) = {}
    BY <1>2, <1>11 DEF HistoryIsAt
  <2> QED BY <1>1, <1>10, <2>1, <2>2, <2>3, <2>4, <2>5, <2>6, <2>7 DEF HistoryIsAt
<1>14. ~more => x.due \cap auditEvents \subseteq x.seen \cup page
  BY <1>9, <1>12
<1>15. reader'.again = {}
  BY <1>1, <1>2, <1>11 DEF HistoryIsAt
<1>16. /\ reader'.kind \in {"history", "listed"} /\ (reader'.kind = "history" => more)
       /\ (reader'.kind = "listed" => ~more)
  BY <1>1
<1>17. RefusedExportsSawASplitUnit' /\ ExportIsSound'
  BY <1>16 DEF RefusedExportsSawASplitUnit, ExportIsSound
<1>18. HistoryPagesAreComplete'
  BY <1>1, <1>14, <1>15, <1>16 DEF HistoryPagesAreComplete
<1> QED BY <1>13, <1>16, <1>17, <1>18 DEF ReaderIsRight

\* Every behaviour of the ledger satisfies what its readers rely on.
THEOREM ReadersAreRight == LedgerSpec => []RInv
<1>1. LedgerInit => RInv
  <2> SUFFICES ASSUME LedgerInit PROVE RInv
    OBVIOUS
  <2>1. Sound
    BY FS_EmptySet DEF LedgerInit, Sound, FewRows, UnitsAgree, RowsAreNumbered, Completed, Replayed
  <2>2. ReaderIsRight
    BY DEF LedgerInit, ReaderIsRight, ExportIsSound, RefusedExportsSawASplitUnit,
           HistoryPagesAreComplete
  <2> QED BY <2>1, <2>2 DEF RInv, Sound
<1>2. ASSUME RInv, LInv, LTyped, LTyped', [LedgerNext]_ledgerVars PROVE RInv'
  <2>1. Sound /\ ReaderIsRight /\ lastRow \in Nat /\ lastRow' \in Nat
    BY <1>2 DEF RInv, Sound, LTyped, LedgerTypeOK
  <2>2. CASE UNCHANGED <<auditRuns, auditEvents, reader>> /\ lastRow' \in {lastRow, lastRow + 1}
    <3>1. Sound'
      <4>1. \A e \in Completed(auditEvents) : e.id \in Nat
        BY <1>2 DEF LTyped, LedgerTypeOK, EventRows, Completed
      <4>2. RowsAreNumbered'
        BY <2>1, <2>2, <4>1 DEF Sound, RowsAreNumbered, Completed
      <4>3. FewRows' /\ UnitsAgree'
        BY <2>1, <2>2 DEF Sound, FewRows, UnitsAgree, Completed, Replayed
      <4> QED BY <4>2, <4>3 DEF Sound
    <3>2. Grows
      BY <2>1, <2>2 DEF Grows, Completed
    <3> QED BY <1>2, <2>1, <2>2, <3>1, <3>2, WaitingReaderIsRight DEF RInv, Sound
  <2>3. ASSUME NEW w \in LedgerWorkers, CommitUnit(w) PROVE RInv'
    <3>1. reader' = reader
      BY <2>3 DEF CommitUnit, AnswerOrLost, Finish
    <3> QED BY <1>2, <2>1, <2>3, <3>1, CommitIsSound, WaitingReaderIsRight DEF RInv, Sound
  <2>4. ASSUME (\E t \in Traces : AppendEvent(t)) \/ ExecuteRetention \/ DeleteTenant PROVE RInv'
    <3>1. reader' = reader
      BY <2>4 DEF AppendEvent, ExecuteRetention, DeleteTenant
    <3> QED BY <1>2, <2>1, <2>4, <3>1, OtherWritesAreSound, WaitingReaderIsRight DEF RInv, Sound
  <2>5. ASSUME Reads PROVE RInv'
    <3>1. Sound'
      BY <2>1, <2>5 DEF Reads, StartExport, FinishExport, StartHistory, ReadPage, DropReader,
         Sound, FewRows, UnitsAgree, RowsAreNumbered
    <3>2. ReaderIsRight'
      <4>1. ASSUME NEW f \in Traces \cup {NoSource}, NEW b \in BOOLEAN, StartExport(f, b)
            PROVE  ReaderIsRight'
        <5>1. ExportIsSound'
          BY <1>2, <2>1, <4>1, StartExportIsRight
        <5>2. reader'.kind = "export"
          BY <4>1 DEF StartExport
        <5> QED BY <5>1, <5>2 DEF ReaderIsRight, RefusedExportsSawASplitUnit, HistoryPagesAreComplete
      <4> QED BY <1>2, <2>1, <2>5, <4>1, OtherReadsAreRight, ReadPageIsRight DEF Reads
    <3> QED BY <3>1, <3>2 DEF RInv, Sound
  <2>6. ASSUME NEW w \in LedgerWorkers,
               \/ \E t \in Traces, d \in Decisions :
                    \/ CompleteVerification(w, t, d)
                    \/ \E s \in Traces : ReplayVerification(w, t, s, d)
               \/ InsertRun(w) \/ AdoptUnit(w) \/ RollBack(w)
        PROVE  RInv'
    <3>1. UNCHANGED <<auditRuns, auditEvents, reader>> /\ lastRow' \in {lastRow, lastRow + 1}
      BY <2>6 DEF CompleteVerification, ReplayVerification, Begin, InsertRun, AdoptUnit, RollBack,
                  AnswerOrLost, Finish
    <3> QED BY <2>2, <3>1
  <2>7. CASE NextDay
    BY <2>2, <2>7 DEF NextDay
  <2>8. CASE UNCHANGED ledgerVars
    BY <2>2, <2>8 DEF ledgerVars
  <2> QED
    BY <1>2, <2>3, <2>4, <2>5, <2>6, <2>7, <2>8 DEF LedgerNext, Reads
<1> QED BY <1>1, <1>2, LedgerTyping, LedgerInvariance, PTL DEF LedgerSpec

\* Neither the caps of an export, nor its trace filter, nor what commits
\* between its two reads makes a sound ledger look corrupt (load_snapshot,
\* _validate_snapshot_integrity): for every cap, and every number of rows.
THEOREM OnlySplitUnitsAreRefused == LedgerSpec => []RefusedExportsSawASplitUnit
<1>1. RInv => RefusedExportsSawASplitUnit
  BY DEF RInv, ReaderIsRight
<1> QED BY <1>1, ReadersAreRight, PTL

\* Walking the history page by page shows every completion that stays, and
\* none twice, for every page size and whatever commits or is deleted
\* meanwhile (load_event_page, list_verification_history).
THEOREM PagesAreComplete == LedgerSpec => []HistoryPagesAreComplete
<1>1. RInv => HistoryPagesAreComplete
  BY DEF RInv, ReaderIsRight
<1> QED BY <1>1, ReadersAreRight, PTL
-----------------------------------------------------------------------------
(* THE CORPUS GRANTS.                                                       *)

(* Type correctness                                                         *)

Mutations == {NoMutation} \cup Decided \cup Opened \cup Locked

(* The versions a corpus has are rows; the version of the latest is a number. *)
LEMMA LatestTyped ==
  ASSUME grantRows \subseteq GrantRow, NEW c \in Corpora
  PROVE  Latest(c) \subseteq GrantRow /\ VersionOf(Latest(c)) \in Nat
<1>1. Latest(c) \subseteq GrantRow
  BY DEF Latest, VersionsOf
<1>2. CASE Latest(c) = {}
  BY <1>1, <1>2 DEF VersionOf
<1>3. CASE Latest(c) # {}
  <2>1. (CHOOSE r \in Latest(c) : TRUE) \in GrantRow
    BY <1>1, <1>3
  <2> QED
    BY <1>1, <1>3, <2>1 DEF VersionOf, GrantRow
<1> QED
  BY <1>2, <1>3

(* The shapes a mutation passes through.                                      *)
LEMMA MutationFields ==
  ASSUME NEW m \in Mutations
  PROVE  /\ m # NoMutation => /\ m.corpus \in Corpora /\ m.op \in {"upsert", "disable"}
                              /\ m.saw \in SUBSET GrantRow /\ m.overtaken \in BOOLEAN
         /\ m.pc = "decided" => m \in Decided
         /\ m.pc = "open" => m \in Opened
         /\ m.pc = "locked" => m \in Locked
         /\ m.pc \in {"idle", "decided", "open", "locked"}
         /\ m.pc = "idle" <=> m = NoMutation
BY DEF Mutations, NoMutation, Decided, Opened, Locked

(* Being overtaken changes nothing else.                                      *)
LEMMA OvertakenTyped ==
  ASSUME NEW m \in Mutations, m # NoMutation
  PROVE  LET n == [m EXCEPT !.overtaken = TRUE]
         IN  /\ n \in Mutations /\ n # NoMutation /\ n.overtaken = TRUE
             /\ n.pc = m.pc /\ n.corpus = m.corpus /\ n.saw = m.saw
             /\ m.pc = "locked" => n.existing = m.existing
<1>1. CASE m \in Decided
  BY <1>1 DEF Mutations, Decided, NoMutation
<1>2. CASE m \in Opened
  BY <1>2 DEF Mutations, Opened, NoMutation
<1>3. CASE m \in Locked
  BY <1>3 DEF Mutations, Locked, NoMutation
<1> QED
  BY <1>1, <1>2, <1>3 DEF Mutations

(* Every step keeps types.                                                    *)
LEMMA GrantTypedStep == ASSUME GrantTypeOK, [GrantNext]_grantVars PROVE GrantTypeOK'
<1> USE GrantConstants
<1>T. /\ mutation \in [Admins -> Mutations] /\ grantRows \subseteq GrantRow
      /\ grantDay \in 0..MaxGrantDay /\ deletions \in 0..MaxDeletions
  BY DEF GrantTypeOK, Mutations
<1> SUFFICES /\ mutation' \in [Admins -> Mutations] /\ grantRows' \subseteq GrantRow
             /\ grantDay' \in 0..MaxGrantDay /\ deletions' \in 0..MaxDeletions
  BY DEF GrantTypeOK, Mutations, Decided, Opened, Locked, GrantRow, NoMutation
<1>1. ASSUME NEW a \in Admins, NEW c \in Corpora, NEW op \in {"upsert", "disable"}, Decide(a, c, op)
      PROVE  mutation' \in [Admins -> Mutations] /\ UNCHANGED <<grantDay, grantRows, deletions>>
  <2> DEFINE m == [pc |-> "decided", corpus |-> c, op |-> op, saw |-> Latest(c), overtaken |-> FALSE]
  <2>1. m \in Mutations
    BY <1>T, LatestTyped DEF Mutations, Decided
  <2>2. mutation' = [mutation EXCEPT ![a] = m] /\ UNCHANGED <<grantDay, grantRows, deletions>>
    BY <1>1 DEF Decide
  <2> HIDE DEF m
  <2> QED
    BY <1>T, <2>1, <2>2
<1>2. ASSUME NEW a \in Admins, OpenMutation(a)
      PROVE  mutation' \in [Admins -> Mutations] /\ UNCHANGED <<grantDay, grantRows, deletions>>
  <2> DEFINE m == [pc |-> "open", corpus |-> mutation[a].corpus, op |-> mutation[a].op,
                   saw |-> mutation[a].saw, overtaken |-> mutation[a].overtaken, began |-> grantDay]
  <2>1. mutation[a] \in Mutations /\ mutation[a] # NoMutation
    BY <1>T, <1>2 DEF OpenMutation, NoMutation
  <2>2. m \in Opened
    BY <1>T, <2>1, MutationFields DEF Opened
  <2>3. mutation' = [mutation EXCEPT ![a] = m] /\ UNCHANGED <<grantDay, grantRows, deletions>>
    BY <1>2 DEF OpenMutation
  <2> HIDE DEF m
  <2> QED
    BY <1>T, <2>2, <2>3 DEF Mutations
<1>3. ASSUME NEW a \in Admins, LockLatest(a)
      PROVE  mutation' \in [Admins -> Mutations] /\ UNCHANGED <<grantDay, grantRows, deletions>>
  <2> DEFINE latest == Latest(mutation[a].corpus)
             m == [pc |-> "locked", corpus |-> mutation[a].corpus, op |-> mutation[a].op,
                   saw |-> mutation[a].saw, overtaken |-> mutation[a].overtaken,
                   began |-> mutation[a].began, existing |-> VersionOf(latest)]
  <2>1. mutation[a] \in Opened /\ mutation[a] # NoMutation
    BY <1>T, <1>3, MutationFields DEF LockLatest, NoMutation
  <2>2. VersionOf(latest) \in Nat
    BY <1>T, <2>1, LatestTyped DEF Opened
  <2>3. m \in Locked
    BY <2>1, <2>2 DEF Opened, Locked
  <2>4. /\ mutation' = [mutation EXCEPT ![a] = m] \/ mutation' = [mutation EXCEPT ![a] = NoMutation]
        /\ UNCHANGED <<grantDay, grantRows, deletions>>
    BY <1>3 DEF LockLatest
  <2> HIDE DEF m
  <2> QED
    BY <1>T, <2>3, <2>4 DEF Mutations
<1>4. ASSUME NEW a \in Admins, AppendVersion(a)
      PROVE  /\ mutation' \in [Admins -> Mutations] /\ grantRows' \subseteq GrantRow
             /\ UNCHANGED <<grantDay, deletions>>
  <2>1. mutation[a] \in Locked
    BY <1>T, <1>4, MutationFields DEF AppendVersion
  <2>2. NextVersion(mutation[a]) \in GrantRow
    BY <2>1 DEF NextVersion, Locked, GrantRow
  <2>3. mutation' = [mutation EXCEPT ![a] = NoMutation]
    BY <1>4 DEF AppendVersion
  <2> QED
    BY <1>T, <1>4, <2>2, <2>3 DEF AppendVersion, Mutations
<1>5. ASSUME NEW a \in Admins, AbandonMutation(a)
      PROVE  mutation' \in [Admins -> Mutations] /\ UNCHANGED <<grantDay, grantRows, deletions>>
  BY <1>T, <1>5 DEF AbandonMutation, Mutations
<1>6. CASE ExpireVersions
  BY <1>T, <1>6 DEF ExpireVersions
<1>7. CASE DeleteGrants
  <2>1. \A a \in Admins : mutation'[a] \in Mutations
    BY <1>T, <1>7, OvertakenTyped DEF DeleteGrants, Mutations
  <2>2. /\ mutation' = [a \in Admins |-> mutation'[a]]
        /\ grantRows' = {} /\ grantDay' = grantDay /\ deletions' \in 0..MaxDeletions
    BY <1>T, <1>7 DEF DeleteGrants
  <2> QED
    BY <1>T, <2>1, <2>2
<1>8. CASE NextGrantDay
  BY <1>T, <1>8 DEF NextGrantDay
<1>9. CASE UNCHANGED grantVars
  BY <1>T, <1>9 DEF grantVars
<1> QED
  BY <1>T, <1>1, <1>2, <1>3, <1>4, <1>5, <1>6, <1>7, <1>8, <1>9 DEF GrantNext

-----------------------------------------------------------------------------
(* The inductive invariant                                                  *)

(* A version number names one row of its corpus, and a corpus that has rows   *)
(* has a latest one.                                                          *)
UniqueVersions ==
  \A r, s \in grantRows : r.corpus = s.corpus /\ r.version = s.version => r = s

HasLatest == \A c \in Corpora : VersionsOf(c) # {} => Latest(c) # {}

(* What an administrator saw and no deletion took is still there, or a newer  *)
(* version of the corpus is.                                                  *)
SeenIsThereOrSuperseded ==
  \A a \in Admins : mutation[a] # NoMutation /\ ~mutation[a].overtaken =>
    /\ \A r, s \in mutation[a].saw : r = s
    /\ \A r \in mutation[a].saw :
         /\ r.corpus = mutation[a].corpus
         /\ \/ r \in grantRows
            \/ \E s \in grantRows : s.corpus = r.corpus /\ s.version > r.version

(* The holder of the lock of a corpus: it is alone, the version it read is    *)
(* the latest unless a deletion took all of them, and that is the grant its   *)
(* administrator saw unless a deletion came between.                          *)
HolderKnowsTheLatest ==
  \A a \in Admins, c \in Corpora : mutation[a].pc = "locked" /\ mutation[a].corpus = c =>
    /\ \A b \in Admins : mutation[b].pc = "locked" /\ mutation[b].corpus = c => a = b
    /\ VersionOf(Latest(c)) = mutation[a].existing \/ VersionsOf(c) = {}
    /\ mutation[a].overtaken \/ mutation[a].saw = Latest(c)

GrantInv ==
  GrantTypeOK /\ UniqueVersions /\ HasLatest /\ SeenIsThereOrSuperseded /\ HolderKnowsTheLatest

-----------------------------------------------------------------------------
(* The latest version                                                       *)

LEMMA OneVersion == ASSUME NEW r PROVE VersionOf({r}) = r.version
BY DEF VersionOf

(* The latest version of a corpus is one row.                                 *)
LEMMA LatestIsOne ==
  ASSUME GrantTypeOK, UniqueVersions, NEW c \in Corpora, NEW r \in Latest(c)
  PROVE  /\ Latest(c) = {r} /\ VersionOf(Latest(c)) = r.version /\ r \in grantRows /\ r.corpus = c
         /\ \A s \in grantRows : s.corpus = c => s.version <= r.version
<1>1. \A s \in Latest(c) : s = r
  <2> TAKE s \in Latest(c)
  <2>1. /\ s \in grantRows /\ r \in grantRows /\ s.corpus = c /\ r.corpus = c
        /\ s.version <= r.version /\ r.version <= s.version
    BY DEF Latest, VersionsOf
  <2>2. s.version \in Nat /\ r.version \in Nat
    BY <2>1 DEF GrantTypeOK, GrantRow
  <2> QED
    BY <2>1, <2>2 DEF UniqueVersions
<1>2. Latest(c) = {r}
  BY <1>1
<1> QED
  BY <1>2, OneVersion DEF Latest, VersionsOf

(* Nothing changes for a corpus whose versions do not change.                 *)
LEMMA SameVersionsSameLatest ==
  ASSUME NEW c \in Corpora, VersionsOf(c)' = VersionsOf(c)
  PROVE  Latest(c)' = Latest(c)
BY DEF Latest

(* Retention takes no latest version.                                         *)
LEMMA ExpiryKeepsTheLatest ==
  ASSUME GrantTypeOK, UniqueVersions, HasLatest, ExpireVersions, NEW c \in Corpora
  PROVE  Latest(c)' = Latest(c) /\ (VersionsOf(c)' = {} <=> VersionsOf(c) = {})
<1>1. VersionsOf(c)' \subseteq VersionsOf(c)
  BY DEF ExpireVersions, VersionsOf
<1>2. CASE VersionsOf(c) = {}
  BY <1>1, <1>2 DEF Latest
<1>3. ASSUME NEW r \in Latest(c) PROVE Latest(c)' = {r} /\ r \in VersionsOf(c)'
  <2>1. /\ r \in grantRows /\ r.corpus = c
        /\ \A s \in grantRows : s.corpus = c => s.version <= r.version
    BY <1>3, LatestIsOne
  <2>2. \A s \in grantRows : s.version \in Nat
    BY DEF GrantTypeOK, GrantRow
  <2>3. ~Superseded(r)
    BY <2>1, <2>2 DEF Superseded, VersionsOf
  <2>4. r \in VersionsOf(c)'
    BY <2>1, <2>3 DEF ExpireVersions, VersionsOf
  <2>5. r \in Latest(c)'
    BY <1>1, <2>1, <2>4 DEF Latest, VersionsOf
  <2>6. \A s \in Latest(c)' : s = r
    <3> TAKE s \in Latest(c)'
    <3>1. s \in VersionsOf(c)' /\ r.version <= s.version
      BY <2>4 DEF Latest
    <3>2. s \in grantRows /\ s.corpus = c
      BY <1>1, <3>1 DEF VersionsOf
    <3> QED
      BY <2>1, <2>2, <3>1, <3>2 DEF UniqueVersions
  <2> QED
    BY <2>4, <2>5, <2>6
<1>4. CASE VersionsOf(c) # {}
  <2>1. PICK r \in Latest(c) : TRUE
    BY <1>4 DEF HasLatest
  <2> QED
    BY <1>3, <1>4, <2>1, LatestIsOne
<1> QED
  BY <1>2, <1>4

(* What a mutation appends becomes the latest version of its corpus, one above *)
(* the one before; nothing changes for other corpora.                         *)
LEMMA AppendMakesTheLatest ==
  ASSUME GrantInv, NEW a \in Admins, AppendVersion(a), NEW c \in Corpora, c = mutation[a].corpus
  PROVE  LET n == NextVersion(mutation[a])
         IN  /\ n \in GrantRow /\ n.corpus = c
             /\ grantRows' = grantRows \cup {n}
             /\ \A s \in grantRows : s.corpus = c => s.version < n.version
             /\ Latest(c)' = {n}
             /\ Latest(c) # {} => n.version = VersionOf(Latest(c)) + 1
             /\ \A d \in Corpora \ {c} : VersionsOf(d)' = VersionsOf(d)
<1> DEFINE m == mutation[a]
           n == NextVersion(m)
<1>1. m \in Locked /\ m.pc = "locked"
  BY MutationFields DEF AppendVersion, GrantInv, GrantTypeOK, Mutations
<1>2. n \in GrantRow /\ n.corpus = c /\ n.version = m.existing + 1 /\ m.existing \in Nat
  BY <1>1 DEF NextVersion, Locked, GrantRow
<1>3. \A s \in grantRows : s.version \in Nat
  BY DEF GrantInv, GrantTypeOK, GrantRow
<1>4. /\ \A s \in grantRows : s.corpus = c => s.version < n.version
      /\ Latest(c) # {} => n.version = VersionOf(Latest(c)) + 1
  <2>1. CASE VersionsOf(c) = {}
    BY <2>1 DEF VersionsOf, Latest
  <2>2. CASE VersionsOf(c) # {}
    <3>2. PICK r \in Latest(c) : TRUE
      BY <2>2 DEF GrantInv, HasLatest
    <3>3. VersionOf(Latest(c)) = m.existing
      BY <1>1, <2>2 DEF GrantInv, HolderKnowsTheLatest
    <3>4. /\ VersionOf(Latest(c)) = r.version
          /\ \A s \in grantRows : s.corpus = c => s.version <= r.version
      BY <3>2, LatestIsOne DEF GrantInv
    <3> QED
      BY <1>2, <1>3, <3>3, <3>4
  <2> QED
    BY <2>1, <2>2
<1>5. grantRows' = grantRows \cup {n}
  <2>1. ~ \E r \in VersionsOf(n.corpus) : r.version = n.version
    BY <1>2, <1>3, <1>4 DEF VersionsOf
  <2> QED
    BY <2>1 DEF AppendVersion
<1>6. Latest(c)' = {n}
  <2>2. \A r : r \in {s \in grantRows' : s.corpus = c} <=> (r \in grantRows /\ r.corpus = c) \/ r = n
    BY <1>2, <1>5
  <2>3. {r \in {s \in grantRows' : s.corpus = c} :
           \A s \in {s \in grantRows' : s.corpus = c} : s.version <= r.version} = {n}
    BY <1>2, <1>3, <1>4, <2>2
  <2>4. Latest(c)' = {r \in {s \in grantRows' : s.corpus = c} :
           \A s \in {s \in grantRows' : s.corpus = c} : s.version <= r.version}
    BY DEF Latest, VersionsOf
  <2> QED
    BY <2>3, <2>4
<1>7. \A d \in Corpora \ {c} : VersionsOf(d)' = VersionsOf(d)
  BY <1>2, <1>5 DEF VersionsOf
<1> QED
  BY <1>1, <1>2, <1>4, <1>5, <1>6, <1>7

-----------------------------------------------------------------------------
(* Every reachable state satisfies the invariant                            *)

LEMMA GrantInvInit == ASSUME GrantInit PROVE GrantInv
<1>1. GrantTypeOK
  BY GrantConstants DEF GrantInit, GrantTypeOK
<1>2. \A a \in Admins : mutation[a] = NoMutation /\ mutation[a].pc = "idle"
  BY DEF GrantInit, NoMutation
<1>3. grantRows = {}
  BY DEF GrantInit
<1> QED
  BY <1>1, <1>2, <1>3
     DEF GrantInv, UniqueVersions, HasLatest, SeenIsThereOrSuperseded, HolderKnowsTheLatest, VersionsOf

(* The parts of the invariant that speak of administrators, from what a step  *)
(* makes of the administrator that moved and of the tables.                   *)
LEMMA OthersUnmoved ==
  ASSUME GrantInv, GrantTypeOK', NEW a \in Admins, grantRows' = grantRows,
         \A b \in Admins \ {a} : mutation'[b] = mutation[b],
         mutation'[a].pc # "locked",
         mutation'[a] = NoMutation \/
           /\ mutation[a] # NoMutation /\ mutation'[a].overtaken = mutation[a].overtaken
           /\ mutation'[a].saw = mutation[a].saw /\ mutation'[a].corpus = mutation[a].corpus
  PROVE  GrantInv'
<1>1. \A c \in Corpora : VersionsOf(c)' = VersionsOf(c) /\ Latest(c)' = Latest(c)
  BY DEF VersionsOf, Latest
<1>2. HasLatest' /\ UniqueVersions'
  BY <1>1 DEF GrantInv, HasLatest, UniqueVersions
<1>3. SeenIsThereOrSuperseded'
  BY DEF GrantInv, SeenIsThereOrSuperseded
<1>4. HolderKnowsTheLatest'
  <2>1. \A b \in Admins : mutation'[b].pc = "locked" => b # a /\ mutation'[b] = mutation[b]
    OBVIOUS
  <2>2. \A c \in Corpora : VersionOf(Latest(c)') = VersionOf(Latest(c))
    BY <1>1
  <2> QED
    BY <1>1, <2>1, <2>2 DEF GrantInv, HolderKnowsTheLatest
<1> QED
  BY <1>2, <1>3, <1>4 DEF GrantInv

(* Every step preserves the invariant.                                        *)
LEMMA GrantInvStep == ASSUME GrantInv, [GrantNext]_grantVars PROVE GrantInv'
<1>0. GrantTypeOK'
  BY GrantTypedStep DEF GrantInv
<1>T. /\ mutation \in [Admins -> Mutations] /\ \A a \in Admins : mutation[a] \in Mutations
      /\ \A r \in grantRows : r \in GrantRow /\ r.version \in Nat /\ r.corpus \in Corpora
  BY DEF GrantInv, GrantTypeOK, Mutations, GrantRow
<1>1. ASSUME NEW a \in Admins, NEW c \in Corpora, NEW op \in {"upsert", "disable"}, Decide(a, c, op)
      PROVE  GrantInv'
  <2>1. /\ grantRows' = grantRows /\ mutation[a] = NoMutation
        /\ mutation' = [mutation EXCEPT ![a] = [pc |-> "decided", corpus |-> c, op |-> op,
                                                saw |-> Latest(c), overtaken |-> FALSE]]
    BY <1>1 DEF Decide
  <2>2. /\ \A b \in Admins \ {a} : mutation'[b] = mutation[b]
        /\ mutation'[a].pc = "decided" /\ mutation'[a].saw = Latest(c) /\ mutation'[a].corpus = c
    BY <1>T, <2>1
  <2>3. \A d \in Corpora : VersionsOf(d)' = VersionsOf(d) /\ Latest(d)' = Latest(d)
    BY <2>1 DEF VersionsOf, Latest
  <2>4. HasLatest' /\ UniqueVersions'
    BY <2>1, <2>3 DEF GrantInv, HasLatest, UniqueVersions
  <2>5. /\ \A r, s \in Latest(c) : r = s
        /\ \A r \in Latest(c) : r.corpus = c /\ r \in grantRows
    BY LatestIsOne DEF GrantInv
  <2>6. SeenIsThereOrSuperseded'
    BY <2>1, <2>2, <2>5 DEF GrantInv, SeenIsThereOrSuperseded
  <2>7. HolderKnowsTheLatest'
    <3>1. \A b \in Admins : mutation'[b].pc = "locked" => b # a /\ mutation'[b] = mutation[b]
      BY <2>2
    <3>2. \A d \in Corpora : VersionOf(Latest(d)') = VersionOf(Latest(d))
      BY <2>3
    <3> QED
      BY <2>3, <3>1, <3>2 DEF GrantInv, HolderKnowsTheLatest
  <2> QED
    BY <1>0, <2>4, <2>6, <2>7 DEF GrantInv
<1>2. ASSUME NEW a \in Admins, OpenMutation(a) PROVE GrantInv'
  <2>1. /\ mutation[a] # NoMutation /\ grantRows' = grantRows
        /\ \A b \in Admins \ {a} : mutation'[b] = mutation[b]
        /\ mutation'[a].pc = "open" /\ mutation'[a].saw = mutation[a].saw
        /\ mutation'[a].corpus = mutation[a].corpus /\ mutation'[a].overtaken = mutation[a].overtaken
    BY <1>T, <1>2 DEF OpenMutation, NoMutation
  <2> QED
    BY <1>0, <2>1, OthersUnmoved
<1>3. ASSUME NEW a \in Admins, LockLatest(a) PROVE GrantInv'
  <2> DEFINE m == [pc |-> "locked", corpus |-> mutation[a].corpus, op |-> mutation[a].op,
                   saw |-> mutation[a].saw, overtaken |-> mutation[a].overtaken,
                   began |-> mutation[a].began, existing |-> VersionOf(Latest(mutation[a].corpus))]
  <2>1. CASE mutation' = [mutation EXCEPT ![a] = NoMutation]
    <3>1. /\ \A b \in Admins \ {a} : mutation'[b] = mutation[b]
          /\ mutation'[a] = NoMutation /\ mutation'[a].pc # "locked" /\ grantRows' = grantRows
      BY <1>T, <1>3, <2>1 DEF NoMutation, LockLatest
    <3> QED
      BY <1>0, <3>1, OthersUnmoved
  <2>2. CASE mutation' = [mutation EXCEPT ![a] = m] /\ Writes(mutation[a], Latest(mutation[a].corpus))
    <3>1. /\ mutation[a].pc = "open" /\ grantRows' = grantRows
          /\ \A b \in Admins : mutation[b].pc = "locked" => mutation[b].corpus # mutation[a].corpus
      BY <1>3 DEF LockLatest
    <3>2. mutation[a] \in Opened /\ mutation[a] # NoMutation
      BY <1>T, <3>1, MutationFields DEF NoMutation
    <3>3. PICK c \in Corpora : c = mutation[a].corpus
      BY <3>2 DEF Opened
    <3>4. /\ \A b \in Admins \ {a} : mutation'[b] = mutation[b]
          /\ mutation'[a].pc = "locked" /\ mutation'[a].saw = mutation[a].saw /\ mutation'[a].corpus = c
          /\ mutation'[a].overtaken = mutation[a].overtaken
          /\ mutation'[a].existing = VersionOf(Latest(c))
      BY <1>T, <2>2, <3>3
    <3>5. VersionOf(mutation[a].saw) = VersionOf(Latest(c))
      BY <2>2, <3>3 DEF Writes, EnforceExpectedVersion
    <3>6. ~mutation[a].overtaken => mutation[a].saw = Latest(c)
      <4> SUFFICES ASSUME ~mutation[a].overtaken PROVE mutation[a].saw = Latest(c)
        OBVIOUS
      <4>1. /\ \A r, s \in mutation[a].saw : r = s
            /\ \A r \in mutation[a].saw :
                 /\ r.corpus = c
                 /\ r \in grantRows \/ \E s \in grantRows : s.corpus = c /\ s.version > r.version
        BY <3>2, <3>3 DEF GrantInv, SeenIsThereOrSuperseded
      <4>2. mutation[a].saw \subseteq GrantRow
        BY <3>2 DEF Opened
      <4>3. CASE mutation[a].saw = {}
        <5>1. VersionOf(Latest(c)) = 0
          BY <3>5, <4>3 DEF VersionOf
        <5>2. ASSUME NEW r \in Latest(c) PROVE FALSE
          <6>1. VersionOf(Latest(c)) = r.version /\ r \in grantRows
            BY <5>2, LatestIsOne DEF GrantInv
          <6>2. r.version # 0
            BY <6>1 DEF GrantInv, GrantTypeOK, GrantRow
          <6> QED
            BY <5>1, <6>1, <6>2
        <5> QED
          BY <4>3, <5>2
      <4>4. ASSUME NEW r \in mutation[a].saw PROVE mutation[a].saw = Latest(c)
        <5>1. mutation[a].saw = {r}
          BY <4>1, <4>4
        <5>2. VersionOf(Latest(c)) = r.version
          BY <3>5, <5>1, OneVersion
        <5>3. r.version \in Nat
          BY <4>2, <4>4 DEF GrantRow
        <5>4. VersionsOf(c) # {}
          BY <4>1, <4>4 DEF VersionsOf
        <5>5. PICK l \in Latest(c) : TRUE
          BY <5>4 DEF GrantInv, HasLatest
        <5>6. /\ Latest(c) = {l} /\ VersionOf(Latest(c)) = l.version /\ l \in grantRows /\ l.corpus = c
              /\ \A s \in grantRows : s.corpus = c => s.version <= l.version
          BY <5>5, LatestIsOne DEF GrantInv
        <5>7. r \in grantRows
          BY <1>T, <4>1, <4>4, <5>2, <5>3, <5>6
        <5>8. r = l
          BY <4>1, <4>4, <5>2, <5>6, <5>7 DEF GrantInv, UniqueVersions
        <5> QED
          BY <5>1, <5>6, <5>8
      <4> QED
        BY <4>3, <4>4
    <3>7. \A d \in Corpora : /\ VersionsOf(d)' = VersionsOf(d) /\ Latest(d)' = Latest(d)
                             /\ VersionOf(Latest(d)') = VersionOf(Latest(d))
      BY <3>1 DEF VersionsOf, Latest
    <3>8. HasLatest' /\ UniqueVersions'
      BY <3>1, <3>7 DEF GrantInv, HasLatest, UniqueVersions
    <3>9. SeenIsThereOrSuperseded'
      BY <3>1, <3>2, <3>3, <3>4 DEF GrantInv, SeenIsThereOrSuperseded
    <3>10. HolderKnowsTheLatest'
      <4>1. ASSUME NEW b \in Admins \ {a}, NEW d \in Corpora, mutation'[b].pc = "locked",
                   mutation'[b].corpus = d
            PROVE  /\ mutation'[b] = mutation[b] /\ d # c
                   /\ \A e \in Admins : mutation[e].pc = "locked" /\ mutation[e].corpus = d => b = e
                   /\ VersionOf(Latest(d)) = mutation[b].existing \/ VersionsOf(d) = {}
                   /\ mutation[b].overtaken \/ mutation[b].saw = Latest(d)
        BY <3>1, <3>3, <3>4, <4>1 DEF GrantInv, HolderKnowsTheLatest
      <4> QED
        BY <3>1, <3>3, <3>4, <3>6, <3>7, <4>1 DEF HolderKnowsTheLatest
    <3> QED
      BY <1>0, <3>8, <3>9, <3>10 DEF GrantInv
  <2> QED
    BY <1>3, <2>1, <2>2 DEF LockLatest
<1>4. ASSUME NEW a \in Admins, AppendVersion(a) PROVE GrantInv'
  <2> DEFINE n == NextVersion(mutation[a])
  <2>1. mutation[a] \in Locked /\ mutation[a].pc = "locked"
    BY <1>T, <1>4, MutationFields DEF AppendVersion
  <2>2. PICK c \in Corpora : c = mutation[a].corpus
    BY <2>1 DEF Locked
  <2>3. /\ n \in GrantRow /\ n.corpus = c /\ grantRows' = grantRows \cup {n}
        /\ \A s \in grantRows : s.corpus = c => s.version < n.version
        /\ Latest(c)' = {n}
        /\ \A d \in Corpora \ {c} : VersionsOf(d)' = VersionsOf(d)
    BY <1>4, <2>2, AppendMakesTheLatest
  <2>4. /\ \A b \in Admins \ {a} : mutation'[b] = mutation[b]
        /\ mutation'[a] = NoMutation /\ mutation'[a].pc = "idle"
    BY <1>T, <1>4 DEF AppendVersion, NoMutation
  <2>5. \A d \in Corpora \ {c} : Latest(d)' = Latest(d) /\ VersionOf(Latest(d)') = VersionOf(Latest(d))
    BY <2>3, SameVersionsSameLatest
  <2>6. n.version \in Nat
    BY <2>3 DEF GrantRow
  <2> HIDE DEF n
  <2>7. UniqueVersions'
    BY <1>T, <2>3, <2>6 DEF GrantInv, UniqueVersions
  <2>8. HasLatest'
    BY <2>3, <2>5 DEF GrantInv, HasLatest
  <2>9. SeenIsThereOrSuperseded'
    BY <2>3, <2>4 DEF GrantInv, SeenIsThereOrSuperseded
  <2>10. HolderKnowsTheLatest'
    <3>1. ASSUME NEW b \in Admins, mutation'[b].pc = "locked"
          PROVE  b # a /\ mutation'[b] = mutation[b] /\ mutation[b].corpus # c
      BY <2>1, <2>2, <2>4, <3>1 DEF GrantInv, HolderKnowsTheLatest
    <3> QED
      BY <2>3, <2>5, <3>1 DEF GrantInv, HolderKnowsTheLatest
  <2> QED
    BY <1>0, <2>7, <2>8, <2>9, <2>10 DEF GrantInv
<1>5. ASSUME NEW a \in Admins, AbandonMutation(a) PROVE GrantInv'
  <2>1. /\ grantRows' = grantRows /\ \A b \in Admins \ {a} : mutation'[b] = mutation[b]
        /\ mutation'[a] = NoMutation /\ mutation'[a].pc # "locked"
    BY <1>T, <1>5 DEF AbandonMutation, NoMutation
  <2> QED
    BY <1>0, <2>1, OthersUnmoved
<1>6. CASE ExpireVersions
  <2>1. /\ grantRows' \subseteq grantRows /\ mutation' = mutation
        /\ \A r \in grantRows \ grantRows' : \E s \in grantRows : s.corpus = r.corpus /\ s.version > r.version
    BY <1>6 DEF ExpireVersions, Superseded, VersionsOf
  <2>2. \A c \in Corpora : /\ Latest(c)' = Latest(c) /\ (VersionsOf(c)' = {} <=> VersionsOf(c) = {})
                           /\ VersionOf(Latest(c)') = VersionOf(Latest(c))
    BY <1>6, ExpiryKeepsTheLatest DEF GrantInv
  <2>3. UniqueVersions' /\ HasLatest'
    BY <2>1, <2>2 DEF GrantInv, UniqueVersions, HasLatest
  <2>4. ASSUME NEW r, NEW s \in grantRows, s.corpus = r.corpus, s.version > r.version, r.version \in Nat
        PROVE  \E l \in grantRows' : l.corpus = r.corpus /\ l.version > r.version
    <3>1. s.corpus \in Corpora /\ s.version \in Nat /\ VersionsOf(s.corpus) # {}
      BY <1>T DEF VersionsOf
    <3>2. PICK c \in Corpora : c = s.corpus
      BY <3>1
    <3>3. PICK l \in Latest(c) : TRUE
      BY <3>1, <3>2 DEF GrantInv, HasLatest
    <3>4. l \in grantRows /\ l.corpus = c /\ s.version <= l.version
      BY <3>2, <3>3, LatestIsOne DEF GrantInv
    <3>5. l \in grantRows'
      BY <2>2, <3>3 DEF Latest, VersionsOf
    <3> QED
      BY <1>T, <2>4, <3>1, <3>2, <3>4, <3>5
  <2>5. SeenIsThereOrSuperseded'
    <3> SUFFICES ASSUME NEW a \in Admins, mutation[a] # NoMutation, ~mutation[a].overtaken,
                        NEW r \in mutation[a].saw
                 PROVE  \/ r \in grantRows'
                        \/ \E s \in grantRows' : s.corpus = r.corpus /\ s.version > r.version
      BY <2>1 DEF GrantInv, SeenIsThereOrSuperseded
    <3>1. r.version \in Nat
      BY <1>T, MutationFields DEF GrantRow
    <3>2. r \in grantRows \/ \E s \in grantRows : s.corpus = r.corpus /\ s.version > r.version
      BY DEF GrantInv, SeenIsThereOrSuperseded
    <3> QED
      BY <2>1, <2>4, <3>1, <3>2
  <2>6. HolderKnowsTheLatest'
    BY <2>1, <2>2 DEF GrantInv, HolderKnowsTheLatest
  <2> QED
    BY <1>0, <2>3, <2>5, <2>6 DEF GrantInv
<1>7. CASE DeleteGrants
  <2>1. grantRows' = {}
    BY <1>7 DEF DeleteGrants
  <2>2. \A c \in Corpora : VersionsOf(c)' = {} /\ Latest(c)' = {}
    BY <2>1 DEF VersionsOf, Latest
  <2>3. \A a \in Admins : \/ mutation'[a] = NoMutation /\ mutation[a] = NoMutation
                          \/ /\ mutation[a] # NoMutation /\ mutation'[a].overtaken = TRUE
                             /\ mutation'[a].pc = mutation[a].pc
                             /\ mutation'[a].corpus = mutation[a].corpus
    BY <1>T, <1>7, OvertakenTyped DEF DeleteGrants
  <2>4. UniqueVersions' /\ HasLatest'
    BY <2>1, <2>2 DEF UniqueVersions, HasLatest
  <2>5. SeenIsThereOrSuperseded'
    BY <2>3 DEF SeenIsThereOrSuperseded
  <2>6. HolderKnowsTheLatest'
    <3>1. \A a \in Admins : mutation'[a].pc = "locked" =>
            /\ mutation'[a].overtaken /\ mutation[a].pc = "locked"
            /\ mutation'[a].corpus = mutation[a].corpus
      BY <2>3 DEF NoMutation
    <3> QED
      BY <2>2, <3>1 DEF GrantInv, HolderKnowsTheLatest
  <2> QED
    BY <1>0, <2>4, <2>5, <2>6 DEF GrantInv
<1>8. CASE NextGrantDay \/ UNCHANGED grantVars
  <2>1. grantRows' = grantRows /\ mutation' = mutation
    BY <1>8 DEF NextGrantDay, grantVars
  <2>2. \A c \in Corpora : /\ VersionsOf(c)' = VersionsOf(c) /\ Latest(c)' = Latest(c)
                           /\ VersionOf(Latest(c)') = VersionOf(Latest(c))
    BY <2>1 DEF VersionsOf, Latest
  <2>3. UniqueVersions' /\ HasLatest' /\ SeenIsThereOrSuperseded' /\ HolderKnowsTheLatest'
    BY <2>1, <2>2
       DEF GrantInv, UniqueVersions, HasLatest, SeenIsThereOrSuperseded, HolderKnowsTheLatest
  <2> QED
    BY <1>0, <2>3 DEF GrantInv
<1> QED
  BY <1>1, <1>2, <1>3, <1>4, <1>5, <1>6, <1>7, <1>8 DEF GrantNext

(* The invariant holds in every reachable state.                              *)
THEOREM GrantInvariance == GrantSpec => []GrantInv
BY GrantInvInit, GrantInvStep, PTL DEF GrantSpec

-----------------------------------------------------------------------------
(* What a step may never do                                                 *)

(* Which steps touch the table, and how.                                      *)
LEMMA TableSteps ==
  ASSUME [GrantNext]_grantVars
  PROVE  \/ grantRows' = grantRows
         \/ ExpireVersions
         \/ DeleteGrants
         \/ \E a \in Admins : AppendVersion(a)
BY DEF GrantNext, grantVars, Decide, OpenMutation, LockLatest, AbandonMutation, NextGrantDay

(* A row that a step adds is the next version over the grant its author saw.  *)
LEMMA WritesOverWhatWasSeen ==
  ASSUME GrantInv, [GrantNext]_grantVars, NEW r \in grantRows' \ grantRows
  PROVE  \E a \in Admins : /\ mutation[a].pc = "locked" /\ mutation'[a] = NoMutation
                           /\ mutation[a].corpus = r.corpus
                           /\ mutation[a].saw = Latest(r.corpus) \/ mutation[a].overtaken
<1>1. PICK a \in Admins : AppendVersion(a)
  BY TableSteps DEF ExpireVersions, DeleteGrants
<1>2. mutation[a] \in Locked /\ mutation[a].pc = "locked" /\ mutation'[a] = NoMutation
  BY <1>1, MutationFields DEF AppendVersion, GrantInv, GrantTypeOK, Mutations
<1>3. PICK c \in Corpora : c = mutation[a].corpus
  BY <1>2 DEF Locked
<1>4. r.corpus = c
  <2> DEFINE n == NextVersion(mutation[a])
  <2>1. n.corpus = c /\ grantRows' = grantRows \cup {n}
    BY <1>1, <1>3, AppendMakesTheLatest
  <2> HIDE DEF n
  <2> QED
    BY <2>1
<1>5. mutation[a].saw = Latest(c) \/ mutation[a].overtaken
  BY <1>2, <1>3 DEF GrantInv, HolderKnowsTheLatest
<1> QED
  BY <1>2, <1>3, <1>4, <1>5

(* No update is lost: a version is only written over the grant its author     *)
(* looked at (NoLostUpdate).                                                  *)
THEOREM UpdatesAreNotLost == GrantSpec => NoLostUpdate
<1> DEFINE Seen(r) == \E a \in Admins : /\ mutation[a].pc = "locked" /\ mutation'[a] = NoMutation
                                        /\ mutation[a].corpus = r.corpus
                                        /\ mutation[a].saw = Latest(r.corpus) \/ mutation[a].overtaken
<1>1. GrantInv /\ [GrantNext]_grantVars => [\A r \in grantRows' \ grantRows : Seen(r)]_grantVars
  BY WritesOverWhatWasSeen
<1> QED
  BY <1>1, GrantInvariance, PTL DEF GrantSpec, NoLostUpdate

(* What a step makes of the current grant of one corpus.                      *)
LEMMA CurrentGrantStep ==
  ASSUME GrantInv, [GrantNext]_grantVars, NEW c \in Corpora, Latest(c) # {}
  PROVE  \/ Latest(c)' = Latest(c)
         \/ VersionOf(Latest(c)') = VersionOf(Latest(c)) + 1
         \/ deletions' # deletions
<1>1. CASE grantRows' = grantRows
  BY <1>1 DEF Latest, VersionsOf
<1>2. CASE ExpireVersions
  BY <1>2, ExpiryKeepsTheLatest DEF GrantInv
<1>3. CASE DeleteGrants
  BY <1>3 DEF DeleteGrants, GrantInv, GrantTypeOK
<1>4. ASSUME NEW a \in Admins, AppendVersion(a)
      PROVE  Latest(c)' = Latest(c) \/ VersionOf(Latest(c)') = VersionOf(Latest(c)) + 1
  <2> DEFINE n == NextVersion(mutation[a])
  <2>1. mutation[a] \in Locked
    BY <1>4, MutationFields DEF AppendVersion, GrantInv, GrantTypeOK, Mutations
  <2>2. PICK d \in Corpora : d = mutation[a].corpus
    BY <2>1 DEF Locked
  <2>3. /\ Latest(d)' = {n}
        /\ Latest(d) # {} => n.version = VersionOf(Latest(d)) + 1
        /\ \A e \in Corpora \ {d} : VersionsOf(e)' = VersionsOf(e)
    BY <1>4, <2>2, AppendMakesTheLatest
  <2> HIDE DEF n
  <2>4. CASE c = d
    BY <2>3, <2>4, OneVersion
  <2>5. CASE c # d
    BY <2>3, <2>5, SameVersionsSameLatest
  <2> QED
    BY <2>4, <2>5
<1> QED
  BY <1>1, <1>2, <1>3, <1>4, TableSteps

(* The current grant goes only for its successor or with the tenant           *)
(* (CurrentGrantStands).                                                      *)
THEOREM CurrentGrantsStand == GrantSpec => CurrentGrantStands
<1> DEFINE Stands(c) == Latest(c) # {} => \/ Latest(c)' = Latest(c)
                                          \/ VersionOf(Latest(c)') = VersionOf(Latest(c)) + 1
                                          \/ deletions' # deletions
<1>1. GrantInv /\ [GrantNext]_grantVars => [\A c \in Corpora : Stands(c)]_grantVars
  BY CurrentGrantStep
<1> QED
  BY <1>1, GrantInvariance, PTL DEF GrantSpec, CurrentGrantStands

-----------------------------------------------------------------------------
(* The versions that retention leaves                                       *)

(* The dates of what an administrator saw and of its own transaction.          *)
DatesOf(m) ==
  m # NoMutation =>
    /\ ~m.overtaken
    /\ \A r \in m.saw : r.inserted <= grantDay
    /\ m.pc \in {"open", "locked"} =>
         m.began <= grantDay /\ \A r \in m.saw : r.inserted <= m.began

(* Until the tenant is deleted, versions are as old as their numbers say.     *)
VersionsInOrder ==
  deletions = 0 =>
    /\ \A r \in grantRows : r.inserted <= grantDay
    /\ \A r, s \in grantRows :
         r.corpus = s.corpus /\ r.version < s.version => r.inserted <= s.inserted
    /\ \A a \in Admins : DatesOf(mutation[a])

HistoryInv == VersionsInOrder /\ HistoryDiffsAreWhole

(* Rows and days are numbers.                                                 *)
LEMMA RowFields ==
  ASSUME GrantTypeOK
  PROVE  /\ grantDay \in Nat /\ deletions \in Nat
         /\ \A r \in grantRows : r.version \in Nat /\ r.inserted \in Nat /\ r.corpus \in Corpora
BY GrantConstants DEF GrantTypeOK, GrantRow

(* An administrator that moves without touching the table.                    *)
LEMMA MoverKeepsOrder ==
  ASSUME HistoryInv, NEW a \in Admins, UNCHANGED <<grantRows, grantDay, deletions>>,
         \A b \in Admins \ {a} : mutation'[b] = mutation[b],
         deletions = 0 => DatesOf(mutation[a])'
  PROVE  HistoryInv'
BY DEF HistoryInv, VersionsInOrder, HistoryDiffsAreWhole, DatesOf

(* Every step keeps the versions in order and without a gap.                   *)
LEMMA HistoryStep == ASSUME GrantInv, HistoryInv, [GrantNext]_grantVars PROVE HistoryInv'
<1>T. /\ mutation \in [Admins -> Mutations] /\ \A a \in Admins : mutation[a] \in Mutations
      /\ grantDay \in Nat /\ deletions \in Nat
      /\ \A r \in grantRows : r.version \in Nat /\ r.inserted \in Nat /\ r.corpus \in Corpora
  BY RowFields DEF GrantInv, GrantTypeOK, Mutations
<1>1. ASSUME NEW a \in Admins, NEW c \in Corpora, NEW op \in {"upsert", "disable"}, Decide(a, c, op)
      PROVE  HistoryInv'
  <2>1. /\ UNCHANGED <<grantRows, grantDay, deletions>>
        /\ \A b \in Admins \ {a} : mutation'[b] = mutation[b]
        /\ mutation'[a].pc = "decided" /\ ~mutation'[a].overtaken /\ mutation'[a].saw = Latest(c)
    BY <1>T, <1>1 DEF Decide
  <2>2. Latest(c) \subseteq grantRows
    BY DEF Latest, VersionsOf
  <2>3. deletions = 0 => DatesOf(mutation[a])'
    BY <2>1, <2>2 DEF DatesOf, HistoryInv, VersionsInOrder
  <2> QED
    BY <2>1, <2>3, MoverKeepsOrder
<1>2. ASSUME NEW a \in Admins, OpenMutation(a) PROVE HistoryInv'
  <2>1. /\ UNCHANGED <<grantRows, grantDay, deletions>>
        /\ \A b \in Admins \ {a} : mutation'[b] = mutation[b]
        /\ mutation'[a].overtaken = mutation[a].overtaken /\ mutation'[a].saw = mutation[a].saw
        /\ mutation'[a].began = grantDay
    BY <1>T, <1>2 DEF OpenMutation
  <2>2. mutation[a] # NoMutation
    BY <1>2 DEF OpenMutation, NoMutation
  <2>3. deletions = 0 => DatesOf(mutation[a])'
    BY <1>T, <2>1, <2>2 DEF DatesOf, HistoryInv, VersionsInOrder
  <2> QED
    BY <2>1, <2>3, MoverKeepsOrder
<1>3. ASSUME NEW a \in Admins, LockLatest(a) PROVE HistoryInv'
  <2>1. /\ UNCHANGED <<grantRows, grantDay, deletions>>
        /\ \A b \in Admins \ {a} : mutation'[b] = mutation[b]
        /\ \/ mutation'[a] = NoMutation
           \/ /\ mutation'[a].overtaken = mutation[a].overtaken
              /\ mutation'[a].saw = mutation[a].saw /\ mutation'[a].began = mutation[a].began
    BY <1>T, <1>3 DEF LockLatest
  <2>2. mutation[a] # NoMutation /\ mutation[a].pc = "open"
    BY <1>3 DEF LockLatest, NoMutation
  <2>3. deletions = 0 => DatesOf(mutation[a])'
    BY <2>1, <2>2 DEF DatesOf, HistoryInv, VersionsInOrder
  <2> QED
    BY <2>1, <2>3, MoverKeepsOrder
<1>4. ASSUME NEW a \in Admins, AbandonMutation(a) PROVE HistoryInv'
  <2>1. /\ UNCHANGED <<grantRows, grantDay, deletions>>
        /\ \A b \in Admins \ {a} : mutation'[b] = mutation[b]
        /\ mutation'[a] = NoMutation
    BY <1>T, <1>4 DEF AbandonMutation
  <2> QED
    BY <2>1, MoverKeepsOrder DEF DatesOf
<1>5. ASSUME NEW a \in Admins, AppendVersion(a) PROVE HistoryInv'
  <2> DEFINE m == mutation[a]
             n == NextVersion(m)
  <2>1. m \in Locked /\ m.pc = "locked" /\ m # NoMutation
    BY <1>T, <1>5, MutationFields DEF AppendVersion, NoMutation
  <2>2. PICK c \in Corpora : c = m.corpus
    BY <2>1 DEF Locked
  <2>3. /\ n \in GrantRow /\ n.corpus = c /\ grantRows' = grantRows \cup {n}
        /\ \A s \in grantRows : s.corpus = c => s.version < n.version
        /\ Latest(c) # {} => n.version = VersionOf(Latest(c)) + 1
    BY <1>5, <2>2, AppendMakesTheLatest
  <2>4. /\ UNCHANGED <<grantDay, deletions>> /\ mutation'[a] = NoMutation
        /\ \A b \in Admins \ {a} : mutation'[b] = mutation[b]
    BY <1>T, <1>5 DEF AppendVersion
  <2>5. n.inserted = m.began /\ m.began \in Nat /\ n.version \in Nat
    BY <2>1, <2>3, GrantConstants DEF NextVersion, Locked, GrantRow
  <2>6. CASE deletions # 0
    BY <2>4, <2>6 DEF HistoryInv, VersionsInOrder, HistoryDiffsAreWhole
  <2>7. CASE deletions = 0
    <3>1. /\ ~m.overtaken /\ m.began <= grantDay /\ \A r \in m.saw : r.inserted <= m.began
      BY <2>1, <2>7 DEF DatesOf, HistoryInv, VersionsInOrder
    <3>2. m.saw = Latest(c)
      BY <2>1, <2>2, <3>1 DEF GrantInv, HolderKnowsTheLatest
    <3>3. \A s \in grantRows : s.corpus = c =>
            /\ s.inserted <= n.inserted
            /\ \E t \in grantRows' : t.corpus = c /\ t.version = s.version + 1
      <4> SUFFICES ASSUME NEW s \in grantRows, s.corpus = c
                   PROVE  /\ s.inserted <= n.inserted
                          /\ \E t \in grantRows' : t.corpus = c /\ t.version = s.version + 1
        OBVIOUS
      <4>1. PICK r \in Latest(c) : TRUE
        BY DEF GrantInv, HasLatest, VersionsOf
      <4>2. /\ VersionOf(Latest(c)) = r.version /\ r \in grantRows /\ r.corpus = c
            /\ s.version <= r.version
        BY <4>1, LatestIsOne DEF GrantInv
      <4>3. r.inserted <= n.inserted
        BY <2>5, <3>1, <3>2, <4>1
      <4>4. n.version = r.version + 1
        BY <2>3, <4>1, <4>2
      <4>5. CASE s.version = r.version
        <5>1. s = r
          BY <4>2, <4>5 DEF GrantInv, UniqueVersions
        <5> HIDE DEF n
        <5> QED
          BY <2>3, <4>3, <4>4, <5>1
      <4>6. CASE s.version < r.version
        <5>1. s.inserted <= r.inserted
          BY <2>7, <4>2, <4>6 DEF HistoryInv, VersionsInOrder
        <5>2. \E t \in grantRows : t.corpus = c /\ t.version = s.version + 1
          BY <2>7, <4>2, <4>6 DEF HistoryInv, HistoryDiffsAreWhole
        <5> HIDE DEF n
        <5> QED
          BY <1>T, <2>3, <2>5, <4>2, <4>3, <5>1, <5>2
      <4> QED
        BY <1>T, <4>2, <4>5, <4>6
    <3> HIDE DEF n
    <3>4. \A s \in grantRows : s.corpus = c => ~(n.version < s.version)
      BY <1>T, <2>3, <2>5
    <3>5. HistoryDiffsAreWhole'
      BY <2>3, <2>5, <2>7, <3>3, <3>4 DEF HistoryInv, HistoryDiffsAreWhole
    <3>6. VersionsInOrder'
      <4>1. \A r \in grantRows' : r.inserted <= grantDay'
        BY <2>3, <2>4, <2>5, <2>7, <3>1 DEF HistoryInv, VersionsInOrder
      <4>2. \A r, s \in grantRows' :
              r.corpus = s.corpus /\ r.version < s.version => r.inserted <= s.inserted
        BY <2>3, <2>5, <2>7, <3>3, <3>4 DEF HistoryInv, VersionsInOrder
      <4>3. \A b \in Admins : DatesOf(mutation[b])'
        BY <2>4, <2>7 DEF HistoryInv, VersionsInOrder, DatesOf
      <4> QED
        BY <4>1, <4>2, <4>3 DEF VersionsInOrder
    <3> QED
      BY <3>5, <3>6 DEF HistoryInv
  <2> QED
    BY <2>6, <2>7
<1>6. CASE ExpireVersions
  <2>1. grantRows' \subseteq grantRows /\ UNCHANGED <<grantDay, mutation, deletions>>
    BY <1>6 DEF ExpireVersions
  <2>2. VersionsInOrder'
    BY <2>1 DEF HistoryInv, VersionsInOrder, DatesOf
  <2>3. HistoryDiffsAreWhole'
    <3> SUFFICES ASSUME deletions = 0, NEW r \in grantRows', NEW s \in grantRows',
                        r.corpus = s.corpus, r.version < s.version
                 PROVE  \E t \in grantRows' : t.corpus = r.corpus /\ t.version = r.version + 1
      BY <2>1 DEF HistoryDiffsAreWhole
    <3>1. PICK t \in grantRows : t.corpus = r.corpus /\ t.version = r.version + 1
      BY <2>1 DEF HistoryInv, HistoryDiffsAreWhole
    <3>2. r.inserted <= t.inserted
      BY <1>T, <2>1, <3>1 DEF HistoryInv, VersionsInOrder
    <3>3. Superseded(r)
      BY <2>1 DEF Superseded, VersionsOf
    <3>4. ~(r.inserted < grantDay - GrantDays)
      BY <1>6, <3>3 DEF ExpireVersions
    <3>5. ~(t.inserted < grantDay - GrantDays)
      BY <1>T, <2>1, <3>1, <3>2, <3>4, GrantConstants
    <3> QED
      BY <1>6, <3>1, <3>5 DEF ExpireVersions
  <2> QED
    BY <2>2, <2>3 DEF HistoryInv
<1>7. CASE DeleteGrants
  BY <1>T, <1>7 DEF DeleteGrants, HistoryInv, VersionsInOrder, HistoryDiffsAreWhole
<1>8. CASE NextGrantDay
  <2>1. grantDay' = grantDay + 1 /\ UNCHANGED <<grantRows, mutation, deletions>>
    BY <1>8 DEF NextGrantDay
  <2>2. ASSUME deletions = 0, NEW a \in Admins PROVE DatesOf(mutation[a])'
    <3>1. DatesOf(mutation[a]) /\ mutation[a] \in Mutations
      BY <1>T, <2>2 DEF HistoryInv, VersionsInOrder
    <3>2. /\ mutation[a] # NoMutation => \A r \in mutation[a].saw : r.inserted \in Int
          /\ mutation[a].pc \in {"open", "locked"} => mutation[a].began \in Int
      BY <3>1, MutationFields DEF Opened, Locked, GrantRow
    <3> QED
      BY <1>T, <2>1, <3>1, <3>2 DEF DatesOf
  <2> QED
    BY <1>T, <2>1, <2>2 DEF HistoryInv, VersionsInOrder, HistoryDiffsAreWhole
<1>9. CASE UNCHANGED grantVars
  BY <1>9 DEF grantVars, HistoryInv, VersionsInOrder, HistoryDiffsAreWhole, DatesOf
<1> QED
  BY <1>1, <1>2, <1>3, <1>4, <1>5, <1>6, <1>7, <1>8, <1>9 DEF GrantNext

(* Retention leaves no gap between the versions of a corpus                   *)
(* (history_with_previous).                                                   *)
THEOREM HistoriesHaveNoGap == GrantSpec => []HistoryDiffsAreWhole
<1>1. GrantInit => HistoryInv
  BY DEF GrantInit, HistoryInv, VersionsInOrder, HistoryDiffsAreWhole, DatesOf
<1>2. GrantInv /\ HistoryInv /\ [GrantNext]_grantVars => HistoryInv'
  BY HistoryStep
<1>3. HistoryInv => HistoryDiffsAreWhole
  BY DEF HistoryInv
<1> QED
  BY <1>1, <1>2, <1>3, GrantInvariance, PTL DEF GrantSpec
=============================================================================

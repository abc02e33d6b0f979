---------------------------- MODULE AuditLedger ----------------------------
(***************************************************************************)
(* The PostgreSQL audit ledger of one tenant: the tables audit_runs and    *)
(* audit_events, the requests that persist a completed verification as one *)
(* unit (a run, its verification_completed event and, for a replay, its    *)
(* verification_replay event), the reads of the ledger, and the retention  *)
(* run that deletes from the two tables with two different cutoffs.        *)
(*                                                                         *)
(* The content of a run is its decision; a row carries the number its      *)
(* sequence gave it, which also stands for the random event id: all that   *)
(* matters of either is that they are distinct and totally ordered.        *)
(***************************************************************************)
EXTENDS Integers, FiniteSets

CONSTANTS
  LedgerWorkers,     \* API threads that complete verifications
  Traces,            \* trace ids; a client may send one twice in X-Trace-Id
  Decisions,         \* what two runs of one request may differ in
  NoSource,          \* no value: replay_of of an original run, no filter
  RunDays,           \* days a verification run is kept
  EventDays,         \* days an audit event is kept
  ExportCap,         \* audit_export_max_records
  PageLimit,         \* rows of one page of the verification history
  MaxRequests,       \* bound: requests that write to the ledger
  MaxReadRequests,   \* bound: such requests in a behaviour with a reader
  MaxDay             \* bound: days

Run    == "/verification/run"
Replay == "/verification/replay"
Paths  == {Run, Replay}

ASSUME LedgerConstants ==
  /\ RunDays \in Nat /\ EventDays \in Nat /\ MaxDay \in Nat
  /\ MaxRequests \in Nat /\ MaxReadRequests \in 0..MaxRequests
  /\ ExportCap \in Nat \ {0} /\ PageLimit \in Nat \ {0}
  /\ NoSource \notin Traces

\* infra/security/backup-retention-policy.json: runs 180 days, events 365.
ASSUME RunsGoFirst == RunDays <= EventDays

VARIABLES
  today,         \* the clock, in days
  auditRuns,     \* committed rows of audit_runs
  auditEvents,   \* committed rows of audit_events
  work,          \* work[w]: the completion worker w is persisting
  lastRow,       \* the last number the row sequences gave
  requests,      \* requests begun
  answers,       \* accepted answers whose run has not been deleted
  reader         \* a read of the ledger that is under way, or its outcome

ledgerVars == <<today, auditRuns, auditEvents, work, lastRow, requests, answers, reader>>

Key(x) == <<x.trace, x.path>>

RunRows   == [trace : Traces, path : Paths, decision : Decisions,
              source : Traces \cup {NoSource}, created : 0..MaxDay, id : Nat]
EventRows == [trace : Traces, path : Paths, decision : Decisions \cup {NoSource},
              source : Traces \cup {NoSource}, created : 0..MaxDay, id : Nat,
              type : {"completed", "replay", "other"}]

IdleWork == [pc |-> "idle"]

Completed(es) == {e \in es : e.type = "completed"}
Replayed(es)  == {e \in es : e.type = "replay"}

\* ORDER BY created_at DESC, id DESC LIMIT n.
Newer(x, y) == x.created > y.created \/ (x.created = y.created /\ x.id > y.id)
Newest(rows, n) == {x \in rows : Cardinality({y \in rows : Newer(y, x)}) < n}

LedgerInit ==
  /\ today = 0
  /\ auditRuns = {}
  /\ auditEvents = {}
  /\ work = [w \in LedgerWorkers |-> IdleWork]
  /\ lastRow = 0
  /\ requests = 0
  /\ answers = {}
  /\ reader = [kind |-> "none"]
-----------------------------------------------------------------------------
(* Completing a verification.                                              *)

\* The bound on requests, lower while someone reads.
MoreRequests == requests < IF reader.kind = "none" THEN MaxRequests ELSE MaxReadRequests

Begin(w, t, p, d, s) ==
  /\ work[w] = IdleWork
  /\ MoreRequests
  /\ requests' = requests + 1
  /\ work' = [work EXCEPT ![w] = [pc |-> "computed", trace |-> t, path |-> p,
                                  decision |-> d, source |-> s, created |-> today]]
  /\ UNCHANGED <<today, auditRuns, auditEvents, lastRow, answers, reader>>

\* The orchestrator returns a run stamped with the current time.
CompleteVerification(w, t, d) == Begin(w, t, Run, d, NoSource)

\* The original runs of a trace: rows whose input carries no replay_of.
ReplaySources(t) == {r \in auditRuns : r.trace = t /\ r.source = NoSource}

\* A replay reads its source first: none is a 404, several are a 409, and
\* neither reaches the orchestrator. The replay may decide otherwise.
ReplayVerification(w, t, s, d) ==
  /\ Cardinality(ReplaySources(s)) = 1
  /\ Begin(w, t, Replay, d, s)

\* The completion transaction inserts the run, ON CONFLICT DO NOTHING. The
\* unique index makes it wait for a transaction that inserted the same key
\* and has not ended. The events were stamped just before.
InsertRun(w) ==
  /\ work[w].pc = "computed"
  /\ \A v \in LedgerWorkers : work[v].pc = "inserted" /\ work[v].fresh => Key(work[v]) # Key(work[w])
  /\ LET fresh == \A r \in auditRuns : Key(r) # Key(work[w])
     IN  /\ work' = [work EXCEPT ![w] =
                       [pc |-> "inserted", fresh |-> fresh, stamped |-> today,
                        trace |-> work[w].trace, path |-> work[w].path,
                        decision |-> work[w].decision, source |-> work[w].source,
                        created |-> work[w].created, id |-> lastRow + 1]]
         /\ lastRow' = lastRow + 1
  /\ UNCHANGED <<today, auditRuns, auditEvents, requests, answers, reader>>

RunRow(c) == [trace |-> c.trace, path |-> c.path, decision |-> c.decision,
              source |-> c.source, created |-> c.created, id |-> c.id]

EventRow(c, type, n) == [trace |-> c.trace, path |-> c.path, decision |-> c.decision,
                         source |-> IF type = "replay" THEN c.source ELSE NoSource,
                         created |-> c.stamped, id |-> n, type |-> type]

\* The events of a unit: a replay has a second one that names its source.
UnitEvents(c) == {EventRow(c, "completed", lastRow + 1)} \cup
                 (IF c.path = Replay THEN {EventRow(c, "replay", lastRow + 2)} ELSE {})

Occupied(e) == \E f \in auditEvents : Key(f) = Key(e) /\ f.type = e.type

Finish(w, answered) ==
  /\ work' = [work EXCEPT ![w] = IdleWork]
  /\ answers' = answers \cup answered
  /\ UNCHANGED <<today, requests, reader>>

AcceptedAnswer(r) == [trace |-> r.trace, path |-> r.path, decision |-> r.decision,
                      created |-> r.created]

\* The last acknowledgement may be lost: the unit is there and the answer is
\* 503, which accepts nothing.
AnswerOrLost(w, r) == \E lost \in BOOLEAN : Finish(w, IF lost THEN {} ELSE {AcceptedAnswer(r)})

\* Every row was inserted: the unit is validated and committed.
CommitUnit(w) ==
  /\ work[w].pc = "inserted" /\ work[w].fresh
  /\ \A e \in UnitEvents(work[w]) : ~Occupied(e)
  /\ auditRuns' = auditRuns \cup {RunRow(work[w])}
  /\ auditEvents' = auditEvents \cup UnitEvents(work[w])
  /\ lastRow' = lastRow + Cardinality(UnitEvents(work[w]))
  /\ AnswerOrLost(w, work[w])

\* What a retry must find stored: the run and every event of its unit, and the
\* same decision and source. The two timestamps are the stored ones.
StoredUnit(c) ==
  {r \in auditRuns :
     /\ Key(r) = Key(c) /\ r.decision = c.decision /\ r.source = c.source
     /\ \A e \in UnitEvents(c) : \E f \in auditEvents :
          Key(f) = Key(e) /\ f.type = e.type /\ f.decision = e.decision /\ f.source = e.source}

\* mutant: the retry answers with the run it has just computed.
AdoptUnitAsComputed(w) ==
  /\ work[w].pc = "inserted" /\ ~work[w].fresh
  /\ \A e \in UnitEvents(work[w]) : Occupied(e)
  /\ StoredUnit(work[w]) # {} /\ AnswerOrLost(w, work[w])
  /\ UNCHANGED <<auditRuns, auditEvents, lastRow>>

\* Nothing was inserted: the retry adopts the stored unit if it is its own.
AdoptUnit(w) ==
  /\ work[w].pc = "inserted" /\ ~work[w].fresh
  /\ \A e \in UnitEvents(work[w]) : Occupied(e)
  /\ \E r \in StoredUnit(work[w]) : AnswerOrLost(w, r)
  /\ UNCHANGED <<auditRuns, auditEvents, lastRow>>

\* A partial unit, a conflicting retry, a row that has gone since, or a
\* connection that breaks: the transaction rolls back and the answer is 503.
RollBack(w) ==
  /\ work[w].pc = "inserted"
  /\ Finish(w, {})
  /\ UNCHANGED <<auditRuns, auditEvents, lastRow>>
-----------------------------------------------------------------------------
(* Other writers.                                                          *)

\* append_event: every other audit event of a request.
AppendEvent(t) ==
  /\ MoreRequests
  /\ requests' = requests + 1
  /\ lastRow' = lastRow + 1
  /\ auditEvents' = auditEvents \cup
       {[trace |-> t, path |-> Run, decision |-> NoSource,
         source |-> NoSource, created |-> today, id |-> lastRow + 1, type |-> "other"]}
  /\ UNCHANGED <<today, auditRuns, work, answers, reader>>

\* mutant: the two cutoffs are swapped.
KeptSwapped(rows, days) == {x \in rows : x.created >= today - (RunDays + EventDays - days)}

\* The rows a cutoff leaves.
Kept(rows, days) == {x \in rows : x.created >= today - days}

\* One transaction deletes from both tables, each with the cutoff of its class.
ExecuteRetention ==
  /\ auditRuns' = Kept(auditRuns, RunDays)
  /\ auditEvents' = Kept(auditEvents, EventDays)
  /\ answers' = {a \in answers : \E r \in auditRuns' : AcceptedAnswer(r) = a}
  /\ UNCHANGED <<today, work, lastRow, requests, reader>>

DeleteTenant ==
  /\ auditRuns' = {}
  /\ auditEvents' = {}
  /\ answers' = {}
  /\ UNCHANGED <<today, work, lastRow, requests, reader>>

NextDay ==
  /\ today < MaxDay
  /\ today' = today + 1
  /\ UNCHANGED <<auditRuns, auditEvents, work, lastRow, requests, answers, reader>>
-----------------------------------------------------------------------------
(* Reading the ledger. Readers write nothing, so one at a time is enough.  *)

\* The rows of the requested trace; no filter is the whole tenant.
OfTrace(rows, f) == {x \in rows : f = NoSource \/ x.trace = f}

Keys(rows) == {Key(x) : x \in rows}

\* Retention has taken the run of a completion event and left the event.
SplitUnits(f) == Keys(Completed(OfTrace(auditEvents, f))) \ Keys(OfTrace(auditRuns, f))

\* POST /audit/export opens a REPEATABLE READ transaction and reads the runs:
\* cap + 1 of them, the extra one telling an exact cap from a truncation. The
\* snapshot keeps what the events statement would find at this moment.
StartExport(f, withEvents) ==
  /\ reader.kind = "none" /\ requests <= MaxReadRequests
  /\ reader' = [kind |-> "export", filter |-> f, withEvents |-> withEvents,
                split |-> SplitUnits(f) # {},
                runs |-> Newest(OfTrace(auditRuns, f), ExportCap + 1),
                snapshot |-> IF withEvents
                             THEN Newest(OfTrace(auditEvents, f), ExportCap + 1) ELSE {}]
  /\ UNCHANGED <<today, auditRuns, auditEvents, work, lastRow, requests, answers>>

\* mutant: every statement of the export sees what is committed by then.
ExportedEventsReadCommitted(x) ==
  IF x.withEvents THEN Newest(OfTrace(auditEvents, x.filter), ExportCap + 1) ELSE {}

\* The second statement of the export sees the snapshot of the first.
ExportedEvents(x) == x.snapshot

\* _validate_snapshot_integrity: whole key sets are compared only when neither
\* half was truncated, what both halves show must always agree.
SnapshotIsSound(rs, es, whole) ==
  /\ \A rows \in {rs, Completed(es), Replayed(es)} : Cardinality(Keys(rows)) = Cardinality(rows)
  /\ whole => /\ Keys(rs) = Keys(Completed(es))
              /\ {k \in Keys(rs) : k[2] = Replay} = Keys(Replayed(es))
  /\ \A r \in rs, e \in Completed(es) : Key(r) = Key(e) => r.decision = e.decision
  /\ \A r \in rs, e \in Replayed(es) :
       Key(r) = Key(e) => r.decision = e.decision /\ r.source = e.source
  /\ \A c \in Completed(es), e \in Replayed(es) : Key(c) = Key(e) => c.decision = e.decision

FinishExport ==
  /\ reader.kind = "export"
  /\ LET es    == ExportedEvents(reader)
         whole == /\ reader.withEvents
                  /\ Cardinality(reader.runs) <= ExportCap
                  /\ Cardinality(es) <= ExportCap
         rs    == Newest(reader.runs, ExportCap)
     IN  reader' = [kind  |-> IF SnapshotIsSound(rs, Newest(es, ExportCap), whole)
                              THEN "exported" ELSE "refused",
                    whole |-> whole, split |-> reader.split]
  /\ UNCHANGED <<today, auditRuns, auditEvents, work, lastRow, requests, answers>>

\* POST /verification/runs/list: the first page. due holds the events that a
\* client walking the pages may expect to see.
StartHistory ==
  /\ reader.kind = "none" /\ requests <= MaxReadRequests
  /\ reader' = [kind |-> "history", due |-> Completed(auditEvents),
                seen |-> {}, again |-> {}, after |-> {}]
  /\ UNCHANGED <<today, auditRuns, auditEvents, work, lastRow, requests, answers>>

\* mutant: the cursor is the timestamp alone.
BehindTheTimestamp(rows, after) == {x \in rows : \A y \in after : x.created < y.created}

\* The rows behind the cursor, (created_at, event_id) < cursor; after is the
\* singleton of the row the cursor names, or empty for the first page.
Behind(rows, after) == {x \in rows : \A y \in after : Newer(y, x)}

\* One page: limit + 1 rows are read, and a further page exists only if the
\* extra one was there.
ReadPage ==
  /\ reader.kind = "history"
  /\ LET found == Newest(Behind(Completed(auditEvents), reader.after), PageLimit + 1)
         page  == Newest(found, PageLimit)
     IN  reader' = [kind  |-> IF Cardinality(found) > PageLimit THEN "history" ELSE "listed",
                    due   |-> reader.due \cap auditEvents,
                    seen  |-> reader.seen \cup page,
                    again |-> reader.again \cup (reader.seen \cap page),
                    after |-> {x \in page : \A y \in page : y = x \/ Newer(y, x)}]
  /\ UNCHANGED <<today, auditRuns, auditEvents, work, lastRow, requests, answers>>

\* The outcome has been used; another read may start.
DropReader ==
  /\ reader.kind \in {"exported", "refused", "listed"}
  /\ reader' = [kind |-> "none"]
  /\ UNCHANGED <<today, auditRuns, auditEvents, work, lastRow, requests, answers>>
-----------------------------------------------------------------------------
LedgerNext ==
  \/ \E w \in LedgerWorkers :
       \/ \E t \in Traces, d \in Decisions :
            \/ CompleteVerification(w, t, d)
            \/ \E s \in Traces : ReplayVerification(w, t, s, d)
       \/ InsertRun(w) \/ CommitUnit(w) \/ AdoptUnit(w) \/ RollBack(w)
  \/ \E t \in Traces : AppendEvent(t)
  \/ ExecuteRetention \/ DeleteTenant \/ NextDay
  \/ \E f \in Traces \cup {NoSource}, b \in BOOLEAN : StartExport(f, b)
  \/ FinishExport \/ StartHistory \/ ReadPage \/ DropReader

LedgerSpec == LedgerInit /\ [][LedgerNext]_ledgerVars
-----------------------------------------------------------------------------
\* The type invariant.
LedgerTypeOK ==
  /\ today \in 0..MaxDay
  /\ auditRuns \subseteq RunRows
  /\ auditEvents \subseteq EventRows
  /\ \A w \in LedgerWorkers :
       work[w] \in {IdleWork} \cup
                  [pc : {"computed"}, trace : Traces, path : Paths, decision : Decisions,
                   source : Traces \cup {NoSource}, created : 0..MaxDay] \cup
                  [pc : {"inserted"}, trace : Traces, path : Paths, decision : Decisions,
                   source : Traces \cup {NoSource}, created : 0..MaxDay,
                   fresh : BOOLEAN, stamped : 0..MaxDay, id : Nat]
  /\ lastRow \in Nat
  /\ requests \in 0..MaxRequests
  /\ answers \subseteq [trace : Traces, path : Paths, decision : Decisions, created : 0..MaxDay]
  /\ reader.kind \in {"none", "export", "exported", "refused", "history", "listed"}

\* A stored run never stands without the events of its unit, whatever
\* retention and concurrent completions did: audit.py commits the unit in one
\* transaction and the policy keeps events at least as long as runs.
RunsKeepTheirEvents ==
  \A r \in auditRuns :
    /\ \E e \in auditEvents : Key(e) = Key(r) /\ e.type = "completed" /\ e.decision = r.decision
    /\ r.path = Replay =>
         \E e \in auditEvents : /\ Key(e) = Key(r) /\ e.type = "replay"
                                /\ e.decision = r.decision /\ e.source = r.source

\* An accepted answer is in the ledger: the one stored run of its trace and
\* path has the decision and the timestamp that were answered, so retries with
\* one trace id, sequential or concurrent, all answer the same
\* (_append_completion_unit, _record_verification_completed).
AnswersAreStored ==
  \A a \in answers : {AcceptedAnswer(r) : r \in {r \in auditRuns : Key(r) = Key(a)}} = {a}

\* An export is refused only over a unit that retention has split: neither
\* the two caps, nor the trace filter, nor a completion that commits between
\* the two reads makes a sound ledger look corrupt (load_snapshot).
RefusedExportsSawASplitUnit ==
  reader.kind = "refused" => reader.split

\* Walking the pages of the verification history returns every completion
\* that was there from the first page to the last, and none of them twice,
\* while other completions commit, also with an older timestamp
\* (load_event_page, list_verification_history).
HistoryPagesAreComplete ==
  /\ reader.kind = "history" => reader.again = {}
  /\ reader.kind = "listed" => reader.again = {} /\ reader.due \subseteq reader.seen

\* What docs/security/audit-ledger.md says of an export that truncated
\* nothing: no completion event of it is without its run.
UntruncatedKeySetsMatch ==
  reader.kind \in {"exported", "refused"} /\ reader.whole => ~reader.split
=============================================================================

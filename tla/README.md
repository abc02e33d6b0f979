# TLA+ models of the hallu-defense platform

Specifications, model-checking configurations and machine-checked proofs for the
parts of the platform whose correctness depends on order: the ingestion outbox and
its workers, the hybrid RAG index with its erasure and its advisory locks, human approvals
of tool calls, the audit ledger, corpus grants, the console's demo requests and sessions, the
sandbox's Kubernetes Jobs and the cache of the identity provider's keys.
Paths below are relative to the repository; `services/` stands for
`apps/api/src/hallu_defense/services/`.

1. [The system](#1-the-system) – 2. [Plan](#2-plan) – 3. [Modules](#3-modules-and-how-they-correspond-to-the-code) –
4. [Runs](#4-runs-bounds-and-what-they-show) – 5. [Fairness](#5-fairness) – 6. [Proofs](#6-proofs) –
7. [Disagreements found](#7-where-code-and-documentation-disagree) – 8. [What is not modelled](#8-what-is-not-modelled)

## 1. The system

A FastAPI service verifies claims of language models against retrieved evidence, guards
tool calls, and keeps tenants' documents in two stores. Workers drain a PostgreSQL outbox
of documents to be indexed; a lifecycle service erases them; a Next.js console talks to the
API through its own backend. Everything below that runs concurrently does so in several
processes (API replicas, worker replicas, lifecycle commands) that share only PostgreSQL,
OpenSearch, Redis, a JSONL file or Vault.

| Component (source) | State | Operations | Interacts with | What is hard |
|---|---|---|---|---|
| Ingestion outbox (`services/ingestion_jobs.py`) | `rag_ingestion_jobs` rows: status, attempts, available_at, lock, lease token | enqueue, claim, heartbeat, complete, fail, retry for reconciliation, two stale recoveries | workers, tenant deletion | leases that expire under a live worker, retries, erasure |
| Ingestion worker (`worker.py`) | current job, token, heartbeat thread | run_once: requeue stale, claim a batch, audit, execute, settle | outbox, RAG stores, audit | crash between any two statements, a lost answer, a heartbeat that fails |
| Hybrid index writer (`services/rag_index.py`) | OpenSearch documents, pgvector rows | index_chunks: lock, fence, bulk, reconcile revisions, upsert, commit | lifecycle locks, tombstones | two stores without a common transaction |
| RAG lifecycle coordinator (`services/rag_lifecycle.py`) | `rag_lifecycle_operations` journal with a lease, advisory locks, tombstones | begin/reclaim, targets, locks, delete external, verify, fence, complete | writer, both stores | replay after a crash, rows that change while they are enumerated |
| Data lifecycle service (`services/data_lifecycle.py`) | retention and deletion of every table | execute_retention, delete_tenant_data | coordinator | one final transaction around an external deletion |
| Reindexing (`services/rag_backfill.py`) | a job of its own | gate, page, enqueue | outbox | fail-closed gate |
| Approvals (`services/approvals.py`) | records, execution grants, commitment keys | request, decide with grant, consume | tool safety, routes | two reviewers, two executors, key rotation, JSONL replay |
| Tool safety and policy (`services/tool_safety.py`, `policy.py`, `opa.py`) | none per request; tool definitions | validate input and output | approvals, OPA | agreement of local rules and Rego |
| Audit ledger (`services/audit.py`, `verification_history.py`) | `audit_runs` and `audit_events` rows | complete a verification or a replay as one unit, adopt the unit of a retry, append, export, history pages, retention, deletion | every handler; lifecycle commands | retries under one trace id, two retention periods over one unit, reads between commits |
| Corpus grants (`services/corpus_grants.py`) | versions of `rag_corpus_grants` | upsert and disable with an expected version, retention, deletion | retrieval's access control | lost updates, retention that takes no lock |
| Authentication (`services/oidc.py`, `secret_token.py`, `secrets.py`) | cached key set, last forced refresh, unknown key ids; rotating tokens | resolve a key, refresh, refresh for an unknown id | identity provider, Vault | a clock read before a wait, outages, forged ids that must not hide new keys |
| Rate limits, readiness (`services/rate_limit.py`, `readiness.py`) | window counters, probe cache | admit, probe | Redis | window edges, single flight |
| Verification pipeline (`services/orchestrator.py`, `verifier.py`, ...) | one request's trace | extract, retrieve, verify, repair | providers | sequential; scoring of text |
| Content security (`services/content_security.py`) | none | scan, chunk | API | functions of text |
| Sandbox (`services/sandbox*.py`, `infra/docker/sandbox_runner.py`) | the workspace, a Kubernetes Job and its Pods | fingerprint, copy, inspect, create, reconcile, wait, read logs, delete, confirm | cluster; whoever writes the workspace | requests whose answer is lost, a workspace that changes under the run |
| Console demo requests (`apps/console/lib/demo-request/`) | one Redis hash per submission id | reserve, begin delivery, call the webhook, finalize, release | browser, Redis, webhook | commands given up and applied late, leases against a slow webhook |
| Console sessions and BFF (`apps/console/lib/auth-store.ts`, `app/auth/`) | login transactions, sessions, the browser's two cookies | login, callback, rotate, logout, probe, expire | identity provider, browser tabs | callbacks of several tabs that cross a logout or each other |
| MCP server, adapters, SDK; operations scripts | none durable | clients of the API; drills and evaluations | API | – |

What makes each modelled component correct:

* **Outbox and workers.** One worker at a time holds a job, even when replicas share a
  worker id; a row says `succeeded` only when the evidence is in both stores; a half-written
  document always has a row that will be retried; dead letters are deserved; success is
  reported once; a settled row does not move; after a tenant deletion nothing of it comes
  back; in the end every job settles.
* **Hybrid writes and erasure.** The stores hold the same chunks of every document nobody works
  on, unless a failed write of it has not been repeated or a failed retention not been replayed;
  deleted evidence stays deleted; a catalog row outlives the evidence under its
  id; a document refreshed while retention runs is kept; each operation succeeds once.
* **Approvals.** One decision per request, one grant per approval, one execution per grant, of
  exactly what was reviewed; no live grant is left without the key that checks it; a restart
  forgets and revives nothing.
* **Advisory locks.** However many writers, retention runs and deletions take the locks of
  however many tenants, they never wait in a circle.
* **Audit ledger.** A stored run has its events; every accepted answer is the one stored run
  of its trace; an export is refused only over a unit that retention has split; walking the
  history misses and repeats nothing.
* **Corpus grants.** A version is written only over the grant its author saw; the current grant
  goes only for its successor; retention leaves no gap in a history.
* **Demo requests.** Accepted means delivered, and delivered once.
* **Console sessions.** A login makes one session, a session has one successor, and none after a logout.
* **Sandbox.** A result is of the workspace that was requested; a confirmed cleanup leaves
  nothing; nobody else's Job is deleted.
* **Key-set cache.** A withdrawn key is accepted for a bounded time only, a published one is found in bounded time.

`PROJECT.json` lists every hazard found while reading, at its line, with the properties that
cover it or the reason why none does.

## 2. Plan

| Order | Module | Abstract specification or composition | State |
|---|---|---|---|
| 1 | `IngestionQueue` | implements `IngestionJobLifecycle` | done |
| 2 | `IngestionQueueProofs` | types, lease exclusion, rows against stores, single success, refinement | done |
| 3 | `HybridErasure` | opens the one-step execution of `IngestionQueue` | done |
| 4 | `HybridErasureProofs` | types, final erasure, single success | done |
| 5 | `ApprovalGrants`, `ApprovalGrantsProofs` | implements `ApprovalLifecycle` | done |
| 6 | `HybridErasureProofs`, continued | `ParityOrRetry`, `FreshEvidenceIsKept`, `CatalogOutlivesEvidence` for a single retention period | done |
| 7 | `AuditLedger`, `TenantTablesProofs` | completions, retention and readers of two tables | done |
| 8 | `CorpusGrants`, `TenantTablesProofs` | compare-and-append against retention | done |
| 9 | `DemoRequest`, `ConsoleAuth`, `ConsoleProofs` | the two state machines of the console | done |
| 10 | `SandboxJob`, `SandboxJobProofs` | a run, its Job and the workspace | done |
| 11 | `JwksCache`, `JwksCacheProofs` | bounded-window promises of a cache | done |
| 12 | `LifecycleLocks`, `PlatformProofs` | the locks of `HybridErasure` and of both pgvector writers, alone, several tenants | done |
| 13 | `MCPlatform`, `PlatformProofs` | 7 to 12 in one instance; a behaviour of it is one of each component | done |
| 14 | tool policy and verdict lattice | operators checked against the Rego policy over bounded inputs | open |

## 3. Modules and how they correspond to the code

The `map` of `PROJECT.json` gives the lines of every definition.

### IngestionJobLifecycle – what the outbox promises of one job

Three variables (phase, attempts, how often leased), five actions. A row waits, is leased
under a fresh epoch, goes back or settles; every release charges one attempt; a row is
buried only with its attempts used up. `IngestionQueue` instantiates it with
`phase <- PhaseOf(status)` and `epoch <- claims`; `ImplementsLifecycle` is checked in
`queue_hybrid` and proved in `IngestionQueueProofs`.

### IngestionQueue – `services/ingestion_jobs.py`, `worker.py`

Each SQL statement is one step. A worker's `pc` names the statement it is about to issue, so
that a crash, a lost answer, an expired lease or a deletion can fall between any two of them.

| Variable | Code |
|---|---|
| `status, attempts, due, lockedBy, lockAge, lease` | columns of `rag_ingestion_jobs`; `due` and `lockAge` are relative to now |
| `claims` | number of lease tokens handed out; a `uuid4` is its number |
| `pc, cur, tok, taken, requeued` | locals of `run_once` and `_process_job` |
| `beat` | the heartbeat thread's state, shared with the worker through its event |
| `store` | evidence of the job in the stores: none, OpenSearch only, both |
| `tombstones, auditRows, successEvents` | `rag_tenant_deletion_tombstones`, `audit_events` |

Actions: `Enqueue`, `RequeueStale`, `AuditRequeued`, `Claim`, `EndBatch`, `AuditClaimed`,
`Executed` / `ExecutionRejected` / `ExecutionFenced` / `ExecutionFailed`, `Heartbeat`,
`HeartbeatError`, `Complete`, `CompleteError`, `AuditSucceeded`, `AuditSuccessLost`, `Fail`,
`AuditFailed`, `Crash`, `Restart`, `DeleteTenant`, `Tick`. `Hybrid` switches between the
recovery that preserves half-written work and the one that dead-letters on a budget.

### HybridErasure – `services/rag_index.py`, `rag_lifecycle.py`, `data_lifecycle.py`

The execution of a job, opened up. A writer takes the tenant's advisory lock on a session of
its own, reads the tombstones, sends the bulk, drops other revisions, upserts and commits. An
executor leases its journal entry, reads its target tenants, takes their locks in key
order, enumerates, deletes from OpenSearch, verifies zero hits, and commits the tombstone, the
sweep, the success audit and the completion in one transaction guarded by its lease token.

A document is a set of chunks. An evidence id is made from the chunk index and not from the
revision (`_persistent_evidence_id`), so a revision overwrites the chunks it shares with an earlier
one (`Overwrite`), adds those it has in excess, and loses the others when it is reconciled. `os` and
`pg` are the chunks each store holds, each with the revision it is of. What an executor
asks OpenSearch to delete differs by operation (`Listed`): a tenant deletion everything of the tenant, a
retention run *the ids it finds in* `rag_evidence_chunks`; `_count` verifies with the same query, so
`Verify` sees no other chunk (`Found`). Every HTTP call may fail with any part of its
work done: a bulk with some items indexed, a deletion with some chunks gone.

`suspect` holds what was reported as failed and has not been made good: `<<d, "write">>` until
`d` is written or its tenant deleted, `<<d, "erase">>` until a retention of it succeeds as well. A retention
does not end the first, because it leaves the chunks of a failed write that PostgreSQL never
listed. `late` holds bulk items whose client gave up. `LateBulks` and `SessionLoss` add two outside
failures the code does not control. `Init` also stands for `rag_tenant_deletion_tombstones` being empty.

### ApprovalLifecycle – what the approval queue promises of one call

Five variables (answer, what was reviewed, capability, executions and what they executed), six
actions. A request is asked once and decided once; a capability is issued before the approval or
with it, spent once and never revived; one execution, of what was reviewed. `ApprovalGrants`
instantiates it with the columns of its store and `executed`, grouped by approval;
`ImplementsApproval` is checked in `approvals` and proved in `ApprovalGrantsProofs`.

### ApprovalGrants – `services/approvals.py`, two handlers of `api/routes.py`, `services/tool_safety.py`

| Variable | Code |
|---|---|
| `record`, `grant` | `approval_records`, `approval_execution_grants`; in jsonl mode, what the file replays to |
| `memory` | `_records` and `_grants` of the jsonl process |
| `config`, `defs` | active and previous commitment key, trusted tool definitions, per process |
| `pc, req` | a request between its reads and its commit |
| `told, delivered, executed` | what reviewers and executors were answered |

In PostgreSQL mode a decision reads (`BeginDecision`), then settles in one guarded transaction
(`CommitDecision`); a consumption reads (`BeginConsume`), then settles with one guarded update
(`ConsumeGrant`). In jsonl mode the same process appends the grant (`AppendGrant`), appends the
record (`AppendRecord`), then changes its memory and answers (`RememberDecision`); it holds its
lock all the while, which is why it is one worker, `Solo`, with one request. `Authorize` is
the second validation with the consumed capability, where policy may still refuse.
`StoreError` raises with or without effect; `RestartWorker` ends a request anywhere and brings
back any configuration whose overlap is not over.

A commitment is abstracted to what it binds – the call, the definition, the key – since the
properties tell only these apart. A failed append leaves no line: a torn one makes the next
start refuse the whole file, so no behaviour follows from it.

### LifecycleLocks – the advisory locks of `services/rag_index.py`, `rag_lifecycle.py`, `ingestion_jobs.py`

One variable: `task[a]` says which locks activity `a` holds, which it has yet to take, which one
it has asked for, and whether `hold()` keeps the hybrid ones on a session of their own. A lock is
a space (hybrid revision, metadata filter of older pods, corpus), a tenant and a rank. Two ranks are
needed because the code sorts twice: `_hybrid_write_lock_keys` sorts key texts, in which a tenant's
own key has a place among its documents, and `_revision_reconciliation_groups` sorts groups.
`IndexInBoth`, `IndexInPgvector`, `TakeTenant` (enqueue, tenant deletion) and `TakeTargets`
(retention) start an activity with its keys; `Ask`, `Grant`, `CommitRows`, `Unlock` and `Abandon`
take and return them. What the locks protect is in `HybridErasure`.

### AuditLedger – `services/audit.py`, `verification_history.py`, the handlers that use them

| Variable | Code |
|---|---|
| `auditRuns`, `auditEvents` | committed rows of the two tables of one tenant |
| `work` | the completion an API thread is persisting: computed, or inserted and not yet committed |
| `answers` | what clients were answered and retention has not deleted |
| `reader` | an export or a walk over history pages, and what an omniscient observer expects of it |
| `today`, `lastRow`, `requests` | the clock, the row sequences, the bound |

`CompleteVerification` and `ReplayVerification` (which needs exactly one source) compute a run;
`InsertRun` is `INSERT ... ON CONFLICT DO NOTHING`, which waits for an uncommitted insert of the same
key; `CommitUnit` commits run and events together, `AdoptUnit` answers a retry with the stored
unit, `RollBack` is every error. `AppendEvent` is any other event, `ExecuteRetention` deletes
from both tables with their cutoffs, `DeleteTenant` everything. `StartExport` / `FinishExport` are the
two statements of a REPEATABLE READ transaction with the validation of the snapshot;
`StartHistory` / `ReadPage` walk the cursor `(created_at, event_id)`.

### CorpusGrants – `services/corpus_grants.py`

`grantRows` are versions, `mutation` the change an administrator is making: `Decide` (it looks at the
current grant), `OpenMutation` (the transaction starts, which dates its row), `LockLatest` (the
advisory lock, the latest version and the comparison with the expected one), `AppendVersion`,
`AbandonMutation`. `ExpireVersions` and `DeleteGrants` take no lock of the registry. Roles are left
out: only which version is current matters here.

### DemoRequest – `apps/console/lib/demo-request/service.ts`, `redis.ts`, `webhook.ts`

`reservation` is the Redis hash of one submission id; `serving` what each handler is doing; `late`
the commands whose client gave up after its second, each of which Redis applies later (`ApplyLate`)
or never (`LoseLate`). The five answers of RESERVE and the guards of BEGIN_DELIVERY, FINALIZE
and RELEASE are operators, used both for a command in time and for a late one. `EndLease` may fall
anywhere; `ExpireReservation` (24 hours) only when nothing is under way.

### ConsoleAuth – `apps/console/lib/auth-store.ts`, `app/auth/*/route.ts`

The store of one process (`transactions`, `sessions`) and one browser with several tabs and one
cookie jar (`sessionCookie`, `stateCookie`). A handler runs without interruption up to an `await`:
`StartLogin` | discovery | `RedirectToProvider` or `DiscoveryFails`; `Callback` consumes the
transaction | code exchange | `CompleteCallback` rotates the session or `RefuseCallback`. A logout
(`AskLogout`, `Logout`) and a probe (`ProbeSession`, `DropSessionCookie`) are two steps each,
because their answers cross others. `made` and `loggedOut` remember what was.

### SandboxJob – `services/sandbox.py`, `sandbox_kubernetes.py`, `infra/docker/sandbox_runner.py`

`check` is the run: five passes over the workspace (fingerprint, fingerprint again, copy for the
static inspection, fingerprint of the copy's source, fingerprint at the end), each file by file while
`Write` changes files, and between them the protocol with the API server (`CreateJob`,
`CreateUnclear`, `Reconcile`, `PollJob`, `FindPod`, `ReadLogs`, `DeleteJob`, `DeleteUnclear`,
`ConfirmAbsent`, `ConfirmPodsGone`, ...). `underway` holds requests whose answer was lost and that may
still be applied; `job` and `pods` are the cluster's objects, of this run or of another under
the same name; `snapshot` the copy the Pod makes. The cluster's own steps (`StartPod`, `FinishJob`,
`RemovePod`, `MarkForDeletion`, ...) are external.

### JwksCache – `OidcJwksResolver` in `services/oidc.py`

`published`, `changed` and `rotations` are the identity provider; `cached`, `forced`, `unknown` and
`locked` the resolver's fields; `verifying` the threads. A thread reads the clock when it
arrives and may wait for the lock afterwards, so its `now` can be old. First try: `UseCache`, or
`StartFetch` with `EndFetch` / `FailFetch`; second try for an unknown id: `LookUp`,
`UseCacheInCooldown`, `StartRefresh` with `EndRefresh` / `FailRefresh`, `NoteKid`; `Evict` makes room
among the unknown ids. `failed` remembers the last outage for the property only.

### MCPlatform – the components around the core together

The seven modules above in one instance. They share no state, so a variable `component` picks the one
that moves in a behaviour; interleaving them would only multiply states that do not see
each other, and for a property of one of them no behaviour is lost.

### MC modules

`MCIngestionQueue`, `MCHybridErasure`, `MCApprovalGrants` name the model values, the functions
a `.cfg` cannot write (`TenantOf`, `WorkerIdOf`) and the symmetries. Symmetry is used only for
safety and only over values no definition singles out: writers and executors in
`HybridErasure` (its revisions differ in length); calls in `ApprovalGrants` (its workers are not symmetric: one is `Solo`; keys
and definitions are chosen from by default values); processes, traces and decisions in `MCPlatform`.

## 4. Runs, bounds and what they show

| Run | Question | Bounds |
|---|---|---|
| `queue_hybrid` | all safety of the outbox in hybrid mode and the refinement | 2 jobs of 2 tenants, one poisonous; 2 workers with one id; 2 attempts; batch 2; lease of 2 ticks; 2 faults |
| `queue_liveness` | does a job that is not rejected get indexed? | 1 job, 2 workers, 3 faults |
| `queue_single_store` | the same outbox over pgvector alone; does every job settle? | 2 jobs, 1 fault |
| `erasure` | parity, finality, single success, catalog, retention | 1 document, 2 revisions, of 1 and of 2 chunks, 2 writers, 2 executors, clock of 2 days, 2 leases per entry, 1 fault |
| `erasure_unreliable` | is a success reported for an erased tenant when OpenSearch and PostgreSQL misbehave? | the same with late bulks and lost sessions, clock stopped |
| `approvals` | every property of approvals and the refinement | 1 approval, 2 calls, 2 keys, 2 definitions, 2 workers, both backends, grants of 2 ticks, overlap until 2, 2 restarts, 1 store error |
| `platform` | every property of the seven modules around the core | ledger: 2 workers, 2 traces, 2 decisions, 3 requests (2 beside a reader), 3 days, runs kept 0 days and events 1, cap and page of 1 row; grants: 2 administrators, 1 corpus, 3 versions, 3 days, 1 tenant deletion; demo: 2 handlers, 2 contents, 4 requests, 2 commands given up; sessions: 3 logins, 3 sessions, capacities of 2, 1 probe; sandbox: 2 files of 2 contents, 3 writes; keys: 2 threads, 1 key, life of 3, cooldown of 1, clock to 3, 1 rotation; locks: 2 activities, 2 tenants, 2 documents that sort in opposite orders |
| `queue_unclassified`, `queue_audit_rows`, `erasure_late_bulk`, `erasure_policy_change`, `audit_retention` | expected violations, section 7 | as above; `audit_retention` with a cap of 3 rows, so that an export is whole |

Why these are enough. Two workers show every race for a row, since a row has one holder and
a race needs one other process; with one worker id they cannot be told apart but by the
token, which is the hard case. Two jobs of two tenants make batches, poisonous neighbours and
the deletion of the *other* tenant appear. `MaxAttempts = 2` has both outcomes of the
comparison with the budget; back-offs are capped at four ticks because only their expiry
matters. A lease of two ticks expires after a worker started and before it ended. `MaxFaults`
bounds crashes, failed calls and stalls in one behaviour: a fault in the repair of a fault is
the deepest case the recovery code distinguishes. In `HybridErasure` documents share only
their tenant's lock, so one document with two revisions has every conflict of contents; one revision is
longer than the other, so a chunk can be overwritten, added, or lost by reconciliation, and an
interrupted write can leave a chunk that PostgreSQL does not list;
`MaxLeases = 2` lets one executor take an operation from another. In `ApprovalGrants` approvals
share nothing but the process configuration, so one is the general case; `GrantTtl = 2`
against `Deadline = 2` has grants that fit the overlap exactly and grants that do not; two
restarts rotate a key and roll it back, on one process or on both.

In `platform` (734,231 states) two actors of each kind make every race for one key, one corpus, one
submission id, one session or one lock. A run that is kept 0 days beside an event kept 1 has units in all
four conditions (whole, run gone, both gone, not yet expired); a page and a cap of one row have a
further page or a truncation after every second row. Two given-up commands let a late one
meet the repair of another; three logins have a parent, a sibling and a successor. Three writes to
two files change a content and change it back while another file is being read. For `JwksCache`
and `LifecycleLocks` larger instances were checked as well: a life of 5 with a cooldown of 2 and a
clock to 5 (718,000 states), two keys (2.5 million), time passing inside every step
(`InstantSteps = FALSE`, 396,000), three activities (834,000). The theorems of section 6
hold for all values.

`approvals`, `platform` and `audit_retention` do not check deadlock: nobody has to ask for an approval, send
a demo request or log in, a finished sandbox run is over, and once the clocks and the counters of requests are
used up these components may rest. That activities do not block each other is
`NobodyWaitsInACircle`. All other runs check deadlock.

Each property of a passing run has a mutant in `PROJECT.json`: the operator marked
"mutant" in the module replaces the one after it the way a plausible mistake would (a dropped
fencing token, a lock not taken, a guard left out, a grant written alone), and the
property then fails.

The properties, by question:

* *Who holds what*: `AtMostOneLeaseHolder`, `OneSuccessPerOperation`, `NobodyWaitsInACircle`,
  `NoLostUpdate`, `OneSuccessorPerSession`.
* *Does the record tell the truth*: `SuccessIsIndexed`, `NoOrphanedPartialWrite`,
  `DeadLettersAreDeserved`, `SuccessReportedOnce`, `ParityOrRetry`, `AnswersStand`,
  `RestartForgetsNothing`, `AnswersAreStored`, `RunsKeepTheirEvents`, `AcceptedMeansDelivered`,
  `RunSawTheRequestedWorkspace`.
* *Does a reader see it whole*: `RefusedExportsSawASplitUnit`, `HistoryPagesAreComplete`,
  `HistoryDiffsAreWhole`.
* *Is the end final*: `ErasureIsFinal`, `NoEvidenceAfterErasure`, `NoSuccessAfterErasure`,
  `NothingLeftBehind`, `CurrentGrantStands`.
* *In which order, and how late*: `CatalogOutlivesEvidence`, `FreshEvidenceIsKept`,
  `GrantsOutliveNoKey`, `WithdrawnKeysExpire`, `PublishedKeysAreFound`.
* *Once, and the right thing*: `SpentOnce`, `ImplementsApproval`, `NoSecondDelivery`, `OnlyOwnJobIsDeleted`.
* *Eventually*: `EveryJobSettles`, `TransientFailuresConverge`.

## 5. Fairness

Only the two liveness runs use `FairSpec`. It assumes weak fairness of

* each worker's next statement: `run_forever` loops without end and its statements return or
  raise (time-outs are faults, and a fault is an action of its own);
* each worker's restart: the deployment restarts a process that ended;
* the clock.

Nothing is assumed of enqueueing, deletions, heartbeats or faults. `Tick` can let a lease of a
live worker expire only by spending a fault, since a healthy worker's heartbeat comes well
within the lock time-out; that bounds stalls per behaviour without assuming that heartbeats run.

## 6. Proofs

All proofs are for arbitrary constants satisfying the named assumptions
(`QueueAssumption`, `ErasureAssumption`, `ApprovalAssumption`, `LedgerConstants`, `RunsGoFirst`,
`GrantConstants`, `DemoConstants`, `AuthConstants`, `SandboxConstants`, `JwksConstants`, `LockConstants`): identities are distinct, bounds
are naturals, functions have their domains. Three say more. `RunsGoFirst` is the retention policy: events
are kept at least as long as runs. `LedgerConstants` has at most as many reading requests as
requests. `LockConstants` bounds the ranks, because there are finitely many keys. The assumptions are evaluated by TLC in every run.

**IngestionQueueProofs.** `TypeCorrect`. `LeaseIsExclusive` rests on `Leases`: every token a busy
worker carries was handed out for its job, and no two busy workers carry the same token for the
same job. Exclusion alone is not inductive – a stale worker that kept its token could
collide with a later claim – so the invariant speaks of tokens no longer current too.
`SuccessHasItsEvidence` and `ErasuresAreFinal` need no hypothesis on the failures: their invariant,
`Evidence`, says that a worker about to complete a job has written both stores or lost the row to a
deletion, that a refused document leaves no trace, and that an erased row is fenced (`Written`).
`PartialWritesHaveARow` and `DeadLettersDeserveIt` assume `UnclassifiedErrors = FALSE`; on top of
`Evidence` their invariant, `Verdicts`, says that a hybrid worker failing a job for good has a poisonous one
(`Judged`), so that what it buries has left nothing in a store. The run `queue_unclassified` shows that the
hypothesis cannot be dropped. `SettledStays` and
`SuccessIsReportedOnce` follow from what a worker between settlement and audit knows.
`QueueImplementsLifecycle` maps every step to a step of the life cycle or a stutter; the steps
that release several leases at once need the witness of the jobs they bury.

**HybridErasureProofs.** `ErasureTypeCorrect`; `SuccessIsAuditedOnce` (one counting invariant);
`ErasedTenantsSeeNoSuccess`, with late bulks and lost sessions allowed: a writer that still
holds its lock at commit has seen no tombstone, and one that does not raises;
`ErasureIsFinalInBothStores`, under `LateBulks = FALSE` and `SessionLoss = FALSE`: whoever is past
the fence holds the lock, and an executor about to commit the deletion of a tenant holds it too, with
nothing of the tenant left in OpenSearch. The run `erasure_late_bulk` shows that the first hypothesis cannot be dropped.
`StoresAgreeOrRetry` and `CatalogIsLast` add a third hypothesis, `OnePolicy`: the
retention period does not change while operations are open; the run `erasure_policy_change` shows that it is
necessary. `StoresAgreeOrRetry` distinguishes the two ways to differ: after a failed retention OpenSearch merely lacks chunks,
and the replay brings the stores together; after a failed write it may also hold chunks that PostgreSQL does not
list, which no retention takes away. `CatalogIsLast` is about evidence ids, and so about what was ever listed.
`RetentionSparesTheFresh` has the same three hypotheses: a late item can replace a chunk between
the bulk of a newer revision and its reconciliation, which then deletes an id of the newer revision. Their invariant, `Agreement`, says that an open operation was journaled with the cutoff of its date
(`JournalDated`), so both stores are swept with one cutoff; that a retention run wants the locks of all
tenants with expired rows, and once it holds them its list *is* the ids of what is expired (`Retaining`); that nothing
comes back under an id a run has verified (`Emptied`); that what a writer has written is there when it reconciles, and
alone there afterwards (`Reconciled`). Behind all of
them are two lemmas: rows and evidence change only under the lock of their tenant
(`RowsChangeUnderLock`, `EvidenceChangesUnderLock`). `Parity` is stronger than `ParityOrRetry`: stores that differ
without a failed write have *somebody at work on that very document*, not merely some holder of the tenant's lock.
A retention that commits keeps it because what it sweeps was listed: had OpenSearch only what PostgreSQL had, it is
empty now.

**ApprovalGrantsProofs.** `Invariance` proves `IInv`, from which every property of the run
follows: `SpentOnceHolds`, `ReviewedCallsOnly`, `AnswersAreKept`, `ApprovedRecordsHaveGrants`,
`LiveGrantsVerify`, `RestartsForgetNothing`, `DecisionsAreFinal`. `IInv` adds four things the
properties do not say: what a decision under way knows (`DecisionsUnderWay`: in jsonl mode its
record is still pending, and a grant already in the file covers its key); that a grant is spent
only behind an approved record (`GrantsBacked`), which is why deciding never resets one; that a
consumer was checked against a record that can no longer change (`Consuming`); and that a spent
grant is held by one worker or was used once (`Spent`). `SpentOnce` without the last is
not inductive: two holders of one grant would each add an execution.

`QueueImplementsApproval` maps every step to a step of the life cycle or a stutter. It subsumes
`ReviewedCallsOnly` and `DecisionsAreFinal`, which stay as theorems of their own. Two steps need the
invariant: the JSONL append of a decision finds its capability already issued, and the append of a grant over
one that a crash left behind is a stutter, because a grant is consumed only behind an approved record.

**TenantTablesProofs**, the audit ledger. `LedgerInvariance` has five parts: rows and computations are dated and none
lies in the future; a run is stamped no later than its events, so that with `RunsGoFirst` it expires no later; every
stored run has its unit; a fresh insert is alone with its key; every answer is the answer of a
stored run. `RunsAreBacked` and `AnswersAreKept` follow. The readers need another invariant, `RInv`: an event of
a unit is the only one of its kind with its key, and a replay event stands with the completed event of its
transaction (`UnitsAgree`); completed events are numbered by the sequence (`RowsAreNumbered`); an export is *bound* to be
found sound from the state in which its snapshot was taken, unless that snapshot had a split unit (`ExportIsSound`); what a
history walk has seen is at or above its cursor, and what is due and still there is below it or seen
(`HistoryIsAt`). Under it lie lemmas on the row order: `Newest` picks an upward-closed
set, of the size asked for or everything (`NewestIsUpward`, `NewestIsAll`), so a page cannot step over a row.
`OnlySplitUnitsAreRefused` and `PagesAreComplete` follow, for every cap and page limit.

**TenantTablesProofs**, the corpus grants. `GrantInvariance`: version numbers are unique; what an administrator saw is still there or a
newer version is, unless a deletion came between; who holds the lock read the latest version. From it
`UpdatesAreNotLost` and `CurrentGrantsStand`. `HistoriesHaveNoGap` needs `VersionsInOrder` besides:
retention deletes by the start of the inserting transaction, and gaps are avoided only because whoever has seen a
version starts after it, so versions and dates grow together.

**ConsoleProofs.** For sessions, `AInv`: sessions are numbered as they are made and only follow earlier ones
(`Numbered`); a login is in the store, or its code is being exchanged, or its session has been made, never two of
them (`OneUse`); a session that was logged out is not in the store.
`OneSuccessor` follows, for any number of tabs, logins and capacities. For demo requests, `DInv`: a lease token has *one
holder*, the handler that carries it or the one late command that does (`OneHolder`), so from the start of a
delivery only the holder can take the hash out of `dispatching` (`Staged`); what is about to be finalized, is completed or
was accepted is delivered or trapped (`Honoured`); after an acknowledgement there is no way back to the webhook
(`NoWayBack`). Exclusion among the calling handlers
is not inductive by itself: a release that a client gave up could be applied during the next delivery. `AcceptedIsDelivered`
and `OneDelivery` follow, for any number of handlers, repeats and commands given up.

**SandboxJobProofs.** `SandboxInvariance` joins three facts: nothing of the execution exists before its creation
was sent, and no creation is under way once the uid is known; where the cleanup stands tells what is gone; each
pass that has ended agreed with the first. `ResultsAreOfTheRequest`, `CleanupIsComplete`, `OthersAreSpared`.

**JwksCacheProofs.** `JwksInvariance` says of each thing the process remembers – cached keys, a refresh, an unknown id,
what a thread has found – that it was true at the time it is remembered from: a key in the cache has been
published since (`PresentSince`), a key that was not found was absent or a fetch failed since (`AbsentSince`).
`KeysExpire` and `KeysAreFound` add up the times, for any number of threads, keys and rotations.

**PlatformProofs.** `LocksInvariance`: a lock has one holder, and everybody asks for the first lock
it has yet to take, with only earlier ones in hand. `NoCircle` follows because the locks a circle is waiting for have a
last one (`LastLock`), and whoever holds it waits for an earlier one. `PlatformIsItsComponents`: a behaviour of
`MCPlatform` is a behaviour of each of its seven components, whose steps are stutters of the others. With it
`PlatformTypes` proves the run's type invariant and `PlatformSafety` everything else the run checks, from
the components' theorems.

Only model-checked: the two liveness properties, `EveryJobSettles` and `TransientFailuresConverge`.
Liveness under fairness and `ENABLED`, induction over data, and `RECURSIVE` operators are out of
the prover's reach; no module here needs the last two.

## 7. Where code and documentation disagree

Each is a run whose property states the documented claim and fails.

* `queue_unclassified`: an HTTP answer that breaks off is not mapped to `RagIndexTransportError`;
  the worker takes the dead-letter path with evidence left in OpenSearch.
* `queue_audit_rows`: a worker that claimed before a deletion appends an audit row of the tenant
  after it; `audit_events` has no fence.
* `erasure_late_bulk`: a bulk outlives its client and lands after the deletion was verified.
* `audit_retention`: runs are deleted after 180 days and their events after 365, so for half a year an export
  that truncates nothing finds completion events without runs and is answered 503;
  `docs/security/audit-ledger.md:150` says that the key sets then match exactly.
* `erasure_policy_change`: a replayed retention run deletes from OpenSearch with the
  journaled cutoff and from PostgreSQL with a recomputed one.

One more limit of the code is in the model and without a run of its own.
`docs/security/backup-restore-retention.md:49-52` blocks OpenSearch-only mutation because it has "no authoritative
PostgreSQL parity catalog from which to enumerate every external evidence ID". Hybrid mode has no complete one
either: when a write of a longer revision is interrupted after its bulk, PostgreSQL lists the ids of the
old revision only. A retention run that expires the document deletes and verifies these, sweeps their rows and reports
success; the further chunks stay in OpenSearch without a row until the document is written again or
the tenant deleted. The run `erasure` reaches that state (a write, an interrupted longer one, two days, a
retention run); `ParityOrRetry` keeps such a document under its failed write.

## 8. What is not modelled

* Search, ranking, embeddings, claim extraction, NLI, repair, redaction, content scanning: functions of
  one text, without shared state.
* Rego policy, verdict lattice, tool schema checks: pure functions of one request.
* The rotating token of `secret_token.py`: its grace period starts when a process notices the rotation, on
  purpose, so the code promises nothing that is not relative to that moment. It is the one hazard in
  `PROJECT.json` without a property.
* Rate limits are one atomic Lua script per request, readiness is a cached probe whose answer is advisory.
* The JSONL ledger and grant registry of local processes; the local and Docker backends of the sandbox and its
  command policy; the console's request coordinator and its proxy to the API.
* Two tenants under two executors in `HybridErasure`: beyond a five-minute run. The proofs hold for any number,
  and the deadlock question is `LifecycleLocks`.
* The batches of a retention run: it deletes and verifies the ids it enumerates batch by batch, under locks that keep
  writers out until it ends, so all batches are one deletion and one verification here.
* The second Job of a sandbox run, the Git inspection, runs the same protocol under a name of its own; a cleanup of
  it that fails is reported and does not fail the run (`services/sandbox.py:442-448`), so `NothingLeftBehind` is
  about the batch Job alone.
* The status of an error in `JwksCache`: `Unavailable` is any answer that says nothing of the token, the 500 that
  an exception of the first key resolution ends in included.
* The moment between the two DELETEs of the audit ledger's retention and deletion: they share a transaction, of which
  other connections see all or nothing.
* The tables that retention and deletion sweep with one statement each and that nothing else here reads.
* A tenant deletion without the hybrid backend writes no tombstone; `IngestionQueue` has that path
  (`Hybrid = FALSE`), and no property claims finality for it.
* Approvals without any commitment key (local and test environments) and without a file.
* Metrics, telemetry, health endpoints, backup drills, evaluation runners, the MCP server, the
  adapters and the SDK: output, scripts over external services, or clients without durable state.
* The share of the repository's lines that the models translate is small. Most of the rest is Helm and release
  checks, evidence scripts, configuration and request schemas, and functions of text: code without shared state,
  order or failure handling, which tests and readers settle better than a model checker.

---------------------------- MODULE LifecycleLocks ----------------------------
(***************************************************************************)
(* The advisory locks of PostgreSQL around documents and tenants, without  *)
(* what they protect: who takes which, in what order, while holding which. *)
(*                                                                         *)
(* A hybrid writer holds its locks on a session of its own while the       *)
(* pgvector transaction takes more of them on another: PostgreSQL sees two *)
(* strangers, and a cycle through such a writer is none it can detect. The *)
(* locks of corpus grants and of the operations journal are taken one to a *)
(* transaction with nothing else held and do not occur.                    *)
(***************************************************************************)
EXTENDS Integers

CONSTANTS
  Activities,     \* processes that write, enqueue or run the data lifecycle
  Tenants,        \* tenants, numbered in the order of their ids
  Documents,      \* pairs of a source and a corpus
  TextRank,       \* the place of a document's key among the sorted keys, with the
                  \* tenant's own key, "__tenant_lifecycle__", at 0
  GroupRank,      \* its place among the sorted groups, which is another order
  MaxRank         \* no number is larger: there are finitely many keys

ASSUME LockConstants ==
  /\ MaxRank \in Nat /\ Tenants \subseteq 0..MaxRank
  /\ TextRank \in [Documents -> (-MaxRank)..MaxRank]
  /\ GroupRank \in [Documents -> (-MaxRank)..MaxRank]

VARIABLE task    \* task[a]: the locks a holds, those it has yet to take and the
                 \* one it has asked for, and whether hold() took the hybrid ones

lockVars == <<task>>

Hybrid == 1     \* HYBRID_REVISION_LOCK_NAMESPACE
Filter == 2     \* the lock of older pods, on the metadata filter
Corpus == 3     \* the lock of this version, on the corpus

Lock(space, t, rank) == [space |-> space, tenant |-> t, rank |-> rank]
Locks == [space : {Hybrid, Filter, Corpus}, tenant : Tenants, rank : (-MaxRank)..MaxRank]

Lifecycle(t) == Lock(Hybrid, t, 0)

\* The order of the keys' text, and the statements' order of the spaces.
Before(k, l) ==
  \/ k.space < l.space
  \/ k.space = l.space /\ k.tenant < l.tenant
  \/ k.space = l.space /\ k.tenant = l.tenant /\ k.rank < l.rank

Resting == [held |-> {}, wants |-> {}, asked |-> {}, session |-> FALSE]

LocksInit == task = [a \in Activities |-> Resting]
-----------------------------------------------------------------------------
(* What an activity takes.                                                 *)

Start(a, keys, session) ==
  /\ task[a] = Resting
  /\ task' = [task EXCEPT ![a] = [held |-> {}, wants |-> keys, asked |-> {}, session |-> session]]

\* PgVectorRagIndexBackend: two locks for every document with a corpus.
PgLocks(t, grouped) == {Lock(s, t, GroupRank[d]) : s \in {Filter, Corpus}, d \in grouped}

IndexInPgvector(a, t, grouped) == Start(a, PgLocks(t, grouped), FALSE)

\* HybridRagIndexBackend: the tenant's lock and one for every document, then
\* those of pgvector. A document without a corpus has no group there.
IndexInBoth(a, t, docs, grouped) ==
  Start(a, {Lifecycle(t)} \cup {Lock(Hybrid, t, TextRank[d]) : d \in docs} \cup PgLocks(t, grouped),
        TRUE)

\* Enqueueing a job and deleting a tenant take the tenant's lock.
TakeTenant(a, t) == Start(a, {Lifecycle(t)}, FALSE)

\* Retention takes those of the tenants it found, in the order of their ids.
TakeTargets(a, ts) == Start(a, {Lifecycle(t) : t \in ts}, FALSE)
-----------------------------------------------------------------------------
(* Taking and returning them.                                              *)

\* mutant: the keys come in no particular order.
NextAny(keys) == keys

\* sorted(set(lock_keys)), ORDER BY tenant_id.
NextOf(keys) == {k \in keys : \A l \in keys : l = k \/ Before(k, l)}

\* The statement for the next lock is sent.
Ask(a, k) ==
  /\ task[a].asked = {} /\ k \in NextOf(task[a].wants)
  /\ task' = [task EXCEPT ![a].asked = {k}]

\* It returns once nobody else holds the lock.
Grant(a) ==
  /\ task[a].asked # {}
  /\ \A b \in Activities : task[b].held \cap task[a].asked = {}
  /\ task' = [task EXCEPT ![a].held = @ \cup task[a].asked, ![a].wants = @ \ task[a].asked,
                          ![a].asked = {}]

\* A transaction ends and returns its locks at once; hold() keeps its own ...
CommitRows(a) ==
  /\ task[a].wants = {} /\ task[a].held # {}
  /\ LET held == {k \in task[a].held : k.space = Hybrid}
     IN  task' = [task EXCEPT ![a] = IF task[a].session THEN [task[a] EXCEPT !.held = held]
                                     ELSE Resting]

\* ... and returns them one by one, the last one first, and closes its session.
Unlock(a) ==
  /\ task[a].session /\ task[a].wants = {}
  /\ \A k \in task[a].held : k.space = Hybrid
  /\ LET last == {k \in task[a].held : \A l \in task[a].held : l = k \/ Before(l, k)}
     IN  task' = [task EXCEPT ![a] = IF task[a].held = last THEN Resting
                                     ELSE [task[a] EXCEPT !.held = task[a].held \ last]]

\* lock_timeout, a failed statement, a process that stops: the sessions close.
Abandon(a) ==
  /\ task[a] # Resting
  /\ task' = [task EXCEPT ![a] = Resting]

LocksNext ==
  \E a \in Activities :
    \/ \E t \in Tenants :
         \/ \E g \in SUBSET Documents : IndexInPgvector(a, t, g)
         \/ \E d \in (SUBSET Documents) \ {{}} : \E g \in SUBSET d : IndexInBoth(a, t, d, g)
         \/ TakeTenant(a, t)
    \/ \E ts \in SUBSET Tenants : TakeTargets(a, ts)
    \/ \E k \in task[a].wants : Ask(a, k)
    \/ Grant(a) \/ CommitRows(a) \/ Unlock(a) \/ Abandon(a)

LocksSpec == LocksInit /\ [][LocksNext]_lockVars
-----------------------------------------------------------------------------
\* The type invariant; a lock has one holder.
LocksTypeOK ==
  /\ task \in [Activities -> [held : SUBSET Locks, wants : SUBSET Locks, asked : SUBSET Locks,
                              session : BOOLEAN]]
  /\ \A a, b \in Activities : a # b => task[a].held \cap task[b].held = {}

\* No set of activities waits in a circle, each for a lock that another one of
\* them holds, however writers, retention and deletions of several tenants
\* meet and in whichever of the three orders their keys were sorted. Such a
\* circle would last until a time-out, for PostgreSQL does not see it.
NobodyWaitsInACircle ==
  \A circle \in (SUBSET Activities) \ {{}} :
    \E a \in circle : \A b \in circle : task[a].asked \cap task[b].held = {}
=============================================================================

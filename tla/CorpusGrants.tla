---------------------------- MODULE CorpusGrants ----------------------------
(***************************************************************************)
(* The PostgreSQL registry of corpus grants of one tenant: an append-only  *)
(* table of grant versions, the administrators that upsert and disable     *)
(* grants with an expected version, and the retention run and the tenant   *)
(* deletion that remove rows without taking the registry's lock.           *)
(*                                                                         *)
(* The roles of a version are left out: what matters is which version is   *)
(* current. A corpus whose grant is missing is open to every role          *)
(* (services/rag_access.py), so the current version must not get lost.     *)
(***************************************************************************)
EXTENDS Integers, FiniteSets

CONSTANTS
  Corpora,
  Admins,         \* requests that change grants
  GrantDays,      \* days a superseded version is kept
  MaxVersion,     \* bound: an administrator changes no later version
  MaxGrantDay,    \* bound: days
  MaxDeletions    \* bound: deletions of the tenant

ASSUME GrantConstants ==
  /\ GrantDays \in Nat /\ MaxVersion \in Nat /\ MaxGrantDay \in Nat /\ MaxDeletions \in Nat

VARIABLES
  grantDay,       \* the database clock, in days
  grantRows,      \* committed rows of rag_corpus_grants
  mutation,       \* mutation[a]: the change administrator a is making
  deletions       \* tenant deletions so far

grantVars == <<grantDay, grantRows, mutation, deletions>>

GrantRow == [corpus : Corpora, version : Nat \ {0}, disabled : BOOLEAN,
             inserted : 0..MaxGrantDay]

NoMutation == [pc |-> "idle"]

GrantInit ==
  /\ grantDay = 0
  /\ grantRows = {}
  /\ mutation = [a \in Admins |-> NoMutation]
  /\ deletions = 0
-----------------------------------------------------------------------------
VersionsOf(c) == {r \in grantRows : r.corpus = c}

\* ORDER BY version DESC LIMIT 1: a singleton, or empty without a grant.
Latest(c) == {r \in VersionsOf(c) : \A s \in VersionsOf(c) : s.version <= r.version}

\* The version of what Latest found; an absent grant counts as version 0.
VersionOf(latest) == IF latest = {} THEN 0 ELSE (CHOOSE r \in latest : TRUE).version

\* An administrator looks at the current grant and decides on a change of it,
\* which will name the version it has seen.
Decide(a, c, op) ==
  /\ mutation[a] = NoMutation
  /\ VersionOf(Latest(c)) < MaxVersion
  /\ mutation' = [mutation EXCEPT ![a] =
       [pc |-> "decided", corpus |-> c, op |-> op, saw |-> Latest(c), overtaken |-> FALSE]]
  /\ UNCHANGED <<grantDay, grantRows, deletions>>

\* The transaction opens: inserted_at defaults to now(), which is its start.
OpenMutation(a) ==
  /\ mutation[a].pc = "decided"
  /\ mutation' = [mutation EXCEPT ![a] =
       [pc |-> "open", corpus |-> mutation[a].corpus, op |-> mutation[a].op,
        saw |-> mutation[a].saw, overtaken |-> mutation[a].overtaken, began |-> grantDay]]
  /\ UNCHANGED <<grantDay, grantRows, deletions>>

\* mutant: the expected version is not compared.
EnforceNothing(m, latest) == TRUE

\* Production requires an expected version and refuses any but the current one.
EnforceExpectedVersion(m, latest) == VersionOf(m.saw) = VersionOf(latest)

\* What is refused, or answered without a new version: a missing grant cannot
\* be disabled, a disabled one is already.
Writes(m, latest) ==
  /\ EnforceExpectedVersion(m, latest)
  /\ m.op = "disable" => \E r \in latest : ~r.disabled

\* The advisory lock of the corpus, held to the end of the transaction, and
\* the latest version read under it.
LockLatest(a) ==
  /\ mutation[a].pc = "open"
  /\ \A b \in Admins : mutation[b].pc = "locked" => mutation[b].corpus # mutation[a].corpus
  /\ LET latest == Latest(mutation[a].corpus)
     IN  mutation' = [mutation EXCEPT ![a] =
           IF Writes(mutation[a], latest)
           THEN [pc |-> "locked", corpus |-> mutation[a].corpus, op |-> mutation[a].op,
                 saw |-> mutation[a].saw, overtaken |-> mutation[a].overtaken,
                 began |-> mutation[a].began, existing |-> VersionOf(latest)]
           ELSE NoMutation]
  /\ UNCHANGED <<grantDay, grantRows, deletions>>

\* An upsert enables a disabled grant again.
NextVersion(m) == [corpus |-> m.corpus, version |-> m.existing + 1,
                   disabled |-> m.op = "disable", inserted |-> m.began]

\* The insert, which an occupied version turns into a conflict, and the commit.
AppendVersion(a) ==
  /\ mutation[a].pc = "locked"
  /\ LET next == NextVersion(mutation[a])
     IN  grantRows' = IF \E r \in VersionsOf(next.corpus) : r.version = next.version
                      THEN grantRows ELSE grantRows \cup {next}
  /\ mutation' = [mutation EXCEPT ![a] = NoMutation]
  /\ UNCHANGED <<grantDay, deletions>>

\* The connection breaks, or the process stops: nothing was written.
AbandonMutation(a) ==
  /\ mutation[a] # NoMutation
  /\ mutation' = [mutation EXCEPT ![a] = NoMutation]
  /\ UNCHANGED <<grantDay, grantRows, deletions>>
-----------------------------------------------------------------------------
(* The data lifecycle.                                                     *)

\* mutant: every version past the cutoff is superseded enough.
SupersededByAge(r) == TRUE

\* The extra condition of the table: a newer version exists.
Superseded(r) == \E newer \in VersionsOf(r.corpus) : newer.version > r.version

\* One DELETE: rows past the cutoff that a newer version has superseded.
ExpireVersions ==
  /\ grantRows' = {r \in grantRows : ~(r.inserted < grantDay - GrantDays /\ Superseded(r))}
  /\ UNCHANGED <<grantDay, mutation, deletions>>

\* Tenant deletion takes every version. A change that was decided before is
\* overtaken: what it saw is gone, though its number may come back.
DeleteGrants ==
  /\ deletions < MaxDeletions
  /\ deletions' = deletions + 1
  /\ grantRows' = {}
  /\ mutation' = [a \in Admins |->
       IF mutation[a] = NoMutation THEN NoMutation ELSE [mutation[a] EXCEPT !.overtaken = TRUE]]
  /\ UNCHANGED grantDay

NextGrantDay ==
  /\ grantDay < MaxGrantDay
  /\ grantDay' = grantDay + 1
  /\ UNCHANGED <<grantRows, mutation, deletions>>

GrantNext ==
  \/ \E a \in Admins :
       \/ \E c \in Corpora, op \in {"upsert", "disable"} : Decide(a, c, op)
       \/ OpenMutation(a) \/ LockLatest(a) \/ AppendVersion(a) \/ AbandonMutation(a)
  \/ ExpireVersions \/ DeleteGrants \/ NextGrantDay

GrantSpec == GrantInit /\ [][GrantNext]_grantVars
-----------------------------------------------------------------------------
Decided == [pc : {"decided"}, corpus : Corpora, op : {"upsert", "disable"},
            saw : SUBSET GrantRow, overtaken : BOOLEAN]
Opened  == [pc : {"open"}, corpus : Corpora, op : {"upsert", "disable"},
            saw : SUBSET GrantRow, overtaken : BOOLEAN, began : 0..MaxGrantDay]
Locked  == [pc : {"locked"}, corpus : Corpora, op : {"upsert", "disable"},
            saw : SUBSET GrantRow, overtaken : BOOLEAN, began : 0..MaxGrantDay, existing : Nat]

\* The type invariant.
GrantTypeOK ==
  /\ grantDay \in 0..MaxGrantDay
  /\ grantRows \subseteq GrantRow
  /\ mutation \in [Admins -> {NoMutation} \cup Decided \cup Opened \cup Locked]
  /\ deletions \in 0..MaxDeletions

\* No lost update: a version is written only over the very grant its author
\* looked at, however many administrators, retention runs and lock waits came
\* between (PostgresCorpusGrantRegistry.upsert, disable). The one exception is
\* a deletion of the tenant in the meantime.
NoLostUpdate ==
  [][\A r \in grantRows' \ grantRows :
       \E a \in Admins : /\ mutation[a].pc = "locked" /\ mutation'[a] = NoMutation
                         /\ mutation[a].corpus = r.corpus
                         /\ mutation[a].saw = Latest(r.corpus) \/ mutation[a].overtaken]_grantVars

\* The current grant of a corpus goes only when its successor arrives or the
\* tenant is deleted. Retention leaves it, however old it is: losing it would
\* open the corpus, and an older version would undo a revocation.
CurrentGrantStands ==
  [][\A c \in Corpora :
       Latest(c) # {} => \/ Latest(c)' = Latest(c)
                         \/ VersionOf(Latest(c)') = VersionOf(Latest(c)) + 1
                         \/ deletions' # deletions]_grantVars

\* The versions of a corpus that retention leaves have no gap, which the
\* history diff would refuse (history_with_previous). Retention goes by the
\* start of the inserting transaction, not by the version; the expected version
\* keeps the two in one order, for who has seen a version starts after it. A
\* change that outlives a deletion of the tenant is outside of that.
HistoryDiffsAreWhole ==
  deletions = 0 =>
    \A r, s \in grantRows :
      r.corpus = s.corpus /\ r.version < s.version =>
        \E t \in grantRows : t.corpus = r.corpus /\ t.version = r.version + 1
=============================================================================

---------------------------- MODULE PlatformProofs ----------------------------
(***************************************************************************)
(* The locks that keep the writers of the hybrid index apart               *)
(* (LifecycleLocks), and the components around the core together           *)
(* (MCPlatform): what is proved of each of them holds of the platform.     *)
(*                                                                         *)
(* Of the locks: for every number of processes, tenants and documents, and *)
(* whichever orders their keys sort in, no set of processes waits in a     *)
(* circle for the advisory locks.                                          *)
(***************************************************************************)
EXTENDS MCPlatform, TenantTablesProofs, ConsoleProofs, SandboxJobProofs, JwksCacheProofs


\* Everybody waits for the first of the locks it has yet to take, and holds
\* only locks that come before all of these.
InOrder ==
  \A a \in Activities :
    /\ task[a].asked \subseteq task[a].wants
    /\ \A k \in task[a].asked, l \in task[a].wants : l = k \/ Before(k, l)
    /\ \A k \in task[a].held, l \in task[a].wants : Before(k, l)

LocksInvariant == LocksTypeOK /\ InOrder

Tasks == [held : SUBSET Locks, wants : SUBSET Locks, asked : SUBSET Locks, session : BOOLEAN]

(* What the activities take are locks.                                      *)
LEMMA KeysAreLocks ==
  ASSUME NEW t \in Tenants
  PROVE  /\ Lifecycle(t) \in Locks
         /\ \A d \in Documents : Lock(Hybrid, t, TextRank[d]) \in Locks
         /\ \A g \in SUBSET Documents : PgLocks(t, g) \subseteq Locks
<1>1. 0 \in (-MaxRank)..MaxRank
  BY LockConstants
<1>2. \A s \in {Hybrid, Filter, Corpus}, r \in (-MaxRank)..MaxRank : Lock(s, t, r) \in Locks
  BY DEF Lock, Locks
<1>3. \A d \in Documents : TextRank[d] \in (-MaxRank)..MaxRank /\ GroupRank[d] \in (-MaxRank)..MaxRank
  BY LockConstants
<1> QED
  BY <1>1, <1>2, <1>3 DEF Lifecycle, PgLocks

(* A task begins with nothing held and nothing asked.                       *)
LEMMA Started ==
  ASSUME LocksInvariant, NEW a \in Activities, NEW keys \in SUBSET Locks, NEW s \in BOOLEAN,
         Start(a, keys, s)
  PROVE  LocksInvariant'
<1>1. [held |-> {}, wants |-> keys, asked |-> {}, session |-> s] \in Tasks
  BY DEF Tasks
<1>2. LocksTypeOK'
  BY <1>1 DEF LocksInvariant, LocksTypeOK, Tasks, Start
<1>3. InOrder'
  BY DEF LocksInvariant, LocksTypeOK, InOrder, Start
<1> QED
  BY <1>2, <1>3 DEF LocksInvariant

(* A task that has less than before.                                        *)
LEMMA WhatIsReleased ==
  ASSUME LocksInvariant, NEW a \in Activities, NEW r \in Tasks, r.held \subseteq task[a].held,
         r.wants = {}, r.asked = {}, task' = [task EXCEPT ![a] = r]
  PROVE  LocksInvariant'
<1>0. task \in [Activities -> Tasks]
  BY DEF LocksInvariant, LocksTypeOK, Tasks
<1>1. LocksTypeOK'
  <2>1. task' \in [Activities -> Tasks]
    BY <1>0
  <2>2. \A b \in Activities : task'[b].held \subseteq task[b].held
    BY <1>0
  <2> QED
    BY <2>1, <2>2 DEF LocksInvariant, LocksTypeOK, Tasks
<1>2. InOrder'
  BY <1>0 DEF LocksInvariant, InOrder
<1> QED
  BY <1>1, <1>2 DEF LocksInvariant

LEMMA RestingReleased ==
  ASSUME LocksInvariant, NEW a \in Activities, task' = [task EXCEPT ![a] = Resting]
  PROVE  LocksInvariant'
<1>1. Resting \in Tasks /\ Resting.held = {} /\ Resting.wants = {} /\ Resting.asked = {}
  BY DEF Resting, Tasks
<1> QED
  BY <1>1, WhatIsReleased

(* Some of the locks are returned.                                          *)
LEMMA SomeReleased ==
  ASSUME LocksInvariant, NEW a \in Activities, task[a].wants = {}, NEW held \in SUBSET task[a].held,
         task' = [task EXCEPT ![a] = [task[a] EXCEPT !.held = held]]
  PROVE  LocksInvariant'
<1>1. task[a] \in Tasks /\ task[a].asked = {}
  BY DEF LocksInvariant, LocksTypeOK, InOrder, Tasks
<1>2. PICK r : r = [task[a] EXCEPT !.held = held]
  OBVIOUS
<1>3. r \in Tasks /\ r.held = held /\ r.wants = {} /\ r.asked = {}
  BY <1>1, <1>2 DEF Tasks
<1> QED
  BY <1>2, <1>3, WhatIsReleased

(* Every step keeps the order.                                              *)
LEMMA LocksStep == ASSUME LocksInvariant, [LocksNext]_lockVars PROVE LocksInvariant'
<1>0. task \in [Activities -> Tasks] /\ InOrder
  BY DEF LocksInvariant, LocksTypeOK, Tasks
<1>1. ASSUME NEW a \in Activities, NEW t \in Tenants, NEW g \in SUBSET Documents,
             IndexInPgvector(a, t, g)
      PROVE  LocksInvariant'
  BY <1>1, KeysAreLocks, Started DEF IndexInPgvector
<1>2. ASSUME NEW a \in Activities, NEW t \in Tenants, NEW d \in SUBSET Documents, NEW g \in SUBSET d,
             IndexInBoth(a, t, d, g)
      PROVE  LocksInvariant'
  <2> DEFINE keys == {Lifecycle(t)} \cup {Lock(Hybrid, t, TextRank[x]) : x \in d} \cup PgLocks(t, g)
  <2>1. keys \in SUBSET Locks
    BY KeysAreLocks
  <2>2. Start(a, keys, TRUE)
    BY <1>2 DEF IndexInBoth
  <2> HIDE DEF keys
  <2> QED
    BY <2>1, <2>2, Started
<1>3. ASSUME NEW a \in Activities, NEW t \in Tenants, TakeTenant(a, t) PROVE LocksInvariant'
  BY <1>3, KeysAreLocks, Started DEF TakeTenant
<1>4. ASSUME NEW a \in Activities, NEW ts \in SUBSET Tenants, TakeTargets(a, ts) PROVE LocksInvariant'
  <2>1. {Lifecycle(t) : t \in ts} \in SUBSET Locks
    BY KeysAreLocks
  <2> QED
    BY <1>4, <2>1, Started DEF TakeTargets
<1>5. ASSUME NEW a \in Activities, NEW k \in task[a].wants, Ask(a, k) PROVE LocksInvariant'
  <2>1. /\ k \in NextOf(task[a].wants)
        /\ task' = [task EXCEPT ![a].asked = {k}]
    BY <1>5 DEF Ask
  <2>2. k \in Locks
    BY <1>0 DEF Tasks
  <2>3. LocksTypeOK'
    BY <1>0, <2>1, <2>2 DEF LocksInvariant, LocksTypeOK, Tasks
  <2>4. InOrder'
    <3> SUFFICES ASSUME NEW b \in Activities
                 PROVE  /\ task'[b].asked \subseteq task'[b].wants
                        /\ \A x \in task'[b].asked, l \in task'[b].wants : l = x \/ Before(x, l)
                        /\ \A x \in task'[b].held, l \in task'[b].wants : Before(x, l)
      BY DEF InOrder
    <3>1. task'[b].held = task[b].held /\ task'[b].wants = task[b].wants
      BY <1>0, <2>1 DEF Tasks
    <3>2. CASE b = a
      <4>1. task'[b].asked = {k}
        BY <1>0, <2>1, <3>2 DEF Tasks
      <4> QED
        BY <1>0, <2>1, <3>1, <3>2, <4>1 DEF InOrder, NextOf
    <3>3. CASE b # a
      <4>1. task'[b].asked = task[b].asked
        BY <1>0, <2>1, <3>3
      <4> QED
        BY <1>0, <3>1, <4>1 DEF InOrder
    <3> QED
      BY <3>2, <3>3
  <2> QED
    BY <2>3, <2>4 DEF LocksInvariant
<1>6. ASSUME NEW a \in Activities, Grant(a) PROVE LocksInvariant'
  <2>1. /\ \A b \in Activities : task[b].held \cap task[a].asked = {}
        /\ task' = [task EXCEPT ![a].held = @ \cup task[a].asked, ![a].wants = @ \ task[a].asked,
                                ![a].asked = {}]
    BY <1>6 DEF Grant
  <2>2. /\ task' \in [Activities -> Tasks]
        /\ task'[a].held = task[a].held \cup task[a].asked
        /\ task'[a].wants = task[a].wants \ task[a].asked
        /\ task'[a].asked = {}
        /\ \A b \in Activities : b # a => task'[b] = task[b]
    BY <1>0, <2>1 DEF Tasks
  <2>3. \A b, c \in Activities : b # c => task'[b].held \cap task'[c].held = {}
    BY <2>1, <2>2 DEF LocksInvariant, LocksTypeOK
  <2>4. InOrder'
    <3> SUFFICES ASSUME NEW b \in Activities
                 PROVE  /\ task'[b].asked \subseteq task'[b].wants
                        /\ \A x \in task'[b].asked, l \in task'[b].wants : l = x \/ Before(x, l)
                        /\ \A x \in task'[b].held, l \in task'[b].wants : Before(x, l)
      BY DEF InOrder
    <3>1. CASE b = a
      BY <1>0, <2>2, <3>1 DEF InOrder
    <3>2. CASE b # a
      BY <1>0, <2>2, <3>2 DEF InOrder
    <3> QED
      BY <3>1, <3>2
  <2> QED
    BY <2>2, <2>3, <2>4 DEF LocksInvariant, LocksTypeOK, Tasks
<1>7. ASSUME NEW a \in Activities, CommitRows(a) PROVE LocksInvariant'
  <2> DEFINE held == {k \in task[a].held : k.space = Hybrid}
  <2>1. /\ task[a].wants = {}
        /\ task' = [task EXCEPT ![a] = IF task[a].session THEN [task[a] EXCEPT !.held = held]
                                       ELSE Resting]
    BY <1>0, <1>7 DEF CommitRows
  <2>2. held \in SUBSET task[a].held
    OBVIOUS
  <2> HIDE DEF held
  <2> QED
    BY <2>1, <2>2, SomeReleased, RestingReleased
<1>8. ASSUME NEW a \in Activities, Unlock(a) PROVE LocksInvariant'
  <2> DEFINE last == {k \in task[a].held : \A l \in task[a].held : l = k \/ Before(l, k)}
             held == task[a].held \ last
  <2>1. /\ task[a].wants = {}
        /\ task' = [task EXCEPT ![a] = IF task[a].held = last THEN Resting
                                       ELSE [task[a] EXCEPT !.held = held]]
    BY <1>0, <1>8 DEF Unlock
  <2>2. held \in SUBSET task[a].held
    OBVIOUS
  <2> HIDE DEF held, last
  <2> QED
    BY <2>1, <2>2, SomeReleased, RestingReleased
<1>9. ASSUME NEW a \in Activities, Abandon(a) PROVE LocksInvariant'
  BY <1>9, RestingReleased DEF Abandon
<1>10. CASE UNCHANGED lockVars
  BY <1>10 DEF lockVars, LocksInvariant, LocksTypeOK, InOrder
<1> QED
  BY <1>1, <1>2, <1>3, <1>4, <1>5, <1>6, <1>7, <1>8, <1>9, <1>10 DEF LocksNext

(* A bounded set of numbers has a largest one.                              *)
LEMMA LargestNumber ==
  ASSUME NEW m \in Nat, NEW S \in SUBSET ((-m)..m), S # {}
  PROVE  \E x \in S : \A y \in S : y <= x
<1> DEFINE T == {m - x : x \in S}
<1>1. T \in SUBSET Nat /\ T # {}
  OBVIOUS
<1>2. PICK n \in T : \A i \in T : n <= i
  <2>1. PICK n \in T : \A i \in T : ~ (<<i, n>> \in OpToRel(<, Nat))
    BY <1>1, NatLessThanWellFounded, WFMin
  <2>2. ASSUME NEW i \in T PROVE n <= i
    <3>1. n \in Nat /\ i \in Nat
      BY <1>1
    <3>2. ~ (i < n)
      BY <2>1, <3>1 DEF OpToRel
    <3> QED
      BY <3>1, <3>2
  <2> QED
    BY <2>2
<1>3. PICK x \in S : n = m - x
  OBVIOUS
<1>4. ASSUME NEW y \in S PROVE y <= x
  <2>1. m - x <= m - y
    BY <1>2, <1>3
  <2> QED
    BY <2>1
<1> QED
  BY <1>4

(* So the locks of a set have a last one.                                   *)
LEMMA LastLock ==
  ASSUME NEW S \in SUBSET Locks, S # {}
  PROVE  \E k \in S : \A l \in S : ~Before(k, l)
<1>0. \A k \in S : /\ k.space \in (-3)..3 /\ k.tenant \in (-MaxRank)..MaxRank
                   /\ k.rank \in (-MaxRank)..MaxRank
  <2>1. \A k \in S : /\ k.space \in {Hybrid, Filter, Corpus} /\ k.tenant \in Tenants
                     /\ k.rank \in (-MaxRank)..MaxRank
    BY DEF Locks
  <2>2. /\ \A s \in {Hybrid, Filter, Corpus} : s \in (-3)..3
        /\ \A t \in Tenants : t \in (-MaxRank)..MaxRank
    BY LockConstants DEF Hybrid, Filter, Corpus
  <2> QED
    BY <2>1, <2>2
<1>1. PICK s \in {k.space : k \in S} : \A x \in {k.space : k \in S} : x <= s
  <2>1. {k.space : k \in S} \in SUBSET ((-3)..3) /\ {k.space : k \in S} # {}
    BY <1>0
  <2> QED
    BY <2>1, LargestNumber
<1> DEFINE A == {k \in S : k.space = s}
<1>2. PICK t \in {k.tenant : k \in A} : \A x \in {k.tenant : k \in A} : x <= t
  <2>1. {k.tenant : k \in A} \in SUBSET ((-MaxRank)..MaxRank) /\ {k.tenant : k \in A} # {}
    BY <1>0, <1>1
  <2> QED
    BY <2>1, LargestNumber, LockConstants
<1> DEFINE B == {k \in A : k.tenant = t}
<1>3. PICK r \in {k.rank : k \in B} : \A x \in {k.rank : k \in B} : x <= r
  <2>1. {k.rank : k \in B} \in SUBSET ((-MaxRank)..MaxRank) /\ {k.rank : k \in B} # {}
    BY <1>0, <1>2
  <2> QED
    BY <2>1, LargestNumber, LockConstants
<1>4. PICK k \in B : k.rank = r
  BY <1>3
<1>5. ASSUME NEW l \in S, Before(k, l) PROVE FALSE
  <2>1. k.space \in Int /\ l.space \in Int /\ l.space <= k.space
    BY <1>0, <1>1
  <2>2. l.space = k.space
    BY <1>5, <2>1 DEF Before
  <2>3. k.tenant \in Int /\ l.tenant \in Int /\ l.tenant <= k.tenant
    BY <1>0, <1>2, <2>2, LockConstants
  <2>4. l.tenant = k.tenant
    BY <1>5, <2>1, <2>2, <2>3 DEF Before
  <2>5. k.rank \in Int /\ l.rank \in Int /\ l.rank <= k.rank
    BY <1>0, <1>3, <1>4, <2>2, <2>4, LockConstants
  <2> QED
    BY <1>5, <2>1, <2>2, <2>3, <2>4, <2>5 DEF Before
<1> QED
  BY <1>5

-----------------------------------------------------------------------------
\* Locks have one holder, and everybody asks for the first of what it has yet
\* to take, with only earlier ones in hand (hold, index_chunks,
\* acquire_target_locks).
THEOREM LocksInvariance == LocksSpec => []LocksInvariant
<1>1. LocksInit => LocksInvariant
  <2>1. Resting \in Tasks
    BY DEF Resting, Tasks
  <2> QED
    BY <2>1 DEF LocksInit, LocksInvariant, LocksTypeOK, InOrder, Resting, Tasks
<1>2. LocksInvariant /\ [LocksNext]_lockVars => LocksInvariant'
  BY LocksStep
<1> QED
  BY <1>1, <1>2, PTL DEF LocksSpec

\* However many processes take whatever locks of however many tenants: they
\* never wait in a circle (hold, index_chunks, acquire_target_locks).
THEOREM NoCircle == LocksSpec => []NobodyWaitsInACircle
<1>1. LocksInvariant => NobodyWaitsInACircle
  <2> SUFFICES ASSUME LocksInvariant, NEW circle \in (SUBSET Activities) \ {{}},
                      ~ \E a \in circle : \A b \in circle : task[a].asked \cap task[b].held = {}
               PROVE  FALSE
    BY DEF NobodyWaitsInACircle
  <2> DEFINE asks == UNION {task[a].asked : a \in circle}
  <2>1. asks \in SUBSET Locks /\ asks # {}
    <3>1. \A a \in circle : task[a].asked \in SUBSET Locks
      BY DEF LocksInvariant, LocksTypeOK
    <3>2. PICK a : a \in circle
      <4>1. circle # {}
        OBVIOUS
      <4> QED
        BY <4>1
    <3>3. task[a].asked # {}
      BY <3>2
    <3> QED
      BY <3>1, <3>2, <3>3
  <2>2. PICK k \in asks : \A l \in asks : ~Before(k, l)
    BY <2>1, LastLock
  <2>3. PICK a \in circle : k \in task[a].asked
    OBVIOUS
  <2>4. PICK b \in circle : task[a].asked \cap task[b].held # {}
    OBVIOUS
  <2>5. PICK l \in task[a].asked : l \in task[b].held
    BY <2>4
  <2>6. l = k
    BY <2>2, <2>3 DEF LocksInvariant, InOrder
  <2>7. PICK m \in task[b].asked : m \in asks
    OBVIOUS
  <2>8. Before(k, m)
    BY <2>5, <2>6, <2>7 DEF LocksInvariant, InOrder
  <2> QED
    BY <2>2, <2>7, <2>8
<1> QED
  BY <1>1, LocksInvariance, PTL

-----------------------------------------------------------------------------
(* THE PLATFORM.                                                            *)

\* A behaviour of the platform is a behaviour of each of its components: they
\* share no state, so the steps of one are stutters of the others.
THEOREM PlatformIsItsComponents ==
  PlatformSpec => /\ LedgerSpec /\ GrantSpec /\ DemoSpec /\ AuthSpec
                  /\ SandboxSpec /\ JwksSpec /\ LocksSpec
<1>1. PlatformInit => /\ LedgerInit /\ GrantInit /\ DemoInit /\ AuthInit
                      /\ SandboxInit /\ JwksInit /\ LocksInit
  BY DEF PlatformInit
<1>2. [PlatformNext]_platformVars =>
        /\ [LedgerNext]_ledgerVars /\ [GrantNext]_grantVars /\ [DemoNext]_demoVars
        /\ [AuthNext]_authVars /\ [SandboxNext]_sandboxVars /\ [JwksNext]_jwksVars
        /\ [LocksNext]_lockVars
  BY DEF PlatformNext, platformVars
<1> QED BY <1>1, <1>2, PTL DEF PlatformSpec, LedgerSpec, GrantSpec, DemoSpec, AuthSpec,
                              SandboxSpec, JwksSpec, LocksSpec

\* Every component keeps its types, for every value of the constants of all.
THEOREM PlatformTypes == PlatformSpec => []TypeOK
<1>1. /\ GrantInv => GrantTypeOK
      /\ SandboxInv => SandboxTypeOK
      /\ JwksInvariant => JwksTypeOK
      /\ LocksInvariant => LocksTypeOK
  BY DEF GrantInv, SandboxInv, JwksInvariant, LocksInvariant
<1>2. LedgerTypeOK /\ GrantTypeOK /\ DemoTypeOK /\ AuthTypeOK /\ SandboxTypeOK
        /\ JwksTypeOK /\ LocksTypeOK => TypeOK
  BY DEF TypeOK
<1> QED BY <1>1, <1>2, PlatformIsItsComponents, LedgerTypes, GrantInvariance, DemoTypes, AuthTypes,
           SandboxInvariance, JwksInvariance, LocksInvariance, PTL

\* What the run over the platform checks on one instance, whole: every safety
\* property of every component, for every value of the constants of all of them.
THEOREM PlatformSafety ==
  PlatformSpec =>
    /\ []RunsKeepTheirEvents
    /\ []AnswersAreStored
    /\ []RefusedExportsSawASplitUnit
    /\ []HistoryPagesAreComplete
    /\ []HistoryDiffsAreWhole
    /\ []AcceptedMeansDelivered
    /\ []NoSecondDelivery
    /\ []OneSuccessorPerSession
    /\ []RunSawTheRequestedWorkspace
    /\ []NothingLeftBehind
    /\ []OnlyOwnJobIsDeleted
    /\ []WithdrawnKeysExpire
    /\ []PublishedKeysAreFound
    /\ []NobodyWaitsInACircle
    /\ NoLostUpdate
    /\ CurrentGrantStands
<1>1. LedgerSpec => /\ []RunsKeepTheirEvents /\ []AnswersAreStored
                    /\ []RefusedExportsSawASplitUnit /\ []HistoryPagesAreComplete
  BY RunsAreBacked, AnswersAreKept, OnlySplitUnitsAreRefused, PagesAreComplete
<1>2. GrantSpec => []HistoryDiffsAreWhole /\ NoLostUpdate /\ CurrentGrantStands
  BY HistoriesHaveNoGap, UpdatesAreNotLost, CurrentGrantsStand
<1>3. DemoSpec => []AcceptedMeansDelivered /\ []NoSecondDelivery
  BY AcceptedIsDelivered, OneDelivery
<1>4. SandboxSpec => /\ []RunSawTheRequestedWorkspace /\ []NothingLeftBehind
                     /\ []OnlyOwnJobIsDeleted
  BY ResultsAreOfTheRequest, CleanupIsComplete, OthersAreSpared
<1>5. JwksSpec => []WithdrawnKeysExpire /\ []PublishedKeysAreFound
  BY KeysExpire, KeysAreFound
<1> QED
  BY <1>1, <1>2, <1>3, <1>4, <1>5, OneSuccessor, NoCircle, PlatformIsItsComponents
=============================================================================

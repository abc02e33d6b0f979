--------------------------- MODULE ConsoleProofs ---------------------------
(***************************************************************************)
(* The console's two stores: its sessions (ConsoleAuth) and the demo       *)
(* reservations (DemoRequest). Both proofs turn on a ticket that can be    *)
(* used once: a login's transaction, and the lease token of a request.     *)
(***************************************************************************)
EXTENDS ConsoleAuth, DemoRequest, FiniteSetTheorems, TLAPS

-----------------------------------------------------------------------------
(* Sessions.                                                               *)

\* Sessions are numbered in the order in which they were made, and a session
\* replaces an earlier one.
Numbered ==
  /\ IsFiniteSet(made)
  /\ sessions \cup loggedOut \subseteq 1..Cardinality(made)
  /\ \A x \in made : x.id \in 1..Cardinality(made) /\ x.prior < x.id

\* A login is in the store, or its code is being exchanged, or its session has
\* been made: never two of them.
OneUse ==
  \A n \in Logins :
    /\ logins[n].pc = "none" => n \notin transactions /\ logins[n].exchanges = 0
    /\ n \in transactions => logins[n].exchanges = 0
    /\ (logins[n].pc = "none" \/ n \in transactions \/ logins[n].exchanges > 0) =>
         \A x \in made : x.login # n

AInv == AuthTypeOK /\ Numbered /\ OneUse /\ sessions \cap loggedOut = {} /\ OneSuccessorPerSession

\* Sets of logins and of sessions are finite, so that they can be counted.
LEMMA CountableStores ==
  ASSUME AuthTypeOK
  PROVE  /\ IsFiniteSet(transactions) /\ Cardinality(transactions) \in Nat
         /\ IsFiniteSet(sessions) /\ Cardinality(sessions) \in Nat
<1>1. IsFiniteSet(1..MaxLogins) /\ IsFiniteSet(1..MaxSessions)
  BY FS_Interval, AuthConstants
<1> QED BY <1>1, FS_Subset, FS_CardinalityType DEF AuthTypeOK, Logins

\* The inductive invariant holds at first.
LEMMA AuthStart == AuthInit => AInv
<1> SUFFICES ASSUME AuthInit PROVE AInv
  OBVIOUS
<1>1. IsFiniteSet({}) /\ Cardinality({}) = 0
  BY FS_EmptySet
<1>2. AuthTypeOK
  BY <1>1, AuthConstants DEF AuthInit, AuthTypeOK, NotBegun, Nobody, Logins
<1>3. Numbered /\ OneUse /\ sessions \cap loggedOut = {} /\ OneSuccessorPerSession
  BY <1>1, AuthConstants DEF AuthInit, Numbered, OneUse, OneSuccessorPerSession, NotBegun, Nobody
<1> QED BY <1>2, <1>3 DEF AInv

\* A login enters the store while it has room, and only once.
LEMMA StartKeepsAInv ==
  ASSUME AInv, NEW n \in Logins, StartLogin(n) PROVE AInv'
<1> USE AuthConstants DEF AInv
<1> DEFINE prior == IF sessionCookie \in sessions THEN sessionCookie ELSE Nobody
<1>1. /\ logins[n] = NotBegun /\ Cardinality(transactions) < TransactionCapacity
      /\ logins' = [logins EXCEPT ![n] = [pc |-> "discovering", exchanges |-> 0, prior |-> prior]]
      /\ transactions' = transactions \cup {n}
      /\ UNCHANGED <<sessions, made, loggedOut, sessionCookie, stateCookie, leaving, clearing>>
  BY DEF StartLogin
<1>2. IsFiniteSet(transactions) /\ Cardinality(transactions) \in Nat
  BY CountableStores
<1>3. AuthTypeOK'
  <2>1. n \notin transactions
    BY <1>1 DEF OneUse, NotBegun
  <2>2. Cardinality(transactions \cup {n}) = Cardinality(transactions) + 1
    BY <1>2, <2>1, FS_AddElement
  <2>3. Cardinality(transactions') <= TransactionCapacity
    BY <1>1, <1>2, <2>2
  <2>4. prior \in 0..MaxSessions
    BY DEF AuthTypeOK, Nobody
  <2> HIDE DEF prior
  <2> QED BY <1>1, <2>3, <2>4 DEF AuthTypeOK
<1>4. OneUse'
  BY <1>1 DEF OneUse, AuthTypeOK, NotBegun
<1>5. Numbered' /\ sessions' \cap loggedOut' = {} /\ OneSuccessorPerSession'
  BY <1>1 DEF Numbered, OneSuccessorPerSession
<1> QED BY <1>3, <1>4, <1>5

\* The steps that make no session and let none in: a login moves on, its
\* transaction goes or is consumed, cookies are set and dropped.
LEMMA LoginStepsKeepAInv ==
  ASSUME AInv, NEW n \in Logins,
         \/ RedirectToProvider(n) \/ DiscoveryFails(n) \/ Callback(n)
         \/ RefuseCallback(n) \/ ExpireTransaction(n)
  PROVE  AInv'
<1> USE AuthConstants DEF AInv
<1>1. transactions' \subseteq transactions
  BY DEF RedirectToProvider, DiscoveryFails, Callback, RefuseCallback, ExpireTransaction, Remaining
<1>2. transactions' \subseteq Logins /\ Cardinality(transactions') <= TransactionCapacity
  <2>1. IsFiniteSet(transactions) /\ Cardinality(transactions) \in Nat
    BY CountableStores
  <2>2. Cardinality(transactions') <= Cardinality(transactions) /\ Cardinality(transactions') \in Nat
    BY <1>1, <2>1, FS_Subset, FS_CardinalityType
  <2> QED BY <1>1, <2>1, <2>2 DEF AuthTypeOK
<1>3. UNCHANGED <<sessions, made, loggedOut, sessionCookie, leaving, clearing>>
  BY DEF RedirectToProvider, DiscoveryFails, Callback, RefuseCallback, ExpireTransaction
<1>4. stateCookie' \in 0..MaxLogins
  BY DEF RedirectToProvider, DiscoveryFails, Callback, RefuseCallback, ExpireTransaction,
         AuthTypeOK, Logins
<1>5. (logins' \in [Logins -> [pc : {"none", "discovering", "redirected", "over"},
                              prior : 0..MaxSessions, exchanges : {0, 1}]]) /\ OneUse'
  <2>1. CASE RedirectToProvider(n)
    BY <2>1 DEF RedirectToProvider, AuthTypeOK, OneUse
  <2>2. CASE DiscoveryFails(n)
    BY <2>2 DEF DiscoveryFails, AuthTypeOK, OneUse
  <2>3. CASE Callback(n)
    BY <2>3 DEF Callback, Consumable, Remaining, AuthTypeOK, OneUse
  <2>4. CASE RefuseCallback(n)
    <3>1. CASE logins' = logins
      BY <1>1, <1>3, <3>1 DEF AuthTypeOK, OneUse
    <3>2. CASE logins[n].exchanges > 0 /\ logins' = [logins EXCEPT ![n].exchanges = @ - 1]
               /\ transactions' = transactions
      BY <1>3, <2>4, <3>2 DEF RefuseCallback, AuthTypeOK, OneUse
    <3> QED BY <2>4, <3>1, <3>2 DEF RefuseCallback
  <2>5. CASE ExpireTransaction(n)
    BY <2>5 DEF ExpireTransaction, AuthTypeOK, OneUse
  <2> QED BY <2>1, <2>2, <2>3, <2>4, <2>5
<1>6. AuthTypeOK'
  BY <1>2, <1>3, <1>4, <1>5 DEF AuthTypeOK
<1>7. Numbered' /\ sessions' \cap loggedOut' = {} /\ OneSuccessorPerSession'
  BY <1>3 DEF Numbered, OneSuccessorPerSession
<1> QED BY <1>5, <1>6, <1>7

\* A session is made: by a login that has made none, over a session that is
\* there and that nothing has replaced, or over none.
LEMMA CompleteKeepsAInv ==
  ASSUME AInv, NEW n \in Logins, CompleteCallback(n) PROVE AInv'
<1> USE AuthConstants DEF AInv
<1> DEFINE prior == logins[n].prior
           s     == Cardinality(made) + 1
           new   == [id |-> s, login |-> n, prior |-> prior]
<1>1. /\ logins[n].exchanges > 0 /\ (prior # Nobody => prior \in sessions)
      /\ prior \in sessions \/ Cardinality(sessions) < SessionCapacity
      /\ s <= MaxSessions
      /\ sessions' = (sessions \ {prior}) \cup {s}
      /\ made' = made \cup {new}
      /\ logins' = [logins EXCEPT ![n].exchanges = @ - 1]
      /\ sessionCookie' = s /\ stateCookie' = 0
      /\ UNCHANGED <<transactions, loggedOut, leaving, clearing>>
  BY DEF CompleteCallback, PriorIsActive
<1>2. Cardinality(made) \in Nat /\ IsFiniteSet(made)
  BY FS_CardinalityType DEF Numbered
<1>3. new \notin made /\ s \notin sessions /\ s \notin loggedOut
  BY <1>2 DEF Numbered
<1>4. IsFiniteSet(made') /\ Cardinality(made') = s
  BY <1>1, <1>2, <1>3, FS_AddElement
<1>5. prior \in 0..Cardinality(made) /\ (prior = Nobody \/ prior \in sessions)
  BY <1>1, <1>2 DEF Numbered, Nobody
<1>6. Numbered'
  <2>1. sessions' \cup loggedOut' \subseteq 1..s
    BY <1>1, <1>2 DEF Numbered
  <2>2. \A x \in made' : x.id \in 1..s /\ x.prior < x.id
    BY <1>1, <1>2, <1>5 DEF Numbered
  <2> QED BY <1>4, <2>1, <2>2 DEF Numbered
<1>7. sessions' \cap loggedOut' = {}
  BY <1>1, <1>3
<1>8. OneUse'
  BY <1>1 DEF OneUse, AuthTypeOK
<1>9. OneSuccessorPerSession'
  <2>1. \A x \in made : x.login # n
    BY <1>1 DEF OneUse
  <2>2. prior # Nobody => \A x \in made : x.prior # prior
    BY <1>1 DEF OneSuccessorPerSession
  <2>3. prior \notin sessions' /\ prior \notin loggedOut'
    BY <1>1, <1>2, <1>5 DEF Numbered, Nobody
  <2>4. \A x \in made : x.prior \notin sessions' \cup loggedOut'
    <3>1. \A x \in made : x.prior # s
      BY <1>2 DEF Numbered, AuthTypeOK
    <3> QED BY <1>1, <3>1 DEF OneSuccessorPerSession
  <2>5. new.login = n /\ new.prior = prior
    OBVIOUS
  <2> HIDE DEF new, prior
  <2> QED BY <1>1, <2>1, <2>2, <2>3, <2>4, <2>5 DEF OneSuccessorPerSession
<1>10. AuthTypeOK'
  <2>1. IsFiniteSet(sessions) /\ Cardinality(sessions) \in Nat
    BY CountableStores
  <2>2. IsFiniteSet(sessions \ {prior}) /\ Cardinality(sessions \ {prior}) \in Nat
        /\ Cardinality((sessions \ {prior}) \cup {s}) = Cardinality(sessions \ {prior}) + 1
    BY <1>3, <2>1, FS_RemoveElement, FS_AddElement, FS_CardinalityType
  <2>3. Cardinality(sessions') <= SessionCapacity
    <3> HIDE DEF prior, s, new
    <3>1. CASE prior \in sessions
      <4>1. Cardinality(sessions \ {prior}) = Cardinality(sessions) - 1
        BY <2>1, <3>1, FS_RemoveElement
      <4>2. Cardinality(sessions) <= SessionCapacity
        BY DEF AuthTypeOK
      <4> QED BY <1>1, <2>1, <2>2, <4>1, <4>2
    <3>2. CASE prior \notin sessions
      <4>1. sessions \ {prior} = sessions
        BY <3>2
      <4>2. Cardinality(sessions \ {prior}) < SessionCapacity
        BY <1>1, <3>2, <4>1
      <4> QED BY <1>1, <2>2, <4>2
    <3> QED BY <3>1, <3>2
  <2>4. s \in 1..MaxSessions
    BY <1>1, <1>2
  <2>5. logins' \in [Logins -> [pc : {"none", "discovering", "redirected", "over"},
                                prior : 0..MaxSessions, exchanges : {0, 1}]]
    BY <1>1 DEF AuthTypeOK
  <2>6. new \in [id : 1..MaxSessions, login : Logins, prior : 0..MaxSessions]
    BY <2>4 DEF AuthTypeOK
  <2> HIDE DEF new, prior, s
  <2> QED BY <1>1, <2>3, <2>4, <2>5, <2>6 DEF AuthTypeOK
<1> QED BY <1>6, <1>7, <1>8, <1>9, <1>10

\* Sessions are only removed: by a logout, or when they expire.
LEMMA LeavingKeepsAInv ==
  ASSUME AInv,
         \/ AskLogout \/ Logout \/ ProbeSession \/ DropSessionCookie
         \/ \E s \in 1..MaxSessions : ExpireSession(s)
  PROVE  AInv'
<1> USE AuthConstants DEF AInv
<1>1. UNCHANGED <<logins, transactions, made, stateCookie>>
  BY DEF AskLogout, Logout, ProbeSession, DropSessionCookie, ExpireSession
<1>2. sessions' \subseteq sessions
  BY DEF AskLogout, Logout, ProbeSession, DropSessionCookie, ExpireSession
<1>3. /\ loggedOut' \subseteq loggedOut \cup sessions
      /\ loggedOut' \cap sessions' = {}
  BY DEF AskLogout, Logout, ProbeSession, DropSessionCookie, ExpireSession
<1>4. /\ sessionCookie' \in 0..MaxSessions /\ leaving' \in 0..MaxSessions
      /\ clearing' \in 0..MaxProbes
  BY DEF AskLogout, Logout, ProbeSession, DropSessionCookie, ExpireSession, AuthTypeOK, Nobody
<1>5. AuthTypeOK'
  <2>1. IsFiniteSet(sessions) /\ Cardinality(sessions) \in Nat
    BY CountableStores
  <2>2. Cardinality(sessions') <= Cardinality(sessions) /\ Cardinality(sessions') \in Nat
    BY <1>2, <2>1, FS_Subset, FS_CardinalityType
  <2>3. sessions' \subseteq 1..MaxSessions /\ Cardinality(sessions') <= SessionCapacity
    BY <1>2, <2>1, <2>2 DEF AuthTypeOK
  <2> QED BY <1>1, <1>2, <1>3, <1>4, <2>3 DEF AuthTypeOK
<1>6. Numbered'
  BY <1>1, <1>2, <1>3 DEF Numbered
<1>7. OneUse'
  BY <1>1 DEF OneUse
<1>8. OneSuccessorPerSession'
  BY <1>1, <1>2, <1>3 DEF OneSuccessorPerSession
<1> QED BY <1>3, <1>5, <1>6, <1>7, <1>8

\* Every behaviour of the login and session store satisfies its invariant.
THEOREM SessionsStayNumbered == AuthSpec => []AInv
<1>1. ASSUME AInv, [AuthNext]_authVars PROVE AInv'
  <2>1. CASE UNCHANGED authVars
    <3>1. AuthTypeOK' /\ Numbered' /\ OneUse' /\ OneSuccessorPerSession'
          /\ sessions' \cap loggedOut' = {}
      BY <1>1, <2>1 DEF AInv, AuthTypeOK, Numbered, OneUse, OneSuccessorPerSession, authVars
    <3> QED BY <3>1 DEF AInv
  <2> QED BY <1>1, <2>1, StartKeepsAInv, LoginStepsKeepAInv, CompleteKeepsAInv,
             LeavingKeepsAInv DEF AuthNext
<1> QED BY <1>1, AuthStart, PTL DEF AuthSpec

\* The stores keep their types and their capacities, and a login has at most
\* one code exchange under way, for every number of logins and sessions.
THEOREM AuthTypes == AuthSpec => []AuthTypeOK
<1>1. AInv => AuthTypeOK
  BY DEF AInv
<1> QED BY <1>1, SessionsStayNumbered, PTL

\* A login makes one session at most and a session has one successor at most,
\* none after a logout (consumeAuthorizationTransaction, rotateConsoleSession).
THEOREM OneSuccessor == AuthSpec => []OneSuccessorPerSession
<1>1. AInv => OneSuccessorPerSession
  BY DEF AInv
<1> QED BY <1>1, SessionsStayNumbered, PTL
-----------------------------------------------------------------------------
(* Demo reservations.                                                      *)

\* What the hash may hold once n requests have been made.
Reservations(n) ==
  [status : {"absent"}]
    \cup [status : {"processing"}, payload : Payloads, token : 1..n, leased : BOOLEAN]
    \cup [status : {"dispatching"}, payload : Payloads, token : 1..n]
    \cup [status : {"completed", "retryable"}, payload : Payloads]

\* A request that a handler processes when n have been made.
Requests(n) == [pc : {"reserve", "begin", "calling", "release", "finalize"},
                payload : Payloads, honeypot : BOOLEAN, token : 1..n]

DemoTyped ==
  /\ reservation \in Reservations(submissions)
  /\ serving \in [Handlers -> {NotServing} \cup Requests(submissions)]
  /\ late \subseteq [script : {"reserve", "begin", "release", "finalize"},
                     payload : Payloads, token : 1..submissions]
  /\ submissions \in 0..MaxSubmissions /\ givenUp \in 0..MaxGivenUp
  /\ accepted \subseteq Payloads /\ acknowledged \subseteq Payloads /\ trapped \subseteq Payloads

Serving(h) == serving[h] # NotServing

\* A token is in the hands of one handler, or of one late command, or of nobody.
OneHolder ==
  /\ \A h, g \in Handlers : Serving(h) /\ Serving(g) /\ serving[h].token = serving[g].token => h = g
  /\ \A h \in Handlers, c \in late : Serving(h) => serving[h].token # c.token
  /\ \A c, d \in late : c.token = d.token => c = d

\* What the hash k says when the holder of the token is about to run the
\* script pc, or is calling the webhook: from the start of the delivery on
\* nothing but the holder itself can take it out of "dispatching".
AtStage(k, pc, payload, token) ==
  /\ pc = "reserve" => ~Holds(k, token)
  /\ pc = "begin" /\ Holds(k, token) => k.status = "processing" /\ k.payload = payload
  /\ pc \in {"calling", "release", "finalize"} =>
       k = [status |-> "dispatching", payload |-> payload, token |-> token]

Staged ==
  /\ \A h \in Handlers : Serving(h) =>
       AtStage(reservation, serving[h].pc, serving[h].payload, serving[h].token)
  /\ \A c \in late : AtStage(reservation, c.script, c.payload, c.token)

Settled == acknowledged \cup trapped    \* contents that need no delivery any more

\* What is about to be finalized, is completed or was accepted is settled.
Honoured ==
  /\ \A h \in Handlers : serving[h].pc = "finalize" => serving[h].payload \in Settled
  /\ \A c \in late : c.script = "finalize" => c.payload \in Settled
  /\ reservation.status = "completed" => reservation.payload \in Settled
  /\ AcceptedMeansDelivered

\* After an acknowledgement there is no way back to the webhook.
NoWayBack ==
  acknowledged # {} =>
    /\ reservation.status \in {"dispatching", "completed"}
    /\ \A h \in Handlers : serving[h].pc \notin {"calling", "release"}
    /\ \A c \in late : c.script # "release"

DInv == DemoTyped /\ OneHolder /\ Staged /\ Honoured /\ NoWayBack

\* The scripts map what the hash may hold to what it may hold.
LEMMA ScriptsKeepTypes ==
  ASSUME NEW n \in Nat, NEW k \in Reservations(n), NEW p \in Payloads, NEW t \in 1..n
  PROVE  /\ Reserved(k, p, t) \in Reservations(n) /\ Begun(k, t) \in Reservations(n)
         /\ Finalized(k, t) \in Reservations(n) /\ Released(k, t) \in Reservations(n)
<1>1. CASE k \in [status : {"absent"}]
  BY <1>1 DEF Reservations, Reserved, ReserveAnswer, Begun, Begins, Finalized, Released, Holds
<1>2. CASE k \in [status : {"processing"}, payload : Payloads, token : 1..n, leased : BOOLEAN]
  BY <1>2 DEF Reservations, Reserved, ReserveAnswer, Begun, Begins, Finalized, Released, Holds
<1>3. CASE k \in [status : {"dispatching"}, payload : Payloads, token : 1..n]
  BY <1>3 DEF Reservations, Reserved, ReserveAnswer, Begun, Begins, Finalized, Released, Holds
<1>4. CASE k \in [status : {"completed", "retryable"}, payload : Payloads]
  BY <1>4 DEF Reservations, Reserved, ReserveAnswer, Begun, Begins, Finalized, Released, Holds
<1> QED BY <1>1, <1>2, <1>3, <1>4 DEF Reservations

\* A script run with one token leaves the holder of another where it is.
LEMMA ScriptsKeepStages ==
  ASSUME NEW n \in Nat, NEW k \in Reservations(n), NEW p \in Payloads, NEW t \in 1..n,
         NEW pc, NEW q \in Payloads, NEW u \in 1..n, t # u, AtStage(k, pc, q, u)
  PROVE  /\ AtStage(Reserved(k, p, t), pc, q, u) /\ AtStage(Begun(k, t), pc, q, u)
         /\ AtStage(Finalized(k, t), pc, q, u) /\ AtStage(Released(k, t), pc, q, u)
<1>1. CASE k \in [status : {"absent"}]
  BY <1>1 DEF AtStage, Reserved, ReserveAnswer, Begun, Begins, Finalized, Released, Holds
<1>2. CASE k \in [status : {"processing"}, payload : Payloads, token : 1..n, leased : BOOLEAN]
  BY <1>2 DEF AtStage, Reserved, ReserveAnswer, Begun, Begins, Finalized, Released, Holds
<1>3. CASE k \in [status : {"dispatching"}, payload : Payloads, token : 1..n]
  BY <1>3 DEF AtStage, Reserved, ReserveAnswer, Begun, Begins, Finalized, Released, Holds
<1>4. CASE k \in [status : {"completed", "retryable"}, payload : Payloads]
  BY <1>4 DEF AtStage, Reserved, ReserveAnswer, Begun, Begins, Finalized, Released, Holds
<1> QED BY <1>1, <1>2, <1>3, <1>4 DEF Reservations

\* Only a script that finalizes completes, and only one that was dispatching.
LEMMA ScriptsComplete ==
  ASSUME NEW n \in Nat, NEW k \in Reservations(n), NEW p, NEW t
  PROVE  /\ Reserved(k, p, t).status = "completed" => Reserved(k, p, t) = k
         /\ Begun(k, t).status = "completed" => Begun(k, t) = k
         /\ Released(k, t).status = "completed" => Released(k, t) = k
         /\ Finalized(k, t).status = "completed" => Finalized(k, t).payload = k.payload
BY DEF Reservations, Reserved, ReserveAnswer, Begun, Begins, Finalized, Released, Holds

\* No token gets a second holder when requests only end or go on.
LEMMA FewerHolders ==
  ASSUME OneHolder, late' \subseteq late,
         \A h \in Handlers : Serving(h)' => Serving(h) /\ serving'[h].token = serving[h].token
  PROVE  OneHolder'
BY DEF OneHolder

\* The inductive invariant holds at first.
LEMMA DemoStart == DemoInit => DInv
<1> SUFFICES ASSUME DemoInit PROVE DInv
  OBVIOUS
<1> USE DemoConstants DEF DemoInit, NoReservation, NotServing
<1>1. DemoTyped
  BY DEF DemoTyped, Reservations
<1>2. OneHolder /\ Staged
  BY DEF OneHolder, Serving, Staged
<1>3. Honoured /\ NoWayBack
  BY DEF Honoured, AcceptedMeansDelivered, NoWayBack
<1> QED BY <1>1, <1>2, <1>3 DEF DInv

\* A handler that runs a script with its token, or none, and stops or goes on
\* to where the hash lets it be, disturbs no other holder.
LEMMA OwnScript ==
  ASSUME DInv, NEW h \in Handlers, Serving(h),
         NEW r \in {NotServing} \cup Requests(submissions),
         serving' = [serving EXCEPT ![h] = r], late' = late, submissions' = submissions,
         \/ reservation' = reservation
         \/ reservation' = Reserved(reservation, serving[h].payload, serving[h].token)
         \/ reservation' = Begun(reservation, serving[h].token)
         \/ reservation' = Finalized(reservation, serving[h].token)
         \/ reservation' = Released(reservation, serving[h].token),
         r # NotServing =>
           /\ r.token = serving[h].token /\ r.payload = serving[h].payload
           /\ AtStage(reservation', r.pc, r.payload, r.token)
  PROVE  /\ reservation' \in Reservations(submissions)
         /\ serving' \in [Handlers -> {NotServing} \cup Requests(submissions)]
         /\ OneHolder' /\ Staged'
<1> DEFINE me == serving[h].token
<1>1. /\ submissions \in Nat /\ reservation \in Reservations(submissions)
      /\ serving \in [Handlers -> {NotServing} \cup Requests(submissions)]
      /\ me \in 1..submissions /\ serving[h].payload \in Payloads
  BY DemoConstants DEF DInv, DemoTyped, Serving, Requests
<1>2. reservation' \in Reservations(submissions)
  BY <1>1, ScriptsKeepTypes
<1>3. serving' \in [Handlers -> {NotServing} \cup Requests(submissions)]
  BY <1>1
<1>4. \A g \in Handlers \ {h} : serving'[g] = serving[g]
  BY <1>1
<1>5. OneHolder'
  <2>1. \A g \in Handlers : Serving(g)' => Serving(g) /\ serving'[g].token = serving[g].token
    BY <1>1, <1>4 DEF Serving
  <2> QED BY <2>1, FewerHolders DEF DInv
<1>6. \A pc, q, u : q \in Payloads /\ u \in 1..submissions /\ u # me
                      /\ AtStage(reservation, pc, q, u) => AtStage(reservation', pc, q, u)
  BY <1>1, ScriptsKeepStages
<1>7. Staged'
  <2>1. ASSUME NEW g \in Handlers, Serving(g)'
        PROVE  AtStage(reservation', serving'[g].pc, serving'[g].payload, serving'[g].token)
    <3>1. CASE g = h
      BY <1>1, <2>1, <3>1 DEF Serving
    <3>2. CASE g # h
      <4>1. serving'[g] = serving[g] /\ Serving(g)
        BY <1>4, <2>1, <3>2 DEF Serving
      <4>2. serving[g].token # me /\ serving[g].payload \in Payloads
            /\ serving[g].token \in 1..submissions
        BY <1>1, <3>2, <4>1 DEF DInv, OneHolder, Serving, Requests
      <4>3. AtStage(reservation, serving[g].pc, serving[g].payload, serving[g].token)
        BY <4>1 DEF DInv, Staged
      <4> QED BY <1>6, <4>1, <4>2, <4>3
    <3> QED BY <3>1, <3>2
  <2>2. ASSUME NEW c \in late
        PROVE  AtStage(reservation', c.script, c.payload, c.token)
    <3>1. c.token # me /\ c.payload \in Payloads /\ c.token \in 1..submissions
      BY DEF DInv, OneHolder, DemoTyped
    <3>2. AtStage(reservation, c.script, c.payload, c.token)
      BY DEF DInv, Staged
    <3> QED BY <1>6, <3>1, <3>2
  <2> QED BY <2>1, <2>2 DEF Staged
<1> QED BY <1>2, <1>3, <1>5, <1>7

\* A new request brings a new token.
LEMMA SubmitKeepsDInv ==
  ASSUME DInv, NEW h \in Handlers, NEW p \in Payloads, NEW b \in BOOLEAN, Submit(h, p, b)
  PROVE  DInv'
<1> USE DemoConstants DEF DInv
<1> DEFINE n == submissions + 1
           r == [pc |-> "reserve", payload |-> p, honeypot |-> b, token |-> n]
<1>1. /\ serving[h] = NotServing /\ submissions < MaxSubmissions /\ submissions' = n
      /\ serving' = [serving EXCEPT ![h] = r]
      /\ UNCHANGED <<reservation, late, givenUp, accepted, acknowledged, trapped>>
  BY DEF Submit
<1>2. submissions \in Nat /\ n \in Nat /\ 1..submissions \subseteq 1..n /\ n \in 1..n
  BY DEF DemoTyped
<1>3. reservation \in Reservations(n) /\ r \in Requests(n)
  BY <1>2 DEF DemoTyped, Reservations, Requests
<1>4. DemoTyped'
  <2>1. Requests(submissions) \subseteq Requests(n)
    BY <1>2 DEF Requests
  <2>2. serving' \in [Handlers -> {NotServing} \cup Requests(n)]
    BY <1>1, <1>3, <2>1 DEF DemoTyped
  <2>3. late \subseteq [script : {"reserve", "begin", "release", "finalize"},
                        payload : Payloads, token : 1..n]
    BY <1>2 DEF DemoTyped
  <2> QED BY <1>1, <1>2, <1>3, <2>2, <2>3 DEF DemoTyped
<1>5. /\ \A g \in Handlers : Serving(g) => serving[g].token # n
      /\ \A c \in late : c.token # n
  BY <1>2 DEF DemoTyped, Serving, Requests
<1>6. \A g \in Handlers : serving'[g] = IF g = h THEN r ELSE serving[g]
  BY <1>1 DEF DemoTyped
<1>7. OneHolder'
  <2>1. r.token = n
    OBVIOUS
  <2> HIDE DEF n, r
  <2>2. \A g \in Handlers : g # h /\ Serving(g)' => Serving(g) /\ serving'[g] = serving[g]
    <3> TAKE g \in Handlers
    <3> HAVE g # h /\ Serving(g)'
    <3>1. serving'[g] = serving[g]
      BY <1>6
    <3> QED BY <3>1 DEF Serving
  <2>3. serving'[h].token = n
    BY <1>6, <2>1
  <2> QED BY <1>1, <1>5, <2>2, <2>3 DEF OneHolder
<1>8. Staged'
  <2>1. ~Holds(reservation, n)
    BY <1>2 DEF DemoTyped, Reservations, Holds
  <2>2. AtStage(reservation, r.pc, r.payload, r.token)
    BY <2>1 DEF AtStage
  <2> HIDE DEF r
  <2> QED BY <1>1, <1>6, <2>2 DEF Staged, Serving
<1>9. Honoured'
  BY <1>1, <1>6 DEF Honoured, Settled, AcceptedMeansDelivered
<1>10. NoWayBack'
  BY <1>1, <1>6 DEF NoWayBack
<1> QED BY <1>4, <1>7, <1>8, <1>9, <1>10

\* A handler that is at work has a request, and the hash is as its stage says.
LEMMA ServedRequest ==
  ASSUME DInv, NEW h \in Handlers, serving[h].pc # "idle"
  PROVE  /\ Serving(h) /\ serving[h] \in Requests(submissions) /\ submissions \in Nat
         /\ serving[h].payload \in Payloads /\ serving[h].token \in 1..submissions
         /\ AtStage(reservation, serving[h].pc, serving[h].payload, serving[h].token)
<1>1. Serving(h)
  BY DEF Serving, NotServing
<1>2. serving[h] \in Requests(submissions) /\ submissions \in Nat
  BY <1>1, DemoConstants DEF DInv, DemoTyped, Serving
<1> QED BY <1>1, <1>2 DEF DInv, Staged, Requests

\* What reserving does to a hash that remembers a delivery: nothing.
LEMMA ReserveRespectsDelivery ==
  ASSUME NEW n \in Nat, NEW k \in Reservations(n), NEW p, NEW t,
         k.status \in {"dispatching", "completed"}
  PROVE  Reserved(k, p, t) = k
BY DEF Reservations, Reserved, ReserveAnswer

\* A handler runs the script of its stage and leaves; what it accepts is
\* settled.
LEMMA LeavingKeepsDInv ==
  ASSUME DInv, NEW h \in Handlers, serving[h].pc # "idle",
         serving' = [serving EXCEPT ![h] = NotServing],
         UNCHANGED <<late, submissions, givenUp, acknowledged, trapped>>,
         \/ accepted' = accepted
         \/ accepted' = accepted \cup {serving[h].payload} /\ serving[h].payload \in Settled,
         \/ reservation' = reservation
         \/ reservation' = Reserved(reservation, serving[h].payload, serving[h].token)
         \/ /\ reservation' = Finalized(reservation, serving[h].token)
            /\ serving[h].pc = "finalize"
         \/ /\ reservation' = Released(reservation, serving[h].token)
            /\ serving[h].pc = "release"
  PROVE  DInv'
<1>1. /\ Serving(h) /\ submissions \in Nat /\ serving[h] \in Requests(submissions)
      /\ serving[h].payload \in Payloads /\ serving[h].token \in 1..submissions
      /\ AtStage(reservation, serving[h].pc, serving[h].payload, serving[h].token)
  BY ServedRequest
<1>2. reservation \in Reservations(submissions)
  BY DEF DInv, DemoTyped
<1>3. /\ reservation' \in Reservations(submissions)
      /\ serving' \in [Handlers -> {NotServing} \cup Requests(submissions)]
      /\ OneHolder' /\ Staged'
  <2>1. NotServing \in {NotServing} \cup Requests(submissions)
    OBVIOUS
  <2> QED BY <1>1, <2>1, OwnScript
<1>4. DemoTyped'
  BY <1>1, <1>3 DEF DInv, DemoTyped
<1>5. \A g \in Handlers : serving'[g] = IF g = h THEN NotServing ELSE serving[g]
  BY DEF DInv, DemoTyped
<1>6. reservation'.status = "completed" => reservation'.payload \in Settled
  <2>1. CASE reservation' = reservation
    BY <2>1 DEF DInv, Honoured
  <2>2. CASE reservation' = Reserved(reservation, serving[h].payload, serving[h].token)
    BY <1>2, <1>1, <2>2, ScriptsComplete DEF DInv, Honoured
  <2>3. CASE reservation' = Finalized(reservation, serving[h].token) /\ serving[h].pc = "finalize"
    BY <1>1, <2>3 DEF DInv, Honoured, AtStage, Finalized
  <2>4. CASE reservation' = Released(reservation, serving[h].token)
    BY <1>2, <1>1, <2>4, ScriptsComplete DEF DInv, Honoured
  <2> QED BY <2>1, <2>2, <2>3, <2>4
<1>7. Honoured'
  BY <1>5, <1>6 DEF DInv, Honoured, NotServing, Settled, AcceptedMeansDelivered
<1>8. acknowledged # {} => reservation'.status \in {"dispatching", "completed"}
  <2> SUFFICES ASSUME acknowledged # {} PROVE reservation'.status \in {"dispatching", "completed"}
    OBVIOUS
  <2>1. reservation.status \in {"dispatching", "completed"} /\ serving[h].pc # "release"
    BY DEF DInv, NoWayBack
  <2>2. Reserved(reservation, serving[h].payload, serving[h].token) = reservation
    BY <1>2, <1>1, <2>1, ReserveRespectsDelivery
  <2> QED BY <2>1, <2>2 DEF Finalized
<1>9. NoWayBack'
  BY <1>5, <1>8 DEF DInv, NoWayBack, NotServing
<1> QED BY <1>3, <1>4, <1>7, <1>9 DEF DInv

\* The steps by which a handler leaves.
LEMMA LeavingStepsKeepDInv ==
  ASSUME DInv, NEW h \in Handlers,
         \/ ReserveSubmission(h) /\ ReserveAnswer(reservation, serving[h].payload) # "reserved"
         \/ RefuseEmail(h)
         \/ BeginDelivery(h) /\ ~Begins(reservation, serving[h].token)
         \/ ReleaseReservation(h) \/ FinalizeReservation(h) \/ StopServing(h)
  PROVE  DInv'
<1>1. CASE ReserveSubmission(h) /\ ReserveAnswer(reservation, serving[h].payload) # "reserved"
  <2>1. serving[h].pc = "reserve"
    BY <1>1 DEF ReserveSubmission
  <2>2. ReserveAnswer(reservation, serving[h].payload) = "duplicate" =>
          serving[h].payload \in Settled
    <3>1. reservation \in Reservations(submissions)
      BY DEF DInv, DemoTyped
    <3>2. ReserveAnswer(reservation, serving[h].payload) = "duplicate" =>
            reservation.status = "completed" /\ reservation.payload = serving[h].payload
      BY <3>1 DEF Reservations, ReserveAnswer
    <3> QED BY <3>2 DEF DInv, Honoured
  <2>3. /\ serving' = [serving EXCEPT ![h] = NotServing]
        /\ UNCHANGED <<late, submissions, givenUp, acknowledged, trapped>>
        /\ reservation' = Reserved(reservation, serving[h].payload, serving[h].token)
    BY <1>1 DEF ReserveSubmission, Accept, Refuse
  <2>4. \/ accepted' = accepted
        \/ accepted' = accepted \cup {serving[h].payload} /\ serving[h].payload \in Settled
    BY <1>1, <2>2 DEF ReserveSubmission, Accept, Refuse
  <2> QED BY <2>1, <2>3, <2>4, LeavingKeepsDInv
<1>2. CASE RefuseEmail(h)
  BY <1>2, LeavingKeepsDInv DEF RefuseEmail, Refuse
<1>3. CASE BeginDelivery(h) /\ ~Begins(reservation, serving[h].token)
  <2>1. serving[h].pc = "begin" /\ Begun(reservation, serving[h].token) = reservation
    BY <1>3 DEF BeginDelivery, Begun
  <2> QED BY <1>3, <2>1, LeavingKeepsDInv DEF BeginDelivery, Refuse
<1>4. CASE ReleaseReservation(h)
  BY <1>4, LeavingKeepsDInv DEF ReleaseReservation, Refuse
<1>5. CASE FinalizeReservation(h)
  <2>1. serving[h].pc = "finalize" /\ serving[h].payload \in Settled
    BY <1>5 DEF FinalizeReservation, DInv, Honoured
  <2>2. \/ accepted' = accepted
        \/ accepted' = accepted \cup {serving[h].payload} /\ serving[h].payload \in Settled
    BY <1>5, <2>1 DEF FinalizeReservation, Accept
  <2> QED BY <1>5, <2>1, <2>2, LeavingKeepsDInv DEF FinalizeReservation, Accept
<1>6. CASE StopServing(h)
  <2>1. serving[h].pc # "idle"
    BY <1>6, DemoConstants DEF StopServing, DInv, DemoTyped, Requests
  <2> QED BY <1>6, <2>1, LeavingKeepsDInv DEF StopServing, Refuse
<1> QED BY <1>1, <1>2, <1>3, <1>4, <1>5, <1>6

\* A submission is reserved: nothing was delivered under this hash.
LEMMA ReserveKeepsDInv ==
  ASSUME DInv, NEW h \in Handlers, ReserveSubmission(h),
         ReserveAnswer(reservation, serving[h].payload) = "reserved"
  PROVE  DInv'
<1> DEFINE p == serving[h].payload
           t == serving[h].token
           k == [status |-> "processing", payload |-> p, token |-> t, leased |-> TRUE]
           r == [serving[h] EXCEPT !.pc = "begin"]
<1>1. /\ serving[h].pc = "reserve" /\ serving' = [serving EXCEPT ![h] = r]
      /\ reservation' = k /\ Reserved(reservation, p, t) = k
      /\ UNCHANGED <<late, submissions, givenUp, accepted, acknowledged, trapped>>
  BY DEF ReserveSubmission, Proceed, Reserved
<1>2. /\ Serving(h) /\ serving[h] \in Requests(submissions) /\ submissions \in Nat
      /\ p \in Payloads /\ t \in 1..submissions
  BY <1>1, ServedRequest
<1>3. /\ r \in Requests(submissions) /\ r.token = t /\ r.payload = p /\ r.pc = "begin"
  BY <1>2 DEF Requests
<1>4. AtStage(k, "begin", p, t)
  BY DEF AtStage
<1>5. /\ reservation' \in Reservations(submissions)
      /\ serving' \in [Handlers -> {NotServing} \cup Requests(submissions)]
      /\ OneHolder' /\ Staged'
  <2> HIDE DEF r, k
  <2> QED BY <1>1, <1>2, <1>3, <1>4, OwnScript
<1>6. DemoTyped'
  BY <1>1, <1>5 DEF DInv, DemoTyped
<1>7. \A g \in Handlers : g # h => serving'[g] = serving[g]
  BY <1>1 DEF DInv, DemoTyped
<1>8. serving'[h] = r
  BY <1>1 DEF DInv, DemoTyped
<1>9. acknowledged = {}
  <2>1. reservation.status \notin {"dispatching", "completed"}
    BY <1>1, ReserveRespectsDelivery DEF DInv, DemoTyped
  <2> QED BY <2>1 DEF DInv, NoWayBack
<1>10. Honoured'
  <2> HIDE DEF r
  <2> QED BY <1>1, <1>3, <1>7, <1>8 DEF DInv, Honoured, Settled, AcceptedMeansDelivered
<1> QED BY <1>1, <1>5, <1>6, <1>9, <1>10 DEF DInv, NoWayBack

\* A delivery begins: nothing was acknowledged, and a honeypot's is settled.
LEMMA BeginKeepsDInv ==
  ASSUME DInv, NEW h \in Handlers, BeginDelivery(h), Begins(reservation, serving[h].token)
  PROVE  DInv'
<1> DEFINE p == serving[h].payload
           t == serving[h].token
           k == [status |-> "dispatching", payload |-> p, token |-> t]
           next == IF serving[h].honeypot THEN "finalize" ELSE "calling"
           r == [serving[h] EXCEPT !.pc = next]
<1>1. /\ serving[h].pc = "begin" /\ serving' = [serving EXCEPT ![h] = r]
      /\ reservation' = Begun(reservation, t)
      /\ UNCHANGED <<late, submissions, givenUp, accepted, acknowledged>>
      /\ trapped' = IF serving[h].honeypot THEN trapped \cup {p} ELSE trapped
  BY DEF BeginDelivery, Proceed
<1>2. /\ Serving(h) /\ serving[h] \in Requests(submissions) /\ submissions \in Nat
      /\ p \in Payloads /\ t \in 1..submissions /\ AtStage(reservation, "begin", p, t)
  BY <1>1, ServedRequest
<1>3. reservation.status = "processing" /\ reservation' = k
  BY <1>1, <1>2 DEF Begins, Begun, AtStage, Holds
<1>4. /\ r \in Requests(submissions) /\ r.token = t /\ r.payload = p /\ r.pc = next
  BY <1>2 DEF Requests
<1>5. AtStage(k, next, p, t)
  BY DEF AtStage
<1>6. /\ reservation' \in Reservations(submissions)
      /\ serving' \in [Handlers -> {NotServing} \cup Requests(submissions)]
      /\ OneHolder' /\ Staged'
  <2> HIDE DEF r, k, next
  <2> QED BY <1>1, <1>2, <1>3, <1>4, <1>5, OwnScript
<1>7. DemoTyped'
  BY <1>1, <1>2, <1>6 DEF DInv, DemoTyped
<1>8. acknowledged = {}
  BY <1>3 DEF DInv, NoWayBack
<1>9. \A g \in Handlers : g # h => serving'[g] = serving[g]
  BY <1>1 DEF DInv, DemoTyped
<1>10. serving'[h] = r
  BY <1>1 DEF DInv, DemoTyped
<1>11. Settled \subseteq Settled' /\ (next = "finalize" => p \in Settled')
  BY <1>1 DEF Settled
<1>12. Honoured'
  <2>1. AcceptedMeansDelivered'
    BY <1>1 DEF DInv, Honoured, AcceptedMeansDelivered
  <2> HIDE DEF r, next, p
  <2> QED BY <1>1, <1>3, <1>4, <1>9, <1>10, <1>11, <2>1 DEF DInv, Honoured
<1> QED BY <1>1, <1>6, <1>7, <1>8, <1>12 DEF DInv, NoWayBack

\* The webhook answers the only request that is calling it.
LEMMA WebhookKeepsDInv ==
  ASSUME DInv, NEW h \in Handlers, WebhookAcknowledges(h) \/ WebhookFails(h)
  PROVE  DInv'
<1> DEFINE p == serving[h].payload
           t == serving[h].token
<1> PICK next \in {"finalize", "release"} :
      /\ serving[h].pc = "calling" /\ serving' = [serving EXCEPT ![h].pc = next]
      /\ UNCHANGED <<reservation, late, submissions, givenUp, accepted, trapped>>
      /\ next = "finalize" => acknowledged' = acknowledged \cup {p}
      /\ next = "release" => acknowledged' = acknowledged
  BY DEF WebhookAcknowledges, WebhookFails, Proceed
<1> DEFINE r == [serving[h] EXCEPT !.pc = next]
<1>2. /\ Serving(h) /\ serving[h] \in Requests(submissions) /\ submissions \in Nat
      /\ p \in Payloads /\ t \in 1..submissions
      /\ reservation = [status |-> "dispatching", payload |-> p, token |-> t]
  BY ServedRequest DEF AtStage
<1>3. /\ r \in Requests(submissions) /\ r.token = t /\ r.payload = p /\ r.pc = next
      /\ serving' = [serving EXCEPT ![h] = r]
  BY <1>2 DEF Requests
<1>4. AtStage(reservation, next, p, t)
  BY <1>2 DEF AtStage
<1>5. /\ serving' \in [Handlers -> {NotServing} \cup Requests(submissions)]
      /\ OneHolder' /\ Staged'
  <2> HIDE DEF r
  <2> QED BY <1>2, <1>3, <1>4, OwnScript
<1>6. DemoTyped'
  BY <1>2, <1>5 DEF DInv, DemoTyped
<1>7. \A g \in Handlers : g # h => serving'[g] = serving[g]
  BY DEF DInv, DemoTyped
<1>8. serving'[h] = r
  BY <1>3 DEF DInv, DemoTyped
<1>9. Settled \subseteq Settled' /\ (next = "finalize" => p \in Settled')
  BY DEF Settled
<1>10. Honoured'
  <2>1. AcceptedMeansDelivered'
    BY DEF DInv, Honoured, AcceptedMeansDelivered
  <2> HIDE DEF r, p
  <2> QED BY <1>3, <1>7, <1>8, <1>9, <2>1 DEF DInv, Honoured
<1>11. acknowledged = {}
  BY DEF DInv, NoWayBack
<1>12. NoWayBack'
  <2> SUFFICES ASSUME acknowledged' # {} PROVE NoWayBack'
    BY DEF NoWayBack
  <2>1. next = "finalize"
    BY <1>11
  <2>2. ASSUME NEW g \in Handlers PROVE serving'[g].pc \notin {"calling", "release"}
    <3>1. CASE g = h
      <4> HIDE DEF r
      <4> QED BY <1>3, <1>8, <2>1, <3>1
    <3>2. CASE g # h
      <4> SUFFICES ASSUME serving[g].pc \in {"calling", "release"} PROVE FALSE
        BY <1>7, <3>2
      <4>1. Serving(g) /\ serving[g].token = t
        BY <1>2, ServedRequest DEF AtStage
      <4> QED BY <1>2, <3>2, <4>1 DEF DInv, OneHolder
    <3> QED BY <3>1, <3>2
  <2>3. ASSUME NEW c \in late, c.script = "release" PROVE FALSE
    <3>1. c.token = t
      BY <1>2, <2>3 DEF DInv, Staged, AtStage
    <3> QED BY <1>2, <3>1 DEF DInv, OneHolder
  <2> QED BY <1>2, <2>2, <2>3 DEF NoWayBack
<1> QED BY <1>5, <1>6, <1>10, <1>12 DEF DInv

\* A command is given up: its token goes from the handler to the command.
LEMMA GiveUpKeepsDInv ==
  ASSUME DInv, NEW h \in Handlers, GiveUp(h) PROVE DInv'
<1> DEFINE c == [script |-> serving[h].pc, payload |-> serving[h].payload,
                 token |-> serving[h].token]
<1>1. /\ serving[h].pc \in {"reserve", "begin", "release", "finalize"}
      /\ givenUp < MaxGivenUp /\ givenUp' = givenUp + 1
      /\ late' = late \cup {c} /\ serving' = [serving EXCEPT ![h] = NotServing]
      /\ UNCHANGED <<reservation, submissions, acknowledged, trapped>>
      /\ \/ accepted' = accepted
         \/ accepted' = accepted \cup {serving[h].payload} /\ serving[h].pc = "finalize"
  BY DEF GiveUp, Accept, Refuse
<1>2. /\ Serving(h) /\ serving[h] \in Requests(submissions)
      /\ serving[h].payload \in Payloads /\ serving[h].token \in 1..submissions
      /\ AtStage(reservation, serving[h].pc, serving[h].payload, serving[h].token)
  BY <1>1, ServedRequest
<1>3. /\ c \in [script : {"reserve", "begin", "release", "finalize"}, payload : Payloads,
                token : 1..submissions]
      /\ c.script = serving[h].pc /\ c.payload = serving[h].payload
      /\ c.token = serving[h].token
  BY <1>1, <1>2
<1>4. \A g \in Handlers : serving'[g] = IF g = h THEN NotServing ELSE serving[g]
  BY <1>1 DEF DInv, DemoTyped
<1> HIDE DEF c
<1>5. serving[h].pc = "finalize" => serving[h].payload \in Settled
  BY DEF DInv, Honoured
<1>6. DemoTyped'
  <2>1. serving' \in [Handlers -> {NotServing} \cup Requests(submissions)]
    BY <1>1 DEF DInv, DemoTyped
  <2>2. givenUp' \in 0..MaxGivenUp
    BY <1>1, DemoConstants DEF DInv, DemoTyped
  <2>3. accepted' \subseteq Payloads
    BY <1>1, <1>2 DEF DInv, DemoTyped
  <2> QED BY <1>1, <1>3, <2>1, <2>2, <2>3 DEF DInv, DemoTyped
<1>7. OneHolder'
  BY <1>1, <1>2, <1>3, <1>4 DEF DInv, OneHolder, Serving
<1>8. Staged'
  BY <1>1, <1>2, <1>3, <1>4 DEF DInv, Staged, Serving
<1>9. Honoured'
  <2>1. AcceptedMeansDelivered'
    BY <1>1, <1>5 DEF DInv, Honoured, AcceptedMeansDelivered, Settled
  <2> QED BY <1>1, <1>3, <1>4, <1>5, <2>1 DEF DInv, Honoured, NotServing, Settled
<1>10. NoWayBack'
  <2>1. serving[h].pc = "release" => acknowledged = {}
    BY DEF DInv, NoWayBack
  <2> QED BY <1>1, <1>3, <1>4, <2>1 DEF DInv, NoWayBack, NotServing
<1> QED BY <1>6, <1>7, <1>8, <1>9, <1>10 DEF DInv

\* A late command does what its script does, with a token nobody else holds;
\* a lost one does nothing.
LEMMA LateKeepsDInv ==
  ASSUME DInv, NEW c \in late, ApplyLate(c) \/ LoseLate(c) PROVE DInv'
<1>1. /\ late' = late \ {c}
      /\ UNCHANGED <<serving, submissions, givenUp, accepted, acknowledged, trapped>>
      /\ \/ reservation' = reservation
         \/ c.script = "reserve" /\ reservation' = Reserved(reservation, c.payload, c.token)
         \/ c.script = "begin" /\ reservation' = Begun(reservation, c.token)
         \/ c.script = "finalize" /\ reservation' = Finalized(reservation, c.token)
         \/ c.script = "release" /\ reservation' = Released(reservation, c.token)
  <2>1. c.script \in {"reserve", "begin", "release", "finalize"}
    BY DEF DInv, DemoTyped
  <2>2. CASE LoseLate(c)
    BY <2>2 DEF LoseLate
  <2>3. CASE ApplyLate(c)
    BY <2>1, <2>3 DEF ApplyLate, Applied
  <2> QED BY <2>2, <2>3
<1>2. /\ submissions \in Nat /\ reservation \in Reservations(submissions)
      /\ c.payload \in Payloads /\ c.token \in 1..submissions
      /\ AtStage(reservation, c.script, c.payload, c.token)
  BY DemoConstants DEF DInv, DemoTyped, Staged
<1>3. DemoTyped'
  <2>1. reservation' \in Reservations(submissions)
    BY <1>1, <1>2, ScriptsKeepTypes
  <2> QED BY <1>1, <2>1 DEF DInv, DemoTyped
<1>4. OneHolder'
  BY <1>1 DEF DInv, OneHolder, Serving
<1>5. \A pc, q, u : q \in Payloads /\ u \in 1..submissions /\ u # c.token
                      /\ AtStage(reservation, pc, q, u) => AtStage(reservation', pc, q, u)
  BY <1>1, <1>2, ScriptsKeepStages
<1>6. Staged'
  <2>1. ASSUME NEW h \in Handlers, Serving(h)
        PROVE  AtStage(reservation', serving[h].pc, serving[h].payload, serving[h].token)
    <3>1. serving[h].token # c.token /\ serving[h].payload \in Payloads
          /\ serving[h].token \in 1..submissions
      BY <2>1 DEF DInv, OneHolder, DemoTyped, Serving, Requests
    <3> QED BY <1>5, <2>1, <3>1 DEF DInv, Staged
  <2>2. ASSUME NEW d \in late, d # c PROVE AtStage(reservation', d.script, d.payload, d.token)
    <3>1. d.token # c.token /\ d.payload \in Payloads /\ d.token \in 1..submissions
      BY <2>2 DEF DInv, OneHolder, DemoTyped
    <3> QED BY <1>5, <3>1 DEF DInv, Staged
  <2> QED BY <1>1, <2>1, <2>2 DEF Staged, Serving
<1>7. Honoured'
  <2>1. reservation'.status = "completed" => reservation'.payload \in Settled
    <3>1. CASE c.script = "finalize" /\ reservation' = Finalized(reservation, c.token)
      BY <1>2, <3>1 DEF DInv, Honoured, AtStage, Finalized
    <3>2. CASE reservation' = reservation
      BY <3>2 DEF DInv, Honoured
    <3>3. CASE reservation' = Reserved(reservation, c.payload, c.token)
      BY <1>2, <3>3, ScriptsComplete DEF DInv, Honoured
    <3>4. CASE reservation' = Begun(reservation, c.token)
      BY <1>2, <3>4, ScriptsComplete DEF DInv, Honoured
    <3>5. CASE reservation' = Released(reservation, c.token)
      BY <1>2, <3>5, ScriptsComplete DEF DInv, Honoured
    <3> QED BY <1>1, <3>1, <3>2, <3>3, <3>4, <3>5
  <2> QED BY <1>1, <2>1 DEF DInv, Honoured, Settled, AcceptedMeansDelivered
<1>8. NoWayBack'
  <2> SUFFICES ASSUME acknowledged # {} PROVE reservation'.status \in {"dispatching", "completed"}
    BY <1>1 DEF DInv, NoWayBack
  <2>1. reservation.status \in {"dispatching", "completed"} /\ c.script # "release"
    BY DEF DInv, NoWayBack
  <2>2. Reserved(reservation, c.payload, c.token) = reservation
    BY <1>2, <2>1, ReserveRespectsDelivery
  <2> QED BY <1>1, <2>1, <2>2 DEF Finalized, Begun, Begins
<1> QED BY <1>3, <1>4, <1>6, <1>7, <1>8 DEF DInv

\* A lease ends while its holder goes on with the token.
LEMMA EndLeaseKeepsDInv ==
  ASSUME DInv, EndLease PROVE DInv'
<1> DEFINE k == [reservation EXCEPT !.leased = FALSE]
<1>1. /\ reservation.status = "processing" /\ reservation' = k
      /\ UNCHANGED <<serving, late, submissions, givenUp, accepted, acknowledged, trapped>>
  BY DEF EndLease
<1>2. reservation \in [status : {"processing"}, payload : Payloads, token : 1..submissions,
                       leased : BOOLEAN]
  BY <1>1 DEF DInv, DemoTyped, Reservations
<1>3. /\ k \in [status : {"processing"}, payload : Payloads, token : 1..submissions,
                leased : BOOLEAN]
      /\ k.status = "processing" /\ k.payload = reservation.payload
      /\ k.token = reservation.token
  BY <1>2
<1> HIDE DEF k
<1>4. DemoTyped'
  BY <1>1, <1>3 DEF DInv, DemoTyped, Reservations
<1>5. OneHolder'
  BY <1>1 DEF DInv, OneHolder, Serving
<1>6. \A pc, q, u : AtStage(reservation, pc, q, u) => AtStage(k, pc, q, u)
  BY <1>1, <1>3 DEF AtStage, Holds
<1>7. Staged'
  BY <1>1, <1>6 DEF DInv, Staged, Serving
<1>8. Honoured'
  BY <1>1, <1>3 DEF DInv, Honoured, Settled, AcceptedMeansDelivered
<1>9. NoWayBack'
  BY <1>1 DEF DInv, NoWayBack
<1> QED BY <1>4, <1>5, <1>7, <1>8, <1>9 DEF DInv

\* The hash goes when nobody holds a token any more.
LEMMA ExpireKeepsDInv ==
  ASSUME DInv, ExpireReservation PROVE DInv'
<1> USE DEF ExpireReservation, DInv
<1>1. DemoTyped'
  BY DEF DemoTyped, Reservations, NoReservation
<1>2. OneHolder' /\ Staged'
  BY DEF OneHolder, Staged, Serving
<1>3. Honoured' /\ NoWayBack'
  BY DEF Honoured, NoWayBack, NoReservation, NotServing, AcceptedMeansDelivered
<1> QED BY <1>1, <1>2, <1>3

\* Every behaviour of a submission's reservation satisfies the invariant.
THEOREM TokensHaveOneHolder == DemoSpec => []DInv
<1>1. ASSUME DInv, [DemoNext]_demoVars PROVE DInv'
  <2>1. CASE UNCHANGED demoVars
    <3>1. DemoTyped' /\ OneHolder' /\ Staged' /\ Honoured' /\ NoWayBack'
      BY <1>1, <2>1 DEF DInv, DemoTyped, OneHolder, Staged, Serving, Honoured, Settled,
                        AcceptedMeansDelivered, NoWayBack, demoVars
    <3> QED BY <3>1 DEF DInv
  <2>2. ASSUME NEW h \in Handlers, ReserveSubmission(h) PROVE DInv'
    BY <1>1, <2>2, ReserveKeepsDInv, LeavingStepsKeepDInv
  <2>3. ASSUME NEW h \in Handlers, BeginDelivery(h) PROVE DInv'
    BY <1>1, <2>3, BeginKeepsDInv, LeavingStepsKeepDInv
  <2>4. ASSUME NEW h \in Handlers,
               RefuseEmail(h) \/ ReleaseReservation(h) \/ FinalizeReservation(h) \/ StopServing(h)
        PROVE  DInv'
    BY <1>1, <2>4, LeavingStepsKeepDInv
  <2> QED BY <1>1, <2>1, <2>2, <2>3, <2>4, SubmitKeepsDInv, WebhookKeepsDInv, GiveUpKeepsDInv,
             LateKeepsDInv, EndLeaseKeepsDInv, ExpireKeepsDInv DEF DemoNext
<1> QED BY <1>1, DemoStart, PTL DEF DemoSpec

\* The reservation, the requests and the late commands keep their types, for
\* every number of handlers, contents and submissions.
THEOREM DemoTypes == DemoSpec => []DemoTypeOK
<1>1. DInv => DemoTypeOK
  <2> SUFFICES ASSUME DInv PROVE DemoTypeOK
    OBVIOUS
  <2>1. /\ reservation.status \in {"absent", "processing", "dispatching", "completed", "retryable"}
        /\ reservation # NoReservation => reservation.payload \in Payloads
        /\ reservation.status \in {"processing", "dispatching"} =>
             reservation.token \in 1..submissions
    BY DEF DInv, DemoTyped, Reservations, NoReservation
  <2>2. \A h \in Handlers : serving[h] # NotServing =>
          /\ serving[h].pc \in {"reserve", "begin", "calling", "release", "finalize"}
          /\ serving[h].payload \in Payloads /\ serving[h].token \in 1..submissions
    BY DEF DInv, DemoTyped, Requests
  <2> QED BY <2>1, <2>2 DEF DInv, DemoTyped, DemoTypeOK
<1> QED BY <1>1, TokensHaveOneHolder, PTL

\* The answer 202 is given only for what the webhook has acknowledged or a
\* honeypot has taken, whatever is late, lost or given up
\* (processEnabledRequest).
THEOREM AcceptedIsDelivered == DemoSpec => []AcceptedMeansDelivered
<1>1. DInv => AcceptedMeansDelivered
  BY DEF DInv, Honoured
<1> QED BY <1>1, TokensHaveOneHolder, PTL

\* The webhook is called by one request at a time, and by none once it has
\* acknowledged the submission (the dispatching guard of the scripts).
THEOREM OneDelivery == DemoSpec => []NoSecondDelivery
<1>1. DInv => NoSecondDelivery
  <2> SUFFICES ASSUME DInv PROVE NoSecondDelivery
    OBVIOUS
  <2> DEFINE calling == {h \in Handlers : serving[h].pc = "calling"}
  <2>1. acknowledged # {} => calling = {}
    BY DEF DInv, NoWayBack
  <2>2. \A h, g \in calling : h = g
    <3> TAKE h, g \in calling
    <3>1. /\ Serving(h) /\ Serving(g)
          /\ reservation.token = serving[h].token /\ reservation.token = serving[g].token
      BY ServedRequest DEF AtStage
    <3> QED BY <3>1 DEF DInv, OneHolder
  <2>3. Cardinality(calling) = 0 \/ (Cardinality(calling) = 1 /\ calling # {})
    <3>1. CASE calling = {}
      <4>1. Cardinality({}) = 0
        BY FS_EmptySet
      <4> HIDE DEF calling
      <4> QED BY <3>1, <4>1
    <3>2. CASE calling # {}
      <4>1. PICK h : calling = {h}
        BY <2>2, <3>2
      <4> QED BY <4>1, FS_Singleton
    <3> QED BY <3>1, <3>2
  <2> HIDE DEF calling
  <2>4. Cardinality(calling) <= IF acknowledged = {} THEN 1 ELSE 0
    BY <2>1, <2>3
  <2> QED BY <2>4 DEF NoSecondDelivery, calling
<1> QED BY <1>1, TokensHaveOneHolder, PTL
=============================================================================

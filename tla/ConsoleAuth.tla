---------------------------- MODULE ConsoleAuth ----------------------------
(***************************************************************************)
(* Logins and sessions of the console: the in-process store of one-shot    *)
(* authorization transactions and of sessions, and one browser whose tabs  *)
(* log in, return from the identity provider, repeat a callback, log out   *)
(* and ask for the session, all with one cookie jar.                       *)
(*                                                                         *)
(* The server runs a request without interruption up to an await; discovery*)
(* and the code exchange are awaited. Other browsers are seen only in the  *)
(* capacity that they leave. Purging what has expired before each use makes*)
(* an expired entry the same as a removed one.                             *)
(***************************************************************************)
EXTENDS Naturals, FiniteSets

CONSTANTS
  MaxLogins,           \* bound: logins the browser starts
  MaxSessions,         \* bound: sessions made, which numbers them
  TransactionCapacity, \* AUTH_TRANSACTION_CAPACITY
  SessionCapacity,     \* AUTH_SESSION_CAPACITY
  MaxProbes            \* bound: answers that clear a cookie under way

ASSUME AuthConstants ==
  /\ MaxLogins \in Nat /\ MaxSessions \in Nat /\ MaxProbes \in Nat
  /\ TransactionCapacity \in Nat \ {0} /\ SessionCapacity \in Nat \ {0}

Logins == 1..MaxLogins     \* a login is its state parameter; 0 is no login
Nobody == 0                \* no session

VARIABLES
  logins,              \* logins[n]: its progress, the session it is bound to, and
                       \* the code exchanges under way for it
  transactions,        \* logins whose transaction is in the store
  sessions,            \* sessions in the store
  made,                \* every session ever made: [id, login, prior]
  loggedOut,           \* sessions that a logout removed
  sessionCookie,       \* the browser's session cookie, SameSite Strict
  stateCookie,         \* the browser's transaction cookie, SameSite Lax
  leaving,             \* the session a logout request under way names
  clearing             \* answers under way that clear the session cookie

authVars == <<logins, transactions, sessions, made, loggedOut,
              sessionCookie, stateCookie, leaving, clearing>>

NotBegun == [pc |-> "none", prior |-> Nobody, exchanges |-> 0]

AuthInit ==
  /\ logins = [n \in Logins |-> NotBegun]
  /\ transactions = {}
  /\ sessions = {}
  /\ made = {}
  /\ loggedOut = {}
  /\ sessionCookie = Nobody
  /\ stateCookie = 0
  /\ leaving = Nobody
  /\ clearing = 0
-----------------------------------------------------------------------------
(* GET /auth/login                                                         *)

\* The session is captured before the first await; a dead one counts as none.
StartLogin(n) ==
  /\ logins[n] = NotBegun /\ \A k \in 1..(n - 1) : logins[k] # NotBegun
  /\ Cardinality(transactions) < TransactionCapacity
  /\ logins' = [logins EXCEPT ![n] =
       [pc |-> "discovering", exchanges |-> 0,
        prior |-> IF sessionCookie \in sessions THEN sessionCookie ELSE Nobody]]
  /\ transactions' = transactions \cup {n}
  /\ UNCHANGED <<sessions, made, loggedOut, sessionCookie, stateCookie, leaving, clearing>>

\* The redirect to the provider sets the transaction cookie of all tabs.
RedirectToProvider(n) ==
  /\ logins[n].pc = "discovering"
  /\ logins' = [logins EXCEPT ![n].pc = "redirected"]
  /\ stateCookie' = n
  /\ UNCHANGED <<transactions, sessions, made, loggedOut, sessionCookie, leaving, clearing>>

DiscoveryFails(n) ==
  /\ logins[n].pc = "discovering"
  /\ logins' = [logins EXCEPT ![n].pc = "over"]
  /\ transactions' = transactions \ {n}
  /\ UNCHANGED <<sessions, made, loggedOut, sessionCookie, stateCookie, leaving, clearing>>
-----------------------------------------------------------------------------
(* GET /auth/callback                                                      *)

\* mutant: the transaction stays until it expires.
RemainingAll(n) == transactions

\* The store after the transaction of login n was consumed.
Remaining(n) == transactions \ {n}

Consumable(n) == logins[n].pc = "redirected" /\ stateCookie = n /\ n \in transactions

\* The provider sends the browser back, or the user repeats the callback. The
\* cookie must agree and the transaction be there; it is consumed before the
\* exchange is awaited.
Callback(n) ==
  /\ Consumable(n)
  /\ transactions' = Remaining(n)
  /\ logins' = [logins EXCEPT ![n].exchanges = @ + 1]
  /\ UNCHANGED <<sessions, made, loggedOut, sessionCookie, stateCookie, leaving, clearing>>

\* A callback of another tab's login or of a consumed one, one that the quota
\* or the provider denies, a failed exchange. Each answer drops the
\* transaction cookie, also the one of another tab.
RefuseCallback(n) ==
  /\ logins[n].pc = "redirected"
  /\ \/ ~Consumable(n) /\ UNCHANGED <<transactions, logins>>
     \/ Consumable(n) /\ transactions' = Remaining(n) /\ UNCHANGED logins
     \/ /\ logins[n].exchanges > 0
        /\ logins' = [logins EXCEPT ![n].exchanges = @ - 1]
        /\ UNCHANGED transactions
  /\ stateCookie' = 0
  /\ UNCHANGED <<sessions, made, loggedOut, sessionCookie, leaving, clearing>>

\* mutant: a login whose prior session has gone makes a session of its own.
PriorAnyway(prior) == TRUE

\* A login that was begun with a session may only replace that session.
PriorIsActive(prior) == prior # Nobody => prior \in sessions

\* rotateConsoleSession, after the exchange: the new session takes the place
\* of the prior one, or needs room of its own. The cookie is set.
CompleteCallback(n) ==
  LET prior == logins[n].prior
      s     == Cardinality(made) + 1
  IN  /\ logins[n].exchanges > 0
      /\ PriorIsActive(prior)
      /\ prior \in sessions \/ Cardinality(sessions) < SessionCapacity
      /\ s <= MaxSessions
      /\ sessions' = (sessions \ {prior}) \cup {s}
      /\ made' = made \cup {[id |-> s, login |-> n, prior |-> prior]}
      /\ logins' = [logins EXCEPT ![n].exchanges = @ - 1]
      /\ sessionCookie' = s
      /\ stateCookie' = 0
      /\ UNCHANGED <<transactions, loggedOut, leaving, clearing>>
-----------------------------------------------------------------------------
(* POST /auth/logout, GET /auth/session and expiry.                        *)

\* A logout carries the cookie of the moment it is sent, which a callback may
\* replace before the server gets to it.
AskLogout ==
  /\ leaving = Nobody /\ sessionCookie # Nobody
  /\ leaving' = sessionCookie
  /\ UNCHANGED <<logins, transactions, sessions, made, loggedOut, sessionCookie,
                 stateCookie, clearing>>

\* The session it names is removed if it is still there, the cookie dropped in
\* any case. A login under way is not ended.
Logout ==
  /\ leaving # Nobody
  /\ sessions' = sessions \ {leaving}
  /\ loggedOut' = loggedOut \cup (sessions \cap {leaving})
  /\ leaving' = Nobody
  /\ sessionCookie' = Nobody
  /\ UNCHANGED <<logins, transactions, made, stateCookie, clearing>>

\* A probe whose cookie names no session is answered 401 and told to drop the
\* cookie; that answer may arrive after a callback has set a new one.
ProbeSession ==
  /\ sessionCookie \notin sessions
  /\ clearing < MaxProbes
  /\ clearing' = clearing + 1
  /\ UNCHANGED <<logins, transactions, sessions, made, loggedOut, sessionCookie, stateCookie, leaving>>

DropSessionCookie ==
  /\ clearing > 0
  /\ clearing' = clearing - 1
  /\ sessionCookie' = Nobody
  /\ UNCHANGED <<logins, transactions, sessions, made, loggedOut, stateCookie, leaving>>

ExpireTransaction(n) ==
  /\ n \in transactions
  /\ transactions' = transactions \ {n}
  /\ UNCHANGED <<logins, sessions, made, loggedOut, sessionCookie, stateCookie, leaving, clearing>>

ExpireSession(s) ==
  /\ s \in sessions
  /\ sessions' = sessions \ {s}
  /\ UNCHANGED <<logins, transactions, made, loggedOut, sessionCookie, stateCookie, leaving, clearing>>

AuthNext ==
  \/ \E n \in Logins :
       \/ StartLogin(n) \/ RedirectToProvider(n) \/ DiscoveryFails(n)
       \/ Callback(n) \/ RefuseCallback(n) \/ CompleteCallback(n) \/ ExpireTransaction(n)
  \/ AskLogout \/ Logout \/ ProbeSession \/ DropSessionCookie
  \/ \E s \in 1..MaxSessions : ExpireSession(s)

AuthSpec == AuthInit /\ [][AuthNext]_authVars
-----------------------------------------------------------------------------
\* The type invariant, with the capacity of the two maps and at most one code
\* exchange for a login.
AuthTypeOK ==
  /\ logins \in [Logins -> [pc : {"none", "discovering", "redirected", "over"},
                            prior : 0..MaxSessions, exchanges : {0, 1}]]
  /\ transactions \subseteq Logins /\ Cardinality(transactions) <= TransactionCapacity
  /\ sessions \subseteq 1..MaxSessions /\ Cardinality(sessions) <= SessionCapacity
  /\ made \subseteq [id : 1..MaxSessions, login : Logins, prior : 0..MaxSessions]
  /\ loggedOut \subseteq 1..MaxSessions
  /\ sessionCookie \in 0..MaxSessions /\ stateCookie \in 0..MaxLogins /\ leaving \in 0..MaxSessions
  /\ clearing \in 0..MaxProbes

\* A login makes at most one session however often its callback is repeated; a
\* session has at most one successor however many tabs log in over it, and
\* none once it has been logged out: sibling callbacks fail closed
\* (consumeAuthorizationTransaction, rotateConsoleSession).
OneSuccessorPerSession ==
  /\ \A x, y \in made : x.login = y.login => x = y
  /\ \A x, y \in made : x.prior = y.prior /\ x.prior # Nobody => x = y
  /\ \A x \in made : x.prior \notin loggedOut \cup sessions
=============================================================================

------------------------------ MODULE JwksCache ------------------------------
(***************************************************************************)
(* The key-set cache of one API process: OidcJwksResolver, the identity    *)
(* provider that publishes and withdraws signing keys, and the requests    *)
(* that validate a token, first with the cached keys and then, when the    *)
(* key is unknown, with a forced refresh behind a cooldown and a cache of  *)
(* unknown key ids.                                                        *)
(*                                                                         *)
(* A request reads the clock before it waits for the resolver's lock, and  *)
(* the lock is held while the keys are fetched, so what a request takes    *)
(* for the time may be long past. A token is its key: what else may be     *)
(* wrong with it does not concern the cache.                               *)
(***************************************************************************)
EXTENDS Integers

CONSTANTS
  Verifiers,      \* threads that validate tokens
  Kids,           \* key ids
  NoKeys,         \* no value: nothing is cached
  Ttl,            \* oidc_jwks_cache_ttl_seconds
  Cooldown,       \* _OIDC_FORCED_REFRESH_COOLDOWN_SECONDS, also of unknown ids
  InstantSteps,   \* bound: time passes only during a fetch and between requests
  MaxClock,       \* bound: the clock
  MaxRotations    \* bound: keys published or withdrawn

ASSUME JwksConstants ==
  /\ Ttl \in Nat \ {0} /\ Cooldown \in Nat \ {0}
  /\ NoKeys \notin [keys : SUBSET Kids, expires : Nat]
  /\ InstantSteps \in BOOLEAN /\ MaxClock \in Nat /\ MaxRotations \in Nat

VARIABLES
  clock,
  published,      \* keys the provider publishes
  changed,        \* changed[k]: when k was published or withdrawn last
  rotations,      \* changes so far
  failed,         \* when a fetch failed last
  cached,         \* the cached keys with the time they expire
  forced,         \* when a refresh was forced last
  unknown,        \* unknown[k]: until when k counts as unknown
  locked,         \* the thread that holds the lock while it fetches
  verifying       \* verifying[v]: the token thread v is validating

jwksVars == <<clock, published, changed, rotations, failed, cached, forced, unknown,
              locked, verifying>>

Never == -1 - Ttl - 2 * Cooldown     \* before anything that matters
Idle  == [pc |-> "idle"]
Answered == {"idle", "accepted", "rejected"}

JwksInit ==
  /\ clock = 0
  /\ published \in SUBSET Kids
  /\ changed = [k \in Kids |-> Never]
  /\ rotations = 0
  /\ failed = Never
  /\ cached = NoKeys
  /\ forced = Never
  /\ unknown = [k \in Kids |-> Never]
  /\ locked = {}
  /\ verifying = [v \in Verifiers |-> Idle]
-----------------------------------------------------------------------------
provider == <<clock, published, changed, rotations>>

\* The answer; what the thread knew is forgotten.
Answer(v, pc) == verifying' = [verifying EXCEPT ![v] =
  [pc |-> pc, kid |-> verifying[v].kid, arrived |-> verifying[v].arrived]]

\* An error, which says nothing of the token.
Unavailable(v) == verifying' = [verifying EXCEPT ![v] = Idle]

\* A request with a token of key k arrives.
Arrive(v, k) ==
  /\ verifying[v].pc \in Answered
  /\ verifying' = [verifying EXCEPT ![v] = [pc |-> "resolve", kid |-> k, arrived |-> clock,
                                            now |-> clock, asked |-> Never]]
  /\ UNCHANGED <<provider, failed, cached, forced, unknown, locked>>

\* The token is validated with a key set; at the first attempt an unknown key
\* leads on to the second, which reads the clock at once, at that one to a 401.
Judge(v, keys) ==
  IF verifying[v].kid \in keys THEN Answer(v, "accepted")
  ELSE IF verifying[v].asked = Never
  THEN verifying' = [verifying EXCEPT ![v].pc = "lookup", ![v].asked = clock]
  ELSE Answer(v, "rejected")

\* resolve: the cached keys have not expired.
UseCache(v) ==
  /\ verifying[v].pc = "resolve" /\ locked = {}
  /\ cached # NoKeys /\ cached.expires > verifying[v].now
  /\ Judge(v, cached.keys)
  /\ UNCHANGED <<provider, failed, cached, forced, unknown, locked>>

StartFetch(v) ==
  /\ verifying[v].pc = "resolve" /\ locked = {}
  /\ cached # NoKeys => cached.expires <= verifying[v].now
  /\ locked' = {v}
  /\ UNCHANGED <<provider, failed, cached, forced, unknown, verifying>>

\* The provider answers with what it publishes at that moment.
Fetched(v) == [keys |-> published, expires |-> verifying[v].now + Ttl]

EndFetch(v) ==
  /\ v \in locked /\ verifying[v].pc = "resolve"
  /\ cached' = Fetched(v)
  /\ locked' = {}
  /\ Judge(v, published)
  /\ UNCHANGED <<provider, failed, forced, unknown>>

\* mutant: an expired key set is better than none.
OutageOutcomeLenient(v) ==
  IF cached = NoKeys THEN Unavailable(v) ELSE Judge(v, cached.keys)

\* Without valid keys an outage is an error.
OutageOutcome(v) == Unavailable(v)

FailFetch(v) ==
  /\ v \in locked /\ verifying[v].pc = "resolve"
  /\ failed' = clock
  /\ locked' = {}
  /\ OutageOutcome(v)
  /\ UNCHANGED <<provider, cached, forced, unknown>>
-----------------------------------------------------------------------------
(* resolve_unknown_kid                                                     *)

Pruned(now) == [k \in Kids |-> IF unknown[k] <= now THEN Never ELSE unknown[k]]

\* The key is known to be unknown: the token is judged by the cached keys. Or
\* resolve(force_refresh=True) is called, which reads the clock again.
LookUp(v) ==
  /\ verifying[v].pc = "lookup" /\ locked = {}
  /\ IF unknown[verifying[v].kid] > verifying[v].asked /\ cached # NoKeys
     THEN Judge(v, cached.keys)
     ELSE verifying' = [verifying EXCEPT ![v].pc = "refresh", ![v].now = clock]
  /\ unknown' = Pruned(verifying[v].asked)
  /\ UNCHANGED <<provider, failed, cached, forced, locked>>

\* The keys of the second attempt are in hand; what they say of the key is
\* noted under the lock before the token is judged.
Note(v, keys) == verifying' = [verifying EXCEPT ![v] =
  [pc |-> "note", kid |-> verifying[v].kid, arrived |-> verifying[v].arrived,
   now |-> verifying[v].now, asked |-> verifying[v].asked, keys |-> keys]]

UseCacheInCooldown(v) ==
  /\ verifying[v].pc = "refresh" /\ locked = {}
  /\ verifying[v].now - forced < Cooldown
  /\ IF cached = NoKeys THEN Unavailable(v) ELSE Note(v, cached.keys)
  /\ UNCHANGED <<provider, failed, cached, forced, unknown, locked>>

\* The attempt is recorded before the fetch, for it may fail.
StartRefresh(v) ==
  /\ verifying[v].pc = "refresh" /\ locked = {}
  /\ verifying[v].now - forced >= Cooldown
  /\ forced' = verifying[v].now
  /\ locked' = {v}
  /\ UNCHANGED <<provider, failed, cached, unknown, verifying>>

EndRefresh(v) ==
  /\ v \in locked /\ verifying[v].pc = "refresh"
  /\ cached' = Fetched(v)
  /\ locked' = {}
  /\ Note(v, published)
  /\ UNCHANGED <<provider, failed, forced, unknown>>

\* The keys known so far will do, also expired ones: they lack the key.
FailRefresh(v) ==
  /\ v \in locked /\ verifying[v].pc = "refresh"
  /\ failed' = clock
  /\ locked' = {}
  /\ IF cached = NoKeys THEN Unavailable(v) ELSE Note(v, cached.keys)
  /\ UNCHANGED <<provider, cached, forced, unknown>>

\* mutant: an unknown id is remembered for as long as a key set.
ForgottenWithTheKeySet(asked) == asked + Ttl

\* Until when an id counts as unknown.
Forgotten(asked) == asked + Cooldown

NoteKid(v) ==
  /\ verifying[v].pc = "note" /\ locked = {}
  /\ LET known == verifying[v].kid \in verifying[v].keys
     IN  /\ unknown' = [Pruned(verifying[v].asked) EXCEPT ![verifying[v].kid] =
                          IF known THEN Never ELSE Forgotten(verifying[v].asked)]
         /\ Answer(v, IF known THEN "accepted" ELSE "rejected")
  /\ UNCHANGED <<provider, failed, cached, forced, locked>>

\* Other unknown ids push this one out of the bounded cache.
Evict(k) ==
  /\ locked = {} /\ unknown[k] # Never
  /\ unknown' = [unknown EXCEPT ![k] = Never]
  /\ UNCHANGED <<provider, failed, cached, forced, locked, verifying>>
-----------------------------------------------------------------------------
(* The provider and the clock.                                             *)

Rotate(k) ==
  /\ rotations < MaxRotations
  /\ rotations' = rotations + 1
  /\ published' = IF k \in published THEN published \ {k} ELSE published \cup {k}
  /\ changed' = [changed EXCEPT ![k] = clock]
  /\ UNCHANGED <<clock, failed, cached, forced, unknown, locked, verifying>>

\* Answers that were given are out.
Second ==
  /\ clock < MaxClock
  /\ InstantSteps => \/ locked # {}
                     \/ \A v \in Verifiers : verifying[v].pc \in Answered
  /\ clock' = clock + 1
  /\ verifying' = [v \in Verifiers |-> IF verifying[v].pc \in Answered THEN Idle ELSE verifying[v]]
  /\ UNCHANGED <<published, changed, rotations, failed, cached, forced, unknown, locked>>

JwksNext ==
  \/ \E v \in Verifiers :
       \/ \E k \in Kids : Arrive(v, k)
       \/ UseCache(v) \/ StartFetch(v) \/ EndFetch(v) \/ FailFetch(v)
       \/ LookUp(v) \/ UseCacheInCooldown(v)
       \/ StartRefresh(v) \/ EndRefresh(v) \/ FailRefresh(v) \/ NoteKid(v)
  \/ \E k \in Kids : Evict(k) \/ Rotate(k)
  \/ Second

JwksSpec == JwksInit /\ [][JwksNext]_jwksVars
-----------------------------------------------------------------------------
Times   == {Never} \cup 0..MaxClock
KeySets == [keys : SUBSET Kids, expires : 0..(MaxClock + Ttl)]

\* A request at its first and at its second attempt, the same with its last
\* keys in hand, and an answer.
Resolving == [pc : {"resolve"}, kid : Kids, arrived : 0..MaxClock, now : 0..MaxClock,
              asked : {Never}]
Asking == [pc : {"lookup", "refresh"}, kid : Kids, arrived : 0..MaxClock, now : 0..MaxClock,
           asked : 0..MaxClock]
Noting == [pc : {"note"}, kid : Kids, arrived : 0..MaxClock, now : 0..MaxClock,
           asked : 0..MaxClock, keys : SUBSET Kids]
Given  == [pc : {"accepted", "rejected"}, kid : Kids, arrived : 0..MaxClock]

\* The type invariant.
JwksTypeOK ==
  /\ clock \in 0..MaxClock
  /\ published \subseteq Kids /\ rotations \in 0..MaxRotations
  /\ changed \in [Kids -> Times]
  /\ failed \in Times /\ forced \in Times
  /\ cached \in {NoKeys} \cup KeySets
  /\ unknown \in [Kids -> {Never} \cup 0..(MaxClock + Cooldown)]
  /\ locked \subseteq Verifiers /\ \A v, w \in locked : v = w
  /\ verifying \in [Verifiers -> {Idle} \cup Resolving \cup Asking \cup Noting \cup Given]

\* A withdrawn key lives on for at most the cache's time to live: a token is
\* accepted only if its key was still published so long before the request
\* came, whatever outages, waiting threads and refreshes there were; also the
\* expired keys that a failed refresh falls back on do no harm (resolve).
WithdrawnKeysExpire ==
  \A v \in Verifiers :
    verifying[v].pc = "accepted" =>
      \/ verifying[v].kid \in published
      \/ changed[verifying[v].kid] > verifying[v].arrived - Ttl

\* A published key is found: a token is refused for its key only if the key was
\* absent, or a fetch failed, within one cooldown and one life of an unknown id
\* before the request came. Requests that ask for it too early do not put that
\* off, however many they are (resolve_unknown_kid).
PublishedKeysAreFound ==
  \A v \in Verifiers :
    verifying[v].pc = "rejected" =>
      LET since == verifying[v].arrived - 2 * Cooldown
      IN  \/ verifying[v].kid \notin published
          \/ changed[verifying[v].kid] > since
          \/ failed > since
=============================================================================

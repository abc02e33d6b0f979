---------------------------- MODULE JwksCacheProofs ----------------------------
(***************************************************************************)
(* For every number of threads, keys and refreshes, every time to live and *)
(* every cooldown: a withdrawn key is accepted for no longer than a cached *)
(* key set lives, and a published key is found after two cooldowns.        *)
(***************************************************************************)
EXTENDS JwksCache, TLAPS

(* The number before any time is none of the times.                         *)
LEMMA NeverIsBefore ==
  /\ Never \in Int /\ Never + Ttl < 0 /\ Never + 2 * Cooldown < 0
  /\ \A t \in Times : t \in Int /\ (t # Never => t \in Nat)
BY JwksConstants DEF Never, Times

(* What a thread may become.                                                *)
LEMMA ThreadsTyped ==
  ASSUME NEW v \in Verifiers, JwksTypeOK, verifying[v] \in Resolving \cup Asking
  PROVE  /\ [verifying[v] EXCEPT !.pc = "lookup", !.asked = clock] \in Asking
         /\ verifying[v] \in Asking => [verifying[v] EXCEPT !.pc = "refresh", !.now = clock] \in Asking
         /\ \A p \in {"accepted", "rejected"} :
              [pc |-> p, kid |-> verifying[v].kid, arrived |-> verifying[v].arrived] \in Given
         /\ verifying[v] \in Asking => \A ks \in SUBSET Kids :
              [pc |-> "note", kid |-> verifying[v].kid, arrived |-> verifying[v].arrived,
               now |-> verifying[v].now, asked |-> verifying[v].asked, keys |-> ks] \in Noting
<1>1. clock \in 0..MaxClock
  BY DEF JwksTypeOK
<1>2. CASE verifying[v] \in Resolving
  <2>1. verifying[v].pc = "resolve" /\ verifying[v] \notin Asking
    BY <1>2 DEF Resolving, Asking
  <2> QED
    BY <1>1, <1>2, <2>1 DEF Resolving, Asking, Given
<1>3. CASE verifying[v] \in Asking
  BY <1>1, <1>3 DEF Asking, Given, Noting
<1> QED
  BY <1>2, <1>3

(* Every step keeps types.                                                  *)
LEMMA JwksTypedStep == ASSUME JwksTypeOK, [JwksNext]_jwksVars PROVE JwksTypeOK'
<1> USE DEF JwksTypeOK, provider
<1>T. /\ clock \in Times /\ 0 \in Times /\ Never \in Times
      /\ \A n \in 0..MaxClock : n \in Times
  BY JwksConstants DEF Times
<1>A. \A v \in Verifiers :
        /\ verifying[v].pc = "resolve" => verifying[v] \in Resolving
        /\ verifying[v].pc \in {"lookup", "refresh"} => verifying[v] \in Asking
        /\ verifying[v].pc = "note" => verifying[v] \in Noting
  BY DEF Idle, Resolving, Asking, Noting, Given
<1>K. cached # NoKeys => cached.keys \in SUBSET Kids
  BY DEF KeySets
<1>1. ASSUME NEW v \in Verifiers, NEW k \in Kids, Arrive(v, k) PROVE JwksTypeOK'
  <2>1. [pc |-> "resolve", kid |-> k, arrived |-> clock, now |-> clock, asked |-> Never] \in Resolving
    BY <1>T DEF Resolving
  <2> QED
    BY <1>1, <2>1 DEF Arrive
<1>J. ASSUME NEW v \in Verifiers, verifying[v] \in Resolving \cup Asking, NEW ks \in SUBSET Kids, Judge(v, ks)
      PROVE  verifying' \in [Verifiers -> {Idle} \cup Resolving \cup Asking \cup Noting \cup Given]
  BY <1>J, ThreadsTyped DEF Judge, Answer
<1>N. ASSUME NEW v \in Verifiers, verifying[v] \in Asking, NEW ks \in SUBSET Kids, Note(v, ks)
      PROVE  verifying' \in [Verifiers -> {Idle} \cup Resolving \cup Asking \cup Noting \cup Given]
  BY <1>N, ThreadsTyped DEF Note
<1>U. ASSUME NEW v \in Verifiers, Unavailable(v)
      PROVE  verifying' \in [Verifiers -> {Idle} \cup Resolving \cup Asking \cup Noting \cup Given]
  BY <1>U DEF Unavailable
<1>F. ASSUME NEW v \in Verifiers, verifying[v] \in Resolving \cup Asking
      PROVE  Fetched(v) \in KeySets
  BY <1>F, JwksConstants DEF Fetched, KeySets, Resolving, Asking
<1>P. \A t : Pruned(t) \in [Kids -> {Never} \cup 0..(MaxClock + Cooldown)]
  BY DEF Pruned
<1>2. ASSUME NEW v \in Verifiers, UseCache(v) PROVE JwksTypeOK'
  BY <1>2, <1>A, <1>K, <1>J DEF UseCache
<1>3. ASSUME NEW v \in Verifiers, StartFetch(v) \/ StartRefresh(v) PROVE JwksTypeOK'
  <2>1. verifying[v].now \in Times
    BY <1>3, <1>A, <1>T DEF StartFetch, StartRefresh, Resolving, Asking
  <2> QED
    BY <1>3, <2>1 DEF StartFetch, StartRefresh
<1>4. ASSUME NEW v \in Verifiers, EndFetch(v) PROVE JwksTypeOK'
  BY <1>4, <1>A, <1>J, <1>F DEF EndFetch
<1>5. ASSUME NEW v \in Verifiers, FailFetch(v) PROVE JwksTypeOK'
  BY <1>5, <1>T, <1>U DEF FailFetch, OutageOutcome
<1>6. ASSUME NEW v \in Verifiers, LookUp(v) PROVE JwksTypeOK'
  <2>1. verifying' \in [Verifiers -> {Idle} \cup Resolving \cup Asking \cup Noting \cup Given]
    <3>1. verifying[v] \in Asking
      BY <1>6, <1>A DEF LookUp
    <3>2. CASE unknown[verifying[v].kid] > verifying[v].asked /\ cached # NoKeys
      BY <1>6, <1>K, <1>J, <3>1, <3>2 DEF LookUp
    <3>3. CASE ~(unknown[verifying[v].kid] > verifying[v].asked /\ cached # NoKeys)
      BY <1>6, <3>1, <3>3, ThreadsTyped DEF LookUp
    <3> QED
      BY <3>2, <3>3
  <2> QED
    BY <1>6, <1>P, <2>1 DEF LookUp
<1>7. ASSUME NEW v \in Verifiers, UseCacheInCooldown(v) PROVE JwksTypeOK'
  BY <1>7, <1>A, <1>K, <1>N, <1>U DEF UseCacheInCooldown
<1>8. ASSUME NEW v \in Verifiers, EndRefresh(v) PROVE JwksTypeOK'
  BY <1>8, <1>A, <1>N, <1>F DEF EndRefresh
<1>9. ASSUME NEW v \in Verifiers, FailRefresh(v) PROVE JwksTypeOK'
  BY <1>9, <1>A, <1>K, <1>T, <1>N, <1>U DEF FailRefresh
<1>10. ASSUME NEW v \in Verifiers, NoteKid(v) PROVE JwksTypeOK'
  <2>1. verifying[v] \in Noting
    BY <1>10, <1>A DEF NoteKid
  <2>2. verifying' \in [Verifiers -> {Idle} \cup Resolving \cup Asking \cup Noting \cup Given]
    <3>1. \A p \in {"accepted", "rejected"} :
            [pc |-> p, kid |-> verifying[v].kid, arrived |-> verifying[v].arrived] \in Given
      BY <2>1 DEF Noting, Given
    <3> QED
      BY <1>10, <3>1 DEF NoteKid, Answer
  <2>3. Forgotten(verifying[v].asked) \in {Never} \cup 0..(MaxClock + Cooldown)
    BY <2>1, JwksConstants DEF Forgotten, Noting
  <2> QED
    BY <1>10, <1>P, <2>2, <2>3 DEF NoteKid
<1>11. ASSUME NEW k \in Kids, Evict(k) PROVE JwksTypeOK'
  BY <1>11 DEF Evict
<1>12. ASSUME NEW k \in Kids, Rotate(k) PROVE JwksTypeOK'
  BY <1>12, <1>T, JwksConstants DEF Rotate
<1>13. CASE Second
  BY <1>13, JwksConstants DEF Second
<1>14. CASE UNCHANGED jwksVars
  BY <1>14 DEF jwksVars
<1> QED
  BY <1>1, <1>2, <1>3, <1>4, <1>5, <1>6, <1>7, <1>8, <1>9, <1>10, <1>11, <1>12, <1>13, <1>14
     DEF JwksNext
-----------------------------------------------------------------------------
(* The inductive invariant. What a key set or a note says of a key was true *)
(* at some time that can still be told from the provider's history.         *)

\* Key k was published at time t or later.
PresentSince(k, t) == k \in published \/ changed[k] >= t

\* It was not, or a fetch failed.
AbsentSince(k, t) == k \notin published \/ changed[k] >= t \/ failed >= t

Bounded ==
  /\ failed <= clock /\ forced <= clock
  /\ \A k \in Kids : changed[k] <= clock /\ unknown[k] <= clock + Cooldown
  /\ cached # NoKeys => cached.expires <= clock + Ttl

CacheSound ==
  cached # NoKeys => \A k \in cached.keys : PresentSince(k, cached.expires - Ttl)

\* Once a forced refresh has ended, its outcome is in the cache.
RefreshSound ==
  (\A v \in locked : verifying[v].pc # "refresh") =>
    \/ forced = Never
    \/ failed >= forced
    \/ cached # NoKeys /\ \A k \in Kids \ cached.keys : AbsentSince(k, forced)

UnknownSound ==
  \A k \in Kids : unknown[k] # Never => AbsentSince(k, unknown[k] - 2 * Cooldown + 1)

ResolveSound(v) ==
  verifying[v].pc = "resolve" =>
    verifying[v].arrived <= clock /\ verifying[v].now = verifying[v].arrived

SecondSound(v) ==
  verifying[v].pc \in {"lookup", "refresh"} =>
    /\ verifying[v].arrived <= verifying[v].asked /\ verifying[v].asked <= clock
    /\ verifying[v].now <= clock
    /\ verifying[v].pc = "refresh" => verifying[v].asked <= verifying[v].now
    /\ cached # NoKeys /\ verifying[v].kid \in cached.keys =>
         PresentSince(verifying[v].kid, verifying[v].arrived)

NoteSound(v) ==
  verifying[v].pc = "note" =>
    /\ verifying[v].arrived <= verifying[v].asked /\ verifying[v].asked <= clock
    /\ verifying[v].kid \in verifying[v].keys =>
         PresentSince(verifying[v].kid, verifying[v].arrived)
    /\ verifying[v].kid \notin verifying[v].keys =>
         AbsentSince(verifying[v].kid, verifying[v].asked - Cooldown + 1)

AnswerSound(v) ==
  /\ verifying[v].pc \in {"accepted", "rejected"} => verifying[v].arrived <= clock
  /\ verifying[v].pc = "accepted" =>
       PresentSince(verifying[v].kid, verifying[v].arrived - Ttl + 1)
  /\ verifying[v].pc = "rejected" =>
       AbsentSince(verifying[v].kid, verifying[v].arrived - 2 * Cooldown + 1)

ThreadSound(v) == ResolveSound(v) /\ SecondSound(v) /\ NoteSound(v) /\ AnswerSound(v)

JwksInvariant ==
  /\ JwksTypeOK /\ Bounded /\ CacheSound /\ RefreshSound /\ UnknownSound
  /\ \A v \in Verifiers : ThreadSound(v)

(* What a step does to the provider, the clock and the cache.               *)
LEMMA Environment ==
  ASSUME JwksTypeOK, [JwksNext]_jwksVars
  PROVE  /\ clock' = clock \/ clock' = clock + 1
         /\ \/ published' = published /\ changed' = changed
            \/ \E k \in Kids : /\ changed' = [changed EXCEPT ![k] = clock]
                               /\ \A j \in Kids \ {k} : j \in published' <=> j \in published
         /\ failed' = failed \/ failed' = clock
         /\ \/ cached' = cached
            \/ \E v \in Verifiers :
                 /\ verifying[v].pc \in {"resolve", "refresh"} /\ cached' = Fetched(v)
                 /\ published' = published /\ changed' = changed
                 /\ clock' = clock /\ failed' = failed /\ forced' = forced
                 /\ unknown' = unknown /\ locked' = {} /\ v \in locked
<1>1. ASSUME NEW k \in Kids, Rotate(k)
      PROVE  \A j \in Kids \ {k} : j \in published' <=> j \in published
  BY <1>1 DEF Rotate
<1> QED
  BY <1>1 DEF JwksNext, jwksVars, provider, Arrive, UseCache, StartFetch, EndFetch, FailFetch, LookUp,
              UseCacheInCooldown, StartRefresh, EndRefresh, FailRefresh, NoteKid, Evict, Rotate, Second

(* What was true at a time stays true of that time.                         *)
LEMMA Stable ==
  ASSUME JwksTypeOK, Bounded, [JwksNext]_jwksVars, NEW k \in Kids, NEW t \in Int, t <= clock
  PROVE  /\ PresentSince(k, t) => PresentSince(k, t)'
         /\ AbsentSince(k, t) => AbsentSince(k, t)'
<1>1. /\ clock \in Int /\ failed \in Int /\ failed <= clock /\ changed \in [Kids -> Int]
      /\ changed[k] <= clock
  <2>1. clock \in Int /\ failed \in Int /\ \A j \in Kids : changed[j] \in Int
    <3>1. clock \in 0..MaxClock /\ failed \in Times /\ \A j \in Kids : changed[j] \in Times
      BY DEF JwksTypeOK
    <3> QED
      BY <3>1, NeverIsBefore, JwksConstants
  <2>2. changed \in [Kids -> Int]
    BY <2>1 DEF JwksTypeOK
  <2> QED
    BY <2>1, <2>2 DEF Bounded
<1>2. failed >= t => failed' >= t
  BY <1>1, Environment
<1>3. CASE published' = published /\ changed' = changed
  BY <1>2, <1>3 DEF PresentSince, AbsentSince
<1>4. ASSUME NEW j \in Kids, changed' = [changed EXCEPT ![j] = clock],
             \A i \in Kids \ {j} : i \in published' <=> i \in published
      PROVE  /\ PresentSince(k, t) => PresentSince(k, t)'
             /\ AbsentSince(k, t) => AbsentSince(k, t)'
  <2>1. CASE j = k
    BY <1>1, <1>4, <2>1 DEF PresentSince, AbsentSince
  <2>2. CASE j # k
    BY <1>1, <1>2, <1>4, <2>2 DEF PresentSince, AbsentSince
  <2> QED
    BY <2>1, <2>2
<1> QED
  BY <1>3, <1>4, Environment

(* A thread that a step does not move.                                      *)
LEMMA ThreadStays ==
  ASSUME JwksTypeOK, Bounded, [JwksNext]_jwksVars, NEW v \in Verifiers, ThreadSound(v),
         verifying'[v] = verifying[v]
  PROVE  ThreadSound(v)'
<1>1. /\ clock \in Int /\ clock' \in Int /\ clock <= clock'
  BY Environment DEF JwksTypeOK
<1>2. \A k \in Kids, t \in Int : t <= clock =>
        /\ PresentSince(k, t) => PresentSince(k, t)'
        /\ AbsentSince(k, t) => AbsentSince(k, t)'
  BY Stable
<1>3. ResolveSound(v)'
  <2>1. verifying[v].pc = "resolve" => verifying[v].arrived \in Int
    BY DEF JwksTypeOK, Idle, Resolving, Asking, Noting, Given
  <2> QED
    BY <1>1, <2>1 DEF ThreadSound, ResolveSound
<1>4. SecondSound(v)'
  <2> SUFFICES ASSUME verifying[v].pc \in {"lookup", "refresh"}
               PROVE  SecondSound(v)'
    BY DEF SecondSound
  <2>1. verifying[v] \in Asking
    BY DEF JwksTypeOK, Idle, Resolving, Asking, Noting, Given
  <2>2. verifying[v].kid \in Kids /\ verifying[v].arrived \in Int /\ verifying[v].asked \in Int
        /\ verifying[v].now \in Int
    BY <2>1 DEF Asking
  <2>3. /\ verifying[v].arrived <= verifying[v].asked /\ verifying[v].asked <= clock
        /\ verifying[v].now <= clock
        /\ verifying[v].pc = "refresh" => verifying[v].asked <= verifying[v].now
        /\ cached # NoKeys /\ verifying[v].kid \in cached.keys =>
             PresentSince(verifying[v].kid, verifying[v].arrived)
    BY DEF ThreadSound, SecondSound
  <2> PICK k \in Kids, t \in Int : k = verifying[v].kid /\ t = verifying[v].arrived
    BY <2>2
  <2>4. cached' # NoKeys /\ k \in cached'.keys => PresentSince(k, t)'
    <3>1. CASE cached' = cached
      <4>1. PresentSince(k, t) => PresentSince(k, t)'
        BY <1>1, <1>2, <2>2, <2>3
      <4> QED
        BY <2>3, <3>1, <4>1
    <3>2. CASE \E w \in Verifiers : cached' = Fetched(w) /\ published' = published
      BY <3>2 DEF Fetched, PresentSince
    <3> QED
      BY <3>1, <3>2, Environment
  <2> QED
    BY <1>1, <2>2, <2>3, <2>4 DEF SecondSound, PresentSince
<1>5. NoteSound(v)'
  <2> SUFFICES ASSUME verifying[v].pc = "note"
               PROVE  NoteSound(v)'
    BY DEF NoteSound
  <2>1. verifying[v] \in Noting
    BY DEF JwksTypeOK, Idle, Resolving, Asking, Noting, Given
  <2>2. verifying[v].kid \in Kids /\ verifying[v].arrived \in Int /\ verifying[v].asked \in Int
    BY <2>1 DEF Noting
  <2>3. verifying[v].asked - Cooldown + 1 \in Int /\ verifying[v].asked - Cooldown + 1 <= verifying[v].asked
    BY <2>2, JwksConstants
  <2> QED
    BY <1>1, <1>2, <2>2, <2>3 DEF ThreadSound, NoteSound, PresentSince, AbsentSince
<1>6. AnswerSound(v)'
  <2> SUFFICES ASSUME verifying[v].pc \in {"accepted", "rejected"}
               PROVE  AnswerSound(v)'
    BY DEF AnswerSound
  <2>1. verifying[v] \in Given
    BY DEF JwksTypeOK, Idle, Resolving, Asking, Noting, Given
  <2>2. verifying[v].kid \in Kids /\ verifying[v].arrived \in Int
    BY <2>1 DEF Given
  <2>3. /\ verifying[v].arrived - Ttl + 1 \in Int
        /\ verifying[v].arrived - Ttl + 1 <= verifying[v].arrived
        /\ verifying[v].arrived - 2 * Cooldown + 1 \in Int
        /\ verifying[v].arrived - 2 * Cooldown + 1 <= verifying[v].arrived
    BY <2>2, JwksConstants
  <2> QED
    BY <1>1, <1>2, <2>2, <2>3 DEF ThreadSound, AnswerSound, PresentSince, AbsentSince
<1> QED
  BY <1>3, <1>4, <1>5, <1>6 DEF ThreadSound

(* What a step does to the record of refreshes and to the unknown keys.     *)
LEMMA Memory ==
  ASSUME JwksTypeOK, [JwksNext]_jwksVars
  PROVE  /\ forced' = forced \/ \E v \in Verifiers : StartRefresh(v)
         /\ \A k \in Kids :
              \/ unknown'[k] \in {unknown[k], Never}
              \/ \E v \in Verifiers : /\ verifying[v].pc = "note" /\ verifying[v].kid = k
                                      /\ k \notin verifying[v].keys
                                      /\ unknown'[k] = verifying[v].asked + Cooldown
<1>P. \A t : \A k \in Kids : Pruned(t)[k] \in {unknown[k], Never}
  BY DEF Pruned
<1>T. \A t : Pruned(t) \in [Kids -> {Never} \cup 0..(MaxClock + Cooldown)]
  BY DEF Pruned, JwksTypeOK
<1>1. forced' = forced \/ \E v \in Verifiers : StartRefresh(v)
  BY DEF JwksNext, jwksVars, Arrive, UseCache, StartFetch, EndFetch, FailFetch, LookUp,
         UseCacheInCooldown, EndRefresh, FailRefresh, NoteKid, Evict, Rotate, Second
<1>2. unknown' = unknown \/ (\E v \in Verifiers : LookUp(v) \/ NoteKid(v)) \/ \E k \in Kids : Evict(k)
  BY DEF JwksNext, jwksVars, Arrive, UseCache, StartFetch, EndFetch, FailFetch,
         UseCacheInCooldown, StartRefresh, EndRefresh, FailRefresh, Rotate, Second
<1>3. ASSUME NEW k \in Kids
      PROVE  \/ unknown'[k] \in {unknown[k], Never}
             \/ \E v \in Verifiers : /\ verifying[v].pc = "note" /\ verifying[v].kid = k
                                     /\ k \notin verifying[v].keys
                                     /\ unknown'[k] = verifying[v].asked + Cooldown
  <2>1. CASE unknown' = unknown
    BY <2>1
  <2>2. ASSUME NEW v \in Verifiers, LookUp(v) PROVE unknown'[k] \in {unknown[k], Never}
    BY <2>2, <1>P DEF LookUp
  <2>3. ASSUME NEW v \in Verifiers, NoteKid(v)
        PROVE  \/ unknown'[k] \in {unknown[k], Never}
               \/ /\ verifying[v].pc = "note" /\ verifying[v].kid = k
                  /\ k \notin verifying[v].keys
                  /\ unknown'[k] = verifying[v].asked + Cooldown
    BY <2>3, <1>P, <1>T DEF NoteKid, Forgotten
  <2>4. ASSUME NEW j \in Kids, Evict(j) PROVE unknown'[k] \in {unknown[k], Never}
    BY <2>4 DEF Evict, JwksTypeOK
  <2> QED
    BY <1>2, <2>1, <2>2, <2>3, <2>4
<1> QED
  BY <1>1, <1>3

(* Times and keys of the threads, as numbers.                               *)
LEMMA ThreadFacts ==
  ASSUME JwksInvariant, NEW v \in Verifiers
  PROVE  /\ verifying[v].pc = "resolve" =>
              /\ verifying[v] \in Resolving /\ verifying[v].kid \in Kids
              /\ verifying[v].arrived \in Nat /\ verifying[v].arrived <= clock
              /\ verifying[v].now = verifying[v].arrived /\ verifying[v].asked = Never
         /\ verifying[v].pc \in {"lookup", "refresh"} =>
              /\ verifying[v] \in Asking /\ verifying[v].kid \in Kids
              /\ verifying[v].arrived \in Nat /\ verifying[v].asked \in Nat
              /\ verifying[v].now \in Nat /\ verifying[v].now <= clock
              /\ verifying[v].arrived <= verifying[v].asked /\ verifying[v].asked <= clock
              /\ verifying[v].pc = "refresh" => verifying[v].asked <= verifying[v].now
         /\ verifying[v].pc = "note" =>
              /\ verifying[v] \in Noting /\ verifying[v].kid \in Kids
              /\ verifying[v].keys \in SUBSET Kids
              /\ verifying[v].arrived \in Nat /\ verifying[v].asked \in Nat
              /\ verifying[v].arrived <= verifying[v].asked /\ verifying[v].asked <= clock
<1> USE DEF JwksInvariant, JwksTypeOK, ThreadSound
<1>0. \A n \in 0..MaxClock : n \in Nat
  BY JwksConstants
<1>1. CASE verifying[v].pc = "resolve"
  <2>1. verifying[v] \in Resolving
    BY <1>1 DEF Idle, Resolving, Asking, Noting, Given
  <2> QED
    BY <1>0, <1>1, <2>1 DEF Resolving, ResolveSound
<1>2. CASE verifying[v].pc \in {"lookup", "refresh"}
  <2>1. verifying[v] \in Asking
    BY <1>2 DEF Idle, Resolving, Asking, Noting, Given
  <2> QED
    BY <1>0, <1>2, <2>1 DEF Asking, SecondSound
<1>3. CASE verifying[v].pc = "note"
  <2>1. verifying[v] \in Noting
    BY <1>3 DEF Idle, Resolving, Asking, Noting, Given
  <2> QED
    BY <1>0, <1>3, <2>1 DEF Noting, NoteSound
<1> QED
  BY <1>1, <1>2, <1>3

(* A fetched key set is a value.                                            *)
LEMMA FetchedKeys ==
  ASSUME JwksInvariant, NEW v \in Verifiers, verifying[v].pc \in {"resolve", "refresh"}
  PROVE  Fetched(v) # NoKeys /\ Fetched(v).keys = published
<1>1. verifying[v].now \in Nat
  BY ThreadFacts
<1>2. published \in SUBSET Kids
  BY DEF JwksInvariant, JwksTypeOK
<1> QED
  BY <1>1, <1>2, JwksConstants DEF Fetched

(* The shared state as numbers.                                             *)
LEMMA SharedFacts ==
  ASSUME JwksTypeOK
  PROVE  /\ clock \in Nat /\ failed \in Int /\ forced \in Int
         /\ \A k \in Kids : changed[k] \in Int /\ unknown[k] \in Int
         /\ cached # NoKeys => cached.keys \in SUBSET Kids /\ cached.expires \in Nat
<1>1. /\ clock \in 0..MaxClock /\ failed \in Times /\ forced \in Times
      /\ \A k \in Kids : changed[k] \in Times /\ unknown[k] \in {Never} \cup 0..(MaxClock + Cooldown)
      /\ cached # NoKeys => cached.keys \in SUBSET Kids /\ cached.expires \in 0..(MaxClock + Ttl)
  BY DEF JwksTypeOK, KeySets
<1> QED
  BY <1>1, NeverIsBefore, JwksConstants

(* Every step keeps the bounds.                                             *)
LEMMA BoundedStep == ASSUME JwksInvariant, [JwksNext]_jwksVars PROVE Bounded'
<1>1. JwksTypeOK /\ Bounded
  BY DEF JwksInvariant
<1>2. clock \in Nat /\ clock' \in Nat /\ clock <= clock'
  BY <1>1, SharedFacts, Environment
<1>3. failed' <= clock'
  BY <1>1, <1>2, SharedFacts, Environment DEF Bounded
<1>4. forced' <= clock'
  <2>1. CASE forced' = forced
    BY <1>1, <1>2, <2>1, SharedFacts DEF Bounded
  <2>2. ASSUME NEW v \in Verifiers, StartRefresh(v) PROVE forced' <= clock'
    BY <1>2, <2>2, ThreadFacts DEF StartRefresh
  <2> QED
    BY <1>1, <2>1, <2>2, Memory
<1>5. ASSUME NEW k \in Kids PROVE changed'[k] <= clock'
  <2>1. changed'[k] \in {changed[k], clock}
    BY <1>1, Environment DEF JwksTypeOK
  <2> QED
    BY <1>1, <1>2, <2>1, SharedFacts DEF Bounded
<1>6. ASSUME NEW k \in Kids PROVE unknown'[k] <= clock' + Cooldown
  <2>1. CASE unknown'[k] \in {unknown[k], Never}
    BY <1>1, <1>2, <2>1, SharedFacts, NeverIsBefore, JwksConstants DEF Bounded
  <2>2. ASSUME NEW v \in Verifiers, verifying[v].pc = "note",
               unknown'[k] = verifying[v].asked + Cooldown
        PROVE  unknown'[k] <= clock' + Cooldown
    BY <1>2, <2>2, ThreadFacts, JwksConstants
  <2> QED
    BY <1>1, <2>1, <2>2, Memory
<1>7. cached' # NoKeys => cached'.expires <= clock' + Ttl
  <2>1. CASE cached' = cached
    BY <1>1, <1>2, <2>1, SharedFacts, JwksConstants DEF Bounded
  <2>2. ASSUME NEW v \in Verifiers, verifying[v].pc \in {"resolve", "refresh"}, cached' = Fetched(v)
        PROVE  cached'.expires <= clock' + Ttl
    <3>1. verifying[v].now \in Nat /\ verifying[v].now <= clock
      BY <2>2, ThreadFacts
    <3> QED
      BY <1>2, <2>2, <3>1, JwksConstants DEF Fetched
  <2> QED
    BY <1>1, <2>1, <2>2, Environment
<1> QED
  BY <1>3, <1>4, <1>5, <1>6, <1>7 DEF Bounded

(* Every step keeps what the caches say.                                    *)
LEMMA CachesStep ==
  ASSUME JwksInvariant, [JwksNext]_jwksVars
  PROVE  CacheSound' /\ RefreshSound' /\ UnknownSound'
<1>1. JwksTypeOK /\ Bounded /\ CacheSound /\ RefreshSound /\ UnknownSound
  BY DEF JwksInvariant
<1>2. /\ clock \in Nat /\ failed \in Int /\ forced \in Int
      /\ \A k \in Kids : changed[k] \in Int /\ unknown[k] \in Int
      /\ cached # NoKeys => cached.keys \in SUBSET Kids /\ cached.expires \in Nat
  BY <1>1, SharedFacts
<1>3. \A k \in Kids, t \in Int : t <= clock =>
        /\ PresentSince(k, t) => PresentSince(k, t)'
        /\ AbsentSince(k, t) => AbsentSince(k, t)'
  BY <1>1, Stable
<1>4. CacheSound'
  <2>1. CASE cached' = cached
    <3> SUFFICES ASSUME cached # NoKeys, NEW k \in cached.keys
                 PROVE  PresentSince(k, cached.expires - Ttl)'
      BY <2>1 DEF CacheSound
    <3> PICK t \in Int : t = cached.expires - Ttl
      BY <1>2, JwksConstants
    <3>1. PresentSince(k, t)'
      BY <1>1, <1>2, <1>3, JwksConstants DEF CacheSound, Bounded
    <3> QED
      BY <2>1, <3>1 DEF PresentSince
  <2>2. CASE \E v \in Verifiers : cached' = Fetched(v) /\ published' = published
    BY <2>2 DEF CacheSound, PresentSince, Fetched
  <2> QED
    BY <1>1, <2>1, <2>2, Environment
<1>5. UnknownSound'
  <2> SUFFICES ASSUME NEW k \in Kids, unknown'[k] # Never
               PROVE  AbsentSince(k, unknown[k] - 2 * Cooldown + 1)'
    BY DEF UnknownSound
  <2>1. CASE unknown'[k] = unknown[k]
    <3> PICK t \in Int : t = unknown[k] - 2 * Cooldown + 1
      BY <1>2, JwksConstants
    <3>1. AbsentSince(k, t)'
      BY <1>1, <1>2, <1>3, <2>1, JwksConstants DEF UnknownSound, Bounded
    <3> QED
      BY <2>1, <3>1 DEF AbsentSince
  <2>2. ASSUME NEW v \in Verifiers, verifying[v].pc = "note", verifying[v].kid = k,
               k \notin verifying[v].keys, unknown'[k] = verifying[v].asked + Cooldown
        PROVE  AbsentSince(k, unknown[k] - 2 * Cooldown + 1)'
    <3>1. verifying[v].asked \in Nat /\ verifying[v].asked <= clock
      BY <2>2, ThreadFacts
    <3> PICK t \in Int : t = verifying[v].asked - Cooldown + 1
      BY <3>1, JwksConstants
    <3>2. AbsentSince(k, t)
      BY <2>2 DEF JwksInvariant, ThreadSound, NoteSound
    <3>3. AbsentSince(k, t)'
      BY <1>2, <1>3, <3>1, <3>2, JwksConstants
    <3>4. unknown'[k] - 2 * Cooldown + 1 = t
      BY <2>2, <3>1, JwksConstants
    <3> QED
      BY <3>3, <3>4 DEF AbsentSince
  <2> QED
    BY <1>1, <2>1, <2>2, Memory
<1>6. RefreshSound'
  <2> SUFFICES ASSUME (\A v \in locked : verifying[v].pc # "refresh")'
               PROVE  \/ forced' = Never
                      \/ failed' >= forced'
                      \/ cached' # NoKeys /\ \A k \in Kids \ cached'.keys : AbsentSince(k, forced)'
    BY DEF RefreshSound
  <2>1. ASSUME NEW v \in Verifiers, EndRefresh(v)
        PROVE  cached' # NoKeys /\ \A k \in Kids \ cached'.keys : AbsentSince(k, forced)'
    <3>1. Fetched(v) # NoKeys
      BY <2>1, FetchedKeys DEF EndRefresh
    <3> QED
      BY <2>1, <3>1 DEF EndRefresh, provider, Fetched, AbsentSince
  <2>2. ASSUME NEW v \in Verifiers, FailRefresh(v) PROVE failed' >= forced'
    BY <1>1, <1>2, <2>2 DEF FailRefresh, Bounded
  <2>3. CASE (\A v \in locked : verifying[v].pc # "refresh") /\ forced' = forced
    <3>1. CASE forced = Never
      BY <2>3, <3>1
    <3>2. CASE failed >= forced
      BY <1>1, <1>2, <2>3, <3>2, Environment DEF Bounded
    <3>3. CASE cached # NoKeys /\ \A k \in Kids \ cached.keys : AbsentSince(k, forced)
      <4>1. CASE cached' = cached
        <5>1. ASSUME NEW k \in Kids \ cached.keys PROVE AbsentSince(k, forced)'
          <6> PICK t \in Int : t = forced
            BY <1>2
          <6>1. AbsentSince(k, t)'
            BY <1>1, <1>2, <1>3, <3>3 DEF Bounded
          <6> QED
            BY <2>3, <6>1 DEF AbsentSince
        <5> QED
          BY <3>3, <4>1, <5>1
      <4>2. ASSUME NEW v \in Verifiers, verifying[v].pc \in {"resolve", "refresh"},
                   cached' = Fetched(v), published' = published
            PROVE  cached' # NoKeys /\ \A k \in Kids \ cached'.keys : AbsentSince(k, forced)'
        <5>1. Fetched(v) # NoKeys
          BY <4>2, FetchedKeys
        <5> QED
          BY <4>2, <5>1 DEF Fetched, AbsentSince
      <4> QED
        BY <1>1, <4>1, <4>2, Environment
    <3> QED
      BY <1>1, <2>3, <3>1, <3>2, <3>3 DEF RefreshSound
  <2>4. ASSUME NEW v \in Verifiers, StartRefresh(v) PROVE FALSE
    BY <2>4 DEF StartRefresh
  <2>5. ASSUME NEW v \in Verifiers, EndFetch(v) \/ FailFetch(v)
        PROVE  (\A w \in locked : verifying[w].pc # "refresh") /\ forced' = forced
    BY <1>1, <2>5 DEF EndFetch, FailFetch, JwksTypeOK
  <2>6. ASSUME NEW v \in Verifiers,
               UseCache(v) \/ StartFetch(v) \/ LookUp(v) \/ UseCacheInCooldown(v) \/ NoteKid(v)
        PROVE  (\A w \in locked : verifying[w].pc # "refresh") /\ forced' = forced
    BY <2>6 DEF UseCache, StartFetch, LookUp, UseCacheInCooldown, NoteKid
  <2>7. ASSUME NEW v \in Verifiers, NEW k \in Kids, Arrive(v, k)
        PROVE  (\A w \in locked : verifying[w].pc # "refresh") /\ forced' = forced
    BY <1>1, <2>7 DEF Arrive, Answered, JwksTypeOK
  <2>8. ASSUME NEW k \in Kids, Evict(k) \/ Rotate(k)
        PROVE  (\A w \in locked : verifying[w].pc # "refresh") /\ forced' = forced
    BY <2>8 DEF Evict, Rotate
  <2>9. CASE Second
    <3>1. (\A w \in locked : verifying[w].pc # "refresh") /\ forced' = forced
      BY <1>1, <2>9 DEF Second, Answered, JwksTypeOK
    <3> QED
      BY <2>3, <3>1
  <2>10. CASE UNCHANGED jwksVars
    BY <2>3, <2>10 DEF jwksVars
  <2> QED
    BY <2>1, <2>2, <2>3, <2>4, <2>5, <2>6, <2>7, <2>8, <2>9, <2>10 DEF JwksNext
<1> QED
  BY <1>4, <1>5, <1>6

(* A thread that a step moves finds out what its new state claims.          *)
LEMMA JudgedFirst ==
  ASSUME JwksInvariant, [JwksNext]_jwksVars, NEW v \in Verifiers, verifying[v].pc = "resolve",
         NEW ks \in SUBSET Kids, Judge(v, ks),
         cached' # NoKeys /\ cached'.keys = ks, clock' = clock,
         NEW k \in Kids, NEW n \in Nat, k = verifying[v].kid, n = verifying[v].arrived,
         k \in ks => PresentSince(k, n - Ttl + 1)'
  PROVE  ThreadSound(v)'
<1>1. /\ verifying[v] \in Resolving /\ verifying[v].kid \in Kids
      /\ verifying[v].arrived \in Nat /\ verifying[v].arrived <= clock
      /\ verifying[v].now = verifying[v].arrived /\ verifying[v].asked = Never
  BY ThreadFacts
<1>2. verifying \in [Verifiers -> {Idle} \cup Resolving \cup Asking \cup Noting \cup Given]
      /\ clock \in Nat
  BY SharedFacts DEF JwksInvariant, JwksTypeOK
<1>3. CASE verifying[v].kid \in ks
  <2>1. verifying'[v] = [pc |-> "accepted", kid |-> verifying[v].kid, arrived |-> verifying[v].arrived]
    BY <1>2, <1>3 DEF Judge, Answer
  <2> QED
    BY <1>1, <1>3, <2>1
       DEF ThreadSound, ResolveSound, SecondSound, NoteSound, AnswerSound, PresentSince
<1>4. CASE verifying[v].kid \notin ks
  <2>1. verifying'[v] = [verifying[v] EXCEPT !.pc = "lookup", !.asked = clock]
    BY <1>1, <1>2, <1>4 DEF Judge
  <2>2. /\ verifying'[v].pc = "lookup" /\ verifying'[v].kid = verifying[v].kid
        /\ verifying'[v].arrived = verifying[v].arrived /\ verifying'[v].now = verifying[v].now
        /\ verifying'[v].asked = clock
    BY <1>1, <2>1 DEF Resolving
  <2> QED
    BY <1>1, <1>2, <1>4, <2>2
       DEF ThreadSound, ResolveSound, SecondSound, NoteSound, AnswerSound
<1> QED
  BY <1>3, <1>4

LEMMA NotedSound ==
  ASSUME JwksInvariant, NEW v \in Verifiers, verifying[v].pc = "refresh",
         NEW ks \in SUBSET Kids, Note(v, ks), clock' = clock,
         NEW k \in Kids, NEW m \in Nat, NEW t \in Nat,
         k = verifying[v].kid, m = verifying[v].arrived, t = verifying[v].asked,
         k \in ks => PresentSince(k, m)', k \notin ks => AbsentSince(k, t - Cooldown + 1)'
  PROVE  ThreadSound(v)'
<1>1. verifying'[v] =
        [pc |-> "note", kid |-> verifying[v].kid, arrived |-> verifying[v].arrived,
         now |-> verifying[v].now, asked |-> verifying[v].asked, keys |-> ks]
  BY DEF Note, JwksInvariant, JwksTypeOK
<1>2. verifying[v].arrived <= verifying[v].asked /\ verifying[v].asked <= clock
  BY ThreadFacts
<1> QED
  BY <1>1, <1>2
     DEF ThreadSound, ResolveSound, SecondSound, NoteSound, AnswerSound, PresentSince, AbsentSince

LEMMA AnsweredSound ==
  ASSUME JwksInvariant, NEW v \in Verifiers, NEW p \in {"accepted", "rejected"}, Answer(v, p),
         verifying[v].arrived <= clock, clock' = clock,
         NEW k \in Kids, NEW n \in Nat, k = verifying[v].kid, n = verifying[v].arrived,
         p = "accepted" => PresentSince(k, n - Ttl + 1)',
         p = "rejected" => AbsentSince(k, n - 2 * Cooldown + 1)'
  PROVE  ThreadSound(v)'
<1>1. verifying'[v] = [pc |-> p, kid |-> verifying[v].kid, arrived |-> verifying[v].arrived]
  BY DEF Answer, JwksInvariant, JwksTypeOK
<1>2. CASE p = "accepted"
  BY <1>1, <1>2
     DEF ThreadSound, ResolveSound, SecondSound, NoteSound, AnswerSound, PresentSince
<1>3. CASE p = "rejected"
  BY <1>1, <1>3
     DEF ThreadSound, ResolveSound, SecondSound, NoteSound, AnswerSound, AbsentSince
<1> QED
  BY <1>2, <1>3

LEMMA IdleSound ==
  ASSUME NEW v \in Verifiers, verifying'[v] = Idle
  PROVE  ThreadSound(v)'
BY DEF Idle, ThreadSound, ResolveSound, SecondSound, NoteSound, AnswerSound

(* Every step keeps what the threads know.                                  *)
LEMMA ThreadsStep ==
  ASSUME JwksInvariant, [JwksNext]_jwksVars, NEW v \in Verifiers
  PROVE  ThreadSound(v)'
<1>1. JwksTypeOK /\ Bounded /\ CacheSound /\ RefreshSound /\ UnknownSound /\ ThreadSound(v)
  BY DEF JwksInvariant
<1>2. /\ clock \in Nat /\ failed \in Int /\ forced \in Int
      /\ \A k \in Kids : changed[k] \in Int /\ unknown[k] \in Int
      /\ cached # NoKeys => cached.keys \in SUBSET Kids /\ cached.expires \in Nat
  BY <1>1, SharedFacts
<1>3. /\ published \in SUBSET Kids
      /\ verifying \in [Verifiers -> {Idle} \cup Resolving \cup Asking \cup Noting \cup Given]
  BY <1>1 DEF JwksTypeOK
<1>S. verifying'[v] = verifying[v] => ThreadSound(v)'
  BY <1>1, ThreadStays
<1>4. ASSUME NEW k \in Kids, Arrive(v, k) PROVE ThreadSound(v)'
  <2>1. verifying'[v] = [pc |-> "resolve", kid |-> k, arrived |-> clock, now |-> clock, asked |-> Never]
        /\ clock' = clock
    BY <1>3, <1>4 DEF Arrive, provider
  <2> QED
    BY <1>2, <2>1 DEF ThreadSound, ResolveSound, SecondSound, NoteSound, AnswerSound
<1>5. CASE UseCache(v)
  <2>1. cached # NoKeys /\ cached' = cached /\ cached.expires > verifying[v].arrived /\ clock' = clock
        /\ published' = published /\ changed' = changed
    BY <1>5, ThreadFacts DEF UseCache, provider
  <2>2. ASSUME verifying[v].kid \in cached.keys
        PROVE  PresentSince(verifying[v].kid, verifying[v].arrived - Ttl + 1)
    <3>1. PresentSince(verifying[v].kid, cached.expires - Ttl)
      BY <1>1, <2>1, <2>2 DEF CacheSound
    <3>2. verifying[v].arrived \in Nat /\ verifying[v].kid \in Kids
      BY <1>5, ThreadFacts DEF UseCache
    <3> QED
      BY <1>2, <2>1, <3>1, <3>2, JwksConstants DEF PresentSince
  <2> PICK k \in Kids, n \in Nat : k = verifying[v].kid /\ n = verifying[v].arrived
    BY <1>5, ThreadFacts DEF UseCache
  <2>3. k \in cached.keys => PresentSince(k, n - Ttl + 1)'
    BY <2>1, <2>2 DEF PresentSince
  <2> QED
    BY <1>2, <1>5, <2>1, <2>3, JudgedFirst DEF UseCache
<1>6. CASE EndFetch(v)
  <2>1. verifying[v].pc = "resolve" /\ cached' = Fetched(v) /\ clock' = clock
        /\ published' = published /\ Judge(v, published)
    BY <1>6 DEF EndFetch, provider
  <2>2. cached' # NoKeys /\ cached'.keys = published
    BY <2>1, FetchedKeys
  <2> PICK k \in Kids, n \in Nat : k = verifying[v].kid /\ n = verifying[v].arrived
    BY <2>1, ThreadFacts
  <2>3. k \in published => PresentSince(k, n - Ttl + 1)'
    BY <2>1 DEF PresentSince
  <2> QED
    BY <1>3, <2>1, <2>2, <2>3, JudgedFirst
<1>7. CASE FailFetch(v)
  <2>1. verifying'[v] = Idle
    BY <1>3, <1>7 DEF FailFetch, OutageOutcome, Unavailable
  <2> QED
    BY <2>1, IdleSound
<1>8. CASE LookUp(v)
  <2>1. /\ verifying[v].pc = "lookup" /\ verifying[v].kid \in Kids
        /\ verifying[v].arrived \in Nat /\ verifying[v].asked \in Nat
        /\ verifying[v].now \in Nat /\ verifying[v].now <= clock
        /\ verifying[v].arrived <= verifying[v].asked /\ verifying[v].asked <= clock
        /\ clock' = clock /\ cached' = cached
        /\ published' = published /\ changed' = changed /\ failed' = failed
    BY <1>8, ThreadFacts DEF LookUp, provider
  <2>2. verifying[v].asked # Never
    BY <2>1, NeverIsBefore, JwksConstants
  <2>3. cached # NoKeys /\ verifying[v].kid \in cached.keys =>
          PresentSince(verifying[v].kid, verifying[v].arrived)
    BY <1>1, <2>1 DEF ThreadSound, SecondSound
  <2> PICK k \in Kids, n \in Nat : k = verifying[v].kid /\ n = verifying[v].arrived
    BY <2>1
  <2>4. CASE unknown[verifying[v].kid] > verifying[v].asked /\ cached # NoKeys
    <3>1. Judge(v, cached.keys)
      BY <1>8, <2>4 DEF LookUp
    <3>2. CASE k \in cached.keys
      <4>1. Answer(v, "accepted")
        BY <3>1, <3>2 DEF Judge
      <4>2. PresentSince(k, n - Ttl + 1)
        BY <1>2, <2>3, <2>4, <3>2, JwksConstants DEF PresentSince
      <4>3. PresentSince(k, n - Ttl + 1)'
        BY <2>1, <4>2 DEF PresentSince
      <4> QED
        BY <1>2, <2>1, <4>1, <4>3, AnsweredSound
    <3>3. CASE k \notin cached.keys
      <4>1. Answer(v, "rejected")
        BY <2>2, <3>1, <3>3 DEF Judge
      <4>2. unknown[k] # Never
        BY <2>1, <2>4, NeverIsBefore, JwksConstants
      <4>3. AbsentSince(k, unknown[k] - 2 * Cooldown + 1)
        BY <1>1, <4>2 DEF UnknownSound
      <4>4. AbsentSince(k, n - 2 * Cooldown + 1)
        BY <1>2, <2>1, <2>4, <4>3, JwksConstants DEF AbsentSince
      <4>5. AbsentSince(k, n - 2 * Cooldown + 1)'
        BY <2>1, <4>4 DEF AbsentSince
      <4> QED
        BY <1>2, <2>1, <4>1, <4>5, AnsweredSound
    <3> QED
      BY <3>2, <3>3
  <2>5. CASE ~(unknown[verifying[v].kid] > verifying[v].asked /\ cached # NoKeys)
    <3>1. verifying'[v] = [verifying[v] EXCEPT !.pc = "refresh", !.now = clock]
      BY <1>3, <1>8, <2>5 DEF LookUp
    <3>2. /\ verifying'[v].pc = "refresh" /\ verifying'[v].kid = k /\ verifying'[v].arrived = n
          /\ verifying'[v].now = clock /\ verifying'[v].asked = verifying[v].asked
      <4>1. verifying[v] \in Asking
        BY <2>1, ThreadFacts
      <4> QED
        BY <3>1, <4>1 DEF Asking
    <3>3. cached' # NoKeys /\ k \in cached'.keys => PresentSince(k, n)'
      BY <2>1, <2>3 DEF PresentSince
    <3> QED
      BY <1>2, <2>1, <3>2, <3>3
         DEF ThreadSound, ResolveSound, SecondSound, NoteSound, AnswerSound, PresentSince
  <2> QED
    BY <2>4, <2>5
<1>9. CASE UseCacheInCooldown(v)
  <2>1. /\ verifying[v].pc = "refresh" /\ locked = {} /\ verifying[v].now - forced < Cooldown
        /\ clock' = clock /\ published' = published /\ changed' = changed /\ failed' = failed
    BY <1>9 DEF UseCacheInCooldown, provider
  <2>2. /\ verifying[v].kid \in Kids /\ verifying[v].now \in Nat
        /\ verifying[v].asked \in Nat /\ verifying[v].asked <= verifying[v].now
    BY <2>1, ThreadFacts
  <2>3. CASE cached = NoKeys
    <3>1. verifying'[v] = Idle
      BY <1>3, <1>9, <2>3 DEF UseCacheInCooldown, Unavailable
    <3> QED
      BY <3>1, IdleSound
  <2>4. CASE cached # NoKeys
    <3> PICK k \in Kids, m \in Nat, t \in Nat :
          k = verifying[v].kid /\ m = verifying[v].arrived /\ t = verifying[v].asked
      BY <2>1, <2>2, ThreadFacts
    <3>1. k \in cached.keys => PresentSince(k, m)
      BY <1>1, <2>1, <2>4 DEF ThreadSound, SecondSound
    <3>2. k \notin cached.keys => AbsentSince(k, t - Cooldown + 1)
      <4>1. forced # Never
        BY <2>1, <2>2, NeverIsBefore, JwksConstants
      <4>2. failed >= forced \/ k \notin cached.keys => AbsentSince(k, forced)
        BY <1>1, <2>1, <4>1 DEF RefreshSound, AbsentSince
      <4>3. forced >= t - Cooldown + 1
        BY <1>2, <2>1, <2>2, JwksConstants
      <4> QED
        BY <1>1, <1>2, <2>1, <4>1, <4>2, <4>3, JwksConstants DEF AbsentSince, RefreshSound
    <3>3. /\ k \in cached.keys => PresentSince(k, m)'
          /\ k \notin cached.keys => AbsentSince(k, t - Cooldown + 1)'
      BY <2>1, <3>1, <3>2 DEF PresentSince, AbsentSince
    <3>4. Note(v, cached.keys) /\ cached.keys \in SUBSET Kids
      BY <1>2, <1>9, <2>4 DEF UseCacheInCooldown
    <3> QED
      BY <2>1, <3>3, <3>4, NotedSound
  <2> QED
    BY <2>3, <2>4
<1>10. CASE EndRefresh(v)
  <2>1. verifying[v].pc = "refresh" /\ clock' = clock /\ published' = published /\ Note(v, published)
    BY <1>10 DEF EndRefresh, provider
  <2> PICK k \in Kids, m \in Nat, t \in Nat :
        k = verifying[v].kid /\ m = verifying[v].arrived /\ t = verifying[v].asked
    BY <2>1, ThreadFacts
  <2>2. /\ k \in published => PresentSince(k, m)'
        /\ k \notin published => AbsentSince(k, t - Cooldown + 1)'
    BY <2>1 DEF PresentSince, AbsentSince
  <2> QED
    BY <1>3, <2>1, <2>2, NotedSound
<1>11. CASE FailRefresh(v)
  <2>1. /\ verifying[v].pc = "refresh" /\ clock' = clock /\ failed' = clock
        /\ published' = published /\ changed' = changed
    BY <1>11 DEF FailRefresh, provider
  <2>2. CASE cached = NoKeys
    <3>1. verifying'[v] = Idle
      BY <1>3, <1>11, <2>2 DEF FailRefresh, Unavailable
    <3> QED
      BY <3>1, IdleSound
  <2>3. CASE cached # NoKeys
    <3> PICK k \in Kids, m \in Nat, t \in Nat :
          k = verifying[v].kid /\ m = verifying[v].arrived /\ t = verifying[v].asked /\ t <= clock
      BY <2>1, ThreadFacts
    <3>1. k \in cached.keys => PresentSince(k, m)'
      BY <1>1, <2>1, <2>3 DEF ThreadSound, SecondSound, PresentSince
    <3>2. AbsentSince(k, t - Cooldown + 1)'
      BY <1>2, <2>1, JwksConstants DEF AbsentSince
    <3>3. Note(v, cached.keys) /\ cached.keys \in SUBSET Kids
      BY <1>2, <1>11, <2>3 DEF FailRefresh
    <3> QED
      BY <2>1, <3>1, <3>2, <3>3, NotedSound
  <2> QED
    BY <2>2, <2>3
<1>12. CASE NoteKid(v)
  <2>1. /\ verifying[v].pc = "note" /\ clock' = clock
        /\ published' = published /\ changed' = changed /\ failed' = failed
        /\ Answer(v, IF verifying[v].kid \in verifying[v].keys THEN "accepted" ELSE "rejected")
    BY <1>12 DEF NoteKid, provider
  <2>2. /\ verifying[v].kid \in Kids /\ verifying[v].arrived \in Nat /\ verifying[v].asked \in Nat
        /\ verifying[v].arrived <= verifying[v].asked /\ verifying[v].asked <= clock
    BY <2>1, ThreadFacts
  <2> PICK k \in Kids, n \in Nat, m \in Nat :
        k = verifying[v].kid /\ n = verifying[v].arrived /\ m = verifying[v].asked
    BY <2>2
  <2>3. CASE k \in verifying[v].keys
    <3>1. PresentSince(k, n)
      BY <1>1, <2>1, <2>3 DEF ThreadSound, NoteSound
    <3>2. PresentSince(k, n - Ttl + 1)'
      BY <1>2, <2>1, <3>1, JwksConstants DEF PresentSince
    <3> QED
      BY <1>2, <2>1, <2>2, <2>3, <3>2, AnsweredSound
  <2>4. CASE k \notin verifying[v].keys
    <3>1. AbsentSince(k, m - Cooldown + 1)
      BY <1>1, <2>1, <2>4 DEF ThreadSound, NoteSound
    <3>2. AbsentSince(k, n - 2 * Cooldown + 1)'
      BY <1>2, <2>1, <2>2, <3>1, JwksConstants DEF AbsentSince
    <3> QED
      BY <1>2, <2>1, <2>2, <2>4, <3>2, AnsweredSound
  <2> QED
    BY <2>3, <2>4
<1>13. CASE Second
  <2>1. verifying'[v] = verifying[v] \/ verifying'[v] = Idle
    BY <1>13 DEF Second
  <2> QED
    BY <2>1, <1>S, IdleSound
<1>14. ASSUME NEW w \in Verifiers \ {v},
              \/ \E k \in Kids : Arrive(w, k)
              \/ UseCache(w) \/ EndFetch(w) \/ FailFetch(w) \/ LookUp(w) \/ UseCacheInCooldown(w)
              \/ EndRefresh(w) \/ FailRefresh(w) \/ NoteKid(w)
       PROVE  verifying'[v] = verifying[v]
  BY <1>14, <1>3 DEF Arrive, UseCache, EndFetch, FailFetch, LookUp, UseCacheInCooldown, EndRefresh,
                     FailRefresh, NoteKid, Judge, Note, Answer, Unavailable, OutageOutcome
<1>15. CASE \/ \E w \in Verifiers : StartFetch(w) \/ StartRefresh(w)
            \/ \E k \in Kids : Evict(k) \/ Rotate(k)
            \/ UNCHANGED jwksVars
  <2>1. verifying' = verifying
    BY <1>15 DEF StartFetch, StartRefresh, Evict, Rotate, jwksVars
  <2> QED
    BY <2>1, <1>S
<1> QED
  BY <1>S, <1>4, <1>5, <1>6, <1>7, <1>8, <1>9, <1>10, <1>11, <1>12, <1>13, <1>14, <1>15 DEF JwksNext

-----------------------------------------------------------------------------
(* The theorems.                                                            *)

LEMMA JwksInitial == JwksInit => JwksInvariant
<1> SUFFICES ASSUME JwksInit PROVE JwksInvariant
  OBVIOUS
<1> USE DEF JwksInit
<1>1. 0 \in 0..MaxClock /\ 0 \in 0..MaxRotations /\ Never \in Times /\ Never <= 0
      /\ Never <= Cooldown
  BY NeverIsBefore, JwksConstants DEF Times
<1>2. JwksTypeOK
  BY <1>1 DEF JwksTypeOK
<1>3. Bounded
  BY <1>1, JwksConstants DEF Bounded
<1>4. CacheSound /\ RefreshSound /\ UnknownSound
  BY DEF CacheSound, RefreshSound, UnknownSound
<1>5. ASSUME NEW v \in Verifiers PROVE ThreadSound(v)
  BY <1>5 DEF Idle, ThreadSound, ResolveSound, SecondSound, NoteSound, AnswerSound
<1> QED
  BY <1>2, <1>3, <1>4, <1>5 DEF JwksInvariant

\* What a thread, the cache, the refreshes and the unknown ids know of a key is
\* true of the time they have it from, in every reachable state (resolve,
\* resolve_unknown_kid).
THEOREM JwksInvariance == JwksSpec => []JwksInvariant
<1>1. JwksInvariant /\ [JwksNext]_jwksVars => JwksInvariant'
  <2> SUFFICES ASSUME JwksInvariant, [JwksNext]_jwksVars PROVE JwksInvariant'
    OBVIOUS
  <2>1. JwksTypeOK'
    BY JwksTypedStep DEF JwksInvariant
  <2>2. Bounded' /\ CacheSound' /\ RefreshSound' /\ UnknownSound'
    BY BoundedStep, CachesStep
  <2>3. \A v \in Verifiers : ThreadSound(v)'
    BY ThreadsStep
  <2> QED
    BY <2>1, <2>2, <2>3 DEF JwksInvariant
<1> QED
  BY <1>1, JwksInitial, PTL DEF JwksSpec

\* A withdrawn key is accepted for no longer than a cached key set lives
\* (resolve).
THEOREM KeysExpire == JwksSpec => []WithdrawnKeysExpire
<1>1. JwksInvariant => WithdrawnKeysExpire
  <2> SUFFICES ASSUME JwksInvariant, NEW v \in Verifiers, verifying[v].pc = "accepted"
               PROVE  \/ verifying[v].kid \in published
                      \/ changed[verifying[v].kid] > verifying[v].arrived - Ttl
    BY DEF WithdrawnKeysExpire
  <2>1. PresentSince(verifying[v].kid, verifying[v].arrived - Ttl + 1)
    BY DEF JwksInvariant, ThreadSound, AnswerSound
  <2>2. verifying[v] \in Given
    BY DEF JwksInvariant, JwksTypeOK, Idle, Resolving, Asking, Noting, Given
  <2>3. verifying[v].kid \in Kids /\ verifying[v].arrived \in Nat
    BY <2>2, JwksConstants DEF Given
  <2>4. changed[verifying[v].kid] \in Int
    BY <2>3, SharedFacts DEF JwksInvariant
  <2> QED
    BY <2>1, <2>3, <2>4, JwksConstants DEF PresentSince
<1> QED
  BY <1>1, JwksInvariance, PTL

\* A published key is found two cooldowns after it was published or the provider
\* could last not be reached (resolve_unknown_kid).
THEOREM KeysAreFound == JwksSpec => []PublishedKeysAreFound
<1>1. JwksInvariant => PublishedKeysAreFound
  <2> SUFFICES ASSUME JwksInvariant, NEW v \in Verifiers, verifying[v].pc = "rejected"
               PROVE  \/ verifying[v].kid \notin published
                      \/ changed[verifying[v].kid] > verifying[v].arrived - 2 * Cooldown
                      \/ failed > verifying[v].arrived - 2 * Cooldown
    BY DEF PublishedKeysAreFound
  <2>1. AbsentSince(verifying[v].kid, verifying[v].arrived - 2 * Cooldown + 1)
    BY DEF JwksInvariant, ThreadSound, AnswerSound
  <2>2. verifying[v] \in Given
    BY DEF JwksInvariant, JwksTypeOK, Idle, Resolving, Asking, Noting, Given
  <2>3. verifying[v].kid \in Kids /\ verifying[v].arrived \in Nat
    BY <2>2, JwksConstants DEF Given
  <2>4. changed[verifying[v].kid] \in Int /\ failed \in Int
    BY <2>3, SharedFacts DEF JwksInvariant
  <2> QED
    BY <2>1, <2>3, <2>4, JwksConstants DEF AbsentSince
<1> QED
  BY <1>1, JwksInvariance, PTL
=============================================================================

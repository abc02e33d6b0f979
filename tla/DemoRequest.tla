---------------------------- MODULE DemoRequest ----------------------------
(***************************************************************************)
(* Public demo requests of the console: one submission id, the requests a  *)
(* browser makes and repeats with it, the reservation that the Lua scripts *)
(* keep for it in Redis, and the webhook that receives the lead.           *)
(*                                                                         *)
(* Every Redis command may outlive the client that gave it up: the command *)
(* is then applied later, or never. The global and per-address limits      *)
(* refuse a request before it has reserved anything; other submissions use *)
(* them up, so here they may refuse at any time.                           *)
(***************************************************************************)
EXTENDS Naturals, FiniteSets

CONSTANTS
  Handlers,        \* requests that the console serves at the same time
  Payloads,        \* normalised contents sent under the submission id
  MaxSubmissions,  \* bound: requests made
  MaxGivenUp       \* bound: commands given up

ASSUME DemoConstants == MaxSubmissions \in Nat /\ MaxGivenUp \in Nat

VARIABLES
  reservation,     \* the Redis hash of the submission id
  serving,         \* serving[h]: the request handler h is processing
  late,            \* given-up commands that Redis may still apply
  submissions,     \* requests made; the number of one is its lease token
  givenUp,         \* commands given up
  accepted,        \* contents of requests answered with 202
  acknowledged,    \* contents the webhook acknowledged
  trapped          \* contents of completed honeypot requests

demoVars == <<reservation, serving, late, submissions, givenUp, accepted, acknowledged, trapped>>

NoReservation == [status |-> "absent"]
NotServing    == [pc |-> "idle"]

DemoInit ==
  /\ reservation = NoReservation
  /\ serving = [h \in Handlers |-> NotServing]
  /\ late = {}
  /\ submissions = 0
  /\ givenUp = 0
  /\ accepted = {}
  /\ acknowledged = {}
  /\ trapped = {}
-----------------------------------------------------------------------------
(* The scripts. leased says that lease_until is still in the future.       *)

Holds(k, token) == k.status \in {"processing", "dispatching"} /\ k.token = token

\* mutant: a request that finds another one dispatching counts as its duplicate.
AnswerDispatchingAsDuplicate(k, payload) ==
  CASE k.status = "absent" -> "reserved"
    [] k.status # "absent" /\ k.payload # payload -> "conflict"
    [] k.status \in {"completed", "dispatching"} /\ k.payload = payload -> "duplicate"
    [] k.status = "processing" /\ k.payload = payload /\ k.leased -> "pending"
    [] OTHER -> "reserved"

\* mutant: whatever is not completed and has no lease is taken over.
AnswerTakingOverDispatching(k, payload) ==
  CASE k.status = "absent" -> "reserved"
    [] k.status # "absent" /\ k.payload # payload -> "conflict"
    [] k.status = "completed" /\ k.payload = payload -> "duplicate"
    [] k.status = "processing" /\ k.payload = payload /\ k.leased -> "pending"
    [] OTHER -> "reserved"

\* What RESERVE answers.
ReserveAnswer(k, payload) ==
  CASE k.status = "absent" -> "reserved"
    [] k.status # "absent" /\ k.payload # payload -> "conflict"
    [] k.status = "completed" /\ k.payload = payload -> "duplicate"
    [] k.status = "dispatching" /\ k.payload = payload -> "dispatching"
    [] k.status = "processing" /\ k.payload = payload /\ k.leased -> "pending"
    [] OTHER -> "reserved"

Reserved(k, payload, token) ==
  IF ReserveAnswer(k, payload) = "reserved"
  THEN [status |-> "processing", payload |-> payload, token |-> token, leased |-> TRUE]
  ELSE k

\* BEGIN_DELIVERY looks at the token and not at the lease.
Begins(k, token) == k.status = "processing" /\ k.token = token

Begun(k, token) ==
  IF Begins(k, token) THEN [status |-> "dispatching", payload |-> k.payload, token |-> token] ELSE k

Finalized(k, token) ==
  IF k.status = "dispatching" /\ k.token = token
  THEN [status |-> "completed", payload |-> k.payload] ELSE k

Released(k, token) ==
  IF Holds(k, token) THEN [status |-> "retryable", payload |-> k.payload] ELSE k

Applied(k, c) ==
  CASE c.script = "reserve"  -> Reserved(k, c.payload, c.token)
    [] c.script = "begin"    -> Begun(k, c.token)
    [] c.script = "finalize" -> Finalized(k, c.token)
    [] c.script = "release"  -> Released(k, c.token)
-----------------------------------------------------------------------------
(* A request.                                                              *)

Submit(h, payload, honeypot) ==
  /\ serving[h] = NotServing
  /\ submissions < MaxSubmissions
  /\ submissions' = submissions + 1
  /\ serving' = [serving EXCEPT ![h] = [pc |-> "reserve", payload |-> payload,
                                        honeypot |-> honeypot, token |-> submissions + 1]]
  /\ UNCHANGED <<reservation, late, givenUp, accepted, acknowledged, trapped>>

\* The answers: 202, and 422, 429 or 503.
Accept(h) ==
  /\ serving' = [serving EXCEPT ![h] = NotServing]
  /\ accepted' = IF serving[h].honeypot THEN accepted ELSE accepted \cup {serving[h].payload}

Refuse(h) == serving' = [serving EXCEPT ![h] = NotServing] /\ UNCHANGED accepted

Proceed(h, pc) == serving' = [serving EXCEPT ![h].pc = pc] /\ UNCHANGED accepted

\* The reservation decides: a completed submission is accepted again, a new or
\* abandoned one goes on, anything else is refused.
ReserveSubmission(h) ==
  /\ serving[h].pc = "reserve"
  /\ LET answer == ReserveAnswer(reservation, serving[h].payload)
     IN  \/ answer = "reserved" /\ Proceed(h, "begin")
         \/ answer = "duplicate" /\ Accept(h)
         \/ answer \in {"conflict", "dispatching", "pending"} /\ Refuse(h)
  /\ reservation' = Reserved(reservation, serving[h].payload, serving[h].token)
  /\ UNCHANGED <<late, submissions, givenUp, acknowledged, trapped>>

\* The address has used up its limit: nothing is reserved.
RefuseEmail(h) ==
  /\ serving[h].pc = "reserve" /\ reservation = NoReservation
  /\ Refuse(h)
  /\ UNCHANGED <<reservation, late, submissions, givenUp, acknowledged, trapped>>

\* A honeypot request goes on without the webhook.
BeginDelivery(h) ==
  /\ serving[h].pc = "begin"
  /\ IF Begins(reservation, serving[h].token)
     THEN Proceed(h, IF serving[h].honeypot THEN "finalize" ELSE "calling")
     ELSE Refuse(h)
  /\ reservation' = Begun(reservation, serving[h].token)
  /\ trapped' = IF Begins(reservation, serving[h].token) /\ serving[h].honeypot
                THEN trapped \cup {serving[h].payload} ELSE trapped
  /\ UNCHANGED <<late, submissions, givenUp, acknowledged>>

\* The webhook answers 2xx.
WebhookAcknowledges(h) ==
  /\ serving[h].pc = "calling"
  /\ Proceed(h, "finalize")
  /\ acknowledged' = acknowledged \cup {serving[h].payload}
  /\ UNCHANGED <<reservation, late, submissions, givenUp, trapped>>

\* Any other answer, a timeout, or the browser goes away.
WebhookFails(h) ==
  /\ serving[h].pc = "calling"
  /\ Proceed(h, "release")
  /\ UNCHANGED <<reservation, late, submissions, givenUp, acknowledged, trapped>>

ReleaseReservation(h) ==
  /\ serving[h].pc = "release"
  /\ reservation' = Released(reservation, serving[h].token)
  /\ Refuse(h)
  /\ UNCHANGED <<late, submissions, givenUp, acknowledged, trapped>>

FinalizeReservation(h) ==
  /\ serving[h].pc = "finalize"
  /\ reservation' = Finalized(reservation, serving[h].token)
  /\ Accept(h)
  /\ UNCHANGED <<late, submissions, givenUp, acknowledged, trapped>>

\* A command takes longer than a second: the request answers 503, or 202 when
\* only the final command was left.
GiveUp(h) ==
  /\ serving[h].pc \in {"reserve", "begin", "release", "finalize"}
  /\ givenUp < MaxGivenUp
  /\ givenUp' = givenUp + 1
  /\ late' = late \cup {[script |-> serving[h].pc, payload |-> serving[h].payload,
                         token |-> serving[h].token]}
  /\ IF serving[h].pc = "finalize" THEN Accept(h) ELSE Refuse(h)
  /\ UNCHANGED <<reservation, submissions, acknowledged, trapped>>

\* The process stops; the browser gets no answer.
StopServing(h) ==
  /\ serving[h] # NotServing
  /\ Refuse(h)
  /\ UNCHANGED <<reservation, late, submissions, givenUp, acknowledged, trapped>>
-----------------------------------------------------------------------------
(* Redis.                                                                  *)

ApplyLate(c) ==
  /\ reservation' = Applied(reservation, c)
  /\ late' = late \ {c}
  /\ UNCHANGED <<serving, submissions, givenUp, accepted, acknowledged, trapped>>

LoseLate(c) ==
  /\ late' = late \ {c}
  /\ UNCHANGED <<reservation, serving, submissions, givenUp, accepted, acknowledged, trapped>>

\* The 15 seconds of a lease end, whatever its holder is doing.
EndLease ==
  /\ reservation.status = "processing" /\ reservation.leased
  /\ reservation' = [reservation EXCEPT !.leased = FALSE]
  /\ UNCHANGED <<serving, late, submissions, givenUp, accepted, acknowledged, trapped>>

\* The 24 hours of the hash end: long after everything that was under way.
\* What was delivered before is history.
ExpireReservation ==
  /\ reservation # NoReservation
  /\ late = {} /\ \A h \in Handlers : serving[h] = NotServing
  /\ reservation' = NoReservation
  /\ accepted' = {} /\ acknowledged' = {} /\ trapped' = {}
  /\ UNCHANGED <<serving, late, submissions, givenUp>>

DemoNext ==
  \/ \E h \in Handlers :
       \/ \E p \in Payloads, b \in BOOLEAN : Submit(h, p, b)
       \/ ReserveSubmission(h) \/ RefuseEmail(h) \/ BeginDelivery(h)
       \/ WebhookAcknowledges(h) \/ WebhookFails(h)
       \/ ReleaseReservation(h) \/ FinalizeReservation(h)
       \/ GiveUp(h) \/ StopServing(h)
  \/ \E c \in late : ApplyLate(c) \/ LoseLate(c)
  \/ EndLease \/ ExpireReservation

DemoSpec == DemoInit /\ [][DemoNext]_demoVars
-----------------------------------------------------------------------------
\* The type invariant.
DemoTypeOK ==
  /\ reservation.status \in {"absent", "processing", "dispatching", "completed", "retryable"}
  /\ reservation # NoReservation => reservation.payload \in Payloads
  /\ reservation.status \in {"processing", "dispatching"} =>
       reservation.token \in 1..submissions
  /\ DOMAIN serving = Handlers
  /\ \A h \in Handlers : serving[h] # NotServing =>
       /\ serving[h].pc \in {"reserve", "begin", "calling", "release", "finalize"}
       /\ serving[h].payload \in Payloads /\ serving[h].token \in 1..submissions
  /\ late \subseteq [script : {"reserve", "begin", "release", "finalize"},
                     payload : Payloads, token : 1..submissions]
  /\ submissions \in 0..MaxSubmissions /\ givenUp \in 0..MaxGivenUp
  /\ accepted \subseteq Payloads /\ acknowledged \subseteq Payloads /\ trapped \subseteq Payloads

\* A lead that was accepted has reached the webhook: the answer 202 is given
\* for a content only if the webhook has acknowledged that very content, or a
\* honeypot request had the same id and content (processEnabledRequest).
AcceptedMeansDelivered == accepted \subseteq acknowledged \cup trapped

\* While Redis remembers the submission the webhook is called by one request
\* at a time, and not again once it has acknowledged, whichever commands are
\* late, lost or given up and whoever stops (the dispatching guard).
NoSecondDelivery ==
  LET calling == {h \in Handlers : serving[h].pc = "calling"}
  IN  Cardinality(calling) <= IF acknowledged = {} THEN 1 ELSE 0
=============================================================================

---------------------------- MODULE ApprovalGrants ----------------------------
(***************************************************************************)
(* Human approvals of high-risk tool calls (services/approvals.py, the two  *)
(* handlers of api/routes.py that use it, services/tool_safety.py): a       *)
(* request is recorded under a commitment to what was asked, a reviewer     *)
(* decides once, an approval comes with one bounded execution grant, and    *)
(* the grant is spent once on exactly the call that was reviewed.           *)
(*                                                                          *)
(* The workers are API processes with one request in flight each, over one  *)
(* of two backends.  "postgres": a request reads the record, computes, and  *)
(* settles in one guarded transaction.  "jsonl": one process appends lines  *)
(* to a file under a lock and serves from memory; what the file would       *)
(* replay to and what the process remembers are two things.  A process      *)
(* restarts with another commitment key or other tool definitions.          *)
(***************************************************************************)
EXTENDS Naturals, FiniteSets

CONSTANTS
  Approvals,     \* approval ids
  Calls,         \* tenant, subject, tool and canonical arguments of a tool call
  Definitions,   \* versions of the trusted tool definition
  Keys,          \* commitment keys
  Workers,       \* API processes
  Solo,          \* the process of the jsonl backend
  Backends,      \* the backends a behaviour may start with
  NoKey, NoCall,
  GrantTtl,      \* approval_execution_grant_ttl_seconds
  Deadline,      \* previous_commitment_keys_valid_until
  MaxTime, MaxRestarts, MaxFaults   \* bounds

ASSUME ApprovalAssumption ==
  /\ Solo \in Workers /\ Approvals # {}
  /\ Backends \subseteq {"postgres", "jsonl"}
  /\ NoKey \notin Keys /\ NoCall \notin Calls
  /\ GrantTtl \in Nat /\ Deadline \in Nat
  /\ MaxTime \in Nat /\ MaxRestarts \in Nat /\ MaxFaults \in Nat

VARIABLES
  backend,
  record,      \* [Approvals -> Records], approval_records or the replay of the file
  grant,       \* [Approvals -> Grants], approval_execution_grants or the replay
  memory,      \* [Approvals -> what the jsonl process remembers of both]
  config, defs,  \* each worker's commitment keys and tool definitions
  pc, req,     \* each worker's request in flight
  delivered,   \* approvals whose execution token reached the reviewer
  told,        \* [Approvals -> SUBSET Verdicts], decisions reviewers were told of
  executed,    \* the tool calls that were let through
  now, restarts, faults

storeVars == <<record, grant, memory>>
workerVars == <<config, defs, pc, req>>
outcomeVars == <<delivered, told, executed>>
boundVars == <<now, restarts, faults>>
vars == <<backend, storeVars, workerVars, outcomeVars, boundVars>>

Verdicts == {"approved", "rejected"}
Records == [status : {"none", "pending"} \cup Verdicts, call : Calls \cup {NoCall},
            def : Definitions, key : Keys]
Configs == {c \in [active : Keys, previous : Keys \cup {NoKey}] : c.active # c.previous}
Grants == [state : {"none", "live", "consumed"}, expires : Nat, issuer : Configs]
PCs == {"idle", "deciding", "append_record", "remember", "consuming", "authorized"}
Requests == [approval : Approvals, call : Calls \cup {NoCall}, verdict : Verdicts, expires : Nat]
Executions == [number : Nat, approval : Approvals, call : Calls, def : Definitions]

NoGrant == [state |-> "none", expires |-> 0, issuer |-> CHOOSE c \in Configs : TRUE]
NoRecord == [status |-> "none", call |-> NoCall, def |-> CHOOSE d \in Definitions : TRUE,
             key |-> CHOOSE k \in Keys : TRUE]
Idle == [approval |-> CHOOSE a \in Approvals : TRUE, call |-> NoCall,
         verdict |-> "rejected", expires |-> 0]

Serving == IF backend = "jsonl" THEN {Solo} ELSE Workers

Init ==
  /\ backend \in Backends
  /\ record = [a \in Approvals |-> NoRecord]
  /\ grant = [a \in Approvals |-> NoGrant]
  /\ memory = [a \in Approvals |-> [record |-> NoRecord, grant |-> NoGrant]]
  /\ \E c \in Configs, d \in Definitions :
       /\ c.previous = NoKey
       /\ config = [w \in Workers |-> c]
       /\ defs = [w \in Workers |-> d]
  /\ pc = [w \in Workers |-> "idle"]
  /\ req = [w \in Workers |-> Idle]
  /\ delivered = {}
  /\ told = [a \in Approvals |-> {}]
  /\ executed = {}
  /\ now = 0 /\ restarts = 0 /\ faults = 0

SpendFault == faults < MaxFaults /\ faults' = faults + 1

EndRequest(w) == pc' = [pc EXCEPT ![w] = "idle"] /\ req' = [req EXCEPT ![w] = Idle]

\* where a request reads the record and the grant from
RecordSeen(a) == IF backend = "jsonl" THEN memory[a].record ELSE record[a]
GrantSeen(a) == IF backend = "jsonl" THEN memory[a].grant ELSE grant[a]

-----------------------------------------------------------------------------
(* Trust                                                                    *)

\* _verification_key
CanVerify(w, key) ==
  \/ key = config[w].active
  \/ key = config[w].previous /\ now < Deadline

\* _validated_record_binding
Valid(w, r) == r.def = defs[w] /\ CanVerify(w, r.key)

\* mutant: what is presented need not be what was reviewed
MatchesAnyCall(w, r, c) == Valid(w, r)

\* the binding of the presented call is the stored one
Matches(w, r, c) == Valid(w, r) /\ r.call = c

\* mutant: a grant under the previous key gets its full time to live
FitsAlways(w, key, expires) == TRUE

\* _create_execution_grant: a grant may not outlive the key it is bound by
FitsOverlap(w, key, expires) == key = config[w].active \/ expires <= Deadline

-----------------------------------------------------------------------------
(* request_approval                                                         *)

\* mutant: the record says what the approvals API calls an open request
RequestApprovalAsOpen(w, a, c) ==
  /\ w \in Serving /\ pc[w] = "idle" /\ record[a].status = "none"
  /\ record' = [record EXCEPT ![a] = [status |-> "open", call |-> c, def |-> defs[w],
                                      key |-> config[w].active]]
  /\ memory' = IF backend = "jsonl" THEN [memory EXCEPT ![a].record = record'[a]] ELSE memory
  /\ UNCHANGED <<backend, grant, workerVars, outcomeVars, boundVars>>

RequestApproval(w, a, c) ==
  /\ w \in Serving /\ pc[w] = "idle" /\ record[a].status = "none"
  /\ record' = [record EXCEPT ![a] = [status |-> "pending", call |-> c, def |-> defs[w],
                                      key |-> config[w].active]]
  /\ memory' = IF backend = "jsonl" THEN [memory EXCEPT ![a].record = record'[a]] ELSE memory
  /\ UNCHANGED <<backend, grant, workerVars, outcomeVars, boundVars>>

-----------------------------------------------------------------------------
(* decide_with_grant                                                        *)

\* the record is pending; an approval needs a grant that may be issued
BeginDecision(w, a, v) ==
  LET expires == now + GrantTtl
      r == RecordSeen(a)
  IN /\ w \in Serving /\ pc[w] = "idle"
     /\ r.status = "pending"
     /\ v = "approved" => Valid(w, r) /\ FitsOverlap(w, r.key, expires)
     /\ pc' = [pc EXCEPT ![w] = "deciding"]
     /\ req' = [req EXCEPT ![w] = [approval |-> a, call |-> NoCall, verdict |-> v,
                                   expires |-> expires]]
     /\ UNCHANGED <<backend, storeVars, config, defs, outcomeVars, boundVars>>

NewGrant(w) == [state |-> "live", expires |-> req[w].expires, issuer |-> config[w]]

\* the reviewer gets the decided record and, with an approval, the token
Answer(w) ==
  LET a == req[w].approval IN
  /\ told' = [told EXCEPT ![a] = @ \cup {req[w].verdict}]
  /\ delivered' = IF req[w].verdict = "approved" THEN delivered \cup {a} ELSE delivered
  /\ EndRequest(w)
  /\ UNCHANGED executed

\* mutant: UPDATE ... WHERE approval_id = %s, the status read before is enough
CommitDecisionUnguarded(w) ==
  LET a == req[w].approval IN
  /\ backend = "postgres" /\ pc[w] = "deciding"
  /\ record' = [record EXCEPT ![a].status = req[w].verdict]
  /\ grant' = IF req[w].verdict = "approved"
                THEN [grant EXCEPT ![a] = NewGrant(w)] ELSE grant
  /\ Answer(w)
  /\ UNCHANGED <<backend, memory, config, defs, boundVars>>

\* mutant: the grant is inserted by a statement of its own, which may fail
CommitDecisionAlone(w) ==
  LET a == req[w].approval IN
  /\ backend = "postgres" /\ pc[w] = "deciding" /\ record[a].status = "pending"
  /\ record' = [record EXCEPT ![a].status = req[w].verdict]
  /\ \/ req[w].verdict = "approved" /\ grant' = [grant EXCEPT ![a] = NewGrant(w)]
     \/ UNCHANGED grant
  /\ Answer(w)
  /\ UNCHANGED <<backend, memory, config, defs, boundVars>>

\* decide_with_grant_once: decision and grant in one transaction
CommitDecision(w) ==
  LET a == req[w].approval IN
  /\ backend = "postgres" /\ pc[w] = "deciding"
  /\ IF record[a].status = "pending"
       THEN /\ record' = [record EXCEPT ![a].status = req[w].verdict]
            /\ grant' = IF req[w].verdict = "approved"
                          THEN [grant EXCEPT ![a] = NewGrant(w)] ELSE grant
            /\ Answer(w)
       ELSE EndRequest(w) /\ UNCHANGED <<record, grant, outcomeVars>>
  /\ UNCHANGED <<backend, memory, config, defs, boundVars>>

\* the file: the line of the grant ...
AppendGrant(w) ==
  /\ backend = "jsonl" /\ pc[w] = "deciding"
  /\ grant' = IF req[w].verdict = "approved"
                THEN [grant EXCEPT ![req[w].approval] = NewGrant(w)] ELSE grant
  /\ pc' = [pc EXCEPT ![w] = "append_record"]
  /\ UNCHANGED <<backend, record, memory, config, defs, req, outcomeVars, boundVars>>

\* ... then the line of the record ...
AppendRecord(w) ==
  /\ pc[w] = "append_record"
  /\ record' = [record EXCEPT ![req[w].approval].status = req[w].verdict]
  /\ pc' = [pc EXCEPT ![w] = "remember"]
  /\ UNCHANGED <<backend, grant, memory, config, defs, req, outcomeVars, boundVars>>

\* ... then the memory, and the answer
RememberDecision(w) ==
  LET a == req[w].approval IN
  /\ pc[w] = "remember"
  /\ memory' = [memory EXCEPT ![a] = [record |-> record[a],
                                      grant |-> IF req[w].verdict = "approved"
                                                  THEN grant[a] ELSE memory[a].grant]]
  /\ Answer(w)
  /\ UNCHANGED <<backend, record, grant, config, defs, boundVars>>

-----------------------------------------------------------------------------
(* validate-input with a grant: consume, then validate again                *)

\* the token is known, the record approved and its binding that of the call
BeginConsume(w, a, c) ==
  /\ w \in Serving /\ pc[w] = "idle"
  /\ a \in delivered
  /\ RecordSeen(a).status = "approved"
  /\ Matches(w, RecordSeen(a), c)
  /\ pc' = [pc EXCEPT ![w] = "consuming"]
  /\ req' = [req EXCEPT ![w] = [Idle EXCEPT !.approval = a, !.call = c]]
  /\ UNCHANGED <<backend, storeVars, config, defs, outcomeVars, boundVars>>

\* mutant: consumed_at is set but not looked at
SpendableTwice(a) == GrantSeen(a).state # "none" /\ GrantSeen(a).expires > now

Spendable(a) == GrantSeen(a).state = "live" /\ GrantSeen(a).expires > now

\* mutant: the file is not told that the grant is spent
SpendInMemory(a) ==
  /\ grant' = IF backend = "jsonl" THEN grant ELSE [grant EXCEPT ![a].state = "consumed"]
  /\ memory' = IF backend = "jsonl" THEN [memory EXCEPT ![a].grant.state = "consumed"] ELSE memory

Spend(a) ==
  /\ grant' = [grant EXCEPT ![a].state = "consumed"]
  /\ memory' = IF backend = "jsonl" THEN [memory EXCEPT ![a].grant = grant'[a]] ELSE memory

\* consume_grant_once, or the append of the consumed state
ConsumeGrant(w) ==
  /\ pc[w] = "consuming"
  /\ IF Spendable(req[w].approval)
       THEN /\ Spend(req[w].approval)
            /\ pc' = [pc EXCEPT ![w] = "authorized"]
            /\ UNCHANGED req
       ELSE EndRequest(w) /\ UNCHANGED <<grant, memory>>
  /\ UNCHANGED <<backend, record, config, defs, outcomeVars, boundVars>>

\* validate_input takes the capability; the policy engine has the last word
Authorize(w) ==
  LET e == [number |-> Cardinality(executed) + 1, approval |-> req[w].approval,
            call |-> req[w].call, def |-> defs[w]]
  IN /\ pc[w] = "authorized"
     /\ executed' \in {executed, executed \cup {e}}
     /\ EndRequest(w)
     /\ UNCHANGED <<backend, storeVars, config, defs, delivered, told, boundVars>>

-----------------------------------------------------------------------------
(* Failures, restarts, time                                                 *)

\* the request fails at the store.  A transaction may be committed and only its
\* answer lost; a failed append leaves no line (a torn one stops the next start).
StoreError(w) ==
  LET a == req[w].approval IN
  /\ pc[w] \in {"deciding", "append_record", "consuming"}
  /\ SpendFault
  /\ \/ UNCHANGED <<record, grant>>
     \/ /\ backend = "postgres" /\ pc[w] = "deciding" /\ record[a].status = "pending"
        /\ record' = [record EXCEPT ![a].status = req[w].verdict]
        /\ grant' = IF req[w].verdict = "approved"
                      THEN [grant EXCEPT ![a] = NewGrant(w)] ELSE grant
     \/ /\ backend = "postgres" /\ pc[w] = "consuming" /\ Spendable(a)
        /\ grant' = [grant EXCEPT ![a].state = "consumed"]
        /\ UNCHANGED record
  /\ EndRequest(w)
  /\ UNCHANGED <<backend, memory, config, defs, outcomeVars, now, restarts>>

\* a rollout, a crash or a rollback: the process comes back with some key, tool
\* definitions and, from a file, what the file replays to.  A configuration
\* whose overlap is over does not start.
RestartWorker(w, c, d) ==
  /\ w \in Serving
  /\ restarts < MaxRestarts
  /\ c.previous # NoKey => now < Deadline
  /\ config' = [config EXCEPT ![w] = c]
  /\ defs' = [defs EXCEPT ![w] = d]
  /\ EndRequest(w)
  /\ restarts' = restarts + 1
  /\ memory' = IF backend = "jsonl"
                 THEN [a \in Approvals |-> [record |-> record[a], grant |-> grant[a]]]
                 ELSE memory
  /\ UNCHANGED <<backend, record, grant, outcomeVars, now, faults>>

Tick ==
  /\ now < MaxTime
  /\ now' = now + 1
  /\ UNCHANGED <<backend, storeVars, workerVars, outcomeVars, restarts, faults>>

Next ==
  \/ \E w \in Workers :
       \/ \E a \in Approvals, c \in Calls : RequestApproval(w, a, c) \/ BeginConsume(w, a, c)
       \/ \E a \in Approvals, v \in Verdicts : BeginDecision(w, a, v)
       \/ CommitDecision(w) \/ AppendGrant(w) \/ AppendRecord(w) \/ RememberDecision(w)
       \/ ConsumeGrant(w) \/ Authorize(w) \/ StoreError(w)
       \/ \E c \in Configs, d \in Definitions : RestartWorker(w, c, d)
  \/ Tick

Spec == Init /\ [][Next]_vars

-----------------------------------------------------------------------------
(* Properties                                                               *)

\* Every variable keeps its type.
TypeOK ==
  /\ backend \in Backends
  /\ record \in [Approvals -> Records]
  /\ grant \in [Approvals -> Grants]
  /\ memory \in [Approvals -> [record : Records, grant : Grants]]
  /\ config \in [Workers -> Configs] /\ defs \in [Workers -> Definitions]
  /\ pc \in [Workers -> PCs] /\ req \in [Workers -> Requests]
  /\ delivered \subseteq Approvals
  /\ told \in [Approvals -> SUBSET Verdicts]
  /\ executed \subseteq Executions
  /\ now \in 0 .. MaxTime /\ restarts \in 0 .. MaxRestarts /\ faults \in 0 .. MaxFaults

\* One approval lets at most one tool call through, however many workers are
\* handed its token at once, whatever the store answers and whoever restarts.
SpentOnce ==
  \A e, f \in executed : e.approval = f.approval => e = f

\* What is let through is what a human approved: the same call, under the same
\* definition of the tool, and the approval still stands.
ExecutedAsReviewed ==
  \A e \in executed :
    LET r == record[e.approval] IN r.status = "approved" /\ r.call = e.call /\ r.def = e.def

\* No two reviewers leave with different decisions on one approval, and what a
\* reviewer was told is what the store holds, after restarts too.
AnswersStand ==
  \A a \in Approvals : told[a] \subseteq {record[a].status}

\* A decision, once in the store, is never taken back or turned around, and the
\* facts it was made on are never rewritten.
DecisionStands ==
  [][\A a \in Approvals : record[a].status \in Verdicts => record'[a] = record[a]]_vars

\* An approved record is never in the store without its grant.
ApprovedHasGrant ==
  \A a \in Approvals : record[a].status = "approved" => grant[a].state # "none"

\* While a grant is live, a worker of the configuration that issued it can check
\* the commitment behind it: no grant is killed by the end of a key overlap.
GrantsOutliveNoKey ==
  \A a \in Approvals, w \in Workers :
    /\ record[a].status = "approved"
    /\ grant[a].state = "live" /\ now < grant[a].expires
    /\ config[w] = grant[a].issuer
    => CanVerify(w, record[a].key)

\* A restart of the jsonl process changes no record and revives no spent grant:
\* but for the record being decided, its memory is what its file replays to.
RestartForgetsNothing ==
  backend = "jsonl" =>
    \A a \in Approvals :
      /\ \/ pc[Solo] = "remember" /\ req[Solo].approval = a
         \/ memory[a].record = record[a]
      /\ memory[a].grant.state = "consumed" <=> grant[a].state = "consumed"

-----------------------------------------------------------------------------
(* The life cycle of an approval                                            *)

FactsOf(x) == [call |-> x.call, def |-> x.def]
RunsOf(a) == {e \in executed : e.approval = a}

Lifecycle == INSTANCE ApprovalLifecycle
  WITH Facts <- [call : Calls, def : Definitions],
       Unasked <- FactsOf(NoRecord),
       answer <- [a \in Approvals |-> record[a].status],
       reviewed <- [a \in Approvals |-> FactsOf(record[a])],
       capability <- [a \in Approvals |-> grant[a].state],
       uses <- [a \in Approvals |-> Cardinality(RunsOf(a))],
       ran <- [a \in Approvals |-> {FactsOf(e) : e \in RunsOf(a)}]

\* What the store holds and what was let through move only along the life cycle
\* of an approval, in both backends: one decision on facts that are never
\* rewritten, one capability that is spent once, one execution, as reviewed.
ImplementsApproval == Lifecycle!ApprovalSpec
=============================================================================

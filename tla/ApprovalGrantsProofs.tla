------------------------ MODULE ApprovalGrantsProofs ------------------------
(***************************************************************************)
(* Proofs about ApprovalGrants, for any number of approvals, calls, keys,   *)
(* definitions, workers, restarts and failures, and both backends.          *)
(***************************************************************************)
EXTENDS ApprovalGrants, FiniteSetTheorems, TLAPS

-----------------------------------------------------------------------------
(* Type correctness                                                         *)

Typed ==
  /\ TypeOK
  /\ IsFiniteSet(executed)
  /\ \A w \in Workers : pc[w] \in {"consuming", "authorized"} => req[w].call \in Calls

(* A worker without a request is well typed.                                  *)
LEMMA IdleTyped == Idle \in Requests
<1>1. (CHOOSE a \in Approvals : TRUE) \in Approvals
  BY ApprovalAssumption
<1> QED
  BY <1>1 DEF Idle, Requests, Verdicts

(* The end of a request keeps types.                                          *)
LEMMA EndTyped ==
  ASSUME TypeOK, NEW w \in Workers, EndRequest(w)
  PROVE  pc' \in [Workers -> PCs] /\ req' \in [Workers -> Requests]
  BY IdleTyped DEF EndRequest, TypeOK, PCs

(* A decided record, a new grant and a spent grant are well typed.            *)
LEMMA DecidedTyped ==
  ASSUME TypeOK, NEW w \in Workers
  PROVE  /\ [record EXCEPT ![req[w].approval].status = req[w].verdict]
              \in [Approvals -> Records]
         /\ [grant EXCEPT ![req[w].approval] = NewGrant(w)] \in [Approvals -> Grants]
         /\ [grant EXCEPT ![req[w].approval].state = "consumed"] \in [Approvals -> Grants]
<1> DEFINE a == req[w].approval
           r == [record[a] EXCEPT !.status = req[w].verdict]
           g == [grant[a] EXCEPT !.state = "consumed"]
<1>1. /\ a \in Approvals /\ req[w].verdict \in Verdicts /\ req[w].expires \in Nat
      /\ config[w] \in Configs
  BY DEF Requests, TypeOK
<1>2. record[a] \in Records /\ grant[a] \in Grants
  BY <1>1 DEF TypeOK
<1>3. r \in Records
  BY <1>1, <1>2 DEF Records
<1>4. NewGrant(w) \in Grants
  BY <1>1 DEF NewGrant, Grants
<1>5. g \in Grants
  BY <1>2 DEF Grants
<1>6. /\ [record EXCEPT ![a].status = req[w].verdict] = [record EXCEPT ![a] = r]
      /\ [grant EXCEPT ![a].state = "consumed"] = [grant EXCEPT ![a] = g]
  OBVIOUS
<1>7. record \in [Approvals -> Records] /\ grant \in [Approvals -> Grants]
  BY DEF TypeOK
<1> HIDE DEF a, r, g
<1>8. /\ [record EXCEPT ![a] = r] \in [Approvals -> Records]
      /\ [grant EXCEPT ![a] = NewGrant(w)] \in [Approvals -> Grants]
      /\ [grant EXCEPT ![a] = g] \in [Approvals -> Grants]
  BY <1>1, <1>3, <1>4, <1>5, <1>7
<1> QED
  BY <1>6, <1>8 DEF a

(* Spending keeps types.                                                      *)
LEMMA SpendTyped ==
  ASSUME TypeOK, NEW w \in Workers, Spend(req[w].approval)
  PROVE  /\ grant' \in [Approvals -> Grants]
         /\ memory' \in [Approvals -> [record : Records, grant : Grants]]
<1> USE DEF TypeOK
<1>1. grant' \in [Approvals -> Grants]
  BY DecidedTyped DEF Spend
<1>2. req[w].approval \in Approvals
  BY DEF Requests
<1>3. [memory[req[w].approval] EXCEPT !.grant = grant'[req[w].approval]]
        \in [record : Records, grant : Grants]
  BY <1>1, <1>2
<1> QED
  BY <1>1, <1>2, <1>3 DEF Spend

(* Initial states are well typed.                                             *)
LEMMA TypedInit == ASSUME Init PROVE Typed
<1> USE DEF Init
<1>1. PICK c \in Configs, d \in Definitions : config = [w \in Workers |-> c]
                                            /\ defs = [w \in Workers |-> d]
  OBVIOUS
<1>2. (CHOOSE x \in Configs : TRUE) \in Configs /\ (CHOOSE x \in Definitions : TRUE) \in Definitions
  BY <1>1
<1>3. (CHOOSE k \in Keys : TRUE) \in Keys
  BY <1>1 DEF Configs
<1>4. NoGrant \in Grants /\ NoRecord \in Records
  BY <1>2, <1>3 DEF NoGrant, NoRecord, Grants, Records
<1>5. IsFiniteSet(executed)
  BY FS_EmptySet
<1> QED
  BY <1>1, <1>4, <1>5, IdleTyped, ApprovalAssumption DEF Typed, TypeOK, PCs, Executions

(* Every step keeps types.                                                    *)
LEMMA TypedStep == ASSUME Typed, [Next]_vars PROVE Typed'
<1> USE ApprovalAssumption DEF Typed, TypeOK, storeVars, workerVars, outcomeVars, boundVars, PCs
<1>1. ASSUME NEW w \in Workers, NEW a \in Approvals, NEW c \in Calls, RequestApproval(w, a, c)
      PROVE  Typed'
  <2> DEFINE r == [status |-> "pending", call |-> c, def |-> defs[w], key |-> config[w].active]
  <2>1. r \in Records
    BY DEF Records, Configs
  <2>2. record' = [record EXCEPT ![a] = r]
    BY <1>1 DEF RequestApproval
  <2> HIDE DEF r
  <2>3. record' \in [Approvals -> Records]
    BY <2>1, <2>2
  <2>4. [memory[a] EXCEPT !.record = record'[a]] \in [record : Records, grant : Grants]
    BY <2>3
  <2>5. memory' \in [Approvals -> [record : Records, grant : Grants]]
    BY <1>1, <2>4 DEF RequestApproval
  <2> QED
    BY <1>1, <2>3, <2>5 DEF RequestApproval
<1>2. ASSUME NEW w \in Workers, NEW a \in Approvals, NEW v \in Verdicts, BeginDecision(w, a, v)
      PROVE  Typed'
  <2>1. [approval |-> a, call |-> NoCall, verdict |-> v, expires |-> now + GrantTtl] \in Requests
    BY DEF Requests
  <2>2. req' \in [Workers -> Requests]
    BY <1>2, <2>1 DEF BeginDecision
  <2> QED
    BY <1>2, <2>2 DEF BeginDecision
<1>3. ASSUME NEW w \in Workers, CommitDecision(w) PROVE Typed'
  <2>1. req[w].approval \in Approvals /\ req[w].verdict \in Verdicts
    BY DEF Requests
  <2>2. EndRequest(w)
    BY <1>3 DEF CommitDecision, Answer
  <2>3. record' \in [Approvals -> Records] /\ grant' \in [Approvals -> Grants]
    <3>1. \/ record' = record
          \/ record' = [record EXCEPT ![req[w].approval].status = req[w].verdict]
      BY <1>3 DEF CommitDecision
    <3>2. grant' = grant \/ grant' = [grant EXCEPT ![req[w].approval] = NewGrant(w)]
      BY <1>3 DEF CommitDecision
    <3>3. /\ [record EXCEPT ![req[w].approval].status = req[w].verdict]
                \in [Approvals -> Records]
          /\ [grant EXCEPT ![req[w].approval] = NewGrant(w)] \in [Approvals -> Grants]
          /\ [grant EXCEPT ![req[w].approval].state = "consumed"] \in [Approvals -> Grants]
      BY DecidedTyped
    <3> QED
      BY <3>1, <3>2, <3>3
  <2>4. told' \in [Approvals -> SUBSET Verdicts] /\ delivered' \subseteq Approvals
    BY <1>3, <2>1 DEF CommitDecision, Answer
  <2>5. \A v \in Workers : pc'[v] \in {"consuming", "authorized"} => req'[v].call \in Calls
    BY <2>2 DEF EndRequest
  <2> QED
    BY <1>3, <2>2, <2>3, <2>4, <2>5, EndTyped DEF CommitDecision, Answer
<1>4. ASSUME NEW w \in Workers, AppendGrant(w) PROVE Typed'
  BY <1>4, DecidedTyped DEF AppendGrant
<1>5. ASSUME NEW w \in Workers, AppendRecord(w) PROVE Typed'
  BY <1>5, DecidedTyped DEF AppendRecord
<1>6. ASSUME NEW w \in Workers, RememberDecision(w) PROVE Typed'
  <2>1. req[w].approval \in Approvals /\ req[w].verdict \in Verdicts
    BY DEF Requests
  <2>2. EndRequest(w)
    BY <1>6 DEF RememberDecision, Answer
  <2> DEFINE a == req[w].approval
             m == [record |-> record[a], grant |-> IF req[w].verdict = "approved"
                                                     THEN grant[a] ELSE memory[a].grant]
  <2>3. m \in [record : Records, grant : Grants]
    BY <2>1
  <2>4. memory' = [memory EXCEPT ![a] = m]
    BY <1>6 DEF RememberDecision
  <2>5. told' \in [Approvals -> SUBSET Verdicts] /\ delivered' \subseteq Approvals
    BY <1>6, <2>1 DEF RememberDecision, Answer
  <2> HIDE DEF m
  <2>6. memory' \in [Approvals -> [record : Records, grant : Grants]]
    BY <2>1, <2>3, <2>4
  <2>7. \A v \in Workers : pc'[v] \in {"consuming", "authorized"} => req'[v].call \in Calls
    BY <2>2 DEF EndRequest
  <2> QED
    BY <1>6, <2>2, <2>5, <2>6, <2>7, EndTyped DEF RememberDecision, Answer
<1>7. ASSUME NEW w \in Workers, NEW a \in Approvals, NEW c \in Calls, BeginConsume(w, a, c)
      PROVE  Typed'
  <2> DEFINE q == [Idle EXCEPT !.approval = a, !.call = c]
  <2>1. q \in Requests /\ q.call = c
    BY IdleTyped DEF Requests
  <2>2. req' = [req EXCEPT ![w] = q]
    BY <1>7 DEF BeginConsume
  <2> HIDE DEF q
  <2> QED
    BY <1>7, <2>1, <2>2 DEF BeginConsume
<1>8. ASSUME NEW w \in Workers, ConsumeGrant(w) PROVE Typed'
  <2>1. CASE Spendable(req[w].approval)
    BY <1>8, <2>1, SpendTyped DEF ConsumeGrant
  <2>2. CASE ~ Spendable(req[w].approval)
    BY <1>8, <2>2, EndTyped DEF ConsumeGrant, EndRequest
  <2> QED
    BY <2>1, <2>2
<1>9. ASSUME NEW w \in Workers, Authorize(w) PROVE Typed'
  <2> DEFINE e == [number |-> Cardinality(executed) + 1, approval |-> req[w].approval,
                   call |-> req[w].call, def |-> defs[w]]
  <2>1. Cardinality(executed) \in Nat
    BY FS_CardinalityType
  <2>2. req[w].call \in Calls
    BY <1>9 DEF Authorize
  <2>3. e \in Executions
    BY <2>1, <2>2 DEF Executions, Requests
  <2>4. executed' \in {executed, executed \cup {e}}
    BY <1>9 DEF Authorize
  <2> HIDE DEF e
  <2>5. executed' \subseteq Executions /\ IsFiniteSet(executed')
    BY <2>3, <2>4, FS_AddElement
  <2> QED
    BY <1>9, <2>5, EndTyped DEF Authorize, EndRequest
<1>10. ASSUME NEW w \in Workers, StoreError(w) PROVE Typed'
  <2>1. record' \in [Approvals -> Records] /\ grant' \in [Approvals -> Grants]
    <3>1. \/ record' = record
          \/ record' = [record EXCEPT ![req[w].approval].status = req[w].verdict]
      BY <1>10 DEF StoreError
    <3>2. \/ grant' = grant
          \/ grant' = [grant EXCEPT ![req[w].approval] = NewGrant(w)]
          \/ grant' = [grant EXCEPT ![req[w].approval].state = "consumed"]
      BY <1>10 DEF StoreError
    <3>3. /\ [record EXCEPT ![req[w].approval].status = req[w].verdict]
                \in [Approvals -> Records]
          /\ [grant EXCEPT ![req[w].approval] = NewGrant(w)] \in [Approvals -> Grants]
          /\ [grant EXCEPT ![req[w].approval].state = "consumed"] \in [Approvals -> Grants]
      BY DecidedTyped
    <3> QED
      BY <3>1, <3>2, <3>3
  <2>2. EndRequest(w) /\ SpendFault
    BY <1>10 DEF StoreError
  <2>3. \A v \in Workers : pc'[v] \in {"consuming", "authorized"} => req'[v].call \in Calls
    BY <2>2 DEF EndRequest
  <2>4. UNCHANGED <<backend, memory, config, defs, outcomeVars, now, restarts>>
    BY <1>10 DEF StoreError
  <2> QED
    BY <2>1, <2>2, <2>3, <2>4, EndTyped DEF SpendFault
<1>11. ASSUME NEW w \in Workers, NEW c \in Configs, NEW d \in Definitions, RestartWorker(w, c, d)
       PROVE  Typed'
  <2>1. memory' \in [Approvals -> [record : Records, grant : Grants]]
    BY <1>11 DEF RestartWorker
  <2>2. EndRequest(w)
    BY <1>11 DEF RestartWorker
  <2>3. \A v \in Workers : pc'[v] \in {"consuming", "authorized"} => req'[v].call \in Calls
    BY <2>2 DEF EndRequest
  <2> QED
    BY <1>11, <2>1, <2>2, <2>3, EndTyped DEF RestartWorker
<1>12. CASE Tick
  BY <1>12 DEF Tick
<1>13. CASE UNCHANGED vars
  BY <1>13 DEF vars
<1> QED
  BY <1>1, <1>2, <1>3, <1>4, <1>5, <1>6, <1>7, <1>8, <1>9, <1>10, <1>11, <1>12, <1>13 DEF Next

(* Every reachable state is well typed.                                       *)
THEOREM TypeCorrect == Spec => []TypeOK
<1>1. Typed => TypeOK
  BY DEF Typed
<1> QED
  BY <1>1, TypedInit, TypedStep, PTL DEF Spec

-----------------------------------------------------------------------------
(* The inductive invariant                                                  *)

(* The commitment key of a record outlives a grant issued under c.            *)
Covers(c, key, expires) == c.active = key \/ (c.previous = key /\ expires <= Deadline)

\* only the process of the file serves its requests, and only it appends
OneFileProcess ==
  /\ backend = "jsonl" => \A w \in Workers : w # Solo => pc[w] = "idle"
  /\ \A w \in Workers : pc[w] \in {"append_record", "remember"} => backend = "jsonl"

\* what a decision under way knows.  A transaction's guard is what protects the
\* record from another worker; the file has its lock.
DecisionsUnderWay ==
  \A w \in Workers :
    LET r == record[req[w].approval]
        g == grant[req[w].approval]
    IN /\ pc[w] = "deciding" =>
            /\ r.status # "none"
            /\ backend = "jsonl" => r.status = "pending"
            /\ req[w].verdict = "approved" => Covers(config[w], r.key, req[w].expires)
       /\ pc[w] = "append_record" =>
            /\ r.status = "pending"
            /\ req[w].verdict = "approved" =>
                 g.state = "live" /\ Covers(g.issuer, r.key, g.expires)
       /\ pc[w] = "remember" => r.status = req[w].verdict

\* a grant belongs to an approved record once it counts
GrantsBacked ==
  \A a \in Approvals :
    /\ record[a].status = "approved" =>
         /\ grant[a].state # "none"
         /\ grant[a].state = "live" => Covers(grant[a].issuer, record[a].key, grant[a].expires)
    /\ grant[a].state = "consumed" => record[a].status = "approved"

\* a consumer was checked against a record that cannot change any more
Consuming ==
  \A w \in Workers : pc[w] \in {"consuming", "authorized"} =>
    LET r == record[req[w].approval] IN
    /\ r.status = "approved" /\ r.call = req[w].call /\ r.def = defs[w]
    /\ pc[w] = "authorized" => grant[req[w].approval].state = "consumed"

\* a spent grant is held by one worker or was used once
Spent ==
  /\ \A v, w \in Workers :
       pc[v] = "authorized" /\ pc[w] = "authorized" /\ req[v].approval = req[w].approval => v = w
  /\ \A w \in Workers : pc[w] = "authorized" => \A e \in executed : e.approval # req[w].approval
  /\ \A e \in executed : grant[e.approval].state = "consumed"

IInv ==
  /\ Typed /\ OneFileProcess /\ RestartForgetsNothing /\ DecisionsUnderWay /\ GrantsBacked
  /\ Consuming /\ Spent /\ SpentOnce /\ ExecutedAsReviewed /\ AnswersStand

(* Initial states satisfy it.                                                 *)
LEMMA InvInit == ASSUME Init PROVE IInv
<1>1. Typed
  BY TypedInit
<1> QED
  BY <1>1 DEF Init, IInv, OneFileProcess, RestartForgetsNothing, DecisionsUnderWay, GrantsBacked,
       Consuming, Spent, SpentOnce, ExecutedAsReviewed, AnswersStand, NoGrant, NoRecord, Verdicts

-----------------------------------------------------------------------------
(* Every step keeps the invariant: one lemma per action                     *)

(* A new record disturbs nothing.                                             *)
LEMMA RequestInv ==
  ASSUME IInv, NEW w \in Workers, NEW a \in Approvals, NEW c \in Calls, RequestApproval(w, a, c),
         Typed'
  PROVE  IInv'
<1> USE DEF IInv, RequestApproval, workerVars, outcomeVars
<1>1. record[a].status = "none" /\ (\A b \in Approvals : b # a => record'[b] = record[b])
  BY DEF Typed, TypeOK
<1>2. record'[a].status = "pending"
  BY DEF Typed, TypeOK
<1>3. \A v \in Workers : req[v].approval \in Approvals
  BY DEF Typed, TypeOK, Requests
<1>4. \A v \in Workers : pc[v] # "idle" /\ v \in Serving => backend = "postgres" \/ v # w
  BY DEF Serving
<1>5. OneFileProcess' /\ Spent' /\ SpentOnce'
  BY DEF OneFileProcess, Spent, SpentOnce
<1>6. RestartForgetsNothing'
  BY <1>1, <1>2, ApprovalAssumption DEF RestartForgetsNothing, Typed, TypeOK
<1>7. DecisionsUnderWay'
  <2>1. \A v \in Workers : pc[v] \in {"deciding", "append_record"} => req[v].approval # a
    BY <1>1 DEF DecisionsUnderWay
  <2>2. \A v \in Workers : pc[v] = "remember" => req[v].approval # a
    BY <1>1, <1>3 DEF DecisionsUnderWay, Typed, TypeOK, Requests, Verdicts
  <2> QED
    BY <1>1, <1>3, <2>1, <2>2 DEF DecisionsUnderWay
<1>8. GrantsBacked'
  BY <1>1, <1>2 DEF GrantsBacked
<1>9. Consuming'
  BY <1>1, <1>3 DEF Consuming
<1>10. ExecutedAsReviewed'
  BY <1>1 DEF ExecutedAsReviewed, Typed, TypeOK, Executions
<1>11. AnswersStand'
  BY <1>1 DEF AnswersStand, Typed, TypeOK, Verdicts
<1> QED
  BY <1>5, <1>6, <1>7, <1>8, <1>9, <1>10, <1>11

(* A decision begins on a pending record under a key that covers its grant.   *)
LEMMA BeginDecisionInv ==
  ASSUME IInv, NEW w \in Workers, NEW a \in Approvals, NEW v \in Verdicts, BeginDecision(w, a, v),
         Typed'
  PROVE  IInv'
<1> USE DEF IInv, BeginDecision, storeVars, outcomeVars, boundVars
<1>1. record[a].status = "pending" /\ RecordSeen(a) = record[a]
  BY ApprovalAssumption DEF RestartForgetsNothing, RecordSeen, Serving
<1>2. v = "approved" => Covers(config[w], record[a].key, now + GrantTtl)
  BY <1>1 DEF Covers, Valid, CanVerify, FitsOverlap
<1>3. /\ pc'[w] = "deciding" /\ req'[w].approval = a /\ req'[w].verdict = v
      /\ req'[w].expires = now + GrantTtl
  BY DEF Typed, TypeOK
<1>4. \A u \in Workers : u # w => pc'[u] = pc[u] /\ req'[u] = req[u]
  BY DEF Typed, TypeOK
<1>5. OneFileProcess'
  BY <1>3, <1>4 DEF OneFileProcess, Serving
<1>6. RestartForgetsNothing'
  BY <1>3, <1>4, ApprovalAssumption DEF RestartForgetsNothing
<1>7. DecisionsUnderWay'
  BY <1>1, <1>2, <1>3, <1>4 DEF DecisionsUnderWay
<1>8. GrantsBacked' /\ Consuming' /\ Spent'
  BY <1>3, <1>4 DEF GrantsBacked, Consuming, Spent
<1>9. SpentOnce' /\ ExecutedAsReviewed' /\ AnswersStand'
  BY DEF SpentOnce, ExecutedAsReviewed, AnswersStand
<1> QED
  BY <1>5, <1>6, <1>7, <1>8, <1>9

(* What deciding a pending record, with its grant, leaves of the invariant;   *)
(* the worker that decides ends its request or loses its answer.              *)
LEMMA DecideInv ==
  ASSUME IInv, NEW w \in Workers, backend = "postgres", pc[w] = "deciding",
         record[req[w].approval].status = "pending",
         record' = [record EXCEPT ![req[w].approval].status = req[w].verdict],
         grant' = IF req[w].verdict = "approved"
                    THEN [grant EXCEPT ![req[w].approval] = NewGrant(w)] ELSE grant,
         EndRequest(w), UNCHANGED <<backend, config, defs, executed>>
  PROVE  /\ OneFileProcess' /\ RestartForgetsNothing' /\ DecisionsUnderWay' /\ GrantsBacked'
         /\ Consuming' /\ Spent' /\ SpentOnce' /\ ExecutedAsReviewed'
<1> DEFINE a == req[w].approval
<1> USE DEF IInv
<1>1. /\ a \in Approvals /\ req[w].verdict \in Verdicts
      /\ \A u \in Workers : req[u].approval \in Approvals
  BY DEF Typed, TypeOK, Requests
<1>2. /\ \A b \in Approvals : b # a => record'[b] = record[b] /\ grant'[b] = grant[b]
      /\ record'[a].status = req[w].verdict /\ record'[a].key = record[a].key
  BY <1>1 DEF Typed, TypeOK, Records
<1>3. /\ pc'[w] = "idle"
      /\ \A u \in Workers : u # w => pc'[u] = pc[u] /\ req'[u] = req[u]
  BY DEF EndRequest, Typed, TypeOK
<1>4. grant[a].state # "consumed"
  BY <1>1 DEF GrantsBacked
<1>5. req[w].verdict = "approved" =>
        grant'[a].state = "live" /\ Covers(grant'[a].issuer, record[a].key, grant'[a].expires)
  BY <1>1 DEF DecisionsUnderWay, NewGrant, Typed, TypeOK
<1>6. req[w].verdict # "approved" => grant' = grant
  OBVIOUS
<1>7. OneFileProcess' /\ RestartForgetsNothing'
  BY <1>3 DEF OneFileProcess, RestartForgetsNothing
<1>8. DecisionsUnderWay'
  BY <1>1, <1>2, <1>3 DEF DecisionsUnderWay, OneFileProcess, Verdicts
<1>9. GrantsBacked'
  BY <1>1, <1>2, <1>4, <1>5, <1>6 DEF GrantsBacked, Verdicts
<1>10. Consuming'
  <2>1. \A u \in Workers : pc[u] \in {"consuming", "authorized"} => req[u].approval # a
    BY DEF Consuming
  <2> QED
    BY <1>1, <1>2, <1>3, <2>1 DEF Consuming
<1>11. Spent' /\ SpentOnce'
  <2>1. \A e \in executed : grant'[e.approval].state = "consumed"
    <3>1. \A e \in executed : e.approval \in Approvals /\ e.approval # a
      BY <1>4 DEF Spent, Typed, TypeOK, Executions
    <3> QED
      BY <1>2, <3>1 DEF Spent
  <2>2. executed' = executed
    OBVIOUS
  <2> HIDE DEF a
  <2> QED
    BY <1>3, <2>1, <2>2 DEF Spent, SpentOnce
<1>12. ExecutedAsReviewed'
  BY <1>2 DEF ExecutedAsReviewed, Typed, TypeOK, Executions
<1> QED
  BY <1>7, <1>8, <1>9, <1>10, <1>11, <1>12

(* What the end of a request alone leaves of the invariant.                   *)
LEMMA EndInv ==
  ASSUME IInv, NEW w \in Workers, pc[w] # "remember", EndRequest(w),
         UNCHANGED <<backend, storeVars, config, defs, outcomeVars>>
  PROVE  /\ OneFileProcess' /\ RestartForgetsNothing' /\ DecisionsUnderWay' /\ GrantsBacked'
         /\ Consuming' /\ Spent' /\ SpentOnce' /\ ExecutedAsReviewed' /\ AnswersStand'
<1> USE DEF IInv, storeVars, outcomeVars
<1>1. /\ pc'[w] = "idle"
      /\ \A u \in Workers : u # w => pc'[u] = pc[u] /\ req'[u] = req[u]
  BY DEF EndRequest, Typed, TypeOK
<1>2. OneFileProcess' /\ DecisionsUnderWay' /\ GrantsBacked'
  BY <1>1 DEF OneFileProcess, DecisionsUnderWay, GrantsBacked
<1>3. RestartForgetsNothing'
  BY <1>1, ApprovalAssumption DEF RestartForgetsNothing
<1>4. Consuming' /\ Spent'
  BY <1>1 DEF Consuming, Spent
<1>5. SpentOnce' /\ ExecutedAsReviewed' /\ AnswersStand'
  BY DEF SpentOnce, ExecutedAsReviewed, AnswersStand
<1> QED
  BY <1>2, <1>3, <1>4, <1>5

(* The transaction of a decision: its guard, or a conflict.                   *)
LEMMA CommitDecisionInv ==
  ASSUME IInv, NEW w \in Workers, CommitDecision(w), Typed'
  PROVE  IInv'
<1> DEFINE a == req[w].approval
<1>1. CASE record[a].status = "pending"
  <2>1. /\ backend = "postgres" /\ pc[w] = "deciding"
        /\ record' = [record EXCEPT ![req[w].approval].status = req[w].verdict]
        /\ grant' = IF req[w].verdict = "approved"
                      THEN [grant EXCEPT ![req[w].approval] = NewGrant(w)] ELSE grant
        /\ EndRequest(w) /\ UNCHANGED <<backend, config, defs, executed>>
        /\ told' = [told EXCEPT ![a] = @ \cup {req[w].verdict}]
    BY <1>1 DEF CommitDecision, Answer
  <2>2. AnswersStand'
    BY <1>1, <2>1 DEF IInv, AnswersStand, Typed, TypeOK, Requests, Records, Verdicts
  <2> QED
    BY <1>1, <2>1, <2>2, DecideInv DEF IInv
<1>2. CASE record[a].status # "pending"
  BY <1>2, EndInv DEF CommitDecision, IInv, storeVars, outcomeVars
<1> QED
  BY <1>1, <1>2

(* The line of the grant goes to the file before that of the record.          *)
LEMMA AppendGrantInv ==
  ASSUME IInv, NEW w \in Workers, AppendGrant(w), Typed'
  PROVE  IInv'
<1> DEFINE a == req[w].approval
<1> USE DEF IInv, AppendGrant, outcomeVars, boundVars
<1>1. /\ a \in Approvals /\ req[w].verdict \in Verdicts
      /\ \A u \in Workers : req[u].approval \in Approvals
  BY DEF Typed, TypeOK, Requests
<1>2. record[a].status = "pending"
  BY DEF DecisionsUnderWay
<1>3. /\ \A b \in Approvals : b # a => grant'[b] = grant[b]
      /\ req[w].verdict # "approved" => grant' = grant
  BY <1>1 DEF Typed, TypeOK
<1>4. req[w].verdict = "approved" =>
        grant'[a].state = "live" /\ Covers(grant'[a].issuer, record[a].key, grant'[a].expires)
  BY <1>1 DEF DecisionsUnderWay, NewGrant, Typed, TypeOK
<1>5. grant[a].state # "consumed" /\ grant'[a].state # "consumed"
  BY <1>1, <1>2, <1>3, <1>4 DEF GrantsBacked
<1>6. /\ pc'[w] = "append_record"
      /\ \A u \in Workers : u # w => pc'[u] = pc[u] /\ pc[u] = "idle"
  BY ApprovalAssumption DEF OneFileProcess, Typed, TypeOK
<1>7. OneFileProcess'
  BY <1>6 DEF OneFileProcess
<1>8. RestartForgetsNothing'
  <2>1. w = Solo
    BY ApprovalAssumption DEF OneFileProcess
  <2> QED
    BY <1>3, <1>5, <1>6, <2>1 DEF RestartForgetsNothing
<1>9. DecisionsUnderWay'
  BY <1>2, <1>4, <1>6 DEF DecisionsUnderWay
<1>10. GrantsBacked'
  BY <1>2, <1>3, <1>5 DEF GrantsBacked
<1>11. Consuming' /\ SpentOnce' /\ ExecutedAsReviewed' /\ AnswersStand'
  BY <1>6 DEF Consuming, SpentOnce, ExecutedAsReviewed, AnswersStand
<1>12. Spent'
  <2>1. \A e \in executed : e.approval \in Approvals /\ e.approval # a
    BY <1>5 DEF Spent, Typed, TypeOK, Executions
  <2>2. \A e \in executed : grant'[e.approval].state = "consumed"
    BY <1>3, <2>1 DEF Spent
  <2> QED
    BY <1>6, <2>2 DEF Spent
<1> QED
  BY <1>7, <1>8, <1>9, <1>10, <1>11, <1>12

(* The line of the record makes the decision, whoever learns of it.           *)
LEMMA AppendRecordInv ==
  ASSUME IInv, NEW w \in Workers, AppendRecord(w), Typed'
  PROVE  IInv'
<1> DEFINE a == req[w].approval
<1> USE DEF IInv, AppendRecord, outcomeVars, boundVars
<1>1. /\ a \in Approvals /\ req[w].verdict \in Verdicts
  BY DEF Typed, TypeOK, Requests
<1>2. /\ record[a].status = "pending"
      /\ req[w].verdict = "approved" =>
           grant[a].state = "live" /\ Covers(grant[a].issuer, record[a].key, grant[a].expires)
  BY DEF DecisionsUnderWay
<1>3. /\ \A b \in Approvals : b # a => record'[b] = record[b]
      /\ record'[a].status = req[w].verdict /\ record'[a].key = record[a].key
  BY <1>1 DEF Typed, TypeOK, Records
<1>4. grant[a].state # "consumed"
  BY <1>1, <1>2 DEF GrantsBacked
<1>5. /\ w = Solo /\ backend = "jsonl" /\ pc'[w] = "remember"
      /\ \A u \in Workers : u # w => pc'[u] = pc[u] /\ pc[u] = "idle"
  BY ApprovalAssumption DEF OneFileProcess, Typed, TypeOK
<1>6. OneFileProcess'
  BY <1>5 DEF OneFileProcess
<1>7. RestartForgetsNothing'
  BY <1>3, <1>5 DEF RestartForgetsNothing
<1>8. DecisionsUnderWay'
  BY <1>3, <1>5 DEF DecisionsUnderWay
<1>9. GrantsBacked'
  BY <1>2, <1>3, <1>4 DEF GrantsBacked
<1>10. Consuming' /\ Spent' /\ SpentOnce'
  BY <1>5 DEF Consuming, Spent, SpentOnce
<1>11. ExecutedAsReviewed'
  BY <1>2, <1>3 DEF ExecutedAsReviewed, Typed, TypeOK, Executions, Verdicts
<1>12. AnswersStand'
  BY <1>2, <1>3 DEF AnswersStand, Typed, TypeOK, Verdicts
<1> QED
  BY <1>6, <1>7, <1>8, <1>9, <1>10, <1>11, <1>12

(* The answer repeats what the file says.                                     *)
LEMMA RememberInv ==
  ASSUME IInv, NEW w \in Workers, RememberDecision(w), Typed'
  PROVE  IInv'
<1> DEFINE a == req[w].approval
           m == [record |-> record[a], grant |-> IF req[w].verdict = "approved"
                                                   THEN grant[a] ELSE memory[a].grant]
<1> USE DEF IInv, boundVars
<1>1. /\ a \in Approvals /\ record[a].status = req[w].verdict
      /\ pc[w] = "remember"
      /\ UNCHANGED <<backend, record, grant, config, defs, executed>>
  BY DEF RememberDecision, Answer, DecisionsUnderWay, Typed, TypeOK, Requests
<1>2. /\ w = Solo /\ pc'[w] = "idle"
      /\ \A u \in Workers : u # w => pc'[u] = pc[u] /\ pc[u] = "idle"
  BY <1>1, ApprovalAssumption DEF RememberDecision, Answer, EndRequest, OneFileProcess, Typed, TypeOK
<1>3. memory' = [memory EXCEPT ![a] = m]
  BY DEF RememberDecision
<1>4. m.record = record[a] /\ (m.grant = grant[a] \/ m.grant = memory[a].grant)
  OBVIOUS
<1>5. told' = [told EXCEPT ![a] = @ \cup {req[w].verdict}]
  BY DEF RememberDecision, Answer
<1> HIDE DEF m
<1>6. RestartForgetsNothing'
  BY <1>1, <1>2, <1>3, <1>4 DEF RestartForgetsNothing, Typed, TypeOK
<1>7. OneFileProcess' /\ DecisionsUnderWay' /\ Consuming' /\ Spent'
  BY <1>1, <1>2 DEF OneFileProcess, DecisionsUnderWay, Consuming, Spent
<1>8. GrantsBacked' /\ SpentOnce' /\ ExecutedAsReviewed'
  BY <1>1 DEF GrantsBacked, SpentOnce, ExecutedAsReviewed
<1>9. AnswersStand'
  BY <1>1, <1>5 DEF AnswersStand, Typed, TypeOK
<1> QED
  BY <1>6, <1>7, <1>8, <1>9

(* A consumer starts from an approved record of exactly its call.             *)
LEMMA BeginConsumeInv ==
  ASSUME IInv, NEW w \in Workers, NEW a \in Approvals, NEW c \in Calls, BeginConsume(w, a, c),
         Typed'
  PROVE  IInv'
<1> USE DEF IInv, BeginConsume, storeVars, outcomeVars, boundVars
<1>1. RecordSeen(a) = record[a]
  BY ApprovalAssumption DEF RestartForgetsNothing, RecordSeen, Serving
<1>2. /\ record[a].status = "approved" /\ record[a].call = c /\ record[a].def = defs[w]
  BY <1>1 DEF Matches, Valid
<1>3. req'[w].approval = a /\ req'[w].call = c /\ pc'[w] = "consuming"
  BY IdleTyped DEF Typed, TypeOK, Requests
<1>4. \A u \in Workers : u # w => pc'[u] = pc[u] /\ req'[u] = req[u]
  BY DEF Typed, TypeOK
<1>5. OneFileProcess'
  BY <1>3, <1>4 DEF OneFileProcess, Serving
<1>6. RestartForgetsNothing' /\ DecisionsUnderWay'
  BY <1>3, <1>4, ApprovalAssumption DEF RestartForgetsNothing, DecisionsUnderWay
<1>7. Consuming' /\ Spent'
  BY <1>2, <1>3, <1>4 DEF Consuming, Spent
<1>8. GrantsBacked' /\ SpentOnce' /\ ExecutedAsReviewed' /\ AnswersStand'
  BY DEF GrantsBacked, SpentOnce, ExecutedAsReviewed, AnswersStand
<1> QED
  BY <1>5, <1>6, <1>7, <1>8

(* What spending a live grant of an approved record leaves of the invariant,  *)
(* whether its spender learns of it or not.                                   *)
LEMMA SpendInv ==
  ASSUME IInv, NEW w \in Workers, pc[w] = "consuming", Spendable(req[w].approval),
         grant' = [grant EXCEPT ![req[w].approval].state = "consumed"],
         UNCHANGED <<backend, record, config, defs, executed, told>>
  PROVE  /\ GrantsBacked' /\ SpentOnce' /\ ExecutedAsReviewed' /\ AnswersStand'
         /\ \A b \in Approvals : b # req[w].approval => grant'[b] = grant[b]
         /\ grant[req[w].approval].state # "consumed"
         /\ grant'[req[w].approval].state = "consumed"
         /\ \A b \in Approvals : grant[b].state = "consumed" => grant'[b].state = "consumed"
<1> DEFINE a == req[w].approval
<1> USE DEF IInv
<1>1. a \in Approvals /\ record[a].status = "approved"
  BY DEF Consuming, Typed, TypeOK, Requests
<1>2. grant[a].state # "consumed"
  BY <1>1 DEF Spendable, GrantSeen, RestartForgetsNothing
<1>3. /\ \A b \in Approvals : b # a => grant'[b] = grant[b]
      /\ grant'[a].state = "consumed"
  BY <1>1 DEF Typed, TypeOK, Grants
<1> HIDE DEF a
<1>4. GrantsBacked'
  BY <1>1, <1>3 DEF GrantsBacked
<1>5. SpentOnce' /\ ExecutedAsReviewed' /\ AnswersStand'
  BY DEF SpentOnce, ExecutedAsReviewed, AnswersStand
<1>6. \A b \in Approvals : grant[b].state = "consumed" => grant'[b].state = "consumed"
  BY <1>3
<1> QED
  BY <1>2, <1>3, <1>4, <1>5, <1>6 DEF a

(* Of all who hold a token one spends the grant.                              *)
LEMMA ConsumeGrantInv ==
  ASSUME IInv, NEW w \in Workers, ConsumeGrant(w), Typed'
  PROVE  IInv'
<1> DEFINE a == req[w].approval
<1>1. CASE Spendable(a)
  <2> USE DEF IInv
  <2>1. /\ pc[w] = "consuming" /\ a \in Approvals
        /\ grant' = [grant EXCEPT ![req[w].approval].state = "consumed"]
        /\ UNCHANGED <<backend, record, config, defs, executed, told, req>>
    BY <1>1 DEF ConsumeGrant, Spend, outcomeVars, Typed, TypeOK, Requests
  <2>2. /\ GrantsBacked' /\ SpentOnce' /\ ExecutedAsReviewed' /\ AnswersStand'
        /\ \A b \in Approvals : b # a => grant'[b] = grant[b]
        /\ grant[a].state # "consumed" /\ grant'[a].state = "consumed"
        /\ \A b \in Approvals : grant[b].state = "consumed" => grant'[b].state = "consumed"
    BY <1>1, <2>1, SpendInv
  <2>3. /\ pc'[w] = "authorized"
        /\ \A u \in Workers : u # w => pc'[u] = pc[u]
        /\ \A u \in Workers : req[u].approval \in Approvals
        /\ \A e \in executed : e.approval \in Approvals
    BY <1>1 DEF ConsumeGrant, Typed, TypeOK, Requests, Executions
  <2>4. /\ backend = "jsonl" => memory' = [memory EXCEPT ![a].grant = grant'[a]]
        /\ backend = "jsonl" => w = Solo
    BY <1>1, <2>1 DEF ConsumeGrant, Spend, OneFileProcess
  <2>5. OneFileProcess'
    BY <2>1, <2>3 DEF OneFileProcess
  <2>6. RestartForgetsNothing'
    <3>1. \A b \in Approvals : backend = "jsonl" =>
            /\ memory'[b].record = memory[b].record
            /\ b # a => memory'[b].grant = memory[b].grant
            /\ memory'[a].grant = grant'[a]
      BY <2>1, <2>4 DEF Typed, TypeOK
    <3>2. backend = "jsonl" => \A b \in Approvals : memory[b].record = record[b]
      BY <2>1, <2>4 DEF RestartForgetsNothing
    <3>3. backend = "jsonl" => \A b \in Approvals :
            memory[b].grant.state = "consumed" <=> grant[b].state = "consumed"
      BY DEF RestartForgetsNothing
    <3> HIDE DEF a, IInv
    <3>4. backend = "jsonl" => \A b \in Approvals :
            memory'[b].grant.state = "consumed" <=> grant'[b].state = "consumed"
      <4>1. ASSUME backend = "jsonl", NEW b \in Approvals
            PROVE  memory'[b].grant.state = "consumed" <=> grant'[b].state = "consumed"
        BY <2>2, <3>1, <3>3, <4>1
      <4> QED
        BY <4>1
    <3> QED
      BY <2>1, <3>1, <3>2, <3>4 DEF RestartForgetsNothing
  <2>7. DecisionsUnderWay'
    <3>1. \A u \in Workers : pc[u] = "append_record" => req[u].approval # a
      BY <2>1 DEF DecisionsUnderWay, Consuming
    <3> QED
      BY <2>1, <2>2, <2>3, <3>1 DEF DecisionsUnderWay
  <2>8. Consuming'
    BY <2>1, <2>2, <2>3 DEF Consuming
  <2>9. Spent'
    <3>1. \A u \in Workers : pc[u] = "authorized" => req[u].approval # a
      BY <2>2 DEF Consuming
    <3>2. \A e \in executed : e.approval # a
      BY <2>2 DEF Spent
    <3> QED
      BY <2>1, <2>2, <2>3, <3>1, <3>2 DEF Spent
  <2> QED
    BY <2>2, <2>5, <2>6, <2>7, <2>8, <2>9
<1>2. CASE ~ Spendable(a)
  BY <1>2, EndInv DEF ConsumeGrant, IInv, storeVars, outcomeVars
<1> QED
  BY <1>1, <1>2

(* The holder of a spent grant is let through at most once.                   *)
LEMMA AuthorizeInv ==
  ASSUME IInv, NEW w \in Workers, Authorize(w), Typed'
  PROVE  IInv'
<1> DEFINE a == req[w].approval
           e == [number |-> Cardinality(executed) + 1, approval |-> a,
                 call |-> req[w].call, def |-> defs[w]]
<1> USE DEF IInv, storeVars, boundVars
<1>1. /\ pc[w] = "authorized" /\ a \in Approvals
      /\ executed' \in {executed, executed \cup {e}} /\ EndRequest(w)
      /\ UNCHANGED <<backend, record, grant, memory, config, defs, delivered, told>>
  BY DEF Authorize, Typed, TypeOK, Requests
<1>2. /\ e.approval = a
      /\ record[a].status = "approved" /\ record[a].call = e.call /\ record[a].def = e.def
      /\ grant[a].state = "consumed"
  BY <1>1 DEF Consuming
<1>3. \A f \in executed : f.approval # a
  BY <1>1 DEF Spent
<1> HIDE DEF e, a
<1>4. /\ pc'[w] = "idle"
      /\ \A u \in Workers : u # w => pc'[u] = pc[u] /\ req'[u] = req[u]
  BY <1>1 DEF EndRequest, Typed, TypeOK
<1>5. OneFileProcess' /\ DecisionsUnderWay' /\ GrantsBacked' /\ Consuming' /\ AnswersStand'
  BY <1>1, <1>4 DEF OneFileProcess, DecisionsUnderWay, GrantsBacked, Consuming, AnswersStand
<1>6. RestartForgetsNothing'
  BY <1>1, <1>4, ApprovalAssumption DEF RestartForgetsNothing
<1>7. SpentOnce' /\ ExecutedAsReviewed'
  BY <1>1, <1>2, <1>3 DEF SpentOnce, ExecutedAsReviewed
<1>8. Spent'
  <2>1. \A u \in Workers : u # w /\ pc[u] = "authorized" => req[u].approval # a
    BY <1>1 DEF Spent, a
  <2> QED
    BY <1>1, <1>2, <1>4, <2>1 DEF Spent
<1> QED
  BY <1>5, <1>6, <1>7, <1>8

(* A store error, whatever it did before it was raised.                       *)
LEMMA StoreErrorInv ==
  ASSUME IInv, NEW w \in Workers, StoreError(w), Typed'
  PROVE  IInv'
<1> USE DEF outcomeVars
<1>1. /\ EndRequest(w) /\ pc[w] # "remember"
      /\ UNCHANGED <<backend, memory, config, defs, delivered, told, executed>>
  BY DEF StoreError
<1>2. CASE UNCHANGED <<record, grant>>
  BY <1>1, <1>2, EndInv DEF IInv, storeVars
<1>3. CASE /\ backend = "postgres" /\ pc[w] = "deciding"
           /\ record[req[w].approval].status = "pending"
           /\ record' = [record EXCEPT ![req[w].approval].status = req[w].verdict]
           /\ grant' = IF req[w].verdict = "approved"
                         THEN [grant EXCEPT ![req[w].approval] = NewGrant(w)] ELSE grant
  <2>1. AnswersStand'
    BY <1>1, <1>3 DEF IInv, AnswersStand, Typed, TypeOK, Requests, Verdicts
  <2> QED
    BY <1>1, <1>3, <2>1, DecideInv DEF IInv
<1>4. CASE /\ backend = "postgres" /\ pc[w] = "consuming" /\ Spendable(req[w].approval)
           /\ grant' = [grant EXCEPT ![req[w].approval].state = "consumed"]
           /\ UNCHANGED record
  <2> DEFINE a == req[w].approval
  <2> USE DEF IInv
  <2>1. /\ GrantsBacked' /\ SpentOnce' /\ ExecutedAsReviewed' /\ AnswersStand'
        /\ \A b \in Approvals : b # a => grant'[b] = grant[b]
        /\ grant[a].state # "consumed"
        /\ \A b \in Approvals : grant[b].state = "consumed" => grant'[b].state = "consumed"
    BY <1>1, <1>4, SpendInv
  <2>2. /\ pc'[w] = "idle"
        /\ \A u \in Workers : u # w => pc'[u] = pc[u] /\ req'[u] = req[u]
        /\ \A u \in Workers : req[u].approval \in Approvals
        /\ \A e \in executed : e.approval \in Approvals
    BY <1>1 DEF EndRequest, Typed, TypeOK, Requests, Executions
  <2>3. OneFileProcess' /\ RestartForgetsNothing' /\ Consuming' /\ Spent'
    BY <1>1, <1>4, <2>1, <2>2 DEF OneFileProcess, RestartForgetsNothing, Consuming, Spent
  <2>4. DecisionsUnderWay'
    BY <1>1, <1>4, <2>2 DEF DecisionsUnderWay, OneFileProcess
  <2> QED
    BY <2>1, <2>3, <2>4
<1> QED
  BY <1>2, <1>3, <1>4 DEF StoreError

(* A process comes back with what is stored, and with another configuration.  *)
LEMMA RestartInv ==
  ASSUME IInv, NEW w \in Workers, NEW c \in Configs, NEW d \in Definitions,
         RestartWorker(w, c, d), Typed'
  PROVE  IInv'
<1> USE DEF IInv, RestartWorker, outcomeVars
<1>1. /\ pc'[w] = "idle"
      /\ \A u \in Workers : u # w =>
           pc'[u] = pc[u] /\ req'[u] = req[u] /\ config'[u] = config[u] /\ defs'[u] = defs[u]
  BY DEF EndRequest, Typed, TypeOK
<1>2. RestartForgetsNothing'
  BY DEF RestartForgetsNothing
<1>3. OneFileProcess' /\ DecisionsUnderWay' /\ GrantsBacked'
  BY <1>1 DEF OneFileProcess, DecisionsUnderWay, GrantsBacked
<1>4. Consuming' /\ Spent'
  BY <1>1 DEF Consuming, Spent
<1>5. SpentOnce' /\ ExecutedAsReviewed' /\ AnswersStand'
  BY DEF SpentOnce, ExecutedAsReviewed, AnswersStand
<1> QED
  BY <1>2, <1>3, <1>4, <1>5

(* Every step keeps the invariant.                                            *)
LEMMA InvStep == ASSUME IInv, [Next]_vars PROVE IInv'
<1>1. Typed'
  BY TypedStep DEF IInv
<1>2. CASE Next
  <2>1. CASE Tick
    BY <1>1, <2>1 DEF Tick, IInv, storeVars, workerVars, outcomeVars, OneFileProcess,
         RestartForgetsNothing, DecisionsUnderWay, GrantsBacked, Consuming, Spent, SpentOnce,
         ExecutedAsReviewed, AnswersStand
  <2>2. CASE ~ Tick
    BY <1>1, <1>2, <2>2, RequestInv, BeginDecisionInv, CommitDecisionInv, AppendGrantInv,
       AppendRecordInv, RememberInv, BeginConsumeInv, ConsumeGrantInv, AuthorizeInv, StoreErrorInv,
       RestartInv DEF Next
  <2> QED
    BY <2>1, <2>2
<1>3. CASE UNCHANGED vars
  BY <1>1, <1>3 DEF vars, IInv, storeVars, workerVars, outcomeVars, OneFileProcess,
       RestartForgetsNothing, DecisionsUnderWay, GrantsBacked, Consuming, Spent, SpentOnce,
       ExecutedAsReviewed, AnswersStand
<1> QED
  BY <1>2, <1>3

(* The inductive invariant holds in every reachable state.                    *)
THEOREM Invariance == Spec => []IInv
  BY InvInit, InvStep, PTL DEF Spec

-----------------------------------------------------------------------------
(* The properties                                                           *)

(* One approval lets at most one tool call through.                           *)
THEOREM SpentOnceHolds == Spec => []SpentOnce
<1>1. IInv => SpentOnce
  BY DEF IInv
<1> QED
  BY <1>1, Invariance, PTL

(* What is let through is the call a human approved.                          *)
THEOREM ReviewedCallsOnly == Spec => []ExecutedAsReviewed
<1>1. IInv => ExecutedAsReviewed
  BY DEF IInv
<1> QED
  BY <1>1, Invariance, PTL

(* What reviewers were told is what the store holds.                          *)
THEOREM AnswersAreKept == Spec => []AnswersStand
<1>1. IInv => AnswersStand
  BY DEF IInv
<1> QED
  BY <1>1, Invariance, PTL

(* An approval is never stored without its grant.                             *)
THEOREM ApprovedRecordsHaveGrants == Spec => []ApprovedHasGrant
<1>1. IInv => ApprovedHasGrant
  BY DEF IInv, GrantsBacked, ApprovedHasGrant
<1> QED
  BY <1>1, Invariance, PTL

(* A live grant can be checked by a worker of the configuration behind it.    *)
THEOREM LiveGrantsVerify == Spec => []GrantsOutliveNoKey
<1>1. IInv => GrantsOutliveNoKey
  BY ApprovalAssumption DEF IInv, GrantsBacked, Covers, GrantsOutliveNoKey, CanVerify, Typed, TypeOK,
       Grants
<1> QED
  BY <1>1, Invariance, PTL

(* A restart of the file's process loses no decision and no spent grant.      *)
THEOREM RestartsForgetNothing == Spec => []RestartForgetsNothing
<1>1. IInv => RestartForgetsNothing
  BY DEF IInv
<1> QED
  BY <1>1, Invariance, PTL

(* A step never changes a record that was decided.                            *)
THEOREM DecisionsAreFinal == Spec => DecisionStands
<1>1. ASSUME IInv, [Next]_vars, NEW a \in Approvals, record[a].status \in Verdicts
      PROVE  record'[a] = record[a]
  <2> USE DEF IInv, storeVars, workerVars, outcomeVars, boundVars
  <2>1. record[a].status \notin {"none", "pending"}
    BY <1>1 DEF Verdicts
  <2>2. \A w \in Workers : req[w].approval \in Approvals
    BY <1>1 DEF Typed, TypeOK, Requests
  <2>3. record \in [Approvals -> Records]
    BY <1>1 DEF Typed, TypeOK
  <2>4. ASSUME NEW w \in Workers, NEW b \in Approvals, NEW c \in Calls, RequestApproval(w, b, c)
        PROVE  record'[a] = record[a]
    BY <2>1, <2>3, <2>4 DEF RequestApproval
  <2>5. ASSUME NEW w \in Workers, CommitDecision(w) \/ AppendRecord(w) \/ StoreError(w)
        PROVE  record'[a] = record[a]
    <3>1. pc[w] = "append_record" => req[w].approval # a
      BY <1>1, <2>1 DEF DecisionsUnderWay
    <3>2. CASE record' = record
      BY <3>2
    <3>3. CASE /\ record' = [record EXCEPT ![req[w].approval].status = req[w].verdict]
               /\ req[w].approval # a
      BY <2>2, <2>3, <3>3
    <3> QED
      BY <2>1, <2>5, <3>1, <3>2, <3>3 DEF CommitDecision, AppendRecord, StoreError
  <2>6. ASSUME NEW w \in Workers, NEW b \in Approvals, NEW c \in Calls, BeginConsume(w, b, c)
        PROVE  record'[a] = record[a]
    BY <2>6 DEF BeginConsume
  <2>10. ASSUME NEW w \in Workers, NEW b \in Approvals, NEW v \in Verdicts, BeginDecision(w, b, v)
         PROVE  record'[a] = record[a]
    BY <2>10 DEF BeginDecision
  <2>7. ASSUME NEW w \in Workers,
               AppendGrant(w) \/ RememberDecision(w) \/ ConsumeGrant(w) \/ Authorize(w)
        PROVE  record'[a] = record[a]
    BY <2>7 DEF AppendGrant, RememberDecision, ConsumeGrant, Authorize
  <2>8. ASSUME NEW w \in Workers, NEW c \in Configs, NEW d \in Definitions, RestartWorker(w, c, d)
        PROVE  record'[a] = record[a]
    BY <2>8 DEF RestartWorker
  <2>9. CASE Tick \/ UNCHANGED vars
    BY <2>9 DEF Tick, vars
  <2> QED
    BY <1>1, <2>4, <2>5, <2>6, <2>7, <2>8, <2>9, <2>10 DEF Next
<1>2. IInv /\ [Next]_vars =>
        [\A a \in Approvals : record[a].status \in Verdicts => record'[a] = record[a]]_vars
  BY <1>1
<1> QED
  BY <1>2, Invariance, PTL DEF Spec, DecisionStands

-----------------------------------------------------------------------------
(* The life cycle of an approval                                            *)

(* Nothing was let through: every approval starts unasked.                    *)
LEMMA LifecycleInitial == ASSUME Init PROVE Lifecycle!ApprovalInit
<1>1. \A a \in Approvals : RunsOf(a) = {} /\ Cardinality(RunsOf(a)) = 0
  BY FS_EmptySet DEF Init, RunsOf
<1>2. \A a \in Approvals : {FactsOf(e) : e \in RunsOf(a)} = {}
  BY <1>1
<1>3. \A a \in Approvals : record[a] = NoRecord /\ grant[a].state = "none"
  BY DEF Init, NoGrant
<1>4. NoRecord.status = "none"
  BY DEF NoRecord
<1> QED
  BY <1>1, <1>2, <1>3, <1>4 DEF Lifecycle!ApprovalInit

(* What was let through, in the terms of the life cycle, stays with it.       *)
LEMMA SameRuns ==
  ASSUME UNCHANGED executed
  PROVE  /\ UNCHANGED [a \in Approvals |-> Cardinality(RunsOf(a))]
         /\ UNCHANGED [a \in Approvals |-> {FactsOf(e) : e \in RunsOf(a)}]
  BY DEF RunsOf

(* A step that leaves records, states of grants and executions is a stutter.  *)
LEMMA NothingMoves ==
  ASSUME UNCHANGED <<record, executed>>,
         \A a \in Approvals : grant'[a].state = grant[a].state
  PROVE  UNCHANGED Lifecycle!approvalVars
  BY SameRuns DEF Lifecycle!approvalVars

(* A decision on a pending record, with its grant before it or with it, is    *)
(* one decision of the life cycle.                                            *)
LEMMA DecidingDecides ==
  ASSUME Typed, NEW a \in Approvals, NEW v \in Verdicts, UNCHANGED executed,
         record[a].status = "pending", record' = [record EXCEPT ![a].status = v],
         \A b \in Approvals :
           grant'[b].state = IF b = a /\ v = "approved" THEN "live" ELSE grant[b].state
  PROVE  Lifecycle!ApprovalNext
<1> DEFINE answers == [b \in Approvals |-> record[b].status]
           asked == [b \in Approvals |-> FactsOf(record[b])]
           states == [b \in Approvals |-> grant[b].state]
<1>1. record \in [Approvals -> Records]
  BY DEF Typed, TypeOK
<1>2. /\ \A b \in Approvals : record'[b].status = IF b = a THEN v ELSE record[b].status
      /\ \A b \in Approvals : record'[b].call = record[b].call /\ record'[b].def = record[b].def
  BY <1>1 DEF Records
<1>3. answers' = [answers EXCEPT ![a] = v] /\ UNCHANGED asked
  BY <1>2 DEF FactsOf
<1>4. answers[a] = "pending"
  OBVIOUS
<1>5. CASE v = "approved"
  <2>1. states' = [states EXCEPT ![a] = "live"]
    BY <1>5
  <2>2. Lifecycle!Approve(a)
    BY <2>1, <1>3, <1>4, <1>5, SameRuns DEF Lifecycle!Approve
  <2> QED
    BY <2>2 DEF Lifecycle!ApprovalNext
<1>6. CASE v = "rejected"
  <2>1. states' = states
    BY <1>6
  <2>2. Lifecycle!Reject(a)
    BY <2>1, <1>3, <1>4, <1>6, SameRuns DEF Lifecycle!Reject
  <2> QED
    BY <2>2 DEF Lifecycle!ApprovalNext
<1> QED
  BY <1>5, <1>6 DEF Verdicts

(* A grant that is spent behind an approved record is a spent capability.     *)
LEMMA SpendingSpends ==
  ASSUME Typed, NEW a \in Approvals, UNCHANGED <<record, executed>>,
         record[a].status = "approved", grant[a].state = "live",
         grant' = [grant EXCEPT ![a].state = "consumed"]
  PROVE  Lifecycle!ApprovalNext
<1> DEFINE states == [b \in Approvals |-> grant[b].state]
<1>1. \A b \in Approvals : grant'[b].state = IF b = a THEN "consumed" ELSE grant[b].state
  BY DEF Typed, TypeOK, Grants
<1>2. states' = [states EXCEPT ![a] = "consumed"] /\ states[a] = "live"
  BY <1>1
<1>3. Lifecycle!SpendCapability(a)
  BY <1>2, SameRuns DEF Lifecycle!SpendCapability
<1> QED
  BY <1>3 DEF Lifecycle!ApprovalNext

(* A request asks, under the definition its worker has.                       *)
LEMMA RequestingAsks ==
  ASSUME Typed, NEW w \in Workers, NEW a \in Approvals, NEW c \in Calls, RequestApproval(w, a, c)
  PROVE  Lifecycle!ApprovalNext
<1> DEFINE answers == [b \in Approvals |-> record[b].status]
           asked == [b \in Approvals |-> FactsOf(record[b])]
<1>1. PICK r : r = [status |-> "pending", call |-> c, def |-> defs[w], key |-> config[w].active]
  OBVIOUS
<1>2. PICK f \in [call : Calls, def : Definitions] : f = FactsOf(r)
  BY <1>1 DEF FactsOf, Typed, TypeOK
<1>3. /\ record[a].status = "none" /\ UNCHANGED <<grant, executed>>
      /\ record' = [record EXCEPT ![a] = r]
  BY <1>1 DEF RequestApproval, outcomeVars
<1>4. record'[a] = r /\ (\A b \in Approvals : b # a => record'[b] = record[b])
  BY <1>3 DEF Typed, TypeOK
<1>5. r.status = "pending"
  BY <1>1
<1>6. answers' = [answers EXCEPT ![a] = "pending"] /\ answers[a] = "none"
  <2>1. \A b \in Approvals : record'[b].status = IF b = a THEN "pending" ELSE record[b].status
    BY <1>4, <1>5
  <2> QED
    BY <1>3, <2>1
<1>7. asked' = [asked EXCEPT ![a] = f]
  BY <1>2, <1>4 DEF FactsOf
<1>8. UNCHANGED [b \in Approvals |-> grant[b].state]
  BY <1>3
<1>9. Lifecycle!Ask(a, f)
  BY <1>3, <1>6, <1>7, <1>8, SameRuns DEF Lifecycle!Ask
<1> QED
  BY <1>9 DEF Lifecycle!ApprovalNext

(* The line of a grant is issued before the decision is, or replaces a line   *)
(* that a decision left which was never made.                                 *)
LEMMA AppendingIssues ==
  ASSUME IInv, NEW w \in Workers, AppendGrant(w)
  PROVE  [Lifecycle!ApprovalNext]_(Lifecycle!approvalVars)
<1>1. PICK a \in Approvals : a = req[w].approval
  BY DEF IInv, Typed, TypeOK, Requests
<1>2. /\ record[a].status = "pending" /\ UNCHANGED <<record, executed>>
      /\ grant' = IF req[w].verdict = "approved" THEN [grant EXCEPT ![a] = NewGrant(w)] ELSE grant
  BY <1>1 DEF AppendGrant, IInv, DecisionsUnderWay, outcomeVars
<1>3. /\ \A b \in Approvals : b # a => grant'[b] = grant[b]
      /\ req[w].verdict = "approved" => grant'[a].state = "live"
      /\ grant[a].state \in {"none", "live"}
  BY <1>2 DEF IInv, Typed, TypeOK, Grants, NewGrant, GrantsBacked
<1>4. CASE req[w].verdict = "approved" /\ grant[a].state = "none"
  <2> DEFINE states == [b \in Approvals |-> grant[b].state]
  <2>1. states' = [states EXCEPT ![a] = "live"] /\ states[a] = "none"
    BY <1>3, <1>4
  <2>2. Lifecycle!Issue(a)
    BY <1>2, <2>1, SameRuns DEF Lifecycle!Issue
  <2> QED
    BY <2>2 DEF Lifecycle!ApprovalNext
<1>5. CASE ~ (req[w].verdict = "approved" /\ grant[a].state = "none")
  <2>1. \A b \in Approvals : grant'[b].state = grant[b].state
    BY <1>2, <1>3, <1>5
  <2> QED
    BY <1>2, <2>1, NothingMoves
<1> QED
  BY <1>4, <1>5

(* Who is let through is the first, and executes what was reviewed.           *)
LEMMA AuthorizingExecutes ==
  ASSUME IInv, NEW w \in Workers, Authorize(w)
  PROVE  [Lifecycle!ApprovalNext]_(Lifecycle!approvalVars)
<1>1. PICK a \in Approvals : a = req[w].approval
  BY DEF IInv, Typed, TypeOK, Requests
<1>2. PICK e : e = [number |-> Cardinality(executed) + 1, approval |-> a,
                    call |-> req[w].call, def |-> defs[w]]
  OBVIOUS
<1>3. /\ pc[w] = "authorized" /\ executed' \in {executed, executed \cup {e}}
      /\ UNCHANGED <<record, grant>>
  BY <1>1, <1>2 DEF Authorize, storeVars
<1>4. CASE executed' = executed
  BY <1>3, <1>4, NothingMoves
<1>5. CASE executed' = executed \cup {e}
  <2> DEFINE counts == [b \in Approvals |-> Cardinality(RunsOf(b))]
             facts == [b \in Approvals |-> {FactsOf(x) : x \in RunsOf(b)}]
  <2>1. e.approval = a /\ FactsOf(e) = FactsOf(record[a]) /\ grant[a].state = "consumed"
    BY <1>1, <1>2, <1>3 DEF IInv, Consuming, FactsOf
  <2>2. RunsOf(a) = {}
    BY <1>1, <1>3 DEF RunsOf, IInv, Spent
  <2>3. RunsOf(a)' = {e} /\ (\A b \in Approvals : b # a => RunsOf(b)' = RunsOf(b))
    <3>1. RunsOf(a)' = {e}
      BY <1>5, <2>1, <2>2 DEF RunsOf
    <3>2. \A b \in Approvals : b # a => RunsOf(b)' = RunsOf(b)
      BY <1>5, <2>1 DEF RunsOf
    <3> QED
      BY <3>1, <3>2
  <2>4. counts' = [counts EXCEPT ![a] = 1] /\ counts[a] = 0
    <3>1. Cardinality({e}) = 1 /\ Cardinality({}) = 0
      BY FS_Singleton, FS_EmptySet
    <3> QED
      BY <2>2, <2>3, <3>1
  <2>5. facts' = [facts EXCEPT ![a] = {FactsOf(record[a])}]
    <3>1. {FactsOf(x) : x \in {e}} = {FactsOf(record[a])}
      BY <2>1
    <3> QED
      BY <2>3, <3>1
  <2>6. Lifecycle!Execute(a)
    BY <1>3, <2>1, <2>4, <2>5 DEF Lifecycle!Execute
  <2> QED
    BY <2>6 DEF Lifecycle!ApprovalNext
<1> QED
  BY <1>3, <1>4, <1>5

(* A step of the approval queue is a step of the life cycle, or a stutter.    *)
LEMMA LifecycleStep ==
  ASSUME IInv, [Next]_vars
  PROVE  [Lifecycle!ApprovalNext]_(Lifecycle!approvalVars)
<1> USE DEF storeVars, workerVars, outcomeVars, boundVars
<1>1. Typed /\ (\A w \in Workers : req[w].approval \in Approvals /\ req[w].verdict \in Verdicts)
  BY DEF IInv, Typed, TypeOK, Requests
<1>2. ASSUME NEW w \in Workers, NEW a \in Approvals, record[a].status = "pending",
             NEW v \in Verdicts, record' = [record EXCEPT ![a].status = v],
             grant' = (IF v = "approved" THEN [grant EXCEPT ![a] = NewGrant(w)] ELSE grant),
             UNCHANGED executed
      PROVE  Lifecycle!ApprovalNext
  <2>1. \A b \in Approvals :
          grant'[b].state = IF b = a /\ v = "approved" THEN "live" ELSE grant[b].state
    BY <1>1, <1>2 DEF Typed, TypeOK, Grants, NewGrant
  <2> QED
    BY <1>1, <1>2, <2>1, DecidingDecides
<1>3. ASSUME NEW w \in Workers, CommitDecision(w)
      PROVE  [Lifecycle!ApprovalNext]_(Lifecycle!approvalVars)
  <2>1. CASE record[req[w].approval].status = "pending"
    BY <1>1, <1>2, <1>3, <2>1 DEF CommitDecision, Answer
  <2>2. CASE record[req[w].approval].status # "pending"
    BY <1>3, <2>2, NothingMoves DEF CommitDecision
  <2> QED
    BY <2>1, <2>2
<1>4. ASSUME NEW w \in Workers, AppendRecord(w)
      PROVE  [Lifecycle!ApprovalNext]_(Lifecycle!approvalVars)
  <2>1. PICK a \in Approvals, v \in Verdicts : a = req[w].approval /\ v = req[w].verdict
    BY <1>1
  <2>2. /\ record[a].status = "pending" /\ (v = "approved" => grant[a].state = "live")
        /\ record' = [record EXCEPT ![a].status = v] /\ UNCHANGED <<grant, executed>>
    BY <1>4, <2>1 DEF AppendRecord, IInv, DecisionsUnderWay
  <2> QED
    BY <1>1, <2>2, DecidingDecides
<1>5. ASSUME NEW w \in Workers, NEW a \in Approvals, pc[w] = "consuming", a = req[w].approval,
             Spendable(a), grant' = [grant EXCEPT ![a].state = "consumed"],
             UNCHANGED <<record, executed>>
      PROVE  Lifecycle!ApprovalNext
  <2>1. record[a].status = "approved"
    BY <1>5 DEF IInv, Consuming
  <2>2. grant[a].state # "none"
    BY <2>1 DEF IInv, GrantsBacked
  <2>3. grant[a].state # "consumed"
    BY <1>5 DEF Spendable, GrantSeen, IInv, RestartForgetsNothing
  <2>4. grant[a].state = "live"
    BY <1>1, <2>2, <2>3 DEF Typed, TypeOK, Grants
  <2> QED
    BY <1>1, <1>5, <2>1, <2>4, SpendingSpends
<1>6. ASSUME NEW w \in Workers, ConsumeGrant(w)
      PROVE  [Lifecycle!ApprovalNext]_(Lifecycle!approvalVars)
  <2>1. CASE Spendable(req[w].approval)
    BY <1>1, <1>5, <1>6, <2>1 DEF ConsumeGrant, Spend
  <2>2. CASE ~ Spendable(req[w].approval)
    BY <1>6, <2>2, NothingMoves DEF ConsumeGrant
  <2> QED
    BY <2>1, <2>2
<1>7. ASSUME NEW w \in Workers, StoreError(w)
      PROVE  [Lifecycle!ApprovalNext]_(Lifecycle!approvalVars)
  <2>1. CASE UNCHANGED <<record, grant>>
    BY <1>7, <2>1, NothingMoves DEF StoreError
  <2>2. CASE ~ UNCHANGED <<record, grant>>
    BY <1>1, <1>2, <1>5, <1>7, <2>2 DEF StoreError
  <2> QED
    BY <2>1, <2>2
<1>8. ASSUME NEW w \in Workers,
             \/ \E a \in Approvals, c \in Calls : BeginConsume(w, a, c)
             \/ \E a \in Approvals, v \in Verdicts : BeginDecision(w, a, v)
             \/ RememberDecision(w)
      PROVE  UNCHANGED Lifecycle!approvalVars
  BY <1>8, NothingMoves DEF BeginConsume, BeginDecision, RememberDecision, Answer
<1>9. ASSUME NEW w \in Workers, NEW c \in Configs, NEW d \in Definitions, RestartWorker(w, c, d)
      PROVE  UNCHANGED Lifecycle!approvalVars
  BY <1>9, NothingMoves DEF RestartWorker
<1>10. CASE Tick \/ UNCHANGED vars
  BY <1>10, NothingMoves DEF Tick, vars
<1>11. CASE Next /\ ~ Tick
  BY <1>1, <1>3, <1>4, <1>6, <1>7, <1>8, <1>9, <1>11, RequestingAsks, AppendingIssues,
     AuthorizingExecutes DEF Next
<1> QED
  BY <1>10, <1>11

(* Both backends implement the life cycle of an approval: what is stored and  *)
(* what is let through move only along it, whatever fails or restarts.        *)
THEOREM QueueImplementsApproval == Spec => ImplementsApproval
  BY LifecycleInitial, LifecycleStep, Invariance, PTL DEF Spec, ImplementsApproval,
     Lifecycle!ApprovalSpec
=============================================================================

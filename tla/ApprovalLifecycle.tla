------------------------- MODULE ApprovalLifecycle -------------------------
(***************************************************************************)
(* What the approval queue promises of one high-risk tool call, whatever   *)
(* its store, its restarts and its failures do: a request is decided once, *)
(* and what was asked never changes; a capability is issued for it before  *)
(* or with the approval, is spent once and is never revived; and a spent   *)
(* capability lets through one execution, of exactly what was reviewed.    *)
(* ApprovalGrants implements this specification over both of its backends. *)
(***************************************************************************)
EXTENDS Naturals

CONSTANTS
  Approvals,    \* approval ids
  Facts,        \* what a reviewer decides on: a call under a tool definition
  Unasked       \* the facts of a request that was not made

VARIABLES
  answer,       \* [Approvals -> {"none", "pending", "approved", "rejected"}]
  reviewed,     \* [Approvals -> Facts], what was asked
  capability,   \* [Approvals -> {"none", "live", "consumed"}]
  uses,         \* [Approvals -> Nat], executions let through
  ran           \* [Approvals -> SUBSET Facts], what they executed

approvalVars == <<answer, reviewed, capability, uses, ran>>

ApprovalInit ==
  /\ answer = [a \in Approvals |-> "none"]
  /\ reviewed = [a \in Approvals |-> Unasked]
  /\ capability = [a \in Approvals |-> "none"]
  /\ uses = [a \in Approvals |-> 0]
  /\ ran = [a \in Approvals |-> {}]

Ask(a, f) ==
  /\ answer[a] = "none"
  /\ answer' = [answer EXCEPT ![a] = "pending"]
  /\ reviewed' = [reviewed EXCEPT ![a] = f]
  /\ UNCHANGED <<capability, uses, ran>>

(* A capability may be durable before the decision it belongs to is.         *)
Issue(a) ==
  /\ answer[a] = "pending" /\ capability[a] = "none"
  /\ capability' = [capability EXCEPT ![a] = "live"]
  /\ UNCHANGED <<answer, reviewed, uses, ran>>

Approve(a) ==
  /\ answer[a] = "pending"
  /\ answer' = [answer EXCEPT ![a] = "approved"]
  /\ capability' = [capability EXCEPT ![a] = "live"]
  /\ UNCHANGED <<reviewed, uses, ran>>

(* A capability that was issued for another decision stays, and is of no use. *)
Reject(a) ==
  /\ answer[a] = "pending"
  /\ answer' = [answer EXCEPT ![a] = "rejected"]
  /\ UNCHANGED <<reviewed, capability, uses, ran>>

SpendCapability(a) ==
  /\ answer[a] = "approved" /\ capability[a] = "live"
  /\ capability' = [capability EXCEPT ![a] = "consumed"]
  /\ UNCHANGED <<answer, reviewed, uses, ran>>

Execute(a) ==
  /\ capability[a] = "consumed" /\ uses[a] = 0
  /\ uses' = [uses EXCEPT ![a] = 1]
  /\ ran' = [ran EXCEPT ![a] = {reviewed[a]}]
  /\ UNCHANGED <<answer, reviewed, capability>>

ApprovalNext ==
  \E a \in Approvals :
    \/ \E f \in Facts : Ask(a, f)
    \/ Issue(a) \/ Approve(a) \/ Reject(a) \/ SpendCapability(a) \/ Execute(a)

ApprovalSpec == ApprovalInit /\ [][ApprovalNext]_approvalVars

=============================================================================

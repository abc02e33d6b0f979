------------------------------ MODULE MCPlatform ------------------------------
(***************************************************************************)
(* The components around the core in one instance for TLC. No two of them  *)
(* share state: the audit ledger and the corpus grants keep tables of their*)
(* own, demo requests and sessions live in the console's stores, a sandbox *)
(* run has a Job of its own, key sets are kept in the memory of a process, *)
(* and the locks are told apart from what they protect. A behaviour of the *)
(* platform is therefore an interleaving of behaviours that do not see each*)
(* other, and exploring the components one at a time loses none.           *)
(***************************************************************************)
EXTENDS AuditLedger, CorpusGrants, DemoRequest, ConsoleAuth, SandboxJob, JwksCache,
        LifecycleLocks, TLC

CONSTANTS p1, p2, t1, t2, d1, d2, f1, f2, c1

VARIABLE component    \* the one that moves in this behaviour

platformVars == <<component, ledgerVars, grantVars, demoVars, authVars, sandboxVars, jwksVars,
                  lockVars>>

\* For the others one initial state will do.
PlatformInit ==
  /\ component \in {"ledger", "grants", "demo", "auth", "sandbox", "jwks", "locks"}
  /\ LedgerInit /\ GrantInit /\ DemoInit /\ AuthInit /\ SandboxInit
  /\ JwksInit /\ LocksInit
  /\ component # "sandbox" => tree = [f \in 1..NFiles |-> f1]
  /\ component # "jwks" => published = {}

PlatformNext ==
  /\ UNCHANGED component
  /\ \/ /\ component = "ledger" /\ LedgerNext
        /\ UNCHANGED <<grantVars, demoVars, authVars, sandboxVars, jwksVars, lockVars>>
     \/ /\ component = "grants" /\ GrantNext
        /\ UNCHANGED <<ledgerVars, demoVars, authVars, sandboxVars, jwksVars, lockVars>>
     \/ /\ component = "demo" /\ DemoNext
        /\ UNCHANGED <<ledgerVars, grantVars, authVars, sandboxVars, jwksVars, lockVars>>
     \/ /\ component = "auth" /\ AuthNext
        /\ UNCHANGED <<ledgerVars, grantVars, demoVars, sandboxVars, jwksVars, lockVars>>
     \/ /\ component = "sandbox" /\ SandboxNext
        /\ UNCHANGED <<ledgerVars, grantVars, demoVars, authVars, jwksVars, lockVars>>
     \/ /\ component = "jwks" /\ JwksNext
        /\ UNCHANGED <<ledgerVars, grantVars, demoVars, authVars, sandboxVars, lockVars>>
     \/ /\ component = "locks" /\ LocksNext
        /\ UNCHANGED <<ledgerVars, grantVars, demoVars, authVars, sandboxVars, jwksVars>>

PlatformSpec == PlatformInit /\ [][PlatformNext]_platformVars

\* Documents whose keys and whose groups sort the other way round.
MCTextRank  == f1 :> -1 @@ f2 :> 1
MCGroupRank == f1 :> 2 @@ f2 :> 1

\* The members of a set of one kind are interchangeable; symmetric values are
\* also shared between kinds that never meet (workers and administrators,
\* decisions and payloads).
Interchangeable == Permutations({p1, p2}) \cup Permutations({t1, t2}) \cup Permutations({d1, d2})

\* The type invariants of the components.
TypeOK == /\ LedgerTypeOK /\ GrantTypeOK /\ DemoTypeOK /\ AuthTypeOK /\ SandboxTypeOK
          /\ JwksTypeOK /\ LocksTypeOK
=============================================================================

--------------------------- MODULE SandboxJobProofs ---------------------------
(***************************************************************************)
(* Proofs about SandboxJob, for any number of files, contents and writes.  *)
(***************************************************************************)
EXTENDS SandboxJob, TLAPS

-----------------------------------------------------------------------------
(* Type correctness                                                         *)

(* What an action may make of the run and of the Job is typed.                *)
LEMMA RunTyped ==
  ASSUME check \in Checks, NEW p \in Passes \cup Controls, NEW s \in Seq(Contents)
  PROVE  /\ [check EXCEPT !.pc = p] \in Checks
         /\ [check EXCEPT !.pc = p, !.seen = <<>>] \in Checks
         /\ [check EXCEPT !.pc = p, !.requested = s, !.seen = <<>>] \in Checks
         /\ [check EXCEPT !.pc = p, !.inspected = s, !.seen = <<>>] \in Checks
         /\ [check EXCEPT !.pc = p, !.executed = s] \in Checks
         /\ [check EXCEPT !.seen = s] \in Checks
         /\ \A b \in BOOLEAN : [check EXCEPT !.pc = p, !.failed = b] \in Checks
         /\ [check EXCEPT !.pc = p, !.cleaned = TRUE] \in Checks
<1>1. <<>> \in Seq(Contents)
  OBVIOUS
<1> QED
  BY <1>1 DEF Checks

LEMMA RefusedTyped ==
  ASSUME check \in Checks
  PROVE  Refused \in Checks /\ [Refused EXCEPT !.cleaned = TRUE] \in Checks
<1>1. <<>> \in Seq(Contents)
  OBVIOUS
<1> QED
  BY <1>1 DEF Checks, Refused, Controls

LEMMA ObjectsTyped ==
  ASSUME job \in Objects
  PROVE  /\ NoJob \in Objects /\ Marked(job) \in Objects
         /\ \A u \in {"own", "other"} : NewJob(u) \in Objects
         /\ job # NoJob => /\ [job EXCEPT !.deleting = TRUE] \in Objects
                           /\ [job EXCEPT !.started = TRUE] \in Objects
                           /\ \A s \in {"complete", "failed", "late"} :
                                [job EXCEPT !.state = s] \in Objects
BY DEF Objects, Marked, NewJob, NoJob

(* Every step keeps types.                                                    *)
LEMMA SandboxTypedStep == ASSUME SandboxTypeOK, [SandboxNext]_sandboxVars PROVE SandboxTypeOK'
<1> USE SandboxConstants DEF SandboxTypeOK, cluster
<1>1. CASE ReadFile
  <2>1. /\ tree[Len(check.seen) + 1] \in Contents
        /\ check.seen \in Seq(Contents)
    BY <1>1 DEF ReadFile, Checks
  <2>2. Append(check.seen, tree[Len(check.seen) + 1]) \in Seq(Contents)
    BY <2>1
  <2>3. "fingerprint" \in Passes \cup Controls
    BY DEF Passes
  <2> QED
    BY <1>1, <2>2, <2>3, RunTyped DEF ReadFile
<1>2. CASE EndPass
  <2>1. check.seen \in Seq(Contents)
    BY DEF Checks
  <2> QED
    BY <1>2, <2>1, RunTyped, RefusedTyped DEF EndPass, Passes, Controls
<1>3. CASE RefuseRun \/ CreateRefused \/ CleanupFails
  BY <1>3, RefusedTyped DEF RefuseRun, CreateRefused, CleanupFails
<1>4. ASSUME NEW f \in 1..NFiles, NEW c \in Contents, Write(f, c) PROVE SandboxTypeOK'
  BY <1>4 DEF Write
<1>5. <<>> \in Seq(Contents)
  OBVIOUS
<1>F. /\ \A p \in Controls : [check EXCEPT !.pc = p] \in Checks
      /\ \A p \in Controls, b \in BOOLEAN : [check EXCEPT !.pc = p, !.failed = b] \in Checks
  BY <1>5, RunTyped
<1>6. CASE ListPolicies \/ CreateJob \/ CreateUnclear \/ Reconcile
  <2>1. Fail => check' \in Checks
    BY <1>F DEF Fail, Controls
  <2>2. \A p \in Controls : Go(p) => check' \in Checks
    BY <1>F DEF Go
  <2> QED
    BY <1>6, <2>1, <2>2, RefusedTyped, ObjectsTyped
       DEF ListPolicies, CreateJob, CreateUnclear, Reconcile, Controls
<1>7. CASE PollJob \/ FindPod
  <2>1. Fail => check' \in Checks
    BY <1>F DEF Fail, Controls
  <2>2. \A p \in Controls : Go(p) => check' \in Checks
    BY <1>F DEF Go
  <2>3. (job.state # "complete") \in BOOLEAN /\ TRUE \in BOOLEAN
    OBVIOUS
  <2>4. PollJob => check' \in Checks
    <3> DEFINE b == job.state # "complete"
    <3>1. [check EXCEPT !.pc = "pod", !.failed = b] \in Checks
      BY <1>F, <2>3 DEF Controls
    <3>2. [check EXCEPT !.pc = "pod", !.failed = TRUE] \in Checks
      BY <1>F, <2>3 DEF Controls
    <3> QED
      BY <2>1, <3>1, <3>2 DEF PollJob
  <2> QED
    BY <1>7, <2>1, <2>2, <2>4 DEF PollJob, FindPod, Controls
<1>8. CASE ReadLogs
  <2>1. Fail => check' \in Checks
    BY <1>F DEF Fail, Controls
  <2> DEFINE s == IF check.failed THEN check.executed ELSE snapshot
  <2>2. s \in Seq(Contents) /\ "delete" \in Controls
    BY DEF Checks, Controls
  <2>3. [check EXCEPT !.pc = "delete", !.executed = s] \in Checks
    BY <2>2, RunTyped
  <2> QED
    BY <1>8, <2>1, <2>3 DEF ReadLogs
<1>9. CASE DeleteJob
  <2>1. check' \in Checks
    BY <1>9, <1>F DEF DeleteJob, Go, Controls
  <2> QED
    BY <1>9, <2>1, ObjectsTyped DEF DeleteJob
<1>18. CASE DeleteUnclear
  BY <1>18 DEF DeleteUnclear
<1>19. CASE ConfirmAbsent
  <2>1. check' \in Checks
    BY <1>19, <1>F DEF ConfirmAbsent, Go, Controls
  <2> QED
    BY <1>19, <2>1 DEF ConfirmAbsent
<1>10. CASE ConfirmPodsGone
  BY <1>5, <1>10, RunTyped, RefusedTyped
     DEF ConfirmPodsGone, AfterCleanup, Go, Controls, Passes
<1>11. CASE ApplyCreate \/ ApplyDelete
  BY <1>11, ObjectsTyped DEF ApplyCreate, ApplyDelete
<1>12. ASSUME NEW r \in underway, LoseRequest(r) PROVE SandboxTypeOK'
  BY <1>12 DEF LoseRequest
<1>13. CASE StartPod \/ MarkForDeletion \/ RemoveJob \/ CreateOther
  <2>1. job.uid # "none" => job # NoJob /\ job.uid \in {"own", "other"}
    BY DEF NoJob, Objects
  <2> QED
    BY <1>13, <2>1, ObjectsTyped DEF StartPod, MarkForDeletion, RemoveJob, CreateOther
<1>14. ASSUME NEW u \in pods, RemovePod(u) PROVE SandboxTypeOK'
  BY <1>14 DEF RemovePod
<1>15. CASE CopyFile
  <2>1. tree[Len(snapshot) + 1] \in Contents
    BY <1>15 DEF CopyFile
  <2>2. Append(snapshot, tree[Len(snapshot) + 1]) \in Seq(Contents)
    BY <2>1
  <2> QED
    BY <1>15, <2>2 DEF CopyFile
<1>16. ASSUME NEW s \in {"complete", "failed", "late"}, FinishJob(s) PROVE SandboxTypeOK'
  <2>1. job # NoJob
    BY <1>16 DEF FinishJob, NoJob
  <2> QED
    BY <1>16, <2>1, ObjectsTyped DEF FinishJob
<1>17. CASE UNCHANGED sandboxVars
  BY <1>17 DEF sandboxVars
<1> QED
  BY <1>1, <1>2, <1>3, <1>4, <1>6, <1>7, <1>8, <1>9, <1>10, <1>11, <1>12, <1>13, <1>14, <1>15,
     <1>16, <1>17, <1>18, <1>19 DEF SandboxNext

-----------------------------------------------------------------------------
(* The inductive invariant                                                  *)

EarlyStages == {"fingerprint", "recheck", "copy", "confirm", "policy", "create"}

(* Nothing of the execution exists before its creation was sent, and nothing *)
(* of our own while a creation is still under way, which is never so once the *)
(* uid is known.                                                              *)
CreationIsOnce ==
  /\ check.pc \in EarlyStages => job = NoJob /\ pods = {} /\ underway = {}
  /\ "create" \in underway => job = NoJob /\ pods = {} /\ ~UidKnown

(* Where the cleanup stands, and what it has established.                     *)
CleanupStands ==
  /\ check.cleaned => check.pc \in {"final", "result", "refused"}
  /\ check.pc \in {"final", "result"} => check.cleaned
  /\ check.pc = "podsgone" => job.uid # "own"

(* Which contents agree with the requested one.                               *)
ContentsAgree ==
  /\ check.pc \notin Passes \cup {"refused"} => check.inspected = check.requested
  /\ check.pc \in {"final", "result"} =>
       check.inspected = check.requested /\ check.executed = check.requested

SandboxInv ==
  /\ SandboxTypeOK
  /\ CreationIsOnce
  /\ CleanupStands
  /\ ContentsAgree
  /\ NothingLeftBehind
  /\ OnlyOwnJobIsDeleted

(* The initial states satisfy it.                                             *)
LEMMA SandboxInvInit == ASSUME SandboxInit PROVE SandboxInv
<1>1. SandboxTypeOK
  <2>1. <<>> \in Seq(Contents) /\ 0 \in 0..MaxWrites
    BY SandboxConstants
  <2>2. check \in Checks
    BY <2>1 DEF SandboxInit, Checks, Passes
  <2> QED
    BY <2>1, <2>2 DEF SandboxInit, SandboxTypeOK, Objects
<1>2. CreationIsOnce /\ CleanupStands /\ ContentsAgree /\ NothingLeftBehind /\ OnlyOwnJobIsDeleted
  BY DEF SandboxInit, CreationIsOnce, CleanupStands, ContentsAgree, NothingLeftBehind,
         OnlyOwnJobIsDeleted, EarlyStages, Passes, NoJob, UidKnown
<1> QED
  BY <1>1, <1>2 DEF SandboxInv

(* Every step preserves it.                                                   *)
LEMMA SandboxInvStep == ASSUME SandboxInv, [SandboxNext]_sandboxVars PROVE SandboxInv'
<1>0. SandboxTypeOK'
  BY SandboxTypedStep DEF SandboxInv
<1>T. /\ check \in Checks /\ job \in Objects
      /\ pods \subseteq {"own", "other"} /\ underway \subseteq {"create", "delete"}
  BY DEF SandboxInv, SandboxTypeOK
<1> USE DEF CreationIsOnce, CleanupStands, ContentsAgree, NothingLeftBehind, OnlyOwnJobIsDeleted
<1> DEFINE Rest == CreationIsOnce /\ CleanupStands /\ ContentsAgree /\ NothingLeftBehind
                   /\ OnlyOwnJobIsDeleted
<1>R. Rest
  BY DEF SandboxInv
<1> SUFFICES Rest'
  BY <1>0 DEF SandboxInv
<1> USE DEF UidKnown, cluster, EarlyStages, Passes, NoJob
<1>1. CASE ReadFile
  BY <1>T, <1>R, <1>1 DEF ReadFile, Checks
<1>2. CASE EndPass
  BY <1>T, <1>R, <1>2 DEF EndPass, Refused, Matches, Checks
<1>3. CASE RefuseRun \/ CreateRefused \/ CleanupFails
  BY <1>T, <1>R, <1>3 DEF RefuseRun, CreateRefused, CleanupFails, Refused, Checks
<1>4. ASSUME NEW f \in 1..NFiles, NEW c \in Contents, Write(f, c) PROVE Rest'
  BY <1>R, <1>4 DEF Write
<1>5. CASE ListPolicies \/ CreateUnclear
  BY <1>T, <1>R, <1>5 DEF ListPolicies, CreateUnclear, Refused, Go, Checks
<1>20. CASE Reconcile
  <2>1. check.pc = "reconcile" /\ UNCHANGED <<job, pods, snapshot, underway>>
    BY <1>20 DEF Reconcile
  <2>2. CASE check' = Refused
    BY <1>T, <1>R, <2>1, <2>2 DEF Refused, Checks
  <2>3. CASE job.uid = "own" /\ Fail
    <3>1. "create" \notin underway
      BY <1>R, <2>3
    <3> QED
      BY <1>T, <1>R, <2>1, <2>3, <3>1 DEF Fail, Checks
  <2> QED
    BY <1>20, <2>2, <2>3 DEF Reconcile
<1>6. CASE CreateJob
  BY <1>T, <1>R, <1>6 DEF CreateJob, NewJob, Go, Checks
<1>7. CASE PollJob
  <2>1. check.pc = "wait" /\ UNCHANGED <<job, pods, snapshot, underway>>
    BY <1>7 DEF PollJob
  <2>2. /\ check'.pc \in {"pod", "delete"} /\ check'.cleaned = check.cleaned
        /\ check'.inspected = check.inspected /\ check'.requested = check.requested
    BY <1>T, <1>7 DEF PollJob, Fail, Checks
  <2> QED
    BY <1>R, <2>1, <2>2
<1>21. CASE FindPod
  BY <1>T, <1>R, <1>21 DEF FindPod, Go, Fail, Checks
<1>8. CASE ReadLogs
  BY <1>T, <1>R, <1>8 DEF ReadLogs, Fail, Checks
<1>9. CASE DeleteJob
  BY <1>T, <1>R, <1>9 DEF DeleteJob, Go, Marked, Checks, Objects
<1>22. CASE DeleteUnclear
  BY <1>T, <1>R, <1>22 DEF DeleteUnclear
<1>23. CASE ConfirmAbsent
  BY <1>T, <1>R, <1>23 DEF ConfirmAbsent, Go, Checks
<1>10. CASE ConfirmPodsGone
  <2>1. CASE "own" \in pods
    BY <1>T, <1>R, <1>10, <2>1 DEF ConfirmPodsGone, OwnedPodsRemain, Go, Checks
  <2>2. CASE "own" \notin pods /\ check.failed
    BY <1>T, <1>R, <1>10, <2>2 DEF ConfirmPodsGone, OwnedPodsRemain, AfterCleanup, Refused, Checks
  <2>3. CASE "own" \notin pods /\ ~check.failed
    <3>1. /\ check.pc = "podsgone" /\ check' = AfterCleanup
          /\ UNCHANGED <<job, pods, snapshot, underway>>
      BY <1>10, <2>3 DEF ConfirmPodsGone, OwnedPodsRemain
    <3>2. CASE check.executed # check.requested
      <4>1. check' = [Refused EXCEPT !.cleaned = TRUE]
        BY <2>3, <3>1, <3>2 DEF AfterCleanup, Matches
      <4> QED
        BY <1>T, <1>R, <2>3, <3>1, <4>1 DEF Refused, Checks
    <3>3. CASE check.executed = check.requested
      <4>1. check' = [check EXCEPT !.pc = "final", !.cleaned = TRUE]
        BY <2>3, <3>1, <3>3 DEF AfterCleanup, Matches
      <4> QED
        BY <1>T, <1>R, <2>3, <3>1, <3>3, <4>1 DEF Checks
    <3> QED
      BY <3>2, <3>3
  <2> QED
    BY <2>1, <2>2, <2>3
<1>11. CASE ApplyCreate
  BY <1>T, <1>R, <1>11 DEF ApplyCreate, NewJob
<1>12. CASE ApplyDelete
  BY <1>T, <1>R, <1>12 DEF ApplyDelete, Marked, Objects
<1>13. ASSUME NEW r \in underway, LoseRequest(r) PROVE Rest'
  BY <1>R, <1>13 DEF LoseRequest
<1>14. CASE StartPod \/ MarkForDeletion
  BY <1>T, <1>R, <1>14 DEF StartPod, MarkForDeletion, Objects
<1>15. CASE RemoveJob \/ CreateOther
  BY <1>T, <1>R, <1>15 DEF RemoveJob, CreateOther, NewJob
<1>16. ASSUME NEW u \in pods, RemovePod(u) PROVE Rest'
  BY <1>R, <1>16 DEF RemovePod
<1>17. CASE CopyFile
  BY <1>R, <1>17 DEF CopyFile
<1>18. ASSUME NEW s \in {"complete", "failed", "late"}, FinishJob(s) PROVE Rest'
  BY <1>T, <1>R, <1>18 DEF FinishJob, Objects
<1>19. CASE UNCHANGED sandboxVars
  BY <1>R, <1>19 DEF sandboxVars
<1> QED
  BY <1>1, <1>2, <1>3, <1>4, <1>5, <1>6, <1>7, <1>8, <1>9, <1>10, <1>11, <1>12, <1>13, <1>14,
     <1>15, <1>16, <1>17, <1>18, <1>19, <1>20, <1>21,
     <1>22, <1>23 DEF SandboxNext

(* The invariant holds in every reachable state.                              *)
THEOREM SandboxInvariance == SandboxSpec => []SandboxInv
BY SandboxInvInit, SandboxInvStep, PTL DEF SandboxSpec

-----------------------------------------------------------------------------
(* What follows                                                             *)

(* A result is of the requested content: SandboxRunner.run, whatever is      *)
(* written to the workspace meanwhile.                                        *)
THEOREM ResultsAreOfTheRequest == SandboxSpec => []RunSawTheRequestedWorkspace
<1>1. SandboxInv => RunSawTheRequestedWorkspace
  BY DEF SandboxInv, ContentsAgree, RunSawTheRequestedWorkspace
<1> QED
  BY <1>1, SandboxInvariance, PTL

(* A confirmed cleanup leaves neither the Job nor a Pod: _delete_job.         *)
THEOREM CleanupIsComplete == SandboxSpec => []NothingLeftBehind
<1>1. SandboxInv => NothingLeftBehind
  BY DEF SandboxInv
<1> QED
  BY <1>1, SandboxInvariance, PTL

(* No Job of others is deleted: the uid precondition of _delete_job.          *)
THEOREM OthersAreSpared == SandboxSpec => []OnlyOwnJobIsDeleted
<1>1. SandboxInv => OnlyOwnJobIsDeleted
  BY DEF SandboxInv
<1> QED
  BY <1>1, SandboxInvariance, PTL

=============================================================================

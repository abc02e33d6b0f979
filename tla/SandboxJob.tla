------------------------------ MODULE SandboxJob ------------------------------
(***************************************************************************)
(* One run of repository checks in the Kubernetes sandbox: the passes that *)
(* SandboxRunner.run makes over a workspace which others may be writing,   *)
(* the Job that KubernetesJobSandboxBackend creates for the commands, the  *)
(* copy of the workspace that its Pod executes them in, and the cleanup.   *)
(*                                                                         *)
(* A pass reads file after file; one file is read whole, since both readers*)
(* compare its descriptor before and after. The name of the Job is random, *)
(* so that runs meet in nothing but the workspace, which none of them      *)
(* writes. A process that stops is a behaviour that leaves the run where it*)
(* is. The second Job, of the Git inspection, runs the same protocol.      *)
(***************************************************************************)
EXTENDS Naturals, Sequences

CONSTANTS
  NFiles,       \* files of the workspace
  Contents,     \* contents of a file
  MaxWrites     \* bound: writes of others to the workspace

ASSUME SandboxConstants == NFiles \in Nat \ {0} /\ MaxWrites \in Nat

VARIABLES
  tree,         \* the files of the repository
  writes,       \* writes made by others
  check,        \* the run of the checks, see below
  job,          \* the Job object under the name of this execution
  pods,         \* owners (Job uids) of the Pods under this name
  snapshot,     \* the files that the Pod has copied so far
  underway      \* requests to the API server that may still be applied

sandboxVars == <<tree, writes, check, job, pods, snapshot, underway>>

NoJob == [uid |-> "none"]
NewJob(uid) == [uid |-> uid, state |-> "active", started |-> FALSE, deleting |-> FALSE]

\* requested, inspected and executed are the contents that were fingerprinted
\* first, given to the static inspection and reported by the Job; seen is the
\* pass being made. failed says that an error is being raised, cleaned that
\* the Job is known and its cleanup was confirmed.
SandboxInit ==
  /\ tree \in [1..NFiles -> Contents]
  /\ writes = 0
  /\ check = [pc |-> "fingerprint", seen |-> <<>>, requested |-> <<>>, inspected |-> <<>>,
              executed |-> <<>>, failed |-> FALSE, cleaned |-> FALSE]
  /\ job = NoJob
  /\ pods = {}
  /\ snapshot = <<>>
  /\ underway = {}
-----------------------------------------------------------------------------
(* The passes over the workspace.                                          *)

cluster == <<job, pods, snapshot, underway>>

Passes   == {"fingerprint", "recheck", "copy", "confirm", "final"}
Controls == {"policy", "create", "reconcile", "wait", "pod", "log", "delete", "absent",
             "podsgone", "result", "refused"}

ReadFile ==
  /\ check.pc \in Passes /\ Len(check.seen) < NFiles
  /\ check' = [check EXCEPT !.seen = Append(@, tree[Len(check.seen) + 1])]
  /\ UNCHANGED <<tree, writes, cluster>>

Refused == [check EXCEPT !.pc = "refused", !.seen = <<>>]

\* mutant: the fingerprint that the Job reports is not compared.
MatchesBeforeAndAfter(pc, contents) == pc = "executed" \/ contents = check.requested

\* Every later content must be the requested one.
Matches(pc, contents) == contents = check.requested

\* source_fingerprint; again after the commands were parsed; a copy for the
\* static inspection; again for the copy; again after the run.
EndPass ==
  LET pass == check.pc
  IN  /\ pass \in Passes /\ Len(check.seen) = NFiles
      /\ check' =
           CASE pass = "fingerprint" ->
                  [check EXCEPT !.pc = "recheck", !.requested = check.seen, !.seen = <<>>]
             [] pass = "recheck" ->
                  IF Matches(pass, check.seen) THEN [check EXCEPT !.pc = "copy", !.seen = <<>>]
                  ELSE Refused
             [] pass = "copy" ->
                  [check EXCEPT !.pc = "confirm", !.inspected = check.seen, !.seen = <<>>]
             [] pass = "confirm" ->
                  IF Matches(pass, check.seen) /\ Matches("inspected", check.inspected)
                  THEN [check EXCEPT !.pc = "policy", !.seen = <<>>] ELSE Refused
             [] pass = "final" ->
                  IF Matches(pass, check.seen) THEN [check EXCEPT !.pc = "result", !.seen = <<>>]
                  ELSE Refused
      /\ UNCHANGED <<tree, writes, cluster>>

\* A file changes while it is read, a command is not allowed, a copy fails.
RefuseRun ==
  /\ check.pc \in Passes
  /\ check' = Refused
  /\ UNCHANGED <<tree, writes, cluster>>

\* Somebody else writes a file of the repository.
Write(f, c) ==
  /\ writes < MaxWrites /\ tree[f] # c
  /\ tree' = [tree EXCEPT ![f] = c]
  /\ writes' = writes + 1
  /\ UNCHANGED <<check, cluster>>
-----------------------------------------------------------------------------
(* _execute_control_command, up to the result of the Job.                  *)

Go(pc) == check' = [check EXCEPT !.pc = pc]

\* An error with the Job's uid known: the finally clause deletes the Job.
Fail == check' = [check EXCEPT !.pc = "delete", !.failed = TRUE]

ListPolicies ==
  /\ check.pc = "policy"
  /\ Go("create") \/ check' = Refused
  /\ UNCHANGED <<tree, writes, cluster>>

CreateJob ==
  /\ check.pc = "create"
  /\ job' = NewJob("own")
  /\ Go("wait")
  /\ UNCHANGED <<tree, writes, pods, snapshot, underway>>

\* 4xx: nothing was created.
CreateRefused ==
  /\ check.pc = "create"
  /\ check' = Refused
  /\ UNCHANGED <<tree, writes, cluster>>

\* A timeout, 5xx or an answer that cannot be read or trusted.
CreateUnclear ==
  /\ check.pc = "create"
  /\ underway' = underway \cup {"create"}
  /\ Go("reconcile")
  /\ UNCHANGED <<tree, writes, job, pods, snapshot>>

\* Polling meets the Job, or an answer that ends it, or the grace period runs
\* out without one; only the first knows a uid and cleans up. The execution
\* fails in each case.
Reconcile ==
  /\ check.pc = "reconcile"
  /\ \/ job.uid = "own" /\ Fail
     \/ check' = Refused
  /\ UNCHANGED <<tree, writes, cluster>>

\* The Job under the name is terminal, is another one, or the request fails;
\* or the time is up. A command batch that timed out ends in an error, after
\* its Pod and logs have been read.
PollJob ==
  /\ check.pc = "wait"
  /\ \/ /\ job.uid = "own" /\ job.state # "active"
        /\ check' = [check EXCEPT !.pc = "pod", !.failed = job.state # "complete"]
     \/ Fail
     \/ check' = [check EXCEPT !.pc = "pod", !.failed = TRUE]
  /\ UNCHANGED <<tree, writes, cluster>>

\* The Pods with the label of the name: exactly the one of this Job, unless
\* the Job timed out without one.
FindPod ==
  /\ check.pc = "pod"
  /\ \/ pods = {"own"} /\ Go("log")
     \/ pods = {} /\ check.failed /\ Go("delete")
     \/ Fail
  /\ UNCHANGED <<tree, writes, cluster>>

\* The logs of a Pod that is still there give the batch report, whose first
\* fingerprint was taken of the copy.
ReadLogs ==
  /\ check.pc = "log"
  /\ \/ /\ "own" \in pods
        /\ check' = [check EXCEPT !.pc = "delete",
                                  !.executed = IF check.failed THEN @ ELSE snapshot]
     \/ Fail
  /\ UNCHANGED <<tree, writes, cluster>>
-----------------------------------------------------------------------------
(* _delete_job                                                             *)

\* mutant: the DELETE names the Job and no uid.
MarkedByName(j) == IF j.uid # "none" THEN [j EXCEPT !.deleting = TRUE] ELSE j

\* What the DELETE with the uid as its precondition does.
Marked(j) == IF j.uid = "own" THEN [j EXCEPT !.deleting = TRUE] ELSE j

\* Done, 404 and 409 all lead on to the confirmation.
DeleteJob ==
  /\ check.pc = "delete"
  /\ job' = Marked(job)
  /\ Go("absent")
  /\ UNCHANGED <<tree, writes, pods, snapshot, underway>>

\* 5xx or a timeout: it is sent again while the grace period lasts.
DeleteUnclear ==
  /\ check.pc = "delete"
  /\ underway' = underway \cup {"delete"}
  /\ UNCHANGED <<tree, writes, check, job, pods, snapshot>>

\* 4xx, an answer that cannot be read, or the end of the grace period.
CleanupFails ==
  /\ check.pc \in {"delete", "absent", "podsgone"}
  /\ check' = Refused
  /\ UNCHANGED <<tree, writes, cluster>>

\* _wait_for_job_deletion: no Job or another one under the name ...
ConfirmAbsent ==
  /\ check.pc = "absent" /\ job.uid # "own"
  /\ Go("podsgone")
  /\ UNCHANGED <<tree, writes, cluster>>

\* mutant: the Pods are left to the garbage collector.
OwnedPodsIgnored == FALSE

\* _job_owned_pods_remain
OwnedPodsRemain == "own" \in pods

\* The error that was being raised stands; a report is compared and, if it is
\* of the requested content, the workspace read a last time.
AfterCleanup ==
  CASE check.failed -> [Refused EXCEPT !.cleaned = TRUE]
    [] ~check.failed /\ ~Matches("executed", check.executed) -> [Refused EXCEPT !.cleaned = TRUE]
    [] OTHER -> [check EXCEPT !.pc = "final", !.cleaned = TRUE]

\* ... and none of the Pods it owned; else both are looked at again.
ConfirmPodsGone ==
  /\ check.pc = "podsgone"
  /\ IF OwnedPodsRemain THEN Go("absent") ELSE check' = AfterCleanup
  /\ UNCHANGED <<tree, writes, cluster>>
-----------------------------------------------------------------------------
(* The cluster.                                                            *)

ApplyCreate ==
  /\ "create" \in underway
  /\ job' = NewJob("own")
  /\ underway' = underway \ {"create"}
  /\ UNCHANGED <<tree, writes, check, pods, snapshot>>

ApplyDelete ==
  /\ "delete" \in underway
  /\ job' = Marked(job)
  /\ underway' = underway \ {"delete"}
  /\ UNCHANGED <<tree, writes, check, pods, snapshot>>

LoseRequest(r) ==
  /\ r \in underway
  /\ underway' = underway \ {r}
  /\ UNCHANGED <<tree, writes, check, job, pods, snapshot>>

\* One Pod for a Job: backoffLimit is 0.
StartPod ==
  /\ job.uid # "none" /\ ~job.started /\ ~job.deleting /\ job.state = "active"
  /\ job' = [job EXCEPT !.started = TRUE]
  /\ pods' = pods \cup {job.uid}
  /\ UNCHANGED <<tree, writes, check, snapshot, underway>>

\* create_working_copy, one file after the other.
CopyFile ==
  /\ job.uid = "own" /\ "own" \in pods /\ job.state = "active" /\ Len(snapshot) < NFiles
  /\ snapshot' = Append(snapshot, tree[Len(snapshot) + 1])
  /\ UNCHANGED <<tree, writes, check, job, pods, underway>>

\* The commands ran; the runner failed; activeDeadlineSeconds passed and the
\* controller removed the Pod.
FinishJob(state) ==
  /\ job.uid = "own" /\ job.state = "active"
  /\ state # "late" => "own" \in pods
  /\ state = "complete" => Len(snapshot) = NFiles
  /\ job' = [job EXCEPT !.state = state]
  /\ pods' = IF state = "late" THEN pods \ {"own"} ELSE pods
  /\ UNCHANGED <<tree, writes, check, snapshot, underway>>

\* ttlSecondsAfterFinished, or an operator deletes the Job.
MarkForDeletion ==
  /\ job.uid = "own" /\ ~job.deleting
  /\ job' = [job EXCEPT !.deleting = TRUE]
  /\ UNCHANGED <<tree, writes, check, pods, snapshot, underway>>

\* The garbage collector.
RemovePod(u) ==
  /\ u \in pods
  /\ job.uid = u => job.deleting
  /\ pods' = pods \ {u}
  /\ UNCHANGED <<tree, writes, check, job, snapshot, underway>>

\* Foreground deletion waits for the Pods; one in the background, by an
\* operator, does not.
RemoveJob ==
  /\ job.uid # "none" /\ job.deleting
  /\ job' = NoJob
  /\ UNCHANGED <<tree, writes, check, pods, snapshot, underway>>

UidKnown ==
  check.pc \in {"wait", "pod", "log", "delete", "absent", "podsgone"} \/ check.cleaned

\* Once our uid is known and our Job has gone, somebody creates a Job of its
\* name. Nobody but a DELETE of ours deletes it here.
CreateOther ==
  /\ job = NoJob /\ UidKnown
  /\ job' = NewJob("other")
  /\ UNCHANGED <<tree, writes, check, pods, snapshot, underway>>

SandboxNext ==
  \/ ReadFile \/ EndPass \/ RefuseRun \/ \E f \in 1..NFiles, c \in Contents : Write(f, c)
  \/ ListPolicies \/ CreateJob \/ CreateRefused \/ CreateUnclear \/ Reconcile
  \/ PollJob \/ FindPod \/ ReadLogs
  \/ DeleteJob \/ DeleteUnclear \/ CleanupFails \/ ConfirmAbsent \/ ConfirmPodsGone
  \/ ApplyCreate \/ ApplyDelete \/ \E r \in underway : LoseRequest(r)
  \/ StartPod \/ CopyFile \/ \E s \in {"complete", "failed", "late"} : FinishJob(s)
  \/ MarkForDeletion \/ \E u \in pods : RemovePod(u)
  \/ RemoveJob \/ CreateOther

SandboxSpec == SandboxInit /\ [][SandboxNext]_sandboxVars
-----------------------------------------------------------------------------
Checks  == [pc : Passes \cup Controls, seen : Seq(Contents), requested : Seq(Contents),
            inspected : Seq(Contents), executed : Seq(Contents),
            failed : BOOLEAN, cleaned : BOOLEAN]
Objects == {NoJob} \cup [uid : {"own", "other"}, started : BOOLEAN, deleting : BOOLEAN,
                        state : {"active", "complete", "failed", "late"}]

\* The type invariant.
SandboxTypeOK ==
  /\ tree \in [1..NFiles -> Contents] /\ writes \in 0..MaxWrites
  /\ check \in Checks
  /\ job \in Objects
  /\ snapshot \in Seq(Contents)
  /\ pods \subseteq {"own", "other"} /\ underway \subseteq {"create", "delete"}

\* A result is of the content that was requested: the workspace that was
\* fingerprinted before the commands were parsed is the one the inspection saw
\* and the one the Pod copied file by file, whoever writes in between and even
\* if the old content is back at the end (SandboxRunner.run).
RunSawTheRequestedWorkspace ==
  check.pc = "result" => check.inspected = check.requested /\ check.executed = check.requested

\* When a result is being given, or an error after a confirmed cleanup, neither
\* the Job nor a Pod of it is left, nor will one appear, however requests were
\* delayed and whoever else deleted the Job (_delete_job).
NothingLeftBehind == check.cleaned => job.uid # "own" /\ "own" \notin pods

\* A Job that somebody else created under the name is not deleted by this run,
\* neither by a repeated DELETE nor by one that arrives late (_delete_job).
OnlyOwnJobIsDeleted == job.uid = "other" => ~job.deleting
=============================================================================

----------------------------- MODULE CancelSync -----------------------------
(***************************************************************************)
(* POST /sync/cancel/{job_id}: the cancel_sync view and cancel_sync_job of *)
(* api/apps/etl/services/cancel_sync.py.                                   *)
(***************************************************************************)
EXTENDS SyncState

CONSTANT Cancellers  \* threads serving cancel requests

VARIABLES cpc,       \* where each thread stands in cancel_sync_job
          cjob,      \* the job it cancels
          cqueued    \* was_queued, from the row the view read

cancelVars == <<cpc, cjob, cqueued>>

CancelPoints == {"idle", "mark", "revoke", "save", "release", "forget"}

CancelTypeOK ==
  /\ cpc \in [Cancellers -> CancelPoints]
  /\ cjob \in [Cancellers -> Jobs \cup {NoJob}]
  /\ cqueued \in [Cancellers -> BOOLEAN]
  /\ \A c \in Cancellers : cpc[c] # "idle" => cjob[c] \in Jobs

CancelInit ==
  /\ cpc = [c \in Cancellers |-> "idle"]
  /\ cjob = [c \in Cancellers |-> NoJob]
  /\ cqueued = [c \in Cancellers |-> FALSE]

Step(c, from, to) == cpc[c] = from /\ cpc' = [cpc EXCEPT ![c] = to]

(* The view reads the row; the status check and was_queued use that copy.  *)
CancelRead(c, j) ==
  /\ Step(c, "idle", "mark")
  /\ status[j] \in Active
  /\ cjob' = [cjob EXCEPT ![c] = j]
  /\ cqueued' = [cqueued EXCEPT ![c] = (status[j] = "QUEUED")]
  /\ UNCHANGED sharedVars

CancelMark(c) ==
  /\ Step(c, "mark", "revoke")
  /\ flag' = flag \cup {cjob[c]}
  /\ intime' = intime \cup ({cjob[c]} \ polled)
  /\ UNCHANGED <<cjob, cqueued, lock, taskKey, status, brokerVars, breach,
                 polled, committed, faults>>

(* revoke(terminate=False): a worker that has not started the task will    *)
(* discard its message; a running task is left alone.                      *)
CancelRevoke(c) ==
  /\ Step(c, "revoke", "save")
  /\ revoked' = revoked \cup (taskKey \cap {cjob[c]})
  /\ UNCHANGED <<cjob, cqueued, redisVars, status, queue, historyVars, faults>>

(* Mutant: the lock of a QUEUED job is left to a worker that never comes.  *)
CancelSave_KeepsLock(c) ==
  /\ Step(c, "save", "forget")
  /\ status' = [status EXCEPT ![cjob[c]] = "CANCELLED"]
  /\ UNCHANGED <<cjob, cqueued, redisVars, brokerVars, historyVars, faults>>

(* The save writes CANCELLED whatever the row holds by now.                *)
CancelSave(c) ==
  /\ Step(c, "save", IF cqueued[c] THEN "release" ELSE "forget")
  /\ status' = [status EXCEPT ![cjob[c]] = "CANCELLED"]
  /\ UNCHANGED <<cjob, cqueued, redisVars, brokerVars, historyVars, faults>>

(* Only for a job that was QUEUED when the view read it.                   *)
CancelRelease(c) ==
  /\ Step(c, "release", "forget")
  /\ lock' = LockWithout(cjob[c])
  /\ breach' = IF Holds(cjob[c]) THEN Breached(cjob[c], "cancelled") ELSE breach
  /\ UNCHANGED <<cjob, cqueued, flag, taskKey, status, brokerVars, polled,
                 intime, committed, faults>>

(* Mutant: both keys are deleted, as clear_cancel_flags does.              *)
CancelForget_ClearsFlag(c) ==
  /\ Step(c, "forget", "idle")
  /\ taskKey' = taskKey \ {cjob[c]} /\ flag' = flag \ {cjob[c]}
  /\ cjob' = [cjob EXCEPT ![c] = NoJob]
  /\ cqueued' = [cqueued EXCEPT ![c] = FALSE]
  /\ UNCHANGED <<lock, status, brokerVars, historyVars, faults>>

CancelForget(c) ==
  /\ Step(c, "forget", "idle")
  /\ taskKey' = taskKey \ {cjob[c]}
  /\ cjob' = [cjob EXCEPT ![c] = NoJob]
  /\ cqueued' = [cqueued EXCEPT ![c] = FALSE]
  /\ UNCHANGED <<lock, flag, status, brokerVars, historyVars, faults>>

(* A failure between two statements: the rest is not done, nothing undone. *)
CancelDies(c) ==
  /\ Fault
  /\ cpc[c] # "idle"
  /\ cpc' = [cpc EXCEPT ![c] = "idle"]
  /\ cjob' = [cjob EXCEPT ![c] = NoJob]
  /\ cqueued' = [cqueued EXCEPT ![c] = FALSE]
  /\ UNCHANGED <<redisVars, status, brokerVars, historyVars>>

CancelStep(c) ==
  \/ CancelMark(c) \/ CancelRevoke(c) \/ CancelSave(c)
  \/ CancelRelease(c) \/ CancelForget(c)
=============================================================================

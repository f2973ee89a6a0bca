----------------------------- MODULE SyncWorker -----------------------------
(***************************************************************************)
(* The Celery worker processes running run_etl_pipeline                    *)
(* (api/apps/etl/tasks.py) and, inside it, the adapter's run_pipeline      *)
(* (adapter/src/pipeline.rs) as seen from the control plane: one           *)
(* PostgreSQL transaction that replaces the slice, cancel polls during the *)
(* streams, a last poll, the commit.  Tasks are acknowledged late.         *)
(***************************************************************************)
EXTENDS SyncState

CONSTANT Workers     \* pool processes; each runs one task at a time

VARIABLES wpc,       \* where each process stands in the task
          wjob,      \* the job of its message
          wsaw,      \* job.status == CANCELLED in its copy of the row
          wres       \* what execute_etl_pipeline returned

workerVars == <<wpc, wjob, wsaw, wres>>

Writing == {"stream", "lastpoll", "commit"}       \* snapshot txn open
InTry == {"start", "check2", "after", "check3", "final"} \cup Writing
InExcept == {"except", "check4", "markfailed"}
WorkerPoints ==
  {"idle", "load", "precheck", "release", "clear"} \cup InTry \cup InExcept

WorkerTypeOK ==
  /\ wpc \in [Workers -> WorkerPoints]
  /\ wjob \in [Workers -> Jobs \cup {NoJob}]
  /\ wsaw \in [Workers -> BOOLEAN]
  /\ wres \in [Workers -> {"none", "ok", "failed", "cancelled"}]
  /\ \A w \in Workers : wpc[w] # "idle" => wjob[w] \in Jobs

WorkerInit ==
  /\ wpc = [w \in Workers |-> "idle"]
  /\ wjob = [w \in Workers |-> NoJob]
  /\ wsaw = [w \in Workers |-> FALSE]
  /\ wres = [w \in Workers |-> "none"]

Go(w, from, to) == wpc[w] = from /\ wpc' = [wpc EXCEPT ![w] = to]
Flagged(w) == wjob[w] \in flag
Return(w, r) == wres' = [wres EXCEPT ![w] = r]

(* The process lets go of its task and is free for the next message.       *)
Free(w) ==
  /\ wpc' = [wpc EXCEPT ![w] = "idle"]
  /\ wjob' = [wjob EXCEPT ![w] = NoJob]
  /\ wsaw' = [wsaw EXCEPT ![w] = FALSE]
  /\ wres' = [wres EXCEPT ![w] = "none"]

Take(w, j) ==
  /\ j \in queue \ revoked
  /\ Go(w, "idle", "load")
  /\ queue' = queue \ {j}
  /\ wjob' = [wjob EXCEPT ![w] = j]
  /\ UNCHANGED <<wsaw, wres, redisVars, status, revoked, historyVars, faults>>

(* A revoked message is acknowledged without running.                      *)
Discard(j) ==
  /\ j \in queue \cap revoked
  /\ queue' = queue \ {j}
  /\ UNCHANGED <<workerVars, redisVars, status, revoked, historyVars, faults>>

(* A read of the row keeps a copy, which the check that follows uses.      *)
ReadRow(w, from, to) ==
  /\ Go(w, from, to)
  /\ wsaw' = [wsaw EXCEPT ![w] = (status[wjob[w]] = "CANCELLED")]
  /\ UNCHANGED <<wjob, wres, sharedVars>>

Load(w) == ReadRow(w, "load", "precheck")

(* Cancelled: release the lock and clear the flags; else enter the try.    *)
Precheck(w) ==
  /\ Go(w, "precheck", IF wsaw[w] \/ Flagged(w) THEN "release" ELSE "start")
  /\ UNCHANGED <<wjob, wsaw, wres, sharedVars>>

(* _update_job saves PROCESSING over whatever the row holds by now.        *)
Start(w) ==
  /\ Go(w, "start", "check2")
  /\ status' = [status EXCEPT ![wjob[w]] = "PROCESSING"]
  /\ UNCHANGED <<wjob, wsaw, wres, redisVars, brokerVars, historyVars, faults>>

(* Not flagged: the adapter opens the snapshot transaction.                *)
Check2(w) ==
  /\ Go(w, "check2", IF Flagged(w) THEN "release" ELSE "stream")
  /\ UNCHANGED <<wjob, wsaw, wres, sharedVars>>

(* A poll finds the flag: the writer is dropped, the transaction undone.   *)
Abort(w, from) ==
  /\ Go(w, from, "after")
  /\ Flagged(w)
  /\ Return(w, "cancelled")
  /\ UNCHANGED <<wjob, wsaw, sharedVars>>

(* One of the polls in the middle of the streams; unflagged ones only save *)
(* the progress columns.                                                   *)
StreamAborts(w) == Abort(w, "stream")

(* Opening or reading a stream, or writing a batch, failed.                *)
StreamFails(w) ==
  /\ Go(w, "stream", "except")
  /\ UNCHANGED <<wjob, wsaw, wres, sharedVars>>

StreamEnds(w) ==
  /\ Go(w, "stream", "lastpoll")
  /\ UNCHANGED <<wjob, wsaw, wres, sharedVars>>

LastPollAborts(w) == Abort(w, "lastpoll")

(* Mutant: the answer of the 95 % callback is ignored.                     *)
LastPollPasses_Unchecked(w) ==
  /\ Go(w, "lastpoll", "commit")
  /\ polled' = polled \cup {wjob[w]}
  /\ UNCHANGED <<wjob, wsaw, wres, redisVars, status, brokerVars, breach,
                 intime, committed, faults>>

LastPollPasses(w) ==
  /\ Go(w, "lastpoll", "commit")
  /\ ~Flagged(w)
  /\ polled' = polled \cup {wjob[w]}
  /\ UNCHANGED <<wjob, wsaw, wres, redisVars, status, brokerVars, breach,
                 intime, committed, faults>>

Commit(w) ==
  /\ Go(w, "commit", "after")
  /\ Return(w, "ok")
  /\ committed' = committed \cup {wjob[w]}
  /\ UNCHANGED <<wjob, wsaw, redisVars, status, brokerVars, breach, polled,
                 intime, faults>>

(* A commit error is a result with success = false, not an exception.      *)
CommitFails(w) ==
  /\ Go(w, "commit", "after")
  /\ Return(w, "failed")
  /\ UNCHANGED <<wjob, wsaw, sharedVars>>

Refresh(w) == ReadRow(w, "after", "check3")

Check3(w) ==
  /\ Go(w, "check3", IF wsaw[w] \/ Flagged(w) \/ wres[w] = "cancelled"
                     THEN "release" ELSE "final")
  /\ UNCHANGED <<wjob, wsaw, wres, sharedVars>>

(* Mutant: result.success is not looked at.                                *)
Final_AlwaysCompleted(w) ==
  /\ Go(w, "final", "release")
  /\ status' = [status EXCEPT ![wjob[w]] = "COMPLETED"]
  /\ UNCHANGED <<wjob, wsaw, wres, redisVars, brokerVars, historyVars, faults>>

(* The final save; a failed result is then raised into the except block.   *)
Final(w) ==
  /\ Go(w, "final", IF wres[w] = "ok" THEN "release" ELSE "except")
  /\ status' = [status EXCEPT ![wjob[w]] =
                  IF wres[w] = "ok" THEN "COMPLETED" ELSE "FAILED"]
  /\ UNCHANGED <<wjob, wsaw, wres, redisVars, brokerVars, historyVars, faults>>

ExceptRefresh(w) == ReadRow(w, "except", "check4")

(* Mutant: the exception is swallowed.                                     *)
Check4_Swallows(w) ==
  /\ Go(w, "check4", "release")
  /\ UNCHANGED <<wjob, wsaw, wres, sharedVars>>

Check4(w) ==
  /\ Go(w, "check4", IF wsaw[w] \/ Flagged(w) THEN "release" ELSE "markfailed")
  /\ UNCHANGED <<wjob, wsaw, wres, sharedVars>>

(* Mutant: the raise leaves the task without its finally block.            *)
MarkFailed_NoFinally(w) ==
  /\ Go(w, "markfailed", "clear")
  /\ status' = [status EXCEPT ![wjob[w]] = "FAILED"]
  /\ UNCHANGED <<wjob, wsaw, wres, redisVars, brokerVars, historyVars, faults>>

MarkFailed(w) ==
  /\ Go(w, "markfailed", "release")
  /\ status' = [status EXCEPT ![wjob[w]] = "FAILED"]
  /\ UNCHANGED <<wjob, wsaw, wres, redisVars, brokerVars, historyVars, faults>>

(* The finally block, and the same two calls after the first check.        *)
Release(w) ==
  /\ Go(w, "release", "clear")
  /\ lock' = LockWithout(wjob[w])
  /\ UNCHANGED <<wjob, wsaw, wres, flag, taskKey, status, brokerVars,
                 historyVars, faults>>

(* clear_cancel_flags; the task ends and its message is acknowledged.      *)
Clear(w) ==
  /\ wpc[w] = "clear"
  /\ flag' = flag \ {wjob[w]}
  /\ taskKey' = taskKey \ {wjob[w]}
  /\ Free(w)
  /\ UNCHANGED <<lock, status, brokerVars, historyVars, faults>>

WorkerStep(w) ==
  \/ Load(w) \/ Precheck(w) \/ Start(w) \/ Check2(w)
  \/ StreamAborts(w) \/ StreamFails(w) \/ StreamEnds(w)
  \/ LastPollAborts(w) \/ LastPollPasses(w) \/ Commit(w) \/ CommitFails(w)
  \/ Refresh(w) \/ Check3(w) \/ Final(w)
  \/ ExceptRefresh(w) \/ Check4(w) \/ MarkFailed(w)
  \/ Release(w) \/ Clear(w)

-----------------------------------------------------------------------------
(* Faults.                                                                 *)

(* A Redis or database call raises: outside the try the task just ends,    *)
(* inside it the except block runs, inside that the finally block does.    *)
(* The commit does not raise: run_pipeline turns its error into a result.  *)
StepRaises(w) ==
  /\ Fault
  /\ wpc[w] # "idle"
  /\ \/ /\ wpc[w] \in {"load", "precheck", "release", "clear"}
        /\ Free(w)
     \/ /\ wpc[w] \in InTry \ {"commit"}
        /\ wpc' = [wpc EXCEPT ![w] = "except"]
        /\ UNCHANGED <<wjob, wsaw, wres>>
     \/ /\ wpc[w] \in InExcept
        /\ wpc' = [wpc EXCEPT ![w] = "release"]
        /\ UNCHANGED <<wjob, wsaw, wres>>
  /\ UNCHANGED <<redisVars, status, brokerVars, historyVars>>

(* The server commits but the answer is lost.                              *)
CommitUnacked(w) ==
  /\ Fault
  /\ Go(w, "commit", "after")
  /\ Return(w, "failed")
  /\ committed' = committed \cup {wjob[w]}
  /\ UNCHANGED <<wjob, wsaw, redisVars, status, brokerVars, breach, polled, intime>>

(* The pool process is killed.  task_reject_on_worker_lost is not set, so  *)
(* the message is acknowledged; PostgreSQL undoes the open transaction.    *)
ChildLost(w) ==
  /\ Fault
  /\ wpc[w] # "idle"
  /\ Free(w)
  /\ UNCHANGED <<redisVars, status, brokerVars, historyVars>>

(* The broker's visibility timeout passes during a run: the message, not   *)
(* yet acknowledged, is delivered again.                                   *)
Redeliver(w) ==
  /\ Fault
  /\ wpc[w] # "idle"
  /\ queue' = queue \cup {wjob[w]}
  /\ breach' = Breached(wjob[w], "redelivered")
  /\ UNCHANGED <<workerVars, redisVars, status, revoked, polled, intime, committed>>

(* The whole worker restarts: unacknowledged messages come back and the    *)
(* list of revoked ids, kept in memory, is forgotten.                      *)
WorkerRestart ==
  /\ Fault
  /\ LET running == {wjob[w] : w \in {v \in Workers : wpc[v] # "idle"}}
     IN  /\ running # {}
         /\ queue' = queue \cup running
         /\ breach' = [j \in Jobs |-> IF j \in running
                        THEN breach[j] \cup {"redelivered"} ELSE breach[j]]
  /\ revoked' = {}
  /\ wpc' = [w \in Workers |-> "idle"]
  /\ wjob' = [w \in Workers |-> NoJob]
  /\ wsaw' = [w \in Workers |-> FALSE]
  /\ wres' = [w \in Workers |-> "none"]
  /\ UNCHANGED <<redisVars, status, polled, intime, committed>>

WorkerFault(w) ==
  StepRaises(w) \/ CommitUnacked(w) \/ ChildLost(w) \/ Redeliver(w)
=============================================================================

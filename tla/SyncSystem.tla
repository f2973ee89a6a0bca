------------------------------ MODULE SyncSystem ------------------------------
(***************************************************************************)
(* The sync control plane: web requests, cancellations and workers acting  *)
(* on the shared Redis keys, job rows and broker queue, and the properties *)
(* of the whole.                                                           *)
(***************************************************************************)
EXTENDS SyncGateway, CancelSync, SyncWorker

vars == <<sharedVars, gatewayVars, cancelVars, workerVars>>

Init == SharedInit /\ GatewayInit /\ CancelInit /\ WorkerInit

ByRequest(j) == RequestStep(j) /\ UNCHANGED <<cancelVars, workerVars>>
ByView(v) == ViewStep(v) /\ UNCHANGED <<cancelVars, workerVars>>
ByCancelStart(c) ==
  \E j \in Jobs : CancelRead(c, j) /\ UNCHANGED <<gatewayVars, workerVars>>
ByCancel(c) == CancelStep(c) /\ UNCHANGED <<gatewayVars, workerVars>>
ByTake(w) == \E j \in Jobs : Take(w, j) /\ UNCHANGED <<gatewayVars, cancelVars>>
ByDiscard(j) == Discard(j) /\ UNCHANGED <<gatewayVars, cancelVars>>
ByWorker(w) == WorkerStep(w) /\ UNCHANGED <<gatewayVars, cancelVars>>

ByFault ==
  \/ /\ \E j \in Jobs : RequestDies(j)
     /\ UNCHANGED <<cancelVars, workerVars>>
  \/ /\ \E c \in Cancellers : CancelDies(c)
     /\ UNCHANGED <<gatewayVars, workerVars>>
  \/ /\ (\E w \in Workers : WorkerFault(w)) \/ WorkerRestart
     /\ UNCHANGED <<gatewayVars, cancelVars>>
  \/ /\ \E s \in Slices : LockExpires(s)
     /\ UNCHANGED <<gatewayVars, cancelVars, workerVars>>

Next ==
  \/ \E j \in Jobs : ByRequest(j) \/ ByDiscard(j)
  \/ \E v \in Viewers : ByView(v)
  \/ \E c \in Cancellers : ByCancelStart(c) \/ ByCancel(c)
  \/ \E w \in Workers : ByTake(w) \/ ByWorker(w)
  \/ ByFault

Spec == Init /\ [][Next]_vars

(* A web thread in the middle of a request finishes it; a task that was    *)
(* started runs on (bank calls time out after 300 s, pipeline.rs:226, so a *)
(* stream ends or fails); every waiting message reaches a free process in  *)
(* the end; nobody has to ask for a sync state or a cancellation, and      *)
(* faults are never due.                                                   *)
Fairness ==
  /\ \A j \in Jobs : WF_vars(ByRequest(j)) /\ WF_vars(ByDiscard(j))
  /\ \A c \in Cancellers : WF_vars(ByCancel(c))
  /\ \A w \in Workers : WF_vars(ByWorker(w))
  /\ \A j \in Jobs :
       WF_vars(\E w \in Workers : Take(w, j) /\ UNCHANGED <<gatewayVars, cancelVars>>)

FairSpec == Spec /\ Fairness

-----------------------------------------------------------------------------
(* Types.                                                                  *)

(* Every variable has its type: locks name jobs or nothing, rows hold one  *)
(* of the statuses of models.py, each thread and process is at a point of  *)
(* its code.                                                               *)
TypeOK == SharedTypeOK /\ GatewayTypeOK /\ CancelTypeOK /\ WorkerTypeOK

-----------------------------------------------------------------------------
(* Mutual exclusion on a slice.                                            *)

Runs(w, j) == wpc[w] # "idle" /\ wjob[w] = j
Overlap(v, w) ==
  /\ v # w
  /\ wpc[v] \in Writing /\ wpc[w] \in Writing
  /\ SliceOf[wjob[v]] = SliceOf[wjob[w]]

(* Two snapshot transactions are open on one slice only after one of the   *)
(* two jobs lost its lock, or its claim to run once, in one of four ways:  *)
(* the 4 h expiry, an orphan drop, a cancel that read QUEUED, a            *)
(* redelivery.  No order of the remaining steps of views.py and tasks.py   *)
(* lets a second writer in.                                                *)
OverlapNeedsBreach ==
  \A v, w \in Workers :
    Overlap(v, w) => breach[wjob[v]] \cup breach[wjob[w]] # {}

(* A run that has its snapshot transaction open owns the slice's lock,     *)
(* unless the lock was taken from it in a way the history names.           *)
WriterHoldsLock ==
  \A w \in Workers :
    wpc[w] \in Writing => Holds(wjob[w]) \/ breach[wjob[w]] # {}

(* What Architecture.md says of the lock: "the same tenant+loan_type pair  *)
(* is serialized by the Redis lock".                                       *)
SliceSerialized == \A v, w \in Workers : ~Overlap(v, w)

(* What cancel_sync.py says of the lock it frees: the job "never enters    *)
(* the worker finally", no writer has started.                             *)
FreedByCancelNeverWrites ==
  \A w \in Workers : wpc[w] \in Writing => "cancelled" \notin breach[wjob[w]]

-----------------------------------------------------------------------------
(* What the row tells the user.                                            *)

(* A COMPLETED row means the snapshot was committed, and, as long as       *)
(* nothing crashed, a FAILED row means it was not: the status never        *)
(* misreports the slice, whatever cancels and second writers do.           *)
OutcomeTruthful ==
  \A j \in Jobs :
    /\ status[j] = "COMPLETED" => j \in committed
    /\ status[j] = "FAILED" /\ faults = 0 => j \notin committed

(* A cancel that set its flag before the run's last poll stops the run     *)
(* before the commit, unless the broker delivered the message twice (the   *)
(* other run's finally may have deleted the flag).                         *)
CancelInTimeStops ==
  \A j \in intime : "redelivered" \in breach[j] \/ j \notin committed

(* The task's first statement, ETLJob.objects.get, finds the row: no       *)
(* message is visible to a worker before its row is.                       *)
TaskFindsItsRow ==
  /\ \A j \in queue : status[j] # "absent"
  /\ \A w \in Workers : wpc[w] # "idle" => status[wjob[w]] # "absent"

-----------------------------------------------------------------------------
(* The inductive invariant behind OverlapNeedsBreach and CancelInTimeStops *)

Redelivered(j) == "redelivered" \in breach[j]

(* The job's run is still to come or under way.                            *)
Live(j) ==
  rpc[j] \in Starting \/ j \in queue \/ \E w \in Workers : Runs(w, j)

(* The row comes before the message, and before any cancel or run.         *)
RowFirst ==
  /\ \A j \in Jobs :
       /\ rpc[j] \in {"enqueue", "store", "accepted"} => status[j] # "absent"
       /\ status[j] # "absent" => rpc[j] \in {"enqueue", "store", "accepted", "died"}
       /\ j \in queue \cup intime => status[j] # "absent"
  /\ \A w \in Workers : wpc[w] # "idle" => status[wjob[w]] # "absent"
  /\ \A c \in Cancellers : cpc[c] # "idle" => status[cjob[c]] # "absent"

(* Nothing is published before the request reached delay().                *)
NotYetPublished ==
  \A j \in Jobs : rpc[j] \notin {"store", "accepted", "died"} =>
    j \notin queue /\ \A w \in Workers : ~Runs(w, j)

(* A message delivered once is either waiting or run by one process.       *)
OneRun ==
  \A j \in Jobs : ~Redelivered(j) =>
    /\ j \in queue => \A w \in Workers : ~Runs(w, j)
    /\ \A v, w \in Workers : Runs(v, j) /\ Runs(w, j) => v = w

(* From the grant to the finally block, an unbreached job holds its lock.  *)
OwnerHolds ==
  \A j \in Jobs :
    /\ breach[j] = {}
    /\ \/ rpc[j] \in Starting
       \/ j \in queue
       \/ \E w \in Workers : Runs(w, j) /\ wpc[w] # "clear"
    => Holds(j)

(* A timely cancel flag stays up while the job has a run ahead of it.      *)
FlagKept ==
  \A j \in intime : ~Redelivered(j) => j \notin polled /\ (Live(j) => j \in flag)

(* A commit comes after the last poll.                                     *)
CommitPolled ==
  /\ committed \subseteq polled
  /\ \A w \in Workers : wpc[w] = "commit" => wjob[w] \in polled

(* The claim that is proved inductive: who may be where, who owns the      *)
(* slice and which flag is up, in every reachable state of tasks.py,       *)
(* views.py and cancel_sync.py.                                            *)
ControlInv ==
  TypeOK /\ RowFirst /\ NotYetPublished /\ OneRun /\ OwnerHolds /\ FlagKept /\ CommitPolled

-----------------------------------------------------------------------------
(* cancel_sync.py: only queued or processing jobs can be cancelled.        *)
FinishedNeverCancelled ==
  [][\A j \in Jobs : status[j] \in {"COMPLETED", "FAILED"}
                       => status'[j] # "CANCELLED"]_vars

-----------------------------------------------------------------------------
(* The lock is always given back.                                          *)

(* Without crashes, whoever holds a slice still has somebody who will free *)
(* it: its request on the way to publish, its message in the queue, a run  *)
(* before the end of its finally block, or the cancel that revoked it.     *)
LockHasReleaser ==
  faults = 0 => \A j \in Jobs : Holds(j) =>
    \/ rpc[j] \in Starting
    \/ j \in queue
    \/ \E w \in Workers : Runs(w, j) /\ wpc[w] # "clear"
    \/ \E c \in Cancellers :
         cjob[c] = j /\ cqueued[c] /\ cpc[c] \in {"mark", "revoke", "save", "release"}

(* Without crashes no job keeps a slice for ever: each holder lets go.     *)
LockFreed == \A j \in Jobs : Holds(j) ~> ~Holds(j)

(* Every accepted job comes to a final status, unless a cancel flag is set *)
(* before its run's last poll.                                             *)
JobTerminates ==
  \A j \in Jobs : status[j] \in Active ~> status[j] \in Terminal \/ j \in intime

(* Architecture.md's sequence: polling, which goes on while the row is     *)
(* QUEUED or PROCESSING, sees a terminal status.                           *)
PollingSeesTerminal ==
  \A j \in Jobs : status[j] \in Active ~> status[j] \in Terminal
=============================================================================

------------------------------ MODULE SyncState ------------------------------
(***************************************************************************)
(* The state that the parts of the sync control plane share: Redis (slice  *)
(* locks, cancel flags, Celery task keys), the ETLJob rows, and the Celery *)
(* broker.  A slice is a (tenant_id, loan_type) pair.  A job stands for    *)
(* one POST /sync request: every request draws a fresh uuid as its job id. *)
(***************************************************************************)
EXTENDS Naturals, FiniteSets

CONSTANTS Jobs,      \* job ids, one per POST /sync request
          Slices,    \* (tenant, loan type) pairs
          SliceOf,   \* the slice each job syncs
          NoJob,     \* no lock value
          MaxFaults  \* bound: crashes, expiries and redeliveries in a behaviour

ASSUME SliceOfAssumption == SliceOf \in [Jobs -> Slices]
ASSUME NoJobAssumption == NoJob \notin Jobs
ASSUME MaxFaultsAssumption == MaxFaults \in Nat

VARIABLES
  lock,      \* Redis lock:{tenant}:{loan_type} -> job id
  flag,      \* jobs with a Redis job:cancel:{job_id} key
  taskKey,   \* jobs with a Redis job:celery:{job_id} key
  status,    \* ETLJob.status, "absent" while there is no row
  queue,     \* jobs with a run_etl_pipeline message waiting in the broker
  revoked,   \* jobs whose task id the worker was told to discard
  (* History, read by the properties and by no guard *)
  breach,    \* how a job lost its lock, or its claim to run once, early
  polled,    \* jobs one of whose runs passed its last cancel poll
  intime,    \* jobs flagged for cancel before that poll
  committed, \* jobs whose snapshot transaction committed
  faults     \* faults so far, at most MaxFaults

redisVars == <<lock, flag, taskKey>>
brokerVars == <<queue, revoked>>
historyVars == <<breach, polled, intime, committed>>
sharedVars == <<redisVars, status, brokerVars, historyVars, faults>>

Statuses == {"absent", "QUEUED", "PROCESSING", "COMPLETED", "FAILED", "CANCELLED"}
Active == {"QUEUED", "PROCESSING"}
Terminal == {"COMPLETED", "FAILED", "CANCELLED"}
Breaches == {"expired", "dropped", "cancelled", "redelivered"}

SharedTypeOK ==
  /\ lock \in [Slices -> Jobs \cup {NoJob}]
  /\ flag \in SUBSET Jobs
  /\ taskKey \in SUBSET Jobs
  /\ status \in [Jobs -> Statuses]
  /\ queue \in SUBSET Jobs
  /\ revoked \in SUBSET Jobs
  /\ breach \in [Jobs -> SUBSET Breaches]
  /\ polled \in SUBSET Jobs
  /\ intime \in SUBSET Jobs
  /\ committed \in SUBSET Jobs
  /\ faults \in Nat

SharedInit ==
  /\ lock = [s \in Slices |-> NoJob]
  /\ flag = {} /\ taskKey = {}
  /\ status = [j \in Jobs |-> "absent"]
  /\ queue = {} /\ revoked = {}
  /\ breach = [j \in Jobs |-> {}]
  /\ polled = {} /\ intime = {} /\ committed = {}
  /\ faults = 0

Holds(j) == lock[SliceOf[j]] = j

(* Mutant: a plain DEL, whoever holds the key.                             *)
LockWithout_AnyOwner(j) == [lock EXCEPT ![SliceOf[j]] = NoJob]

(* release_sync_lock: the Lua script deletes the key only if it still      *)
(* holds the caller's job id.                                              *)
LockWithout(j) ==
  [lock EXCEPT ![SliceOf[j]] = IF @ = j THEN NoJob ELSE @]

(* Record in the history that j lost its lock, or its uniqueness, early.   *)
Breached(j, kind) == [breach EXCEPT ![j] = @ \cup {kind}]

Fault == faults < MaxFaults /\ faults' = faults + 1

(* The key's ex=14400 runs out while its owner is still alive.             *)
LockExpires(s) ==
  /\ Fault
  /\ lock[s] # NoJob
  /\ breach' = Breached(lock[s], "expired")
  /\ lock' = [lock EXCEPT ![s] = NoJob]
  /\ UNCHANGED <<flag, taskKey, status, brokerVars, polled, intime, committed>>
=============================================================================

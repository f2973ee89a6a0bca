----------------------------- MODULE SyncGateway -----------------------------
(***************************************************************************)
(* POST /sync (sync_data) and GET /sync/active (active_sync) of            *)
(* api/apps/etl/views.py.  Django serves them on threads with autocommit,  *)
(* so every Redis command and every SQL statement is a step of its own.    *)
(***************************************************************************)
EXTENDS SyncState

CONSTANT Viewers     \* threads serving GET /sync/active

VARIABLES rpc,       \* where the request of each job stands in sync_data
          tries,     \* acquire_sync_lock calls refused to it so far
          seen,      \* the lock owner its _active_job call read
          vpc,       \* the same for the viewers' _active_job calls
          vseen

gatewayVars == <<rpc, tries, seen, vpc, vseen>>

Starting == {"create", "enqueue"}   \* lock granted, no message published yet
Serving == Starting \cup {"probe", "lookup", "drop", "store"}

GatewayTypeOK ==
  /\ rpc \in [Jobs -> Serving \cup {"acquire", "accepted", "rejected", "died"}]
  /\ tries \in [Jobs -> 0..2]
  /\ seen \in [Jobs -> Jobs \cup {NoJob}]
  /\ vpc \in [Viewers -> {"idle", "lookup", "drop"}]
  /\ vseen \in [Viewers -> Jobs \cup {NoJob}]
  /\ \A j \in Jobs : rpc[j] = "acquire" => tries[j] < 2
  /\ \A j \in Jobs : rpc[j] \in {"lookup", "drop"} => seen[j] \in Jobs
  /\ \A v \in Viewers : vpc[v] # "idle" => vseen[v] \in Jobs

GatewayInit ==
  /\ rpc = [j \in Jobs |-> "acquire"]
  /\ tries = [j \in Jobs |-> 0]
  /\ seen = [j \in Jobs |-> NoJob]
  /\ vpc = [v \in Viewers |-> "idle"]
  /\ vseen = [v \in Viewers |-> NoJob]

Reply(j, from, to) == rpc[j] = from /\ rpc' = [rpc EXCEPT ![j] = to]

(* Mutant: SET without NX.                                                 *)
AcquireGranted_NoNx(j) ==
  /\ Reply(j, "acquire", "create")
  /\ lock' = [lock EXCEPT ![SliceOf[j]] = j]
  /\ UNCHANGED <<tries, seen, vpc, vseen, flag, taskKey, status, brokerVars,
                 historyVars, faults>>

(* SET NX finds no key and takes the slice.                                *)
AcquireGranted(j) ==
  /\ Reply(j, "acquire", "create")
  /\ lock[SliceOf[j]] = NoJob
  /\ lock' = [lock EXCEPT ![SliceOf[j]] = j]
  /\ UNCHANGED <<tries, seen, vpc, vseen, flag, taskKey, status,
                 brokerVars, historyVars, faults>>

AcquireDenied(j) ==
  /\ Reply(j, "acquire", "probe")
  /\ lock[SliceOf[j]] # NoJob
  /\ tries' = [tries EXCEPT ![j] = @ + 1]
  /\ UNCHANGED <<seen, vpc, vseen, sharedVars>>

(* What sync_data does when _active_job returned None: a second attempt    *)
(* after the first refusal, 409 after the second.                          *)
AfterNone(j) == IF tries[j] = 1 THEN "acquire" ELSE "rejected"

(* Mutant: no test for a missing key.                                      *)
Probe_Unchecked(j) ==
  /\ seen' = [seen EXCEPT ![j] = lock[SliceOf[j]]]
  /\ Reply(j, "probe", "lookup")
  /\ UNCHANGED <<tries, vpc, vseen, sharedVars>>

(* _active_job reads the lock owner ...                                    *)
Probe(j) ==
  /\ seen' = [seen EXCEPT ![j] = lock[SliceOf[j]]]
  /\ Reply(j, "probe", IF lock[SliceOf[j]] = NoJob THEN AfterNone(j) ELSE "lookup")
  /\ UNCHANGED <<tries, vpc, vseen, sharedVars>>

(* ... then its ETLJob row; a row found means 409 ...                      *)
Lookup(j) ==
  /\ Reply(j, "lookup", IF status[seen[j]] = "absent" THEN "drop" ELSE "rejected")
  /\ UNCHANGED <<tries, seen, vpc, vseen, sharedVars>>

(* An orphan lock is dropped on behalf of the owner that was read; a lock  *)
(* only ever names a job of its own slice, so SliceOf gives the key.       *)
DropLock(owner) ==
  /\ lock' = LockWithout(owner)
  /\ breach' = IF Holds(owner) THEN Breached(owner, "dropped") ELSE breach

Drop(j) ==
  /\ Reply(j, "drop", AfterNone(j))
  /\ DropLock(seen[j])
  /\ UNCHANGED <<tries, seen, vpc, vseen, flag, taskKey, status,
                 brokerVars, polled, intime, committed, faults>>

Create(j) ==
  /\ Reply(j, "create", "enqueue")
  /\ status' = [status EXCEPT ![j] = "QUEUED"]
  /\ UNCHANGED <<tries, seen, vpc, vseen, redisVars, brokerVars,
                 historyVars, faults>>

(* Mutant: the message goes out while the row is still being created.      *)
Enqueue_BeforeRow(j) ==
  /\ rpc[j] = "create" /\ j \notin queue
  /\ queue' = queue \cup {j}
  /\ UNCHANGED <<gatewayVars, redisVars, status, revoked, historyVars, faults>>

Enqueue(j) ==
  /\ Reply(j, "enqueue", "store")
  /\ queue' = queue \cup {j}
  /\ UNCHANGED <<tries, seen, vpc, vseen, redisVars, status, revoked,
                 historyVars, faults>>

Store(j) ==
  /\ Reply(j, "store", "accepted")
  /\ taskKey' = taskKey \cup {j}
  /\ UNCHANGED <<tries, seen, vpc, vseen, lock, flag, status, brokerVars,
                 historyVars, faults>>

(* Redis, PostgreSQL or the process fails under the request: sync_data has *)
(* no handler, so nothing already done is undone.                          *)
RequestDies(j) ==
  /\ Fault
  /\ rpc[j] \in Serving
  /\ rpc' = [rpc EXCEPT ![j] = "died"]
  /\ UNCHANGED <<tries, seen, vpc, vseen, redisVars, status, brokerVars,
                 historyVars>>

View(v, from, to) == vpc[v] = from /\ vpc' = [vpc EXCEPT ![v] = to]

(* active_sync calls the same _active_job for any slice.                   *)
ViewProbe(v) == \E s \in Slices :
  /\ View(v, "idle", IF lock[s] = NoJob THEN "idle" ELSE "lookup")
  /\ vseen' = [vseen EXCEPT ![v] = lock[s]]
  /\ UNCHANGED <<rpc, tries, seen, sharedVars>>

ViewLookup(v) ==
  /\ View(v, "lookup", IF status[vseen[v]] = "absent" THEN "drop" ELSE "idle")
  /\ UNCHANGED <<rpc, tries, seen, vseen, sharedVars>>

ViewDrop(v) ==
  /\ View(v, "drop", "idle")
  /\ DropLock(vseen[v])
  /\ UNCHANGED <<rpc, tries, seen, vseen, flag, taskKey, status,
                 brokerVars, polled, intime, committed, faults>>

RequestStep(j) ==
  \/ AcquireGranted(j) \/ AcquireDenied(j)
  \/ Probe(j) \/ Lookup(j) \/ Drop(j)
  \/ Create(j) \/ Enqueue(j) \/ Store(j)

ViewStep(v) == ViewProbe(v) \/ ViewLookup(v) \/ ViewDrop(v)
=============================================================================

--------------------------- MODULE SyncSystemProofs ---------------------------
(***************************************************************************)
(* Theorems about SyncSystem, for every set of jobs, slices, threads and   *)
(* worker processes and every number of faults.                            *)
(***************************************************************************)
EXTENDS SyncSystem, TLAPS

-----------------------------------------------------------------------------
(* Types.  One lemma per actor; the inner steps are its actions.           *)

(* Every variable starts with its type.                                    *)
LEMMA InitTypes == Init => TypeOK
BY DEF Init, SharedInit, GatewayInit, CancelInit, WorkerInit, TypeOK, SharedTypeOK,
   GatewayTypeOK, CancelTypeOK, WorkerTypeOK, Statuses, Serving, Starting,
   CancelPoints, WorkerPoints

(* sync_data keeps the types.                                              *)
LEMMA RequestTypes ==
  ASSUME TypeOK, NEW j \in Jobs, ByRequest(j) PROVE TypeOK'
<1> USE DEF TypeOK, SharedTypeOK, GatewayTypeOK, CancelTypeOK, WorkerTypeOK,
        sharedVars, redisVars, brokerVars, historyVars, cancelVars,
        workerVars, ByRequest, Statuses, Serving, Starting, Reply
<1>1. CASE AcquireGranted(j) BY <1>1, SliceOfAssumption DEF AcquireGranted
<1>2. CASE AcquireDenied(j) BY <1>2, SliceOfAssumption DEF AcquireDenied
<1>3. CASE Probe(j)
  <2>1. seen' \in [Jobs -> Jobs \cup {NoJob}] BY <1>3, SliceOfAssumption DEF Probe
  <2>2. CASE lock[SliceOf[j]] = NoJob BY <1>3, <2>1, <2>2 DEF Probe, AfterNone
  <2>3. CASE lock[SliceOf[j]] # NoJob
    <3>1. lock[SliceOf[j]] \in Jobs BY <2>3, SliceOfAssumption
    <3> QED BY <1>3, <2>1, <2>3, <3>1 DEF Probe
  <2> QED BY <2>2, <2>3
<1>4. CASE Lookup(j)
  <2>1. CASE status[seen[j]] = "absent" BY <1>4, <2>1 DEF Lookup
  <2>2. CASE status[seen[j]] # "absent" BY <1>4, <2>2 DEF Lookup
  <2> QED BY <2>1, <2>2
<1>5. CASE Drop(j)
  <2>1. SharedTypeOK'
    BY <1>5, SliceOfAssumption DEF Drop, DropLock, LockWithout, Breached, Breaches, Holds
  <2>2. CASE tries[j] = 1
    <3>1. rpc' = [rpc EXCEPT ![j] = "acquire"] BY <1>5, <2>2 DEF Drop, AfterNone
    <3>2. GatewayTypeOK' BY <1>5, <2>2, <3>1 DEF Drop
    <3> QED BY <1>5, <2>1, <3>2 DEF Drop
  <2>3. CASE tries[j] # 1 BY <1>5, <2>1, <2>3 DEF Drop, AfterNone
  <2> QED BY <2>2, <2>3
<1>6. CASE Create(j) BY <1>6 DEF Create
<1>7. CASE Enqueue(j) BY <1>7 DEF Enqueue
<1>8. CASE Store(j) BY <1>8 DEF Store
<1> QED BY <1>1, <1>2, <1>3, <1>4, <1>5, <1>6, <1>7, <1>8 DEF RequestStep

(* active_sync keeps the types.                                            *)
LEMMA ViewTypes ==
  ASSUME TypeOK, NEW v \in Viewers, ByView(v) PROVE TypeOK'
<1> USE DEF TypeOK, SharedTypeOK, GatewayTypeOK, CancelTypeOK, WorkerTypeOK,
        sharedVars, redisVars, brokerVars, historyVars, cancelVars,
        workerVars, ByView, View
<1>1. CASE ViewProbe(v) BY <1>1, SliceOfAssumption DEF ViewProbe
<1>2. CASE ViewLookup(v) BY <1>2 DEF ViewLookup
<1>3. CASE ViewDrop(v) BY <1>3, SliceOfAssumption DEF ViewDrop, DropLock,
     LockWithout, Breached, Breaches, Holds
<1> QED BY <1>1, <1>2, <1>3 DEF ViewStep

(* cancel_sync_job keeps the types.                                        *)
LEMMA CancelTypes ==
  ASSUME TypeOK, NEW c \in Cancellers, ByCancelStart(c) \/ ByCancel(c) PROVE TypeOK'
<1> USE DEF TypeOK, SharedTypeOK, GatewayTypeOK, CancelTypeOK, WorkerTypeOK,
        sharedVars, redisVars, brokerVars, historyVars, gatewayVars,
        workerVars, ByCancelStart, ByCancel, Step, CancelPoints
<1>1. CASE ByCancelStart(c) BY <1>1 DEF CancelRead
<1>2. CASE CancelMark(c) BY <1>2 DEF CancelMark
<1>3. CASE CancelRevoke(c) BY <1>3 DEF CancelRevoke
<1>4. CASE CancelSave(c) BY <1>4 DEF CancelSave, Statuses
<1>5. CASE CancelRelease(c) BY <1>5, SliceOfAssumption DEF CancelRelease,
     LockWithout, Breached, Breaches, Holds
<1>6. CASE CancelForget(c) BY <1>6 DEF CancelForget
<1> QED BY <1>1, <1>2, <1>3, <1>4, <1>5, <1>6 DEF CancelStep

(* The task keeps the types.                                               *)
LEMMA WorkerTypes ==
  ASSUME TypeOK, NEW w \in Workers, ByTake(w) \/ ByWorker(w) PROVE TypeOK'
<1> USE DEF TypeOK, SharedTypeOK, GatewayTypeOK, CancelTypeOK, WorkerTypeOK,
        sharedVars, redisVars, brokerVars, historyVars, gatewayVars,
        cancelVars, workerVars, ByTake, ByWorker, Go, Return, WorkerPoints, InTry,
        InExcept, Writing
<1>1. CASE ByTake(w) BY <1>1 DEF Take
<1>2. CASE Load(w) BY <1>2 DEF Load, ReadRow
<1>3. CASE Precheck(w) BY <1>3 DEF Precheck, Flagged
<1>4. CASE Start(w) BY <1>4 DEF Start, Statuses
<1>5. CASE Check2(w) BY <1>5 DEF Check2, Flagged
<1>6. CASE StreamAborts(w) \/ LastPollAborts(w) BY <1>6 DEF StreamAborts,
     LastPollAborts, Abort
<1>7. CASE StreamFails(w) BY <1>7 DEF StreamFails
<1>8. CASE StreamEnds(w) BY <1>8 DEF StreamEnds
<1>9. CASE LastPollPasses(w) BY <1>9 DEF LastPollPasses
<1>10. CASE Commit(w) BY <1>10 DEF Commit
<1>11. CASE CommitFails(w) BY <1>11 DEF CommitFails
<1>12. CASE Refresh(w) BY <1>12 DEF Refresh, ReadRow
<1>13. CASE Check3(w) BY <1>13 DEF Check3, Flagged
<1>14. CASE Final(w) BY <1>14 DEF Final, Statuses
<1>15. CASE ExceptRefresh(w) BY <1>15 DEF ExceptRefresh, ReadRow
<1>16. CASE Check4(w) BY <1>16 DEF Check4, Flagged
<1>17. CASE MarkFailed(w) BY <1>17 DEF MarkFailed, Statuses
<1>18. CASE Release(w) BY <1>18, SliceOfAssumption DEF Release, LockWithout
<1>19. CASE Clear(w) BY <1>19 DEF Clear, Free
<1> QED BY <1>1, <1>2, <1>3, <1>4, <1>5, <1>6, <1>7, <1>8, <1>9, <1>10, <1>11, <1>12, <1>13, <1>14, <1>15, <1>16, <1>17, <1>18, <1>19 DEF WorkerStep

(* Faults, and a discarded message, keep the types.                        *)
LEMMA FaultTypes == TypeOK /\ (ByFault \/ \E j \in Jobs : ByDiscard(j)) => TypeOK'
<1> SUFFICES ASSUME TypeOK, ByFault \/ \E j \in Jobs : ByDiscard(j) PROVE TypeOK'
  OBVIOUS
<1> USE DEF TypeOK, SharedTypeOK, GatewayTypeOK, CancelTypeOK, WorkerTypeOK,
        sharedVars, redisVars, brokerVars, historyVars, gatewayVars, cancelVars,
        workerVars, Fault, Breached, Breaches, Go, Return, Free
<1>1. CASE \E j \in Jobs : ByDiscard(j) BY <1>1 DEF ByDiscard, Discard
<1>2. CASE \E j \in Jobs : RequestDies(j) /\ UNCHANGED <<cancelVars, workerVars>>
  BY <1>2 DEF RequestDies, Serving
<1>3. CASE \E c \in Cancellers : CancelDies(c) /\ UNCHANGED <<gatewayVars, workerVars>>
  BY <1>3 DEF CancelDies, CancelPoints
<1>4. CASE \E w \in Workers : WorkerFault(w) /\ UNCHANGED <<gatewayVars, cancelVars>>
  <2> PICK w \in Workers : WorkerFault(w) /\ UNCHANGED <<gatewayVars, cancelVars>>
    BY <1>4
  <2>1. CASE StepRaises(w)
    <3>1. SharedTypeOK' /\ GatewayTypeOK' /\ CancelTypeOK' BY <2>1 DEF StepRaises
    <3>2. CASE Free(w) BY <2>1, <3>2 DEF StepRaises, WorkerPoints
    <3>3. ASSUME NEW to \in {"except", "release"}, wpc' = [wpc EXCEPT ![w] = to],
                 UNCHANGED <<wjob, wsaw, wres>>, wpc[w] # "idle"
          PROVE  WorkerTypeOK'
      <4>1. to \in WorkerPoints /\ to # "idle" BY DEF WorkerPoints, InExcept
      <4> QED BY <3>3, <4>1
    <3>4. WorkerTypeOK'
      <4>1. wpc[w] # "idle" BY <2>1 DEF StepRaises
      <4>2. \/ Free(w)
            \/ /\ UNCHANGED <<wjob, wsaw, wres>>
               /\ wpc' = [wpc EXCEPT ![w] = "except"] \/ wpc' = [wpc EXCEPT ![w] = "release"]
        BY <2>1 DEF StepRaises
      <4> QED BY <3>2, <3>3, <4>1, <4>2
    <3> QED BY <3>1, <3>4
  <2>2. CASE CommitUnacked(w) BY <2>2 DEF CommitUnacked, WorkerPoints, InTry
  <2>3. CASE ChildLost(w) BY <2>3 DEF ChildLost, WorkerPoints
  <2>4. CASE Redeliver(w) BY <2>4 DEF Redeliver
  <2> QED BY <2>1, <2>2, <2>3, <2>4 DEF WorkerFault
<1>5. CASE WorkerRestart /\ UNCHANGED <<gatewayVars, cancelVars>>
  BY <1>5 DEF WorkerRestart, WorkerPoints
<1>6. CASE \E s \in Slices : LockExpires(s)
             /\ UNCHANGED <<gatewayVars, cancelVars, workerVars>>
  BY <1>6 DEF LockExpires
<1> QED BY <1>1, <1>2, <1>3, <1>4, <1>5, <1>6 DEF ByFault

(* Every step, and a stutter, keeps the types.                             *)
LEMMA NextTypes == TypeOK /\ [Next]_vars => TypeOK'
<1> SUFFICES ASSUME TypeOK, [Next]_vars PROVE TypeOK'
  OBVIOUS
<1>1. CASE UNCHANGED vars
  BY <1>1 DEF vars, TypeOK, SharedTypeOK, GatewayTypeOK, CancelTypeOK, WorkerTypeOK,
     sharedVars, redisVars, brokerVars, historyVars, gatewayVars, cancelVars, workerVars
<1>2. CASE Next
  BY <1>2, RequestTypes, ViewTypes, CancelTypes, WorkerTypes, FaultTypes DEF Next
<1> QED BY <1>1, <1>2

(* In every reachable state of the control plane each variable has its     *)
(* type.                                                                   *)
THEOREM TypeCorrect == Spec => []TypeOK
BY InitTypes, NextTypes, PTL DEF Spec
-----------------------------------------------------------------------------
(* The inductive invariant.                                                *)

(* What ControlInv says beyond the types.                                  *)
Core == NotYetPublished /\ OneRun /\ OwnerHolds /\ FlagKept /\ CommitPolled

(* Before any request nothing is held, published, run or flagged.          *)
LEMMA InitControl == Init => ControlInv
<1> SUFFICES ASSUME Init PROVE ControlInv
  OBVIOUS
<1>1. TypeOK BY InitTypes
<1>2. NotYetPublished /\ OneRun /\ FlagKept /\ CommitPolled
  BY DEF Init, SharedInit, GatewayInit, CancelInit, WorkerInit, NotYetPublished, OneRun,
     FlagKept, CommitPolled, Runs, Live
<1>3. OwnerHolds
  BY DEF Init, SharedInit, GatewayInit, WorkerInit, OwnerHolds, Starting, Runs
<1>4. RowFirst
  BY DEF Init, SharedInit, GatewayInit, CancelInit, WorkerInit, RowFirst
<1> QED BY <1>1, <1>2, <1>3, <1>4 DEF ControlInv

(* A step is quiet when it starts no run, publishes nothing, moves requests *)
(* and runs only within the phases the invariant tells apart, and takes a   *)
(* lock away only with an entry in the history.                             *)
Quiet ==
  /\ UNCHANGED <<flag, polled, intime, committed>>
  /\ queue' \subseteq queue
  /\ \A j \in Jobs :
       /\ breach[j] \subseteq breach'[j]
       /\ Holds(j) => Holds(j)' \/ breach'[j] # {}
       /\ rpc'[j] \in Starting => rpc[j] \in Starting
       /\ rpc'[j] \notin {"store", "accepted", "died"} =>
            rpc[j] \notin {"store", "accepted", "died"}
  /\ \A w \in Workers : wpc'[w] # "idle" =>
       /\ wpc[w] # "idle"
       /\ wjob'[w] = wjob[w]
       /\ wpc[w] = "clear" => wpc'[w] = "clear"
       /\ wpc'[w] = "commit" => wpc[w] = "commit"

(* Quiet steps keep the invariant.                                         *)
LEMMA QuietKeeps == ControlInv /\ Quiet => Core'
<1> SUFFICES ASSUME ControlInv, Quiet PROVE Core'
  OBVIOUS
<1>1. \A j \in Jobs : \A w \in Workers : Runs(w, j)' => Runs(w, j)
  BY DEF Quiet, Runs
<1>2. NotYetPublished' BY <1>1 DEF ControlInv, Quiet, NotYetPublished
<1>3. OneRun' BY <1>1 DEF ControlInv, Quiet, OneRun, Redelivered
<1>4. OwnerHolds' BY <1>1 DEF ControlInv, Quiet, OwnerHolds, Runs
<1>5. FlagKept'
  <2>1. \A j \in Jobs : Live(j)' => Live(j) BY <1>1 DEF Quiet, Live
  <2> QED BY <2>1 DEF ControlInv, TypeOK, SharedTypeOK, Quiet, FlagKept, Redelivered
<1>6. CommitPolled' BY DEF ControlInv, Quiet, CommitPolled
<1> QED BY <1>2, <1>3, <1>4, <1>5, <1>6 DEF Core

(* Requests.  Only the grant and the publication are not quiet.            *)
LEMMA RequestCore ==
  ASSUME ControlInv, NEW j \in Jobs, ByRequest(j) PROVE Core'
<1> USE DEF ControlInv, TypeOK, SharedTypeOK, GatewayTypeOK, sharedVars, redisVars,
        brokerVars, historyVars, cancelVars, workerVars, ByRequest, Reply, Starting
<1>1. CASE AcquireGranted(j)
  <2> USE <1>1 DEF AcquireGranted
  <2>1. lock[SliceOf[j]] = NoJob /\ lock' = [lock EXCEPT ![SliceOf[j]] = j]
    OBVIOUS
  <2>2. \A k \in Jobs : Holds(k) \/ k = j => Holds(k)'
    BY <2>1, SliceOfAssumption, NoJobAssumption DEF Holds
  <2>3. NotYetPublished' BY DEF NotYetPublished, Runs
  <2>4. OneRun' BY DEF OneRun, Runs, Redelivered
  <2>5. OwnerHolds' BY <2>2 DEF OwnerHolds, Runs
  <2>6. FlagKept'
    <3>1. j \notin intime \/ Redelivered(j) BY DEF FlagKept, RowFirst
    <3> QED BY <3>1 DEF FlagKept, Runs, Redelivered, Live
  <2>7. CommitPolled' BY DEF CommitPolled
  <2> QED BY <2>3, <2>4, <2>5, <2>6, <2>7 DEF Core
<1>2. CASE AcquireDenied(j) \/ Probe(j) \/ Lookup(j) \/ Create(j) \/ Store(j)
  <2>1. Quiet
    BY <1>2 DEF AcquireDenied, Probe, AfterNone, Lookup, Create, Store, Quiet, Holds
  <2> QED BY <2>1, QuietKeeps
<1>3. CASE Drop(j)
  <2>1. Quiet
    BY <1>3 DEF Drop, DropLock, LockWithout, Breached, AfterNone, Quiet, Holds
  <2> QED BY <2>1, QuietKeeps
<1>4. CASE Enqueue(j)
  <2> USE <1>4 DEF Enqueue
  <2>1. NotYetPublished' BY DEF NotYetPublished, Runs
  <2>2. OneRun' BY DEF NotYetPublished, OneRun, Runs, Redelivered
  <2>3. OwnerHolds' BY DEF OwnerHolds, Runs, Holds
  <2>4. FlagKept' BY DEF FlagKept, Runs, Redelivered, Live
  <2>5. CommitPolled' BY DEF CommitPolled
  <2> QED BY <2>1, <2>2, <2>3, <2>4, <2>5 DEF Core
<1> QED BY <1>1, <1>2, <1>3, <1>4 DEF RequestStep

(* sync_data creates the row before it publishes.                          *)
LEMMA RequestRows ==
  ASSUME TypeOK, RowFirst, NEW j \in Jobs, ByRequest(j) PROVE RowFirst'
<1> USE DEF RowFirst, TypeOK, SharedTypeOK, GatewayTypeOK, CancelTypeOK, WorkerTypeOK,
        sharedVars, redisVars, brokerVars, historyVars, cancelVars,
        workerVars, ByRequest, Reply
<1>1. CASE AcquireGranted(j) BY <1>1 DEF AcquireGranted
<1>2. CASE AcquireDenied(j) BY <1>2 DEF AcquireDenied
<1>3. CASE Probe(j) BY <1>3 DEF Probe, AfterNone
<1>4. CASE Lookup(j) BY <1>4 DEF Lookup
<1>5. CASE Drop(j) BY <1>5 DEF Drop, AfterNone
<1>6. CASE Create(j) BY <1>6 DEF Create
<1>7. CASE Enqueue(j) BY <1>7 DEF Enqueue
<1>8. CASE Store(j) BY <1>8 DEF Store
<1> QED BY <1>1, <1>2, <1>3, <1>4, <1>5, <1>6, <1>7, <1>8 DEF RequestStep

(* active_sync touches no row.                                             *)
LEMMA ViewRows ==
  ASSUME TypeOK, RowFirst, NEW v \in Viewers, ByView(v) PROVE RowFirst'
<1> USE DEF RowFirst, TypeOK, SharedTypeOK, GatewayTypeOK, CancelTypeOK, WorkerTypeOK,
        sharedVars, redisVars, brokerVars, historyVars, cancelVars,
        workerVars, ByView
<1>1. CASE ViewProbe(v) BY <1>1 DEF ViewProbe
<1>2. CASE ViewLookup(v) BY <1>2 DEF ViewLookup
<1>3. CASE ViewDrop(v) BY <1>3 DEF ViewDrop
<1> QED BY <1>1, <1>2, <1>3 DEF ViewStep

(* A cancel finds a row and leaves one.                                    *)
LEMMA CancelRows ==
  ASSUME TypeOK, RowFirst, NEW c \in Cancellers, ByCancelStart(c) \/ ByCancel(c) PROVE RowFirst'
<1> USE DEF RowFirst, TypeOK, SharedTypeOK, GatewayTypeOK, CancelTypeOK, WorkerTypeOK,
        sharedVars, redisVars, brokerVars, historyVars, gatewayVars,
        workerVars, ByCancelStart, ByCancel, Step
<1>1. CASE ByCancelStart(c) BY <1>1 DEF CancelRead, Active
<1>2. CASE CancelMark(c) BY <1>2 DEF CancelMark
<1>3. CASE CancelRevoke(c) BY <1>3 DEF CancelRevoke
<1>4. CASE CancelSave(c) BY <1>4 DEF CancelSave
<1>5. CASE CancelRelease(c) BY <1>5 DEF CancelRelease
<1>6. CASE CancelForget(c) BY <1>6 DEF CancelForget
<1> QED BY <1>1, <1>2, <1>3, <1>4, <1>5, <1>6 DEF CancelStep

(* The task only updates its row.                                          *)
LEMMA WorkerRows ==
  ASSUME TypeOK, RowFirst, NEW w \in Workers, ByTake(w) \/ ByWorker(w) PROVE RowFirst'
<1> USE DEF RowFirst, TypeOK, SharedTypeOK, GatewayTypeOK, CancelTypeOK, WorkerTypeOK,
        sharedVars, redisVars, brokerVars, historyVars, gatewayVars,
        cancelVars, ByTake, ByWorker, Go
<1>1. CASE ByTake(w) BY <1>1 DEF Take
<1>2. CASE Load(w) BY <1>2 DEF Load, ReadRow
<1>3. CASE Precheck(w) BY <1>3 DEF Precheck
<1>4. CASE Start(w) BY <1>4 DEF Start
<1>5. CASE Check2(w) BY <1>5 DEF Check2
<1>6. CASE StreamAborts(w) \/ LastPollAborts(w) BY <1>6 DEF StreamAborts,
     LastPollAborts, Abort
<1>7. CASE StreamFails(w) BY <1>7 DEF StreamFails
<1>8. CASE StreamEnds(w) BY <1>8 DEF StreamEnds
<1>9. CASE LastPollPasses(w) BY <1>9 DEF LastPollPasses
<1>10. CASE Commit(w) BY <1>10 DEF Commit
<1>11. CASE CommitFails(w) BY <1>11 DEF CommitFails
<1>12. CASE Refresh(w) BY <1>12 DEF Refresh, ReadRow
<1>13. CASE Check3(w) BY <1>13 DEF Check3
<1>14. CASE Final(w) BY <1>14 DEF Final
<1>15. CASE ExceptRefresh(w) BY <1>15 DEF ExceptRefresh, ReadRow
<1>16. CASE Check4(w) BY <1>16 DEF Check4
<1>17. CASE MarkFailed(w) BY <1>17 DEF MarkFailed
<1>18. CASE Release(w) BY <1>18 DEF Release
<1>19. CASE Clear(w) BY <1>19 DEF Clear, Free
<1> QED BY <1>1, <1>2, <1>3, <1>4, <1>5, <1>6, <1>7, <1>8, <1>9, <1>10, <1>11, <1>12, <1>13, <1>14, <1>15, <1>16, <1>17, <1>18, <1>19 DEF WorkerStep

(* Faults touch no row, and a redelivered message still has its row.       *)
LEMMA FaultRows ==
  ASSUME TypeOK, RowFirst, ByFault \/ \E j \in Jobs : ByDiscard(j) PROVE RowFirst'
<1> USE DEF RowFirst, TypeOK, SharedTypeOK, GatewayTypeOK, CancelTypeOK, WorkerTypeOK,
        redisVars, brokerVars, historyVars, gatewayVars, cancelVars, workerVars, Go, Free
<1>1. CASE \E j \in Jobs : ByDiscard(j) BY <1>1 DEF ByDiscard, Discard
<1>2. CASE \E j \in Jobs : RequestDies(j) /\ UNCHANGED <<cancelVars, workerVars>>
  BY <1>2 DEF RequestDies, Serving, Starting
<1>3. CASE \E c \in Cancellers : CancelDies(c) /\ UNCHANGED <<gatewayVars, workerVars>>
  BY <1>3 DEF CancelDies
<1>4. CASE \E w \in Workers : WorkerFault(w) /\ UNCHANGED <<gatewayVars, cancelVars>>
  <2> PICK w \in Workers : WorkerFault(w) /\ UNCHANGED <<gatewayVars, cancelVars>>
    BY <1>4
  <2>1. CASE StepRaises(w) BY <2>1 DEF StepRaises, InTry, InExcept, Writing
  <2>2. CASE CommitUnacked(w) BY <2>2 DEF CommitUnacked
  <2>3. CASE ChildLost(w) BY <2>3 DEF ChildLost
  <2>4. CASE Redeliver(w) BY <2>4 DEF Redeliver
  <2> QED BY <2>1, <2>2, <2>3, <2>4 DEF WorkerFault
<1>5. CASE WorkerRestart /\ UNCHANGED <<gatewayVars, cancelVars>>
  BY <1>5 DEF WorkerRestart
<1>6. CASE \E s \in Slices : LockExpires(s)
             /\ UNCHANGED <<gatewayVars, cancelVars, workerVars>>
  BY <1>6 DEF LockExpires
<1> QED BY <1>1, <1>2, <1>3, <1>4, <1>5, <1>6 DEF ByFault

(* Reads of the sync state are quiet; an orphan drop is recorded.          *)
LEMMA ViewCore ==
  ASSUME ControlInv, NEW v \in Viewers, ByView(v) PROVE Core'
<1> USE DEF ByView, ControlInv, TypeOK, SharedTypeOK, GatewayTypeOK, redisVars,
        brokerVars, historyVars, workerVars, Quiet, Holds
<1>1. CASE ViewProbe(v) \/ ViewLookup(v)
  <2>1. Quiet BY <1>1 DEF ViewProbe, ViewLookup, sharedVars
  <2> QED BY <2>1, QuietKeeps
<1>2. CASE ViewDrop(v)
  <2>1. Quiet BY <1>2 DEF ViewDrop, View, DropLock, LockWithout, Breached
  <2> QED BY <2>1, QuietKeeps
<1> QED BY <1>1, <1>2 DEF ViewStep

(* Of a cancellation only the flag is not quiet.                           *)
LEMMA CancelCore ==
  ASSUME ControlInv, NEW c \in Cancellers, ByCancelStart(c) \/ ByCancel(c) PROVE Core'
<1> USE DEF ControlInv, TypeOK, SharedTypeOK, CancelTypeOK, sharedVars, redisVars,
        brokerVars, historyVars, gatewayVars, workerVars, Step, ByCancelStart, ByCancel
<1>1. CASE ByCancelStart(c) \/ CancelRevoke(c) \/ CancelSave(c) \/ CancelForget(c)
  <2>1. Quiet
    BY <1>1 DEF CancelRead, CancelRevoke, CancelSave, CancelForget, Quiet, Holds
  <2> QED BY <2>1, QuietKeeps
<1>2. CASE CancelMark(c)
  <2> USE <1>2 DEF CancelMark
  <2>1. NotYetPublished' BY DEF NotYetPublished, Runs
  <2>2. OneRun' BY DEF OneRun, Runs, Redelivered
  <2>3. OwnerHolds' BY DEF OwnerHolds, Runs, Holds
  <2>4. FlagKept' BY DEF FlagKept, Runs, Redelivered, Live
  <2>5. CommitPolled' BY DEF CommitPolled
  <2> QED BY <2>1, <2>2, <2>3, <2>4, <2>5 DEF Core
<1>3. CASE CancelRelease(c)
  <2>1. Quiet BY <1>3 DEF CancelRelease, LockWithout, Breached, Quiet, Holds
  <2> QED BY <2>1, QuietKeeps
<1> QED BY <1>1, <1>2, <1>3 DEF CancelStep

(* Of a task, the start, the last poll, the commit and the finally block.  *)
LEMMA WorkerCore ==
  ASSUME ControlInv, NEW w \in Workers, ByTake(w) \/ ByWorker(w) PROVE Core'
<1> USE DEF ControlInv, TypeOK, SharedTypeOK, WorkerTypeOK, sharedVars, redisVars,
        brokerVars, historyVars, gatewayVars, cancelVars, Go, ByTake, ByWorker
<1>1. CASE ByTake(w)
  <2> PICK j \in Jobs : Take(w, j) BY <1>1
  <2> USE DEF Take
  <2>1. NotYetPublished' BY DEF NotYetPublished, Runs
  <2>2. OneRun' BY DEF OneRun, Runs, Redelivered
  <2>3. OwnerHolds' BY DEF OwnerHolds, Runs, Holds
  <2>4. FlagKept' BY DEF FlagKept, Runs, Redelivered, Live
  <2>5. CommitPolled' BY DEF CommitPolled
  <2> QED BY <2>1, <2>2, <2>3, <2>4, <2>5 DEF Core
<1>2. CASE \/ Load(w) \/ Precheck(w) \/ Start(w) \/ Check2(w)
           \/ StreamAborts(w) \/ StreamFails(w) \/ StreamEnds(w) \/ LastPollAborts(w)
           \/ CommitFails(w) \/ Refresh(w) \/ Check3(w) \/ Final(w)
           \/ ExceptRefresh(w) \/ Check4(w) \/ MarkFailed(w)
  <2>1. Quiet
    BY <1>2 DEF Load, Precheck, Start, Check2, StreamAborts, StreamFails, StreamEnds,
       LastPollAborts, CommitFails, Refresh, Check3, Final, ExceptRefresh, Check4,
       MarkFailed, ReadRow, Abort, Quiet, Holds
  <2> QED BY <2>1, QuietKeeps
<1>3. CASE LastPollPasses(w)
  <2> USE <1>3 DEF LastPollPasses
  <2>1. NotYetPublished' BY DEF NotYetPublished, Runs
  <2>2. OneRun' BY DEF OneRun, Runs, Redelivered
  <2>3. OwnerHolds' BY DEF OwnerHolds, Runs, Holds
  <2>4. FlagKept'
    <3>1. wjob[w] \notin flag /\ Live(wjob[w]) BY DEF Flagged, Live, Runs
    <3>2. wjob[w] \notin intime \/ Redelivered(wjob[w]) BY <3>1 DEF FlagKept
    <3> QED BY <3>2 DEF FlagKept, Runs, Redelivered, Live
  <2>5. CommitPolled' BY DEF CommitPolled
  <2> QED BY <2>1, <2>2, <2>3, <2>4, <2>5 DEF Core
<1>4. CASE Commit(w)
  <2> USE <1>4 DEF Commit
  <2>1. NotYetPublished' BY DEF NotYetPublished, Runs
  <2>2. OneRun' BY DEF OneRun, Runs, Redelivered
  <2>3. OwnerHolds' BY DEF OwnerHolds, Runs, Holds
  <2>4. FlagKept' BY DEF FlagKept, Runs, Redelivered, Live
  <2>5. CommitPolled' BY DEF CommitPolled
  <2> QED BY <2>1, <2>2, <2>3, <2>4, <2>5 DEF Core
<1>5. CASE Release(w)
  <2> USE <1>5 DEF Release
  <2>1. NotYetPublished' BY DEF NotYetPublished, Runs
  <2>2. OneRun' BY DEF OneRun, Runs, Redelivered
  <2>3. OwnerHolds'
    <3>1. \A k \in Jobs : k # wjob[w] /\ Holds(k) => Holds(k)'
      BY SliceOfAssumption DEF Holds, LockWithout
    <3>2. \A v \in Workers : Runs(v, wjob[w]) /\ v # w => breach[wjob[w]] # {}
      BY DEF OneRun, Runs, Redelivered
    <3>3. wjob[w] \in queue => breach[wjob[w]] # {}
      BY DEF OneRun, Runs, Redelivered
    <3>4. rpc[wjob[w]] \notin Starting BY DEF NotYetPublished, Runs, Starting
    <3> QED BY <3>1, <3>2, <3>3, <3>4 DEF OwnerHolds, Runs
  <2>4. FlagKept' BY DEF FlagKept, Runs, Redelivered, Live
  <2>5. CommitPolled' BY DEF CommitPolled
  <2> QED BY <2>1, <2>2, <2>3, <2>4, <2>5 DEF Core
<1>6. CASE Clear(w)
  <2> USE <1>6 DEF Clear, Free
  <2>1. NotYetPublished' BY DEF NotYetPublished, Runs
  <2>2. OneRun' BY DEF OneRun, Runs, Redelivered
  <2>3. OwnerHolds' BY DEF OwnerHolds, Runs, Holds
  <2>4. FlagKept'
    <3> PICK j \in Jobs : j = wjob[w] BY DEF Runs
    <3>1. \A k \in Jobs : Live(k)' => Live(k) BY DEF Live, Runs
    <3>2. ~Redelivered(j) => ~Live(j)'
      <4>1. Runs(w, j) BY DEF Runs
      <4>2. rpc[j] \notin Starting BY <4>1 DEF NotYetPublished, Starting
      <4> QED BY <4>1, <4>2 DEF OneRun, Live, Runs
    <3> QED BY <3>1, <3>2 DEF FlagKept, Redelivered
  <2>5. CommitPolled' BY DEF CommitPolled
  <2> QED BY <2>1, <2>2, <2>3, <2>4, <2>5 DEF Core
<1> QED BY <1>1, <1>2, <1>3, <1>4, <1>5, <1>6 DEF WorkerStep

(* Of the faults, the two redeliveries and the lost commit answer.         *)
LEMMA FaultCore ==
  ASSUME ControlInv, ByFault \/ \E j \in Jobs : ByDiscard(j) PROVE Core'
<1> USE DEF ControlInv, TypeOK, SharedTypeOK, GatewayTypeOK, WorkerTypeOK, redisVars,
        brokerVars, historyVars, gatewayVars, cancelVars, workerVars, Go, Free
<1>1. CASE \E j \in Jobs : ByDiscard(j)
  <2>1. Quiet BY <1>1 DEF ByDiscard, Discard, Quiet, Holds
  <2> QED BY <2>1, QuietKeeps
<1>2. CASE \E j \in Jobs : RequestDies(j) /\ UNCHANGED <<cancelVars, workerVars>>
  <2>1. Quiet BY <1>2 DEF RequestDies, Quiet, Holds, Serving, Starting
  <2> QED BY <2>1, QuietKeeps
<1>3. CASE \E c \in Cancellers : CancelDies(c) /\ UNCHANGED <<gatewayVars, workerVars>>
  <2>1. Quiet BY <1>3 DEF CancelDies, Quiet, Holds
  <2> QED BY <2>1, QuietKeeps
<1>4. CASE \E w \in Workers : WorkerFault(w) /\ UNCHANGED <<gatewayVars, cancelVars>>
  <2> PICK w \in Workers : WorkerFault(w) /\ UNCHANGED <<gatewayVars, cancelVars>>
    BY <1>4
  <2>1. CASE StepRaises(w) \/ ChildLost(w)
    <3>1. Quiet
      BY <2>1 DEF StepRaises, ChildLost, InTry, InExcept, Writing, Quiet, Holds
    <3> QED BY <3>1, QuietKeeps
  <2>2. CASE CommitUnacked(w)
    <3> USE <2>2 DEF CommitUnacked
    <3>1. NotYetPublished' BY DEF NotYetPublished, Runs
    <3>2. OneRun' BY DEF OneRun, Runs, Redelivered
    <3>3. OwnerHolds' BY DEF OwnerHolds, Runs, Holds
    <3>4. FlagKept' BY DEF FlagKept, Runs, Redelivered, Live
    <3>5. CommitPolled' BY DEF CommitPolled
    <3> QED BY <3>1, <3>2, <3>3, <3>4, <3>5 DEF Core
  <2>3. CASE Redeliver(w)
    <3> PICK j \in Jobs : j = wjob[w] BY <2>3 DEF Redeliver
    <3> USE <2>3 DEF Redeliver
    <3>1. Redelivered(j)' /\ \A k \in Jobs : k # j => breach'[k] = breach[k]
      BY DEF Redelivered, Breached
    <3>2. NotYetPublished' BY DEF NotYetPublished, Runs
    <3>3. OneRun' BY <3>1 DEF OneRun, Runs, Redelivered
    <3>4. OwnerHolds' BY <3>1 DEF OwnerHolds, Runs, Holds, Redelivered
    <3>5. FlagKept' BY <3>1 DEF FlagKept, Runs, Redelivered, Live
    <3>6. CommitPolled' BY DEF CommitPolled
    <3> QED BY <3>2, <3>3, <3>4, <3>5, <3>6 DEF Core
  <2> QED BY <2>1, <2>2, <2>3 DEF WorkerFault
<1>5. CASE WorkerRestart /\ UNCHANGED <<gatewayVars, cancelVars>>
  <2> DEFINE running == {wjob[w] : w \in {v \in Workers : wpc[v] # "idle"}}
  <2> USE <1>5 DEF WorkerRestart
  <2>1. \A j \in Jobs : IF j \in running THEN Redelivered(j)' ELSE breach'[j] = breach[j]
    BY DEF Redelivered
  <2>2. \A j \in running : \E w \in Workers : Runs(w, j) BY DEF Runs
  <2>3. \A w \in Workers : \A j \in Jobs : ~Runs(w, j)' BY DEF Runs
  <2>4. queue' = queue \cup running OBVIOUS
  <2>5. NotYetPublished' BY <2>2, <2>3, <2>4 DEF NotYetPublished
  <2>6. OneRun' BY <2>3 DEF OneRun
  <2>7. OwnerHolds'
    <3>1. \A j \in Jobs : breach'[j] = {} => j \notin running /\ breach[j] = {}
      BY <2>1 DEF Redelivered
    <3>2. \A j \in Jobs : Holds(j) => Holds(j)' BY DEF Holds
    <3>3. UNCHANGED rpc OBVIOUS
    <3>4. OwnerHolds OBVIOUS
    <3> HIDE DEF WorkerRestart, ControlInv, running
    <3> QED BY <2>3, <2>4, <3>1, <3>2, <3>3, <3>4 DEF OwnerHolds, Holds, Runs
  <2>8. FlagKept'
    <3>1. \A j \in Jobs : Redelivered(j) => Redelivered(j)'
      BY <2>1 DEF Redelivered
    <3>2. \A j \in Jobs : Live(j)' => Live(j)
      BY <2>2, <2>3, <2>4 DEF Live
    <3> QED BY <3>1, <3>2 DEF FlagKept
  <2>9. CommitPolled' BY DEF CommitPolled
  <2> QED BY <2>5, <2>6, <2>7, <2>8, <2>9 DEF Core
<1>6. CASE \E s \in Slices : LockExpires(s)
             /\ UNCHANGED <<gatewayVars, cancelVars, workerVars>>
  <2> PICK s \in Slices : LockExpires(s)
                         /\ UNCHANGED <<gatewayVars, cancelVars, workerVars>>
    BY <1>6
  <2>1. \A j \in Jobs : Holds(j) => Holds(j)' \/ breach'[j] # {}
    BY SliceOfAssumption DEF LockExpires, Breached, Holds
  <2>2. \A j \in Jobs : breach[j] \subseteq breach'[j] BY DEF LockExpires, Breached
  <2>3. Quiet BY <2>1, <2>2 DEF LockExpires, Quiet
  <2> QED BY <2>3, QuietKeeps
<1> QED BY <1>1, <1>2, <1>3, <1>4, <1>5, <1>6 DEF ByFault

(* The inductive step.                                                     *)
LEMMA NextControl == ControlInv /\ [Next]_vars => ControlInv'
<1> SUFFICES ASSUME ControlInv, [Next]_vars PROVE ControlInv'
  OBVIOUS
<1>1. TypeOK' BY NextTypes DEF ControlInv
<1>2. CASE UNCHANGED vars
  <2>1. Quiet
    BY <1>2 DEF vars, Quiet, Holds, sharedVars, redisVars, brokerVars, historyVars,
       gatewayVars, workerVars
  <2>2. RowFirst'
    BY <1>2 DEF ControlInv, RowFirst, vars, sharedVars, historyVars, brokerVars,
       gatewayVars, cancelVars, workerVars
  <2> QED BY <1>1, <2>1, <2>2, QuietKeeps DEF ControlInv, Core
<1>3. CASE Next
  <2>1. RowFirst'
    BY <1>3, RequestRows, ViewRows, CancelRows, WorkerRows, FaultRows DEF Next, ControlInv
  <2>2. Core'
    BY <1>3, RequestCore, ViewCore, CancelCore, WorkerCore, FaultCore DEF Next
  <2> QED BY <1>1, <2>1, <2>2 DEF ControlInv, Core
<1> QED BY <1>2, <1>3

(* The inductive invariant holds in every reachable state.                 *)
THEOREM ControlInvariant == Spec => []ControlInv
BY InitControl, NextControl, PTL DEF Spec

-----------------------------------------------------------------------------
(* The properties.                                                         *)

(* A run with its snapshot transaction open owns the slice's lock unless   *)
(* the history names how it was lost.                                      *)
THEOREM WritersOwnTheirSlice == Spec => []WriterHoldsLock
<1>1. ControlInv => WriterHoldsLock
  BY DEF ControlInv, TypeOK, SharedTypeOK, WorkerTypeOK, OwnerHolds, WriterHoldsLock,
     Runs, Writing
<1> QED BY <1>1, ControlInvariant, PTL

(* Two writers on a slice need one of the four recorded losses.            *)
THEOREM OverlapIsExplained == Spec => []OverlapNeedsBreach
<1>1. ControlInv => OverlapNeedsBreach
  <2> SUFFICES ASSUME ControlInv, NEW v \in Workers, NEW w \in Workers, Overlap(v, w)
               PROVE breach[wjob[v]] # {} \/ breach[wjob[w]] # {}
    BY DEF OverlapNeedsBreach
  <2>1. Runs(v, wjob[v]) /\ Runs(w, wjob[w]) /\ wjob[v] \in Jobs /\ wjob[w] \in Jobs
    BY DEF ControlInv, TypeOK, WorkerTypeOK, Overlap, Runs, Writing
  <2>2. CASE wjob[v] = wjob[w]
    BY <2>1, <2>2 DEF ControlInv, OneRun, Redelivered, Overlap
  <2>3. CASE wjob[v] # wjob[w]
    BY <2>1, <2>3 DEF ControlInv, OwnerHolds, Holds, Overlap, Runs, Writing
  <2> QED BY <2>2, <2>3
<1> QED BY <1>1, ControlInvariant, PTL

(* A cancel flagged before the last poll stops the commit of a job whose   *)
(* message was delivered once.                                             *)
THEOREM CancelInTimeWorks == Spec => []CancelInTimeStops
<1>1. ControlInv => CancelInTimeStops
  BY DEF ControlInv, FlagKept, CommitPolled, CancelInTimeStops, Redelivered
<1> QED BY <1>1, ControlInvariant, PTL

(* ETLJob.objects.get, the task's first statement, always finds a row.     *)
THEOREM TaskRowExists == Spec => []TaskFindsItsRow
<1>1. ControlInv => TaskFindsItsRow
  BY DEF ControlInv, TypeOK, SharedTypeOK, RowFirst, TaskFindsItsRow
<1> QED BY <1>1, ControlInvariant, PTL

-----------------------------------------------------------------------------
(* What the row says is true, and a held lock has somebody who will free   *)
(* it: each from an inductive invariant of its own on top of ControlInv.   *)

Unpublished(j) == rpc[j] \notin {"store", "accepted", "died"}

(* A job's message was not taken yet.                                      *)
Waiting(j) == Unpublished(j) \/ j \in queue

BeforeCommit == {"load", "precheck", "start", "check2"} \cup Writing

-----------------------------------------------------------------------------
(* Outcomes.                                                               *)

(* What a task knows of its commit.  Without faults its result is exact,   *)
(* nothing is committed before its commit, and its except block is entered *)
(* only by runs that did not commit.                                       *)
ResultExact ==
  /\ \A w \in Workers : wres[w] = "ok" => wpc[w] # "idle" /\ wjob[w] \in committed
  /\ faults = 0 =>
       /\ \A j \in Jobs : ~Redelivered(j)
       /\ \A j \in Jobs : Waiting(j) => j \notin committed /\ status[j] # "FAILED"
       /\ \A w \in Workers :
            /\ wpc[w] \in BeforeCommit =>
                 wjob[w] \notin committed /\ status[wjob[w]] # "FAILED"
            /\ wpc[w] \in InExcept => wres[w] # "ok"
            /\ wpc[w] \in InExcept \cup {"after", "check3", "final"} /\ wres[w] # "ok" =>
                 wjob[w] \notin committed

OutcomeInv == ControlInv /\ ResultExact /\ OutcomeTruthful

(* What OutcomeInv says beyond ControlInv.                                 *)
Outcome == ResultExact /\ OutcomeTruthful

(* Before any request nothing has an outcome.                              *)
LEMMA InitOutcome == Init => OutcomeInv
<1> SUFFICES ASSUME Init PROVE OutcomeInv
  OBVIOUS
<1>1. ControlInv BY InitControl
<1>2. ResultExact
  BY DEF Init, SharedInit, GatewayInit, WorkerInit, ResultExact, Redelivered, BeforeCommit,
     Writing, InExcept
<1>3. OutcomeTruthful BY DEF Init, SharedInit, OutcomeTruthful
<1> QED BY <1>1, <1>2, <1>3 DEF OutcomeInv

(* Steps of the web threads leave tasks and commits alone, and their saves *)
(* write QUEUED or CANCELLED.                                              *)
Aside ==
  /\ UNCHANGED <<workerVars, committed, faults>>
  /\ \A j \in Jobs :
       /\ Redelivered(j)' => Redelivered(j)
       /\ status'[j] = status[j] \/ status'[j] \in {"QUEUED", "CANCELLED"}
       /\ Waiting(j)' => Waiting(j)

(* Such steps keep the invariant.                                          *)
LEMMA AsideKeeps == OutcomeInv /\ Aside => Outcome'
<1> SUFFICES ASSUME OutcomeInv, Aside PROVE Outcome'
  OBVIOUS
<1>1. ResultExact'
  <2>1. \A w \in Workers : wpc[w] # "idle" => wjob[w] \in Jobs
    BY DEF OutcomeInv, ControlInv, TypeOK, WorkerTypeOK
  <2>2. \A w \in Workers : wpc[w] \in BeforeCommit => wpc[w] # "idle"
    BY DEF BeforeCommit, Writing
  <2> QED BY <2>1, <2>2 DEF OutcomeInv, ResultExact, Aside, workerVars
<1>2. OutcomeTruthful' BY DEF OutcomeInv, OutcomeTruthful, Aside
<1> QED BY <1>1, <1>2 DEF Outcome

(* sync_data is aside.                                                     *)
LEMMA RequestOutcome ==
  ASSUME OutcomeInv, NEW j \in Jobs, ByRequest(j) PROVE Outcome'
<1> USE DEF OutcomeInv, ControlInv, TypeOK, SharedTypeOK, GatewayTypeOK, sharedVars,
        redisVars, brokerVars, historyVars, gatewayVars, workerVars, ByRequest, Reply
<1>1. Aside
  <2> USE DEF Aside, Redelivered, Waiting, Unpublished
  <2>1. CASE AcquireGranted(j) \/ AcquireDenied(j)
    BY <2>1 DEF AcquireGranted, AcquireDenied
  <2>2. CASE Probe(j) \/ Lookup(j) BY <2>2 DEF Probe, Lookup, AfterNone
  <2>3. CASE Drop(j) BY <2>3 DEF Drop, DropLock, Breached, AfterNone
  <2>4. CASE Create(j) \/ Enqueue(j) \/ Store(j) BY <2>4 DEF Create, Enqueue, Store
  <2> QED BY <2>1, <2>2, <2>3, <2>4 DEF RequestStep
<1> QED BY <1>1, AsideKeeps

(* active_sync is aside.                                                   *)
LEMMA ViewOutcome ==
  ASSUME OutcomeInv, NEW v \in Viewers, ByView(v) PROVE Outcome'
<1>1. Aside
  BY DEF OutcomeInv, ControlInv, TypeOK, SharedTypeOK, sharedVars, redisVars, brokerVars,
     historyVars, workerVars, ByView, ViewStep, ViewProbe, ViewLookup, ViewDrop, DropLock,
     Breached, Aside, Redelivered, Waiting, Unpublished
<1> QED BY <1>1, AsideKeeps

(* A cancel is aside: it writes CANCELLED, which claims nothing.           *)
LEMMA CancelOutcome ==
  ASSUME OutcomeInv, NEW c \in Cancellers, ByCancelStart(c) \/ ByCancel(c) PROVE Outcome'
<1>1. Aside
  BY DEF OutcomeInv, ControlInv, TypeOK, SharedTypeOK, sharedVars, redisVars, brokerVars,
     historyVars, gatewayVars, workerVars, ByCancelStart, ByCancel, CancelStep, CancelRead,
     CancelMark, CancelRevoke, CancelSave, CancelRelease, CancelForget, Breached, Aside,
     Redelivered, Waiting, Unpublished
<1> QED BY <1>1, AsideKeeps

(* The task: nobody else runs its job, so what it does not do is not done. *)
LEMMA WorkerOutcome ==
  ASSUME OutcomeInv, NEW w \in Workers, ByTake(w) \/ ByWorker(w) PROVE Outcome'
<1> USE DEF OutcomeInv, ControlInv, TypeOK, SharedTypeOK, WorkerTypeOK, sharedVars,
        redisVars, brokerVars, historyVars, gatewayVars, Go, Return, ByTake, ByWorker,
        BeforeCommit, Writing, InExcept, Redelivered, Waiting, Unpublished
<1>1. CASE ByTake(w)
  <2> PICK j \in Jobs : Take(w, j) BY <1>1
  <2>1. ResultExact' BY DEF Take, ResultExact
  <2>2. OutcomeTruthful' BY DEF Take, OutcomeTruthful
  <2> QED BY <2>1, <2>2 DEF Outcome
<1> SUFFICES ASSUME ByWorker(w), wpc[w] # "idle" PROVE Outcome'
  BY <1>1 DEF WorkerStep, Load, Precheck, Start, Check2, StreamAborts, StreamFails, StreamEnds,
     LastPollAborts, LastPollPasses, Commit, CommitFails, Refresh, Check3, Final,
     ExceptRefresh, Check4, MarkFailed, Release, Clear, ReadRow, Abort
<1>2. wjob[w] \in Jobs OBVIOUS
<1>3. faults = 0 => /\ ~Waiting(wjob[w])
                    /\ \A v \in Workers : wpc[v] # "idle" /\ wjob[v] = wjob[w] => v = w
  BY <1>2 DEF NotYetPublished, OneRun, Runs, ResultExact
<1>4. CASE \/ Load(w) \/ Precheck(w) \/ Check2(w) \/ StreamFails(w) \/ StreamEnds(w)
           \/ Refresh(w) \/ Check3(w) \/ ExceptRefresh(w) \/ Check4(w)
  <2>1. UNCHANGED <<committed, status, faults>>
    BY <1>4 DEF Load, Precheck, Check2, StreamFails, StreamEnds, Refresh, Check3,
       ExceptRefresh, Check4, ReadRow
  <2>2. ResultExact'
    BY <1>4 DEF Load, Precheck, Check2, StreamFails, StreamEnds, Refresh, Check3,
       ExceptRefresh, Check4, ReadRow, ResultExact
  <2>3. OutcomeTruthful' BY <2>1 DEF OutcomeTruthful
  <2> QED BY <2>2, <2>3 DEF Outcome
<1>5. CASE Start(w)
  <2>1. ResultExact' BY <1>2, <1>5 DEF Start, ResultExact
  <2>2. OutcomeTruthful' BY <1>2, <1>5 DEF Start, OutcomeTruthful
  <2> QED BY <2>1, <2>2 DEF Outcome
<1>6. CASE StreamAborts(w) \/ LastPollAborts(w) \/ CommitFails(w)
  <2>1. ResultExact'
    BY <1>6 DEF StreamAborts, LastPollAborts, Abort, CommitFails, ResultExact
  <2>2. OutcomeTruthful'
    BY <1>6 DEF StreamAborts, LastPollAborts, Abort, CommitFails, OutcomeTruthful
  <2> QED BY <2>1, <2>2 DEF Outcome
<1>7. CASE LastPollPasses(w)
  <2>1. ResultExact' BY <1>7 DEF LastPollPasses, ResultExact
  <2>2. OutcomeTruthful' BY <1>7 DEF LastPollPasses, OutcomeTruthful
  <2> QED BY <2>1, <2>2 DEF Outcome
<1>8. CASE Commit(w)
  <2>1. ResultExact' BY <1>2, <1>3, <1>8 DEF Commit, ResultExact
  <2>2. OutcomeTruthful' BY <1>2, <1>8 DEF Commit, ResultExact, OutcomeTruthful
  <2> QED BY <2>1, <2>2 DEF Outcome
<1>9. CASE Final(w)
  <2>1. ResultExact' BY <1>2, <1>3, <1>9 DEF Final, ResultExact
  <2>2. OutcomeTruthful' BY <1>2, <1>9 DEF Final, ResultExact, OutcomeTruthful
  <2> QED BY <2>1, <2>2 DEF Outcome
<1>10. CASE MarkFailed(w)
  <2>1. ResultExact' BY <1>2, <1>3, <1>10 DEF MarkFailed, ResultExact
  <2>2. OutcomeTruthful' BY <1>2, <1>10 DEF MarkFailed, ResultExact, OutcomeTruthful
  <2> QED BY <2>1, <2>2 DEF Outcome
<1>11. CASE Release(w) \/ Clear(w)
  <2>1. ResultExact' BY <1>11 DEF Release, Clear, Free, ResultExact
  <2>2. OutcomeTruthful' BY <1>11 DEF Release, Clear, Free, OutcomeTruthful
  <2> QED BY <2>1, <2>2 DEF Outcome
<1> QED BY <1>4, <1>5, <1>6, <1>7, <1>8, <1>9, <1>10, <1>11 DEF WorkerStep

(* After a fault only committed results and COMPLETED rows matter, and no  *)
(* fault makes one.                                                        *)
LEMMA FaultOutcome == OutcomeInv /\ ByFault => Outcome'
<1> SUFFICES ASSUME OutcomeInv, ByFault PROVE Outcome'
  OBVIOUS
<1> USE DEF OutcomeInv, ControlInv, TypeOK, SharedTypeOK, WorkerTypeOK, redisVars,
        brokerVars, historyVars, gatewayVars, cancelVars, workerVars, Fault, Go, Free, Return
<1>1. faults' # 0
  BY DEF ByFault, RequestDies, CancelDies, WorkerFault, StepRaises, CommitUnacked,
     ChildLost, Redeliver, WorkerRestart, LockExpires
<1>2. UNCHANGED status /\ committed \subseteq committed'
  BY DEF ByFault, RequestDies, CancelDies, WorkerFault, StepRaises, CommitUnacked,
     ChildLost, Redeliver, WorkerRestart, LockExpires
<1>3. \A w \in Workers : wres'[w] = "ok" =>
        wres[w] = "ok" /\ wpc'[w] # "idle" /\ wjob'[w] = wjob[w]
  <2>1. CASE UNCHANGED workerVars BY <2>1 DEF ResultExact
  <2>2. CASE \E w \in Workers : StepRaises(w) \/ CommitUnacked(w) \/ ChildLost(w)
    BY <2>2 DEF StepRaises, CommitUnacked, ChildLost, ResultExact
  <2>3. CASE WorkerRestart BY <2>3 DEF WorkerRestart
  <2> QED BY <2>1, <2>2, <2>3 DEF ByFault, WorkerFault, Redeliver
<1>4. ResultExact' BY <1>1, <1>2, <1>3 DEF ResultExact
<1>5. OutcomeTruthful' BY <1>1, <1>2 DEF OutcomeTruthful
<1> QED BY <1>4, <1>5 DEF Outcome

(* The inductive step.                                                     *)
LEMMA NextOutcome == OutcomeInv /\ [Next]_vars => OutcomeInv'
<1> SUFFICES ASSUME OutcomeInv, [Next]_vars PROVE Outcome'
  BY NextControl DEF OutcomeInv, Outcome
<1>1. CASE UNCHANGED vars \/ \E j \in Jobs : ByDiscard(j)
  <2>1. Aside
    BY <1>1 DEF vars, sharedVars, redisVars, historyVars, brokerVars, gatewayVars,
       ByDiscard, Discard, Aside, Redelivered, Waiting, Unpublished
  <2> QED BY <2>1, AsideKeeps
<1> QED
  BY <1>1, RequestOutcome, ViewOutcome, CancelOutcome, WorkerOutcome, FaultOutcome DEF Next

(* A COMPLETED row means that the snapshot was committed, and without      *)
(* faults a FAILED row means that it was not.                              *)
THEOREM OutcomeIsTruthful == Spec => []OutcomeTruthful
<1>1. OutcomeInv => OutcomeTruthful BY DEF OutcomeInv
<1> QED BY <1>1, InitOutcome, NextOutcome, PTL DEF Spec

-----------------------------------------------------------------------------
(* Locks.                                                                  *)

Releases(c, j) ==
  cjob[c] = j /\ cqueued[c] /\ cpc[c] \in {"mark", "revoke", "save", "release"}

(* Without faults, a job that no worker took was QUEUED for every cancel   *)
(* that read it, so whoever revokes its message frees its lock as well;    *)
(* and only a published message has a task id to revoke.                   *)
RevokerReleases ==
  faults = 0 =>
    /\ \A j \in Jobs : ~Redelivered(j)
    /\ \A j \in Jobs : Waiting(j) =>
         /\ status[j] # "PROCESSING"
         /\ \A c \in Cancellers : cpc[c] # "idle" /\ cjob[c] = j => cqueued[c]
    /\ \A j \in Jobs : Unpublished(j) => j \notin taskKey \cup revoked
    /\ \A j \in Jobs : j \in revoked \cap queue /\ Holds(j) =>
         \E c \in Cancellers : Releases(c, j)

ReleaserInv == ControlInv /\ RevokerReleases /\ LockHasReleaser

(* What ReleaserInv says beyond ControlInv.                                *)
Releaser == RevokerReleases /\ LockHasReleaser

(* Nothing is held before the first request.                               *)
LEMMA InitReleaser == Init => ReleaserInv
<1> SUFFICES ASSUME Init PROVE ReleaserInv
  OBVIOUS
<1>1. ControlInv BY InitControl
<1>2. RevokerReleases
  BY DEF Init, SharedInit, CancelInit, RevokerReleases, Redelivered, Releases
<1>3. LockHasReleaser
  BY SliceOfAssumption, NoJobAssumption DEF Init, SharedInit, LockHasReleaser, Holds
<1> QED BY <1>1, <1>2, <1>3 DEF ReleaserInv

(* sync_data: the grant and the publication pass the duty on.              *)
LEMMA RequestReleaser ==
  ASSUME ReleaserInv, NEW j \in Jobs, ByRequest(j) PROVE Releaser'
<1> USE DEF ReleaserInv, ControlInv, TypeOK, SharedTypeOK, GatewayTypeOK, sharedVars,
        redisVars, brokerVars, historyVars, cancelVars, workerVars, ByRequest, Reply,
        Redelivered, Waiting, Unpublished, Releases
<1>1. CASE AcquireGranted(j)
  <2>1. \A k \in Jobs : Holds(k)' => Holds(k) \/ k = j
    BY <1>1, SliceOfAssumption DEF AcquireGranted, Holds
  <2>2. RevokerReleases' BY <1>1, <2>1 DEF AcquireGranted, RevokerReleases
  <2>3. LockHasReleaser' BY <1>1, <2>1 DEF AcquireGranted, LockHasReleaser, Starting, Runs
  <2> QED BY <2>2, <2>3 DEF Releaser
<1>2. CASE AcquireDenied(j) \/ Probe(j) \/ Lookup(j)
  <2>1. RevokerReleases'
    BY <1>2 DEF AcquireDenied, Probe, Lookup, AfterNone, RevokerReleases, Holds
  <2>2. LockHasReleaser'
    BY <1>2 DEF AcquireDenied, Probe, Lookup, AfterNone, LockHasReleaser, Starting, Runs, Holds
  <2> QED BY <2>1, <2>2 DEF Releaser
<1>3. CASE Drop(j)
  <2>1. \A k \in Jobs : Holds(k)' => Holds(k)
    BY <1>3, SliceOfAssumption, NoJobAssumption DEF Drop, DropLock, LockWithout, Holds
  <2>2. \A k \in Jobs : Redelivered(k)' => Redelivered(k)
    BY <1>3 DEF Drop, DropLock, Breached
  <2>3. RevokerReleases' BY <1>3, <2>1, <2>2 DEF Drop, AfterNone, RevokerReleases
  <2>4. LockHasReleaser'
    BY <1>3, <2>1 DEF Drop, AfterNone, LockHasReleaser, Starting, Runs
  <2> QED BY <2>3, <2>4 DEF Releaser
<1>4. CASE Create(j) \/ Enqueue(j) \/ Store(j)
  <2>1. RevokerReleases'
    BY <1>4 DEF Create, Enqueue, Store, RevokerReleases, Holds
  <2>2. LockHasReleaser'
    BY <1>4 DEF Create, Enqueue, Store, LockHasReleaser, Starting, Runs, Holds
  <2> QED BY <2>1, <2>2 DEF Releaser
<1> QED BY <1>1, <1>2, <1>3, <1>4 DEF RequestStep

(* active_sync frees a lock or leaves it.                                  *)
LEMMA ViewReleaser ==
  ASSUME ReleaserInv, NEW v \in Viewers, ByView(v) PROVE Releaser'
<1> USE DEF ReleaserInv, ControlInv, TypeOK, SharedTypeOK, GatewayTypeOK, sharedVars,
        redisVars, brokerVars, historyVars, cancelVars, workerVars, ByView, ViewStep,
        ViewProbe, ViewLookup, ViewDrop, DropLock
<1>1. \A k \in Jobs : Holds(k)' => Holds(k)
  BY SliceOfAssumption, NoJobAssumption DEF LockWithout, Holds
<1>2. \A k \in Jobs : Redelivered(k)' => Redelivered(k) BY DEF Redelivered, Breached
<1>3. RevokerReleases' BY <1>1, <1>2 DEF RevokerReleases, Waiting, Unpublished, Releases
<1>4. LockHasReleaser' BY <1>1 DEF LockHasReleaser, Starting, Runs
<1> QED BY <1>3, <1>4 DEF Releaser

(* A cancel keeps its duty until it frees the lock.                        *)
LEMMA CancelReleaser ==
  ASSUME ReleaserInv, NEW c \in Cancellers, ByCancelStart(c) \/ ByCancel(c) PROVE Releaser'
<1> USE DEF ReleaserInv, ControlInv, TypeOK, SharedTypeOK, GatewayTypeOK, CancelTypeOK,
        sharedVars, redisVars, brokerVars, historyVars, gatewayVars, workerVars,
        ByCancelStart, ByCancel, Step, Redelivered, Waiting, Unpublished, Releases
<1>1. CASE ByCancelStart(c)
  <2> PICK j \in Jobs : CancelRead(c, j) /\ UNCHANGED <<gatewayVars, workerVars>>
    BY <1>1
  <2> USE DEF CancelRead
  <2>1. faults = 0 /\ Waiting(j) => cqueued'[c]
    <3>1. faults = 0 /\ Waiting(j) => status[j] = "QUEUED" BY DEF Active, RevokerReleases
    <3>2. cqueued'[c] = (status[j] = "QUEUED") OBVIOUS
    <3> QED BY <3>1, <3>2
  <2>2. \A d \in Cancellers : d # c =>
          cpc'[d] = cpc[d] /\ cjob'[d] = cjob[d] /\ cqueued'[d] = cqueued[d]
    OBVIOUS
  <2>3. cpc[c] = "idle" /\ cjob'[c] = j OBVIOUS
  <2>4. \A d \in Cancellers, k \in Jobs : Releases(d, k) => Releases(d, k)'
    BY <2>2, <2>3
  <2>5. RevokerReleases'
    <3> HIDE DEF CancelRead, Releases
    <3>1. UNCHANGED <<faults, breach, rpc, queue, status, taskKey, revoked, lock>>
      BY DEF CancelRead
    <3> QED BY <2>1, <2>2, <2>3, <2>4, <3>1 DEF RevokerReleases, Holds
  <2>6. LockHasReleaser' BY <2>2, <2>3 DEF LockHasReleaser, Starting, Runs, Holds
  <2> QED BY <2>5, <2>6 DEF Releaser
<1>2. CASE CancelMark(c) \/ CancelRevoke(c) \/ CancelSave(c)
  <2>1. RevokerReleases'
    BY <1>2 DEF CancelMark, CancelRevoke, CancelSave, RevokerReleases, Holds
  <2>2. LockHasReleaser'
    BY <1>2 DEF CancelMark, CancelRevoke, CancelSave, LockHasReleaser, Starting, Runs, Holds
  <2> QED BY <2>1, <2>2 DEF Releaser
<1>3. CASE CancelRelease(c)
  <2>1. \A k \in Jobs : Holds(k)' => Holds(k) /\ k # cjob[c]
    BY <1>3, SliceOfAssumption, NoJobAssumption DEF CancelRelease, LockWithout, Holds
  <2>2. \A k \in Jobs : Redelivered(k)' => Redelivered(k)
    BY <1>3 DEF CancelRelease, Breached
  <2>3. RevokerReleases' BY <1>3, <2>1, <2>2 DEF CancelRelease, RevokerReleases
  <2>4. LockHasReleaser' BY <1>3, <2>1 DEF CancelRelease, LockHasReleaser, Starting, Runs
  <2> QED BY <2>3, <2>4 DEF Releaser
<1>4. CASE CancelForget(c)
  <2>1. RevokerReleases' BY <1>4 DEF CancelForget, RevokerReleases, Holds
  <2>2. LockHasReleaser' BY <1>4 DEF CancelForget, LockHasReleaser, Starting, Runs, Holds
  <2> QED BY <2>1, <2>2 DEF Releaser
<1> QED BY <1>1, <1>2, <1>3, <1>4 DEF CancelStep

(* The task takes the duty over from the message and ends it in finally.   *)
LEMMA WorkerReleaser ==
  ASSUME ReleaserInv, NEW w \in Workers, ByTake(w) \/ ByWorker(w) PROVE Releaser'
<1> USE DEF ReleaserInv, ControlInv, TypeOK, SharedTypeOK, WorkerTypeOK, sharedVars,
        redisVars, brokerVars, historyVars, gatewayVars, cancelVars, Go, Return, ByTake,
        ByWorker, Redelivered, Waiting, Unpublished, Releases
<1>1. CASE ByTake(w)
  <2> PICK j \in Jobs : Take(w, j) /\ UNCHANGED <<gatewayVars, cancelVars>> BY <1>1
  <2>1. RevokerReleases' BY DEF Take, RevokerReleases, Holds
  <2>2. LockHasReleaser'
    <3>1. Runs(w, j)' /\ wpc'[w] = "load" BY DEF Take, Runs
    <3>2. \A v \in Workers : v # w => wpc'[v] = wpc[v] /\ wjob'[v] = wjob[v] BY DEF Take
    <3>3. wpc[w] = "idle" /\ queue' = queue \ {j} BY DEF Take
    <3>4. UNCHANGED <<lock, faults, rpc, cpc, cjob, cqueued>> BY DEF Take
    <3> QED BY <3>1, <3>2, <3>3, <3>4 DEF LockHasReleaser, Starting, Runs, Holds
  <2> QED BY <2>1, <2>2 DEF Releaser
<1>2. CASE \/ Load(w) \/ Precheck(w) \/ Check2(w)
           \/ StreamAborts(w) \/ StreamFails(w) \/ StreamEnds(w) \/ LastPollAborts(w)
           \/ LastPollPasses(w) \/ Commit(w) \/ CommitFails(w)
           \/ Refresh(w) \/ Check3(w) \/ ExceptRefresh(w) \/ Check4(w)
  <2> USE <1>2 DEF Load, Precheck, Check2, StreamAborts, StreamFails, StreamEnds,
          LastPollAborts, LastPollPasses, Commit, CommitFails, Refresh, Check3,
          ExceptRefresh, Check4, ReadRow, Abort
  <2>1. RevokerReleases' BY DEF RevokerReleases, Holds
  <2>2. LockHasReleaser' BY DEF LockHasReleaser, Starting, Runs, Holds
  <2> QED BY <2>1, <2>2 DEF Releaser
<1>3. CASE Start(w) \/ Final(w) \/ MarkFailed(w)
  <2> USE <1>3 DEF Start, Final, MarkFailed
  <2>1. faults = 0 => ~Waiting(wjob[w])
    BY DEF NotYetPublished, OneRun, Runs, RevokerReleases
  <2>2. RevokerReleases' BY <2>1 DEF RevokerReleases, Holds
  <2>3. LockHasReleaser' BY DEF LockHasReleaser, Starting, Runs, Holds
  <2> QED BY <2>2, <2>3 DEF Releaser
<1>4. CASE Release(w)
  <2>1. \A k \in Jobs : Holds(k)' => Holds(k) /\ k # wjob[w]
    BY <1>4, SliceOfAssumption, NoJobAssumption DEF Release, LockWithout, Holds
  <2>2. RevokerReleases' BY <1>4, <2>1 DEF Release, RevokerReleases
  <2>3. LockHasReleaser' BY <1>4, <2>1 DEF Release, LockHasReleaser, Starting, Runs
  <2> QED BY <2>2, <2>3 DEF Releaser
<1>5. CASE Clear(w)
  <2>1. RevokerReleases' BY <1>5 DEF Clear, Free, RevokerReleases, Holds
  <2>2. LockHasReleaser' BY <1>5 DEF Clear, Free, LockHasReleaser, Starting, Runs, Holds
  <2> QED BY <2>1, <2>2 DEF Releaser
<1> QED BY <1>1, <1>2, <1>3, <1>4, <1>5 DEF WorkerStep

(* A discarded message was revoked; its canceller has the duty.            *)
LEMMA DiscardReleaser ==
  ASSUME ReleaserInv, NEW j \in Jobs, ByDiscard(j) PROVE Releaser'
<1> USE DEF ReleaserInv, redisVars, historyVars, gatewayVars, cancelVars, workerVars,
        ByDiscard, Discard, Redelivered, Waiting, Unpublished, Releases, Holds
<1>1. RevokerReleases' BY DEF RevokerReleases
<1>2. LockHasReleaser' BY DEF RevokerReleases, LockHasReleaser, Starting, Runs
<1> QED BY <1>1, <1>2 DEF Releaser

(* The inductive step.                                                     *)
LEMMA NextReleaser == ReleaserInv /\ [Next]_vars => ReleaserInv'
<1> SUFFICES ASSUME ReleaserInv, [Next]_vars PROVE Releaser'
  BY NextControl DEF ReleaserInv, Releaser
<1>1. CASE UNCHANGED vars
  BY <1>1 DEF vars, sharedVars, redisVars, historyVars, brokerVars, gatewayVars,
     cancelVars, workerVars, ReleaserInv, Releaser, RevokerReleases, LockHasReleaser,
     Redelivered, Waiting, Unpublished, Releases, Holds, Runs, Starting
<1>2. CASE ByFault
  <2>1. faults' # 0
    BY <1>2 DEF ReleaserInv, ControlInv, TypeOK, SharedTypeOK, Fault, ByFault, RequestDies,
       CancelDies, WorkerFault, StepRaises, CommitUnacked, ChildLost, Redeliver,
       WorkerRestart, LockExpires
  <2> QED BY <2>1 DEF Releaser, RevokerReleases, LockHasReleaser
<1> QED
  BY <1>1, <1>2, RequestReleaser, ViewReleaser, CancelReleaser, WorkerReleaser,
     DiscardReleaser DEF Next

(* Without faults, whoever holds a slice has somebody who will free it.    *)
THEOREM LocksHaveReleasers == Spec => []LockHasReleaser
<1>1. ReleaserInv => LockHasReleaser BY DEF ReleaserInv
<1> QED BY <1>1, InitReleaser, NextReleaser, PTL DEF Spec
=============================================================================

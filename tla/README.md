# Teamsec-Case: specifications of the sync path and its readers

The repository ingests loan data: an operator starts a *sync* for a slice
(tenant, loan type) over HTTP, a Celery worker runs a Rust adapter that streams
a bank's credit and payment exports and replaces the slice in PostgreSQL, and
the operator polls, cancels, and reads the result. These modules specify that
path: who may write a slice and when, what a job's status and report may say,
what a cancel achieves, what one adapter run and two overlapping ones do to the
slice, what the bank's files and the read APIs deliver meanwhile, and for whom a
request speaks.

## 1. The system

| Component (source) | State | Operations | What makes it right |
|---|---|---|---|
| Slice lock, `core/services/redis_lock.py` | Redis key `lock:{tenant}:{loan_type}` -> job id, 4 h expiry | SET NX, GET, compare-and-delete | one owner; only the owner's id deletes it; somebody always will |
| Sync gateway, `etl/views.py` | none of its own; locals of each request | `sync_data`, `active_sync`, `sync_status`, `cancel_sync` | row before message; the second request of a slice is refused |
| Cancel service, `etl/services/cancel_sync.py` | Redis `job:cancel:{id}`, `job:celery:{id}` | mark, revoke, save CANCELLED, free lock | a timely cancel stops the commit; a finished job is not touched |
| Worker task, `etl/tasks.py` | ETLJob row, its copy of the row | `run_etl_pipeline` and its progress callback | truthful final status; lock given back on every path; status, errors, summary and result of one run |
| Adapter, `adapter/src/pipeline.rs`, `db.rs` | one transaction, batches, id map, error log | streams, flushes, polls, commit | all or nothing; the slice equals the normalised export |
| Parsing, `parser.rs`, `types.rs`; stream, `stream.rs` | tokenizer position | rows of a JSON array | bad fields soft, bad rows skipped and logged |
| Warehouse reads, `etl/services/warehouse.py` | none | three queries per request | committed rows only; every row on one page |
| Profiling, `etl/services/profiling.py` | none | about a hundred queries per request | totals, ratios and charts that agree |
| Report, `serializers.py`, `sync_messages.py` | none | JSON of the row, hint from its first error | about the run that wrote the row |
| Auth and tenant scope, `apps/core/` | session rows, bearer tokens | login, logout, checks per request | a job is seen and cancelled by its tenant only; a logout holds |
| Dashboard, `api/templates/` | poll timer, current loan type | poll, switch, cancel | polling ends |
| External bank, `external_bank/bank/` | two files and a row per slice | upload, export, download, listing | an export is one upload |

Interaction: the gateway, the cancel service and the worker share Redis keys
and the ETLJob row and meet nowhere else; the gateway hands the job to a worker
through the Celery broker; the adapter calls back into Python at fixed rows,
where the cancel flag is read. Django serves requests on threads with
autocommit, so every Redis command and SQL statement of one actor interleaves
with those of the others. The bank's files, the slice and the read APIs meet only
through whole rows: an export is read while a transaction is open, and the APIs
query the slice outside any transaction.

The hard behaviours: state read by one statement and used by a later one
(`was_queued`, `job.status`, the orphan test); a run that is delivered twice
(`acks_late`); expiry of the lock; processes that die between two statements;
batches, chunks and polls that cut the streams at arbitrary rows; files rewritten
in place while they are exported; transactions that wait for each other's rows;
one row saved by three writers, each some of its columns.

## 2. The modules

| Module | Role |
|---|---|
| `SyncState` | shared variables: `lock`, `flag`, `taskKey`, `status`, `queue`, `revoked`, histories |
| `SyncGateway` | one action per statement of `sync_data`, `_active_job`, `active_sync` |
| `CancelSync` | one action per statement of `cancel_sync_job` |
| `SyncWorker` | one action per statement of `run_etl_pipeline`, the polls and the commit of the adapter, and the worker's faults |
| `SyncSystem` | composition, fairness, properties, inductive invariant |
| `SyncSystemProofs` | TLAPS proofs about `SyncSystem` |
| `MCSyncSystem` | instances of `SyncSystem` for TLC |
| `SliceReplace` | abstract specification: one slice, replaced in one step or left alone |
| `SnapshotPipeline` | one adapter run in detail, a refinement of `SliceReplace` |
| `PipelineProofs` | TLAPS proofs about `SnapshotPipeline`: its invariants and its refinement of `SliceReplace` |
| `RowStream` | a bank export as bytes: the bank's generators and the adapter's `JsonRowStream` |
| `RowStreamProofs` | TLAPS proofs of exports as bytes and of the scanner that reads them |
| `MCRowStream` | instance of `RowStream` for TLC |
| `BankFiles` | the bank's two files: uploads in place, exports, downloads, the listing |
| `SnapshotTxns` | several `SnapshotWriter` transactions on one slice at READ COMMITTED |
| `WarehouseReads` | pages and profiles, query by query (extends `SnapshotTxns`) |
| `SnapshotAnswers` | abstract specification: answers put together from committed versions |
| `DataPath` | `BankFiles`, `SnapshotTxns`, `WarehouseReads` composed; implements `SnapshotAnswers` |
| `DataPathProofs` | TLAPS proofs of the bank's files and of the refinement of `SnapshotAnswers` |
| `SliceProofs` | TLAPS proofs of the transactions: what a sync commits |
| `ReadProofs` | TLAPS proofs of the pages and the profiles of a slice |
| `MCDataPath` | instance of `DataPath` for TLC |
| `TenantScope` | logins, logouts, sessions, tokens, tenant checks |
| `JobReport` | the columns of the ETLJob row and what is shown of them |
| `Console` | requests about a job: `TenantScope` and `JobReport` composed |
| `ConsoleProofs` | TLAPS proofs about `Console`: types, tenants, ends |
| `ReportProofs` | TLAPS proofs of what the job's row tells, and of its progress |
| `MCConsole` | instance of `Console` for TLC |

### Control plane

A job id is drawn per request, so `Jobs` are also the requests. Each actor has
a program counter whose values name the statement that comes next: `rpc` for a
`POST /sync`, `vpc` for a `GET /sync/active`, `cpc` for a cancel, `wpc` for a
worker process. Values read earlier and used later have variables of their own:
`seen` (lock owner read by `_active_job`), `cqueued` (`was_queued`), `wsaw`
(the worker's copy of `job.status == CANCELLED`), `wres` (the adapter's result).

- `rpc`: `acquire -> create -> enqueue -> store -> accepted`; a refusal goes
  `probe -> lookup -> drop`, then back to `acquire` once, then `rejected`.
- `cpc`: `mark -> revoke -> save -> release (only was_queued) -> forget`.
- `wpc`: `load -> precheck -> start -> check2 -> stream -> lastpoll -> commit
  -> after -> check3 -> final -> release -> clear`; exceptions go
  `except -> check4 -> markfailed -> release`. At `stream`, `lastpoll` and
  `commit` (`Writing`) the snapshot transaction is open.

Abstractions, each with its reason:

- The GET of the task id and the revoke are one step: the id never changes and
  a late revoke only discards a message whose job is flagged anyway.
- The queue is a set: one message per job, and a redelivered one is the same.
- The 24 h expiry of the flag and task key is left out; the lock's 4 h expiry
  is a fault, since runs of that length are what the code's comment expects.
- A worker takes any waiting message: Celery promises no order across workers.
- Progress saves change neither status nor lock and are not steps. A poll that
  does not find the flag is a step only when it is the last.
- `SliceOf` is a constant: a request knows its tenant and loan type from the start.
- `breach`, `polled`, `intime`, `committed` are histories; no guard reads them.
- `faults` counts faults up to `MaxFaults`, the only bound on behaviours besides
  the constants; the proofs hold for every `MaxFaults`.

Faults (`ByFault`): a request or cancel dies between two statements; a call of
the task raises; the answer to COMMIT is lost; a pool process is killed (its
message is acknowledged, `task_reject_on_worker_lost` being unset); an
unacknowledged message is delivered again; the whole worker restarts, returning
its messages and forgetting revoked ids; a lock expires.

### Adapter run

`SnapshotPipeline` follows `run_pipeline` row by row. A stream row keeps what
the run decides by: the account, one numeric field (good, unparsable, too wide
for its column), the installment number (`"x"`: does not parse). The writer is
a record changed by `FlushCredits` and `FlushPayments`, which follow `db.rs`:
dedupe per batch, chunked upserts keeping ids, id map, unique key of payments. They say
what the loops of `flush_credits` and `insert_credits_multi` amount to: `Dedupe` puts the
last row of an account at the place of its first, `InsertCredits` gives a new row the
number of its place after `lastId`, the id sequence, which also counts updated rows.
The environment chooses the rows, when a stream ends, when a call fails, whether
COMMIT is answered and when a user cancels. A run whose commit was not answered is a
failed one to the code; its result is called `unacked` so that the reference can tell
that the slice was replaced. Isolation from other transactions is the
subject of `SnapshotTxns`.

`SliceReplace` knows only the committed slice, the export received and the
outcome. `FullSliceReplace` says `SnapshotPipeline` implements it with the
identity mapping of those four variables: whatever the batching, the slice
changes in one step, to the last accepted row of each account and the payments
of those accounts, or not at all. Of the runs that do not end well, only an `unacked` one
may have changed it.

### Row stream

`RowStream` produces the bytes the bank's generators send (`streaming.py`) and
reads them as `next_row` and `read_json_object` do (`stream.rs`), a byte per
step. A row is one text without its key, which is the same in every row; bytes
are the few the scanner tells apart, and one that stands for the others. The
generator's running count of bytes is the cut of `Limited`: both end inside the
candidate row that passes the limit. The environment cuts the body after any
byte, with a network error or, since the bank's development server marks the
end of a body by closing the connection, with a plain end of file; or the
answer is no export at all (`OtherBodies`): it has no array, or one whose first
item is no object (`NoRowsIn`). Buffer boundaries inside
`BufReader` do not show: the scanner's state survives them.

A cut between two rows passes for the end of the array (`stream.rs:114`), and
an export above the size limit, cut inside a row, makes the run fail. Neither
contradicts a document; the first means that a slice may be replaced by the
beginning of its export.

### Data path

`BankFiles` keeps a file as a sequence of rows and every open handle with an
offset of its own: `open("wb")` truncates, a write goes to the handle's offset, so
two uploads of one pair may mix and a handle may write behind a later truncation
(`Hole`). The export tests `exists()`, then reads row by row what the file holds
by then. A row is the unit of a write; that a chunk may end inside a row is
`RowStream`'s subject. `overlapped`, `latest` and `base` are histories.

`SnapshotTxns` has one action per SQL statement of `SnapshotWriter`, in
PostgreSQL's order of things: a DELETE takes its snapshot when it begins
(`target`), waits for open transactions that hold one of the rows, then skips rows
that are gone; an upsert waits for a transaction that wrote the account and then
updates the row even if it could not see it before; a payment's foreign key is
checked at the commit, since Django declares it `DEFERRABLE INITIALLY DEFERRED`.
A waiting statement is a disabled action; a deadlock ends by `TxnFails`, which
also stands for every error and cancel. Exports are shorter than a batch here.

`WarehouseReads` makes one query per step and computes what Django would. One
numerical and one categorical field stand for the field lists; each percentage
is a query of its own, as in the code; a ratio is rounded half to even, as Python does.

`SnapshotAnswers` knows committed versions and requests only: each part of an
answer is computed from one version, never older than the one before.
`AnswersAreCommitted` says `DataPath` implements it, with the histories `versions`
and `stamps` as the mapping.

### Console

`TenantScope` keeps per browser the operator in its session row, and per request
what it has loaded: Django loads the session when the request comes in and saves
it at its end, an UPDATE that fails (400) if the row was flushed meanwhile.
Expiry is `hour` against the operator's `until`; a bearer token is any operator
that was handed one, so a logout does not end it. A refused request changes
nothing and is no step. `Lifetime` is `JWT_EXPIRY_HOURS`.

`JobReport` writes the row as the code does, with one UPDATE per save and only
its columns: the progress callback saves progress, count and errors; the outcome
save all columns; the except block status, errors, result and summary; a cancel
the same. The read of the row and of the flag are one step here (`SyncWorker` has
them apart), because only the columns are at stake. A row logs an entry for each of its
bad fields (`RowErrors` is how many a row may have), so there may be more entries than
rows. A message is one of five kinds, those `humanize_sync_error` and the summary tell
apart.

`Console` joins them: `sync_status` and `cancel_sync` pass the tenant checks, then
the cancel takes its steps with the operator the request came with.

## 3. The runs

| Run | Instance | Checks |
|---|---|---|
| `SyncRaces` | 2 jobs, 1 cancel thread, 2 workers, no fault; 3.6 M states | `TypeOK`, `WriterHoldsLock`, `OverlapNeedsBreach`, `LockHasReleaser`, `TaskFindsItsRow`, `OutcomeTruthful` |
| `CancelFaults` | 1 job, 1 cancel thread, 1 viewer, 2 workers, 2 faults; 3.5 M | `CancelInTimeStops`, `OutcomeTruthful`, `ControlInv` |
| `Finish` | 1 job, 2 cancel threads, 2 workers, fair; 48 k | `LockFreed`, `JobTerminates` |
| `Snapshot` | 2 accounts, 3 + 3 rows, batch 2, chunk 1, poll every 2; 2.3 M | `TypeOK`, `KnownAccountsHaveIds`, `CountsMatchSlice`, `NoPaymentLost`, `FullSliceReplace` |
| `RowStream` | texts of up to 2 bytes, up to 2 rows, multiplier 2, limit 18, every cut; 1.1 M | `TypeOK`, `ExportUnderstood`, `WholeRowsOnly` |
| `DataPath` | 2 uploads, 2 syncs, 1 download, 1 pager, 1 profiler, 3 starts; 2.1 M | `DataTypeOK`, `FilesKeepOneUpload`, `LastUploadWins`, `QuietReadIsOneUpload`, `AloneSyncExact`, `PairedSyncExact`, `QuietSyncIsOneUpload`, `EveryRowReachable`, `QuietPageIsExact`, `QuietProfileAddsUp`, `AnswersAreCommitted` |
| `Console` | 2 tenants, 2 operators, 1 browser, 2 requests, 2 deliveries, 1 + 1 rows of 0 or 2 bad fields, 2 stored errors; 3.9 M | `ConsoleTypeOK`, `SpeaksForAnOperator`, `LogoutHolds`, `OnlyItsTenant`, `CancelOverwrittenOnce`, `CompletedReportExact`, `EndsAgree`, `FailedIsGeneric`, `ProgressNeverBack` |
| `OrphanDrop`, `QueuedCancel`, `StaleCancel`, `StuckProcessing`, `UnloggedNumber` | smallest instance that shows it | one documented claim each, violated (section 6) |

Why the bounds suffice. All jobs share one slice, because slices share no key,
row or transaction. Two requests give a holder and a contender; two workers are
needed for two writers, or for one job delivered twice. One cancel thread may
cancel again and again; two of them (`Finish`) race each other. What faults do to several
jobs is left to the proofs (section 5), which hold for any number of both;
`CancelFaults` checks their inductive invariant with faults on one job. Two faults cover,
for instance, a crash after a redelivery, or a double delivery of which one
run loses the answer to its commit.
In `Snapshot` three rows cross a batch of two, so an account may repeat within
a batch, across batches, and a flush may fail early, at the stream's end or in
the commit; chunk 1 splits a flush into several statements. In `RowStream`
two bytes hold every pair the scanner's flags react to (a backslash and what it
escapes), two rows a separator, and the limit of 18 falls before, inside and
after every part of a doubled export. In `DataPath`, `MaxStarts` bounds what goes
on together: an upload, a sync and a download weigh 1, a read request 2, so three
of the former meet, or one of them and a read request. Two uploads differ in length,
so one may leave a hole or a rest of the other; a duplicate account, a blank and a
missing field, an account with no payment and pages of size 1 and 2 occur. `Console`
lets one browser's requests log in as two operators, and a second delivery follow
the first (`Overlaps = FALSE`; the proofs hold for TRUE as well, and `SyncWorker`
overlaps deliveries). One row per export and `PollEvery = 1` put a save after
every row; a row logs none or two errors and `MaxStored = 2`, so the log is empty, just
fits or is trimmed; `HalfWay = 1` brings the credits near the top of their range.
Symmetry over jobs,
workers, cancel threads, syncs, requests and deliveries is used for safety only.
`CHECK_DEADLOCK FALSE`:
requests are finitely many, and the system then stops.

Fairness (`SyncSystem!Fairness`): threads in the middle of a request finish it;
a started task goes on, because bank calls have a 300 s timeout (pipeline.rs:226)
and the streams end or fail; a waiting message is taken in the end, because
each task ends. Nobody must cancel or poll, and no fault is due.

## 4. The properties

- `WriterHoldsLock`, `OverlapNeedsBreach`: the lock serialises writers except
  after one of four named events: expiry, orphan drop, cancel that read QUEUED,
  redelivery. In particular a late `finally` never frees somebody else's lock.
- `LockHasReleaser`, `LockFreed`: without faults a held lock has an actor that
  will free it, on every exception path and for every order of cancels.
- `CancelInTimeStops`: a flag set before the last poll prevents the commit,
  unless another delivery of the same job deleted the flag.
- `OutcomeTruthful`: COMPLETED means committed; FAILED means not, without faults.
- `TaskFindsItsRow`, `JobTerminates`: no message before the row; every job not
  cancelled in time reaches a final status.
- `FullSliceReplace`, `KnownAccountsHaveIds`, `CountsMatchSlice`, `NoPaymentLost`:
  the contents of the slice, its ids, the reported counts, and the error log.
- `ExportUnderstood`: a whole export is read row for row, whatever its texts;
  `WholeRowsOnly`: of one that was cut, never more and never half a row.
- `FilesKeepOneUpload`, `LastUploadWins`, `QuietReadIsOneUpload`: what uploads in
  place leave behind: the beginning of one upload per file, a whole one after the last
  that ran alone, and a whole export if none ran meanwhile.
- `AloneSyncExact`, `PairedSyncExact`, `QuietSyncIsOneUpload`: the slice is the export
  of a sync that was alone, of the later of two that overlapped over a slice with
  payments, and one upload if none ran meanwhile.
- `EveryRowReachable`, `QuietPageIsExact`, `QuietProfileAddsUp`, `AnswersAreCommitted`:
  pages partition the accounts, an answer without a commit in between is of one
  slice and adds up, and every part of any answer is a committed one.
- `SpeaksForAnOperator`, `LogoutHolds`, `OnlyItsTenant`: a request speaks for a profile
  and for no longer than its login allows; a logout is not undone by a login under
  way; a job is shown to and cancelled by its tenant.
- `CompletedReportExact`, `EndsAgree`, `FailedIsGeneric`, `CancelOverwrittenOnce`,
  `ProgressNeverBack`: the row of a finished job is about one run, its columns agree,
  at most one progress save lands on a CANCELLED row, and progress does not go back.

## 5. The proofs

`SyncSystemProofs` proves, for all constants that satisfy the assumptions of
`SyncState` (`SliceOf` maps jobs to slices, `NoJob` is no job, `MaxFaults` is a
number): `TypeCorrect`, `ControlInvariant`, `WritersOwnTheirSlice`,
`OverlapIsExplained`, `CancelInTimeWorks`, `TaskRowExists`.

`OverlapNeedsBreach` is not inductive: that a second writer is shut out depends
on the lock being held from the grant on, through the time the job is only a
message. `ControlInv` adds what is needed:

- `RowFirst`: the row exists from `enqueue` on, so `_active_job` cannot take a
  published job's lock for an orphan;
- `NotYetPublished`: before `delay()` there is neither message nor run;
- `OneRun`: a job delivered once is in the queue or in one process, never both;
- `OwnerHolds`: from grant to release an unbreached job holds its lock. Two
  unbreached writers on a slice would both hold it, hence be one job, hence by
  `OneRun` one process;
- `FlagKept`: a timely flag stays up while the job has a run ahead, as only a
  run's own `clear` deletes it, hence the last poll sees it;
- `CommitPolled`: a commit follows a passed last poll.

Preservation is split by actor (`RequestCore`, `ViewCore`, `CancelCore`,
`WorkerCore`, `FaultCore`) with one step per action below. Steps that only move
a program counter share the lemma `QuietKeeps`.

Two more theorems follow, each from `ControlInv` and an inductive
invariant of its own, both checked by TLC on the instances of `SyncRaces` and
`CancelFaults` before they were proved:

- `OutcomeIsTruthful`: `OutcomeTruthful` alone forgets what a task knows when it
  saves. `ResultExact` adds that a result "ok" was committed, that without faults
  nothing is committed before its commit, and that the except block is entered
  only by runs that did not commit; by `OneRun` nobody else commits the job.
- `LocksHaveReleasers`: a message may be discarded, and its job's duty to free the
  lock with it. `RevokerReleases` adds that a cancel which read a job no worker
  had taken read QUEUED, so whoever revoked the message also frees the lock.

`ConsoleProofs` proves, under the assumptions `ScopeAssumption` (profiles are pairs
of users and tenants), `ReportAssumption` (`PollEvery`, `HalfWay`, `MaxStored` positive,
`RowErrors` numbers) and `ConsoleAssumption` (cancels are requests): `ScopeTypes`,
`SpeakersAreOperators`, `LogoutsHold`, `ConsoleTypes`, `EndsAlwaysAgree`,
`JobsStayInTheirTenant`, for any users, browsers, requests, deliveries, overlapping ones
too, and rows. Three invariants:

- `ScopeInv`: every operator kept in a session, a token or a login under way was
  granted by a profile and ends within `Lifetime`; a browser in `left` has no login
  under way that still has its session row, so none can save it again.
- `ReportInv`: a delivery's result is there from its commit on, a failed one has a
  logged error, and what each save writes together stays together until the next.
- `TouchInv`: a flag or a CANCELLED row has a request behind it that passed the tenant
  check, and that request keeps its operator while it cancels.

`ReportProofs` proves on top of it, for any number of deliveries and cancels, logs, row
counts and bounds: `FailuresAreGeneric`, `CancelsAreOverwrittenOnce`,
`CompletedReportsAreExact` and the action property `ProgressOnlyClimbs`. Three of the
properties speak of a job delivered once (`Once`, a cardinality); the induction uses
`Lone` (any two deliveries are the same one) and that `Delivered` stays finite. `TellInv`
is, besides `ReportInv`:

- `MarkInv`: whoever is cancelled was marked first, and a mark stays up until some delivery
  is over, since only `Clear` takes it down;
- `FailInv`: if a failed row has other than the generic entry, someone has yet to write
  (`Writing`): undisturbed, nobody leaves the except block without `MarkFailed`;
- `LateInv`: after one save over CANCELLED the flag is up and nobody is at `save`, and
  a delivery comes to `save` only past a flag that is down;
- `ToldInv`: the delivery of a completed row has nothing left to write, and the row is its
  outcome (`Tells`);
- `ProgressInv`: the row's progress is at most what its delivery can still save (`Floor`).
  The phases need arithmetic: `(c * n) \div (n + k)` grows with `n` and is at most `c`
  (`ShareGrows`), so credits end at 40 at most and payments at 90.

`DataPathProofs` proves about `DataPath`, under `ContentAssumption` (every upload brings both
files, no hole among their rows), `NoUploadAssumption`, `StartsAssumption`, `RowAssumption`
and `ExporterAssumption` (the syncs are the exporters):

- `FilesOfOneUpload`, `LastUploadHeals`, `QuietReadersSeeOneUpload`, from `BankInv`: an upload
  that nobody overlapped has its offset at the end of a file that begins like its content; a
  reader whose `base` is an upload has read the beginning of that upload's files. The
  difficulty is `LastUploadWins`: an earlier upload that is still writing may leave
  anything, until the last one has truncated both files.
- `AnswersRefine`: `DataPath` implements `SnapshotAnswers`, step by step: a commit appends a
  version, a query answers from the newest, everything else stutters. `ReadInv` says
  that the newest version is the slice, and that a request has answered the parts in order
  from versions that never go back.

`SliceProofs` proves what the transactions leave behind, adding `OldSlicesAssumption` (an
earlier slice satisfies the table's keys): `DataTypes`, `AloneSyncIsExact`,
`PairedSyncIsExact`, `QuietSyncsAreOneUpload`. `SliceInv` has five parts:

- `KeyInv`: shapes and keys; rows of open transactions have ids of their own or those of
  committed rows of the same account, which is what makes a commit keep `unique_together`;
- `LinkInv`: a run's statement and its export's position belong together;
- `WrittenInv`: what a run has put and added so far is what the rows it is done with
  (those with no place in `todo`) stand for: of each account the last, payments with the ids
  of their credits;
- `SoleInv`: a transaction alone in the slice deletes all it finds. For two that overlap over
  a slice with payments, one waits at its first DELETE for the other, so it finds
  either the old rows, if the other failed, or none of them; then the credits of
  the other are deleted, and the deferred foreign key lets it commit only if
  no payment of the other is left without a credit;
- `CommitInv`: the run that committed last has left its export in the slice.

`ReadProofs` proves what the two read APIs show, for any slice, page, page size,
`MaxPageSize` and `TopLimit`, adding `PageAssumption`, `AsksAssumption` (requests ask with
integers, also negative ones), `RequestsAssumption` (a request is for a page or for a
profile) and `FieldAssumption` (a numerical field is NULL or a number; a character field is
NULL, "" or a value, of which only the order counts; every installment has its number,
pipeline.rs:198): `EveryRowIsReachable`, `QuietPagesAreExact`, `QuietProfilesAddUp`.

- The order is given by ranks: the row at place `i` has `i - 1` rows before it. Over a finite
  set of rows with an account each, ranks are an injection into `1..n`, hence onto
  (`RowsAreOrdered`), without an induction.
- `PageIsPiece`, `LastPage` and `OffsetsGrow` are the arithmetic of the pages: the last page
  begins before row `n` and reaches it, a page ends where the next begins. `PagesCover`
  and `PageIsExact` put them together for one slice.
- `RowsInv`: rows of the slice, of open transactions and of every version are finitely many
  and carry an account; with `KeyInv` they can be ordered. `AnsweredInv`: what a page
  request was answered is what the versions its queries saw give, so with one stamp
  for all three queries the answer is that of one slice.
- Sums: `NumbersInduction` is the induction about a set of numbers from which `SumsExist`
  takes the sum over a finite set, row by row; `SumFunctionSums` says that
  the library's sum is it. `SumsAreBounded` and `RoundedBetween` put an average between its
  extremes (`AverageIsBetween`), also after rounding half to even, and a ratio in 0..1.
- Distributions: `MoreFrequent` orders the values, ties by value (`MoreFrequentIsOrder`), and
  ranks again give the sequence (`ValuesAreRanked`). The bars of a chart stand for disjoint
  sets of populated rows, so by `SumsMeasure` their counts add up to the number of rows they
  cover: at most the populated ones, all of them if no value is cut off (`ChartAddsUp`). The
  first bar is the top value, and nothing is more frequent (`TopIsMostFrequent`).
- `FieldsInv`: the fields of the slice, of open transactions and of every version are as
  `FieldAssumption` says of the files. `ProfilesInv`: each of the fifteen answers is what its
  query gives of the version it saw. Later queries divide by the two counts answered
  first, so these must stay as they are while the others come (`QueryGoesBy`).

`PipelineProofs` proves about one run, for any accounts, fields, numbers, export lengths,
batch and chunk sizes and polls (`BatchAssumption`: the sizes are positive;
`AccountAssumption`: "blank" is no account): `TypesHold`, `KnownAccountsAlwaysHaveIds`,
`CountsAlwaysMatchSlice`, `NoPaymentIsLost`, and with `RunReplacesTheSlice` that the run
implements `SliceReplace`.

- `DedupeIsExact`: the first places of the accounts have the ranks `1..n` (`RanksAreExact`), so a
  flush sends every account once, with its last row. `CreditsAreFlushed` and
  `PaymentsAreFlushed` say what a flush that succeeds does to the tables and the id map.
- The properties are about the end of a run; the invariant must say what an unfinished one
  stands for. `Stands` (in `CreditsInv`): if the pending credits were flushed now, the table would
  hold of every account named so far its last field, and the id map mirrors the table.
  `Pays` (in `PaymentsInv`): a payment row received is in the table under its account's id, or
  pending, or in the error log, and nothing else is in the table. A row more keeps both
  (`RowStands`, `RowPays`), and so does a flush (`FlushStands`, `FlushPays`).
- `CommitIsNormal`: with nothing pending, both make the visible slice the normalised export;
  ids belong to one account each, so payments are counted once.

`RowStreamProofs` proves `StreamTypes`, `ExportsUnderstood` and `OnlyWholeRows` for texts of
any length, any number of rows, multiplier and size limit, and every cut of the body, from
`LimitAssumption` (the limit is at least 2, the `[` and the newline that are always sent) and
`BytesAssumption`: texts consist of the bytes of the model, and another server's answer is
one of `NoRowsIn`. Without the latter the answer could be any JSON, rows of strangers
included, of which the properties could not say that they are the file's.

- What the generators send is a fold over sequences. `SetInduction` is induction in a form the
  provers can use: about a set of numbers, not about a predicate. `FlattenLast` and
  `FlattenAppend` determine `FlattenSeq` by it; `FlatItems` says where each part ends up.
- `EncodeShape` and `EncodeItems` give the bytes of a row by position, `JoinedItems` and
  `WireShape` those of an export. `EncodeInjective`: no two texts have the same encoding,
  compared byte by byte, because at each position the escaped part tells where the next begins;
  this is what makes `Decoded` return the row that was sent.
- `ScanAt(row, n, ...)` says in which state the scanner is after `n` bytes of a row: before the
  brace, before the text, in it, between a backslash and what it escapes, after it.
  `ScanInString` and `ScanOutside`: a byte takes it to the state of `n + 1`, and the brace
  depth returns to 0 at the last byte and not before.
- `IInv` says where in the export the stream stands: `BetweenAt` between rows (nothing but white
  space and commas since the last row), `ObjectAt` in one. Behind the size limit the bytes are
  not those of the row any more; `ObjectAt` then only knows that the depth is 1 and that
  the limit has cut, which is enough: what follows is the closing of the array, which
  holds no brace that could complete an object.

Each inductive invariant was an invariant of a TLC run on the instance of its component
before it was proved (`SliceInv`: 2.1 million states; `TellInv`'s parts: 3.2 million, and
12.4 million with overlapping deliveries;
`RowsInv`, `AnsweredInv`, `FieldsInv` and `ProfilesInv`: 2.1 million; `CreditsInv`, `PaymentsInv` and `DoneInv`: 2.1 million;
`IInv` of the row stream: 7 texts, size limits 6, 10, 18 and 30, up to 93,128 states).

Only model-checked: `LockFreed` and `JobTerminates`, liveness under fairness, which is out
of the prover's reach. Every safety property of the passing runs is a theorem.

## 6. Where code and documents disagree

1. `OrphanDrop`: `views.py:74-76` drops a lock without a row as an orphan, yet a
   request has no row between lines 96 and 116. A second request frees its lock
   and both write the slice. Architecture.md:170: "the same tenant+loan_type
   pair is serialized by the Redis lock".
2. `QueuedCancel`: `was_queued` (`cancel_sync.py:46`) is stale when line 84 frees
   the lock; the task may be writing. The comment on line 81: "QUEUED never
   enters the worker finally".
3. `StaleCancel`: `cancel_sync.py:61` writes CANCELLED over a row that became
   COMPLETED after the view read it. Line 43: "Only queued or processing jobs can
   be cancelled".
4. `StuckProcessing`: `tasks.py:96` saves PROCESSING over CANCELLED, line 103 sees
   the flag and returns; the row stays PROCESSING. Architecture.md:136: "Polling
   sees terminal status".
5. `UnloggedNumber`: `pipeline.rs:198` stores an installment number that does not
   parse as 0, unlogged. Architecture.md:166 promises null and a log entry.

A cancel after the last poll cannot stop the commit (pipeline.rs:345-363), and
the row then says CANCELLED although the slice was replaced; `CancelInTimeStops`
is stated for flags set before that poll.

Behaviour that contradicts no document, and that the properties therefore leave
room for:

- An export that reads a file just truncated by an upload is an empty or shorter
  array, and the sync commits it (storage.py:34, streaming.py:24-38).
- Two syncs that overlap over a slice without payments may leave rows of both
  exports: neither DELETE finds anything to wait for (db.rs:130-146).
- A page or a profile may mix two versions of the slice: a page may be empty, a
  ratio above 1 (warehouse.py:52-65, profiling.py:87-91).
- An empty slice keeps the page asked for, and so has a previous page (warehouse.py:54-77).
- The hints NO_SOURCE_DATA and BAD_REQUEST are never shown for a failed job: the except
  block replaces its errors by "ETL pipeline failed" (tasks.py:164-175), and the hint is
  drawn from those (views.py:57-60).
- A progress save that was past its look at the flag puts the row errors over
  the CANCELLED entry, once (tasks.py:58-76).
- A cancel or a death between the outcome's save and the except block's leaves FAILED
  with the detailed log (tasks.py:134-170).
- A logout leaves bearer tokens valid until they expire (core/views.py:78-80).
- The caps `min(39)` and `min(50)` never apply (pipeline.rs:76, 82).

## 7. Not modelled, and the plan

Left out for good, with the reason:

- Dashboard templates: JavaScript and HTML around the endpoints. Every request they may
  make is a request of `SyncGateway`, `Console` or `DataPath`, which take them in any
  order; the server keeps no state for them.
- Wording of messages, HTML rendering, date and decimal syntax: no property tells
  them apart.
- Migrations, settings and deployment files: declarative. The settings that matter
  are constants or part of an action (late acknowledgement, prefetch, lifetimes, keys).
- CSRF, passwords and token signatures: taken as given by `LoginChecks` and `Live`.
- The 24 h expiry of the cancel flag and the task id key.
- `_update_job` or Redis raising inside the progress callback: `SyncWorker` has it for
  status and locks (`StepRaises`); in `JobReport` a run raises at its streams or dies.

The plan is carried out: nothing of it is left open.

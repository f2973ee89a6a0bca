------------------------------ MODULE JobReport ------------------------------
(***************************************************************************)
(* What the ETLJob row of one job tells its reader: progress, row counts,  *)
(* errors, validation summary and result, which run_etl_pipeline           *)
(* (tasks.py), its progress callback and cancel_sync_job (cancel_sync.py)  *)
(* write with separate UPDATEs, each of only some columns, and the JSON    *)
(* and error hint made of them (serializers.py, views.py,                  *)
(* sync_messages.py).  SyncWorker has the locks and the broker.            *)
(***************************************************************************)
EXTENDS Naturals, Sequences, FiniteSets

CONSTANTS Runs,        \* deliveries of the job's message
          Overlaps,    \* bound: whether a repeat may come before a delivery ends
          Cancels,     \* cancel requests
          MaxCredits, MaxPayments,  \* bound: rows of the two exports
          RowErrors,   \* bound: how many bad fields a row may have
          PollEvery,   \* rows between two progress callbacks
          HalfWay,     \* the 10 000 of credit_phase_progress
          MaxStored,   \* MAX_STORED_JOB_ERRORS
          MaxCritical  \* the 10 of critical_failures

ASSUME ReportAssumption ==
  /\ PollEvery \in Nat \ {0} /\ HalfWay \in Nat \ {0}
  /\ MaxStored \in Nat \ {0} /\ MaxCritical \in Nat
  /\ RowErrors \subseteq Nat /\ Overlaps \in BOOLEAN

VARIABLES
  row,      \* the ETLJob row
  flag,     \* the job's cancel flag in Redis
  run,      \* each delivery: where it stands and what run_pipeline holds
  cancel,   \* each cancel: where it stands, the status it read
  (* History, read by the properties and by no guard *)
  late,     \* progress saves over a CANCELLED row
  reopened, \* a delivery saved PROCESSING over a terminal row
  died      \* a delivery died

reportVars == <<row, flag, run, cancel, late, reopened, died>>

Terminal == {"COMPLETED", "FAILED", "CANCELLED"}
Active == {"QUEUED", "PROCESSING"}

RunPoints == {"idle", "load", "start", "check2", "credits", "payments", "poll", "save", "commit",
              "check3", "final", "except", "markfailed", "clear", "over"}
RunBusy == RunPoints \ {"idle", "over"}

(* An entry of errors: its row, and what kind of message it carries.       *)
Entry(n, message) == [row |-> n, message |-> message]
Messages == {"credit row", "payment row", "database", "generic", "cancelled"}
Results == {"", "ingested", "cancelled", "404 of an export"} \cup Messages
Log == Seq([row : Nat, message : Messages])

RowType ==
  [status : Active \cup Terminal, progress : 0..100, processed : Nat, completed : BOOLEAN,
   result : Results, errors : Log, valid : BOOLEAN, count : Nat, critical : Seq(Messages)]

RunType ==
  [at : RunPoints, then : RunPoints, cancelled : BOOLEAN, result : {"none", "ok", "failed"},
   why : Results, credits : Nat, payments : Nat, counted : Nat \ {0}, log : Log, due : 0..100]

ReportTypeOK ==
  /\ row \in RowType /\ Len(row.errors) <= MaxStored
  /\ run \in [Runs -> RunType]
  /\ cancel \in [Cancels -> [at : {"idle", "mark", "save", "done", "refused"}]]
  /\ flag \in BOOLEAN /\ late \in Nat /\ reopened \in BOOLEAN /\ died \in BOOLEAN

(* A delivery of which run_pipeline has no row yet.                        *)
Fresh(at) == [at |-> at, then |-> "idle", cancelled |-> FALSE, result |-> "none", why |-> "",
              credits |-> 0, payments |-> 0, counted |-> 1, log |-> <<>>, due |-> 0]

ReportInit ==
  /\ row = [status |-> "QUEUED", progress |-> 0, processed |-> 0, completed |-> FALSE,
            result |-> "", errors |-> <<>>, valid |-> TRUE, count |-> 0, critical |-> <<>>]
  /\ flag = FALSE
  /\ run = [r \in Runs |-> Fresh("idle")]
  /\ cancel = [c \in Cancels |-> [at |-> "idle"]]
  /\ late = 0 /\ reopened = FALSE /\ died = FALSE

-----------------------------------------------------------------------------
(* Numbers and lists.                                                      *)

(* credit_phase_progress.                                                  *)
CreditProgress(rows) ==
  LET share == (35 * rows) \div (rows + HalfWay) IN 5 + (IF share < 39 THEN share ELSE 39)

(* Mutant: the payments start where the credits did.                       *)
PaymentProgress_FromFive(rows, credits) ==
  LET share == (50 * rows) \div (rows + credits) IN 5 + (IF share < 50 THEN share ELSE 50)

(* payment_phase_progress.                                                 *)
PaymentProgress(rows, credits) ==
  LET share == (50 * rows) \div (rows + credits) IN 40 + (IF share < 50 THEN share ELSE 50)

(* Mutant: every entry is kept.                                            *)
Stored_All(log) == log

(* Mutant: the first entries are kept.                                     *)
Stored_First(log) == IF Len(log) <= MaxStored THEN log ELSE SubSeq(log, 1, MaxStored)

(* _trim_stored_errors: the last entries.                                  *)
Stored(log) ==
  IF Len(log) <= MaxStored THEN log ELSE SubSeq(log, Len(log) - MaxStored + 1, Len(log))

(* The first of them.                                                      *)
Critical(log) ==
  LET stored == Stored(log)
  IN  [i \in 1..(IF Len(stored) < MaxCritical THEN Len(stored) ELSE MaxCritical) |->
         stored[i].message]

-----------------------------------------------------------------------------
(* run_etl_pipeline.                                                       *)

Go(r, from, to) == run[r].at = from /\ run' = [run EXCEPT ![r].at = to]
Quietly == UNCHANGED <<row, flag, cancel, late, reopened, died>>
Rows(r) == run[r].credits + run[r].payments

(* Taken from the broker; a second delivery is one that it repeats, and    *)
(* what a delivery that is over has held is gone by then.                  *)
Deliver(r) ==
  /\ run[r].at = "idle"
  /\ Overlaps \/ \A other \in Runs : run[other].at \notin RunBusy
  /\ run' = [other \in Runs |->
       IF other = r THEN Fresh("load")
       ELSE IF run[other].at = "over" THEN Fresh("over") ELSE run[other]]
  /\ Quietly

(* A read of the row and of the flag; SyncWorker has them apart.           *)
SeesCancel == row.status = "CANCELLED" \/ flag

Load(r) == Go(r, "load", IF SeesCancel THEN "clear" ELSE "start") /\ Quietly

Start(r) ==
  /\ Go(r, "start", "check2")
  /\ row' = [row EXCEPT !.status = "PROCESSING", !.progress = 5]
  /\ reopened' = (reopened \/ row.status \in Terminal)
  /\ UNCHANGED <<flag, cancel, late, died>>

Check2(r) == Go(r, "check2", IF flag THEN "clear" ELSE "credits") /\ Quietly

(* One row of an export; each bad field of it is logged, every PollEvery   *)
(* rows the callback is called.                                            *)
Received(delivery, n, bad, message, due) ==
  [delivery EXCEPT !.log = @ \o [i \in 1..bad |-> Entry(n, message)],
                   !.at = IF n % PollEvery = 0 THEN "poll" ELSE @,
                   !.then = delivery.at, !.due = due]

CreditRow(r) == \E bad \in RowErrors :
  LET n == run[r].credits + 1
  IN  /\ run[r].at = "credits" /\ n <= MaxCredits
      /\ run' = [run EXCEPT ![r] =
           [Received(@, n, bad, "credit row", CreditProgress(n)) EXCEPT !.credits = n]]
      /\ Quietly

PaymentRow(r) == \E bad \in RowErrors :
  LET n == run[r].payments + 1
  IN  /\ run[r].at = "payments" /\ n <= MaxPayments
      /\ run' = [run EXCEPT ![r] =
           [Received(@, n, bad, "payment row", PaymentProgress(n, @.counted))
              EXCEPT !.payments = n]]
      /\ Quietly

(* The end of the credits, 40 %.  Rows logged for a field may have been    *)
(* ingested, rows of one account count once, and none counts as one.       *)
CreditsEnd(r) == \E counted \in 1..(IF run[r].credits = 0 THEN 1 ELSE run[r].credits) :
  /\ run[r].at = "credits"
  /\ run' = [run EXCEPT ![r] =
       [@ EXCEPT !.at = "poll", !.then = "payments", !.due = 40, !.counted = counted]]
  /\ Quietly

(* The end of the payments, 95 %.                                          *)
PaymentsEnd(r) ==
  /\ run[r].at = "payments"
  /\ run' = [run EXCEPT ![r].at = "poll", ![r].then = "commit", ![r].due = 95]
  /\ Quietly

(* Mutant: the flag is not looked at.                                      *)
Poll_Unchecked(r) == Go(r, "poll", "save") /\ Quietly

(* on_progress looks at the flag ...                                       *)
Poll(r) ==
  /\ run[r].at = "poll"
  /\ run' = [run EXCEPT ![r].at = IF flag THEN "check3" ELSE "save",
                        ![r].cancelled = flag]
  /\ Quietly

(* ... and then saves, whatever happened in between.                       *)
SaveProgress(r) ==
  /\ Go(r, "save", run[r].then)
  /\ row' = [row EXCEPT !.progress = run[r].due, !.processed = Rows(r),
                        !.errors = Stored(run[r].log)]
  /\ late' = IF row.status = "CANCELLED" THEN late + 1 ELSE late
  /\ UNCHANGED <<flag, cancel, reopened, died>>

(* An export cannot be opened or read, or a batch not be written; the      *)
(* other answers of the bank end like a 404.                               *)
StreamRaises(r) == \E why \in {"404 of an export", "database"} :
  /\ run[r].at \in {"credits", "payments"}
  /\ run' = [run EXCEPT ![r].at = "except", ![r].why = why]
  /\ Quietly

(* commit(): an error is the last entry of the log.                        *)
Commit(r) == \E ok \in BOOLEAN :
  /\ run[r].at = "commit"
  /\ run' = [run EXCEPT ![r].at = "check3",
        ![r].result = IF ok THEN "ok" ELSE "failed",
        ![r].log = IF ok THEN @ ELSE Append(@, Entry(0, "database"))]
  /\ Quietly

Check3(r) ==
  /\ Go(r, "check3", IF SeesCancel \/ run[r].cancelled THEN "clear" ELSE "final")
  /\ Quietly

(* One UPDATE for the whole outcome.                                       *)
SavesOutcome(r, log, ok) ==
  /\ row' = [status |-> IF ok THEN "COMPLETED" ELSE "FAILED", completed |-> TRUE,
             progress |-> 100, processed |-> Rows(r), errors |-> Stored(log),
             valid |-> ok /\ log = <<>>, count |-> Len(log), critical |-> Critical(log),
             result |-> "ingested"]
  /\ UNCHANGED <<flag, cancel, late, reopened, died>>

(* Mutant: a failed result is not raised.                                  *)
Final_NotRaised(r) ==
  Go(r, "final", "clear") /\ SavesOutcome(r, run[r].log, run[r].result = "ok")

(* A failed result is raised, as the first stored error.                   *)
Final(r) ==
  /\ run[r].at = "final"
  /\ LET log == run[r].log
         ok == run[r].result = "ok"
     IN  /\ run' = [run EXCEPT ![r].at = IF ok THEN "clear" ELSE "except",
                   ![r].why = IF ok THEN @ ELSE Stored(log)[1].message]
         /\ SavesOutcome(r, log, ok)

Check4(r) == Go(r, "except", IF SeesCancel THEN "clear" ELSE "markfailed") /\ Quietly

(* A job that failed or was cancelled: one entry instead of the log.       *)
Ended(status, message, result) ==
  [row EXCEPT !.status = status, !.completed = TRUE, !.result = result,
              !.errors = <<Entry(0, message)>>,
              !.valid = FALSE, !.count = 1, !.critical = <<message>>]

(* Mutant: the summary stays as it was.                                    *)
MarkFailed_NoSummary(r) ==
  /\ Go(r, "markfailed", "clear")
  /\ row' = [row EXCEPT !.status = "FAILED", !.completed = TRUE, !.result = run[r].why,
                        !.errors = <<Entry(0, "generic")>>]
  /\ UNCHANGED <<flag, cancel, late, reopened, died>>

MarkFailed(r) ==
  /\ Go(r, "markfailed", "clear")
  /\ row' = Ended("FAILED", "generic", run[r].why)
  /\ UNCHANGED <<flag, cancel, late, reopened, died>>

Clear(r) ==
  /\ Go(r, "clear", "over")
  /\ flag' = FALSE
  /\ UNCHANGED <<row, cancel, late, reopened, died>>

RunDies(r) ==
  /\ run[r].at \in RunBusy
  /\ run' = [run EXCEPT ![r].at = "over"]
  /\ died' = TRUE
  /\ UNCHANGED <<row, flag, cancel, late, reopened>>

RunStep(r) ==
  \/ Deliver(r) \/ Load(r) \/ Start(r) \/ Check2(r) \/ CreditRow(r) \/ PaymentRow(r)
  \/ CreditsEnd(r) \/ PaymentsEnd(r)
  \/ Poll(r) \/ SaveProgress(r) \/ StreamRaises(r) \/ Commit(r) \/ Check3(r) \/ Final(r)
  \/ Check4(r) \/ MarkFailed(r) \/ Clear(r) \/ RunDies(r)

-----------------------------------------------------------------------------
(* cancel_sync_job, from the row the view has read.                        *)

CancelAt(c, from, to) == cancel[c].at = from /\ cancel' = [cancel EXCEPT ![c].at = to]

(* A job that has ended cannot be cancelled: 400.                          *)
CancelReads(c) ==
  /\ CancelAt(c, "idle", IF row.status \in Active THEN "mark" ELSE "refused")
  /\ UNCHANGED <<row, flag, run, late, reopened, died>>

CancelMarks(c) ==
  /\ CancelAt(c, "mark", "save")
  /\ flag' = TRUE
  /\ UNCHANGED <<row, run, late, reopened, died>>

CancelSaves(c) ==
  /\ CancelAt(c, "save", "done")
  /\ row' = Ended("CANCELLED", "cancelled", "cancelled")
  /\ UNCHANGED <<flag, run, late, reopened, died>>

CancelStep(c) == CancelMarks(c) \/ CancelSaves(c)

-----------------------------------------------------------------------------
(* What a reader is shown.                                                 *)

(* humanize_sync_error: the first test that fits.                          *)
Humanized(message) ==
  CASE message = "cancelled" -> "CANCELLED"
    [] message = "404 of an export" -> "NO_SOURCE_DATA"
    [] message = "400 of the bank" -> "BAD_REQUEST"
    [] message = "database" -> "DATABASE_ERROR"
    [] OTHER -> "PIPELINE_ERROR"

(* _sync_status_context: the hint is drawn from the first stored error.    *)
SyncError ==
  IF row.status \in {"FAILED", "CANCELLED"} /\ row.errors # <<>>
  THEN Humanized(row.errors[1].message)
  ELSE IF row.status = "CANCELLED" THEN Humanized("cancelled") ELSE ""

(* JobStatusSerializer, and the panel's hint.                              *)
Report ==
  [status |-> row.status, progress |-> row.progress, processed |-> row.processed,
   completed |-> row.completed, errors |-> row.errors, valid |-> row.valid,
   count |-> row.count, sync_error |-> SyncError]

-----------------------------------------------------------------------------
(* Properties.                                                             *)

Delivered == {r \in Runs : run[r].at # "idle"}
Once == Cardinality(Delivered) <= 1

(* A cancelled job says so to its reader, except that the callback may be  *)
(* past its look at the flag when the cancel saves: then one progress save *)
(* puts the row errors over the CANCELLED entry, never a second one        *)
(* (tasks.py:57-77 against cancel_sync.py:61-79).                          *)
CancelOverwrittenOnce ==
  Once => /\ late <= 1
          /\ row.status = "CANCELLED" /\ late = 0 => SyncError = "CANCELLED"

(* The report of a completed job is about the run that wrote it: the count *)
(* is of the whole log, the stored errors are its end, the critical        *)
(* failures among them, and every row is counted (tasks.py:124-147).       *)
CompletedReportExact ==
  Once /\ Report.status = "COMPLETED" => \A r \in Delivered :
    LET log == run[r].log
        kept == Len(Report.errors)
    IN  /\ Report.progress = 100 /\ Report.processed = Rows(r) /\ Report.sync_error = ""
        /\ Report.count = Len(log) /\ (Report.valid <=> log = <<>>)
        /\ kept <= MaxStored /\ (kept < MaxStored => kept = Len(log))
        /\ \A i \in 1..kept : Report.errors[i] = log[Len(log) - kept + i]
        /\ \A i \in DOMAIN row.critical : row.critical[i] = Report.errors[i].message

(* Whoever ends a job writes status, result and summary together, so that  *)
(* they agree however runs, repeats, deaths and cancels follow each other; *)
(* a job under way shows an end only after a start over a finished row.    *)
EndsAgree ==
  /\ row.status \in Terminal => row.completed
  /\ row.status = "COMPLETED" => row.result = "ingested" /\ (row.valid <=> row.count = 0)
  /\ row.status = "CANCELLED" => row.result = "cancelled" /\ row.count = 1
  /\ row.status = "FAILED" => ~row.valid /\ row.count >= 1
  /\ row.status \in Active /\ row.completed => reopened

(* A job that failed of itself ends with the generic entry alone, and the  *)
(* detailed reason is in result only.  A death or a cancel between the     *)
(* save of the outcome and that of the except block leaves the outcome's   *)
(* log in its place (tasks.py:134-181).                                    *)
FailedIsGeneric ==
  /\ row.status = "FAILED" /\ ~died
  /\ \A r \in Runs : run[r].at \notin RunBusy
  /\ \A c \in Cancels : cancel[c].at \in {"idle", "refused"}
  => row.errors = <<Entry(0, "generic")>> /\ SyncError = "PIPELINE_ERROR"

(* The progress of a job delivered once never goes back, whatever the row  *)
(* counts (pipeline.rs:74-83).                                             *)
ProgressNeverBack == [][Once' => row'.progress >= row.progress]_row
=============================================================================

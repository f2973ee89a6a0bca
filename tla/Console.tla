------------------------------- MODULE Console -------------------------------
(***************************************************************************)
(* The requests about one job (sync_status and cancel_sync of etl/views.py)*)
(* on top of the logins of TenantScope, while the job runs as in JobReport.*)
(* A request that cancels is the cancel of the same name.                  *)
(***************************************************************************)
EXTENDS TenantScope, JobReport

CONSTANT JobTenant \* the tenant of the job

ASSUME ConsoleAssumption == Cancels \subseteq Calls /\ JobTenant \in Tenants

VARIABLE shown \* history: tenants that were shown the job

consoleVars == <<scopeVars, reportVars, shown>>

ConsoleTypeOK == ScopeTypeOK /\ ReportTypeOK /\ shown \subseteq Tenants

Init == ScopeInit /\ ReportInit /\ shown = {}

-----------------------------------------------------------------------------
(* Mutant: the row is found by its job_id alone.                           *)
OwnJob_Any(q) == call[q].at = "allowed"

(* The job is the one of the request's tenant; else the answer is 403.     *)
OwnJob(q) == call[q].at = "allowed" /\ call[q].who.tenant = JobTenant

(* A request that has not begun to cancel.                                 *)
NotCancelling(q) == q \in Cancels => cancel[q].at = "idle"

(* sync_status: the Report of the row.                                     *)
StatusAnswers(q) ==
  /\ OwnJob(q) /\ NotCancelling(q)
  /\ shown' = shown \cup {call[q].who.tenant}
  /\ call' = [call EXCEPT ![q] = Request("closed", @.browser)]
  /\ UNCHANGED <<hour, session, tokens, left, reportVars>>

(* cancel_sync: the row is read and the tenant compared, then the service  *)
(* takes its steps.                                                        *)
CancelAsked(q) == OwnJob(q) /\ CancelReads(q) /\ UNCHANGED <<scopeVars, shown>>

Next ==
  \/ ScopeStep /\ UNCHANGED <<reportVars, shown>>
  \/ \E q \in Calls : StatusAnswers(q)
  \/ \E q \in Cancels : CancelAsked(q)
  \/ \E q \in Cancels : CancelStep(q) /\ UNCHANGED <<scopeVars, shown>>
  \/ \E r \in Runs : RunStep(r) /\ UNCHANGED <<scopeVars, shown>>

Spec == Init /\ [][Next]_consoleVars

-----------------------------------------------------------------------------
(* Properties.                                                             *)

(* A job is shown to, and cancelled by, operators who have a profile of    *)
(* its tenant, from the login to the last write of the cancel, also when a *)
(* browser changes operators in between (etl/views.py:168, 189).           *)
OnlyItsTenant ==
  /\ shown \subseteq {JobTenant}
  /\ row.status = "CANCELLED" \/ flag => \E q \in Cancels :
       /\ cancel[q].at \in {"save", "done"}
       /\ <<call[q].who.user, JobTenant>> \in Profiles
=============================================================================

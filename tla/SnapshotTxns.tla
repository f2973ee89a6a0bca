----------------------------- MODULE SnapshotTxns -----------------------------
(***************************************************************************)
(* Snapshot transactions of several SnapshotWriters (adapter/src/db.rs) on *)
(* one warehouse slice, as PostgreSQL runs them at READ COMMITTED: each    *)
(* statement sees what was committed when it began, waits for row locks of *)
(* open transactions and looks at the rows again afterwards; the foreign   *)
(* key of a payment is checked at the commit (Django declares it           *)
(* DEFERRABLE INITIALLY DEFERRED).                                         *)
(*                                                                         *)
(* Exports are shorter than a batch, so credits are flushed at the end of  *)
(* their stream and payments in commit(); SnapshotPipeline has the rest.   *)
(***************************************************************************)
EXTENDS Naturals, Sequences, SequencesExt, FiniteSets, FiniteSetsExt

CONSTANTS Syncs,     \* runs of run_pipeline
          OldSlices  \* slices committed before, and the next id: [cred, pay, next]

(* unique_together, primary and foreign keys.  An account is the place of  *)
(* its number in the order of the column.                                  *)
ASSUME OldSlicesAssumption == \A old \in OldSlices :
  /\ IsFiniteSet(old.cred) /\ \A c \in old.cred : c.account \in Nat
  /\ old.next \in Nat /\ \A c \in old.cred : c.id \in Nat /\ c.id < old.next
  /\ \A c, d \in old.cred : c.account = d.account \/ c.id = d.id => c = d
  /\ \A p \in old.pay : \E c \in old.cred : c.id = p.credit

VARIABLES
  cred,    \* committed credits: [id, account, num, chr]
  pay,     \* committed payments: [credit, number], credit being an id
  nextId,  \* the identity sequence
  tpc,     \* the statement each run is at
  target,  \* rows its DELETE found when it began
  gone,    \* ids of credits it deleted
  paid,    \* payments it deleted
  put,     \* credits it inserted or updated
  added,   \* payments it inserted
  todo,    \* rows it still has to write, with their places in the export
  (* History, read by the properties and by no guard *)
  versions, \* the slices committed so far, oldest first
  last,     \* the run that committed last
  beside,   \* runs whose transaction was open together with this one's
  overPaid  \* runs that found payments in the slice when they began

txnVars == <<cred, pay, nextId, tpc, target, gone, paid, put, added, todo,
             versions, last, beside, overPaid>>

TxnPoints == {"idle", "delete payments", "find credits", "delete credits", "stream credits",
              "insert credits", "stream payments", "insert payments", "commit", "ok", "failed"}
Open == {t \in Syncs : tpc[t] \notin {"idle", "ok", "failed"}}
Ids(rows) == {c.id : c \in rows}

(* The slice as its readers see it, without ids.                           *)
Contents(credits, payments) ==
  [credits |-> {[account |-> c.account, num |-> c.num, chr |-> c.chr] : c \in credits},
   payments |-> {[account |-> cp[1].account, number |-> cp[2].number] :
                   cp \in {join \in credits \X payments : join[1].id = join[2].credit}}]
Slice == Contents(cred, pay)

TxnTypeOK ==
  /\ tpc \in [Syncs -> TxnPoints]
  /\ nextId \in Nat
  /\ \A c \in cred : c.id < nextId
  /\ \A c, d \in cred : c.account = d.account => c = d   \* unique_together
  /\ \A p \in pay : p.credit \in Ids(cred)               \* foreign key
  /\ \A t \in Syncs : t \notin Open => gone[t] = {} /\ paid[t] = {} /\ put[t] = {} /\ added[t] = {}

TxnInit ==
  /\ \E old \in OldSlices : cred = old.cred /\ pay = old.pay /\ nextId = old.next
  /\ tpc = [t \in Syncs |-> "idle"]
  /\ target = [t \in Syncs |-> {}]
  /\ gone = target /\ paid = target /\ put = target /\ added = target /\ todo = target
  /\ versions = <<Slice>>
  /\ last = {} /\ overPaid = {}
  /\ beside = [t \in Syncs |-> {}]

At(t, from, to) == tpc[t] = from /\ tpc' = [tpc EXCEPT ![t] = to]
Others(t) == Open \ {t}

(* BEGIN, and the first DELETE takes its snapshot of the slice's payments. *)
TxnBegins(t) ==
  /\ At(t, "idle", "delete payments")
  /\ target' = [target EXCEPT ![t] = pay]
  /\ beside' = [o \in Syncs |-> IF o = t THEN Open
                                ELSE IF o \in Open THEN beside[o] \cup {t} ELSE beside[o]]
  /\ overPaid' = IF pay # {} THEN overPaid \cup {t} ELSE overPaid
  /\ UNCHANGED <<cred, pay, nextId, gone, paid, put, added, todo, versions, last>>

(* Mutant: it waits for nobody.                                            *)
DeletePayments_NoWait(t) ==
  /\ At(t, "delete payments", "find credits")
  /\ paid' = [paid EXCEPT ![t] = target[t] \cap pay]
  /\ UNCHANGED <<cred, pay, nextId, target, gone, put, added, todo, versions, last, beside, overPaid>>

(* It waits while another transaction has deleted one of them, then skips  *)
(* those that are gone; what was inserted meanwhile it never saw.          *)
DeletePayments(t) ==
  /\ At(t, "delete payments", "find credits")
  /\ \A o \in Others(t) : target[t] \cap paid[o] = {}
  /\ paid' = [paid EXCEPT ![t] = target[t] \cap pay]
  /\ UNCHANGED <<cred, pay, nextId, target, gone, put, added, todo, versions, last, beside, overPaid>>

(* Mutant: the slice's credits stay.                                       *)
FindCredits_None(t) ==
  /\ At(t, "find credits", "delete credits")
  /\ target' = [target EXCEPT ![t] = {}]
  /\ UNCHANGED <<cred, pay, nextId, gone, paid, put, added, todo, versions, last, beside, overPaid>>

(* The second DELETE takes its snapshot of the slice's credits.            *)
FindCredits(t) ==
  /\ At(t, "find credits", "delete credits")
  /\ target' = [target EXCEPT ![t] = Ids(cred)]
  /\ UNCHANGED <<cred, pay, nextId, gone, paid, put, added, todo, versions, last, beside, overPaid>>

(* The second DELETE waits in the same way, for deletes and updates.       *)
DeleteCredits(t) ==
  /\ At(t, "delete credits", "stream credits")
  /\ \A o \in Others(t) : target[t] \cap (gone[o] \cup Ids(put[o])) = {}
  /\ gone' = [gone EXCEPT ![t] = target[t] \cap Ids(cred)]
  /\ target' = [target EXCEPT ![t] = {}]
  /\ UNCHANGED <<cred, pay, nextId, paid, put, added, todo, versions, last, beside, overPaid>>

Placed(rows, places) == {[at |-> i, row |-> rows[i]] : i \in places}
Due(t) == {next \in todo[t] : \A other \in todo[t] : next.at <= other.at}

(* The credit stream has ended with these rows; blank accounts are skipped.*)
CreditsReceived(t, rows, blank) ==
  /\ At(t, "stream credits", "insert credits")
  /\ todo' = [todo EXCEPT ![t] = Placed(rows, {i \in DOMAIN rows : rows[i] # blank})]
  /\ UNCHANGED <<cred, pay, nextId, target, gone, paid, put, added, versions, last, beside, overPaid>>

(* Credits of an account as transaction t finds them: its own, and the     *)
(* committed ones it neither deleted nor replaced.                         *)
Mine(t, account) == {c \in put[t] : c.account = account}
Theirs(t, account) ==
  {c \in cred : c.account = account /\ c.id \notin gone[t] \cup Ids(put[t])}

(* INSERT ... ON CONFLICT DO UPDATE of one row: it waits for an open       *)
(* transaction that wrote the account or deleted its row, then updates a   *)
(* row that is there, also one it could not see, and keeps its id.         *)
InsertCredit(t) == \E next \in Due(t) :
  /\ tpc[t] = "insert credits"
  /\ LET row == next.row
         there == Mine(t, row.account) \cup Theirs(t, row.account)
         id == IF there = {} THEN nextId ELSE (CHOOSE c \in there : TRUE).id
     IN  /\ \A o \in Others(t) : Mine(o, row.account) = {} /\ Ids(there) \cap gone[o] = {}
         /\ put' = [put EXCEPT ![t] =
              {c \in @ : c.id # id} \cup
              {[id |-> id, account |-> row.account, num |-> row.num, chr |-> row.chr]}]
  /\ nextId' = nextId + 1
  /\ todo' = [todo EXCEPT ![t] = @ \ {next}]
  /\ UNCHANGED <<cred, pay, tpc, target, gone, paid, added, versions, last, beside, overPaid>>

(* Mutant: the upserts ran on a connection that commits each statement.    *)
CreditsFlushed_Autocommit(t) ==
  /\ todo[t] = {}
  /\ At(t, "insert credits", "stream payments")
  /\ cred' = {c \in cred : c.id \notin Ids(put[t])} \cup put[t]
  /\ UNCHANGED <<pay, nextId, target, gone, paid, put, added, todo,
                 versions, last, beside, overPaid>>

CreditsFlushed(t) ==
  /\ todo[t] = {}
  /\ At(t, "insert credits", "stream payments")
  /\ UNCHANGED <<cred, pay, nextId, target, gone, paid, put, added, todo, versions, last, beside, overPaid>>

(* The payment stream has ended: payments of unknown accounts are skipped, *)
(* the others get the credit id the upsert returned.                       *)
PaymentsReceived(t, rows, blank) ==
  /\ At(t, "stream payments", "insert payments")
  /\ todo' = [todo EXCEPT ![t] =
       Placed(rows, {i \in DOMAIN rows : rows[i] # blank /\ Mine(t, rows[i].account) # {}})]
  /\ UNCHANGED <<cred, pay, nextId, target, gone, paid, put, added, versions, last, beside, overPaid>>

(* One row of insert_payments_multi: it waits for an open transaction that *)
(* wrote or deleted the same (credit, installment_number); a row that is   *)
(* there is an error, and then only TxnFails goes on.                      *)
InsertPayment(t) == \E next \in Due(t) :
  /\ tpc[t] = "insert payments"
  /\ LET row == next.row
         new == [credit |-> (CHOOSE c \in Mine(t, row.account) : TRUE).id, number |-> row.number]
     IN  /\ \A o \in Others(t) : new \notin added[o] \cup paid[o]
         /\ new \notin added[t] \cup (pay \ paid[t])
         /\ added' = [added EXCEPT ![t] = @ \cup {new}]
  /\ todo' = [todo EXCEPT ![t] = @ \ {next}]
  /\ UNCHANGED <<cred, pay, nextId, tpc, target, gone, paid, put, versions, last, beside, overPaid>>

PaymentsFlushed(t) ==
  /\ todo[t] = {}
  /\ At(t, "insert payments", "commit")
  /\ UNCHANGED <<cred, pay, nextId, target, gone, paid, put, added, todo, versions, last, beside, overPaid>>

(* The transaction is over: its locks and its private rows are no more.    *)
Over(t) ==
  /\ target' = [target EXCEPT ![t] = {}]
  /\ gone' = [gone EXCEPT ![t] = {}] /\ paid' = [paid EXCEPT ![t] = {}]
  /\ put' = [put EXCEPT ![t] = {}] /\ added' = [added EXCEPT ![t] = {}]
  /\ todo' = [todo EXCEPT ![t] = {}]

(* Mutant: no deferred check.                                              *)
KeysHold_Never(t) == TRUE

(* The deferred checks: a new payment has its credit, a deleted credit has *)
(* no payment left; both wait for a transaction that is deleting the row.  *)
KeysHold(t) ==
  LET after == (Ids(cred) \ gone[t]) \cup Ids(put[t])
      left == {p \in pay \ paid[t] : p.credit \in gone[t]}
  IN  /\ \A p \in added[t] : p.credit \in after /\ \A o \in Others(t) : p.credit \notin gone[o]
      /\ left = {}

TxnCommits(t) ==
  /\ At(t, "commit", "ok")
  /\ KeysHold(t)
  /\ cred' = {c \in cred : c.id \notin gone[t] \cup Ids(put[t])} \cup put[t]
  /\ pay' = (pay \ paid[t]) \cup added[t]
  /\ Over(t)
  /\ versions' = Append(versions, Contents(cred', pay'))
  /\ last' = {t}
  /\ UNCHANGED <<nextId, beside, overPaid>>

(* An error, a cancel, a deadlock PostgreSQL breaks, a key violation: the  *)
(* transaction is undone.                                                  *)
TxnFails(t) ==
  /\ t \in Open
  /\ tpc' = [tpc EXCEPT ![t] = "failed"]
  /\ Over(t)
  /\ UNCHANGED <<cred, pay, nextId, versions, last, beside, overPaid>>

TxnStep(t) ==
  \/ DeletePayments(t) \/ FindCredits(t) \/ DeleteCredits(t)
  \/ InsertCredit(t) \/ CreditsFlushed(t) \/ InsertPayment(t) \/ PaymentsFlushed(t)
  \/ TxnCommits(t)
=============================================================================

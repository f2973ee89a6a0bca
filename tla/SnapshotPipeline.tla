--------------------------- MODULE SnapshotPipeline ---------------------------
(***************************************************************************)
(* One run of the Rust adapter, run_pipeline (adapter/src/pipeline.rs)     *)
(* with its SnapshotWriter (adapter/src/db.rs): one transaction deletes    *)
(* the slice and refills it in batches from the bank's credit and payment  *)
(* streams, asking the Python callback at fixed rows whether to go on.     *)
(*                                                                         *)
(* A row of a stream keeps what the run decides on: its account ("blank"   *)
(* when missing), one numeric field, one installment number.               *)
(***************************************************************************)
EXTENDS Naturals, Sequences, FiniteSets, SequencesExt, FiniteSetsExt

CONSTANTS Accounts,      \* loan account numbers, strings
          Fields,        \* of "a", "b": good; "bad": unparsable; "big": too wide
          Numbers,       \* installment numbers, "x" does not parse
          MaxCredits,    \* bound: rows of the credit export
          MaxPayments,   \* bound: rows of the payment export
          CreditBatch, CreditChunk, PaymentBatch,  \* the sizes of db.rs
          PollEvery      \* rows between two cancel polls

ASSUME BatchAssumption ==
  /\ CreditBatch \in Nat \ {0} /\ CreditChunk \in Nat \ {0}
  /\ PaymentBatch \in Nat \ {0} /\ PollEvery \in Nat \ {0}
ASSUME AccountAssumption == "blank" \notin Accounts

VARIABLES pc,        \* "begin", "credits", "payments", "commit", "ended"
          result,    \* PipelineResult, "raised" for an Err; "unacked" is a "failed"
                     \* of which only the server knows that it committed
          slice,     \* the slice's committed rows
          credits,   \* the transaction's credit rows: account -> [id, field]
          payments,  \* its payment rows: [credit, number]
          idMap,     \* credit_id_map
          lastId,    \* where the id sequence of etl_creditrecord stands
          batch,     \* credit_batch
          pbatch,    \* payment_batch
          known,     \* known_accounts
          errors,    \* error_logs: [phase, row]
          got, paid, \* the stream rows read so far
          creditCount,  \* credit_count, fixed at the end of the credit stream
          ingested,  \* payments_ingested
          cancel     \* the Redis cancel flag

txnVars == <<credits, payments, idMap, lastId, batch, pbatch, ingested>>
vars == <<pc, result, slice, txnVars, known, errors, got, paid, creditCount, cancel>>

CreditRows == [account : Accounts \cup {"blank"}, field : Fields]
PaymentRows == [account : Accounts \cup {"blank"}, number : Numbers]
Reference ==
  INSTANCE SliceReplace WITH slice <- slice, got <- got, paid <- paid, result <- result

(* A slice as it may stand before the run: empty, or the last snapshot.    *)
OldSlices ==
  { [credits |-> <<>>, payments |-> {}],
    [credits |-> [a \in Accounts |-> "old"], payments |-> Accounts \X {"old"}] }

Init ==
  /\ pc = "begin" /\ result = "running"
  /\ slice \in OldSlices
  /\ credits = <<>> /\ payments = {} /\ idMap = <<>> /\ lastId = 0
  /\ batch = <<>> /\ pbatch = <<>>
  /\ known = {} /\ errors = {}
  /\ got = <<>> /\ paid = <<>>
  /\ creditCount = 0 /\ ingested = 0
  /\ cancel = FALSE

-----------------------------------------------------------------------------
(* SnapshotWriter.  A writer is the part of the state its calls change; an *)
(* Err of one of them is ok = FALSE.                                       *)

Writer == [credits |-> credits, payments |-> payments, idMap |-> idMap,
           lastId |-> lastId, ingested |-> ingested, ok |-> TRUE]

(* Mutant: a batch is flushed one row late.                                *)
Full_Late(rows, size) == Len(rows) > size

(* push_credit and push_payment flush a batch that is full.                *)
Full(rows, size) == Len(rows) >= size

(* The rows of an account in a batch, and the last of them.                *)
Places(rows, account) == {i \in DOMAIN rows : rows[i].account = account}
LastRow(rows, account) == rows[Max(Places(rows, account))]
AccountsOf(rows) == {rows[i].account : i \in DOMAIN rows}

(* Where an account comes first, and the n-th such place.                  *)
Firsts(rows) == {i \in DOMAIN rows : i = Min(Places(rows, rows[i].account))}
NthFirst(rows, n) ==
  CHOOSE i \in Firsts(rows) : Cardinality({k \in Firsts(rows) : k <= i}) = n

(* Mutant: the first row of an account wins.                               *)
Dedupe_FirstWins(rows) ==
  [n \in 1..Cardinality(Firsts(rows)) |-> rows[NthFirst(rows, n)]]

(* flush_credits: within a batch the last row of an account wins, at the   *)
(* place of the first.                                                     *)
Dedupe(rows) ==
  [n \in 1..Cardinality(Firsts(rows)) |-> LastRow(rows, rows[NthFirst(rows, n)].account)]

(* slice::chunks: consecutive pieces of at most size rows.                 *)
Chunks(rows, size) ==
  [n \in 1..((Len(rows) + size - 1) \div size) |->
     SubSeq(rows, (n - 1) * size + 1, IF n * size < Len(rows) THEN n * size ELSE Len(rows))]

(* One INSERT ... ON CONFLICT DO UPDATE: a statement cannot touch a row    *)
(* twice, a value wider than its numeric column fails it.                  *)
Insertable(chunk) ==
  /\ Cardinality(AccountsOf(chunk)) = Len(chunk)
  /\ \A i \in DOMAIN chunk : chunk[i].field # "big"

(* The table after these rows: a row already there keeps its id, a new one *)
(* gets the next of the sequence, which counts the updated ones too.       *)
InsertCredits(w, rows) ==
  [a \in DOMAIN w.credits \cup AccountsOf(rows) |->
     IF a \in AccountsOf(rows)
     THEN [id |-> IF a \in DOMAIN w.credits THEN w.credits[a].id
                  ELSE w.lastId + Min(Places(rows, a)),
           field |-> LastRow(rows, a).field]
     ELSE w.credits[a]]

(* The statements of a flush one by one; RETURNING fills the id map.       *)
FlushCredits(w, rows) ==
  LET sent == Dedupe(rows)
      table == InsertCredits(w, sent)
  IN  IF w.ok /\ \A chunk \in Range(Chunks(sent, CreditChunk)) : Insertable(chunk)
      THEN [w EXCEPT !.credits = table, !.lastId = @ + Len(sent),
                     !.idMap = [a \in DOMAIN @ \cup AccountsOf(sent) |->
                                  IF a \in AccountsOf(sent) THEN table[a].id ELSE @[a]]]
      ELSE [w EXCEPT !.ok = FALSE]

(* flush_payments: an account without id, or a second payment with the     *)
(* same (credit, installment_number), is an Err.                           *)
Mapped(w, rows) == \A i \in DOMAIN rows : rows[i].account \in DOMAIN w.idMap
NewPayments(w, rows) ==
  {[credit |-> w.idMap[rows[i].account], number |-> rows[i].number] : i \in DOMAIN rows}
Unique(w, rows) ==
  /\ Cardinality(NewPayments(w, rows)) = Len(rows)
  /\ NewPayments(w, rows) \cap w.payments = {}

(* Mutant: = for +=.                                                       *)
FlushPayments_LastCount(w, rows) ==
  IF w.ok /\ Mapped(w, rows) /\ Unique(w, rows)
  THEN [w EXCEPT !.payments = @ \cup NewPayments(w, rows), !.ingested = Len(rows)]
  ELSE [w EXCEPT !.ok = FALSE]

FlushPayments(w, rows) ==
  IF w.ok /\ Mapped(w, rows) /\ Unique(w, rows)
  THEN [w EXCEPT !.payments = @ \cup NewPayments(w, rows), !.ingested = @ + Len(rows)]
  ELSE [w EXCEPT !.ok = FALSE]

-----------------------------------------------------------------------------
(* Row parsing.                                                            *)

(* collect_decimal logs a bad field and stores null.                       *)
ParseField(field) == IF field = "bad" THEN "null" ELSE field

(* parse_int(..).unwrap_or(0): no log entry.                               *)
ParseNumber(number) == IF number = "x" THEN "0" ELSE number

CreditAccepted(row) == row.account # "blank"
PaymentAccepted(row) == row.account # "blank" /\ row.account \in known

(* The log entries of one row: it was skipped, or its field is bad.        *)
CreditErrors(row) ==
  IF ~CreditAccepted(row) \/ row.field = "bad"
  THEN {[phase |-> "credits", row |-> Len(got) + 1]} ELSE {}

(* Mutant: a payment of an unknown account is skipped without a word.      *)
PaymentErrors_Silent(row) ==
  IF row.account # "blank" THEN {} ELSE {[phase |-> "payments", row |-> Len(paid) + 1]}

PaymentErrors(row) ==
  IF PaymentAccepted(row) THEN {} ELSE {[phase |-> "payments", row |-> Len(paid) + 1]}

-----------------------------------------------------------------------------
(* The run.                                                                *)

(* The run is over without a commit: the writer is dropped and PostgreSQL  *)
(* undoes the transaction; n payments are reported.                        *)
End(how, n) ==
  /\ pc' = "ended" /\ result' = how
  /\ credits' = <<>> /\ payments' = {} /\ idMap' = <<>> /\ UNCHANGED lastId
  /\ batch' = <<>> /\ pbatch' = <<>>
  /\ ingested' = n

(* Keep the writer w and its pending rows; an Err ends the run, and so     *)
(* does a poll that finds the cancel flag.                                 *)
Continue(w, rows, prows, poll, next) ==
  IF ~w.ok THEN End("raised", 0)
  ELSE IF poll /\ cancel THEN End("cancelled", 0)
  ELSE /\ pc' = next /\ UNCHANGED result
       /\ credits' = w.credits /\ payments' = w.payments /\ idMap' = w.idMap
       /\ lastId' = w.lastId /\ ingested' = w.ingested
       /\ batch' = rows /\ pbatch' = prows

(* SnapshotWriter::begin deletes the slice inside the transaction.         *)
Begin ==
  /\ pc = "begin" /\ pc' = "credits"
  /\ UNCHANGED <<result, slice, txnVars, known, errors, got, paid, creditCount, cancel>>

(* Connecting, beginning, opening a stream or reading a row fails.         *)
Raises ==
  /\ pc \in {"begin", "credits", "payments"}
  /\ End("raised", 0)
  /\ UNCHANGED <<slice, known, errors, got, paid, creditCount, cancel>>

CreditRow == \E row \in CreditRows :
  /\ pc = "credits" /\ Len(got) < MaxCredits
  /\ got' = Append(got, row)
  /\ errors' = errors \cup CreditErrors(row)
  /\ known' = known \cup ({row.account} \cap Accounts)
  /\ LET rows == IF CreditAccepted(row)
                 THEN Append(batch, [row EXCEPT !.field = ParseField(@)]) ELSE batch
         full == Full(rows, CreditBatch)
     IN  Continue(IF full THEN FlushCredits(Writer, rows) ELSE Writer,
                  IF full THEN <<>> ELSE rows, pbatch,
                  Len(got') % PollEvery = 0, "credits")
  /\ UNCHANGED <<slice, paid, creditCount, cancel>>

(* Mutant: the rows still pending are not flushed.                         *)
CreditsEnd_NoFlush ==
  /\ pc = "credits"
  /\ Continue(Writer, batch, pbatch, TRUE, "payments")
  /\ creditCount' = Cardinality(DOMAIN idMap)
  /\ UNCHANGED <<slice, known, errors, got, paid, cancel>>

(* The credit stream ends: flush, fix credit_count, poll at 40 %.          *)
CreditsEnd ==
  /\ pc = "credits"
  /\ LET w == FlushCredits(Writer, batch)
     IN  /\ Continue(w, <<>>, pbatch, TRUE, "payments")
         /\ creditCount' = Cardinality(DOMAIN w.idMap)
  /\ UNCHANGED <<slice, known, errors, got, paid, cancel>>

PaymentRow == \E row \in PaymentRows :
  /\ pc = "payments" /\ Len(paid) < MaxPayments
  /\ paid' = Append(paid, row)
  /\ errors' = errors \cup PaymentErrors(row)
  /\ LET prows == IF PaymentAccepted(row)
                  THEN Append(pbatch, [row EXCEPT !.number = ParseNumber(@)]) ELSE pbatch
         full == Full(prows, PaymentBatch)
     IN  Continue(IF full THEN FlushPayments(Writer, prows) ELSE Writer,
                  batch, IF full THEN <<>> ELSE prows,
                  Len(paid') % PollEvery = 0, "payments")
  /\ UNCHANGED <<slice, known, got, creditCount, cancel>>

(* The payment stream ends: the last poll, at 95 %.                        *)
PaymentsEnd ==
  /\ pc = "payments"
  /\ Continue(Writer, batch, pbatch, TRUE, "commit")
  /\ UNCHANGED <<slice, known, errors, got, paid, creditCount, cancel>>

(* What a commit makes visible: payments reach their account through the   *)
(* credit id.                                                              *)
Committed(w) ==
  [credits |-> [a \in DOMAIN w.credits |-> w.credits[a].field],
   payments |-> {ap \in (DOMAIN w.credits) \X {p.number : p \in w.payments} :
                  [credit |-> w.credits[ap[1]].id, number |-> ap[2]] \in w.payments}]

(* SnapshotWriter::commit flushes what is pending; its Err is a result     *)
(* with success = false and a log entry.                                   *)
Commit ==
  /\ pc = "commit"
  /\ LET w == FlushPayments(FlushCredits(Writer, batch), pbatch)
     IN  IF w.ok
         THEN End("ok", w.ingested) /\ slice' = Committed(w) /\ UNCHANGED errors
         ELSE /\ End("failed", 0) /\ UNCHANGED slice
              /\ errors' = errors \cup {[phase |-> "pipeline", row |-> 0]}
  /\ UNCHANGED <<known, got, paid, creditCount, cancel>>

(* The COMMIT itself fails.                                                *)
CommitFails ==
  /\ pc = "commit"
  /\ End("failed", 0)
  /\ errors' = errors \cup {[phase |-> "pipeline", row |-> 0]}
  /\ UNCHANGED <<slice, known, got, paid, creditCount, cancel>>

(* The server commits but the answer is lost: to the run, a COMMIT that    *)
(* fails.                                                                  *)
CommitUnacked ==
  /\ pc = "commit"
  /\ LET w == FlushPayments(FlushCredits(Writer, batch), pbatch)
     IN  w.ok /\ slice' = Committed(w)
  /\ End("unacked", 0)
  /\ errors' = errors \cup {[phase |-> "pipeline", row |-> 0]}
  /\ UNCHANGED <<known, got, paid, creditCount, cancel>>

(* A user cancels while the run is under way.                              *)
RequestCancel ==
  /\ ~cancel /\ pc # "ended"
  /\ cancel' = TRUE
  /\ UNCHANGED <<pc, result, slice, txnVars, known, errors, got, paid, creditCount>>

Next ==
  \/ Begin \/ Raises \/ CreditRow \/ CreditsEnd \/ PaymentRow \/ PaymentsEnd
  \/ Commit \/ CommitFails \/ CommitUnacked \/ RequestCancel

Spec == Init /\ [][Next]_vars

-----------------------------------------------------------------------------
(* Properties.                                                             *)

(* Every variable has its type; the pending rows are fewer than a batch.   *)
TypeOK ==
  /\ pc \in {"begin", "credits", "payments", "commit", "ended"}
  /\ result \in {"running"} \cup Reference!Replaced \cup Reference!Endings
  /\ (pc = "ended") <=> (result # "running")
  /\ DOMAIN slice.credits \subseteq Accounts
  /\ \A p \in slice.payments : p[1] \in Accounts
  /\ DOMAIN credits \subseteq Accounts /\ DOMAIN idMap \subseteq Accounts
  /\ Len(batch) < CreditBatch /\ Len(pbatch) < PaymentBatch
  /\ known \subseteq Accounts
  /\ cancel \in BOOLEAN

(* The run is a full-slice replace: whatever the batch limits, duplicates  *)
(* and polls, the slice keeps its old rows until it holds, in one step,    *)
(* exactly the normalised export (db.rs begin .. commit).                  *)
FullSliceReplace == Reference!Spec

(* "missing credit id" (db.rs:339) cannot happen: every account a payment  *)
(* may name has its id by the time payments are flushed, and that id is    *)
(* the id of the account's row.                                            *)
KnownAccountsHaveIds ==
  /\ pc \in {"payments", "commit"} => known = DOMAIN idMap
  /\ \A a \in DOMAIN idMap : a \in DOMAIN credits /\ credits[a].id = idMap[a]

(* The job's message "Ingested n credits and m payments" counts the rows   *)
(* of the committed slice.                                                 *)
CountsMatchSlice ==
  result = "ok" =>
    /\ creditCount = Cardinality(DOMAIN slice.credits)
    /\ ingested = Cardinality(slice.payments)

(* A payment of the export is in the committed slice or in the error log,  *)
(* also when the commit was not answered: no payment disappears without a  *)
(* trace.                                                                  *)
NoPaymentLost ==
  result \in Reference!Replaced => \A i \in DOMAIN paid :
    \/ <<paid[i].account, ParseNumber(paid[i].number)>> \in slice.payments
    \/ [phase |-> "payments", row |-> i] \in errors

(* Validation policy: an accepted row with an invalid numeric leaves an    *)
(* entry in the error log.                                                 *)
InvalidNumericLogged ==
  result = "ok" => \A i \in DOMAIN paid :
    paid[i].number = "x" => [phase |-> "payments", row |-> i] \in errors
=============================================================================

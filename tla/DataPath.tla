------------------------------- MODULE DataPath -------------------------------
(***************************************************************************)
(* The way of the data of one slice, put together: uploads rewrite the     *)
(* bank's files (BankFiles), syncs export them into the warehouse in one   *)
(* transaction each (SnapshotTxns), and the two APIs read the slice        *)
(* (WarehouseReads).  A run of run_pipeline opens its transaction first    *)
(* and keeps it open while it reads both exports (pipeline.rs:234-390).    *)
(*                                                                         *)
(* Nothing here serialises the syncs: the Redis lock that should is        *)
(* SyncSystem, whose runs show how two jobs come to write at once.         *)
(***************************************************************************)
EXTENDS BankFiles, WarehouseReads

(* The rows of an export have these columns.                               *)
ASSUME RowAssumption == \A u \in Uploads :
  /\ \A c \in Range(Content[u]["credits"]) :
       c = [account |-> c.account, num |-> c.num, chr |-> c.chr] /\ c.account \in Nat
  /\ \A p \in Range(Content[u]["payments"]) : p = [account |-> p.account, number |-> p.number]

(* A numerical field is NULL or a number; a character field NULL, "" or a  *)
(* value, of which only the order counts; an installment has its number.   *)
FieldsOK(c) == c.num \in Int \cup {Null} /\ c.chr \in Int \cup {Null, Blank}
ASSUME FieldAssumption ==
  /\ Null \notin Int
  /\ \A u \in Uploads : /\ \A c \in Range(Content[u]["credits"]) : FieldsOK(c)
                        /\ \A p \in Range(Content[u]["payments"]) : p.number \in Int
  /\ \A old \in OldSlices : /\ \A c \in old.cred : FieldsOK(c)
                            /\ \A p \in old.pay : p.number \in Int

ASSUME ExporterAssumption == Exporters = Syncs /\ Exporters \cap Downloads = {}

dataVars == <<bankVars, txnVars, readVars>>

DataTypeOK == BankTypeOK /\ TxnTypeOK

Init == BankInit /\ TxnInit /\ ReadInit

Received(t, kind) == IF kind \in DOMAIN got[t] THEN got[t][kind] ELSE <<>>

SyncBegins(t) ==
  /\ Started(1)
  /\ TxnBegins(t)
  /\ UNCHANGED <<uploadVars, readerVars, base, readVars>>

StreamPoint(kind) == IF kind = "credits" THEN "stream credits" ELSE "stream payments"

(* JsonRowStream::open: the bank answers, or 404 makes the run fail later. *)
SyncOpens(t, kind) ==
  /\ tpc[t] = StreamPoint(kind)
  /\ ExportStarts(t, kind)
  /\ UNCHANGED <<starts, txnVars, readVars>>

SyncReads(t, kind) ==
  /\ tpc[t] = StreamPoint(kind)
  /\ ReadRow(t, kind)
  /\ UNCHANGED <<txnVars, readVars>>

(* The stream's end is the moment its pending rows are flushed.            *)
SyncReadsEnd(t, kind) ==
  /\ ReadEnds(t, kind)
  /\ IF kind = "credits" THEN CreditsReceived(t, Received(t, kind), Hole)
                         ELSE PaymentsReceived(t, Received(t, kind), Hole)
  /\ UNCHANGED readVars

SyncStep(t) ==
  /\ TxnStep(t)
  /\ UNCHANGED <<bankVars, readVars>>

(* An error or a cancel at any statement; an open export is dropped.       *)
SyncFails(t) ==
  /\ TxnFails(t)
  /\ rpc' = [rpc EXCEPT ![t] = IF @ \in Reading THEN "failed" ELSE @]
  /\ UNCHANGED <<uploadVars, got, starts, base, readVars>>

Bank ==
  /\ \/ \E u \in Uploads : UploadStep(u)
     \/ \E d \in Downloads : DownloadStep(d)
  /\ UNCHANGED <<txnVars, readVars>>

Ask(q) == \E ask \in Asks :
  /\ Started(2)
  /\ ReadStarts(q, ask[1], ask[2])
  /\ UNCHANGED <<uploadVars, readerVars, base>>

AskNext(q) == NextQuery(q) /\ UNCHANGED bankVars

Sync(t) ==
  \/ SyncBegins(t) \/ SyncStep(t) \/ SyncFails(t)
  \/ \E k \in Kinds : SyncOpens(t, k) \/ SyncReads(t, k) \/ SyncReadsEnd(t, k)

Next ==
  \/ Bank
  \/ \E t \in Syncs : Sync(t)
  \/ \E q \in Requests : Ask(q) \/ AskNext(q)

Spec == Init /\ [][Next]_dataVars

-----------------------------------------------------------------------------
(* Properties.                                                             *)

(* The rows an export stands for: the last row of every account, and the   *)
(* payments of accounts the export names.                                  *)
Exported(t) ==
  LET rows == Received(t, "credits")
      named == {i \in DOMAIN rows : rows[i] # Hole}
      credits == {rows[i] : i \in {k \in named :
                    \A j \in named : rows[j].account = rows[k].account => j <= k}}
  IN  [credits |-> credits,
       payments |-> {p \in Range(Received(t, "payments")) :
                       p # Hole /\ \E c \in credits : c.account = p.account}]

(* A sync whose transaction was alone commits exactly what the bank sent   *)
(* it, whatever earlier syncs, failures and uploads left behind            *)
(* (db.rs:117-157, 434-442).                                               *)
AloneSyncExact ==
  \A t \in last : beside[t] = {} => Slice = Exported(t)

(* Two overlapping syncs leave the slice of one of them too, provided both *)
(* began over a slice with payments: the second then waits for the first   *)
(* at its DELETE and sees the first's rows only by their accounts.         *)
PairedSyncExact ==
  \A t \in last, o \in Syncs :
    beside[t] = {o} /\ beside[o] = {t} /\ {t, o} \subseteq overPaid => Slice = Exported(t)

(* Bank to warehouse: if no upload ran while a sync that was alone read    *)
(* its two exports, the slice holds that upload, credits and payments of   *)
(* the same one.                                                           *)
QuietSyncIsOneUpload ==
  \A t \in last : beside[t] = {} /\ base[t] # NoUpload =>
    LET upload == Content[base[t]]
        accounts == {upload["credits"][i].account : i \in DOMAIN upload["credits"]}
    IN  /\ Slice.credits \subseteq Range(upload["credits"])
        /\ {c.account : c \in Slice.credits} = accounts
        /\ Slice.payments = {p \in Range(upload["payments"]) : p.account \in accounts}

(* The answers of both APIs are put together from committed versions of    *)
(* the slice that never go back: a transaction that is open, or undone     *)
(* later, never shows (warehouse.py:42-80, profiling.py:147-219).          *)
Answers ==
  INSTANCE SnapshotAnswers WITH Requests <- Requests, Query <- Query, Parts <- Parts,
    versions <- versions, asked <- asked, answer <- answer, stamps <- stamps
AnswersAreCommitted == Answers!Spec
=============================================================================

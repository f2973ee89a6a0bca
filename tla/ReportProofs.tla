---------------------------- MODULE ReportProofs ----------------------------
(***************************************************************************)
(* Proofs about the report of the job in Console, for any deliveries,      *)
(* cancels, row counts and bounds of JobReport: a failed job's entry       *)
(* (FailInv), a cancelled one's (LateInv), a completed one's report        *)
(* (ToldInv), and its progress (ProgressInv).                              *)
(***************************************************************************)
EXTENDS ConsoleProofs, FiniteSetTheorems

(* The job's message was delivered once: Once, without counting.           *)
Lone == \A p, q \in Delivered : p = q

(* The points from which a delivery left alone still saves an outcome.     *)
Writing == {"start", "check2", "credits", "payments", "poll", "save", "commit", "check3",
            "final", "except", "markfailed"}

NobodyCancels == \A c \in Cancels : cancel[c].at \in {"idle", "refused"}

(* What is cancelled was marked, and a mark stays until a delivery is over.*)
MarkInv ==
  /\ row.status = "CANCELLED" \/ flag \/ (\E r \in Runs : run[r].cancelled) =>
       \E c \in Cancels : CancelledBy(c)
  /\ (\E c \in Cancels : CancelledBy(c)) => flag \/ \E r \in Runs : run[r].at = "over"

(* Whoever left other errors on a failed row has yet to end.               *)
FailInv ==
  row.status = "FAILED" /\ ~died /\ NobodyCancels =>
    row.errors = <<Entry(0, "generic")>> \/ \E r \in Runs : run[r].at \in Writing

(* A late save is the only one: no delivery is past the look at a flag     *)
(* that is up by then.                                                     *)
LateInv ==
  /\ row.status = "CANCELLED" /\ late = 0 => row.errors = <<Entry(0, "cancelled")>>
  /\ Lone => \/ late = 0
             \/ /\ late = 1 /\ (flag \/ \E r \in Runs : run[r].at = "over")
                /\ \A r \in Runs : run[r].at # "save"

(* The row is the outcome of this delivery.                                *)
Tells(d) ==
  /\ row.progress = 100 /\ row.processed = d.credits + d.payments
  /\ row.errors = Stored(d.log) /\ row.count = Len(d.log)
  /\ row.valid = (d.log = <<>>) /\ row.critical = Critical(d.log)

ToldInv ==
  Lone /\ row.status = "COMPLETED" =>
    \E r \in Delivered : run[r].at \in {"clear", "over"} /\ Tells(run[r])

(* What a delivery that goes on with a phase has reached.                  *)
Reached(phase, credits, payments, counted) ==
  IF phase = "credits" THEN CreditProgress(credits)
  ELSE IF phase = "payments" THEN PaymentProgress(payments, counted) ELSE 95

(* The counts and the progress due at each point.                          *)
PhaseOK(d) ==
  /\ d.at \in {"load", "start", "check2"} => d.credits = 0
  /\ d.at \in {"load", "start", "check2", "credits"} => d.payments = 0
  /\ d.at \in {"poll", "save"} =>
       /\ d.due = Reached(d.then, d.credits, d.payments, d.counted)
       /\ d.then = "credits" => d.payments = 0

(* The least a delivery can still save.                                    *)
Floor(d) ==
  IF d.at \in {"load", "start", "check2"} THEN 5
  ELSE IF d.at \in {"poll", "save"} THEN d.due
  ELSE IF d.at \in {"credits", "payments", "commit"}
  THEN Reached(d.at, d.credits, d.payments, d.counted)
  ELSE 100

ProgressInv ==
  /\ \A r \in Runs : PhaseOK(run[r])
  /\ Lone => /\ Delivered = {} => row.progress = 0
             /\ \A r \in Delivered : row.progress <= Floor(run[r])

(* With finitely many deliveries at any time.                              *)
TellInv ==
  ReportInv /\ IsFiniteSet(Delivered) /\ MarkInv /\ FailInv /\ LateInv /\ ToldInv /\ ProgressInv

-----------------------------------------------------------------------------
(* Arithmetic of the progress.                                             *)

(* What a share of a whole is, and that it grows with the part.            *)
LEMMA ShareGrows ==
  ASSUME NEW share \in Nat, NEW n \in Nat, NEW rest \in Nat \ {0}
  PROVE  /\ (share * n) \div (n + rest) \in 0..share
         /\ (share * n) \div (n + rest) <= (share * (n + 1)) \div (n + 1 + rest)
<1> DEFINE q == (share * n) \div (n + rest)
           p == (share * (n + 1)) \div (n + 1 + rest)
<1>1. q \in Nat /\ q * (n + rest) <= share * n
  OBVIOUS
<1>2. p \in Nat /\ share * (n + 1) < (p + 1) * (n + 1 + rest)
  OBVIOUS
<1> HIDE DEF q, p
<1>3. q <= share
  <2> SUFFICES ASSUME q >= share + 1 PROVE FALSE
    BY <1>1
  <2>1. q * (n + rest) >= (share + 1) * (n + rest) BY <1>1
  <2>2. (share + 1) * (n + rest) = share * n + share * rest + n + rest OBVIOUS
  <2>3. share * rest >= 0 OBVIOUS
  <2> QED BY <1>1, <2>1, <2>2, <2>3
<1>4. q * (n + 1 + rest) <= share * (n + 1)
  BY <1>1, <1>3
<1>5. q < p + 1
  <2> SUFFICES ASSUME q >= p + 1 PROVE FALSE
    BY <1>1, <1>2
  <2>1. q * (n + 1 + rest) >= (p + 1) * (n + 1 + rest) BY <1>1, <1>2
  <2> QED BY <1>1, <1>2, <1>4, <2>1
<1> QED BY <1>1, <1>2, <1>3, <1>5 DEF q, p

(* The credits take the progress from 5 to at most 40 percent.             *)
LEMMA CreditProgressGrows ==
  ASSUME NEW n \in Nat
  PROVE  /\ CreditProgress(n) \in 5..40 /\ CreditProgress(n) <= CreditProgress(n + 1)
         /\ CreditProgress(0) = 5
<1> USE ReportAssumption
<1>1. /\ (35 * n) \div (n + HalfWay) \in 0..35
      /\ (35 * n) \div (n + HalfWay) <= (35 * (n + 1)) \div (n + 1 + HalfWay)
  BY ShareGrows
<1>2. (35 * (n + 1)) \div (n + 1 + HalfWay) \in 0..35 BY ShareGrows
<1>3. (35 * 0) \div (0 + HalfWay) = 0
  <2>1. 35 * 0 = 0 OBVIOUS
  <2> QED BY <2>1
<1> QED BY <1>1, <1>2, <1>3 DEF CreditProgress

(* The payments take it from 40 to at most 90 percent.                     *)
LEMMA PaymentProgressGrows ==
  ASSUME NEW n \in Nat, NEW credits \in Nat \ {0}
  PROVE  /\ PaymentProgress(n, credits) \in 40..90
         /\ PaymentProgress(n, credits) <= PaymentProgress(n + 1, credits)
         /\ PaymentProgress(0, credits) = 40
<1>1. /\ (50 * n) \div (n + credits) \in 0..50
      /\ (50 * n) \div (n + credits) <= (50 * (n + 1)) \div (n + 1 + credits)
  BY ShareGrows
<1>2. (50 * (n + 1)) \div (n + 1 + credits) \in 0..50 BY ShareGrows
<1>3. (50 * 0) \div (0 + credits) = 0
  <2>1. 50 * 0 = 0 OBVIOUS
  <2> QED BY <2>1
<1> QED BY <1>1, <1>2, <1>3 DEF PaymentProgress

(* A message delivered once is Lone.                                       *)
LEMMA OnceIsLone == IsFiniteSet(Delivered) /\ Once => Lone
<1> SUFFICES ASSUME IsFiniteSet(Delivered), Once, NEW p \in Delivered, NEW q \in Delivered
             PROVE  p = q
  BY DEF Lone
<1>1. Cardinality(Delivered) \in Nat BY FS_CardinalityType
<1>2. CASE Cardinality(Delivered) = 0
  BY <1>2, FS_EmptySet
<1>3. CASE Cardinality(Delivered) = 1
  BY <1>3, FS_Singleton
<1> QED BY <1>1, <1>2, <1>3 DEF Once

-----------------------------------------------------------------------------
(* What the steps of a delivery change.                                    *)

(* An error in the streams leads to the except clause.                     *)
LEMMA RaisedExcepts ==
  ASSUME run \in [Runs -> RunType], NEW r \in Runs, StreamRaises(r)
  PROVE  run[r].at \in {"credits", "payments"} /\ run'[r].at = "except"
<1> DEFINE c == run[r]
<1>1. PICK why \in {"404 of an export", "database"} :
        /\ c.at \in {"credits", "payments"}
        /\ run' = [run EXCEPT ![r] = [c EXCEPT !.at = "except", !.why = why]]
  BY DEF StreamRaises
<1> DEFINE d == [c EXCEPT !.at = "except", !.why = why]
<1>2. c \in RunType
  OBVIOUS
<1>3. run'[r] = d BY <1>1
<1> HIDE DEF c
<1>4. d.at = "except" BY <1>2 DEF RunType
<1> QED BY <1>1, <1>3, <1>4 DEF c

(* A step that is no delivery changes one of them that was delivered.      *)
LEMMA OneMoves ==
  ASSUME ReportInv, NEW r \in Runs, RunStep(r), ~Deliver(r)
  PROVE  /\ run[r].at \in RunBusy /\ run'[r].at # "idle"
         /\ \A p \in Runs : p # r => run'[p] = run[p]
<1>1. run \in [Runs -> RunType] /\ run[r] \in RunType BY DEF ReportInv, ReportTypeOK
<1>2. /\ run[r].at \in {"poll", "save"} => run[r].then \in {"credits", "payments", "commit"}
      /\ run[r].at \in RunPoints
  BY <1>1 DEF ReportInv, RunOK, RunType
<1>3. \A p \in Runs : p # r => run'[p] = run[p]
  BY <1>1 DEF RunStep, Go, Load, Start, Check2, CreditRow, PaymentRow, CreditsEnd, PaymentsEnd,
     Poll, SaveProgress, StreamRaises, Commit, Check3, Final, Check4, MarkFailed, Clear, RunDies
<1>4. CASE CreditRow(r) \/ PaymentRow(r)
  <2>1. CASE CreditRow(r)
    BY <1>1, <2>1 DEF CreditRow, Received, RunType, RunBusy, RunPoints
  <2>2. CASE PaymentRow(r)
    BY <1>1, <2>2 DEF PaymentRow, Received, RunType, RunBusy, RunPoints
  <2> QED BY <1>3, <1>4, <2>1, <2>2
<1>5. CASE CreditsEnd(r) \/ PaymentsEnd(r) \/ Poll(r) \/ StreamRaises(r)
  <2>1. CASE CreditsEnd(r) BY <1>1, <2>1 DEF CreditsEnd, RunType, RunBusy, RunPoints
  <2>2. CASE PaymentsEnd(r) BY <1>1, <2>2 DEF PaymentsEnd, RunType, RunBusy, RunPoints
  <2>3. CASE Poll(r) BY <1>1, <2>3 DEF Poll, RunType, RunBusy, RunPoints
  <2>4. CASE StreamRaises(r)
    <3>1. run[r].at \in {"credits", "payments"} /\ run'[r].at = "except"
      BY <1>1, <2>4, RaisedExcepts
    <3>2. {"credits", "payments"} \subseteq RunBusy BY DEF RunBusy, RunPoints
    <3> QED BY <1>3, <3>1, <3>2
  <2> QED BY <1>3, <1>5, <2>1, <2>2, <2>3, <2>4
<1>6. CASE Commit(r) \/ Final(r)
  <2>1. CASE Commit(r) BY <1>1, <2>1 DEF Commit, RunType, RunBusy, RunPoints
  <2>2. CASE Final(r) BY <1>1, <2>2 DEF Final, RunType, RunBusy, RunPoints
  <2> QED BY <1>3, <1>6, <2>1, <2>2
<1>7. CASE Load(r) \/ Start(r) \/ Check2(r) \/ SaveProgress(r) \/ Check3(r) \/ Check4(r)
  BY <1>1, <1>2, <1>3, <1>7 DEF Load, Start, Check2, SaveProgress, Check3, Check4, Go, RunType,
     RunBusy, RunPoints
<1>8. CASE MarkFailed(r) \/ Clear(r) \/ RunDies(r)
  BY <1>1, <1>3, <1>8 DEF MarkFailed, Clear, RunDies, Go, RunType, RunBusy, RunPoints
<1> QED BY <1>4, <1>5, <1>6, <1>7, <1>8 DEF RunStep

(* A delivery begins; those that are over stay over.                       *)
LEMMA OneBegins ==
  ASSUME ReportInv, NEW r \in Runs, Deliver(r)
  PROVE  /\ run[r].at = "idle" /\ run'[r] = Fresh("load") /\ Quietly
         /\ \A p \in Runs : p # r =>
              \/ run'[p] = run[p]
              \/ run[p].at = "over" /\ run'[p] = Fresh("over")
  BY DEF Deliver, ReportInv, ReportTypeOK

(* Only Deliver makes a delivery, and an end is an end.                    *)
LEMMA RunMoves ==
  ASSUME ReportInv, NEW r \in Runs, RunStep(r)
  PROVE  /\ Delivered' = IF Deliver(r) THEN Delivered \cup {r} ELSE Delivered
         /\ r \in Delivered'
         /\ \A p \in Runs : run[p].at = "over" => run'[p].at = "over"
<1>1. CASE Deliver(r)
  <2>0. Fresh("load").at = "load" /\ Fresh("over").at = "over" BY DEF Fresh
  <2>1. \A p \in Runs : run'[p].at = IF p = r THEN "load" ELSE run[p].at
    BY <1>1, <2>0, OneBegins
  <2> QED BY <1>1, <2>1, OneBegins DEF Delivered
<1>2. CASE ~Deliver(r)
  <2>1. Delivered' = Delivered /\ r \in Delivered'
    BY <1>2, OneMoves DEF Delivered, RunBusy
  <2> QED BY <1>2, <2>1, OneMoves DEF RunBusy
<1> QED BY <1>1, <1>2

(* The other steps deliver nothing.                                        *)
LEMMA OthersLeaveRuns ==
  ASSUME [Next]_consoleVars, \A r \in Runs : ~RunStep(r)
  PROVE  UNCHANGED <<run, died, late>>
  BY DEF Next, ScopeStep, StatusAnswers, CancelAsked, CancelReads, CancelStep, CancelMarks,
     CancelSaves, consoleVars, reportVars, scopeVars

(* Deliveries are never taken back, and there are finitely many.           *)
LEMMA DeliveredGrows ==
  ASSUME ReportInv, [Next]_consoleVars
  PROVE  /\ Delivered \subseteq Delivered' /\ (Lone' => Lone)
         /\ IsFiniteSet(Delivered) => IsFiniteSet(Delivered')
<1>1. CASE \E r \in Runs : RunStep(r)
  <2>1. PICK r \in Runs : RunStep(r) BY <1>1
  <2>2. Delivered' = Delivered \cup {r} \/ Delivered' = Delivered BY <2>1, RunMoves
  <2> QED BY <2>2, FS_AddElement DEF Lone
<1>2. CASE \A r \in Runs : ~RunStep(r)
  BY <1>2, OthersLeaveRuns DEF Delivered, Lone
<1> QED BY <1>1, <1>2

-----------------------------------------------------------------------------
(* A job that failed.                                                      *)

(* A delivery that saw a cancel saw a flag; the flag goes with an end.     *)
LEMMA RunSees ==
  ASSUME ReportInv, NEW r \in Runs, RunStep(r)
  PROVE  /\ \A p \in Runs : run'[p].cancelled => run[p].cancelled \/ flag
         /\ flag => flag' \/ run'[r].at = "over"
<1>1. run \in [Runs -> RunType] /\ run[r] \in RunType BY DEF ReportInv, ReportTypeOK
<1>2. flag => flag' \/ run'[r].at = "over"
  <2>1. CASE Clear(r) BY <1>1, <2>1 DEF Clear, Go, RunType
  <2>2. CASE ~Clear(r)
    BY <2>2 DEF RunStep, Quietly, Deliver, Load, Start, Check2, CreditRow, PaymentRow, CreditsEnd,
       PaymentsEnd, Poll, SaveProgress, StreamRaises, Commit, Check3, Final, SavesOutcome, Check4,
       MarkFailed, RunDies
  <2> QED BY <2>1, <2>2
<1>3. CASE Deliver(r)
  <2>1. \A at : ~Fresh(at).cancelled BY DEF Fresh
  <2> QED BY <1>2, <1>3, <2>1, OneBegins
<1>4. CASE ~Deliver(r)
  <2>1. run'[r].cancelled => run[r].cancelled \/ flag
    <3>1. CASE CreditRow(r) BY <1>1, <3>1 DEF CreditRow, Received, RunType
    <3>2. CASE PaymentRow(r) BY <1>1, <3>2 DEF PaymentRow, Received, RunType
    <3>3. CASE CreditsEnd(r) BY <1>1, <3>3 DEF CreditsEnd, RunType
    <3>4. CASE PaymentsEnd(r) BY <1>1, <3>4 DEF PaymentsEnd, RunType
    <3>a. CASE StreamRaises(r)
      <4>1. PICK why : run' = [run EXCEPT ![r].at = "except", ![r].why = why]
        BY <3>a DEF StreamRaises
      <4> QED BY <1>1, <4>1 DEF RunType
    <3>5. CASE Poll(r) BY <1>1, <3>5 DEF Poll, RunType
    <3>6. CASE Commit(r) BY <1>1, <3>6 DEF Commit, RunType
    <3>7. CASE Final(r) BY <1>1, <3>7 DEF Final, RunType
    <3>8. CASE \E from, to \in RunPoints \cup {run[r].then} : Go(r, from, to)
      BY <1>1, <3>8 DEF Go, RunType
    <3>9. CASE RunDies(r) BY <1>1, <3>9 DEF RunDies, RunType
    <3> QED
      BY <1>4, <3>1, <3>2, <3>3, <3>4, <3>5, <3>6, <3>7, <3>8, <3>9, <3>a
      DEF RunStep, Load, Start, Check2, SaveProgress, Check3, Check4, MarkFailed, Clear, RunPoints
  <2> QED BY <1>2, <1>4, <2>1, OneMoves
<1> QED BY <1>3, <1>4

(* Whatever cancels has marked first.                                      *)
LEMMA MarkKeeps ==
  ASSUME ReportInv, MarkInv, [Next]_consoleVars
  PROVE  MarkInv'
<1>1. ASSUME NEW r \in Runs, RunStep(r) PROVE MarkInv'
  <2>1. (\E c \in Cancels : CancelledBy(c))' <=> \E c \in Cancels : CancelledBy(c)
    BY <1>1, RunTouchesNobody DEF CancelledBy
  <2>2. row'.status = "CANCELLED" \/ flag' => row.status = "CANCELLED" \/ flag
    BY <1>1, RunTouchesNobody
  <2>3. \A p \in Runs : run'[p].cancelled => run[p].cancelled \/ flag
    BY <1>1, RunSees
  <2>4. flag \/ (\E p \in Runs : run[p].at = "over") =>
          flag' \/ \E p \in Runs : run'[p].at = "over"
    BY <1>1, RunSees, RunMoves
  <2> QED BY <2>1, <2>2, <2>3, <2>4 DEF MarkInv
<1>2. ASSUME NEW c \in Cancels, CancelReads(c) \/ CancelStep(c) PROVE MarkInv'
  <2>0. cancel \in [Cancels -> [at : {"idle", "mark", "save", "done", "refused"}]]
    BY DEF ReportInv, ReportTypeOK
  <2>1. \A d \in Cancels : CancelledBy(d) => CancelledBy(d)'
    BY <1>2, <2>0 DEF CancelledBy, CancelReads, CancelStep, CancelMarks, CancelSaves, CancelAt
  <2>2. run' = run
    BY <1>2 DEF CancelReads, CancelStep, CancelMarks, CancelSaves
  <2>3. CASE CancelReads(c)
    <3>1. ~CancelledBy(c)' /\ UNCHANGED <<row, flag>>
      BY <2>0, <2>3 DEF CancelledBy, CancelReads, CancelAt
    <3>2. \A d \in Cancels : CancelledBy(d)' => CancelledBy(d)
      BY <2>0, <2>3, <3>1 DEF CancelledBy, CancelReads, CancelAt
    <3> QED BY <2>1, <2>2, <3>1, <3>2 DEF MarkInv
  <2>4. CASE CancelMarks(c)
    BY <2>0, <2>1, <2>2, <2>4 DEF CancelMarks, CancelAt, CancelledBy, MarkInv
  <2>5. CASE CancelSaves(c)
    <3>1. CancelledBy(c) /\ flag' = flag BY <2>5 DEF CancelSaves, CancelAt, CancelledBy
    <3> QED BY <2>1, <2>2, <3>1 DEF MarkInv
  <2> QED BY <1>2, <2>3, <2>4, <2>5 DEF CancelStep
<1>3. CASE UNCHANGED reportVars BY <1>3 DEF reportVars, MarkInv, CancelledBy
<1> QED BY <1>1, <1>2, <1>3 DEF Next, CancelAsked, StatusAnswers, consoleVars

(* An except block that nobody cancels saves its generic entry.            *)
LEMMA FailKeeps ==
  ASSUME ReportInv, MarkInv, FailInv, [Next]_consoleVars
  PROVE  FailInv'
<1> USE DEF Writing
<1>0. row \in RowType /\ run \in [Runs -> RunType] BY DEF ReportInv, ReportTypeOK
<1>1. ASSUME NEW r \in Runs, RunStep(r) PROVE FailInv'
  <2> SUFFICES ASSUME row'.status = "FAILED", ~died', NobodyCancels'
               PROVE  row'.errors = <<Entry(0, "generic")>> \/ \E p \in Runs : run'[p].at \in Writing
    BY DEF FailInv
  <2>1. NobodyCancels BY <1>1, RunTouchesNobody DEF NobodyCancels
  <2>2. row.status # "CANCELLED" /\ ~flag /\ ~run[r].cancelled
    BY <2>1 DEF NobodyCancels, MarkInv, CancelledBy
  <2>3. run[r] \in RunType /\ RunOK(run[r]) /\ ~SeesCancel
    BY <1>0, <2>2 DEF ReportInv, SeesCancel
  <2>4. CASE Deliver(r)
    <3>1. row' = row /\ died' = died /\ \A p \in Runs : run[p].at \in Writing => run'[p] = run[p]
      BY <2>4, OneBegins DEF Quietly
    <3> QED BY <2>1, <3>1 DEF FailInv
  <2>5. CASE MarkFailed(r)
    BY <1>0, <2>5 DEF MarkFailed, Ended, RowType
  <2>6. CASE Load(r)
    <3>1. run'[r].at \in Writing BY <1>0, <2>3, <2>6 DEF Load, Go, RunType
    <3> QED BY <3>1
  <2>7. CASE Start(r) \/ Check2(r) \/ SaveProgress(r) \/ Check3(r) \/ Check4(r)
    <3>1. run'[r].at \in Writing
      BY <1>0, <2>2, <2>3, <2>7
      DEF Start, Check2, SaveProgress, Check3, Check4, Go, RunType, RunOK
    <3> QED BY <3>1
  <2>8. CASE CreditRow(r) \/ PaymentRow(r)
    <3>1. CASE CreditRow(r)
      <4>1. run'[r].at \in Writing BY <1>0, <2>3, <3>1 DEF CreditRow, Received, RunType
      <4> QED BY <4>1
    <3>2. CASE PaymentRow(r)
      <4>1. run'[r].at \in Writing BY <1>0, <2>3, <3>2 DEF PaymentRow, Received, RunType
      <4> QED BY <4>1
    <3> QED BY <2>8, <3>1, <3>2
  <2>9. CASE CreditsEnd(r) \/ PaymentsEnd(r) \/ Poll(r) \/ StreamRaises(r) \/ Commit(r)
    <3>1. CASE CreditsEnd(r)
      <4>1. run'[r].at \in Writing BY <1>0, <2>3, <3>1 DEF CreditsEnd, RunType
      <4> QED BY <4>1
    <3>2. CASE PaymentsEnd(r)
      <4>1. run'[r].at \in Writing BY <1>0, <2>3, <3>2 DEF PaymentsEnd, RunType
      <4> QED BY <4>1
    <3>4. CASE Poll(r)
      <4>1. run'[r].at \in Writing BY <1>0, <2>2, <2>3, <3>4 DEF Poll, RunType
      <4> QED BY <4>1
    <3>5. CASE StreamRaises(r)
      <4>1. run \in [Runs -> RunType] BY <1>0 DEF ReportInv, ReportTypeOK
      <4> QED BY <4>1, <3>5, RaisedExcepts
    <3>3. CASE Commit(r)
      <4>1. run'[r].at \in Writing BY <1>0, <2>3, <3>3 DEF Commit, RunType
      <4> QED BY <4>1
    <3> QED BY <2>9, <3>1, <3>2, <3>3, <3>4, <3>5
  <2>a. CASE Final(r)
    <3>1. run[r].result # "ok"
      BY <2>a DEF Final, SavesOutcome
    <3>2. run'[r].at = "except" BY <1>0, <2>3, <2>a, <3>1 DEF Final, RunType
    <3> QED BY <3>2
  <2>b. CASE Clear(r)
    <3>1. row' = row /\ died' = died /\ run[r].at = "clear" BY <2>b DEF Clear, Go
    <3>2. \A p \in Runs : run[p].at \in Writing => run'[p] = run[p]
      BY <1>0, <2>b, <3>1 DEF Clear, Go
    <3> QED BY <2>1, <3>1, <3>2 DEF FailInv
  <2>c. CASE RunDies(r) BY <2>c DEF RunDies
  <2> QED
    BY <1>1, <2>4, <2>5, <2>6, <2>7, <2>8, <2>9, <2>a, <2>b, <2>c DEF RunStep
<1>2. ASSUME NEW c \in Cancels, CancelReads(c) \/ CancelStep(c) PROVE FailInv'
  <2>0. cancel \in [Cancels -> [at : {"idle", "mark", "save", "done", "refused"}]]
    BY DEF ReportInv, ReportTypeOK
  <2>1. CASE CancelReads(c)
    <3>1. NobodyCancels' => NobodyCancels /\ UNCHANGED <<row, died, run>>
      BY <2>0, <2>1 DEF CancelReads, CancelAt, NobodyCancels
    <3> QED BY <3>1 DEF FailInv
  <2>2. CASE CancelStep(c)
    <3>1. cancel'[c].at \in {"save", "done"}
      BY <2>0, <2>2 DEF CancelStep, CancelMarks, CancelSaves, CancelAt
    <3> QED BY <3>1 DEF FailInv, NobodyCancels
  <2> QED BY <1>2, <2>1, <2>2
<1>3. CASE UNCHANGED reportVars BY <1>3 DEF reportVars, FailInv, NobodyCancels
<1> QED BY <1>1, <1>2, <1>3 DEF Next, CancelAsked, StatusAnswers, consoleVars

-----------------------------------------------------------------------------
(* A job that was cancelled.                                               *)

(* Which steps of a delivery write status and errors.                      *)
LEMMA WhoSaves ==
  ASSUME ReportInv, NEW r \in Runs, RunStep(r)
  PROVE  /\ ~(Start(r) \/ SaveProgress(r) \/ Final(r) \/ MarkFailed(r)) => row' = row
         /\ ~SaveProgress(r) => late' = late
         /\ Start(r) => row'.status = "PROCESSING" /\ row'.progress = 5
         /\ SaveProgress(r) => /\ row'.status = row.status
                               /\ row'.progress = run[r].due
                               /\ late' = IF row.status = "CANCELLED" THEN late + 1 ELSE late
         /\ Final(r) => row'.status \in {"COMPLETED", "FAILED"} /\ row'.progress = 100
         /\ MarkFailed(r) => row'.status = "FAILED" /\ row'.progress = row.progress
<1>1. row \in RowType BY DEF ReportInv, ReportTypeOK
<1>2. /\ ~(Start(r) \/ SaveProgress(r) \/ Final(r) \/ MarkFailed(r)) => row' = row
      /\ ~SaveProgress(r) => late' = late
  BY DEF RunStep, Quietly, Deliver, Load, Start, Check2, CreditRow, PaymentRow, CreditsEnd,
     PaymentsEnd, Poll, StreamRaises, Commit, Check3, Final, SavesOutcome, Check4, MarkFailed,
     Clear, RunDies
<1>3. Start(r) => row'.status = "PROCESSING" /\ row'.progress = 5
  BY <1>1 DEF Start, RowType
<1>4. SaveProgress(r) => /\ row'.status = row.status
                         /\ row'.progress = run[r].due
                         /\ late' = IF row.status = "CANCELLED" THEN late + 1 ELSE late
  BY <1>1 DEF SaveProgress, RowType
<1>5. Final(r) => row'.status \in {"COMPLETED", "FAILED"} /\ row'.progress = 100
  BY DEF Final, SavesOutcome
<1>6. MarkFailed(r) => row'.status = "FAILED" /\ row'.progress = row.progress
  BY <1>1 DEF MarkFailed, Ended, RowType
<1> QED BY <1>2, <1>3, <1>4, <1>5, <1>6

(* A delivery comes to its save only past a flag that is down.             *)
LEMMA SavesPastTheFlag ==
  ASSUME ReportInv, NEW r \in Runs, RunStep(r)
  PROVE  /\ run'[r].at = "save" => Poll(r) /\ ~flag
         /\ SaveProgress(r) => run'[r].at \in {"credits", "payments", "commit"}
<1>1. run \in [Runs -> RunType] /\ run[r] \in RunType /\ RunOK(run[r])
  BY DEF ReportInv, ReportTypeOK
<1>2. SaveProgress(r) => run'[r].at \in {"credits", "payments", "commit"}
  BY <1>1 DEF SaveProgress, Go, RunOK, RunType
<1>3. ASSUME ~Poll(r), ~SaveProgress(r) PROVE run'[r].at # "save"
  <2>1. CASE Deliver(r)
    <3>1. Fresh("load").at = "load" BY DEF Fresh
    <3> QED BY <2>1, <3>1, OneBegins
  <2>2. CASE CreditRow(r) BY <1>1, <2>2 DEF CreditRow, Received, RunType
  <2>3. CASE PaymentRow(r) BY <1>1, <2>3 DEF PaymentRow, Received, RunType
  <2>4. CASE CreditsEnd(r) BY <1>1, <2>4 DEF CreditsEnd, RunType
  <2>5. CASE PaymentsEnd(r) BY <1>1, <2>5 DEF PaymentsEnd, RunType
  <2>6. CASE StreamRaises(r)
    <3>1. PICK why : run' = [run EXCEPT ![r].at = "except", ![r].why = why]
      BY <2>6 DEF StreamRaises
    <3> QED BY <1>1, <3>1 DEF RunType
  <2>7. CASE Commit(r) BY <1>1, <2>7 DEF Commit, RunType
  <2>8. CASE Final(r) BY <1>1, <2>8 DEF Final, RunType
  <2>9. CASE RunDies(r) BY <1>1, <2>9 DEF RunDies, RunType
  <2>a. CASE \E from, to \in RunPoints \ {"save"} : Go(r, from, to)
    BY <1>1, <2>a DEF Go, RunType
  <2> QED
    BY <1>3, <2>1, <2>2, <2>3, <2>4, <2>5, <2>6, <2>7, <2>8, <2>9, <2>a
    DEF RunStep, Load, Start, Check2, Check3, Check4, MarkFailed, Clear, RunPoints
<1>4. Poll(r) /\ run'[r].at = "save" => ~flag
  BY <1>1 DEF Poll, RunType
<1> QED BY <1>2, <1>3, <1>4

(* The one late save is the last of its delivery.                          *)
LEMMA LateKeeps ==
  ASSUME ReportInv, MarkInv, LateInv, [Next]_consoleVars
  PROVE  LateInv'
<1>0. row \in RowType /\ late \in Nat BY DEF ReportInv, ReportTypeOK
<1>1. ASSUME NEW r \in Runs, RunStep(r) PROVE LateInv'
  <2>1. row'.status = "CANCELLED" /\ late' = 0 => row'.errors = <<Entry(0, "cancelled")>>
    <3> SUFFICES ASSUME row'.status = "CANCELLED", late' = 0 PROVE row' = row /\ late' = late
      BY DEF LateInv
    <3> QED BY <1>0, <1>1, WhoSaves
  <2>2. ASSUME Lone'
        PROVE  \/ late' = 0
               \/ /\ late' = 1 /\ (flag' \/ \E p \in Runs : run'[p].at = "over")
                  /\ \A p \in Runs : run'[p].at # "save"
    <3>1. Lone /\ \A p \in Runs : p # r => run'[p].at = "idle"
      BY <1>1, <2>2, DeliveredGrows, RunMoves DEF Lone, Delivered
    <3>2. (\E p \in Runs : run[p].at = "over") => \E p \in Runs : run'[p].at = "over"
      BY <1>1, RunMoves
    <3>3. flag => flag' \/ \E p \in Runs : run'[p].at = "over" BY <1>1, RunSees
    <3>4. \A p \in Runs : run[p].at = "over" => p = r /\ run'[r].at = "over"
      BY <1>1, <3>1, RunMoves
    <3>5. CASE late = 0
      <4>1. CASE SaveProgress(r) /\ row.status = "CANCELLED"
        <5>1. late' = 1 BY <1>1, <3>5, <4>1, WhoSaves
        <5>2. flag \/ \E p \in Runs : run[p].at = "over" BY <4>1 DEF MarkInv
        <5>3. run'[r].at # "save" BY <1>1, <4>1, SavesPastTheFlag
        <5>4. \A p \in Runs : run'[p].at # "save" BY <3>1, <5>3
        <5> QED BY <3>2, <3>3, <5>1, <5>2, <5>4
      <4>2. CASE ~(SaveProgress(r) /\ row.status = "CANCELLED")
        BY <1>1, <3>5, <4>2, WhoSaves
      <4> QED BY <4>1, <4>2
    <3>6. CASE late # 0
      <4>1. /\ late = 1 /\ (flag \/ \E p \in Runs : run[p].at = "over")
            /\ \A p \in Runs : run[p].at # "save"
        BY <3>1, <3>6 DEF LateInv
      <4>2. late' = late
        <5>1. ~SaveProgress(r) BY <4>1 DEF SaveProgress, Go
        <5> QED BY <1>1, <5>1, WhoSaves
      <4>3. run'[r].at # "save"
        <5> SUFFICES ASSUME run'[r].at = "save" PROVE FALSE
          OBVIOUS
        <5>1. ~flag BY <1>1, SavesPastTheFlag
        <5>2. \E p \in Runs : run[p].at = "over" BY <4>1, <5>1
        <5> QED BY <3>4, <5>2
      <4>4. \A p \in Runs : run'[p].at # "save" BY <3>1, <4>3
      <4> QED BY <3>2, <3>3, <4>1, <4>2, <4>4
    <3> QED BY <3>5, <3>6
  <2> QED BY <2>1, <2>2 DEF LateInv
<1>2. CASE \A r \in Runs : ~RunStep(r)
  <2>1. UNCHANGED <<run, late>> BY <1>2, OthersLeaveRuns
  <2>2. (flag => flag') /\ (Lone' => Lone)
    BY <1>2, <2>1
    DEF Next, ScopeStep, StatusAnswers, CancelAsked, CancelReads, CancelStep, CancelMarks,
        CancelSaves, consoleVars, reportVars, scopeVars, Lone, Delivered
  <2>3. row' = row \/ row'.errors = <<Entry(0, "cancelled")>>
    <3>1. CASE \E c \in Cancels : CancelSaves(c)
      BY <1>0, <3>1 DEF CancelSaves, Ended, RowType
    <3>2. CASE \A c \in Cancels : ~CancelSaves(c)
      BY <1>2, <3>2
      DEF Next, ScopeStep, StatusAnswers, CancelAsked, CancelReads, CancelStep, CancelMarks,
          consoleVars, reportVars, scopeVars
    <3> QED BY <3>1, <3>2
  <2> QED BY <2>1, <2>2, <2>3 DEF LateInv
<1> QED BY <1>1, <1>2

-----------------------------------------------------------------------------
(* A job that completed.                                                   *)

(* What an outcome saves of its delivery.                                  *)
LEMMA FinalTells ==
  ASSUME ReportInv, NEW r \in Runs, Final(r), row'.status = "COMPLETED"
  PROVE  run'[r].at = "clear" /\ Tells(run[r])'
<1>1. run \in [Runs -> RunType] /\ run[r] \in RunType BY DEF ReportInv, ReportTypeOK
<1> DEFINE log == run[r].log
<1>2. run[r].result = "ok" BY DEF Final, SavesOutcome
<1>3. /\ run'[r].at = "clear" /\ run'[r].log = log
      /\ run'[r].credits = run[r].credits /\ run'[r].payments = run[r].payments
  BY <1>1, <1>2 DEF Final, RunType
<1>4. row' = [status |-> "COMPLETED", completed |-> TRUE, progress |-> 100, processed |-> Rows(r),
              errors |-> Stored(log), valid |-> log = <<>>, count |-> Len(log),
              critical |-> Critical(log), result |-> "ingested"]
  BY <1>2 DEF Final, SavesOutcome
<1> HIDE DEF log
<1>5. /\ row'.progress = 100 /\ row'.processed = Rows(r) /\ row'.errors = Stored(log)
      /\ row'.valid = (log = <<>>) /\ row'.count = Len(log) /\ row'.critical = Critical(log)
  BY ONLY <1>4
<1> QED BY <1>3, <1>5 DEF Tells, Rows

(* Once a job has completed its one delivery has nothing left to write.    *)
LEMMA ToldKeeps ==
  ASSUME ReportInv, ToldInv, [Next]_consoleVars
  PROVE  ToldInv'
<1> SUFFICES ASSUME Lone', row'.status = "COMPLETED"
             PROVE  \E r \in Delivered' : run'[r].at \in {"clear", "over"} /\ Tells(run[r])'
  BY DEF ToldInv
<1>0. /\ Delivered \subseteq Delivered' /\ Lone /\ row \in RowType
      /\ run \in [Runs -> RunType]
  BY DeliveredGrows DEF ReportInv, ReportTypeOK
<1>1. ASSUME NEW r \in Runs, RunStep(r)
      PROVE  \E p \in Delivered' : run'[p].at \in {"clear", "over"} /\ Tells(run[p])'
  <2>1. r \in Delivered' BY <1>1, RunMoves
  <2>2. CASE Final(r) BY <2>1, <2>2, FinalTells
  <2>3. CASE ~Final(r)
    <3>1. row.status = "COMPLETED" /\ (SaveProgress(r) \/ row' = row)
      BY <1>1, <2>3, WhoSaves
    <3>2. PICK p \in Delivered : run[p].at \in {"clear", "over"} /\ Tells(run[p])
      BY <1>0, <3>1 DEF ToldInv
    <3>3. p = r /\ run[r].at \in {"clear", "over"} BY <1>0, <2>1, <3>2 DEF Lone
    <3>4. Clear(r) \/ RunDies(r)
      BY <1>1, <3>3
      DEF RunStep, Go, Deliver, Load, Start, Check2, CreditRow, PaymentRow, CreditsEnd,
          PaymentsEnd, Poll, SaveProgress, StreamRaises, Commit, Check3, Final, Check4, MarkFailed
    <3>5. row' = row /\ run' = [run EXCEPT ![r].at = "over"]
      BY <3>4 DEF Clear, RunDies, Go
    <3>6. /\ run'[r].at = "over" /\ run'[r].log = run[r].log
          /\ run'[r].credits = run[r].credits /\ run'[r].payments = run[r].payments
      BY <1>0, <3>5 DEF RunType
    <3>7. Tells(run[r])' BY <3>2, <3>3, <3>5, <3>6 DEF Tells
    <3> QED BY <2>1, <3>6, <3>7
  <2> QED BY <2>2, <2>3
<1>2. CASE \A r \in Runs : ~RunStep(r)
  <2>1. run' = run BY <1>2, OthersLeaveRuns
  <2>2. row' = row
    <3>1. \A c \in Cancels : ~CancelSaves(c) BY <1>0 DEF CancelSaves, Ended, RowType
    <3> QED
      BY <1>2, <3>1
      DEF Next, ScopeStep, StatusAnswers, CancelAsked, CancelReads, CancelStep, CancelMarks,
          consoleVars, reportVars, scopeVars
  <2> QED BY <1>0, <2>1, <2>2 DEF ToldInv, Tells
<1> QED BY <1>1, <1>2

(* What is stored of a log is its end.                                     *)
LEMMA StoredIsEnd ==
  ASSUME NEW log \in Log
  PROVE  LET kept == Len(Stored(log))
         IN  /\ kept \in Nat /\ kept <= MaxStored /\ (kept < MaxStored => kept = Len(log))
             /\ \A i \in 1..kept : Stored(log)[i] = log[Len(log) - kept + i]
<1> USE ReportAssumption
<1>0. Len(log) \in Nat /\ log \in Seq([row : Nat, message : Messages]) BY DEF Log
<1>1. CASE Len(log) <= MaxStored BY <1>0, <1>1 DEF Stored
<1>2. CASE ~(Len(log) <= MaxStored)
  <2> DEFINE from == Len(log) - MaxStored + 1
             T == [row : Nat, message : Messages]
  <2>1. from \in 1..Len(log) /\ Stored(log) = SubSeq(log, from, Len(log))
    BY <1>0, <1>2 DEF Stored
  <2>2. ASSUME NEW i \in from..Len(log) PROVE log[i] \in T
    <3>1. i \in 1..Len(log) BY <1>0, <2>1
    <3> QED BY <1>0, <3>1, ElementOfSeq
  <2>3. /\ Len(SubSeq(log, from, Len(log))) = IF from <= Len(log) THEN Len(log) - from + 1 ELSE 0
        /\ \A i \in 1..(Len(log) - from + 1) :
             SubSeq(log, from, Len(log))[i] = log[from + i - 1]
    <3> HIDE DEF from, T
    <3> QED BY <1>0, <2>1, <2>2, SubSeqProperties
  <2>4. Len(Stored(log)) = MaxStored BY <1>0, <2>1, <2>3
  <2>5. \A i \in 1..MaxStored : Stored(log)[i] = log[Len(log) - MaxStored + i]
    <3>1. \A i \in 1..MaxStored : from + i - 1 = Len(log) - MaxStored + i BY <1>0
    <3>2. Len(log) - from + 1 = MaxStored BY <1>0
    <3> HIDE DEF from
    <3> QED BY <2>1, <2>3, <3>1, <3>2
  <2> QED BY <2>4, <2>5
<1> QED BY <1>1, <1>2

(* The critical failures are the first of what is stored.                  *)
LEMMA CriticalIsStored ==
  ASSUME NEW log \in Log
  PROVE  \A i \in DOMAIN Critical(log) :
           Critical(log)[i] = Stored(log)[i].message
  BY DEF Critical

-----------------------------------------------------------------------------
(* The progress.                                                           *)

(* A delivery under way does not lower what it can still save, and keeps   *)
(* its counts.                                                             *)
LEMMA RowsClimb ==
  ASSUME ReportInv, NEW r \in Runs, PhaseOK(run[r]), CreditRow(r) \/ PaymentRow(r)
  PROVE  PhaseOK(run'[r]) /\ Floor(run[r]) <= Floor(run'[r])
<1> DEFINE c == run[r]
<1>1. run \in [Runs -> RunType] /\ c \in RunType BY DEF ReportInv, ReportTypeOK
<1>2. c.credits \in Nat /\ c.payments \in Nat /\ c.counted \in Nat \ {0} BY <1>1 DEF RunType
<1>3. CASE CreditRow(r)
  <2> DEFINE n == c.credits + 1
             due == CreditProgress(n)
             at == IF n % PollEvery = 0 THEN "poll" ELSE "credits"
  <2>1. c.at = "credits" BY <1>3 DEF CreditRow
  <2>2. /\ run'[r].at = at /\ run'[r].then = "credits" /\ run'[r].due = due
        /\ run'[r].credits = n /\ run'[r].payments = c.payments /\ run'[r].counted = c.counted
    <3>1. PICK bad \in RowErrors :
            run' = [run EXCEPT ![r] = [Received(c, n, bad, "credit row", due) EXCEPT !.credits = n]]
      BY <1>3 DEF CreditRow
    <3> DEFINE log == c.log \o [i \in 1..bad |-> Entry(n, "credit row")]
    <3>2. Received(c, n, bad, "credit row", due) =
            [c EXCEPT !.log = log, !.at = at, !.then = "credits", !.due = due]
      BY <1>1, <2>1 DEF Received, RunType
    <3> HIDE DEF log, at, due, n, c
    <3> QED BY ONLY <1>1, <3>1, <3>2 DEF RunType
  <2>3. CreditProgress(c.credits) <= due /\ n \in Nat BY <1>2, CreditProgressGrows
  <2>4. c.payments = 0 BY <2>1 DEF PhaseOK
  <2>5. at \in {"poll", "credits"} OBVIOUS
  <2>6. Floor(c) = CreditProgress(c.credits) BY <2>1 DEF Floor, Reached
  <2> HIDE DEF c, n, at
  <2>7. due = Reached("credits", n, c.payments, c.counted) BY DEF Reached
  <2> HIDE DEF due
  <2>8. PhaseOK(run'[r]) BY <2>2, <2>4, <2>5, <2>7 DEF PhaseOK
  <2>9. Floor(run'[r]) = due BY <2>2, <2>5, <2>7 DEF Floor
  <2> QED BY <2>3, <2>6, <2>8, <2>9 DEF c
<1>4. CASE PaymentRow(r)
  <2> DEFINE n == c.payments + 1
             due == PaymentProgress(n, c.counted)
             at == IF n % PollEvery = 0 THEN "poll" ELSE "payments"
  <2>1. c.at = "payments" BY <1>4 DEF PaymentRow
  <2>2. /\ run'[r].at = at /\ run'[r].then = "payments" /\ run'[r].due = due
        /\ run'[r].credits = c.credits /\ run'[r].payments = n /\ run'[r].counted = c.counted
    <3>1. PICK bad \in RowErrors :
            run' = [run EXCEPT ![r] = [Received(c, n, bad, "payment row", due) EXCEPT !.payments = n]]
      BY <1>4 DEF PaymentRow
    <3> DEFINE log == c.log \o [i \in 1..bad |-> Entry(n, "payment row")]
    <3>2. Received(c, n, bad, "payment row", due) =
            [c EXCEPT !.log = log, !.at = at, !.then = "payments", !.due = due]
      BY <1>1, <2>1 DEF Received, RunType
    <3> HIDE DEF log, at, due, n, c
    <3> QED BY ONLY <1>1, <3>1, <3>2 DEF RunType
  <2>3. PaymentProgress(c.payments, c.counted) <= due BY <1>2, PaymentProgressGrows
  <2>5. at \in {"poll", "payments"} OBVIOUS
  <2>6. Floor(c) = PaymentProgress(c.payments, c.counted) BY <2>1 DEF Floor, Reached
  <2> HIDE DEF c, n, at
  <2>7. due = Reached("payments", c.credits, n, c.counted) BY DEF Reached
  <2> HIDE DEF due
  <2>8. PhaseOK(run'[r]) BY <2>2, <2>5, <2>7 DEF PhaseOK
  <2>9. Floor(run'[r]) = due BY <2>2, <2>5, <2>7 DEF Floor
  <2> QED BY <2>3, <2>6, <2>8, <2>9 DEF c
<1> QED BY <1>3, <1>4

(* The ends of the two exports.                                            *)
LEMMA ExportsClimb ==
  ASSUME ReportInv, NEW r \in Runs, PhaseOK(run[r]), CreditsEnd(r) \/ PaymentsEnd(r)
  PROVE  PhaseOK(run'[r]) /\ Floor(run[r]) <= Floor(run'[r])
<1> DEFINE c == run[r]
<1>1. run \in [Runs -> RunType] /\ c \in RunType BY DEF ReportInv, ReportTypeOK
<1>2. c.credits \in Nat /\ c.payments \in Nat /\ c.counted \in Nat \ {0} BY <1>1 DEF RunType
<1>3. CASE CreditsEnd(r)
  <2>1. PICK counted \in Nat \ {0} :
          run' = [run EXCEPT ![r] = [c EXCEPT !.at = "poll", !.then = "payments", !.due = 40,
                                             !.counted = counted]]
    <3>1. 1..(IF c.credits = 0 THEN 1 ELSE c.credits) \subseteq Nat \ {0} BY <1>2
    <3> QED BY <1>3, <3>1 DEF CreditsEnd
  <2>2. /\ run'[r].at = "poll" /\ run'[r].then = "payments" /\ run'[r].due = 40
        /\ run'[r].credits = c.credits /\ run'[r].payments = c.payments
        /\ run'[r].counted = counted
    BY <1>1, <2>1 DEF RunType
  <2>3. c.at = "credits" BY <1>3 DEF CreditsEnd
  <2>4. c.payments = 0 BY <2>3 DEF PhaseOK
  <2>5. Reached("payments", c.credits, 0, counted) = 40
    BY PaymentProgressGrows DEF Reached
  <2>6. Floor(c) = CreditProgress(c.credits) BY <2>3 DEF Floor, Reached
  <2>7. CreditProgress(c.credits) \in 5..40 BY <1>2, CreditProgressGrows
  <2> HIDE DEF c
  <2>8. PhaseOK(run'[r]) BY <2>2, <2>4, <2>5 DEF PhaseOK
  <2>9. Floor(run'[r]) = 40 BY <2>2 DEF Floor
  <2> QED BY <2>6, <2>7, <2>8, <2>9 DEF c
<1>4. CASE PaymentsEnd(r)
  <2>2. /\ run'[r].at = "poll" /\ run'[r].then = "commit" /\ run'[r].due = 95
    BY <1>1, <1>4 DEF PaymentsEnd, RunType
  <2>3. c.at = "payments" BY <1>4 DEF PaymentsEnd
  <2>6. Floor(c) = PaymentProgress(c.payments, c.counted) BY <2>3 DEF Floor, Reached
  <2>7. PaymentProgress(c.payments, c.counted) \in 40..90 BY <1>2, PaymentProgressGrows
  <2> HIDE DEF c
  <2>8. PhaseOK(run'[r]) BY <2>2 DEF PhaseOK, Reached
  <2>9. Floor(run'[r]) = 95 BY <2>2 DEF Floor
  <2> QED BY <2>6, <2>7, <2>8, <2>9 DEF c
<1> QED BY <1>3, <1>4

(* Nothing that a delivery can save is more than all of it.                *)
LEMMA FloorIsPercent ==
  ASSUME NEW d \in RunType
  PROVE  Floor(d) \in 0..100
<1>1. d.credits \in Nat /\ d.payments \in Nat /\ d.counted \in Nat \ {0} /\ d.due \in 0..100
  BY DEF RunType
<1>2. CreditProgress(d.credits) \in 5..40 /\ PaymentProgress(d.payments, d.counted) \in 40..90
  BY <1>1, CreditProgressGrows, PaymentProgressGrows
<1>3. \A phase : Reached(phase, d.credits, d.payments, d.counted) \in 0..100
  BY <1>2 DEF Reached
<1> QED BY <1>1, <1>3 DEF Floor

(* Leaving for a point after which no progress is saved.                   *)
LEMMA LastPoints ==
  ASSUME NEW d \in RunType,
         d.at \in {"commit", "check3", "final", "except", "markfailed", "clear", "over"}
  PROVE  PhaseOK(d) /\ Floor(d) = IF d.at = "commit" THEN 95 ELSE 100
  BY DEF PhaseOK, Floor, Reached

(* Any step of a delivery climbs.                                          *)
LEMMA RunClimbs ==
  ASSUME ReportInv, NEW r \in Runs, PhaseOK(run[r]), RunStep(r), ~Deliver(r)
  PROVE  PhaseOK(run'[r]) /\ Floor(run[r]) <= Floor(run'[r])
<1> DEFINE c == run[r]
<1>1. /\ run \in [Runs -> RunType] /\ c \in RunType /\ run'[r] \in RunType
      /\ RunOK(c) /\ flag \in BOOLEAN
  <2>1. ReportInv'
    BY DeliverKeeps, ChecksKeep, RowsKeep, ExportsKeep, VerdictsKeep, StartKeeps,
       SaveProgressKeeps, FinalKeeps, MarkFailedKeeps, LeavingKeeps DEF RunStep
  <2> QED BY <2>1 DEF ReportInv, ReportTypeOK
<1>2. Floor(c) \in 0..100 BY <1>1, FloorIsPercent
<1>3. CASE run'[r].at \in {"check3", "final", "except", "markfailed", "clear", "over"}
  <2>1. PhaseOK(run'[r]) /\ Floor(run'[r]) = 100 BY <1>1, <1>3, LastPoints
  <2> QED BY <1>2, <2>1
<1>4. CASE CreditRow(r) \/ PaymentRow(r) BY <1>4, RowsClimb
<1>5. CASE CreditsEnd(r) \/ PaymentsEnd(r) BY <1>5, ExportsClimb
<1>6. CASE Load(r) \/ Start(r) \/ Check2(r)
  <2>1. PICK to \in {"start", "check2", "credits", "clear"} :
          run' = [run EXCEPT ![r].at = to] /\ c.at \in {"load", "start", "check2"}
    BY <1>6 DEF Load, Start, Check2, Go
  <2>2. /\ run'[r].at = to /\ run'[r].credits = c.credits /\ run'[r].payments = c.payments
        /\ run'[r].counted = c.counted
    BY <1>1, <2>1 DEF RunType
  <2>3. c.credits = 0 /\ c.payments = 0 /\ Floor(c) = 5
    BY <2>1 DEF PhaseOK, Floor
  <2>4. CASE to = "clear" BY <1>3, <2>2, <2>4
  <2>5. CASE to # "clear"
    <3>1. Reached("credits", 0, 0, c.counted) = 5 BY CreditProgressGrows DEF Reached
    <3> HIDE DEF c
    <3>2. PhaseOK(run'[r]) BY <2>1, <2>2, <2>3, <2>5 DEF PhaseOK
    <3>3. Floor(run'[r]) = 5 BY <2>1, <2>2, <2>3, <2>5, <3>1 DEF Floor
    <3> QED BY <2>3, <3>2, <3>3 DEF c
  <2> QED BY <2>4, <2>5
<1>7. CASE Poll(r)
  <2>1. /\ run'[r].at = IF flag THEN "check3" ELSE "save"
        /\ run'[r].credits = c.credits /\ run'[r].payments = c.payments
        /\ run'[r].counted = c.counted /\ run'[r].then = c.then /\ run'[r].due = c.due
        /\ c.at = "poll"
    BY <1>1, <1>7 DEF Poll, RunType
  <2>2. CASE flag BY <1>3, <2>1, <2>2
  <2>3. CASE ~flag
    <3>1. Floor(c) = c.due /\ Floor(run'[r]) = c.due BY <2>1, <2>3 DEF Floor
    <3>2. PhaseOK(run'[r]) BY <2>1, <2>3 DEF PhaseOK
    <3> QED BY <1>2, <3>1, <3>2
  <2> QED BY <2>2, <2>3
<1>8. CASE SaveProgress(r)
  <2>1. /\ run'[r].at = c.then
        /\ run'[r].credits = c.credits /\ run'[r].payments = c.payments
        /\ run'[r].counted = c.counted
        /\ c.at = "save" /\ c.then \in {"credits", "payments", "commit"}
    BY <1>1, <1>8 DEF SaveProgress, Go, RunType, RunOK
  <2>2. c.due = Reached(c.then, c.credits, c.payments, c.counted)
        /\ (c.then = "credits" => c.payments = 0)
    BY <2>1 DEF PhaseOK
  <2>3. Floor(c) = c.due /\ Floor(run'[r]) = c.due BY <2>1, <2>2 DEF Floor
  <2>4. PhaseOK(run'[r]) BY <2>1, <2>2 DEF PhaseOK
  <2> QED BY <1>2, <2>3, <2>4
<1>9. CASE StreamRaises(r) \/ Commit(r) \/ Check3(r) \/ Final(r) \/ Check4(r) \/ MarkFailed(r)
           \/ Clear(r) \/ RunDies(r)
  <2>1. CASE StreamRaises(r)
    <3>1. PICK why : run' = [run EXCEPT ![r].at = "except", ![r].why = why]
      BY <2>1 DEF StreamRaises
    <3> QED BY <1>1, <1>3, <3>1 DEF RunType
  <2>2. CASE Commit(r)
    <3>1. run'[r].at = "check3" BY <1>1, <2>2 DEF Commit, RunType
    <3> QED BY <1>3, <3>1
  <2>3. CASE Final(r)
    <3>1. run'[r].at \in {"clear", "except"} BY <1>1, <2>3 DEF Final, RunType
    <3> QED BY <1>3, <3>1
  <2>4. CASE Check3(r) \/ Check4(r) \/ MarkFailed(r) \/ Clear(r) \/ RunDies(r)
    <3>1. run'[r].at \in {"final", "clear", "markfailed", "over"}
      BY <1>1, <2>4 DEF Check3, Check4, MarkFailed, Clear, RunDies, Go, RunType
    <3> QED BY <1>3, <3>1
  <2> QED BY <1>9, <2>1, <2>2, <2>3, <2>4
<1> QED BY <1>4, <1>5, <1>6, <1>7, <1>8, <1>9 DEF RunStep

(* No delivery has saved more than it is still to save.                    *)
LEMMA ProgressKeeps ==
  ASSUME ReportInv, ProgressInv, [Next]_consoleVars
  PROVE  ProgressInv' /\ (Lone' => row'.progress >= row.progress)
<1>0. /\ run \in [Runs -> RunType] /\ row \in RowType /\ Delivered \subseteq Delivered'
      /\ (Lone' => Lone) /\ row.progress \in Nat
  <2>1. row \in RowType /\ run \in [Runs -> RunType] BY DEF ReportInv, ReportTypeOK
  <2>2. row.progress \in 0..100 BY <2>1 DEF RowType
  <2> QED BY <2>1, <2>2, DeliveredGrows
<1>1. ASSUME NEW r \in Runs, RunStep(r)
      PROVE  ProgressInv' /\ (Lone' => row'.progress >= row.progress)
  <2>1. r \in Delivered' /\ (\A p \in Runs : PhaseOK(run[p])) BY <1>1, RunMoves DEF ProgressInv
  <2>2. CASE Deliver(r)
    <3>1. \A at \in {"load", "over"} : PhaseOK(Fresh(at)) BY DEF PhaseOK, Fresh
    <3>2. \A p \in Runs : PhaseOK(run[p])'
      <4>1. \A p \in Runs : run'[p] = run[p] \/ run'[p] = Fresh("load") \/ run'[p] = Fresh("over")
        BY <2>2, OneBegins
      <4> QED BY <2>1, <3>1, <4>1
    <3>3. row' = row BY <2>2 DEF Deliver, Quietly
    <3>4. ASSUME Lone'
          PROVE  Delivered' = {r} /\ row.progress = 0
      <4>1. Delivered' = {r} BY <2>1, <3>4 DEF Lone
      <4>2. Delivered = {} BY <1>0, <2>2, <4>1 DEF Deliver, Delivered
      <4> QED BY <1>0, <3>4, <4>1, <4>2 DEF ProgressInv
    <3>5. Floor(run'[r]) = 5
      <4>1. Fresh("load").at = "load" BY DEF Fresh
      <4> QED BY <2>2, <4>1, OneBegins DEF Floor
    <3>6. ASSUME Lone'
          PROVE  Delivered' # {} /\ \A p \in Delivered' : row'.progress <= Floor(run[p])'
      BY <3>3, <3>4, <3>5, <3>6
    <3> QED BY <1>0, <3>2, <3>3, <3>6 DEF ProgressInv
  <2>3. CASE ~Deliver(r)
    <3>1. Delivered' = Delivered /\ r \in Delivered BY <1>1, <2>1, <2>3, RunMoves
    <3>2. PhaseOK(run'[r]) /\ Floor(run[r]) <= Floor(run'[r]) BY <1>1, <2>1, <2>3, RunClimbs
    <3>3. \A p \in Runs : PhaseOK(run[p])'
      <4>1. \A p \in Runs : p # r => run'[p] = run[p] BY <1>1, <2>3, OneMoves
      <4> QED BY <2>1, <3>2, <4>1
    <3>4. run[r] \in RunType /\ Floor(run[r]) \in 0..100 /\ run'[r] \in RunType /\ Floor(run'[r]) \in 0..100
      <4>1. ReportInv' BY <1>1, DeliverKeeps, ChecksKeep, RowsKeep, ExportsKeep, VerdictsKeep, StartKeeps,
              SaveProgressKeeps, FinalKeeps, MarkFailedKeeps, LeavingKeeps DEF RunStep
      <4>2. run'[r] \in RunType BY <4>1 DEF ReportInv, ReportTypeOK
      <4> QED BY <1>0, <4>2, FloorIsPercent
    <3>5. ASSUME Lone'
          PROVE  row'.progress \in Nat /\ row'.progress <= Floor(run'[r]) /\ row'.progress >= row.progress
      <4>1. row.progress <= Floor(run[r]) BY <1>0, <3>1, <3>5 DEF ProgressInv
      <4>2. CASE Start(r)
        <5>1. row'.progress = 5 BY <1>1, <4>2, WhoSaves
        <5>2. Floor(run[r]) = 5 BY <4>2 DEF Start, Go, Floor
        <5> QED BY <1>0, <3>2, <3>4, <4>1, <5>1, <5>2
      <4>3. CASE SaveProgress(r)
        <5>1. row'.progress = run[r].due BY <1>1, <4>3, WhoSaves
        <5>2. Floor(run[r]) = run[r].due BY <4>3 DEF SaveProgress, Go, Floor
        <5> QED BY <1>0, <3>2, <3>4, <4>1, <5>1, <5>2
      <4>4. CASE Final(r)
        <5>1. row'.progress = 100 BY <1>1, <4>4, WhoSaves
        <5>2. Floor(run[r]) = 100 BY <4>4 DEF Final, Floor
        <5> QED BY <1>0, <3>2, <3>4, <4>1, <5>1, <5>2
      <4>5. CASE ~(Start(r) \/ SaveProgress(r) \/ Final(r))
        <5>1. row'.progress = row.progress BY <1>1, <4>5, WhoSaves
        <5> QED BY <1>0, <3>2, <3>4, <4>1, <5>1
      <4> QED BY <4>2, <4>3, <4>4, <4>5
    <3>6. ASSUME Lone'
          PROVE  Delivered' # {} /\ \A p \in Delivered' : row'.progress <= Floor(run[p])'
      <4>1. \A p \in Delivered' : p = r BY <2>1, <3>6 DEF Lone
      <4> QED BY <2>1, <3>5, <3>6, <4>1
    <3> QED BY <3>3, <3>5, <3>6 DEF ProgressInv
  <2> QED BY <2>2, <2>3
<1>2. CASE \A r \in Runs : ~RunStep(r)
  <2>1. run' = run /\ Delivered' = Delivered BY <1>2, OthersLeaveRuns DEF Delivered
  <2>2. row'.progress = row.progress
    <3>1. CASE \E c \in Cancels : CancelSaves(c)
      BY <1>0, <3>1 DEF CancelSaves, Ended, RowType
    <3>2. CASE \A c \in Cancels : ~CancelSaves(c)
      BY <1>2, <3>2
      DEF Next, ScopeStep, StatusAnswers, CancelAsked, CancelReads, CancelStep, CancelMarks,
          consoleVars, reportVars, scopeVars
    <3> QED BY <3>1, <3>2
  <2>3. (\A r \in Runs : PhaseOK(run[r]))' BY <2>1 DEF ProgressInv
  <2>4. \A r \in Delivered : Floor(run[r])' = Floor(run[r]) BY <2>1
  <2> QED BY <1>0, <2>1, <2>2, <2>3, <2>4 DEF ProgressInv
<1> QED BY <1>1, <1>2

-----------------------------------------------------------------------------
(* The theorems.                                                           *)

(* A queued job has nothing to tell.                                       *)
LEMMA TellInitial == Init => TellInv
<1> SUFFICES ASSUME Init PROVE TellInv
  OBVIOUS
<1>1. ReportInit /\ ReportInv BY ReportInitial DEF Init
<1>2. /\ row.status = "QUEUED" /\ row.progress = 0 /\ ~flag /\ late = 0
      /\ \A r \in Runs : run[r] = Fresh("idle")
      /\ \A c \in Cancels : cancel[c].at = "idle"
  BY <1>1 DEF ReportInit
<1>3. \A r \in Runs : run[r].at = "idle" /\ ~run[r].cancelled
  <2>1. Fresh("idle").at = "idle" /\ ~Fresh("idle").cancelled BY DEF Fresh
  <2> QED BY <1>2, <2>1
<1>4. Delivered = {} BY <1>3 DEF Delivered
<1>5. MarkInv BY <1>2, <1>3 DEF MarkInv, CancelledBy
<1>6. ProgressInv BY <1>2, <1>3, <1>4 DEF ProgressInv, PhaseOK
<1>7. FailInv /\ LateInv /\ ToldInv BY <1>2, <1>3 DEF FailInv, LateInv, ToldInv
<1> QED BY <1>1, <1>4, <1>5, <1>6, <1>7, FS_EmptySet DEF TellInv

(* TellInv is inductive.                                                   *)
LEMMA TellInduction == TellInv /\ [Next]_consoleVars => TellInv'
<1> SUFFICES ASSUME TellInv, [Next]_consoleVars PROVE TellInv'
  OBVIOUS
<1> QED
  BY ReportInduction, DeliveredGrows, MarkKeeps, FailKeeps, LateKeeps, ToldKeeps, ProgressKeeps
  DEF TellInv

(* A job that failed of itself shows the generic entry alone, however      *)
(* deliveries overlap (tasks.py:134-181).                                  *)
THEOREM FailuresAreGeneric == Spec => []FailedIsGeneric
<1>1. TellInv => FailedIsGeneric
  <2> SUFFICES ASSUME TellInv, row.status = "FAILED", ~died,
                      \A r \in Runs : run[r].at \notin RunBusy,
                      \A c \in Cancels : cancel[c].at \in {"idle", "refused"}
               PROVE  row.errors = <<Entry(0, "generic")>> /\ SyncError = "PIPELINE_ERROR"
    BY DEF FailedIsGeneric
  <2>1. Writing \subseteq RunBusy BY DEF Writing, RunBusy, RunPoints
  <2>2. row.errors = <<Entry(0, "generic")>> BY <2>1 DEF TellInv, FailInv, NobodyCancels
  <2>3. row.errors # <<>> /\ row.errors[1].message = "generic" BY <2>2 DEF Entry
  <2>4. Humanized("generic") = "PIPELINE_ERROR" BY DEF Humanized
  <2> QED BY <2>2, <2>3, <2>4 DEF SyncError
<1> QED BY <1>1, TellInitial, TellInduction, PTL DEF Spec

(* A cancelled job says so, but for one late progress save                 *)
(* (tasks.py:57-77, cancel_sync.py:61-79).                                 *)
THEOREM CancelsAreOverwrittenOnce == Spec => []CancelOverwrittenOnce
<1>1. TellInv => CancelOverwrittenOnce
  <2> SUFFICES ASSUME TellInv, Once
               PROVE  late <= 1 /\ (row.status = "CANCELLED" /\ late = 0 => SyncError = "CANCELLED")
    BY DEF CancelOverwrittenOnce
  <2>1. Lone BY OnceIsLone DEF TellInv
  <2>2. late <= 1 BY <2>1 DEF TellInv, LateInv
  <2>3. ASSUME row.status = "CANCELLED", late = 0 PROVE SyncError = "CANCELLED"
    <3>1. row.errors = <<Entry(0, "cancelled")>> BY <2>3 DEF TellInv, LateInv
    <3>2. row.errors # <<>> /\ row.errors[1].message = "cancelled" BY <3>1 DEF Entry
    <3>3. Humanized("cancelled") = "CANCELLED" BY DEF Humanized
    <3> QED BY <2>3, <3>2, <3>3 DEF SyncError
  <2> QED BY <2>2, <2>3
<1> QED BY <1>1, TellInitial, TellInduction, PTL DEF Spec

(* A completed job's report is that of its delivery: every row counted,    *)
(* the end of the log stored (tasks.py:50-53, 124-147).                    *)
THEOREM CompletedReportsAreExact == Spec => []CompletedReportExact
<1>1. TellInv => CompletedReportExact
  <2> SUFFICES ASSUME TellInv, Once, row.status = "COMPLETED", NEW r \in Delivered
               PROVE  LET log == run[r].log
                          kept == Len(Report.errors)
                      IN  /\ Report.progress = 100 /\ Report.processed = Rows(r)
                          /\ Report.sync_error = ""
                          /\ Report.count = Len(log) /\ (Report.valid <=> log = <<>>)
                          /\ kept <= MaxStored /\ (kept < MaxStored => kept = Len(log))
                          /\ \A i \in 1..kept : Report.errors[i] = log[Len(log) - kept + i]
                          /\ \A i \in DOMAIN row.critical :
                               row.critical[i] = Report.errors[i].message
    BY DEF CompletedReportExact, Report
  <2>1. Tells(run[r]) BY OnceIsLone DEF TellInv, ToldInv, Lone
  <2> DEFINE log == run[r].log
  <2>2. log \in Log BY DEF TellInv, ReportInv, ReportTypeOK, RunType, Delivered
  <2>3. SyncError = "" BY DEF SyncError
  <2>4. /\ Report.progress = row.progress /\ Report.processed = row.processed
        /\ Report.sync_error = SyncError /\ Report.count = row.count
        /\ Report.valid = row.valid /\ Report.errors = row.errors
    BY DEF Report
  <2>5. /\ row.progress = 100 /\ row.processed = Rows(r) /\ row.count = Len(log)
        /\ row.valid = (log = <<>>) /\ row.errors = Stored(log) /\ row.critical = Critical(log)
    BY <2>1 DEF Tells, Rows
  <2> HIDE DEF log
  <2>6. LET kept == Len(Stored(log))
        IN  /\ kept <= MaxStored /\ (kept < MaxStored => kept = Len(log))
            /\ \A i \in 1..kept : Stored(log)[i] = log[Len(log) - kept + i]
    BY <2>2, StoredIsEnd
  <2>7. \A i \in DOMAIN Critical(log) : Critical(log)[i] = Stored(log)[i].message
    BY <2>2, CriticalIsStored
  <2>8. /\ Len(Report.errors) <= MaxStored
        /\ Len(Report.errors) < MaxStored => Len(Report.errors) = Len(log)
        /\ \A i \in 1..Len(Report.errors) :
             Report.errors[i] = log[Len(log) - Len(Report.errors) + i]
    BY ONLY <2>4, <2>5, <2>6
  <2>9. \A i \in DOMAIN row.critical : row.critical[i] = Report.errors[i].message
    BY ONLY <2>4, <2>5, <2>7
  <2>10. /\ Report.progress = 100 /\ Report.processed = Rows(r) /\ Report.sync_error = ""
         /\ Report.count = Len(log) /\ (Report.valid <=> log = <<>>)
    BY ONLY <2>3, <2>4, <2>5
  <2> QED BY ONLY <2>8, <2>9, <2>10 DEF log
<1> QED BY <1>1, TellInitial, TellInduction, PTL DEF Spec

(* The progress of a job delivered once never goes back, whatever the row  *)
(* counts of the exports (pipeline.rs:74-83).                              *)
THEOREM ProgressOnlyClimbs == Spec => ProgressNeverBack
<1>1. TellInv /\ TellInv' /\ [Next]_consoleVars => [Once' => row'.progress >= row.progress]_row
  <2> SUFFICES ASSUME TellInv, TellInv', [Next]_consoleVars, Once' PROVE row'.progress >= row.progress
    OBVIOUS
  <2>1. Lone'
    <3>1. (IsFiniteSet(Delivered) /\ Once => Lone)' BY OnceIsLone, PTL
    <3> QED BY <3>1 DEF TellInv
  <2> QED BY <2>1, ProgressKeeps DEF TellInv
<1> QED BY <1>1, TellInitial, TellInduction, PTL DEF Spec, ProgressNeverBack
=============================================================================

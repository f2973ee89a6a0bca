----------------------------- MODULE SliceProofs -----------------------------
(***************************************************************************)
(* Proofs about DataPath: what a sync that commits leaves in the warehouse *)
(* slice, for any rows, uploads and number of syncs.  The keys of the      *)
(* slice (KeyInv), how far a run is with its rows (WrittenInv), and who    *)
(* runs beside whom (SoleInv) together give what a commit leaves behind    *)
(* (CommitInv).                                                            *)
(***************************************************************************)
EXTENDS DataPathProofs

(* Before a run has written a credit.                                      *)
Early == {"idle", "delete payments", "find credits", "delete credits", "stream credits", "ok", "failed"}
Deleted == {"find credits", "delete credits", "stream credits", "insert credits",
            "stream payments", "insert payments", "commit"}
Cleared == {"stream credits", "insert credits", "stream payments", "insert payments", "commit"}

Unique(credits) == \A c, d \in credits : c.account = d.account \/ c.id = d.id => c = d

(* The functions of the runs.                                              *)
TxnShape ==
  /\ tpc \in [Syncs -> TxnPoints] /\ nextId \in Nat
  /\ DOMAIN target = Syncs /\ DOMAIN gone = Syncs /\ DOMAIN paid = Syncs /\ DOMAIN put = Syncs
  /\ DOMAIN added = Syncs /\ DOMAIN todo = Syncs /\ DOMAIN beside = Syncs

(* Ids are handed out once, a row that is replaced keeps its id, and no    *)
(* two runs write the same account.                                        *)
KeyInv ==
  /\ TxnShape
  /\ Unique(cred) /\ \A c \in cred : c.id \in Nat /\ c.id < nextId
  /\ \A p \in pay : p.credit \in Ids(cred)
  /\ \A t \in Syncs :
       /\ Unique(put[t]) /\ \A c \in put[t] : c.id \in Nat /\ c.id < nextId
       /\ tpc[t] \in Early => put[t] = {}
       /\ t \notin Open => gone[t] = {} /\ paid[t] = {} /\ added[t] = {}
       /\ \A c \in cred, d \in put[t] :
            /\ c.id = d.id => c.account = d.account
            /\ c.account = d.account => c.id \in gone[t] \cup Ids(put[t])
  /\ \A t, o \in Syncs : t # o =>
       \A c \in put[t], d \in put[o] : c.account # d.account /\ c.id # d.id

(* Where a run stands with its exports.                                    *)
LinkInv(t) ==
  /\ tpc[t] \in {"idle", "delete payments", "find credits", "delete credits"} => rpc[t] = "idle"
  /\ tpc[t] = "stream credits" => rpc[t] \in {"idle", "credits", "refused"}
  /\ tpc[t] = "insert credits" => rpc[t] = "between" /\ "credits" \in DOMAIN got[t]
  /\ tpc[t] = "stream payments" => rpc[t] \in {"between", "payments", "refused"} /\ "credits" \in DOMAIN got[t]
  /\ tpc[t] \in {"insert payments", "commit", "ok"} => rpc[t] = "done" /\ DOMAIN got[t] = Kinds

Credits(t) == Received(t, "credits")
Payments(t) == Received(t, "payments")

(* The places of rows that are written: credits with an account, payments  *)
(* of accounts with a credit.                                              *)
Named(rows) == {i \in DOMAIN rows : rows[i] # Hole}
Wanted(rows, credits) ==
  {i \in Named(rows) : \E c \in credits : c.account = rows[i].account}
Places(due) == {next.at : next \in due}

(* Rows at these places of an export are due.                              *)
DueFrom(due, rows, places) == due \subseteq Placed(rows, places)

(* The credits of these places are written: the last row of every account. *)
CreditsPut(credits, rows, done) ==
  /\ \A c \in credits : \E i \in done :
       /\ rows[i] = [account |-> c.account, num |-> c.num, chr |-> c.chr]
       /\ \A j \in done : rows[j].account = c.account => j <= i
  /\ \A i \in done : \E c \in credits : c.account = rows[i].account

(* The payments of these places are written.                               *)
PaymentsAdded(payments, credits, rows, done) ==
  /\ \A p \in payments : \E i \in done, c \in credits :
       c.account = rows[i].account /\ p = [credit |-> c.id, number |-> rows[i].number]
  /\ \A i \in done : \E c \in credits :
       c.account = rows[i].account /\ [credit |-> c.id, number |-> rows[i].number] \in payments

WrittenInv(t) ==
  LET named == Named(Credits(t))
      wanted == Wanted(Payments(t), put[t])
      left == Places(todo[t])
  IN  /\ tpc[t] = "insert credits" =>
           /\ DueFrom(todo[t], Credits(t), named)
           /\ \A i \in named \ left, j \in left : i < j
           /\ CreditsPut(put[t], Credits(t), named \ left)
      /\ tpc[t] \in {"stream payments", "insert payments", "commit"} =>
           CreditsPut(put[t], Credits(t), named)
      /\ tpc[t] \notin {"insert payments", "commit"} => added[t] = {}
      /\ tpc[t] = "insert payments" =>
           /\ DueFrom(todo[t], Payments(t), wanted)
           /\ PaymentsAdded(added[t], put[t], Payments(t), wanted \ left)
      /\ tpc[t] = "commit" => PaymentsAdded(added[t], put[t], Payments(t), wanted)

(* A run alone with the slice, or with one other that also found payments. *)
Pair(t, o) == t # o /\ beside[t] = {o} /\ beside[o] = {t} /\ {t, o} \subseteq overPaid
Watched(t) == beside[t] = {} \/ \E o \in Syncs : Pair(t, o)

(* The first of two has all the payments the other one waits for.          *)
Blocks(t, o) ==
  /\ tpc[t] \in Deleted /\ tpc[o] = "delete payments"
  /\ target[o] = pay /\ paid[t] = pay

(* Who runs beside whom.                                                   *)
BesideInv ==
  /\ \A t \in Syncs : tpc[t] = "idle" => beside[t] = {} /\ t \notin overPaid
  /\ \A t, o \in Syncs : o \in beside[t] => o # t /\ t \in beside[o]
  /\ \A t, o \in Open : t # o => o \in beside[t]

(* A run that is alone finds, and deletes, all the payments.               *)
AloneInv == \A t \in Open : beside[t] = {} =>
  /\ tpc[t] = "delete payments" => target[t] = pay
  /\ tpc[t] \in Deleted => paid[t] = pay

(* Of a pair only one goes on.                                             *)
PairInv == \A t, o \in Open : Pair(t, o) => pay # {} /\
  \/ tpc[t] = "delete payments" /\ tpc[o] = "delete payments" /\ target[t] = pay /\ target[o] = pay
  \/ Blocks(t, o) \/ Blocks(o, t)

(* It finds, and deletes, all the credits.                                 *)
ClearedInv(t) == Watched(t) =>
  /\ tpc[t] = "delete credits" => target[t] = Ids(cred)
  /\ tpc[t] \in Cleared => Ids(cred) \subseteq gone[t]

SoleInv == BesideInv /\ AloneInv /\ PairInv /\ \A t \in Open : ClearedInv(t)

(* What a commit left, until the next one.                                 *)
CommitInv == \A t \in last :
  /\ t \in Syncs /\ tpc[t] = "ok"
  /\ Watched(t) =>
       /\ Slice = Exported(t)
       /\ \A i \in Named(Credits(t)) : \E c \in cred : c.account = Credits(t)[i].account

SliceInv == KeyInv /\ (\A t \in Syncs : LinkInv(t) /\ WrittenInv(t)) /\ SoleInv /\ CommitInv

-----------------------------------------------------------------------------
(* The keys of the slice.                                                  *)

(* A run moves to another statement.                                       *)
LEMMA RunMoves ==
  ASSUME TxnShape, NEW t \in Syncs, NEW to \in TxnPoints, tpc' = [tpc EXCEPT ![t] = to]
  PROVE  /\ tpc' \in [Syncs -> TxnPoints] /\ tpc'[t] = to
         /\ \A o \in Syncs : o # t => tpc'[o] = tpc[o] /\ (o \in Open' <=> o \in Open)
         /\ t \in Open' <=> to \notin {"idle", "ok", "failed"}
  BY DEF TxnShape, Open

(* Everything of one run is replaced, and nothing of the others.           *)
LEMMA OneChanges ==
  ASSUME NEW f, NEW g, NEW t \in Syncs, NEW e, DOMAIN f = Syncs, g = [f EXCEPT ![t] = e]
  PROVE  DOMAIN g = Syncs /\ g[t] = e /\ \A o \in Syncs : o # t => g[o] = f[o]
  OBVIOUS

(* A step that writes no credit.                                           *)
LEMMA KeysUntouched ==
  ASSUME KeyInv, NEW t \in Syncs, NEW to \in TxnPoints,
         tpc' = [tpc EXCEPT ![t] = to], to \in Early => tpc[t] \in Early,
         to \notin {"idle", "ok", "failed"},
         UNCHANGED <<cred, pay, nextId, put>>,
         DOMAIN target' = Syncs, DOMAIN gone' = Syncs, DOMAIN paid' = Syncs,
         DOMAIN added' = Syncs, DOMAIN todo' = Syncs, DOMAIN beside' = Syncs,
         gone[t] \subseteq gone'[t] \/ put[t] = {},
         \A o \in Syncs : o # t => gone'[o] = gone[o] /\ paid'[o] = paid[o] /\ added'[o] = added[o]
  PROVE  KeyInv'
<1>1. /\ tpc' \in [Syncs -> TxnPoints] /\ tpc'[t] = to /\ t \in Open'
      /\ \A o \in Syncs : o # t => tpc'[o] = tpc[o] /\ (o \in Open' <=> o \in Open)
  BY RunMoves DEF KeyInv
<1>2. TxnShape' BY <1>1 DEF KeyInv, TxnShape
<1>3. \A o \in Syncs : gone[o] \subseteq gone'[o] \/ put[o] = {} OBVIOUS
<1> QED BY <1>1, <1>2, <1>3 DEF KeyInv, Ids

(* The id an upsert of an account writes.                                  *)
IdFor(t, a) ==
  LET there == Mine(t, a) \cup Theirs(t, a)
  IN  IF there = {} THEN nextId ELSE (CHOOSE c \in there : TRUE).id

(* The one row it may find, and which of the run's rows it replaces.       *)
LEMMA FoundRow ==
  ASSUME KeyInv, NEW t \in Syncs, NEW a
  PROVE  /\ \/ Mine(t, a) \cup Theirs(t, a) = {} /\ IdFor(t, a) = nextId
            \/ \E c \in Mine(t, a) \cup Theirs(t, a) :
                 IdFor(t, a) = c.id /\ \A d \in Mine(t, a) \cup Theirs(t, a) : d = c
         /\ \A c \in put[t] : c.account = a <=> c.id = IdFor(t, a)
<1> DEFINE there == Mine(t, a) \cup Theirs(t, a)
           id == IdFor(t, a)
<1>1. \A c, d \in there : c = d BY DEF KeyInv, Unique, Mine, Theirs
<1>2. /\ there = {} /\ id = nextId
      \/ \E c \in there : id = c.id /\ \A d \in there : d = c
  <2>1. there # {} => (CHOOSE c \in there : TRUE) \in there OBVIOUS
  <2> QED BY <1>1, <2>1 DEF IdFor
<1>3. \A c \in there : c.account = a /\ (c \in put[t] \/ (c \in cred /\ c.id \notin gone[t] \cup Ids(put[t])))
  BY DEF Mine, Theirs
<1>4. \A c \in put[t] : c.account = a => c \in there BY DEF Mine
<1> HIDE DEF there, id
<1>5. ASSUME NEW c \in put[t], c.account = a \/ c.id = id PROVE c.id = id /\ c.account = a
  <2>1. nextId \in Nat /\ c.id \in Nat /\ c.id < nextId BY DEF KeyInv, TxnShape
  <2>2. CASE there = {} /\ id = nextId BY <1>4, <1>5, <2>1, <2>2
  <2>3. ASSUME NEW d \in there, id = d.id, \A e \in there : e = d PROVE c.id = id /\ c.account = a
    <3>1. CASE c.account = a BY <1>4, <2>3, <3>1
    <3>2. CASE c.id = id BY <1>3, <2>3, <3>2 DEF KeyInv, Unique, Ids
    <3> QED BY <1>5, <3>1, <3>2
  <2> QED BY <1>2, <2>2, <2>3
<1> QED BY <1>2, <1>5 DEF there, id

(* An upsert writes the next row that is due under that id.                *)
LEMMA Upsert ==
  ASSUME KeyInv, NEW t \in Syncs, InsertCredit(t)
  PROVE  \E next \in Due(t) :
           LET a == next.row.account
               new == [id |-> IdFor(t, a), account |-> a, num |-> next.row.num, chr |-> next.row.chr]
           IN  /\ \A o \in Others(t) : Mine(o, a) = {}
               /\ DOMAIN put' = Syncs /\ \A o \in Syncs : o # t => put'[o] = put[o]
               /\ put'[t] = {c \in put[t] : c.account # a} \cup {new}
               /\ DOMAIN todo' = Syncs /\ todo'[t] = todo[t] \ {next}
<1>1. PICK next \in Due(t) :
        LET row == next.row
            there == Mine(t, row.account) \cup Theirs(t, row.account)
            id == IF there = {} THEN nextId ELSE (CHOOSE c \in there : TRUE).id
        IN  /\ \A o \in Others(t) : Mine(o, row.account) = {} /\ Ids(there) \cap gone[o] = {}
            /\ put' = [put EXCEPT ![t] =
                 {c \in @ : c.id # id} \cup
                 {[id |-> id, account |-> row.account, num |-> row.num, chr |-> row.chr]}]
            /\ todo' = [todo EXCEPT ![t] = @ \ {next}]
  BY DEF InsertCredit
<1> DEFINE a == next.row.account
           new == [id |-> IdFor(t, a), account |-> a, num |-> next.row.num, chr |-> next.row.chr]
<1>2. /\ put' = [put EXCEPT ![t] = {c \in put[t] : c.id # IdFor(t, a)} \cup {new}]
      /\ todo' = [todo EXCEPT ![t] = todo[t] \ {next}]
      /\ \A o \in Others(t) : Mine(o, a) = {}
  BY <1>1 DEF IdFor, KeyInv, TxnShape
<1>3. {c \in put[t] : c.id # IdFor(t, a)} = {c \in put[t] : c.account # a} BY FoundRow
<1>4. DOMAIN put = Syncs /\ DOMAIN todo = Syncs BY DEF KeyInv, TxnShape
<1> HIDE DEF new
<1>5. /\ DOMAIN put' = Syncs /\ put'[t] = {c \in put[t] : c.account # a} \cup {new}
      /\ \A o \in Syncs : o # t => put'[o] = put[o]
  BY <1>2, <1>3, <1>4
<1>6. DOMAIN todo' = Syncs /\ todo'[t] = todo[t] \ {next} BY <1>2, <1>4
<1> QED BY <1>2, <1>5, <1>6 DEF new

(* An upsert replaces the row of its account, or hands out an id.          *)
LEMMA InsertCreditKeys ==
  ASSUME KeyInv, NEW t \in Syncs, InsertCredit(t)
  PROVE  KeyInv'
<1>1. PICK next \in Due(t) :
        LET a == next.row.account
            new == [id |-> IdFor(t, a), account |-> a, num |-> next.row.num, chr |-> next.row.chr]
        IN  /\ \A o \in Others(t) : Mine(o, a) = {}
            /\ DOMAIN put' = Syncs /\ \A o \in Syncs : o # t => put'[o] = put[o]
            /\ put'[t] = {c \in put[t] : c.account # a} \cup {new}
            /\ DOMAIN todo' = Syncs /\ todo'[t] = todo[t] \ {next}
  BY Upsert
<1> DEFINE a == next.row.account
           there == Mine(t, a) \cup Theirs(t, a)
           id == IdFor(t, a)
           new == [id |-> id, account |-> a, num |-> next.row.num, chr |-> next.row.chr]
<1>2. /\ tpc[t] = "insert credits" /\ nextId' = nextId + 1
      /\ UNCHANGED <<cred, pay, tpc, target, gone, paid, added, beside>>
      /\ \A o \in Others(t) : Mine(o, a) = {}
  BY <1>1 DEF InsertCredit
<1>3. /\ DOMAIN put' = Syncs /\ put'[t] = {c \in put[t] : c.account # a} \cup {new}
      /\ DOMAIN todo' = Syncs /\ \A o \in Syncs : o # t => put'[o] = put[o]
  BY <1>1
<1>4. new.id = id /\ new.account = a OBVIOUS
<1>5. /\ there = {} /\ id = nextId
      \/ \E c \in there : id = c.id /\ \A d \in there : d = c
  BY FoundRow
<1>6. \A c \in there : c.account = a /\ (c \in put[t] \/ (c \in cred /\ c.id \notin gone[t] \cup Ids(put[t])))
  BY DEF Mine, Theirs
<1>8. \A c \in cred : c.account = a /\ c.id \notin gone[t] \cup Ids(put[t]) => c \in there
  BY DEF Theirs
<1>11. \A c \in put[t] : c.account = a <=> c.id = id BY FoundRow
<1> HIDE DEF there, id, new
<1>9. nextId \in Nat /\ \A c \in cred \cup put[t] : c.id \in Nat /\ c.id < nextId
  BY DEF KeyInv, TxnShape
<1>10. id \in Nat /\ id < nextId + 1
  <2>1. CASE id = nextId BY <1>9, <2>1
  <2>2. CASE \E c \in there : id = c.id BY <1>6, <1>9, <2>2
  <2> QED BY <1>5, <2>1, <2>2
<1>12. Unique(put'[t]) BY <1>3, <1>4, <1>11 DEF KeyInv, Unique
<1>13. \A c \in put'[t] : c.id \in Nat /\ c.id < nextId'
  <2>1. nextId < nextId + 1 BY <1>9
  <2>2. \A c \in put[t] : c.id < nextId + 1 BY <1>9
  <2> QED BY <1>2, <1>3, <1>4, <1>9, <1>10, <2>2
<1>14. Ids(put[t]) \subseteq Ids(put'[t]) /\ id \in Ids(put'[t])
  <2>1. id \in Ids(put'[t]) BY <1>3, <1>4 DEF Ids
  <2>2. \A c \in put[t] : c.id \in Ids(put'[t]) BY <1>3, <1>11, <2>1 DEF Ids
  <2> QED BY <2>1, <2>2 DEF Ids
<1>15. ASSUME NEW c \in cred, NEW d \in put'[t]
       PROVE  /\ c.id = d.id => c.account = d.account
              /\ c.account = d.account => c.id \in gone[t] \cup Ids(put'[t])
  <2>1. CASE d \in put[t] BY <1>14, <2>1 DEF KeyInv
  <2>2. CASE d = new
    <3>1. ASSUME c.id = id PROVE c.account = a
      <4>1. id # nextId BY <1>9, <3>1
      <4>2. PICK e \in there : id = e.id BY <1>5, <4>1
      <4> QED BY <1>6, <3>1, <4>2 DEF KeyInv, Unique
    <3>2. ASSUME c.account = a PROVE c.id \in gone[t] \cup Ids(put'[t])
      <4>1. CASE c \in there BY <1>5, <1>14, <4>1
      <4>2. CASE c \notin there BY <1>8, <1>14, <3>2, <4>2
      <4> QED BY <4>1, <4>2
    <3> QED BY <1>4, <2>2, <3>1, <3>2
  <2> QED BY <1>3, <2>1, <2>2
<1>16. ASSUME NEW o \in Syncs, o # t, NEW c \in put'[t], NEW d \in put[o]
       PROVE  c.account # d.account /\ c.id # d.id
  <2>1. CASE c \in put[t] BY <1>16, <2>1 DEF KeyInv
  <2>2. CASE c = new
    <3>1. d.account # a
      <4>1. o \in Open BY <1>16 DEF KeyInv, Open, Early
      <4> QED BY <1>2, <1>16, <4>1 DEF Others, Mine
    <3>2. d.id # id
      <4>1. CASE id = nextId
        <5>1. d.id \in Nat /\ d.id < nextId BY DEF KeyInv
        <5> QED BY <1>9, <4>1, <5>1
      <4>2. ASSUME NEW e \in there, id = e.id PROVE d.id # id
        BY <1>6, <1>16, <3>1, <4>2 DEF KeyInv
      <4> QED BY <1>5, <4>1, <4>2
    <3> QED BY <1>4, <2>2, <3>1, <3>2
  <2> QED BY <1>3, <2>1, <2>2
<1>a. nextId' \in Nat /\ \A n \in Nat : n < nextId => n < nextId'
  <2>1. nextId' = nextId + 1 /\ nextId \in Nat BY <1>2, <1>9
  <2> QED BY <2>1
<1>17. TxnShape'
  BY <1>2, <1>3, <1>a DEF KeyInv, TxnShape
<1>18. \A o \in Syncs : \A c \in put[o] : c.id \in Nat /\ c.id < nextId'
  <2>1. \A o \in Syncs : \A c \in put[o] : c.id \in Nat /\ c.id < nextId BY DEF KeyInv
  <2> QED BY <1>a, <2>1
<1>19. \A c \in cred : c.id \in Nat /\ c.id < nextId' BY <1>9, <1>a
<1>20. Open' = Open BY <1>2 DEF Open
<1>21. ASSUME NEW o \in Syncs
       PROVE  /\ Unique(put'[o]) /\ \A c \in put'[o] : c.id \in Nat /\ c.id < nextId'
              /\ tpc'[o] \in Early => put'[o] = {}
              /\ o \notin Open' => gone'[o] = {} /\ paid'[o] = {} /\ added'[o] = {}
              /\ \A c \in cred', d \in put'[o] :
                   /\ c.id = d.id => c.account = d.account
                   /\ c.account = d.account => c.id \in gone'[o] \cup Ids(put'[o])
  <2>1. CASE o = t BY <1>2, <1>12, <1>13, <1>15, <1>20, <2>1 DEF KeyInv, Early
  <2>2. CASE o # t
    <3>1. put'[o] = put[o] BY <1>3, <2>2
    <3>2. /\ Unique(put[o]) /\ (tpc[o] \in Early => put[o] = {})
          /\ o \notin Open => gone[o] = {} /\ paid[o] = {} /\ added[o] = {}
          /\ \A c \in cred, d \in put[o] :
               /\ c.id = d.id => c.account = d.account
               /\ c.account = d.account => c.id \in gone[o] \cup Ids(put[o])
      BY DEF KeyInv
    <3> QED BY <1>2, <1>18, <1>20, <3>1, <3>2
  <2> QED BY <2>1, <2>2
<1>22. ASSUME NEW o \in Syncs, NEW s \in Syncs, s # o, NEW c \in put'[s], NEW d \in put'[o]
       PROVE  c.account # d.account /\ c.id # d.id
  <2>1. CASE s = t BY <1>3, <1>16, <1>22, <2>1
  <2>2. CASE o = t BY <1>3, <1>16, <1>22, <2>2
  <2>3. CASE s # t /\ o # t BY <1>3, <1>22, <2>3 DEF KeyInv
  <2> QED BY <2>1, <2>2, <2>3
<1>23. Unique(cred)' /\ (\A p \in pay : p.credit \in Ids(cred))'
  BY <1>2 DEF KeyInv, Unique, Ids
<1>24. \A c \in cred' : c.id \in Nat /\ c.id < nextId' BY <1>2, <1>19
<1> HIDE DEF a
<1> QED BY <1>17, <1>21, <1>22, <1>23, <1>24 DEF KeyInv

(* A transaction that is over has nothing of its own left.                 *)
LEMMA OverEmpties ==
  ASSUME TxnShape, NEW t \in Syncs, Over(t)
  PROVE  /\ DOMAIN target' = Syncs /\ DOMAIN gone' = Syncs /\ DOMAIN paid' = Syncs
         /\ DOMAIN put' = Syncs /\ DOMAIN added' = Syncs /\ DOMAIN todo' = Syncs
         /\ gone'[t] = {} /\ paid'[t] = {} /\ put'[t] = {} /\ added'[t] = {}
         /\ \A o \in Syncs : o # t =>
              /\ target'[o] = target[o] /\ gone'[o] = gone[o] /\ paid'[o] = paid[o]
              /\ put'[o] = put[o] /\ added'[o] = added[o] /\ todo'[o] = todo[o]
  BY DEF Over, TxnShape

(* What is committed is the rows of the run and those it left alone.       *)
LEMMA TxnCommitsKeys ==
  ASSUME KeyInv, NEW t \in Syncs, TxnCommits(t)
  PROVE  KeyInv'
<1>0. TxnShape BY DEF KeyInv
<1> DEFINE rest == {c \in cred : c.id \notin gone[t] \cup Ids(put[t])}
<1>1. /\ tpc[t] = "commit" /\ tpc' = [tpc EXCEPT ![t] = "ok"] /\ "ok" \in TxnPoints
      /\ cred' = rest \cup put[t] /\ pay' = (pay \ paid[t]) \cup added[t]
      /\ UNCHANGED <<nextId, beside>> /\ Over(t) /\ KeysHold(t)
  BY DEF TxnCommits, At, TxnPoints
<1>2. /\ tpc' \in [Syncs -> TxnPoints] /\ tpc'[t] = "ok" /\ t \notin Open'
      /\ \A o \in Syncs : o # t => tpc'[o] = tpc[o] /\ (o \in Open' <=> o \in Open)
  BY <1>0, <1>1, RunMoves
<1>3. TxnShape' BY <1>0, <1>1, <1>2, OverEmpties DEF TxnShape
<1>4. Unique(cred')
  <2>1. \A c \in rest, d \in put[t] : c.account # d.account /\ c.id # d.id
    BY DEF KeyInv, Ids
  <2>2. Unique(rest) /\ Unique(put[t]) BY DEF KeyInv, Unique
  <2> QED BY <1>1, <2>1, <2>2 DEF Unique
<1>5. \A c \in cred' : c.id \in Nat /\ c.id < nextId' BY <1>1 DEF KeyInv
<1>6. ASSUME NEW p \in pay' PROVE p.credit \in Ids(cred')
  <2>1. Ids(cred') = ((Ids(cred) \ gone[t]) \cup Ids(put[t]))
    <3>1. Ids(rest) = Ids(cred) \ (gone[t] \cup Ids(put[t])) BY DEF Ids
    <3>2. Ids(cred') = Ids(rest) \cup Ids(put[t]) BY <1>1 DEF Ids
    <3> QED BY <3>1, <3>2
  <2>2. CASE p \in added[t] BY <1>1, <2>1, <2>2 DEF KeysHold
  <2>3. CASE p \in pay \ paid[t]
    <3>1. p.credit \in Ids(cred) BY <2>3 DEF KeyInv
    <3>2. p.credit \notin gone[t] BY <1>1, <2>3 DEF KeysHold
    <3> QED BY <2>1, <3>1, <3>2
  <2> QED BY <1>1, <2>2, <2>3
<1>7. ASSUME NEW o \in Syncs
      PROVE  /\ Unique(put'[o]) /\ \A c \in put'[o] : c.id \in Nat /\ c.id < nextId'
             /\ tpc'[o] \in Early => put'[o] = {}
             /\ o \notin Open' => gone'[o] = {} /\ paid'[o] = {} /\ added'[o] = {}
             /\ \A c \in cred', d \in put'[o] :
                  /\ c.id = d.id => c.account = d.account
                  /\ c.account = d.account => c.id \in gone'[o] \cup Ids(put'[o])
  <2>1. CASE o = t BY <1>0, <1>1, <1>2, <2>1, OverEmpties DEF Unique
  <2>2. CASE o # t
    <3>1. put'[o] = put[o] /\ gone'[o] = gone[o] /\ paid'[o] = paid[o] /\ added'[o] = added[o]
      BY <1>0, <1>1, <2>2, OverEmpties
    <3>2. ASSUME NEW c \in cred', NEW d \in put'[o]
          PROVE  /\ c.id = d.id => c.account = d.account
                 /\ c.account = d.account => c.id \in gone'[o] \cup Ids(put'[o])
      <4>1. CASE c \in cred BY <3>1, <4>1 DEF KeyInv
      <4>2. CASE c \in put[t] BY <2>2, <3>1, <4>2 DEF KeyInv
      <4> QED BY <1>1, <4>1, <4>2
    <3>3. /\ Unique(put[o]) /\ \A c \in put[o] : c.id \in Nat /\ c.id < nextId
          /\ tpc[o] \in Early => put[o] = {}
          /\ o \notin Open => gone[o] = {} /\ paid[o] = {} /\ added[o] = {}
      BY DEF KeyInv
    <3> QED BY <1>1, <1>2, <2>2, <3>1, <3>2, <3>3
  <2> QED BY <2>1, <2>2
<1>8. ASSUME NEW s \in Syncs, NEW o \in Syncs, s # o, NEW c \in put'[s], NEW d \in put'[o]
      PROVE  c.account # d.account /\ c.id # d.id
  <2>1. s # t /\ o # t BY <1>0, <1>1, OverEmpties
  <2> QED BY <1>0, <1>1, <1>8, <2>1, OverEmpties DEF KeyInv
<1> QED BY <1>3, <1>4, <1>5, <1>6, <1>7, <1>8 DEF KeyInv

(* A transaction that is undone leaves the slice as it was.                *)
LEMMA TxnFailsKeys ==
  ASSUME KeyInv, NEW t \in Syncs, TxnFails(t)
  PROVE  KeyInv'
<1>0. TxnShape BY DEF KeyInv
<1>1. /\ tpc' = [tpc EXCEPT ![t] = "failed"] /\ "failed" \in TxnPoints
      /\ UNCHANGED <<cred, pay, nextId, beside>> /\ Over(t)
  BY DEF TxnFails, TxnPoints
<1>2. /\ tpc' \in [Syncs -> TxnPoints] /\ tpc'[t] = "failed" /\ t \notin Open'
      /\ \A o \in Syncs : o # t => tpc'[o] = tpc[o] /\ (o \in Open' <=> o \in Open)
  BY <1>0, <1>1, RunMoves
<1>3. TxnShape' BY <1>0, <1>1, <1>2, OverEmpties DEF TxnShape
<1>4. ASSUME NEW o \in Syncs
      PROVE  /\ Unique(put'[o]) /\ \A c \in put'[o] : c.id \in Nat /\ c.id < nextId'
             /\ tpc'[o] \in Early => put'[o] = {}
             /\ o \notin Open' => gone'[o] = {} /\ paid'[o] = {} /\ added'[o] = {}
             /\ \A c \in cred', d \in put'[o] :
                  /\ c.id = d.id => c.account = d.account
                  /\ c.account = d.account => c.id \in gone'[o] \cup Ids(put'[o])
  <2>1. CASE o = t BY <1>0, <1>1, <1>2, <2>1, OverEmpties DEF Unique
  <2>2. CASE o # t
    <3>1. put'[o] = put[o] /\ gone'[o] = gone[o] /\ paid'[o] = paid[o] /\ added'[o] = added[o]
      BY <1>0, <1>1, <2>2, OverEmpties
    <3> QED BY <1>1, <1>2, <2>2, <3>1 DEF KeyInv
  <2> QED BY <2>1, <2>2
<1>5. ASSUME NEW s \in Syncs, NEW o \in Syncs, s # o, NEW c \in put'[s], NEW d \in put'[o]
      PROVE  c.account # d.account /\ c.id # d.id
  <2>1. s # t /\ o # t BY <1>0, <1>1, OverEmpties
  <2> QED BY <1>0, <1>1, <1>5, <2>1, OverEmpties DEF KeyInv
<1>6. /\ Unique(cred)' /\ (\A p \in pay : p.credit \in Ids(cred))'
      /\ \A c \in cred' : c.id \in Nat /\ c.id < nextId'
  BY <1>1 DEF KeyInv, Unique, Ids
<1> QED BY <1>3, <1>4, <1>5, <1>6 DEF KeyInv

(* Every statement of a run keeps the keys.                                *)
LEMMA TxnKeys ==
  ASSUME KeyInv, NEW t \in Syncs,
         TxnBegins(t) \/ TxnStep(t) \/ TxnFails(t)
         \/ \E rows, blank : CreditsReceived(t, rows, blank) \/ PaymentsReceived(t, rows, blank)
  PROVE  KeyInv'
<1>0. TxnShape BY DEF KeyInv
<1>1. CASE TxnBegins(t)
  <2>1. /\ tpc[t] = "idle" /\ tpc' = [tpc EXCEPT ![t] = "delete payments"]
        /\ UNCHANGED <<cred, pay, nextId, gone, paid, put, added, todo>>
        /\ DOMAIN target' = Syncs /\ DOMAIN beside' = Syncs
    BY <1>0, <1>1 DEF TxnBegins, At, TxnShape
  <2> QED BY <1>0, <2>1, KeysUntouched DEF TxnShape, TxnPoints, Early
<1>2. CASE DeletePayments(t)
  <2>1. /\ tpc[t] = "delete payments" /\ tpc' = [tpc EXCEPT ![t] = "find credits"]
        /\ UNCHANGED <<cred, pay, nextId, gone, target, put, added, todo, beside>>
        /\ DOMAIN paid' = Syncs /\ \A o \in Syncs : o # t => paid'[o] = paid[o]
    BY <1>0, <1>2 DEF DeletePayments, At, TxnShape
  <2> QED BY <1>0, <2>1, KeysUntouched DEF TxnShape, TxnPoints, Early
<1>3. CASE FindCredits(t)
  <2>1. /\ tpc[t] = "find credits" /\ tpc' = [tpc EXCEPT ![t] = "delete credits"]
        /\ UNCHANGED <<cred, pay, nextId, gone, paid, put, added, todo, beside>>
        /\ DOMAIN target' = Syncs
    BY <1>0, <1>3 DEF FindCredits, At, TxnShape
  <2> QED BY <1>0, <2>1, KeysUntouched DEF TxnShape, TxnPoints, Early
<1>4. CASE DeleteCredits(t)
  <2>1. /\ tpc[t] = "delete credits" /\ tpc' = [tpc EXCEPT ![t] = "stream credits"]
        /\ UNCHANGED <<cred, pay, nextId, paid, put, added, todo, beside>>
        /\ gone' = [gone EXCEPT ![t] = target[t] \cap Ids(cred)]
        /\ DOMAIN target' = Syncs
    BY <1>0, <1>4 DEF DeleteCredits, At, TxnShape
  <2>2. put[t] = {} BY <2>1 DEF KeyInv, Early
  <2> QED BY <1>0, <2>1, <2>2, KeysUntouched DEF TxnShape, TxnPoints, Early
<1>5. CASE CreditsFlushed(t)
  <2>1. /\ tpc[t] = "insert credits" /\ tpc' = [tpc EXCEPT ![t] = "stream payments"]
        /\ UNCHANGED <<cred, pay, nextId, target, gone, paid, put, added, todo, beside>>
    BY <1>5 DEF CreditsFlushed, At
  <2> QED BY <1>0, <2>1, KeysUntouched DEF TxnShape, TxnPoints, Early
<1>6. CASE InsertPayment(t)
  <2>1. /\ tpc[t] = "insert payments" /\ UNCHANGED <<cred, pay, nextId, tpc, target, gone, paid, put, beside>>
        /\ DOMAIN added' = Syncs /\ \A o \in Syncs : o # t => added'[o] = added[o]
        /\ DOMAIN todo' = Syncs
    BY <1>0, <1>6 DEF InsertPayment, TxnShape
  <2>2. tpc' = [tpc EXCEPT ![t] = "insert payments"] BY <1>0, <2>1 DEF TxnShape
  <2> QED BY <1>0, <2>1, <2>2, KeysUntouched DEF TxnShape, TxnPoints, Early
<1>7. CASE PaymentsFlushed(t)
  <2>1. /\ tpc[t] = "insert payments" /\ tpc' = [tpc EXCEPT ![t] = "commit"]
        /\ UNCHANGED <<cred, pay, nextId, target, gone, paid, put, added, todo, beside>>
    BY <1>7 DEF PaymentsFlushed, At
  <2> QED BY <1>0, <2>1, KeysUntouched DEF TxnShape, TxnPoints, Early
<1>8. ASSUME NEW rows, NEW blank, CreditsReceived(t, rows, blank) PROVE KeyInv'
  <2>1. /\ tpc[t] = "stream credits" /\ tpc' = [tpc EXCEPT ![t] = "insert credits"]
        /\ UNCHANGED <<cred, pay, nextId, target, gone, paid, put, added, beside>>
        /\ DOMAIN todo' = Syncs
    BY <1>0, <1>8 DEF CreditsReceived, At, TxnShape
  <2> QED BY <1>0, <2>1, KeysUntouched DEF TxnShape, TxnPoints, Early
<1>9. ASSUME NEW rows, NEW blank, PaymentsReceived(t, rows, blank) PROVE KeyInv'
  <2>1. /\ tpc[t] = "stream payments" /\ tpc' = [tpc EXCEPT ![t] = "insert payments"]
        /\ UNCHANGED <<cred, pay, nextId, target, gone, paid, put, added, beside>>
        /\ DOMAIN todo' = Syncs
    BY <1>0, <1>9 DEF PaymentsReceived, At, TxnShape
  <2> QED BY <1>0, <2>1, KeysUntouched DEF TxnShape, TxnPoints, Early
<1> QED BY <1>1, <1>2, <1>3, <1>4, <1>5, <1>6, <1>7, <1>8, <1>9,
           InsertCreditKeys, TxnCommitsKeys, TxnFailsKeys DEF TxnStep

(* A step of the whole is a statement of one run, or leaves the            *)
(* transactions alone.                                                     *)
LEMMA TxnSteps ==
  ASSUME [Next]_dataVars
  PROVE  \/ UNCHANGED txnVars
         \/ \E t \in Syncs : TxnBegins(t) \/ TxnStep(t) \/ TxnFails(t)
                             \/ \E rows, blank : CreditsReceived(t, rows, blank) \/ PaymentsReceived(t, rows, blank)
<1>1. CASE Bank BY <1>1 DEF Bank
<1>2. ASSUME NEW t \in Syncs, Sync(t)
      PROVE  \/ UNCHANGED txnVars
             \/ TxnBegins(t) \/ TxnStep(t) \/ TxnFails(t)
             \/ \E rows, blank : CreditsReceived(t, rows, blank) \/ PaymentsReceived(t, rows, blank)
  BY <1>2 DEF Sync, SyncBegins, SyncStep, SyncFails, SyncOpens, SyncReads, SyncReadsEnd
<1>3. ASSUME NEW q \in Requests, Ask(q) \/ AskNext(q) PROVE UNCHANGED txnVars
  BY <1>3 DEF Ask, AskNext, ReadStarts, NextQuery
<1>4. CASE UNCHANGED dataVars BY <1>4 DEF dataVars
<1> QED BY <1>1, <1>2, <1>3, <1>4 DEF Next

LEMMA KeyInduction == KeyInv /\ [Next]_dataVars => KeyInv'
<1> SUFFICES ASSUME KeyInv, [Next]_dataVars PROVE KeyInv'
  OBVIOUS
<1>1. CASE UNCHANGED txnVars
  <2>1. UNCHANGED <<cred, pay, nextId, tpc, target, gone, paid, put, added, todo, beside>>
    BY <1>1 DEF txnVars
  <2> QED BY <2>1 DEF KeyInv, TxnShape, Unique, Open, Ids
<1> QED BY <1>1, TxnSteps, TxnKeys

(* Nothing is open yet.                                                    *)
LEMMA KeyInitial == TxnInit => KeyInv
<1> SUFFICES ASSUME TxnInit PROVE KeyInv
  OBVIOUS
<1>1. PICK old \in OldSlices : cred = old.cred /\ pay = old.pay /\ nextId = old.next
  BY DEF TxnInit
<1>2. /\ tpc = [t \in Syncs |-> "idle"] /\ "idle" \in TxnPoints
      /\ target = [t \in Syncs |-> {}] /\ beside = [t \in Syncs |-> {}]
      /\ gone = target /\ paid = target /\ put = target /\ added = target /\ todo = target
  BY DEF TxnInit, TxnPoints
<1>3. TxnShape BY <1>1, <1>2, OldSlicesAssumption DEF TxnShape
<1>4. Unique(cred) /\ \A c \in cred : c.id \in Nat /\ c.id < nextId
  BY <1>1, OldSlicesAssumption DEF Unique
<1>5. \A p \in pay : p.credit \in Ids(cred) BY <1>1, OldSlicesAssumption DEF Ids
<1> QED BY <1>2, <1>3, <1>4, <1>5 DEF KeyInv, Unique

(* What the transactions of any number of runs leave: one credit per       *)
(* account, every payment with its credit, and nothing of a run that is    *)
(* over; the files and readers have their types too (models.py:49-107,     *)
(* db.rs:117-157, 434-442).                                                *)
THEOREM DataTypes == Spec => []DataTypeOK
<1>1. Init => BankInv /\ KeyInv BY BankInitial, KeyInitial DEF Init
<1>2. BankInv /\ KeyInv => DataTypeOK
  BY DEF BankInv, FilesOK, KeyInv, TxnShape, Unique, Open, Early, DataTypeOK, TxnTypeOK
<1> QED BY <1>1, <1>2, BankInduction, KeyInduction, PTL DEF Spec

-----------------------------------------------------------------------------
(* Where a run stands with its exports.                                    *)

(* A run's own state changes by its own steps only.                        *)
LEMMA OwnSteps ==
  ASSUME FilesOK, TxnShape, [Next]_dataVars, NEW o \in Syncs
  PROVE  \/ Sync(o)
         \/ UNCHANGED <<tpc[o], target[o], gone[o], paid[o], put[o], added[o], todo[o], rpc[o], got[o]>>
<1> DEFINE Same == UNCHANGED <<tpc[o], target[o], gone[o], paid[o], put[o], added[o], todo[o], rpc[o], got[o]>>
<1>0. /\ tpc \in [Syncs -> TxnPoints] /\ DOMAIN rpc = Readers /\ DOMAIN got = Readers
      /\ DOMAIN target = Syncs /\ DOMAIN gone = Syncs /\ DOMAIN paid = Syncs /\ DOMAIN put = Syncs
      /\ DOMAIN added = Syncs /\ DOMAIN todo = Syncs
      /\ o \in Readers /\ o \notin Downloads /\ Syncs \subseteq Readers
  BY ExporterAssumption DEF FilesOK, BankTypeOK, TxnShape, Readers
<1>1. ASSUME UNCHANGED <<txnVars, rpc, got>> PROVE Same BY <1>1 DEF txnVars
<1>2. CASE Bank
  <2>1. ASSUME NEW u \in Uploads, UploadStep(u) PROVE Same
    BY <1>1, <1>2, <2>1 DEF Bank, UploadStep, UploadStarts, OpenForWriting, WriteChunk, CloseFile,
       Record, UploadDies, readerVars
  <2>2. ASSUME NEW d \in Downloads, DownloadStep(d) PROVE Same
    <3>1. d # o BY <1>0
    <3>2. rpc'[o] = rpc[o] /\ got'[o] = got[o]
      BY <1>0, <2>2, <3>1 DEF DownloadStep, DownloadStarts, Serve, ReaderAt, ReadRow, ReadEnds
    <3> QED BY <1>2, <3>2 DEF Bank, txnVars
  <2> QED BY <1>2, <2>1, <2>2 DEF Bank
<1>3. ASSUME NEW t \in Syncs, t # o, Sync(t) PROVE Same
  <2>1. CASE SyncBegins(t) BY <1>0, <1>3, <2>1 DEF SyncBegins, TxnBegins, At, readerVars
  <2>2. CASE SyncFails(t) BY <1>0, <1>3, <2>2, OverEmpties DEF SyncFails, TxnFails
  <2>3. CASE SyncStep(t)
    <3>1. UNCHANGED <<rpc, got>> BY <2>3 DEF SyncStep, bankVars, readerVars
    <3>2. CASE TxnCommits(t)
      BY <1>0, <1>3, <3>1, <3>2, OverEmpties DEF TxnCommits, At
    <3>3. CASE ~TxnCommits(t)
      BY <1>0, <1>3, <2>3, <3>1, <3>3 DEF SyncStep, TxnStep, DeletePayments, FindCredits,
         DeleteCredits, InsertCredit, CreditsFlushed, InsertPayment, PaymentsFlushed, At
    <3> QED BY <3>2, <3>3
  <2>4. ASSUME NEW k \in Kinds, SyncOpens(t, k) PROVE Same
    BY <1>0, <1>3, <2>4 DEF SyncOpens, ExportStarts, Serve, ReaderAt, txnVars
  <2>5. ASSUME NEW k \in Kinds, SyncReads(t, k) PROVE Same
    BY <1>0, <1>3, <2>5 DEF SyncReads, ReadRow, txnVars
  <2>6. ASSUME NEW k \in Kinds, SyncReadsEnd(t, k) PROVE Same
    BY <1>0, <1>3, <2>6 DEF SyncReadsEnd, ReadEnds, ReaderAt, CreditsReceived, PaymentsReceived, At
  <2> QED BY <1>3, <2>1, <2>2, <2>3, <2>4, <2>5, <2>6 DEF Sync
<1>4. ASSUME NEW q \in Requests, Ask(q) \/ AskNext(q) PROVE Same
  BY <1>1, <1>4 DEF Ask, AskNext, ReadStarts, NextQuery, bankVars, readerVars
<1>5. CASE UNCHANGED dataVars BY <1>1, <1>5 DEF dataVars, bankVars, readerVars
<1> QED BY <1>2, <1>3, <1>4, <1>5 DEF Next

(* The exports are read while the transaction waits for them, first the    *)
(* credits, then the payments.                                             *)
LEMMA LinkInduction ==
  ASSUME FilesOK, TxnShape, [Next]_dataVars, NEW t \in Syncs, LinkInv(t), ReaderInv(t)
  PROVE  LinkInv(t)'
<1>0. /\ tpc \in [Syncs -> TxnPoints] /\ rpc \in [Readers -> Reading \cup {"idle", "done", "refused", "failed"}]
      /\ DOMAIN got = Readers /\ t \in Readers /\ t \in Exporters
  BY ExporterAssumption DEF FilesOK, BankTypeOK, TxnShape, Readers
<1>1. CASE UNCHANGED <<tpc[t], rpc[t], got[t]>> BY <1>1 DEF LinkInv
<1>2. CASE SyncBegins(t)
  BY <1>0, <1>2 DEF SyncBegins, TxnBegins, At, readerVars, LinkInv
<1>3. CASE SyncFails(t)
  BY <1>0, <1>3 DEF SyncFails, TxnFails, LinkInv
<1>4. CASE SyncStep(t)
  <2>1. UNCHANGED <<rpc, got>> BY <1>4 DEF SyncStep, bankVars, readerVars
  <2> QED BY <1>0, <1>4, <2>1 DEF SyncStep, TxnStep, DeletePayments, FindCredits,
         DeleteCredits, InsertCredit, CreditsFlushed, InsertPayment, PaymentsFlushed, TxnCommits, At, LinkInv
<1>5. ASSUME NEW k \in Kinds, SyncOpens(t, k) PROVE LinkInv(t)'
  <2>1. UNCHANGED tpc /\ tpc[t] = StreamPoint(k) BY <1>5 DEF SyncOpens, txnVars
  <2>2. \/ rpc'[t] = k /\ DOMAIN got'[t] = DOMAIN got[t] \cup {k}
        \/ rpc'[t] = "refused" /\ UNCHANGED got
    BY <1>0, <1>5 DEF SyncOpens, ExportStarts, Serve, ReaderAt, Emptied
  <2> QED BY <2>1, <2>2 DEF LinkInv, StreamPoint, Kinds
<1>6. ASSUME NEW k \in Kinds, SyncReads(t, k) PROVE LinkInv(t)'
  <2>1. UNCHANGED <<tpc, rpc>> BY <1>6 DEF SyncReads, ReadRow, txnVars
  <2>2. DOMAIN got'[t] = DOMAIN got[t]
    BY <1>0, <1>6 DEF SyncReads, ReadRow
  <2> QED BY <2>1, <2>2 DEF LinkInv
<1>7. ASSUME NEW k \in Kinds, SyncReadsEnd(t, k) PROVE LinkInv(t)'
  <2>1. /\ rpc[t] = k /\ rpc'[t] = (IF k = "credits" THEN "between" ELSE "done")
        /\ UNCHANGED got /\ k \in DOMAIN got[t]
    BY <1>0, <1>7 DEF SyncReadsEnd, ReadEnds, ReaderAt, ReaderInv
  <2>2. tpc[t] = StreamPoint(k) /\ tpc'[t] = IF k = "credits" THEN "insert credits" ELSE "insert payments"
    BY <1>0, <1>7 DEF SyncReadsEnd, CreditsReceived, PaymentsReceived, At, StreamPoint, Kinds
  <2>3. DOMAIN got[t] \subseteq Kinds BY <1>0 DEF FilesOK, BankTypeOK
  <2> QED BY <2>1, <2>2, <2>3 DEF LinkInv, StreamPoint, Kinds
<1> QED BY <1>1, <1>2, <1>3, <1>4, <1>5, <1>6, <1>7, OwnSteps DEF Sync

-----------------------------------------------------------------------------
(* How far a run is with its rows.                                         *)

(* The rows an export brought, by their columns.                           *)
LEMMA RowsReceived ==
  ASSUME FilesOK, NEW t \in Syncs
  PROVE  /\ DOMAIN Credits(t) \subseteq Nat /\ DOMAIN Payments(t) \subseteq Nat
         /\ \A i \in Named(Credits(t)) : Credits(t)[i] =
              [account |-> Credits(t)[i].account, num |-> Credits(t)[i].num, chr |-> Credits(t)[i].chr]
         /\ \A i \in Named(Payments(t)) : Payments(t)[i] =
              [account |-> Payments(t)[i].account, number |-> Payments(t)[i].number]
<1>1. ASSUME NEW k \in Kinds
      PROVE  /\ DOMAIN Received(t, k) \subseteq Nat
             /\ \A i \in DOMAIN Received(t, k) : Received(t, k)[i] # Hole =>
                  \E u \in Uploads : Received(t, k)[i] \in Range(Content[u][k])
  <2>1. t \in Readers BY ExporterAssumption DEF Readers
  <2>2. <<>> \in Seq(Pieces(k)) BY EmptySeq
  <2>3. Received(t, k) \in Seq(Pieces(k)) BY <2>1, <2>2 DEF Received, FilesOK
  <2>4. /\ Len(Received(t, k)) \in Nat /\ DOMAIN Received(t, k) = 1..Len(Received(t, k))
        /\ \A i \in 1..Len(Received(t, k)) : Received(t, k)[i] \in Pieces(k)
    BY <2>3, LenProperties, ElementOfSeq
  <2> QED BY <2>4 DEF Pieces
<1> QED BY <1>1, RowAssumption DEF Kinds, Credits, Payments, Named

(* Nothing of the run changes.                                             *)
LEMMA WrittenUntouched ==
  ASSUME NEW t \in Syncs, WrittenInv(t),
         UNCHANGED <<tpc[t], put[t], added[t], todo[t], Credits(t), Payments(t)>>
  PROVE  WrittenInv(t)'
BY DEF WrittenInv, Named, Wanted

(* One more credit, after all the others.                                  *)
LEMMA OneMoreCredit ==
  ASSUME NEW credits, NEW after, NEW rows, NEW done, NEW i \in Nat, NEW new \in after,
         done \subseteq Nat, \A j \in done : j < i,
         rows[i] = [account |-> new.account, num |-> new.num, chr |-> new.chr],
         \A c \in after : c = new \/ (c \in credits /\ c.account # new.account),
         \A c \in credits : c.account # new.account => c \in after,
         CreditsPut(credits, rows, done)
  PROVE  CreditsPut(after, rows, done \cup {i})
<1>1. ASSUME NEW j \in done \cup {i} PROVE j <= i
  <2>1. CASE j = i BY <2>1
  <2>2. CASE j \in done
    <3>1. j \in Nat /\ j < i BY <2>2
    <3> QED BY <3>1
  <2> QED BY <2>1, <2>2
<1>2. ASSUME NEW c \in after
      PROVE  \E k \in done \cup {i} :
               /\ rows[k] = [account |-> c.account, num |-> c.num, chr |-> c.chr]
               /\ \A j \in done \cup {i} : rows[j].account = c.account => j <= k
  <2>1. CASE c = new BY <1>1, <2>1
  <2>2. CASE c \in credits /\ c.account # new.account
    <3>1. rows[i].account # c.account BY <2>2
    <3> QED BY <2>2, <3>1 DEF CreditsPut
  <2> QED BY <2>1, <2>2
<1>3. ASSUME NEW j \in done \cup {i} PROVE \E c \in after : c.account = rows[j].account
  <2>1. CASE rows[j].account = new.account BY <2>1
  <2>2. CASE rows[j].account # new.account BY <2>2 DEF CreditsPut
  <2> QED BY <2>1, <2>2
<1> QED BY <1>2, <1>3 DEF CreditsPut

(* One more payment.                                                       *)
LEMMA OneMorePayment ==
  ASSUME NEW payments, NEW credits, NEW rows, NEW done, NEW i, NEW c \in credits, NEW new,
         c.account = rows[i].account, new = [credit |-> c.id, number |-> rows[i].number],
         PaymentsAdded(payments, credits, rows, done)
  PROVE  PaymentsAdded(payments \cup {new}, credits, rows, done \cup {i})
<1>1. \A p \in payments \cup {new} : \E j \in done \cup {i}, d \in credits :
        d.account = rows[j].account /\ p = [credit |-> d.id, number |-> rows[j].number]
  BY DEF PaymentsAdded
<1>2. \A j \in done \cup {i} : \E d \in credits :
        d.account = rows[j].account /\ [credit |-> d.id, number |-> rows[j].number] \in payments \cup {new}
  BY DEF PaymentsAdded
<1> QED BY <1>1, <1>2 DEF PaymentsAdded

(* A row that is due is one of the export's, and then its place is done.   *)
LEMMA DueRow ==
  ASSUME NEW rows, NEW places, NEW due, DueFrom(due, rows, places), NEW next \in due,
         NEW after, after = due \ {next}
  PROVE  /\ next.at \in places /\ next.row = rows[next.at]
         /\ Places(due) \subseteq places /\ next.at \in Places(due)
         /\ Places(after) = Places(due) \ {next.at}
         /\ places \ Places(after) = (places \ Places(due)) \cup {next.at}
<1>1. \A n \in due : n.at \in places /\ n = [at |-> n.at, row |-> rows[n.at]] BY DEF Placed, DueFrom
<1>2. \A n \in due : n # next => n.at # next.at BY <1>1
<1>3. next.row = rows[next.at] BY <1>1
<1> QED BY <1>1, <1>2, <1>3 DEF Places

(* Nothing is due any more.                                                *)
LEMMA NoneDue == \A places : places \ Places({}) = places
  BY DEF Places

(* The rows of an export become due, none of them written.                 *)
LEMMA AllDue ==
  ASSUME NEW rows, NEW places
  PROVE  Places(Placed(rows, places)) = places
<1>1. ASSUME NEW i \in places PROVE i \in Places(Placed(rows, places))
  <2>1. [at |-> i, row |-> rows[i]] \in Placed(rows, places) /\ [at |-> i, row |-> rows[i]].at = i
    BY DEF Placed
  <2> QED BY <2>1 DEF Places
<1>2. \A n \in Placed(rows, places) : n.at \in places BY DEF Placed
<1> QED BY <1>1, <1>2 DEF Places

(* An upsert writes the next credit, ...                                   *)
LEMMA InsertCreditWrites ==
  ASSUME FilesOK, KeyInv, NEW t \in Syncs, WrittenInv(t), InsertCredit(t), UNCHANGED got
  PROVE  WrittenInv(t)'
<1> DEFINE rows == Credits(t)
           named == Named(rows)
           left == Places(todo[t])
<1>1. PICK next \in Due(t) :
        LET a == next.row.account
            new == [id |-> IdFor(t, a), account |-> a, num |-> next.row.num, chr |-> next.row.chr]
        IN  /\ put'[t] = {c \in put[t] : c.account # a} \cup {new}
            /\ todo'[t] = todo[t] \ {next}
  BY Upsert
<1>2. tpc[t] = "insert credits" /\ UNCHANGED <<tpc, added>> BY DEF InsertCredit
<1>3. next \in todo[t] /\ \A other \in todo[t] : next.at <= other.at BY DEF Due
<1>4. /\ DueFrom(todo[t], rows, named) /\ \A i \in named \ left, j \in left : i < j
      /\ CreditsPut(put[t], rows, named \ left) /\ added[t] = {}
  BY <1>2 DEF WrittenInv
<1>5. named \subseteq Nat /\ \A i \in named :
        rows[i] = [account |-> rows[i].account, num |-> rows[i].num, chr |-> rows[i].chr]
  BY RowsReceived DEF Named
<1>6. UNCHANGED <<rows, named>> BY DEF Credits, Received, Named
<1> DEFINE i == next.at
<1>7. /\ i \in named /\ next.row = rows[i] /\ left \subseteq named /\ i \in left
      /\ Places(todo'[t]) = left \ {i} /\ named \ Places(todo'[t]) = (named \ left) \cup {i}
  <2> HIDE DEF rows, named
  <2>1. todo'[t] = todo[t] \ {next} BY <1>1
  <2>2. next \in todo[t] /\ DueFrom(todo[t], rows, named) BY <1>3, <1>4
  <2> QED BY <2>1, <2>2, DueRow
<1>8. \A j \in left : i <= j BY <1>3 DEF Places
<1> HIDE DEF rows, named, left, i
<1>9. DueFrom(todo'[t], rows, named) BY <1>1, <1>4 DEF DueFrom
<1>10. \A j \in named \ Places(todo'[t]), k \in Places(todo'[t]) : j < k
  <2>1. ASSUME NEW k \in left \ {i} PROVE i < k
    <3>1. i \in Nat /\ k \in Nat /\ i <= k /\ k # i BY <1>5, <1>7, <1>8
    <3> QED BY <3>1
  <2> QED BY <1>4, <1>7, <2>1
<1>11. CreditsPut(put'[t], rows, named \ Places(todo'[t]))
  <2>1. i \in Nat /\ named \ left \subseteq Nat /\ \A j \in named \ left : j < i BY <1>4, <1>5, <1>7
  <2> DEFINE new == [id |-> IdFor(t, rows[i].account), account |-> rows[i].account,
                     num |-> rows[i].num, chr |-> rows[i].chr]
  <2>2. put'[t] = {c \in put[t] : c.account # rows[i].account} \cup {new}
    BY <1>1, <1>7
  <2>3. new.account = rows[i].account /\ rows[i] = [account |-> new.account, num |-> new.num, chr |-> new.chr]
    BY <1>5, <1>7
  <2>4. CreditsPut(put[t], rows, named \ left) BY <1>4
  <2> HIDE DEF new
  <2>5. /\ new \in put'[t]
        /\ \A c \in put'[t] : c = new \/ (c \in put[t] /\ c.account # new.account)
        /\ \A c \in put[t] : c.account # new.account => c \in put'[t]
    BY <2>2, <2>3
  <2>6. CreditsPut(put'[t], rows, (named \ left) \cup {i}) BY <2>1, <2>3, <2>4, <2>5, OneMoreCredit
  <2> QED BY <1>7, <2>6
<1> QED BY <1>2, <1>4, <1>6, <1>9, <1>10, <1>11 DEF WrittenInv, rows, named

(* ... and an insert the next payment.                                     *)
LEMMA InsertPaymentWrites ==
  ASSUME FilesOK, KeyInv, NEW t \in Syncs, WrittenInv(t), InsertPayment(t), UNCHANGED got
  PROVE  WrittenInv(t)'
<1> DEFINE rows == Payments(t)
           wanted == Wanted(rows, put[t])
           left == Places(todo[t])
           credits == Credits(t)
<1>1. PICK next \in Due(t) :
        LET new == [credit |-> (CHOOSE c \in Mine(t, next.row.account) : TRUE).id, number |-> next.row.number]
        IN  /\ added' = [added EXCEPT ![t] = added[t] \cup {new}]
            /\ todo' = [todo EXCEPT ![t] = todo[t] \ {next}]
  BY DEF InsertPayment, KeyInv, TxnShape
<1>2. tpc[t] = "insert payments" /\ UNCHANGED <<tpc, put>> BY DEF InsertPayment
<1>3. next \in todo[t] BY DEF Due
<1>4. /\ DueFrom(todo[t], rows, wanted)
      /\ PaymentsAdded(added[t], put[t], rows, wanted \ left)
      /\ CreditsPut(put[t], credits, Named(credits))
  BY <1>2 DEF WrittenInv
<1>5. UNCHANGED <<rows, wanted, credits>> /\ Named(credits)' = Named(credits)
  BY <1>2 DEF Payments, Credits, Received, Wanted, Named
<1> DEFINE i == next.at
           c == CHOOSE d \in Mine(t, next.row.account) : TRUE
<1>6. DOMAIN added = Syncs /\ DOMAIN todo = Syncs BY DEF KeyInv, TxnShape
<1>7. /\ added'[t] = added[t] \cup {[credit |-> c.id, number |-> next.row.number]}
      /\ todo'[t] = todo[t] \ {next}
  BY <1>1, <1>6
<1>8. /\ i \in wanted /\ next.row = rows[i]
      /\ wanted \ Places(todo'[t]) = (wanted \ left) \cup {i}
  <2> HIDE DEF rows, wanted
  <2>1. todo'[t] = todo[t] \ {next} BY <1>7
  <2>2. next \in todo[t] /\ DueFrom(todo[t], rows, wanted) BY <1>3, <1>4
  <2> QED BY <2>1, <2>2, DueRow
<1>9. c \in put[t] /\ c.account = rows[i].account
  <2>1. \E d \in put[t] : d.account = rows[i].account BY <1>8 DEF Wanted
  <2>2. Mine(t, next.row.account) # {} BY <1>8, <2>1 DEF Mine
  <2>3. c \in Mine(t, next.row.account) BY <2>2
  <2> QED BY <1>8, <2>3 DEF Mine
<1> HIDE DEF rows, wanted, left, i, c, credits
<1>10. PaymentsAdded(added'[t], put[t], rows, wanted \ Places(todo'[t]))
  <2>1. PaymentsAdded(added[t], put[t], rows, wanted \ left) BY <1>4
  <2> DEFINE new == [credit |-> c.id, number |-> rows[i].number]
  <2>2. added'[t] = added[t] \cup {new} BY <1>7, <1>8
  <2>3. new = [credit |-> c.id, number |-> rows[i].number] OBVIOUS
  <2> HIDE DEF new
  <2>4. PaymentsAdded(added[t] \cup {new}, put[t], rows, (wanted \ left) \cup {i})
    BY <1>9, <2>1, <2>3, OneMorePayment
  <2>5. PaymentsAdded(added'[t], put[t], rows, (wanted \ left) \cup {i}) BY <2>2, <2>4
  <2> QED BY <1>8, <2>5
<1>11. DueFrom(todo'[t], rows, wanted) BY <1>4, <1>7 DEF DueFrom
<1> QED BY <1>2, <1>4, <1>5, <1>10, <1>11 DEF WrittenInv, rows, wanted, credits

(* What the run has read of an export does not change while it reads the   *)
(* other one, nor later.                                                   *)
LEMMA ReceivedStays ==
  ASSUME FilesOK, NEW t \in Syncs, NEW k \in Kinds, NEW o \in Kinds, o # k,
         SyncOpens(t, k) \/ SyncReads(t, k)
  PROVE  Received(t, o)' = Received(t, o)
<1>1. t \in Readers /\ DOMAIN got = Readers BY ExporterAssumption DEF FilesOK, Readers
<1>2. CASE SyncOpens(t, k)
  <2>1. CASE UNCHANGED got BY <2>1 DEF Received
  <2>2. CASE got' = [got EXCEPT ![t] = Emptied(got[t], k)]
    <3>1. got'[t] = Emptied(got[t], k) BY <1>1, <2>2
    <3> QED BY <3>1 DEF Emptied, Received
  <2> QED BY <1>1, <1>2, <2>1, <2>2 DEF SyncOpens, ExportStarts, Serve
<1>3. CASE SyncReads(t, k)
  <2>1. got' = [got EXCEPT ![t] = [got[t] EXCEPT ![k] = Append(@, file[k][Len(@) + 1])]]
    BY <1>1, <1>3 DEF SyncReads, ReadRow
  <2>2. DOMAIN got'[t] = DOMAIN got[t] /\ (o \in DOMAIN got[t] => got'[t][o] = got[t][o])
    BY <1>1, <2>1
  <2> QED BY <2>2 DEF Received
<1> QED BY <1>2, <1>3

LEMMA WrittenInduction ==
  ASSUME FilesOK, KeyInv, [Next]_dataVars, NEW t \in Syncs, WrittenInv(t)
  PROVE  WrittenInv(t)'
<1>0. TxnShape /\ tpc \in [Syncs -> TxnPoints] /\ (tpc[t] \in Early => put[t] = {})
  BY DEF KeyInv, TxnShape
<1>1. ASSUME UNCHANGED <<tpc[t], put[t], added[t], todo[t], got[t]>> PROVE WrittenInv(t)'
  <2>1. UNCHANGED <<Credits(t), Payments(t)>> BY <1>1 DEF Credits, Payments, Received
  <2> QED BY <1>1, <2>1, WrittenUntouched
<1>2. ASSUME tpc'[t] \notin {"insert credits", "stream payments", "insert payments", "commit"}, added'[t] = {}
      PROVE  WrittenInv(t)'
  BY <1>2 DEF WrittenInv
<1>3. CASE SyncBegins(t)
  <2>1. tpc[t] = "idle" /\ tpc'[t] = "delete payments" /\ UNCHANGED added
    BY <1>0, <1>3 DEF SyncBegins, TxnBegins, At
  <2> QED BY <1>2, <2>1 DEF WrittenInv
<1>4. CASE SyncFails(t)
  <2>1. tpc'[t] = "failed" /\ added'[t] = {} BY <1>0, <1>4, OverEmpties DEF SyncFails, TxnFails
  <2> QED BY <1>2, <2>1
<1>5. CASE SyncStep(t)
  <2>0. UNCHANGED <<got, Credits(t), Payments(t)>>
    BY <1>5 DEF SyncStep, bankVars, readerVars, Credits, Payments, Received
  <2>1. CASE DeletePayments(t) \/ FindCredits(t) \/ DeleteCredits(t)
    <3>1. /\ tpc[t] \in {"delete payments", "find credits", "delete credits"} /\ UNCHANGED added
          /\ tpc'[t] \in {"find credits", "delete credits", "stream credits"}
      BY <1>0, <2>1 DEF DeletePayments, FindCredits, DeleteCredits, At
    <3> QED BY <1>2, <3>1 DEF WrittenInv
  <2>2. CASE InsertCredit(t) BY <2>0, <2>2, InsertCreditWrites
  <2>3. CASE InsertPayment(t) BY <2>0, <2>3, InsertPaymentWrites
  <2>4. CASE CreditsFlushed(t)
    <3>1. /\ tpc[t] = "insert credits" /\ tpc'[t] = "stream payments" /\ todo[t] = {}
          /\ UNCHANGED <<put, added>>
      BY <1>0, <2>4 DEF CreditsFlushed, At
    <3>2. CreditsPut(put[t], Credits(t), Named(Credits(t))) BY <3>1, NoneDue DEF WrittenInv
    <3>3. Named(Credits(t))' = Named(Credits(t)) BY <2>0 DEF Named
    <3> QED BY <2>0, <3>1, <3>2, <3>3 DEF WrittenInv
  <2>5. CASE PaymentsFlushed(t)
    <3>1. /\ tpc[t] = "insert payments" /\ tpc'[t] = "commit" /\ todo[t] = {}
          /\ UNCHANGED <<put, added>>
      BY <1>0, <2>5 DEF PaymentsFlushed, At
    <3>2. /\ PaymentsAdded(added[t], put[t], Payments(t), Wanted(Payments(t), put[t]))
          /\ CreditsPut(put[t], Credits(t), Named(Credits(t)))
      BY <3>1, NoneDue DEF WrittenInv
    <3>3. Named(Credits(t))' = Named(Credits(t)) /\ Wanted(Payments(t), put[t])' = Wanted(Payments(t), put[t])
      BY <2>0, <3>1 DEF Named, Wanted
    <3> QED BY <2>0, <3>1, <3>2, <3>3 DEF WrittenInv
  <2>6. CASE TxnCommits(t)
    <3>1. tpc'[t] = "ok" /\ added'[t] = {} BY <1>0, <2>6, OverEmpties DEF TxnCommits, At
    <3> QED BY <1>2, <3>1
  <2> QED BY <1>5, <2>1, <2>2, <2>3, <2>4, <2>5, <2>6 DEF SyncStep, TxnStep
<1>6. ASSUME NEW k \in Kinds, SyncOpens(t, k) \/ SyncReads(t, k) PROVE WrittenInv(t)'
  <2>1. tpc[t] = StreamPoint(k) /\ UNCHANGED <<tpc, put, added, todo>>
    BY <1>6 DEF SyncOpens, SyncReads, txnVars
  <2>2. CASE k = "credits" BY <1>2, <2>1, <2>2 DEF WrittenInv, StreamPoint
  <2>3. CASE k = "payments"
    <3>1. UNCHANGED Credits(t) BY <1>6, <2>3, ReceivedStays DEF Credits, Kinds
    <3>2. Named(Credits(t))' = Named(Credits(t)) BY <3>1 DEF Named
    <3> QED BY <2>1, <2>3, <3>1, <3>2 DEF WrittenInv, StreamPoint
  <2> QED BY <2>2, <2>3 DEF Kinds
<1>7. ASSUME NEW k \in Kinds, SyncReadsEnd(t, k) PROVE WrittenInv(t)'
  <2>0. UNCHANGED <<got, Credits(t), Payments(t), put, added>>
    BY <1>7 DEF SyncReadsEnd, ReadEnds, Credits, Payments, Received, CreditsReceived, PaymentsReceived
  <2>1. CASE k = "credits"
    <3> DEFINE rows == Credits(t)
               named == Named(rows)
    <3>1. /\ tpc[t] = "stream credits" /\ tpc'[t] = "insert credits"
          /\ todo'[t] = Placed(rows, named)
      <4>1. CreditsReceived(t, rows, Hole) BY <1>7, <2>1 DEF SyncReadsEnd, Credits
      <4> HIDE DEF rows
      <4>2. /\ tpc[t] = "stream credits" /\ tpc' = [tpc EXCEPT ![t] = "insert credits"]
            /\ todo' = [todo EXCEPT ![t] = Placed(rows, named)]
        BY <4>1 DEF CreditsReceived, At, Named
      <4> HIDE DEF named
      <4> QED BY <1>0, <4>2 DEF TxnShape
    <3>2. put[t] = {} /\ added[t] = {} BY <1>0, <3>1 DEF Early, WrittenInv
    <3>3. UNCHANGED <<rows, named>> BY <2>0 DEF Named
    <3> HIDE DEF rows, named
    <3>4. Places(todo'[t]) = named /\ named \ Places(todo'[t]) = {} BY <3>1, AllDue
    <3>5. CreditsPut({}, rows, {}) /\ DueFrom(todo'[t], rows, named) BY <3>1 DEF CreditsPut, DueFrom
    <3>6. \A i \in named \ Places(todo'[t]) : FALSE BY <3>4
    <3> QED BY <2>0, <3>1, <3>2, <3>3, <3>4, <3>5, <3>6 DEF WrittenInv, rows, named
  <2>2. CASE k = "payments"
    <3> DEFINE rows == Payments(t)
               wanted == Wanted(rows, put[t])
    <3>1. /\ tpc[t] = "stream payments" /\ tpc'[t] = "insert payments"
          /\ todo'[t] = Placed(rows, wanted)
      <4>1. PaymentsReceived(t, rows, Hole) BY <1>7, <2>2 DEF SyncReadsEnd, Payments
      <4> HIDE DEF rows
      <4> DEFINE places == {i \in DOMAIN rows : rows[i] # Hole /\ Mine(t, rows[i].account) # {}}
      <4>2. /\ tpc[t] = "stream payments" /\ tpc' = [tpc EXCEPT ![t] = "insert payments"]
            /\ todo' = [todo EXCEPT ![t] = Placed(rows, places)]
        BY <4>1 DEF PaymentsReceived, At
      <4>3. places = wanted BY DEF Wanted, Named, Mine
      <4> HIDE DEF places, wanted
      <4> QED BY <1>0, <4>2, <4>3 DEF TxnShape
    <3>3. /\ added[t] = {} /\ CreditsPut(put[t], Credits(t), Named(Credits(t))) BY <3>1 DEF WrittenInv
    <3>4. UNCHANGED <<rows, wanted>> /\ Named(Credits(t))' = Named(Credits(t)) BY <2>0 DEF Named, Wanted
    <3> HIDE DEF rows, wanted
    <3>5. Places(todo'[t]) = wanted /\ wanted \ Places(todo'[t]) = {} BY <3>1, AllDue
    <3>6. PaymentsAdded({}, put[t], rows, {}) /\ DueFrom(todo'[t], rows, wanted)
      BY <3>1 DEF PaymentsAdded, DueFrom
    <3> QED BY <2>0, <3>1, <3>3, <3>4, <3>5, <3>6 DEF WrittenInv, rows, wanted
  <2> QED BY <2>1, <2>2 DEF Kinds
<1>8. Sync(t) \/ UNCHANGED <<tpc[t], put[t], added[t], todo[t], got[t]>> BY <1>0, OwnSteps
<1> QED BY <1>1, <1>3, <1>4, <1>5, <1>6, <1>7, <1>8 DEF Sync

-----------------------------------------------------------------------------
(* A run alone, or with one other.                                         *)

(* A run begins: whoever is open has company now.                          *)
LEMMA BeginsBeside ==
  ASSUME TxnShape, SoleInv, NEW s \in Syncs, TxnBegins(s)
  PROVE  SoleInv'
<1>1. /\ tpc[s] = "idle" /\ tpc' = [tpc EXCEPT ![s] = "delete payments"]
      /\ target' = [target EXCEPT ![s] = pay]
      /\ beside' = [o \in Syncs |-> IF o = s THEN Open
                                    ELSE IF o \in Open THEN beside[o] \cup {s} ELSE beside[o]]
      /\ overPaid' = IF pay # {} THEN overPaid \cup {s} ELSE overPaid
      /\ UNCHANGED <<cred, pay, gone, paid>>
  BY DEF TxnBegins, At
<1>2. /\ tpc' \in [Syncs -> TxnPoints] /\ tpc'[s] = "delete payments" /\ s \notin Open
      /\ \A o \in Syncs : o # s => tpc'[o] = tpc[o]
      /\ Open' = Open \cup {s} /\ Open \subseteq Syncs
      /\ target'[s] = pay /\ \A o \in Syncs : o # s => target'[o] = target[o]
  BY <1>1 DEF TxnShape, TxnPoints, Open
<1>3. /\ beside'[s] = Open /\ \A o \in Open : beside'[o] = beside[o] \cup {s}
      /\ \A o \in Syncs \ Open : o # s => beside'[o] = beside[o]
  BY <1>1, <1>2
<1>4. beside[s] = {} /\ s \notin overPaid /\ \A o \in Syncs : s \notin beside[o]
  BY <1>1 DEF SoleInv, BesideInv
<1>5. BesideInv'
  <2>1. \A t \in Syncs : tpc'[t] = "idle" => beside'[t] = {} /\ t \notin overPaid'
    BY <1>1, <1>2, <1>3 DEF SoleInv, BesideInv, Open
  <2>0. \A o \in Syncs : beside[o] \subseteq beside'[o] BY <1>3, <1>4
  <2>2. ASSUME NEW t \in Syncs, NEW o \in Syncs, o \in beside'[t] PROVE o # t /\ t \in beside'[o]
    <3>1. CASE o \in beside[t] BY <2>0, <3>1 DEF SoleInv, BesideInv
    <3>2. CASE o \notin beside[t]
      <4>1. CASE t = s BY <1>2, <1>3, <2>2, <4>1
      <4>2. CASE t # s
        <5>1. t \in Open /\ o = s BY <1>3, <2>2, <3>2, <4>2
        <5> QED BY <1>3, <4>2, <5>1
      <4> QED BY <4>1, <4>2
    <3> QED BY <3>1, <3>2
  <2>3. ASSUME NEW t \in Open', NEW o \in Open', t # o PROVE o \in beside'[t]
    <3>1. CASE t = s BY <1>2, <1>3, <2>3, <3>1
    <3>2. CASE o = s BY <1>2, <1>3, <2>3, <3>2
    <3>3. CASE t # s /\ o # s BY <1>2, <2>0, <2>3, <3>3 DEF SoleInv, BesideInv
    <3> QED BY <3>1, <3>2, <3>3
  <2> QED BY <2>1, <2>2, <2>3 DEF BesideInv
<1>6. AloneInv'
  <2> SUFFICES ASSUME NEW t \in Open', beside'[t] = {}
               PROVE  tpc'[t] = "delete payments" /\ target'[t] = pay'
    BY DEF AloneInv, Deleted
  <2>1. t = s BY <1>2, <1>3
  <2> QED BY <1>1, <1>2, <2>1
<1>7. ASSUME NEW o \in Open, beside'[o] = {s}
      PROVE  /\ beside[o] = {} /\ o # s /\ tpc'[o] = tpc[o] /\ target'[o] = target[o] /\ paid'[o] = paid[o]
             /\ \/ tpc[o] = "delete payments" /\ target[o] = pay
                \/ tpc[o] \in Deleted /\ paid[o] = pay
  <2>1. beside[o] = {}
    <3>1. o \in Syncs /\ s \notin beside[o] BY <1>2, <1>4
    <3>2. beside[o] \subseteq {s} BY <1>3, <1>7
    <3> QED BY <3>1, <3>2
  <2>2. tpc[o] = "delete payments" \/ tpc[o] \in Deleted BY <1>2 DEF TxnShape, Open, TxnPoints, Deleted
  <2> QED BY <1>1, <1>2, <2>1, <2>2 DEF SoleInv, AloneInv
<1>8. PairInv'
  <2> SUFFICES ASSUME NEW t \in Open', NEW o \in Open', Pair(t, o)'
               PROVE  pay' # {} /\
                      \/ /\ tpc'[t] = "delete payments" /\ tpc'[o] = "delete payments"
                         /\ target'[t] = pay' /\ target'[o] = pay'
                      \/ Blocks(t, o)' \/ Blocks(o, t)'
    BY DEF PairInv
  <2>1. t # o /\ beside'[t] = {o} /\ beside'[o] = {t} /\ t \in overPaid' /\ o \in overPaid' BY DEF Pair
  <2>2. CASE t = s
    <3>1. pay # {} BY <1>1, <1>4, <2>1, <2>2
    <3> QED BY <1>1, <1>2, <1>7, <2>1, <2>2, <3>1 DEF Blocks
  <2>3. CASE o = s
    <3>1. pay # {} BY <1>1, <1>4, <2>1, <2>3
    <3> QED BY <1>1, <1>2, <1>7, <2>1, <2>3, <3>1 DEF Blocks
  <2>4. CASE t # s /\ o # s BY <1>2, <1>3, <2>1, <2>4
  <2> QED BY <2>2, <2>3, <2>4
<1>9. ASSUME NEW t \in Open' PROVE ClearedInv(t)'
  <2>1. CASE t = s BY <1>2, <2>1 DEF ClearedInv, Cleared
  <2>2. CASE t # s
    <3>1. t \in Open /\ ClearedInv(t) BY <1>2, <2>2 DEF SoleInv
    <3>2. ASSUME Watched(t)' PROVE Watched(t)
      <4>1. s \in beside'[t] BY <1>3, <3>1
      <4>2. beside'[t] = {s} BY <3>2, <4>1 DEF Watched, Pair
      <4> QED BY <1>7, <3>1, <4>2 DEF Watched
    <3> QED BY <1>1, <1>2, <2>2, <3>1, <3>2 DEF ClearedInv, Ids
  <2> QED BY <2>1, <2>2
<1> QED BY <1>5, <1>6, <1>8, <1>9 DEF SoleInv

(* The first DELETE: of a pair, one gets past it while the other waits.    *)
LEMMA DeletePaymentsBeside ==
  ASSUME TxnShape, SoleInv, NEW s \in Syncs, DeletePayments(s)
  PROVE  SoleInv'
<1>1. /\ tpc[s] = "delete payments" /\ tpc' = [tpc EXCEPT ![s] = "find credits"]
      /\ \A o \in Others(s) : target[s] \cap paid[o] = {}
      /\ paid' = [paid EXCEPT ![s] = target[s] \cap pay]
      /\ UNCHANGED <<cred, pay, target, gone, beside, overPaid>>
  BY DEF DeletePayments, At
<1>2. /\ tpc' \in [Syncs -> TxnPoints] /\ tpc'[s] = "find credits" /\ s \in Open
      /\ \A o \in Syncs : o # s => tpc'[o] = tpc[o] /\ paid'[o] = paid[o]
      /\ Open' = Open /\ Open \subseteq Syncs /\ paid'[s] = target[s] \cap pay
  BY <1>1 DEF TxnShape, TxnPoints, Open
<1>3. BesideInv' BY <1>1, <1>2 DEF SoleInv, BesideInv
<1>4. AloneInv'
  <2> SUFFICES ASSUME NEW t \in Open, beside[t] = {}
               PROVE  /\ tpc'[t] = "delete payments" => target'[t] = pay'
                      /\ tpc'[t] \in Deleted => paid'[t] = pay'
    BY <1>1, <1>2 DEF AloneInv
  <2>1. CASE t = s BY <1>1, <1>2, <2>1 DEF SoleInv, AloneInv
  <2>2. CASE t # s BY <1>1, <1>2, <2>2 DEF SoleInv, AloneInv
  <2> QED BY <2>1, <2>2
<1>5. ASSUME NEW o \in Open, Pair(s, o) \/ Pair(o, s) PROVE Blocks(s, o)'
  <2>1. o # s /\ Pair(s, o) BY <1>5 DEF Pair
  <2>2. ~Blocks(s, o) BY <1>1 DEF Blocks, Deleted
  <2>3. ~Blocks(o, s)
    <3>1. o \in Others(s) BY <2>1 DEF Others
    <3>2. pay # {} BY <1>2, <2>1 DEF SoleInv, PairInv
    <3> QED BY <1>1, <3>1, <3>2 DEF Blocks
  <2>4. tpc[o] = "delete payments" /\ target[s] = pay /\ target[o] = pay
    BY <1>2, <2>1, <2>2, <2>3 DEF SoleInv, PairInv
  <2> QED BY <1>1, <1>2, <2>1, <2>4 DEF Blocks, Deleted
<1>6. PairInv'
  <2> SUFFICES ASSUME NEW t \in Open', NEW o \in Open', Pair(t, o)'
               PROVE  pay' # {} /\
                      \/ /\ tpc'[t] = "delete payments" /\ tpc'[o] = "delete payments"
                         /\ target'[t] = pay' /\ target'[o] = pay'
                      \/ Blocks(t, o)' \/ Blocks(o, t)'
    BY DEF PairInv
  <2>0. t \in Open /\ o \in Open /\ Pair(t, o) BY <1>1, <1>2 DEF Pair
  <2>1. pay' # {} BY <1>1, <2>0 DEF SoleInv, PairInv
  <2>2. CASE t = s \/ o = s BY <1>5, <2>0, <2>1, <2>2
  <2>3. CASE t # s /\ o # s
    <3>1. /\ tpc'[t] = tpc[t] /\ tpc'[o] = tpc[o] /\ paid'[t] = paid[t] /\ paid'[o] = paid[o]
          /\ UNCHANGED <<pay, target>>
      BY <1>1, <1>2, <2>0, <2>3
    <3>2. Blocks(t, o)' = Blocks(t, o) /\ Blocks(o, t)' = Blocks(o, t) BY <3>1 DEF Blocks
    <3> QED BY <2>0, <3>1, <3>2 DEF SoleInv, PairInv
  <2> QED BY <2>1, <2>2, <2>3
<1>7. ASSUME NEW t \in Open' PROVE ClearedInv(t)'
  <2>1. CASE t = s BY <1>2, <2>1 DEF ClearedInv, Cleared
  <2>2. CASE t # s BY <1>1, <1>2, <2>2 DEF SoleInv, ClearedInv, Watched, Pair, Ids
  <2> QED BY <2>1, <2>2
<1> QED BY <1>3, <1>4, <1>6, <1>7 DEF SoleInv

(* A run past the first DELETE goes on.                                    *)
LEMMA GoesOnBeside ==
  ASSUME TxnShape, SoleInv, NEW s \in Syncs, NEW to \in Deleted, tpc[s] \in Deleted,
         tpc' = [tpc EXCEPT ![s] = to], UNCHANGED <<cred, pay, beside, overPaid, paid>>,
         \A o \in Syncs : o # s => target'[o] = target[o] /\ gone'[o] = gone[o],
         ClearedInv(s) => ClearedInv(s)'
  PROVE  SoleInv'
<1>1. /\ tpc' \in [Syncs -> TxnPoints] /\ tpc'[s] = to /\ s \in Open
      /\ \A o \in Syncs : o # s => tpc'[o] = tpc[o]
      /\ Open' = Open /\ Open \subseteq Syncs
  BY DEF TxnShape, TxnPoints, Open, Deleted
<1>2. "delete payments" \notin Deleted BY DEF Deleted
<1>3. BesideInv' BY <1>1, <1>2 DEF SoleInv, BesideInv, Deleted
<1>4. AloneInv' BY <1>1, <1>2 DEF SoleInv, AloneInv
<1>5. PairInv'
  <2> SUFFICES ASSUME NEW t \in Open', NEW o \in Open', Pair(t, o)'
               PROVE  pay' # {} /\
                      \/ /\ tpc'[t] = "delete payments" /\ tpc'[o] = "delete payments"
                         /\ target'[t] = pay' /\ target'[o] = pay'
                      \/ Blocks(t, o)' \/ Blocks(o, t)'
    BY DEF PairInv
  <2>0. t \in Open /\ o \in Open /\ Pair(t, o) /\ t # o BY <1>1 DEF Pair
  <2>1. \A r \in {t, o} : tpc[r] = "delete payments" => tpc'[r] = tpc[r] /\ target'[r] = target[r]
    BY <1>1, <1>2, <2>0
  <2>2. \A r \in {t, o} : tpc[r] \in Deleted => tpc'[r] \in Deleted BY <1>1, <2>0
  <2>3. Blocks(t, o) => Blocks(t, o)' BY <2>1, <2>2 DEF Blocks
  <2>4. Blocks(o, t) => Blocks(o, t)' BY <2>1, <2>2 DEF Blocks
  <2> QED BY <2>0, <2>1, <2>3, <2>4 DEF SoleInv, PairInv
<1>6. ASSUME NEW t \in Open' PROVE ClearedInv(t)'
  <2>1. CASE t = s BY <1>1, <2>1 DEF SoleInv
  <2>2. CASE t # s BY <1>1, <2>2 DEF SoleInv, ClearedInv, Watched, Pair, Ids
  <2> QED BY <2>1, <2>2
<1> QED BY <1>3, <1>4, <1>5, <1>6 DEF SoleInv

(* A run ends: whoever was beside it is no run that nobody else disturbs,  *)
(* unless it waited.                                                       *)
LEMMA EndsBeside ==
  ASSUME TxnShape, SoleInv, NEW s \in Open, NEW to \in {"ok", "failed"},
         tpc' = [tpc EXCEPT ![s] = to], UNCHANGED <<beside, overPaid>>, Over(s),
         UNCHANGED <<cred, pay>> \/ tpc[s] = "commit"
  PROVE  SoleInv'
<1>1. /\ tpc' \in [Syncs -> TxnPoints] /\ tpc'[s] = to /\ s \in Syncs
      /\ \A o \in Syncs : o # s => tpc'[o] = tpc[o] /\ target'[o] = target[o] /\ gone'[o] = gone[o]
      /\ Open' = Open \ {s} /\ Open \subseteq Syncs
  <2>1. s \in Syncs BY DEF Open
  <2> QED BY <2>1, OverEmpties DEF TxnShape, TxnPoints, Open
<1>2. \A t \in Open' : s \in beside[t] BY <1>1 DEF SoleInv, BesideInv
<1>3. BesideInv' BY <1>1 DEF SoleInv, BesideInv
<1>4. AloneInv' BY <1>2 DEF AloneInv
<1>5. PairInv' BY <1>1, <1>2 DEF PairInv, Pair
<1>6. ASSUME NEW t \in Open' PROVE ClearedInv(t)'
  <2>1. t \in Open /\ t # s /\ t \in Syncs BY <1>1
  <2>2. CASE UNCHANGED <<cred, pay>> BY <1>1, <2>1, <2>2 DEF SoleInv, ClearedInv, Watched, Pair, Ids
  <2>3. CASE tpc[s] = "commit"
    <3> SUFFICES ASSUME Watched(t) PROVE tpc[t] = "delete payments"
      BY <1>1, <2>1 DEF ClearedInv, Watched, Pair, Cleared
    <3>1. Pair(t, s) BY <1>2 DEF Watched, Pair
    <3> QED BY <2>1, <2>3, <3>1 DEF SoleInv, PairInv, Blocks
  <2> QED BY <2>2, <2>3
<1> QED BY <1>3, <1>4, <1>5, <1>6 DEF SoleInv

LEMMA SoleInduction ==
  ASSUME TxnShape, SoleInv, [Next]_dataVars
  PROVE  SoleInv'
<1>0. ASSUME NEW s \in Syncs, NEW to \in Deleted, tpc[s] \in Deleted, tpc' = [tpc EXCEPT ![s] = to],
             tpc[s] \in Cleared, to \in Cleared, UNCHANGED <<cred, pay, beside, overPaid, paid, target, gone>>
      PROVE  SoleInv'
  <2>1. tpc'[s] = to BY <1>0 DEF TxnShape
  <2>2. "delete credits" \notin Cleared BY DEF Cleared
  <2>3. ClearedInv(s) => ClearedInv(s)' BY <1>0, <2>1, <2>2 DEF ClearedInv, Watched, Pair, Ids
  <2> QED BY <1>0, <2>3, GoesOnBeside
<1>1. ASSUME NEW s \in Syncs, FindCredits(s) PROVE SoleInv'
  <2>1. /\ tpc[s] = "find credits" /\ tpc' = [tpc EXCEPT ![s] = "delete credits"]
        /\ target' = [target EXCEPT ![s] = Ids(cred)]
        /\ UNCHANGED <<cred, pay, beside, overPaid, paid, gone>>
    BY <1>1 DEF FindCredits, At
  <2>2. tpc'[s] = "delete credits" /\ target'[s] = Ids(cred) /\ \A o \in Syncs : o # s => target'[o] = target[o]
    BY <2>1 DEF TxnShape
  <2>3. ClearedInv(s)' BY <2>1, <2>2 DEF ClearedInv, Cleared, Ids
  <2> QED BY <2>1, <2>2, <2>3, GoesOnBeside DEF Deleted
<1>2. ASSUME NEW s \in Syncs, DeleteCredits(s) PROVE SoleInv'
  <2>1. /\ tpc[s] = "delete credits" /\ tpc' = [tpc EXCEPT ![s] = "stream credits"]
        /\ gone' = [gone EXCEPT ![s] = target[s] \cap Ids(cred)] /\ target' = [target EXCEPT ![s] = {}]
        /\ UNCHANGED <<cred, pay, beside, overPaid, paid>>
    BY <1>2 DEF DeleteCredits, At
  <2>2. /\ tpc'[s] = "stream credits" /\ gone'[s] = target[s] \cap Ids(cred)
        /\ \A o \in Syncs : o # s => target'[o] = target[o] /\ gone'[o] = gone[o]
    BY <2>1 DEF TxnShape
  <2>3. ClearedInv(s) => ClearedInv(s)' BY <2>1, <2>2 DEF ClearedInv, Watched, Pair, Ids
  <2> QED BY <2>1, <2>2, <2>3, GoesOnBeside DEF Deleted
<1>3. ASSUME NEW s \in Syncs, CreditsFlushed(s) \/ PaymentsFlushed(s) PROVE SoleInv'
  BY <1>0, <1>3 DEF CreditsFlushed, PaymentsFlushed, At, Deleted, Cleared
<1>4. ASSUME NEW s \in Syncs, InsertCredit(s) \/ InsertPayment(s) PROVE SoleInv'
  <2>1. /\ tpc[s] \in {"insert credits", "insert payments"}
        /\ UNCHANGED <<cred, pay, tpc, beside, overPaid, paid, target, gone>>
    BY <1>4 DEF InsertCredit, InsertPayment
  <2>2. tpc' = [tpc EXCEPT ![s] = tpc[s]] BY <2>1 DEF TxnShape
  <2> QED BY <1>0, <2>1, <2>2 DEF Deleted, Cleared
<1>5. ASSUME NEW s \in Syncs, NEW rows, NEW blank, CreditsReceived(s, rows, blank) PROVE SoleInv'
  BY <1>0, <1>5 DEF CreditsReceived, At, Deleted, Cleared
<1>6. ASSUME NEW s \in Syncs, NEW rows, NEW blank, PaymentsReceived(s, rows, blank) PROVE SoleInv'
  BY <1>0, <1>6 DEF PaymentsReceived, At, Deleted, Cleared
<1>7. ASSUME NEW s \in Syncs, TxnCommits(s) PROVE SoleInv'
  <2>1. s \in Open BY <1>7 DEF TxnCommits, At, Open
  <2> QED BY <1>7, <2>1, EndsBeside DEF TxnCommits, At
<1>8. ASSUME NEW s \in Syncs, TxnFails(s) PROVE SoleInv'
  BY <1>8, EndsBeside DEF TxnFails
<1>9. CASE UNCHANGED txnVars
  <2>1. UNCHANGED <<cred, pay, tpc, target, gone, paid, beside, overPaid>> BY <1>9 DEF txnVars
  <2>2. Open' = Open BY <2>1 DEF Open
  <2>3. BesideInv' BY <2>1, <2>2 DEF SoleInv, BesideInv
  <2>4. AloneInv' BY <2>1, <2>2 DEF SoleInv, AloneInv
  <2>5. \A t, o : Pair(t, o)' = Pair(t, o) /\ Blocks(t, o)' = Blocks(t, o) BY <2>1 DEF Pair, Blocks
  <2>6. PairInv' BY <2>1, <2>2, <2>5 DEF SoleInv, PairInv
  <2>7. \A t : ClearedInv(t)' = ClearedInv(t) BY <2>1 DEF ClearedInv, Watched, Pair, Ids
  <2> QED BY <2>2, <2>3, <2>4, <2>6, <2>7 DEF SoleInv
<1> QED BY <1>1, <1>2, <1>3, <1>4, <1>5, <1>6, <1>7, <1>8, <1>9,
           TxnSteps, BeginsBeside, DeletePaymentsBeside DEF TxnStep

-----------------------------------------------------------------------------
(* What a commit leaves.                                                   *)

(* What two exports stand for.                                             *)
Stands(credits, payments) ==
  LET lasts == {credits[i] : i \in {k \in Named(credits) :
                  \A j \in Named(credits) : credits[j].account = credits[k].account => j <= k}}
  IN  [credits |-> lasts,
       payments |-> {p \in Range(payments) : p # Hole /\ \E c \in lasts : c.account = p.account}]

LEMMA ExportedStands ==
  ASSUME NEW t \in Syncs
  PROVE  Exported(t) = Stands(Credits(t), Payments(t))
  BY DEF Exported, Stands, Named, Credits, Payments

(* The rows that are written are those the exports stand for.              *)
LEMMA WrittenIsExported ==
  ASSUME NEW credits, NEW payments, NEW crows, NEW prows,
         Unique(credits), Named(crows) \subseteq Nat,
         CreditsPut(credits, crows, Named(crows)),
         PaymentsAdded(payments, credits, prows, Wanted(prows, credits)),
         \A i \in Named(prows) : prows[i] = [account |-> prows[i].account, number |-> prows[i].number]
  PROVE  Contents(credits, payments) = Stands(crows, prows)
<1> DEFINE named == Named(crows)
           final(i) == \A j \in named : crows[j].account = crows[i].account => j <= i
           bare(c) == [account |-> c.account, num |-> c.num, chr |-> c.chr]
           bares == {[account |-> c.account, num |-> c.num, chr |-> c.chr] : c \in credits}
           lasts == {crows[i] : i \in {k \in Named(crows) :
                       \A j \in Named(crows) : crows[j].account = crows[k].account => j <= k}}
<1>1. \A c \in credits : \E i \in named :
        crows[i] = bare(c) /\ \A j \in named : crows[j].account = c.account => j <= i
  BY DEF CreditsPut
<1>2. \A c : bare(c).account = c.account OBVIOUS
<1>3. ASSUME NEW c \in credits PROVE bare(c) \in lasts
  <2>1. PICK i \in named : crows[i] = bare(c) /\ \A j \in named : crows[j].account = c.account => j <= i
    BY <1>1
  <2>2. final(i) BY <1>2, <2>1
  <2> QED BY <2>1, <2>2
<1>4. ASSUME NEW i \in named, final(i) PROVE \E c \in credits : crows[i] = bare(c)
  <2>1. PICK c \in credits : c.account = crows[i].account BY DEF CreditsPut
  <2>2. PICK k \in named : crows[k] = bare(c) /\ \A j \in named : crows[j].account = c.account => j <= k
    BY <1>1
  <2>3. i <= k BY <2>1, <2>2
  <2>4. k <= i BY <1>2, <1>4, <2>1, <2>2
  <2>5. i \in Nat /\ k \in Nat OBVIOUS
  <2>6. i = k BY <2>3, <2>4, <2>5
  <2> QED BY <2>2, <2>6
<1>5. bares = lasts
  <2>1. \A b \in bares : b \in lasts BY <1>3
  <2>2. ASSUME NEW b \in lasts PROVE b \in bares
    <3>1. PICK i \in named : b = crows[i] /\ final(i) OBVIOUS
    <3>2. PICK c \in credits : crows[i] = bare(c) BY <1>4, <3>1
    <3> QED BY <3>1, <3>2
  <2> HIDE DEF bares, lasts
  <2> QED BY <2>1, <2>2
<1> DEFINE joined == {[account |-> cp[1].account, number |-> cp[2].number] :
                        cp \in {join \in credits \X payments : join[1].id = join[2].credit}}
           kept == {p \in Range(prows) : p # Hole /\ \E c \in lasts : c.account = p.account}
<1>6. ASSUME NEW c \in credits, NEW p \in payments, c.id = p.credit
      PROVE  [account |-> c.account, number |-> p.number] \in kept
  <2>1. PICK i \in Wanted(prows, credits), d \in credits :
          d.account = prows[i].account /\ p = [credit |-> d.id, number |-> prows[i].number]
    BY DEF PaymentsAdded
  <2>2. d = c
    <3>1. p.credit = d.id BY <2>1
    <3> QED BY <1>6, <3>1 DEF Unique
  <2>3. i \in Named(prows) /\ i \in DOMAIN prows /\ prows[i] # Hole BY DEF Wanted, Named
  <2>4. p.number = prows[i].number /\ prows[i] = [account |-> prows[i].account, number |-> prows[i].number]
    BY <2>1, <2>3
  <2>5. prows[i] = [account |-> c.account, number |-> p.number] BY <2>1, <2>2, <2>4
  <2>6. prows[i] \in Range(prows) BY <2>3 DEF Range
  <2>7. bare(c) \in lasts /\ bare(c).account = prows[i].account BY <1>2, <1>3, <2>1, <2>2
  <2> QED BY <2>3, <2>5, <2>6, <2>7
<1>7. ASSUME NEW p \in kept PROVE p \in joined
  <2>1. PICK i \in DOMAIN prows : p = prows[i] BY DEF Range
  <2>2. PICK b \in lasts : b.account = p.account OBVIOUS
  <2>3. PICK c \in credits : b = bare(c) BY <1>4, <2>2
  <2>4. c.account = p.account BY <1>2, <2>2, <2>3
  <2>5. i \in Named(prows) /\ i \in Wanted(prows, credits) BY <2>1, <2>4 DEF Named, Wanted
  <2>6. PICK d \in credits : /\ d.account = prows[i].account
                             /\ [credit |-> d.id, number |-> prows[i].number] \in payments
    BY <2>5 DEF PaymentsAdded
  <2> DEFINE q == [credit |-> d.id, number |-> prows[i].number]
  <2>7. <<d, q>> \in {join \in credits \X payments : join[1].id = join[2].credit} BY <2>6
  <2>8. p = [account |-> <<d, q>>[1].account, number |-> <<d, q>>[2].number]
    BY <2>1, <2>5, <2>6
  <2> QED BY <2>7, <2>8
<1>8. joined = kept BY <1>6, <1>7
<1> QED BY <1>5, <1>8 DEF Contents, Stands

(* A run that nobody disturbed commits what its exports stand for.         *)
LEMMA CommitIsExported ==
  ASSUME FilesOK, KeyInv, SoleInv, NEW t \in Syncs, WrittenInv(t), TxnCommits(t), Watched(t)
  PROVE  /\ Slice' = Stands(Credits(t), Payments(t))
         /\ \A i \in Named(Credits(t)) : \E c \in cred' : c.account = Credits(t)[i].account
<1>1. /\ tpc[t] = "commit" /\ KeysHold(t)
      /\ cred' = {c \in cred : c.id \notin gone[t] \cup Ids(put[t])} \cup put[t]
      /\ pay' = (pay \ paid[t]) \cup added[t]
  BY DEF TxnCommits, At
<1>2. Ids(cred) \subseteq gone[t]
  <2>1. t \in Open BY <1>1 DEF Open
  <2> QED BY <1>1, <2>1 DEF SoleInv, ClearedInv, Cleared
<1>3. cred' = put[t]
  <2>1. \A c \in cred : c.id \in gone[t] BY <1>2 DEF Ids
  <2> QED BY <1>1, <2>1
<1>4. pay' = added[t]
  <2>1. ASSUME NEW p \in pay \ paid[t] PROVE FALSE
    <3>1. p.credit \in Ids(cred) BY <2>1 DEF KeyInv
    <3> QED BY <1>1, <1>2, <2>1, <3>1 DEF KeysHold
  <2> QED BY <1>1, <2>1
<1>5. /\ CreditsPut(put[t], Credits(t), Named(Credits(t)))
      /\ PaymentsAdded(added[t], put[t], Payments(t), Wanted(Payments(t), put[t]))
  BY <1>1 DEF WrittenInv
<1>6. Contents(put[t], added[t]) = Stands(Credits(t), Payments(t))
  <2>1. Unique(put[t]) BY DEF KeyInv
  <2>2. Named(Credits(t)) \subseteq Nat BY RowsReceived DEF Named
  <2> QED BY <1>5, <2>1, <2>2, RowsReceived, WrittenIsExported
<1>7. Slice' = Contents(put[t], added[t])
  <2>1. Slice' = Contents(cred', pay') BY DEF Slice, Contents
  <2> QED BY <1>3, <1>4, <2>1
<1> QED BY <1>3, <1>5, <1>6, <1>7 DEF CreditsPut

(* The company a run had is settled when it ends.                          *)
LEMMA CompanyStays ==
  ASSUME TxnShape, SoleInv, [Next]_dataVars, NEW t \in Syncs, tpc[t] = "ok", Watched(t)'
  PROVE  Watched(t)
<1>1. CASE UNCHANGED <<beside, overPaid>> BY <1>1 DEF Watched, Pair
<1>2. ASSUME NEW s \in Syncs, TxnBegins(s) PROVE Watched(t)
  <2>1. /\ beside' = [o \in Syncs |-> IF o = s THEN Open
                                      ELSE IF o \in Open THEN beside[o] \cup {s} ELSE beside[o]]
        /\ overPaid' \subseteq overPaid \cup {s} /\ s # t
    BY <1>2 DEF TxnBegins, At
  <2>2. t \notin Open /\ beside'[t] = beside[t] BY <2>1 DEF Open
  <2>3. ASSUME NEW o \in Syncs, Pair(t, o)' PROVE Pair(t, o)
    <3>1. t # o /\ beside'[t] = {o} /\ beside'[o] = {t} /\ {t, o} \subseteq overPaid' BY <2>3 DEF Pair
    <3>2. o # s BY <2>1, <2>2, <3>1
    <3>3. o \notin Open BY <2>1, <3>1, <3>2
    <3>4. beside'[o] = beside[o] BY <2>1, <3>2, <3>3
    <3> QED BY <2>1, <2>2, <3>1, <3>2, <3>4 DEF Pair
  <2> QED BY <2>2, <2>3 DEF Watched
<1>3. UNCHANGED <<beside, overPaid>> \/ \E s \in Syncs : TxnBegins(s)
  <2>1. ASSUME NEW s, TxnStep(s) PROVE UNCHANGED <<beside, overPaid>>
    BY <2>1 DEF TxnStep, DeletePayments, FindCredits, DeleteCredits, InsertCredit, CreditsFlushed,
       InsertPayment, PaymentsFlushed, TxnCommits
  <2>2. ASSUME NEW s, TxnFails(s) PROVE UNCHANGED <<beside, overPaid>>
    BY <2>2 DEF TxnFails
  <2>3. ASSUME NEW s, NEW rows, NEW blank,
               CreditsReceived(s, rows, blank) \/ PaymentsReceived(s, rows, blank)
        PROVE  UNCHANGED <<beside, overPaid>>
    BY <2>3 DEF CreditsReceived, PaymentsReceived
  <2>4. UNCHANGED txnVars => UNCHANGED <<beside, overPaid>> BY DEF txnVars
  <2> QED BY <2>1, <2>2, <2>3, <2>4, TxnSteps
<1> QED BY <1>1, <1>2, <1>3

(* A run that is over takes no step.                                       *)
LEMMA OverIsOver ==
  ASSUME NEW t \in Syncs, tpc[t] = "ok"
  PROVE  ~Sync(t)
  BY DEF Sync, SyncBegins, SyncFails, SyncStep, SyncOpens, SyncReads, SyncReadsEnd, StreamPoint, TxnBegins,
     TxnFails, Open, CreditsReceived, PaymentsReceived, TxnStep, DeletePayments, FindCredits, DeleteCredits,
     InsertCredit, CreditsFlushed, InsertPayment, PaymentsFlushed, TxnCommits, At, Kinds

LEMMA CommitInduction ==
  ASSUME FilesOK, KeyInv, SoleInv, \A t \in Syncs : WrittenInv(t), CommitInv, [Next]_dataVars
  PROVE  CommitInv'
<1>0. TxnShape BY DEF KeyInv
<1>1. ASSUME NEW s \in Syncs, TxnCommits(s), Watched(s)
      PROVE  /\ Slice' = Stands(Credits(s), Payments(s))
             /\ \A i \in Named(Credits(s)) : \E c \in cred' : c.account = Credits(s)[i].account
  BY <1>1, CommitIsExported
<1>2. ASSUME NEW s \in Syncs, TxnCommits(s), UNCHANGED <<got>> PROVE CommitInv'
  <2>1. last' = {s} /\ tpc'[s] = "ok" /\ UNCHANGED <<beside, overPaid>>
    BY <1>0, <1>2 DEF TxnCommits, At, TxnShape
  <2>2. Watched(s)' = Watched(s) BY <2>1 DEF Watched, Pair
  <2>3. UNCHANGED <<Credits(s), Payments(s)>> BY <1>2 DEF Credits, Payments, Received
  <2>4. Exported(s)' = Stands(Credits(s), Payments(s))
    <3>1. Exported(s)' = Exported(s) BY <1>2 DEF Exported, Received
    <3> QED BY <3>1, ExportedStands
  <2>5. Named(Credits(s))' = Named(Credits(s)) BY <2>3 DEF Named
  <2> QED BY <1>1, <1>2, <2>1, <2>2, <2>3, <2>4, <2>5 DEF CommitInv
<1>3. ASSUME UNCHANGED <<cred, pay, last>> PROVE CommitInv'
  <2> SUFFICES ASSUME NEW t \in last
               PROVE  /\ tpc'[t] = "ok"
                      /\ Watched(t)' => /\ Slice' = Exported(t)'
                                        /\ \A i \in Named(Credits(t))' : \E c \in cred' : c.account = Credits(t)'[i].account
    BY <1>3 DEF CommitInv
  <2>1. t \in Syncs /\ tpc[t] = "ok" BY DEF CommitInv
  <2>2. tpc'[t] = tpc[t] /\ got'[t] = got[t] BY <1>0, <2>1, OwnSteps, OverIsOver
  <2>3. Watched(t)' => Watched(t) BY <1>0, <2>1, CompanyStays
  <2>4. Slice' = Slice BY <1>3 DEF Slice
  <2>5. Exported(t)' = Exported(t) BY <2>2 DEF Exported, Received
  <2>6. UNCHANGED Credits(t) BY <2>2 DEF Credits, Received
  <2>7. Named(Credits(t))' = Named(Credits(t)) BY <2>6 DEF Named
  <2> QED BY <1>3, <2>1, <2>2, <2>3, <2>4, <2>5, <2>6, <2>7 DEF CommitInv
<1>4. UNCHANGED <<cred, pay, last>> \/ \E s \in Syncs : TxnCommits(s)
  <2>1. CASE UNCHANGED txnVars BY <2>1 DEF txnVars
  <2>2. ASSUME NEW s \in Syncs,
               \/ TxnBegins(s) \/ TxnStep(s) \/ TxnFails(s)
               \/ \E rows, blank : CreditsReceived(s, rows, blank) \/ PaymentsReceived(s, rows, blank)
        PROVE  TxnCommits(s) \/ UNCHANGED <<cred, pay, last>>
    BY <2>2 DEF TxnBegins, TxnStep, TxnFails, CreditsReceived, PaymentsReceived, DeletePayments,
       FindCredits, DeleteCredits, InsertCredit, CreditsFlushed, InsertPayment, PaymentsFlushed
  <2> QED BY <2>1, <2>2, TxnSteps
<1>5. ASSUME NEW s \in Syncs, TxnCommits(s) PROVE UNCHANGED got
  <2>1. tpc[s] = "commit" /\ tpc'[s] = "ok" BY <1>0, <1>5 DEF TxnCommits, At, TxnShape
  <2>2. Sync(s) BY <1>0, <2>1, OwnSteps
  <2> QED BY <2>1, <2>2 DEF Sync, SyncBegins, TxnBegins, SyncFails, SyncStep, SyncOpens, SyncReads, SyncReadsEnd,
         StreamPoint, CreditsReceived, PaymentsReceived, At, Kinds, bankVars, readerVars
<1> QED BY <1>2, <1>3, <1>4, <1>5

(* The invariant behind what a commit leaves, and its parts together.      *)
LEMMA SliceInitial == Init => BankInv /\ SliceInv
<1> SUFFICES ASSUME Init PROVE BankInv /\ SliceInv
  OBVIOUS
<1>1. BankInv /\ KeyInv BY BankInitial, KeyInitial DEF Init
<1>2. /\ tpc = [t \in Syncs |-> "idle"] /\ beside = [t \in Syncs |-> {}]
      /\ added = [t \in Syncs |-> {}] /\ last = {} /\ overPaid = {}
  BY DEF Init, TxnInit
<1>3. rpc = [r \in Readers |-> "idle"] BY DEF Init, BankInit
<1>4. ASSUME NEW t \in Syncs PROVE LinkInv(t) /\ WrittenInv(t)
  <2>1. t \in Readers BY ExporterAssumption DEF Readers
  <2> QED BY <1>2, <1>3, <2>1 DEF LinkInv, WrittenInv
<1>5. Open = {} BY <1>2 DEF Open
<1>6. SoleInv BY <1>2, <1>5 DEF SoleInv, BesideInv, AloneInv, PairInv
<1> QED BY <1>1, <1>2, <1>4, <1>6 DEF SliceInv, CommitInv

LEMMA SliceInduction == BankInv /\ SliceInv /\ [Next]_dataVars => SliceInv'
<1> SUFFICES ASSUME BankInv, SliceInv, [Next]_dataVars PROVE SliceInv'
  OBVIOUS
<1>1. /\ FilesOK /\ KeyInv /\ TxnShape /\ SoleInv /\ CommitInv
      /\ \A t \in Syncs : LinkInv(t) /\ WrittenInv(t) /\ ReaderInv(t)
  BY ExporterAssumption DEF BankInv, SliceInv, KeyInv, Readers
<1>2. KeyInv' BY <1>1, KeyInduction
<1>3. \A t \in Syncs : LinkInv(t)' /\ WrittenInv(t)' BY <1>1, LinkInduction, WrittenInduction
<1>4. SoleInv' BY <1>1, SoleInduction
<1>5. CommitInv' BY <1>1, CommitInduction
<1> QED BY <1>2, <1>3, <1>4, <1>5 DEF SliceInv

LEMMA SliceAlways == Spec => [](BankInv /\ SliceInv)
  BY SliceInitial, BankInduction, SliceInduction, PTL DEF Spec

(* A sync whose transaction was alone leaves exactly the rows its exports  *)
(* stand for (db.rs:117-157, 434-442).                                     *)
THEOREM AloneSyncIsExact == Spec => []AloneSyncExact
<1>1. SliceInv => AloneSyncExact BY DEF SliceInv, CommitInv, Watched, AloneSyncExact
<1> QED BY <1>1, SliceAlways, PTL

(* So does the one that commits last of two that overlapped only each      *)
(* other and both began over a slice with payments (db.rs:117-157).        *)
THEOREM PairedSyncIsExact == Spec => []PairedSyncExact
<1>1. SliceInv => PairedSyncExact
  <2> SUFFICES ASSUME SliceInv, NEW t \in last, NEW o \in Syncs,
                      beside[t] = {o}, beside[o] = {t}, {t, o} \subseteq overPaid
               PROVE  Slice = Exported(t)
    BY DEF PairedSyncExact
  <2>1. t \in Syncs BY DEF SliceInv, CommitInv
  <2>2. t # o BY <2>1 DEF SliceInv, SoleInv, BesideInv
  <2> QED BY <2>2 DEF SliceInv, CommitInv, Watched, Pair
<1> QED BY <1>1, SliceAlways, PTL

(* If no upload ran while it read its exports, the slice is that upload:   *)
(* every account of it, with a row of it, and the payments of those        *)
(* accounts (bank/views.py:92-169, pipeline.rs:234-390).                   *)
THEOREM QuietSyncsAreOneUpload == Spec => []QuietSyncIsOneUpload
<1>1. BankInv /\ SliceInv => QuietSyncIsOneUpload
  <2> SUFFICES ASSUME BankInv, SliceInv, NEW t \in last, beside[t] = {}, base[t] # NoUpload
               PROVE  LET upload == Content[base[t]]
                          accounts == {upload["credits"][i].account : i \in DOMAIN upload["credits"]}
                      IN  /\ Slice.credits \subseteq Range(upload["credits"])
                          /\ {c.account : c \in Slice.credits} = accounts
                          /\ Slice.payments = {p \in Range(upload["payments"]) : p.account \in accounts}
    BY DEF QuietSyncIsOneUpload
  <2> DEFINE credits == Content[base[t]]["credits"]
             payments == Content[base[t]]["payments"]
             accounts == {credits[i].account : i \in DOMAIN credits}
  <2>1. /\ t \in Syncs /\ tpc[t] = "ok" /\ Slice = Exported(t)
        /\ \A i \in Named(Credits(t)) : \E c \in cred : c.account = Credits(t)[i].account
    BY DEF SliceInv, CommitInv, Watched
  <2>2. t \in Readers /\ base[t] \in Uploads /\ rpc[t] = "done" /\ DOMAIN got[t] = Kinds
    BY <2>1, ExporterAssumption DEF Readers, BankInv, FilesOK, BankTypeOK, SliceInv, LinkInv
  <2>3. Credits(t) = credits /\ Payments(t) = payments
    BY <2>2 DEF BankInv, ReaderInv, Credits, Payments, Received, Kinds
  <2>4. /\ \A i \in DOMAIN credits : credits[i] # Hole
        /\ \A i \in DOMAIN payments : payments[i] # Hole
    <3>1. ASSUME NEW k \in Kinds PROVE \A i \in DOMAIN Content[base[t]][k] : Content[base[t]][k][i] # Hole
      <4>1. Content[base[t]][k] \in Seq(Pieces(k)) BY <2>2, ContentIsPieces
      <4>2. DOMAIN Content[base[t]][k] = 1..Len(Content[base[t]][k]) BY <4>1, LenProperties
      <4> QED BY <2>2, <4>2, ContentIsPieces
    <3> QED BY <3>1 DEF Kinds
  <2>5. Slice = Stands(credits, payments) BY <2>1, <2>3, ExportedStands
  <2> DEFINE lasts == {credits[i] : i \in {k \in Named(credits) :
                         \A j \in Named(credits) : credits[j].account = credits[k].account => j <= k}}
  <2>6. /\ Slice.credits = lasts
        /\ Slice.payments = {p \in Range(payments) : p # Hole /\ \E c \in lasts : c.account = p.account}
    BY <2>5 DEF Stands
  <2>7. lasts \subseteq Range(credits) BY DEF Named, Range
  <2>8. {c.account : c \in lasts} = accounts
    <3>1. \A c \in lasts : c.account \in accounts BY DEF Named
    <3>2. ASSUME NEW i \in DOMAIN credits PROVE \E c \in lasts : c.account = credits[i].account
      <4>1. i \in Named(Credits(t)) BY <2>3, <2>4 DEF Named
      <4>2. PICK c \in cred : c.account = credits[i].account BY <2>1, <2>3, <4>1
      <4> DEFINE bare == [account |-> c.account, num |-> c.num, chr |-> c.chr]
      <4>3. bare \in Slice.credits BY DEF Slice, Contents
      <4> QED BY <2>6, <4>2, <4>3
    <3> HIDE DEF lasts, credits
    <3> QED BY <3>1, <3>2
  <2>9. Slice.payments = {p \in Range(payments) : p.account \in accounts}
    <3>1. \A p \in Range(payments) : p # Hole BY <2>4 DEF Range
    <3>2. \A p : (\E c \in lasts : c.account = p.account) <=> p.account \in {c.account : c \in lasts}
      OBVIOUS
    <3> HIDE DEF lasts, accounts, payments
    <3> QED BY <2>6, <2>8, <3>1, <3>2
  <2> QED BY <2>6, <2>7, <2>8, <2>9
<1> QED BY <1>1, SliceAlways, PTL
=============================================================================

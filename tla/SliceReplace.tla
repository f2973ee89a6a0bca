----------------------------- MODULE SliceReplace -----------------------------
(***************************************************************************)
(* What a sync promises of one warehouse slice: while the bank's export is *)
(* read nothing changes, and the run ends either by replacing the whole    *)
(* slice with the normalised export in one step or by leaving it alone     *)
(* ("full-slice replace", Architecture.md).  A run whose COMMIT was not    *)
(* answered has replaced the slice, though it reports that it failed.      *)
(***************************************************************************)
EXTENDS Naturals, Sequences, SequencesExt

VARIABLES slice,   \* committed rows: credits by account, and payments
          got,     \* credit rows of the export read so far
          paid,    \* payment rows of the export read so far
          result   \* "running", then how the run ended

replaceVars == <<slice, got, paid, result>>

Replaced == {"ok", "unacked"}
Endings == {"failed", "cancelled", "raised"}

(* A field that does not parse is stored as null.                          *)
StoredField(field) == IF field = "bad" THEN "null" ELSE field

(* An installment number that does not parse is stored as 0.               *)
StoredNumber(number) == IF number = "x" THEN "0" ELSE number

(* The last row of an account.                                             *)
Latest(rows, account) ==
  rows[CHOOSE i \in DOMAIN rows : /\ rows[i].account = account
                                  /\ \A k \in DOMAIN rows : rows[k].account = account => k <= i]

(* The rows an accepted export stands for: the last row of every account,  *)
(* and the payments of the accounts the export names.                      *)
NormalCredits(rows) ==
  [a \in {rows[i].account : i \in DOMAIN rows} \ {"blank"} |-> StoredField(Latest(rows, a).field)]

NormalPayments(credits, rows) ==
  {<<rows[i].account, StoredNumber(rows[i].number)>> :
     i \in {k \in DOMAIN rows : rows[k].account \in DOMAIN credits}}

Normal ==
  [credits |-> NormalCredits(got), payments |-> NormalPayments(NormalCredits(got), paid)]

Init == result = "running" /\ got = <<>> /\ paid = <<>>

Receive ==
  /\ result = "running"
  /\ IsPrefix(got, got') /\ IsPrefix(paid, paid')
  /\ UNCHANGED <<slice, result>>

Replace ==
  /\ result = "running" /\ result' \in Replaced
  /\ slice' = Normal
  /\ UNCHANGED <<got, paid>>

GiveUp ==
  /\ result = "running" /\ result' \in Endings
  /\ IsPrefix(got, got') /\ IsPrefix(paid, paid')
  /\ UNCHANGED slice

Next == Receive \/ Replace \/ GiveUp

Spec == Init /\ [][Next]_replaceVars
=============================================================================

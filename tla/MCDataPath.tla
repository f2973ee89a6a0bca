------------------------------ MODULE MCDataPath ------------------------------
(* DataPath on small instances.                                            *)
EXTENDS DataPath

CONSTANTS u1, u2, t1, t2

SyncSymmetry == Permutations({t1, t2})

Credit(a, n, c) == [account |-> a, num |-> n, chr |-> c]
Payment(a, n) == [account |-> a, number |-> n]
Row(id, c) == [id |-> id, account |-> c.account, num |-> c.num, chr |-> c.chr]

(* One upload of two accounts whose numerical field is missing; a shorter  *)
(* one that brings an account twice.                                       *)
MCContent ==
  u1 :> [credits |-> <<Credit(1, Null, Blank), Credit(2, Null, 2)>>,
         payments |-> <<Payment(1, 1), Payment(2, 1)>>] @@
  u2 :> [credits |-> <<Credit(2, 2, 2), Credit(2, 3, 1)>>, payments |-> <<Payment(2, 1)>>]

(* What an earlier sync left: nothing, a credit without payments, or two   *)
(* credits with a payment.                                                 *)
MCOldSlices ==
  { [cred |-> {}, pay |-> {}, next |-> 2],
    [cred |-> {Row(0, Credit(3, 2, 1))}, pay |-> {}, next |-> 2],
    [cred |-> {Row(0, Credit(1, 1, 2)), Row(1, Credit(3, 2, Blank))},
     pay |-> {[credit |-> 0, number |-> 1]}, next |-> 2] }

MCAsks == {<<0, 1>>, <<2, 5>>, <<9, 1>>}
=============================================================================

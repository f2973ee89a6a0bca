---------------------------- MODULE PipelineProofs ----------------------------
(***************************************************************************)
(* Proofs about SnapshotPipeline, for any accounts, batch and chunk sizes: *)
(* what a flush does to the tables (CreditsAreFlushed, PaymentsAreFlushed),*)
(* that the tables and the rows still pending always stand for the export  *)
(* read so far (CreditsInv, PaymentsInv), and hence that the run           *)
(* implements SliceReplace.                                                *)
(***************************************************************************)
EXTENDS SnapshotPipeline, SequenceTheorems, FiniteSetTheorems, TLAPS

-----------------------------------------------------------------------------
(* Finite sets of numbers: their order, their least and their greatest.    *)

UpTo(S, x) == {k \in S : k <= x}

(* The elements of a finite set of numbers have the ranks 1 to n.          *)
LEMMA RanksAreExact ==
  ASSUME NEW S, IsFiniteSet(S), S \subseteq Nat
  PROVE  /\ Cardinality(S) \in Nat
         /\ \A x \in S : Cardinality(UpTo(S, x)) \in 1..Cardinality(S)
         /\ \A x, y \in S : x < y => Cardinality(UpTo(S, x)) < Cardinality(UpTo(S, y))
         /\ \A x, y \in S : Cardinality(UpTo(S, x)) = Cardinality(UpTo(S, y)) => x = y
         /\ \A i \in 1..Cardinality(S) : \E x \in S : Cardinality(UpTo(S, x)) = i
<1> DEFINE n == Cardinality(S)
           rank(x) == Cardinality(UpTo(S, x))
           place == [x \in S |-> rank(x)]
<1>1. n \in Nat BY FS_CardinalityType
<1>2. \A x \in S : IsFiniteSet(UpTo(S, x)) /\ rank(x) \in 1..n
  <2> SUFFICES ASSUME NEW x \in S PROVE IsFiniteSet(UpTo(S, x)) /\ rank(x) \in 1..n
    OBVIOUS
  <2>1. UpTo(S, x) \in SUBSET S /\ x \in UpTo(S, x) BY DEF UpTo
  <2>2. IsFiniteSet(UpTo(S, x)) /\ rank(x) <= n BY <2>1, FS_Subset
  <2>3. rank(x) \in Nat /\ rank(x) # 0 BY <2>1, <2>2, FS_CardinalityType, FS_EmptySet
  <2> QED BY <1>1, <2>2, <2>3
<1>3. \A x, y \in S : x < y => rank(x) < rank(y)
  <2> SUFFICES ASSUME NEW x \in S, NEW y \in S, x < y PROVE rank(x) < rank(y)
    OBVIOUS
  <2>0. x \in Nat /\ y \in Nat
    OBVIOUS
  <2>1. UpTo(S, x) \in SUBSET UpTo(S, y) /\ y \in UpTo(S, y) /\ y \notin UpTo(S, x)
    <3>1. \A k \in UpTo(S, x) : k \in S /\ k \in Nat /\ k <= x BY DEF UpTo
    <3>2. \A k \in UpTo(S, x) : k \in UpTo(S, y) BY <2>0, <3>1 DEF UpTo
    <3>3. y \in UpTo(S, y) /\ y \notin UpTo(S, x) BY <2>0 DEF UpTo
    <3> QED BY <3>2, <3>3
  <2>2. rank(x) <= rank(y) /\ (rank(y) = rank(x) => UpTo(S, y) = UpTo(S, x))
    BY <1>2, <2>1, FS_Subset
  <2>3. rank(x) \in Nat /\ rank(y) \in Nat BY <1>1, <1>2
  <2> HIDE DEF rank
  <2> QED BY <2>1, <2>2, <2>3
<1>4. \A x, y \in S : rank(x) = rank(y) => x = y
  <2> SUFFICES ASSUME NEW x \in S, NEW y \in S, rank(x) = rank(y) PROVE x = y
    OBVIOUS
  <2>1. rank(x) \in Nat /\ rank(y) \in Nat BY <1>1, <1>2
  <2> HIDE DEF rank
  <2>2. ~(x < y) /\ ~(y < x) BY <1>3, <2>1
  <2> QED BY <2>2
<1>5. place \in Injection(S, 1..n)
  <2>1. place \in [S -> 1..n] BY <1>2
  <2>2. \A x, y \in S : place[x] = place[y] => x = y BY <1>4
  <2> HIDE DEF place
  <2> QED BY <2>1, <2>2 DEF Injection, IsInjective
<1>6. IsFiniteSet(1..n) /\ Cardinality(1..n) = n BY <1>1, FS_Interval
<1>7. place \in Surjection(S, 1..n)
  <2> HIDE DEF place
  <2> QED BY <1>5, <1>6, FS_Injection
<1>8. \A i \in 1..n : \E x \in S : rank(x) = i BY <1>7 DEF Surjection
<1> QED BY <1>1, <1>2, <1>3, <1>4, <1>8

(* A finite set of numbers that is not empty has a least and a greatest.   *)
LEMMA EndsExist ==
  ASSUME NEW S, IsFiniteSet(S), S \subseteq Nat, S # {}
  PROVE  /\ Max(S) \in S /\ \A y \in S : y <= Max(S)
         /\ Min(S) \in S /\ \A y \in S : Min(S) <= y
<1> DEFINE n == Cardinality(S)
           rank(x) == Cardinality(UpTo(S, x))
<1>1. /\ n \in Nat /\ \A x \in S : rank(x) \in 1..n
      /\ \A x, y \in S : x < y => rank(x) < rank(y)
      /\ \A i \in 1..n : \E x \in S : rank(x) = i
  BY RanksAreExact
<1> HIDE DEF rank, n
<1>2. n > 0
  <2>1. PICK x \in S : TRUE OBVIOUS
  <2>2. rank(x) \in 1..n BY <1>1
  <2> QED BY <1>1, <2>2
<1>3. \E x \in S : \A y \in S : x >= y
  <2>1. PICK x \in S : rank(x) = n BY <1>1, <1>2
  <2>2. \A y \in S : ~(x < y) BY <1>1, <2>1
  <2> QED BY <2>2
<1>4. \E x \in S : \A y \in S : x <= y
  <2>1. PICK x \in S : rank(x) = 1 BY <1>1, <1>2
  <2>2. \A y \in S : ~(y < x) BY <1>1, <2>1
  <2> QED BY <2>2
<1>5. Max(S) \in S /\ \A y \in S : Max(S) >= y BY <1>3 DEF Max
<1>6. Min(S) \in S /\ \A y \in S : Min(S) <= y BY <1>4 DEF Min
<1> HIDE DEF Max, Min
<1> QED BY <1>5, <1>6

(* The only element is both.                                               *)
LEMMA OneIsBoth ==
  ASSUME NEW x \in Nat
  PROVE  Max({x}) = x /\ Min({x}) = x
<1>1. \A y \in {x} : x >= y /\ x <= y OBVIOUS
<1>2. Max({x}) \in {x} BY <1>1 DEF Max
<1>3. Min({x}) \in {x} BY <1>1 DEF Min
<1> QED BY <1>2, <1>3

-----------------------------------------------------------------------------
(* The rows of a batch.                                                    *)

(* An account that comes has a first and a last row.                       *)
LEMMA RowsHaveEnds ==
  ASSUME NEW T, NEW rows \in Seq(T), NEW a \in AccountsOf(rows)
  PROVE  LET S == Places(rows, a)
         IN  /\ S \subseteq 1..Len(rows) /\ Min(S) \in S /\ Max(S) \in S
             /\ \A i \in S : Min(S) <= i /\ i <= Max(S)
             /\ LastRow(rows, a) \in T /\ LastRow(rows, a).account = a
<1> DEFINE S == Places(rows, a)
<1>1. Len(rows) \in Nat /\ DOMAIN rows = 1..Len(rows) /\ \A i \in 1..Len(rows) : rows[i] \in T
  BY LenProperties, ElementOfSeq
<1>2. S \in SUBSET (1..Len(rows)) /\ S \subseteq Nat /\ \A i \in S : rows[i].account = a
  BY <1>1 DEF Places
<1>3. S # {} BY DEF Places, AccountsOf
<1>4. IsFiniteSet(1..Len(rows)) BY <1>1, FS_Interval
<1>5. IsFiniteSet(S) BY <1>2, <1>4, FS_Subset
<1> HIDE DEF S
<1>6. Max(S) \in S /\ Min(S) \in S /\ \A i \in S : Min(S) <= i /\ i <= Max(S)
  BY <1>2, <1>3, <1>5, EndsExist
<1>7. LastRow(rows, a) = rows[Max(S)] BY DEF LastRow, S
<1>8. LastRow(rows, a) \in T /\ LastRow(rows, a).account = a BY <1>1, <1>2, <1>6, <1>7
<1> QED BY <1>2, <1>6, <1>8 DEF S

(* Every account comes first at one place.                                 *)
LEMMA FirstsAreOne ==
  ASSUME NEW T, NEW rows \in Seq(T)
  PROVE  /\ Firsts(rows) \subseteq 1..Len(rows) /\ IsFiniteSet(Firsts(rows))
         /\ \A a \in AccountsOf(rows) : \E i \in Firsts(rows) : rows[i].account = a
         /\ \A i, j \in Firsts(rows) : rows[i].account = rows[j].account => i = j
<1>1. Len(rows) \in Nat /\ DOMAIN rows = 1..Len(rows)
  BY LenProperties
<1>2. Firsts(rows) \in SUBSET (1..Len(rows)) BY <1>1 DEF Firsts
<1>3. IsFiniteSet(1..Len(rows)) BY <1>1, FS_Interval
<1>4. IsFiniteSet(Firsts(rows)) BY <1>2, <1>3, FS_Subset
<1>5. ASSUME NEW a \in AccountsOf(rows) PROVE \E i \in Firsts(rows) : rows[i].account = a
  <2> DEFINE i == Min(Places(rows, a))
  <2>1. i \in Places(rows, a) BY RowsHaveEnds
  <2>2. i \in DOMAIN rows /\ rows[i].account = a BY <2>1 DEF Places
  <2>3. i = Min(Places(rows, rows[i].account)) BY <2>2
  <2>4. i \in Firsts(rows) BY <2>2, <2>3 DEF Firsts
  <2> QED BY <2>2, <2>4
<1>6. \A i, j \in Firsts(rows) : rows[i].account = rows[j].account => i = j BY DEF Firsts
<1> QED BY <1>2, <1>4, <1>5, <1>6

(* A flush sends each account once, with its last row.                     *)
LEMMA DedupeIsExact ==
  ASSUME NEW T, NEW rows \in Seq(T)
  PROVE  LET sent == Dedupe(rows)
         IN  /\ sent \in Seq(T) /\ AccountsOf(sent) = AccountsOf(rows)
             /\ \A i, j \in 1..Len(sent) : sent[i].account = sent[j].account => i = j
             /\ \A i \in 1..Len(sent) : sent[i] = LastRow(rows, sent[i].account)
<1> DEFINE F == Firsts(rows)
           n == Cardinality(F)
           sent == Dedupe(rows)
           at(k) == NthFirst(rows, k)
<1>1. /\ F \subseteq 1..Len(rows) /\ IsFiniteSet(F)
      /\ \A a \in AccountsOf(rows) : \E i \in F : rows[i].account = a
      /\ \A i, j \in F : rows[i].account = rows[j].account => i = j
  BY FirstsAreOne
<1>2. Len(rows) \in Nat /\ DOMAIN rows = 1..Len(rows) /\ F \subseteq Nat
  BY <1>1, LenProperties
<1>3. /\ n \in Nat
      /\ \A x \in F : Cardinality(UpTo(F, x)) \in 1..n
      /\ \A x, y \in F : Cardinality(UpTo(F, x)) = Cardinality(UpTo(F, y)) => x = y
      /\ \A i \in 1..n : \E x \in F : Cardinality(UpTo(F, x)) = i
  <2> HIDE DEF F
  <2> QED BY <1>1, <1>2, RanksAreExact
<1>4. \A k \in 1..n : at(k) \in F /\ Cardinality(UpTo(F, at(k))) = k
  <2> SUFFICES ASSUME NEW k \in 1..n PROVE at(k) \in F /\ Cardinality(UpTo(F, at(k))) = k
    OBVIOUS
  <2>1. \E x \in F : Cardinality(UpTo(F, x)) = k BY <1>3
  <2>2. at(k) = CHOOSE x \in F : Cardinality(UpTo(F, x)) = k BY DEF NthFirst, UpTo
  <2> HIDE DEF at, F
  <2> QED BY <2>1, <2>2
<1>5. \A k \in 1..n : rows[at(k)].account \in AccountsOf(rows)
  BY <1>1, <1>2, <1>4 DEF AccountsOf
<1>6. sent = [k \in 1..n |-> LastRow(rows, rows[at(k)].account)] BY DEF Dedupe
<1> HIDE DEF F, n, sent, at
<1>7. \A k \in 1..n : /\ sent[k] \in T /\ sent[k].account = rows[at(k)].account
                      /\ sent[k] = LastRow(rows, sent[k].account)
  BY <1>5, <1>6, RowsHaveEnds
<1>8. sent \in Seq(T) /\ Len(sent) = n /\ DOMAIN sent = 1..n
  <2>1. sent \in [1..n -> T] BY <1>6, <1>7
  <2>2. sent \in Seq(T) BY <1>3, <2>1, SeqDef
  <2> QED BY <1>3, <2>1, <2>2, LenProperties
<1>9. \A i, j \in 1..n : sent[i].account = sent[j].account => i = j
  <2> SUFFICES ASSUME NEW i \in 1..n, NEW j \in 1..n, sent[i].account = sent[j].account
               PROVE  i = j
    OBVIOUS
  <2>1. rows[at(i)].account = rows[at(j)].account BY <1>7
  <2>2. at(i) = at(j) BY <1>1, <1>4, <2>1
  <2> QED BY <1>4, <2>2
<1>10. \A a \in AccountsOf(rows) : \E k \in 1..n : sent[k].account = a
  <2> SUFFICES ASSUME NEW a \in AccountsOf(rows) PROVE \E k \in 1..n : sent[k].account = a
    OBVIOUS
  <2>1. PICK x \in F : rows[x].account = a BY <1>1
  <2> DEFINE k == Cardinality(UpTo(F, x))
  <2>2. k \in 1..n BY <1>3
  <2>3. at(k) = x BY <1>3, <1>4, <2>2
  <2> QED BY <1>7, <2>1, <2>2, <2>3
<1>11. AccountsOf(sent) = AccountsOf(rows)
  <2>1. \A a \in AccountsOf(sent) : a \in AccountsOf(rows)
    BY <1>5, <1>7, <1>8 DEF AccountsOf
  <2>2. \A a \in AccountsOf(rows) : a \in AccountsOf(sent)
    <3> SUFFICES ASSUME NEW a \in AccountsOf(rows) PROVE a \in AccountsOf(sent)
      OBVIOUS
    <3>1. PICK k \in 1..n : sent[k].account = a BY <1>10
    <3> QED BY <1>8, <3>1 DEF AccountsOf
  <2> QED BY <2>1, <2>2
<1> QED BY <1>7, <1>8, <1>9, <1>11 DEF sent

(* Among rows that name an account once, its one row is first and last.    *)
LEMMA OneRowIsBoth ==
  ASSUME NEW T, NEW sent \in Seq(T),
         \A i, j \in 1..Len(sent) : sent[i].account = sent[j].account => i = j,
         NEW a \in AccountsOf(sent)
  PROVE  \E i \in 1..Len(sent) :
           /\ sent[i].account = a /\ LastRow(sent, a) = sent[i] /\ Min(Places(sent, a)) = i
<1>1. DOMAIN sent = 1..Len(sent) /\ Len(sent) \in Nat BY LenProperties
<1>2. PICK i \in 1..Len(sent) : sent[i].account = a BY <1>1 DEF AccountsOf
<1>3. Places(sent, a) = {i} BY <1>1, <1>2 DEF Places
<1>4. i \in Nat BY <1>1
<1>5. Max({i}) = i /\ Min({i}) = i BY <1>4, OneIsBoth
<1> QED BY <1>2, <1>3, <1>5 DEF LastRow

-----------------------------------------------------------------------------
(* What a flush does to the tables.                                        *)

IsWriter(w) ==
  w = [credits |-> w.credits, payments |-> w.payments, idMap |-> w.idMap,
       lastId |-> w.lastId, ingested |-> w.ingested, ok |-> w.ok]

(* The id map holds the ids of the table, each of one account.             *)
Tabled(w) ==
  /\ w.lastId \in Nat /\ DOMAIN w.idMap = DOMAIN w.credits
  /\ \A a \in DOMAIN w.credits : w.idMap[a] = w.credits[a].id /\ w.idMap[a] \in 1..w.lastId
  /\ \A a, b \in DOMAIN w.credits : w.idMap[a] = w.idMap[b] => a = b

(* A flush of credits that succeeds puts the last row of every account     *)
(* into the table, and keeps the ids that are there.                       *)
LEMMA CreditsAreFlushed ==
  ASSUME NEW w, IsWriter(w), w.ok = TRUE, Tabled(w), NEW T, NEW rows \in Seq(T)
  PROVE  LET v == FlushCredits(w, rows)
         IN  /\ v.ok \in BOOLEAN /\ IsWriter(v)
             /\ v.ok => /\ Tabled(v)
                        /\ v.payments = w.payments /\ v.ingested = w.ingested
                        /\ DOMAIN v.credits = DOMAIN w.credits \cup AccountsOf(rows)
                        /\ \A a \in AccountsOf(rows) : v.credits[a].field = LastRow(rows, a).field
                        /\ \A a \in DOMAIN w.credits :
                             /\ v.idMap[a] = w.idMap[a]
                             /\ a \notin AccountsOf(rows) => v.credits[a] = w.credits[a]
<1> DEFINE v == FlushCredits(w, rows)
           sent == Dedupe(rows)
           n == Len(sent)
           A == AccountsOf(sent)
           table == InsertCredits(w, sent)
           map == [a \in DOMAIN w.idMap \cup A |-> IF a \in A THEN table[a].id ELSE w.idMap[a]]
           next == w.lastId + n
           good == \A chunk \in Range(Chunks(sent, CreditChunk)) : Insertable(chunk)
<1>1. /\ sent \in Seq(T) /\ A = AccountsOf(rows)
      /\ \A i, j \in 1..n : sent[i].account = sent[j].account => i = j
      /\ \A i \in 1..n : sent[i] = LastRow(rows, sent[i].account)
  BY DedupeIsExact
<1>2. n \in Nat /\ w.lastId \in Nat BY <1>1, LenProperties DEF Tabled
<1>3. v = IF w.ok /\ good
          THEN [w EXCEPT !.credits = table, !.lastId = next, !.idMap = map]
          ELSE [w EXCEPT !.ok = FALSE]
  BY DEF FlushCredits
<1>4. \A a \in A : \E i \in 1..n :
        sent[i].account = a /\ LastRow(sent, a) = LastRow(rows, a) /\ Min(Places(sent, a)) = i
  <2> SUFFICES ASSUME NEW a \in A
               PROVE  \E i \in 1..n : /\ sent[i].account = a /\ LastRow(sent, a) = LastRow(rows, a)
                                      /\ Min(Places(sent, a)) = i
    OBVIOUS
  <2> HIDE DEF sent
  <2>1. PICK i \in 1..n :
          sent[i].account = a /\ LastRow(sent, a) = sent[i] /\ Min(Places(sent, a)) = i
    BY <1>1, OneRowIsBoth
  <2> QED BY <1>1, <2>1
<1>5. /\ DOMAIN table = DOMAIN w.credits \cup A
      /\ \A a \in A : table[a] =
           [id |-> IF a \in DOMAIN w.credits THEN w.credits[a].id
                   ELSE w.lastId + Min(Places(sent, a)),
            field |-> LastRow(sent, a).field]
      /\ \A a \in DOMAIN w.credits \ A : table[a] = w.credits[a]
  BY DEF InsertCredits
<1> HIDE DEF good, v, sent, n, A, table
<1>6. CASE ~good
  <2>1. v = [w EXCEPT !.ok = FALSE] BY <1>3, <1>6
  <2>2. v = [credits |-> w.credits, payments |-> w.payments, idMap |-> w.idMap,
             lastId |-> w.lastId, ingested |-> w.ingested, ok |-> FALSE]
    BY <2>1 DEF IsWriter
  <2>3. v.ok = FALSE /\ IsWriter(v) BY <2>2 DEF IsWriter
  <2> QED BY <2>3 DEF v
<1>7. CASE good
  <2>1. v = [w EXCEPT !.credits = table, !.lastId = next, !.idMap = map] BY <1>3, <1>7
  <2> HIDE DEF map, next
  <2>2. v = [credits |-> table, payments |-> w.payments, idMap |-> map, lastId |-> next,
             ingested |-> w.ingested, ok |-> TRUE]
    BY <2>1 DEF IsWriter
  <2>3. IsWriter(v) BY <2>2 DEF IsWriter
  <2>4. DOMAIN map = DOMAIN w.credits \cup A BY DEF Tabled, map
  <2>5. \A a \in DOMAIN w.credits : map[a] = w.idMap[a] /\ table[a].id = w.idMap[a]
    BY <1>5 DEF Tabled, map
  <2>6. \A a \in A : table[a].field = LastRow(rows, a).field BY <1>4, <1>5
  <2>7. next \in Nat /\ next >= w.lastId BY <1>2 DEF next
  <2>8. ASSUME NEW a \in A, a \notin DOMAIN w.credits
        PROVE  /\ map[a] = table[a].id /\ map[a] = w.lastId + Min(Places(sent, a))
               /\ map[a] \in 1..next /\ ~(map[a] <= w.lastId)
    <3>1. PICK i \in 1..n : Min(Places(sent, a)) = i BY <1>4
    <3>2. map[a] = table[a].id /\ table[a].id = w.lastId + i
      BY <1>5, <2>8, <3>1 DEF map
    <3> QED BY <1>2, <3>1, <3>2 DEF next
  <2>9. ASSUME NEW a \in DOMAIN table
        PROVE  map[a] = table[a].id /\ map[a] \in 1..next /\ (map[a] <= w.lastId <=> a \in DOMAIN w.credits)
    <3>1. CASE a \in DOMAIN w.credits
      <4>1. w.idMap[a] \in 1..w.lastId BY <3>1 DEF Tabled
      <4> QED BY <1>2, <2>5, <2>7, <3>1, <4>1
    <3>2. CASE a \notin DOMAIN w.credits BY <1>5, <2>8, <2>9, <3>2
    <3> QED BY <3>1, <3>2
  <2>10. ASSUME NEW a \in DOMAIN table, NEW b \in DOMAIN table, map[a] = map[b] PROVE a = b
    <3>1. a \in DOMAIN w.credits <=> b \in DOMAIN w.credits BY <2>9, <2>10
    <3>2. CASE a \in DOMAIN w.credits
      <4>1. w.idMap[a] = w.idMap[b] BY <2>5, <2>10, <3>1, <3>2
      <4> QED BY <3>1, <3>2, <4>1 DEF Tabled
    <3>3. CASE a \notin DOMAIN w.credits
      <4>1. a \in A /\ b \in A BY <1>5, <3>1, <3>3
      <4>2. PICK i \in 1..n : sent[i].account = a /\ Min(Places(sent, a)) = i BY <1>4, <4>1
      <4>3. PICK j \in 1..n : sent[j].account = b /\ Min(Places(sent, b)) = j BY <1>4, <4>1
      <4>4. w.lastId + i = w.lastId + j BY <2>8, <2>10, <3>1, <3>3, <4>1, <4>2, <4>3
      <4> QED BY <1>2, <4>2, <4>3, <4>4
    <3> QED BY <3>2, <3>3
  <2>11. Tabled(v) BY <1>5, <2>2, <2>4, <2>7, <2>9, <2>10 DEF Tabled
  <2> QED BY <1>1, <1>5, <2>2, <2>3, <2>5, <2>6, <2>11 DEF v
<1> QED BY <1>6, <1>7

(* A flush of payments that succeeds adds a payment for each row, and      *)
(* counts them.                                                            *)
LEMMA PaymentsAreFlushed ==
  ASSUME NEW w, IsWriter(w), w.ok = TRUE, IsFiniteSet(w.payments),
         w.ingested = Cardinality(w.payments), NEW T, NEW rows \in Seq(T)
  PROVE  LET v == FlushPayments(w, rows)
         IN  /\ v.ok \in BOOLEAN /\ IsWriter(v)
             /\ v.ok => /\ Mapped(w, rows)
                        /\ v.credits = w.credits /\ v.idMap = w.idMap /\ v.lastId = w.lastId
                        /\ v.payments = w.payments \cup NewPayments(w, rows)
                        /\ IsFiniteSet(v.payments) /\ v.ingested = Cardinality(v.payments)
<1> DEFINE v == FlushPayments(w, rows)
           new == NewPayments(w, rows)
           good == Mapped(w, rows) /\ Unique(w, rows)
           payment(i) == [credit |-> w.idMap[rows[i].account], number |-> rows[i].number]
<1>1. Len(rows) \in Nat /\ DOMAIN rows = 1..Len(rows) BY LenProperties
<1>2. v = IF good
          THEN [w EXCEPT !.payments = w.payments \cup new, !.ingested = w.ingested + Len(rows)]
          ELSE [w EXCEPT !.ok = FALSE]
  BY DEF FlushPayments
<1>3. IsFiniteSet(new)
  <2> DEFINE f == [i \in 1..Len(rows) |-> payment(i)]
  <2>1. new = {payment(i) : i \in 1..Len(rows)} BY <1>1 DEF NewPayments
  <2>2. f \in [1..Len(rows) -> new] BY <2>1
  <2>3. \A p \in new : \E i \in 1..Len(rows) : f[i] = p BY <2>1
  <2> HIDE DEF f, new
  <2>4. f \in Surjection(1..Len(rows), new) BY <2>2, <2>3 DEF Surjection
  <2>5. IsFiniteSet(1..Len(rows)) BY <1>1, FS_Interval
  <2> QED BY <2>4, <2>5, FS_Surjection
<1>4. good => Cardinality(new) = Len(rows) /\ new \cap w.payments = {} BY DEF Unique
<1> HIDE DEF v, new
<1>5. CASE ~good
  <2>1. v = [w EXCEPT !.ok = FALSE] BY <1>2, <1>5
  <2>2. v = [credits |-> w.credits, payments |-> w.payments, idMap |-> w.idMap,
             lastId |-> w.lastId, ingested |-> w.ingested, ok |-> FALSE]
    BY <2>1 DEF IsWriter
  <2>3. v.ok = FALSE /\ IsWriter(v) BY <2>2 DEF IsWriter
  <2> QED BY <2>3 DEF v
<1>6. CASE good
  <2>1. v = [w EXCEPT !.payments = w.payments \cup new, !.ingested = w.ingested + Len(rows)]
    BY <1>2, <1>6
  <2>2. v = [credits |-> w.credits, payments |-> w.payments \cup new, idMap |-> w.idMap,
             lastId |-> w.lastId, ingested |-> w.ingested + Len(rows), ok |-> TRUE]
    BY <2>1 DEF IsWriter
  <2>3. IsWriter(v) BY <2>2 DEF IsWriter
  <2>4. /\ IsFiniteSet(w.payments \cup new)
        /\ Cardinality(w.payments \cup new) = w.ingested + Len(rows)
    <3>1. w.payments \cap new = {} BY <1>4, <1>6
    <3>2. Cardinality({}) = 0 BY FS_EmptySet
    <3>3. Cardinality(w.payments) \in Nat BY FS_CardinalityType
    <3>4. /\ IsFiniteSet(w.payments \cup new)
          /\ Cardinality(w.payments \cup new) =
               Cardinality(w.payments) + Cardinality(new) - Cardinality(w.payments \cap new)
      BY <1>3, FS_Union
    <3>5. Cardinality(w.payments \cap new) = 0 BY <3>1, <3>2
    <3>6. w.ingested \in Nat /\ Cardinality(new) = Len(rows) BY <1>4, <1>6, <3>3
    <3>7. Cardinality(w.payments \cup new) = w.ingested + Len(rows) - 0 BY <3>4, <3>5, <3>6
    <3> QED BY <1>1, <3>4, <3>6, <3>7
  <2> QED BY <1>6, <2>2, <2>3, <2>4 DEF v, new
<1> QED BY <1>5, <1>6

-----------------------------------------------------------------------------
(* Sequences that grow.                                                    *)

(* A row more: its account is there, and the row is the account's last.    *)
LEMMA OneRowMore ==
  ASSUME NEW T, NEW rows \in Seq(T), NEW e \in T
  PROVE  LET more == Append(rows, e)
         IN  /\ more \in Seq(T) /\ Len(more) = Len(rows) + 1 /\ IsPrefix(rows, more)
             /\ DOMAIN rows = 1..Len(rows) /\ DOMAIN more = 1..(Len(rows) + 1)
             /\ \A i \in 1..Len(rows) : more[i] = rows[i]
             /\ more[Len(rows) + 1] = e
             /\ AccountsOf(more) = AccountsOf(rows) \cup {e.account}
             /\ LastRow(more, e.account) = e
             /\ \A a \in AccountsOf(rows) \ {e.account} : LastRow(more, a) = LastRow(rows, a)
<1> DEFINE more == Append(rows, e)
           n == Len(rows)
<1>1. /\ more \in Seq(T) /\ Len(more) = n + 1
      /\ \A i \in 1..n : more[i] = rows[i]
      /\ more[n + 1] = e
  BY AppendProperties
<1>2. n \in Nat /\ DOMAIN rows = 1..n /\ DOMAIN more = 1..(n + 1)
  BY <1>1, LenProperties
<1> HIDE DEF more, n
<1>3. IsPrefix(rows, more)
  <2>1. \A i \in 1..n : rows[i] \in T /\ more[i] \in T BY <1>1, <1>2, ElementOfSeq DEF n
  <2>2. /\ SubSeq(rows, 1, n) \in Seq(T) /\ SubSeq(more, 1, n) \in Seq(T)
        /\ Len(SubSeq(rows, 1, n)) = IF 1 <= n THEN n - 1 + 1 ELSE 0
        /\ Len(SubSeq(more, 1, n)) = IF 1 <= n THEN n - 1 + 1 ELSE 0
        /\ \A i \in 1..(n - 1 + 1) : SubSeq(rows, 1, n)[i] = rows[1 + i - 1]
        /\ \A i \in 1..(n - 1 + 1) : SubSeq(more, 1, n)[i] = more[1 + i - 1]
    <3>1. n \in Int /\ 1 \in Int BY <1>2
    <3> QED BY <1>1, <2>1, <3>1, SubSeqProperties
  <2>3. \A i \in 1..n : i \in 1..(n - 1 + 1) /\ 1 + i - 1 = i BY <1>2
  <2>4. Len(SubSeq(rows, 1, n)) = n /\ Len(SubSeq(more, 1, n)) = n BY <1>2, <2>2
  <2>5. \A i \in 1..n : SubSeq(rows, 1, n)[i] = SubSeq(more, 1, n)[i] BY <1>1, <2>2, <2>3
  <2>6. SubSeq(rows, 1, n) = SubSeq(more, 1, n) BY <2>2, <2>4, <2>5, SeqEqual
  <2> QED BY <1>1, <1>2, <2>6 DEF IsPrefix, n
<1>4. AccountsOf(more) = AccountsOf(rows) \cup {e.account}
  <2>1. AccountsOf(more) = {more[i].account : i \in 1..(n + 1)} BY <1>2 DEF AccountsOf
  <2>2. AccountsOf(rows) = {rows[i].account : i \in 1..n} BY <1>2 DEF AccountsOf
  <2>3. \A i \in 1..(n + 1) : i \in 1..n \/ i = n + 1 BY <1>2
  <2>4. 1..n \subseteq 1..(n + 1) /\ n + 1 \in 1..(n + 1) BY <1>2
  <2>5. \A a \in AccountsOf(more) : a \in AccountsOf(rows) \cup {e.account}
    BY <1>1, <2>1, <2>2, <2>3
  <2>6. \A a \in AccountsOf(rows) \cup {e.account} : a \in AccountsOf(more)
    BY <1>1, <2>1, <2>2, <2>4
  <2> QED BY <2>5, <2>6
<1>5. LastRow(more, e.account) = e
  <2> DEFINE S == Places(more, e.account)
  <2>1. n + 1 \in S BY <1>1, <1>2 DEF Places
  <2>2. e.account \in AccountsOf(more) BY <1>4
  <2>3. Max(S) \in 1..(n + 1) /\ n + 1 <= Max(S) BY <1>1, <2>1, <2>2, RowsHaveEnds
  <2>4. Max(S) = n + 1 BY <1>2, <2>3
  <2> QED BY <1>1, <2>4 DEF LastRow
<1>6. ASSUME NEW a \in AccountsOf(rows) \ {e.account} PROVE LastRow(more, a) = LastRow(rows, a)
  <2>1. Places(more, a) = Places(rows, a)
    <3>1. \A i \in Places(more, a) : i \in Places(rows, a)
      <4>1. \A i \in 1..(n + 1) : i \in 1..n \/ i = n + 1 BY <1>2
      <4> QED BY <1>1, <1>2, <1>6, <4>1 DEF Places
    <3>2. \A i \in Places(rows, a) : i \in Places(more, a)
      <4>1. 1..n \subseteq 1..(n + 1) BY <1>2
      <4> QED BY <1>1, <1>2, <4>1 DEF Places
    <3> QED BY <3>1, <3>2
  <2>2. Max(Places(rows, a)) \in 1..n BY RowsHaveEnds DEF n
  <2> QED BY <1>1, <2>1, <2>2 DEF LastRow
<1> QED BY <1>1, <1>2, <1>3, <1>4, <1>5, <1>6 DEF more, n

(* No rows, no accounts.                                                   *)
LEMMA NoRows == AccountsOf(<<>>) = {} /\ Len(<<>>) = 0 /\ \A T : <<>> \in Seq(T)
<1>1. DOMAIN <<>> = {}
  OBVIOUS
<1> QED BY <1>1, EmptySeq DEF AccountsOf

(* The last row, as SliceReplace says it.                                  *)
LEMMA LastIsLatest ==
  ASSUME NEW T, NEW rows \in Seq(T), NEW a \in AccountsOf(rows)
  PROVE  Reference!Latest(rows, a) = LastRow(rows, a)
<1> DEFINE m == Max(Places(rows, a))
           IsLast(i) == rows[i].account = a /\ \A k \in DOMAIN rows : rows[k].account = a => k <= i
<1>1. /\ Places(rows, a) \subseteq 1..Len(rows) /\ m \in Places(rows, a)
      /\ \A i \in Places(rows, a) : i <= m
  BY RowsHaveEnds
<1>2. DOMAIN rows = 1..Len(rows) /\ Len(rows) \in Nat BY LenProperties
<1> HIDE DEF m
<1>3. m \in DOMAIN rows /\ IsLast(m) BY <1>1 DEF Places
<1>4. ASSUME NEW i \in DOMAIN rows, IsLast(i) PROVE i = m
  <2>1. i <= m /\ m <= i BY <1>3, <1>4
  <2> QED BY <1>2, <1>3, <2>1
<1> DEFINE c == CHOOSE i \in DOMAIN rows : IsLast(i)
<1>5. c \in DOMAIN rows /\ IsLast(c) BY <1>3
<1>6. Reference!Latest(rows, a) = rows[c] BY DEF Reference!Latest
<1> HIDE DEF c
<1>7. c = m BY <1>4, <1>5
<1> QED BY <1>6, <1>7 DEF LastRow, m

-----------------------------------------------------------------------------
(* The tables, the rows still pending and the export read so far.          *)

StoredNumbers == {ParseNumber(m) : m \in Numbers}
StoredCredits == [account : Accounts, field : {ParseField(f) : f \in Fields}]
StoredPayments == [account : Accounts, number : StoredNumbers]

(* What the table would hold of an account if the rows were flushed now.   *)
Standing(table, rows, a) ==
  IF a \in AccountsOf(rows) THEN LastRow(rows, a).field ELSE table[a].field

(* Writer w and its pending rows stand for the credit rows received.       *)
Stands(w, rows, received, accounts) ==
  /\ Tabled(w)
  /\ accounts = AccountsOf(received) \ {"blank"}
  /\ accounts = DOMAIN w.credits \cup AccountsOf(rows)
  /\ \A a \in accounts :
       Standing(w.credits, rows, a) = ParseField(Reference!Latest(received, a).field)

CreditsInv ==
  IF pc = "ended" THEN idMap = <<>>
  ELSE /\ Stands(Writer, batch, got, known)
       /\ pc \in {"payments", "commit"} => batch = <<>>
       /\ pc \in {"begin", "credits"} => paid = <<>> /\ payments = {} /\ pbatch = <<>> /\ ingested = 0

(* A payment is in the table or pending.                                   *)
Held(w, rows, a, n) ==
  \/ [credit |-> w.idMap[a], number |-> n] \in w.payments
  \/ \E i \in DOMAIN rows : rows[i] = [account |-> a, number |-> n]

(* Writer w and its pending rows stand for the payment rows received; the  *)
(* rows left out are in the log.                                           *)
Pays(w, rows, received, accounts, log) ==
  /\ IsFiniteSet(w.payments) /\ w.ingested = Cardinality(w.payments)
  /\ \A p \in w.payments : \E a \in accounts, n \in StoredNumbers :
       p = [credit |-> w.idMap[a], number |-> n]
  /\ \A i \in DOMAIN rows : rows[i].account \in accounts
  /\ \A i \in DOMAIN received :
       IF received[i].account \in accounts
       THEN Held(w, rows, received[i].account, ParseNumber(received[i].number))
       ELSE [phase |-> "payments", row |-> i] \in log
  /\ \A a \in accounts, n \in StoredNumbers : Held(w, rows, a, n) =>
       \E i \in DOMAIN received : received[i].account = a /\ ParseNumber(received[i].number) = n

PaymentsInv == pc \in {"payments", "commit"} =>
  creditCount = Cardinality(known) /\ Pays(Writer, pbatch, paid, known, errors)

DoneInv == result \in Reference!Replaced =>
  /\ slice = Reference!Normal
  /\ creditCount = Cardinality(DOMAIN slice.credits)
  /\ result = "ok" => ingested = Cardinality(slice.payments)
  /\ \A i \in DOMAIN paid :
       paid[i].account \in DOMAIN slice.credits \/ [phase |-> "payments", row |-> i] \in errors

PipeType ==
  /\ TypeOK
  /\ got \in Seq(CreditRows) /\ paid \in Seq(PaymentRows)
  /\ batch \in Seq(StoredCredits) /\ pbatch \in Seq(StoredPayments)

PipeInv == PipeType /\ CreditsInv /\ PaymentsInv /\ DoneInv

(* A flush of credits changes nothing of what they stand for.              *)
LEMMA FlushStands ==
  ASSUME NEW w, IsWriter(w), w.ok = TRUE, NEW T, NEW rows \in Seq(T), NEW received, NEW accounts,
         Stands(w, rows, received, accounts), FlushCredits(w, rows).ok
  PROVE  Stands(FlushCredits(w, rows), <<>>, received, accounts)
<1> DEFINE v == FlushCredits(w, rows)
<1>1. Tabled(w) /\ accounts = DOMAIN w.credits \cup AccountsOf(rows) BY DEF Stands
<1>2. /\ Tabled(v) /\ DOMAIN v.credits = DOMAIN w.credits \cup AccountsOf(rows)
      /\ \A a \in AccountsOf(rows) : v.credits[a].field = LastRow(rows, a).field
      /\ \A a \in DOMAIN w.credits : a \notin AccountsOf(rows) => v.credits[a] = w.credits[a]
  BY <1>1, CreditsAreFlushed
<1> HIDE DEF v
<1>3. AccountsOf(<<>>) = {} BY NoRows
<1>4. \A a \in accounts : Standing(v.credits, <<>>, a) = Standing(w.credits, rows, a)
  BY <1>1, <1>2, <1>3 DEF Standing
<1>5. accounts = DOMAIN v.credits \cup AccountsOf(<<>>) BY <1>1, <1>2, <1>3
<1>6. Stands(v, <<>>, received, accounts) BY <1>2, <1>4, <1>5 DEF Stands
<1> QED BY <1>6 DEF v

(* A credit row received, and pending if it is accepted.                   *)
LEMMA RowStands ==
  ASSUME NEW w, NEW rows \in Seq(StoredCredits), NEW received \in Seq(CreditRows), NEW accounts,
         Stands(w, rows, received, accounts), NEW row \in CreditRows
  PROVE  LET stored == [row EXCEPT !.field = ParseField(@)]
             next == IF CreditAccepted(row) THEN Append(rows, stored) ELSE rows
         IN  /\ next \in Seq(StoredCredits)
             /\ Stands(w, next, Append(received, row), accounts \cup ({row.account} \cap Accounts))
<1> DEFINE stored == [row EXCEPT !.field = ParseField(@)]
           next == IF CreditAccepted(row) THEN Append(rows, stored) ELSE rows
           more == Append(received, row)
           named == accounts \cup ({row.account} \cap Accounts)
<1>1. /\ row.account \in Accounts \cup {"blank"} /\ row.field \in Fields
      /\ stored = [account |-> row.account, field |-> ParseField(row.field)]
  BY DEF CreditRows
<1>2. /\ more \in Seq(CreditRows) /\ AccountsOf(more) = AccountsOf(received) \cup {row.account}
      /\ LastRow(more, row.account) = row
      /\ \A a \in AccountsOf(received) \ {row.account} : LastRow(more, a) = LastRow(received, a)
  BY OneRowMore
<1>3. /\ Tabled(w) /\ accounts = AccountsOf(received) \ {"blank"}
      /\ accounts = DOMAIN w.credits \cup AccountsOf(rows)
      /\ \A a \in accounts :
           Standing(w.credits, rows, a) = ParseField(Reference!Latest(received, a).field)
  BY DEF Stands
<1>4. \A a \in AccountsOf(more) : Reference!Latest(more, a) = LastRow(more, a)
  BY <1>2, LastIsLatest
<1>5. \A a \in AccountsOf(received) : Reference!Latest(received, a) = LastRow(received, a)
  BY LastIsLatest
<1>6. CASE CreditAccepted(row)
  <2>1. row.account # "blank" /\ row.account \in Accounts BY <1>1, <1>6 DEF CreditAccepted
  <2>2. stored \in StoredCredits /\ stored.account = row.account /\ stored.field = ParseField(row.field)
    BY <1>1, <2>1 DEF StoredCredits
  <2> HIDE DEF stored, more
  <2>3. /\ Append(rows, stored) \in Seq(StoredCredits)
        /\ AccountsOf(Append(rows, stored)) = AccountsOf(rows) \cup {row.account}
        /\ LastRow(Append(rows, stored), row.account) = stored
        /\ \A a \in AccountsOf(rows) \ {row.account} :
             LastRow(Append(rows, stored), a) = LastRow(rows, a)
    BY <2>2, OneRowMore
  <2>4. next = Append(rows, stored) /\ named = accounts \cup {row.account} BY <1>6, <2>1
  <2> HIDE DEF next, named
  <2>5. named = AccountsOf(more) \ {"blank"} BY <1>2, <1>3, <2>1, <2>4
  <2>6. named = DOMAIN w.credits \cup AccountsOf(next) BY <1>3, <2>3, <2>4
  <2>7. ASSUME NEW a \in named
        PROVE  Standing(w.credits, next, a) = ParseField(Reference!Latest(more, a).field)
    <3>1. CASE a = row.account
      <4>1. Standing(w.credits, next, a) = ParseField(row.field) BY <2>2, <2>3, <2>4, <3>1 DEF Standing
      <4>2. Reference!Latest(more, a) = row BY <1>2, <1>4, <3>1
      <4> QED BY <4>1, <4>2
    <3>2. CASE a # row.account
      <4>1. a \in accounts /\ a \in AccountsOf(received) BY <1>3, <2>4, <3>2
      <4>2. Standing(w.credits, next, a) = Standing(w.credits, rows, a)
        BY <2>3, <2>4, <3>2 DEF Standing
      <4>3. Reference!Latest(more, a) = Reference!Latest(received, a)
        BY <1>2, <1>4, <1>5, <3>2, <4>1
      <4> QED BY <1>3, <4>1, <4>2, <4>3
    <3> QED BY <3>1, <3>2
  <2>8. Stands(w, next, more, named) BY <1>3, <2>5, <2>6, <2>7 DEF Stands
  <2> QED BY <2>3, <2>4, <2>8 DEF next, more, named, stored
<1>7. CASE ~CreditAccepted(row)
  <2>1. row.account = "blank" BY <1>7 DEF CreditAccepted
  <2>2. next = rows /\ named = accounts BY <1>3, <1>7, <2>1, AccountAssumption
  <2> HIDE DEF next, named, more
  <2>3. named = AccountsOf(more) \ {"blank"} BY <1>2, <1>3, <2>1, <2>2
  <2>4. ASSUME NEW a \in named PROVE Reference!Latest(more, a) = Reference!Latest(received, a)
    <3>1. a \in AccountsOf(received) /\ a # row.account BY <1>3, <2>1, <2>2
    <3> QED BY <1>2, <1>4, <1>5, <3>1
  <2>5. Stands(w, next, more, named) BY <1>3, <2>2, <2>3, <2>4 DEF Stands
  <2> QED BY <2>2, <2>5 DEF next, more, named
<1> QED BY <1>6, <1>7

(* A flush of payments changes nothing of what they stand for.             *)
LEMMA FlushPays ==
  ASSUME NEW w, IsWriter(w), w.ok = TRUE, Tabled(w), NEW rows \in Seq(StoredPayments),
         NEW received, NEW log, Pays(w, rows, received, DOMAIN w.credits, log),
         FlushPayments(w, rows).ok
  PROVE  Pays(FlushPayments(w, rows), <<>>, received, DOMAIN w.credits, log)
<1> DEFINE v == FlushPayments(w, rows)
           accounts == DOMAIN w.credits
           new == NewPayments(w, rows)
<1>1. /\ IsFiniteSet(w.payments) /\ w.ingested = Cardinality(w.payments)
      /\ \A p \in w.payments : \E a \in accounts, n \in StoredNumbers :
           p = [credit |-> w.idMap[a], number |-> n]
      /\ \A i \in DOMAIN rows : rows[i].account \in accounts
  BY DEF Pays
<1>2. /\ v.idMap = w.idMap /\ v.payments = w.payments \cup new
      /\ IsFiniteSet(v.payments) /\ v.ingested = Cardinality(v.payments)
  BY <1>1, PaymentsAreFlushed
<1>3. \A i \in DOMAIN rows : rows[i] \in StoredPayments
  BY LenProperties, ElementOfSeq
<1>4. \A i \in DOMAIN rows : /\ rows[i] = [account |-> rows[i].account, number |-> rows[i].number]
                             /\ rows[i].number \in StoredNumbers
  BY <1>3 DEF StoredPayments
<1>5. new = {[credit |-> w.idMap[rows[i].account], number |-> rows[i].number] : i \in DOMAIN rows}
  BY DEF NewPayments
<1> HIDE DEF v, new
<1>6. \A a, b \in accounts : w.idMap[a] = w.idMap[b] => a = b BY DEF Tabled
<1>7. ASSUME NEW a \in accounts, NEW n PROVE Held(v, <<>>, a, n) <=> Held(w, rows, a, n)
  <2> DEFINE p == [credit |-> w.idMap[a], number |-> n]
  <2>1. p \in new <=> \E i \in DOMAIN rows : rows[i] = [account |-> a, number |-> n]
    <3>1. ASSUME p \in new PROVE \E i \in DOMAIN rows : rows[i] = [account |-> a, number |-> n]
      <4>1. PICK i \in DOMAIN rows : p = [credit |-> w.idMap[rows[i].account], number |-> rows[i].number]
        BY <1>5, <3>1
      <4>2. w.idMap[a] = w.idMap[rows[i].account] /\ n = rows[i].number BY <4>1
      <4>3. a = rows[i].account BY <1>1, <1>6, <4>2
      <4> QED BY <1>4, <4>2, <4>3
    <3>2. ASSUME NEW i \in DOMAIN rows, rows[i] = [account |-> a, number |-> n] PROVE p \in new
      <4>1. rows[i].account = a /\ rows[i].number = n BY <3>2
      <4> QED BY <1>5, <4>1
    <3> QED BY <3>1, <3>2
  <2> HIDE DEF p
  <2>2. Held(v, <<>>, a, n) <=> p \in w.payments \/ p \in new BY <1>2 DEF Held, p
  <2> QED BY <2>1, <2>2 DEF Held, p
<1>8. ASSUME NEW p \in v.payments
      PROVE  \E a \in accounts, n \in StoredNumbers : p = [credit |-> v.idMap[a], number |-> n]
  <2>1. CASE p \in w.payments BY <1>1, <1>2, <2>1
  <2>2. CASE p \in new BY <1>1, <1>2, <1>4, <1>5, <2>2
  <2> QED BY <1>2, <2>1, <2>2
<1>9. Pays(v, <<>>, received, accounts, log)
  <2> DEFINE in(i) == received[i].account \in accounts
             held(u, left, i) == Held(u, left, received[i].account, ParseNumber(received[i].number))
             names(i, a, n) == received[i].account = a /\ ParseNumber(received[i].number) = n
  <2>1. \A i \in DOMAIN received :
          IF in(i) THEN held(w, rows, i) ELSE [phase |-> "payments", row |-> i] \in log
    BY DEF Pays
  <2>2. \A a \in accounts, n \in StoredNumbers :
          Held(w, rows, a, n) => \E i \in DOMAIN received : names(i, a, n)
    BY DEF Pays
  <2>3. \A i \in DOMAIN received : in(i) => (held(v, <<>>, i) <=> held(w, rows, i)) BY <1>7
  <2>4. \A i \in DOMAIN received :
          IF in(i) THEN held(v, <<>>, i) ELSE [phase |-> "payments", row |-> i] \in log
    <3> HIDE DEF in, held
    <3> QED BY <2>1, <2>3
  <2>5. \A a \in accounts, n \in StoredNumbers :
          Held(v, <<>>, a, n) => \E i \in DOMAIN received : names(i, a, n)
    <3> HIDE DEF names
    <3> QED BY <1>7, <2>2
  <2>6. DOMAIN <<>> = {} OBVIOUS
  <2> QED BY <1>2, <1>8, <2>4, <2>5, <2>6 DEF Pays
<1> QED BY <1>9 DEF v

(* A payment row received: pending if it is accepted, else in the log.     *)
LEMMA RowPays ==
  ASSUME NEW w, NEW rows \in Seq(StoredPayments), NEW received \in Seq(PaymentRows),
         NEW accounts, accounts \subseteq Accounts, NEW log,
         Pays(w, rows, received, accounts, log), NEW row \in PaymentRows
  PROVE  LET accepted == row.account # "blank" /\ row.account \in accounts
             next == IF accepted THEN Append(rows, [row EXCEPT !.number = ParseNumber(@)]) ELSE rows
             left == IF accepted THEN {}
                     ELSE {[phase |-> "payments", row |-> Len(received) + 1]}
         IN  /\ next \in Seq(StoredPayments)
             /\ Pays(w, next, Append(received, row), accounts, log \cup left)
<1> DEFINE accepted == row.account # "blank" /\ row.account \in accounts
           stored == [row EXCEPT !.number = ParseNumber(@)]
           next == IF accepted THEN Append(rows, stored) ELSE rows
           left == IF accepted THEN {} ELSE {[phase |-> "payments", row |-> Len(received) + 1]}
           more == Append(received, row)
           m == Len(received)
           number == ParseNumber(row.number)
<1>1. /\ accepted <=> row.account \in accounts
      /\ number \in StoredNumbers
      /\ stored = [account |-> row.account, number |-> number]
      /\ accepted => stored \in StoredPayments
  BY AccountAssumption DEF PaymentRows, StoredPayments, StoredNumbers
<1>2. /\ m \in Nat /\ DOMAIN received = 1..m /\ DOMAIN more = 1..(m + 1)
      /\ \A i \in 1..m : more[i] = received[i]
      /\ more[m + 1] = row
  BY OneRowMore, LenProperties
<1>3. /\ IsFiniteSet(w.payments) /\ w.ingested = Cardinality(w.payments)
      /\ \A p \in w.payments : \E a \in accounts, n \in StoredNumbers :
           p = [credit |-> w.idMap[a], number |-> n]
      /\ \A i \in DOMAIN rows : rows[i].account \in accounts
  BY DEF Pays
<1>4. \A i \in 1..m :
        IF received[i].account \in accounts
        THEN Held(w, rows, received[i].account, ParseNumber(received[i].number))
        ELSE [phase |-> "payments", row |-> i] \in log
  BY <1>2 DEF Pays
<1>5. \A a \in accounts, n \in StoredNumbers : Held(w, rows, a, n) =>
        \E i \in 1..m : received[i].account = a /\ ParseNumber(received[i].number) = n
  BY <1>2 DEF Pays
<1>6. /\ accepted => /\ next \in Seq(StoredPayments)
                     /\ DOMAIN rows = 1..Len(rows) /\ DOMAIN next = 1..(Len(rows) + 1)
                     /\ Len(rows) \in Nat
                     /\ \A i \in 1..Len(rows) : next[i] = rows[i]
                     /\ next[Len(rows) + 1] = stored
      /\ ~accepted => next = rows
  <2> HIDE DEF stored
  <2>1. Len(rows) \in Nat BY LenProperties
  <2> QED BY <1>1, <2>1, OneRowMore
<1>7. \A i \in 1..(m + 1) : i \in 1..m \/ i = m + 1 BY <1>2
<1>8. 1..m \subseteq 1..(m + 1) /\ m + 1 \in 1..(m + 1) BY <1>2
<1>9. left = IF accepted THEN {} ELSE {[phase |-> "payments", row |-> m + 1]} OBVIOUS
<1> HIDE DEF accepted, stored, next, left, more, m, number
<1>10. ASSUME NEW a, NEW n
       PROVE  Held(w, next, a, n) <=>
                Held(w, rows, a, n) \/ (accepted /\ a = row.account /\ n = number)
  <2> DEFINE pair == [account |-> a, number |-> n]
  <2>1. accepted => (stored = pair <=> a = row.account /\ n = number) BY <1>1
  <2>2. (\E i \in DOMAIN next : next[i] = pair) <=>
          (\E i \in DOMAIN rows : rows[i] = pair) \/ (accepted /\ stored = pair)
    <3> HIDE DEF pair
    <3>1. CASE ~accepted BY <1>6, <3>1
    <3>2. CASE accepted
      <4> DEFINE k == Len(rows)
      <4>1. /\ k \in Nat /\ DOMAIN rows = 1..k /\ DOMAIN next = 1..(k + 1)
            /\ \A i \in 1..k : next[i] = rows[i]
            /\ next[k + 1] = stored
        BY <1>6, <3>2
      <4> HIDE DEF k
      <4>2. \A i \in 1..(k + 1) : i \in 1..k \/ i = k + 1 BY <4>1
      <4>3. 1..k \subseteq 1..(k + 1) /\ k + 1 \in 1..(k + 1) BY <4>1
      <4> QED BY <3>2, <4>1, <4>2, <4>3
    <3> QED BY <3>1, <3>2
  <2> QED BY <2>1, <2>2 DEF Held
<1>11. next \in Seq(StoredPayments) BY <1>6
<1>12. \A i \in DOMAIN next : next[i].account \in accounts
  <2>1. CASE ~accepted BY <1>3, <1>6, <2>1
  <2>2. CASE accepted
    <3>1. \A i \in 1..(Len(rows) + 1) : i \in 1..Len(rows) \/ i = Len(rows) + 1 BY <1>6, <2>2
    <3>2. stored.account \in accounts BY <1>1, <2>2
    <3> QED BY <1>3, <1>6, <2>2, <3>1, <3>2
  <2> QED BY <2>1, <2>2
<1>13. ASSUME NEW i \in 1..(m + 1)
       PROVE  IF more[i].account \in accounts
              THEN Held(w, next, more[i].account, ParseNumber(more[i].number))
              ELSE [phase |-> "payments", row |-> i] \in log \cup left
  <2>1. CASE i \in 1..m BY <1>2, <1>4, <1>10, <2>1
  <2>2. CASE i = m + 1 BY <1>1, <1>2, <1>9, <1>10, <2>2 DEF number
  <2> QED BY <1>7, <2>1, <2>2
<1>14. ASSUME NEW a \in accounts, NEW n \in StoredNumbers, Held(w, next, a, n)
       PROVE  \E i \in 1..(m + 1) : more[i].account = a /\ ParseNumber(more[i].number) = n
  <2>1. CASE Held(w, rows, a, n)
    <3>1. PICK i \in 1..m : received[i].account = a /\ ParseNumber(received[i].number) = n
      BY <1>5, <2>1
    <3> QED BY <1>2, <1>8, <3>1
  <2>2. CASE a = row.account /\ n = number BY <1>2, <1>8, <2>2 DEF number
  <2> QED BY <1>10, <1>14, <2>1, <2>2
<1>15. Pays(w, next, more, accounts, log \cup left)
  BY <1>2, <1>3, <1>12, <1>13, <1>14 DEF Pays
<1> QED BY <1>11, <1>15 DEF accepted, stored, next, left, more, m

-----------------------------------------------------------------------------
(* What a commit makes visible.                                            *)

(* With nothing pending, the tables show the normalised export, and the    *)
(* payments counted are the payments of the slice.                         *)
LEMMA CommitIsNormal ==
  ASSUME NEW w, NEW received \in Seq(CreditRows), NEW rows, NEW accounts, NEW log,
         Stands(w, <<>>, received, accounts), Pays(w, <<>>, rows, accounts, log)
  PROVE  LET new == Committed(w)
             credited == Reference!NormalCredits(received)
         IN  /\ new = [credits |-> credited, payments |-> Reference!NormalPayments(credited, rows)]
             /\ DOMAIN credited = accounts
             /\ Cardinality(new.payments) = w.ingested
<1> DEFINE credited == Reference!NormalCredits(received)
           visible == [a \in DOMAIN w.credits |-> w.credits[a].field]
           numbers == {p.number : p \in w.payments}
           payment(a, n) == [credit |-> w.idMap[a], number |-> n]
           shown == {ap \in (DOMAIN w.credits) \X numbers :
                      [credit |-> w.credits[ap[1]].id, number |-> ap[2]] \in w.payments}
           normal == Reference!NormalPayments(credited, rows)
<1>1. /\ Tabled(w) /\ accounts = DOMAIN w.credits /\ accounts = AccountsOf(received) \ {"blank"}
      /\ \A a \in accounts : w.credits[a].field = ParseField(Reference!Latest(received, a).field)
  BY NoRows DEF Stands, Standing
<1>2. /\ IsFiniteSet(w.payments) /\ w.ingested = Cardinality(w.payments)
      /\ \A p \in w.payments : \E a \in accounts, n \in StoredNumbers : p = payment(a, n)
  BY DEF Pays
<1>3. \A n : \A a \in accounts : Held(w, <<>>, a, n) <=> payment(a, n) \in w.payments
  <2>1. DOMAIN <<>> = {} OBVIOUS
  <2> QED BY <2>1 DEF Held
<1>4. /\ \A i \in DOMAIN rows : rows[i].account \in accounts =>
           payment(rows[i].account, ParseNumber(rows[i].number)) \in w.payments
      /\ \A a \in accounts, n \in StoredNumbers : payment(a, n) \in w.payments =>
           \E i \in DOMAIN rows : rows[i].account = a /\ ParseNumber(rows[i].number) = n
  <2>1. \A i \in DOMAIN rows : rows[i].account \in accounts =>
          Held(w, <<>>, rows[i].account, ParseNumber(rows[i].number))
    BY DEF Pays
  <2>2. \A a \in accounts, n \in StoredNumbers : Held(w, <<>>, a, n) =>
          \E i \in DOMAIN rows : rows[i].account = a /\ ParseNumber(rows[i].number) = n
    BY DEF Pays
  <2> HIDE DEF payment
  <2> QED BY <1>3, <2>1, <2>2
<1>5. credited = visible /\ DOMAIN credited = accounts
  <2>1. credited = [a \in accounts |-> ParseField(Reference!Latest(received, a).field)]
    BY <1>1 DEF Reference!NormalCredits, Reference!StoredField, ParseField, AccountsOf
  <2> QED BY <1>1, <2>1
<1>6. \A a \in accounts : w.credits[a].id = w.idMap[a]
  BY <1>1 DEF Tabled
<1>7. shown = {ap \in accounts \X numbers : payment(ap[1], ap[2]) \in w.payments}
  BY <1>1, <1>6
<1>8. \A n : \A a \in accounts : payment(a, n) \in w.payments => n \in StoredNumbers /\ n \in numbers
  <2> SUFFICES ASSUME NEW a \in accounts, NEW n, payment(a, n) \in w.payments
               PROVE  n \in StoredNumbers /\ n \in numbers
    OBVIOUS
  <2>1. PICK b \in accounts, m \in StoredNumbers : payment(a, n) = payment(b, m) BY <1>2
  <2>2. payment(a, n).number = n /\ payment(b, m).number = m OBVIOUS
  <2>3. n \in StoredNumbers BY <2>1, <2>2
  <2>4. n \in numbers BY <2>2
  <2> QED BY <2>3, <2>4
<1>9. normal = {<<rows[i].account, ParseNumber(rows[i].number)>> :
                  i \in {k \in DOMAIN rows : rows[k].account \in accounts}}
  BY <1>5 DEF Reference!NormalPayments, Reference!StoredNumber, ParseNumber
<1> HIDE DEF credited, visible, shown, normal, numbers, payment
<1>10. ASSUME NEW ap \in shown PROVE ap \in normal
  <2>1. PICK a \in accounts, n \in numbers : ap = <<a, n>> /\ payment(a, n) \in w.payments BY <1>7
  <2>2. n \in StoredNumbers BY <1>8, <2>1
  <2>3. PICK i \in DOMAIN rows : rows[i].account = a /\ ParseNumber(rows[i].number) = n
    BY <1>4, <2>1, <2>2
  <2> QED BY <1>9, <2>1, <2>3
<1>11. ASSUME NEW ap \in normal PROVE ap \in shown
  <2>1. PICK i \in DOMAIN rows : /\ rows[i].account \in accounts
                                 /\ ap = <<rows[i].account, ParseNumber(rows[i].number)>>
    BY <1>9
  <2> DEFINE a == rows[i].account
             n == ParseNumber(rows[i].number)
  <2>2. a \in accounts /\ ap = <<a, n>> /\ payment(a, n) \in w.payments BY <1>4, <2>1
  <2> HIDE DEF a, n
  <2>3. n \in numbers BY <1>8, <2>2
  <2> QED BY <1>7, <2>2, <2>3
<1>12. shown = normal BY <1>10, <1>11
<1>13. Cardinality(shown) = w.ingested
  <2> DEFINE f == [ap \in shown |-> payment(ap[1], ap[2])]
  <2>1. f \in [shown -> w.payments] BY <1>7
  <2>2. ASSUME NEW x \in shown, NEW y \in shown, f[x] = f[y] PROVE x = y
    <3>1. PICK a \in accounts, n \in numbers : x = <<a, n>> BY <1>7
    <3>2. PICK b \in accounts, m \in numbers : y = <<b, m>> BY <1>7
    <3>3. payment(a, n) = payment(b, m) BY <2>2, <3>1, <3>2
    <3>4. w.idMap[a] = w.idMap[b] /\ n = m BY <3>3 DEF payment
    <3>5. a = b BY <1>1, <3>4 DEF Tabled
    <3> QED BY <3>1, <3>2, <3>4, <3>5
  <2>3. ASSUME NEW p \in w.payments PROVE \E x \in shown : f[x] = p
    <3>1. PICK a \in accounts, n \in StoredNumbers : p = payment(a, n) BY <1>2
    <3>2. <<a, n>> \in shown BY <1>7, <1>8, <3>1
    <3> QED BY <3>1, <3>2
  <2> HIDE DEF f
  <2>4. f \in Injection(shown, w.payments) BY <2>1, <2>2 DEF Injection, IsInjective
  <2>5. f \in Surjection(shown, w.payments) BY <2>1, <2>3 DEF Surjection
  <2>6. Cardinality(shown) = Cardinality(w.payments) BY <1>2, <2>4, <2>5, FS_Injection
  <2> QED BY <1>2, <2>6
<1>14. Committed(w) = [credits |-> visible, payments |-> shown]
  BY DEF Committed, visible, shown, numbers
<1> QED BY <1>5, <1>12, <1>13, <1>14 DEF credited, normal

(* What payments stand for is left alone when only credits change.         *)
LEMMA PaysKeep ==
  ASSUME NEW w, NEW v, NEW rows, NEW received, NEW accounts, NEW log,
         Pays(w, rows, received, accounts, log),
         v.payments = w.payments, v.ingested = w.ingested,
         \A a \in accounts : v.idMap[a] = w.idMap[a]
  PROVE  Pays(v, rows, received, accounts, log)
<1>1. \A n : \A a \in accounts : Held(v, rows, a, n) <=> Held(w, rows, a, n) BY DEF Held
<1>2. /\ \A i \in DOMAIN received :
           IF received[i].account \in accounts
           THEN Held(w, rows, received[i].account, ParseNumber(received[i].number))
           ELSE [phase |-> "payments", row |-> i] \in log
      /\ \A a \in accounts, n \in StoredNumbers : Held(w, rows, a, n) =>
           \E i \in DOMAIN received : received[i].account = a /\ ParseNumber(received[i].number) = n
      /\ \A i \in DOMAIN rows : rows[i].account \in accounts
  BY DEF Pays
<1>3. \A i \in DOMAIN received :
        IF received[i].account \in accounts
        THEN Held(v, rows, received[i].account, ParseNumber(received[i].number))
        ELSE [phase |-> "payments", row |-> i] \in log
  BY <1>1, <1>2
<1>4. \A a \in accounts, n \in StoredNumbers : Held(v, rows, a, n) =>
        \E i \in DOMAIN received : received[i].account = a /\ ParseNumber(received[i].number) = n
  BY <1>1, <1>2
<1>5. /\ IsFiniteSet(v.payments) /\ v.ingested = Cardinality(v.payments)
      /\ \A p \in v.payments : \E a \in accounts, n \in StoredNumbers :
           p = [credit |-> v.idMap[a], number |-> n]
  BY DEF Pays
<1> QED BY <1>2, <1>3, <1>4, <1>5 DEF Pays

-----------------------------------------------------------------------------
(* The steps.                                                              *)

(* The run and the reference agree on a step.                              *)
Follows == [Reference!Next]_(Reference!replaceVars)

(* A run that is not over has no result yet.                               *)
LEMMA RunsOn ==
  ASSUME PipeInv, pc # "ended"
  PROVE  result = "running"
BY DEF PipeInv, PipeType, TypeOK

(* A sequence starts with itself.                                          *)
LEMMA StartsWithItself == \A s : (\E T : s \in Seq(T)) => IsPrefix(s, s)
<1> SUFFICES ASSUME NEW T, NEW s \in Seq(T) PROVE IsPrefix(s, s)
  OBVIOUS
<1>1. Len(s) \in Nat BY LenProperties
<1> QED BY <1>1 DEF IsPrefix

(* The types of a state whose tables stand for its export.                 *)
LEMMA TablesTyped ==
  ASSUME NEW w, NEW rows, NEW received, NEW accounts, accounts \subseteq Accounts,
         Stands(w, rows, received, accounts)
  PROVE  DOMAIN w.credits \subseteq Accounts /\ DOMAIN w.idMap \subseteq Accounts
BY DEF Stands, Tabled

(* A run that ends without a commit.                                       *)
LEMMA EndsKeep ==
  ASSUME PipeInv, pc # "ended",
         NEW how \in Reference!Endings, End(how, 0), UNCHANGED slice,
         known' \subseteq Accounts, got' \in Seq(CreditRows), paid' \in Seq(PaymentRows),
         cancel' \in BOOLEAN, IsPrefix(got, got'), IsPrefix(paid, paid')
  PROVE  PipeInv' /\ Follows
<1>1. /\ pc' = "ended" /\ result' = how /\ credits' = <<>> /\ idMap' = <<>>
      /\ batch' = <<>> /\ pbatch' = <<>>
  BY DEF End
<1>2. how \notin Reference!Replaced /\ how # "running" BY DEF Reference!Replaced, Reference!Endings
<1>3. DOMAIN <<>> = {} /\ Len(<<>>) = 0 /\ \A T : <<>> \in Seq(T) BY NoRows
<1>4. Len(batch') < CreditBatch /\ Len(pbatch') < PaymentBatch BY <1>1, <1>3, BatchAssumption
<1>5. DOMAIN slice.credits \subseteq Accounts /\ \A p \in slice.payments : p[1] \in Accounts
  BY DEF PipeInv, PipeType, TypeOK
<1>6. TypeOK' BY <1>1, <1>2, <1>3, <1>4, <1>5 DEF TypeOK
<1>7. PipeType' BY <1>1, <1>3, <1>6 DEF PipeType
<1>8. CreditsInv' /\ PaymentsInv' /\ DoneInv'
  BY <1>1, <1>2 DEF CreditsInv, PaymentsInv, DoneInv
<1>9. Reference!GiveUp BY <1>1, RunsOn DEF Reference!GiveUp, Reference!IsPrefix, IsPrefix
<1> QED BY <1>7, <1>8, <1>9 DEF PipeInv, Follows, Reference!Next

(* A run goes on with the writer it was given, or ends.                    *)
LEMMA ContinueSplits ==
  ASSUME NEW w, IsWriter(w), w.ok \in BOOLEAN, NEW rows, NEW prows, NEW poll, NEW next,
         Continue(w, rows, prows, poll, next)
  PROVE  \/ \E how \in Reference!Endings : End(how, 0)
         \/ /\ w.ok /\ Writer' = w
            /\ pc' = next /\ UNCHANGED result /\ batch' = rows /\ pbatch' = prows
<1>1. CASE ~w.ok BY <1>1 DEF Continue, Reference!Endings
<1>2. CASE w.ok /\ poll /\ cancel BY <1>2 DEF Continue, Reference!Endings
<1>3. CASE w.ok /\ ~(poll /\ cancel)
  <2>1. /\ pc' = next /\ UNCHANGED result
        /\ credits' = w.credits /\ payments' = w.payments /\ idMap' = w.idMap
        /\ lastId' = w.lastId /\ ingested' = w.ingested
        /\ batch' = rows /\ pbatch' = prows
    BY <1>3 DEF Continue
  <2>2. Writer' = w BY <1>3, <2>1 DEF IsWriter, Writer
  <2> QED BY <1>3, <2>1, <2>2
<1> QED BY <1>1, <1>2, <1>3

(* The writer of a run is a writer.                                        *)
LEMMA WriterIs ==
  /\ IsWriter(Writer) /\ Writer.ok = TRUE
  /\ Writer.credits = credits /\ Writer.payments = payments /\ Writer.idMap = idMap
  /\ Writer.lastId = lastId /\ Writer.ingested = ingested
BY DEF Writer, IsWriter

(* A run that goes on: the reference receives rows.                        *)
LEMMA Receives ==
  ASSUME PipeInv, pc # "ended", UNCHANGED <<slice, result>>,
         IsPrefix(got, got'), IsPrefix(paid, paid')
  PROVE  Follows
<1>1. Reference!Receive BY RunsOn DEF Reference!Receive, Reference!IsPrefix, IsPrefix
<1> QED BY <1>1 DEF Follows, Reference!Next

(* SnapshotWriter::begin.                                                  *)
LEMMA BeginKeeps ==
  ASSUME PipeInv, Begin
  PROVE  PipeInv' /\ Follows
<1>1. /\ pc = "begin" /\ pc' = "credits"
      /\ UNCHANGED <<result, slice, credits, payments, idMap, lastId, batch, pbatch, ingested,
                     known, errors, got, paid, creditCount, cancel>>
  BY DEF Begin, txnVars
<1>2. TypeOK' BY <1>1 DEF PipeInv, PipeType, TypeOK
<1>3. PipeType' BY <1>1, <1>2 DEF PipeInv, PipeType
<1>4. Writer' = Writer BY <1>1 DEF Writer
<1>5. CreditsInv' BY <1>1, <1>4 DEF PipeInv, CreditsInv
<1>6. PaymentsInv' BY <1>1 DEF PaymentsInv
<1>7. result' \notin Reference!Replaced BY <1>1, RunsOn DEF Reference!Replaced
<1>8. Follows BY <1>1 DEF Follows, Reference!replaceVars
<1> QED BY <1>3, <1>5, <1>6, <1>7, <1>8 DEF PipeInv, DoneInv

(* A failure before the commit.                                            *)
LEMMA RaisesKeeps ==
  ASSUME PipeInv, Raises
  PROVE  PipeInv' /\ Follows
<1>1. /\ pc # "ended" /\ End("raised", 0)
      /\ UNCHANGED <<slice, known, errors, got, paid, creditCount, cancel>>
  BY DEF Raises
<1>2. /\ known \subseteq Accounts /\ cancel \in BOOLEAN
      /\ got \in Seq(CreditRows) /\ paid \in Seq(PaymentRows)
  BY DEF PipeInv, PipeType, TypeOK
<1>3. IsPrefix(got, got') /\ IsPrefix(paid, paid') BY <1>1, <1>2, StartsWithItself
<1>4. "raised" \in Reference!Endings BY DEF Reference!Endings
<1> QED BY <1>1, <1>2, <1>3, <1>4, EndsKeep

(* The COMMIT fails.                                                       *)
LEMMA CommitFailsKeeps ==
  ASSUME PipeInv, CommitFails
  PROVE  PipeInv' /\ Follows
<1>1. /\ pc # "ended" /\ End("failed", 0)
      /\ UNCHANGED <<slice, known, got, paid, creditCount, cancel>>
  BY DEF CommitFails
<1>2. /\ known \subseteq Accounts /\ cancel \in BOOLEAN
      /\ got \in Seq(CreditRows) /\ paid \in Seq(PaymentRows)
  BY DEF PipeInv, PipeType, TypeOK
<1>3. IsPrefix(got, got') /\ IsPrefix(paid, paid') BY <1>1, <1>2, StartsWithItself
<1>4. "failed" \in Reference!Endings BY DEF Reference!Endings
<1> QED BY <1>1, <1>2, <1>3, <1>4, EndsKeep

(* A user cancels.                                                         *)
LEMMA RequestCancelKeeps ==
  ASSUME PipeInv, RequestCancel
  PROVE  PipeInv' /\ Follows
<1>1. /\ cancel' = TRUE /\ pc # "ended"
      /\ UNCHANGED <<pc, result, slice, credits, payments, idMap, lastId, batch, pbatch, ingested,
                     known, errors, got, paid, creditCount>>
  BY DEF RequestCancel, txnVars
<1>2. TypeOK' BY <1>1 DEF PipeInv, PipeType, TypeOK
<1>3. PipeType' BY <1>1, <1>2 DEF PipeInv, PipeType
<1>4. Writer' = Writer BY <1>1 DEF Writer
<1>5. CreditsInv' BY <1>1, <1>4 DEF PipeInv, CreditsInv
<1>6. PaymentsInv' BY <1>1, <1>4 DEF PipeInv, PaymentsInv
<1>7. result' \notin Reference!Replaced BY <1>1, RunsOn DEF Reference!Replaced
<1>8. Follows BY <1>1 DEF Follows, Reference!replaceVars
<1> QED BY <1>3, <1>5, <1>6, <1>7, <1>8 DEF PipeInv, DoneInv

(* Pending rows that are not flushed are fewer than a batch.               *)
LEMMA PendingIsShort ==
  ASSUME NEW T, NEW rows \in Seq(T), NEW size \in Nat \ {0},
         NEW left, left = IF Full(rows, size) THEN <<>> ELSE rows
  PROVE  left \in Seq(T) /\ Len(left) < size
<1>1. Len(rows) \in Nat BY LenProperties
<1>2. CASE Full(rows, size) BY <1>2, NoRows
<1>3. CASE ~Full(rows, size) BY <1>1, <1>3 DEF Full
<1> QED BY <1>2, <1>3

(* The credits phase goes on: what is left to show.                        *)
LEMMA CreditsGoOn ==
  ASSUME PipeInv, pc = "credits", pc' = "credits",
         UNCHANGED <<slice, paid, pbatch, payments, ingested, cancel, result>>,
         known' \subseteq Accounts, got' \in Seq(CreditRows), IsPrefix(got, got'),
         batch' \in Seq(StoredCredits), Len(batch') < CreditBatch,
         Stands(Writer', batch', got', known')
  PROVE  PipeInv' /\ Follows
<1>1. /\ result = "running" /\ DOMAIN slice.credits \subseteq Accounts
      /\ \A p \in slice.payments : p[1] \in Accounts
      /\ Len(pbatch) < PaymentBatch /\ cancel \in BOOLEAN
      /\ paid \in Seq(PaymentRows) /\ pbatch \in Seq(StoredPayments)
  BY DEF PipeInv, PipeType, TypeOK
<1>2. DOMAIN credits' \subseteq Accounts /\ DOMAIN idMap' \subseteq Accounts
  <2>1. Writer'.credits = credits' /\ Writer'.idMap = idMap' BY DEF Writer
  <2> QED BY <2>1, TablesTyped
<1>3. TypeOK' BY <1>1, <1>2 DEF TypeOK
<1>4. PipeType' BY <1>1, <1>3 DEF PipeType
<1>5. CreditsInv' BY DEF PipeInv, CreditsInv
<1>6. PaymentsInv' /\ DoneInv' BY <1>1 DEF PaymentsInv, DoneInv, Reference!Replaced
<1>7. IsPrefix(paid, paid') BY <1>1, StartsWithItself
<1>8. Follows BY <1>7, Receives
<1> QED BY <1>4, <1>5, <1>6, <1>8 DEF PipeInv

(* A credit row: push_credit, and a flush when the batch is full.          *)
LEMMA CreditRowKeeps ==
  ASSUME PipeInv, CreditRow
  PROVE  PipeInv' /\ Follows
<1> DEFINE rows(row) == IF CreditAccepted(row)
                        THEN Append(batch, [row EXCEPT !.field = ParseField(@)]) ELSE batch
           full(row) == Full(rows(row), CreditBatch)
           writer(row) == IF full(row) THEN FlushCredits(Writer, rows(row)) ELSE Writer
           left(row) == IF full(row) THEN <<>> ELSE rows(row)
<1>1. PICK row \in CreditRows :
        /\ pc = "credits" /\ got' = Append(got, row)
        /\ known' = known \cup ({row.account} \cap Accounts)
        /\ Continue(writer(row), left(row), pbatch, Len(got') % PollEvery = 0, "credits")
        /\ UNCHANGED <<slice, paid, creditCount, cancel>>
  BY DEF CreditRow
<1> DEFINE w == writer(row)
           poll == Len(got') % PollEvery = 0
<1>2. /\ known \subseteq Accounts /\ cancel \in BOOLEAN
      /\ got \in Seq(CreditRows) /\ paid \in Seq(PaymentRows) /\ batch \in Seq(StoredCredits)
  BY DEF PipeInv, PipeType, TypeOK
<1>3. Stands(Writer, batch, got, known) BY <1>1 DEF PipeInv, CreditsInv
<1>4. rows(row) \in Seq(StoredCredits) /\ Stands(Writer, rows(row), got', known')
  BY <1>1, <1>2, <1>3, RowStands
<1>5. got' \in Seq(CreditRows) /\ IsPrefix(got, got') BY <1>1, <1>2, OneRowMore
<1>6. IsPrefix(paid, paid') BY <1>1, <1>2, StartsWithItself
<1>7. known' \subseteq Accounts BY <1>1, <1>2
<1>8. left(row) \in Seq(StoredCredits) /\ Len(left(row)) < CreditBatch
  <2> HIDE DEF rows
  <2> QED BY <1>4, BatchAssumption, PendingIsShort
<1>9. /\ IsWriter(w) /\ w.ok \in BOOLEAN
      /\ w.ok => /\ w.payments = payments /\ w.ingested = ingested
                 /\ Stands(w, left(row), got', known')
  <2> HIDE DEF rows
  <2>1. CASE full(row)
    <3>1. w = FlushCredits(Writer, rows(row)) /\ left(row) = <<>> BY <2>1
    <3>2. Tabled(Writer) BY <1>3 DEF Stands
    <3> HIDE DEF w, left, full
    <3>3. /\ w.ok \in BOOLEAN /\ IsWriter(w)
          /\ w.ok => w.payments = Writer.payments /\ w.ingested = Writer.ingested
      BY <1>4, <3>1, <3>2, WriterIs, CreditsAreFlushed
    <3>4. w.ok => Stands(w, <<>>, got', known') BY <1>4, <3>1, WriterIs, FlushStands
    <3> QED BY <3>1, <3>3, <3>4, WriterIs
  <2>2. CASE ~full(row)
    <3>1. w = Writer /\ left(row) = rows(row) BY <2>2
    <3> HIDE DEF w, left, full
    <3> QED BY <1>4, <3>1, WriterIs
  <2> QED BY <2>1, <2>2
<1> HIDE DEF w, left, rows, full, writer
<1>10. Continue(w, left(row), pbatch, poll, "credits") BY <1>1 DEF w
<1> HIDE DEF poll
<1>11. \/ \E how \in Reference!Endings : End(how, 0)
       \/ /\ w.ok /\ Writer' = w
          /\ pc' = "credits" /\ UNCHANGED result /\ batch' = left(row) /\ pbatch' = pbatch
  BY <1>9, <1>10, ContinueSplits
<1>12. CASE \E how \in Reference!Endings : End(how, 0)
  <2>1. pc # "ended" /\ UNCHANGED slice /\ cancel' \in BOOLEAN /\ paid' \in Seq(PaymentRows)
    BY <1>1, <1>2
  <2> QED BY <1>5, <1>6, <1>7, <1>12, <2>1, EndsKeep
<1>13. CASE /\ w.ok /\ Writer' = w
            /\ pc' = "credits" /\ UNCHANGED result /\ batch' = left(row) /\ pbatch' = pbatch
  <2>1. Writer'.payments = payments' /\ Writer'.ingested = ingested' BY DEF Writer
  <2>2. UNCHANGED <<payments, ingested>> BY <1>9, <1>13, <2>1
  <2> QED BY <1>1, <1>5, <1>7, <1>8, <1>9, <1>13, <2>2, CreditsGoOn
<1> QED BY <1>11, <1>12, <1>13

(* From the credits on to the payments or the commit: what is left to show.*)
LEMMA PaymentsGoOn ==
  ASSUME PipeInv, pc # "ended", pc' \in {"payments", "commit"},
         UNCHANGED <<slice, got, known, cancel, result>>,
         batch' = <<>>, pbatch' \in Seq(StoredPayments), Len(pbatch') < PaymentBatch,
         paid' \in Seq(PaymentRows), IsPrefix(paid, paid'),
         creditCount' = Cardinality(known),
         Stands(Writer', <<>>, got, known), Pays(Writer', pbatch', paid', known, errors')
  PROVE  PipeInv' /\ Follows
<1>1. /\ result = "running" /\ DOMAIN slice.credits \subseteq Accounts
      /\ \A p \in slice.payments : p[1] \in Accounts
      /\ known \subseteq Accounts /\ cancel \in BOOLEAN /\ got \in Seq(CreditRows)
  BY RunsOn DEF PipeInv, PipeType, TypeOK
<1>2. DOMAIN credits' \subseteq Accounts /\ DOMAIN idMap' \subseteq Accounts
  <2>1. Writer'.credits = credits' /\ Writer'.idMap = idMap' BY DEF Writer
  <2> QED BY <1>1, <2>1, TablesTyped
<1>3. Len(batch') < CreditBatch /\ batch' \in Seq(StoredCredits) BY NoRows, BatchAssumption
<1>4. TypeOK' BY <1>1, <1>2, <1>3 DEF TypeOK
<1>5. PipeType' BY <1>1, <1>3, <1>4 DEF PipeType
<1>6. CreditsInv' BY DEF CreditsInv
<1>7. PaymentsInv' /\ DoneInv' BY <1>1 DEF PaymentsInv, DoneInv, Reference!Replaced
<1>8. IsPrefix(got, got') BY <1>1, StartsWithItself
<1>9. Follows BY <1>8, Receives
<1> QED BY <1>5, <1>6, <1>7, <1>9 DEF PipeInv

(* The end of the credit stream.                                           *)
LEMMA CreditsEndKeeps ==
  ASSUME PipeInv, CreditsEnd
  PROVE  PipeInv' /\ Follows
<1> DEFINE w == FlushCredits(Writer, batch)
<1>1. /\ pc = "credits" /\ Continue(w, <<>>, pbatch, TRUE, "payments")
      /\ creditCount' = Cardinality(DOMAIN w.idMap)
      /\ UNCHANGED <<slice, known, errors, got, paid, cancel>>
  BY DEF CreditsEnd
<1>2. /\ known \subseteq Accounts /\ cancel \in BOOLEAN
      /\ got \in Seq(CreditRows) /\ paid \in Seq(PaymentRows) /\ batch \in Seq(StoredCredits)
      /\ pbatch \in Seq(StoredPayments) /\ Len(pbatch) < PaymentBatch
  BY DEF PipeInv, PipeType, TypeOK
<1>3. /\ Stands(Writer, batch, got, known)
      /\ paid = <<>> /\ payments = {} /\ pbatch = <<>> /\ ingested = 0
  BY <1>1 DEF PipeInv, CreditsInv
<1>4. Tabled(Writer) BY <1>3 DEF Stands
<1>5. /\ w.ok \in BOOLEAN /\ IsWriter(w)
      /\ w.ok => w.payments = payments /\ w.ingested = ingested
  BY <1>2, <1>4, WriterIs, CreditsAreFlushed
<1>6. w.ok => Stands(w, <<>>, got, known) BY <1>2, <1>3, WriterIs, FlushStands
<1>7. IsPrefix(got, got') /\ IsPrefix(paid, paid') BY <1>1, <1>2, StartsWithItself
<1> HIDE DEF w
<1>8. \/ \E how \in Reference!Endings : End(how, 0)
      \/ /\ w.ok /\ Writer' = w
         /\ pc' = "payments" /\ UNCHANGED result /\ batch' = <<>> /\ pbatch' = pbatch
  BY <1>1, <1>5, ContinueSplits
<1>9. CASE \E how \in Reference!Endings : End(how, 0)
  <2>1. /\ pc # "ended" /\ UNCHANGED slice /\ cancel' \in BOOLEAN
        /\ known' \subseteq Accounts /\ got' \in Seq(CreditRows) /\ paid' \in Seq(PaymentRows)
    BY <1>1, <1>2
  <2> QED BY <1>7, <1>9, <2>1, EndsKeep
<1>10. CASE /\ w.ok /\ Writer' = w
            /\ pc' = "payments" /\ UNCHANGED result /\ batch' = <<>> /\ pbatch' = pbatch
  <2>1. Stands(w, <<>>, got, known) BY <1>6, <1>10
  <2>2. known = DOMAIN w.idMap BY <2>1, NoRows DEF Stands, Tabled
  <2>3. Pays(w, <<>>, <<>>, known, errors)
    <3>1. w.payments = {} /\ w.ingested = 0 BY <1>3, <1>5, <1>10
    <3>2. IsFiniteSet({}) /\ Cardinality({}) = 0 BY FS_EmptySet
    <3>3. DOMAIN <<>> = {} OBVIOUS
    <3>4. \A a, n : ~Held(w, <<>>, a, n) BY <3>1, <3>3 DEF Held
    <3> QED BY <3>1, <3>2, <3>3, <3>4 DEF Pays
  <2>4. /\ pc # "ended" /\ pc' \in {"payments", "commit"}
        /\ UNCHANGED <<slice, got, known, cancel, result>>
        /\ pbatch' \in Seq(StoredPayments) /\ Len(pbatch') < PaymentBatch
        /\ paid' \in Seq(PaymentRows) /\ creditCount' = Cardinality(known)
    BY <1>1, <1>2, <1>10, <2>2
  <2>5. Stands(Writer', <<>>, got, known) /\ Pays(Writer', pbatch', paid', known, errors')
    BY <1>1, <1>3, <1>10, <2>1, <2>3
  <2> QED BY <1>7, <1>10, <2>4, <2>5, PaymentsGoOn
<1> QED BY <1>8, <1>9, <1>10

(* A payment row: push_payment, and a flush when the batch is full.        *)
LEMMA PaymentRowKeeps ==
  ASSUME PipeInv, PaymentRow
  PROVE  PipeInv' /\ Follows
<1> DEFINE rows(row) == IF PaymentAccepted(row)
                        THEN Append(pbatch, [row EXCEPT !.number = ParseNumber(@)]) ELSE pbatch
           full(row) == Full(rows(row), PaymentBatch)
           writer(row) == IF full(row) THEN FlushPayments(Writer, rows(row)) ELSE Writer
           left(row) == IF full(row) THEN <<>> ELSE rows(row)
<1>1. PICK row \in PaymentRows :
        /\ pc = "payments" /\ paid' = Append(paid, row)
        /\ errors' = errors \cup PaymentErrors(row)
        /\ Continue(writer(row), batch, left(row), Len(paid') % PollEvery = 0, "payments")
        /\ UNCHANGED <<slice, known, got, creditCount, cancel>>
  BY DEF PaymentRow
<1> DEFINE w == writer(row)
           poll == Len(paid') % PollEvery = 0
<1>2. /\ known \subseteq Accounts /\ cancel \in BOOLEAN
      /\ got \in Seq(CreditRows) /\ paid \in Seq(PaymentRows) /\ pbatch \in Seq(StoredPayments)
  BY DEF PipeInv, PipeType, TypeOK
<1>3. /\ batch = <<>> /\ Stands(Writer, <<>>, got, known)
      /\ creditCount = Cardinality(known) /\ Pays(Writer, pbatch, paid, known, errors)
  BY <1>1 DEF PipeInv, CreditsInv, PaymentsInv
<1>4. Tabled(Writer) /\ known = DOMAIN Writer.credits BY <1>3, NoRows DEF Stands
<1>5. rows(row) \in Seq(StoredPayments) /\ Pays(Writer, rows(row), paid', known, errors')
  BY <1>1, <1>2, <1>3, RowPays DEF PaymentAccepted, PaymentErrors
<1>6. paid' \in Seq(PaymentRows) /\ IsPrefix(paid, paid') BY <1>1, <1>2, OneRowMore
<1>7. IsPrefix(got, got') BY <1>1, <1>2, StartsWithItself
<1>8. left(row) \in Seq(StoredPayments) /\ Len(left(row)) < PaymentBatch
  <2> HIDE DEF rows
  <2> QED BY <1>5, BatchAssumption, PendingIsShort
<1>9. /\ IsWriter(w) /\ w.ok \in BOOLEAN
      /\ w.ok => Stands(w, <<>>, got, known) /\ Pays(w, left(row), paid', known, errors')
  <2> HIDE DEF rows
  <2>1. CASE full(row)
    <3>1. w = FlushPayments(Writer, rows(row)) /\ left(row) = <<>> BY <2>1
    <3>2. IsFiniteSet(Writer.payments) /\ Writer.ingested = Cardinality(Writer.payments)
      BY <1>3 DEF Pays
    <3> HIDE DEF w, left, full
    <3>3. /\ w.ok \in BOOLEAN /\ IsWriter(w)
          /\ w.ok => /\ w.credits = Writer.credits /\ w.idMap = Writer.idMap
                     /\ w.lastId = Writer.lastId
      BY <1>5, <3>1, <3>2, WriterIs, PaymentsAreFlushed
    <3>4. w.ok => Stands(w, <<>>, got, known) BY <1>3, <3>3 DEF Stands, Tabled
    <3>5. w.ok => Pays(w, <<>>, paid', known, errors')
      BY <1>4, <1>5, <3>1, WriterIs, FlushPays
    <3> QED BY <3>1, <3>3, <3>4, <3>5
  <2>2. CASE ~full(row)
    <3>1. w = Writer /\ left(row) = rows(row) BY <2>2
    <3> HIDE DEF w, left, full
    <3> QED BY <1>3, <1>5, <3>1, WriterIs
  <2> QED BY <2>1, <2>2
<1> HIDE DEF w, left, rows, full, writer
<1>10. Continue(w, batch, left(row), poll, "payments") BY <1>1 DEF w
<1> HIDE DEF poll
<1>11. \/ \E how \in Reference!Endings : End(how, 0)
       \/ /\ w.ok /\ Writer' = w
          /\ pc' = "payments" /\ UNCHANGED result /\ batch' = batch /\ pbatch' = left(row)
  BY <1>9, <1>10, ContinueSplits
<1>12. CASE \E how \in Reference!Endings : End(how, 0)
  <2>1. /\ pc # "ended" /\ UNCHANGED slice /\ cancel' \in BOOLEAN
        /\ known' \subseteq Accounts /\ got' \in Seq(CreditRows)
    BY <1>1, <1>2
  <2> QED BY <1>6, <1>7, <1>12, <2>1, EndsKeep
<1>13. CASE /\ w.ok /\ Writer' = w
            /\ pc' = "payments" /\ UNCHANGED result /\ batch' = batch /\ pbatch' = left(row)
  <2>1. /\ pc # "ended" /\ pc' \in {"payments", "commit"}
        /\ UNCHANGED <<slice, got, known, cancel, result>>
        /\ batch' = <<>> /\ creditCount' = Cardinality(known)
    BY <1>1, <1>3, <1>13
  <2>2. Stands(Writer', <<>>, got, known) /\ Pays(Writer', pbatch', paid', known, errors')
    BY <1>9, <1>13
  <2>3. pbatch' \in Seq(StoredPayments) /\ Len(pbatch') < PaymentBatch BY <1>8, <1>13
  <2> QED BY <1>6, <2>1, <2>2, <2>3, PaymentsGoOn
<1> QED BY <1>11, <1>12, <1>13

(* The end of the payment stream.                                          *)
LEMMA PaymentsEndKeeps ==
  ASSUME PipeInv, PaymentsEnd
  PROVE  PipeInv' /\ Follows
<1>1. /\ pc = "payments" /\ Continue(Writer, batch, pbatch, TRUE, "commit")
      /\ UNCHANGED <<slice, known, errors, got, paid, creditCount, cancel>>
  BY DEF PaymentsEnd
<1>2. /\ known \subseteq Accounts /\ cancel \in BOOLEAN
      /\ got \in Seq(CreditRows) /\ paid \in Seq(PaymentRows)
      /\ pbatch \in Seq(StoredPayments) /\ Len(pbatch) < PaymentBatch
  BY DEF PipeInv, PipeType, TypeOK
<1>3. /\ batch = <<>> /\ Stands(Writer, <<>>, got, known)
      /\ creditCount = Cardinality(known) /\ Pays(Writer, pbatch, paid, known, errors)
  BY <1>1 DEF PipeInv, CreditsInv, PaymentsInv
<1>4. IsPrefix(got, got') /\ IsPrefix(paid, paid') BY <1>1, <1>2, StartsWithItself
<1>5. \/ \E how \in Reference!Endings : End(how, 0)
      \/ /\ Writer' = Writer
         /\ pc' = "commit" /\ UNCHANGED result /\ batch' = batch /\ pbatch' = pbatch
  <2> DEFINE w == Writer
  <2>1. IsWriter(w) /\ w.ok \in BOOLEAN BY WriterIs
  <2>2. Continue(w, batch, pbatch, TRUE, "commit") BY <1>1
  <2>3. \/ \E how \in Reference!Endings : End(how, 0)
        \/ /\ w.ok /\ Writer' = w
           /\ pc' = "commit" /\ UNCHANGED result /\ batch' = batch /\ pbatch' = pbatch
    BY <2>1, <2>2, ContinueSplits
  <2> QED BY <2>3
<1>6. CASE \E how \in Reference!Endings : End(how, 0)
  <2>1. /\ pc # "ended" /\ UNCHANGED slice /\ cancel' \in BOOLEAN
        /\ known' \subseteq Accounts /\ got' \in Seq(CreditRows) /\ paid' \in Seq(PaymentRows)
    BY <1>1, <1>2
  <2> QED BY <1>4, <1>6, <2>1, EndsKeep
<1>7. CASE /\ Writer' = Writer
           /\ pc' = "commit" /\ UNCHANGED result /\ batch' = batch /\ pbatch' = pbatch
  <2>1. /\ pc # "ended" /\ pc' \in {"payments", "commit"}
        /\ UNCHANGED <<slice, got, known, cancel, result>>
        /\ batch' = <<>> /\ creditCount' = Cardinality(known)
        /\ paid' \in Seq(PaymentRows)
        /\ pbatch' \in Seq(StoredPayments) /\ Len(pbatch') < PaymentBatch
    BY <1>1, <1>2, <1>3, <1>7
  <2>2. Stands(Writer', <<>>, got, known) /\ Pays(Writer', pbatch', paid', known, errors')
    BY <1>1, <1>3, <1>7
  <2> QED BY <1>4, <2>1, <2>2, PaymentsGoOn
<1> QED BY <1>5, <1>6, <1>7

(* A commit that reaches the server: the two last flushes, and the whole   *)
(* slice in one step, whether it is answered or not.                       *)
LEMMA CommittedKeeps ==
  ASSUME PipeInv, pc = "commit", UNCHANGED <<known, got, paid, creditCount, cancel>>,
         FlushPayments(FlushCredits(Writer, batch), pbatch).ok,
         slice' = Committed(FlushPayments(FlushCredits(Writer, batch), pbatch)),
         NEW how \in Reference!Replaced, NEW n, End(how, n), errors \subseteq errors',
         how = "ok" => n = FlushPayments(FlushCredits(Writer, batch), pbatch).ingested
  PROVE  PipeInv' /\ Follows
<1> DEFINE v == FlushCredits(Writer, batch)
           w == FlushPayments(v, pbatch)
<1>1. /\ pc = "commit" /\ w.ok /\ slice' = Committed(w) /\ errors \subseteq errors'
      /\ UNCHANGED <<known, got, paid, creditCount, cancel>>
      /\ End(how, n) /\ (how = "ok" => n = w.ingested)
  OBVIOUS
<1>2. /\ known \subseteq Accounts /\ cancel \in BOOLEAN
      /\ got \in Seq(CreditRows) /\ paid \in Seq(PaymentRows)
      /\ batch \in Seq(StoredCredits) /\ pbatch \in Seq(StoredPayments)
  BY DEF PipeInv, PipeType, TypeOK
<1>3. /\ batch = <<>> /\ Stands(Writer, batch, got, known)
      /\ creditCount = Cardinality(known) /\ Pays(Writer, pbatch, paid, known, errors)
  BY <1>1 DEF PipeInv, CreditsInv, PaymentsInv
<1>4. Tabled(Writer) /\ known = DOMAIN Writer.credits BY <1>3, NoRows DEF Stands
<1>5. how # "running" /\ how \in Reference!Replaced BY DEF Reference!Replaced
<1>6. /\ v.ok \in BOOLEAN /\ IsWriter(v)
      /\ v.ok => /\ Tabled(v) /\ v.payments = Writer.payments /\ v.ingested = Writer.ingested
                 /\ DOMAIN v.credits = DOMAIN Writer.credits \cup AccountsOf(batch)
                 /\ \A a \in DOMAIN Writer.credits : v.idMap[a] = Writer.idMap[a]
  BY <1>2, <1>4, WriterIs, CreditsAreFlushed
<1>7. v.ok = TRUE
  <2> HIDE DEF v
  <2>1. ASSUME ~v.ok PROVE FALSE
    <3>1. w = [v EXCEPT !.ok = FALSE] BY <2>1 DEF FlushPayments
    <3>2. w.ok = FALSE BY <1>6, <3>1 DEF IsWriter
    <3> QED BY <1>1, <3>2
  <2> QED BY <1>6, <2>1
<1>8. Stands(v, <<>>, got, known) BY <1>2, <1>3, <1>7, WriterIs, FlushStands
<1>9. Pays(v, pbatch, paid, known, errors)
  <2> HIDE DEF v
  <2> QED BY <1>3, <1>4, <1>6, <1>7, PaysKeep
<1> HIDE DEF v
<1>10. known = DOMAIN v.credits BY <1>8, NoRows DEF Stands
<1>11. IsFiniteSet(v.payments) /\ v.ingested = Cardinality(v.payments) BY <1>9 DEF Pays
<1>12. w.credits = v.credits /\ w.idMap = v.idMap /\ w.lastId = v.lastId
  BY <1>1, <1>2, <1>6, <1>7, <1>11, PaymentsAreFlushed
<1>13. Pays(w, <<>>, paid, known, errors)
  BY <1>1, <1>2, <1>6, <1>7, <1>9, <1>10, FlushPays
<1> HIDE DEF w
<1>14. Stands(w, <<>>, got, known) BY <1>8, <1>12 DEF Stands, Tabled
<1> DEFINE credited == Reference!NormalCredits(got)
           normal == Reference!NormalPayments(credited, paid)
<1>15. /\ Committed(w) = [credits |-> credited, payments |-> normal]
       /\ DOMAIN credited = known /\ Cardinality(Committed(w).payments) = w.ingested
  BY <1>2, <1>13, <1>14, CommitIsNormal
<1>16. /\ pc' = "ended" /\ result' = how /\ credits' = <<>> /\ idMap' = <<>>
       /\ batch' = <<>> /\ pbatch' = <<>> /\ (how = "ok" => ingested' = w.ingested)
       /\ slice' = Committed(w) /\ errors \subseteq errors'
  BY <1>1 DEF End
<1>17. \A p \in normal : p[1] \in known
  BY <1>15 DEF Reference!NormalPayments
<1>18. \A i \in DOMAIN paid : paid[i].account \in known \/ [phase |-> "payments", row |-> i] \in errors
  BY <1>13 DEF Pays
<1>19. slice' = Reference!Normal /\ Reference!Normal' = Reference!Normal
  BY <1>1, <1>15, <1>16 DEF Reference!Normal
<1> HIDE DEF credited, normal
<1>20. DOMAIN slice.credits' = known /\ slice.payments' = normal
  BY <1>15, <1>16
<1>21. PipeType'
  <2>1. DOMAIN <<>> = {} /\ Len(<<>>) = 0 /\ \A T : <<>> \in Seq(T) BY NoRows
  <2>2. Len(batch') < CreditBatch /\ Len(pbatch') < PaymentBatch BY <1>16, <2>1, BatchAssumption
  <2>3. DOMAIN slice.credits' \subseteq Accounts /\ \A p \in slice.payments' : p[1] \in Accounts
    BY <1>2, <1>17, <1>20
  <2>4. TypeOK' BY <1>1, <1>2, <1>5, <1>16, <2>1, <2>2, <2>3 DEF TypeOK
  <2> QED BY <1>1, <1>2, <1>16, <2>1, <2>4 DEF PipeType
<1>22. CreditsInv' /\ PaymentsInv' BY <1>16 DEF CreditsInv, PaymentsInv
<1>23. DoneInv'
  <2>1. creditCount' = Cardinality(DOMAIN slice.credits') BY <1>1, <1>3, <1>20
  <2>2. how = "ok" => ingested' = Cardinality(slice.payments') BY <1>15, <1>16
  <2>3. \A i \in DOMAIN paid' : \/ paid'[i].account \in DOMAIN slice.credits'
                                \/ [phase |-> "payments", row |-> i] \in errors'
    BY <1>1, <1>16, <1>18, <1>20
  <2> QED BY <1>16, <1>19, <2>1, <2>2, <2>3 DEF DoneInv
<1>24. Reference!Replace BY <1>1, <1>5, <1>16, <1>19, RunsOn DEF Reference!Replace
<1> QED BY <1>21, <1>22, <1>23, <1>24 DEF PipeInv, Follows, Reference!Next

(* The commit: the two last flushes, and the whole slice in one step, or a *)
(* run that failed.                                                        *)
LEMMA CommitKeeps ==
  ASSUME PipeInv, Commit
  PROVE  PipeInv' /\ Follows
<1> DEFINE w == FlushPayments(FlushCredits(Writer, batch), pbatch)
<1>1. /\ pc = "commit"
      /\ UNCHANGED <<known, got, paid, creditCount, cancel>>
      /\ IF w.ok THEN End("ok", w.ingested) /\ slice' = Committed(w) /\ UNCHANGED errors
         ELSE End("failed", 0) /\ UNCHANGED slice
  BY DEF Commit
<1>2. /\ known \subseteq Accounts /\ cancel \in BOOLEAN
      /\ got \in Seq(CreditRows) /\ paid \in Seq(PaymentRows)
  BY DEF PipeInv, PipeType, TypeOK
<1>3. IsPrefix(got, got') /\ IsPrefix(paid, paid') BY <1>1, <1>2, StartsWithItself
<1>4. CASE ~w.ok
  <2>1. /\ pc # "ended" /\ UNCHANGED slice /\ cancel' \in BOOLEAN /\ End("failed", 0)
        /\ known' \subseteq Accounts /\ got' \in Seq(CreditRows) /\ paid' \in Seq(PaymentRows)
    BY <1>1, <1>2, <1>4
  <2>2. "failed" \in Reference!Endings BY DEF Reference!Endings
  <2> QED BY <1>3, <2>1, <2>2, EndsKeep
<1>5. CASE w.ok
  <2>1. End("ok", w.ingested) /\ slice' = Committed(w) /\ errors \subseteq errors' BY <1>1, <1>5
  <2>2. "ok" \in Reference!Replaced BY DEF Reference!Replaced
  <2> QED BY <1>1, <1>5, <2>1, <2>2, CommittedKeeps
<1> QED BY <1>4, <1>5

(* The commit of which only the server knows.                              *)
LEMMA CommitUnackedKeeps ==
  ASSUME PipeInv, CommitUnacked
  PROVE  PipeInv' /\ Follows
<1> DEFINE w == FlushPayments(FlushCredits(Writer, batch), pbatch)
<1>1. /\ pc = "commit" /\ UNCHANGED <<known, got, paid, creditCount, cancel>>
      /\ w.ok /\ slice' = Committed(w) /\ End("unacked", 0) /\ errors \subseteq errors'
  BY DEF CommitUnacked
<1>2. "unacked" \in Reference!Replaced /\ "unacked" # "ok" BY DEF Reference!Replaced
<1> QED BY <1>1, <1>2, CommittedKeeps

-----------------------------------------------------------------------------
(* The run.                                                                *)

(* The first state.                                                        *)
LEMMA InitInv ==
  ASSUME Init
  PROVE  PipeInv /\ Reference!Init
<1>1. /\ pc = "begin" /\ result = "running" /\ slice \in OldSlices
      /\ credits = <<>> /\ payments = {} /\ idMap = <<>> /\ lastId = 0
      /\ batch = <<>> /\ pbatch = <<>> /\ known = {} /\ got = <<>> /\ paid = <<>>
      /\ ingested = 0 /\ cancel = FALSE
  BY DEF Init
<1>2. DOMAIN <<>> = {} /\ Len(<<>>) = 0 /\ \A T : <<>> \in Seq(T) BY NoRows
<1>3. DOMAIN slice.credits \subseteq Accounts /\ \A p \in slice.payments : p[1] \in Accounts
  <2>1. CASE slice = [credits |-> <<>>, payments |-> {}] BY <1>2, <2>1
  <2>2. CASE slice = [credits |-> [a \in Accounts |-> "old"], payments |-> Accounts \X {"old"}]
    BY <2>2
  <2> QED BY <1>1, <2>1, <2>2 DEF OldSlices
<1>4. Len(batch) < CreditBatch /\ Len(pbatch) < PaymentBatch BY <1>1, <1>2, BatchAssumption
<1>5. TypeOK BY <1>1, <1>2, <1>3, <1>4 DEF TypeOK
<1>6. PipeType BY <1>1, <1>2, <1>5 DEF PipeType
<1>7. Stands(Writer, batch, got, known)
  <2>1. Tabled(Writer) BY <1>1, <1>2, WriterIs DEF Tabled
  <2>2. known = AccountsOf(got) \ {"blank"} /\ known = DOMAIN Writer.credits \cup AccountsOf(batch)
    BY <1>1, <1>2, NoRows, WriterIs
  <2> QED BY <1>1, <2>1, <2>2 DEF Stands
<1>8. CreditsInv BY <1>1, <1>7 DEF CreditsInv
<1>9. PaymentsInv /\ DoneInv BY <1>1 DEF PaymentsInv, DoneInv, Reference!Replaced
<1>10. Reference!Init BY <1>1 DEF Reference!Init
<1> QED BY <1>6, <1>8, <1>9, <1>10 DEF PipeInv

(* Every step keeps the invariant and is one the reference allows.         *)
LEMMA StepInv ==
  ASSUME PipeInv, [Next]_vars
  PROVE  PipeInv' /\ Follows
<1>1. CASE UNCHANGED vars
  <2>1. UNCHANGED <<pc, result, slice, credits, payments, idMap, lastId, batch, pbatch, ingested,
                    known, errors, got, paid, creditCount, cancel>>
    BY <1>1 DEF vars, txnVars
  <2>2. TypeOK' BY <2>1 DEF PipeInv, PipeType, TypeOK
  <2>3. PipeType' BY <2>1, <2>2 DEF PipeInv, PipeType
  <2>4. Writer' = Writer BY <2>1 DEF Writer
  <2>5. CreditsInv' BY <2>1, <2>4 DEF PipeInv, CreditsInv
  <2>6. PaymentsInv' BY <2>1, <2>4 DEF PipeInv, PaymentsInv
  <2>7. Reference!Normal' = Reference!Normal BY <2>1 DEF Reference!Normal
  <2>8. DoneInv' BY <2>1, <2>7 DEF PipeInv, DoneInv
  <2>9. Follows BY <2>1 DEF Follows, Reference!replaceVars
  <2> QED BY <2>3, <2>5, <2>6, <2>8, <2>9 DEF PipeInv
<1>2. CASE Begin BY <1>2, BeginKeeps
<1>3. CASE Raises BY <1>3, RaisesKeeps
<1>4. CASE CreditRow BY <1>4, CreditRowKeeps
<1>5. CASE CreditsEnd BY <1>5, CreditsEndKeeps
<1>6. CASE PaymentRow BY <1>6, PaymentRowKeeps
<1>7. CASE PaymentsEnd BY <1>7, PaymentsEndKeeps
<1>8. CASE Commit BY <1>8, CommitKeeps
<1>9. CASE CommitFails BY <1>9, CommitFailsKeeps
<1>10. CASE CommitUnacked BY <1>10, CommitUnackedKeeps
<1>11. CASE RequestCancel BY <1>11, RequestCancelKeeps
<1> QED BY <1>1, <1>2, <1>3, <1>4, <1>5, <1>6, <1>7, <1>8, <1>9, <1>10, <1>11 DEF Next

(* The pipeline's invariant: tables, pending rows and log always stand for *)
(* the export read so far (SnapshotWriter, db.rs; run_pipeline).           *)
THEOREM PipeInvariant == Spec => []PipeInv
<1>1. Init => PipeInv BY InitInv
<1>2. PipeInv /\ [Next]_vars => PipeInv' BY StepInv
<1> QED BY <1>1, <1>2, PTL DEF Spec

(* run_pipeline keeps its types, and the rows pending in credit_batch and  *)
(* payment_batch stay fewer than the sizes of db.rs.                       *)
THEOREM TypesHold == Spec => []TypeOK
<1>1. PipeInv => TypeOK BY DEF PipeInv, PipeType
<1> QED BY <1>1, PipeInvariant, PTL

(* Whatever the batch and chunk sizes, flush_payments never meets an       *)
(* account without an id ("missing credit id", db.rs:339), and the id it   *)
(* uses is the one of the account's row.                                   *)
THEOREM KnownAccountsAlwaysHaveIds == Spec => []KnownAccountsHaveIds
<1>1. ASSUME PipeInv PROVE KnownAccountsHaveIds
  <2>1. CASE pc = "ended"
    <3>1. DOMAIN idMap = {} BY <1>1, <2>1 DEF PipeInv, CreditsInv
    <3> QED BY <2>1, <3>1 DEF KnownAccountsHaveIds
  <2>2. CASE pc # "ended"
    <3>1. Stands(Writer, batch, got, known) /\ (pc \in {"payments", "commit"} => batch = <<>>)
      BY <1>1, <2>2 DEF PipeInv, CreditsInv
    <3>2. /\ DOMAIN idMap = DOMAIN credits /\ \A a \in DOMAIN idMap : credits[a].id = idMap[a]
          /\ known = DOMAIN credits \cup AccountsOf(batch)
      BY <3>1, WriterIs DEF Stands, Tabled
    <3>3. pc \in {"payments", "commit"} => known = DOMAIN idMap BY <3>1, <3>2, NoRows
    <3> QED BY <3>2, <3>3 DEF KnownAccountsHaveIds
  <2> QED BY <2>1, <2>2
<1> QED BY <1>1, PipeInvariant, PTL

(* The credits and payments a finished run reports (PipelineResult) are    *)
(* the rows of the slice it committed.                                     *)
THEOREM CountsAlwaysMatchSlice == Spec => []CountsMatchSlice
<1>1. PipeInv => CountsMatchSlice
  BY DEF PipeInv, DoneInv, CountsMatchSlice, Reference!Replaced
<1> QED BY <1>1, PipeInvariant, PTL

(* parse_payment_row: a payment of the export is in the committed slice,   *)
(* or the error log names its row.                                         *)
THEOREM NoPaymentIsLost == Spec => []NoPaymentLost
<1>1. ASSUME PipeInv, result \in Reference!Replaced, NEW i \in DOMAIN paid
      PROVE  \/ <<paid[i].account, ParseNumber(paid[i].number)>> \in slice.payments
             \/ [phase |-> "payments", row |-> i] \in errors
  <2>1. /\ slice = Reference!Normal
        /\ paid[i].account \in DOMAIN slice.credits \/ [phase |-> "payments", row |-> i] \in errors
    BY <1>1 DEF PipeInv, DoneInv
  <2>2. slice.payments = Reference!NormalPayments(slice.credits, paid)
    BY <2>1 DEF Reference!Normal
  <2>3. slice.payments = {<<paid[k].account, ParseNumber(paid[k].number)>> :
                            k \in {j \in DOMAIN paid : paid[j].account \in DOMAIN slice.credits}}
    BY <2>2 DEF Reference!NormalPayments, Reference!StoredNumber, ParseNumber
  <2> QED BY <2>1, <2>3
<1>2. PipeInv => NoPaymentLost BY <1>1 DEF NoPaymentLost
<1> QED BY <1>2, PipeInvariant, PTL

(* The run implements SliceReplace: whatever the batch and chunk sizes,    *)
(* the duplicates, the polls and the failures, the slice stays what it was *)
(* until one step makes it exactly the normalised export                   *)
(* (pipeline.rs:234-390, db.rs begin .. commit).                           *)
THEOREM RunReplacesTheSlice == Spec => FullSliceReplace
<1>1. Init => Reference!Init BY InitInv
<1>2. PipeInv /\ [Next]_vars => [Reference!Next]_(Reference!replaceVars) BY StepInv DEF Follows
<1> QED BY <1>1, <1>2, PipeInvariant, PTL DEF Spec, FullSliceReplace, Reference!Spec
=============================================================================

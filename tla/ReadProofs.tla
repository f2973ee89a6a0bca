------------------------------ MODULE ReadProofs ------------------------------
(***************************************************************************)
(* Proofs about DataPath: the pages and the profiles of the slice.  The    *)
(* rows of every version are finitely many and have an account each        *)
(* (RowsInv), so they have an order (RowsAreOrdered) and the pages cut it  *)
(* into pieces (PageIsPiece); their fields are numbers or null             *)
(* (FieldsInv), so their values can be added up and ranked by frequency    *)
(* (SumsExist, ValuesAreRanked).  An answer whose queries saw one version  *)
(* is that version's (AnsweredInv for pages, ProfilesInv for profiles).    *)
(***************************************************************************)
EXTENDS SliceProofs, FiniteSetTheorems, NaturalsInduction, WellFoundedInduction

(* Rows that can be put in the order of their accounts.                    *)
Keyed(credits) ==
  /\ IsFiniteSet(credits)
  /\ \A c \in credits : c.account \in Nat
  /\ \A c, d \in credits : c.account = d.account => c = d

-----------------------------------------------------------------------------
(* The order of the rows, and its pages.                                   *)

(* A row with a smaller account has fewer rows before it.                  *)
LEMMA FewerBefore ==
  ASSUME NEW credits, Keyed(credits), NEW c \in credits, NEW d \in credits, c.account < d.account
  PROVE  /\ Cardinality(Before(credits, c)) \in Nat /\ Cardinality(Before(credits, d)) \in Nat
         /\ Cardinality(Before(credits, c)) < Cardinality(Before(credits, d))
<1>1. IsFiniteSet(credits) /\ \A e \in credits : e.account \in Nat BY DEF Keyed
<1>2. /\ Before(credits, c) \in SUBSET Before(credits, d) /\ Before(credits, d) \in SUBSET credits
      /\ c \in Before(credits, d) /\ c \notin Before(credits, c)
  BY <1>1 DEF Before
<1>3. IsFiniteSet(Before(credits, d)) BY <1>1, <1>2, FS_Subset
<1>4. /\ IsFiniteSet(Before(credits, c))
      /\ Cardinality(Before(credits, c)) <= Cardinality(Before(credits, d))
      /\ Cardinality(Before(credits, d)) = Cardinality(Before(credits, c)) =>
           Before(credits, d) = Before(credits, c)
  BY <1>2, <1>3, FS_Subset
<1>5. Cardinality(Before(credits, c)) \in Nat /\ Cardinality(Before(credits, d)) \in Nat
  BY <1>3, <1>4, FS_CardinalityType
<1> QED BY <1>2, <1>4, <1>5

(* order_by: every place has its row, and accounts grow with the places.   *)
LEMMA RowsAreOrdered ==
  ASSUME NEW credits, Keyed(credits)
  PROVE  LET n == Cardinality(credits)
             rows == InOrder(credits)
         IN  /\ n \in Nat /\ rows \in [1..n -> credits]
             /\ \A i, j \in 1..n : i < j => rows[i].account < rows[j].account
             /\ \A c \in credits : \E i \in 1..n : rows[i] = c
<1> DEFINE n == Cardinality(credits)
           rank(c) == Cardinality(Before(credits, c)) + 1
           place == [c \in credits |-> rank(c)]
           rows == InOrder(credits)
<1>1. /\ IsFiniteSet(credits) /\ n \in Nat /\ \A c \in credits : c.account \in Nat
      /\ \A c, d \in credits : c.account = d.account => c = d
  BY FS_CardinalityType DEF Keyed
<1>2. ASSUME NEW c \in credits PROVE rank(c) \in 1..n
  <2>1. Before(credits, c) \in SUBSET credits /\ c \notin Before(credits, c)
    BY <1>1 DEF Before
  <2>2. /\ IsFiniteSet(Before(credits, c))
        /\ Cardinality(Before(credits, c)) <= n
        /\ n = Cardinality(Before(credits, c)) => credits = Before(credits, c)
    BY <1>1, <2>1, FS_Subset
  <2>3. Cardinality(Before(credits, c)) \in Nat BY <2>2, FS_CardinalityType
  <2> QED BY <1>1, <2>1, <2>2, <2>3
<1>3. \A c, d \in credits : c.account < d.account => rank(c) < rank(d)
  BY <1>2, FewerBefore
<1>4. \A c, d \in credits : rank(c) = rank(d) => c = d
  <2> SUFFICES ASSUME NEW c \in credits, NEW d \in credits, rank(c) = rank(d) PROVE c = d
    OBVIOUS
  <2>1. c.account = d.account
    <3>1. rank(c) \in Nat /\ rank(d) \in Nat BY <1>1, <1>2
    <3>2. c.account \in Nat /\ d.account \in Nat BY <1>1
    <3>3. ~(c.account < d.account) /\ ~(d.account < c.account) BY <1>3, <3>1
    <3> QED BY <3>2, <3>3
  <2> QED BY <1>1, <2>1
<1>5. place \in Injection(credits, 1..n)
  <2>1. place \in [credits -> 1..n] BY <1>2
  <2>2. \A c, d \in credits : place[c] = place[d] => c = d BY <1>4
  <2> HIDE DEF place
  <2> QED BY <2>1, <2>2 DEF Injection, IsInjective
<1>6. IsFiniteSet(1..n) /\ Cardinality(1..n) = n
  BY <1>1, FS_Interval
<1>7. place \in Surjection(credits, 1..n)
  <2> HIDE DEF place
  <2> QED BY <1>5, <1>6, FS_Injection
<1>8. \A i \in 1..n : \E c \in credits : rank(c) = i
  BY <1>7 DEF Surjection
<1>9. rows = [i \in 1..n |-> CHOOSE c \in credits : Cardinality(Before(credits, c)) = i - 1]
  BY DEF InOrder
<1>10. \A i \in 1..n : rows[i] \in credits /\ rank(rows[i]) = i
  <2> SUFFICES ASSUME NEW i \in 1..n PROVE rows[i] \in credits /\ rank(rows[i]) = i
    OBVIOUS
  <2>1. PICK c \in credits : rank(c) = i BY <1>8
  <2>2. Cardinality(Before(credits, c)) \in Int
    <3>1. Before(credits, c) \in SUBSET credits BY DEF Before
    <3>2. IsFiniteSet(Before(credits, c)) BY <1>1, <3>1, FS_Subset
    <3> QED BY <3>2, FS_CardinalityType
  <2>3. \E d \in credits : Cardinality(Before(credits, d)) = i - 1 BY <2>1, <2>2
  <2>4. rows[i] = CHOOSE d \in credits : Cardinality(Before(credits, d)) = i - 1 BY <1>9
  <2>5. rows[i] \in credits /\ Cardinality(Before(credits, rows[i])) = i - 1 BY <2>3, <2>4
  <2> QED BY <2>5
<1> HIDE DEF rank
<1>11. rows \in [1..n -> credits] BY <1>9, <1>10
<1>12. ASSUME NEW i \in 1..n, NEW j \in 1..n, i < j PROVE rows[i].account < rows[j].account
  <2>1. rows[i].account \in Nat /\ rows[j].account \in Nat BY <1>1, <1>10
  <2>2. ~(rows[j].account < rows[i].account) BY <1>3, <1>10, <1>12
  <2>3. rows[i].account # rows[j].account BY <1>1, <1>10, <1>12
  <2> QED BY <2>1, <2>2, <2>3
<1>13. ASSUME NEW c \in credits PROVE \E i \in 1..n : rows[i] = c
  <2>1. rank(c) \in 1..n BY <1>2
  <2>2. rows[rank(c)] = c BY <1>4, <1>10, <2>1
  <2> QED BY <2>1, <2>2
<1> QED BY <1>1, <1>11, <1>12, <1>13

(* The rows before a page.                                                 *)
Offset(page, size) == (page - 1) * size

(* A page is the piece of the order between two offsets.                   *)
LEMMA PageIsPiece ==
  ASSUME NEW credits, Keyed(credits), NEW page \in Nat \ {0}, NEW size \in Nat \ {0}
  PROVE  LET n == Cardinality(credits)
             offset == Offset(page, size)
             stop == Least(offset + size, n)
             shown == PageRows(credits, page, size)
         IN  /\ offset \in Nat /\ stop \in Nat /\ stop <= n /\ stop <= offset + size
             /\ Len(shown) = (IF offset < stop THEN stop - offset ELSE 0)
             /\ DOMAIN shown = 1..Len(shown)
             /\ \A i \in DOMAIN shown :
                  offset + i \in 1..stop /\ shown[i] = InOrder(credits)[offset + i]
<1> DEFINE n == Cardinality(credits)
           rows == InOrder(credits)
           offset == Offset(page, size)
           stop == Least(offset + size, n)
           shown == PageRows(credits, page, size)
<1>1. n \in Nat /\ rows \in [1..n -> credits] BY RowsAreOrdered
<1>2. offset \in Nat
  <2>1. \A p, s \in Nat : p * s \in Nat OBVIOUS
  <2> QED BY <2>1 DEF Offset
<1>3. shown = SubSeq(rows, offset + 1, stop) BY DEF PageRows, Offset
<1> HIDE DEF n, rows, offset, shown
<1>4. stop \in Nat /\ stop <= n /\ stop <= offset + size BY <1>1, <1>2 DEF Least
<1> HIDE DEF stop
<1>5. rows \in Seq(credits) /\ Len(rows) = n
  <2>1. rows \in Seq(credits) BY <1>1, SeqDef
  <2> QED BY <1>1, <2>1, LenProperties
<1>6. \A i \in (offset + 1)..stop : rows[i] \in credits BY <1>1, <1>2, <1>4
<1>7. /\ shown \in Seq(credits)
      /\ Len(shown) = (IF offset + 1 <= stop THEN stop - (offset + 1) + 1 ELSE 0)
      /\ \A i \in 1..(stop - (offset + 1) + 1) : shown[i] = rows[offset + 1 + i - 1]
  <2>1. offset + 1 \in Int /\ stop \in Int BY <1>2, <1>4
  <2> QED BY <1>3, <1>5, <1>6, <2>1, SubSeqProperties
<1>8. Len(shown) = IF offset < stop THEN stop - offset ELSE 0 BY <1>2, <1>4, <1>7
<1>9. DOMAIN shown = 1..Len(shown) BY <1>7, LenProperties
<1>10. ASSUME NEW i \in DOMAIN shown
       PROVE  offset + i \in 1..stop /\ shown[i] = rows[offset + i]
  <2>1. i \in Nat /\ i > 0 /\ offset < stop /\ i <= stop - offset BY <1>2, <1>4, <1>8, <1>9
  <2>2. i \in 1..(stop - (offset + 1) + 1) /\ offset + 1 + i - 1 = offset + i BY <1>2, <1>4, <2>1
  <2> QED BY <1>2, <1>4, <1>7, <2>1, <2>2
<1> QED BY <1>2, <1>4, <1>8, <1>9, <1>10 DEF n, rows, offset, stop, shown

(* The last page begins before the end of the rows and reaches it.         *)
LEMMA LastPage ==
  ASSUME NEW total \in Nat, total > 0, NEW size \in Nat \ {0}
  PROVE  LET pages == TotalPages(total, size)
         IN  /\ pages \in Nat /\ pages > 0
             /\ (pages - 1) * size < total /\ total <= pages * size
<1> DEFINE q == (total + size - 1) \div size
<1>1. q \in Nat /\ q * size <= total + size - 1 /\ total + size - 1 < (q + 1) * size
  OBVIOUS
<1>2. TotalPages(total, size) = q BY DEF TotalPages
<1> HIDE DEF q
<1>3. (q - 1) * size = q * size - size /\ (q + 1) * size = q * size + size
  BY <1>1
<1>4. (q - 1) * size < total /\ total <= q * size
  <2> DEFINE m == q * size
  <2>1. m \in Int BY <1>1
  <2>2. m <= total + size - 1 /\ total + size - 1 < m + size BY <1>1, <1>3
  <2> HIDE DEF m
  <2>3. m - size < total /\ total <= m BY <2>1, <2>2
  <2> QED BY <1>3, <2>3 DEF m
<1>5. q # 0 BY <1>4
<1> QED BY <1>1, <1>2, <1>4, <1>5

(* Pages do not overlap: each ends where the next begins.                  *)
LEMMA OffsetsGrow ==
  ASSUME NEW page \in Nat \ {0}, NEW later \in Nat \ {0}, page < later, NEW size \in Nat \ {0}
  PROVE  Offset(page, size) + size <= Offset(later, size)
<1>1. (page - 1) * size + size = page * size OBVIOUS
<1>2. \A a, b, s \in Nat : a <= b => a * s <= b * s OBVIOUS
<1>3. page * size <= (later - 1) * size BY <1>2
<1> QED BY <1>1, <1>3 DEF Offset

(* Walking the pages shows every row once, in order.                       *)
LEMMA PagesCover ==
  ASSUME NEW credits, Keyed(credits), NEW size \in Nat \ {0}
  PROVE  LET pages == 1..TotalPages(Cardinality(credits), size)
             shown(page) == PageRows(credits, page, size)
         IN  /\ \A page \in pages : Len(shown(page)) \in 1..size
             /\ \A c \in credits : \E page \in pages : c \in Range(shown(page))
             /\ \A page, later \in pages :
                  \A i \in DOMAIN shown(page), j \in DOMAIN shown(later) :
                    page < later \/ (page = later /\ i < j) =>
                      shown(page)[i].account < shown(later)[j].account
<1> DEFINE n == Cardinality(credits)
           rows == InOrder(credits)
           q == TotalPages(n, size)
           pages == 1..q
           shown(page) == PageRows(credits, page, size)
           offset(page) == Offset(page, size)
<1>1. /\ n \in Nat /\ rows \in [1..n -> credits]
      /\ \A i, j \in 1..n : i < j => rows[i].account < rows[j].account
      /\ \A c \in credits : \E i \in 1..n : rows[i] = c
  BY RowsAreOrdered
<1>2. CASE n = 0
  <2>1. q = 0 BY <1>2 DEF TotalPages
  <2>2. pages = {} BY <2>1
  <2>3. credits = {} BY <1>1, <1>2
  <2> HIDE DEF n, pages
  <2> QED BY <2>2, <2>3 DEF n, pages
<1>3. CASE n > 0
  <2>1. q \in Nat /\ q > 0 /\ offset(q) < n /\ n <= q * size BY <1>1, <1>3, LastPage DEF Offset
  <2>2. ASSUME NEW page \in pages
        PROVE  /\ offset(page) \in Nat /\ offset(page) < n /\ Len(shown(page)) \in 1..size
               /\ DOMAIN shown(page) = 1..Len(shown(page))
               /\ \A i \in DOMAIN shown(page) :
                    offset(page) + i \in 1..n /\ shown(page)[i] = rows[offset(page) + i]
               /\ \A k \in 1..n :
                    offset(page) < k /\ k <= offset(page) + size => rows[k] \in Range(shown(page))
    <3> DEFINE o == offset(page)
               stop == Least(o + size, n)
               piece == shown(page)
    <3>1. page \in Nat \ {0} /\ page <= q BY <2>1
    <3>2. /\ o \in Nat /\ stop \in Nat /\ stop <= n /\ stop <= o + size
          /\ Len(piece) = (IF o < stop THEN stop - o ELSE 0)
          /\ DOMAIN piece = 1..Len(piece)
          /\ \A i \in DOMAIN piece : o + i \in 1..stop /\ piece[i] = rows[o + i]
      BY <3>1, PageIsPiece
    <3>3. o <= offset(q)
      <4>1. \A a, b, s \in Nat : a <= b => a * s <= b * s OBVIOUS
      <4> QED BY <2>1, <3>1, <4>1 DEF Offset
    <3>4. offset(q) \in Nat
      <4>1. \A p, s \in Nat : p * s \in Nat OBVIOUS
      <4> QED BY <2>1, <4>1 DEF Offset
    <3> HIDE DEF n, rows, q, offset, shown, o, piece
    <3>5. o < n BY <1>1, <2>1, <3>2, <3>3, <3>4
    <3>6. stop = (IF o + size < n THEN o + size ELSE n) BY DEF Least
    <3>7. o < stop BY <1>1, <3>2, <3>5, <3>6
    <3> HIDE DEF stop
    <3>8. Len(piece) \in 1..size /\ Len(piece) = stop - o BY <3>2, <3>7
    <3>9. ASSUME NEW i \in DOMAIN piece PROVE o + i \in 1..n /\ piece[i] = rows[o + i]
      BY <1>1, <3>2
    <3>10. ASSUME NEW k \in 1..n, o < k, k <= o + size PROVE rows[k] \in Range(piece)
      <4>1. k <= stop BY <1>1, <3>2, <3>6, <3>10
      <4>2. k - o \in 1..(stop - o) /\ o + (k - o) = k BY <1>1, <3>2, <3>10, <4>1
      <4>3. k - o \in DOMAIN piece BY <3>2, <3>8, <4>2
      <4>4. piece[k - o] = rows[k] BY <3>9, <4>2, <4>3
      <4> QED BY <4>3, <4>4 DEF Range
    <3> QED BY <3>2, <3>5, <3>8, <3>9, <3>10 DEF o, piece
  <2>3. ASSUME NEW c \in credits PROVE \E page \in pages : c \in Range(shown(page))
    <3>1. PICK k \in 1..n : rows[k] = c BY <1>1
    <3> DEFINE p == TotalPages(k, size)
    <3>2. k \in Nat /\ k > 0 BY <1>1
    <3>3. p \in Nat /\ p > 0 /\ offset(p) < k /\ k <= p * size BY <3>2, LastPage DEF Offset
    <3> HIDE DEF p
    <3>4. p <= q
      <4>1. CASE q < p
        <5>1. offset(q + 1) <= offset(p)
          <6>1. \A a, b, s \in Nat : a <= b => a * s <= b * s OBVIOUS
          <6> QED BY <2>1, <3>3, <4>1, <6>1 DEF Offset
        <5>2. offset(q + 1) = q * size BY <2>1 DEF Offset
        <5>3. q * size \in Int /\ offset(p) \in Int BY <2>1, <3>3 DEF Offset
        <5> HIDE DEF offset, q, n
        <5> QED BY <1>1, <2>1, <3>1, <3>3, <5>1, <5>2, <5>3
      <4> QED BY <2>1, <3>3, <4>1
    <3>5. p \in pages BY <2>1, <3>3, <3>4
    <3>6. offset(p) + size = p * size BY <3>3 DEF Offset
    <3> HIDE DEF pages, n, shown, offset
    <3> QED BY <2>2, <3>1, <3>3, <3>5, <3>6
  <2>4. ASSUME NEW page \in pages, NEW later \in pages,
               NEW i \in DOMAIN shown(page), NEW j \in DOMAIN shown(later),
               page < later \/ (page = later /\ i < j)
        PROVE  shown(page)[i].account < shown(later)[j].account
    <3> DEFINE o == offset(page)
               p == offset(later)
    <3>1. /\ o \in Nat /\ Len(shown(page)) \in 1..size /\ i \in 1..Len(shown(page))
          /\ o + i \in 1..n /\ shown(page)[i] = rows[o + i]
      BY <2>2
    <3>2. /\ p \in Nat /\ Len(shown(later)) \in 1..size /\ j \in 1..Len(shown(later))
          /\ p + j \in 1..n /\ shown(later)[j] = rows[p + j]
      BY <2>2
    <3>3. page < later => o + size <= p
      <4>1. page \in Nat \ {0} /\ later \in Nat \ {0} BY <2>1
      <4> QED BY <4>1, OffsetsGrow
    <3> HIDE DEF n, rows, shown, offset, pages
    <3>4. o + i < p + j
      <4> HIDE DEF o, p
      <4>1. CASE page < later BY <3>1, <3>2, <3>3, <4>1
      <4>2. CASE page = later /\ i < j
        <5>1. o = p BY <4>2 DEF o, p
        <5> QED BY <3>1, <3>2, <4>2, <5>1
      <4> QED BY <2>4, <4>1, <4>2
    <3> QED BY <1>1, <3>1, <3>2, <3>4
  <2> HIDE DEF shown, offset, pages
  <2> QED BY <2>2, <2>3, <2>4 DEF shown, pages
<1> QED BY <1>1, <1>2, <1>3

(* The first account of a set is its minimum.                              *)
LEMMA MinIs ==
  ASSUME NEW S, NEW x \in S, S \subseteq Nat, \A y \in S : x <= y
  PROVE  Min(S) = x
<1>1. \E z \in S : \A y \in S : z <= y OBVIOUS
<1>2. Min(S) \in S /\ \A y \in S : Min(S) <= y BY <1>1 DEF Min
<1>3. Min(S) <= x /\ x <= Min(S) /\ x \in Nat /\ Min(S) \in Nat BY <1>2
<1> HIDE DEF Min
<1> QED BY <1>3

(* The last one is its maximum.                                            *)
LEMMA MaxIs ==
  ASSUME NEW S, NEW x \in S, S \subseteq Nat, \A y \in S : x >= y
  PROVE  Max(S) = x
<1>1. \E z \in S : \A y \in S : z >= y OBVIOUS
<1>2. Max(S) \in S /\ \A y \in S : Max(S) >= y BY <1>1 DEF Max
<1>3. Max(S) >= x /\ x >= Max(S) /\ x \in Nat /\ Max(S) \in Nat BY <1>2
<1> HIDE DEF Max
<1> QED BY <1>3

(* The page that is shown is a piece of the order, and what the pagination *)
(* says lies before and after it does.                                     *)
LEMMA PageIsExact ==
  ASSUME NEW credits, Keyed(credits), NEW ask, ask.page \in Nat \ {0}, ask.size \in Nat \ {0}
  PROVE  LET total == Cardinality(credits)
             pages == TotalPages(total, ask.size)
             page == PageShown(ask, total)
             accounts == {c.account : c \in credits}
             shown == {row.account : row \in Range(PageRows(credits, page, ask.size))}
         IN  /\ credits # {} <=> accounts # {}
             /\ shown = {} <=> accounts = {}
             /\ pages = 0 <=> accounts = {}
             /\ shown # {} =>
                  /\ page > 1 <=> \E a \in accounts : a < Min(shown)
                  /\ pages > 0 /\ page < pages <=> \E a \in accounts : a > Max(shown)
                  /\ \A a \in accounts : a \in shown \/ a < Min(shown) \/ a > Max(shown)
<1> DEFINE n == Cardinality(credits)
           size == ask.size
           rows == InOrder(credits)
           pages == TotalPages(n, size)
           page == PageShown(ask, n)
           o == Offset(page, size)
           stop == Least(o + size, n)
           piece == PageRows(credits, page, size)
           accounts == {c.account : c \in credits}
           shown == {row.account : row \in Range(piece)}
<1>1. /\ n \in Nat /\ rows \in [1..n -> credits]
      /\ \A i, j \in 1..n : i < j => rows[i].account < rows[j].account
      /\ \A c \in credits : \E i \in 1..n : rows[i] = c
      /\ \A c \in credits : c.account \in Nat
  BY RowsAreOrdered DEF Keyed
<1>2. credits # {} <=> accounts # {} OBVIOUS
<1>3. n = 0 => pages = 0 BY DEF TotalPages
<1>4. n > 0 => /\ pages \in Nat /\ pages > 0 /\ (pages - 1) * size < n /\ n <= pages * size
               /\ page \in Nat \ {0} /\ page <= pages
  <2> HIDE DEF n
  <2>1. n > 0 => pages \in Nat /\ pages > 0 /\ (pages - 1) * size < n /\ n <= pages * size
    BY <1>1, LastPage
  <2> HIDE DEF size
  <2> QED BY <2>1 DEF PageShown, size
<1>5. n = 0 => page \in Nat \ {0}
  BY <1>3 DEF PageShown
<1>6. page \in Nat \ {0}
  <2> HIDE DEF n, page, pages
  <2> QED BY <1>1, <1>4, <1>5
<1>7. /\ o \in Nat /\ stop \in Nat /\ stop <= n /\ stop <= o + size
      /\ Len(piece) = (IF o < stop THEN stop - o ELSE 0)
      /\ DOMAIN piece = 1..Len(piece)
      /\ \A i \in DOMAIN piece : o + i \in 1..stop /\ piece[i] = rows[o + i]
  <2>1. size \in Nat \ {0} OBVIOUS
  <2> HIDE DEF page, size
  <2> QED BY <1>6, <2>1, PageIsPiece
<1>8. n = 0 <=> credits = {}
  <2>1. n = 0 => credits = {} BY <1>1
  <2>2. credits = {} => n = 0 BY FS_EmptySet
  <2> QED BY <2>1, <2>2
<1>9. CASE n = 0
  <2>1. Len(piece) = 0 BY <1>7, <1>9
  <2>2. Range(piece) = {} BY <1>7, <2>1 DEF Range
  <2>3. shown = {} BY <2>2
  <2>4. accounts = {} BY <1>2, <1>8, <1>9
  <2>5. pages = 0 BY <1>3, <1>9
  <2> HIDE DEF shown, accounts, pages, page
  <2> QED BY <1>2, <2>3, <2>4, <2>5 DEF shown, accounts, pages, page
<1>10. CASE n > 0
  <2>0. stop = (IF o + size < n THEN o + size ELSE n) BY DEF Least
  <2>1. o < n
    <3>1. \A a, b, s \in Nat : a <= b => a * s <= b * s OBVIOUS
    <3>2. o <= (pages - 1) * size BY <1>4, <1>10, <3>1 DEF Offset
    <3>3. (pages - 1) * size \in Int BY <1>4, <1>10
    <3> HIDE DEF o, n, pages, size
    <3> QED BY <1>1, <1>4, <1>7, <1>10, <3>2, <3>3
  <2>2. page > 1 <=> o > 0
    <3>1. page = 1 => o = 0 BY DEF Offset
    <3>2. page > 1 => o >= size
      <4>1. \A a, s \in Nat : a >= 1 => a * s >= s OBVIOUS
      <4> QED BY <1>6, <4>1 DEF Offset
    <3> HIDE DEF o, page
    <3> QED BY <1>6, <1>7, <3>1, <3>2
  <2>3. pages > 0 /\ page < pages <=> stop < n
    <3>1. ASSUME page < pages PROVE o + size < n
      <4>1. o + size = page * size BY <1>6 DEF Offset
      <4>2. page * size <= (pages - 1) * size
        <5>1. \A a, b, s \in Nat : a <= b => a * s <= b * s OBVIOUS
        <5> QED BY <1>4, <1>6, <1>10, <3>1, <5>1
      <4>3. page * size \in Int /\ (pages - 1) * size \in Int BY <1>4, <1>6, <1>10
      <4> HIDE DEF o, n, pages, page, size
      <4> QED BY <1>1, <1>4, <1>10, <4>1, <4>2, <4>3
    <3>2. ASSUME page = pages PROVE n <= o + size
      <4>1. o + size = page * size BY <1>6 DEF Offset
      <4> HIDE DEF n, pages, page, size, o
      <4> QED BY <1>4, <1>10, <3>2, <4>1
    <3> HIDE DEF o, n, pages, page, stop, size
    <3> QED BY <1>1, <1>4, <1>6, <1>7, <1>10, <2>0, <3>1, <3>2 DEF size
  <2> HIDE DEF n, pages, page, o, stop, rows, piece
  <2>4. o < stop /\ Len(piece) = stop - o
    <3>1. size \in Nat \ {0} OBVIOUS
    <3> HIDE DEF size
    <3> QED BY <1>1, <1>7, <2>0, <2>1, <3>1
  <2>5. ASSUME NEW k \in 1..n PROVE rows[k].account \in Nat /\ rows[k].account \in accounts
    BY <1>1
  <2>6. ASSUME NEW k \in (o + 1)..stop PROVE rows[k].account \in shown
    <3>1. k - o \in DOMAIN piece /\ o + (k - o) = k BY <1>7, <2>4
    <3>2. piece[k - o] = rows[k] BY <1>7, <3>1
    <3>3. rows[k] \in Range(piece) BY <3>1, <3>2 DEF Range
    <3> QED BY <3>3
  <2>7. ASSUME NEW x \in shown PROVE \E k \in (o + 1)..stop : rows[k].account = x
    <3>1. PICK row \in Range(piece) : row.account = x OBVIOUS
    <3>2. PICK i \in DOMAIN piece : piece[i] = row BY <3>1 DEF Range
    <3>3. i \in 1..(stop - o) /\ o + i \in 1..stop /\ rows[o + i] = row BY <1>7, <2>4, <3>2
    <3>4. o + i \in (o + 1)..stop BY <1>7, <3>3
    <3> QED BY <3>1, <3>3, <3>4
  <2>8. ASSUME NEW a \in accounts PROVE \E k \in 1..n : rows[k].account = a
    BY <1>1
  <2> HIDE DEF shown, accounts
  <2>9. (o + 1)..stop \subseteq 1..n /\ o + 1 \in (o + 1)..stop /\ stop \in (o + 1)..stop
    BY <1>1, <1>7, <2>4
  <2>10. shown \subseteq Nat BY <2>5, <2>7, <2>9
  <2>11. ASSUME NEW i \in 1..n, NEW j \in 1..n, i <= j PROVE rows[i].account <= rows[j].account
    <3>1. CASE i = j BY <2>5, <3>1
    <3>2. CASE i < j BY <1>1, <2>5, <3>2
    <3> QED BY <1>1, <2>11, <3>1, <3>2
  <2>12. Min(shown) = rows[o + 1].account
    <3>1. \A x \in shown : rows[o + 1].account <= x
      <4> SUFFICES ASSUME NEW x \in shown PROVE rows[o + 1].account <= x
        OBVIOUS
      <4>1. PICK k \in (o + 1)..stop : rows[k].account = x BY <2>7
      <4>2. k \in 1..n /\ o + 1 \in 1..n /\ o + 1 <= k BY <1>7, <2>9
      <4> QED BY <2>11, <4>1, <4>2
    <3>2. rows[o + 1].account \in shown BY <2>6, <2>9
    <3> QED BY <2>10, <3>1, <3>2, MinIs
  <2>13. Max(shown) = rows[stop].account
    <3>1. \A x \in shown : rows[stop].account >= x
      <4> SUFFICES ASSUME NEW x \in shown PROVE rows[stop].account >= x
        OBVIOUS
      <4>1. PICK k \in (o + 1)..stop : rows[k].account = x BY <2>7
      <4>2. k \in 1..n /\ stop \in 1..n /\ k <= stop BY <1>7, <2>9
      <4>3. x <= rows[stop].account BY <2>11, <4>1, <4>2
      <4>4. x \in Nat /\ rows[stop].account \in Nat BY <2>5, <2>10, <4>2
      <4> QED BY <4>3, <4>4
    <3>2. rows[stop].account \in shown BY <2>6, <2>9
    <3> QED BY <2>10, <3>1, <3>2, MaxIs
  <2>14. shown # {} /\ accounts # {} BY <2>5, <2>6, <2>9
  <2>15. o > 0 <=> \E a \in accounts : a < Min(shown)
    <3>1. ASSUME o > 0 PROVE \E a \in accounts : a < Min(shown)
      <4>1. o \in 1..n /\ o + 1 \in 1..n /\ o < o + 1 BY <1>1, <1>7, <2>1, <2>9, <3>1
      <4>2. rows[o].account < rows[o + 1].account BY <1>1, <4>1
      <4> QED BY <2>5, <2>12, <4>1, <4>2
    <3>2. ASSUME o = 0, NEW a \in accounts, a < Min(shown) PROVE FALSE
      <4>1. PICK k \in 1..n : rows[k].account = a BY <2>8
      <4>2. o + 1 \in 1..n /\ o + 1 <= k BY <1>1, <2>9, <3>2
      <4>3. rows[o + 1].account <= a /\ rows[o + 1].account \in Nat /\ a \in Nat
        BY <2>5, <2>11, <4>1, <4>2
      <4> QED BY <2>12, <3>2, <4>3
    <3> QED BY <1>7, <3>1, <3>2
  <2>16. stop < n <=> \E a \in accounts : a > Max(shown)
    <3>1. ASSUME stop < n PROVE \E a \in accounts : a > Max(shown)
      <4>1. stop \in 1..n /\ n \in 1..n BY <1>1, <2>9, <3>1
      <4>2. rows[stop].account < rows[n].account BY <1>1, <3>1, <4>1
      <4>3. rows[stop].account \in Nat /\ rows[n].account \in Nat BY <2>5, <4>1
      <4> QED BY <2>5, <2>13, <4>1, <4>2, <4>3
    <3>2. ASSUME stop = n, NEW a \in accounts, a > Max(shown) PROVE FALSE
      <4>1. PICK k \in 1..n : rows[k].account = a BY <2>8
      <4>2. stop \in 1..n /\ k <= stop BY <1>1, <2>9, <3>2
      <4>3. a <= rows[stop].account /\ rows[stop].account \in Nat /\ a \in Nat
        BY <2>5, <2>11, <4>1, <4>2
      <4> QED BY <2>13, <3>2, <4>3
    <3> QED BY <1>1, <1>7, <3>1, <3>2
  <2>17. ASSUME NEW a \in accounts PROVE a \in shown \/ a < Min(shown) \/ a > Max(shown)
    <3>1. PICK k \in 1..n : rows[k].account = a BY <2>8
    <3>2. CASE k \in (o + 1)..stop BY <2>6, <3>1, <3>2
    <3>3. CASE k < o + 1
      <4>1. o + 1 \in 1..n BY <2>9
      <4> QED BY <1>1, <2>12, <3>1, <3>3, <4>1
    <3>4. CASE k > stop
      <4>1. stop \in 1..n /\ stop < k BY <1>7, <2>9, <3>4
      <4>2. rows[stop].account < a /\ rows[stop].account \in Nat /\ a \in Nat
        BY <1>1, <2>5, <3>1, <4>1
      <4> QED BY <2>13, <4>2
    <3> QED BY <1>1, <1>7, <3>2, <3>3, <3>4
  <2>18. pages # 0 BY <1>4, <1>10
  <2> QED BY <1>2, <2>2, <2>3, <2>14, <2>15, <2>16, <2>17, <2>18 DEF n, pages, page, accounts, shown, piece
<1>11. n = 0 \/ n > 0 BY <1>1
<1> HIDE DEF n, size, rows, pages, page, o, stop, piece, accounts, shown
<1> QED BY <1>9, <1>10, <1>11

-----------------------------------------------------------------------------
(* The rows of the slice.                                                  *)

Numbered(rows) == IsFiniteSet(rows) /\ \A c \in rows : c.account \in Nat

(* Every row has the number of an account, and there are finitely many.    *)
RowsInv ==
  /\ Numbered(cred) /\ \A t \in Syncs : Numbered(put[t])
  /\ \A i \in DOMAIN versions : Keyed(versions[i].credits)

(* What readers see of the rows can be put in order.                       *)
LEMMA SliceIsKeyed ==
  ASSUME Numbered(cred), Unique(cred)
  PROVE  Keyed(Slice.credits)
<1> DEFINE bare(c) == [account |-> c.account, num |-> c.num, chr |-> c.chr]
           seen == {bare(c) : c \in cred}
           see == [c \in cred |-> bare(c)]
<1>1. Slice.credits = seen BY DEF Slice, Contents
<1>2. see \in Surjection(cred, seen)
  <2>1. see \in [cred -> seen] OBVIOUS
  <2>2. \A e \in seen : \E c \in cred : see[c] = e OBVIOUS
  <2> HIDE DEF see, seen
  <2> QED BY <2>1, <2>2 DEF Surjection
<1>3. IsFiniteSet(seen)
  <2> HIDE DEF see, seen
  <2> QED BY <1>2, FS_Surjection DEF Numbered
<1>4. \A e \in seen : e.account \in Nat BY DEF Numbered
<1>5. \A e, f \in seen : e.account = f.account => e = f BY DEF Unique
<1> HIDE DEF seen
<1> QED BY <1>1, <1>3, <1>4, <1>5 DEF Keyed

(* A row that is due has the number of an account.                         *)
LEMMA DueIsNumbered ==
  ASSUME FilesOK, NEW t \in Syncs, WrittenInv(t), tpc[t] = "insert credits", NEW next \in todo[t]
  PROVE  next.row.account \in Nat
<1>1. DueFrom(todo[t], Credits(t), Named(Credits(t))) BY DEF WrittenInv
<1>2. PICK i \in Named(Credits(t)) : next = [at |-> i, row |-> Credits(t)[i]]
  BY <1>1 DEF DueFrom, Placed
<1>3. /\ i \in DOMAIN Received(t, "credits") /\ Received(t, "credits")[i] # Hole
      /\ next.row = Received(t, "credits")[i]
  BY <1>2 DEF Named, Credits
<1>4. "credits" \in Kinds /\ t \in Readers BY ExporterAssumption DEF Kinds, Readers
<1>5. <<>> \in Seq(Pieces("credits")) BY EmptySeq
<1>6. Received(t, "credits") \in Seq(Pieces("credits")) BY <1>4, <1>5 DEF Received, FilesOK
<1>7. Received(t, "credits")[i] \in Pieces("credits") BY <1>3, <1>6, LenProperties, ElementOfSeq
<1>8. PICK u \in Uploads : Received(t, "credits")[i] \in Range(Content[u]["credits"])
  BY <1>3, <1>7 DEF Pieces
<1> QED BY <1>3, <1>8, RowAssumption

(* What a statement does to the rows.                                      *)
LEMMA RowSteps ==
  ASSUME [Next]_dataVars
  PROVE  \/ UNCHANGED <<cred, put, versions>>
         \/ \E t \in Syncs : \/ InsertCredit(t) /\ UNCHANGED <<cred, versions>>
                             \/ TxnCommits(t)
                             \/ TxnFails(t) /\ UNCHANGED <<cred, versions>>
<1>1. CASE UNCHANGED txnVars BY <1>1 DEF txnVars
<1>2. ASSUME NEW t \in Syncs,
             \/ TxnBegins(t) \/ TxnStep(t) \/ TxnFails(t)
             \/ \E rows, blank : CreditsReceived(t, rows, blank) \/ PaymentsReceived(t, rows, blank)
      PROVE  \/ UNCHANGED <<cred, put, versions>>
             \/ InsertCredit(t) /\ UNCHANGED <<cred, versions>>
             \/ TxnCommits(t)
             \/ TxnFails(t) /\ UNCHANGED <<cred, versions>>
  BY <1>2 DEF TxnBegins, TxnStep, TxnFails, CreditsReceived, PaymentsReceived, DeletePayments,
     FindCredits, DeleteCredits, InsertCredit, CreditsFlushed, InsertPayment, PaymentsFlushed
<1> QED BY <1>1, <1>2, TxnSteps

(* Every step keeps the rows in order.                                     *)
LEMMA RowsInduction ==
  ASSUME FilesOK, KeyInv, KeyInv', ReadInv, RowsInv, \A t \in Syncs : WrittenInv(t), [Next]_dataVars
  PROVE  RowsInv'
<1>0. TxnShape BY DEF KeyInv
<1>1. CASE UNCHANGED <<cred, put, versions>> BY <1>1 DEF RowsInv, Numbered
<1>2. ASSUME NEW t \in Syncs, InsertCredit(t), UNCHANGED <<cred, versions>> PROVE RowsInv'
  <2>1. PICK next \in Due(t) :
          LET a == next.row.account
              new == [id |-> IdFor(t, a), account |-> a, num |-> next.row.num, chr |-> next.row.chr]
          IN  /\ \A o \in Others(t) : Mine(o, a) = {}
              /\ DOMAIN put' = Syncs /\ \A o \in Syncs : o # t => put'[o] = put[o]
              /\ put'[t] = {c \in put[t] : c.account # a} \cup {new}
              /\ DOMAIN todo' = Syncs /\ todo'[t] = todo[t] \ {next}
    BY <1>2, Upsert
  <2> DEFINE a == next.row.account
             new == [id |-> IdFor(t, a), account |-> a, num |-> next.row.num, chr |-> next.row.chr]
             kept == {c \in put[t] : c.account # a}
  <2>2. new.account \in Nat
    <3>1. next \in todo[t] /\ tpc[t] = "insert credits" BY <1>2 DEF Due, InsertCredit
    <3> QED BY <3>1, DueIsNumbered
  <2>3. put'[t] = kept \cup {new} /\ \A o \in Syncs : o # t => put'[o] = put[o] BY <2>1
  <2>4. kept \in SUBSET put[t] OBVIOUS
  <2> HIDE DEF new, kept
  <2>5. IsFiniteSet(put[t]) /\ \A c \in put[t] : c.account \in Nat BY DEF RowsInv, Numbered
  <2>6. IsFiniteSet(kept \cup {new}) BY <2>4, <2>5, FS_Subset, FS_AddElement
  <2>7. Numbered(put'[t]) BY <2>2, <2>3, <2>4, <2>5, <2>6 DEF Numbered
  <2>8. \A o \in Syncs : Numbered(put'[o]) BY <2>3, <2>7 DEF RowsInv
  <2> QED BY <1>2, <2>8 DEF RowsInv, Numbered
<1>3. ASSUME NEW t \in Syncs, Over(t) PROVE \A o \in Syncs : Numbered(put'[o])
  <2>1. put'[t] = {} /\ \A o \in Syncs : o # t => put'[o] = put[o] BY <1>0, <1>3, OverEmpties
  <2>2. Numbered({}) BY FS_EmptySet DEF Numbered
  <2> QED BY <2>1, <2>2 DEF RowsInv
<1>4. ASSUME NEW t \in Syncs, TxnFails(t), UNCHANGED <<cred, versions>> PROVE RowsInv'
  <2>1. \A o \in Syncs : Numbered(put'[o]) BY <1>3, <1>4 DEF TxnFails
  <2> QED BY <1>4, <2>1 DEF RowsInv, Numbered
<1>5. ASSUME NEW t \in Syncs, TxnCommits(t) PROVE RowsInv'
  <2> DEFINE rest == {c \in cred : c.id \notin gone[t] \cup Ids(put[t])}
  <2>1. cred' = rest \cup put[t] /\ Over(t) /\ versions' = Append(versions, Contents(cred', pay'))
    BY <1>5 DEF TxnCommits
  <2>2. rest \in SUBSET cred OBVIOUS
  <2> HIDE DEF rest
  <2>3. /\ IsFiniteSet(cred) /\ \A c \in cred : c.account \in Nat
        /\ IsFiniteSet(put[t]) /\ \A c \in put[t] : c.account \in Nat
    BY DEF RowsInv, Numbered
  <2>4. Numbered(cred)'
    <3>1. IsFiniteSet(rest \cup put[t]) BY <2>2, <2>3, FS_Subset, FS_Union
    <3> QED BY <2>1, <2>2, <2>3, <3>1 DEF Numbered
  <2>5. \A o \in Syncs : Numbered(put'[o]) BY <1>3, <2>1
  <2>6. Keyed(Slice.credits)'
    <3>1. Unique(cred)' BY DEF KeyInv
    <3>2. Numbered(cred)' /\ Unique(cred)' => Keyed(Slice.credits)'
      <4>1. Numbered(cred) /\ Unique(cred) => Keyed(Slice.credits) BY SliceIsKeyed
      <4>2. (Numbered(cred) /\ Unique(cred) => Keyed(Slice.credits))' BY SliceIsKeyed, PTL
      <4> QED BY <4>2
    <3> QED BY <2>4, <3>1, <3>2
  <2>7. \A i \in DOMAIN versions' : Keyed(versions'[i].credits)
    <3> DEFINE slice == Slice'
    <3>1. versions' = Append(versions, slice) BY <2>1 DEF Slice
    <3>2. versions \in Seq(Range(versions)) BY DEF ReadInv
    <3>3. Keyed(slice.credits) BY <2>6
    <3> HIDE DEF slice
    <3>4. /\ versions' \in Seq(Range(versions) \cup {slice}) /\ Len(versions') = Len(versions) + 1
          /\ versions'[Len(versions) + 1] = slice /\ \A i \in 1..Len(versions) : versions'[i] = versions[i]
      <4>1. versions \in Seq(Range(versions) \cup {slice}) /\ slice \in Range(versions) \cup {slice}
        BY <3>2, SeqMonotonic
      <4> QED BY <3>1, <4>1, AppendProperties
    <3>5. DOMAIN versions = 1..Len(versions) /\ Len(versions) \in Nat /\ DOMAIN versions' = 1..Len(versions')
      BY <3>2, <3>4, LenProperties
    <3>6. \A i \in 1..(Len(versions) + 1) : i \in 1..Len(versions) \/ i = Len(versions) + 1 BY <3>5
    <3> QED BY <3>3, <3>4, <3>5, <3>6 DEF RowsInv
  <2> QED BY <2>4, <2>5, <2>7 DEF RowsInv, Numbered
<1> QED BY <1>1, <1>2, <1>4, <1>5, RowSteps

(* The rows of an earlier sync have accounts too.                          *)
LEMMA RowsInitial == Init => RowsInv
<1> SUFFICES ASSUME Init PROVE RowsInv
  OBVIOUS
<1>1. PICK old \in OldSlices : cred = old.cred
  BY DEF Init, TxnInit
<1>2. put = [t \in Syncs |-> {}] /\ versions = <<Slice>> BY DEF Init, TxnInit
<1>3. Numbered(cred) BY <1>1, OldSlicesAssumption DEF Numbered
<1>4. Numbered({}) BY FS_EmptySet DEF Numbered
<1>a. KeyInv BY KeyInitial DEF Init
<1>5. Keyed(Slice.credits) BY <1>3, <1>a, SliceIsKeyed DEF KeyInv
<1>6. \A i \in DOMAIN versions : versions[i] = Slice
  <2> DEFINE slice == Slice
  <2> HIDE DEF slice
  <2>1. versions = <<slice>> BY <1>2 DEF slice
  <2>2. \A i \in DOMAIN versions : versions[i] = slice BY <2>1
  <2> QED BY <2>2 DEF slice
<1> QED BY <1>2, <1>3, <1>4, <1>5, <1>6 DEF RowsInv

(* Whatever is asked for, a request goes by a page and a size from 1 on.   *)
LEMMA AskedIsPage ==
  ASSUME NEW ask \in Asks
  PROVE  /\ Asked(ask[1], ask[2]).page \in Nat \ {0}
         /\ Asked(ask[1], ask[2]).size \in Nat \ {0}
<1>1. ask[1] \in Int /\ ask[2] \in Int BY AsksAssumption
<1>2. Asked(ask[1], ask[2]) =
        [page |-> Most(ask[1], 1), size |-> Least(Most(ask[2], 1), MaxPageSize)]
  BY DEF Asked
<1>3. Most(ask[1], 1) \in Nat \ {0} /\ Most(ask[2], 1) \in Nat \ {0} BY <1>1 DEF Most
<1>4. Least(Most(ask[2], 1), MaxPageSize) \in Nat \ {0} BY <1>3, PageAssumption DEF Least
<1> QED BY <1>2, <1>3, <1>4

-----------------------------------------------------------------------------
(* The answers.                                                            *)

(* The version a request's i-th query saw.                                 *)
SeenBy(q, i) == versions[stamps[q][i]]

(* A page request, and what it has been answered so far.                   *)
PageAnswered(q) ==
  LET n == Len(stamps[q])
      a == answer[q]
  IN  /\ asked[q] = <<>> => n = 0
      /\ asked[q] # <<>> => asked[q].page \in Nat \ {0} /\ asked[q].size \in Nat \ {0}
      /\ n >= 1 => a["count"] = Cardinality(SeenBy(q, 1).credits)
      /\ n >= 2 => a["latest"] = (SeenBy(q, 2).credits # {})
      /\ n >= 3 => a["rows"] =
           PageRows(SeenBy(q, 3).credits, PageShown(asked[q], a["count"]), asked[q].size)

AnsweredInv == \A q \in Pagers : PageAnswered(q)

(* A version that was seen stays what it is.                               *)
LEMMA SeenStays ==
  ASSUME ReadInv, NEW q \in Requests, UNCHANGED stamps[q],
         UNCHANGED versions \/ versions' = Append(versions, Slice')
  PROVE  \A i \in 1..Len(stamps[q]) : SeenBy(q, i)' = SeenBy(q, i)
<1>1. stamps[q] \in Seq(1..Len(versions)) /\ versions \in Seq(Range(versions)) BY DEF ReadInv
<1>2. \A i \in 1..Len(stamps[q]) : stamps[q][i] \in 1..Len(versions) BY <1>1, ElementOfSeq
<1>3. \A i \in 1..Len(versions) : versions'[i] = versions[i]
  <2> DEFINE slice == Slice'
  <2> HIDE DEF slice
  <2>1. CASE versions' = Append(versions, slice)
    <3>1. versions \in Seq(Range(versions) \cup {slice}) /\ slice \in Range(versions) \cup {slice}
      BY <1>1, SeqMonotonic
    <3> QED BY <2>1, <3>1, AppendProperties
  <2>2. UNCHANGED versions \/ versions' = Append(versions, slice) BY DEF slice
  <2> QED BY <2>1, <2>2
<1> QED BY <1>2, <1>3 DEF SeenBy

(* A request that is not concerned.                                        *)
LEMMA AnsweredStays ==
  ASSUME ReadInv, NEW q \in Pagers, PageAnswered(q),
         UNCHANGED <<asked[q], answer[q], stamps[q]>>,
         UNCHANGED versions \/ versions' = Append(versions, Slice')
  PROVE  PageAnswered(q)'
<1>1. q \in Requests BY DEF Requests
<1>2. \A i \in 1..Len(stamps[q]) : SeenBy(q, i)' = SeenBy(q, i) BY <1>1, SeenStays
<1>3. Len(stamps[q]) \in Nat
  <2>1. stamps[q] \in Seq(1..Len(versions)) BY <1>1 DEF ReadInv
  <2> QED BY <2>1, LenProperties
<1> DEFINE n == Len(stamps[q])
<1>4. /\ n >= 1 => SeenBy(q, 1)' = SeenBy(q, 1)
      /\ n >= 2 => SeenBy(q, 2)' = SeenBy(q, 2)
      /\ n >= 3 => SeenBy(q, 3)' = SeenBy(q, 3)
  BY <1>2, <1>3
<1> QED BY <1>4 DEF PageAnswered

(* A request begins with nothing answered.                                 *)
LEMMA AskAnswered ==
  ASSUME ReadInv, NEW q \in Pagers, PageAnswered(q), Ask(q)
  PROVE  PageAnswered(q)'
<1>0. q \in Requests BY DEF Requests
<1>1. PICK ask \in Asks :
        asked[q] = <<>> /\ asked' = [asked EXCEPT ![q] = Asked(ask[1], ask[2])]
  BY DEF Ask, ReadStarts
<1>2. asked'[q] = Asked(ask[1], ask[2]) BY <1>0, <1>1 DEF ReadInv
<1>3. asked'[q].page \in Nat \ {0} /\ asked'[q].size \in Nat \ {0} BY <1>2, AskedIsPage
<1>4. Len(stamps[q]) = 0 BY <1>1 DEF PageAnswered
<1>5. stamps' = stamps /\ asked'[q] # <<>>
  <2>1. stamps' = stamps BY DEF Ask, ReadStarts
  <2>2. Asked(ask[1], ask[2]) # <<>>
    <3>1. "page" \in DOMAIN Asked(ask[1], ask[2]) BY DEF Asked
    <3>2. "page" \notin DOMAIN <<>> OBVIOUS
    <3> QED BY <3>1, <3>2
  <2> QED BY <1>2, <2>1, <2>2
<1> QED BY <1>3, <1>4, <1>5 DEF PageAnswered

(* A query answers its part from the newest version.                       *)
LEMMA NextAnswered ==
  ASSUME ReadInv, NEW q \in Pagers, PageAnswered(q), AskNext(q)
  PROVE  PageAnswered(q)'
<1> DEFINE n == Len(stamps[q])
           v == Len(versions)
           part == PagerParts[n + 1]
           value == Query(part, asked[q], answer[q], Slice)
<1>0. q \in Requests /\ Parts(q) = PagerParts BY DEF Requests, Parts
<1>1. /\ asked[q] # <<>> /\ ~Finished(q)
      /\ answer' = [answer EXCEPT ![q] =
           [p \in DOMAIN answer[q] \cup {part} |-> IF p = part THEN value ELSE answer[q][p]]]
      /\ stamps' = [stamps EXCEPT ![q] = Append(stamps[q], v)]
      /\ UNCHANGED <<asked, versions, cred, pay>>
  BY <1>0 DEF AskNext, NextQuery, Seen, txnVars
<1>2. /\ v \in Nat /\ v > 0 /\ versions[v] = Slice
      /\ stamps[q] \in Seq(1..v) /\ n \in Nat
  <2>1. versions \in Seq(Range(versions)) /\ stamps[q] \in Seq(1..v) BY <1>0 DEF ReadInv
  <2> QED BY <2>1, LenProperties DEF ReadInv
<1>3. n \in 0..2
  <2>1. DOMAIN answer[q] = {PagerParts[i] : i \in 1..n} /\ n <= 3
    BY <1>0 DEF ReadInv, PagerParts
  <2>2. n # 3
    <3>1. DOMAIN PagerParts = 1..3 BY DEF PagerParts
    <3> QED BY <1>0, <1>1, <2>1, <3>1 DEF Finished, Range
  <2> HIDE DEF n
  <2> QED BY <1>2, <2>1, <2>2
<1>4. /\ stamps'[q] = Append(stamps[q], v)
      /\ answer'[q] = [p \in DOMAIN answer[q] \cup {part} |-> IF p = part THEN value ELSE answer[q][p]]
  BY <1>0, <1>1 DEF ReadInv
<1>5. /\ Len(stamps'[q]) = n + 1 /\ stamps'[q][n + 1] = v
      /\ \A i \in 1..n : stamps'[q][i] = stamps[q][i]
  <2>1. v \in 1..v BY <1>2
  <2> QED BY <1>2, <1>4, <2>1, AppendProperties
<1>6. /\ versions'[stamps'[q][n + 1]] = Slice
      /\ \A i \in 1..n : versions'[stamps'[q][i]] = SeenBy(q, i)
  <2> HIDE DEF n, v
  <2> QED BY <1>1, <1>2, <1>5 DEF SeenBy
<1>7. answer'[q][part] = value /\ \A p \in DOMAIN answer[q] : p # part => answer'[q][p] = answer[q][p]
  BY <1>4
<1>8. DOMAIN answer[q] = {PagerParts[i] : i \in 1..n} BY <1>0 DEF ReadInv
<1>9. PagerParts[1] = "count" /\ PagerParts[2] = "latest" /\ PagerParts[3] = "rows"
  BY DEF PagerParts
<1>10. /\ n = 0 => value = Cardinality(Slice.credits)
       /\ n = 1 => value = (Slice.credits # {})
       /\ n = 2 => value = PageRows(Slice.credits, PageShown(asked[q], answer[q]["count"]), asked[q].size)
  <2> HIDE DEF n
  <2>1. /\ n = 0 => part = "count"
        /\ n = 1 => part = "latest"
        /\ n = 2 => part = "rows"
    BY <1>9
  <2> HIDE DEF part
  <2> QED BY <2>1 DEF Query
<1> HIDE DEF n, v, part, value
<1>11. /\ asked'[q] = asked[q] /\ asked[q] # <<>>
       /\ asked[q].page \in Nat \ {0} /\ asked[q].size \in Nat \ {0}
  BY <1>1 DEF PageAnswered
<1>12. CASE n = 0
  <2>1. Len(stamps'[q]) = 1 BY <1>5, <1>12
  <2>2. SeenBy(q, 1)' = Slice BY <1>6, <1>12 DEF SeenBy
  <2>3. answer'[q]["count"] = Cardinality(Slice.credits) BY <1>7, <1>9, <1>10, <1>12 DEF part
  <2> QED BY <1>11, <2>1, <2>2, <2>3 DEF PageAnswered
<1>13. CASE n = 1
  <2>1. Len(stamps'[q]) = 2 BY <1>5, <1>13
  <2>2. SeenBy(q, 2)' = Slice /\ SeenBy(q, 1)' = SeenBy(q, 1)
    BY <1>6, <1>13 DEF SeenBy
  <2>3. part = "latest" BY <1>9, <1>13 DEF part
  <2>4. answer'[q]["latest"] = (Slice.credits # {}) BY <1>7, <1>10, <1>13, <2>3
  <2>5. answer'[q]["count"] = answer[q]["count"]
    <3>1. "count" \in DOMAIN answer[q] BY <1>8, <1>9, <1>13
    <3> QED BY <1>7, <2>3, <3>1
  <2>6. answer[q]["count"] = Cardinality(SeenBy(q, 1).credits) BY <1>13 DEF PageAnswered, n
  <2> QED BY <1>11, <2>1, <2>2, <2>4, <2>5, <2>6 DEF PageAnswered
<1>14. CASE n = 2
  <2>1. Len(stamps'[q]) = 3 BY <1>5, <1>14
  <2>2. SeenBy(q, 3)' = Slice /\ SeenBy(q, 1)' = SeenBy(q, 1) /\ SeenBy(q, 2)' = SeenBy(q, 2)
    BY <1>6, <1>14 DEF SeenBy
  <2>3. part = "rows" BY <1>9, <1>14 DEF part
  <2>4. answer'[q]["rows"] =
          PageRows(Slice.credits, PageShown(asked[q], answer[q]["count"]), asked[q].size)
    BY <1>7, <1>10, <1>14, <2>3
  <2>5. answer'[q]["count"] = answer[q]["count"] /\ answer'[q]["latest"] = answer[q]["latest"]
    <3>1. "count" \in DOMAIN answer[q] /\ "latest" \in DOMAIN answer[q] BY <1>8, <1>9, <1>14
    <3> QED BY <1>7, <2>3, <3>1
  <2>6. /\ answer[q]["count"] = Cardinality(SeenBy(q, 1).credits)
        /\ answer[q]["latest"] = (SeenBy(q, 2).credits # {})
    BY <1>14 DEF PageAnswered, n
  <2> QED BY <1>11, <2>1, <2>2, <2>4, <2>5, <2>6 DEF PageAnswered
<1> QED BY <1>3, <1>12, <1>13, <1>14

(* Only the readers' own steps answer anything.                            *)
LEMMA ReadSteps ==
  ASSUME [Next]_dataVars
  PROVE  UNCHANGED readVars \/ \E p \in Requests : Ask(p) \/ AskNext(p)
<1>1. CASE Bank BY <1>1 DEF Bank
<1>2. ASSUME NEW t \in Syncs, Sync(t) PROVE UNCHANGED readVars
  BY <1>2 DEF Sync, SyncBegins, SyncStep, SyncFails, SyncOpens, SyncReads, SyncReadsEnd
<1>3. CASE UNCHANGED dataVars BY <1>3 DEF dataVars
<1> QED BY <1>1, <1>2, <1>3 DEF Next

(* A step leaves the versions alone or adds the slice as it is now.        *)
LEMMA VersionsGrow ==
  ASSUME [Next]_dataVars
  PROVE  UNCHANGED versions \/ versions' = Append(versions, Slice')
<1>1. CASE UNCHANGED txnVars BY <1>1 DEF txnVars
<1>2. ASSUME NEW t \in Syncs,
             \/ TxnBegins(t) \/ TxnStep(t) \/ TxnFails(t)
             \/ \E rows, blank : CreditsReceived(t, rows, blank) \/ PaymentsReceived(t, rows, blank)
      PROVE  UNCHANGED versions \/ versions' = Append(versions, Slice')
  BY <1>2, SliceIsVersion
<1> QED BY <1>1, <1>2, TxnSteps

(* Every step keeps the answers what they are answers of.                  *)
LEMMA AnsweredInduction ==
  ASSUME ReadInv, AnsweredInv, [Next]_dataVars
  PROVE  AnsweredInv'
<1> SUFFICES ASSUME NEW q \in Pagers PROVE PageAnswered(q)'
  BY DEF AnsweredInv
<1>0. /\ q \in Requests /\ PageAnswered(q)
      /\ DOMAIN asked = Requests /\ DOMAIN answer = Requests /\ DOMAIN stamps = Requests
  BY DEF AnsweredInv, Requests, ReadInv
<1>1. ASSUME UNCHANGED readVars PROVE PageAnswered(q)'
  <2>1. UNCHANGED versions \/ versions' = Append(versions, Slice') BY VersionsGrow
  <2>2. UNCHANGED <<asked[q], answer[q], stamps[q]>> BY <1>1 DEF readVars
  <2> QED BY <1>0, <2>1, <2>2, AnsweredStays
<1>2. ASSUME NEW p \in Requests, Ask(p) \/ AskNext(p) PROVE PageAnswered(q)'
  <2>1. CASE p = q BY <1>0, <1>2, <2>1, AskAnswered, NextAnswered
  <2>2. CASE p # q
    <3>1. UNCHANGED versions BY <1>2 DEF Ask, AskNext, ReadStarts, NextQuery, txnVars
    <3>2. UNCHANGED <<asked[q], answer[q], stamps[q]>>
      BY <1>0, <1>2, <2>2 DEF Ask, AskNext, ReadStarts, NextQuery
    <3> QED BY <1>0, <3>1, <3>2, AnsweredStays
  <2> QED BY <2>1, <2>2
<1> QED BY <1>1, <1>2, ReadSteps

(* Before a request nothing is answered.                                   *)
LEMMA AnsweredInitial == Init => AnsweredInv
<1> SUFFICES ASSUME Init, NEW q \in Pagers PROVE PageAnswered(q)
  BY DEF AnsweredInv
<1>1. asked[q] = <<>> /\ stamps[q] = <<>> BY DEF Init, ReadInit, Requests
<1>2. Len(stamps[q]) = 0 BY <1>1
<1> QED BY <1>1, <1>2 DEF PageAnswered

(* The invariants the pages rest on, together.                             *)
LEMMA PagesAlways == Spec => [](BankInv /\ SliceInv /\ ReadInv /\ RowsInv /\ AnsweredInv)
<1>1. Init => ReadInv /\ RowsInv /\ AnsweredInv BY ReadInitial, RowsInitial, AnsweredInitial
<1>2. /\ BankInv /\ SliceInv /\ (BankInv /\ SliceInv)' /\ ReadInv /\ RowsInv /\ AnsweredInv
      /\ [Next]_dataVars
      => (ReadInv /\ RowsInv /\ AnsweredInv)'
  <2> SUFFICES ASSUME BankInv, SliceInv, SliceInv', ReadInv, RowsInv, AnsweredInv, [Next]_dataVars
               PROVE  ReadInv' /\ RowsInv' /\ AnsweredInv'
    OBVIOUS
  <2>1. FilesOK /\ KeyInv /\ KeyInv' /\ \A t \in Syncs : WrittenInv(t) BY DEF BankInv, SliceInv
  <2> QED BY <2>1, ReadInduction, RowsInduction, AnsweredInduction
<1> QED BY <1>1, <1>2, SliceAlways, PTL DEF Spec

-----------------------------------------------------------------------------
(* The pages.                                                              *)

(* Whatever size is asked for, the pages the answer announces show every   *)
(* account once, in order, and none of them is empty (warehouse.py:48-65). *)
THEOREM EveryRowIsReachable == Spec => []EveryRowReachable
<1>1. SliceInv /\ RowsInv => EveryRowReachable
  <2> SUFFICES ASSUME SliceInv, RowsInv PROVE EveryRowReachable
    OBVIOUS
  <2>1. Keyed(Slice.credits) BY SliceIsKeyed DEF SliceInv, KeyInv, RowsInv
  <2>2. \A ask \in Asks : Asked(ask[1], ask[2]).size \in Nat \ {0} BY AskedIsPage
  <2> QED BY <2>1, <2>2, PagesCover DEF EveryRowReachable
<1> QED BY <1>1, PagesAlways, PTL

(* A page during which no sync committed is one piece of one slice, and    *)
(* what its pagination says of the rows before and after it holds          *)
(* (warehouse.py:51-79).                                                   *)
THEOREM QuietPagesAreExact == Spec => []QuietPageIsExact
<1>1. ReadInv /\ RowsInv /\ AnsweredInv => QuietPageIsExact
  <2> SUFFICES ASSUME ReadInv, RowsInv, AnsweredInv, NEW q \in Pagers, Quiet(q)
               PROVE  LET accounts == {c.account : c \in ReadSlice(q).credits}
                          shown == {row.account : row \in Range(answer[q]["rows"])}
                      IN  /\ answer[q]["latest"] <=> accounts # {}
                          /\ shown = {} <=> accounts = {}
                          /\ Pagination(q).total_pages = 0 <=> accounts = {}
                          /\ shown # {} =>
                               /\ Pagination(q).has_previous <=> \E a \in accounts : a < Min(shown)
                               /\ Pagination(q).has_next <=> \E a \in accounts : a > Max(shown)
                               /\ \A a \in accounts : a \in shown \/ a < Min(shown) \/ a > Max(shown)
    BY DEF QuietPageIsExact
  <2> DEFINE credits == ReadSlice(q).credits
             ask == asked[q]
             total == Cardinality(credits)
             rows == PageRows(credits, PageShown(ask, total), ask.size)
  <2>1. q \in Requests /\ Parts(q) = PagerParts BY DEF Requests, Parts
  <2>2. /\ stamps[q] \in Seq(1..Len(versions)) /\ versions \in Seq(Range(versions))
        /\ Len(stamps[q]) <= 3 /\ DOMAIN answer[q] = {PagerParts[i] : i \in 1..Len(stamps[q])}
    BY <2>1 DEF ReadInv, PagerParts
  <2>3. Len(stamps[q]) = 3
    <3> DEFINE n == Len(stamps[q])
    <3>1. n \in Nat /\ n <= 3 BY <2>2, LenProperties
    <3>2. /\ PagerParts[1] = "count" /\ PagerParts[2] = "latest" /\ PagerParts[3] = "rows"
          /\ DOMAIN PagerParts = 1..3
      BY DEF PagerParts
    <3>3. "rows" \in DOMAIN answer[q] BY <2>1, <3>2 DEF Quiet, Finished, Range
    <3>4. PICK i \in 1..n : PagerParts[i] = "rows" BY <2>2, <3>3
    <3> HIDE DEF n
    <3>5. i = 3
      <4>1. i \in 1..3 BY <3>1
      <4>2. i # 1 /\ i # 2 BY <3>2, <3>4
      <4> QED BY <4>1, <4>2
    <3>6. n = 3 BY <3>1, <3>4, <3>5
    <3> QED BY <3>6 DEF n
  <2>4. DOMAIN stamps[q] = 1..3 /\ \A i \in 1..3 : stamps[q][i] \in 1..Len(versions)
    BY <2>2, <2>3, LenProperties, ElementOfSeq
  <2>5. \A i \in 1..3 : SeenBy(q, i) = ReadSlice(q)
    BY <2>4 DEF Quiet, SeenBy, ReadSlice
  <2>6. ReadSlice(q) = versions[stamps[q][1]] /\ stamps[q][1] \in DOMAIN versions
    <3>1. DOMAIN versions = 1..Len(versions) BY <2>2, LenProperties
    <3> QED BY <2>4, <2>5, <3>1 DEF SeenBy
  <2>7. Keyed(credits) BY <2>6 DEF RowsInv
  <2>8. /\ ask.page \in Nat \ {0} /\ ask.size \in Nat \ {0}
        /\ answer[q]["count"] = total /\ answer[q]["latest"] = (credits # {}) /\ answer[q]["rows"] = rows
    <3>1. PageAnswered(q) BY DEF AnsweredInv
    <3>2. asked[q] # <<>> BY <2>3, <3>1 DEF PageAnswered
    <3> QED BY <2>3, <2>5, <3>1, <3>2 DEF PageAnswered
  <2>9. LET pages == TotalPages(total, ask.size)
            page == PageShown(ask, total)
        IN  /\ Pagination(q).total_pages = pages
            /\ Pagination(q).has_previous = (page > 1)
            /\ Pagination(q).has_next = (pages > 0 /\ page < pages)
    BY <2>8 DEF Pagination
  <2> HIDE DEF credits, ask
  <2>10. LET pages == TotalPages(total, ask.size)
             page == PageShown(ask, total)
             accounts == {c.account : c \in credits}
             shown == {row.account : row \in Range(rows)}
         IN  /\ credits # {} <=> accounts # {}
             /\ shown = {} <=> accounts = {}
             /\ pages = 0 <=> accounts = {}
             /\ shown # {} =>
                  /\ page > 1 <=> \E a \in accounts : a < Min(shown)
                  /\ pages > 0 /\ page < pages <=> \E a \in accounts : a > Max(shown)
                  /\ \A a \in accounts : a \in shown \/ a < Min(shown) \/ a > Max(shown)
    BY <2>7, <2>8, PageIsExact
  <2> QED BY <2>8, <2>9, <2>10 DEF credits
<1> QED BY <1>1, PagesAlways, PTL

-----------------------------------------------------------------------------
(* Numbers.                                                                *)

(* A set that holds 0, and n + 1 whenever it holds n, holds every number.  *)
LEMMA NumbersInduction ==
  ASSUME NEW S, 0 \in S, \A n \in Nat : n \in S => n + 1 \in S
  PROVE  \A n \in Nat : n \in S
<1> SUFFICES ASSUME NEW n \in Nat, n \notin S PROVE FALSE OBVIOUS
<1> DEFINE T == {i \in Nat : i \notin S}
<1>1. T \subseteq Nat /\ T # {} OBVIOUS
<1>2. PICK x \in T : \A y \in T : ~(<<y, x>> \in OpToRel(<, Nat))
  BY <1>1, NatLessThanWellFounded, WFMin
<1>3. \A y \in T : ~(y < x) BY <1>2 DEF OpToRel
<1>4. x # 0 /\ x \in Nat OBVIOUS
<1>5. x - 1 \in Nat /\ x - 1 < x /\ (x - 1) + 1 = x BY <1>4
<1>6. x - 1 \in S BY <1>3, <1>5
<1> QED BY <1>5, <1>6

(* A fraction that lies between two whole numbers is rounded between them. *)
LEMMA RoundedBetween ==
  ASSUME NEW a \in Int, NEW b \in Nat, b > 0, NEW low \in Int, NEW high \in Int,
         low * b <= a, a <= high * b
  PROVE  Rounded(a, b) \in Int /\ One * low <= Rounded(a, b) /\ Rounded(a, b) <= One * high
<1> DEFINE x == 10000 * a
           q == x \div b
           r == x % b
           l == 10000 * low
           h == 10000 * high
<1>1. x \in Int /\ l \in Int /\ h \in Int OBVIOUS
<1>2. l * b <= x /\ x <= h * b
  <2>1. l * b = 10000 * (low * b) /\ h * b = 10000 * (high * b) OBVIOUS
  <2>2. low * b \in Int /\ high * b \in Int OBVIOUS
  <2> QED BY <2>1, <2>2
<1> HIDE DEF x, l, h
<1>3. q \in Int /\ r \in Int /\ 0 <= r /\ r < b /\ x = q * b + r BY <1>1
<1>4. Rounded(a, b) = IF 2 * r > b \/ (2 * r = b /\ q % 2 = 1) THEN q + 1 ELSE q
  BY DEF Rounded, x, One
<1> HIDE DEF q, r
<1>5. \A m, n \in Int : m * b < n * b => m < n
  <2>1. SUFFICES ASSUME NEW m \in Int, NEW n \in Int, n <= m PROVE n * b <= m * b
    OBVIOUS
  <2>2. \A d \in Nat : d * b \in Nat OBVIOUS
  <2>3. (m - n) * b \in Nat BY <2>1, <2>2
  <2>4. (m - n) * b = m * b - n * b OBVIOUS
  <2>5. m * b \in Int /\ n * b \in Int OBVIOUS
  <2> QED BY <2>3, <2>4, <2>5
<1>6. q * b \in Int /\ l * b \in Int /\ h * b \in Int /\ (q + 1) * b = q * b + b BY <1>1, <1>3
<1>7. l <= q
  <2>1. l * b < (q + 1) * b BY <1>1, <1>2, <1>3, <1>6
  <2>2. l < q + 1 BY <1>1, <1>3, <1>5, <2>1
  <2> QED BY <1>1, <1>3, <2>2
<1>8. q <= h /\ (r > 0 => q + 1 <= h)
  <2>1. r > 0 => q * b < h * b BY <1>1, <1>2, <1>3, <1>6
  <2>2. q * b < (h + 1) * b
    <3>1. (h + 1) * b = h * b + b BY <1>1
    <3> QED BY <1>1, <1>2, <1>3, <1>6, <3>1
  <2>3. q < h + 1 /\ (r > 0 => q < h) BY <1>1, <1>3, <1>5, <2>1, <2>2
  <2> QED BY <1>1, <1>3, <2>3
<1>9. r = 0 => ~(2 * r > b) /\ 2 * r # b OBVIOUS
<1> QED BY <1>1, <1>3, <1>4, <1>7, <1>8, <1>9 DEF l, h, One

-----------------------------------------------------------------------------
(* Sums.                                                                   *)

Chosen(s) == CHOOSE x \in s : TRUE

(* Sums of the weights of the parts of S, taken off one by one.            *)
SumsOf(g, S, w) ==
  \A s \in SUBSET S :
    g[s] = IF s = {} THEN 0 ELSE w[Chosen(s)] + g[s \ {Chosen(s)}]

LEMMA OneLess ==
  ASSUME NEW S, IsFiniteSet(S), NEW s \in SUBSET S, s # {}
  PROVE  /\ Chosen(s) \in s /\ Chosen(s) \in S /\ s \ {Chosen(s)} \in SUBSET S
         /\ Cardinality(s) \in Nat /\ Cardinality(s \ {Chosen(s)}) \in Nat
         /\ Cardinality(s) = Cardinality(s \ {Chosen(s)}) + 1
<1>1. Chosen(s) \in s BY DEF Chosen
<1>2. IsFiniteSet(s) BY FS_Subset
<1> DEFINE x == Chosen(s)
<1> HIDE DEF x
<1>3. /\ IsFiniteSet(s \ {x}) /\ Cardinality(s \ {x}) = Cardinality(s) - 1
      /\ Cardinality(s) \in Nat /\ Cardinality(s \ {x}) \in Nat
  BY <1>1, <1>2, FS_RemoveElement, FS_CardinalityType DEF x
<1>4. x \in S /\ s \ {x} \in SUBSET S /\ Cardinality(s) = Cardinality(s \ {x}) + 1 BY <1>1, <1>3 DEF x
<1> QED BY <1>1, <1>3, <1>4 DEF x

(* There are such sums.                                                    *)
LEMMA SumsExist ==
  ASSUME NEW S, IsFiniteSet(S), NEW w \in [S -> Int]
  PROVE  \E g \in [SUBSET S -> Int] : SumsOf(g, S, w)
<1> DEFINE Upto(g, n) == \A s \in SUBSET S : Cardinality(s) <= n =>
             g[s] = IF s = {} THEN 0 ELSE w[Chosen(s)] + g[s \ {Chosen(s)}]
           N == {n \in Nat : \E g \in [SUBSET S -> Int] : Upto(g, n)}
<1>1. 0 \in N
  <2>1. [s \in SUBSET S |-> 0] \in [SUBSET S -> Int] OBVIOUS
  <2>2. \A s \in SUBSET S : Cardinality(s) <= 0 => s = {}
    <3>1. ASSUME NEW s \in SUBSET S, Cardinality(s) <= 0 PROVE s = {}
      <4>1. IsFiniteSet(s) /\ Cardinality(s) \in Nat BY FS_Subset, FS_CardinalityType
      <4>2. Cardinality(s) = 0 BY <3>1, <4>1
      <4> QED BY <4>1, <4>2, FS_EmptySet
    <3> QED BY <3>1
  <2>3. Upto([s \in SUBSET S |-> 0], 0) BY <2>2
  <2> QED BY <2>1, <2>3
<1>2. ASSUME NEW n \in Nat, n \in N PROVE n + 1 \in N
  <2>1. PICK g \in [SUBSET S -> Int] : Upto(g, n) BY <1>2
  <2> DEFINE next(s) == IF s = {} THEN 0 ELSE w[Chosen(s)] + g[s \ {Chosen(s)}]
             h == [s \in SUBSET S |-> IF Cardinality(s) <= n THEN g[s] ELSE next(s)]
  <2>2. ASSUME NEW s \in SUBSET S PROVE next(s) \in Int
    <3>1. CASE s = {} BY <3>1
    <3>2. CASE s # {}
      <4>1. Chosen(s) \in S /\ s \ {Chosen(s)} \in SUBSET S BY <3>2, OneLess
      <4>2. w[Chosen(s)] \in Int /\ g[s \ {Chosen(s)}] \in Int BY <4>1
      <4> QED BY <3>2, <4>2
    <3> QED BY <3>1, <3>2
  <2>3. h \in [SUBSET S -> Int] BY <2>2
  <2>4. ASSUME NEW s \in SUBSET S, Cardinality(s) <= n + 1
        PROVE  h[s] = IF s = {} THEN 0 ELSE w[Chosen(s)] + h[s \ {Chosen(s)}]
    <3>1. h[s] = next(s)
      <4>1. Cardinality(s) <= n => g[s] = next(s) BY <2>1
      <4> QED BY <4>1
    <3>2. CASE s = {} BY <3>1, <3>2
    <3>3. CASE s # {}
      <4> DEFINE t == s \ {Chosen(s)}
      <4>1. t \in SUBSET S /\ Cardinality(t) <= n BY <2>4, <3>3, OneLess
      <4> HIDE DEF t
      <4>2. h[t] = g[t] BY <4>1
      <4> QED BY <3>1, <3>3, <4>2, Zenon DEF t
    <3> QED BY <3>2, <3>3
  <2> HIDE DEF h
  <2>5. Upto(h, n + 1) BY <2>4
  <2> HIDE DEF Upto
  <2> QED BY <2>3, <2>5
<1> HIDE DEF N
<1>3. \A n \in Nat : n \in N BY <1>1, <1>2, NumbersInduction
<1>4. Cardinality(S) \in Nat BY FS_CardinalityType
<1>5. PICK g \in [SUBSET S -> Int] : Upto(g, Cardinality(S)) BY <1>3, <1>4 DEF N
<1>6. ASSUME NEW s \in SUBSET S PROVE Cardinality(s) <= Cardinality(S) BY FS_Subset
<1>7. SumsOf(g, S, w) BY <1>5, <1>6, Zenon DEF SumsOf
<1> QED BY <1>5, <1>7

(* A sum of weights between low and high is between low and high times     *)
(* their number.                                                           *)
LEMMA SumsAreBounded ==
  ASSUME NEW S, IsFiniteSet(S), NEW w \in [S -> Int], NEW g, SumsOf(g, S, w),
         NEW low \in Int, NEW high \in Int, \A x \in S : low <= w[x] /\ w[x] <= high
  PROVE  /\ g[S] \in Int
         /\ low * Cardinality(S) <= g[S] /\ g[S] <= high * Cardinality(S)
<1> DEFINE N == {n \in Nat : \A s \in SUBSET S : Cardinality(s) = n =>
                   g[s] \in Int /\ low * n <= g[s] /\ g[s] <= high * n}
<1>1. 0 \in N
  <2>1. ASSUME NEW s \in SUBSET S, Cardinality(s) = 0 PROVE g[s] = 0
    <3>1. IsFiniteSet(s) BY FS_Subset
    <3>2. s = {} BY <2>1, <3>1, FS_EmptySet
    <3> QED BY <3>2, Zenon DEF SumsOf
  <2>2. low * 0 = 0 /\ high * 0 = 0 OBVIOUS
  <2> QED BY <2>1, <2>2
<1>2. ASSUME NEW n \in Nat, n \in N PROVE n + 1 \in N
  <2> SUFFICES ASSUME NEW s \in SUBSET S, Cardinality(s) = n + 1
               PROVE  g[s] \in Int /\ low * (n + 1) <= g[s] /\ g[s] <= high * (n + 1)
    OBVIOUS
  <2>1. s # {} BY FS_EmptySet
  <2> DEFINE x == Chosen(s)
             t == s \ {x}
  <2>2. x \in S /\ t \in SUBSET S /\ Cardinality(t) = n BY <2>1, OneLess
  <2>3. g[s] = w[x] + g[t] BY <2>1 DEF SumsOf
  <2> HIDE DEF x, t
  <2>4. g[t] \in Int /\ low * n <= g[t] /\ g[t] <= high * n BY <1>2, <2>2
  <2>5. w[x] \in Int /\ low <= w[x] /\ w[x] <= high BY <2>2
  <2>6. low * (n + 1) = low * n + low /\ high * (n + 1) = high * n + high OBVIOUS
  <2>7. low * n \in Int /\ high * n \in Int OBVIOUS
  <2> QED BY <2>3, <2>4, <2>5, <2>6, <2>7
<1> HIDE DEF N
<1>3. \A n \in Nat : n \in N BY <1>1, <1>2, NumbersInduction
<1>4. Cardinality(S) \in Nat BY FS_CardinalityType
<1> QED BY <1>3, <1>4 DEF N

(* A measure that every element adds its weight to is the sum.             *)
LEMMA SumsMeasure ==
  ASSUME NEW S, IsFiniteSet(S), NEW w, NEW g, SumsOf(g, S, w), NEW c,
         c[{}] = 0, \A s \in SUBSET S : \A x \in s : c[s] = w[x] + c[s \ {x}]
  PROVE  g[S] = c[S]
<1> DEFINE N == {n \in Nat : \A s \in SUBSET S : Cardinality(s) = n => g[s] = c[s]}
<1>1. 0 \in N
  <2>1. ASSUME NEW s \in SUBSET S, Cardinality(s) = 0 PROVE g[s] = c[s]
    <3>1. IsFiniteSet(s) BY FS_Subset
    <3>2. s = {} BY <2>1, <3>1, FS_EmptySet
    <3>3. g[{}] = 0 BY <3>2, Zenon DEF SumsOf
    <3> QED BY <3>2, <3>3, Zenon
  <2> QED BY <2>1
<1>2. ASSUME NEW n \in Nat, n \in N PROVE n + 1 \in N
  <2> SUFFICES ASSUME NEW s \in SUBSET S, Cardinality(s) = n + 1 PROVE g[s] = c[s] OBVIOUS
  <2>1. s # {}
    <3>1. Cardinality(s) # 0 BY ONLY n \in Nat, Cardinality(s) = n + 1
    <3> QED BY <3>1, FS_EmptySet, Zenon
  <2>2. /\ Chosen(s) \in s /\ s \ {Chosen(s)} \in SUBSET S
        /\ Cardinality(s \ {Chosen(s)}) = n
    BY <2>1, OneLess
  <2>3. g[s \ {Chosen(s)}] = c[s \ {Chosen(s)}] BY <1>2, <2>2
  <2>4. g[s] = w[Chosen(s)] + g[s \ {Chosen(s)}] BY <2>1, Zenon DEF SumsOf
  <2>5. c[s] = w[Chosen(s)] + c[s \ {Chosen(s)}] BY <2>2, Zenon
  <2> QED BY <2>3, <2>4, <2>5, Zenon
<1> HIDE DEF N
<1>3. \A n \in Nat : n \in N BY <1>1, <1>2, NumbersInduction
<1>4. Cardinality(S) \in Nat BY FS_CardinalityType
<1> QED BY <1>3, <1>4 DEF N

(* SumFunction is such a sum.                                              *)
LEMMA SumFunctionSums ==
  ASSUME NEW S, IsFiniteSet(S), NEW w \in [S -> Int]
  PROVE  \E g : SumsOf(g, S, w) /\ SumFunction(w) = g[S]
<1> DEFINE G(g) == g = [s \in SUBSET S |-> IF s = {} THEN 0
                          ELSE w[CHOOSE x \in s : TRUE] + g[s \ {CHOOSE x \in s : TRUE}]]
           sums == CHOOSE g : G(g)
<1>1. PICK g \in [SUBSET S -> Int] : SumsOf(g, S, w) BY SumsExist
<1>2. G(g)
  <2>1. ASSUME NEW s \in SUBSET S
        PROVE  g[s] = IF s = {} THEN 0
                      ELSE w[CHOOSE x \in s : TRUE] + g[s \ {CHOOSE x \in s : TRUE}]
    BY <1>1, Zenon DEF Chosen, SumsOf
  <2> QED BY <2>1
<1> HIDE DEF G
<1>3. G(sums) BY <1>2
<1>4. SumFunction(w) = sums[S]
  <2>1. DOMAIN w = S OBVIOUS
  <2> QED BY <2>1 DEF SumFunction, SumFunctionOnSet, FoldFunctionOnSet, MapThenFoldSet, G
<1> HIDE DEF sums
<1>5. SumsOf(sums, S, w)
  <2>1. ASSUME NEW s \in SUBSET S
        PROVE  sums[s] = IF s = {} THEN 0 ELSE w[Chosen(s)] + sums[s \ {Chosen(s)}]
    BY <1>3 DEF Chosen, G
  <2> QED BY <2>1 DEF SumsOf
<1> QED BY <1>4, <1>5

-----------------------------------------------------------------------------
(* The profiles: values in the order of their frequency.                   *)

(* A set of rows whose values in a field can be ranked.                    *)
Rankable(rows, field) == IsFiniteSet(rows) /\ Values(rows, field) \subseteq Int

(* Rows of a value are counted; a field's values are finitely many.        *)
LEMMA Counted ==
  ASSUME NEW rows, NEW field, IsFiniteSet(rows)
  PROVE  /\ \A v : Count(rows, field, v) \in Nat
         /\ IsFiniteSet(Populated(rows, field)) /\ IsFiniteSet(Values(rows, field))
         /\ Cardinality(Populated(rows, field)) \in Nat /\ Cardinality(Values(rows, field)) \in Nat
<1>1. ASSUME NEW v PROVE Count(rows, field, v) \in Nat
  <2>1. {row \in rows : row[field] = v} \in SUBSET rows OBVIOUS
  <2>2. IsFiniteSet({row \in rows : row[field] = v}) BY <2>1, FS_Subset
  <2> QED BY <2>2, FS_CardinalityType DEF Count
<1> DEFINE populated == Populated(rows, field)
           values == Values(rows, field)
           value == [row \in populated |-> row[field]]
<1>2. populated \in SUBSET rows BY DEF Populated
<1>3. IsFiniteSet(populated) BY <1>2, FS_Subset
<1>4. value \in Surjection(populated, values)
  <2>1. values = {row[field] : row \in populated} BY DEF Values
  <2>2. value \in [populated -> values] /\ \A v \in values : \E row \in populated : value[row] = v
    BY <2>1
  <2> HIDE DEF value, values, populated
  <2> QED BY <2>2 DEF Surjection
<1>5. IsFiniteSet(values)
  <2> HIDE DEF value, values, populated
  <2> QED BY <1>3, <1>4, FS_Surjection
<1> QED BY <1>1, <1>3, <1>5, FS_CardinalityType

(* A value with fewer rows than another, or as many and greater, has more  *)
(* values before it.                                                       *)
LEMMA MoreFrequentIsOrder ==
  ASSUME NEW rows, NEW field, Rankable(rows, field),
         NEW u \in Values(rows, field), NEW v \in Values(rows, field), NEW w \in Values(rows, field)
  PROVE  /\ ~MoreFrequent(rows, field, v, v)
         /\ MoreFrequent(rows, field, u, v) /\ MoreFrequent(rows, field, v, w) =>
              MoreFrequent(rows, field, u, w)
         /\ MoreFrequent(rows, field, v, w) \/ MoreFrequent(rows, field, w, v) \/ v = w
<1>1. u \in Int /\ v \in Int /\ w \in Int BY DEF Rankable
<1>2. /\ Count(rows, field, u) \in Nat /\ Count(rows, field, v) \in Nat
      /\ Count(rows, field, w) \in Nat
  BY Counted DEF Rankable
<1> QED BY <1>1, <1>2 DEF MoreFrequent

(* The ranking holds every value of the field once, the most frequent one  *)
(* first.                                                                  *)
LEMMA ValuesAreRanked ==
  ASSUME NEW rows, NEW field, Rankable(rows, field)
  PROVE  LET values == Values(rows, field)
             n == Cardinality(values)
             R == Ranking(rows, field)
         IN  /\ R \in [1..n -> values]
             /\ \A i, j \in 1..n : i < j => MoreFrequent(rows, field, R[i], R[j])
             /\ \A v \in values : \E i \in 1..n : R[i] = v
<1> DEFINE values == Values(rows, field)
           n == Cardinality(values)
           R == Ranking(rows, field)
           more(v, w) == MoreFrequent(rows, field, v, w)
           ahead(v) == {w \in values : more(w, v)}
           rank(v) == Cardinality(ahead(v)) + 1
           place == [v \in values |-> rank(v)]
<1>1. IsFiniteSet(values) /\ n \in Nat BY Counted DEF Rankable
<1>2. R = [i \in 1..n |-> CHOOSE v \in values : Cardinality(ahead(v)) = i - 1] BY DEF Ranking
<1>3. /\ \A v \in values : ~more(v, v)
      /\ \A u, v, w \in values : more(u, v) /\ more(v, w) => more(u, w)
      /\ \A v, w \in values : more(v, w) \/ more(w, v) \/ v = w
  BY MoreFrequentIsOrder
<1> HIDE DEF values, more, R
<1>4. ASSUME NEW v \in values
      PROVE  IsFiniteSet(ahead(v)) /\ Cardinality(ahead(v)) \in Nat /\ rank(v) \in 1..n
  <2>1. ahead(v) \in SUBSET values /\ v \notin ahead(v) BY <1>3
  <2>2. /\ IsFiniteSet(ahead(v)) /\ Cardinality(ahead(v)) <= n
        /\ n = Cardinality(ahead(v)) => values = ahead(v)
    BY <1>1, <2>1, FS_Subset
  <2>3. Cardinality(ahead(v)) \in Nat BY <2>2, FS_CardinalityType
  <2> QED BY <1>1, <2>1, <2>2, <2>3
<1>5. ASSUME NEW v \in values, NEW w \in values, more(v, w) PROVE rank(v) < rank(w)
  <2>1. ahead(v) \in SUBSET ahead(w) /\ v \in ahead(w) /\ v \notin ahead(v) BY <1>3, <1>5
  <2>2. /\ Cardinality(ahead(v)) <= Cardinality(ahead(w))
        /\ Cardinality(ahead(w)) = Cardinality(ahead(v)) => ahead(w) = ahead(v)
    BY <1>4, <2>1, FS_Subset
  <2>3. Cardinality(ahead(v)) # Cardinality(ahead(w)) BY <2>1, <2>2
  <2>4. Cardinality(ahead(v)) \in Nat /\ Cardinality(ahead(w)) \in Nat BY <1>4
  <2> HIDE DEF ahead
  <2> QED BY <2>2, <2>3, <2>4
<1>6. \A v, w \in values : rank(v) = rank(w) => v = w
  <2> SUFFICES ASSUME NEW v \in values, NEW w \in values, rank(v) = rank(w) PROVE v = w
    OBVIOUS
  <2> HIDE DEF n, ahead, rank
  <2>1. rank(v) \in Nat /\ rank(w) \in Nat
    <3>1. rank(v) \in 1..n /\ rank(w) \in 1..n BY <1>4
    <3> QED BY <1>1, <3>1
  <2>2. ~(rank(v) < rank(w)) /\ ~(rank(w) < rank(v)) BY <2>1
  <2> QED BY <1>3, <1>5, <2>2
<1>7. place \in Injection(values, 1..n)
  <2>1. place \in [values -> 1..n] BY <1>4
  <2>2. \A v, w \in values : place[v] = place[w] => v = w BY <1>6
  <2> HIDE DEF place
  <2> QED BY <2>1, <2>2 DEF Injection, IsInjective
<1>8. IsFiniteSet(1..n) /\ Cardinality(1..n) = n BY <1>1, FS_Interval
<1>9. place \in Surjection(values, 1..n)
  <2> HIDE DEF place, n
  <2> QED BY <1>1, <1>7, <1>8, FS_Injection DEF n
<1>10. \A i \in 1..n : \E v \in values : rank(v) = i BY <1>9 DEF Surjection
<1>11. \A i \in 1..n : R[i] \in values /\ rank(R[i]) = i
  <2> SUFFICES ASSUME NEW i \in 1..n PROVE R[i] \in values /\ rank(R[i]) = i
    OBVIOUS
  <2>1. PICK v \in values : rank(v) = i BY <1>10
  <2>2. Cardinality(ahead(v)) = i - 1
    <3>1. Cardinality(ahead(v)) \in Nat BY <1>4
    <3> HIDE DEF ahead
    <3> QED BY <2>1, <3>1
  <2>3. R[i] = CHOOSE w \in values : Cardinality(ahead(w)) = i - 1 BY <1>2
  <2>4. R[i] \in values /\ Cardinality(ahead(R[i])) = i - 1 BY <2>2, <2>3
  <2> QED BY <2>4
<1> HIDE DEF rank
<1>12. R \in [1..n -> values] BY <1>2, <1>11
<1>13. ASSUME NEW i \in 1..n, NEW j \in 1..n, i < j PROVE more(R[i], R[j])
  <2>1. ~more(R[j], R[i])
    <3>1. i \in Int /\ j \in Int /\ ~(j < i) BY <1>13
    <3> QED BY <1>5, <1>11, <3>1
  <2>2. R[i] # R[j] BY <1>11, <1>13
  <2> QED BY <1>3, <1>11, <2>1, <2>2
<1>14. ASSUME NEW v \in values PROVE \E i \in 1..n : R[i] = v
  <2>1. rank(v) \in 1..n BY <1>4 DEF rank
  <2> QED BY <1>6, <1>11, <2>1
<1> QED BY <1>12, <1>13, <1>14 DEF values, more, R

(* A row with a value of the field is a populated row.                     *)
LEMMA RowsOfValue ==
  ASSUME NEW rows, NEW field, NEW v \in Values(rows, field)
  PROVE  Count(rows, field, v) = Cardinality({row \in Populated(rows, field) : row[field] = v})
<1>1. PICK some \in Populated(rows, field) : some[field] = v BY DEF Values
<1>2. \A row \in rows : row[field] = v => row \in Populated(rows, field)
  BY <1>1 DEF Populated, Nulls
<1>3. {row \in rows : row[field] = v} = {row \in Populated(rows, field) : row[field] = v}
  BY <1>2 DEF Populated
<1> QED BY <1>3 DEF Count

(* A chart has the first places of the ranking.                            *)
LEMMA ChartIs ==
  ASSUME NEW rows, NEW field, Rankable(rows, field), NEW limit \in Nat \ {0}
  PROVE  LET chart == Distribution(rows, field, limit)
             n == Cardinality(Values(rows, field))
         IN  \E k \in 0..n :
               /\ DOMAIN chart = 1..k /\ (n <= limit => k = n) /\ (n > 0 => k > 0)
               /\ \A i \in 1..k : chart[i] = [value |-> Ranking(rows, field)[i],
                                              count |-> Count(rows, field, Ranking(rows, field)[i])]
<1> DEFINE chart == Distribution(rows, field, limit)
           n == Cardinality(Values(rows, field))
           R == Ranking(rows, field)
           k == Least(limit, n)
<1>1. n \in Nat BY Counted DEF Rankable
<1>2. chart = [i \in 1..k |-> [value |-> R[i], count |-> Count(rows, field, R[i])]]
  BY DEF Distribution
<1> HIDE DEF n, chart, R
<1>3. k \in 0..n /\ (n <= limit => k = n) /\ (n > 0 => k > 0) BY <1>1 DEF Least
<1> HIDE DEF k
<1>4. DOMAIN chart = 1..k /\ \A i \in 1..k : chart[i] = [value |-> R[i], count |-> Count(rows, field, R[i])]
  BY <1>2
<1> QED BY <1>3, <1>4 DEF n, chart, R

(* The bars of a chart stand for populated rows, each for its own, and for *)
(* all of them when no value is cut off.                                   *)
LEMMA ChartAddsUp ==
  ASSUME NEW rows, NEW field, Rankable(rows, field), NEW limit \in Nat \ {0}
  PROVE  LET charted == Charted(Distribution(rows, field, limit))
             filled == Cardinality(Populated(rows, field))
         IN  /\ charted <= filled
             /\ Cardinality(Values(rows, field)) <= limit => charted = filled
<1> DEFINE chart == Distribution(rows, field, limit)
           values == Values(rows, field)
           populated == Populated(rows, field)
           n == Cardinality(values)
           R == Ranking(rows, field)
<1>1. PICK k \in 0..n :
        /\ DOMAIN chart = 1..k /\ (n <= limit => k = n)
        /\ \A i \in 1..k : chart[i] = [value |-> R[i], count |-> Count(rows, field, R[i])]
  BY ChartIs
<1> DEFINE S == 1..k
           w == [i \in DOMAIN chart |-> chart[i].count]
           covered(s) == {row \in populated : \E i \in s : row[field] = R[i]}
           c == [s \in SUBSET S |-> Cardinality(covered(s))]
<1>2. n \in Nat /\ IsFiniteSet(populated) /\ Cardinality(populated) \in Nat
  BY Counted DEF Rankable
<1>3. S \subseteq 1..n /\ IsFiniteSet(S) /\ 1..n \in SUBSET Nat
  <2> HIDE DEF n
  <2> QED BY <1>2, FS_Interval
<1>4. /\ \A i \in S : R[i] \in values
      /\ \A i, j \in S : R[i] = R[j] => i = j
      /\ \A v \in values : \E i \in 1..n : R[i] = v
  <2>1. /\ R \in [1..n -> values]
        /\ \A i, j \in 1..n : i < j => MoreFrequent(rows, field, R[i], R[j])
        /\ \A v \in values : \E i \in 1..n : R[i] = v
    BY ValuesAreRanked
  <2>2. \A v \in values : ~MoreFrequent(rows, field, v, v) BY MoreFrequentIsOrder
  <2> HIDE DEF n, R, values, S
  <2>3. ASSUME NEW i \in S, NEW j \in S, R[i] = R[j] PROVE i = j
    <3>1. i \in 1..n /\ j \in 1..n BY <1>3
    <3>2. ~(i < j) /\ ~(j < i) BY <2>1, <2>2, <2>3, <3>1
    <3>3. i \in Nat /\ j \in Nat BY <1>3, <3>1
    <3> QED BY <3>2, <3>3
  <2> QED BY <1>3, <2>1, <2>3
<1>5. \A i \in S : w[i] = Cardinality({row \in populated : row[field] = R[i]})
  <2> SUFFICES ASSUME NEW i \in S PROVE w[i] = Cardinality({row \in populated : row[field] = R[i]})
    OBVIOUS
  <2>1. w[i] = Count(rows, field, R[i]) BY <1>1
  <2> QED BY <1>4, <2>1, RowsOfValue
<1> HIDE DEF R
<1>6. ASSUME NEW s PROVE IsFiniteSet(covered(s)) /\ Cardinality(covered(s)) \in Nat
                         /\ Cardinality(covered(s)) <= Cardinality(populated)
  <2>1. covered(s) \in SUBSET populated OBVIOUS
  <2> HIDE DEF covered, populated
  <2> QED BY <1>2, <2>1, FS_Subset, FS_CardinalityType
<1>7. c[{}] = 0
  <2>1. covered({}) = {} /\ {} \in SUBSET S OBVIOUS
  <2>2. c[{}] = Cardinality({}) BY <2>1
  <2> QED BY <2>2, FS_EmptySet
<1>8. ASSUME NEW s \in SUBSET S, NEW x \in s PROVE c[s] = w[x] + c[s \ {x}]
  <2> DEFINE bar == {row \in populated : row[field] = R[x]}
             rest == covered(s \ {x})
  <2>1. covered(s) = bar \cup rest OBVIOUS
  <2>2. bar \cap rest = {} BY <1>4
  <2>3. bar \in SUBSET populated OBVIOUS
  <2>4. w[x] = Cardinality(bar) BY <1>5
  <2>5. c[s] = Cardinality(covered(s)) /\ c[s \ {x}] = Cardinality(rest) BY DEF c
  <2>6. IsFiniteSet(rest) /\ Cardinality(rest) \in Nat BY <1>6
  <2> HIDE DEF bar, rest, covered, populated
  <2>7. IsFiniteSet(bar) /\ Cardinality(bar) \in Nat BY <1>2, <2>3, FS_Subset, FS_CardinalityType
  <2>8. Cardinality(bar \cup rest) = Cardinality(bar) + Cardinality(rest)
    <3>1. Cardinality(bar \cup rest) = Cardinality(bar) + Cardinality(rest) - Cardinality({})
      BY <2>2, <2>6, <2>7, FS_Union
    <3> QED BY <2>6, <2>7, <3>1, FS_EmptySet
  <2> QED BY <2>1, <2>4, <2>5, <2>8
<1>9. w \in [S -> Int]
  <2>1. \A i \in S : Count(rows, field, R[i]) \in Nat BY Counted DEF Rankable
  <2>2. DOMAIN chart = S /\ \A i \in S : chart[i].count \in Int BY <1>1, <2>1
  <2> HIDE DEF S
  <2> QED BY <2>2
<1>10. Charted(chart) = Cardinality(covered(S))
  <2>1. PICK g : SumsOf(g, S, w) /\ SumFunction(w) = g[S]
    <3> HIDE DEF S, w
    <3> QED BY <1>3, <1>9, SumFunctionSums
  <2>2. g[S] = c[S]
    <3> HIDE DEF S, w, c
    <3> QED BY <1>3, <1>7, <1>8, <2>1, SumsMeasure
  <2>3. c[S] = Cardinality(covered(S)) BY DEF c
  <2> QED BY <2>1, <2>2, <2>3 DEF Charted
<1>11. ASSUME n <= limit PROVE covered(S) = populated
  <2>1. S = 1..n BY <1>1, <1>11
  <2>2. \A row \in populated : row[field] \in values BY DEF Values
  <2> HIDE DEF S, n, values, populated
  <2> QED BY <1>4, <2>1, <2>2
<1> HIDE DEF chart, covered, populated, S, n
<1> QED BY <1>6, <1>10, <1>11 DEF chart, populated, n

(* The value named as most frequent is the first of the chart, and no      *)
(* value has more rows.                                                    *)
LEMMA TopIsMostFrequent ==
  ASSUME NEW rows, NEW field, Rankable(rows, field), NEW limit \in Nat \ {0}
  PROVE  LET chart == Distribution(rows, field, limit)
             top == MostFrequent(rows, field).count
         IN  /\ top = IF chart = <<>> THEN 0 ELSE chart[1].count
             /\ \A v \in Values(rows, field) : Count(rows, field, v) <= top
<1> DEFINE chart == Distribution(rows, field, limit)
           one == Distribution(rows, field, 1)
           values == Values(rows, field)
           n == Cardinality(values)
           R == Ranking(rows, field)
           top == MostFrequent(rows, field).count
<1>1. PICK k \in 0..n :
        /\ DOMAIN chart = 1..k /\ (n > 0 => k > 0)
        /\ \A i \in 1..k : chart[i] = [value |-> R[i], count |-> Count(rows, field, R[i])]
  BY ChartIs
<1>2. PICK j \in 0..n :
        /\ DOMAIN one = 1..j /\ (n > 0 => j > 0)
        /\ \A i \in 1..j : one[i] = [value |-> R[i], count |-> Count(rows, field, R[i])]
  BY ChartIs
<1>3. n \in Nat /\ (n = 0 <=> values = {})
  <2> HIDE DEF values
  <2> QED BY Counted, FS_EmptySet DEF Rankable, values
<1>4. \A v \in values : Count(rows, field, v) \in Nat BY Counted DEF Rankable
<1>5. CASE values = {}
  <2>1. k = 0 BY <1>1, <1>3, <1>5
  <2>2. chart = <<>>
    <3>1. chart = [i \in 1..Least(limit, n) |->
                     [value |-> R[i], count |-> Count(rows, field, R[i])]]
      BY DEF Distribution
    <3>2. DOMAIN chart = {} BY <1>1, <2>1
    <3> HIDE DEF chart, R, n
    <3> QED BY <3>1, <3>2
  <2>3. top = 0 BY <1>5 DEF MostFrequent
  <2> QED BY <1>5, <2>2, <2>3
<1>6. CASE values # {}
  <2>1. n > 0 /\ 1 \in 1..k /\ 1 \in 1..j /\ 1 \in 1..n
    <3>1. n > 0 BY <1>3, <1>6
    <3> HIDE DEF n
    <3> QED BY <1>1, <1>2, <1>3, <3>1
  <2>2. chart # <<>>
    <3>1. 1 \in DOMAIN chart BY <1>1, <2>1
    <3>2. 1 \notin DOMAIN <<>> OBVIOUS
    <3> HIDE DEF chart
    <3> QED BY <3>1, <3>2
  <2>3. chart[1].count = Count(rows, field, R[1]) BY <1>1, <2>1
  <2>4. top = Count(rows, field, R[1])
    <3>1. top = one[1].count BY <1>6 DEF MostFrequent
    <3>2. one[1] = [value |-> R[1], count |-> Count(rows, field, R[1])] BY <1>2, <2>1
    <3> HIDE DEF one, top
    <3> QED BY <3>1, <3>2
  <2>5. ASSUME NEW v \in values PROVE Count(rows, field, v) <= Count(rows, field, R[1])
    <3>1. /\ R \in [1..n -> values]
          /\ \A i, m \in 1..n : i < m => MoreFrequent(rows, field, R[i], R[m])
          /\ \A u \in values : \E i \in 1..n : R[i] = u
      BY ValuesAreRanked
    <3> HIDE DEF R, n, values
    <3>2. PICK i \in 1..n : R[i] = v BY <3>1
    <3>3. R[1] \in values /\ (1 < i \/ i = 1) BY <1>3, <2>1, <3>1
    <3>4. Count(rows, field, v) \in Nat /\ Count(rows, field, R[1]) \in Nat BY <1>4, <3>3
    <3>5. MoreFrequent(rows, field, R[1], v) \/ R[1] = v BY <2>1, <3>1, <3>2, <3>3
    <3> QED BY <3>4, <3>5 DEF MoreFrequent
  <2> HIDE DEF chart, top, values, R
  <2>6. top = IF chart = <<>> THEN 0 ELSE chart[1].count BY <2>2, <2>3, <2>4, Zenon
  <2>7. \A v \in values : Count(rows, field, v) <= top BY <2>4, <2>5, Zenon
  <2> QED BY <2>6, <2>7, Zenon DEF chart, top, values
<1> QED BY <1>5, <1>6

(* Finitely many numbers have a least and a greatest one.                  *)
LEMMA NumbersHaveEnds ==
  ASSUME NEW S, IsFiniteSet(S), S # {}, S \subseteq Int
  PROVE  /\ Min(S) \in Int /\ Max(S) \in Int
         /\ \A y \in S : Min(S) <= y /\ y <= Max(S)
<1> DEFINE Ends(s) == \E low, high \in s : \A y \in s : low <= y /\ y <= high
           N == {n \in Nat : \A s \in SUBSET S : Cardinality(s) = n => s = {} \/ Ends(s)}
<1>1. 0 \in N
  <2>1. ASSUME NEW s \in SUBSET S, Cardinality(s) = 0 PROVE s = {}
    <3>1. IsFiniteSet(s) BY FS_Subset
    <3> QED BY <2>1, <3>1, FS_EmptySet
  <2> QED BY <2>1
<1>2. ASSUME NEW n \in Nat, n \in N PROVE n + 1 \in N
  <2> SUFFICES ASSUME NEW s \in SUBSET S, Cardinality(s) = n + 1, s # {} PROVE Ends(s)
    <3> HIDE DEF Ends
    <3> QED OBVIOUS
  <2> DEFINE x == Chosen(s)
             t == s \ {x}
  <2>1. x \in s /\ x \in Int /\ t \in SUBSET S /\ Cardinality(t) = n
    <3>1. /\ x \in s /\ x \in S /\ t \in SUBSET S /\ Cardinality(t) \in Nat
          /\ Cardinality(s) = Cardinality(t) + 1
      BY OneLess
    <3> HIDE DEF x, t
    <3> QED BY <3>1
  <2>2. s = t \cup {x} BY <2>1
  <2> HIDE DEF x, t
  <2>3. CASE t = {} BY <2>1, <2>2, <2>3
  <2>4. CASE t # {}
    <3>1. Ends(t) BY <1>2, <2>1, <2>4
    <3>2. PICK low, high \in t : \A y \in t : low <= y /\ y <= high BY <3>1
    <3> DEFINE l == IF x < low THEN x ELSE low
               h == IF high < x THEN x ELSE high
    <3>3. low \in Int /\ high \in Int /\ t \subseteq Int BY <2>1, <3>2
    <3>4. l \in s /\ h \in s BY <2>2, <3>2
    <3>5. \A y \in s : l <= y /\ y <= h BY <2>1, <2>2, <3>2, <3>3
    <3> HIDE DEF l, h
    <3> QED BY <3>4, <3>5
  <2> QED BY <2>3, <2>4
<1> HIDE DEF N
<1>3. Cardinality(S) \in N BY <1>1, <1>2, NumbersInduction, FS_CardinalityType
<1>4. PICK low, high \in S : \A y \in S : low <= y /\ y <= high BY <1>3 DEF N
<1>5. Min(S) \in S /\ \A y \in S : Min(S) <= y BY <1>4 DEF Min
<1>6. Max(S) \in S /\ \A y \in S : Max(S) >= y
  <2>1. \A y \in S : high >= y BY <1>4
  <2> QED BY <2>1 DEF Max
<1>7. Min(S) \in Int /\ Max(S) \in Int BY <1>5, <1>6
<1> HIDE DEF Min, Max
<1> QED BY <1>5, <1>6, <1>7

(* The average of a field lies between its least and its greatest value.   *)
LEMMA AverageIsBetween ==
  ASSUME NEW rows, NEW field, Rankable(rows, field)
  PROVE  LET stats == NumericalStats(rows, field)
             filled == Cardinality(Populated(rows, field))
         IN  /\ stats.non_null = filled
             /\ stats.non_null > 0 => One * stats.min <= stats.avg /\ stats.avg <= One * stats.max
<1> DEFINE populated == Populated(rows, field)
           values == Values(rows, field)
           n == Cardinality(populated)
           w == [row \in populated |-> row[field]]
           stats == NumericalStats(rows, field)
<1>1. /\ IsFiniteSet(populated) /\ n \in Nat /\ IsFiniteSet(values) /\ values \subseteq Int
  BY Counted DEF Rankable
<1>2. /\ stats.non_null = n
      /\ n # 0 => /\ stats.min = Min(values) /\ stats.max = Max(values)
                  /\ stats.avg = Rounded(SumFunction(w), n)
  BY DEF NumericalStats
<1> HIDE DEF stats
<1>3. w \in [populated -> Int] /\ \A row \in populated : w[row] \in values BY <1>1 DEF Values
<1>4. ASSUME n # 0
      PROVE  /\ One * Min(values) <= Rounded(SumFunction(w), n)
             /\ Rounded(SumFunction(w), n) <= One * Max(values)
  <2> DEFINE low == Min(values)
             high == Max(values)
             sum == SumFunction(w)
  <2>1. values # {}
    <3>1. populated # {} BY <1>4, FS_EmptySet
    <3> QED BY <1>3, <3>1
  <2>2. low \in Int /\ high \in Int /\ \A y \in values : low <= y /\ y <= high
    <3> HIDE DEF values
    <3> QED BY <1>1, <2>1, NumbersHaveEnds
  <2> HIDE DEF low, high
  <2>3. PICK g : SumsOf(g, populated, w) /\ sum = g[populated]
    <3> HIDE DEF populated, w
    <3> QED BY <1>1, <1>3, SumFunctionSums
  <2>4. \A row \in populated : low <= w[row] /\ w[row] <= high BY <1>3, <2>2
  <2>5. g[populated] \in Int /\ low * n <= g[populated] /\ g[populated] <= high * n
    <3> HIDE DEF populated, w
    <3> QED BY <1>1, <1>3, <2>2, <2>3, <2>4, SumsAreBounded DEF n
  <2>6. sum \in Int /\ low * n <= sum /\ sum <= high * n BY <2>3, <2>5, Zenon
  <2> HIDE DEF sum, n
  <2>7. n \in Nat /\ n > 0 BY <1>1, <1>4
  <2> QED BY <2>2, <2>6, <2>7, RoundedBetween DEF sum, low, high
<1> HIDE DEF n, values, w
<1> DEFINE low == Min(values)
           high == Max(values)
           avg == Rounded(SumFunction(w), n)
<1>5. n # 0 => /\ stats.min = low /\ stats.max = high /\ stats.avg = avg
               /\ One * low <= avg /\ avg <= One * high
  BY <1>2, <1>4
<1> HIDE DEF low, high, avg
<1>6. stats.non_null > 0 => n # 0 BY <1>2
<1>7. stats.non_null > 0 => One * stats.min <= stats.avg /\ stats.avg <= One * stats.max
  BY <1>5, <1>6
<1> QED BY <1>2, <1>7 DEF stats, n

(* A share of the rows lies between 0 and 1.                               *)
LEMMA ShareIsRatio ==
  ASSUME NEW k \in Nat, NEW total \in Nat, total # 0, k <= total
  PROVE  Rounded(k, total) \in Ratios
<1>1. PICK low \in Int : low = 0 OBVIOUS
<1>2. PICK high \in Int : high = 1 OBVIOUS
<1>3. /\ k \in Int /\ total \in Nat /\ low \in Int /\ high \in Int /\ total > 0
      /\ low * total <= k /\ k <= high * total
  BY <1>1, <1>2
<1>4. PICK r : r = Rounded(k, total) OBVIOUS
<1>5. Rounded(k, total) \in Int /\ One * low <= Rounded(k, total) /\ Rounded(k, total) <= One * high
  BY <1>3, RoundedBetween, Zenon
<1>6. r \in Int /\ One * low <= r /\ r <= One * high BY <1>4, <1>5, Zenon
<1>7. r \in Ratios BY <1>1, <1>2, <1>6 DEF Ratios, One
<1> QED BY <1>4, <1>7

(* The rows without a value are the rest of the rows, and their share lies *)
(* between 0 and 1.                                                        *)
LEMMA NullsAddUp ==
  ASSUME NEW rows, NEW field, IsFiniteSet(rows), NEW total, total = Cardinality(rows)
  PROVE  /\ NullRatio(rows, field, total) \in Ratios
         /\ total > 0 => NullRatio(rows, field, total) =
                         Rounded(total - Cardinality(Populated(rows, field)), total)
<1>1. PICK nulls : nulls = Nulls(rows, field) OBVIOUS
<1>2. nulls \in SUBSET rows /\ rows \cap nulls = nulls /\ Populated(rows, field) = rows \ nulls
  BY <1>1 DEF Nulls, Populated
<1>3. PICK k : k = Cardinality(nulls) OBVIOUS
<1>4. PICK filled : filled = Cardinality(Populated(rows, field)) OBVIOUS
<1>5. k \in Nat /\ total \in Nat /\ k <= total /\ filled = total - k
  <2>1. IsFiniteSet(nulls) /\ Cardinality(nulls) <= Cardinality(rows) BY <1>2, FS_Subset
  <2>2. Cardinality(nulls) \in Nat /\ Cardinality(rows) \in Nat BY <2>1, FS_CardinalityType
  <2>3. Cardinality(rows \ nulls) = Cardinality(rows) - Cardinality(nulls)
    BY <1>2, FS_Difference
  <2> QED BY <1>2, <1>3, <1>4, <2>1, <2>2, <2>3
<1>6. PICK share : share = Rounded(k, total) OBVIOUS
<1>7. total # 0 => share \in Ratios
  <2> SUFFICES ASSUME total # 0 PROVE share \in Ratios OBVIOUS
  <2>1. Rounded(k, total) \in Ratios BY <1>5, ShareIsRatio
  <2> QED BY <1>6, <2>1, Zenon
<1>8. NullRatio(rows, field, total) = IF total = 0 THEN 0 ELSE share
  BY <1>1, <1>3, <1>6 DEF NullRatio
<1>9. NullRatio(rows, field, total) \in Ratios
  <2>1. 0 \in Ratios BY DEF Ratios, One
  <2> QED BY <1>7, <1>8, <2>1, Zenon
<1>10. total > 0 => total # 0 /\ total - filled = k BY <1>5
<1>11. total > 0 => NullRatio(rows, field, total) = Rounded(total - filled, total)
  BY <1>6, <1>8, <1>10, Zenon
<1> QED BY <1>4, <1>9, <1>11, Zenon

-----------------------------------------------------------------------------
(* The fields of the rows.                                                 *)

(* The columns of a slice's rows.                                          *)
Clean(slice) ==
  /\ \A c \in slice.credits : FieldsOK(c)
  /\ \A p \in slice.payments : p.number \in Int

(* Every row has the fields the bank's files have.                         *)
FieldsInv ==
  /\ \A c \in cred : FieldsOK(c)
  /\ \A p \in pay : p.number \in Int
  /\ \A t \in Syncs : /\ \A c \in put[t] : FieldsOK(c)
                      /\ \A p \in added[t] : p.number \in Int
  /\ \A i \in DOMAIN versions : Clean(versions[i])

(* A due row has the columns of a row of the bank's files.                 *)
LEMMA DueIsClean ==
  ASSUME FilesOK, NEW t \in Syncs, WrittenInv(t), NEW next \in todo[t]
  PROVE  /\ tpc[t] = "insert credits" => FieldsOK(next.row)
         /\ tpc[t] = "insert payments" => next.row.number \in Int
<1>0. "credits" \in Kinds /\ "payments" \in Kinds /\ t \in Readers
  BY ExporterAssumption DEF Kinds, Readers
<1>1. ASSUME NEW kind \in Kinds, NEW i \in DOMAIN Received(t, kind), Received(t, kind)[i] # Hole
      PROVE  \E u \in Uploads : Received(t, kind)[i] \in Range(Content[u][kind])
  <2>1. <<>> \in Seq(Pieces(kind)) BY EmptySeq
  <2>2. Received(t, kind) \in Seq(Pieces(kind)) BY <1>0, <2>1 DEF Received, FilesOK
  <2>3. Received(t, kind)[i] \in Pieces(kind) BY <1>1, <2>2, LenProperties, ElementOfSeq
  <2> QED BY <1>1, <2>3 DEF Pieces
<1>2. ASSUME tpc[t] = "insert credits" PROVE FieldsOK(next.row)
  <2>1. DueFrom(todo[t], Credits(t), Named(Credits(t))) BY <1>2 DEF WrittenInv
  <2>2. PICK i \in Named(Credits(t)) : next = [at |-> i, row |-> Credits(t)[i]]
    BY <2>1 DEF DueFrom, Placed
  <2>3. i \in DOMAIN Received(t, "credits") /\ Received(t, "credits")[i] # Hole
        /\ next.row = Received(t, "credits")[i]
    BY <2>2 DEF Named, Credits
  <2> QED BY <1>0, <1>1, <2>3, FieldAssumption
<1>3. ASSUME tpc[t] = "insert payments" PROVE next.row.number \in Int
  <2>1. DueFrom(todo[t], Payments(t), Wanted(Payments(t), put[t])) BY <1>3 DEF WrittenInv
  <2>2. PICK i \in Wanted(Payments(t), put[t]) : next = [at |-> i, row |-> Payments(t)[i]]
    BY <2>1 DEF DueFrom, Placed
  <2>3. i \in DOMAIN Received(t, "payments") /\ Received(t, "payments")[i] # Hole
        /\ next.row = Received(t, "payments")[i]
    BY <2>2 DEF Wanted, Named, Payments
  <2> QED BY <1>0, <1>1, <2>3, FieldAssumption
<1> QED BY <1>2, <1>3

(* The slice has the columns of its rows.                                  *)
LEMMA SliceIsClean ==
  ASSUME NEW credits, NEW payments,
         \A c \in credits : FieldsOK(c), \A p \in payments : p.number \in Int
  PROVE  Clean(Contents(credits, payments))
  BY DEF Clean, Contents, FieldsOK

(* What a statement does to credits and payments.                          *)
LEMMA FieldSteps ==
  ASSUME [Next]_dataVars
  PROVE  \/ UNCHANGED <<cred, pay, put, added, versions>>
         \/ \E t \in Syncs :
              \/ InsertCredit(t) /\ UNCHANGED <<cred, pay, added, versions>>
              \/ InsertPayment(t) /\ UNCHANGED <<cred, pay, put, versions>>
              \/ TxnCommits(t)
              \/ TxnFails(t) /\ UNCHANGED <<cred, pay, versions>>
<1>1. CASE UNCHANGED txnVars BY <1>1 DEF txnVars
<1>2. ASSUME NEW t \in Syncs,
             \/ TxnBegins(t) \/ TxnStep(t) \/ TxnFails(t)
             \/ \E rows, blank : CreditsReceived(t, rows, blank) \/ PaymentsReceived(t, rows, blank)
      PROVE  \/ UNCHANGED <<cred, pay, put, added, versions>>
             \/ InsertCredit(t) /\ UNCHANGED <<cred, pay, added, versions>>
             \/ InsertPayment(t) /\ UNCHANGED <<cred, pay, put, versions>>
             \/ TxnCommits(t)
             \/ TxnFails(t) /\ UNCHANGED <<cred, pay, versions>>
  BY <1>2 DEF TxnBegins, TxnStep, TxnFails, CreditsReceived, PaymentsReceived, DeletePayments,
     FindCredits, DeleteCredits, InsertCredit, CreditsFlushed, InsertPayment, PaymentsFlushed
<1> QED BY <1>1, <1>2, TxnSteps

(* Every step keeps the fields what they are in the bank's files.          *)
LEMMA FieldsInduction ==
  ASSUME FilesOK, KeyInv, ReadInv, FieldsInv, \A t \in Syncs : WrittenInv(t), [Next]_dataVars
  PROVE  FieldsInv'
<1>0. TxnShape BY DEF KeyInv
<1>1. CASE UNCHANGED <<cred, pay, put, added, versions>> BY <1>1 DEF FieldsInv
<1>2. ASSUME NEW t \in Syncs, InsertCredit(t), UNCHANGED <<cred, pay, added, versions>>
      PROVE  FieldsInv'
  <2>1. PICK next \in Due(t) :
          LET a == next.row.account
              new == [id |-> IdFor(t, a), account |-> a, num |-> next.row.num, chr |-> next.row.chr]
          IN  /\ \A o \in Others(t) : Mine(o, a) = {}
              /\ DOMAIN put' = Syncs /\ \A o \in Syncs : o # t => put'[o] = put[o]
              /\ put'[t] = {c \in put[t] : c.account # a} \cup {new}
              /\ DOMAIN todo' = Syncs /\ todo'[t] = todo[t] \ {next}
    BY <1>0, <1>2, Upsert
  <2>2. FieldsOK(next.row)
    <3>1. next \in todo[t] /\ tpc[t] = "insert credits" BY <1>2 DEF Due, InsertCredit
    <3> QED BY <3>1, DueIsClean
  <2>3. \A c \in put'[t] : FieldsOK(c) BY <2>1, <2>2 DEF FieldsInv, FieldsOK
  <2>4. \A o \in Syncs : \A c \in put'[o] : FieldsOK(c) BY <2>1, <2>3 DEF FieldsInv
  <2> QED BY <1>2, <2>4 DEF FieldsInv
<1>3. ASSUME NEW t \in Syncs, InsertPayment(t), UNCHANGED <<cred, pay, put, versions>>
      PROVE  FieldsInv'
  <2>1. PICK next \in Due(t) :
          LET new == [credit |-> (CHOOSE c \in Mine(t, next.row.account) : TRUE).id, number |-> next.row.number]
          IN  added' = [added EXCEPT ![t] = added[t] \cup {new}]
    BY <1>3 DEF InsertPayment
  <2>2. next.row.number \in Int
    <3>1. next \in todo[t] /\ tpc[t] = "insert payments" BY <1>3 DEF Due, InsertPayment
    <3> QED BY <3>1, DueIsClean
  <2>3. \A o \in Syncs : \A p \in added'[o] : p.number \in Int
    BY <1>0, <2>1, <2>2 DEF FieldsInv, TxnShape
  <2> QED BY <1>3, <2>3 DEF FieldsInv
<1>4. ASSUME NEW t \in Syncs, Over(t)
      PROVE  \A o \in Syncs : /\ \A c \in put'[o] : FieldsOK(c)
                              /\ \A p \in added'[o] : p.number \in Int
  <2>1. /\ put'[t] = {} /\ added'[t] = {}
        /\ \A o \in Syncs : o # t => put'[o] = put[o] /\ added'[o] = added[o]
    BY <1>0, <1>4, OverEmpties
  <2> QED BY <2>1 DEF FieldsInv
<1>5. ASSUME NEW t \in Syncs, TxnFails(t), UNCHANGED <<cred, pay, versions>> PROVE FieldsInv'
  <2>1. Over(t) BY <1>5 DEF TxnFails
  <2> QED BY <1>4, <1>5, <2>1 DEF FieldsInv
<1>6. ASSUME NEW t \in Syncs, TxnCommits(t) PROVE FieldsInv'
  <2>1. /\ cred' = {c \in cred : c.id \notin gone[t] \cup Ids(put[t])} \cup put[t]
        /\ pay' = (pay \ paid[t]) \cup added[t]
        /\ Over(t) /\ versions' = Append(versions, Contents(cred', pay'))
    BY <1>6 DEF TxnCommits
  <2>2. (\A c \in cred' : FieldsOK(c)) /\ \A p \in pay' : p.number \in Int
    BY <2>1 DEF FieldsInv
  <2> DEFINE slice == Contents(cred', pay')
  <2>3. Clean(slice) BY <2>2, SliceIsClean
  <2> HIDE DEF slice
  <2>4. \A i \in DOMAIN versions' : Clean(versions'[i])
    <3>1. versions' = Append(versions, slice) BY <2>1 DEF slice
    <3>2. versions \in Seq(Range(versions)) BY DEF ReadInv
    <3>3. /\ versions' \in Seq(Range(versions) \cup {slice}) /\ Len(versions') = Len(versions) + 1
          /\ versions'[Len(versions) + 1] = slice /\ \A i \in 1..Len(versions) : versions'[i] = versions[i]
      <4>1. versions \in Seq(Range(versions) \cup {slice}) /\ slice \in Range(versions) \cup {slice}
        BY <3>2, SeqMonotonic
      <4> QED BY <3>1, <4>1, AppendProperties
    <3>4. DOMAIN versions = 1..Len(versions) /\ Len(versions) \in Nat /\ DOMAIN versions' = 1..Len(versions')
      BY <3>2, <3>3, LenProperties
    <3>5. \A i \in 1..(Len(versions) + 1) : i \in 1..Len(versions) \/ i = Len(versions) + 1 BY <3>4
    <3> QED BY <2>3, <3>3, <3>4, <3>5 DEF FieldsInv
  <2> QED BY <1>4, <2>1, <2>2, <2>4 DEF FieldsInv
<1> QED BY <1>1, <1>2, <1>3, <1>5, <1>6, FieldSteps

(* So they are in the slice of an earlier sync.                            *)
LEMMA FieldsInitial == Init => FieldsInv
<1> SUFFICES ASSUME Init PROVE FieldsInv
  OBVIOUS
<1>1. PICK old \in OldSlices : cred = old.cred /\ pay = old.pay
  BY DEF Init, TxnInit
<1>2. /\ put = [t \in Syncs |-> {}] /\ added = [t \in Syncs |-> {}] /\ versions = <<Slice>>
  BY DEF Init, TxnInit
<1>3. (\A c \in cred : FieldsOK(c)) /\ \A p \in pay : p.number \in Int BY <1>1, FieldAssumption
<1>4. Clean(Slice) BY <1>3, SliceIsClean DEF Slice
<1>5. \A i \in DOMAIN versions : versions[i] = Slice
  <2> DEFINE slice == Slice
  <2> HIDE DEF slice
  <2>1. versions = <<slice>> BY <1>2 DEF slice
  <2>2. \A i \in DOMAIN versions : versions[i] = slice BY <2>1
  <2> QED BY <2>2 DEF slice
<1> QED BY <1>2, <1>3, <1>4, <1>5 DEF FieldsInv

-----------------------------------------------------------------------------
(* The answers of a profile.                                               *)

(* A profile request: every part it has is the answer of its query.        *)
ProfileAnswered(q) ==
  /\ asked[q] = <<>> => stamps[q] = <<>>
  /\ \A i \in 1..Len(stamps[q]) :
       answer[q][ProfilerParts[i]] =
         Query(ProfilerParts[i], asked[q], answer[q], SeenBy(q, i))
ProfilesInv == \A q \in Profilers : ProfileAnswered(q)

(* The parts of a profile are queried one after the other, each one once.  *)
LEMMA ProfilerPartsOnce ==
  /\ DOMAIN ProfilerParts = 1..15 /\ Len(ProfilerParts) = 15
  /\ ProfilerParts[1] = "count" /\ ProfilerParts[2] = "payments"
  /\ \A i, j \in 1..15 : ProfilerParts[i] = ProfilerParts[j] => i = j
  /\ \A i \in 1..15 : ProfilerParts[i] \notin {"latest", "rows"}
  BY DEF ProfilerParts

(* The first two queries go by nothing, the others by those two.           *)
LEMMA QueryGoesBy ==
  ASSUME NEW i \in 1..15, NEW ask, NEW slice, NEW a, NEW b,
         i > 2 => a["count"] = b["count"] /\ a["payments"] = b["payments"]
  PROVE  Query(ProfilerParts[i], ask, a, slice) = Query(ProfilerParts[i], ask, b, slice)
<1> DEFINE part == ProfilerParts[i]
<1>1. i = 1 \/ i = 2 \/ i > 2 OBVIOUS
<1>2. part # "rows" BY ProfilerPartsOnce
<1>3. (i = 1 => part = "count") /\ (i = 2 => part = "payments") BY ProfilerPartsOnce
<1> HIDE DEF part
<1>4. CASE i > 2
  <2>1. a["count"] = b["count"] /\ a["payments"] = b["payments"] BY <1>4
  <2> QED BY <2>1 DEF Query, part
<1>5. CASE i = 1 BY <1>3, <1>5 DEF Query, part
<1>6. CASE i = 2 BY <1>3, <1>6 DEF Query, part
<1> QED BY <1>1, <1>4, <1>5, <1>6

(* A request that is not concerned.                                        *)
LEMMA ProfileStays ==
  ASSUME ReadInv, NEW q \in Profilers, ProfileAnswered(q),
         UNCHANGED <<asked[q], answer[q], stamps[q]>>,
         UNCHANGED versions \/ versions' = Append(versions, Slice')
  PROVE  ProfileAnswered(q)'
<1>1. q \in Requests BY DEF Requests
<1>2. \A i \in 1..Len(stamps[q]) : SeenBy(q, i)' = SeenBy(q, i) BY <1>1, SeenStays
<1> QED BY <1>2 DEF ProfileAnswered

(* A request begins with nothing answered.                                 *)
LEMMA AskProfiles ==
  ASSUME ReadInv, NEW q \in Profilers, ProfileAnswered(q), Ask(q)
  PROVE  ProfileAnswered(q)'
<1>0. q \in Requests BY DEF Requests
<1>1. PICK ask \in Asks :
        /\ asked[q] = <<>> /\ asked' = [asked EXCEPT ![q] = Asked(ask[1], ask[2])]
        /\ UNCHANGED <<answer, stamps>>
  BY DEF Ask, ReadStarts
<1>2. stamps'[q] = <<>> BY <1>1 DEF ProfileAnswered
<1>3. Len(stamps'[q]) = 0 BY <1>2
<1> QED BY <1>2, <1>3 DEF ProfileAnswered

(* A query answers its part from the newest version, and no other part.    *)
LEMMA NextProfiles ==
  ASSUME ReadInv, NEW q \in Profilers, ProfileAnswered(q), AskNext(q)
  PROVE  ProfileAnswered(q)'
<1>a. PICK n : n = Len(stamps[q]) OBVIOUS
<1>b. PICK v : v = Len(versions) OBVIOUS
<1>c. PICK part : part = ProfilerParts[n + 1] OBVIOUS
<1>d. PICK value : value = Query(part, asked[q], answer[q], Slice) OBVIOUS
<1>0. q \in Requests /\ Parts(q) = ProfilerParts BY RequestsAssumption DEF Requests, Parts
<1>1. /\ ~Finished(q) /\ asked[q] # <<>>
      /\ answer' = [answer EXCEPT ![q] =
           [p \in DOMAIN answer[q] \cup {part} |-> IF p = part THEN value ELSE answer[q][p]]]
      /\ stamps' = [stamps EXCEPT ![q] = Append(stamps[q], v)]
      /\ UNCHANGED <<asked, versions>>
  BY <1>0, <1>a, <1>b, <1>c, <1>d DEF AskNext, NextQuery, Seen, txnVars
<1>2. /\ v \in Nat /\ v > 0 /\ versions[v] = Slice
      /\ stamps[q] \in Seq(1..v) /\ n \in Nat
  <2>1. versions \in Seq(Range(versions)) /\ stamps[q] \in Seq(1..v) BY <1>0, <1>b DEF ReadInv
  <2> QED BY <1>a, <1>b, <2>1, LenProperties DEF ReadInv
<1>3. n \in 0..14 /\ DOMAIN answer[q] = {ProfilerParts[i] : i \in 1..n}
  <2>1. Len(stamps[q]) <= Len(Parts(q)) /\ DOMAIN answer[q] = {Parts(q)[i] : i \in 1..Len(stamps[q])}
    BY <1>0 DEF ReadInv
  <2>2. n <= Len(ProfilerParts) /\ DOMAIN answer[q] = {ProfilerParts[i] : i \in 1..n}
    BY <1>0, <1>a, <2>1, Zenon
  <2>3. n # 15
    <3>1. ASSUME n = 15 PROVE DOMAIN answer[q] = {ProfilerParts[i] : i \in 1..15}
      BY <2>2, <3>1
    <3> QED BY <1>0, <1>1, <3>1, ProfilerPartsOnce DEF Finished, Range
  <2>4. n <= 15 BY <2>2, ProfilerPartsOnce, Zenon
  <2>5. n \in 0..14 BY <1>2, <2>3, <2>4
  <2> QED BY <2>2, <2>5
<1>4. /\ stamps'[q] = Append(stamps[q], v)
      /\ answer'[q] = [p \in DOMAIN answer[q] \cup {part} |-> IF p = part THEN value ELSE answer[q][p]]
  BY <1>0, <1>1 DEF ReadInv
<1>5. /\ Len(stamps'[q]) = n + 1 /\ stamps'[q][n + 1] = v
      /\ \A i \in 1..n : stamps'[q][i] = stamps[q][i]
  <2>1. v \in 1..v BY <1>2
  <2> QED BY <1>2, <1>4, <1>a, <2>1, AppendProperties
<1>6. SeenBy(q, n + 1)' = Slice /\ \A i \in 1..n : SeenBy(q, i)' = SeenBy(q, i)
  BY <1>1, <1>2, <1>5 DEF SeenBy
<1>7. /\ n + 1 \in 1..15 /\ 1..n \subseteq 1..15 /\ n + 1 \notin 1..n
      /\ 1..(n + 1) = 1..n \cup {n + 1}
  BY <1>3
<1>8. /\ answer'[q][part] = value
      /\ \A i \in 1..n : answer'[q][ProfilerParts[i]] = answer[q][ProfilerParts[i]]
  <2>1. \A i \in 1..n : ProfilerParts[i] # part /\ ProfilerParts[i] \in DOMAIN answer[q]
    BY <1>3, <1>7, <1>c, ProfilerPartsOnce
  <2> QED BY <1>4, <2>1
<1>9. \A i \in 1..(n + 1) : i > 2 =>
        answer'[q]["count"] = answer[q]["count"] /\ answer'[q]["payments"] = answer[q]["payments"]
  <2> SUFFICES ASSUME n >= 2
               PROVE  answer'[q]["count"] = answer[q]["count"] /\ answer'[q]["payments"] = answer[q]["payments"]
    BY <1>3
  <2>1. 1 \in 1..n /\ 2 \in 1..n BY <1>3
  <2> QED BY <1>8, <2>1, ProfilerPartsOnce
<1>10. \A slice : \A i \in 1..(n + 1) :
         Query(ProfilerParts[i], asked[q], answer'[q], slice) =
           Query(ProfilerParts[i], asked[q], answer[q], slice)
  <2> SUFFICES ASSUME NEW slice, NEW i \in 1..(n + 1)
               PROVE  Query(ProfilerParts[i], asked[q], answer'[q], slice) =
                        Query(ProfilerParts[i], asked[q], answer[q], slice)
    OBVIOUS
  <2>1. PICK a : a = answer[q] OBVIOUS
  <2>2. PICK b : b = answer'[q] OBVIOUS
  <2>3. i \in 1..15 BY <1>7
  <2>4. i > 2 => b["count"] = a["count"] /\ b["payments"] = a["payments"]
    BY <1>9, <2>1, <2>2
  <2>5. PICK ask : ask = asked[q] OBVIOUS
  <2>6. Query(ProfilerParts[i], ask, b, slice) = Query(ProfilerParts[i], ask, a, slice)
    BY <2>3, <2>4, QueryGoesBy
  <2> QED BY <2>1, <2>2, <2>5, <2>6, Zenon
<1>11. ASSUME NEW i \in 1..n
       PROVE  answer'[q][ProfilerParts[i]] =
                Query(ProfilerParts[i], asked[q], answer'[q], SeenBy(q, i)')
  <2>1. answer[q][ProfilerParts[i]] = Query(ProfilerParts[i], asked[q], answer[q], SeenBy(q, i))
    BY <1>a DEF ProfileAnswered
  <2> QED BY <1>6, <1>7, <1>8, <1>10, <2>1
<1>12. answer'[q][part] = Query(part, asked[q], answer'[q], SeenBy(q, n + 1)')
  BY <1>6, <1>7, <1>8, <1>10, <1>c, <1>d
<1>13. \A i \in 1..Len(stamps'[q]) :
         answer'[q][ProfilerParts[i]] =
           Query(ProfilerParts[i], asked'[q], answer'[q], SeenBy(q, i)')
  BY <1>1, <1>5, <1>7, <1>11, <1>12, <1>c
<1> QED BY <1>1, <1>13 DEF ProfileAnswered

(* A profile of one slice, part by part.                                   *)
ProfileOf(a, slice) ==
  /\ a["count"] = Cardinality(slice.credits)
  /\ a["payments"] = Cardinality(slice.payments)
  /\ a["num"] = NumericalStats(slice.credits, "num")
  /\ a["num ratio"] = NullRatio(slice.credits, "num", a["count"])
  /\ a["num percent"] = NullRatio(slice.credits, "num", a["count"])
  /\ a["values"] = Cardinality(Values(slice.credits, "chr"))
  /\ a["top"] = MostFrequent(slice.credits, "chr")
  /\ a["chr ratio"] = NullRatio(slice.credits, "chr", a["count"])
  /\ a["chr percent"] = NullRatio(slice.credits, "chr", a["count"])
  /\ a["nulls"] = [f \in NullRatioFields |-> NullRatio(slice.credits, f, a["count"])]
  /\ a["nulls percent"] = [f \in NullRatioFields |-> NullRatio(slice.credits, f, a["count"])]
  /\ a["payment num"] = NumericalStats(slice.payments, "number")
  /\ a["chart"] = Distribution(slice.credits, "chr", TopLimit)

(* What the queries answer when all of them saw that slice.                *)
LEMMA QueriesAreProfile ==
  ASSUME NEW a, NEW ask, NEW slice,
         \A i \in 1..15 : a[ProfilerParts[i]] = Query(ProfilerParts[i], ask, a, slice)
  PROVE  ProfileOf(a, slice)
<1>1. \A part \in Range(ProfilerParts) : a[part] = Query(part, ask, a, slice)
  BY ProfilerPartsOnce DEF Range
<1>2. {"count", "payments", "num", "num ratio", "num percent", "values", "top", "chr ratio",
       "chr percent", "nulls", "nulls percent", "payment num", "chart"} \subseteq Range(ProfilerParts)
  <2>1. /\ ProfilerParts[1] = "count" /\ ProfilerParts[2] = "payments"
        /\ ProfilerParts[3] = "num" /\ ProfilerParts[4] = "num ratio"
        /\ ProfilerParts[5] = "num percent" /\ ProfilerParts[6] = "values"
        /\ ProfilerParts[7] = "top" /\ ProfilerParts[8] = "chr ratio"
        /\ ProfilerParts[9] = "chr percent" /\ ProfilerParts[10] = "nulls"
        /\ ProfilerParts[11] = "nulls percent" /\ ProfilerParts[12] = "payment num"
        /\ ProfilerParts[15] = "chart"
    BY DEF ProfilerParts
  <2>2. \A i \in 1..15 : ProfilerParts[i] \in Range(ProfilerParts)
    BY ProfilerPartsOnce DEF Range
  <2>3. /\ ProfilerParts[1] \in Range(ProfilerParts) /\ ProfilerParts[2] \in Range(ProfilerParts)
        /\ ProfilerParts[3] \in Range(ProfilerParts) /\ ProfilerParts[4] \in Range(ProfilerParts)
        /\ ProfilerParts[5] \in Range(ProfilerParts) /\ ProfilerParts[6] \in Range(ProfilerParts)
        /\ ProfilerParts[7] \in Range(ProfilerParts) /\ ProfilerParts[8] \in Range(ProfilerParts)
        /\ ProfilerParts[9] \in Range(ProfilerParts) /\ ProfilerParts[10] \in Range(ProfilerParts)
        /\ ProfilerParts[11] \in Range(ProfilerParts) /\ ProfilerParts[12] \in Range(ProfilerParts)
        /\ ProfilerParts[15] \in Range(ProfilerParts)
    BY <2>2
  <2> QED BY <2>1, <2>3
<1>3. /\ a["count"] = Query("count", ask, a, slice)
      /\ a["payments"] = Query("payments", ask, a, slice)
      /\ a["num"] = Query("num", ask, a, slice)
      /\ a["num ratio"] = Query("num ratio", ask, a, slice)
      /\ a["num percent"] = Query("num percent", ask, a, slice)
      /\ a["values"] = Query("values", ask, a, slice)
      /\ a["top"] = Query("top", ask, a, slice)
      /\ a["chr ratio"] = Query("chr ratio", ask, a, slice)
      /\ a["chr percent"] = Query("chr percent", ask, a, slice)
      /\ a["nulls"] = Query("nulls", ask, a, slice)
      /\ a["nulls percent"] = Query("nulls percent", ask, a, slice)
      /\ a["payment num"] = Query("payment num", ask, a, slice)
      /\ a["chart"] = Query("chart", ask, a, slice)
  BY <1>1, <1>2
<1> QED BY <1>3 DEF Query, ProfileOf

(* The populated rows of a clean slice, and their values.                  *)
LEMMA CleanIsRankable ==
  ASSUME NEW slice, IsFiniteSet(slice.credits), Clean(slice)
  PROVE  /\ Rankable(slice.credits, "num") /\ Rankable(slice.credits, "chr")
         /\ Populated(slice.credits, "chr") = {c \in slice.credits : c.chr \notin {Null, Blank}}
         /\ Values(slice.credits, "chr") = {c.chr : c \in slice.credits} \ {Null, Blank}
         /\ Populated(slice.payments, "number") = slice.payments
<1>1. Populated(slice.credits, "num") = {c \in slice.credits : c.num # Null}
  BY DEF Populated, Nulls, NullableCharFields
<1>2. Populated(slice.credits, "chr") = {c \in slice.credits : c.chr \notin {Null, Blank}}
  BY DEF Populated, Nulls, NullableCharFields
<1>3. Values(slice.credits, "num") = {c.num : c \in Populated(slice.credits, "num")}
  BY DEF Values
<1>4. Values(slice.credits, "chr") = {c.chr : c \in Populated(slice.credits, "chr")}
  BY DEF Values
<1>5. \A c \in slice.credits : c.num \in Int \cup {Null} /\ c.chr \in Int \cup {Null, Blank}
  BY DEF Clean, FieldsOK
<1>6. Values(slice.credits, "num") \subseteq Int BY <1>1, <1>3, <1>5
<1>7. Values(slice.credits, "chr") \subseteq Int BY <1>2, <1>4, <1>5
<1>8. Values(slice.credits, "chr") = {c.chr : c \in slice.credits} \ {Null, Blank}
  BY <1>2, <1>4
<1>9. Populated(slice.payments, "number") = slice.payments
  <2>1. \A p \in slice.payments : p.number # Null BY FieldAssumption DEF Clean
  <2> QED BY <2>1 DEF Populated, Nulls, NullableCharFields
<1> QED BY <1>2, <1>6, <1>7, <1>8, <1>9 DEF Rankable

(* The profile of a clean slice adds up.                                   *)
LEMMA ProfileAddsUp ==
  ASSUME NEW a, NEW slice, IsFiniteSet(slice.credits), Clean(slice), ProfileOf(a, slice)
  PROVE  AddsUp(a, slice)
<1>1. PICK credits : credits = slice.credits OBVIOUS
<1>2. PICK payments : payments = slice.payments OBVIOUS
<1>3. PICK total : total = a["count"] OBVIOUS
<1>4. PICK filled : filled = Cardinality(Populated(credits, "chr")) OBVIOUS
<1>5. PICK chart : chart = Distribution(credits, "chr", TopLimit) OBVIOUS
<1>6. /\ IsFiniteSet(credits) /\ total = Cardinality(credits)
      /\ Rankable(credits, "num") /\ Rankable(credits, "chr")
      /\ filled = Cardinality({c \in slice.credits : c.chr \notin {Null, Blank}})
      /\ Values(credits, "chr") = {c.chr : c \in slice.credits} \ {Null, Blank}
      /\ Populated(payments, "number") = payments
  BY <1>1, <1>2, <1>3, <1>4, CleanIsRankable DEF ProfileOf
<1>7. /\ a["num ratio"] = NullRatio(credits, "num", total) /\ a["num percent"] = a["num ratio"]
      /\ a["chr ratio"] = NullRatio(credits, "chr", total) /\ a["chr percent"] = a["chr ratio"]
      /\ a["num"] = NumericalStats(credits, "num")
      /\ a["nulls"] = a["nulls percent"]
      /\ a["nulls"] = [f \in NullRatioFields |-> NullRatio(credits, f, total)]
      /\ a["values"] = Cardinality(Values(credits, "chr"))
      /\ a["top"] = MostFrequent(credits, "chr") /\ a["chart"] = chart
      /\ a["payments"] = Cardinality(payments)
      /\ a["payment num"] = NumericalStats(payments, "number")
  BY <1>1, <1>2, <1>3, <1>5 DEF ProfileOf
<1>8. a["nulls"]["num"] = a["num ratio"] /\ a["nulls"]["chr"] = a["chr ratio"]
  <2>1. "num" \in NullRatioFields /\ "chr" \in NullRatioFields BY DEF NullRatioFields
  <2> QED BY <1>7, <2>1
<1>9. /\ a["num ratio"] \in Ratios /\ a["chr ratio"] \in Ratios
      /\ total > 0 => /\ a["num ratio"] = Rounded(total - Cardinality(Populated(credits, "num")), total)
                      /\ a["chr ratio"] = Rounded(total - filled, total)
  <2>1. /\ NullRatio(credits, "num", total) \in Ratios
        /\ total > 0 => NullRatio(credits, "num", total) =
                          Rounded(total - Cardinality(Populated(credits, "num")), total)
    BY <1>6, NullsAddUp
  <2>2. /\ NullRatio(credits, "chr", total) \in Ratios
        /\ total > 0 => NullRatio(credits, "chr", total) =
                          Rounded(total - Cardinality(Populated(credits, "chr")), total)
    BY <1>6, NullsAddUp
  <2> QED BY <1>4, <1>7, <2>1, <2>2, Zenon
<1>10. /\ a["num"].non_null = Cardinality(Populated(credits, "num"))
       /\ a["num"].non_null > 0 =>
            One * a["num"].min <= a["num"].avg /\ a["num"].avg <= One * a["num"].max
  <2>1. PICK stats : stats = NumericalStats(credits, "num") OBVIOUS
  <2>2. /\ stats.non_null = Cardinality(Populated(credits, "num"))
        /\ stats.non_null > 0 => One * stats.min <= stats.avg /\ stats.avg <= One * stats.max
    BY <1>6, <2>1, AverageIsBetween
  <2>3. a["num"] = stats BY <1>7, <2>1
  <2> QED BY <2>2, <2>3
<1>11. TopLimit \in Nat \ {0} BY PageAssumption
<1>12. /\ Charted(chart) <= filled
       /\ Cardinality(Values(credits, "chr")) <= TopLimit => Charted(chart) = filled
  BY <1>4, <1>5, <1>6, <1>11, ChartAddsUp
<1>13. PICK top : top = MostFrequent(credits, "chr").count OBVIOUS
<1>14. /\ top = IF chart = <<>> THEN 0 ELSE chart[1].count
       /\ \A v \in Values(credits, "chr") : Count(credits, "chr", v) <= top
  BY <1>5, <1>6, <1>11, <1>13, TopIsMostFrequent
<1>15. a["payment num"].non_null = a["payments"]
  <2>1. NumericalStats(payments, "number").non_null = Cardinality(Populated(payments, "number"))
    BY DEF NumericalStats
  <2> QED BY <1>6, <1>7, <2>1
<1>16. /\ total > 0 => /\ a["num ratio"] = Rounded(total - a["num"].non_null, total)
                       /\ a["chr ratio"] = Rounded(total - filled, total)
       /\ Charted(a["chart"]) <= filled
       /\ a["values"] <= TopLimit => Charted(a["chart"]) = filled
       /\ a["top"].count = (IF a["chart"] = <<>> THEN 0 ELSE a["chart"][1].count)
  <2>1. /\ a["num"].non_null = Cardinality(Populated(credits, "num")) /\ a["chart"] = chart
        /\ a["top"].count = top /\ a["values"] = Cardinality(Values(credits, "chr"))
    <3>1. a["top"] = MostFrequent(credits, "chr") BY <1>7
    <3>2. a["top"].count = top BY <1>13, <3>1
    <3>3. a["chart"] = chart /\ a["values"] = Cardinality(Values(credits, "chr")) BY <1>7
    <3>4. a["num"].non_null = Cardinality(Populated(credits, "num")) BY <1>10
    <3> QED BY <3>2, <3>3, <3>4, Zenon
  <2>2. total > 0 => /\ a["num ratio"] = Rounded(total - a["num"].non_null, total)
                     /\ a["chr ratio"] = Rounded(total - filled, total)
    BY <1>9, <2>1, Zenon
  <2> QED BY <1>12, <1>14, <2>1, <2>2, Zenon
<1>17. \A v \in {c.chr : c \in slice.credits} \ {Null, Blank} :
         Count(slice.credits, "chr", v) <= a["top"].count
  BY <1>1, <1>6, <1>7, <1>13, <1>14, Zenon
<1>18. a["payments"] = Cardinality(slice.payments) BY <1>2, <1>7, Zenon
<1>19. a["num"].non_null > 0 =>
         One * a["num"].min <= a["num"].avg /\ a["num"].avg <= One * a["num"].max
  BY <1>10
<1> HIDE DEF Ratios
<1>20. /\ a["num ratio"] \in Ratios /\ a["chr ratio"] \in Ratios
       /\ a["num percent"] = a["num ratio"] /\ a["chr percent"] = a["chr ratio"]
       /\ a["nulls"] = a["nulls percent"]
       /\ a["nulls"]["num"] = a["num ratio"] /\ a["nulls"]["chr"] = a["chr ratio"]
  BY <1>7, <1>8, <1>9
<1>21. /\ a["count"] > 0 =>
            /\ a["num ratio"] = Rounded(a["count"] - a["num"].non_null, a["count"])
            /\ a["chr ratio"] = Rounded(a["count"] - filled, a["count"])
  BY <1>3, <1>16, Zenon
<1>22. PICK full : full = Cardinality({c \in slice.credits : c.chr \notin {Null, Blank}}) OBVIOUS
<1>23. /\ a["count"] > 0 =>
            /\ a["num ratio"] = Rounded(a["count"] - a["num"].non_null, a["count"])
            /\ a["chr ratio"] = Rounded(a["count"] - full, a["count"])
       /\ Charted(a["chart"]) <= full
       /\ a["values"] <= TopLimit => Charted(a["chart"]) = full
  <2>1. filled = full BY <1>6, <1>22, Zenon
  <2> QED BY <1>16, <1>21, <2>1, Zenon
<1>24. a["top"].count = (IF a["chart"] = <<>> THEN 0 ELSE a["chart"][1].count) BY <1>16
<1>25. AddsUp(a, slice) <=>
         /\ a["count"] > 0 =>
              /\ a["num ratio"] = Rounded(a["count"] - a["num"].non_null, a["count"])
              /\ a["chr ratio"] = Rounded(a["count"] - full, a["count"])
         /\ a["num ratio"] \in Ratios /\ a["chr ratio"] \in Ratios
         /\ a["num percent"] = a["num ratio"] /\ a["chr percent"] = a["chr ratio"]
         /\ a["nulls"] = a["nulls percent"]
         /\ a["nulls"]["num"] = a["num ratio"] /\ a["nulls"]["chr"] = a["chr ratio"]
         /\ a["num"].non_null > 0 =>
              One * a["num"].min <= a["num"].avg /\ a["num"].avg <= One * a["num"].max
         /\ Charted(a["chart"]) <= full
         /\ a["values"] <= TopLimit => Charted(a["chart"]) = full
         /\ a["top"].count = (IF a["chart"] = <<>> THEN 0 ELSE a["chart"][1].count)
         /\ \A v \in {c.chr : c \in slice.credits} \ {Null, Blank} :
              Count(slice.credits, "chr", v) <= a["top"].count
         /\ a["payments"] = Cardinality(slice.payments)
         /\ a["payment num"].non_null = a["payments"]
  BY <1>22, Zenon DEF AddsUp
<1> QED BY <1>15, <1>17, <1>18, <1>19, <1>20, <1>23, <1>24, <1>25, Zenon

(* Every step keeps the profiles answers of their queries.                 *)
LEMMA ProfilesInduction ==
  ASSUME ReadInv, ProfilesInv, [Next]_dataVars
  PROVE  ProfilesInv'
<1> SUFFICES ASSUME NEW q \in Profilers PROVE ProfileAnswered(q)'
  BY DEF ProfilesInv
<1>0. /\ q \in Requests /\ ProfileAnswered(q)
      /\ DOMAIN asked = Requests /\ DOMAIN answer = Requests /\ DOMAIN stamps = Requests
  BY DEF ProfilesInv, Requests, ReadInv
<1>1. ASSUME UNCHANGED readVars PROVE ProfileAnswered(q)'
  <2>1. UNCHANGED versions \/ versions' = Append(versions, Slice') BY VersionsGrow
  <2>2. UNCHANGED <<asked[q], answer[q], stamps[q]>> BY <1>1 DEF readVars
  <2> QED BY <1>0, <2>1, <2>2, ProfileStays
<1>2. ASSUME NEW p \in Requests, Ask(p) \/ AskNext(p) PROVE ProfileAnswered(q)'
  <2>1. CASE p = q BY <1>0, <1>2, <2>1, AskProfiles, NextProfiles
  <2>2. CASE p # q
    <3>1. UNCHANGED versions BY <1>2 DEF Ask, AskNext, ReadStarts, NextQuery, txnVars
    <3>2. UNCHANGED <<asked[q], answer[q], stamps[q]>>
      BY <1>0, <1>2, <2>2 DEF Ask, AskNext, ReadStarts, NextQuery
    <3> QED BY <1>0, <3>1, <3>2, ProfileStays
  <2> QED BY <2>1, <2>2
<1> QED BY <1>1, <1>2, ReadSteps

(* Before a request nothing is answered.                                   *)
LEMMA ProfilesInitial == Init => ProfilesInv
<1> SUFFICES ASSUME Init, NEW q \in Profilers PROVE ProfileAnswered(q)
  BY DEF ProfilesInv
<1>1. asked[q] = <<>> /\ stamps[q] = <<>> BY DEF Init, ReadInit, Requests
<1>2. Len(stamps[q]) = 0 BY <1>1
<1> QED BY <1>1, <1>2 DEF ProfileAnswered

(* The invariants the profiles rest on, together.                          *)
LEMMA ProfilesAlways == Spec => [](ReadInv /\ RowsInv /\ FieldsInv /\ ProfilesInv)
<1>1. Init => FieldsInv /\ ProfilesInv BY FieldsInitial, ProfilesInitial
<1>2. BankInv /\ SliceInv /\ ReadInv /\ FieldsInv /\ ProfilesInv /\ [Next]_dataVars
      => (FieldsInv /\ ProfilesInv)'
  <2> SUFFICES ASSUME BankInv, SliceInv, ReadInv, FieldsInv, ProfilesInv, [Next]_dataVars
               PROVE  FieldsInv' /\ ProfilesInv'
    OBVIOUS
  <2>1. FilesOK /\ KeyInv /\ \A t \in Syncs : WrittenInv(t) BY DEF BankInv, SliceInv
  <2> QED BY <2>1, FieldsInduction, ProfilesInduction
<1> QED BY <1>1, <1>2, PagesAlways, PTL DEF Spec

(* A profile during which no sync committed adds up: its nulls and values  *)
(* make the total, its ratios stay within 0..1 and agree, its average lies *)
(* between its extremes, and its chart starts with the most frequent value *)
(* and covers every populated row when none is cut off                     *)
(* (profiling.py:81-144, 147-219).                                         *)
THEOREM QuietProfilesAddUp == Spec => []QuietProfileAddsUp
<1>1. ReadInv /\ RowsInv /\ FieldsInv /\ ProfilesInv => QuietProfileAddsUp
  <2> SUFFICES ASSUME ReadInv, RowsInv, FieldsInv, ProfilesInv, NEW q \in Profilers, Quiet(q)
               PROVE  AddsUp(answer[q], ReadSlice(q))
    BY DEF QuietProfileAddsUp
  <2>1. q \in Requests /\ Parts(q) = ProfilerParts BY RequestsAssumption DEF Requests, Parts
  <2>2. PICK n : n = Len(stamps[q]) OBVIOUS
  <2>3. /\ stamps[q] \in Seq(1..Len(versions)) /\ versions \in Seq(Range(versions))
        /\ n <= Len(Parts(q)) /\ DOMAIN answer[q] = {Parts(q)[i] : i \in 1..n}
    BY <2>1, <2>2 DEF ReadInv
  <2>4. n \in Nat /\ n <= 15 BY <2>1, <2>2, <2>3, LenProperties, ProfilerPartsOnce
  <2>5. DOMAIN answer[q] = {ProfilerParts[i] : i \in 1..n} BY <2>1, <2>3, Zenon
  <2>6. n = 15
    <3>1. ProfilerParts[15] \in DOMAIN answer[q]
      BY <2>1, ProfilerPartsOnce DEF Quiet, Finished, Range
    <3>2. PICK i \in 1..n : ProfilerParts[i] = ProfilerParts[15] BY <2>5, <3>1
    <3>3. i = 15
      <4>1. i \in 1..15 BY <2>4
      <4> QED BY <3>2, <4>1, ProfilerPartsOnce
    <3> QED BY <2>4, <3>3
  <2>7. DOMAIN stamps[q] = 1..15 /\ \A i \in 1..15 : stamps[q][i] \in 1..Len(versions)
    BY <2>2, <2>3, <2>6, LenProperties, ElementOfSeq
  <2>8. \A i \in 1..15 : SeenBy(q, i) = ReadSlice(q)
    BY <2>7 DEF Quiet, SeenBy, ReadSlice
  <2>9. ReadSlice(q) = versions[stamps[q][1]] /\ stamps[q][1] \in DOMAIN versions
    <3>1. DOMAIN versions = 1..Len(versions) BY <2>3, LenProperties
    <3> QED BY <2>7, <2>8, <3>1 DEF SeenBy
  <2>10. PICK a : a = answer[q] OBVIOUS
  <2>11. PICK ask : ask = asked[q] OBVIOUS
  <2>12. PICK slice : slice = ReadSlice(q) OBVIOUS
  <2>13. \A i \in 1..15 : a[ProfilerParts[i]] = Query(ProfilerParts[i], ask, a, slice)
    BY <2>2, <2>6, <2>8, <2>10, <2>11, <2>12 DEF ProfilesInv, ProfileAnswered
  <2>14. IsFiniteSet(slice.credits) /\ Clean(slice)
    BY <2>9, <2>12 DEF RowsInv, Keyed, FieldsInv
  <2>15. AddsUp(a, slice) BY <2>13, <2>14, QueriesAreProfile, ProfileAddsUp
  <2> QED BY <2>10, <2>12, <2>15, Zenon
<1> QED BY <1>1, ProfilesAlways, PTL
=============================================================================

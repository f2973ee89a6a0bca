---------------------------- MODULE WarehouseReads ----------------------------
(***************************************************************************)
(* The two readers of a slice, GET .../data (services/warehouse.py) and    *)
(* GET .../profiling (services/profiling.py).  Each is a series of queries *)
(* outside any transaction: every query sees the slice committed by then.  *)
(*                                                                         *)
(* A credit has one numerical and one categorical field, a payment one     *)
(* numerical field, for the lists NUMERICAL_FIELDS and so on.  Ratios are  *)
(* in units of 1/10000, to which the code rounds them.                     *)
(***************************************************************************)
EXTENDS SnapshotTxns, Integers

CONSTANTS Pagers,      \* snapshot requests
          Profilers,   \* profiling requests
          Asks,        \* the <<page, page_size>> they may ask for
          MaxPageSize, \* MAX_PAGE_SIZE
          TopLimit,    \* the limit of a distribution
          Null, Blank  \* a field that is NULL, a character field that is ""

ASSUME RequestsAssumption == Pagers \cap Profilers = {}
ASSUME PageAssumption == MaxPageSize \in Nat \ {0} /\ TopLimit \in Nat \ {0}
ASSUME AsksAssumption == \A ask \in Asks : ask[1] \in Int /\ ask[2] \in Int

VARIABLES
  asked,   \* requests under way: the page and size they go by
  answer,  \* results of the queries made so far: part -> value
  stamps   \* history: the version of the slice each query saw

readVars == <<asked, answer, stamps>>

Requests == Pagers \cup Profilers
Least(a, b) == IF a < b THEN a ELSE b
Most(a, b) == IF a < b THEN b ELSE a

-----------------------------------------------------------------------------
(* Pages.                                                                  *)

(* _pagination_params, and the bounds get_data_snapshot sets itself.       *)
Asked(page, size) == [page |-> Most(page, 1), size |-> Least(Most(size, 1), MaxPageSize)]

(* Mutant: the last, shorter page is not counted.                          *)
TotalPages_Floor(total, size) == total \div size

TotalPages(total, size) == IF total = 0 THEN 0 ELSE (total + size - 1) \div size

(* A page past the end is the last one; an empty slice keeps the page.     *)
PageShown(ask, total) ==
  LET pages == TotalPages(total, ask.size)
  IN  IF pages # 0 /\ ask.page > pages THEN pages ELSE ask.page

(* Row i in the order is the one with i - 1 rows before it.                *)
Before(credits, c) == {d \in credits : d.account < c.account}
InOrder(credits) ==
  [i \in 1..Cardinality(credits) |->
     CHOOSE c \in credits : Cardinality(Before(credits, c)) = i - 1]

(* Mutant: the offset of the following page.                               *)
PageRows_NextOffset(credits, page, size) ==
  SubSeq(InOrder(credits), page * size + 1, Least(page * size + size, Cardinality(credits)))

(* order_by("loan_account_number")[offset : offset + page_size].           *)
PageRows(credits, page, size) ==
  LET offset == (page - 1) * size
  IN  SubSeq(InOrder(credits), offset + 1, Least(offset + size, Cardinality(credits)))

-----------------------------------------------------------------------------
(* Profiles.                                                               *)

(* round(x, 4) of a fraction, in units of 1/10000: half goes to even.      *)
One == 10000
Rounded(a, b) ==
  LET q == (One * a) \div b
      r == (One * a) % b
  IN  IF 2 * r > b \/ (2 * r = b /\ q % 2 = 1) THEN q + 1 ELSE q

(* The fields of a credit, and those of them whose "" is null too.         *)
NullRatioFields == {"num", "chr"}
NullableCharFields == {"chr"}

(* Mutant: an empty string counts as a value.                              *)
Nulls_OnlyNull(rows, field) == {row \in rows : row[field] = Null}

(* _null_filter.                                                           *)
Nulls(rows, field) ==
  {row \in rows : row[field] = Null \/ (field \in NullableCharFields /\ row[field] = Blank)}
Populated(rows, field) == rows \ Nulls(rows, field)
Values(rows, field) == {row[field] : row \in Populated(rows, field)}
Count(rows, field, value) == Cardinality({row \in rows : row[field] = value})

NullRatio(rows, field, total) ==
  IF total = 0 THEN 0 ELSE Rounded(Cardinality(Nulls(rows, field)), total)

(* The aggregate of _numerical_stats; of avg and stddev, avg.              *)
NumericalStats(rows, field) ==
  LET populated == Populated(rows, field)
      values == Values(rows, field)
      n == Cardinality(populated)
  IN  [non_null |-> n,
       min |-> IF n = 0 THEN Null ELSE Min(values),
       max |-> IF n = 0 THEN Null ELSE Max(values),
       avg |-> IF n = 0 THEN Null ELSE Rounded(SumFunction([row \in populated |-> row[field]]), n)]

(* The values, the most frequent first, a tie by value; the first limit.   *)
MoreFrequent(rows, field, v, w) ==
  \/ Count(rows, field, v) > Count(rows, field, w)
  \/ Count(rows, field, v) = Count(rows, field, w) /\ v < w
Ranking(rows, field) ==
  LET values == Values(rows, field)
  IN  [i \in 1..Cardinality(values) |->
         CHOOSE v \in values :
           Cardinality({w \in values : MoreFrequent(rows, field, w, v)}) = i - 1]
Distribution(rows, field, limit) ==
  [i \in 1..Least(limit, Cardinality(Values(rows, field))) |->
     LET v == Ranking(rows, field)[i] IN [value |-> v, count |-> Count(rows, field, v)]]

(* The first of _categorical_stats, 0 times "" when there is no value.     *)
MostFrequent(rows, field) ==
  IF Values(rows, field) = {} THEN [value |-> Blank, count |-> 0]
  ELSE Distribution(rows, field, 1)[1]

-----------------------------------------------------------------------------
(* The queries of a request, in the order they are made.  A percentage is  *)
(* the ratio of a query of its own.                                        *)

PagerParts == <<"count", "latest", "rows">>
ProfilerParts ==
  <<"count", "payments", "num", "num ratio", "num percent", "values", "top",
    "chr ratio", "chr percent", "nulls", "nulls percent",
    "payment num", "payment ratio", "payment percent", "chart">>
Parts(q) == IF q \in Pagers THEN PagerParts ELSE ProfilerParts
Finished(q) == DOMAIN answer[q] = Range(Parts(q))

(* What part queries, given the answers before it.                         *)
Query(part, ask, before, slice) ==
  CASE part = "count"    -> Cardinality(slice.credits)
    [] part = "latest"   -> slice.credits # {}
    [] part = "rows"     -> PageRows(slice.credits, PageShown(ask, before["count"]), ask.size)
    [] part = "payments" -> Cardinality(slice.payments)
    [] part = "num"      -> NumericalStats(slice.credits, "num")
    [] part = "values"   -> Cardinality(Values(slice.credits, "chr"))
    [] part = "top"      -> MostFrequent(slice.credits, "chr")
    [] part = "chart"    -> Distribution(slice.credits, "chr", TopLimit)
    [] part \in {"num ratio", "num percent"} ->
         NullRatio(slice.credits, "num", before["count"])
    [] part \in {"chr ratio", "chr percent"} ->
         NullRatio(slice.credits, "chr", before["count"])
    [] part \in {"nulls", "nulls percent"} ->
         [f \in NullRatioFields |-> NullRatio(slice.credits, f, before["count"])]
    [] part = "payment num" -> NumericalStats(slice.payments, "number")
    [] part \in {"payment ratio", "payment percent"} ->
         NullRatio(slice.payments, "number", before["payments"])

ReadInit ==
  /\ asked = [q \in Requests |-> <<>>]
  /\ answer = [q \in Requests |-> <<>>]
  /\ stamps = [q \in Requests |-> <<>>]

(* data_snapshot and profiling_metrics, past their permission checks.      *)
ReadStarts(q, page, size) ==
  /\ asked[q] = <<>>
  /\ asked' = [asked EXCEPT ![q] = Asked(page, size)]
  /\ UNCHANGED <<answer, stamps, txnVars>>

(* READ COMMITTED: what is committed when the query begins.                *)
Seen == Slice

NextQuery(q) ==
  /\ asked[q] # <<>> /\ ~Finished(q)
  /\ LET part == Parts(q)[Len(stamps[q]) + 1]
     IN  answer' = [answer EXCEPT ![q] =
           [p \in DOMAIN @ \cup {part} |->
              IF p = part THEN Query(part, asked[q], @, Seen) ELSE @[p]]]
  /\ stamps' = [stamps EXCEPT ![q] = Append(@, Len(versions))]
  /\ UNCHANGED <<asked, txnVars>>

(* The pagination block of the answer.                                     *)
Pagination(q) ==
  LET total == answer[q]["count"]
      page == PageShown(asked[q], total)
      pages == TotalPages(total, asked[q].size)
  IN  [page |-> page, total_pages |-> pages,
       has_previous |-> page > 1, has_next |-> pages > 0 /\ page < pages]

-----------------------------------------------------------------------------
(* Properties.                                                             *)

Quiet(q) == Finished(q) /\ \A i \in DOMAIN stamps[q] : stamps[q][i] = Head(stamps[q])
ReadSlice(q) == versions[Head(stamps[q])]

(* Whatever page size a caller asks for, walking the pages the answer      *)
(* announces shows every account once, in order, and no page is empty      *)
(* (warehouse.py:48-65).                                                   *)
EveryRowReachable ==
  \A ask \in Asks :
    LET size == Asked(ask[1], ask[2]).size
        credits == Slice.credits
        pages == 1..TotalPages(Cardinality(credits), size)
        shown(page) == PageRows(credits, page, size)
    IN  /\ \A page \in pages : Len(shown(page)) \in 1..size
        /\ \A c \in credits : \E page \in pages : c \in Range(shown(page))
        /\ \A page, later \in pages :
             \A i \in DOMAIN shown(page), j \in DOMAIN shown(later) :
               page < later \/ (page = later /\ i < j) =>
                 shown(page)[i].account < shown(later)[j].account

(* A page during which no sync committed is one piece of one slice: rows   *)
(* in order, has_next and has_previous say what lies around them, and a    *)
(* slice with rows never shows an empty page (warehouse.py:51-79).         *)
QuietPageIsExact ==
  \A q \in Pagers : Quiet(q) =>
    LET accounts == {c.account : c \in ReadSlice(q).credits}
        shown == {row.account : row \in Range(answer[q]["rows"])}
    IN  /\ answer[q]["latest"] <=> accounts # {}
        /\ shown = {} <=> accounts = {}
        /\ Pagination(q).total_pages = 0 <=> accounts = {}
        /\ shown # {} =>
             /\ Pagination(q).has_previous <=> \E a \in accounts : a < Min(shown)
             /\ Pagination(q).has_next <=> \E a \in accounts : a > Max(shown)
             /\ \A a \in accounts : a \in shown \/ a < Min(shown) \/ a > Max(shown)

(* The rows that the bars of a chart stand for.                            *)
Charted(chart) == SumFunction([i \in DOMAIN chart |-> chart[i].count])

(* 0 to 1, in units of 1/10000.                                            *)
Ratios == 0..One

(* The parts of a profile, of this slice, agree with one another.          *)
AddsUp(a, slice) ==
  LET total == a["count"]
      charted == Charted(a["chart"])
      filled == Cardinality({c \in slice.credits : c.chr \notin {Null, Blank}})
  IN  /\ total > 0 => /\ a["num ratio"] = Rounded(total - a["num"].non_null, total)
                      /\ a["chr ratio"] = Rounded(total - filled, total)
      /\ a["num ratio"] \in Ratios /\ a["chr ratio"] \in Ratios
      /\ a["num percent"] = a["num ratio"] /\ a["chr percent"] = a["chr ratio"]
      /\ a["nulls"] = a["nulls percent"]
      /\ a["nulls"]["num"] = a["num ratio"] /\ a["nulls"]["chr"] = a["chr ratio"]
      /\ a["num"].non_null > 0 =>
           One * a["num"].min <= a["num"].avg /\ a["num"].avg <= One * a["num"].max
      /\ charted <= filled
      /\ a["values"] <= TopLimit => charted = filled
      /\ a["top"].count = (IF a["chart"] = <<>> THEN 0 ELSE a["chart"][1].count)
      /\ \A v \in {c.chr : c \in slice.credits} \ {Null, Blank} :
           Count(slice.credits, "chr", v) <= a["top"].count
      /\ a["payments"] = Cardinality(slice.payments)
      /\ a["payment num"].non_null = a["payments"]

(* A profile during which no sync committed adds up: nulls and values make *)
(* the total, ratios stay within 0..1 and agree with their percentages and *)
(* with the null distribution, the chart starts with the most frequent     *)
(* value and, when no value is cut off, covers every populated row         *)
(* (profiling.py:81-144, 147-219).                                         *)
QuietProfileAddsUp ==
  \A q \in Profilers : Quiet(q) => AddsUp(answer[q], ReadSlice(q))
=============================================================================

---------------------------- MODULE HistoryQuery ----------------------------
(***************************************************************************)
(* How a history query is answered, crates/signalk-server/src/history/     *)
(* provider.rs: the range asked for is resolved, the rows of each path are *)
(* grouped into time buckets, and the columns of several paths are merged  *)
(* into one answer by timestamp.  Times are seconds; a path holds at most   *)
(* one value per second here.                                              *)
(***************************************************************************)
EXTENDS Integers, Sequences, FiniteSets, SequencesExt, Order

CONSTANTS
  PathMethods,      \* the method asked for each path of a request
  Seconds,          \* timestamps of stored values
  Readings,         \* Readings[i]: values stored for path i
  Requests,         \* from, to, duration and resolution in seconds
  Now,
  NoColumn          \* JSON null in a row, an absent parameter

(* Values are numbers, stored at finitely many points of time.             *)
ASSUME QueryAssumption ==
  /\ Seconds \subseteq Int /\ IsFiniteSet(Seconds)
  /\ Len(PathMethods) \in Nat
  /\ \A i \in 1 .. Len(PathMethods) : Readings[i] \subseteq Int

VARIABLES
  stored,           \* stored[i]: the rows of history_raw path i was asked for,
                    \* one per column merged so far
  asked,
  answer            \* all_data: rows of a timestamp and column values

queryVars == <<stored, asked, answer>>

(* resolve_time_range: an end that is not given follows from the other and *)
(* the duration, which is an hour unless the request says otherwise.       *)
RangeOf(r) ==
  LET to   == IF r.to # NoColumn THEN r.to
              ELSE IF r.from # NoColumn /\ r.duration # NoColumn
              THEN r.from + r.duration ELSE Now
      from == IF r.from # NoColumn THEN r.from
              ELSE to - (IF r.duration = NoColumn THEN 3600 ELSE r.duration)
  IN  <<from, to>>

(* auto_resolution_secs aims for 500 rows or so.                           *)
AutoResolution(range) ==
  CASE range < 500 -> NoColumn
    [] range \in 500 .. 2499 -> 1
    [] range \in 2500 .. 14999 -> 10
    [] range \in 15000 .. 59999 -> 60
    [] range \in 60000 .. 299999 -> 300
    [] range \in 300000 .. 1799999 -> 900
    [] range \in 1800000 .. 7199999 -> 3600
    [] OTHER -> 86400

(* The SQL can only cut to days, hours and minutes; anything finer is full *)
(* resolution.                                                             *)
BucketWidth(res) ==
  IF res = NoColumn THEN 1
  ELSE CASE res >= 86400          -> 86400
         [] res \in 3600 .. 86399 -> 3600
         [] res \in 60 .. 3599    -> 60
         [] OTHER                 -> 1

BucketOf(t, width) == t - (t % width)

(* The values of one bucket in time order.                                 *)
InBucket(values, b, width) ==
  LET times == {t \in DOMAIN values : BucketOf(t, width) = b}
      order == Ascending(times)
  IN  [k \in 1..Len(order) |-> values[order[k]]]

(* Doubled, so that the median of an even number of values is an integer.  *)
Aggregate(seq, method) ==
  LET sorted == SortedBy(seq, seq)
      n == Len(seq)
      mid == n \div 2
  IN  CASE method \in {"min", "first"} -> 2 * sorted[1]
        [] method \in {"max", "last"}  -> 2 * sorted[n]
        [] method = "count"            -> 2 * n
        [] method = "middle_index"     -> 2 * seq[mid + 1]
        [] method = "mid" -> IF n % 2 = 0 THEN sorted[mid] + sorted[mid + 1]
                             ELSE 2 * sorted[mid + 1]

(* query_raw_values: full resolution returns the values as they are.       *)
PathRows(values, method, res) ==
  LET width == BucketWidth(res)
      buckets == Ascending({BucketOf(t, width) : t \in DOMAIN values})
  IN  [k \in 1..Len(buckets) |->
        <<buckets[k], IF width = 1 THEN 2 * values[buckets[k]]
                      ELSE Aggregate(InBucket(values, buckets[k], width), method)>>]

Resolution(r) ==
  IF r.resolution # NoColumn THEN r.resolution
  ELSE AutoResolution(RangeOf(r)[2] - RangeOf(r)[1])

InRange(values, r) ==
  [t \in {t \in DOMAIN values : RangeOf(r)[1] <= t /\ t <= RangeOf(r)[2]} |-> values[t]]

Padded_not(row, n) == row
(* A row is filled up with nulls to n entries.                             *)
Padded(row, n) ==
  IF Len(row) >= n THEN row ELSE row \o [k \in 1..(n - Len(row)) |-> NoColumn]

(* Column n joins the answer: a row that has its timestamp gets the value,  *)
(* after nulls for the paths it had nothing of; a new timestamp gets a row *)
(* of its own.                                                             *)
MergeColumn(rows, column, n) ==
  LET Has(t) == \E k \in DOMAIN column : column[k][1] = t
      Val(t) == column[CHOOSE k \in DOMAIN column : column[k][1] = t][2]
      old == [k \in DOMAIN rows |->
               IF Has(rows[k][1]) THEN Append(Padded(rows[k], n), Val(rows[k][1]))
               ELSE rows[k]]
      known == {rows[k][1] : k \in DOMAIN rows}
      new == Among(column, {k \in DOMAIN column : column[k][1] \notin known})
  IN  IF n = 1 THEN [k \in DOMAIN column |-> column[k]]
      ELSE old \o [k \in DOMAIN new |-> Append(Padded(<<new[k][1]>>, n), new[k][2])]

Column(values, i) ==
  PathRows(InRange(values, asked), PathMethods[i], Resolution(asked))

QueryInit ==
  /\ stored = <<>>
  /\ asked \in Requests
  /\ answer = <<>>

(* The loop over path_specs: each path is a query of its own; after the    *)
(* last the rows are sorted.                                               *)
AddColumn(values) ==
  LET n    == Len(stored) + 1
      rows == MergeColumn(answer, Column(values, n), n)
  IN  /\ stored' = Append(stored, values)
      /\ answer' = IF n < Len(PathMethods) THEN rows
                  ELSE SortedBy([k \in DOMAIN rows |-> rows[k][1]], rows)
      /\ UNCHANGED asked

QueryNext ==
  /\ Len(stored) < Len(PathMethods)
  /\ \E T \in SUBSET Seconds :
       \E values \in [T -> Readings[Len(stored) + 1]] : AddColumn(values)

QuerySpec == QueryInit /\ [][QueryNext]_queryVars

-----------------------------------------------------------------------------
(* The value the answer shows for path i at time t, null if the row ends   *)
(* before its column.                                                      *)
Cell(t, i) ==
  LET row == answer[CHOOSE k \in DOMAIN answer : answer[k][1] = t]
  IN  IF Len(row) > i THEN row[i + 1] ELSE NoColumn

(* Every value stands in its own path's column and in one row only, however *)
(* the paths' timestamps interleave; cells without a value are null.        *)
ColumnsAligned ==
  /\ \A j, k \in DOMAIN answer : j # k => answer[j][1] # answer[k][1]
  /\ \A k \in DOMAIN answer, i \in DOMAIN stored :
       LET rows == Column(stored[i], i)
           mine == {r \in Range(rows) : r[1] = answer[k][1]}
       IN  IF mine = {} THEN Cell(answer[k][1], i) = NoColumn
           ELSE \A r \in mine : Cell(answer[k][1], i) = r[2]
  /\ \A i \in DOMAIN stored : \A r \in Range(Column(stored[i], i)) :
       \E k \in DOMAIN answer : answer[k][1] = r[1]

(* Half of a bucket's values are no larger than its median and half no     *)
(* smaller, and the middle of a bucket in time is a value of the bucket.   *)
MedianSplits ==
  \A i \in DOMAIN stored : \A t \in DOMAIN stored[i] :
    LET seq == InBucket(stored[i], BucketOf(t, 60), 60)
        m   == Aggregate(seq, "mid")
    IN  /\ 2 * Cardinality({k \in DOMAIN seq : 2 * seq[k] <= m}) >= Len(seq)
        /\ 2 * Cardinality({k \in DOMAIN seq : 2 * seq[k] >= m}) >= Len(seq)

(* Every value of an answer is in its path's column, and a median is one.  *)
AnswerCorrect == ColumnsAligned /\ MedianSplits
=============================================================================

------------------------------- MODULE History ------------------------------
(***************************************************************************)
(* The history subsystem, crates/signalk-server/src/history: ingestion of  *)
(* the broadcast into batches, batches written by blocking tasks, and the  *)
(* maintenance task that turns raw rows into daily summaries and prunes    *)
(* both tables.  All of it goes through one connection behind a mutex; the *)
(* three statements of aggregate_and_prune are one batch WITHOUT a         *)
(* transaction, so a crash may fall between them.                          *)
(*                                                                         *)
(* Time is counted in half days.  A sample is a numeric value of one path; *)
(* a daily row is represented by the samples its aggregates are taken of.  *)
(***************************************************************************)
EXTENDS Integers, FiniteSets

CONSTANTS
  Samples,          \* the values that may ever arrive
  Delays,           \* how many half days before arrival they are stamped
  RetentionRaw,     \* retention_raw_days
  RetentionDaily,   \* retention_daily_days
  MaxHalfDays,      \* bound on time
  MaxHistoryCrashes        \* bound on restarts

ASSUME HistoryAssumption ==
  /\ Delays \subseteq Nat
  /\ {RetentionRaw, RetentionDaily, MaxHalfDays, MaxHistoryCrashes} \subseteq Nat

Day(t) == t \div 2
Days == Day(-MaxHalfDays)..Day(MaxHalfDays)

VARIABLES
  half_day,         \* the clock
  stamp,            \* the timestamp of every sample that arrived
  batch,            \* samples waiting for the next sampling tick
  writing,          \* batches handed to blocking tasks
  raw,              \* history_raw
  daily,            \* history_daily: date -> the samples of its row
  maintenance,      \* the statement aggregate_and_prune runs next, and the
                    \* retentions it was called with
  history_crashes,
  committed,        \* samples that ever reached the database (history)
  horizon,          \* days before it were pruned (history)
  spoiled           \* days with a row that came after their summary (history)

historyVars == <<half_day, stamp, batch, writing, raw, daily, maintenance,
                  history_crashes, committed, horizon, spoiled>>

Idle == [at |-> "idle"]
Arrived == DOMAIN stamp
DayOf(s) == Day(stamp[s])
Today == Day(half_day)

HistoryInit ==
  /\ half_day = 0
  /\ stamp = [s \in {} |-> 0]
  /\ batch = {} /\ writing = {} /\ raw = {}
  /\ daily = [d \in Days |-> {}]
  /\ maintenance = Idle
  /\ history_crashes = 0
  /\ committed = {} /\ horizon = Day(-MaxHalfDays) /\ spoiled = {}

(* A delta arrives with a value whose path is recorded; it carries the     *)
(* sender's timestamp.                                                     *)
Ingest(s, delay) ==
  /\ s \notin Arrived
  /\ stamp' = [x \in Arrived \cup {s} |-> IF x = s THEN half_day - delay ELSE stamp[x]]
  /\ DayOf(s)' \in Days
  /\ batch' = batch \cup {s}
  /\ UNCHANGED <<half_day, writing, raw, daily, maintenance, history_crashes,
                 committed, horizon, spoiled>>

(* The sampling tick moves the batch into a task of its own.               *)
SamplingTick ==
  /\ batch # {}
  /\ writing' = writing \cup {batch}
  /\ batch' = {}
  /\ UNCHANGED <<half_day, stamp, raw, daily, maintenance, history_crashes,
                 committed, horizon, spoiled>>

(* record_batch: one transaction under the connection's mutex.  Batches    *)
(* take the mutex in any order; a failed one is logged and gone.           *)
RecordBatch(b, succeeds) ==
  /\ maintenance.at \in {"idle", "sized"}
  /\ writing' = writing \ {b}
  /\ IF succeeds
     THEN /\ raw' = raw \cup b
          /\ committed' = committed \cup b
          /\ spoiled' = spoiled \cup {DayOf(s) : s \in {x \in b : daily[DayOf(x)] # {}}}
     ELSE UNCHANGED <<raw, committed, spoiled>>
  /\ UNCHANGED <<half_day, stamp, batch, daily, maintenance, history_crashes, horizon>>

(* timestamp < datetime('now', '-N days'), as text: the stored timestamp   *)
(* has a T where datetime() has a blank, and T sorts after it, so a row of *)
(* the cutoff's own day is never older than the cutoff.                    *)
OlderThan_exact(t, days) == t < half_day - 2 * days
OlderThan(t, days) == Day(t) < Day(half_day - 2 * days)

(* Half the configured days when the file is over its limit (u32 / 2).     *)
Aggressive == [at |-> "insert", raw |-> RetentionRaw \div 2,
               daily |-> RetentionDaily \div 2, aggressive |-> TRUE]

BeginMaintenance ==
  /\ maintenance = Idle
  /\ maintenance' = [at |-> "insert", raw |-> RetentionRaw,
                     daily |-> RetentionDaily, aggressive |-> FALSE]
  /\ UNCHANGED <<half_day, stamp, batch, writing, raw, daily, history_crashes,
                 committed, horizon, spoiled>>

Expired == {s \in raw : OlderThan(stamp[s], maintenance.raw)}

(* INSERT OR REPLACE: a day's row is computed from the rows at hand,       *)
(* whatever row was there before.                                          *)
InsertDaily ==
  /\ maintenance.at = "insert"
  /\ daily' = [d \in Days |->
       IF \E s \in Expired : DayOf(s) = d THEN {s \in Expired : DayOf(s) = d}
       ELSE daily[d]]
  /\ maintenance' = [maintenance EXCEPT !.at = "delete_raw"]
  /\ UNCHANGED <<half_day, stamp, batch, writing, raw, history_crashes,
                 committed, horizon, spoiled>>

DeleteRaw ==
  /\ maintenance.at = "delete_raw"
  /\ raw' = raw \ Expired
  /\ maintenance' = [maintenance EXCEPT !.at = "delete_daily"]
  /\ UNCHANGED <<half_day, stamp, batch, writing, daily, history_crashes,
                 committed, horizon, spoiled>>

DeleteDaily ==
  /\ maintenance.at = "delete_daily"
  /\ LET first == Today - maintenance.daily
     IN  /\ daily' = [d \in Days |-> IF d < first THEN {} ELSE daily[d]]
         /\ horizon' = IF first > horizon THEN first ELSE horizon
  /\ maintenance' = [maintenance EXCEPT !.at = "sized"]
  /\ UNCHANGED <<half_day, stamp, batch, writing, raw, history_crashes,
                 committed, spoiled>>

(* The size check: over the limit a second, aggressive pass follows; then  *)
(* VACUUM, which changes nothing here.                                     *)
CheckSize(over) ==
  /\ maintenance.at = "sized"
  /\ maintenance' = IF over /\ ~maintenance.aggressive THEN Aggressive ELSE Idle
  /\ UNCHANGED <<half_day, stamp, batch, writing, raw, daily, history_crashes,
                 committed, horizon, spoiled>>

HalfDayPasses ==
  /\ half_day < MaxHalfDays
  /\ maintenance = Idle
  /\ half_day' = half_day + 1
  /\ UNCHANGED <<stamp, batch, writing, raw, daily, maintenance,
                 history_crashes, committed, horizon, spoiled>>

(* The process dies, between two statements at worst: batches in memory    *)
(* are gone, the tables stay.                                              *)
HistoryCrash ==
  /\ history_crashes < MaxHistoryCrashes
  /\ history_crashes' = history_crashes + 1
  /\ batch' = {} /\ writing' = {} /\ maintenance' = Idle
  /\ UNCHANGED <<half_day, stamp, raw, daily, committed, horizon, spoiled>>

HistoryNext ==
  \/ \E s \in Samples, delay \in Delays : Ingest(s, delay)
  \/ SamplingTick
  \/ \E b \in writing, succeeds \in BOOLEAN : RecordBatch(b, succeeds)
  \/ BeginMaintenance \/ InsertDaily \/ DeleteRaw \/ DeleteDaily
  \/ \E over \in BOOLEAN : CheckSize(over)
  \/ HalfDayPasses \/ HistoryCrash

HistorySpec == HistoryInit /\ [][HistoryNext]_historyVars

-----------------------------------------------------------------------------
(* query_path_values: how many samples a query over from..to counts.  Raw  *)
(* rows answer if there is one in the range, else the daily summaries.     *)
RawCount(from, to) == Cardinality({s \in raw : DayOf(s) \in from..to})
DailyCount(from, to) == Cardinality(UNION {daily[d] : d \in from..to})
QueryCount(from, to) ==
  IF RawCount(from, to) > 0 THEN RawCount(from, to) ELSE DailyCount(from, to)

(* get_paths and get_contexts: who has rows in the range, in either table. *)
Listed(from, to) == RawCount(from, to) > 0 \/ DailyCount(from, to) > 0

(* No sample is in two places on its way to the database.                  *)
HistoryTypeOK ==
  /\ half_day \in 0..MaxHalfDays
  /\ Arrived \subseteq Samples
  /\ batch \cup (UNION writing) \cup raw \cup committed \subseteq Arrived
  /\ raw \subseteq committed
  /\ (batch \cup (UNION writing)) \cap committed = {}
  /\ \A d \in Days : \A s \in daily[d] : DayOf(s) = d
  /\ maintenance.at \in {"idle", "insert", "delete_raw", "delete_daily", "sized"}

(* A query for one day counts every sample of that day that reached the    *)
(* database, and counts it once, while the summary is kept: between the    *)
(* statements of a pass, after a crash there and after any number of       *)
(* passes.  Only a row that arrives after its day was summarised spoils    *)
(* the day: the next pass replaces the summary by one of late rows alone.  *)
DayQueryExact ==
  \A d \in Days \ spoiled :
    d >= horizon =>
      QueryCount(d, d) = Cardinality({s \in committed : DayOf(s) = d})

(* A path with data on a day is listed for it while the day is kept, even  *)
(* when late rows have spoiled its summary.                                *)
KeptDaysAreListed ==
  \A s \in committed : DayOf(s) >= horizon => Listed(DayOf(s), DayOf(s))

(* What history owes a query, in the middle of maintenance too: every      *)
(* sample of a day once, and every path with data listed.                  *)
HistoryCorrect == HistoryTypeOK /\ DayQueryExact /\ KeptDaysAreListed
=============================================================================

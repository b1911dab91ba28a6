------------------------------- MODULE Metrics -------------------------------
(***************************************************************************)
(* The counters a server shows: gauges kept beside the containers of jobs, *)
(* so that statistics need not walk the shards, totals, and the history of *)
(* the totals the background loop collects.  A call moves its job under    *)
(* the shard's lock and counts the move after it has let the lock go, so   *)
(* the counts of different calls land in any order.  Counters are unsigned *)
(* and wrap.                                                               *)
(***************************************************************************)
EXTENDS Integers, Sequences, Bags

CONSTANTS
  MxJobs,         \* how many jobs there are; nothing here tells them apart
  MxWidth,        \* a counter holds 0..MxWidth-1
  HistoryLimit,   \* points kept (60)
  MxMaxOwed,      \* bound: counts not yet made
  MxMaxPoints,    \* bound: points collected
  MxMaxResets     \* bound: resets

\* A counter has room for the jobs there are.
ASSUME MetricsAssumption ==
  /\ MxJobs \in Nat /\ MxWidth \in Nat /\ HistoryLimit \in Nat /\ MxJobs < MxWidth
  /\ MxMaxOwed \in Nat /\ MxMaxPoints \in Nat /\ MxMaxResets \in Nat

VARIABLES
  mxHeld,      \* place -> jobs there; "waiting": for its dependencies, "hand":
               \* between two containers
  mxOwed,      \* bag of counts calls have still to make
  mxQueued, mxProcessing, mxDlq, mxCompleted,  \* the counters
  mxHistory,   \* the totals of the points; their throughput is not kept
  mxLoaded,    \* what the collection at work read of the total; -1: none is at work
  mxReset,     \* where the reset at work stands
  mxForgot,    \* a job moved and no gauge was to follow (history)
  mxSince,     \* completions counted since the last point's total was read (history)
  mxCould,     \* the completions the collection at work may report (history)
  mxRaced,     \* it read the total between the steps of reset_metrics (history)
  mxExcess,    \* what the last point reported beyond them (history)
  mxPoints, mxResets, mxTick   \* bounds; mxTick: this reset has met a collection

mxGauges == <<mxQueued, mxProcessing, mxDlq>>
mxTotals == <<mxCompleted, mxSince>>
mxTelling == <<mxLoaded, mxCould, mxRaced, mxExcess>>
mxSeries == <<mxHistory, mxTelling, mxPoints, mxTick>>
mxAdmin == <<mxReset, mxResets>>
mxVars == <<mxHeld, mxOwed, mxGauges, mxTotals, mxSeries, mxAdmin, mxForgot>>

Place == {"new", "waiting", "queue", "processing", "dlq", "hand-queue", "hand-dlq", "gone"}

MxInit ==
  /\ mxHeld = [p \in Place |-> IF p = "new" THEN MxJobs ELSE 0] /\ mxOwed = EmptyBag
  /\ mxQueued = 0 /\ mxProcessing = 0 /\ mxDlq = 0 /\ mxCompleted = 0 /\ mxSince = 0
  /\ mxHistory = <<>> /\ mxLoaded = -1 /\ mxReset = "idle" /\ mxForgot = FALSE
  /\ mxCould = 0 /\ mxRaced = FALSE /\ mxExcess = 0
  /\ mxPoints = 0 /\ mxResets = 0 /\ mxTick = FALSE

Wrap(n) == n % MxWidth

-----------------------------------------------------------------------------
\* Moves of jobs, each with the count its call makes later.

Shift(n, from, to) ==
  /\ n > 0 /\ n <= mxHeld[from]
  /\ mxHeld' = [mxHeld EXCEPT ![from] = @ - n, ![to] = @ + n]

Counted(n, from, to, count) ==
  /\ Shift(n, from, to)
  /\ BagCardinality(mxOwed) < MxMaxOwed
  /\ mxOwed' = mxOwed (+) SetToBag({[what |-> count, n |-> n]})
  /\ UNCHANGED <<mxGauges, mxTotals, mxSeries, mxAdmin, mxForgot>>

\* push, push_batch and push_flow; a job of a batch or a flow that has to wait
\* counts as queued.
MxPush == \E n \in 1..MxJobs : Counted(n, "new", "queue", "push")
\* push of a job with unmet dependencies returns before it counts.
Uncounted(from, to) ==
  /\ Shift(1, from, to)
  /\ UNCHANGED <<mxOwed, mxGauges, mxTotals, mxSeries, mxAdmin, mxForgot>>

MxPushWaits == Uncounted("new", "waiting")
MxWaitingCancelled == Uncounted("waiting", "gone")
MxPull == Counted(1, "queue", "processing", "pull")
MxAck == Counted(1, "processing", "gone", "complete")
MxAckBatch == \E n \in 1..MxJobs : Counted(n, "processing", "gone", "complete")
MxFailRetries == Counted(1, "processing", "queue", "retry")
MxFailBuries == Counted(1, "processing", "dlq", "dlq")
MxFailRemoves == Counted(1, "processing", "gone", "drop")

\* Cancel, drain, clean, obliterate and an expired job take a job away, discard
\* and the third stall bury it, moveToDelayed and retry_dlq queue it again, the
\* release of a pushed job that waited queues it, and purge ends it: none of them
\* touches a gauge.  (Bound: one such move.)
Forgotten(froms, to) ==
  /\ ~mxForgot /\ mxForgot' = TRUE
  /\ \E from \in froms : Shift(1, from, to)
  /\ UNCHANGED <<mxOwed, mxGauges, mxTotals, mxSeries, mxAdmin>>

MxTakenAway == Forgotten({"queue", "processing", "dlq"}, "gone")
MxBuried == Forgotten({"waiting", "queue", "processing"}, "dlq")
MxQueuedAgain == Forgotten({"processing", "dlq", "waiting"}, "queue")

\* push_batch counts the jobs it only found by their custom ids too, and a push
\* whose row is not written never counts, wherever its job is by then.
Miscounted(owed) ==
  /\ ~mxForgot /\ mxForgot' = TRUE
  /\ mxOwed' = owed
  /\ UNCHANGED <<mxGauges, mxTotals, mxSeries, mxAdmin>>

MxCountsKnown ==
  /\ mxHeld["new"] < MxJobs   \* an id is known once its job was pushed
  /\ BagCardinality(mxOwed) < MxMaxOwed
  /\ Miscounted(mxOwed (+) SetToBag({[what |-> "push", n |-> 1]}))
  /\ UNCHANGED mxHeld

MxPushUndone ==
  /\ [what |-> "push", n |-> 1] \in BagToSet(mxOwed)
  /\ Miscounted(mxOwed (-) SetToBag({[what |-> "push", n |-> 1]}))
  /\ Shift(1, "queue", "gone") \/ UNCHANGED mxHeld

\* check_timed_out_jobs counts first and files the job after.
RecordDlq == /\ mxProcessing' = Wrap(mxProcessing - 1) /\ mxDlq' = Wrap(mxDlq + 1)
             /\ UNCHANGED mxQueued
\* Mutant: a retried job stays counted as processing.
RecordRetryHalf == /\ mxQueued' = Wrap(mxQueued + 1) /\ UNCHANGED <<mxProcessing, mxDlq>>
RecordRetry == /\ mxProcessing' = Wrap(mxProcessing - 1) /\ mxQueued' = Wrap(mxQueued + 1)
               /\ UNCHANGED mxDlq

MxTimesOut ==
  /\ \/ Shift(1, "processing", "hand-queue") /\ RecordRetry
     \/ Shift(1, "processing", "hand-dlq") /\ RecordDlq
  /\ UNCHANGED <<mxOwed, mxTotals, mxSeries, mxAdmin, mxForgot>>

MxTimedOutFiled ==
  /\ Shift(1, "hand-queue", "queue") \/ Shift(1, "hand-dlq", "dlq")
  /\ UNCHANGED <<mxOwed, mxGauges, mxTotals, mxSeries, mxAdmin, mxForgot>>

-----------------------------------------------------------------------------
\* The counts.

RecordPush(n) == mxQueued' = Wrap(mxQueued + n) /\ UNCHANGED <<mxProcessing, mxDlq>>
RecordPull == /\ mxQueued' = Wrap(mxQueued - 1) /\ mxProcessing' = Wrap(mxProcessing + 1)
              /\ UNCHANGED mxDlq
ProcessingDrops(n) == mxProcessing' = Wrap(mxProcessing - n) /\ UNCHANGED <<mxQueued, mxDlq>>
RecordComplete(n) == /\ ProcessingDrops(n)
                     /\ mxCompleted' = Wrap(mxCompleted + n) /\ mxSince' = mxSince + n

MxCount ==
  /\ \E c \in BagToSet(mxOwed) :
       /\ mxOwed' = mxOwed (-) SetToBag({c})
       /\ \/ c.what = "push" /\ RecordPush(c.n)
          \/ c.what = "pull" /\ RecordPull
          \/ c.what = "complete" /\ RecordComplete(c.n)
          \/ c.what = "retry" /\ RecordRetry
          \/ c.what = "dlq" /\ RecordDlq
          \/ c.what = "drop" /\ ProcessingDrops(1)
       /\ c.what # "complete" => UNCHANGED mxTotals
  /\ UNCHANGED <<mxHeld, mxSeries, mxAdmin, mxForgot>>

-----------------------------------------------------------------------------
\* collect_metrics_history, every five seconds: it reads the total, then the
\* last point.  A reset is straight-line code, so no second collection begins
\* while one reset runs.

CollectLoads ==
  /\ mxLoaded = -1 /\ ~mxTick /\ mxPoints < MxMaxPoints
  /\ mxLoaded' = mxCompleted /\ mxPoints' = mxPoints + 1
  /\ mxTick' = (mxReset # "idle")
  /\ mxCould' = mxSince /\ mxRaced' = (mxReset = "totals_zeroed") /\ mxExcess' = 0
  /\ mxSince' = 0
  /\ UNCHANGED <<mxHeld, mxOwed, mxGauges, mxCompleted, mxHistory, mxAdmin, mxForgot>>

\* One point is never told a rate from: it may be of before a reset.
LongEnough == Len(mxHistory) >= 2

Throughput ==
  IF LongEnough THEN Wrap(mxLoaded - mxHistory[Len(mxHistory)]) ELSE 0

CollectPoints ==
  /\ mxLoaded # -1
  /\ LET longer == Append(mxHistory, mxLoaded)
     IN mxHistory' = IF Len(longer) > HistoryLimit THEN Tail(longer) ELSE longer
  /\ mxExcess' = IF mxRaced \/ Throughput <= mxCould THEN 0 ELSE Throughput - mxCould
  /\ mxCould' = 0 /\ mxRaced' = FALSE
  /\ mxLoaded' = -1
  /\ UNCHANGED <<mxHeld, mxOwed, mxGauges, mxTotals, mxAdmin, mxForgot, mxPoints, mxTick>>

-----------------------------------------------------------------------------
\* reset and reset_metrics.

ResetBegins ==
  /\ mxReset = "idle" /\ mxResets < MxMaxResets /\ mxResets' = mxResets + 1
  /\ mxReset' \in {"all", "metrics"}
  /\ mxTick' = (mxLoaded # -1)
  /\ UNCHANGED <<mxHeld, mxOwed, mxGauges, mxTotals, mxHistory, mxTelling, mxPoints, mxForgot>>

\* The shards, then the processing shards, are replaced by fresh ones.
ResetClears(places, from, to) ==
  /\ mxReset = from /\ mxReset' = to
  /\ mxHeld' = [p \in Place |-> IF p \in places THEN 0 ELSE mxHeld[p]]
  /\ mxForgot' = TRUE
  /\ UNCHANGED <<mxOwed, mxGauges, mxTotals, mxSeries, mxResets>>

ResetForgetsHistory(from, to) ==
  /\ mxReset = from /\ mxReset' = to
  /\ mxHistory' = <<>>
  /\ mxTick' = IF to = "idle" THEN FALSE ELSE mxTick
  /\ UNCHANGED <<mxHeld, mxOwed, mxGauges, mxTotals, mxTelling, mxPoints, mxResets,
                 mxForgot>>

\* The totals go back to zero; the gauges are left as they are.
ResetZeroes(from, to) ==
  /\ mxReset = from /\ mxReset' = to
  /\ mxCompleted' = 0
  /\ mxTick' = IF to = "idle" THEN FALSE ELSE mxTick
  /\ UNCHANGED <<mxHeld, mxOwed, mxGauges, mxSince, mxHistory, mxTelling, mxPoints,
                 mxResets, mxForgot>>

Reset ==
  \/ ResetClears({"waiting", "queue", "dlq"}, "all", "shards_cleared")
  \/ ResetClears({"processing"}, "shards_cleared", "jobs_cleared")
  \/ ResetForgetsHistory("jobs_cleared", "history_cleared")
  \/ ResetZeroes("history_cleared", "idle")

ResetMetrics ==
  \/ ResetZeroes("metrics", "totals_zeroed")
  \/ ResetForgetsHistory("totals_zeroed", "idle")

MxNext ==
  \/ MxPush \/ MxPushWaits \/ MxWaitingCancelled \/ MxCountsKnown \/ MxPushUndone
  \/ MxPull \/ MxAck \/ MxAckBatch \/ MxFailRetries \/ MxFailBuries \/ MxFailRemoves
  \/ MxTakenAway \/ MxBuried \/ MxQueuedAgain \/ MxTimesOut \/ MxTimedOutFiled \/ MxCount
  \/ CollectLoads \/ CollectPoints \/ ResetBegins \/ Reset \/ ResetMetrics

MxSpec == MxInit /\ [][MxNext]_mxVars

-----------------------------------------------------------------------------
\* Once every call has made its counts, and unless a move that keeps no gauge was
\* made or a push counted what it did not put in, the gauges say what the containers
\* hold, in whatever order the counts of pushes, pulls, retries and timeouts landed.
QuietGaugesAreExact ==
  (/\ ~mxForgot /\ mxOwed = EmptyBag
   /\ mxHeld["hand-queue"] = 0 /\ mxHeld["hand-dlq"] = 0) =>
     /\ mxQueued = mxHeld["queue"] /\ mxProcessing = mxHeld["processing"] /\ mxDlq = mxHeld["dlq"]

\* A point of the history never reports more completions than were counted
\* since the point before it, whatever reset ran meanwhile; only a collection
\* that read the totals between the two steps of reset_metrics may.
ThroughputIsReal == mxExcess = 0

\* What the server shows adds up: both of the above.
MetricsAddUp == QuietGaugesAreExact /\ ThroughputIsReal
=============================================================================

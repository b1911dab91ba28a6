------------------------------- MODULE Backups -------------------------------
(***************************************************************************)
(* Backups to S3.  A task ticks every Interval and makes one if the last   *)
(* is that old; the HTTP handler makes one at any time, with a manager of  *)
(* its own.  A backup takes its key from the clock when it starts, copies  *)
(* and uploads the file, and then deletes what a listing of the bucket     *)
(* showed beyond the KeepCount newest keys, one request at a time.         *)
(* Nothing checks KeepCount: with 0 a backup deletes itself.  The wall     *)
(* clock is taken to run forward.                                          *)
(***************************************************************************)
EXTENDS Integers, FiniteSets

CONSTANTS
  BkHandler,      \* calls of trigger_s3_backup
  BkInterval,     \* interval_secs
  KeepCount,      \* keep_count: any number, 0 too
  BkMaxDuration,  \* bound: the time a copy and its upload take
  BkMaxNow        \* bound: the clock

ASSUME BackupAssumption ==
  /\ BkInterval \in Nat \ {0} /\ KeepCount \in Nat
  /\ BkMaxDuration \in Nat /\ BkMaxNow \in Nat
  /\ "task" \notin BkHandler

Backer == BkHandler \cup {"task"}
BkKey == 0..BkMaxNow   \* the timestamp, which sorts as the key does
NoKey == -1
BkIdle == [at |-> "idle", key |-> NoKey, old |-> {}]

VARIABLES
  bkNow,
  bkNextTick,  \* when the interval of the task is due
  bkLast,      \* last_backup of the task's manager
  bkCall,      \* per backup under way: its stage, its key, the keys it deletes
  bucket,      \* the keys in the bucket
  bkNewest     \* the newest key ever uploaded (history)

bkVars == <<bkNow, bkNextTick, bkLast, bkCall, bucket, bkNewest>>

BkInit ==
  /\ bkNow = 0 /\ bkNextTick = 0 /\ bkLast = -BkInterval
  /\ bkCall = [b \in Backer |-> BkIdle]
  /\ bucket = {} /\ bkNewest = NoKey

-----------------------------------------------------------------------------
BkIsIdle(b) == bkCall[b].at = "idle"

\* should_backup
BkDue == bkNow - bkLast >= BkInterval

Started(b) == bkCall' = [bkCall EXCEPT ![b] = [at |-> "upload", key |-> bkNow, old |-> {}]]

\* A tick that comes while the task uploads is taken when it is done.
TaskTick ==
  /\ bkNow >= bkNextTick /\ BkIsIdle("task")
  /\ bkNextTick' = bkNextTick + BkInterval
  /\ IF BkDue THEN Started("task") ELSE UNCHANGED bkCall
  /\ UNCHANGED <<bkNow, bkLast, bucket, bkNewest>>

TriggerBackup(b) ==
  /\ b \in BkHandler /\ BkIsIdle(b)
  /\ Started(b)
  /\ UNCHANGED <<bkNow, bkNextTick, bkLast, bucket, bkNewest>>

\* The object replaces one with the same key.
Upload(b) ==
  /\ bkCall[b].at = "upload"
  /\ bucket' = bucket \cup {bkCall[b].key}
  /\ bkNewest' = IF bkCall[b].key > bkNewest THEN bkCall[b].key ELSE bkNewest
  /\ bkLast' = IF b = "task" THEN bkNow ELSE bkLast
  /\ bkCall' = [bkCall EXCEPT ![b].at = "list"]
  /\ UNCHANGED <<bkNow, bkNextTick>>

Newer(S, k) == {l \in S : l > k}

\* Mutant: the keys are sorted oldest first.
BeyondOldest(S) == {k \in S : Cardinality({l \in S : l < k}) >= KeepCount}
Beyond(S) == {k \in S : Cardinality(Newer(S, k)) >= KeepCount}

ListOld(b) ==
  /\ bkCall[b].at = "list"
  /\ bkCall' = [bkCall EXCEPT ![b] =
                  [at |-> "delete", key |-> bkCall[b].key, old |-> Beyond(bucket)]]
  /\ UNCHANGED <<bkNow, bkNextTick, bkLast, bucket, bkNewest>>

\* Newest first; a request that fails is passed over.
DeleteOld(b) ==
  /\ bkCall[b].at = "delete" /\ bkCall[b].old # {}
  /\ \E k \in bkCall[b].old :
       /\ Newer(bkCall[b].old, k) = {}
       /\ bkCall' = [bkCall EXCEPT ![b].old = @ \ {k}]
       /\ bucket' \in {bucket, bucket \ {k}}
  /\ UNCHANGED <<bkNow, bkNextTick, bkLast, bkNewest>>

BackupDone(b) ==
  /\ bkCall[b].at = "delete" /\ bkCall[b].old = {}
  /\ bkCall' = [bkCall EXCEPT ![b] = BkIdle]
  /\ UNCHANGED <<bkNow, bkNextTick, bkLast, bucket, bkNewest>>

\* Time passes: the task takes its ticks at once, its requests go on in a second.
BkTick ==
  /\ bkNow < BkMaxNow
  /\ BkIsIdle("task") => bkNow < bkNextTick
  /\ bkCall["task"].at \in {"idle", "upload"}
  /\ bkCall["task"].at = "upload" => bkNow < bkCall["task"].key + BkMaxDuration
  /\ bkNow' = bkNow + 1
  /\ UNCHANGED <<bkNextTick, bkLast, bkCall, bucket, bkNewest>>

BkNext ==
  \/ TaskTick \/ BkTick
  \/ \E b \in Backer :
       TriggerBackup(b) \/ Upload(b) \/ ListOld(b) \/ DeleteOld(b) \/ BackupDone(b)

BkSpec == BkInit /\ [][BkNext]_bkVars

-----------------------------------------------------------------------------
(* With a KeepCount of at least one, retention never deletes the newest backup,
   although several backups list and delete at once, each from a listing that
   may be out of date. *)
NewestBackupKept == bkNewest # NoKey => bkNewest \in bucket

(* While S3 answers within BkMaxDuration, itself no longer than the interval, the
   bucket holds a backup begun at most two intervals and one upload ago.  (One
   interval is not reached: the age is counted from the end of an upload, so the
   tick after it comes too early.  Uploads longer than the interval delay the
   ticks, and the age grows with their length.) *)
BackupGap ==
  bkNewest # NoKey => \E k \in bucket : bkNow - k <= 2 * BkInterval + BkMaxDuration

(* A restore finds a backup, and not too old a one, if KeepCount is not 0. *)
BackupsProtect == NewestBackupKept /\ BackupGap
=============================================================================

------------------------------ MODULE MCServices ------------------------------
(***************************************************************************)
(* The parts beside the life of a job, for TLC.  They share no state here, *)
(* so each is explored alone: `part` says which, the others stand still.   *)
(***************************************************************************)
EXTENDS KvStore, PriorityQueue, Glob, RateLimit, Webhooks, Locks, Cron, Backups, PushIds,
        QueueConfig, Metrics, Sockets

VARIABLE part

small == <<kvVars, globVars, rlVars, whVars, piVars, qcVars>>
allVars == <<part, small, pqVars, lockVars, cronVars, bkVars, mxVars, skVars>>

\* The clock runs a half or a quarter of a second, or is set back by one.
ClockSteps == {500, 250, -1000}

\* A cron expression that matches at 1, 2 and 4: its next occurrence after t.
OccursAt == [t \in 0..2 |-> IF t < 1 THEN 1 ELSE IF t < 2 THEN 2 ELSE 4]

ServicesInit ==
  /\ part \in {"kv", "heap", "glob", "rate", "webhooks", "locks", "cron", "backups", "ids",
               "config", "metrics", "sockets"}
  /\ IF part = "glob" THEN GlobInit ELSE globPattern = <<>> /\ globText = <<>>
  /\ KvInit /\ PqInit /\ RlInit /\ WhInit /\ LockInit /\ CronInit /\ BkInit /\ PiInit /\ QcInit
  /\ MxInit /\ SkInit

But(p, v) == IF part = p THEN TRUE ELSE UNCHANGED v

ServicesNext ==
  /\ \/ part = "kv" /\ KvNext
     \/ part = "heap" /\ PqNext
     \/ part = "rate" /\ RlNext
     \/ part = "webhooks" /\ WhNext
     \/ part = "locks" /\ LockNext
     \/ part = "cron" /\ CronNext
     \/ part = "backups" /\ BkNext
     \/ part = "ids" /\ PiNext
     \/ part = "config" /\ QcNext
     \/ part = "metrics" /\ MxNext
     \/ part = "sockets" /\ SkNext
  /\ But("kv", kvVars) /\ But("heap", pqVars) /\ But("rate", rlVars)
  /\ But("webhooks", whVars) /\ But("locks", lockVars) /\ But("cron", cronVars)
  /\ But("backups", bkVars) /\ But("ids", piVars) /\ But("config", qcVars)
  /\ But("metrics", mxVars) /\ But("sockets", skVars)
  /\ UNCHANGED <<part, globVars>>

ServicesSpec == ServicesInit /\ [][ServicesNext]_allVars
=============================================================================

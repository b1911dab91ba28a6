-------------------------------- MODULE Locks --------------------------------
(***************************************************************************)
(* The locks of the queue manager: which calls take one while they hold    *)
(* another.  A call is the set of its chains: locks taken one inside the   *)
(* other, in the order they are taken; a lock taken alone is a chain of    *)
(* one.  The shards, the processing tables and the segments of the job     *)
(* index stand for one lock each: no call holds two of a kind, and the     *)
(* circles look for those that meet on the same one.  parking_lot's locks  *)
(* prefer writers: a reader waits behind a writer that waits.  (try_read   *)
(* and try_write never wait and are left out.)                             *)
(***************************************************************************)
EXTENDS Naturals, Sequences, FiniteSets

CONSTANT LockThread

VARIABLES
  lockChain,   \* per thread, the chain it climbs; <<>>: between calls
  lockTaken,   \* how many of its locks it holds
  lockWaits    \* does it wait for the next

lockVars == <<lockChain, lockTaken, lockWaits>>

R(l) == [lock |-> l, mode |-> "read"]
W(l) == [lock |-> l, mode |-> "write"]
Singly(requests) == {<<r>> : r \in requests}

-----------------------------------------------------------------------------
(* The calls *)

\* An existing job is looked up with the custom ids in hand; the dependencies
\* are checked before the shard is locked, rollbacks after.
PushOutside == {<<W("custom_ids"), R("index")>>, <<W("custom_ids"), R("shard")>>,
                <<W("custom_ids"), R("processing")>>, <<W("shard"), W("index")>>}
               \cup Singly({W("debounce"), R("completed"), W("custom_ids")})
\* Mutant: the claim of a refused job is rolled back under the shard's lock.
PushRollsBackInside == PushOutside \cup {<<W("shard"), W("custom_ids")>>}
LockPush == PushOutside
LockPushBatch == {<<W("custom_ids"), W("shard")>>, <<W("shard"), W("index")>>}
                 \cup Singly({W("debounce"), R("custom_ids"), R("completed")})
LockAck == Singly({W("processing"), W("shard"), W("logs"), W("stalled"), W("results"),
                   W("completed"), R("settings"), W("completed_data"), W("index")})
LockCancel == {<<W("shard"), W("index")>>} \cup Singly({R("index"), W("processing"), W("index")})
LockDiscard == {<<W("shard"), W("index")>>}
               \cup Singly({R("index"), W("processing"), W("shard"), W("index")})
LockClean == {<<W("shard"), W("index")>>,
              <<W("completed"), W("results"), W("logs"), W("index")>>}
LockDrain == {<<W("shard"), W("index")>>}
LockObliterate == {<<W("shard"), W("index")>>} \cup Singly({W("processing"), W("index")})
LockRetryDlq == {<<W("shard"), W("index")>>}
LockPurgeDlq == Singly({W("shard"), W("index")})
LockGetJob == Singly({R("index"), R("processing"), R("shard")})
LockListQueues == {<<R("shard"), R("processing")>>, <<R("shard"), R("completed_data")>>}
LockJobCounts == Singly({R("shard"), R("processing"), R("completed_data")})
LockGetJobs == Singly({R("shard"), R("processing"), R("completed_data")})
LockListJobs == Singly({R("shard"), R("processing"), R("completed_data")})
LockGetMetrics == Singly({R("shard"), R("processing")})
LockStats == Singly({R("completed"), R("shard"), R("processing")})
LockStalled == Singly({R("processing"), W("stalled"), W("processing"), W("index"),
                       W("shard"), W("logs")})
LockDependencies == Singly({R("completed"), W("shard")})
LockTimedOut == Singly({R("processing"), W("processing"), W("shard"), W("index")})
LockRunCleanup == {<<W("completed"), W("results"), W("index")>>} \cup Singly({R("settings")})
LockJobLogs == {<<R("completed"), W("logs"), R("index")>>}
LockStaleIndex == {<<W("logs"), W("stalled")>>} \cup Singly({R("completed"), R("index"), W("index")})
LockFireWebhooks == {<<R("webhooks"), W("circuits")>>}

\* The entry of the index is held while the shard is read.
LockGetState == {<<R("index"), R("shard")>>}

\* The shard the parent waits in stays locked while each child is looked up, and
\* a child may lie in that same shard: a reader that reads again waits behind the
\* writer that waits for it.
LockGetChildren == {<<R("shard"), R("index")>>, <<R("shard"), R("processing")>>,
                    <<R("shard"), R("shard")>>}

\* The guards of the record's fields live until the record is complete.
LockMemoryStats ==
  {<<R("debounce"), R("completed"), R("completed_data"), R("results"), R("index")>>,
   <<R("debounce"), R("completed"), R("completed_data"), R("results"), R("processing")>>,
   <<R("debounce"), R("completed"), R("completed_data"), R("results"), R("logs"),
     R("stalled"), R("custom_ids"), R("waiters"), R("retention"), R("subscribers"),
     R("webhooks"), R("workers"), R("crons"), R("history")>>}
  \cup Singly({R("shard")})

LockChains ==
  UNION {LockPush, LockPushBatch, LockAck, LockCancel, LockDiscard, LockClean, LockDrain,
         LockObliterate, LockRetryDlq, LockPurgeDlq, LockGetJob, LockListQueues, LockJobCounts,
         LockGetJobs, LockListJobs, LockGetMetrics, LockStats, LockStalled, LockDependencies,
         LockTimedOut, LockRunCleanup, LockJobLogs, LockStaleIndex, LockFireWebhooks}

-----------------------------------------------------------------------------
(* parking_lot *)

LockHeld(t) == {lockChain[t][i] : i \in 1..lockTaken[t]}
LockWanted(t) == lockChain[t][lockTaken[t] + 1]

BlockedBy(t, u) ==
  \/ \E h \in LockHeld(u) : /\ h.lock = LockWanted(t).lock
                            /\ h.mode = "write" \/ LockWanted(t).mode = "write"
  \/ LockWanted(t).mode = "read" /\ lockWaits[u] /\ LockWanted(u) = W(LockWanted(t).lock)

LockInit ==
  /\ lockChain = [t \in LockThread |-> <<>>]
  /\ lockTaken = [t \in LockThread |-> 0]
  /\ lockWaits = [t \in LockThread |-> FALSE]

\* A call asks for its first lock.
LockCall(t, chains) ==
  /\ lockChain[t] = <<>>
  /\ \E c \in chains : lockChain' = [lockChain EXCEPT ![t] = c]
  /\ lockWaits' = [lockWaits EXCEPT ![t] = TRUE]
  /\ UNCHANGED lockTaken

LockRequest(t) ==
  /\ ~lockWaits[t] /\ lockTaken[t] \in 1..(Len(lockChain[t]) - 1)
  /\ lockWaits' = [lockWaits EXCEPT ![t] = TRUE]
  /\ UNCHANGED <<lockChain, lockTaken>>

LockGrant(t) ==
  /\ lockWaits[t] /\ \A u \in LockThread : ~BlockedBy(t, u)
  /\ lockTaken' = [lockTaken EXCEPT ![t] = @ + 1]
  /\ lockWaits' = [lockWaits EXCEPT ![t] = FALSE]
  /\ UNCHANGED lockChain

LockRelease(t) ==
  /\ lockTaken[t] > 0 /\ lockTaken[t] = Len(lockChain[t])
  /\ lockChain' = [lockChain EXCEPT ![t] = <<>>]
  /\ lockTaken' = [lockTaken EXCEPT ![t] = 0]
  /\ UNCHANGED lockWaits

LockNextOf(chains) ==
  \E t \in LockThread :
    LockCall(t, chains) \/ LockRequest(t) \/ LockGrant(t) \/ LockRelease(t)

LockNext == LockNextOf(LockChains)
LockSpec == LockInit /\ [][LockNext]_lockVars

\* With the two calls whose chains go against the order of the others.
LockNextAll == LockNextOf(LockChains \cup LockGetState \cup LockMemoryStats)
LockSpecAll == LockInit /\ [][LockNextAll]_lockVars

\* With the call that reads a shard it has locked for reading.
LockNextAgain == LockNextOf(LockChains \cup LockGetChildren)
LockSpecAgain == LockInit /\ [][LockNextAgain]_lockVars

-----------------------------------------------------------------------------
(* "must NOT hold shard.write() while acquiring completed_jobs.read()": no
   threads ever wait for one another in a circle, readers behind waiting
   writers included; somebody among any number of waiting threads gets its
   lock.  All calls but get_state, memory_stats and get_children. *)
NoCircularWait ==
  \A D \in SUBSET LockThread :
    (D # {}) => \E t \in D : lockWaits[t] => \A u \in D : ~BlockedBy(t, u)
=============================================================================

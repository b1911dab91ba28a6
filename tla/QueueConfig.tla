------------------------------ MODULE QueueConfig ------------------------------
(***************************************************************************)
(* The settings of a queue (paused, rate limit, concurrency limit) and     *)
(* their row in the database.  A call changes one setting under the shard  *)
(* lock, reads all of them under a second lock, and stores the row under   *)
(* the lock of the connection: calls may store in another order than they  *)
(* read.  A store that fails is only logged, and reset forgets the         *)
(* settings and leaves the row.  Limits are unset or one of QcLimits.      *)
(***************************************************************************)
EXTENDS Integers

CONSTANTS
  QcCaller,
  QcLimits,
  QcMaxCalls,    \* bound: calls made
  QcMaxRestarts  \* bound: restarts

ASSUME QueueConfigAssumption == QcMaxCalls \in Nat /\ QcMaxRestarts \in Nat

VARIABLES
  qcState,    \* queue_state of the shard
  qcRow,      \* the row of table queue_state; Default: none
  qcCall,     \* per caller: its stage and what it read
  qcMade, qcRestarts,
  qcReads,    \* reads, and resets, so far (history)
  qcStored    \* the number of the read the row comes from (history)

qcVars == <<qcState, qcRow, qcCall, qcMade, qcRestarts, qcReads, qcStored>>

Unset == 0
Default == [paused |-> FALSE, rate |-> Unset, concurrency |-> Unset]
NoConfigCall == [at |-> "idle", read |-> Default, number |-> 0]

QcInit ==
  /\ qcState = Default /\ qcRow = Default
  /\ qcCall = [c \in QcCaller |-> NoConfigCall]
  /\ qcMade = 0 /\ qcRestarts = 0 /\ qcReads = 0 /\ qcStored = 0

-----------------------------------------------------------------------------
Calling(c) == qcCall[c].at = "idle" /\ qcMade < QcMaxCalls /\ qcMade' = qcMade + 1

\* pause, resume, set_rate_limit, clear_rate_limit, set_concurrency, clear_concurrency
ChangeSetting(c) ==
  /\ Calling(c)
  /\ \/ \E b \in BOOLEAN : qcState' = [qcState EXCEPT !.paused = b]
     \/ \E l \in QcLimits \cup {Unset} : qcState' = [qcState EXCEPT !.rate = l]
     \/ \E l \in QcLimits \cup {Unset} : qcState' = [qcState EXCEPT !.concurrency = l]
  /\ qcCall' = [qcCall EXCEPT ![c].at = "read"]
  /\ UNCHANGED <<qcRow, qcRestarts, qcReads, qcStored>>

Held(c, what) == [qcCall EXCEPT ![c] = [at |-> "store", read |-> what, number |-> qcReads + 1]]

\* Mutant: the pause is not among what is read.
ReadWithoutPause(c) ==
  /\ qcCall[c].at = "read"
  /\ qcReads' = qcReads + 1
  /\ qcCall' = Held(c, [qcState EXCEPT !.paused = FALSE])
  /\ UNCHANGED <<qcState, qcRow, qcMade, qcRestarts, qcStored>>
\* persist_queue_state: all settings are read at once ...
ReadSettings(c) ==
  /\ qcCall[c].at = "read"
  /\ qcReads' = qcReads + 1
  /\ qcCall' = Held(c, qcState)
  /\ UNCHANGED <<qcState, qcRow, qcMade, qcRestarts, qcStored>>

\* ... and stored; obliterate deletes the row here.  An error leaves the row.
StoreRow(c) ==
  /\ qcCall[c].at = "store"
  /\ \/ qcRow' = qcCall[c].read /\ qcStored' = qcCall[c].number
     \/ UNCHANGED <<qcRow, qcStored>>
  /\ qcCall' = [qcCall EXCEPT ![c] = NoConfigCall]
  /\ UNCHANGED <<qcState, qcMade, qcRestarts, qcReads>>

\* obliterate forgets the settings with the queue.
ObliterateConfig(c) ==
  /\ Calling(c)
  /\ qcState' = Default
  /\ qcReads' = qcReads + 1 /\ qcCall' = Held(c, Default)
  /\ UNCHANGED <<qcRow, qcRestarts, qcStored>>

\* reset: fresh shards; no row is written.
ResetConfig ==
  /\ qcState # Default /\ qcState' = Default
  /\ qcReads' = qcReads + 1
  /\ UNCHANGED <<qcRow, qcCall, qcMade, qcRestarts, qcStored>>

\* A crash; recovery sets what the row has.
RecoverConfig ==
  /\ qcRestarts < QcMaxRestarts /\ qcRestarts' = qcRestarts + 1
  /\ qcState' = qcRow /\ qcReads' = qcStored
  /\ qcCall' = [c \in QcCaller |-> NoConfigCall]
  /\ UNCHANGED <<qcRow, qcMade, qcStored>>

QcNext ==
  \/ RecoverConfig \/ ResetConfig
  \/ \E c \in QcCaller : ChangeSetting(c) \/ ReadSettings(c) \/ StoreRow(c) \/ ObliterateConfig(c)

QcSpec == QcInit /\ [][QcNext]_qcVars

-----------------------------------------------------------------------------
\* The row is that of the last call to read: no call stored after it, its own
\* store did not fail, and no reset came after it.
LastReadStored == qcStored = qcReads

(* The settings a restart finds are those in force: when no call is under way
   the row holds them, however changes, reads and stores of several callers
   interleaved, unless a call stored after one that had read later than it, the
   store of the last call to read failed, or the settings were reset since.  A
   later call that stores makes the row right again. *)
RowHoldsSettings ==
  (\A c \in QcCaller : qcCall[c].at = "idle") /\ LastReadStored => qcRow = qcState
=============================================================================

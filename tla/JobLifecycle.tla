----------------------------- MODULE JobLifecycle -----------------------------
(***************************************************************************)
(* The in-memory life of a job in flashQ's QueueManager: every operation   *)
(* that moves a job between the queue, the processing table, the           *)
(* dependency table, the dead letter queue and the completed set, with the *)
(* resources a job holds on the way (unique key, group, concurrency slot). *)
(*                                                                         *)
(* The engine keeps these containers behind different locks (one RwLock    *)
(* per shard, one per processing shard, one for completed_jobs, and the    *)
(* lock-free job_index), and an operation visits them one after the other. *)
(* An action below is one such lock scope: between two actions of a thread *)
(* every other thread may run.  A job that a thread has taken out of one   *)
(* container and not yet put in the next is in the thread's `hand`.        *)
(***************************************************************************)
EXTENDS Integers, FiniteSets

CONSTANTS
  Job,               \* job ids
  Queue,             \* queue names; all of them hash to one shard
  Client,            \* threads that serve client calls
  Background,        \* the one background task
  Key, NoKey,        \* unique keys
  Group, NoGroup,    \* group ids
  None,              \* no argument
  QueueOf, KeyOf, GroupOf, DependsOn, Prio, MaxAttempts, \* options of a job
  RemoveOnComplete, RemoveOnFail, HasTtl, HasTimeout, HasBackoff, Postponed,
  InitialLimit,      \* concurrency limit each queue starts with
  NewLimits,         \* the limits set_concurrency is called with
  BatchSize,         \* bound: jobs in one batch call
  AttemptBound,      \* bound: attempts of a job whose max_attempts is 0
  MaxCompleted,      \* size at which completed_jobs is halved
  SyncPersistence,   \* push waits for the database and undoes a failed write
  Calls              \* the operations that occur in this instance

NoLimit == -1
StallLimit == 3
Thread == Client \cup {Background}

ASSUME ThreadAssumption == Background \notin Client
ASSUME JobAssumption == IsFiniteSet(Job)
ASSUME OptionAssumption ==
  /\ QueueOf \in [Job -> Queue]
  /\ KeyOf \in [Job -> Key \cup {NoKey}] /\ NoKey \notin Key
  /\ GroupOf \in [Job -> Group \cup {NoGroup}] /\ NoGroup \notin Group
  /\ DependsOn \in [Job -> SUBSET Job]
  /\ Prio \in [Job -> Int] /\ MaxAttempts \in [Job -> Nat]
  /\ RemoveOnComplete \subseteq Job /\ RemoveOnFail \subseteq Job
  /\ HasTtl \subseteq Job /\ HasTimeout \subseteq Job
  /\ HasBackoff \subseteq Job /\ Postponed \subseteq Job
  /\ None \notin Job \cup Queue
ASSUME LimitAssumption ==
  /\ InitialLimit \in [Queue -> Nat \cup {NoLimit}]
  /\ NewLimits \subseteq Nat
  /\ BatchSize \in Nat \ {0} /\ AttemptBound \in Nat /\ MaxCompleted \in Nat
  /\ SyncPersistence \in BOOLEAN

VARIABLES
  queued, processing, waitingDeps, dlq, completed, \* the containers
  index,                                           \* job_index
  uniqueKeys, activeGroups, paused, limit, current,\* the shard's queue state
  attempts, stalls, delayed, expired,              \* fields of the jobs
  created,                                         \* ids handed out so far
  pc, hand, todo, arg                              \* what each thread is doing

stores == <<queued, processing, waitingDeps, dlq, completed>>
limits == <<paused, limit, current>>
resources == <<uniqueKeys, activeGroups, paused, limit, current>>
fields == <<attempts, stalls, delayed, expired>>
threads == <<pc, hand, todo, arg>>
vars == <<stores, index, resources, fields, created, threads>>

Location == {"none", "queue", "processing", "waiting_deps", "dlq", "completed"}
Step == {"idle", "push_ready", "push_waiting", "persist_ready", "persist_waiting",
         "batch_check", "batch_insert", "pull_index", "pull_insert",
         "ack_release", "ack_record", "ack_index",
         "acks_take", "acks_release", "acks_record",
         "fail_index", "fail_place", "fail_discard", "fail_forget",
         "cancel_processing", "cancel_release", "cancel_waiting", "cancel_queued",
         "unindex", "delay_index", "delay_place", "promote",
         "discard_processing", "discard_place", "discard_index", "discard_queued",
         "purge_unindex", "obliterate_collect", "obliterate_remove",
         "timeout_take", "timeout_release", "timeout_index", "timeout_place",
         "stall_take", "stall_remove", "stall_index", "stall_place",
         "deps_move", "cleanup_unindex", "cleanup_remove"}

-----------------------------------------------------------------------------
(* Helpers *)

Idle(t, call) == pc[t] = "idle" /\ call \in Calls

At(t, step) == pc[t] = step

\* A thread goes on with its next lock scope ...
Goto(t, step) == pc' = [pc EXCEPT ![t] = step] /\ UNCHANGED <<todo, arg>>

\* ... about one job or queue ...
GotoWith(t, step, a) ==
  /\ pc' = [pc EXCEPT ![t] = step] /\ arg' = [arg EXCEPT ![t] = a]
  /\ UNCHANGED todo

\* ... or about the ids it has collected ...
GotoEach(t, step, S) ==
  /\ pc' = [pc EXCEPT ![t] = step] /\ todo' = [todo EXCEPT ![t] = S]
  /\ UNCHANGED arg

\* ... or returns to its caller.
Return(t) ==
  /\ pc' = [pc EXCEPT ![t] = "idle"]
  /\ todo' = [todo EXCEPT ![t] = {}] /\ arg' = [arg EXCEPT ![t] = None]

\* The loop over collected ids goes on, or ends with the last of them.
Continue(t, step, rest) == IF rest = {} THEN Return(t) ELSE GotoEach(t, step, rest)

Take(t, S) == hand' = [hand EXCEPT ![t] = @ \cup S]

Drop(t, S) == hand' = [hand EXCEPT ![t] = @ \ S]

SetIndex(S, where) ==
  index' = [j \in Job |-> IF j \in S THEN where ELSE index[j]]

On(q, S) == {j \in S : QueueOf[j] = q}

\* all(|dep| completed.contains(dep)); mutants: any, and a strict inclusion.
SomeDependencyMet(j, S) == DependsOn[j] = {} \/ DependsOn[j] \cap S # {}
DependenciesMetEarly(j, S) == DependsOn[j] \subseteq S /\ (DependsOn[j] # S \/ S = {})
DependenciesMet(j, S) == DependsOn[j] \subseteq S

Keys(S) == {KeyOf[j] : j \in S} \ {NoKey}
Groups(S) == {GroupOf[j] : j \in S} \ {NoGroup}

\* Mutant: the whole set of the queue is dropped.
ReleaseAllKeys(q, S) == uniqueKeys' = [uniqueKeys EXCEPT ![q] = {}]
ReleaseKeys(q, S) == uniqueKeys' = [uniqueKeys EXCEPT ![q] = @ \ Keys(S)]
ReleaseGroups(q, S) == activeGroups' = [activeGroups EXCEPT ![q] = @ \ Groups(S)]

\* Mutants: the slot is kept; the counter is not kept above zero.
KeepSlots(q, n) == UNCHANGED current
ReleaseSlotsBelowZero(q, n) ==
  current' = [current EXCEPT ![q] = IF limit[q] = NoLimit THEN 0 ELSE @ - n]

\* ConcurrencyLimiter::release saturates at zero; without a limiter there is
\* nothing to count.
ReleaseSlots(q, n) ==
  current' = [current EXCEPT ![q] =
                IF limit[q] = NoLimit \/ @ < n THEN 0 ELSE @ - n]

ExhaustedLate(j) == MaxAttempts[j] > 0 /\ attempts[j] > MaxAttempts[j] \* mutant
Exhausted(j) == MaxAttempts[j] > 0 /\ attempts[j] >= MaxAttempts[j]

\* Job::attempts + 1, with the bound on jobs that are retried for ever.
CountAttempt(j) ==
  /\ MaxAttempts[j] = 0 => attempts[j] < AttemptBound
  /\ attempts' = [attempts EXCEPT ![j] = @ + 1]

\* A retried job waits for its backoff, or keeps the run_at it was pulled with.
Requeue(j) ==
  /\ queued' = queued \cup {j}
  /\ delayed' = IF j \in HasBackoff THEN delayed \cup {j} ELSE delayed

Init ==
  /\ queued = {} /\ processing = {} /\ waitingDeps = {} /\ dlq = {} /\ completed = {}
  /\ index = [j \in Job |-> "none"]
  /\ uniqueKeys = [q \in Queue |-> {}] /\ activeGroups = [q \in Queue |-> {}]
  /\ paused = {} /\ limit = InitialLimit /\ current = [q \in Queue |-> 0]
  /\ attempts = [j \in Job |-> 0] /\ stalls = [j \in Job |-> 0]
  /\ delayed = {} /\ expired = {} /\ created = {}
  /\ pc = [t \in Thread |-> "idle"] /\ hand = [t \in Thread |-> {}]
  /\ todo = [t \in Thread |-> {}] /\ arg = [t \in Thread |-> None]

-----------------------------------------------------------------------------
(* push: the id is fresh, the dependencies are looked up in completed_jobs  *)
(* before the shard is locked, and the answer is used under the lock.       *)

Push(c, j) ==
  /\ Idle(c, "push") /\ j \in Job \ created
  /\ created' = created \cup {j}
  /\ Take(c, {j})
  /\ delayed' = IF j \in Postponed THEN delayed \cup {j} ELSE delayed
  /\ Goto(c, IF DependenciesMet(j, completed) THEN "push_ready" ELSE "push_waiting")
  /\ UNCHANGED <<stores, index, resources, attempts, stalls, expired>>

\* The duplicate is refused under the shard lock; its id is never used.
PushDuplicate(c) ==
  \E j \in hand[c] :
    /\ pc[c] \in {"push_ready", "push_waiting"}
    /\ KeyOf[j] \in uniqueKeys[QueueOf[j]]
    /\ Drop(c, {j}) /\ Return(c)
    /\ UNCHANGED <<stores, index, resources, fields, created>>

\* Without sync persistence the row is left to the async writer and push is done.
PushInsert(c) ==
  \E j \in hand[c] : LET q == QueueOf[j] IN
    /\ pc[c] \in {"push_ready", "push_waiting"}
    /\ KeyOf[j] \notin uniqueKeys[q]
    /\ uniqueKeys' = [uniqueKeys EXCEPT ![q] = @ \cup Keys({j})]
    /\ Drop(c, {j})
    /\ \/ /\ At(c, "push_ready")
          /\ queued' = queued \cup {j} /\ SetIndex({j}, "queue")
          /\ IF SyncPersistence THEN GotoWith(c, "persist_ready", j) ELSE Return(c)
          /\ UNCHANGED waitingDeps
       \/ /\ At(c, "push_waiting")
          /\ waitingDeps' = waitingDeps \cup {j} /\ SetIndex({j}, "waiting_deps")
          /\ IF SyncPersistence THEN GotoWith(c, "persist_waiting", j) ELSE Return(c)
          /\ UNCHANGED queued
    /\ UNCHANGED <<processing, dlq, completed, activeGroups, limits, fields, created>>

PushPersisted(c) ==
  /\ pc[c] \in {"persist_ready", "persist_waiting"}
  /\ Return(c)
  /\ UNCHANGED <<stores, index, resources, fields, created, hand>>

\* The database refused the row.  The job is taken back only from the
\* container it was first put in, and its unique key stays claimed.
PushRollback(c) ==
  /\ \/ /\ At(c, "persist_ready")
        /\ queued' = queued \ {arg[c]} /\ UNCHANGED waitingDeps
     \/ /\ At(c, "persist_waiting")
        /\ waitingDeps' = waitingDeps \ {arg[c]} /\ UNCHANGED queued
  /\ Goto(c, "unindex")
  /\ UNCHANGED <<processing, dlq, completed, index, resources, fields, created, hand>>

\* unindex_job(job_id), the last step of a rollback and of a cancellation.
Unindex(c) ==
  /\ At(c, "unindex")
  /\ SetIndex({arg[c]}, "none") /\ Return(c)
  /\ UNCHANGED <<stores, resources, fields, created, hand>>

(* push_batch: keys are claimed in one lock scope, completed_jobs is read,  *)
(* and the jobs enter the shard in a later scope.                           *)

PushBatch(c, q, S, Accepted) ==
  /\ Idle(c, "push_batch")
  /\ S # {} /\ S \subseteq On(q, Job \ created) /\ Cardinality(S) <= BatchSize
  /\ Accepted \subseteq S /\ Keys(Accepted) \cap uniqueKeys[q] = {}
  /\ \A i, j \in Accepted : i # j /\ KeyOf[i] = KeyOf[j] => KeyOf[i] = NoKey
  /\ \A j \in S \ Accepted : KeyOf[j] \in uniqueKeys[q] \cup Keys(Accepted)
  /\ uniqueKeys' = [uniqueKeys EXCEPT ![q] = @ \cup Keys(Accepted)]
  /\ created' = created \cup S
  /\ delayed' = delayed \cup (Postponed \cap Accepted)
  /\ Take(c, Accepted)
  /\ IF Accepted = {} THEN Return(c) ELSE Goto(c, "batch_check")
  /\ UNCHANGED <<stores, index, activeGroups, limits, attempts, stalls, expired>>

PushBatchCheck(c) ==
  /\ At(c, "batch_check")
  /\ GotoEach(c, "batch_insert", {j \in hand[c] : ~DependenciesMet(j, completed)})
  /\ UNCHANGED <<stores, index, resources, fields, created, hand>>

PushBatchInsert(c) ==
  LET waiting == todo[c] \cap hand[c]
      ready == hand[c] \ todo[c] IN
  /\ At(c, "batch_insert")
  /\ queued' = queued \cup ready
  /\ waitingDeps' = waitingDeps \cup waiting
  /\ index' = [j \in Job |-> IF j \in ready THEN "queue"
                             ELSE IF j \in waiting THEN "waiting_deps" ELSE index[j]]
  /\ Drop(c, hand[c]) /\ Return(c)
  /\ UNCHANGED <<processing, dlq, completed, resources, fields, created>>

-----------------------------------------------------------------------------
(* pull, pull_batch, pull_batch_nowait: one scope of the shard lock pops    *)
(* jobs in priority order.  Expired jobs met on the way are dropped, jobs   *)
(* of a busy group are skipped and put back, and the first job that is not  *)
(* yet due ends the search.  Among equal priorities due jobs come first     *)
(* (smaller run_at); the rest of the order is left open.                    *)

Waiting(q) == On(q, queued) \ expired
NotDue(q) == Waiting(q) \cap delayed
Reachable(q) ==
  {j \in Waiting(q) \ delayed : \A d \in NotDue(q) : Prio[j] >= Prio[d]}
NeverBusy(q, j) == FALSE \* mutant
Busy(q, j) == GroupOf[j] \in activeGroups[q]

Slots(q, n) == IF limit[q] = NoLimit \/ limit[q] - current[q] >= n
               THEN n ELSE limit[q] - current[q]

\* S is what a search for n jobs may return.
PoppedJobs(q, n, S) ==
  /\ \A j \in S : ~Busy(q, j)
  /\ \A i, j \in S : i # j /\ GroupOf[i] = GroupOf[j] => GroupOf[i] = NoGroup
  /\ \A j \in Reachable(q) \ S :
       \/ Busy(q, j)
       \/ \E i \in S : GroupOf[i] = GroupOf[j] /\ GroupOf[j] # NoGroup /\ Prio[i] >= Prio[j]
       \/ Cardinality(S) = n /\ \A i \in S : Prio[i] >= Prio[j]

\* The search for S met x: with k = 1 surely, with k = 0 possibly.
Met(q, n, S, x, k) ==
  IF Cardinality(S) = n THEN \E i \in S : Prio[x] >= Prio[i] + k
  ELSE \A d \in NotDue(q) : Prio[x] >= Prio[d] + k

\* X is what that search may have dropped.
DroppedJobs(q, n, S, X) ==
  \A x \in On(q, queued) \cap expired :
    /\ x \in X => Met(q, n, S, x, 0)
    /\ Met(q, n, S, x, 1) => x \in X

Pull(c, q, n, S, X) ==
  /\ Idle(c, "pull") /\ q \notin paused /\ Slots(q, n) > 0
  /\ S \subseteq Reachable(q) /\ Cardinality(S) <= Slots(q, n)
  /\ X \subseteq On(q, queued) \cap expired /\ S \cup X # {}
  /\ PoppedJobs(q, Slots(q, n), S) /\ DroppedJobs(q, Slots(q, n), S, X)
  /\ queued' = queued \ (S \cup X)
  /\ Take(c, S)
  /\ activeGroups' = [activeGroups EXCEPT ![q] = @ \cup Groups(S)]
  /\ current' = [current EXCEPT ![q] =
                    IF limit[q] = NoLimit THEN @ ELSE @ + Cardinality(S)]
  /\ IF S = {} THEN Return(c) ELSE Goto(c, "pull_index")
  /\ UNCHANGED <<processing, waitingDeps, dlq, completed, index, uniqueKeys, paused, limit,
                 fields, created>>

PullIndex(c, j) ==
  /\ At(c, "pull_index") /\ j \in hand[c]
  /\ SetIndex({j}, "processing")
  /\ GotoWith(c, "pull_insert", j)
  /\ UNCHANGED <<stores, resources, fields, created, hand>>

PullInsert(c) ==
  \E j \in hand[c] :
    /\ At(c, "pull_insert") /\ j = arg[c]
    /\ processing' = processing \cup {j}
    /\ Drop(c, {j})
    /\ IF hand[c] = {j} THEN Return(c) ELSE Goto(c, "pull_index")
    /\ UNCHANGED <<queued, waitingDeps, dlq, completed, index, resources, fields, created>>

-----------------------------------------------------------------------------
(* ack: the job leaves the processing table, its resources are released,    *)
(* and only then is it recorded as completed, and its index entry last.     *)

\* Mutant: processing_get instead of processing_remove.
CopyFromProcessing(t, j) == j \in processing /\ Take(t, {j}) /\ UNCHANGED stores
TakeFromProcessing(t, j) ==
  /\ j \in processing
  /\ processing' = processing \ {j}
  /\ Take(t, {j})
  /\ UNCHANGED <<queued, waitingDeps, dlq, completed>>

Ack(c, j) ==
  /\ Idle(c, "ack") /\ TakeFromProcessing(c, j)
  /\ Goto(c, "ack_release")
  /\ UNCHANGED <<index, resources, fields, created>>

AckRelease(c) ==
  \E j \in hand[c] : LET q == QueueOf[j] IN
    /\ At(c, "ack_release")
    /\ ReleaseSlots(q, 1) /\ ReleaseGroups(q, {j}) /\ ReleaseKeys(q, {j})
    /\ Goto(c, "ack_record")
    /\ UNCHANGED <<stores, index, paused, limit, fields, created, hand>>

\* With remove_on_complete nothing of the job is kept.
AckRecord(c) ==
  \E j \in hand[c] :
    /\ At(c, "ack_record")
    /\ Drop(c, {j})
    /\ \/ /\ j \in RemoveOnComplete
          /\ SetIndex({j}, "none") /\ stalls' = [stalls EXCEPT ![j] = 0]
          /\ Return(c) /\ UNCHANGED completed
       \/ /\ j \notin RemoveOnComplete
          /\ completed' = completed \cup {j}
          /\ GotoWith(c, "ack_index", j) /\ UNCHANGED <<index, stalls>>
    /\ UNCHANGED <<queued, processing, waitingDeps, dlq, resources, attempts, delayed,
                   expired, created>>

\* Mutant: the index keeps its old entry.
AckIndexForgotten(c) ==
  /\ At(c, "ack_index") /\ Return(c)
  /\ UNCHANGED <<stores, index, resources, fields, created, hand>>

AckIndex(c) ==
  /\ At(c, "ack_index")
  /\ SetIndex({arg[c]}, "completed") /\ Return(c)
  /\ UNCHANGED <<stores, resources, fields, created, hand>>

(* ack_batch: a first pass takes and indexes the jobs one by one, then one  *)
(* lock scope of the shard releases what all of them held, against the      *)
(* queue of the first job taken.                                            *)

AckBatch(c, S) ==
  /\ Idle(c, "ack_batch") /\ S # {} /\ Cardinality(S) <= BatchSize
  /\ S \cap processing # {}
  /\ GotoEach(c, "acks_take", S)
  /\ UNCHANGED <<stores, index, resources, fields, created, hand>>

\* On with the ids that are left.
AckBatchGoesOn(c, j) ==
  /\ todo' = [todo EXCEPT ![c] = @ \ {j}]
  /\ pc' = [pc EXCEPT ![c] = IF todo[c] # {j} THEN "acks_take"
                             ELSE IF arg[c] = None THEN "idle" ELSE "acks_release"]
  /\ UNCHANGED arg

AckBatchTake(c, j) ==
  /\ At(c, "acks_take") /\ j \in todo[c] /\ todo[c] \cap hand[c] = {}
  /\ \/ /\ TakeFromProcessing(c, j)
        /\ arg' = [arg EXCEPT ![c] = IF @ = None THEN QueueOf[j] ELSE @]
        /\ UNCHANGED <<pc, todo>>
     \/ j \notin processing /\ AckBatchGoesOn(c, j) /\ UNCHANGED <<stores, hand>>
  /\ UNCHANGED <<index, resources, fields, created>>

AckBatchIndex(c, j) ==
  /\ At(c, "acks_take") /\ j \in todo[c] \cap hand[c]
  /\ SetIndex({j}, IF j \in RemoveOnComplete THEN "none" ELSE "completed")
  /\ AckBatchGoesOn(c, j)
  /\ UNCHANGED <<stores, resources, fields, created, hand>>

AckBatchRelease(c) ==
  LET q == arg[c] IN
  /\ At(c, "acks_release")
  /\ ReleaseSlots(q, Cardinality(hand[c]))
  /\ ReleaseGroups(q, hand[c]) /\ ReleaseKeys(q, hand[c])
  /\ Goto(c, "acks_record")
  /\ UNCHANGED <<stores, index, paused, limit, fields, created, hand>>

AckBatchRecord(c) ==
  /\ At(c, "acks_record")
  /\ completed' = completed \cup (hand[c] \ RemoveOnComplete)
  /\ stalls' = [j \in Job |-> IF j \in hand[c] \cap RemoveOnComplete THEN 0 ELSE stalls[j]]
  /\ Drop(c, hand[c]) /\ Return(c)
  /\ UNCHANGED <<queued, processing, waitingDeps, dlq, index, resources, attempts, delayed,
                 expired, created>>

-----------------------------------------------------------------------------
(* fail: the attempt is counted; the index is moved first and the job       *)
(* second, together with the release of its slot and group.                 *)

\* The index entry announces where the job is about to be put.
IndexNext(t, from, to) ==
  \E j \in hand[t] :
    /\ At(t, from)
    /\ SetIndex({j}, IF Exhausted(j) THEN "dlq" ELSE "queue")
    /\ Goto(t, to)
    /\ UNCHANGED <<stores, resources, fields, created, hand>>

\* An exhausted job goes to the dead letter queue, any other back to its queue.
PlaceNext(j) ==
  IF Exhausted(j)
  THEN dlq' = dlq \cup {j} /\ UNCHANGED <<queued, delayed>>
  ELSE Requeue(j) /\ UNCHANGED dlq

Fail(c, j) ==
  /\ Idle(c, "fail") /\ TakeFromProcessing(c, j) /\ CountAttempt(j)
  /\ Goto(c, IF j \in RemoveOnFail /\ Exhausted(j)' THEN "fail_discard" ELSE "fail_index")
  /\ UNCHANGED <<index, resources, stalls, delayed, expired, created>>

FailIndex(c) == IndexNext(c, "fail_index", "fail_place")

FailPlace(c) ==
  \E j \in hand[c] : LET q == QueueOf[j] IN
    /\ At(c, "fail_place")
    /\ ReleaseSlots(q, 1) /\ ReleaseGroups(q, {j})
    /\ PlaceNext(j)
    /\ Drop(c, {j}) /\ Return(c)
    /\ UNCHANGED <<processing, waitingDeps, completed, index, uniqueKeys, paused, limit,
                   attempts, stalls, expired, created>>

\* remove_on_fail: slot and group are released, the unique key is not.
FailDiscard(c) ==
  \E j \in hand[c] : LET q == QueueOf[j] IN
    /\ At(c, "fail_discard")
    /\ ReleaseSlots(q, 1) /\ ReleaseGroups(q, {j})
    /\ Drop(c, {j}) /\ GotoWith(c, "fail_forget", j)
    /\ UNCHANGED <<stores, index, uniqueKeys, paused, limit, fields, created>>

FailForget(c) ==
  /\ At(c, "fail_forget")
  /\ SetIndex({arg[c]}, "none")
  /\ stalls' = [stalls EXCEPT ![arg[c]] = 0]
  /\ Return(c)
  /\ UNCHANGED <<stores, resources, attempts, delayed, expired, created, hand>>

-----------------------------------------------------------------------------
(* cancel: the index says where the job is; the job is then looked for      *)
(* there, and a job that has moved in between is reported as not found.     *)

Cancel(c, j) ==
  /\ Idle(c, "cancel")
  /\ index[j] \in {"processing", "waiting_deps", "queue"}
  /\ GotoWith(c, CASE index[j] = "processing" -> "cancel_processing"
                   [] index[j] = "waiting_deps" -> "cancel_waiting"
                   [] index[j] = "queue" -> "cancel_queued", j)
  /\ UNCHANGED <<stores, index, resources, fields, created, hand>>

\* Mutant: the outcome of processing_remove is not looked at.
CancelProcessingUnchecked(c) ==
  /\ At(c, "cancel_processing")
  /\ \/ TakeFromProcessing(c, arg[c]) /\ Goto(c, "cancel_release")
     \/ arg[c] \notin processing /\ Goto(c, "unindex") /\ UNCHANGED <<stores, hand>>
  /\ UNCHANGED <<index, resources, fields, created>>

CancelProcessing(c) ==
  /\ At(c, "cancel_processing")
  /\ \/ TakeFromProcessing(c, arg[c]) /\ Goto(c, "cancel_release")
     \/ arg[c] \notin processing /\ Return(c) /\ UNCHANGED <<stores, hand>>
  /\ UNCHANGED <<index, resources, fields, created>>

\* The group of the job is not released.
CancelRelease(c) ==
  \E j \in hand[c] : LET q == QueueOf[j] IN
    /\ At(c, "cancel_release")
    /\ ReleaseSlots(q, 1) /\ ReleaseKeys(q, {j})
    /\ Drop(c, {j}) /\ Goto(c, "unindex")
    /\ UNCHANGED <<stores, index, activeGroups, paused, limit, fields, created>>

\* The unique key of the job is not released.
CancelWaiting(c) ==
  /\ At(c, "cancel_waiting")
  /\ waitingDeps' = waitingDeps \ {arg[c]}
  /\ IF arg[c] \in waitingDeps THEN Goto(c, "unindex") ELSE Return(c)
  /\ UNCHANGED <<queued, processing, dlq, completed, index, resources, fields, created, hand>>

CancelQueued(c) ==
  /\ At(c, "cancel_queued")
  /\ queued' = queued \ {arg[c]}
  /\ IF arg[c] \in queued
     THEN ReleaseKeys(QueueOf[arg[c]], {arg[c]}) /\ Goto(c, "unindex")
     ELSE Return(c) /\ UNCHANGED uniqueKeys
  /\ UNCHANGED <<processing, waitingDeps, dlq, completed, index, activeGroups, limits,
                 fields, created, hand>>

-----------------------------------------------------------------------------
(* move_to_delayed, promote, discard                                        *)

MoveToDelayed(c, j) ==
  /\ Idle(c, "move_to_delayed") /\ TakeFromProcessing(c, j)
  /\ Goto(c, "delay_index")
  /\ UNCHANGED <<index, resources, fields, created>>

DelayIndex(c) ==
  \E j \in hand[c] :
    /\ At(c, "delay_index")
    /\ SetIndex({j}, "queue") /\ Goto(c, "delay_place")
    /\ UNCHANGED <<stores, resources, fields, created, hand>>

\* The group of the job is not released.
DelayPlace(c) ==
  \E j \in hand[c] :
    /\ At(c, "delay_place")
    /\ ReleaseSlots(QueueOf[j], 1)
    /\ queued' = queued \cup {j} /\ delayed' = delayed \cup {j}
    /\ Drop(c, {j}) /\ Return(c)
    /\ UNCHANGED <<processing, waitingDeps, dlq, completed, index, uniqueKeys, activeGroups,
                   paused, limit, attempts, stalls, expired, created>>

Promote(c, j) ==
  /\ Idle(c, "promote") /\ index[j] = "queue"
  /\ GotoWith(c, "promote", j)
  /\ UNCHANGED <<stores, index, resources, fields, created, hand>>

PromoteQueued(c) ==
  /\ At(c, "promote")
  /\ delayed' = IF arg[c] \in queued THEN delayed \ {arg[c]} ELSE delayed
  /\ Return(c)
  /\ UNCHANGED <<stores, index, resources, attempts, stalls, expired, created, hand>>

Discard(c, j) ==
  /\ Idle(c, "discard") /\ index[j] \in {"processing", "queue"}
  /\ GotoWith(c, IF index[j] = "queue" THEN "discard_queued" ELSE "discard_processing", j)
  /\ UNCHANGED <<stores, index, resources, fields, created, hand>>

\* Mutant: the job is copied to the dead letter queue.
DiscardQueuedCopies(c) ==
  /\ At(c, "discard_queued")
  /\ dlq' = IF arg[c] \in queued THEN dlq \cup {arg[c]} ELSE dlq
  /\ Return(c)
  /\ UNCHANGED <<queued, processing, waitingDeps, completed, index, resources, fields,
                 created, hand>>

DiscardQueued(c) ==
  /\ At(c, "discard_queued")
  /\ IF arg[c] \in queued
     THEN /\ queued' = queued \ {arg[c]} /\ dlq' = dlq \cup {arg[c]}
          /\ SetIndex({arg[c]}, "dlq")
     ELSE UNCHANGED <<queued, dlq, index>>
  /\ Return(c)
  /\ UNCHANGED <<processing, waitingDeps, completed, resources, fields, created, hand>>

DiscardProcessing(c) ==
  /\ At(c, "discard_processing")
  /\ \/ TakeFromProcessing(c, arg[c]) /\ Goto(c, "discard_place")
     \/ arg[c] \notin processing /\ Return(c) /\ UNCHANGED <<stores, hand>>
  /\ UNCHANGED <<index, resources, fields, created>>

\* The group is not released, and the index follows after the lock.
DiscardPlace(c) ==
  \E j \in hand[c] :
    /\ At(c, "discard_place")
    /\ ReleaseSlots(QueueOf[j], 1)
    /\ dlq' = dlq \cup {j}
    /\ Drop(c, {j}) /\ Goto(c, "discard_index")
    /\ UNCHANGED <<queued, processing, waitingDeps, completed, index, uniqueKeys,
                   activeGroups, paused, limit, fields, created>>

DiscardIndex(c) ==
  /\ At(c, "discard_index")
  /\ SetIndex({arg[c]}, "dlq") /\ Return(c)
  /\ UNCHANGED <<stores, resources, fields, created, hand>>

-----------------------------------------------------------------------------
(* Whole queues: dead letters, cleaning, draining, obliterating             *)

\* One dead letter, or all those of the queue; the index is set under the lock.
RetryDlq(c, q, S) ==
  /\ Idle(c, "retry_dlq") /\ S # {} /\ S \subseteq On(q, dlq)
  /\ Cardinality(S) = 1 \/ S = On(q, dlq)
  /\ dlq' = dlq \ S /\ queued' = queued \cup S
  /\ attempts' = [j \in Job |-> IF j \in S THEN 0 ELSE attempts[j]]
  /\ delayed' = delayed \ S
  /\ SetIndex(S, "queue")
  /\ UNCHANGED <<processing, waitingDeps, completed, resources, stalls, expired, created,
                 threads>>

PurgeDlq(c, q) ==
  /\ Idle(c, "purge_dlq") /\ On(q, dlq) # {}
  /\ dlq' = dlq \ On(q, dlq)
  /\ GotoEach(c, "purge_unindex", On(q, dlq))
  /\ UNCHANGED <<queued, processing, waitingDeps, completed, index, resources, fields, created,
                 hand>>

PurgeUnindex(c) ==
  /\ At(c, "purge_unindex")
  /\ SetIndex(todo[c], "none") /\ Return(c)
  /\ UNCHANGED <<stores, resources, fields, created, hand>>

\* S is what the grace period and the limit select.
CleanFailed(c, q, S) ==
  /\ Idle(c, "clean_failed") /\ S # {} /\ S \subseteq On(q, dlq)
  /\ dlq' = dlq \ S /\ SetIndex(S, "none")
  /\ UNCHANGED <<queued, processing, waitingDeps, completed, resources, fields, created, threads>>

CleanWaiting(c, q, S) ==
  /\ Idle(c, "clean_waiting") /\ S # {} /\ S \subseteq On(q, queued)
  /\ queued' = queued \ S /\ SetIndex(S, "none") /\ ReleaseKeys(q, S)
  /\ UNCHANGED <<processing, waitingDeps, dlq, completed, activeGroups, limits, fields,
                 created, threads>>

\* clean(.., Completed) ignores its queue and its grace period.
CleanCompleted(c, S) ==
  /\ Idle(c, "clean_completed") /\ S # {} /\ S \subseteq completed
  /\ completed' = completed \ S /\ SetIndex(S, "none")
  /\ UNCHANGED <<queued, processing, waitingDeps, dlq, resources, fields, created, threads>>

Drain(c, q) ==
  LET S == On(q, queued) IN
  /\ Idle(c, "drain") /\ S # {}
  /\ queued' = queued \ S /\ SetIndex(S, "none") /\ ReleaseKeys(q, S)
  /\ UNCHANGED <<processing, waitingDeps, dlq, completed, activeGroups, limits, fields,
                 created, threads>>

\* Everything the shard knows of the queue but its active groups; the
\* processing table comes later, id by id.
Obliterate(c, q) ==
  LET S == On(q, queued \cup dlq \cup waitingDeps) IN
  /\ Idle(c, "obliterate")
  /\ queued' = queued \ S /\ dlq' = dlq \ S /\ waitingDeps' = waitingDeps \ S
  /\ SetIndex(S, "none")
  /\ uniqueKeys' = [uniqueKeys EXCEPT ![q] = {}]
  /\ paused' = paused \ {q}
  /\ limit' = [limit EXCEPT ![q] = NoLimit] /\ current' = [current EXCEPT ![q] = 0]
  /\ GotoWith(c, "obliterate_collect", q)
  /\ UNCHANGED <<processing, completed, activeGroups, fields, created, hand>>

ObliterateCollect(c) ==
  /\ At(c, "obliterate_collect")
  /\ Continue(c, "obliterate_remove", On(arg[c], processing))
  /\ UNCHANGED <<stores, index, resources, fields, created, hand>>

\* The id loses its index entry even if the job has left the table meanwhile.
ObliterateRemove(c, j) ==
  /\ At(c, "obliterate_remove") /\ j \in todo[c]
  /\ processing' = processing \ {j} /\ SetIndex({j}, "none")
  /\ Continue(c, "obliterate_remove", todo[c] \ {j})
  /\ UNCHANGED <<queued, waitingDeps, dlq, completed, resources, fields, created, hand>>

-----------------------------------------------------------------------------
(* Queue control and heartbeats: one lock scope each                        *)

Pause(c, q) ==
  /\ Idle(c, "pause") /\ paused' = paused \cup {q}
  /\ UNCHANGED <<stores, index, uniqueKeys, activeGroups, limit, current, fields, created, threads>>

Resume(c, q) ==
  /\ Idle(c, "pause") /\ paused' = paused \ {q}
  /\ UNCHANGED <<stores, index, uniqueKeys, activeGroups, limit, current, fields, created, threads>>

\* A new limiter starts at zero, whatever is in processing.
SetConcurrency(c, q, n) ==
  /\ Idle(c, "set_concurrency")
  /\ limit' = [limit EXCEPT ![q] = n] /\ current' = [current EXCEPT ![q] = 0]
  /\ UNCHANGED <<stores, index, uniqueKeys, activeGroups, paused, fields, created, threads>>

ClearConcurrency(c, q) ==
  /\ Idle(c, "set_concurrency")
  /\ limit' = [limit EXCEPT ![q] = NoLimit] /\ current' = [current EXCEPT ![q] = 0]
  /\ UNCHANGED <<stores, index, uniqueKeys, activeGroups, paused, fields, created, threads>>

Heartbeat(c, j) ==
  /\ Idle(c, "heartbeat") /\ j \in processing
  /\ stalls' = [stalls EXCEPT ![j] = 0]
  /\ UNCHANGED <<stores, index, resources, attempts, delayed, expired, created, threads>>

-----------------------------------------------------------------------------
(* The background task: one tick at a time.  Ids are collected first and    *)
(* acted on one by one, while clients go on.                                *)

TimeoutScan(b, S) ==
  /\ Idle(b, "timeout") /\ S # {} /\ S \subseteq processing \cap HasTimeout
  /\ GotoEach(b, "timeout_take", S)
  /\ UNCHANGED <<stores, index, resources, fields, created, hand>>

\* Mutant: the collected job is retried although it may have left meanwhile.
TimeoutTakeUnchecked(b, j) ==
  /\ At(b, "timeout_take") /\ j \in todo[b]
  /\ processing' = processing \ {j} /\ Take(b, {j}) /\ CountAttempt(j)
  /\ GotoEach(b, "timeout_release", todo[b] \ {j})
  /\ UNCHANGED <<queued, waitingDeps, dlq, completed, index, resources, stalls, delayed,
                 expired, created>>

TimeoutTake(b, j) ==
  /\ At(b, "timeout_take") /\ j \in todo[b]
  /\ \/ /\ TakeFromProcessing(b, j) /\ CountAttempt(j)
        /\ GotoEach(b, "timeout_release", todo[b] \ {j})
     \/ /\ j \notin processing
        /\ Continue(b, "timeout_take", todo[b] \ {j})
        /\ UNCHANGED <<stores, attempts, hand>>
  /\ UNCHANGED <<index, resources, stalls, delayed, expired, created>>

\* The group of the job is not released.
TimeoutRelease(b) ==
  \E j \in hand[b] :
    /\ At(b, "timeout_release")
    /\ ReleaseSlots(QueueOf[j], 1)
    /\ Goto(b, "timeout_index")
    /\ UNCHANGED <<stores, index, uniqueKeys, activeGroups, paused, limit, fields, created, hand>>

TimeoutIndex(b) == IndexNext(b, "timeout_index", "timeout_place")

\* Mutant: the slot is given back a second time.
TimeoutPlaceReleases(b) ==
  \E j \in hand[b] :
    /\ At(b, "timeout_place")
    /\ ReleaseSlots(QueueOf[j], 1)
    /\ PlaceNext(j)
    /\ Drop(b, {j}) /\ Continue(b, "timeout_take", todo[b])
    /\ UNCHANGED <<processing, waitingDeps, completed, index, uniqueKeys, activeGroups, paused,
                   limit, attempts, stalls, expired, created>>

TimeoutPlace(b) ==
  \E j \in hand[b] :
    /\ At(b, "timeout_place")
    /\ PlaceNext(j)
    /\ Drop(b, {j}) /\ Continue(b, "timeout_take", todo[b])
    /\ UNCHANGED <<processing, waitingDeps, completed, index, resources, attempts, stalls,
                   expired, created>>

StallScan(b, S) ==
  /\ Idle(b, "stall") /\ S # {} /\ S \subseteq processing
  /\ GotoEach(b, "stall_take", S)
  /\ UNCHANGED <<stores, index, resources, fields, created, hand>>

\* The third detection is the last; counts beyond it are the same to the code.
StallCount(b, j) ==
  LET n == IF stalls[j] < StallLimit THEN stalls[j] + 1 ELSE StallLimit
      rest == todo[b] \ {j} IN
  /\ At(b, "stall_take") /\ j \in todo[b]
  /\ stalls' = [stalls EXCEPT ![j] = n]
  /\ IF n = StallLimit
     THEN /\ pc' = [pc EXCEPT ![b] = "stall_remove"]
          /\ todo' = [todo EXCEPT ![b] = rest] /\ arg' = [arg EXCEPT ![b] = j]
     ELSE Continue(b, "stall_take", rest)
  /\ UNCHANGED <<stores, index, resources, attempts, delayed, expired, created, hand>>

StallRemove(b) ==
  /\ At(b, "stall_remove")
  /\ \/ TakeFromProcessing(b, arg[b]) /\ Goto(b, "stall_index")
     \/ /\ arg[b] \notin processing
        /\ Continue(b, "stall_take", todo[b]) /\ UNCHANGED <<stores, hand>>
  /\ UNCHANGED <<index, resources, fields, created>>

StallIndex(b) ==
  \E j \in hand[b] :
    /\ At(b, "stall_index")
    /\ SetIndex({j}, "dlq") /\ Goto(b, "stall_place")
    /\ UNCHANGED <<stores, resources, fields, created, hand>>

\* Neither the slot nor the group of the job is released.
StallPlace(b) ==
  \E j \in hand[b] :
    /\ At(b, "stall_place")
    /\ dlq' = dlq \cup {j}
    /\ Drop(b, {j}) /\ Continue(b, "stall_take", todo[b])
    /\ UNCHANGED <<queued, processing, waitingDeps, completed, index, resources, fields, created>>

\* check_dependencies works on a copy of completed_jobs.
DepsScan(b) ==
  /\ Idle(b, "deps") /\ completed # {}
  /\ GotoEach(b, "deps_move", completed)
  /\ UNCHANGED <<stores, index, resources, fields, created, hand>>

\* The jobs move, their index entries do not.
DepsMove(b) ==
  LET ready == {j \in waitingDeps : DependenciesMet(j, todo[b])} IN
  /\ At(b, "deps_move")
  /\ waitingDeps' = waitingDeps \ ready /\ queued' = queued \cup ready
  /\ Return(b)
  /\ UNCHANGED <<processing, dlq, completed, index, resources, fields, created, hand>>

CleanupScan(b, S) ==
  /\ Idle(b, "cleanup") /\ Cardinality(completed) > MaxCompleted
  /\ S \subseteq completed /\ Cardinality(S) = Cardinality(completed) - MaxCompleted \div 2
  /\ GotoEach(b, "cleanup_unindex", S)
  /\ UNCHANGED <<stores, index, resources, fields, created, hand>>

CleanupUnindex(b) ==
  /\ At(b, "cleanup_unindex")
  /\ SetIndex(todo[b], "none") /\ Goto(b, "cleanup_remove")
  /\ UNCHANGED <<stores, resources, fields, created, hand>>

CleanupRemove(b) ==
  /\ At(b, "cleanup_remove")
  /\ completed' = completed \ todo[b] /\ Return(b)
  /\ UNCHANGED <<queued, processing, waitingDeps, dlq, index, resources, fields, created, hand>>

(* The clock: a delayed job becomes due, a job outlives its TTL.            *)

BecomesDue(j) ==
  /\ j \in delayed /\ delayed' = delayed \ {j}
  /\ UNCHANGED <<stores, index, resources, attempts, stalls, expired, created, threads>>

Expires(j) ==
  /\ j \in (created \cap HasTtl) \ expired /\ expired' = expired \cup {j}
  /\ UNCHANGED <<stores, index, resources, attempts, stalls, delayed, created, threads>>
-----------------------------------------------------------------------------
(* A call begins; a call that has begun goes on.                            *)

BeginJobCall(c, j) ==
  \/ Push(c, j) \/ Ack(c, j) \/ Fail(c, j) \/ Cancel(c, j) \/ MoveToDelayed(c, j)
  \/ Promote(c, j) \/ Discard(c, j) \/ Heartbeat(c, j)

BeginPull(c) ==
  \E q \in Queue, n \in 1..BatchSize :
    \E S \in SUBSET Reachable(q), X \in SUBSET (On(q, queued) \cap expired) : Pull(c, q, n, S, X)

BeginBatchCall(c) ==
  \/ \E q \in Queue, S \in SUBSET (Job \ created) :
       \E Accepted \in SUBSET S : PushBatch(c, q, S, Accepted)
  \/ \E S \in SUBSET Job : AckBatch(c, S)

BeginQueueCall(c, q) ==
  \/ \E S \in SUBSET dlq : RetryDlq(c, q, S) \/ CleanFailed(c, q, S)
  \/ \E S \in SUBSET queued : CleanWaiting(c, q, S)
  \/ \E S \in SUBSET completed : CleanCompleted(c, S)
  \/ PurgeDlq(c, q) \/ Drain(c, q) \/ Obliterate(c, q) \/ Pause(c, q) \/ Resume(c, q)
  \/ ClearConcurrency(c, q) \/ \E n \in NewLimits : SetConcurrency(c, q, n)

Begin(c) ==
  /\ pc[c] = "idle"
  /\ \/ \E j \in Job : BeginJobCall(c, j)
     \/ BeginPull(c) \/ BeginBatchCall(c)
     \/ \E q \in Queue : BeginQueueCall(c, q)

Advance(c) ==
  \/ PushDuplicate(c) \/ PushInsert(c) \/ PushPersisted(c) \/ PushRollback(c) \/ Unindex(c)
  \/ PushBatchCheck(c) \/ PushBatchInsert(c)
  \/ \E j \in Job : \/ PullIndex(c, j) \/ AckBatchTake(c, j) \/ AckBatchIndex(c, j)
                   \/ ObliterateRemove(c, j)
  \/ PullInsert(c)
  \/ AckRelease(c) \/ AckRecord(c) \/ AckIndex(c) \/ AckBatchRelease(c) \/ AckBatchRecord(c)
  \/ FailIndex(c) \/ FailPlace(c) \/ FailDiscard(c) \/ FailForget(c)
  \/ CancelProcessing(c) \/ CancelRelease(c) \/ CancelWaiting(c) \/ CancelQueued(c)
  \/ DelayIndex(c) \/ DelayPlace(c) \/ PromoteQueued(c)
  \/ DiscardQueued(c) \/ DiscardProcessing(c) \/ DiscardPlace(c) \/ DiscardIndex(c)
  \/ PurgeUnindex(c) \/ ObliterateCollect(c)

Tick(b) ==
  \/ \E S \in SUBSET processing : TimeoutScan(b, S) \/ StallScan(b, S)
  \/ DepsScan(b) \/ \E S \in SUBSET completed : CleanupScan(b, S)

AdvanceTick(b) ==
  \/ \E j \in Job : TimeoutTake(b, j) \/ StallCount(b, j)
  \/ TimeoutRelease(b) \/ TimeoutIndex(b) \/ TimeoutPlace(b)
  \/ StallRemove(b) \/ StallIndex(b) \/ StallPlace(b)
  \/ DepsMove(b) \/ CleanupUnindex(b) \/ CleanupRemove(b)

Clock == \E j \in Job : BecomesDue(j) \/ Expires(j)

Next ==
  \/ \E c \in Client : Begin(c) \/ Advance(c)
  \/ Tick(Background) \/ AdvanceTick(Background)
  \/ Clock

Spec == Init /\ [][Next]_vars

\* A started call runs to its end (tokio keeps polling a spawned task, no step
\* waits for another thread), the background loop reaches each of its tickers,
\* due times come, and workers keep asking for jobs and reporting on them.
Fairness ==
  /\ \A c \in Client : WF_vars(Advance(c))
  /\ WF_vars(AdvanceTick(Background)) /\ SF_vars(DepsScan(Background))
  /\ \A j \in Job : WF_vars(BecomesDue(j))

WorkerFairness ==
  /\ SF_vars(\E c \in Client : BeginPull(c))
  /\ \A j \in Job : SF_vars(\E c \in Client : Ack(c, j) \/ Fail(c, j))

FairSpec == Spec /\ Fairness
WorkerSpec == Spec /\ Fairness /\ WorkerFairness
=============================================================================

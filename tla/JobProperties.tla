---------------------------- MODULE JobProperties ----------------------------
(***************************************************************************)
(* What must be true of JobLifecycle, and what its documentation says of   *)
(* it.                                                                     *)
(***************************************************************************)
EXTENDS JobLifecycle

ControlOK ==
  /\ pc \in [Thread -> Step]
  /\ todo \in [Thread -> SUBSET Job]
  /\ arg \in [Thread -> Job \cup Queue \cup {None}]

\* Type correctness of the engine's containers and of the threads' local state.
TypeOK ==
  /\ queued \subseteq Job /\ processing \subseteq Job /\ waitingDeps \subseteq Job
  /\ dlq \subseteq Job /\ completed \subseteq Job
  /\ index \in [Job -> Location]
  /\ uniqueKeys \in [Queue -> SUBSET Key] /\ activeGroups \in [Queue -> SUBSET Group]
  /\ paused \subseteq Queue
  /\ limit \in [Queue -> Nat \cup {NoLimit}] /\ current \in [Queue -> Nat]
  /\ attempts \in [Job -> Nat] /\ stalls \in [Job -> 0..StallLimit]
  /\ delayed \subseteq Job /\ expired \subseteq Job /\ created \subseteq Job
  /\ hand \in [Thread -> SUBSET Job]
  /\ ControlOK

-----------------------------------------------------------------------------
(* Derived state *)

Held(steps) == UNION {hand[t] : t \in {u \in Thread : pc[u] \in steps}}

\* Jobs a worker runs or is about to run, or whose end is being handled, up to
\* the moment their group and concurrency slot are given back.
ExecutingSteps ==
  {"pull_index", "pull_insert", "ack_release", "acks_take", "acks_release",
   "fail_index", "fail_place", "fail_discard", "cancel_release",
   "delay_index", "delay_place", "discard_place", "timeout_release",
   "stall_index", "stall_place"}

Executing == processing \cup Held(ExecutingSteps)

\* Jobs that have claimed their unique key and not given it back.
KeyFreeSteps == {"push_ready", "push_waiting", "ack_record", "acks_record"}

KeyHolders == queued \cup processing \cup waitingDeps \cup dlq \cup
  Held(Step \ KeyFreeSteps)

AllIdle == \A t \in Thread : pc[t] = "idle"

-----------------------------------------------------------------------------
(* Safety *)

\* A job is in one place: in one container, or in the hands of one thread.  Two
\* operations racing for the same job (ack and timeout, cancel and pull, discard
\* and retry) never both get it, so no job is run, retried or counted twice.
SingleOwner ==
  /\ processing \cap queued = {}
  /\ waitingDeps \cap (queued \cup processing) = {}
  /\ dlq \cap (queued \cup processing \cup waitingDeps) = {}
  /\ completed \cap (queued \cup processing \cup waitingDeps \cup dlq) = {}
  /\ \A t \in Thread :
       /\ hand[t] \cap (queued \cup processing \cup waitingDeps \cup dlq \cup completed) = {}
       /\ \A u \in Thread \ {t} : hand[t] \cap hand[u] = {}

\* Two live jobs of a queue never share a unique key, whichever of them is
\* waiting, running, being retried or dead-lettered at the moment.
UniqueKeyExclusion ==
  \A i, j \in KeyHolders :
    i # j /\ QueueOf[i] = QueueOf[j] /\ KeyOf[i] = KeyOf[j] => KeyOf[i] = NoKey

\* "Jobs with the same group_id are processed one at a time": not even the job
\* in the window between its pull and its entry in the processing table, or
\* between leaving that table and the release, overlaps with another.
GroupExclusion ==
  \A i, j \in Executing :
    i # j /\ QueueOf[i] = QueueOf[j] /\ GroupOf[i] = GroupOf[j] => GroupOf[i] = NoGroup

\* "max parallel jobs in processing".
ConcurrencyBound ==
  \A q \in Queue : limit[q] # NoLimit => Cardinality(On(q, Executing)) <= limit[q]

\* Between two manual retries at most max_attempts attempts of a job are counted:
\* one that fails or times out is counted once, whoever of its worker and the scan
\* ends it, and a job that waits or runs still has an attempt to spend.  (What
\* move_to_delayed takes from its worker is no attempt: it bounds the attempts that
\* are counted, not how often a worker is given the job.)
AttemptsWithinBudget ==
  \A j \in Job : MaxAttempts[j] > 0 =>
    /\ attempts[j] <= MaxAttempts[j]
    /\ j \in queued \cup waitingDeps \cup processing => attempts[j] < MaxAttempts[j]

\* A job is not available to workers before the jobs it depends on completed.
DependenciesFirst ==
  \A j \in queued \cup processing : DependsOn[j] \subseteq completed

\* When no call is in flight the index names the place of every job, so that
\* get_job, cancel, promote and discard find it ("O(1) lookup via job_index").
IndexAgreement ==
  AllIdle => \A j \in Job :
    /\ j \in queued => index[j] = "queue"
    /\ j \in processing => index[j] = "processing"
    /\ j \in waitingDeps => index[j] = "waiting_deps"
    /\ j \in dlq => index[j] = "dlq"
    /\ j \in completed => index[j] = "completed"

\* "Rollback: remove from queue and index": when a thread is about to erase the
\* index entry of a job it has withdrawn, the job is nowhere in the engine.
UnindexedIsGone ==
  \A c \in Client : pc[c] = "unindex" =>
    arg[c] \notin queued \cup processing \cup waitingDeps \cup dlq \cup completed
                  \cup UNION {hand[t] : t \in Thread}

\* "Active groups: tracks which groups have jobs currently being processed".
ActiveGroupsTracked ==
  \A q \in Queue : activeGroups[q] \subseteq Groups(On(q, Executing))

\* "current: Currently active": the limiter counts the jobs that are active.
SlotsMatchActive ==
  \A q \in Queue : limit[q] # NoLimit => current[q] = Cardinality(On(q, Executing))

\* "Release all resources for a completed/failed job": a claimed unique key has
\* a live owner, or a submission in progress.
KeysHaveOwners ==
  \A q \in Queue : uniqueKeys[q] \subseteq Keys(On(q, KeyHolders))

-----------------------------------------------------------------------------
(* Refinement: the store of jobs the engine implements *)

StatusOf(j) ==
  CASE j \in queued \cup waitingDeps \cup Held({"batch_check", "batch_insert"}) -> "pending"
    [] j \in Executing \cup Held({"timeout_index", "timeout_place"}) -> "active"
    [] j \in completed \cup (Held({"ack_record", "acks_record"}) \ RemoveOnComplete) -> "done"
    [] j \in dlq -> "dead"
    [] j \notin created \/ j \in Held({"push_ready", "push_waiting"}) -> "unborn"
    [] OTHER -> "gone"

Store == INSTANCE JobStore WITH status <- [j \in Job |-> StatusOf(j)]

\* Every step of every thread is a step of the store, or invisible to it.
ImplementsJobStore == Store!Spec

-----------------------------------------------------------------------------
(* Liveness *)

\* A job whose dependencies have all completed leaves the dependency table, even
\* when the last of them completes between the lookup and the insertion of push.
DependentsReleased ==
  \A j \in Job : (j \in waitingDeps /\ DependsOn[j] \subseteq completed) ~> (j \notin waitingDeps)

\* A job of j's group is gone: if it was cancelled while it ran, it kept the group.
GroupLeft(j) ==
  \E i \in Job : GroupOf[i] # NoGroup /\ GroupOf[i] = GroupOf[j] /\ StatusOf(i) = "gone"

\* With workers at work every queued job is completed, dead-lettered, cancelled or
\* undone in the end: no push, pull, ack or fail leaves its group or a concurrency
\* slot taken.  (Of a job whose group a cancelled one was of nothing is said: cancel
\* of a running job does leave the group taken.)
QueuedJobsSettle ==
  \A j \in Job : (j \in queued) ~>
    (StatusOf(j) \in {"done", "dead", "gone"} \/ GroupLeft(j))
=============================================================================

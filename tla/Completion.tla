------------------------------ MODULE Completion ------------------------------
(***************************************************************************)
(* Who learns that a job has ended: the result table, the calls that wait  *)
(* for a job (wait_for_job), the state queries, and the parent of a flow,  *)
(* which leaves waiting_children when its children have completed.         *)
(*                                                                         *)
(* A wait looks at the job's state, then registers a channel, then sleeps; *)
(* the operations that end a job publish that end in several lock scopes   *)
(* (result, index, waiters, parent).  An action is one such scope, so the  *)
(* two interleave as they do in the engine.  Resources of the jobs, their  *)
(* options and the order of the queue are JobLifecycle's.                  *)
(***************************************************************************)
EXTENDS Naturals, FiniteSets

CONSTANTS
  Job, Parent, Children,   \* a flow, and other jobs, which start in the queue
  Thread,                  \* threads that serve calls about jobs
  Wait,                    \* calls of wait_for_job
  None,
  Mortal,                  \* jobs whose first failure is their last
  RemoveOnComplete,
  MaxResults,              \* size at which job_results is halved
  Waited,                  \* bound: jobs that are waited for
  Scenes                   \* bound: sets of jobs that occur together

ASSUME CompletionAssumption ==
  /\ Children \subseteq Job /\ IsFiniteSet(Children) /\ Parent \in Job \ Children
  /\ Waited \subseteq Job
  /\ \A S \in Scenes : Parent \in S => Children \subseteq S   \* the ids of a flow are new

VARIABLES
  place,      \* the container a job is in; "hand": taken out, not yet put back
  index,      \* job_index
  results,    \* jobs with an entry in job_results
  children_completed,
  job_waiters,\* per job, the waits whose channel is registered
  wait,       \* per wait, its job and how far it is or what it answered
  pc, arg, todo, withResult, \* per thread: next scope, its job, ids left, ack's result
  ended,      \* how each job ended (waitsHistory)
  evicted     \* jobs whose result was cleaned up (waitsHistory)

flow == <<children_completed>>
waits == <<job_waiters, wait>>
threads == <<pc, arg, todo, withResult>>
waitsHistory == <<ended, evicted>>
waitsVars == <<place, index, results, flow, waits, threads, waitsHistory>>

Flow == Children \cup {Parent}

WaitsStart(S) ==
  /\ place = [j \in Job |-> IF j \in S \ Flow THEN "queue" ELSE "none"]
  /\ ended = [j \in Job |-> IF j \in S THEN "none" ELSE "cancelled"]
  /\ index = place
  /\ results = {} /\ evicted = {}
  /\ children_completed = 0
  /\ job_waiters = [j \in Job |-> {}]
  /\ wait = [w \in Wait |-> [job |-> None, at |-> "idle"]]
  /\ pc = [t \in Thread |-> "idle"]
  /\ arg = [t \in Thread |-> None] /\ todo = [t \in Thread |-> {}]
  /\ withResult = [t \in Thread |-> FALSE]

WaitsInit == \E S \in Scenes : WaitsStart(S)

-----------------------------------------------------------------------------
(* Helpers *)

Goto(t, step, j) ==
  /\ pc' = [pc EXCEPT ![t] = step] /\ arg' = [arg EXCEPT ![t] = j]
  /\ UNCHANGED <<todo, withResult>>

Return(t) == Goto(t, "idle", None)

AtStep(t, step) == pc[t] = step

Move(j, where) == place' = [place EXCEPT ![j] = where]
SetIndex(j, where) == index' = [index EXCEPT ![j] = where]
End(j, how) == ended' = [ended EXCEPT ![j] = how]

Told(w, what) == [job |-> wait[w].job, at |-> what]
Tell(w, what) == wait' = [wait EXCEPT ![w] = Told(w, what)]

\* Every registered channel of the job is sent the result, and is gone.
NotifyJobWaiters(j, what) ==
  /\ wait' = [w \in Wait |-> IF w \in job_waiters[j] /\ wait[w].at = "registered"
                               THEN Told(w, what) ELSE wait[w]]
  /\ job_waiters' = [job_waiters EXCEPT ![j] = {}]

-----------------------------------------------------------------------------
(* push_flow: the parent is indexed and parked, then child after child *)

PushFlow(t) ==
  /\ AtStep(t, "idle") /\ index[Parent] = "none" /\ ended[Parent] = "none"
  /\ \A u \in Thread : arg[u] # Parent
  /\ SetIndex(Parent, "waiting_children")
  /\ Goto(t, "flow_park", Parent)
  /\ UNCHANGED <<place, results, flow, waits, waitsHistory>>

FlowPark(t) ==
  /\ AtStep(t, "flow_park")
  /\ Move(Parent, "waiting_children")
  /\ pc' = [pc EXCEPT ![t] = "flow_index"]
  /\ arg' = [arg EXCEPT ![t] = None] /\ todo' = [todo EXCEPT ![t] = Children]
  /\ UNCHANGED <<index, results, flow, waits, withResult, waitsHistory>>

FlowIndex(t) ==
  /\ AtStep(t, "flow_index")
  /\ \E c \in todo[t] :
       /\ SetIndex(c, "queue")
       /\ arg' = [arg EXCEPT ![t] = c] /\ todo' = [todo EXCEPT ![t] = @ \ {c}]
  /\ pc' = [pc EXCEPT ![t] = "flow_insert"]
  /\ UNCHANGED <<place, results, flow, waits, withResult, waitsHistory>>

FlowInsert(t) ==
  /\ AtStep(t, "flow_insert")
  /\ Move(arg[t], "queue")
  /\ IF todo[t] = {} THEN Return(t) ELSE Goto(t, "flow_index", None)
  /\ UNCHANGED <<index, results, flow, waits, waitsHistory>>

-----------------------------------------------------------------------------
(* pull: popped under the shard lock, then indexed, then in processing *)

Pull(t) ==
  /\ AtStep(t, "idle")
  /\ \E j \in Job : place[j] = "queue" /\ Move(j, "hand") /\ Goto(t, "pull_index", j)
  /\ UNCHANGED <<index, results, flow, waits, waitsHistory>>

PullIndex(t) ==
  /\ AtStep(t, "pull_index")
  /\ SetIndex(arg[t], "processing")
  /\ Goto(t, "pull_insert", arg[t])
  /\ UNCHANGED <<place, results, flow, waits, waitsHistory>>

PullInsert(t) ==
  /\ AtStep(t, "pull_insert")
  /\ Move(arg[t], "processing") /\ Return(t)
  /\ UNCHANGED <<index, results, flow, waits, waitsHistory>>

-----------------------------------------------------------------------------
(* ack *)

Ack(t) ==
  /\ AtStep(t, "idle")
  /\ \E j \in Job, r \in BOOLEAN :
       /\ place[j] = "processing" /\ Move(j, "hand")
       /\ End(j, IF r THEN "acked_result" ELSE "acked")
       /\ pc' = [pc EXCEPT ![t] = "ack_store"] /\ arg' = [arg EXCEPT ![t] = j]
       /\ withResult' = [withResult EXCEPT ![t] = r]
  /\ UNCHANGED <<index, results, flow, waits, todo, evicted>>

\* Mutant: the job is published as completed before its result is stored.
AckStoreLate(t) ==
  /\ AtStep(t, "ack_store")
  /\ LET where == IF arg[t] \in RemoveOnComplete THEN "none" ELSE "completed" IN
       Move(arg[t], where) /\ SetIndex(arg[t], where)
  /\ Goto(t, "ack_notify", arg[t])
  /\ UNCHANGED <<results, flow, waits, waitsHistory>>

AckStore(t) ==
  /\ AtStep(t, "ack_store")
  /\ results' = IF withResult[t] /\ arg[t] \notin RemoveOnComplete
                  THEN results \cup {arg[t]} ELSE results
  /\ Goto(t, "ack_index", arg[t])
  /\ UNCHANGED <<place, index, flow, waits, waitsHistory>>

AckIndex(t) ==
  /\ AtStep(t, "ack_index")
  /\ LET where == IF arg[t] \in RemoveOnComplete THEN "none" ELSE "completed" IN
       Move(arg[t], where) /\ SetIndex(arg[t], where)
  /\ Goto(t, "ack_notify", arg[t])
  /\ UNCHANGED <<results, flow, waits, waitsHistory>>

AckNotify(t) ==
  /\ AtStep(t, "ack_notify")
  /\ NotifyJobWaiters(arg[t], IF withResult[t] THEN "result" ELSE "nothing")
  /\ IF arg[t] \in Children THEN Goto(t, "ack_report", arg[t]) ELSE Return(t)
  /\ UNCHANGED <<place, index, results, flow, waitsHistory>>

\* on_child_completed: the count and the parent's move are one shard scope ...
OnChildCompleted(t, enough) ==
  /\ AtStep(t, "ack_report")
  /\ IF place[Parent] # "waiting_children"
       THEN Return(t) /\ UNCHANGED <<place, flow>>
       ELSE /\ children_completed' = children_completed + 1
            /\ IF children_completed' >= enough
                 THEN Move(Parent, "queue") /\ Goto(t, "parent_index", arg[t])
                 ELSE Return(t) /\ UNCHANGED place
  /\ UNCHANGED <<index, results, waits, waitsHistory>>

\* Mutants: the last child is not waited for; one child more is.
AckReportEarly(t) == OnChildCompleted(t, Cardinality(Children) - 1)
AckReportLate(t) == OnChildCompleted(t, Cardinality(Children) + 1)
AckReport(t) == OnChildCompleted(t, Cardinality(Children))

\* ... and the index follows when the shard lock is gone.
ParentIndex(t) ==
  /\ AtStep(t, "parent_index")
  /\ SetIndex(Parent, "queue") /\ Return(t)
  /\ UNCHANGED <<place, results, flow, waits, waitsHistory>>

-----------------------------------------------------------------------------
(* ack_batch: no result, waiters are told per id, no parent hears of it *)

AckBatch(t) ==
  /\ AtStep(t, "idle")
  /\ \E S \in SUBSET Job :
       /\ Cardinality(S) = 2 /\ \A j \in S : place[j] = "processing"
       /\ pc' = [pc EXCEPT ![t] = "acks_take"] /\ todo' = [todo EXCEPT ![t] = S]
  /\ UNCHANGED <<place, index, results, flow, waits, arg, withResult, waitsHistory>>

AcksTake(t) ==
  /\ AtStep(t, "acks_take")
  /\ \E j \in todo[t] :
       /\ todo' = [todo EXCEPT ![t] = @ \ {j}]
       /\ IF place[j] = "processing"
            THEN /\ Move(j, "hand") /\ End(j, "batch")
                 /\ pc' = [pc EXCEPT ![t] = "acks_index"] /\ arg' = [arg EXCEPT ![t] = j]
            ELSE /\ pc' = [pc EXCEPT ![t] = IF todo[t] = {j} THEN "idle" ELSE @]
                 /\ UNCHANGED <<place, arg, ended>>
  /\ UNCHANGED <<index, results, flow, waits, withResult, evicted>>

AcksIndex(t) ==
  /\ AtStep(t, "acks_index")
  /\ LET where == IF arg[t] \in RemoveOnComplete THEN "none" ELSE "completed" IN
       Move(arg[t], where) /\ SetIndex(arg[t], where)
  /\ Goto(t, "acks_notify", arg[t])
  /\ UNCHANGED <<results, flow, waits, waitsHistory>>

AcksNotify(t) ==
  /\ AtStep(t, "acks_notify")
  /\ NotifyJobWaiters(arg[t], "nothing")
  /\ IF todo[t] = {} THEN Return(t) ELSE Goto(t, "acks_take", None)
  /\ UNCHANGED <<place, index, results, flow, waitsHistory>>

-----------------------------------------------------------------------------
(* fail, the stall check, cancel, drain *)

Fail(t) ==
  /\ AtStep(t, "idle")
  /\ \E j \in Job :
       /\ place[j] = "processing" /\ Move(j, "hand")
       /\ IF j \in Mortal THEN End(j, "dead") /\ Goto(t, "dead_notify", j)
                          ELSE UNCHANGED ended /\ Goto(t, "retry_index", j)
  /\ UNCHANGED <<index, results, flow, waits, evicted>>

\* The waiters of a job out of attempts are told before it is anywhere.
DeadNotify(t) ==
  /\ AtStep(t, "dead_notify")
  /\ NotifyJobWaiters(arg[t], "nothing")
  /\ Goto(t, "dead_index", arg[t])
  /\ UNCHANGED <<place, index, results, flow, waitsHistory>>

RetryIndex(t) ==
  /\ AtStep(t, "retry_index")
  /\ SetIndex(arg[t], "queue") /\ Goto(t, "retry_place", arg[t])
  /\ UNCHANGED <<place, results, flow, waits, waitsHistory>>

RetryPlace(t) ==
  /\ AtStep(t, "retry_place")
  /\ Move(arg[t], "queue") /\ Return(t)
  /\ UNCHANGED <<index, results, flow, waits, waitsHistory>>

\* check_stalled_jobs, third time: dead-lettered, and nobody is told.
Stall(t) ==
  /\ AtStep(t, "idle")
  /\ \E j \in Job : /\ place[j] = "processing" /\ Move(j, "hand")
                    /\ End(j, "dead") /\ Goto(t, "dead_index", j)
  /\ UNCHANGED <<index, results, flow, waits, evicted>>

DeadIndex(t) ==
  /\ AtStep(t, "dead_index")
  /\ SetIndex(arg[t], "dlq") /\ Goto(t, "dead_place", arg[t])
  /\ UNCHANGED <<place, results, flow, waits, waitsHistory>>

DeadPlace(t) ==
  /\ AtStep(t, "dead_place")
  /\ Move(arg[t], "dlq") /\ Return(t)
  /\ UNCHANGED <<index, results, flow, waits, waitsHistory>>

\* The container is the one the index names.
Cancel(t) ==
  /\ AtStep(t, "idle")
  /\ \E j \in Job :
       /\ place[j] \in {"queue", "processing", "waiting_children"} /\ index[j] = place[j]
       /\ Move(j, "none") /\ End(j, "cancelled") /\ Goto(t, "cancel_index", j)
  /\ UNCHANGED <<index, results, flow, waits, evicted>>

CancelIndex(t) ==
  /\ AtStep(t, "cancel_index")
  /\ SetIndex(arg[t], "none") /\ Goto(t, "cancel_notify", arg[t])
  /\ UNCHANGED <<place, results, flow, waits, waitsHistory>>

CancelNotify(t) ==
  /\ AtStep(t, "cancel_notify")
  /\ NotifyJobWaiters(arg[t], "nothing") /\ Return(t)
  /\ UNCHANGED <<place, index, results, flow, waitsHistory>>

\* Nobody is told of drained jobs either.
Drain(t) ==
  /\ AtStep(t, "idle")
  /\ LET S == {j \in Job : place[j] = "queue"} IN
       /\ S # {}
       /\ place' = [j \in Job |-> IF j \in S THEN "none" ELSE place[j]]
       /\ index' = [j \in Job |-> IF j \in S THEN "none" ELSE index[j]]
       /\ ended' = [j \in Job |-> IF j \in S THEN "drained" ELSE ended[j]]
  /\ UNCHANGED <<results, flow, waits, threads, evicted>>

CleanupJobResults ==
  /\ Cardinality(results) > MaxResults
  /\ \E S \in SUBSET results :
       /\ Cardinality(S) = Cardinality(results) - (MaxResults \div 2)
       /\ results' = results \ S /\ evicted' = evicted \cup S
  /\ UNCHANGED <<place, index, flow, waits, threads, ended>>

-----------------------------------------------------------------------------
(* get_state, and wait_for_job on top of it *)

\* A job indexed in a queue is looked for in that queue's heap.
GetState(j) ==
  CASE index[j] = "none" -> "unknown"
    [] index[j] = "queue" /\ place[j] # "queue" -> "unknown"
    [] OTHER -> index[j]

WaitCheck(w) ==
  /\ wait[w].at = "idle"
  /\ \E j \in Waited :
       wait' = [wait EXCEPT ![w] = [job |-> j, at |->
         CASE GetState(j) = "completed" -> "completed"
           [] GetState(j) = "dlq" -> "failed"
           [] GetState(j) = "unknown" -> "not_found"
           [] OTHER -> "checked"]]
  /\ UNCHANGED <<place, index, results, flow, job_waiters, threads, waitsHistory>>

WaitReadResult(w) ==
  /\ wait[w].at = "completed"
  /\ Tell(w, IF wait[w].job \in results THEN "result" ELSE "nothing")
  /\ UNCHANGED <<place, index, results, flow, job_waiters, threads, waitsHistory>>

\* Whatever has happened to the job since it was looked at.
WaitRegister(w) ==
  /\ wait[w].at = "checked"
  /\ job_waiters' = [job_waiters EXCEPT ![wait[w].job] = @ \cup {w}]
  /\ Tell(w, "registered")
  /\ UNCHANGED <<place, index, results, flow, threads, waitsHistory>>

WaitExpire(w) ==
  /\ wait[w].at = "registered" /\ Tell(w, "expired")
  /\ UNCHANGED <<place, index, results, flow, job_waiters, threads, waitsHistory>>

\* The timed out call removes every closed channel of its job.
WaitCleanUp(w) ==
  /\ wait[w].at = "expired"
  /\ job_waiters' = [job_waiters EXCEPT ![wait[w].job] =
                       {v \in @ : wait[v].at = "registered"}]
  /\ Tell(w, "timeout")
  /\ UNCHANGED <<place, index, results, flow, threads, waitsHistory>>

\* An HTTP client that hangs up drops the handler in its sleep.
WaitAbandon(w) ==
  /\ wait[w].at = "registered" /\ Tell(w, "abandoned")
  /\ UNCHANGED <<place, index, results, flow, job_waiters, threads, waitsHistory>>

-----------------------------------------------------------------------------
CallStep(t) ==
  \/ FlowPark(t) \/ FlowIndex(t) \/ FlowInsert(t)
  \/ PullIndex(t) \/ PullInsert(t)
  \/ AckStore(t) \/ AckIndex(t) \/ AckNotify(t) \/ AckReport(t) \/ ParentIndex(t)
  \/ AcksTake(t) \/ AcksIndex(t) \/ AcksNotify(t)
  \/ DeadNotify(t) \/ DeadIndex(t) \/ DeadPlace(t) \/ RetryIndex(t) \/ RetryPlace(t)
  \/ CancelIndex(t) \/ CancelNotify(t)

Call(t) == PushFlow(t) \/ Pull(t) \/ Ack(t) \/ AckBatch(t) \/ Fail(t) \/ Stall(t)
           \/ Cancel(t) \/ Drain(t)

WaitStep(w) ==
  \/ WaitCheck(w) \/ WaitReadResult(w) \/ WaitRegister(w)
  \/ WaitExpire(w) \/ WaitCleanUp(w) \/ WaitAbandon(w)

WaitsNext ==
  \/ \E t \in Thread : Call(t) \/ CallStep(t)
  \/ \E w \in Wait : WaitStep(w)
  \/ CleanupJobResults

WaitsSpec == WaitsInit /\ [][WaitsNext]_waitsVars

\* A call that has begun goes on: its thread is scheduled.
WaitsFairness == \A t \in Thread : WF_waitsVars(CallStep(t))

-----------------------------------------------------------------------------
(* What an answer of wait_for_job says about the job: a result is the result
   of its ack; no result, for a job acked with one, only after the cleanup of
   job_results dropped it; "failed" only for a job that was dead-lettered.
   (The other direction does not hold: see README.) *)
WaitTellsTruth ==
  \A w \in Wait : LET j == wait[w].job IN
    /\ wait[w].at = "result" => ended[j] = "acked_result"
    /\ wait[w].at = "nothing" => ended[j] # "none"
                                 /\ (ended[j] = "acked_result" => j \in evicted)
    /\ wait[w].at = "failed" => ended[j] = "dead"

(* job_waiters does not grow with the waits that are over: what is registered
   belongs to a call that still sleeps or cleans up, or to one whose handler
   was dropped. *)
OnlyAbandonedWaitsLeak ==
  \A j \in Job, w \in Wait : w \in job_waiters[j] =>
    /\ wait[w].job = j
    /\ wait[w].at \in {"registered", "expired", "abandoned"}

(* The parent of a flow is pulled only when each of its children has
   completed, by an ack of its own, whatever else happened to it before. *)
ParentAfterChildren ==
  place[Parent] \in {"queue", "hand", "processing", "completed", "dlq"} =>
    \A c \in Children : ended[c] \in {"acked_result", "acked"}

(* Children completed by acks of their own release the parent, in whatever
   order and however concurrently they complete. *)
ParentReleased ==
  (\A c \in Children : ended[c] \in {"acked_result", "acked"})
    ~> place[Parent] # "waiting_children"

(* wait_for_job: true answers, and nothing left behind by them. *)
WaitsAnswered == WaitTellsTruth /\ OnlyAbandonedWaitsLeak
=============================================================================

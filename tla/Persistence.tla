------------------------------ MODULE Persistence ------------------------------
(***************************************************************************)
(* The road of a job to the database and back: the write that follows each *)
(* operation of the engine, the queue of the AsyncWriter with its batches, *)
(* the writes that bypass it, the SQLite tables, crash, graceful stop and  *)
(* recovery.                                                               *)
(*                                                                         *)
(* The engine is abstracted: an operation changes the containers in one    *)
(* step.  What is kept is that its write comes later: `calls` holds, in    *)
(* the order of those steps, the calls that still have a write to hand     *)
(* over, and each goes on at its own pace.                                 *)
(***************************************************************************)
EXTENDS Integers, FiniteSets, SequencesExt

CONSTANTS
  MaxId,           \* bound: the largest job id
  DependsOn,       \* depends_on of the job pushed with an id
  MaxAttempts,     \* max_attempts of the job pushed with an id
  Fleeting,        \* ids pushed with remove_on_complete and remove_on_fail
  Capacity,        \* queue_capacity of the writer
  Settings,        \* what a behaviour may be set to, see `setting`
  MaxCalls,        \* bound: calls in progress at once
  MaxRestarts,     \* bound: recoveries
  MaxDead,         \* bound: rows of dlq_jobs beyond which nothing is retried
  AttemptBound     \* bound: attempts of a job whose max_attempts is 0

Job == 1..MaxId
Nothing == [nothing |-> TRUE]      \* no copy of a job, no row

ASSUME BoundAssumption ==
  /\ {MaxId, Capacity, MaxCalls} \subseteq Nat \ {0}
  /\ {MaxRestarts, MaxDead, AttemptBound} \subseteq Nat
ASSUME OptionAssumption ==
  /\ DependsOn \in [Job -> SUBSET Job] /\ MaxAttempts \in [Job -> Nat \ {0}]
  /\ Fleeting \subseteq Job
  /\ \A s \in Settings : s.ids \in Job /\ s.batch \in Nat \ {0} /\ s.sync \in BOOLEAN

VARIABLES
  setting,                 \* chosen at the start: the last id that is pushed, the
                           \* operations that occur, what may go wrong ("batch",
                           \* "write", "crash", "stop"), max_batch_size of the writer,
                           \* and whether SYNC_PERSISTENCE is set
  queued, active, waiting, \* the engine's copies of jobs, by id
  dlq,                     \* its dead letters, oldest first
  completed,               \* completed_jobs
  nextId,                  \* ID_COUNTER
  calls,                   \* calls whose write is not handed over yet
  queue, buffer, writer,   \* the AsyncWriter: its queue, ops_buffer and state
  db,                      \* the tables jobs, dlq_jobs and job_results
  up, restarts,
  dropped,                 \* history: jobs with a write that was lost
  strayed,                 \* history: jobs whose writes left the engine's order
  promised                 \* history: jobs whose push returned Ok, not ended since

engine == <<queued, active, waiting, dlq, completed, nextId>>
writing == <<queue, buffer, writer, db>>
history == <<dropped, strayed, promised>>
vars == <<setting, engine, calls, writing, up, restarts, history>>

Calls == setting.calls
Faults == setting.faults
MaxBatch == setting.batch
SyncPersistence == setting.sync

-----------------------------------------------------------------------------
(* Write operations and what they do to the tables *)

InsertJob(j, copy, state) ==
  [kind |-> "insert", job |-> j, attempts |-> copy.attempts, max |-> copy.max, state |-> state]
AckJob(j, result) == [kind |-> "ack", job |-> j, result |-> result]
CancelJob(j) == [kind |-> "cancel", job |-> j]
FailJob(j, n) == [kind |-> "fail", job |-> j, attempts |-> n]
MoveToDlq(j, n) == [kind |-> "dead", job |-> j, attempts |-> n]

\* The two that never go through the writer.
MoveToDelayed(j) == [kind |-> "delay", job |-> j]
DiscardJob(j) == [kind |-> "discard", job |-> j]
Direct == {"delay", "discard"}

HasRow(d, j) == d.rows[j] # Nothing
WithRow(d, j, row) == [d EXCEPT !.rows = [d.rows EXCEPT ![j] = row]]
WithLetter(d, j, n) == [d EXCEPT !.dead = Append(d.dead, [job |-> j, attempts |-> n])]

\* Mutant: the dead letter is written and the row of the job stays.
BuryKeepsRow(d, j, n) == WithLetter(d, j, n)
\* Mutant: the row is deleted and no dead letter is written.
BuryWithoutLetter(d, j, n) == WithRow(d, j, Nothing)
Bury(d, j, n) == WithLetter(WithRow(d, j, Nothing), j, n)

\* INSERT ... ON CONFLICT(id) DO UPDATE: the options of an old row stay.
ExecInsert(d, op) ==
  WithRow(d, op.job,
          [attempts |-> op.attempts, state |-> op.state,
           max |-> IF HasRow(d, op.job) THEN d.rows[op.job].max ELSE op.max])

ExecAck(d, op) ==
  [WithRow(d, op.job, Nothing) EXCEPT
     !.results = IF op.result THEN d.results \cup {op.job} ELSE d.results]

\* An UPDATE or a move of a row that is not there does nothing.
ExecFail(d, op) ==
  IF HasRow(d, op.job)
  THEN WithRow(d, op.job, [attempts |-> op.attempts, state |-> "waiting",
                           max |-> d.rows[op.job].max])
  ELSE d

ExecDelay(d, op) ==
  IF HasRow(d, op.job)
  THEN WithRow(d, op.job, [d.rows[op.job] EXCEPT !.state = "delayed"])
  ELSE d

ExecDiscard(d, op) ==
  IF HasRow(d, op.job) THEN Bury(d, op.job, d.rows[op.job].attempts) ELSE d

\* One statement group of process_batch, or one call of the synchronous path.
Exec(d, op) ==
  CASE op.kind = "insert" -> ExecInsert(d, op)
    [] op.kind = "ack" -> ExecAck(d, op)
    [] op.kind = "cancel" -> WithRow(d, op.job, Nothing)
    [] op.kind = "fail" -> ExecFail(d, op)
    [] op.kind = "dead" -> Bury(d, op.job, op.attempts)
    [] op.kind = "delay" -> ExecDelay(d, op)
    [] op.kind = "discard" -> ExecDiscard(d, op)

\* One after the other.
ExecAll(d, ops) ==
  LET after[n \in 0..Len(ops)] == IF n = 0 THEN d ELSE Exec(after[n - 1], ops[n])
  IN after[Len(ops)]

JobsOf(ops) == {op.job : op \in ToSet(ops)}

-----------------------------------------------------------------------------
(* Calls: first the engine, then the write, then perhaps the engine again *)

May(call) == up /\ call \in Calls /\ Len(calls) < MaxCalls

\* The engine has done its part; the write of op is due, then `next`.
Due(op, next, copy) ==
  calls' = Append(calls, [op |-> op, next |-> next, copy |-> copy, stage |-> "due"])

Put(container, j, copy) == [container EXCEPT ![j] = copy]
Without(container, j) == [container EXCEPT ![j] = Nothing]
Holds(container, j) == container[j] # Nothing

Push ==
  /\ May("push") /\ nextId <= setting.ids
  /\ nextId' = nextId + 1
  /\ LET j == nextId
         copy == [attempts |-> 0, max |-> MaxAttempts[j], fleeting |-> j \in Fleeting]
     IN IF DependsOn[j] \subseteq completed
        THEN /\ queued' = Put(queued, j, copy) /\ UNCHANGED waiting
             /\ Due(InsertJob(j, copy, "waiting"), "return", Nothing)
        ELSE /\ waiting' = Put(waiting, j, copy) /\ UNCHANGED queued
             /\ Due(InsertJob(j, copy, "waiting_children"), "return", Nothing)
  /\ UNCHANGED <<setting, active, dlq, completed, writing, up, restarts, history>>

\* Pull is not written: the row of a running job still says that it waits.
Pull(j) ==
  /\ up /\ "pull" \in Calls /\ Holds(queued, j)
  /\ queued' = Without(queued, j) /\ active' = Put(active, j, queued[j])
  /\ UNCHANGED <<setting, waiting, dlq, completed, nextId, calls, writing, up, restarts, history>>

\* check_dependencies is not written either.
ReleaseDependents(j) ==
  /\ up /\ Holds(waiting, j) /\ DependsOn[j] \subseteq completed
  /\ waiting' = Without(waiting, j) /\ queued' = Put(queued, j, waiting[j])
  /\ UNCHANGED <<setting, active, dlq, completed, nextId, calls, writing, up, restarts, history>>

Ack(j, result) ==
  /\ May("ack") /\ Holds(active, j)
  /\ active' = Without(active, j)
  /\ IF active[j].fleeting
     THEN Due(CancelJob(j), "return", Nothing) /\ UNCHANGED completed
     ELSE Due(AckJob(j, result), "return", Nothing) /\ completed' = completed \cup {j}
  /\ promised' = promised \ {j}
  /\ UNCHANGED <<setting, queued, waiting, dlq, nextId, writing, up, restarts, dropped, strayed>>

\* fail and the timeout check.  The job is in the caller's hands until its write
\* is handed over.
Fail(j) ==
  /\ May("fail") /\ Holds(active, j)
  /\ active[j].max = 0 => active[j].attempts < AttemptBound
  /\ active' = Without(active, j)
  /\ LET copy == [active[j] EXCEPT !.attempts = @ + 1]
         exhausted == copy.max > 0 /\ copy.attempts >= copy.max
     IN \/ /\ ~exhausted /\ Due(FailJob(j, copy.attempts), "queue", copy)
           /\ UNCHANGED <<strayed, promised>>
        \/ /\ exhausted                       \* also a fleeting one that timed out
           /\ Due(MoveToDlq(j, copy.attempts), "dlq", copy)
           /\ promised' = promised \ {j} /\ UNCHANGED strayed
        \/ /\ exhausted /\ copy.fleeting      \* remove_on_fail writes nothing
           /\ strayed' = strayed \cup {j} /\ promised' = promised \ {j}
           /\ UNCHANGED calls
  /\ UNCHANGED <<setting, queued, waiting, dlq, completed, nextId, writing, up, restarts, dropped>>

\* A job that stalls too often: to the dead letters without another attempt.
Stall(j) ==
  /\ May("stall") /\ Holds(active, j)
  /\ active' = Without(active, j)
  /\ Due(MoveToDlq(j, active[j].attempts), "dlq", active[j])
  /\ promised' = promised \ {j}
  /\ UNCHANGED <<setting, queued, waiting, dlq, completed, nextId, writing, up, restarts, dropped, strayed>>

Delay(j) ==
  /\ May("delay") /\ Holds(active, j)
  /\ active' = Without(active, j)
  /\ Due(MoveToDelayed(j), "queue", active[j])
  /\ UNCHANGED <<setting, queued, waiting, dlq, completed, nextId, writing, up, restarts, history>>

\* job_index tells cancel and discard which of the containers to look in; that
\* it does not know of ReleaseDependents is left out here.
Cancel(j) ==
  /\ May("cancel")
  /\ \/ Holds(queued, j) /\ queued' = Without(queued, j) /\ UNCHANGED <<active, waiting>>
     \/ Holds(active, j) /\ active' = Without(active, j) /\ UNCHANGED <<queued, waiting>>
     \/ Holds(waiting, j) /\ waiting' = Without(waiting, j) /\ UNCHANGED <<queued, active>>
  /\ Due(CancelJob(j), "return", Nothing)
  /\ promised' = promised \ {j}
  /\ UNCHANGED <<setting, dlq, completed, nextId, writing, up, restarts, dropped, strayed>>

DeadLetter(j, copy) == [job |-> j, copy |-> copy]

Discard(j) ==
  /\ May("discard")
  /\ \/ /\ Holds(queued, j) /\ queued' = Without(queued, j) /\ UNCHANGED active
        /\ dlq' = Append(dlq, DeadLetter(j, queued[j]))
     \/ /\ Holds(active, j) /\ active' = Without(active, j) /\ UNCHANGED queued
        /\ dlq' = Append(dlq, DeadLetter(j, active[j]))
  /\ Due(DiscardJob(j), "return", Nothing)
  /\ promised' = promised \ {j}
  /\ UNCHANGED <<setting, waiting, completed, nextId, writing, up, restarts, dropped, strayed>>

\* retry_dlq writes nothing: the row stays in dlq_jobs.
Retry(letters, rest) ==
  LET ids == {e.job : e \in ToSet(letters)}
      Latest(j) == SelectLastInSeq(letters, LAMBDA e : e.job = j)
  IN /\ queued' = [j \in Job |->
                     IF j \in ids THEN [letters[Latest(j)].copy EXCEPT !.attempts = 0] ELSE queued[j]]
     /\ dlq' = rest /\ strayed' = strayed \cup ids
     /\ UNCHANGED <<setting, active, waiting, completed, nextId, calls, writing, up, restarts,
                    dropped, promised>>

RetryDlq ==
  /\ up /\ "retry_dlq" \in Calls /\ dlq # <<>> /\ Len(db.dead) <= MaxDead
  /\ \/ Retry(dlq, <<>>)
     \/ \E j \in JobsOf(dlq) :
          LET first == SelectInSeq(dlq, LAMBDA e : e.job = j)
          IN Retry(<<dlq[first]>>, RemoveAt(dlq, first))

-----------------------------------------------------------------------------
(* Handing over a write *)

\* A call whose write was issued earlier, about the same job, has not been served.
Overtakes(i) ==
  \E k \in 1..(i - 1) : calls[k].stage # "written" /\ calls[k].op.job = calls[i].op.job

Straying(i, wrong) == strayed' = IF wrong THEN strayed \cup {calls[i].op.job} ELSE strayed

Known(j) == Holds(queued, j) \/ Holds(active, j) \/ Holds(waiting, j)

AtStage(i, stage) == [calls EXCEPT ![i] = [calls[i] EXCEPT !.stage = stage]]

\* The call returns, or goes on to put its job back.
Served(i) ==
  /\ calls' = IF calls[i].next = "return" THEN RemoveAt(calls, i)
              ELSE AtStage(i, "written")
  /\ promised' = IF calls[i].op.kind = "insert" /\ Known(calls[i].op.job)
                 THEN promised \cup {calls[i].op.job} ELSE promised

\* Nobody takes anything from the queue after the writer's last look at it.
TooLate == writer \in {"final", "stopped"}

Queueable(i) == calls[i].stage = "due" /\ calls[i].op.kind \notin Direct

\* Mutant: the length of the queue is compared off by one.
QueueOpOverfull(i) ==
  /\ Queueable(i) /\ Len(queue) <= Capacity
  /\ queue' = Append(queue, calls[i].op)
  /\ Served(i) /\ Straying(i, Overtakes(i))
  /\ dropped' = IF TooLate THEN dropped \cup {calls[i].op.job} ELSE dropped
  /\ UNCHANGED <<setting, engine, buffer, writer, db, up, restarts>>
\* queue_op, also for a push with SYNC_PERSISTENCE.
QueueOp(i) ==
  /\ Queueable(i) /\ Len(queue) < Capacity
  /\ queue' = Append(queue, calls[i].op)
  /\ Served(i) /\ Straying(i, Overtakes(i))
  /\ dropped' = IF TooLate THEN dropped \cup {calls[i].op.job} ELSE dropped
  /\ UNCHANGED <<setting, engine, buffer, writer, db, up, restarts>>

\* A full queue refuses the operation; the synchronous write comes later.
QueueFull(i) ==
  /\ Queueable(i) /\ Len(queue) >= Capacity
  /\ calls' = AtStage(i, "refused")
  /\ UNCHANGED <<setting, engine, writing, up, restarts, history>>

Synchronous(i) ==
  calls[i].stage = "refused" \/ (calls[i].stage = "due" /\ calls[i].op.kind \in Direct)

WriteNow(i) ==
  /\ Synchronous(i)
  /\ db' = Exec(db, calls[i].op)
  /\ Served(i)
  /\ Straying(i, Overtakes(i) \/ calls[i].op.job \in JobsOf(buffer \o queue))
  /\ UNCHANGED <<setting, engine, queue, buffer, writer, up, restarts, dropped>>

\* Errors are logged; only a push with SYNC_PERSISTENCE is undone, as far as its
\* job is still where it was put.
WriteNowFails(i) ==
  /\ "write" \in Faults /\ Synchronous(i)
  /\ dropped' = dropped \cup {calls[i].op.job}
  /\ IF calls[i].op.kind = "insert" /\ SyncPersistence
     THEN /\ calls' = RemoveAt(calls, i)
          /\ IF calls[i].op.state = "waiting"
             THEN queued' = Without(queued, calls[i].op.job) /\ UNCHANGED waiting
             ELSE waiting' = Without(waiting, calls[i].op.job) /\ UNCHANGED queued
          /\ UNCHANGED promised
     ELSE Served(i) /\ UNCHANGED <<queued, waiting>>
  /\ UNCHANGED <<setting, active, dlq, completed, nextId, writing, up, restarts, strayed>>

Place(i) ==
  /\ calls[i].stage = "written"
  /\ LET j == calls[i].op.job IN
       IF calls[i].next = "queue"
       THEN queued' = Put(queued, j, calls[i].copy) /\ UNCHANGED dlq
       ELSE dlq' = Append(dlq, DeadLetter(j, calls[i].copy)) /\ UNCHANGED queued
  /\ calls' = RemoveAt(calls, i)
  /\ UNCHANGED <<setting, active, waiting, completed, nextId, writing, up, restarts, history>>

-----------------------------------------------------------------------------
(* The writer *)

\* The loop looks at `running` between two batches: after shutdown at most one more.
TakenOff == writer' = IF writer = "stopping" THEN "leaving" ELSE writer

TakeBatch ==
  /\ up /\ writer \in {"running", "stopping"} /\ buffer = <<>> /\ queue # <<>>
  /\ LET n == IF Len(queue) < MaxBatch THEN Len(queue) ELSE MaxBatch
     IN buffer' = SubSeq(queue, 1, n) /\ queue' = SubSeq(queue, n + 1, Len(queue))
  /\ TakenOff /\ UNCHANGED <<setting, engine, calls, db, up, restarts, history>>

\* process_batch: one transaction, all or nothing; ops_buffer is cleared either way.
Commit ==
  /\ up /\ buffer # <<>>
  /\ db' = ExecAll(db, buffer) /\ buffer' = <<>>
  /\ UNCHANGED <<setting, engine, calls, queue, writer, up, restarts, history>>

BatchFails ==
  /\ up /\ "batch" \in Faults /\ buffer # <<>>
  /\ buffer' = <<>> /\ dropped' = dropped \cup JobsOf(buffer)
  /\ UNCHANGED <<setting, engine, calls, queue, writer, db, up, restarts, strayed, promised>>

\* AsyncWriter::shutdown, its last look at the queue, and its end.
Stop ==
  /\ up /\ "stop" \in Faults /\ writer = "running"
  /\ writer' = IF buffer = <<>> THEN "stopping" ELSE "leaving"
  /\ UNCHANGED <<setting, engine, calls, queue, buffer, db, up, restarts, history>>

TakeLast ==
  /\ up /\ writer \in {"stopping", "leaving"} /\ buffer = <<>>
  /\ writer' = "final" /\ buffer' = queue /\ queue' = <<>>
  /\ UNCHANGED <<setting, engine, calls, db, up, restarts, history>>

Stopped ==
  /\ up /\ writer = "final" /\ buffer = <<>> /\ writer' = "stopped"
  /\ UNCHANGED <<setting, engine, calls, queue, buffer, db, up, restarts, history>>

-----------------------------------------------------------------------------
(* The end of the process, and the next one *)

Empty == [j \in Job |-> Nothing]

\* The process ends: after the writer has, after the thirty seconds it is given,
\* or at any moment.
Exit ==
  /\ up /\ (writer = "stopped" \/ "crash" \in Faults) /\ restarts < MaxRestarts
  /\ up' = FALSE
  /\ queued' = Empty /\ active' = Empty /\ waiting' = Empty /\ dlq' = <<>>
  /\ completed' = {} /\ nextId' = 1 /\ calls' = <<>>
  /\ queue' = <<>> /\ buffer' = <<>> /\ writer' = "running"
  /\ dropped' = {} /\ strayed' = {}
  /\ UNCHANGED <<setting, db, restarts, promised>>

Recovered(d, states) ==
  [j \in Job |->
     IF HasRow(d, j) /\ d.rows[j].state \in states
     THEN [attempts |-> d.rows[j].attempts, max |-> d.rows[j].max, fleeting |-> FALSE]
     ELSE Nothing]

\* A dead letter is recovered with its attempts as max_attempts.
RecoveredDead(d) ==
  [i \in DOMAIN d.dead |->
     DeadLetter(d.dead[i].job, [attempts |-> d.dead[i].attempts, max |-> d.dead[i].attempts,
                                fleeting |-> FALSE])]

\* SELECT MAX(id) FROM jobs; the counter of a new process is 1.
RecoveredId(d) ==
  IF \A j \in Job : ~HasRow(d, j) THEN 1
  ELSE 1 + CHOOSE j \in Job : HasRow(d, j) /\ \A k \in Job : HasRow(d, k) => k <= j

Recover ==
  /\ ~up /\ up' = TRUE /\ restarts' = restarts + 1
  /\ queued' = Recovered(db, {"waiting", "delayed"})
  /\ waiting' = Recovered(db, {"waiting_children"})
  /\ dlq' = RecoveredDead(db) /\ completed' = db.results /\ nextId' = RecoveredId(db)
  /\ UNCHANGED <<setting, active, calls, writing, history>>

-----------------------------------------------------------------------------
Init ==
  /\ setting \in Settings
  /\ queued = Empty /\ active = Empty /\ waiting = Empty /\ dlq = <<>>
  /\ completed = {} /\ nextId = 1 /\ calls = <<>>
  /\ queue = <<>> /\ buffer = <<>> /\ writer = "running"
  /\ db = [rows |-> Empty, dead |-> <<>>, results |-> {}]
  /\ up = TRUE /\ restarts = 0
  /\ dropped = {} /\ strayed = {} /\ promised = {}

Operate ==
  \/ Push \/ RetryDlq
  \/ \E j \in Job :
       \/ Pull(j) \/ ReleaseDependents(j) \/ Fail(j) \/ Stall(j) \/ Delay(j)
       \/ Cancel(j) \/ Discard(j) \/ \E result \in BOOLEAN : Ack(j, result)

Serve == \E i \in DOMAIN calls : QueueOp(i) \/ QueueFull(i) \/ WriteNow(i) \/ WriteNowFails(i) \/ Place(i)

Write == TakeBatch \/ Commit \/ BatchFails \/ Stop \/ TakeLast \/ Stopped

Next == Operate \/ Serve \/ Write \/ Exit \/ Recover

Spec == Init /\ [][Next]_vars
=============================================================================

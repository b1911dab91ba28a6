--------------------------- MODULE JobRecordProofs ---------------------------
(***************************************************************************)
(* What a job must have before workers get it.  First, an attempt left: at *)
(* most max_attempts attempts of a job are counted, proved for every       *)
(* operation at once.                                                      *)
(*                                                                         *)
(* The budget is about the jobs in the containers; a job on its way to one *)
(* must have an attempt left as well, and the attempt of a job in the      *)
(* processing table must be counted by one thread only, which is why the   *)
(* argument needs SingleOwner and HandShape.                               *)
(*                                                                         *)
(* Second, what it depends on: see DependenciesRespected.                  *)
(*                                                                         *)
(* Third, an entry in job_index that says where it is, so that calls find  *)
(* it: see ErasedJobsAreGone and IndexIsRight.                             *)
(***************************************************************************)
EXTENDS JobLifecycleProofs

\* Steps at which a thread is about to put the jobs in its hand where workers
\* get them, without looking at their attempts.
Returning ==
  {"push_ready", "push_waiting", "batch_check", "batch_insert", "pull_index", "pull_insert",
   "delay_index", "delay_place"}

HasAttemptLeft(j) == MaxAttempts[j] > 0 => attempts[j] < MaxAttempts[j]

\* AttemptsWithinBudget, extended to the jobs in the hands of threads.
Budgeted ==
  /\ \A j \in Job : MaxAttempts[j] > 0 => attempts[j] <= MaxAttempts[j]
  /\ \A j \in queued \cup waitingDeps \cup processing : HasAttemptLeft(j)
  /\ \A t \in Thread : pc[t] \in Returning => \A j \in hand[t] : HasAttemptLeft(j)
  /\ \A j \in Job \ created : attempts[j] = 0

\* A thread takes a job out of the processing table and counts its attempt.
LEMMA AttemptCounted ==
  ASSUME Owned, Budgeted, NEW t \in Thread, NEW j \in processing,
         processing' = processing \ {j}, UNCHANGED <<queued, waitingDeps, created>>,
         attempts' = [attempts EXCEPT ![j] = @ + 1],
         \A u \in Thread : pc'[u] \in Returning =>
           u # t /\ pc'[u] = pc[u] /\ hand'[u] = hand[u]
  PROVE  Budgeted'
<1> USE OptionAssumption DEF Owned, TypeOK, SingleOwner, OnlyCreated, Stored, HasAttemptLeft
<1>1. \A i \in Job : attempts'[i] = IF i = j THEN attempts[j] + 1 ELSE attempts[i]
  OBVIOUS
<1>2. MaxAttempts[j] > 0 => attempts'[j] <= MaxAttempts[j]
  <2>1. j \in Job /\ attempts[j] \in Nat /\ MaxAttempts[j] \in Nat
    OBVIOUS
  <2>2. MaxAttempts[j] > 0 => attempts[j] < MaxAttempts[j]
    BY DEF Budgeted
  <2>3. attempts'[j] = attempts[j] + 1
    BY <1>1, <2>1
  <2> QED BY <2>1, <2>2, <2>3
<1>3. \A i \in Job : MaxAttempts[i] > 0 => attempts'[i] <= MaxAttempts[i]
  BY <1>1, <1>2 DEF Budgeted
<1>4. \A i \in (queued \cup waitingDeps \cup processing)' : i # j /\ HasAttemptLeft(i)'
  BY <1>1 DEF Budgeted
<1>5. \A u \in Thread : pc'[u] \in Returning => \A i \in hand'[u] : HasAttemptLeft(i)'
  BY <1>1 DEF Budgeted
<1>6. \A i \in Job \ created' : attempts'[i] = 0
  BY <1>1 DEF Budgeted
<1> QED BY <1>3, <1>4, <1>5, <1>6 DEF Budgeted

\* The first lock scope of a call about one job: all of them respect every budget.
LEMMA BeginJobCallBudget ==
  ASSUME Owned, HandShape, Budgeted, NEW c \in Thread, NEW j \in Job, BeginJobCall(c, j)
  PROVE  Budgeted'
<1> USE OptionAssumption DEF Owned, TypeOK, ControlOK, SingleOwner, HandShape,
        EmptyHanded, OneHanded, Budgeted, Returning, HasAttemptLeft
<1>1. CASE Push(c, j)
  BY <1>1 DEF Push, Idle, Take, Goto, stores
<1>2. CASE Ack(c, j)
  BY <1>2 DEF Ack, Idle, TakeFromProcessing, Take, Goto, fields
<1>3. CASE Fail(c, j)
  <2>1. j \in processing /\ processing' = processing \ {j}
        /\ UNCHANGED <<queued, waitingDeps, created>>
    BY <1>3 DEF Fail, TakeFromProcessing
  <2>2. attempts' = [attempts EXCEPT ![j] = @ + 1]
    BY <1>3 DEF Fail, CountAttempt
  <2>3. \A t \in Thread : pc'[t] \in Returning =>
          t # c /\ pc'[t] = pc[t] /\ hand'[t] = hand[t]
    BY <1>3 DEF Fail, TakeFromProcessing, Take, Goto
  <2> QED BY <2>1, <2>2, <2>3, AttemptCounted
<1>4. CASE Cancel(c, j)
  BY <1>4 DEF Cancel, Idle, GotoWith, stores, fields
<1>5. CASE MoveToDelayed(c, j)
  BY <1>5 DEF MoveToDelayed, Idle, TakeFromProcessing, Take, Goto, fields
<1>6. CASE Promote(c, j)
  BY <1>6 DEF Promote, Idle, GotoWith, stores, fields
<1>7. CASE Discard(c, j)
  BY <1>7 DEF Discard, Idle, GotoWith, stores, fields
<1>8. CASE Heartbeat(c, j)
  BY <1>8 DEF Heartbeat, Idle, stores, threads
<1> QED BY <1>1, <1>2, <1>3, <1>4, <1>5, <1>6, <1>7, <1>8 DEF BeginJobCall

\* pull and pull_batch respect every budget.
LEMMA BeginPullBudget ==
  ASSUME Owned, HandShape, Budgeted, NEW c \in Thread, BeginPull(c)
  PROVE  Budgeted'
<1> USE OptionAssumption DEF Owned, TypeOK, ControlOK, SingleOwner, HandShape,
        EmptyHanded, OneHanded, Budgeted, Returning, HasAttemptLeft
<1>1. ASSUME NEW q \in Queue, NEW n, NEW S, NEW X, Pull(c, q, n, S, X)
      PROVE  Budgeted'
  BY <1>1 DEF Pull, Idle, Reachable, Waiting, On, Take, Return, Goto, fields
<1> QED BY <1>1 DEF BeginPull

\* The first lock scopes of push_batch and ack_batch respect every budget.
LEMMA BeginBatchCallBudget ==
  ASSUME Owned, HandShape, Budgeted, NEW c \in Thread, BeginBatchCall(c)
  PROVE  Budgeted'
<1> USE OptionAssumption DEF Owned, TypeOK, ControlOK, SingleOwner, HandShape,
        EmptyHanded, OneHanded, Budgeted, Returning, HasAttemptLeft
<1>1. ASSUME NEW q \in Queue, NEW S, NEW Accepted, PushBatch(c, q, S, Accepted)
      PROVE  Budgeted'
  BY <1>1 DEF PushBatch, Idle, On, Take, Return, Goto, stores
<1>2. ASSUME NEW S \in SUBSET Job, AckBatch(c, S)
      PROVE  Budgeted'
  BY <1>2 DEF AckBatch, Idle, GotoEach, stores, fields
<1> QED BY <1>1, <1>2 DEF BeginBatchCall

\* The calls about a whole queue respect every budget.
LEMMA BeginQueueCallBudget ==
  ASSUME Owned, HandShape, Budgeted, NEW c \in Thread, NEW q \in Queue, BeginQueueCall(c, q)
  PROVE  Budgeted'
<1> USE OptionAssumption DEF Owned, TypeOK, ControlOK, SingleOwner, HandShape,
        EmptyHanded, OneHanded, Budgeted, Returning, HasAttemptLeft
<1>1. ASSUME NEW S, RetryDlq(c, q, S)
      PROVE  Budgeted'
  BY <1>1 DEF RetryDlq, Idle, On, threads
<1>2. ASSUME NEW S, CleanFailed(c, q, S)
      PROVE  Budgeted'
  BY <1>2 DEF CleanFailed, Idle, On, fields, threads
<1>3. ASSUME NEW S, CleanWaiting(c, q, S)
      PROVE  Budgeted'
  BY <1>3 DEF CleanWaiting, Idle, On, fields, threads
<1>4. ASSUME NEW S, CleanCompleted(c, S)
      PROVE  Budgeted'
  BY <1>4 DEF CleanCompleted, Idle, fields, threads
<1>5. CASE PurgeDlq(c, q)
  BY <1>5 DEF PurgeDlq, Idle, On, GotoEach, fields
<1>6. CASE Drain(c, q)
  BY <1>6 DEF Drain, On, Idle, fields, threads
<1>7. CASE Obliterate(c, q)
  BY <1>7 DEF Obliterate, On, Idle, GotoWith, fields
<1>8. CASE Pause(c, q)
  BY <1>8 DEF Pause, Idle, stores, fields, threads
<1>9. CASE Resume(c, q)
  BY <1>9 DEF Resume, Idle, stores, fields, threads
<1>10. CASE ClearConcurrency(c, q)
  BY <1>10 DEF ClearConcurrency, Idle, stores, fields, threads
<1>11. ASSUME NEW n \in NewLimits, SetConcurrency(c, q, n)
      PROVE  Budgeted'
  BY <1>11 DEF SetConcurrency, Idle, stores, fields, threads
<1> QED BY <1>1, <1>2, <1>3, <1>4, <1>5, <1>6, <1>7, <1>8, <1>9, <1>10,
      <1>11 DEF BeginQueueCall

\* The later lock scopes of the calls respect every budget.
LEMMA AdvanceBudget ==
  ASSUME Owned, HandShape, Budgeted, NEW c \in Thread, Advance(c)
  PROVE  Budgeted'
<1> USE OptionAssumption DEF Owned, TypeOK, ControlOK, SingleOwner, HandShape,
        EmptyHanded, OneHanded, Budgeted, Returning, HasAttemptLeft
<1>1. CASE PushDuplicate(c)
  BY <1>1 DEF PushDuplicate, Drop, Return, stores, fields
<1>2. CASE PushInsert(c)
  BY <1>2 DEF PushInsert, Drop, At, GotoWith, Return, fields
<1>3. CASE PushPersisted(c)
  BY <1>3 DEF PushPersisted, Return, stores, fields
<1>4. CASE PushRollback(c)
  BY <1>4 DEF PushRollback, At, Goto, fields
<1>5. CASE Unindex(c)
  BY <1>5 DEF Unindex, At, Return, stores, fields
<1>6. CASE PushBatchCheck(c)
  BY <1>6 DEF PushBatchCheck, At, GotoEach, stores, fields
<1>7. CASE PushBatchInsert(c)
  BY <1>7 DEF PushBatchInsert, At, Drop, Return, fields
<1>8. ASSUME NEW j \in Job, PullIndex(c, j)
      PROVE  Budgeted'
  BY <1>8 DEF PullIndex, At, GotoWith, stores, fields
<1>9. ASSUME NEW j \in Job, AckBatchTake(c, j)
      PROVE  Budgeted'
  BY <1>9 DEF AckBatchTake, AckBatchGoesOn, At, TakeFromProcessing, Take, stores, fields
<1>34. ASSUME NEW j \in Job, AckBatchIndex(c, j)
      PROVE  Budgeted'
  BY <1>34 DEF AckBatchIndex, AckBatchGoesOn, SetIndex, At, stores, resources, fields
<1>10. ASSUME NEW j \in Job, ObliterateRemove(c, j)
      PROVE  Budgeted'
  BY <1>10 DEF ObliterateRemove, At, Continue, Return, GotoEach, fields
<1>11. CASE PullInsert(c)
  BY <1>11 DEF PullInsert, At, Drop, Return, Goto, fields
<1>12. CASE AckRelease(c)
  BY <1>12 DEF AckRelease, At, Goto, stores, fields
<1>13. CASE AckRecord(c)
  BY <1>13 DEF AckRecord, At, Drop, Return, GotoWith
<1>14. CASE AckIndex(c)
  BY <1>14 DEF AckIndex, At, Return, stores, fields
<1>15. CASE AckBatchRelease(c)
  BY <1>15 DEF AckBatchRelease, At, Goto, stores, fields
<1>16. CASE AckBatchRecord(c)
  BY <1>16 DEF AckBatchRecord, At, Drop, Return
<1>17. CASE FailIndex(c)
  BY <1>17 DEF FailIndex, IndexNext, At, Exhausted, Goto, stores, fields
<1>18. CASE FailPlace(c)
  BY <1>18 DEF FailPlace, At, PlaceNext, Exhausted, Requeue, Drop, Return
<1>19. CASE FailDiscard(c)
  BY <1>19 DEF FailDiscard, At, Drop, GotoWith, stores, fields
<1>20. CASE FailForget(c)
  BY <1>20 DEF FailForget, At, Return, stores
<1>21. CASE CancelProcessing(c)
  BY <1>21 DEF CancelProcessing, At, TakeFromProcessing, Take, Goto, Return, stores, fields
<1>22. CASE CancelRelease(c)
  BY <1>22 DEF CancelRelease, At, Drop, Goto, stores, fields
<1>23. CASE CancelWaiting(c)
  <2>1. waitingDeps' \subseteq waitingDeps
        /\ UNCHANGED <<queued, processing, attempts, created, hand>>
    BY <1>23 DEF CancelWaiting, fields
  <2>2. \A t \in Thread : pc'[t] \in Returning => pc'[t] = pc[t]
    BY <1>23 DEF CancelWaiting, Goto, Return
  <2> QED BY <2>1, <2>2
<1>24. CASE CancelQueued(c)
  BY <1>24 DEF CancelQueued, At, Goto, Return, fields
<1>25. CASE DelayIndex(c)
  BY <1>25 DEF DelayIndex, At, Goto, stores, fields
<1>26. CASE DelayPlace(c)
  BY <1>26 DEF DelayPlace, At, Drop, Return
<1>27. CASE PromoteQueued(c)
  BY <1>27 DEF PromoteQueued, At, Return, stores
<1>28. CASE DiscardQueued(c)
  BY <1>28 DEF DiscardQueued, At, Return, fields
<1>29. CASE DiscardProcessing(c)
  BY <1>29 DEF DiscardProcessing, At, TakeFromProcessing, Take, Goto, Return, stores, fields
<1>30. CASE DiscardPlace(c)
  BY <1>30 DEF DiscardPlace, At, Drop, Goto, fields
<1>31. CASE DiscardIndex(c)
  BY <1>31 DEF DiscardIndex, At, Return, stores, fields
<1>32. CASE PurgeUnindex(c)
  BY <1>32 DEF PurgeUnindex, At, Return, stores, fields
<1>33. CASE ObliterateCollect(c)
  BY <1>33 DEF ObliterateCollect, At, Continue, Return, GotoEach, On, stores, fields
<1> QED BY <1>1, <1>2, <1>3, <1>4, <1>5, <1>6, <1>7, <1>8, <1>9, <1>10, <1>11, <1>12, <1>13,
      <1>14, <1>15, <1>16, <1>17, <1>18, <1>19, <1>20, <1>21, <1>22, <1>23, <1>24, <1>25,
      <1>26, <1>27, <1>28, <1>29, <1>30, <1>31, <1>32, <1>33, <1>34 DEF Advance

\* The scans of the background task respect every budget.
LEMMA TickBudget ==
  ASSUME Owned, HandShape, Budgeted, NEW b \in Thread, Tick(b)
  PROVE  Budgeted'
<1> USE OptionAssumption DEF Owned, TypeOK, ControlOK, SingleOwner, HandShape,
        EmptyHanded, OneHanded, Budgeted, Returning, HasAttemptLeft
<1>1. ASSUME NEW S, TimeoutScan(b, S)
      PROVE  Budgeted'
  BY <1>1 DEF TimeoutScan, Idle, GotoEach, stores, fields
<1>2. ASSUME NEW S, StallScan(b, S)
      PROVE  Budgeted'
  BY <1>2 DEF StallScan, Idle, GotoEach, stores, fields
<1>3. CASE DepsScan(b)
  BY <1>3 DEF DepsScan, Idle, GotoEach, stores, fields
<1>4. ASSUME NEW S, CleanupScan(b, S)
      PROVE  Budgeted'
  BY <1>4 DEF CleanupScan, Idle, GotoEach, stores, fields
<1> QED BY <1>1, <1>2, <1>3, <1>4 DEF Tick

\* What the background task does with the ids it collected: its steps respect every budget.
LEMMA AdvanceTickBudget ==
  ASSUME Owned, HandShape, Budgeted, NEW b \in Thread, AdvanceTick(b)
  PROVE  Budgeted'
<1> USE OptionAssumption DEF Owned, TypeOK, ControlOK, SingleOwner, HandShape,
        EmptyHanded, OneHanded, Budgeted, Returning, HasAttemptLeft
<1>1. ASSUME NEW j \in Job, TimeoutTake(b, j)
      PROVE  Budgeted'
  <2>1. CASE j \in processing
    <3>1. processing' = processing \ {j} /\ UNCHANGED <<queued, waitingDeps, created>>
      BY <1>1, <2>1 DEF TimeoutTake, TakeFromProcessing
    <3>2. attempts' = [attempts EXCEPT ![j] = @ + 1]
      BY <1>1, <2>1 DEF TimeoutTake, CountAttempt
    <3>3. \A t \in Thread : pc'[t] \in Returning =>
            t # b /\ pc'[t] = pc[t] /\ hand'[t] = hand[t]
      BY <1>1, <2>1 DEF TimeoutTake, TakeFromProcessing, Take, GotoEach
    <3> QED BY <2>1, <3>1, <3>2, <3>3, AttemptCounted
  <2>2. CASE j \notin processing
    <3>1. UNCHANGED <<stores, attempts, created, hand>>
      BY <1>1, <2>2 DEF TimeoutTake, TakeFromProcessing
    <3>2. \A t \in Thread : pc'[t] \in Returning => pc'[t] = pc[t]
      BY <1>1, <2>2 DEF TimeoutTake, TakeFromProcessing, Continue, GotoEach, Return
    <3> QED BY <3>1, <3>2 DEF stores
  <2> QED BY <2>1, <2>2
<1>2. ASSUME NEW j \in Job, StallCount(b, j)
      PROVE  Budgeted'
  <2>1. UNCHANGED <<stores, attempts, created, hand>>
    BY <1>2 DEF StallCount
  <2>2. \A t \in Thread : pc'[t] \in Returning => pc'[t] = pc[t]
    BY <1>2 DEF StallCount, Continue, Return, GotoEach
  <2> QED BY <2>1, <2>2 DEF stores
<1>3. CASE TimeoutRelease(b)
  BY <1>3 DEF TimeoutRelease, At, Goto, stores, fields
<1>4. CASE TimeoutIndex(b)
  BY <1>4 DEF TimeoutIndex, IndexNext, At, Exhausted, Goto, stores, fields
<1>5. CASE TimeoutPlace(b)
  BY <1>5 DEF TimeoutPlace, At, PlaceNext, Exhausted, Requeue, Drop, Continue, Return,
     GotoEach
<1>6. CASE StallRemove(b)
  <2>1. /\ processing' \subseteq processing
        /\ UNCHANGED <<queued, waitingDeps, attempts, created>>
    BY <1>6 DEF StallRemove, TakeFromProcessing, stores, fields
  <2>2. \A t \in Thread : pc'[t] \in Returning => pc'[t] = pc[t] /\ hand'[t] = hand[t]
    BY <1>6 DEF StallRemove, At, TakeFromProcessing, Take, Goto, Continue, Return, GotoEach,
       stores
  <2> QED BY <2>1, <2>2
<1>7. CASE StallIndex(b)
  BY <1>7 DEF StallIndex, At, Goto, stores, fields
<1>8. CASE StallPlace(b)
  BY <1>8 DEF StallPlace, At, Drop, Continue, Return, GotoEach, fields
<1>9. CASE DepsMove(b)
  BY <1>9 DEF DepsMove, At, Return, fields
<1>10. CASE CleanupUnindex(b)
  BY <1>10 DEF CleanupUnindex, At, Goto, stores, fields
<1>11. CASE CleanupRemove(b)
  BY <1>11 DEF CleanupRemove, At, Return, fields
<1> QED BY <1>1, <1>2, <1>3, <1>4, <1>5, <1>6, <1>7, <1>8, <1>9, <1>10,
      <1>11 DEF AdvanceTick

\* The passing of time: its steps respect every budget.
LEMMA ClockBudget ==
  ASSUME Owned, HandShape, Budgeted, Clock
  PROVE  Budgeted'
<1> USE OptionAssumption DEF Owned, TypeOK, ControlOK, SingleOwner, HandShape,
        EmptyHanded, OneHanded, Budgeted, Returning, HasAttemptLeft
<1>1. ASSUME NEW j \in Job, BecomesDue(j)
      PROVE  Budgeted'
  BY <1>1 DEF BecomesDue, stores, threads
<1>2. ASSUME NEW j \in Job, Expires(j)
      PROVE  Budgeted'
  BY <1>2 DEF Expires, stores, threads
<1> QED BY <1>1, <1>2 DEF Clock

\* No attempt has been made at the start.
LEMMA InitBudget == Init => Budgeted
BY OptionAssumption DEF Init, Budgeted, HasAttemptLeft, Returning

\* Attempts are counted once, and a job that has none left is not run again.
LEMMA NextBudget == Owned /\ HandShape /\ Budgeted /\ [Next]_vars => Budgeted'
<1> SUFFICES ASSUME Owned, HandShape, Budgeted, [Next]_vars PROVE Budgeted'
  OBVIOUS
<1>1. ASSUME NEW c \in Client, Begin(c) PROVE Budgeted'
  BY <1>1, BeginJobCallBudget, BeginPullBudget, BeginBatchCallBudget, BeginQueueCallBudget
     DEF Begin, Thread
<1>2. ASSUME NEW c \in Client, Advance(c) PROVE Budgeted'
  BY <1>2, AdvanceBudget DEF Thread
<1>3. CASE Tick(Background)
  BY <1>3, TickBudget DEF Thread
<1>4. CASE AdvanceTick(Background)
  BY <1>4, AdvanceTickBudget DEF Thread
<1>5. CASE Clock
  BY <1>5, ClockBudget
<1>6. CASE UNCHANGED vars
  BY <1>6 DEF Budgeted, HasAttemptLeft, vars, stores, fields, threads
<1> QED BY <1>1, <1>2, <1>3, <1>4, <1>5, <1>6 DEF Next

\* Between two retries from the dead letter queue at most max_attempts attempts of a
\* job are counted, each that fails or times out once, and no job waits or runs with
\* none left, whichever operations and background scans interleave, for any number of
\* threads and jobs.  (Deliveries that move_to_delayed ends are not counted.)
THEOREM AttemptsBounded == Spec => []AttemptsWithinBudget
<1>1. Budgeted => AttemptsWithinBudget
  BY DEF Budgeted, HasAttemptLeft, AttemptsWithinBudget
<1>2. Init => Owned /\ HandShape /\ Budgeted
  BY InitOwned, InitHand, InitBudget
<1>3. Owned /\ HandShape /\ Budgeted /\ [Next]_vars => (Owned /\ HandShape /\ Budgeted)'
  BY NextOwned, NextHand, NextBudget DEF Owned
<1> QED BY <1>1, <1>2, <1>3, PTL DEF Spec

-----------------------------------------------------------------------------
(* A job is not given to workers before the jobs it depends on completed,   *)
(* as long as nothing cleans completed_jobs: what was looked up in it, by a *)
(* push or by the dependency scan, is then still so when it is used.        *)

NoCleaning == "clean_completed" \notin Calls /\ "cleanup" \notin Calls
Cleaning == {"cleanup_unindex", "cleanup_remove"}

DepsMet(j) == DependsOn[j] \subseteq completed

\* Steps at which a thread may hold jobs whose dependencies are still open.
Undecided == {"push_waiting", "batch_check", "batch_insert"}

\* DependenciesFirst, extended to dead letters, which may be retried, to the jobs in
\* the hands of threads, and to what the scan has copied.
Satisfied ==
  /\ \A j \in queued \cup processing \cup dlq : DepsMet(j)
  /\ \A t \in Thread :
       /\ \A j \in hand[t] : pc[t] \notin Undecided => DepsMet(j)
       /\ \A j \in hand[t] : pc[t] = "batch_insert" => j \in todo[t] \/ DepsMet(j)
       /\ pc[t] = "deps_move" => todo[t] \subseteq completed
       /\ pc[t] \notin Cleaning

\* Without the cleaning calls nothing leaves completed_jobs.
LEMMA NothingForgotten ==
  ASSUME NoCleaning, Satisfied, [Next]_vars
  PROVE  completed \subseteq completed'
<1> USE DEF stores, Idle, At
<1>1. ASSUME NEW c \in Client, NEW j \in Job, BeginJobCall(c, j)
      PROVE  completed \subseteq completed'
  BY <1>1 DEF BeginJobCall, Push, Ack, TakeFromProcessing, Fail, Cancel, MoveToDelayed,
     Promote, Discard, Heartbeat
<1>2. ASSUME NEW c \in Client, BeginPull(c)
      PROVE  completed \subseteq completed'
  BY <1>2 DEF BeginPull, Pull
<1>3. ASSUME NEW c \in Client, BeginBatchCall(c)
      PROVE  completed \subseteq completed'
  BY <1>3 DEF BeginBatchCall, PushBatch, AckBatch
<1>4. ASSUME NEW c \in Client, NEW q \in Queue, BeginQueueCall(c, q)
      PROVE  completed \subseteq completed'
  BY <1>4 DEF BeginQueueCall, RetryDlq, CleanFailed, CleanWaiting, CleanCompleted, PurgeDlq,
     Drain, Obliterate, Pause, Resume, ClearConcurrency, SetConcurrency, NoCleaning
<1>5. ASSUME NEW c \in Client, Advance(c)
      PROVE  completed \subseteq completed'
  <2>1. ASSUME NEW j \in Job, \/ PullIndex(c, j) \/ AckBatchTake(c, j)
                              \/ AckBatchIndex(c, j) \/ ObliterateRemove(c, j)
        PROVE  completed \subseteq completed'
    BY <2>1 DEF PullIndex, AckBatchTake, AckBatchIndex, ObliterateRemove,
       TakeFromProcessing, stores
  <2>2. CASE PushDuplicate(c) \/ PushInsert(c) \/ PushPersisted(c) \/ PushRollback(c)
            \/ Unindex(c)
    BY <2>2 DEF PushDuplicate, PushInsert, PushPersisted, PushRollback, Unindex
  <2>3. CASE PushBatchCheck(c) \/ PushBatchInsert(c) \/ PullInsert(c)
            \/ AckRelease(c) \/ AckRecord(c)
    BY <2>3 DEF PushBatchCheck, PushBatchInsert, PullInsert, AckRelease, AckRecord
  <2>4. CASE AckIndex(c) \/ AckBatchRelease(c) \/ AckBatchRecord(c) \/ FailIndex(c)
            \/ FailPlace(c)
    BY <2>4 DEF AckIndex, AckBatchRelease, AckBatchRecord, FailIndex, IndexNext, FailPlace,
       PlaceNext, Requeue
  <2>5. CASE FailDiscard(c) \/ FailForget(c) \/ CancelProcessing(c)
            \/ CancelRelease(c) \/ CancelWaiting(c)
    BY <2>5 DEF FailDiscard, FailForget, CancelProcessing, TakeFromProcessing,
       CancelRelease, CancelWaiting
  <2>6. CASE CancelQueued(c) \/ DelayIndex(c) \/ DelayPlace(c) \/ PromoteQueued(c)
            \/ DiscardQueued(c)
    BY <2>6 DEF CancelQueued, DelayIndex, DelayPlace, PromoteQueued, DiscardQueued
  <2>7. CASE DiscardProcessing(c) \/ DiscardPlace(c) \/ DiscardIndex(c)
            \/ PurgeUnindex(c) \/ ObliterateCollect(c)
    BY <2>7 DEF DiscardProcessing, TakeFromProcessing, DiscardPlace, DiscardIndex,
       PurgeUnindex, ObliterateCollect
  <2> QED BY <1>5, <2>1, <2>2, <2>3, <2>4, <2>5, <2>6, <2>7 DEF Advance
<1>6. ASSUME NEW b \in Thread, Tick(b)
      PROVE  completed \subseteq completed'
  BY <1>6 DEF Tick, TimeoutScan, StallScan, DepsScan, CleanupScan
<1>7. ASSUME NEW b \in Thread, AdvanceTick(b)
      PROVE  completed \subseteq completed'
  BY <1>7 DEF AdvanceTick, TimeoutTake, TakeFromProcessing, StallCount, TimeoutRelease,
     TimeoutIndex, IndexNext, TimeoutPlace, PlaceNext, Requeue, StallRemove, StallIndex,
     StallPlace, DepsMove, CleanupUnindex, CleanupRemove, Satisfied, Cleaning
<1>8. ASSUME Clock
      PROVE  completed \subseteq completed'
  BY <1>8 DEF Clock, BecomesDue, Expires
<1>9. CASE UNCHANGED vars
  BY <1>9 DEF vars
<1> QED
  BY <1>1, <1>2, <1>3, <1>4, <1>5, <1>6, <1>7, <1>8, <1>9 DEF Next, Begin, Thread

\* The first lock scope of a call about one job: all of them keep Satisfied.
LEMMA BeginJobCallSatisfied ==
  ASSUME Owned, HandShape, Satisfied, NoCleaning, completed \subseteq completed',
         \A i : DepsMet(i) => DepsMet(i)', NEW c \in Thread, NEW j \in Job, BeginJobCall(c, j)
  PROVE  Satisfied'
<1> USE DEF Owned, TypeOK, ControlOK, SingleOwner, HandShape, EmptyHanded, OneHanded,
        Satisfied, Undecided, Cleaning
<1>1. CASE Push(c, j)
  <2>1. pc'[c] \notin Undecided => DepsMet(j)
    BY <1>1 DEF Push, Goto, DependenciesMet, DepsMet
  <2> QED BY <1>1, <2>1 DEF Push, Idle, Take, Goto, stores
<1>2. CASE Ack(c, j)
  BY <1>2 DEF Ack, Idle, TakeFromProcessing, Take, Goto
<1>3. CASE Fail(c, j)
  BY <1>3 DEF Fail, Idle, TakeFromProcessing, Take, Goto, Exhausted
<1>4. CASE Cancel(c, j)
  BY <1>4 DEF Cancel, Idle, GotoWith, stores
<1>5. CASE MoveToDelayed(c, j)
  BY <1>5 DEF MoveToDelayed, Idle, TakeFromProcessing, Take, Goto
<1>6. CASE Promote(c, j)
  BY <1>6 DEF Promote, Idle, GotoWith, stores
<1>7. CASE Discard(c, j)
  BY <1>7 DEF Discard, Idle, GotoWith, stores
<1>8. CASE Heartbeat(c, j)
  BY <1>8 DEF Heartbeat, Idle, stores, threads
<1> QED BY <1>1, <1>2, <1>3, <1>4, <1>5, <1>6, <1>7, <1>8 DEF BeginJobCall

\* pull and pull_batch keep Satisfied.
LEMMA BeginPullSatisfied ==
  ASSUME Owned, HandShape, Satisfied, NoCleaning, completed \subseteq completed',
         \A i : DepsMet(i) => DepsMet(i)', NEW c \in Thread, BeginPull(c)
  PROVE  Satisfied'
<1> USE DEF Owned, TypeOK, ControlOK, SingleOwner, HandShape, EmptyHanded, OneHanded,
        Satisfied, Undecided, Cleaning
<1>1. ASSUME NEW q \in Queue, NEW n, NEW S, NEW X, Pull(c, q, n, S, X)
      PROVE  Satisfied'
  BY <1>1 DEF Pull, Idle, Reachable, Waiting, On, Take, Return, Goto
<1> QED BY <1>1 DEF BeginPull

\* The first lock scopes of push_batch and ack_batch keep Satisfied.
LEMMA BeginBatchCallSatisfied ==
  ASSUME Owned, HandShape, Satisfied, NoCleaning, completed \subseteq completed',
         \A i : DepsMet(i) => DepsMet(i)', NEW c \in Thread, BeginBatchCall(c)
  PROVE  Satisfied'
<1> USE DEF Owned, TypeOK, ControlOK, SingleOwner, HandShape, EmptyHanded, OneHanded,
        Satisfied, Undecided, Cleaning
<1>1. ASSUME NEW q \in Queue, NEW S, NEW Accepted, PushBatch(c, q, S, Accepted)
      PROVE  Satisfied'
  BY <1>1 DEF PushBatch, Idle, On, Take, Return, Goto, stores
<1>2. ASSUME NEW S \in SUBSET Job, AckBatch(c, S)
      PROVE  Satisfied'
  BY <1>2 DEF AckBatch, Idle, GotoEach, stores
<1> QED BY <1>1, <1>2 DEF BeginBatchCall

\* The calls about a whole queue keep Satisfied.
LEMMA BeginQueueCallSatisfied ==
  ASSUME Owned, HandShape, Satisfied, NoCleaning, completed \subseteq completed',
         \A i : DepsMet(i) => DepsMet(i)', NEW c \in Thread, NEW q \in Queue, BeginQueueCall(c, q)
  PROVE  Satisfied'
<1> USE DEF Owned, TypeOK, ControlOK, SingleOwner, HandShape, EmptyHanded, OneHanded,
        Satisfied, Undecided, Cleaning
<1>1. ASSUME NEW S, RetryDlq(c, q, S)
      PROVE  Satisfied'
  BY <1>1 DEF RetryDlq, Idle, On, threads
<1>2. ASSUME NEW S, CleanFailed(c, q, S)
      PROVE  Satisfied'
  BY <1>2 DEF CleanFailed, Idle, On, threads
<1>3. ASSUME NEW S, CleanWaiting(c, q, S)
      PROVE  Satisfied'
  BY <1>3 DEF CleanWaiting, Idle, On, threads
<1>4. ASSUME NEW S, CleanCompleted(c, S)
      PROVE  Satisfied'
  BY <1>4 DEF CleanCompleted, Idle, threads
<1>5. CASE PurgeDlq(c, q)
  BY <1>5 DEF PurgeDlq, Idle, On, GotoEach
<1>6. CASE Drain(c, q)
  BY <1>6 DEF Drain, On, Idle, threads
<1>7. CASE Obliterate(c, q)
  BY <1>7 DEF Obliterate, On, Idle, GotoWith
<1>8. CASE Pause(c, q)
  BY <1>8 DEF Pause, Idle, stores, threads
<1>9. CASE Resume(c, q)
  BY <1>9 DEF Resume, Idle, stores, threads
<1>10. CASE ClearConcurrency(c, q)
  BY <1>10 DEF ClearConcurrency, Idle, stores, threads
<1>11. ASSUME NEW n \in NewLimits, SetConcurrency(c, q, n)
      PROVE  Satisfied'
  BY <1>11 DEF SetConcurrency, Idle, stores, threads
<1> QED BY <1>1, <1>2, <1>3, <1>4, <1>5, <1>6, <1>7, <1>8, <1>9, <1>10,
      <1>11 DEF BeginQueueCall

\* The later lock scopes of the calls keep Satisfied.
LEMMA AdvanceSatisfied ==
  ASSUME Owned, HandShape, Satisfied, NoCleaning, completed \subseteq completed',
         \A i : DepsMet(i) => DepsMet(i)', NEW c \in Thread, Advance(c)
  PROVE  Satisfied'
<1> USE DEF Owned, TypeOK, ControlOK, SingleOwner, HandShape, EmptyHanded, OneHanded,
        Satisfied, Undecided, Cleaning
<1>1. CASE PushDuplicate(c)
  BY <1>1 DEF PushDuplicate, Drop, Return, stores
<1>2. CASE PushInsert(c)
  BY <1>2 DEF PushInsert, Drop, At, GotoWith, Return
<1>3. CASE PushPersisted(c)
  BY <1>3 DEF PushPersisted, Return, stores
<1>4. CASE PushRollback(c)
  BY <1>4 DEF PushRollback, At, Goto
<1>5. CASE Unindex(c)
  BY <1>5 DEF Unindex, At, Return, stores
<1>6. CASE PushBatchCheck(c)
  <2>1. \A j \in hand[c] : j \in todo'[c] \/ DepsMet(j)
    BY <1>6 DEF PushBatchCheck, GotoEach, DependenciesMet, DepsMet
  <2> QED BY <1>6, <2>1 DEF PushBatchCheck, At, GotoEach, stores
<1>7. CASE PushBatchInsert(c)
  BY <1>7 DEF PushBatchInsert, At, Drop, Return
<1>8. ASSUME NEW j \in Job, PullIndex(c, j)
      PROVE  Satisfied'
  BY <1>8 DEF PullIndex, At, GotoWith, stores
<1>9. ASSUME NEW j \in Job, AckBatchTake(c, j)
      PROVE  Satisfied'
  BY <1>9 DEF AckBatchTake, AckBatchGoesOn, At, TakeFromProcessing, Take, stores
<1>34. ASSUME NEW j \in Job, AckBatchIndex(c, j)
      PROVE  Satisfied'
  BY <1>34 DEF AckBatchIndex, AckBatchGoesOn, SetIndex, At, stores, resources, fields
<1>10. ASSUME NEW j \in Job, ObliterateRemove(c, j)
      PROVE  Satisfied'
  BY <1>10 DEF ObliterateRemove, At, Continue, Return, GotoEach
<1>11. CASE PullInsert(c)
  BY <1>11 DEF PullInsert, At, Drop, Return, Goto
<1>12. CASE AckRelease(c)
  BY <1>12 DEF AckRelease, At, Goto, stores
<1>13. CASE AckRecord(c)
  BY <1>13 DEF AckRecord, At, Drop, Return, GotoWith
<1>14. CASE AckIndex(c)
  BY <1>14 DEF AckIndex, At, Return, stores
<1>15. CASE AckBatchRelease(c)
  BY <1>15 DEF AckBatchRelease, At, Goto, stores
<1>16. CASE AckBatchRecord(c)
  BY <1>16 DEF AckBatchRecord, At, Drop, Return
<1>17. CASE FailIndex(c)
  BY <1>17 DEF FailIndex, IndexNext, At, Exhausted, Goto, stores
<1>18. CASE FailPlace(c)
  BY <1>18 DEF FailPlace, At, PlaceNext, Exhausted, Requeue, Drop, Return
<1>19. CASE FailDiscard(c)
  BY <1>19 DEF FailDiscard, At, Drop, GotoWith, stores
<1>20. CASE FailForget(c)
  BY <1>20 DEF FailForget, At, Return, stores
<1>21. CASE CancelProcessing(c)
  BY <1>21 DEF CancelProcessing, At, TakeFromProcessing, Take, Goto, Return, stores
<1>22. CASE CancelRelease(c)
  BY <1>22 DEF CancelRelease, At, Drop, Goto, stores
<1>23. CASE CancelWaiting(c)
  BY <1>23 DEF CancelWaiting, At, Goto, Return
<1>24. CASE CancelQueued(c)
  BY <1>24 DEF CancelQueued, At, Goto, Return
<1>25. CASE DelayIndex(c)
  BY <1>25 DEF DelayIndex, At, Goto, stores
<1>26. CASE DelayPlace(c)
  BY <1>26 DEF DelayPlace, At, Drop, Return
<1>27. CASE PromoteQueued(c)
  BY <1>27 DEF PromoteQueued, At, Return, stores
<1>28. CASE DiscardQueued(c)
  BY <1>28 DEF DiscardQueued, At, Return
<1>29. CASE DiscardProcessing(c)
  BY <1>29 DEF DiscardProcessing, At, TakeFromProcessing, Take, Goto, Return, stores
<1>30. CASE DiscardPlace(c)
  BY <1>30 DEF DiscardPlace, At, Drop, Goto
<1>31. CASE DiscardIndex(c)
  BY <1>31 DEF DiscardIndex, At, Return, stores
<1>32. CASE PurgeUnindex(c)
  BY <1>32 DEF PurgeUnindex, At, Return, stores
<1>33. CASE ObliterateCollect(c)
  BY <1>33 DEF ObliterateCollect, At, Continue, Return, GotoEach, On, stores
<1> QED BY <1>1, <1>2, <1>3, <1>4, <1>5, <1>6, <1>7, <1>8, <1>9, <1>10, <1>11, <1>12, <1>13,
      <1>14, <1>15, <1>16, <1>17, <1>18, <1>19, <1>20, <1>21, <1>22, <1>23, <1>24, <1>25,
      <1>26, <1>27, <1>28, <1>29, <1>30, <1>31, <1>32, <1>33, <1>34 DEF Advance

\* The scans of the background task keep Satisfied.
LEMMA TickSatisfied ==
  ASSUME Owned, HandShape, Satisfied, NoCleaning, completed \subseteq completed',
         \A i : DepsMet(i) => DepsMet(i)', NEW b \in Thread, Tick(b)
  PROVE  Satisfied'
<1> USE DEF Owned, TypeOK, ControlOK, SingleOwner, HandShape, EmptyHanded, OneHanded,
        Satisfied, Undecided, Cleaning
<1>1. ASSUME NEW S, TimeoutScan(b, S)
      PROVE  Satisfied'
  BY <1>1 DEF TimeoutScan, Idle, GotoEach, stores
<1>2. ASSUME NEW S, StallScan(b, S)
      PROVE  Satisfied'
  BY <1>2 DEF StallScan, Idle, GotoEach, stores
<1>3. CASE DepsScan(b)
  BY <1>3 DEF DepsScan, Idle, GotoEach, stores
<1>4. ASSUME NEW S, CleanupScan(b, S)
      PROVE  Satisfied'
  BY <1>4 DEF CleanupScan, Idle, NoCleaning
<1> QED BY <1>1, <1>2, <1>3, <1>4 DEF Tick

\* What the background task does with the ids it collected: its steps keep Satisfied.
LEMMA AdvanceTickSatisfied ==
  ASSUME Owned, HandShape, Satisfied, NoCleaning, completed \subseteq completed',
         \A i : DepsMet(i) => DepsMet(i)', NEW b \in Thread, AdvanceTick(b)
  PROVE  Satisfied'
<1> USE DEF Owned, TypeOK, ControlOK, SingleOwner, HandShape, EmptyHanded, OneHanded,
        Satisfied, Undecided, Cleaning
<1>1. ASSUME NEW j \in Job, TimeoutTake(b, j)
      PROVE  Satisfied'
  BY <1>1 DEF TimeoutTake, At, TakeFromProcessing, Take, GotoEach, Continue, Return, stores
<1>2. ASSUME NEW j \in Job, StallCount(b, j)
      PROVE  Satisfied'
  BY <1>2 DEF StallCount, At, Continue, Return, GotoEach, stores
<1>3. CASE TimeoutRelease(b)
  BY <1>3 DEF TimeoutRelease, At, Goto, stores
<1>4. CASE TimeoutIndex(b)
  BY <1>4 DEF TimeoutIndex, IndexNext, At, Exhausted, Goto, stores
<1>5. CASE TimeoutPlace(b)
  BY <1>5 DEF TimeoutPlace, At, PlaceNext, Exhausted, Requeue, Drop, Continue, Return,
     GotoEach
<1>6. CASE StallRemove(b)
  BY <1>6 DEF StallRemove, At, TakeFromProcessing, Take, Goto, Continue, Return, GotoEach,
     stores
<1>7. CASE StallIndex(b)
  BY <1>7 DEF StallIndex, At, Goto, stores
<1>8. CASE StallPlace(b)
  BY <1>8 DEF StallPlace, At, Drop, Continue, Return, GotoEach
<1>9. CASE DepsMove(b)
  <2>1. queued' \subseteq queued \cup {j \in Job : DepsMet(j)}
    BY <1>9 DEF DepsMove, At, DependenciesMet, DepsMet
  <2>2. UNCHANGED <<processing, dlq, completed, hand>>
    BY <1>9 DEF DepsMove
  <2>3. /\ pc[b] = "deps_move" /\ pc' = [pc EXCEPT ![b] = "idle"]
        /\ todo' = [todo EXCEPT ![b] = {}]
    BY <1>9 DEF DepsMove, At, Return
  <2> QED BY <2>1, <2>2, <2>3
<1>10. CASE CleanupUnindex(b)
  BY <1>10 DEF CleanupUnindex, At, Goto, stores
<1>11. CASE CleanupRemove(b)
  BY <1>11 DEF CleanupRemove, At, Return
<1> QED BY <1>1, <1>2, <1>3, <1>4, <1>5, <1>6, <1>7, <1>8, <1>9, <1>10,
      <1>11 DEF AdvanceTick

\* The passing of time: its steps keep Satisfied.
LEMMA ClockSatisfied ==
  ASSUME Owned, HandShape, Satisfied, NoCleaning, completed \subseteq completed',
         \A i : DepsMet(i) => DepsMet(i)', Clock
  PROVE  Satisfied'
<1> USE DEF Owned, TypeOK, ControlOK, SingleOwner, HandShape, EmptyHanded, OneHanded,
        Satisfied, Undecided, Cleaning
<1>1. ASSUME NEW j \in Job, BecomesDue(j)
      PROVE  Satisfied'
  BY <1>1 DEF BecomesDue, stores, threads
<1>2. ASSUME NEW j \in Job, Expires(j)
      PROVE  Satisfied'
  BY <1>2 DEF Expires, stores, threads
<1> QED BY <1>1, <1>2 DEF Clock

\* At the start there are no jobs.
LEMMA InitSatisfied == Init => Satisfied
BY DEF Init, Satisfied, Cleaning

\* Every step keeps Satisfied.
LEMMA NextSatisfied ==
  ASSUME NoCleaning, Owned, HandShape, Satisfied, [Next]_vars
  PROVE  Satisfied'
<1>0. completed \subseteq completed' /\ \A i : DepsMet(i) => DepsMet(i)'
  BY NothingForgotten DEF DepsMet
<1>1. ASSUME NEW c \in Client, Begin(c) PROVE Satisfied'
  BY <1>0, <1>1, BeginJobCallSatisfied, BeginPullSatisfied, BeginBatchCallSatisfied,
     BeginQueueCallSatisfied DEF Begin, Thread
<1>2. ASSUME NEW c \in Client, Advance(c) PROVE Satisfied'
  BY <1>0, <1>2, AdvanceSatisfied DEF Thread
<1>3. CASE Tick(Background)
  BY <1>0, <1>3, TickSatisfied DEF Thread
<1>4. CASE AdvanceTick(Background)
  BY <1>0, <1>4, AdvanceTickSatisfied DEF Thread
<1>5. CASE Clock
  BY <1>0, <1>5, ClockSatisfied
<1>6. CASE UNCHANGED vars
  BY <1>0, <1>6 DEF Satisfied, vars, stores, threads
<1> QED BY <1>1, <1>2, <1>3, <1>4, <1>5, <1>6 DEF Next

\* No worker is given a job whose dependencies have not completed, although push
\* looks them up before it locks the shard and the scan works on a copy: for any
\* number of threads and any graph of dependencies, when neither the cleanup of
\* completed_jobs nor clean(.., completed) runs.
THEOREM DependenciesRespected ==
  ASSUME NoCleaning
  PROVE  Spec => []DependenciesFirst
<1>1. Satisfied => DependenciesFirst
  BY DEF Satisfied, DependenciesFirst, DepsMet
<1>2. Init => Owned /\ HandShape /\ Satisfied
  BY InitOwned, InitHand, InitSatisfied
<1>3. Owned /\ HandShape /\ Satisfied /\ [Next]_vars => (Owned /\ HandShape /\ Satisfied)'
  BY NoCleaning, NextOwned, NextHand, NextSatisfied DEF Owned
<1> QED BY <1>1, <1>2, <1>3, PTL DEF Spec

-----------------------------------------------------------------------------
(* Third, an entry in the index.  A call that withdraws a job erases its    *)
(* index entry in a later lock scope, by id alone: this is harmless as long *)
(* as the job cannot have come back, because ids are not reused and every   *)
(* way into a container starts in another container, or in a hand.          *)

OnTheWay(j) == \E t \in Thread : j \in hand[t]
InPlay(j) == j \in queued \cup processing \cup waitingDeps \cup dlq \/ OnTheWay(j)

\* A job that was pushed and is no longer in play; completed, perhaps, or not even that.
Past(j) == j \in created /\ ~InPlay(j)
Gone(j) == Past(j) /\ j \notin completed

\* In a step, no job comes back into play, or among the completed ones, from nowhere.
NothingReturns ==
  /\ created \subseteq created'
  /\ \A j \in created :
       /\ InPlay(j)' => InPlay(j)
       /\ j \in completed' => j \in completed \/ InPlay(j)

\* What threads are about to erase, or to enter as completed, is out of play.
\* A rollback of push is excluded: it erases a job that workers may have by then.
Errands ==
  \A t \in Thread :
    /\ pc[t] \in {"unindex", "fail_forget"} => Gone(arg[t])
    /\ pc[t] = "purge_unindex" => \A j \in todo[t] : Gone(j)
    /\ pc[t] = "ack_index" => Past(arg[t])
    /\ pc[t] \in Cleaning => \A j \in todo[t] : Past(j)
    /\ pc[t] = "cancel_release" => hand[t] = {arg[t]}
    /\ pc[t] \notin {"persist_ready", "persist_waiting"}

\* The first lock scope of a call about one job: all of them bring no job back.
LEMMA BeginJobCallReturns ==
  ASSUME Owned, NEW c \in Thread, NEW j \in Job, BeginJobCall(c, j)
  PROVE  NothingReturns
<1> USE DEF Owned, TypeOK, SingleOwner, OnlyCreated, Stored, NothingReturns, InPlay, OnTheWay
<1>1. CASE Push(c, j)
  BY <1>1 DEF Push, Take, stores
<1>2. CASE Ack(c, j)
  BY <1>2 DEF Ack, TakeFromProcessing, Take
<1>3. CASE Fail(c, j)
  BY <1>3 DEF Fail, TakeFromProcessing, Take
<1>4. CASE Cancel(c, j)
  BY <1>4 DEF Cancel, stores
<1>5. CASE MoveToDelayed(c, j)
  BY <1>5 DEF MoveToDelayed, TakeFromProcessing, Take
<1>6. CASE Promote(c, j)
  BY <1>6 DEF Promote, stores
<1>7. CASE Discard(c, j)
  BY <1>7 DEF Discard, stores
<1>8. CASE Heartbeat(c, j)
  BY <1>8 DEF Heartbeat, stores, threads
<1> QED BY <1>1, <1>2, <1>3, <1>4, <1>5, <1>6, <1>7, <1>8 DEF BeginJobCall

\* pull and pull_batch bring no job back.
LEMMA BeginPullReturns ==
  ASSUME Owned, NEW c \in Thread, BeginPull(c)
  PROVE  NothingReturns
<1> USE DEF Owned, TypeOK, SingleOwner, OnlyCreated, Stored, NothingReturns, InPlay, OnTheWay
<1>1. ASSUME NEW q \in Queue, NEW n, NEW S, NEW X, Pull(c, q, n, S, X)
      PROVE  NothingReturns
  BY <1>1 DEF Pull, Reachable, Waiting, On, Take
<1> QED BY <1>1 DEF BeginPull

\* The first lock scopes of push_batch and ack_batch bring no job back.
LEMMA BeginBatchCallReturns ==
  ASSUME Owned, NEW c \in Thread, BeginBatchCall(c)
  PROVE  NothingReturns
<1> USE DEF Owned, TypeOK, SingleOwner, OnlyCreated, Stored, NothingReturns, InPlay, OnTheWay
<1>1. ASSUME NEW q \in Queue, NEW S, NEW Accepted, PushBatch(c, q, S, Accepted)
      PROVE  NothingReturns
  BY <1>1 DEF PushBatch, On, Take, stores
<1>2. ASSUME NEW S \in SUBSET Job, AckBatch(c, S)
      PROVE  NothingReturns
  BY <1>2 DEF AckBatch, stores
<1> QED BY <1>1, <1>2 DEF BeginBatchCall

\* The calls about a whole queue bring no job back.
LEMMA BeginQueueCallReturns ==
  ASSUME Owned, NEW c \in Thread, NEW q \in Queue, BeginQueueCall(c, q)
  PROVE  NothingReturns
<1> USE DEF Owned, TypeOK, SingleOwner, OnlyCreated, Stored, NothingReturns, InPlay, OnTheWay
<1>1. ASSUME NEW S, RetryDlq(c, q, S)
      PROVE  NothingReturns
  BY <1>1 DEF RetryDlq, On, threads
<1>2. ASSUME NEW S, CleanFailed(c, q, S)
      PROVE  NothingReturns
  BY <1>2 DEF CleanFailed, On, threads
<1>3. ASSUME NEW S, CleanWaiting(c, q, S)
      PROVE  NothingReturns
  BY <1>3 DEF CleanWaiting, On, threads
<1>4. ASSUME NEW S, CleanCompleted(c, S)
      PROVE  NothingReturns
  BY <1>4 DEF CleanCompleted, threads
<1>5. CASE PurgeDlq(c, q)
  BY <1>5 DEF PurgeDlq, On
<1>6. CASE Drain(c, q)
  BY <1>6 DEF Drain, On, threads
<1>7. CASE Obliterate(c, q)
  BY <1>7 DEF Obliterate, On
<1>8. CASE Pause(c, q)
  BY <1>8 DEF Pause, stores, threads
<1>9. CASE Resume(c, q)
  BY <1>9 DEF Resume, stores, threads
<1>10. CASE ClearConcurrency(c, q)
  BY <1>10 DEF ClearConcurrency, stores, threads
<1>11. ASSUME NEW n \in NewLimits, SetConcurrency(c, q, n)
      PROVE  NothingReturns
  BY <1>11 DEF SetConcurrency, stores, threads
<1> QED BY <1>1, <1>2, <1>3, <1>4, <1>5, <1>6, <1>7, <1>8, <1>9, <1>10,
      <1>11 DEF BeginQueueCall

\* The later lock scopes of the calls bring no job back.
LEMMA AdvanceReturns ==
  ASSUME Owned, NEW c \in Thread, Advance(c)
  PROVE  NothingReturns
<1> USE DEF Owned, TypeOK, SingleOwner, OnlyCreated, Stored, NothingReturns, InPlay, OnTheWay
<1>1. CASE PushDuplicate(c)
  BY <1>1 DEF PushDuplicate, Drop, stores
<1>2. CASE PushInsert(c)
  BY <1>2 DEF PushInsert, Drop
<1>3. CASE PushPersisted(c)
  BY <1>3 DEF PushPersisted, stores
<1>4. CASE PushRollback(c)
  BY <1>4 DEF PushRollback
<1>5. CASE Unindex(c)
  BY <1>5 DEF Unindex, stores
<1>6. CASE PushBatchCheck(c)
  BY <1>6 DEF PushBatchCheck, stores
<1>7. CASE PushBatchInsert(c)
  BY <1>7 DEF PushBatchInsert, Drop
<1>8. ASSUME NEW j \in Job, PullIndex(c, j)
      PROVE  NothingReturns
  BY <1>8 DEF PullIndex, stores
<1>9. ASSUME NEW j \in Job, AckBatchTake(c, j)
      PROVE  NothingReturns
  BY <1>9 DEF AckBatchTake, AckBatchGoesOn, TakeFromProcessing, Take, stores
<1>34. ASSUME NEW j \in Job, AckBatchIndex(c, j)
      PROVE  NothingReturns
  BY <1>34 DEF AckBatchIndex, AckBatchGoesOn, SetIndex, At, stores, resources, fields
<1>10. ASSUME NEW j \in Job, ObliterateRemove(c, j)
      PROVE  NothingReturns
  BY <1>10 DEF ObliterateRemove
<1>11. CASE PullInsert(c)
  BY <1>11 DEF PullInsert, Drop
<1>12. CASE AckRelease(c)
  BY <1>12 DEF AckRelease, stores
<1>13. CASE AckRecord(c)
  BY <1>13 DEF AckRecord, Drop
<1>14. CASE AckIndex(c)
  BY <1>14 DEF AckIndex, stores
<1>15. CASE AckBatchRelease(c)
  BY <1>15 DEF AckBatchRelease, stores
<1>16. CASE AckBatchRecord(c)
  BY <1>16 DEF AckBatchRecord, Drop
<1>17. CASE FailIndex(c)
  BY <1>17 DEF FailIndex, IndexNext, stores
<1>18. CASE FailPlace(c)
  BY <1>18 DEF FailPlace, PlaceNext, Requeue, Drop
<1>19. CASE FailDiscard(c)
  BY <1>19 DEF FailDiscard, Drop, stores
<1>20. CASE FailForget(c)
  BY <1>20 DEF FailForget, stores
<1>21. CASE CancelProcessing(c)
  BY <1>21 DEF CancelProcessing, TakeFromProcessing, Take, stores
<1>22. CASE CancelRelease(c)
  BY <1>22 DEF CancelRelease, Drop, stores
<1>23. CASE CancelWaiting(c)
  BY <1>23 DEF CancelWaiting
<1>24. CASE CancelQueued(c)
  BY <1>24 DEF CancelQueued
<1>25. CASE DelayIndex(c)
  BY <1>25 DEF DelayIndex, stores
<1>26. CASE DelayPlace(c)
  BY <1>26 DEF DelayPlace, Drop
<1>27. CASE PromoteQueued(c)
  BY <1>27 DEF PromoteQueued, stores
<1>28. CASE DiscardQueued(c)
  BY <1>28 DEF DiscardQueued
<1>29. CASE DiscardProcessing(c)
  BY <1>29 DEF DiscardProcessing, TakeFromProcessing, Take, stores
<1>30. CASE DiscardPlace(c)
  BY <1>30 DEF DiscardPlace, Drop
<1>31. CASE DiscardIndex(c)
  BY <1>31 DEF DiscardIndex, stores
<1>32. CASE PurgeUnindex(c)
  BY <1>32 DEF PurgeUnindex, stores
<1>33. CASE ObliterateCollect(c)
  BY <1>33 DEF ObliterateCollect, On, stores
<1> QED BY <1>1, <1>2, <1>3, <1>4, <1>5, <1>6, <1>7, <1>8, <1>9, <1>10, <1>11, <1>12, <1>13,
      <1>14, <1>15, <1>16, <1>17, <1>18, <1>19, <1>20, <1>21, <1>22, <1>23, <1>24, <1>25,
      <1>26, <1>27, <1>28, <1>29, <1>30, <1>31, <1>32, <1>33, <1>34 DEF Advance

\* The scans of the background task bring no job back.
LEMMA TickReturns ==
  ASSUME Owned, NEW b \in Thread, Tick(b)
  PROVE  NothingReturns
<1> USE DEF Owned, TypeOK, SingleOwner, OnlyCreated, Stored, NothingReturns, InPlay, OnTheWay
<1>1. ASSUME NEW S, TimeoutScan(b, S)
      PROVE  NothingReturns
  BY <1>1 DEF TimeoutScan, stores
<1>2. ASSUME NEW S, StallScan(b, S)
      PROVE  NothingReturns
  BY <1>2 DEF StallScan, stores
<1>3. CASE DepsScan(b)
  BY <1>3 DEF DepsScan, stores
<1>4. ASSUME NEW S, CleanupScan(b, S)
      PROVE  NothingReturns
  BY <1>4 DEF CleanupScan, stores
<1> QED BY <1>1, <1>2, <1>3, <1>4 DEF Tick

\* What the background task does with the ids it collected: its steps bring no job back.
LEMMA AdvanceTickReturns ==
  ASSUME Owned, NEW b \in Thread, AdvanceTick(b)
  PROVE  NothingReturns
<1> USE DEF Owned, TypeOK, SingleOwner, OnlyCreated, Stored, NothingReturns, InPlay, OnTheWay
<1>1. ASSUME NEW j \in Job, TimeoutTake(b, j)
      PROVE  NothingReturns
  BY <1>1 DEF TimeoutTake, TakeFromProcessing, Take, stores
<1>2. ASSUME NEW j \in Job, StallCount(b, j)
      PROVE  NothingReturns
  BY <1>2 DEF StallCount, stores
<1>3. CASE TimeoutRelease(b)
  BY <1>3 DEF TimeoutRelease, stores
<1>4. CASE TimeoutIndex(b)
  BY <1>4 DEF TimeoutIndex, IndexNext, stores
<1>5. CASE TimeoutPlace(b)
  BY <1>5 DEF TimeoutPlace, PlaceNext, Requeue, Drop
<1>6. CASE StallRemove(b)
  BY <1>6 DEF StallRemove, TakeFromProcessing, Take, stores
<1>7. CASE StallIndex(b)
  BY <1>7 DEF StallIndex, stores
<1>8. CASE StallPlace(b)
  BY <1>8 DEF StallPlace, Drop
<1>9. CASE DepsMove(b)
  BY <1>9 DEF DepsMove
<1>10. CASE CleanupUnindex(b)
  BY <1>10 DEF CleanupUnindex, stores
<1>11. CASE CleanupRemove(b)
  BY <1>11 DEF CleanupRemove
<1> QED BY <1>1, <1>2, <1>3, <1>4, <1>5, <1>6, <1>7, <1>8, <1>9, <1>10,
      <1>11 DEF AdvanceTick

\* The passing of time: its steps bring no job back.
LEMMA ClockReturns ==
  ASSUME Owned, Clock
  PROVE  NothingReturns
<1> USE DEF Owned, TypeOK, SingleOwner, OnlyCreated, Stored, NothingReturns, InPlay, OnTheWay
<1>1. ASSUME NEW j \in Job, BecomesDue(j)
      PROVE  NothingReturns
  BY <1>1 DEF BecomesDue, stores, threads
<1>2. ASSUME NEW j \in Job, Expires(j)
      PROVE  NothingReturns
  BY <1>2 DEF Expires, stores, threads
<1> QED BY <1>1, <1>2 DEF Clock

\* No step of any thread brings a job back: what is past or gone stays so.
LEMMA PastStays ==
  ASSUME Owned, [Next]_vars
  PROVE  \A j : (Past(j) => Past(j)') /\ (Gone(j) => Gone(j)')
<1>1. ASSUME NEW c \in Client, Begin(c) PROVE NothingReturns
  BY <1>1, BeginJobCallReturns, BeginPullReturns, BeginBatchCallReturns,
     BeginQueueCallReturns DEF Begin, Thread
<1>2. ASSUME NEW c \in Client, Advance(c) PROVE NothingReturns
  BY <1>2, AdvanceReturns DEF Thread
<1>3. ASSUME Tick(Background) PROVE NothingReturns
  BY <1>3, TickReturns DEF Thread
<1>4. ASSUME AdvanceTick(Background) PROVE NothingReturns
  BY <1>4, AdvanceTickReturns DEF Thread
<1>5. ASSUME Clock PROVE NothingReturns
  BY <1>5, ClockReturns
<1>6. ASSUME UNCHANGED vars PROVE NothingReturns
  BY <1>6 DEF NothingReturns, InPlay, OnTheWay, vars, stores, threads
<1>7. NothingReturns
  BY <1>1, <1>2, <1>3, <1>4, <1>5, <1>6 DEF Next
<1> QED BY <1>7 DEF NothingReturns, Past, Gone


\* A completed job is past.
LEMMA CompletedIsPast == Owned => \A j \in completed : Past(j)
BY DEF Owned, TypeOK, SingleOwner, OnlyCreated, Stored, Past, InPlay, OnTheWay

\* So is a job that the one thread that had it in hand has let go ...
LEMMA LetGo ==
  ASSUME Owned, NEW t \in Thread, NEW j \in Job, hand[t] = {j}, Drop(t, {j}),
         UNCHANGED <<queued, processing, waitingDeps, dlq, created>>
  PROVE  Past(j)' /\ (completed' = completed => Gone(j)')
<1>1. hand' = [hand EXCEPT ![t] = {}]
  BY DEF Drop
<1> QED
  BY <1>1 DEF Owned, TypeOK, SingleOwner, OnlyCreated, Stored, Past, Gone, InPlay, OnTheWay

\* ... and a job withdrawn from the one container it was in.
LEMMA Withdrawn ==
  ASSUME Owned, NEW j \in Stored, j \notin Stored', UNCHANGED <<hand, created>>
  PROVE  Gone(j)'
BY DEF Owned, TypeOK, SingleOwner, OnlyCreated, Stored, Past, Gone, InPlay, OnTheWay

\* The first lock scope of a call about one job: all of them keep Errands.
LEMMA BeginJobCallErrands ==
  ASSUME Owned, HandShape, Errands, ~SyncPersistence,
         \A i : (Past(i) => Past(i)') /\ (Gone(i) => Gone(i)'),
         NEW c \in Thread, NEW j \in Job, BeginJobCall(c, j)
  PROVE  Errands'
<1> USE DEF Owned, TypeOK, ControlOK, HandShape, EmptyHanded, OneHanded, Errands, Cleaning
<1>1. CASE Push(c, j)
  BY <1>1 DEF Push, Idle, Take, Goto
<1>2. CASE Ack(c, j)
  BY <1>2 DEF Ack, Idle, TakeFromProcessing, Take, Goto
<1>3. CASE Fail(c, j)
  BY <1>3 DEF Fail, Idle, TakeFromProcessing, Take, Goto
<1>4. CASE Cancel(c, j)
  BY <1>4 DEF Cancel, Idle, GotoWith
<1>5. CASE MoveToDelayed(c, j)
  BY <1>5 DEF MoveToDelayed, Idle, TakeFromProcessing, Take, Goto
<1>6. CASE Promote(c, j)
  BY <1>6 DEF Promote, Idle, GotoWith
<1>7. CASE Discard(c, j)
  BY <1>7 DEF Discard, Idle, GotoWith
<1>8. CASE Heartbeat(c, j)
  BY <1>8 DEF Heartbeat, Idle, threads
<1> QED BY <1>1, <1>2, <1>3, <1>4, <1>5, <1>6, <1>7, <1>8 DEF BeginJobCall

\* pull and pull_batch keep Errands.
LEMMA BeginPullErrands ==
  ASSUME Owned, HandShape, Errands, ~SyncPersistence,
         \A i : (Past(i) => Past(i)') /\ (Gone(i) => Gone(i)'), NEW c \in Thread, BeginPull(c)
  PROVE  Errands'
<1> USE DEF Owned, TypeOK, ControlOK, HandShape, EmptyHanded, OneHanded, Errands, Cleaning
<1>1. ASSUME NEW q \in Queue, NEW n, NEW S, NEW X, Pull(c, q, n, S, X)
      PROVE  Errands'
  BY <1>1 DEF Pull, Idle, Take, Return, Goto
<1> QED BY <1>1 DEF BeginPull

\* The first lock scopes of push_batch and ack_batch keep Errands.
LEMMA BeginBatchCallErrands ==
  ASSUME Owned, HandShape, Errands, ~SyncPersistence,
         \A i : (Past(i) => Past(i)') /\ (Gone(i) => Gone(i)'),
         NEW c \in Thread, BeginBatchCall(c)
  PROVE  Errands'
<1> USE DEF Owned, TypeOK, ControlOK, HandShape, EmptyHanded, OneHanded, Errands, Cleaning
<1>1. ASSUME NEW q \in Queue, NEW S, NEW Accepted, PushBatch(c, q, S, Accepted)
      PROVE  Errands'
  BY <1>1 DEF PushBatch, Idle, Take, Return, Goto
<1>2. ASSUME NEW S \in SUBSET Job, AckBatch(c, S)
      PROVE  Errands'
  BY <1>2 DEF AckBatch, Idle, GotoEach
<1> QED BY <1>1, <1>2 DEF BeginBatchCall

\* The calls about a whole queue keep Errands.
LEMMA BeginQueueCallErrands ==
  ASSUME Owned, HandShape, Errands, ~SyncPersistence,
         \A i : (Past(i) => Past(i)') /\ (Gone(i) => Gone(i)'),
         NEW c \in Thread, NEW q \in Queue, BeginQueueCall(c, q)
  PROVE  Errands'
<1> USE DEF Owned, TypeOK, ControlOK, HandShape, EmptyHanded, OneHanded, Errands, Cleaning
<1>1. ASSUME NEW S, RetryDlq(c, q, S)
      PROVE  Errands'
  BY <1>1 DEF RetryDlq, Idle, threads
<1>2. ASSUME NEW S, CleanFailed(c, q, S)
      PROVE  Errands'
  BY <1>2 DEF CleanFailed, Idle, threads
<1>3. ASSUME NEW S, CleanWaiting(c, q, S)
      PROVE  Errands'
  BY <1>3 DEF CleanWaiting, Idle, threads
<1>4. ASSUME NEW S, CleanCompleted(c, S)
      PROVE  Errands'
  BY <1>4 DEF CleanCompleted, Idle, threads
<1>5. CASE PurgeDlq(c, q)
  <2>1. ASSUME NEW j \in On(q, dlq) PROVE Gone(j)'
    <3>1. j \in Stored /\ j \notin Stored' /\ UNCHANGED <<hand, created>>
      BY <1>5, <2>1 DEF PurgeDlq, On, Stored, SingleOwner
    <3> QED BY <3>1, Withdrawn
  <2> QED BY <1>5, <2>1 DEF PurgeDlq, Idle, GotoEach
<1>6. CASE Drain(c, q)
  BY <1>6 DEF Drain, Idle, threads
<1>7. CASE Obliterate(c, q)
  BY <1>7 DEF Obliterate, Idle, GotoWith
<1>8. CASE Pause(c, q)
  BY <1>8 DEF Pause, Idle, threads
<1>9. CASE Resume(c, q)
  BY <1>9 DEF Resume, Idle, threads
<1>10. CASE ClearConcurrency(c, q)
  BY <1>10 DEF ClearConcurrency, Idle, threads
<1>11. ASSUME NEW n \in NewLimits, SetConcurrency(c, q, n)
      PROVE  Errands'
  BY <1>11 DEF SetConcurrency, Idle, threads
<1> QED BY <1>1, <1>2, <1>3, <1>4, <1>5, <1>6, <1>7, <1>8, <1>9, <1>10,
      <1>11 DEF BeginQueueCall

\* The later lock scopes of the calls keep Errands.
LEMMA AdvanceErrands ==
  ASSUME Owned, HandShape, Errands, ~SyncPersistence,
         \A i : (Past(i) => Past(i)') /\ (Gone(i) => Gone(i)'), NEW c \in Thread, Advance(c)
  PROVE  Errands'
<1> USE DEF Owned, TypeOK, ControlOK, HandShape, EmptyHanded, OneHanded, Errands, Cleaning
<1>1. CASE PushDuplicate(c)
  BY <1>1 DEF PushDuplicate, Drop, Return
<1>2. CASE PushInsert(c)
  BY <1>2 DEF PushInsert, Drop, At, GotoWith, Return
<1>3. CASE PushPersisted(c)
  BY <1>3 DEF PushPersisted, Return
<1>4. CASE PushRollback(c)
  BY <1>4 DEF PushRollback, At, Goto
<1>5. CASE Unindex(c)
  BY <1>5 DEF Unindex, At, Return
<1>6. CASE PushBatchCheck(c)
  BY <1>6 DEF PushBatchCheck, At, GotoEach
<1>7. CASE PushBatchInsert(c)
  BY <1>7 DEF PushBatchInsert, At, Drop, Return
<1>8. ASSUME NEW j \in Job, PullIndex(c, j)
      PROVE  Errands'
  BY <1>8 DEF PullIndex, At, GotoWith
<1>9. ASSUME NEW j \in Job, AckBatchTake(c, j)
      PROVE  Errands'
  BY <1>9 DEF AckBatchTake, AckBatchGoesOn, At, TakeFromProcessing, Take
<1>34. ASSUME NEW j \in Job, AckBatchIndex(c, j)
      PROVE  Errands'
  BY <1>34 DEF AckBatchIndex, AckBatchGoesOn, SetIndex, At, stores, resources, fields
<1>10. ASSUME NEW j \in Job, ObliterateRemove(c, j)
      PROVE  Errands'
  BY <1>10 DEF ObliterateRemove, At, Continue, Return, GotoEach
<1>11. CASE PullInsert(c)
  BY <1>11 DEF PullInsert, At, Drop, Return, Goto
<1>12. CASE AckRelease(c)
  BY <1>12 DEF AckRelease, At, Goto
<1>13. CASE AckRecord(c)
  <2>1. PICK j \in Job : hand[c] = {j}
    BY <1>13 DEF AckRecord, At
  <2>2. Past(j)'
    BY <1>13, <2>1, LetGo DEF AckRecord
  <2> QED BY <1>13, <2>1, <2>2 DEF AckRecord, At, Drop, Return, GotoWith
<1>14. CASE AckIndex(c)
  BY <1>14 DEF AckIndex, At, Return
<1>15. CASE AckBatchRelease(c)
  BY <1>15 DEF AckBatchRelease, At, Goto
<1>16. CASE AckBatchRecord(c)
  BY <1>16 DEF AckBatchRecord, At, Drop, Return
<1>17. CASE FailIndex(c)
  BY <1>17 DEF FailIndex, IndexNext, At, Goto
<1>18. CASE FailPlace(c)
  BY <1>18 DEF FailPlace, At, Drop, Return
<1>19. CASE FailDiscard(c)
  <2>1. PICK j \in Job : hand[c] = {j}
    BY <1>19 DEF FailDiscard, At
  <2>2. Gone(j)'
    BY <1>19, <2>1, LetGo DEF FailDiscard, stores
  <2> QED BY <1>19, <2>1, <2>2 DEF FailDiscard, At, Drop, GotoWith
<1>20. CASE FailForget(c)
  BY <1>20 DEF FailForget, At, Return
<1>21. CASE CancelProcessing(c)
  BY <1>21 DEF CancelProcessing, At, TakeFromProcessing, Take, Goto, Return
<1>22. CASE CancelRelease(c)
  <2>1. PICK j \in Job : hand[c] = {j} /\ arg[c] = j
    BY <1>22 DEF CancelRelease, At
  <2>2. Gone(j)'
    BY <1>22, <2>1, LetGo DEF CancelRelease, stores
  <2> QED BY <1>22, <2>1, <2>2 DEF CancelRelease, At, Drop, Goto
<1>23. CASE CancelWaiting(c)
  <2>1. ASSUME NEW j \in waitingDeps \cap {arg[c]} PROVE Gone(j)'
    <3>1. j \in Stored /\ j \notin Stored' /\ UNCHANGED <<hand, created>>
      BY <1>23, <2>1 DEF CancelWaiting, Stored, SingleOwner
    <3> QED BY <3>1, Withdrawn
  <2> QED BY <1>23, <2>1 DEF CancelWaiting, At, Goto, Return
<1>24. CASE CancelQueued(c)
  <2>1. ASSUME NEW j \in queued \cap {arg[c]} PROVE Gone(j)'
    <3>1. j \in Stored /\ j \notin Stored' /\ UNCHANGED <<hand, created>>
      BY <1>24, <2>1 DEF CancelQueued, Stored, SingleOwner
    <3> QED BY <3>1, Withdrawn
  <2> QED BY <1>24, <2>1 DEF CancelQueued, At, Goto, Return
<1>25. CASE DelayIndex(c)
  BY <1>25 DEF DelayIndex, At, Goto
<1>26. CASE DelayPlace(c)
  BY <1>26 DEF DelayPlace, At, Drop, Return
<1>27. CASE PromoteQueued(c)
  BY <1>27 DEF PromoteQueued, At, Return
<1>28. CASE DiscardQueued(c)
  BY <1>28 DEF DiscardQueued, At, Return
<1>29. CASE DiscardProcessing(c)
  BY <1>29 DEF DiscardProcessing, At, TakeFromProcessing, Take, Goto, Return
<1>30. CASE DiscardPlace(c)
  BY <1>30 DEF DiscardPlace, At, Drop, Goto
<1>31. CASE DiscardIndex(c)
  BY <1>31 DEF DiscardIndex, At, Return
<1>32. CASE PurgeUnindex(c)
  BY <1>32 DEF PurgeUnindex, At, Return
<1>33. CASE ObliterateCollect(c)
  BY <1>33 DEF ObliterateCollect, At, Continue, Return, GotoEach
<1> QED BY <1>1, <1>2, <1>3, <1>4, <1>5, <1>6, <1>7, <1>8, <1>9, <1>10, <1>11, <1>12, <1>13,
      <1>14, <1>15, <1>16, <1>17, <1>18, <1>19, <1>20, <1>21, <1>22, <1>23, <1>24, <1>25,
      <1>26, <1>27, <1>28, <1>29, <1>30, <1>31, <1>32, <1>33, <1>34 DEF Advance

\* The scans of the background task keep Errands.
LEMMA TickErrands ==
  ASSUME Owned, HandShape, Errands, ~SyncPersistence,
         \A i : (Past(i) => Past(i)') /\ (Gone(i) => Gone(i)'), NEW b \in Thread, Tick(b)
  PROVE  Errands'
<1> USE DEF Owned, TypeOK, ControlOK, HandShape, EmptyHanded, OneHanded, Errands, Cleaning
<1>1. ASSUME NEW S, TimeoutScan(b, S)
      PROVE  Errands'
  BY <1>1 DEF TimeoutScan, Idle, GotoEach
<1>2. ASSUME NEW S, StallScan(b, S)
      PROVE  Errands'
  BY <1>2 DEF StallScan, Idle, GotoEach
<1>3. CASE DepsScan(b)
  BY <1>3 DEF DepsScan, Idle, GotoEach
<1>4. ASSUME NEW S, CleanupScan(b, S)
      PROVE  Errands'
  <2>1. \A j \in S : Past(j)'
    BY <1>4, CompletedIsPast DEF CleanupScan
  <2> QED BY <1>4, <2>1 DEF CleanupScan, Idle, GotoEach
<1> QED BY <1>1, <1>2, <1>3, <1>4 DEF Tick

\* What the background task does with the ids it collected: its steps keep Errands.
LEMMA AdvanceTickErrands ==
  ASSUME Owned, HandShape, Errands, ~SyncPersistence,
         \A i : (Past(i) => Past(i)') /\ (Gone(i) => Gone(i)'), NEW b \in Thread, AdvanceTick(b)
  PROVE  Errands'
<1> USE DEF Owned, TypeOK, ControlOK, HandShape, EmptyHanded, OneHanded, Errands, Cleaning
<1>1. ASSUME NEW j \in Job, TimeoutTake(b, j)
      PROVE  Errands'
  BY <1>1 DEF TimeoutTake, At, TakeFromProcessing, Take, GotoEach, Continue, Return
<1>2. ASSUME NEW j \in Job, StallCount(b, j)
      PROVE  Errands'
  BY <1>2 DEF StallCount, At, Continue, Return, GotoEach
<1>3. CASE TimeoutRelease(b)
  BY <1>3 DEF TimeoutRelease, At, Goto
<1>4. CASE TimeoutIndex(b)
  BY <1>4 DEF TimeoutIndex, IndexNext, At, Goto
<1>5. CASE TimeoutPlace(b)
  BY <1>5 DEF TimeoutPlace, At, Drop, Continue, Return, GotoEach
<1>6. CASE StallRemove(b)
  BY <1>6 DEF StallRemove, At, TakeFromProcessing, Take, Goto, Continue, Return, GotoEach
<1>7. CASE StallIndex(b)
  BY <1>7 DEF StallIndex, At, Goto
<1>8. CASE StallPlace(b)
  BY <1>8 DEF StallPlace, At, Drop, Continue, Return, GotoEach
<1>9. CASE DepsMove(b)
  BY <1>9 DEF DepsMove, At, Return
<1>10. CASE CleanupUnindex(b)
  BY <1>10 DEF CleanupUnindex, At, Goto
<1>11. CASE CleanupRemove(b)
  BY <1>11 DEF CleanupRemove, At, Return
<1> QED BY <1>1, <1>2, <1>3, <1>4, <1>5, <1>6, <1>7, <1>8, <1>9, <1>10,
      <1>11 DEF AdvanceTick

\* The passing of time: its steps keep Errands.
LEMMA ClockErrands ==
  ASSUME Owned, HandShape, Errands, ~SyncPersistence,
         \A i : (Past(i) => Past(i)') /\ (Gone(i) => Gone(i)'), Clock
  PROVE  Errands'
<1> USE DEF Owned, TypeOK, ControlOK, HandShape, EmptyHanded, OneHanded, Errands, Cleaning
<1>1. ASSUME NEW j \in Job, BecomesDue(j)
      PROVE  Errands'
  BY <1>1 DEF BecomesDue, threads
<1>2. ASSUME NEW j \in Job, Expires(j)
      PROVE  Errands'
  BY <1>2 DEF Expires, threads
<1> QED BY <1>1, <1>2 DEF Clock

\* Nothing is about to be erased at the start.
LEMMA InitErrands == Init => Errands
BY DEF Init, Errands, Cleaning

\* Every step keeps Errands, as it keeps past jobs past.
LEMMA NextErrands ==
  ASSUME ~SyncPersistence, Owned, HandShape, Errands, [Next]_vars
  PROVE  Errands'
<1>0. \A i : (Past(i) => Past(i)') /\ (Gone(i) => Gone(i)')
  BY PastStays
<1>1. ASSUME NEW c \in Client, Begin(c) PROVE Errands'
  BY <1>0, <1>1, BeginJobCallErrands, BeginPullErrands, BeginBatchCallErrands,
     BeginQueueCallErrands DEF Begin, Thread
<1>2. ASSUME NEW c \in Client, Advance(c) PROVE Errands'
  BY <1>0, <1>2, AdvanceErrands DEF Thread
<1>3. CASE Tick(Background)
  BY <1>0, <1>3, TickErrands DEF Thread
<1>4. CASE AdvanceTick(Background)
  BY <1>0, <1>4, AdvanceTickErrands DEF Thread
<1>5. CASE Clock
  BY <1>0, <1>5, ClockErrands
<1>6. CASE UNCHANGED vars
  BY <1>0, <1>6 DEF Errands, vars, threads
<1> QED BY <1>1, <1>2, <1>3, <1>4, <1>5, <1>6 DEF Next

\* When a call erases the index entry of the job it withdrew, the job is nowhere in
\* the engine, although the two happen in different lock scopes: for any number of
\* threads and every operation, as long as push does not wait for the database.
THEOREM ErasedJobsAreGone ==
  ASSUME ~SyncPersistence
  PROVE  Spec => []UnindexedIsGone
<1>1. Errands => UnindexedIsGone
  BY DEF Errands, UnindexedIsGone, Gone, Past, InPlay, OnTheWay, Thread
<1>2. Init => Owned /\ HandShape /\ Errands
  BY InitOwned, InitHand, InitErrands
<1>3. Owned /\ HandShape /\ Errands /\ [Next]_vars => (Owned /\ HandShape /\ Errands)'
  BY ~SyncPersistence, NextOwned, NextHand, NextErrands DEF Owned
<1> QED BY <1>1, <1>2, <1>3, PTL DEF Spec

-----------------------------------------------------------------------------
(* With that, the index is right whenever no call is in flight, although    *)
(* hardly any operation moves a job and its entry in one lock scope: some   *)
(* write the entry before the job arrives, some after.                      *)

\* Without the operations that leave entries behind: the dependency scan never
\* updates them, discard and obliterate write them after others may have.
EntriesFollow == {"deps", "discard", "obliterate"} \cap Calls = {}
Straying ==
  {"deps_move", "discard_processing", "discard_place", "discard_index", "discard_queued",
   "obliterate_collect", "obliterate_remove"}

\* A thread that holds j has written where j is going to be.
Announced(t, j) ==
  /\ pc[t] \in {"fail_place", "timeout_place"} =>
       index[j] = IF Exhausted(j) THEN "dlq" ELSE "queue"
  /\ pc[t] = "delay_place" => index[j] = "queue"
  /\ pc[t] = "stall_place" => index[j] = "dlq"
  /\ \/ pc[t] \in {"acks_release", "acks_record"}
     \/ pc[t] = "acks_take" /\ j \notin todo[t]
     => (j \notin RemoveOnComplete => index[j] = "completed")
  /\ pc[t] = "pull_insert" /\ j = arg[t] => index[j] = "processing"

HandsTold == \A t \in Thread : pc[t] \notin Straying /\ \A j \in hand[t] : Announced(t, j)

\* IndexAgreement, at any moment, for the jobs in play ...
PlacesTold ==
  /\ \A j \in queued : index[j] = "queue"
  /\ \A j \in processing : index[j] = "processing"
  /\ \A j \in waitingDeps : index[j] = "waiting_deps"
  /\ \A j \in dlq : index[j] = "dlq"

\* ... and for the others: the entry of a completed job is written after the job
\* is recorded, and erased before.
Recorded(j) ==
  \/ index[j] = "completed"
  \/ \E t \in Thread : pc[t] = "ack_index" /\ arg[t] = j
  \/ \E t \in Thread : pc[t] = "cleanup_remove" /\ j \in todo[t]

RecordsTold == \A j \in completed : Recorded(j)

\* Errands, for the containers and the hands.
NotMeant(j) ==
  /\ j \notin queued \cup processing \cup waitingDeps \cup dlq
  /\ \A t \in Thread : j \notin hand[t]
Harmless ==
  \A t \in Thread :
    /\ pc[t] \in {"unindex", "fail_forget"} => NotMeant(arg[t]) /\ arg[t] \notin completed
    /\ pc[t] = "purge_unindex" => \A j \in todo[t] : NotMeant(j) /\ j \notin completed
    /\ pc[t] = "ack_index" => NotMeant(arg[t])
    /\ pc[t] = "cleanup_unindex" => \A j \in todo[t] : NotMeant(j)

\* The first lock scope of a call about one job: all of them keep PlacesTold.
LEMMA BeginJobCallPlaces ==
  ASSUME Owned, HandShape, Harmless, HandsTold, PlacesTold, RecordsTold,
         EntriesFollow, ~SyncPersistence, NEW c \in Thread, NEW j \in Job, BeginJobCall(c, j)
  PROVE  PlacesTold'
<1> USE DEF TypeOK, ControlOK, Owned, SingleOwner, HandShape, EmptyHanded, OneHanded, PlacesTold
<1>1. CASE Push(c, j)
  BY <1>1 DEF Push, stores
<1>2. CASE Ack(c, j)
  BY <1>2 DEF Ack, TakeFromProcessing
<1>3. CASE Fail(c, j)
  BY <1>3 DEF Fail, TakeFromProcessing
<1>4. CASE Cancel(c, j)
  BY <1>4 DEF Cancel, stores
<1>5. CASE MoveToDelayed(c, j)
  BY <1>5 DEF MoveToDelayed, TakeFromProcessing
<1>6. CASE Promote(c, j)
  BY <1>6 DEF Promote, stores
<1>7. CASE Discard(c, j)
  BY <1>7 DEF Discard, stores
<1>8. CASE Heartbeat(c, j)
  BY <1>8 DEF Heartbeat, stores
<1> QED BY <1>1, <1>2, <1>3, <1>4, <1>5, <1>6, <1>7, <1>8 DEF BeginJobCall

\* pull and pull_batch keep PlacesTold.
LEMMA BeginPullPlaces ==
  ASSUME Owned, HandShape, Harmless, HandsTold, PlacesTold, RecordsTold,
         EntriesFollow, ~SyncPersistence, NEW c \in Thread, BeginPull(c)
  PROVE  PlacesTold'
<1> USE DEF TypeOK, ControlOK, Owned, SingleOwner, HandShape, EmptyHanded, OneHanded, PlacesTold
<1>1. ASSUME NEW q \in Queue, NEW n, NEW S, NEW X, Pull(c, q, n, S, X)
      PROVE  PlacesTold'
  BY <1>1 DEF Pull, On
<1> QED BY <1>1 DEF BeginPull

\* The first lock scopes of push_batch and ack_batch keep PlacesTold.
LEMMA BeginBatchCallPlaces ==
  ASSUME Owned, HandShape, Harmless, HandsTold, PlacesTold, RecordsTold,
         EntriesFollow, ~SyncPersistence, NEW c \in Thread, BeginBatchCall(c)
  PROVE  PlacesTold'
<1> USE DEF TypeOK, ControlOK, Owned, SingleOwner, HandShape, EmptyHanded, OneHanded, PlacesTold
<1>1. ASSUME NEW q \in Queue, NEW S, NEW Accepted, PushBatch(c, q, S, Accepted)
      PROVE  PlacesTold'
  BY <1>1 DEF PushBatch, On, stores
<1>2. ASSUME NEW S \in SUBSET Job, AckBatch(c, S)
      PROVE  PlacesTold'
  BY <1>2 DEF AckBatch, stores
<1> QED BY <1>1, <1>2 DEF BeginBatchCall

\* The calls about a whole queue keep PlacesTold.
LEMMA BeginQueueCallPlaces ==
  ASSUME Owned, HandShape, Harmless, HandsTold, PlacesTold, RecordsTold,
         EntriesFollow, ~SyncPersistence, NEW c \in Thread, NEW q \in Queue, BeginQueueCall(c, q)
  PROVE  PlacesTold'
<1> USE DEF TypeOK, ControlOK, Owned, SingleOwner, HandShape, EmptyHanded, OneHanded, PlacesTold
<1>1. ASSUME NEW S, RetryDlq(c, q, S)
      PROVE  PlacesTold'
  BY <1>1 DEF RetryDlq, On, SetIndex
<1>2. ASSUME NEW S, CleanFailed(c, q, S)
      PROVE  PlacesTold'
  BY <1>2 DEF CleanFailed, On, SetIndex
<1>3. ASSUME NEW S, CleanWaiting(c, q, S)
      PROVE  PlacesTold'
  BY <1>3 DEF CleanWaiting, On, SetIndex
<1>4. ASSUME NEW S, CleanCompleted(c, S)
      PROVE  PlacesTold'
  BY <1>4 DEF CleanCompleted, SetIndex
<1>5. CASE PurgeDlq(c, q)
  BY <1>5 DEF PurgeDlq, On
<1>6. CASE Drain(c, q)
  BY <1>6 DEF Drain, On, SetIndex
<1>7. CASE Obliterate(c, q)
  BY <1>7 DEF Obliterate, On, SetIndex, Idle, EntriesFollow
<1>8. CASE Pause(c, q)
  BY <1>8 DEF Pause, stores
<1>9. CASE Resume(c, q)
  BY <1>9 DEF Resume, stores
<1>10. CASE ClearConcurrency(c, q)
  BY <1>10 DEF ClearConcurrency, stores
<1>11. ASSUME NEW n \in NewLimits, SetConcurrency(c, q, n)
      PROVE  PlacesTold'
  BY <1>11 DEF SetConcurrency, stores
<1> QED BY <1>1, <1>2, <1>3, <1>4, <1>5, <1>6, <1>7, <1>8, <1>9, <1>10,
      <1>11 DEF BeginQueueCall

\* The later lock scopes of the calls keep PlacesTold.
LEMMA AdvancePlaces ==
  ASSUME Owned, HandShape, Harmless, HandsTold, PlacesTold, RecordsTold,
         EntriesFollow, ~SyncPersistence, NEW c \in Thread, Advance(c)
  PROVE  PlacesTold'
<1> USE DEF TypeOK, ControlOK, Owned, SingleOwner, HandShape, EmptyHanded, OneHanded, PlacesTold
<1>1. CASE PushDuplicate(c)
  BY <1>1 DEF PushDuplicate, stores
<1>2. CASE PushInsert(c)
  BY <1>2 DEF PushInsert, At, SetIndex
<1>3. CASE PushPersisted(c)
  BY <1>3 DEF PushPersisted, stores
<1>4. CASE PushRollback(c)
  BY <1>4 DEF PushRollback, At
<1>5. CASE Unindex(c)
  BY <1>5 DEF Unindex, At, SetIndex, stores, Harmless, NotMeant
<1>6. CASE PushBatchCheck(c)
  BY <1>6 DEF PushBatchCheck, At, stores
<1>7. CASE PushBatchInsert(c)
  BY <1>7 DEF PushBatchInsert, At
<1>8. ASSUME NEW j \in Job, PullIndex(c, j)
      PROVE  PlacesTold'
  BY <1>8 DEF PullIndex, At, SetIndex, stores
<1>9. ASSUME NEW j \in Job, AckBatchTake(c, j)
      PROVE  PlacesTold'
  BY <1>9 DEF AckBatchTake, AckBatchGoesOn, At, TakeFromProcessing, SetIndex, stores
<1>34. ASSUME NEW j \in Job, AckBatchIndex(c, j)
      PROVE  PlacesTold'
  BY <1>34 DEF AckBatchIndex, AckBatchGoesOn, SetIndex, At, stores, resources, fields
<1>10. ASSUME NEW j \in Job, ObliterateRemove(c, j)
      PROVE  PlacesTold'
  BY <1>10 DEF ObliterateRemove, At, SetIndex, Straying, HandsTold
<1>11. CASE PullInsert(c)
  BY <1>11 DEF PullInsert, At, HandsTold, Announced
<1>12. CASE AckRelease(c)
  BY <1>12 DEF AckRelease, At, stores
<1>13. CASE AckRecord(c)
  BY <1>13 DEF AckRecord, At, SetIndex
<1>14. CASE AckIndex(c)
  BY <1>14 DEF AckIndex, At, SetIndex, stores, Harmless, NotMeant
<1>15. CASE AckBatchRelease(c)
  BY <1>15 DEF AckBatchRelease, At, stores
<1>16. CASE AckBatchRecord(c)
  BY <1>16 DEF AckBatchRecord, At
<1>17. CASE FailIndex(c)
  BY <1>17 DEF FailIndex, IndexNext, At, SetIndex, stores
<1>18. CASE FailPlace(c)
  BY <1>18 DEF FailPlace, At, PlaceNext, Requeue, HandsTold, Announced
<1>19. CASE FailDiscard(c)
  BY <1>19 DEF FailDiscard, At, stores
<1>20. CASE FailForget(c)
  BY <1>20 DEF FailForget, At, SetIndex, stores, Harmless, NotMeant
<1>21. CASE CancelProcessing(c)
  BY <1>21 DEF CancelProcessing, At, TakeFromProcessing, stores
<1>22. CASE CancelRelease(c)
  BY <1>22 DEF CancelRelease, At, stores
<1>23. CASE CancelWaiting(c)
  BY <1>23 DEF CancelWaiting, At
<1>24. CASE CancelQueued(c)
  BY <1>24 DEF CancelQueued, At
<1>25. CASE DelayIndex(c)
  BY <1>25 DEF DelayIndex, At, SetIndex, stores
<1>26. CASE DelayPlace(c)
  BY <1>26 DEF DelayPlace, At, HandsTold, Announced
<1>27. CASE PromoteQueued(c)
  BY <1>27 DEF PromoteQueued, At, stores
<1>28. CASE DiscardQueued(c)
  BY <1>28 DEF DiscardQueued, At, SetIndex, Straying, HandsTold
<1>29. CASE DiscardProcessing(c)
  BY <1>29 DEF DiscardProcessing, At, TakeFromProcessing, stores
<1>30. CASE DiscardPlace(c)
  BY <1>30 DEF DiscardPlace, At, Straying, HandsTold
<1>31. CASE DiscardIndex(c)
  BY <1>31 DEF DiscardIndex, At, SetIndex, stores, Straying, HandsTold
<1>32. CASE PurgeUnindex(c)
  BY <1>32 DEF PurgeUnindex, At, SetIndex, stores, Harmless, NotMeant
<1>33. CASE ObliterateCollect(c)
  BY <1>33 DEF ObliterateCollect, At, On, stores
<1> QED BY <1>1, <1>2, <1>3, <1>4, <1>5, <1>6, <1>7, <1>8, <1>9, <1>10, <1>11, <1>12, <1>13,
      <1>14, <1>15, <1>16, <1>17, <1>18, <1>19, <1>20, <1>21, <1>22, <1>23, <1>24, <1>25,
      <1>26, <1>27, <1>28, <1>29, <1>30, <1>31, <1>32, <1>33, <1>34 DEF Advance

\* The scans of the background task keep PlacesTold.
LEMMA TickPlaces ==
  ASSUME Owned, HandShape, Harmless, HandsTold, PlacesTold, RecordsTold,
         EntriesFollow, ~SyncPersistence, NEW b \in Thread, Tick(b)
  PROVE  PlacesTold'
<1> USE DEF TypeOK, ControlOK, Owned, SingleOwner, HandShape, EmptyHanded, OneHanded, PlacesTold
<1>1. ASSUME NEW S, TimeoutScan(b, S)
      PROVE  PlacesTold'
  BY <1>1 DEF TimeoutScan, stores
<1>2. ASSUME NEW S, StallScan(b, S)
      PROVE  PlacesTold'
  BY <1>2 DEF StallScan, stores
<1>3. CASE DepsScan(b)
  BY <1>3 DEF DepsScan, stores
<1>4. ASSUME NEW S, CleanupScan(b, S)
      PROVE  PlacesTold'
  BY <1>4 DEF CleanupScan, stores
<1> QED BY <1>1, <1>2, <1>3, <1>4 DEF Tick

\* What the background task does with the ids it collected: its steps keep PlacesTold.
LEMMA AdvanceTickPlaces ==
  ASSUME Owned, HandShape, Harmless, HandsTold, PlacesTold, RecordsTold,
         EntriesFollow, ~SyncPersistence, NEW b \in Thread, AdvanceTick(b)
  PROVE  PlacesTold'
<1> USE DEF TypeOK, ControlOK, Owned, SingleOwner, HandShape, EmptyHanded, OneHanded, PlacesTold
<1>1. ASSUME NEW j \in Job, TimeoutTake(b, j)
      PROVE  PlacesTold'
  BY <1>1 DEF TimeoutTake, At, TakeFromProcessing, stores
<1>2. ASSUME NEW j \in Job, StallCount(b, j)
      PROVE  PlacesTold'
  BY <1>2 DEF StallCount, At, stores
<1>3. CASE TimeoutRelease(b)
  BY <1>3 DEF TimeoutRelease, At, stores
<1>4. CASE TimeoutIndex(b)
  BY <1>4 DEF TimeoutIndex, IndexNext, At, SetIndex, stores
<1>5. CASE TimeoutPlace(b)
  BY <1>5 DEF TimeoutPlace, At, PlaceNext, Requeue, HandsTold, Announced
<1>6. CASE StallRemove(b)
  BY <1>6 DEF StallRemove, At, TakeFromProcessing, stores
<1>7. CASE StallIndex(b)
  BY <1>7 DEF StallIndex, At, SetIndex, stores
<1>8. CASE StallPlace(b)
  BY <1>8 DEF StallPlace, At, HandsTold, Announced
<1>9. CASE DepsMove(b)
  BY <1>9 DEF DepsMove, At, Straying, HandsTold
<1>10. CASE CleanupUnindex(b)
  BY <1>10 DEF CleanupUnindex, At, SetIndex, stores, Harmless, NotMeant
<1>11. CASE CleanupRemove(b)
  BY <1>11 DEF CleanupRemove, At
<1> QED BY <1>1, <1>2, <1>3, <1>4, <1>5, <1>6, <1>7, <1>8, <1>9, <1>10,
      <1>11 DEF AdvanceTick

\* The passing of time: its steps keep PlacesTold.
LEMMA ClockPlaces ==
  ASSUME Owned, HandShape, Harmless, HandsTold, PlacesTold, RecordsTold,
         EntriesFollow, ~SyncPersistence, Clock
  PROVE  PlacesTold'
<1> USE DEF TypeOK, ControlOK, Owned, SingleOwner, HandShape, EmptyHanded, OneHanded, PlacesTold
<1>1. ASSUME NEW j \in Job, BecomesDue(j)
      PROVE  PlacesTold'
  BY <1>1 DEF BecomesDue, stores
<1>2. ASSUME NEW j \in Job, Expires(j)
      PROVE  PlacesTold'
  BY <1>2 DEF Expires, stores
<1> QED BY <1>1, <1>2 DEF Clock

\* The first lock scope of a call about one job: all of them keep RecordsTold.
LEMMA BeginJobCallRecords ==
  ASSUME Owned, HandShape, Harmless, HandsTold, PlacesTold, RecordsTold,
         EntriesFollow, ~SyncPersistence, NEW c \in Thread, NEW j \in Job, BeginJobCall(c, j)
  PROVE  RecordsTold'
<1>0. ControlOK /\ completed \subseteq Job
  BY DEF Owned, TypeOK
<1> USE <1>0 DEF ControlOK, RecordsTold, Recorded
<1>1. CASE Push(c, j)
  BY <1>1 DEF Push, Idle, Goto, stores
<1>2. CASE Ack(c, j)
  BY <1>2 DEF Ack, Idle, TakeFromProcessing, Goto
<1>3. CASE Fail(c, j)
  BY <1>3 DEF Fail, Idle, TakeFromProcessing, Goto
<1>4. CASE Cancel(c, j)
  BY <1>4 DEF Cancel, Idle, GotoWith, stores
<1>5. CASE MoveToDelayed(c, j)
  BY <1>5 DEF MoveToDelayed, Idle, TakeFromProcessing, Goto
<1>6. CASE Promote(c, j)
  BY <1>6 DEF Promote, Idle, GotoWith, stores
<1>7. CASE Discard(c, j)
  BY <1>7 DEF Discard, Idle, GotoWith, stores
<1>8. CASE Heartbeat(c, j)
  BY <1>8 DEF Heartbeat, Idle, stores, threads
<1> QED BY <1>1, <1>2, <1>3, <1>4, <1>5, <1>6, <1>7, <1>8 DEF BeginJobCall

\* pull and pull_batch keep RecordsTold.
LEMMA BeginPullRecords ==
  ASSUME Owned, HandShape, Harmless, HandsTold, PlacesTold, RecordsTold,
         EntriesFollow, ~SyncPersistence, NEW c \in Thread, BeginPull(c)
  PROVE  RecordsTold'
<1>0. ControlOK /\ completed \subseteq Job
  BY DEF Owned, TypeOK
<1> USE <1>0 DEF ControlOK, RecordsTold, Recorded
<1>1. ASSUME NEW q \in Queue, NEW n, NEW S, NEW X, Pull(c, q, n, S, X)
      PROVE  RecordsTold'
  BY <1>1 DEF Pull, Idle, Return, Goto
<1> QED BY <1>1 DEF BeginPull

\* The first lock scopes of push_batch and ack_batch keep RecordsTold.
LEMMA BeginBatchCallRecords ==
  ASSUME Owned, HandShape, Harmless, HandsTold, PlacesTold, RecordsTold,
         EntriesFollow, ~SyncPersistence, NEW c \in Thread, BeginBatchCall(c)
  PROVE  RecordsTold'
<1>0. ControlOK /\ completed \subseteq Job
  BY DEF Owned, TypeOK
<1> USE <1>0 DEF ControlOK, RecordsTold, Recorded
<1>1. ASSUME NEW q \in Queue, NEW S, NEW Accepted, PushBatch(c, q, S, Accepted)
      PROVE  RecordsTold'
  BY <1>1 DEF PushBatch, Idle, Return, Goto, stores
<1>2. ASSUME NEW S \in SUBSET Job, AckBatch(c, S)
      PROVE  RecordsTold'
  BY <1>2 DEF AckBatch, Idle, GotoEach, stores
<1> QED BY <1>1, <1>2 DEF BeginBatchCall

\* The calls about a whole queue keep RecordsTold.
LEMMA BeginQueueCallRecords ==
  ASSUME Owned, HandShape, Harmless, HandsTold, PlacesTold, RecordsTold,
         EntriesFollow, ~SyncPersistence, NEW c \in Thread, NEW q \in Queue, BeginQueueCall(c, q)
  PROVE  RecordsTold'
<1>0. ControlOK /\ completed \subseteq Job
  BY DEF Owned, TypeOK
<1> USE <1>0 DEF ControlOK, RecordsTold, Recorded
<1>1. ASSUME NEW S, RetryDlq(c, q, S)
      PROVE  RecordsTold'
  BY <1>1 DEF RetryDlq, Idle, On, SetIndex, threads, Owned, TypeOK, SingleOwner
<1>2. ASSUME NEW S, CleanFailed(c, q, S)
      PROVE  RecordsTold'
  BY <1>2 DEF CleanFailed, Idle, On, SetIndex, threads, Owned, TypeOK, SingleOwner
<1>3. ASSUME NEW S, CleanWaiting(c, q, S)
      PROVE  RecordsTold'
  BY <1>3 DEF CleanWaiting, Idle, On, SetIndex, threads, Owned, TypeOK, SingleOwner
<1>4. ASSUME NEW S, CleanCompleted(c, S)
      PROVE  RecordsTold'
  BY <1>4 DEF CleanCompleted, Idle, SetIndex, threads, Owned, TypeOK, SingleOwner
<1>5. CASE PurgeDlq(c, q)
  BY <1>5 DEF PurgeDlq, Idle, On, GotoEach
<1>6. CASE Drain(c, q)
  BY <1>6 DEF Drain, On, Idle, SetIndex, threads, Owned, TypeOK, SingleOwner
<1>7. CASE Obliterate(c, q)
  BY <1>7 DEF Obliterate, On, Idle, SetIndex, GotoWith, EntriesFollow
<1>8. CASE Pause(c, q)
  BY <1>8 DEF Pause, Idle, stores, threads
<1>9. CASE Resume(c, q)
  BY <1>9 DEF Resume, Idle, stores, threads
<1>10. CASE ClearConcurrency(c, q)
  BY <1>10 DEF ClearConcurrency, Idle, stores, threads
<1>11. ASSUME NEW n \in NewLimits, SetConcurrency(c, q, n)
      PROVE  RecordsTold'
  BY <1>11 DEF SetConcurrency, Idle, stores, threads
<1> QED BY <1>1, <1>2, <1>3, <1>4, <1>5, <1>6, <1>7, <1>8, <1>9, <1>10,
      <1>11 DEF BeginQueueCall

\* The later lock scopes of the calls keep RecordsTold.
LEMMA AdvanceRecords ==
  ASSUME Owned, HandShape, Harmless, HandsTold, PlacesTold, RecordsTold,
         EntriesFollow, ~SyncPersistence, NEW c \in Thread, Advance(c)
  PROVE  RecordsTold'
<1>0. ControlOK /\ completed \subseteq Job
  BY DEF Owned, TypeOK
<1> USE <1>0 DEF ControlOK, RecordsTold, Recorded
<1>1. CASE PushDuplicate(c)
  BY <1>1 DEF PushDuplicate, Return, stores
<1>2. CASE PushInsert(c)
  <2>1. PICK j \in hand[c] : \E x \in {"queue", "waiting_deps"} : SetIndex({j}, x)
    BY <1>2 DEF PushInsert
  <2>2. UNCHANGED completed /\ pc[c] \in {"push_ready", "push_waiting"}
    BY <1>2 DEF PushInsert
  <2>3. \A u \in Thread \ {c} : pc'[u] = pc[u] /\ arg'[u] = arg[u] /\ todo'[u] = todo[u]
    BY <1>2 DEF PushInsert, GotoWith, Return
  <2>4. \A i \in completed : index'[i] = index[i]
    BY <2>1 DEF SetIndex, Owned, TypeOK, SingleOwner
  <2> QED BY <2>2, <2>3, <2>4
<1>3. CASE PushPersisted(c)
  BY <1>3 DEF PushPersisted, Return, stores
<1>4. CASE PushRollback(c)
  BY <1>4 DEF PushRollback, At, Goto
<1>5. CASE Unindex(c)
  BY <1>5 DEF Unindex, At, SetIndex, Return, stores, Harmless, NotMeant
<1>6. CASE PushBatchCheck(c)
  BY <1>6 DEF PushBatchCheck, At, GotoEach, stores
<1>7. CASE PushBatchInsert(c)
  BY <1>7 DEF PushBatchInsert, At, Return, Owned, TypeOK, SingleOwner
<1>8. ASSUME NEW j \in Job, PullIndex(c, j)
      PROVE  RecordsTold'
  BY <1>8 DEF PullIndex, At, SetIndex, GotoWith, stores, Owned, TypeOK, SingleOwner
<1>9. ASSUME NEW j \in Job, AckBatchTake(c, j)
      PROVE  RecordsTold'
  BY <1>9 DEF AckBatchTake, AckBatchGoesOn, At, TakeFromProcessing, SetIndex, stores, Owned,
     TypeOK, SingleOwner
<1>34. ASSUME NEW j \in Job, AckBatchIndex(c, j)
      PROVE  RecordsTold'
  <2>1. j \notin completed /\ UNCHANGED completed
    BY <1>34 DEF AckBatchIndex, stores, Owned, TypeOK, SingleOwner
  <2>2. \A t \in Thread : pc[t] \in {"ack_index", "cleanup_remove"} =>
          pc'[t] = pc[t] /\ arg'[t] = arg[t] /\ todo'[t] = todo[t]
    BY <1>34 DEF AckBatchIndex, AckBatchGoesOn, At
  <2>3. \A i \in Job : i # j => index'[i] = index[i]
    BY <1>34 DEF AckBatchIndex, SetIndex
  <2> QED BY <2>1, <2>2, <2>3
<1>10. ASSUME NEW j \in Job, ObliterateRemove(c, j)
      PROVE  RecordsTold'
  BY <1>10 DEF ObliterateRemove, At, SetIndex, Continue, Return, GotoEach, HandsTold,
     Straying
<1>11. CASE PullInsert(c)
  BY <1>11 DEF PullInsert, At, Return, Goto
<1>12. CASE AckRelease(c)
  BY <1>12 DEF AckRelease, At, Goto, stores
<1>13. CASE AckRecord(c)
  <2>1. PICK j \in hand[c] :
          \/ j \in RemoveOnComplete /\ SetIndex({j}, "none") /\ Return(c) /\ UNCHANGED completed
          \/ completed' = completed \cup {j} /\ GotoWith(c, "ack_index", j) /\ UNCHANGED index
    BY <1>13 DEF AckRecord
  <2>2. pc[c] = "ack_record"
    BY <1>13 DEF AckRecord, At
  <2>3. \A u \in Thread \ {c} : pc'[u] = pc[u] /\ arg'[u] = arg[u] /\ todo'[u] = todo[u]
    BY <2>1 DEF GotoWith, Return
  <2>4. \A i \in completed : Recorded(i)'
    <3>1. \A i \in completed : index'[i] = index[i]
      BY <2>1 DEF SetIndex, Owned, TypeOK, SingleOwner
    <3> QED BY <2>2, <2>3, <3>1
  <2>5. j \in completed' => pc'[c] = "ack_index" /\ arg'[c] = j
    BY <2>1 DEF GotoWith, Owned, SingleOwner
  <2> QED BY <2>1, <2>4, <2>5
<1>14. CASE AckIndex(c)
  BY <1>14 DEF AckIndex, At, SetIndex, Return, stores, Harmless, NotMeant
<1>15. CASE AckBatchRelease(c)
  BY <1>15 DEF AckBatchRelease, At, Goto, stores
<1>16. CASE AckBatchRecord(c)
  BY <1>16 DEF AckBatchRecord, At, Return, HandsTold, Announced
<1>17. CASE FailIndex(c)
  BY <1>17 DEF FailIndex, IndexNext, At, SetIndex, Goto, stores, Owned, TypeOK, SingleOwner
<1>18. CASE FailPlace(c)
  BY <1>18 DEF FailPlace, At, PlaceNext, Requeue, Return
<1>19. CASE FailDiscard(c)
  BY <1>19 DEF FailDiscard, At, GotoWith, stores
<1>20. CASE FailForget(c)
  BY <1>20 DEF FailForget, At, SetIndex, Return, stores, Harmless, NotMeant
<1>21. CASE CancelProcessing(c)
  BY <1>21 DEF CancelProcessing, At, TakeFromProcessing, Goto, Return, stores
<1>22. CASE CancelRelease(c)
  BY <1>22 DEF CancelRelease, At, Goto, stores
<1>23. CASE CancelWaiting(c)
  BY <1>23 DEF CancelWaiting, At, Goto, Return
<1>24. CASE CancelQueued(c)
  BY <1>24 DEF CancelQueued, At, Goto, Return
<1>25. CASE DelayIndex(c)
  BY <1>25 DEF DelayIndex, At, SetIndex, Goto, stores, Owned, TypeOK, SingleOwner
<1>26. CASE DelayPlace(c)
  BY <1>26 DEF DelayPlace, At, Return
<1>27. CASE PromoteQueued(c)
  BY <1>27 DEF PromoteQueued, At, Return, stores
<1>28. CASE DiscardQueued(c)
  BY <1>28 DEF DiscardQueued, At, SetIndex, Return, HandsTold, Straying
<1>29. CASE DiscardProcessing(c)
  BY <1>29 DEF DiscardProcessing, At, TakeFromProcessing, Goto, Return, stores
<1>30. CASE DiscardPlace(c)
  BY <1>30 DEF DiscardPlace, At, Goto, HandsTold, Straying
<1>31. CASE DiscardIndex(c)
  BY <1>31 DEF DiscardIndex, At, SetIndex, Return, stores, HandsTold, Straying
<1>32. CASE PurgeUnindex(c)
  BY <1>32 DEF PurgeUnindex, At, SetIndex, Return, stores, Harmless, NotMeant
<1>33. CASE ObliterateCollect(c)
  BY <1>33 DEF ObliterateCollect, At, Continue, Return, GotoEach, stores
<1> QED BY <1>1, <1>2, <1>3, <1>4, <1>5, <1>6, <1>7, <1>8, <1>9, <1>10, <1>11, <1>12, <1>13,
      <1>14, <1>15, <1>16, <1>17, <1>18, <1>19, <1>20, <1>21, <1>22, <1>23, <1>24, <1>25,
      <1>26, <1>27, <1>28, <1>29, <1>30, <1>31, <1>32, <1>33, <1>34 DEF Advance

\* The scans of the background task keep RecordsTold.
LEMMA TickRecords ==
  ASSUME Owned, HandShape, Harmless, HandsTold, PlacesTold, RecordsTold,
         EntriesFollow, ~SyncPersistence, NEW b \in Thread, Tick(b)
  PROVE  RecordsTold'
<1>0. ControlOK /\ completed \subseteq Job
  BY DEF Owned, TypeOK
<1> USE <1>0 DEF ControlOK, RecordsTold, Recorded
<1>1. ASSUME NEW S, TimeoutScan(b, S)
      PROVE  RecordsTold'
  BY <1>1 DEF TimeoutScan, Idle, GotoEach, stores
<1>2. ASSUME NEW S, StallScan(b, S)
      PROVE  RecordsTold'
  BY <1>2 DEF StallScan, Idle, GotoEach, stores
<1>3. CASE DepsScan(b)
  BY <1>3 DEF DepsScan, Idle, GotoEach, stores
<1>4. ASSUME NEW S, CleanupScan(b, S)
      PROVE  RecordsTold'
  BY <1>4 DEF CleanupScan, Idle, GotoEach, stores
<1> QED BY <1>1, <1>2, <1>3, <1>4 DEF Tick

\* What the background task does with the ids it collected: its steps keep RecordsTold.
LEMMA AdvanceTickRecords ==
  ASSUME Owned, HandShape, Harmless, HandsTold, PlacesTold, RecordsTold,
         EntriesFollow, ~SyncPersistence, NEW b \in Thread, AdvanceTick(b)
  PROVE  RecordsTold'
<1>0. ControlOK /\ completed \subseteq Job
  BY DEF Owned, TypeOK
<1> USE <1>0 DEF ControlOK, RecordsTold, Recorded
<1>1. ASSUME NEW j \in Job, TimeoutTake(b, j)
      PROVE  RecordsTold'
  BY <1>1 DEF TimeoutTake, At, TakeFromProcessing, GotoEach, Continue, Return, stores
<1>2. ASSUME NEW j \in Job, StallCount(b, j)
      PROVE  RecordsTold'
  <2>1. UNCHANGED <<completed, index>> /\ pc[b] = "stall_take"
    BY <1>2 DEF StallCount, At, stores
  <2>2. \A u \in Thread \ {b} : pc'[u] = pc[u] /\ arg'[u] = arg[u] /\ todo'[u] = todo[u]
    BY <1>2 DEF StallCount, Continue, Return, GotoEach
  <2> QED BY <2>1, <2>2
<1>3. CASE TimeoutRelease(b)
  BY <1>3 DEF TimeoutRelease, At, Goto, stores
<1>4. CASE TimeoutIndex(b)
  BY <1>4 DEF TimeoutIndex, IndexNext, At, SetIndex, Goto, stores, Owned, TypeOK,
     SingleOwner
<1>5. CASE TimeoutPlace(b)
  BY <1>5 DEF TimeoutPlace, At, PlaceNext, Requeue, Continue, Return, GotoEach
<1>6. CASE StallRemove(b)
  BY <1>6 DEF StallRemove, At, TakeFromProcessing, Goto, Continue, Return, GotoEach, stores
<1>7. CASE StallIndex(b)
  BY <1>7 DEF StallIndex, At, SetIndex, Goto, stores, Owned, TypeOK, SingleOwner
<1>8. CASE StallPlace(b)
  <2>1. UNCHANGED <<completed, index>> /\ pc[b] = "stall_place"
    BY <1>8 DEF StallPlace, At
  <2>2. \A u \in Thread \ {b} : pc'[u] = pc[u] /\ arg'[u] = arg[u] /\ todo'[u] = todo[u]
    BY <1>8 DEF StallPlace, Continue, Return, GotoEach
  <2> QED BY <2>1, <2>2
<1>9. CASE DepsMove(b)
  BY <1>9 DEF DepsMove, At, Return, HandsTold, Straying
<1>10. CASE CleanupUnindex(b)
  BY <1>10 DEF CleanupUnindex, At, SetIndex, Goto, stores, Harmless, NotMeant
<1>11. CASE CleanupRemove(b)
  BY <1>11 DEF CleanupRemove, At, Return
<1> QED BY <1>1, <1>2, <1>3, <1>4, <1>5, <1>6, <1>7, <1>8, <1>9, <1>10,
      <1>11 DEF AdvanceTick

\* The passing of time: its steps keep RecordsTold.
LEMMA ClockRecords ==
  ASSUME Owned, HandShape, Harmless, HandsTold, PlacesTold, RecordsTold,
         EntriesFollow, ~SyncPersistence, Clock
  PROVE  RecordsTold'
<1>0. ControlOK /\ completed \subseteq Job
  BY DEF Owned, TypeOK
<1> USE <1>0 DEF ControlOK, RecordsTold, Recorded
<1>1. ASSUME NEW j \in Job, BecomesDue(j)
      PROVE  RecordsTold'
  BY <1>1 DEF BecomesDue, stores, threads
<1>2. ASSUME NEW j \in Job, Expires(j)
      PROVE  RecordsTold'
  BY <1>2 DEF Expires, stores, threads
<1> QED BY <1>1, <1>2 DEF Clock

\* The first lock scope of a call about one job: all of them keep HandsTold.
LEMMA BeginJobCallHands ==
  ASSUME Owned, HandShape, Harmless, HandsTold, PlacesTold, RecordsTold,
         EntriesFollow, ~SyncPersistence, NEW c \in Thread, NEW j \in Job, BeginJobCall(c, j)
  PROVE  HandsTold'
<1> USE DEF TypeOK, ControlOK, Owned, SingleOwner, HandShape, EmptyHanded, OneHanded, HandsTold,
       Announced, Straying, Exhausted
<1>1. CASE Push(c, j)
  BY <1>1 DEF Push, Idle, Take, Goto, stores
<1>2. CASE Ack(c, j)
  BY <1>2 DEF Ack, Idle, TakeFromProcessing, Take, Goto, fields
<1>3. CASE Fail(c, j)
  BY <1>3 DEF Fail, Idle, TakeFromProcessing, Take, CountAttempt, Goto
<1>4. CASE Cancel(c, j)
  BY <1>4 DEF Cancel, Idle, GotoWith, stores, fields
<1>5. CASE MoveToDelayed(c, j)
  BY <1>5 DEF MoveToDelayed, Idle, TakeFromProcessing, Take, Goto, fields
<1>6. CASE Promote(c, j)
  BY <1>6 DEF Promote, Idle, GotoWith, stores, fields
<1>7. CASE Discard(c, j)
  BY <1>7 DEF Discard, Idle, GotoWith, stores, fields, EntriesFollow
<1>8. CASE Heartbeat(c, j)
  BY <1>8 DEF Heartbeat, Idle, stores, threads
<1> QED BY <1>1, <1>2, <1>3, <1>4, <1>5, <1>6, <1>7, <1>8 DEF BeginJobCall

\* pull and pull_batch keep HandsTold.
LEMMA BeginPullHands ==
  ASSUME Owned, HandShape, Harmless, HandsTold, PlacesTold, RecordsTold,
         EntriesFollow, ~SyncPersistence, NEW c \in Thread, BeginPull(c)
  PROVE  HandsTold'
<1> USE DEF TypeOK, ControlOK, Owned, SingleOwner, HandShape, EmptyHanded, OneHanded, HandsTold,
       Announced, Straying, Exhausted
<1>1. ASSUME NEW q \in Queue, NEW n, NEW S, NEW X, Pull(c, q, n, S, X)
      PROVE  HandsTold'
  BY <1>1 DEF Pull, Idle, On, Take, Return, Goto, fields
<1> QED BY <1>1 DEF BeginPull

\* The first lock scopes of push_batch and ack_batch keep HandsTold.
LEMMA BeginBatchCallHands ==
  ASSUME Owned, HandShape, Harmless, HandsTold, PlacesTold, RecordsTold,
         EntriesFollow, ~SyncPersistence, NEW c \in Thread, BeginBatchCall(c)
  PROVE  HandsTold'
<1> USE DEF TypeOK, ControlOK, Owned, SingleOwner, HandShape, EmptyHanded, OneHanded, HandsTold,
       Announced, Straying, Exhausted
<1>1. ASSUME NEW q \in Queue, NEW S, NEW Accepted, PushBatch(c, q, S, Accepted)
      PROVE  HandsTold'
  BY <1>1 DEF PushBatch, Idle, On, Take, Return, Goto, stores
<1>2. ASSUME NEW S \in SUBSET Job, AckBatch(c, S)
      PROVE  HandsTold'
  BY <1>2 DEF AckBatch, Idle, GotoEach, stores, fields
<1> QED BY <1>1, <1>2 DEF BeginBatchCall

\* The calls about a whole queue keep HandsTold.
LEMMA BeginQueueCallHands ==
  ASSUME Owned, HandShape, Harmless, HandsTold, PlacesTold, RecordsTold,
         EntriesFollow, ~SyncPersistence, NEW c \in Thread, NEW q \in Queue, BeginQueueCall(c, q)
  PROVE  HandsTold'
<1> USE DEF TypeOK, ControlOK, Owned, SingleOwner, HandShape, EmptyHanded, OneHanded, HandsTold,
       Announced, Straying, Exhausted
<1>1. ASSUME NEW S, RetryDlq(c, q, S)
      PROVE  HandsTold'
  BY <1>1 DEF RetryDlq, Idle, On, SetIndex, threads
<1>2. ASSUME NEW S, CleanFailed(c, q, S)
      PROVE  HandsTold'
  BY <1>2 DEF CleanFailed, Idle, On, SetIndex, fields, threads
<1>3. ASSUME NEW S, CleanWaiting(c, q, S)
      PROVE  HandsTold'
  BY <1>3 DEF CleanWaiting, Idle, On, SetIndex, fields, threads
<1>4. ASSUME NEW S, CleanCompleted(c, S)
      PROVE  HandsTold'
  BY <1>4 DEF CleanCompleted, Idle, SetIndex, fields, threads
<1>5. CASE PurgeDlq(c, q)
  BY <1>5 DEF PurgeDlq, Idle, On, GotoEach, fields
<1>6. CASE Drain(c, q)
  BY <1>6 DEF Drain, On, Idle, SetIndex, fields, threads
<1>7. CASE Obliterate(c, q)
  BY <1>7 DEF Obliterate, On, Idle, SetIndex, GotoWith, fields, EntriesFollow
<1>8. CASE Pause(c, q)
  BY <1>8 DEF Pause, Idle, stores, fields, threads
<1>9. CASE Resume(c, q)
  BY <1>9 DEF Resume, Idle, stores, fields, threads
<1>10. CASE ClearConcurrency(c, q)
  BY <1>10 DEF ClearConcurrency, Idle, stores, fields, threads
<1>11. ASSUME NEW n \in NewLimits, SetConcurrency(c, q, n)
      PROVE  HandsTold'
  BY <1>11 DEF SetConcurrency, Idle, stores, fields, threads
<1> QED BY <1>1, <1>2, <1>3, <1>4, <1>5, <1>6, <1>7, <1>8, <1>9, <1>10,
      <1>11 DEF BeginQueueCall

\* The later lock scopes of the calls keep HandsTold.
LEMMA AdvanceHands ==
  ASSUME Owned, HandShape, Harmless, HandsTold, PlacesTold, RecordsTold,
         EntriesFollow, ~SyncPersistence, NEW c \in Thread, Advance(c)
  PROVE  HandsTold'
<1> USE DEF TypeOK, ControlOK, Owned, SingleOwner, HandShape, EmptyHanded, OneHanded, HandsTold,
       Announced, Straying, Exhausted
<1>1. CASE PushDuplicate(c)
  BY <1>1 DEF PushDuplicate, Drop, Return, stores, fields
<1>2. CASE PushInsert(c)
  BY <1>2 DEF PushInsert, Drop, At, SetIndex, GotoWith, Return, fields
<1>3. CASE PushPersisted(c)
  BY <1>3 DEF PushPersisted, Return, stores, fields
<1>4. CASE PushRollback(c)
  BY <1>4 DEF PushRollback, At, Goto, fields
<1>5. CASE Unindex(c)
  BY <1>5 DEF Unindex, At, SetIndex, Return, stores, fields, Harmless, NotMeant
<1>6. CASE PushBatchCheck(c)
  BY <1>6 DEF PushBatchCheck, At, GotoEach, stores, fields
<1>7. CASE PushBatchInsert(c)
  BY <1>7 DEF PushBatchInsert, At, Drop, Return, fields
<1>8. ASSUME NEW j \in Job, PullIndex(c, j)
      PROVE  HandsTold'
  BY <1>8 DEF PullIndex, At, SetIndex, GotoWith, stores, fields
<1>9. ASSUME NEW j \in Job, AckBatchTake(c, j)
      PROVE  HandsTold'
  BY <1>9 DEF AckBatchTake, AckBatchGoesOn, At, TakeFromProcessing, Take, SetIndex, stores,
     fields
<1>34. ASSUME NEW j \in Job, AckBatchIndex(c, j)
      PROVE  HandsTold'
  BY <1>34 DEF AckBatchIndex, AckBatchGoesOn, SetIndex, At, stores, resources, fields
<1>10. ASSUME NEW j \in Job, ObliterateRemove(c, j)
      PROVE  HandsTold'
  BY <1>10 DEF ObliterateRemove, At, SetIndex, Continue, Return, GotoEach, fields
<1>11. CASE PullInsert(c)
  BY <1>11 DEF PullInsert, At, Drop, Return, Goto, fields
<1>12. CASE AckRelease(c)
  BY <1>12 DEF AckRelease, At, Goto, stores, fields
<1>13. CASE AckRecord(c)
  BY <1>13 DEF AckRecord, At, Drop, SetIndex, Return, GotoWith
<1>14. CASE AckIndex(c)
  BY <1>14 DEF AckIndex, At, SetIndex, Return, stores, fields, Harmless, NotMeant
<1>15. CASE AckBatchRelease(c)
  BY <1>15 DEF AckBatchRelease, At, Goto, stores, fields
<1>16. CASE AckBatchRecord(c)
  BY <1>16 DEF AckBatchRecord, At, Drop, Return
<1>17. CASE FailIndex(c)
  BY <1>17 DEF FailIndex, IndexNext, At, SetIndex, Goto, stores, fields
<1>18. CASE FailPlace(c)
  BY <1>18 DEF FailPlace, At, Drop, Return
<1>19. CASE FailDiscard(c)
  BY <1>19 DEF FailDiscard, At, Drop, GotoWith, stores, fields
<1>20. CASE FailForget(c)
  BY <1>20 DEF FailForget, At, SetIndex, Return, stores, Harmless, NotMeant
<1>21. CASE CancelProcessing(c)
  BY <1>21 DEF CancelProcessing, At, TakeFromProcessing, Take, Goto, Return, stores, fields
<1>22. CASE CancelRelease(c)
  BY <1>22 DEF CancelRelease, At, Drop, Goto, stores, fields
<1>23. CASE CancelWaiting(c)
  BY <1>23 DEF CancelWaiting, At, Goto, Return, fields
<1>24. CASE CancelQueued(c)
  BY <1>24 DEF CancelQueued, At, Goto, Return, fields
<1>25. CASE DelayIndex(c)
  BY <1>25 DEF DelayIndex, At, SetIndex, Goto, stores, fields
<1>26. CASE DelayPlace(c)
  BY <1>26 DEF DelayPlace, At, Drop, Return
<1>27. CASE PromoteQueued(c)
  BY <1>27 DEF PromoteQueued, At, Return, stores
<1>28. CASE DiscardQueued(c)
  BY <1>28 DEF DiscardQueued, At, SetIndex, Return, fields
<1>29. CASE DiscardProcessing(c)
  BY <1>29 DEF DiscardProcessing, At, TakeFromProcessing, Take, Goto, Return, stores, fields
<1>30. CASE DiscardPlace(c)
  BY <1>30 DEF DiscardPlace, At, Drop, Goto, fields
<1>31. CASE DiscardIndex(c)
  BY <1>31 DEF DiscardIndex, At, SetIndex, Return, stores, fields
<1>32. CASE PurgeUnindex(c)
  BY <1>32 DEF PurgeUnindex, At, SetIndex, Return, stores, fields, Harmless, NotMeant
<1>33. CASE ObliterateCollect(c)
  BY <1>33 DEF ObliterateCollect, At, Continue, Return, GotoEach, On, stores, fields
<1> QED BY <1>1, <1>2, <1>3, <1>4, <1>5, <1>6, <1>7, <1>8, <1>9, <1>10, <1>11, <1>12, <1>13,
      <1>14, <1>15, <1>16, <1>17, <1>18, <1>19, <1>20, <1>21, <1>22, <1>23, <1>24, <1>25,
      <1>26, <1>27, <1>28, <1>29, <1>30, <1>31, <1>32, <1>33, <1>34 DEF Advance

\* The scans of the background task keep HandsTold.
LEMMA TickHands ==
  ASSUME Owned, HandShape, Harmless, HandsTold, PlacesTold, RecordsTold,
         EntriesFollow, ~SyncPersistence, NEW b \in Thread, Tick(b)
  PROVE  HandsTold'
<1> USE DEF TypeOK, ControlOK, Owned, SingleOwner, HandShape, EmptyHanded, OneHanded, HandsTold,
       Announced, Straying, Exhausted
<1>1. ASSUME NEW S, TimeoutScan(b, S)
      PROVE  HandsTold'
  BY <1>1 DEF TimeoutScan, Idle, GotoEach, stores, fields
<1>2. ASSUME NEW S, StallScan(b, S)
      PROVE  HandsTold'
  BY <1>2 DEF StallScan, Idle, GotoEach, stores, fields
<1>3. CASE DepsScan(b)
  BY <1>3 DEF DepsScan, Idle, GotoEach, stores, fields, EntriesFollow
<1>4. ASSUME NEW S, CleanupScan(b, S)
      PROVE  HandsTold'
  BY <1>4 DEF CleanupScan, Idle, GotoEach, stores, fields
<1> QED BY <1>1, <1>2, <1>3, <1>4 DEF Tick

\* What the background task does with the ids it collected: its steps keep HandsTold.
LEMMA AdvanceTickHands ==
  ASSUME Owned, HandShape, Harmless, HandsTold, PlacesTold, RecordsTold,
         EntriesFollow, ~SyncPersistence, NEW b \in Thread, AdvanceTick(b)
  PROVE  HandsTold'
<1> USE DEF TypeOK, ControlOK, Owned, SingleOwner, HandShape, EmptyHanded, OneHanded, HandsTold,
       Announced, Straying, Exhausted
<1>1. ASSUME NEW j \in Job, TimeoutTake(b, j)
      PROVE  HandsTold'
  BY <1>1 DEF TimeoutTake, At, TakeFromProcessing, Take, CountAttempt, GotoEach, Continue,
     Return, stores
<1>2. ASSUME NEW j \in Job, StallCount(b, j)
      PROVE  HandsTold'
  BY <1>2 DEF StallCount, At, Continue, Return, GotoEach, stores
<1>3. CASE TimeoutRelease(b)
  BY <1>3 DEF TimeoutRelease, At, Goto, stores, fields
<1>4. CASE TimeoutIndex(b)
  BY <1>4 DEF TimeoutIndex, IndexNext, At, SetIndex, Goto, stores, fields
<1>5. CASE TimeoutPlace(b)
  BY <1>5 DEF TimeoutPlace, At, Drop, Continue, Return, GotoEach
<1>6. CASE StallRemove(b)
  BY <1>6 DEF StallRemove, At, TakeFromProcessing, Take, Goto, Continue, Return, GotoEach,
     stores, fields
<1>7. CASE StallIndex(b)
  BY <1>7 DEF StallIndex, At, SetIndex, Goto, stores, fields
<1>8. CASE StallPlace(b)
  BY <1>8 DEF StallPlace, At, Drop, Continue, Return, GotoEach, fields
<1>9. CASE DepsMove(b)
  BY <1>9 DEF DepsMove, At, Return, fields
<1>10. CASE CleanupUnindex(b)
  BY <1>10 DEF CleanupUnindex, At, SetIndex, Goto, stores, fields, Harmless, NotMeant
<1>11. CASE CleanupRemove(b)
  BY <1>11 DEF CleanupRemove, At, Return, fields
<1> QED BY <1>1, <1>2, <1>3, <1>4, <1>5, <1>6, <1>7, <1>8, <1>9, <1>10,
      <1>11 DEF AdvanceTick

\* The passing of time: its steps keep HandsTold.
LEMMA ClockHands ==
  ASSUME Owned, HandShape, Harmless, HandsTold, PlacesTold, RecordsTold,
         EntriesFollow, ~SyncPersistence, Clock
  PROVE  HandsTold'
<1> USE DEF TypeOK, ControlOK, Owned, SingleOwner, HandShape, EmptyHanded, OneHanded, HandsTold,
       Announced, Straying, Exhausted
<1>1. ASSUME NEW j \in Job, BecomesDue(j)
      PROVE  HandsTold'
  BY <1>1 DEF BecomesDue, stores, threads
<1>2. ASSUME NEW j \in Job, Expires(j)
      PROVE  HandsTold'
  BY <1>2 DEF Expires, stores, threads
<1> QED BY <1>1, <1>2 DEF Clock

\* What the errands of Errands cannot hit.
LEMMA ErrandsHarmless == Owned /\ Errands => Harmless
BY DEF Owned, TypeOK, ControlOK, Errands, Cleaning, Harmless, NotMeant, Gone, Past, InPlay,
       OnTheWay

IndexTells == HandsTold /\ PlacesTold /\ RecordsTold

\* At the start there are no jobs.
LEMMA InitIndex == Init => IndexTells
BY DEF Init, IndexTells, HandsTold, PlacesTold, RecordsTold, Straying

\* Every step keeps the index in step with the containers and the hands.
LEMMA NextIndex ==
  ASSUME ~SyncPersistence, EntriesFollow, Owned, HandShape, Errands, IndexTells, [Next]_vars
  PROVE  IndexTells'
<1>0. HandsTold /\ PlacesTold /\ RecordsTold /\ Harmless
  BY ErrandsHarmless DEF IndexTells
<1>1. ASSUME NEW c \in Client, Begin(c) PROVE IndexTells'
  <2>1. ASSUME NEW j \in Job, BeginJobCall(c, j) PROVE IndexTells'
    BY <1>0, <2>1, BeginJobCallPlaces, BeginJobCallRecords, BeginJobCallHands
       DEF IndexTells, Thread
  <2>2. CASE BeginPull(c)
    BY <1>0, <2>2, BeginPullPlaces, BeginPullRecords, BeginPullHands DEF IndexTells, Thread
  <2>3. CASE BeginBatchCall(c)
    BY <1>0, <2>3, BeginBatchCallPlaces, BeginBatchCallRecords, BeginBatchCallHands
       DEF IndexTells, Thread
  <2>4. ASSUME NEW q \in Queue, BeginQueueCall(c, q) PROVE IndexTells'
    BY <1>0, <2>4, BeginQueueCallPlaces, BeginQueueCallRecords, BeginQueueCallHands
       DEF IndexTells, Thread
  <2> QED BY <1>1, <2>1, <2>2, <2>3, <2>4 DEF Begin
<1>2. ASSUME NEW c \in Client, Advance(c) PROVE IndexTells'
  BY <1>0, <1>2, AdvancePlaces, AdvanceRecords, AdvanceHands DEF IndexTells, Thread
<1>3. CASE Tick(Background)
  BY <1>0, <1>3, TickPlaces, TickRecords, TickHands DEF IndexTells, Thread
<1>4. CASE AdvanceTick(Background)
  BY <1>0, <1>4, AdvanceTickPlaces, AdvanceTickRecords, AdvanceTickHands
     DEF IndexTells, Thread
<1>5. CASE Clock
  BY <1>0, <1>5, ClockPlaces, ClockRecords, ClockHands DEF IndexTells
<1>6. CASE UNCHANGED vars
  <2> USE <1>6 DEF vars, stores, threads, fields
  <2>1. PlacesTold'
    BY <1>0 DEF PlacesTold
  <2>2. RecordsTold'
    BY <1>0 DEF RecordsTold, Recorded
  <2>3. HandsTold'
    BY <1>0 DEF HandsTold, Announced, Exhausted, Straying
  <2> QED BY <2>1, <2>2, <2>3 DEF IndexTells
<1> QED BY <1>1, <1>2, <1>3, <1>4, <1>5, <1>6 DEF Next

\* When no call is in flight the index names the place of every job, although no lock
\* covers both: for any number of threads, jobs and queues and every operation except
\* the dependency scan, discard and obliterate, and rollbacks of push.
THEOREM IndexIsRight ==
  ASSUME ~SyncPersistence, EntriesFollow
  PROVE  Spec => []IndexAgreement
<1> DEFINE IInv == Owned /\ HandShape /\ Errands /\ IndexTells
<1>1. IInv => IndexAgreement
  <2> SUFFICES ASSUME Owned, IndexTells, AllIdle, NEW j \in Job
               PROVE  /\ j \in queued => index[j] = "queue"
                      /\ j \in processing => index[j] = "processing"
                      /\ j \in waitingDeps => index[j] = "waiting_deps"
                      /\ j \in dlq => index[j] = "dlq"
                      /\ j \in completed => index[j] = "completed"
    BY DEF IndexAgreement
  <2>1. j \in completed => index[j] = "completed"
    BY DEF IndexTells, RecordsTold, Recorded, AllIdle
  <2> QED BY <2>1 DEF IndexTells, PlacesTold
<1>2. Init => IInv
  BY InitOwned, InitHand, InitErrands, InitIndex
<1>3. IInv /\ [Next]_vars => IInv'
  BY ~SyncPersistence, EntriesFollow, NextOwned, NextHand, NextErrands, NextIndex DEF Owned
<1> QED BY <1>1, <1>2, <1>3, PTL DEF Spec

=============================================================================

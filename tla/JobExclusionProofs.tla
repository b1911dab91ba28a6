------------------------- MODULE JobExclusionProofs -------------------------
(***************************************************************************)
(* Jobs of one group run one at a time: proved for every interleaving of   *)
(* the operations, where ack_batch is not given ids of several queues.     *)
(*                                                                         *)
(* First, only pull starts the execution of a job: every other step leaves *)
(* the set Executing as it is or makes it smaller.                         *)
(***************************************************************************)
EXTENDS JobLifecycleProofs

\* Executing, thread by thread.
Executes(j) ==
  \/ j \in processing
  \/ \E t \in Thread : pc[t] \in ExecutingSteps /\ j \in hand[t]

LEMMA ExecutingIs == \A j : (j \in Executing <=> Executes(j)) /\ (j \in Executing' <=> Executes(j)')
BY DEF Executing, Executes, Held

\* A step that starts the execution of no job.
NoStart == \A i \in Job : Executes(i)' => Executes(i)

\* The first lock scope of a call about one job: all of them start no execution.
LEMMA BeginJobCallNoStart ==
  ASSUME TypeOK, HandShape, NEW c \in Thread, NEW j \in Job, BeginJobCall(c, j)
  PROVE  NoStart
<1>0. ControlOK /\ hand \in [Thread -> SUBSET Job]
  BY DEF TypeOK
<1> USE <1>0, OptionAssumption DEF ControlOK, HandShape, EmptyHanded, OneHanded, NoStart,
        Executes, ExecutingSteps
<1>1. CASE Push(c, j)
  BY <1>1 DEF Push, Idle, Take, Goto, stores
<1>2. CASE Ack(c, j)
  BY <1>2 DEF Ack, Idle, TakeFromProcessing, Take, Goto
<1>3. CASE Fail(c, j)
  BY <1>3 DEF Fail, Idle, TakeFromProcessing, Take, Goto
<1>4. CASE Cancel(c, j)
  BY <1>4 DEF Cancel, Idle, GotoWith, stores
<1>5. CASE MoveToDelayed(c, j)
  BY <1>5 DEF MoveToDelayed, Idle, TakeFromProcessing, Take, Goto
<1>6. CASE Promote(c, j)
  BY <1>6 DEF Promote, Idle, GotoWith, stores
<1>7. CASE Discard(c, j)
  BY <1>7 DEF Discard, Idle, GotoWith, stores
<1>8. CASE Heartbeat(c, j)
  BY <1>8 DEF Heartbeat, Idle, stores, threads
<1> QED BY <1>1, <1>2, <1>3, <1>4, <1>5, <1>6, <1>7, <1>8 DEF BeginJobCall

\* The first lock scopes of push_batch and ack_batch start no execution.
LEMMA BeginBatchCallNoStart ==
  ASSUME TypeOK, HandShape, NEW c \in Thread, BeginBatchCall(c)
  PROVE  NoStart
<1>0. ControlOK /\ hand \in [Thread -> SUBSET Job]
  BY DEF TypeOK
<1> USE <1>0, OptionAssumption DEF ControlOK, HandShape, EmptyHanded, OneHanded, NoStart,
        Executes, ExecutingSteps
<1>1. ASSUME NEW q \in Queue, NEW S, NEW Accepted, PushBatch(c, q, S, Accepted)
      PROVE  NoStart
  BY <1>1 DEF PushBatch, Idle, Take, Return, Goto, stores
<1>2. ASSUME NEW S \in SUBSET Job, AckBatch(c, S)
      PROVE  NoStart
  BY <1>2 DEF AckBatch, Idle, GotoEach, stores
<1> QED BY <1>1, <1>2 DEF BeginBatchCall

\* The calls about a whole queue start no execution.
LEMMA BeginQueueCallNoStart ==
  ASSUME TypeOK, HandShape, NEW c \in Thread, NEW q \in Queue, BeginQueueCall(c, q)
  PROVE  NoStart
<1>0. ControlOK /\ hand \in [Thread -> SUBSET Job]
  BY DEF TypeOK
<1> USE <1>0, OptionAssumption DEF ControlOK, HandShape, EmptyHanded, OneHanded, NoStart,
        Executes, ExecutingSteps
<1>1. ASSUME NEW S, RetryDlq(c, q, S)
      PROVE  NoStart
  BY <1>1 DEF RetryDlq, Idle, threads
<1>2. ASSUME NEW S, CleanFailed(c, q, S)
      PROVE  NoStart
  BY <1>2 DEF CleanFailed, Idle, threads
<1>3. ASSUME NEW S, CleanWaiting(c, q, S)
      PROVE  NoStart
  BY <1>3 DEF CleanWaiting, Idle, threads
<1>4. ASSUME NEW S, CleanCompleted(c, S)
      PROVE  NoStart
  BY <1>4 DEF CleanCompleted, Idle, threads
<1>5. CASE PurgeDlq(c, q)
  BY <1>5 DEF PurgeDlq, Idle, GotoEach
<1>6. CASE Drain(c, q)
  BY <1>6 DEF Drain, Idle, threads
<1>7. CASE Obliterate(c, q)
  BY <1>7 DEF Obliterate, Idle, GotoWith
<1>8. CASE Pause(c, q)
  BY <1>8 DEF Pause, Idle, stores, threads
<1>9. CASE Resume(c, q)
  BY <1>9 DEF Resume, Idle, stores, threads
<1>10. CASE ClearConcurrency(c, q)
  BY <1>10 DEF ClearConcurrency, Idle, stores, threads
<1>11. ASSUME NEW n \in NewLimits, SetConcurrency(c, q, n)
      PROVE  NoStart
  BY <1>11 DEF SetConcurrency, Idle, stores, threads
<1> QED BY <1>1, <1>2, <1>3, <1>4, <1>5, <1>6, <1>7, <1>8, <1>9, <1>10,
      <1>11 DEF BeginQueueCall

\* The later lock scopes of the calls start no execution.
LEMMA AdvanceNoStart ==
  ASSUME TypeOK, HandShape, NEW c \in Thread, Advance(c)
  PROVE  NoStart
<1>0. ControlOK /\ hand \in [Thread -> SUBSET Job]
  BY DEF TypeOK
<1> USE <1>0, OptionAssumption DEF ControlOK, HandShape, EmptyHanded, OneHanded, NoStart,
        Executes, ExecutingSteps
<1>1. CASE PushDuplicate(c)
  BY <1>1 DEF PushDuplicate, Drop, Return, stores
<1>2. CASE PushInsert(c)
  BY <1>2 DEF PushInsert, Drop, At, GotoWith, Return
<1>3. CASE PushPersisted(c)
  BY <1>3 DEF PushPersisted, Return, stores
<1>4. CASE PushRollback(c)
  BY <1>4 DEF PushRollback, At, Goto
<1>5. CASE Unindex(c)
  BY <1>5 DEF Unindex, At, Return, stores
<1>6. CASE PushBatchCheck(c)
  BY <1>6 DEF PushBatchCheck, At, GotoEach, stores
<1>7. CASE PushBatchInsert(c)
  BY <1>7 DEF PushBatchInsert, At, Drop, Return
<1>8. ASSUME NEW j \in Job, PullIndex(c, j)
      PROVE  NoStart
  BY <1>8 DEF PullIndex, At, GotoWith, stores
<1>9. ASSUME NEW j \in Job, AckBatchTake(c, j)
      PROVE  NoStart
  BY <1>9 DEF AckBatchTake, AckBatchGoesOn, At, TakeFromProcessing, Take, stores
<1>34. ASSUME NEW j \in Job, AckBatchIndex(c, j)
      PROVE  NoStart
  BY <1>34 DEF AckBatchIndex, AckBatchGoesOn, SetIndex, At, stores, resources, fields
<1>10. ASSUME NEW j \in Job, ObliterateRemove(c, j)
      PROVE  NoStart
  BY <1>10 DEF ObliterateRemove, At, Continue, Return, GotoEach
<1>11. CASE PullInsert(c)
  BY <1>11 DEF PullInsert, At, Drop, Return, Goto
<1>12. CASE AckRelease(c)
  BY <1>12 DEF AckRelease, At, Goto, stores
<1>13. CASE AckRecord(c)
  BY <1>13 DEF AckRecord, At, Drop, Return, GotoWith
<1>14. CASE AckIndex(c)
  BY <1>14 DEF AckIndex, At, Return, stores
<1>15. CASE AckBatchRelease(c)
  BY <1>15 DEF AckBatchRelease, At, Goto, stores
<1>16. CASE AckBatchRecord(c)
  BY <1>16 DEF AckBatchRecord, At, Drop, Return
<1>17. CASE FailIndex(c)
  BY <1>17 DEF FailIndex, IndexNext, At, Goto, stores
<1>18. CASE FailPlace(c)
  BY <1>18 DEF FailPlace, At, PlaceNext, Requeue, Drop, Return
<1>19. CASE FailDiscard(c)
  BY <1>19 DEF FailDiscard, At, Drop, GotoWith, stores
<1>20. CASE FailForget(c)
  BY <1>20 DEF FailForget, At, Return, stores
<1>21. CASE CancelProcessing(c)
  BY <1>21 DEF CancelProcessing, At, TakeFromProcessing, Take, Goto, Return, stores
<1>22. CASE CancelRelease(c)
  BY <1>22 DEF CancelRelease, At, Drop, Goto, stores
<1>23. CASE CancelWaiting(c)
  BY <1>23 DEF CancelWaiting, At, Goto, Return
<1>24. CASE CancelQueued(c)
  BY <1>24 DEF CancelQueued, At, Goto, Return
<1>25. CASE DelayIndex(c)
  BY <1>25 DEF DelayIndex, At, Goto, stores
<1>26. CASE DelayPlace(c)
  BY <1>26 DEF DelayPlace, At, Drop, Return
<1>27. CASE PromoteQueued(c)
  BY <1>27 DEF PromoteQueued, At, Return, stores
<1>28. CASE DiscardQueued(c)
  BY <1>28 DEF DiscardQueued, At, Return
<1>29. CASE DiscardProcessing(c)
  BY <1>29 DEF DiscardProcessing, At, TakeFromProcessing, Take, Goto, Return, stores
<1>30. CASE DiscardPlace(c)
  BY <1>30 DEF DiscardPlace, At, Drop, Goto
<1>31. CASE DiscardIndex(c)
  BY <1>31 DEF DiscardIndex, At, Return, stores
<1>32. CASE PurgeUnindex(c)
  BY <1>32 DEF PurgeUnindex, At, Return, stores
<1>33. CASE ObliterateCollect(c)
  BY <1>33 DEF ObliterateCollect, At, Continue, Return, GotoEach, stores
<1> QED BY <1>1, <1>2, <1>3, <1>4, <1>5, <1>6, <1>7, <1>8, <1>9, <1>10, <1>11, <1>12, <1>13,
      <1>14, <1>15, <1>16, <1>17, <1>18, <1>19, <1>20, <1>21, <1>22, <1>23, <1>24, <1>25,
      <1>26, <1>27, <1>28, <1>29, <1>30, <1>31, <1>32, <1>33, <1>34 DEF Advance

\* The scans of the background task start no execution.
LEMMA TickNoStart ==
  ASSUME TypeOK, HandShape, NEW b \in Thread, Tick(b)
  PROVE  NoStart
<1>0. ControlOK /\ hand \in [Thread -> SUBSET Job]
  BY DEF TypeOK
<1> USE <1>0, OptionAssumption DEF ControlOK, HandShape, EmptyHanded, OneHanded, NoStart,
        Executes, ExecutingSteps
<1>1. ASSUME NEW S, TimeoutScan(b, S)
      PROVE  NoStart
  BY <1>1 DEF TimeoutScan, Idle, GotoEach, stores
<1>2. ASSUME NEW S, StallScan(b, S)
      PROVE  NoStart
  BY <1>2 DEF StallScan, Idle, GotoEach, stores
<1>3. CASE DepsScan(b)
  BY <1>3 DEF DepsScan, Idle, GotoEach, stores
<1>4. ASSUME NEW S, CleanupScan(b, S)
      PROVE  NoStart
  BY <1>4 DEF CleanupScan, Idle, GotoEach, stores
<1> QED BY <1>1, <1>2, <1>3, <1>4 DEF Tick

\* What the background task does with the ids it collected: its steps start no execution.
LEMMA AdvanceTickNoStart ==
  ASSUME TypeOK, HandShape, NEW b \in Thread, AdvanceTick(b)
  PROVE  NoStart
<1>0. ControlOK /\ hand \in [Thread -> SUBSET Job]
  BY DEF TypeOK
<1> USE <1>0, OptionAssumption DEF ControlOK, HandShape, EmptyHanded, OneHanded, NoStart,
        Executes, ExecutingSteps
<1>1. ASSUME NEW j \in Job, TimeoutTake(b, j)
      PROVE  NoStart
  BY <1>1 DEF TimeoutTake, At, TakeFromProcessing, Take, GotoEach, Continue, Return, stores
<1>2. ASSUME NEW j \in Job, StallCount(b, j)
      PROVE  NoStart
  BY <1>2 DEF StallCount, At, Continue, Return, GotoEach, stores
<1>3. CASE TimeoutRelease(b)
  BY <1>3 DEF TimeoutRelease, At, Goto, stores
<1>4. CASE TimeoutIndex(b)
  BY <1>4 DEF TimeoutIndex, IndexNext, At, Goto, stores
<1>5. CASE TimeoutPlace(b)
  BY <1>5 DEF TimeoutPlace, At, PlaceNext, Requeue, Drop, Continue, Return, GotoEach
<1>6. CASE StallRemove(b)
  BY <1>6 DEF StallRemove, At, TakeFromProcessing, Take, Goto, Continue, Return, GotoEach,
     stores
<1>7. CASE StallIndex(b)
  BY <1>7 DEF StallIndex, At, Goto, stores
<1>8. CASE StallPlace(b)
  BY <1>8 DEF StallPlace, At, Drop, Continue, Return, GotoEach
<1>9. CASE DepsMove(b)
  BY <1>9 DEF DepsMove, At, Return
<1>10. CASE CleanupUnindex(b)
  BY <1>10 DEF CleanupUnindex, At, Goto, stores
<1>11. CASE CleanupRemove(b)
  BY <1>11 DEF CleanupRemove, At, Return
<1> QED BY <1>1, <1>2, <1>3, <1>4, <1>5, <1>6, <1>7, <1>8, <1>9, <1>10,
      <1>11 DEF AdvanceTick

\* The passing of time: its steps start no execution.
LEMMA ClockNoStart ==
  ASSUME TypeOK, HandShape, Clock
  PROVE  NoStart
<1>0. ControlOK /\ hand \in [Thread -> SUBSET Job]
  BY DEF TypeOK
<1> USE <1>0, OptionAssumption DEF ControlOK, HandShape, EmptyHanded, OneHanded, NoStart,
        Executes, ExecutingSteps
<1>1. ASSUME NEW j \in Job, BecomesDue(j)
      PROVE  NoStart
  BY <1>1 DEF BecomesDue, stores, threads
<1>2. ASSUME NEW j \in Job, Expires(j)
      PROVE  NoStart
  BY <1>2 DEF Expires, stores, threads
<1> QED BY <1>1, <1>2 DEF Clock

\* Only pull starts the execution of a job.
LEMMA NextNoStart ==
  ASSUME TypeOK, HandShape, [Next]_vars
  PROVE  NoStart \/ \E c \in Client : BeginPull(c)
<1>1. ASSUME NEW c \in Client, Begin(c) PROVE NoStart \/ BeginPull(c)
  BY <1>1, BeginJobCallNoStart, BeginBatchCallNoStart, BeginQueueCallNoStart DEF Begin, Thread
<1>2. ASSUME NEW c \in Client, Advance(c) PROVE NoStart
  BY <1>2, AdvanceNoStart DEF Thread
<1>3. CASE Tick(Background)
  BY <1>3, TickNoStart DEF Thread
<1>4. CASE AdvanceTick(Background)
  BY <1>4, AdvanceTickNoStart DEF Thread
<1>5. CASE Clock
  BY <1>5, ClockNoStart
<1>6. CASE UNCHANGED vars
  BY <1>6 DEF NoStart, Executes, vars, stores, threads
<1> QED BY <1>1, <1>2, <1>3, <1>4, <1>5, <1>6 DEF Next

-----------------------------------------------------------------------------
(* Groups *)

\* All jobs that ack_batch can be given are of one queue.
OneQueue == \A i, j \in Job : QueueOf[i] = QueueOf[j]

\* What ack_batch releases, it releases against the queue of the jobs it has taken.
BatchQueue ==
  \A t \in Thread : pc[t] \in {"acks_take", "acks_release"} =>
    /\ OneQueue
    /\ (pc[t] = "acks_take" /\ arg[t] = None) \/ \A j \in Job : arg[t] = QueueOf[j]

\* A job in execution has its group marked as active, so pull passes the others over.
GroupsMarked ==
  \A j \in Executing : GroupOf[j] # NoGroup => GroupOf[j] \in activeGroups[QueueOf[j]]

GroupSafe == GroupExclusion /\ GroupsMarked

\* A step that starts nothing and releases no group.
LEMMA GroupFrame ==
  ASSUME TypeOK, GroupSafe, NoStart, UNCHANGED activeGroups, TypeOK'
  PROVE  GroupSafe'
<1>1. \A j \in Executing' : j \in Job /\ j \in Executing
  BY ExecutingIs DEF NoStart, TypeOK, Executes
<1> QED BY <1>1 DEF GroupSafe, GroupExclusion, GroupsMarked

\* A step that ends the execution of the jobs in S and releases their groups.
LEMMA GroupRelease ==
  ASSUME TypeOK, GroupSafe, NoStart, TypeOK', NEW q \in Queue, NEW S \in SUBSET Executing,
         ReleaseGroups(q, S), \A j \in S : QueueOf[j] = q /\ j \notin Executing'
  PROVE  GroupSafe'
<1>1. \A j \in Executing' : j \in Job /\ j \in Executing /\ j \notin S
  BY ExecutingIs DEF NoStart, TypeOK, Executes
<1>2. GroupExclusion'
  BY <1>1 DEF GroupSafe, GroupExclusion
<1>3. ASSUME NEW j \in Executing', GroupOf[j] # NoGroup
      PROVE  GroupOf[j] \in activeGroups'[QueueOf[j]]
  <2>1. GroupOf[j] \in activeGroups[QueueOf[j]]
    BY <1>1, <1>3 DEF GroupSafe, GroupsMarked
  <2>2. CASE QueueOf[j] # q
    BY <1>1, <2>1, <2>2, OptionAssumption DEF ReleaseGroups, TypeOK
  <2>3. CASE QueueOf[j] = q
    <3>1. GroupOf[j] \notin Groups(S)
      BY <1>1, <1>3, <2>3 DEF GroupSafe, GroupExclusion, Groups
    <3> QED BY <2>1, <2>3, <3>1, OptionAssumption DEF ReleaseGroups, TypeOK
  <2> QED BY <2>2, <2>3
<1> QED BY <1>2, <1>3 DEF GroupSafe, GroupsMarked

\* pull takes no job of an active group and no two jobs of one group, and marks
\* the groups it takes in the same lock scope.
LEMMA PullGroups ==
  ASSUME TypeOK, HandShape, GroupSafe, TypeOK', NEW c \in Thread, BeginPull(c)
  PROVE  GroupSafe'
<1> USE OptionAssumption
<1>0. PICK q \in Queue, n \in 1..BatchSize : \E S, X : Pull(c, q, n, S, X)
  BY DEF BeginPull
<1>1. PICK S, X : Pull(c, q, n, S, X)
  BY <1>0
<1>2. \A j \in Executing' : j \in Job /\ (j \in Executing \/ j \in S)
  <2>1. \A j : Executes(j)' => Executes(j) \/ j \in S
    BY <1>1 DEF Pull, Idle, Take, Return, Goto, Executes, TypeOK, ControlOK, HandShape,
       EmptyHanded
  <2> QED BY <2>1, ExecutingIs DEF TypeOK, Executes
<1>3. \A j \in S : QueueOf[j] = q /\ GroupOf[j] \notin activeGroups[q]
  BY <1>1 DEF Pull, PoppedJobs, Busy, Reachable, Waiting, On
<1>4. \A i, j \in S : i # j /\ GroupOf[i] = GroupOf[j] => GroupOf[i] = NoGroup
  BY <1>1 DEF Pull, PoppedJobs
<1>5. activeGroups' = [activeGroups EXCEPT ![q] = @ \cup Groups(S)]
  BY <1>1 DEF Pull
<1>6. GroupExclusion'
  BY <1>2, <1>3, <1>4 DEF GroupSafe, GroupExclusion, GroupsMarked
<1>7. GroupsMarked'
  BY <1>2, <1>3, <1>5 DEF GroupSafe, GroupsMarked, Groups, TypeOK
<1> QED BY <1>6, <1>7 DEF GroupSafe

\* Only pull, ack, ack_batch and fail change the active groups.
LEMMA GroupSteps ==
  ASSUME [Next]_vars
  PROVE  \/ UNCHANGED activeGroups
         \/ \E c \in Client : \/ BeginPull(c) \/ AckRelease(c) \/ AckBatchRelease(c)
                              \/ FailPlace(c) \/ FailDiscard(c)
<1>1. ASSUME NEW c \in Client, NEW j \in Job, BeginJobCall(c, j)
      PROVE  UNCHANGED activeGroups
  BY <1>1 DEF BeginJobCall, Push, Ack, Fail, Cancel, MoveToDelayed, Promote, Discard,
     Heartbeat, resources, limits
<1>2. ASSUME NEW c \in Client, BeginBatchCall(c)
      PROVE  UNCHANGED activeGroups
  BY <1>2 DEF BeginBatchCall, PushBatch, AckBatch, resources, limits
<1>3. ASSUME NEW c \in Client, NEW q \in Queue, BeginQueueCall(c, q)
      PROVE  UNCHANGED activeGroups
  BY <1>3 DEF BeginQueueCall, RetryDlq, CleanFailed, CleanWaiting, CleanCompleted, PurgeDlq,
     Drain, Obliterate, Pause, Resume, ClearConcurrency, SetConcurrency, resources, limits
<1>4. ASSUME NEW c \in Client, Advance(c)
      PROVE  UNCHANGED activeGroups \/ AckRelease(c) \/ AckBatchRelease(c)
             \/ FailPlace(c) \/ FailDiscard(c)
  BY <1>4 DEF Advance, PushDuplicate, PushInsert, PushPersisted, PushRollback, Unindex,
     PushBatchCheck, PushBatchInsert, PullIndex, AckBatchTake, AckBatchIndex,
     ObliterateRemove, PullInsert, AckRecord, AckIndex, AckBatchRecord, FailIndex,
     FailForget, CancelProcessing, CancelRelease, CancelWaiting, CancelQueued, DelayIndex,
     DelayPlace, PromoteQueued, DiscardQueued, DiscardProcessing, DiscardPlace,
     DiscardIndex, PurgeUnindex, ObliterateCollect, IndexNext, resources, limits
<1>5. ASSUME NEW b \in Thread, Tick(b)
      PROVE  UNCHANGED activeGroups
  BY <1>5 DEF Tick, TimeoutScan, StallScan, DepsScan, CleanupScan, resources, limits
<1>6. ASSUME NEW b \in Thread, AdvanceTick(b)
      PROVE  UNCHANGED activeGroups
  BY <1>6 DEF AdvanceTick, TimeoutTake, StallCount, TimeoutRelease, TimeoutIndex,
     TimeoutPlace, StallRemove, StallIndex, StallPlace, DepsMove, CleanupUnindex,
     CleanupRemove, IndexNext, resources, limits
<1>7. ASSUME Clock
      PROVE  UNCHANGED activeGroups
  BY <1>7 DEF Clock, BecomesDue, Expires, resources, limits
<1>8. CASE UNCHANGED vars
  BY <1>8 DEF vars, resources, limits
<1> QED BY <1>1, <1>2, <1>3, <1>4, <1>5, <1>6, <1>7, <1>8 DEF Next, Begin, Thread

-----------------------------------------------------------------------------
(* ack_batch *)

\* A step that brings no thread to the steps of ack_batch.
SameBatch ==
  \A t \in Thread : pc'[t] \in {"acks_take", "acks_release"} => pc'[t] = pc[t] /\ arg'[t] = arg[t]

\* Only ack_batch brings a thread to the steps of ack_batch.
LEMMA BatchSteps ==
  ASSUME ControlOK, [Next]_vars
  PROVE  \/ SameBatch
         \/ \E c \in Client : \/ \E S \in SUBSET Job : AckBatch(c, S)
                              \/ \E j \in Job : AckBatchTake(c, j) \/ AckBatchIndex(c, j)
<1> USE DEF ControlOK, SameBatch
<1>1. ASSUME NEW c \in Client, NEW j \in Job, BeginJobCall(c, j)
      PROVE  SameBatch
  BY <1>1 DEF BeginJobCall, Push, Ack, Fail, Cancel, MoveToDelayed, Promote, Discard,
     Heartbeat, Idle, At, Return, Goto, GotoWith, GotoEach, Continue, threads,
     TakeFromProcessing, IndexNext
<1>2. ASSUME NEW c \in Client, BeginPull(c)
      PROVE  SameBatch
  BY <1>2 DEF BeginPull, Pull, Idle, At, Return, Goto, GotoWith, GotoEach, Continue,
     threads, TakeFromProcessing, IndexNext
<1>3. ASSUME NEW c \in Client, BeginBatchCall(c)
      PROVE  SameBatch \/ \E S \in SUBSET Job : AckBatch(c, S)
  BY <1>3 DEF BeginBatchCall, PushBatch, Idle, At, Return, Goto, GotoWith, GotoEach,
     Continue, threads, TakeFromProcessing, IndexNext
<1>4. ASSUME NEW c \in Client, NEW q \in Queue, BeginQueueCall(c, q)
      PROVE  SameBatch
  BY <1>4 DEF BeginQueueCall, RetryDlq, CleanFailed, CleanWaiting, CleanCompleted, PurgeDlq,
     Drain, Obliterate, Pause, Resume, ClearConcurrency, SetConcurrency, Idle, At, Return,
     Goto, GotoWith, GotoEach, Continue, threads, TakeFromProcessing, IndexNext
<1>5. ASSUME NEW c \in Client, Advance(c)
      PROVE  SameBatch \/ \E j \in Job : AckBatchTake(c, j) \/ AckBatchIndex(c, j)
  <2>1. ASSUME NEW j \in Job, PullIndex(c, j) \/ ObliterateRemove(c, j)
        PROVE  SameBatch
    BY <2>1 DEF PullIndex, ObliterateRemove, Idle, At, Return, Goto, GotoWith, GotoEach,
       Continue, threads, TakeFromProcessing, IndexNext
  <2>2. CASE PushDuplicate(c) \/ PushPersisted(c) \/ PushRollback(c) \/ Unindex(c)
    BY <2>2 DEF PushDuplicate, PushPersisted, PushRollback, Unindex, At, Return, Goto
  <2>10. CASE PushInsert(c)
    BY <2>10 DEF PushInsert, At, Return, GotoWith
  <2>11. CASE PushBatchCheck(c) \/ PushBatchInsert(c)
    BY <2>11 DEF PushBatchCheck, PushBatchInsert, At, Return, GotoEach
  <2>3. CASE PullInsert(c) \/ AckRelease(c) \/ AckRecord(c) \/ AckIndex(c)
    BY <2>3 DEF PullInsert, AckRelease, AckRecord, AckIndex, Idle, At, Return, Goto,
       GotoWith, GotoEach, Continue, threads, TakeFromProcessing, IndexNext
  <2>4. CASE AckBatchRelease(c) \/ AckBatchRecord(c)
    BY <2>4 DEF AckBatchRelease, AckBatchRecord, Idle, At, Return, Goto, GotoWith, GotoEach,
       Continue, threads, TakeFromProcessing, IndexNext
  <2>5. CASE FailIndex(c) \/ FailPlace(c) \/ FailDiscard(c) \/ FailForget(c)
    BY <2>5 DEF FailIndex, FailPlace, FailDiscard, FailForget, Idle, At, Return, Goto,
       GotoWith, GotoEach, Continue, threads, TakeFromProcessing, IndexNext
  <2>6. CASE CancelProcessing(c) \/ CancelRelease(c) \/ CancelWaiting(c) \/ CancelQueued(c)
    BY <2>6 DEF CancelProcessing, CancelRelease, CancelWaiting, CancelQueued, Idle, At,
       Return, Goto, GotoWith, GotoEach, Continue, threads, TakeFromProcessing, IndexNext
  <2>7. CASE DelayIndex(c) \/ DelayPlace(c) \/ PromoteQueued(c)
    BY <2>7 DEF DelayIndex, DelayPlace, PromoteQueued, Idle, At, Return, Goto, GotoWith,
       GotoEach, Continue, threads, TakeFromProcessing, IndexNext
  <2>8. CASE DiscardQueued(c) \/ DiscardProcessing(c) \/ DiscardPlace(c) \/ DiscardIndex(c)
    BY <2>8 DEF DiscardQueued, DiscardProcessing, DiscardPlace, DiscardIndex, Idle, At,
       Return, Goto, GotoWith, GotoEach, Continue, threads, TakeFromProcessing, IndexNext
  <2>9. CASE PurgeUnindex(c) \/ ObliterateCollect(c)
    BY <2>9 DEF PurgeUnindex, ObliterateCollect, Idle, At, Return, Goto, GotoWith, GotoEach,
       Continue, threads, TakeFromProcessing, IndexNext
  <2> QED BY <1>5, <2>1, <2>2, <2>3, <2>4, <2>5, <2>6, <2>7, <2>8, <2>9, <2>10, <2>11
          DEF Advance
<1>6. ASSUME NEW b \in Thread, Tick(b)
      PROVE  SameBatch
  BY <1>6 DEF Tick, TimeoutScan, StallScan, DepsScan, CleanupScan, Idle, At, Return, Goto,
     GotoWith, GotoEach, Continue, threads, TakeFromProcessing, IndexNext
<1>7. ASSUME NEW b \in Thread, AdvanceTick(b)
      PROVE  SameBatch
  <2>1. ASSUME NEW j \in Job, TimeoutTake(b, j) \/ StallCount(b, j)
        PROVE  SameBatch
    BY <2>1 DEF TimeoutTake, StallCount, Idle, At, Return, Goto, GotoWith, GotoEach,
       Continue, threads, TakeFromProcessing, IndexNext
  <2>2. CASE TimeoutRelease(b) \/ TimeoutIndex(b) \/ TimeoutPlace(b)
    BY <2>2 DEF TimeoutRelease, TimeoutIndex, TimeoutPlace, Idle, At, Return, Goto,
       GotoWith, GotoEach, Continue, threads, TakeFromProcessing, IndexNext
  <2>3. CASE StallRemove(b) \/ StallIndex(b) \/ StallPlace(b)
    BY <2>3 DEF StallRemove, StallIndex, StallPlace, Idle, At, Return, Goto, GotoWith,
       GotoEach, Continue, threads, TakeFromProcessing, IndexNext
  <2>4. CASE DepsMove(b) \/ CleanupUnindex(b) \/ CleanupRemove(b)
    BY <2>4 DEF DepsMove, CleanupUnindex, CleanupRemove, Idle, At, Return, Goto, GotoWith,
       GotoEach, Continue, threads, TakeFromProcessing, IndexNext
  <2> QED BY <1>7, <2>1, <2>2, <2>3, <2>4 DEF AdvanceTick
<1>8. ASSUME Clock
      PROVE  SameBatch
  BY <1>8 DEF Clock, BecomesDue, Expires, Idle, At, Return, Goto, GotoWith, GotoEach,
     Continue, threads, TakeFromProcessing, IndexNext
<1>9. CASE UNCHANGED vars
  BY <1>9 DEF vars, threads
<1> QED BY <1>1, <1>2, <1>3, <1>4, <1>5, <1>6, <1>7, <1>8, <1>9 DEF Next, Begin, Thread

\* With one queue, or without ack_batch, releases go to the right queue.
LEMMA NextBatchQueue ==
  ASSUME "ack_batch" \in Calls => OneQueue, TypeOK, HandShape, BatchQueue, [Next]_vars
  PROVE  BatchQueue'
<1> USE OptionAssumption DEF TypeOK, ControlOK, HandShape, BatchQueue
<1>1. CASE SameBatch
  BY <1>1 DEF SameBatch, OneQueue
<1>2. ASSUME NEW c \in Client, NEW S \in SUBSET Job, AckBatch(c, S)
      PROVE  BatchQueue'
  BY <1>2 DEF AckBatch, Idle, GotoEach, Thread, OneQueue
<1>3. ASSUME NEW c \in Client, NEW j \in Job, AckBatchTake(c, j)
      PROVE  BatchQueue'
  BY <1>3 DEF AckBatchTake, AckBatchGoesOn, At, Thread, OneQueue
<1>4. ASSUME NEW c \in Client, NEW j \in Job, AckBatchIndex(c, j)
      PROVE  BatchQueue'
  BY <1>4 DEF AckBatchIndex, AckBatchGoesOn, At, Thread, OneQueue
<1> QED BY <1>1, <1>2, <1>3, <1>4, BatchSteps

\* A job in the hand of a thread has no other owner: it executes no more once the
\* thread has let go of it or has left the steps of an execution.
LEMMA LetGo ==
  ASSUME Owned, NEW c \in Thread, NEW j \in hand[c], processing' \subseteq processing,
         \A t \in Thread \ {c} : hand'[t] = hand[t],
         pc'[c] \notin ExecutingSteps \/ j \notin hand'[c]
  PROVE  ~Executes(j)'
<1>1. j \notin processing /\ \A t \in Thread \ {c} : j \notin hand[t]
  BY DEF Owned, SingleOwner
<1> QED BY <1>1 DEF Executes

\* The jobs whose resources are given back were in execution until this step.
LEMMA Ended ==
  ASSUME Owned, HandShape, NEW c \in Client,
         AckRelease(c) \/ FailPlace(c) \/ FailDiscard(c)
  PROVE  \E j \in Executing : /\ j \in Job /\ j \notin Executing'
                              /\ ReleaseGroups(QueueOf[j], {j}) /\ ReleaseSlots(QueueOf[j], 1)
<1>0. c \in Thread /\ pc \in [Thread -> Step] /\ hand \in [Thread -> SUBSET Job]
  BY DEF Thread, Owned, TypeOK, ControlOK
<1> USE <1>0 DEF ExecutingSteps
<1>1. CASE AckRelease(c)
  <2>0. pc[c] \in OneHanded /\ \E i \in Job : hand[c] = {i}
    BY <1>1 DEF AckRelease, At, HandShape, OneHanded
  <2>1. PICK j \in hand[c] : /\ AckRelease(c) /\ j \in Job /\ hand[c] = {j}
                             /\ ReleaseGroups(QueueOf[j], {j}) /\ ReleaseSlots(QueueOf[j], 1)
    BY <1>1, <2>0 DEF AckRelease
  <2>2. Executes(j)
    BY <2>1 DEF AckRelease, At, Executes
  <2>3. processing' = processing /\ \A t \in Thread \ {c} : hand'[t] = hand[t]
    BY <2>1 DEF AckRelease, At, Goto, stores
  <2>4. pc'[c] \notin ExecutingSteps
    BY <2>1 DEF AckRelease, At, Goto, stores
  <2>5. ~Executes(j)'
    BY <2>3, <2>4, LetGo
  <2> QED BY <2>1, <2>2, <2>5, ExecutingIs
<1>2. CASE FailPlace(c)
  <2>0. pc[c] \in OneHanded /\ \E i \in Job : hand[c] = {i}
    BY <1>2 DEF FailPlace, At, HandShape, OneHanded
  <2>1. PICK j \in hand[c] : /\ FailPlace(c) /\ j \in Job /\ hand[c] = {j}
                             /\ ReleaseGroups(QueueOf[j], {j}) /\ ReleaseSlots(QueueOf[j], 1)
    BY <1>2, <2>0 DEF FailPlace
  <2>2. Executes(j)
    BY <2>1 DEF FailPlace, At, Executes
  <2>3. processing' = processing /\ \A t \in Thread \ {c} : hand'[t] = hand[t]
    BY <2>1 DEF FailPlace, At, Drop, Return
  <2>4. j \notin hand'[c]
    BY <2>1 DEF FailPlace, At, Drop, Return
  <2>5. ~Executes(j)'
    BY <2>3, <2>4, LetGo
  <2> QED BY <2>1, <2>2, <2>5, ExecutingIs
<1>3. CASE FailDiscard(c)
  <2>0. pc[c] \in OneHanded /\ \E i \in Job : hand[c] = {i}
    BY <1>3 DEF FailDiscard, At, HandShape, OneHanded
  <2>1. PICK j \in hand[c] : /\ FailDiscard(c) /\ j \in Job /\ hand[c] = {j}
                             /\ ReleaseGroups(QueueOf[j], {j}) /\ ReleaseSlots(QueueOf[j], 1)
    BY <1>3, <2>0 DEF FailDiscard
  <2>2. Executes(j)
    BY <2>1 DEF FailDiscard, At, Executes
  <2>3. processing' = processing /\ \A t \in Thread \ {c} : hand'[t] = hand[t]
    BY <2>1 DEF FailDiscard, At, Drop, GotoWith, stores
  <2>4. j \notin hand'[c]
    BY <2>1 DEF FailDiscard, At, Drop, GotoWith, stores
  <2>5. ~Executes(j)'
    BY <2>3, <2>4, LetGo
  <2> QED BY <2>1, <2>2, <2>5, ExecutingIs
<1> QED BY <1>1, <1>2, <1>3

\* The same of a batch.
LEMMA BatchEnded ==
  ASSUME Owned, BatchQueue, NEW c \in Client, AckBatchRelease(c)
  PROVE  /\ hand[c] \subseteq Executing
         /\ \A j \in hand[c] : j \in Job /\ QueueOf[j] = arg[c] /\ j \notin Executing'
         /\ ReleaseGroups(arg[c], hand[c]) /\ ReleaseSlots(arg[c], Cardinality(hand[c]))
<1> USE DEF Owned, TypeOK, ControlOK, SingleOwner, BatchQueue, ExecutingSteps, Executes,
        Thread
<1>1. \A j \in hand[c] : j \in Job /\ QueueOf[j] = arg[c] /\ Executes(j) /\ ~Executes(j)'
  BY DEF AckBatchRelease, At, Goto, stores
<1> QED BY <1>1, ExecutingIs DEF AckBatchRelease

\* No step lets two jobs of a group run.
LEMMA NextGroups ==
  ASSUME Owned, HandShape, BatchQueue, GroupSafe, [Next]_vars
  PROVE  GroupSafe'
<1> USE OptionAssumption DEF Owned
<1>1. TypeOK'
  BY NextType
<1>2. CASE \E c \in Client : BeginPull(c)
  BY <1>1, <1>2, PullGroups DEF Thread
<1>3. CASE NoStart /\ UNCHANGED activeGroups
  BY <1>1, <1>3, GroupFrame
<1>4. ASSUME NoStart, NEW c \in Client, AckRelease(c) \/ FailPlace(c) \/ FailDiscard(c)
      PROVE  GroupSafe'
  <2>1. PICK j \in Executing : /\ j \in Job /\ j \notin Executing'
                               /\ ReleaseGroups(QueueOf[j], {j})
    BY <1>4, Ended
  <2> QED BY <1>1, <1>4, <2>1, GroupRelease
<1>5. ASSUME NoStart, NEW c \in Client, AckBatchRelease(c)
      PROVE  GroupSafe'
  <2>1. /\ hand[c] \subseteq Executing /\ ReleaseGroups(arg[c], hand[c])
        /\ \A j \in hand[c] : j \in Job /\ QueueOf[j] = arg[c] /\ j \notin Executing'
    BY <1>5, BatchEnded
  <2>2. CASE hand[c] = {}
    <3>1. UNCHANGED activeGroups
      BY <2>1, <2>2 DEF ReleaseGroups, Groups, TypeOK
    <3> QED BY <1>1, <1>5, <3>1, GroupFrame
  <2>3. CASE hand[c] # {}
    <3>1. arg[c] \in Queue
      BY <2>1, <2>3
    <3> QED BY <1>1, <1>5, <2>1, <3>1, GroupRelease
  <2> QED BY <2>2, <2>3
<1> QED BY <1>2, <1>3, <1>4, <1>5, NextNoStart, GroupSteps

\* Nothing is in execution at the start.
LEMMA InitExclusion == Init => BatchQueue /\ GroupSafe
<1> SUFFICES ASSUME Init PROVE BatchQueue /\ GroupSafe
  OBVIOUS
<1>1. \A j : ~Executes(j)
  BY DEF Init, Executes
<1>2. BatchQueue
  BY DEF Init, BatchQueue
<1> QED BY <1>1, <1>2, ExecutingIs DEF GroupSafe, GroupExclusion, GroupsMarked

\* "Jobs with the same group_id are processed one at a time": for any number of
\* clients, jobs, queues and groups, if ack_batch is not called with ids of more
\* than one queue (the run mixed_ack shows what happens otherwise).
THEOREM GroupsExclusive ==
  ASSUME "ack_batch" \in Calls => OneQueue
  PROVE  Spec => []GroupExclusion
<1>1. Init => Owned /\ HandShape /\ BatchQueue /\ GroupSafe
  BY InitOwned, InitHand, InitExclusion
<1>2. Owned /\ HandShape /\ BatchQueue /\ GroupSafe /\ [Next]_vars
        => (Owned /\ HandShape /\ BatchQueue /\ GroupSafe)'
  BY NextOwned, NextHand, NextBatchQueue, NextGroups DEF Owned
<1>3. GroupSafe => GroupExclusion
  BY DEF GroupSafe
<1> QED BY <1>1, <1>2, <1>3, PTL DEF Spec


-----------------------------------------------------------------------------
(* Concurrency slots *)

\* The counter covers the jobs in execution, and does not exceed the limit.  (It
\* may be above their number: the stall scan and obliterate keep slots.)
SlotsCover ==
  \A q \in Queue : limit[q] # NoLimit =>
    Cardinality(On(q, Executing)) <= current[q] /\ current[q] <= limit[q]

\* Only pull, the ends of executions, and obliterate change slots or limits.
LEMMA SlotSteps ==
  ASSUME "set_concurrency" \notin Calls, [Next]_vars
  PROVE  \/ UNCHANGED <<limit, current>>
         \/ TimeoutRelease(Background)
         \/ \E c \in Client : \/ BeginPull(c) \/ (\E q \in Queue : Obliterate(c, q))
                              \/ AckRelease(c) \/ FailPlace(c) \/ FailDiscard(c)
                              \/ CancelRelease(c) \/ DelayPlace(c) \/ DiscardPlace(c)
                              \/ AckBatchRelease(c)
<1>1. ASSUME NEW c \in Client, NEW j \in Job, BeginJobCall(c, j)
      PROVE  UNCHANGED <<limit, current>>
  BY <1>1 DEF BeginJobCall, Push, Ack, Fail, Cancel, MoveToDelayed, Promote, Discard,
     Heartbeat, Idle, resources, limits
<1>2. ASSUME NEW c \in Client, BeginBatchCall(c)
      PROVE  UNCHANGED <<limit, current>>
  BY <1>2 DEF BeginBatchCall, PushBatch, AckBatch, Idle, resources, limits
<1>3. ASSUME NEW c \in Client, NEW q \in Queue, BeginQueueCall(c, q)
      PROVE  UNCHANGED <<limit, current>> \/ Obliterate(c, q)
  BY <1>3 DEF BeginQueueCall, RetryDlq, CleanFailed, CleanWaiting, CleanCompleted, PurgeDlq,
     Drain, Pause, Resume, ClearConcurrency, SetConcurrency, Idle, resources, limits
<1>4. ASSUME NEW c \in Client, Advance(c)
      PROVE  \/ UNCHANGED <<limit, current>>
             \/ AckRelease(c) \/ FailPlace(c) \/ FailDiscard(c)
             \/ CancelRelease(c) \/ DelayPlace(c) \/ DiscardPlace(c)
             \/ AckBatchRelease(c)
  BY <1>4 DEF Advance, PushDuplicate, PushInsert, PushPersisted, PushRollback, Unindex,
     PushBatchCheck, PushBatchInsert, PullIndex, AckBatchTake, AckBatchIndex,
     ObliterateRemove, PullInsert, AckRecord, AckIndex, AckBatchRecord, FailIndex,
     FailForget, CancelProcessing, CancelWaiting, CancelQueued, DelayIndex, PromoteQueued,
     DiscardQueued, DiscardProcessing, DiscardIndex, PurgeUnindex, ObliterateCollect,
     IndexNext, Idle, resources, limits
<1>5. ASSUME NEW b \in Thread, Tick(b)
      PROVE  UNCHANGED <<limit, current>>
  BY <1>5 DEF Tick, TimeoutScan, StallScan, DepsScan, CleanupScan, Idle, resources, limits
<1>6. ASSUME NEW b \in Thread, AdvanceTick(b)
      PROVE  UNCHANGED <<limit, current>> \/ TimeoutRelease(b)
  BY <1>6 DEF AdvanceTick, TimeoutTake, StallCount, TimeoutIndex, TimeoutPlace, StallRemove,
     StallIndex, StallPlace, DepsMove, CleanupUnindex, CleanupRemove, IndexNext, Idle,
     resources, limits
<1>7. ASSUME Clock
      PROVE  UNCHANGED <<limit, current>>
  BY <1>7 DEF Clock, BecomesDue, Expires, Idle, resources, limits
<1>8. CASE UNCHANGED vars
  BY <1>8 DEF vars, resources, limits
<1> QED BY <1>1, <1>2, <1>3, <1>4, <1>5, <1>6, <1>7, <1>8 DEF Next, Begin, Thread

\* The jobs in execution in a queue can be counted.
LEMMA ExecutingCount ==
  ASSUME NEW E, E \subseteq Job, NEW q
  PROVE  IsFiniteSet(On(q, E)) /\ Cardinality(On(q, E)) \in Nat
BY JobAssumption, FS_Subset, FS_CardinalityType DEF On

\* A step that starts nothing, and leaves the slots alone or drops the limiter.
LEMMA SlotFrame ==
  ASSUME TypeOK, TypeOK', SlotsCover, NoStart,
         \A q \in Queue : \/ limit'[q] = NoLimit
                          \/ limit'[q] = limit[q] /\ current'[q] = current[q]
  PROVE  SlotsCover'
<1>1. Executing' \subseteq Executing /\ Executing \subseteq Job
  BY ExecutingIs DEF NoStart, TypeOK, Executes
<1>2. ASSUME NEW q \in Queue, limit'[q] # NoLimit
      PROVE  Cardinality(On(q, Executing')) <= current'[q] /\ current'[q] <= limit'[q]
  <2>1. On(q, Executing') \subseteq On(q, Executing)
    BY <1>1 DEF On
  <2>2. Cardinality(On(q, Executing')) <= Cardinality(On(q, Executing))
    BY <1>1, <2>1, ExecutingCount, FS_Subset
  <2>3. Cardinality(On(q, Executing)) \in Nat /\ Cardinality(On(q, Executing')) \in Nat
    BY <1>1, ExecutingCount
  <2> QED BY <1>2, <2>2, <2>3 DEF SlotsCover, TypeOK, NoLimit
<1> QED BY <1>2 DEF SlotsCover, On

\* A step that ends the execution of the jobs in S and gives as many slots back.
LEMMA SlotRelease ==
  ASSUME TypeOK, TypeOK', SlotsCover, NoStart, UNCHANGED limit, NEW q \in Queue,
         NEW S \in SUBSET Executing, ReleaseSlots(q, Cardinality(S)),
         \A j \in S : QueueOf[j] = q /\ j \notin Executing'
  PROVE  SlotsCover'
<1>1. Executing' \subseteq Executing /\ Executing \subseteq Job
  BY ExecutingIs DEF NoStart, TypeOK, Executes
<1>2. ASSUME NEW p \in Queue, limit'[p] # NoLimit
      PROVE  Cardinality(On(p, Executing')) <= current'[p] /\ current'[p] <= limit'[p]
  <2> DEFINE Old == On(p, Executing)
             New == On(p, Executing')
  <2>1. /\ IsFiniteSet(Old) /\ Cardinality(Old) \in Nat /\ Cardinality(New) \in Nat
        /\ New \subseteq Old
    BY <1>1, ExecutingCount DEF On
  <2>2. Cardinality(Old) <= current[p] /\ current[p] <= limit[p]
    BY <1>2 DEF SlotsCover
  <2>3. CASE p # q
    <3>1. current'[p] = current[p]
      BY <2>3 DEF ReleaseSlots, TypeOK
    <3>2. Cardinality(New) <= Cardinality(Old)
      BY <2>1, FS_Subset
    <3> QED BY <2>1, <2>2, <3>1, <3>2, LimitAssumption DEF TypeOK, NoLimit
  <2>4. CASE p = q
    <3>1. S \subseteq Old /\ New \subseteq Old \ S
      BY <2>1, <2>4, <1>1 DEF On
    <3>2. IsFiniteSet(S) /\ Cardinality(S) \in Nat
      BY <2>1, <3>1, FS_Subset, FS_CardinalityType
    <3>3. Cardinality(New) <= Cardinality(Old \ S) /\ IsFiniteSet(Old \ S)
      BY <2>1, <3>1, FS_Subset
    <3>4. Cardinality(Old \ S) = Cardinality(Old) - Cardinality(S)
      <4>1. Old \cap S = S
        BY <3>1
      <4> QED BY <2>1, <4>1, FS_Difference
    <3>5. Cardinality(Old \ S) \in Nat
      BY <3>3, FS_CardinalityType
    <3>6. current[q] \in Nat /\ limit[q] # NoLimit
      BY <1>2, <2>4 DEF TypeOK
    <3>7. current'[q] = current[q] - Cardinality(S)
      BY <2>1, <2>2, <2>4, <3>2, <3>4, <3>5, <3>6 DEF ReleaseSlots, TypeOK
    <3> QED BY <2>1, <2>2, <2>4, <3>2, <3>3, <3>4, <3>5, <3>6, <3>7 DEF TypeOK, NoLimit
  <2> QED BY <2>3, <2>4
<1> QED BY <1>2 DEF SlotsCover, On

\* pull takes no more jobs than there are free slots, and counts them.
LEMMA PullSlots ==
  ASSUME TypeOK, HandShape, SlotsCover, NEW c \in Thread, BeginPull(c)
  PROVE  SlotsCover'
<1> USE OptionAssumption
<1>0. PICK q \in Queue, n \in 1..BatchSize : \E S, X : Pull(c, q, n, S, X)
  BY DEF BeginPull
<1>1. PICK S, X : Pull(c, q, n, S, X)
  BY <1>0
<1>2. S \subseteq Job /\ Executing \subseteq Job /\ Executing' \subseteq Executing \cup S
  <2>1. \A j : Executes(j)' => Executes(j) \/ j \in S
    BY <1>1 DEF Pull, Idle, Take, Return, Goto, Executes, TypeOK, ControlOK, HandShape,
       EmptyHanded
  <2>2. S \subseteq Job
    BY <1>1 DEF Pull, Reachable, Waiting, On, TypeOK
  <2> QED BY <2>1, <2>2, ExecutingIs DEF TypeOK, Executes
<1>3. /\ \A j \in S : QueueOf[j] = q
      /\ Cardinality(S) <= Slots(q, n) /\ limit' = limit
      /\ current' = [current EXCEPT ![q] =
                       IF limit[q] = NoLimit THEN @ ELSE @ + Cardinality(S)]
  BY <1>1 DEF Pull, Reachable, Waiting, On
<1>4. IsFiniteSet(S) /\ Cardinality(S) \in Nat
  BY <1>2, JobAssumption, FS_Subset, FS_CardinalityType
<1>5. ASSUME NEW p \in Queue, limit'[p] # NoLimit
      PROVE  Cardinality(On(p, Executing')) <= current'[p] /\ current'[p] <= limit'[p]
  <2> DEFINE Old == On(p, Executing)
             New == On(p, Executing')
  <2>1. /\ IsFiniteSet(Old) /\ Cardinality(Old) \in Nat /\ Cardinality(New) \in Nat
    BY <1>2, ExecutingCount
  <2>2. Cardinality(Old) <= current[p] /\ current[p] <= limit[p]
    BY <1>3, <1>5 DEF SlotsCover
  <2>3. current[p] \in Nat /\ limit[p] \in Int
    BY <1>3, <1>5 DEF TypeOK, NoLimit
  <2>4. CASE p # q
    <3>1. New \subseteq Old
      BY <1>2, <1>3, <2>4 DEF On
    <3>2. Cardinality(New) <= Cardinality(Old)
      BY <2>1, <3>1, FS_Subset
    <3>3. current'[p] = current[p]
      BY <1>3, <2>4 DEF TypeOK
    <3> QED BY <1>3, <2>1, <2>2, <2>3, <3>2, <3>3
  <2>5. CASE p = q
    <3>1. New \subseteq Old \cup S
      BY <1>2, <1>3, <2>5 DEF On
    <3>2. /\ IsFiniteSet(Old \cup S)
          /\ Cardinality(Old \cup S) <= Cardinality(Old) + Cardinality(S)
      <4>1. /\ IsFiniteSet(Old \cup S) /\ IsFiniteSet(Old \cap S)
            /\ Cardinality(Old \cup S)
                 = Cardinality(Old) + Cardinality(S) - Cardinality(Old \cap S)
        BY <2>1, <1>4, FS_Union, FS_Intersection
      <4>2. Cardinality(Old \cap S) \in Nat
        BY <4>1, FS_CardinalityType
      <4> HIDE DEF Old
      <4> QED BY <1>4, <2>1, <4>1, <4>2
    <3>3. Cardinality(New) <= Cardinality(Old \cup S) /\ Cardinality(Old \cup S) \in Nat
      BY <3>1, <3>2, FS_Subset, FS_CardinalityType
    <3>4. current'[q] = current[q] + Cardinality(S)
      BY <1>3, <1>5, <2>5 DEF TypeOK
    <3>5. Cardinality(S) <= limit[q] - current[q]
      BY <1>3, <1>4, <1>5, <2>3, <2>5 DEF Slots
    <3> QED BY <1>3, <1>4, <2>1, <2>2, <2>3, <2>5, <3>2, <3>3, <3>4, <3>5
  <2> QED BY <2>4, <2>5
<1> QED BY <1>5 DEF SlotsCover, On

\* cancel, move_to_delayed, discard and the timeout scan give back the slot of
\* a job that was in execution until this step.
LEMMA EndedKeepingGroup ==
  ASSUME Owned, HandShape, NEW t \in Thread,
         CancelRelease(t) \/ DelayPlace(t) \/ DiscardPlace(t) \/ TimeoutRelease(t)
  PROVE  \E j \in Executing : /\ j \in Job /\ j \notin Executing'
                              /\ ReleaseSlots(QueueOf[j], 1)
<1> USE DEF Owned, TypeOK, ControlOK, SingleOwner, HandShape, OneHanded, ExecutingSteps,
        Executes
<1>1. PICK j \in Job : hand[t] = {j} /\ ReleaseSlots(QueueOf[j], 1)
  <2>1. PICK i \in Job : hand[t] = {i}
    BY DEF CancelRelease, DelayPlace, DiscardPlace, TimeoutRelease, At
  <2>2. ReleaseSlots(QueueOf[i], 1)
    BY <2>1 DEF CancelRelease, DelayPlace, DiscardPlace, TimeoutRelease
  <2> QED BY <2>1, <2>2
<1>2. Executes(j)
  BY <1>1 DEF CancelRelease, DelayPlace, DiscardPlace, TimeoutRelease, At
<1>3. CASE CancelRelease(t)
  BY <1>1, <1>2, <1>3, ExecutingIs DEF CancelRelease, Drop, Goto, stores
<1>4. CASE DelayPlace(t)
  BY <1>1, <1>2, <1>4, ExecutingIs DEF DelayPlace, Drop, Return
<1>5. CASE DiscardPlace(t)
  BY <1>1, <1>2, <1>5, ExecutingIs DEF DiscardPlace, Drop, Goto
<1>6. CASE TimeoutRelease(t)
  BY <1>1, <1>2, <1>6, ExecutingIs DEF TimeoutRelease, Goto, stores
<1> QED BY <1>3, <1>4, <1>5, <1>6

\* No step exceeds the limit or loses count of a running job.
LEMMA NextSlots ==
  ASSUME "set_concurrency" \notin Calls, Owned, HandShape, BatchQueue, SlotsCover, [Next]_vars
  PROVE  SlotsCover'
<1> USE OptionAssumption DEF Owned
<1>1. TypeOK'
  BY NextType
<1>2. CASE \E c \in Client : BeginPull(c)
  BY <1>2, PullSlots DEF Thread
<1>3. CASE NoStart /\ UNCHANGED <<limit, current>>
  BY <1>1, <1>3, SlotFrame
<1>4. ASSUME NoStart, NEW c \in Client, NEW q \in Queue, Obliterate(c, q)
      PROVE  SlotsCover'
  <2>1. /\ limit' = [limit EXCEPT ![q] = NoLimit]
        /\ current' = [current EXCEPT ![q] = 0]
    BY <1>4 DEF Obliterate
  <2>2. \A p \in Queue : \/ limit'[p] = NoLimit
                         \/ limit'[p] = limit[p] /\ current'[p] = current[p]
    BY <2>1 DEF TypeOK
  <2>3. TypeOK /\ SlotsCover /\ NoStart
    BY <1>4
  <2> QED BY <1>1, <2>2, <2>3, SlotFrame
<1>5. ASSUME NoStart, UNCHANGED limit, NEW j \in Executing, j \in Job, j \notin Executing',
             ReleaseSlots(QueueOf[j], 1)
      PROVE  SlotsCover'
  <2>1. Cardinality({j}) = 1
    BY FS_Singleton
  <2> QED BY <1>1, <1>5, <2>1, SlotRelease
<1>6. ASSUME NoStart, NEW c \in Client, AckRelease(c) \/ FailPlace(c) \/ FailDiscard(c)
      PROVE  SlotsCover'
  <2>1. UNCHANGED limit
    BY <1>6 DEF AckRelease, FailPlace, FailDiscard
  <2> QED BY <1>5, <1>6, <2>1, Ended
<1>7. ASSUME NoStart, NEW t \in Thread,
             CancelRelease(t) \/ DelayPlace(t) \/ DiscardPlace(t) \/ TimeoutRelease(t)
      PROVE  SlotsCover'
  <2>1. UNCHANGED limit
    BY <1>7 DEF CancelRelease, DelayPlace, DiscardPlace, TimeoutRelease
  <2> QED BY <1>5, <1>7, <2>1, EndedKeepingGroup
<1>8. ASSUME NoStart, NEW c \in Client, AckBatchRelease(c)
      PROVE  SlotsCover'
  <2>1. /\ hand[c] \subseteq Executing /\ ReleaseSlots(arg[c], Cardinality(hand[c]))
        /\ \A j \in hand[c] : j \in Job /\ QueueOf[j] = arg[c] /\ j \notin Executing'
    BY <1>8, BatchEnded
  <2>2. UNCHANGED limit
    BY <1>8 DEF AckBatchRelease
  <2>3. CASE hand[c] = {} /\ arg[c] \notin Queue
    <3>1. UNCHANGED current
      BY <2>1, <2>3 DEF ReleaseSlots, TypeOK
    <3> QED BY <1>1, <1>8, <2>2, <3>1, SlotFrame
  <2>4. CASE arg[c] \in Queue
    BY <1>1, <1>8, <2>1, <2>2, <2>4, SlotRelease
  <2>5. CASE hand[c] # {} /\ arg[c] \notin Queue
    BY <2>1, <2>5
  <2> QED BY <2>3, <2>4, <2>5
<1> QED BY <1>2, <1>3, <1>4, <1>6, <1>7, <1>8, NextNoStart, SlotSteps DEF Thread

\* Nothing runs at the start, and no slot is taken.
LEMMA InitSlots == Init => SlotsCover
<1> SUFFICES ASSUME Init PROVE SlotsCover
  OBVIOUS
<1>1. Executing = {}
  BY DEF Init, Executing, Held
<1>2. \A q : Cardinality(On(q, Executing)) = 0
  BY <1>1, FS_EmptySet DEF On
<1> QED BY <1>2, LimitAssumption DEF Init, SlotsCover, NoLimit

\* "max parallel jobs in processing": the jobs of a queue that run, or are about
\* to, never exceed its limit, for any number of clients, jobs and queues, if the
\* limit is not changed while the engine runs (a new limiter starts at zero, whatever
\* is running) and ack_batch is given ids of one queue.
THEOREM ConcurrencyBounded ==
  ASSUME "set_concurrency" \notin Calls, "ack_batch" \in Calls => OneQueue
  PROVE  Spec => []ConcurrencyBound
<1>1. Init => Owned /\ HandShape /\ BatchQueue /\ SlotsCover
  BY InitOwned, InitHand, InitExclusion, InitSlots
<1>2. Owned /\ HandShape /\ BatchQueue /\ SlotsCover /\ [Next]_vars
        => (Owned /\ HandShape /\ BatchQueue /\ SlotsCover)'
  BY NextOwned, NextHand, NextBatchQueue, NextSlots DEF Owned
<1>3. Owned /\ SlotsCover => ConcurrencyBound
  <2> SUFFICES ASSUME Owned, SlotsCover, NEW q \in Queue, limit[q] # NoLimit
               PROVE  Cardinality(On(q, Executing)) <= limit[q]
    BY DEF ConcurrencyBound
  <2>1. Executing \subseteq Job
    BY ExecutingIs DEF Executes, Owned, TypeOK
  <2>2. Cardinality(On(q, Executing)) \in Nat /\ current[q] \in Nat /\ limit[q] \in Nat
    BY <2>1, ExecutingCount DEF Owned, TypeOK
  <2> QED BY <2>2 DEF SlotsCover
<1> QED BY <1>1, <1>2, <1>3, PTL DEF Spec

-----------------------------------------------------------------------------
(***************************************************************************)
(* Two live jobs of a queue never share a unique key: proved for every     *)
(* interleaving, where no queue is obliterated (obliterate forgets the     *)
(* keys of jobs that still run) and ack_batch is given ids of one queue.   *)
(*                                                                         *)
(* First, only push and push_batch make a job the holder of its key.       *)
(***************************************************************************)

\* KeyHolders, place by place.
Holds(j) ==
  \/ j \in queued \cup processing \cup waitingDeps \cup dlq
  \/ \E t \in Thread : pc[t] \notin KeyFreeSteps /\ j \in hand[t]

\* The two say the same.
LEMMA HoldersAre ==
  /\ ControlOK => \A j : j \in KeyHolders <=> Holds(j)
  /\ ControlOK' => \A j : j \in KeyHolders' <=> Holds(j)'
BY DEF KeyHolders, Holds, Held, ControlOK

\* A step that makes no job the holder of its key ...
NoClaim == \A i \in Job : Holds(i)' => Holds(i)

\* ... or none but those in S.
ClaimsFor(S) == \A i \in Job : Holds(i)' => Holds(i) \/ i \in S

\* The first lock scope of a call about one job: all of them claim no key.
LEMMA BeginJobCallNoClaim ==
  ASSUME TypeOK, HandShape, NEW c \in Thread, NEW j \in Job, BeginJobCall(c, j)
  PROVE  NoClaim
<1>0. ControlOK /\ hand \in [Thread -> SUBSET Job]
  BY DEF TypeOK
<1> USE <1>0, OptionAssumption DEF ControlOK, HandShape, EmptyHanded, OneHanded, NoClaim,
        Holds, KeyFreeSteps
<1>1. CASE Push(c, j)
  BY <1>1 DEF Push, Idle, Take, Goto, stores
<1>2. CASE Ack(c, j)
  BY <1>2 DEF Ack, Idle, TakeFromProcessing, Take, Goto
<1>3. CASE Fail(c, j)
  BY <1>3 DEF Fail, Idle, TakeFromProcessing, Take, Goto
<1>4. CASE Cancel(c, j)
  BY <1>4 DEF Cancel, Idle, GotoWith, stores
<1>5. CASE MoveToDelayed(c, j)
  BY <1>5 DEF MoveToDelayed, Idle, TakeFromProcessing, Take, Goto
<1>6. CASE Promote(c, j)
  BY <1>6 DEF Promote, Idle, GotoWith, stores
<1>7. CASE Discard(c, j)
  BY <1>7 DEF Discard, Idle, GotoWith, stores
<1>8. CASE Heartbeat(c, j)
  BY <1>8 DEF Heartbeat, Idle, stores, threads
<1> QED BY <1>1, <1>2, <1>3, <1>4, <1>5, <1>6, <1>7, <1>8 DEF BeginJobCall

\* pull and pull_batch claim no key.
LEMMA BeginPullNoClaim ==
  ASSUME TypeOK, HandShape, NEW c \in Thread, BeginPull(c)
  PROVE  NoClaim
<1>0. ControlOK /\ hand \in [Thread -> SUBSET Job]
  BY DEF TypeOK
<1> USE <1>0, OptionAssumption DEF ControlOK, HandShape, EmptyHanded, OneHanded, NoClaim,
        Holds, KeyFreeSteps
<1>1. ASSUME NEW q \in Queue, NEW n, NEW S, NEW X, Pull(c, q, n, S, X)
      PROVE  NoClaim
  BY <1>1 DEF Pull, Idle, Reachable, Waiting, On, Take, Return, Goto
<1> QED BY <1>1 DEF BeginPull

\* Only push_batch claims keys in its first lock scope.
LEMMA BeginBatchCallNoClaim ==
  ASSUME TypeOK, HandShape, NEW c \in Thread, BeginBatchCall(c)
  PROVE  NoClaim \/ \E p \in Queue : \E T, A : PushBatch(c, p, T, A)
<1>0. ControlOK /\ hand \in [Thread -> SUBSET Job]
  BY DEF TypeOK
<1> USE <1>0, OptionAssumption DEF ControlOK, HandShape, EmptyHanded, OneHanded, NoClaim,
        Holds, KeyFreeSteps
<1>1. ASSUME NEW q \in Queue, NEW S, NEW Accepted, PushBatch(c, q, S, Accepted)
      PROVE  NoClaim \/ \E p \in Queue : \E T, A : PushBatch(c, p, T, A)
  BY <1>1
<1>2. ASSUME NEW S \in SUBSET Job, AckBatch(c, S)
      PROVE  NoClaim \/ \E p \in Queue : \E T, A : PushBatch(c, p, T, A)
  BY <1>2 DEF AckBatch, Idle, GotoEach, stores
<1> QED BY <1>1, <1>2 DEF BeginBatchCall

\* The calls about a whole queue claim no key.
LEMMA BeginQueueCallNoClaim ==
  ASSUME TypeOK, HandShape, NEW c \in Thread, NEW q \in Queue, BeginQueueCall(c, q)
  PROVE  NoClaim
<1>0. ControlOK /\ hand \in [Thread -> SUBSET Job]
  BY DEF TypeOK
<1> USE <1>0, OptionAssumption DEF ControlOK, HandShape, EmptyHanded, OneHanded, NoClaim,
        Holds, KeyFreeSteps
<1>1. ASSUME NEW S, RetryDlq(c, q, S)
      PROVE  NoClaim
  BY <1>1 DEF RetryDlq, Idle, On, threads
<1>2. ASSUME NEW S, CleanFailed(c, q, S)
      PROVE  NoClaim
  BY <1>2 DEF CleanFailed, Idle, On, threads
<1>3. ASSUME NEW S, CleanWaiting(c, q, S)
      PROVE  NoClaim
  BY <1>3 DEF CleanWaiting, Idle, On, threads
<1>4. ASSUME NEW S, CleanCompleted(c, S)
      PROVE  NoClaim
  BY <1>4 DEF CleanCompleted, Idle, threads
<1>5. CASE PurgeDlq(c, q)
  BY <1>5 DEF PurgeDlq, Idle, On, GotoEach
<1>6. CASE Drain(c, q)
  BY <1>6 DEF Drain, On, Idle, threads
<1>7. CASE Obliterate(c, q)
  BY <1>7 DEF Obliterate, On, Idle, GotoWith
<1>8. CASE Pause(c, q)
  BY <1>8 DEF Pause, Idle, stores, threads
<1>9. CASE Resume(c, q)
  BY <1>9 DEF Resume, Idle, stores, threads
<1>10. CASE ClearConcurrency(c, q)
  BY <1>10 DEF ClearConcurrency, Idle, stores, threads
<1>11. ASSUME NEW n \in NewLimits, SetConcurrency(c, q, n)
      PROVE  NoClaim
  BY <1>11 DEF SetConcurrency, Idle, stores, threads
<1> QED BY <1>1, <1>2, <1>3, <1>4, <1>5, <1>6, <1>7, <1>8, <1>9, <1>10,
      <1>11 DEF BeginQueueCall

\* Of the later lock scopes of the calls, only the insertion of push claims a key.
LEMMA AdvanceNoClaim ==
  ASSUME TypeOK, HandShape, NEW c \in Thread, Advance(c)
  PROVE  NoClaim \/ PushInsert(c)
<1>0. ControlOK /\ hand \in [Thread -> SUBSET Job]
  BY DEF TypeOK
<1> USE <1>0, OptionAssumption DEF ControlOK, HandShape, EmptyHanded, OneHanded, NoClaim,
        Holds, KeyFreeSteps
<1>1. CASE PushDuplicate(c)
  BY <1>1 DEF PushDuplicate, Drop, Return, stores
<1>2. CASE PushInsert(c)
  BY <1>2
<1>3. CASE PushPersisted(c)
  BY <1>3 DEF PushPersisted, Return, stores
<1>4. CASE PushRollback(c)
  BY <1>4 DEF PushRollback, At, Goto
<1>5. CASE Unindex(c)
  BY <1>5 DEF Unindex, At, Return, stores
<1>6. CASE PushBatchCheck(c)
  BY <1>6 DEF PushBatchCheck, At, GotoEach, stores
<1>7. CASE PushBatchInsert(c)
  BY <1>7 DEF PushBatchInsert, At, Drop, Return
<1>8. ASSUME NEW j \in Job, PullIndex(c, j)
      PROVE  NoClaim \/ PushInsert(c)
  BY <1>8 DEF PullIndex, At, GotoWith, stores
<1>9. ASSUME NEW j \in Job, AckBatchTake(c, j)
      PROVE  NoClaim \/ PushInsert(c)
  BY <1>9 DEF AckBatchTake, AckBatchGoesOn, At, TakeFromProcessing, Take, stores
<1>34. ASSUME NEW j \in Job, AckBatchIndex(c, j)
      PROVE  NoClaim \/ PushInsert(c)
  BY <1>34 DEF AckBatchIndex, AckBatchGoesOn, SetIndex, At, stores, resources, fields
<1>10. ASSUME NEW j \in Job, ObliterateRemove(c, j)
      PROVE  NoClaim \/ PushInsert(c)
  BY <1>10 DEF ObliterateRemove, At, Continue, Return, GotoEach
<1>11. CASE PullInsert(c)
  BY <1>11 DEF PullInsert, At, Drop, Return, Goto
<1>12. CASE AckRelease(c)
  BY <1>12 DEF AckRelease, At, Goto, stores
<1>13. CASE AckRecord(c)
  BY <1>13 DEF AckRecord, At, Drop, Return, GotoWith
<1>14. CASE AckIndex(c)
  BY <1>14 DEF AckIndex, At, Return, stores
<1>15. CASE AckBatchRelease(c)
  BY <1>15 DEF AckBatchRelease, At, Goto, stores
<1>16. CASE AckBatchRecord(c)
  BY <1>16 DEF AckBatchRecord, At, Drop, Return
<1>17. CASE FailIndex(c)
  BY <1>17 DEF FailIndex, IndexNext, At, Goto, stores
<1>18. CASE FailPlace(c)
  BY <1>18 DEF FailPlace, At, PlaceNext, Requeue, Drop, Return
<1>19. CASE FailDiscard(c)
  BY <1>19 DEF FailDiscard, At, Drop, GotoWith, stores
<1>20. CASE FailForget(c)
  BY <1>20 DEF FailForget, At, Return, stores
<1>21. CASE CancelProcessing(c)
  BY <1>21 DEF CancelProcessing, At, TakeFromProcessing, Take, Goto, Return, stores
<1>22. CASE CancelRelease(c)
  BY <1>22 DEF CancelRelease, At, Drop, Goto, stores
<1>23. CASE CancelWaiting(c)
  BY <1>23 DEF CancelWaiting, At, Goto, Return
<1>24. CASE CancelQueued(c)
  BY <1>24 DEF CancelQueued, At, Goto, Return
<1>25. CASE DelayIndex(c)
  BY <1>25 DEF DelayIndex, At, Goto, stores
<1>26. CASE DelayPlace(c)
  BY <1>26 DEF DelayPlace, At, Drop, Return
<1>27. CASE PromoteQueued(c)
  BY <1>27 DEF PromoteQueued, At, Return, stores
<1>28. CASE DiscardQueued(c)
  BY <1>28 DEF DiscardQueued, At, Return
<1>29. CASE DiscardProcessing(c)
  BY <1>29 DEF DiscardProcessing, At, TakeFromProcessing, Take, Goto, Return, stores
<1>30. CASE DiscardPlace(c)
  BY <1>30 DEF DiscardPlace, At, Drop, Goto
<1>31. CASE DiscardIndex(c)
  BY <1>31 DEF DiscardIndex, At, Return, stores
<1>32. CASE PurgeUnindex(c)
  BY <1>32 DEF PurgeUnindex, At, Return, stores
<1>33. CASE ObliterateCollect(c)
  BY <1>33 DEF ObliterateCollect, At, Continue, Return, GotoEach, On, stores
<1> QED BY <1>1, <1>2, <1>3, <1>4, <1>5, <1>6, <1>7, <1>8, <1>9, <1>10, <1>11, <1>12, <1>13,
      <1>14, <1>15, <1>16, <1>17, <1>18, <1>19, <1>20, <1>21, <1>22, <1>23, <1>24, <1>25,
      <1>26, <1>27, <1>28, <1>29, <1>30, <1>31, <1>32, <1>33, <1>34 DEF Advance

\* The scans of the background task claim no key.
LEMMA TickNoClaim ==
  ASSUME TypeOK, HandShape, NEW b \in Thread, Tick(b)
  PROVE  NoClaim
<1>0. ControlOK /\ hand \in [Thread -> SUBSET Job]
  BY DEF TypeOK
<1> USE <1>0, OptionAssumption DEF ControlOK, HandShape, EmptyHanded, OneHanded, NoClaim,
        Holds, KeyFreeSteps
<1>1. ASSUME NEW S, TimeoutScan(b, S)
      PROVE  NoClaim
  BY <1>1 DEF TimeoutScan, Idle, GotoEach, stores
<1>2. ASSUME NEW S, StallScan(b, S)
      PROVE  NoClaim
  BY <1>2 DEF StallScan, Idle, GotoEach, stores
<1>3. CASE DepsScan(b)
  BY <1>3 DEF DepsScan, Idle, GotoEach, stores
<1>4. ASSUME NEW S, CleanupScan(b, S)
      PROVE  NoClaim
  BY <1>4 DEF CleanupScan, Idle, GotoEach, stores
<1> QED BY <1>1, <1>2, <1>3, <1>4 DEF Tick

\* What the background task does with the ids it collected: its steps claim no key.
LEMMA AdvanceTickNoClaim ==
  ASSUME TypeOK, HandShape, NEW b \in Thread, AdvanceTick(b)
  PROVE  NoClaim
<1>0. ControlOK /\ hand \in [Thread -> SUBSET Job]
  BY DEF TypeOK
<1> USE <1>0, OptionAssumption DEF ControlOK, HandShape, EmptyHanded, OneHanded, NoClaim,
        Holds, KeyFreeSteps
<1>1. ASSUME NEW j \in Job, TimeoutTake(b, j)
      PROVE  NoClaim
  BY <1>1 DEF TimeoutTake, At, TakeFromProcessing, Take, GotoEach, Continue, Return, stores
<1>2. ASSUME NEW j \in Job, StallCount(b, j)
      PROVE  NoClaim
  BY <1>2 DEF StallCount, At, Continue, Return, GotoEach, stores
<1>3. CASE TimeoutRelease(b)
  BY <1>3 DEF TimeoutRelease, At, Goto, stores
<1>4. CASE TimeoutIndex(b)
  BY <1>4 DEF TimeoutIndex, IndexNext, At, Goto, stores
<1>5. CASE TimeoutPlace(b)
  BY <1>5 DEF TimeoutPlace, At, PlaceNext, Requeue, Drop, Continue, Return, GotoEach
<1>6. CASE StallRemove(b)
  BY <1>6 DEF StallRemove, At, TakeFromProcessing, Take, Goto, Continue, Return, GotoEach,
     stores
<1>7. CASE StallIndex(b)
  BY <1>7 DEF StallIndex, At, Goto, stores
<1>8. CASE StallPlace(b)
  <2>1. PICK j \in Job : hand[b] = {j}
    BY <1>8 DEF StallPlace, At
  <2>2. dlq' = dlq \cup {j} /\ hand' = [hand EXCEPT ![b] = {}] /\ pc[b] = "stall_place"
    BY <1>8, <2>1 DEF StallPlace, Drop, At
  <2>3. \A t \in Thread \ {b} : pc'[t] = pc[t]
    BY <1>8 DEF StallPlace, Continue, Return, GotoEach
  <2> QED BY <1>8, <2>1, <2>2, <2>3 DEF StallPlace
<1>9. CASE DepsMove(b)
  BY <1>9 DEF DepsMove, At, Return
<1>10. CASE CleanupUnindex(b)
  BY <1>10 DEF CleanupUnindex, At, Goto, stores
<1>11. CASE CleanupRemove(b)
  BY <1>11 DEF CleanupRemove, At, Return
<1> QED BY <1>1, <1>2, <1>3, <1>4, <1>5, <1>6, <1>7, <1>8, <1>9, <1>10,
      <1>11 DEF AdvanceTick

\* The passing of time: its steps claim no key.
LEMMA ClockNoClaim ==
  ASSUME TypeOK, HandShape, Clock
  PROVE  NoClaim
<1>0. ControlOK /\ hand \in [Thread -> SUBSET Job]
  BY DEF TypeOK
<1> USE <1>0, OptionAssumption DEF ControlOK, HandShape, EmptyHanded, OneHanded, NoClaim,
        Holds, KeyFreeSteps
<1>1. ASSUME NEW j \in Job, BecomesDue(j)
      PROVE  NoClaim
  BY <1>1 DEF BecomesDue, stores, threads
<1>2. ASSUME NEW j \in Job, Expires(j)
      PROVE  NoClaim
  BY <1>2 DEF Expires, stores, threads
<1> QED BY <1>1, <1>2 DEF Clock

\* Only push and push_batch claim keys.
LEMMA NextNoClaim ==
  ASSUME TypeOK, HandShape, [Next]_vars
  PROVE  NoClaim \/ \E c \in Client : \/ PushInsert(c)
                                      \/ \E p \in Queue : \E T, A : PushBatch(c, p, T, A)
<1>1. ASSUME NEW c \in Client, Begin(c)
      PROVE  NoClaim \/ \E p \in Queue : \E T, A : PushBatch(c, p, T, A)
  BY <1>1, BeginJobCallNoClaim, BeginPullNoClaim, BeginBatchCallNoClaim, BeginQueueCallNoClaim
     DEF Begin, Thread
<1>2. ASSUME NEW c \in Client, Advance(c) PROVE NoClaim \/ PushInsert(c)
  BY <1>2, AdvanceNoClaim DEF Thread
<1>3. CASE Tick(Background)
  BY <1>3, TickNoClaim DEF Thread
<1>4. CASE AdvanceTick(Background)
  BY <1>4, AdvanceTickNoClaim DEF Thread
<1>5. CASE Clock
  BY <1>5, ClockNoClaim
<1>6. CASE UNCHANGED vars
  BY <1>6 DEF NoClaim, Holds, vars, stores, threads
<1> QED BY <1>1, <1>2, <1>3, <1>4, <1>5, <1>6 DEF Next

-----------------------------------------------------------------------------
(* Keys *)

\* Only these steps change the claimed keys.
LEMMA KeySteps ==
  ASSUME "obliterate" \notin Calls, [Next]_vars
  PROVE  \/ UNCHANGED uniqueKeys
         \/ \E c \in Client :
              \/ PushInsert(c) \/ \E p \in Queue : \E T, A : PushBatch(c, p, T, A)
              \/ AckRelease(c) \/ AckBatchRelease(c) \/ CancelRelease(c) \/ CancelQueued(c)
              \/ \E q \in Queue : Drain(c, q) \/ \E S : CleanWaiting(c, q, S)
<1>1. ASSUME NEW c \in Client, NEW j \in Job, BeginJobCall(c, j)
      PROVE  UNCHANGED uniqueKeys
  BY <1>1 DEF BeginJobCall, Push, Ack, Fail, Cancel, MoveToDelayed, Promote, Discard,
     Heartbeat, Idle, resources, limits
<1>2. ASSUME NEW c \in Client, BeginPull(c)
      PROVE  UNCHANGED uniqueKeys
  BY <1>2 DEF BeginPull, Pull, Idle, resources, limits
<1>3. ASSUME NEW c \in Client, BeginBatchCall(c)
      PROVE  \/ UNCHANGED uniqueKeys
             \/ \E p \in Queue : \E T, A : PushBatch(c, p, T, A)
  BY <1>3 DEF BeginBatchCall, AckBatch, Idle, resources, limits
<1>4. ASSUME NEW c \in Client, NEW q \in Queue, BeginQueueCall(c, q)
      PROVE  \/ UNCHANGED uniqueKeys \/ Drain(c, q)
             \/ \E S : CleanWaiting(c, q, S)
  BY <1>4 DEF BeginQueueCall, RetryDlq, CleanFailed, CleanCompleted, PurgeDlq, Obliterate,
     Pause, Resume, ClearConcurrency, SetConcurrency, Idle, resources, limits
<1>5. ASSUME NEW c \in Client, Advance(c)
      PROVE  \/ UNCHANGED uniqueKeys
             \/ PushInsert(c) \/ AckRelease(c) \/ AckBatchRelease(c)
             \/ CancelRelease(c) \/ CancelQueued(c)
  BY <1>5 DEF Advance, PushDuplicate, PushPersisted, PushRollback, Unindex, PushBatchCheck,
     PushBatchInsert, PullIndex, AckBatchTake, AckBatchIndex, ObliterateRemove, PullInsert,
     AckRecord, AckIndex, AckBatchRecord, FailIndex, FailPlace, FailDiscard, FailForget,
     CancelProcessing, CancelWaiting, DelayIndex, DelayPlace, PromoteQueued, DiscardQueued,
     DiscardProcessing, DiscardPlace, DiscardIndex, PurgeUnindex, ObliterateCollect,
     IndexNext, Idle, resources, limits
<1>6. ASSUME NEW b \in Thread, Tick(b)
      PROVE  UNCHANGED uniqueKeys
  BY <1>6 DEF Tick, TimeoutScan, StallScan, DepsScan, CleanupScan, Idle, resources, limits
<1>7. ASSUME NEW b \in Thread, AdvanceTick(b)
      PROVE  UNCHANGED uniqueKeys
  BY <1>7 DEF AdvanceTick, TimeoutTake, StallCount, TimeoutRelease, TimeoutIndex,
     TimeoutPlace, StallRemove, StallIndex, StallPlace, DepsMove, CleanupUnindex,
     CleanupRemove, IndexNext, Idle, resources, limits
<1>8. ASSUME Clock
      PROVE  UNCHANGED uniqueKeys
  BY <1>8 DEF Clock, BecomesDue, Expires, Idle, resources, limits
<1>9. CASE UNCHANGED vars
  BY <1>9 DEF vars, resources, limits
<1> QED BY <1>1, <1>2, <1>3, <1>4, <1>5, <1>6, <1>7, <1>8, <1>9 DEF Next, Begin, Thread

\* A holder's key is in the set that push looks it up in.
KeysMarked == \A j \in KeyHolders : KeyOf[j] # NoKey => KeyOf[j] \in uniqueKeys[QueueOf[j]]

KeySafe == UniqueKeyExclusion /\ KeysMarked

\* A step that claims and releases nothing.
LEMMA KeyFrame ==
  ASSUME TypeOK, TypeOK', KeySafe, NoClaim, UNCHANGED uniqueKeys
  PROVE  KeySafe'
<1>1. \A j \in KeyHolders' : j \in Job /\ j \in KeyHolders
  BY HoldersAre DEF NoClaim, TypeOK, Holds
<1> QED BY <1>1 DEF KeySafe, UniqueKeyExclusion, KeysMarked

\* A step after which the jobs in S hold their keys no more, and that releases them.
LEMMA KeyRelease ==
  ASSUME TypeOK, TypeOK', KeySafe, NoClaim, NEW q \in Queue, NEW S \in SUBSET KeyHolders,
         ReleaseKeys(q, S), \A j \in S : QueueOf[j] = q /\ j \notin KeyHolders'
  PROVE  KeySafe'
<1>1. \A j \in KeyHolders' : j \in Job /\ j \in KeyHolders /\ j \notin S
  BY HoldersAre DEF NoClaim, TypeOK, Holds
<1>2. UniqueKeyExclusion'
  BY <1>1 DEF KeySafe, UniqueKeyExclusion
<1>3. ASSUME NEW j \in KeyHolders', KeyOf[j] # NoKey
      PROVE  KeyOf[j] \in uniqueKeys'[QueueOf[j]]
  <2>1. KeyOf[j] \in uniqueKeys[QueueOf[j]]
    BY <1>1, <1>3 DEF KeySafe, KeysMarked
  <2>2. CASE QueueOf[j] # q
    BY <1>1, <2>1, <2>2, OptionAssumption DEF ReleaseKeys, TypeOK
  <2>3. CASE QueueOf[j] = q
    <3>1. KeyOf[j] \notin Keys(S)
      BY <1>1, <1>3, <2>3 DEF KeySafe, UniqueKeyExclusion, Keys
    <3> QED BY <2>1, <2>3, <3>1, OptionAssumption DEF ReleaseKeys, TypeOK
  <2> QED BY <2>2, <2>3
<1> QED BY <1>2, <1>3 DEF KeySafe, KeysMarked

\* A step that claims the keys of the jobs in S, all different and none of them taken.
LEMMA KeyClaim ==
  ASSUME TypeOK, TypeOK', KeySafe, NEW q \in Queue, NEW S \in SUBSET Job, ClaimsFor(S),
         uniqueKeys' = [uniqueKeys EXCEPT ![q] = @ \cup Keys(S)],
         \A j \in S : QueueOf[j] = q /\ KeyOf[j] \notin uniqueKeys[q],
         \A i, j \in S : i # j /\ KeyOf[i] = KeyOf[j] => KeyOf[i] = NoKey
  PROVE  KeySafe'
<1>1. \A j \in KeyHolders' : j \in Job /\ (j \in KeyHolders \/ j \in S)
  BY HoldersAre DEF ClaimsFor, TypeOK, Holds
<1>2. UniqueKeyExclusion'
  BY <1>1 DEF KeySafe, UniqueKeyExclusion, KeysMarked
<1>3. KeysMarked'
  BY <1>1, OptionAssumption DEF KeySafe, KeysMarked, Keys, TypeOK
<1> QED BY <1>2, <1>3 DEF KeySafe

\* push claims the key of its job in the lock scope that inserts the job.
LEMMA PushClaims ==
  ASSUME TypeOK, TypeOK', HandShape, KeySafe, NEW c \in Client, PushInsert(c)
  PROVE  KeySafe'
<1>1. PICK j \in Job : hand[c] = {j}
  BY DEF PushInsert, HandShape, OneHanded, Thread
<1>2. /\ KeyOf[j] \notin uniqueKeys[QueueOf[j]]
      /\ uniqueKeys' = [uniqueKeys EXCEPT ![QueueOf[j]] = @ \cup Keys({j})]
  BY <1>1 DEF PushInsert
<1>3. ClaimsFor({j})
  <2>1. Drop(c, {j})
    BY <1>1 DEF PushInsert
  <2>2. hand' = [hand EXCEPT ![c] = {}]
    <3>1. hand[c] \ {j} = {}
      BY <1>1
    <3> QED BY <2>1, <3>1 DEF Drop
  <2>3. \A t \in Thread \ {c} : pc'[t] = pc[t]
    BY DEF PushInsert, Return, GotoWith, TypeOK, ControlOK, Thread
  <2>4. /\ UNCHANGED <<processing, dlq>>
        /\ queued' \subseteq queued \cup {j} /\ waitingDeps' \subseteq waitingDeps \cup {j}
    BY <1>1 DEF PushInsert
  <2> QED BY <2>2, <2>3, <2>4 DEF ClaimsFor, Holds, TypeOK, Thread
<1>4. /\ QueueOf[j] \in Queue /\ {j} \in SUBSET Job
      /\ \A i \in {j} : QueueOf[i] = QueueOf[j] /\ KeyOf[i] \notin uniqueKeys[QueueOf[j]]
      /\ \A i, k \in {j} : i # k /\ KeyOf[i] = KeyOf[k] => KeyOf[i] = NoKey
  BY <1>2, OptionAssumption
<1> QED BY <1>2, <1>3, <1>4, KeyClaim

\* push_batch claims the keys of the accepted jobs before it inserts them.
LEMMA BatchClaims ==
  ASSUME TypeOK, TypeOK', HandShape, KeySafe, NEW c \in Client, NEW q, NEW S, NEW Accepted,
         PushBatch(c, q, S, Accepted), q \in Queue
  PROVE  KeySafe'
<1>1. /\ Accepted \subseteq Job /\ \A j \in Accepted : QueueOf[j] = q
      /\ Keys(Accepted) \cap uniqueKeys[q] = {}
      /\ \A i, j \in Accepted : i # j /\ KeyOf[i] = KeyOf[j] => KeyOf[i] = NoKey
      /\ uniqueKeys' = [uniqueKeys EXCEPT ![q] = @ \cup Keys(Accepted)]
  BY DEF PushBatch, On
<1>2. \A j \in Accepted : KeyOf[j] \notin uniqueKeys[q]
  BY <1>1, OptionAssumption DEF Keys, TypeOK
<1>3. ClaimsFor(Accepted)
  BY DEF PushBatch, Idle, Take, Return, Goto, ClaimsFor, Holds, HandShape, EmptyHanded, Thread,
     TypeOK, ControlOK, stores
<1> QED BY <1>1, <1>2, <1>3, KeyClaim

\* Jobs that are cleaned out of a queue, drained or cancelled while they wait.
LEMMA QueuedReleased ==
  ASSUME Owned, NEW S \in SUBSET queued, queued' = queued \ S,
         UNCHANGED <<processing, waitingDeps, dlq, hand>>
  PROVE  \A j \in S : Holds(j) /\ ~Holds(j)'
BY DEF Owned, TypeOK, SingleOwner, Holds

\* No step lets two live jobs of a queue have one key.
LEMMA NextKeys ==
  ASSUME "obliterate" \notin Calls, Owned, HandShape, BatchQueue, KeySafe, [Next]_vars
  PROVE  KeySafe'
<1> USE OptionAssumption DEF Owned
<1>1. TypeOK' /\ ControlOK /\ ControlOK'
  BY NextType DEF TypeOK
<1>2. ASSUME NEW c \in Client, PushInsert(c)
      PROVE  KeySafe'
  BY <1>1, <1>2, PushClaims
<1>3. ASSUME NEW c \in Client, NEW q \in Queue, NEW S, NEW Accepted,
             PushBatch(c, q, S, Accepted)
      PROVE  KeySafe'
  BY <1>1, <1>3, BatchClaims
<1>4. CASE NoClaim /\ UNCHANGED uniqueKeys
  BY <1>1, <1>4, KeyFrame
<1>5. ASSUME NoClaim, NEW q \in Queue, NEW S, ReleaseKeys(q, S),
             \A j \in S : j \in Job /\ QueueOf[j] = q /\ Holds(j) /\ ~Holds(j)'
      PROVE  KeySafe'
  <2>1. S \subseteq KeyHolders /\ \A j \in S : QueueOf[j] = q /\ j \notin KeyHolders'
    BY <1>1, <1>5, HoldersAre
  <2> QED BY <1>1, <1>5, <2>1, KeyRelease
<1>6. ASSUME NoClaim, NEW c \in Client, AckRelease(c) \/ CancelRelease(c)
      PROVE  KeySafe'
  <2> USE DEF TypeOK, ControlOK, SingleOwner, HandShape, OneHanded, KeyFreeSteps, Holds, Thread
  <2>1. PICK j \in Job : hand[c] = {j}
    BY <1>6 DEF AckRelease, CancelRelease, At
  <2>2. ReleaseKeys(QueueOf[j], {j})
    BY <1>6, <2>1 DEF AckRelease, CancelRelease
  <2>3. Holds(j)
    BY <1>6, <2>1 DEF AckRelease, CancelRelease, At
  <2>4. CASE AckRelease(c)
    <3>1. ~Holds(j)'
      BY <2>1, <2>4 DEF AckRelease, Goto, stores
    <3> QED BY <1>5, <1>6, <2>1, <2>2, <2>3, <3>1
  <2>5. CASE CancelRelease(c)
    <3>1. ~Holds(j)'
      BY <2>1, <2>5 DEF CancelRelease, Goto, Drop, stores
    <3> QED BY <1>5, <1>6, <2>1, <2>2, <2>3, <3>1
  <2> QED BY <1>6, <2>4, <2>5
<1>7. ASSUME NoClaim, NEW c \in Client, CancelQueued(c)
      PROVE  KeySafe'
  <2>1. CASE arg[c] \notin queued
    <3>1. UNCHANGED uniqueKeys
      BY <1>7, <2>1 DEF CancelQueued
    <3> QED BY <1>4, <1>7, <3>1
  <2>2. CASE arg[c] \in queued
    <3>1. /\ queued' = queued \ {arg[c]} /\ UNCHANGED <<processing, waitingDeps, dlq, hand>>
          /\ ReleaseKeys(QueueOf[arg[c]], {arg[c]})
      BY <1>7, <2>2 DEF CancelQueued
    <3>2. PICK j \in Job : j = arg[c] /\ {j} \in SUBSET queued
      BY <2>2 DEF TypeOK
    <3>3. Holds(j) /\ ~Holds(j)'
      BY <3>1, <3>2, QueuedReleased
    <3> QED BY <1>5, <1>7, <3>1, <3>2, <3>3
  <2> QED BY <2>1, <2>2
<1>8. ASSUME NoClaim, NEW c \in Client, NEW q \in Queue, NEW S,
             CleanWaiting(c, q, S)
      PROVE  KeySafe'
  <2>1. /\ S \subseteq On(q, queued) /\ queued' = queued \ S /\ ReleaseKeys(q, S)
        /\ UNCHANGED <<processing, waitingDeps, dlq, hand>>
    BY <1>8 DEF CleanWaiting, threads
  <2>2. \A j \in S : j \in Job /\ QueueOf[j] = q /\ Holds(j) /\ ~Holds(j)'
    BY <2>1, QueuedReleased DEF On, TypeOK
  <2> QED BY <1>5, <1>8, <2>1, <2>2
<1>9. ASSUME NoClaim, NEW c \in Client, NEW q \in Queue, Drain(c, q)
      PROVE  KeySafe'
  <2>1. /\ queued' = queued \ On(q, queued) /\ ReleaseKeys(q, On(q, queued))
        /\ UNCHANGED <<processing, waitingDeps, dlq, hand>>
    BY <1>9 DEF Drain, threads
  <2>2. \A j \in On(q, queued) : j \in Job /\ QueueOf[j] = q /\ Holds(j) /\ ~Holds(j)'
    BY <2>1, QueuedReleased DEF On, TypeOK
  <2> QED BY <1>5, <1>9, <2>1, <2>2
<1>10. ASSUME NoClaim, NEW c \in Client, AckBatchRelease(c)
       PROVE  KeySafe'
  <2> USE DEF TypeOK, ControlOK, SingleOwner, BatchQueue, KeyFreeSteps, Holds, Thread
  <2>1. ReleaseKeys(arg[c], hand[c])
    BY <1>10 DEF AckBatchRelease
  <2>2. \A j \in hand[c] : j \in Job /\ QueueOf[j] = arg[c] /\ Holds(j) /\ ~Holds(j)'
    BY <1>10 DEF AckBatchRelease, At, Goto, stores
  <2>3. CASE hand[c] = {}
    <3>1. UNCHANGED uniqueKeys
      BY <2>1, <2>3 DEF ReleaseKeys, Keys
    <3> QED BY <1>4, <1>10, <3>1
  <2>4. CASE hand[c] # {}
    <3>1. arg[c] \in Queue
      BY <2>2, <2>4
    <3> QED BY <1>5, <1>10, <2>1, <2>2, <3>1
  <2> QED BY <2>3, <2>4
<1> QED BY <1>2, <1>3, <1>4, <1>6, <1>7, <1>8, <1>9, <1>10, NextNoClaim, KeySteps

\* No job holds a key at the start.
LEMMA InitKeys == Init => KeySafe
<1> SUFFICES ASSUME Init PROVE KeySafe
  OBVIOUS
<1>1. KeyHolders = {}
  BY DEF Init, KeyHolders, Held
<1> QED BY <1>1 DEF KeySafe, UniqueKeyExclusion, KeysMarked

\* At most one live job of a queue has a given unique key, whichever calls and scans
\* interleave, for any number of clients, jobs, queues and keys.
THEOREM UniqueKeysExclusive ==
  ASSUME "obliterate" \notin Calls, "ack_batch" \in Calls => OneQueue
  PROVE  Spec => []UniqueKeyExclusion
<1>1. Init => Owned /\ HandShape /\ BatchQueue /\ KeySafe
  BY InitOwned, InitHand, InitExclusion, InitKeys
<1>2. Owned /\ HandShape /\ BatchQueue /\ KeySafe /\ [Next]_vars
        => (Owned /\ HandShape /\ BatchQueue /\ KeySafe)'
  BY NextOwned, NextHand, NextBatchQueue, NextKeys DEF Owned
<1>3. KeySafe => UniqueKeyExclusion
  BY DEF KeySafe
<1> QED BY <1>1, <1>2, <1>3, PTL DEF Spec
=============================================================================

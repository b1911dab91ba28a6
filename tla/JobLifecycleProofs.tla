-------------------------- MODULE JobLifecycleProofs --------------------------
(***************************************************************************)
(* Type correctness of JobLifecycle, and that a job is never in two        *)
(* places: for any jobs, queues and clients, any options of the jobs and   *)
(* any set of calls.                                                       *)
(*                                                                         *)
(* One lemma per part of Next, one step per action under it; the lemmas on *)
(* Return, Goto, GotoWith, GotoEach and Continue take care of the local    *)
(* state of the threads once for all actions.                              *)
(***************************************************************************)
EXTENDS JobProperties, FiniteSetTheorems, TLAPS

\* There are finitely many jobs, so a pull or a batch adds a number to a counter.
LEMMA SizeOfSet == \A S \in SUBSET Job : Cardinality(S) \in Nat
BY JobAssumption, FS_Subset, FS_CardinalityType

\* The number of slots that ack_batch gives back is a number.
LEMMA HandSize == ASSUME TypeOK, NEW t \in Thread PROVE Cardinality(hand[t]) \in Nat
BY SizeOfSet DEF TypeOK

\* What a thread remembers between two lock scopes are jobs, or one queue.
LEMMA TodoType ==
  \A t \in Thread : ControlOK => todo[t] \subseteq Job /\ arg[t] \in Job \cup Queue \cup {None}
BY DEF ControlOK

\* An action of one lock scope leaves the thread where it was.
LEMMA StillType == ControlOK /\ UNCHANGED threads => ControlOK'
BY DEF ControlOK, threads

\* A thread that returns to its caller is idle again.
LEMMA ReturnType == \A t \in Thread : ControlOK /\ Return(t) => ControlOK'
BY DEF ControlOK, Return, Step

\* A thread that goes on is at the step it is sent to ...
LEMMA GotoType == \A t \in Thread, step \in Step : ControlOK /\ Goto(t, step) => ControlOK'
BY DEF ControlOK, Goto

\* ... with the job or the queue the step is about ...
LEMMA GotoWithType ==
  \A t \in Thread, step \in Step, a \in Job \cup Queue :
    ControlOK /\ GotoWith(t, step, a) => ControlOK'
BY DEF ControlOK, GotoWith

\* ... or with the ids it has collected.
LEMMA GotoEachType ==
  \A t \in Thread, step \in Step, S \in SUBSET Job :
    ControlOK /\ GotoEach(t, step, S) => ControlOK'
BY DEF ControlOK, GotoEach

\* The end of one round of a loop, the last one included.
LEMMA ContinueType ==
  \A t \in Thread, step \in Step, S \in SUBSET Job :
    ControlOK /\ Continue(t, step, S) => ControlOK'
BY ReturnType, GotoEachType DEF Continue


\* The first lock scope of a call about one job: all of them preserve the types.
LEMMA BeginJobCallType ==
  ASSUME TypeOK, NEW c \in Thread, NEW j \in Job, BeginJobCall(c, j)
  PROVE  TypeOK'
<1> USE OptionAssumption, LimitAssumption DEF TypeOK, Step, Location
<1>1. CASE Push(c, j)
  BY <1>1, GotoType DEF Push, Take, DependenciesMet, stores, resources
<1>2. CASE Ack(c, j)
  BY <1>2, GotoType DEF Ack, TakeFromProcessing, Take, resources, fields
<1>3. CASE Fail(c, j)
  BY <1>3, GotoType DEF Fail, TakeFromProcessing, Take, CountAttempt, resources
<1>4. CASE Cancel(c, j)
  BY <1>4, GotoWithType DEF Cancel, stores, resources, fields
<1>5. CASE MoveToDelayed(c, j)
  BY <1>5, GotoType DEF MoveToDelayed, TakeFromProcessing, Take, resources, fields
<1>6. CASE Promote(c, j)
  BY <1>6, GotoWithType DEF Promote, stores, resources, fields
<1>7. CASE Discard(c, j)
  BY <1>7, GotoWithType DEF Discard, stores, resources, fields
<1>8. CASE Heartbeat(c, j)
  BY <1>8, StillType DEF Heartbeat, stores, resources, threads, StallLimit
<1> QED BY <1>1, <1>2, <1>3, <1>4, <1>5, <1>6, <1>7, <1>8 DEF BeginJobCall

\* pull and pull_batch preserve the types.
LEMMA BeginPullType ==
  ASSUME TypeOK, NEW c \in Thread, BeginPull(c)
  PROVE  TypeOK'
<1> USE OptionAssumption, LimitAssumption DEF TypeOK, Step, Location
<1>1. ASSUME NEW q \in Queue, NEW n, NEW S, NEW X, Pull(c, q, n, S, X)
      PROVE  TypeOK'
  <2>1. S \subseteq Job
    BY <1>1 DEF Pull, Reachable, Waiting, On
  <2>2. ControlOK'
    BY <1>1, ReturnType, GotoType DEF Pull
  <2>3. current' \in [Queue -> Nat]
    BY <1>1, <2>1, SizeOfSet DEF Pull
  <2>4. activeGroups' \in [Queue -> SUBSET Group] /\ hand' \in [Thread -> SUBSET Job]
    BY <1>1, <2>1 DEF Pull, Take, Groups
  <2>5. queued' \subseteq Job
    BY <1>1 DEF Pull
  <2> QED BY <1>1, <2>2, <2>3, <2>4, <2>5 DEF Pull, fields
<1> QED BY <1>1 DEF BeginPull

\* The first lock scopes of push_batch and ack_batch preserve the types.
LEMMA BeginBatchCallType ==
  ASSUME TypeOK, NEW c \in Thread, BeginBatchCall(c)
  PROVE  TypeOK'
<1> USE OptionAssumption, LimitAssumption DEF TypeOK, Step, Location
<1>1. ASSUME NEW q \in Queue, NEW S, NEW Accepted, PushBatch(c, q, S, Accepted)
      PROVE  TypeOK'
  BY <1>1, ReturnType, GotoType DEF PushBatch, On, Keys, Take, stores, limits
<1>2. ASSUME NEW S \in SUBSET Job, AckBatch(c, S)
      PROVE  TypeOK'
  BY <1>2, GotoEachType DEF AckBatch, stores, resources, fields
<1> QED BY <1>1, <1>2 DEF BeginBatchCall

\* The calls about a whole queue preserve the types.
LEMMA BeginQueueCallType ==
  ASSUME TypeOK, NEW c \in Thread, NEW q \in Queue, BeginQueueCall(c, q)
  PROVE  TypeOK'
<1> USE OptionAssumption, LimitAssumption DEF TypeOK, Step, Location
<1>1. ASSUME NEW S, RetryDlq(c, q, S)
      PROVE  TypeOK'
  BY <1>1, StillType DEF RetryDlq, On, SetIndex, resources, threads
<1>2. ASSUME NEW S, CleanFailed(c, q, S)
      PROVE  TypeOK'
  BY <1>2, StillType DEF CleanFailed, On, SetIndex, resources, fields, threads
<1>3. ASSUME NEW S, CleanWaiting(c, q, S)
      PROVE  TypeOK'
  BY <1>3, StillType DEF CleanWaiting, On, SetIndex, ReleaseKeys, Keys, limits, fields,
     threads
<1>4. ASSUME NEW S, CleanCompleted(c, S)
      PROVE  TypeOK'
  BY <1>4, StillType DEF CleanCompleted, SetIndex, resources, fields, threads
<1>5. CASE PurgeDlq(c, q)
  BY <1>5, GotoEachType DEF PurgeDlq, On, resources, fields
<1>6. CASE Drain(c, q)
  BY <1>6, StillType DEF Drain, On, SetIndex, ReleaseKeys, Keys, limits, fields, threads
<1>7. CASE Obliterate(c, q)
  BY <1>7, GotoWithType DEF Obliterate, On, SetIndex, NoLimit, fields
<1>8. CASE Pause(c, q)
  BY <1>8, StillType DEF Pause, stores, fields, threads
<1>9. CASE Resume(c, q)
  BY <1>9, StillType DEF Resume, stores, fields, threads
<1>10. CASE ClearConcurrency(c, q)
  BY <1>10, StillType DEF ClearConcurrency, NoLimit, stores, fields, threads
<1>11. ASSUME NEW n \in NewLimits, SetConcurrency(c, q, n)
      PROVE  TypeOK'
  BY <1>11, StillType DEF SetConcurrency, stores, fields, threads
<1> QED BY <1>1, <1>2, <1>3, <1>4, <1>5, <1>6, <1>7, <1>8, <1>9, <1>10,
      <1>11 DEF BeginQueueCall

\* The later lock scopes of the calls preserve the types.
LEMMA AdvanceType ==
  ASSUME TypeOK, NEW c \in Thread, Advance(c)
  PROVE  TypeOK'
<1> USE OptionAssumption, LimitAssumption DEF TypeOK, Step, Location
<1>1. CASE PushDuplicate(c)
  BY <1>1, ReturnType DEF PushDuplicate, Drop, stores, resources, fields
<1>2. CASE PushInsert(c)
  BY <1>2, ReturnType, GotoWithType DEF PushInsert, Keys, Drop, SetIndex, limits, fields
<1>3. CASE PushPersisted(c)
  BY <1>3, ReturnType DEF PushPersisted, stores, resources, fields
<1>4. CASE PushRollback(c)
  BY <1>4, GotoType, TodoType DEF PushRollback, resources, fields
<1>5. CASE Unindex(c)
  BY <1>5, ReturnType, TodoType DEF Unindex, SetIndex, stores, resources, fields
<1>6. CASE PushBatchCheck(c)
  BY <1>6, GotoEachType DEF PushBatchCheck, DependenciesMet, stores, resources, fields
<1>7. CASE PushBatchInsert(c)
  BY <1>7, ReturnType, TodoType DEF PushBatchInsert, Drop, resources, fields
<1>8. ASSUME NEW j \in Job, PullIndex(c, j)
      PROVE  TypeOK'
  BY <1>8, GotoWithType DEF PullIndex, SetIndex, stores, resources, fields
<1>9. ASSUME NEW j \in Job, AckBatchTake(c, j)
      PROVE  TypeOK'
  <2>1. ControlOK'
    <3>1. CASE UNCHANGED <<pc, todo>>
      BY <1>9, <3>1 DEF AckBatchTake, AckBatchGoesOn, ControlOK
    <3>2. CASE AckBatchGoesOn(c, j)
      BY <3>2 DEF AckBatchGoesOn, ControlOK
    <3> QED BY <1>9, <3>1, <3>2 DEF AckBatchTake
  <2>2. hand' \in [Thread -> SUBSET Job] /\ processing' \subseteq Job
       /\ UNCHANGED <<queued, waitingDeps, dlq, completed>>
    BY <1>9 DEF AckBatchTake, AckBatchGoesOn, TakeFromProcessing, Take, stores
  <2>3. index' \in [Job -> Location]
    BY <1>9 DEF AckBatchTake
  <2> QED BY <1>9, <2>1, <2>2, <2>3 DEF AckBatchTake, resources, fields
<1>34. ASSUME NEW j \in Job, AckBatchIndex(c, j)
      PROVE  TypeOK'
  <2>1. ControlOK'
    BY <1>34 DEF AckBatchIndex, AckBatchGoesOn, ControlOK
  <2>2. index' \in [Job -> Location]
    BY <1>34 DEF AckBatchIndex, SetIndex
  <2> QED BY <1>34, <2>1, <2>2 DEF AckBatchIndex, stores, resources, fields
<1>10. ASSUME NEW j \in Job, ObliterateRemove(c, j)
      PROVE  TypeOK'
  BY <1>10, ReturnType, ContinueType, TodoType DEF ObliterateRemove, SetIndex, resources,
     fields
<1>11. CASE PullInsert(c)
  BY <1>11, ReturnType, GotoType, TodoType DEF PullInsert, Drop, resources, fields
<1>12. CASE AckRelease(c)
  BY <1>12, GotoType DEF AckRelease, ReleaseSlots, NoLimit, ReleaseGroups, Groups,
     ReleaseKeys, Keys, stores, fields
<1>13. CASE AckRecord(c)
  BY <1>13, ReturnType, GotoWithType DEF AckRecord, Drop, SetIndex, resources, StallLimit
<1>14. CASE AckIndex(c)
  BY <1>14, ReturnType, TodoType DEF AckIndex, SetIndex, stores, resources, fields
<1>15. CASE AckBatchRelease(c)
  <2>1. ControlOK'
    BY <1>15, GotoType DEF AckBatchRelease
  <2>2. current' \in [Queue -> Nat]
    <3>1. CASE arg[c] \in Queue
      BY <1>15, <3>1, HandSize, SMTT(20) DEF AckBatchRelease, ReleaseSlots, NoLimit
    <3>2. CASE arg[c] \notin Queue
      BY <1>15, <3>2 DEF AckBatchRelease, ReleaseSlots
    <3> QED BY <3>1, <3>2
  <2>3. uniqueKeys' \in [Queue -> SUBSET Key] /\ activeGroups' \in [Queue -> SUBSET Group]
    BY <1>15 DEF AckBatchRelease, ReleaseGroups, ReleaseKeys
  <2> QED BY <1>15, <2>1, <2>2, <2>3 DEF AckBatchRelease, stores, fields
<1>16. CASE AckBatchRecord(c)
  BY <1>16, ReturnType DEF AckBatchRecord, Drop, resources, StallLimit
<1>17. CASE FailIndex(c)
  BY <1>17, GotoType DEF FailIndex, IndexNext, SetIndex, stores, resources, fields
<1>18. CASE FailPlace(c)
  BY <1>18, ReturnType DEF FailPlace, ReleaseSlots, NoLimit, ReleaseGroups, Groups,
     PlaceNext, Requeue, Drop
<1>19. CASE FailDiscard(c)
  BY <1>19, GotoWithType DEF FailDiscard, ReleaseSlots, NoLimit, ReleaseGroups, Groups,
     Drop, stores, fields
<1>20. CASE FailForget(c)
  <2>1. ControlOK'
    BY <1>20, ReturnType DEF FailForget
  <2>2. stalls' \in [Job -> 0..StallLimit]
    <3>1. CASE arg[c] \in Job
      BY <1>20, <3>1 DEF FailForget, StallLimit
    <3>2. CASE arg[c] \notin Job
      BY <1>20, <3>2 DEF FailForget
    <3> QED BY <3>1, <3>2
  <2> QED BY <1>20, <2>1, <2>2 DEF FailForget, SetIndex, stores, resources
<1>21. CASE CancelProcessing(c)
  BY <1>21, ReturnType, GotoType, TodoType DEF CancelProcessing, TakeFromProcessing, Take,
     stores, resources, fields
<1>22. CASE CancelRelease(c)
  BY <1>22, GotoType DEF CancelRelease, ReleaseSlots, NoLimit, ReleaseKeys, Keys, Drop,
     stores, fields
<1>23. CASE CancelWaiting(c)
  BY <1>23, ReturnType, GotoType, TodoType DEF CancelWaiting, resources, fields
<1>24. CASE CancelQueued(c)
  BY <1>24, ReturnType, GotoType, TodoType DEF CancelQueued, ReleaseKeys, Keys, limits,
     fields
<1>25. CASE DelayIndex(c)
  BY <1>25, GotoType DEF DelayIndex, SetIndex, stores, resources, fields
<1>26. CASE DelayPlace(c)
  BY <1>26, ReturnType DEF DelayPlace, ReleaseSlots, NoLimit, Drop
<1>27. CASE PromoteQueued(c)
  BY <1>27, ReturnType, TodoType DEF PromoteQueued, stores, resources
<1>28. CASE DiscardQueued(c)
  BY <1>28, ReturnType, TodoType DEF DiscardQueued, SetIndex, resources, fields
<1>29. CASE DiscardProcessing(c)
  BY <1>29, ReturnType, GotoType, TodoType DEF DiscardProcessing, TakeFromProcessing, Take,
     stores, resources, fields
<1>30. CASE DiscardPlace(c)
  BY <1>30, GotoType DEF DiscardPlace, ReleaseSlots, NoLimit, Drop, fields
<1>31. CASE DiscardIndex(c)
  BY <1>31, ReturnType, TodoType DEF DiscardIndex, SetIndex, stores, resources, fields
<1>32. CASE PurgeUnindex(c)
  BY <1>32, ReturnType, TodoType DEF PurgeUnindex, SetIndex, stores, resources, fields
<1>33. CASE ObliterateCollect(c)
  BY <1>33, ReturnType, ContinueType, TodoType DEF ObliterateCollect, On, stores, resources,
     fields
<1> QED BY <1>1, <1>2, <1>3, <1>4, <1>5, <1>6, <1>7, <1>8, <1>9, <1>10, <1>11, <1>12, <1>13,
      <1>14, <1>15, <1>16, <1>17, <1>18, <1>19, <1>20, <1>21, <1>22, <1>23, <1>24, <1>25,
      <1>26, <1>27, <1>28, <1>29, <1>30, <1>31, <1>32, <1>33, <1>34 DEF Advance

\* The scans of the background task preserve the types.
LEMMA TickType ==
  ASSUME TypeOK, NEW b \in Thread, Tick(b)
  PROVE  TypeOK'
<1> USE OptionAssumption, LimitAssumption DEF TypeOK, Step, Location
<1>1. ASSUME NEW S, TimeoutScan(b, S)
      PROVE  TypeOK'
  BY <1>1, GotoEachType DEF TimeoutScan, stores, resources, fields
<1>2. ASSUME NEW S, StallScan(b, S)
      PROVE  TypeOK'
  BY <1>2, GotoEachType DEF StallScan, stores, resources, fields
<1>3. CASE DepsScan(b)
  BY <1>3, GotoEachType DEF DepsScan, stores, resources, fields
<1>4. ASSUME NEW S, CleanupScan(b, S)
      PROVE  TypeOK'
  BY <1>4, GotoEachType DEF CleanupScan, stores, resources, fields
<1> QED BY <1>1, <1>2, <1>3, <1>4 DEF Tick

\* What the background task does with the ids it collected: its steps preserve the types.
LEMMA AdvanceTickType ==
  ASSUME TypeOK, NEW b \in Thread, AdvanceTick(b)
  PROVE  TypeOK'
<1> USE OptionAssumption, LimitAssumption DEF TypeOK, Step, Location
<1>1. ASSUME NEW j \in Job, TimeoutTake(b, j)
      PROVE  TypeOK'
  <2>1. ControlOK'
    <3>1. CASE GotoEach(b, "timeout_release", todo[b] \ {j})
      BY <3>1, GotoEachType, TodoType
    <3>2. CASE Continue(b, "timeout_take", todo[b] \ {j})
      BY <3>2, ContinueType, TodoType
    <3> QED BY <1>1, <3>1, <3>2 DEF TimeoutTake
  <2>2. processing' \subseteq Job /\ UNCHANGED <<queued, waitingDeps, dlq, completed>>
    BY <1>1 DEF TimeoutTake, TakeFromProcessing, stores
  <2>3. hand' \in [Thread -> SUBSET Job]
    BY <1>1 DEF TimeoutTake, TakeFromProcessing, Take
  <2>4. attempts' \in [Job -> Nat]
    BY <1>1 DEF TimeoutTake, CountAttempt
  <2> QED BY <1>1, <2>1, <2>2, <2>3, <2>4 DEF TimeoutTake, resources
<1>2. ASSUME NEW j \in Job, StallCount(b, j)
      PROVE  TypeOK'
  <2>1. ControlOK'
    <3>1. CASE Continue(b, "stall_take", todo[b] \ {j})
      BY <3>1, ContinueType, TodoType
    <3>2. CASE /\ pc' = [pc EXCEPT ![b] = "stall_remove"]
               /\ todo' = [todo EXCEPT ![b] = @ \ {j}] /\ arg' = [arg EXCEPT ![b] = j]
      BY <3>2 DEF ControlOK
    <3> QED BY <1>2, <3>1, <3>2 DEF StallCount
  <2>2. stalls' \in [Job -> 0..StallLimit]
    BY <1>2 DEF StallCount, StallLimit
  <2> QED BY <1>2, <2>1, <2>2 DEF StallCount, stores, resources
<1>3. CASE TimeoutRelease(b)
  BY <1>3, GotoType DEF TimeoutRelease, ReleaseSlots, NoLimit, stores, fields
<1>4. CASE TimeoutIndex(b)
  BY <1>4, GotoType DEF TimeoutIndex, IndexNext, SetIndex, stores, resources, fields
<1>5. CASE TimeoutPlace(b)
  BY <1>5, ReturnType, ContinueType, TodoType DEF TimeoutPlace, PlaceNext, Requeue, Drop,
     resources
<1>6. CASE StallRemove(b)
  BY <1>6, ReturnType, GotoType, ContinueType, TodoType DEF StallRemove, TakeFromProcessing,
     Take, stores, resources, fields
<1>7. CASE StallIndex(b)
  BY <1>7, GotoType DEF StallIndex, SetIndex, stores, resources, fields
<1>8. CASE StallPlace(b)
  BY <1>8, ReturnType, ContinueType, TodoType DEF StallPlace, Drop, resources, fields
<1>9. CASE DepsMove(b)
  BY <1>9, ReturnType, TodoType DEF DepsMove, DependenciesMet, resources, fields
<1>10. CASE CleanupUnindex(b)
  BY <1>10, GotoType, TodoType DEF CleanupUnindex, SetIndex, stores, resources, fields
<1>11. CASE CleanupRemove(b)
  BY <1>11, ReturnType, TodoType DEF CleanupRemove, resources, fields
<1> QED BY <1>1, <1>2, <1>3, <1>4, <1>5, <1>6, <1>7, <1>8, <1>9, <1>10,
      <1>11 DEF AdvanceTick

\* The passing of time: its steps preserve the types.
LEMMA ClockType ==
  ASSUME TypeOK, Clock
  PROVE  TypeOK'
<1> USE OptionAssumption, LimitAssumption DEF TypeOK, Step, Location
<1>1. ASSUME NEW j \in Job, BecomesDue(j)
      PROVE  TypeOK'
  BY <1>1, StillType DEF BecomesDue, stores, resources, threads
<1>2. ASSUME NEW j \in Job, Expires(j)
      PROVE  TypeOK'
  BY <1>2, StillType DEF Expires, stores, resources, threads
<1> QED BY <1>1, <1>2 DEF Clock

\* The engine starts with empty containers of the right types.
LEMMA InitType == Init => TypeOK
BY OptionAssumption, LimitAssumption
   DEF Init, TypeOK, ControlOK, Step, Location, StallLimit

\* No step of a client, of the background task or of the clock breaks the types.
LEMMA NextType == TypeOK /\ [Next]_vars => TypeOK'
<1> SUFFICES ASSUME TypeOK, [Next]_vars PROVE TypeOK'
  OBVIOUS
<1>1. ASSUME NEW c \in Client, Begin(c) PROVE TypeOK'
  BY <1>1, BeginJobCallType, BeginPullType, BeginBatchCallType, BeginQueueCallType
     DEF Begin, Thread
<1>2. ASSUME NEW c \in Client, Advance(c) PROVE TypeOK'
  BY <1>2, AdvanceType DEF Thread
<1>3. CASE Tick(Background)
  BY <1>3, TickType DEF Thread
<1>4. CASE AdvanceTick(Background)
  BY <1>4, AdvanceTickType DEF Thread
<1>5. CASE Clock
  BY <1>5, ClockType
<1>6. CASE UNCHANGED vars
  BY <1>6 DEF TypeOK, ControlOK, vars, stores, resources, fields, threads
<1> QED BY <1>1, <1>2, <1>3, <1>4, <1>5, <1>6 DEF Next

\* The containers, the queue state and the local state of every thread keep their
\* types whatever the calls of JobLifecycle and however they interleave.
THEOREM TypeCorrect == Spec => []TypeOK
<1>1. Init => TypeOK
  BY InitType
<1>2. TypeOK /\ [Next]_vars => TypeOK'
  BY NextType
<1> QED BY <1>1, <1>2, PTL DEF Spec

-----------------------------------------------------------------------------
(* One owner.  SingleOwner alone is not inductive, since nothing in it      *)
(* keeps push from handing out the id of a job that is already somewhere;   *)
(* with OnlyCreated it is: the ids come from an atomic counter, modelled by *)
(* `created`.                                                               *)

\* The jobs that are in one of the containers.
Stored == queued \cup processing \cup waitingDeps \cup dlq \cup completed

\* Only ids that push has handed out are anywhere in the engine.
OnlyCreated ==
  /\ Stored \subseteq created
  /\ \A t \in Thread : hand[t] \subseteq created

\* The inductive invariant.
Owned == TypeOK /\ SingleOwner /\ OnlyCreated


\* The first lock scope of a call about one job: all of them keep every job in one place.
LEMMA BeginJobCallOwner ==
  ASSUME Owned, NEW c \in Thread, NEW j \in Job, BeginJobCall(c, j)
  PROVE  (SingleOwner /\ OnlyCreated)'
<1> USE DEF Owned, TypeOK, SingleOwner, OnlyCreated, Stored
<1>1. CASE Push(c, j)
  BY <1>1 DEF Push, Take, stores
<1>2. CASE Ack(c, j)
  BY <1>2 DEF Ack, TakeFromProcessing, Take
<1>3. CASE Fail(c, j)
  BY <1>3 DEF Fail, TakeFromProcessing, Take
<1>4. CASE Cancel(c, j)
  BY <1>4 DEF Cancel, stores
<1>5. CASE MoveToDelayed(c, j)
  BY <1>5 DEF MoveToDelayed, TakeFromProcessing, Take
<1>6. CASE Promote(c, j)
  BY <1>6 DEF Promote, stores
<1>7. CASE Discard(c, j)
  BY <1>7 DEF Discard, stores
<1>8. CASE Heartbeat(c, j)
  BY <1>8 DEF Heartbeat, stores, threads
<1> QED BY <1>1, <1>2, <1>3, <1>4, <1>5, <1>6, <1>7, <1>8 DEF BeginJobCall

\* pull and pull_batch keep every job in one place.
LEMMA BeginPullOwner ==
  ASSUME Owned, NEW c \in Thread, BeginPull(c)
  PROVE  (SingleOwner /\ OnlyCreated)'
<1> USE DEF Owned, TypeOK, SingleOwner, OnlyCreated, Stored
<1>1. ASSUME NEW q \in Queue, NEW n, NEW S, NEW X, Pull(c, q, n, S, X)
      PROVE  (SingleOwner /\ OnlyCreated)'
  BY <1>1 DEF Pull, Reachable, Waiting, On, NotDue, Take
<1> QED BY <1>1 DEF BeginPull

\* The first lock scopes of push_batch and ack_batch keep every job in one place.
LEMMA BeginBatchCallOwner ==
  ASSUME Owned, NEW c \in Thread, BeginBatchCall(c)
  PROVE  (SingleOwner /\ OnlyCreated)'
<1> USE DEF Owned, TypeOK, SingleOwner, OnlyCreated, Stored
<1>1. ASSUME NEW q \in Queue, NEW S, NEW Accepted, PushBatch(c, q, S, Accepted)
      PROVE  (SingleOwner /\ OnlyCreated)'
  BY <1>1 DEF PushBatch, On, Take, stores
<1>2. ASSUME NEW S \in SUBSET Job, AckBatch(c, S)
      PROVE  (SingleOwner /\ OnlyCreated)'
  BY <1>2 DEF AckBatch, stores
<1> QED BY <1>1, <1>2 DEF BeginBatchCall

\* The calls about a whole queue keep every job in one place.
LEMMA BeginQueueCallOwner ==
  ASSUME Owned, NEW c \in Thread, NEW q \in Queue, BeginQueueCall(c, q)
  PROVE  (SingleOwner /\ OnlyCreated)'
<1> USE DEF Owned, TypeOK, SingleOwner, OnlyCreated, Stored
<1>1. ASSUME NEW S, RetryDlq(c, q, S)
      PROVE  (SingleOwner /\ OnlyCreated)'
  BY <1>1 DEF RetryDlq, On, threads
<1>2. ASSUME NEW S, CleanFailed(c, q, S)
      PROVE  (SingleOwner /\ OnlyCreated)'
  BY <1>2 DEF CleanFailed, On, threads
<1>3. ASSUME NEW S, CleanWaiting(c, q, S)
      PROVE  (SingleOwner /\ OnlyCreated)'
  BY <1>3 DEF CleanWaiting, On, threads
<1>4. ASSUME NEW S, CleanCompleted(c, S)
      PROVE  (SingleOwner /\ OnlyCreated)'
  BY <1>4 DEF CleanCompleted, threads
<1>5. CASE PurgeDlq(c, q)
  BY <1>5 DEF PurgeDlq, On
<1>6. CASE Drain(c, q)
  BY <1>6 DEF Drain, On, threads
<1>7. CASE Obliterate(c, q)
  BY <1>7 DEF Obliterate, On
<1>8. CASE Pause(c, q)
  BY <1>8 DEF Pause, stores, threads
<1>9. CASE Resume(c, q)
  BY <1>9 DEF Resume, stores, threads
<1>10. CASE ClearConcurrency(c, q)
  BY <1>10 DEF ClearConcurrency, stores, threads
<1>11. ASSUME NEW n \in NewLimits, SetConcurrency(c, q, n)
      PROVE  (SingleOwner /\ OnlyCreated)'
  BY <1>11 DEF SetConcurrency, stores, threads
<1> QED BY <1>1, <1>2, <1>3, <1>4, <1>5, <1>6, <1>7, <1>8, <1>9, <1>10,
      <1>11 DEF BeginQueueCall

\* The later lock scopes of the calls keep every job in one place.
LEMMA AdvanceOwner ==
  ASSUME Owned, NEW c \in Thread, Advance(c)
  PROVE  (SingleOwner /\ OnlyCreated)'
<1> USE DEF Owned, TypeOK, SingleOwner, OnlyCreated, Stored
<1>1. CASE PushDuplicate(c)
  BY <1>1 DEF PushDuplicate, Drop, stores
<1>2. CASE PushInsert(c)
  BY <1>2 DEF PushInsert, Drop
<1>3. CASE PushPersisted(c)
  BY <1>3 DEF PushPersisted, stores
<1>4. CASE PushRollback(c)
  BY <1>4 DEF PushRollback
<1>5. CASE Unindex(c)
  BY <1>5 DEF Unindex, stores
<1>6. CASE PushBatchCheck(c)
  BY <1>6 DEF PushBatchCheck, stores
<1>7. CASE PushBatchInsert(c)
  BY <1>7 DEF PushBatchInsert, Drop
<1>8. ASSUME NEW j \in Job, PullIndex(c, j)
      PROVE  (SingleOwner /\ OnlyCreated)'
  BY <1>8 DEF PullIndex, stores
<1>9. ASSUME NEW j \in Job, AckBatchTake(c, j)
      PROVE  (SingleOwner /\ OnlyCreated)'
  BY <1>9 DEF AckBatchTake, AckBatchGoesOn, TakeFromProcessing, Take, stores
<1>34. ASSUME NEW j \in Job, AckBatchIndex(c, j)
      PROVE  (SingleOwner /\ OnlyCreated)'
  BY <1>34 DEF AckBatchIndex, AckBatchGoesOn, SetIndex, At, stores, resources, fields
<1>10. ASSUME NEW j \in Job, ObliterateRemove(c, j)
      PROVE  (SingleOwner /\ OnlyCreated)'
  BY <1>10 DEF ObliterateRemove
<1>11. CASE PullInsert(c)
  BY <1>11 DEF PullInsert, Drop
<1>12. CASE AckRelease(c)
  BY <1>12 DEF AckRelease, stores
<1>13. CASE AckRecord(c)
  BY <1>13 DEF AckRecord, Drop
<1>14. CASE AckIndex(c)
  BY <1>14 DEF AckIndex, stores
<1>15. CASE AckBatchRelease(c)
  BY <1>15 DEF AckBatchRelease, stores
<1>16. CASE AckBatchRecord(c)
  BY <1>16 DEF AckBatchRecord, Drop
<1>17. CASE FailIndex(c)
  BY <1>17 DEF FailIndex, IndexNext, stores
<1>18. CASE FailPlace(c)
  BY <1>18 DEF FailPlace, PlaceNext, Requeue, Drop
<1>19. CASE FailDiscard(c)
  BY <1>19 DEF FailDiscard, Drop, stores
<1>20. CASE FailForget(c)
  BY <1>20 DEF FailForget, stores
<1>21. CASE CancelProcessing(c)
  BY <1>21 DEF CancelProcessing, TakeFromProcessing, Take, stores
<1>22. CASE CancelRelease(c)
  BY <1>22 DEF CancelRelease, Drop, stores
<1>23. CASE CancelWaiting(c)
  BY <1>23 DEF CancelWaiting
<1>24. CASE CancelQueued(c)
  BY <1>24 DEF CancelQueued
<1>25. CASE DelayIndex(c)
  BY <1>25 DEF DelayIndex, stores
<1>26. CASE DelayPlace(c)
  BY <1>26 DEF DelayPlace, Drop
<1>27. CASE PromoteQueued(c)
  BY <1>27 DEF PromoteQueued, stores
<1>28. CASE DiscardQueued(c)
  BY <1>28 DEF DiscardQueued
<1>29. CASE DiscardProcessing(c)
  BY <1>29 DEF DiscardProcessing, TakeFromProcessing, Take, stores
<1>30. CASE DiscardPlace(c)
  BY <1>30 DEF DiscardPlace, Drop
<1>31. CASE DiscardIndex(c)
  BY <1>31 DEF DiscardIndex, stores
<1>32. CASE PurgeUnindex(c)
  BY <1>32 DEF PurgeUnindex, stores
<1>33. CASE ObliterateCollect(c)
  BY <1>33 DEF ObliterateCollect, On, stores
<1> QED BY <1>1, <1>2, <1>3, <1>4, <1>5, <1>6, <1>7, <1>8, <1>9, <1>10, <1>11, <1>12, <1>13,
      <1>14, <1>15, <1>16, <1>17, <1>18, <1>19, <1>20, <1>21, <1>22, <1>23, <1>24, <1>25,
      <1>26, <1>27, <1>28, <1>29, <1>30, <1>31, <1>32, <1>33, <1>34 DEF Advance

\* The scans of the background task keep every job in one place.
LEMMA TickOwner ==
  ASSUME Owned, NEW b \in Thread, Tick(b)
  PROVE  (SingleOwner /\ OnlyCreated)'
<1> USE DEF Owned, TypeOK, SingleOwner, OnlyCreated, Stored
<1>1. ASSUME NEW S, TimeoutScan(b, S)
      PROVE  (SingleOwner /\ OnlyCreated)'
  BY <1>1 DEF TimeoutScan, stores
<1>2. ASSUME NEW S, StallScan(b, S)
      PROVE  (SingleOwner /\ OnlyCreated)'
  BY <1>2 DEF StallScan, stores
<1>3. CASE DepsScan(b)
  BY <1>3 DEF DepsScan, stores
<1>4. ASSUME NEW S, CleanupScan(b, S)
      PROVE  (SingleOwner /\ OnlyCreated)'
  BY <1>4 DEF CleanupScan, stores
<1> QED BY <1>1, <1>2, <1>3, <1>4 DEF Tick

\* What the background task does with the ids it collected: its steps keep every job in one place.
LEMMA AdvanceTickOwner ==
  ASSUME Owned, NEW b \in Thread, AdvanceTick(b)
  PROVE  (SingleOwner /\ OnlyCreated)'
<1> USE DEF Owned, TypeOK, SingleOwner, OnlyCreated, Stored
<1>1. ASSUME NEW j \in Job, TimeoutTake(b, j)
      PROVE  (SingleOwner /\ OnlyCreated)'
  BY <1>1 DEF TimeoutTake, TakeFromProcessing, Take, stores
<1>2. ASSUME NEW j \in Job, StallCount(b, j)
      PROVE  (SingleOwner /\ OnlyCreated)'
  BY <1>2 DEF StallCount, stores
<1>3. CASE TimeoutRelease(b)
  BY <1>3 DEF TimeoutRelease, stores
<1>4. CASE TimeoutIndex(b)
  BY <1>4 DEF TimeoutIndex, IndexNext, stores
<1>5. CASE TimeoutPlace(b)
  BY <1>5 DEF TimeoutPlace, PlaceNext, Requeue, Drop
<1>6. CASE StallRemove(b)
  BY <1>6 DEF StallRemove, TakeFromProcessing, Take, stores
<1>7. CASE StallIndex(b)
  BY <1>7 DEF StallIndex, stores
<1>8. CASE StallPlace(b)
  BY <1>8 DEF StallPlace, Drop
<1>9. CASE DepsMove(b)
  BY <1>9 DEF DepsMove
<1>10. CASE CleanupUnindex(b)
  BY <1>10 DEF CleanupUnindex, stores
<1>11. CASE CleanupRemove(b)
  BY <1>11 DEF CleanupRemove
<1> QED BY <1>1, <1>2, <1>3, <1>4, <1>5, <1>6, <1>7, <1>8, <1>9, <1>10,
      <1>11 DEF AdvanceTick

\* The passing of time: its steps keep every job in one place.
LEMMA ClockOwner ==
  ASSUME Owned, Clock
  PROVE  (SingleOwner /\ OnlyCreated)'
<1> USE DEF Owned, TypeOK, SingleOwner, OnlyCreated, Stored
<1>1. ASSUME NEW j \in Job, BecomesDue(j)
      PROVE  (SingleOwner /\ OnlyCreated)'
  BY <1>1 DEF BecomesDue, stores, threads
<1>2. ASSUME NEW j \in Job, Expires(j)
      PROVE  (SingleOwner /\ OnlyCreated)'
  BY <1>2 DEF Expires, stores, threads
<1> QED BY <1>1, <1>2 DEF Clock

\* Nothing is anywhere at the start.
LEMMA InitOwned == Init => Owned
BY InitType DEF Init, Owned, SingleOwner, OnlyCreated, Stored

\* The invariant is inductive.
LEMMA NextOwned == Owned /\ [Next]_vars => Owned'
<1> SUFFICES ASSUME Owned, [Next]_vars PROVE (SingleOwner /\ OnlyCreated)'
  BY NextType DEF Owned
<1>1. ASSUME NEW c \in Client, Begin(c) PROVE (SingleOwner /\ OnlyCreated)'
  BY <1>1, BeginJobCallOwner, BeginPullOwner, BeginBatchCallOwner, BeginQueueCallOwner
     DEF Begin, Thread
<1>2. ASSUME NEW c \in Client, Advance(c) PROVE (SingleOwner /\ OnlyCreated)'
  BY <1>2, AdvanceOwner DEF Thread
<1>3. CASE Tick(Background)
  BY <1>3, TickOwner DEF Thread
<1>4. CASE AdvanceTick(Background)
  BY <1>4, AdvanceTickOwner DEF Thread
<1>5. CASE Clock
  BY <1>5, ClockOwner
<1>6. CASE UNCHANGED vars
  BY <1>6 DEF Owned, SingleOwner, OnlyCreated, Stored, vars, stores, threads
<1> QED BY <1>1, <1>2, <1>3, <1>4, <1>5, <1>6 DEF Next

\* Two operations that race for a job never both get it: at every moment a job is
\* in one container or in the hands of one thread, for any number of clients, jobs
\* and queues, and with every operation of JobLifecycle allowed at any time.
THEOREM SingleOwnership == Spec => []SingleOwner
<1>1. Init => Owned
  BY InitOwned
<1>2. Owned /\ [Next]_vars => Owned'
  BY NextOwned
<1>3. Owned => SingleOwner
  BY DEF Owned
<1> QED BY <1>1, <1>2, <1>3, PTL DEF Spec

-----------------------------------------------------------------------------
(* What a thread holds at each step.                                        *)

\* Steps at which a thread holds no job ...
EmptyHanded ==
  {"idle", "persist_ready", "persist_waiting", "unindex", "ack_index", "fail_forget",
   "cancel_processing", "cancel_waiting", "cancel_queued", "promote",
   "discard_processing", "discard_queued", "discard_index", "purge_unindex",
   "obliterate_collect", "obliterate_remove", "timeout_take", "stall_take",
   "stall_remove", "deps_move", "cleanup_unindex", "cleanup_remove"}

\* ... or the one job the call is about.
OneHanded ==
  {"push_ready", "push_waiting", "ack_release", "ack_record", "fail_index", "fail_place",
   "fail_discard", "cancel_release", "delay_index", "delay_place", "discard_place",
   "timeout_release", "timeout_index", "timeout_place", "stall_index", "stall_place"}

\* No thread returns to its caller, or goes on with its next id, with a job in hand.
HandShape ==
  \A t \in Thread :
    /\ pc[t] \in EmptyHanded => hand[t] = {}
    /\ pc[t] \in OneHanded => \E j \in Job : hand[t] = {j}
    /\ pc[t] = "idle" => arg[t] = None
    /\ pc[t] = "acks_take" /\ arg[t] = None => hand[t] = {}


\* The first lock scope of a call about one job: all of them leave no job behind in a hand.
LEMMA BeginJobCallHand ==
  ASSUME TypeOK, HandShape, NEW c \in Thread, NEW j \in Job, BeginJobCall(c, j)
  PROVE  HandShape'
<1>0. ControlOK /\ hand \in [Thread -> SUBSET Job] /\ processing \subseteq Job
  BY DEF TypeOK
<1> USE <1>0, OptionAssumption DEF ControlOK, HandShape, EmptyHanded, OneHanded
<1>1. CASE Push(c, j)
  BY <1>1 DEF Push, Idle, Take, Goto
<1>2. CASE Ack(c, j)
  BY <1>2 DEF Ack, Idle, TakeFromProcessing, Take, Goto
<1>3. CASE Fail(c, j)
  BY <1>3 DEF Fail, Idle, TakeFromProcessing, Take, Goto
<1>4. CASE Cancel(c, j)
  BY <1>4 DEF Cancel, Idle, GotoWith
<1>5. CASE MoveToDelayed(c, j)
  BY <1>5 DEF MoveToDelayed, Idle, TakeFromProcessing, Take, Goto
<1>6. CASE Promote(c, j)
  BY <1>6 DEF Promote, Idle, GotoWith
<1>7. CASE Discard(c, j)
  BY <1>7 DEF Discard, Idle, GotoWith
<1>8. CASE Heartbeat(c, j)
  BY <1>8 DEF Heartbeat, Idle, threads
<1> QED BY <1>1, <1>2, <1>3, <1>4, <1>5, <1>6, <1>7, <1>8 DEF BeginJobCall

\* pull and pull_batch leave no job behind in a hand.
LEMMA BeginPullHand ==
  ASSUME TypeOK, HandShape, NEW c \in Thread, BeginPull(c)
  PROVE  HandShape'
<1>0. ControlOK /\ hand \in [Thread -> SUBSET Job] /\ processing \subseteq Job
  BY DEF TypeOK
<1> USE <1>0, OptionAssumption DEF ControlOK, HandShape, EmptyHanded, OneHanded
<1>1. ASSUME NEW q \in Queue, NEW n, NEW S, NEW X, Pull(c, q, n, S, X)
      PROVE  HandShape'
  BY <1>1 DEF Pull, Idle, Take, Return, Goto
<1> QED BY <1>1 DEF BeginPull

\* The first lock scopes of push_batch and ack_batch leave no job behind in a hand.
LEMMA BeginBatchCallHand ==
  ASSUME TypeOK, HandShape, NEW c \in Thread, BeginBatchCall(c)
  PROVE  HandShape'
<1>0. ControlOK /\ hand \in [Thread -> SUBSET Job] /\ processing \subseteq Job
  BY DEF TypeOK
<1> USE <1>0, OptionAssumption DEF ControlOK, HandShape, EmptyHanded, OneHanded
<1>1. ASSUME NEW q \in Queue, NEW S, NEW Accepted, PushBatch(c, q, S, Accepted)
      PROVE  HandShape'
  <2>1. CASE Accepted = {}
    BY <1>1, <2>1 DEF PushBatch, Idle, Take, Return
  <2>2. CASE Accepted # {}
    BY <1>1, <2>2 DEF PushBatch, Take, Goto
  <2> QED BY <2>1, <2>2
<1>2. ASSUME NEW S \in SUBSET Job, AckBatch(c, S)
      PROVE  HandShape'
  BY <1>2 DEF AckBatch, Idle, GotoEach
<1> QED BY <1>1, <1>2 DEF BeginBatchCall

\* The calls about a whole queue leave no job behind in a hand.
LEMMA BeginQueueCallHand ==
  ASSUME TypeOK, HandShape, NEW c \in Thread, NEW q \in Queue, BeginQueueCall(c, q)
  PROVE  HandShape'
<1>0. ControlOK /\ hand \in [Thread -> SUBSET Job] /\ processing \subseteq Job
  BY DEF TypeOK
<1> USE <1>0, OptionAssumption DEF ControlOK, HandShape, EmptyHanded, OneHanded
<1>1. ASSUME NEW S, RetryDlq(c, q, S)
      PROVE  HandShape'
  BY <1>1 DEF RetryDlq, Idle, threads
<1>2. ASSUME NEW S, CleanFailed(c, q, S)
      PROVE  HandShape'
  BY <1>2 DEF CleanFailed, Idle, threads
<1>3. ASSUME NEW S, CleanWaiting(c, q, S)
      PROVE  HandShape'
  BY <1>3 DEF CleanWaiting, Idle, threads
<1>4. ASSUME NEW S, CleanCompleted(c, S)
      PROVE  HandShape'
  BY <1>4 DEF CleanCompleted, Idle, threads
<1>5. CASE PurgeDlq(c, q)
  BY <1>5 DEF PurgeDlq, Idle, GotoEach
<1>6. CASE Drain(c, q)
  BY <1>6 DEF Drain, Idle, threads
<1>7. CASE Obliterate(c, q)
  BY <1>7 DEF Obliterate, Idle, GotoWith
<1>8. CASE Pause(c, q)
  BY <1>8 DEF Pause, Idle, threads
<1>9. CASE Resume(c, q)
  BY <1>9 DEF Resume, Idle, threads
<1>10. CASE ClearConcurrency(c, q)
  BY <1>10 DEF ClearConcurrency, Idle, threads
<1>11. ASSUME NEW n \in NewLimits, SetConcurrency(c, q, n)
      PROVE  HandShape'
  BY <1>11 DEF SetConcurrency, Idle, threads
<1> QED BY <1>1, <1>2, <1>3, <1>4, <1>5, <1>6, <1>7, <1>8, <1>9, <1>10,
      <1>11 DEF BeginQueueCall

\* The later lock scopes of the calls leave no job behind in a hand.
LEMMA AdvanceHand ==
  ASSUME TypeOK, HandShape, NEW c \in Thread, Advance(c)
  PROVE  HandShape'
<1>0. ControlOK /\ hand \in [Thread -> SUBSET Job] /\ processing \subseteq Job
  BY DEF TypeOK
<1> USE <1>0, OptionAssumption DEF ControlOK, HandShape, EmptyHanded, OneHanded
<1>1. CASE PushDuplicate(c)
  BY <1>1 DEF PushDuplicate, Drop, Return
<1>2. CASE PushInsert(c)
  <2>1. PICK j \in Job : hand[c] = {j}
    BY <1>2 DEF PushInsert
  <2>2. hand' = [hand EXCEPT ![c] = {}]
    <3>1. Drop(c, {j})
      BY <1>2, <2>1 DEF PushInsert
    <3>2. hand[c] \ {j} = {}
      BY <2>1
    <3> QED BY <3>1, <3>2 DEF Drop
  <2>3. CASE Return(c)
    BY <2>2, <2>3 DEF Return
  <2>4. CASE \E step \in {"persist_ready", "persist_waiting"} : GotoWith(c, step, j)
    BY <2>2, <2>4 DEF GotoWith
  <2> QED BY <1>2, <2>1, <2>3, <2>4 DEF PushInsert
<1>3. CASE PushPersisted(c)
  BY <1>3 DEF PushPersisted, Return
<1>4. CASE PushRollback(c)
  BY <1>4 DEF PushRollback, At, Goto
<1>5. CASE Unindex(c)
  BY <1>5 DEF Unindex, At, Return
<1>6. CASE PushBatchCheck(c)
  BY <1>6 DEF PushBatchCheck, At, GotoEach
<1>7. CASE PushBatchInsert(c)
  BY <1>7 DEF PushBatchInsert, At, Drop, Return
<1>8. ASSUME NEW j \in Job, PullIndex(c, j)
      PROVE  HandShape'
  BY <1>8 DEF PullIndex, At, GotoWith
<1>9. ASSUME NEW j \in Job, AckBatchTake(c, j)
      PROVE  HandShape'
  BY <1>9 DEF AckBatchTake, AckBatchGoesOn, At, TakeFromProcessing, Take
<1>34. ASSUME NEW j \in Job, AckBatchIndex(c, j)
      PROVE  HandShape'
  BY <1>34 DEF AckBatchIndex, AckBatchGoesOn, SetIndex, At, stores, resources, fields
<1>10. ASSUME NEW j \in Job, ObliterateRemove(c, j)
      PROVE  HandShape'
  BY <1>10 DEF ObliterateRemove, At, Continue, Return, GotoEach
<1>11. CASE PullInsert(c)
  BY <1>11 DEF PullInsert, At, Drop, Return, Goto
<1>12. CASE AckRelease(c)
  BY <1>12 DEF AckRelease, At, Goto
<1>13. CASE AckRecord(c)
  BY <1>13 DEF AckRecord, At, Drop, Return, GotoWith
<1>14. CASE AckIndex(c)
  BY <1>14 DEF AckIndex, At, Return
<1>15. CASE AckBatchRelease(c)
  BY <1>15 DEF AckBatchRelease, At, Goto
<1>16. CASE AckBatchRecord(c)
  BY <1>16 DEF AckBatchRecord, At, Drop, Return
<1>17. CASE FailIndex(c)
  BY <1>17 DEF FailIndex, IndexNext, At, Goto
<1>18. CASE FailPlace(c)
  BY <1>18 DEF FailPlace, At, Drop, Return
<1>19. CASE FailDiscard(c)
  BY <1>19 DEF FailDiscard, At, Drop, GotoWith
<1>20. CASE FailForget(c)
  BY <1>20 DEF FailForget, At, Return
<1>21. CASE CancelProcessing(c)
  BY <1>21 DEF CancelProcessing, At, TakeFromProcessing, Take, Goto, Return
<1>22. CASE CancelRelease(c)
  BY <1>22 DEF CancelRelease, At, Drop, Goto
<1>23. CASE CancelWaiting(c)
  BY <1>23 DEF CancelWaiting, At, Goto, Return
<1>24. CASE CancelQueued(c)
  BY <1>24 DEF CancelQueued, At, Goto, Return
<1>25. CASE DelayIndex(c)
  BY <1>25 DEF DelayIndex, At, Goto
<1>26. CASE DelayPlace(c)
  BY <1>26 DEF DelayPlace, At, Drop, Return
<1>27. CASE PromoteQueued(c)
  BY <1>27 DEF PromoteQueued, At, Return
<1>28. CASE DiscardQueued(c)
  BY <1>28 DEF DiscardQueued, At, Return
<1>29. CASE DiscardProcessing(c)
  BY <1>29 DEF DiscardProcessing, At, TakeFromProcessing, Take, Goto, Return
<1>30. CASE DiscardPlace(c)
  BY <1>30 DEF DiscardPlace, At, Drop, Goto
<1>31. CASE DiscardIndex(c)
  BY <1>31 DEF DiscardIndex, At, Return
<1>32. CASE PurgeUnindex(c)
  BY <1>32 DEF PurgeUnindex, At, Return
<1>33. CASE ObliterateCollect(c)
  BY <1>33 DEF ObliterateCollect, At, Continue, Return, GotoEach
<1> QED BY <1>1, <1>2, <1>3, <1>4, <1>5, <1>6, <1>7, <1>8, <1>9, <1>10, <1>11, <1>12, <1>13,
      <1>14, <1>15, <1>16, <1>17, <1>18, <1>19, <1>20, <1>21, <1>22, <1>23, <1>24, <1>25,
      <1>26, <1>27, <1>28, <1>29, <1>30, <1>31, <1>32, <1>33, <1>34 DEF Advance

\* The scans of the background task leave no job behind in a hand.
LEMMA TickHand ==
  ASSUME TypeOK, HandShape, NEW b \in Thread, Tick(b)
  PROVE  HandShape'
<1>0. ControlOK /\ hand \in [Thread -> SUBSET Job] /\ processing \subseteq Job
  BY DEF TypeOK
<1> USE <1>0, OptionAssumption DEF ControlOK, HandShape, EmptyHanded, OneHanded
<1>1. ASSUME NEW S, TimeoutScan(b, S)
      PROVE  HandShape'
  BY <1>1 DEF TimeoutScan, Idle, GotoEach
<1>2. ASSUME NEW S, StallScan(b, S)
      PROVE  HandShape'
  BY <1>2 DEF StallScan, Idle, GotoEach
<1>3. CASE DepsScan(b)
  BY <1>3 DEF DepsScan, Idle, GotoEach
<1>4. ASSUME NEW S, CleanupScan(b, S)
      PROVE  HandShape'
  BY <1>4 DEF CleanupScan, Idle, GotoEach
<1> QED BY <1>1, <1>2, <1>3, <1>4 DEF Tick

\* What the background task does with the ids it collected: its steps leave no job behind in a hand.
LEMMA AdvanceTickHand ==
  ASSUME TypeOK, HandShape, NEW b \in Thread, AdvanceTick(b)
  PROVE  HandShape'
<1>0. ControlOK /\ hand \in [Thread -> SUBSET Job] /\ processing \subseteq Job
  BY DEF TypeOK
<1> USE <1>0, OptionAssumption DEF ControlOK, HandShape, EmptyHanded, OneHanded
<1>1. ASSUME NEW j \in Job, TimeoutTake(b, j)
      PROVE  HandShape'
  <2>1. hand[b] = {}
    BY <1>1 DEF TimeoutTake, At
  <2>2. CASE j \in processing /\ Take(b, {j}) /\ GotoEach(b, "timeout_release", todo[b] \ {j})
    BY <2>1, <2>2 DEF Take, GotoEach
  <2>3. CASE hand' = hand /\ Continue(b, "timeout_take", todo[b] \ {j})
    BY <2>1, <2>3 DEF Continue, GotoEach, Return
  <2> QED BY <1>1, <2>2, <2>3 DEF TimeoutTake, TakeFromProcessing
<1>2. ASSUME NEW j \in Job, StallCount(b, j)
      PROVE  HandShape'
  BY <1>2 DEF StallCount, At, Continue, Return, GotoEach
<1>3. CASE TimeoutRelease(b)
  BY <1>3 DEF TimeoutRelease, At, Goto
<1>4. CASE TimeoutIndex(b)
  BY <1>4 DEF TimeoutIndex, IndexNext, At, Goto
<1>5. CASE TimeoutPlace(b)
  BY <1>5 DEF TimeoutPlace, At, Drop, Continue, Return, GotoEach
<1>6. CASE StallRemove(b)
  BY <1>6 DEF StallRemove, At, TakeFromProcessing, Take, Goto, Continue, Return, GotoEach
<1>7. CASE StallIndex(b)
  BY <1>7 DEF StallIndex, At, Goto
<1>8. CASE StallPlace(b)
  <2>1. PICK j \in Job : hand[b] = {j}
    BY <1>8 DEF StallPlace, At
  <2>2. hand' = [hand EXCEPT ![b] = {}]
    BY <1>8, <2>1 DEF StallPlace, Drop
  <2>3. CASE Return(b)
    BY <2>2, <2>3 DEF Return
  <2>4. CASE GotoEach(b, "stall_take", todo[b])
    BY <2>2, <2>4 DEF GotoEach
  <2> QED BY <1>8, <2>3, <2>4 DEF StallPlace, Continue
<1>9. CASE DepsMove(b)
  BY <1>9 DEF DepsMove, At, Return
<1>10. CASE CleanupUnindex(b)
  BY <1>10 DEF CleanupUnindex, At, Goto
<1>11. CASE CleanupRemove(b)
  BY <1>11 DEF CleanupRemove, At, Return
<1> QED BY <1>1, <1>2, <1>3, <1>4, <1>5, <1>6, <1>7, <1>8, <1>9, <1>10,
      <1>11 DEF AdvanceTick

\* The passing of time: its steps leave no job behind in a hand.
LEMMA ClockHand ==
  ASSUME TypeOK, HandShape, Clock
  PROVE  HandShape'
<1>0. ControlOK /\ hand \in [Thread -> SUBSET Job] /\ processing \subseteq Job
  BY DEF TypeOK
<1> USE <1>0, OptionAssumption DEF ControlOK, HandShape, EmptyHanded, OneHanded
<1>1. ASSUME NEW j \in Job, BecomesDue(j)
      PROVE  HandShape'
  BY <1>1 DEF BecomesDue, threads
<1>2. ASSUME NEW j \in Job, Expires(j)
      PROVE  HandShape'
  BY <1>2 DEF Expires, threads
<1> QED BY <1>1, <1>2 DEF Clock

\* No thread holds anything at the start.
LEMMA InitHand == Init => HandShape
BY DEF Init, HandShape, OneHanded

\* What a thread holds follows from where it is.
LEMMA NextHand == TypeOK /\ HandShape /\ [Next]_vars => HandShape'
<1> SUFFICES ASSUME TypeOK, HandShape, [Next]_vars PROVE HandShape'
  OBVIOUS
<1>1. ASSUME NEW c \in Client, Begin(c) PROVE HandShape'
  BY <1>1, BeginJobCallHand, BeginPullHand, BeginBatchCallHand, BeginQueueCallHand
     DEF Begin, Thread
<1>2. ASSUME NEW c \in Client, Advance(c) PROVE HandShape'
  BY <1>2, AdvanceHand DEF Thread
<1>3. CASE Tick(Background)
  BY <1>3, TickHand DEF Thread
<1>4. CASE AdvanceTick(Background)
  BY <1>4, AdvanceTickHand DEF Thread
<1>5. CASE Clock
  BY <1>5, ClockHand
<1>6. CASE UNCHANGED vars
  BY <1>6 DEF HandShape, vars, threads
<1> QED BY <1>1, <1>2, <1>3, <1>4, <1>5, <1>6 DEF Next

=============================================================================

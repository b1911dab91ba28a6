--------------------------- MODULE DeliveriesProofs ---------------------------
(***************************************************************************)
(* Jobs and answers on their way -- consumers that pull and answer,        *)
(* callers that wait for a result, and the client's commands over          *)
(* connections that break --, for any number of each.                      *)
(***************************************************************************)
EXTENDS Completion, Delivery, Transport, TLAPS, FiniteSetTheorems

-----------------------------------------------------------------------------
(* Jobs, threads and waits *)

\* Steps of a thread that has taken its job out of every container.
HoldSteps == {"pull_index", "pull_insert", "ack_store", "ack_index", "acks_index",
              "dead_notify", "dead_index", "dead_place", "retry_index", "retry_place"}
AckSteps == {"ack_store", "ack_index", "ack_notify", "ack_report"}
DeadSteps == {"dead_notify", "dead_index", "dead_place"}
LiveSteps == {"pull_index", "pull_insert", "retry_index", "retry_place"}
OwnSteps == HoldSteps \cup AckSteps
CancelSteps == {"cancel_index", "cancel_notify"}
FlowSteps == {"flow_park", "flow_index", "flow_insert"}

Places == {"none", "queue", "hand", "processing", "waiting_children", "completed", "dlq"}
Ends == {"none", "cancelled", "drained", "dead", "batch", "acked", "acked_result"}
Steps == {"idle", "parent_index", "acks_take", "acks_notify"}
         \cup OwnSteps \cup CancelSteps \cup FlowSteps
WaitSteps == {"idle", "completed", "failed", "not_found", "checked", "result", "nothing",
              "registered", "expired", "timeout", "abandoned"}

CmTypeOK ==
  /\ place \in [Job -> Places] /\ index \in [Job -> Places] /\ ended \in [Job -> Ends]
  /\ results \subseteq Job /\ children_completed \in Nat
  /\ job_waiters \in [Job -> SUBSET Wait]
  /\ wait \in [Wait -> [job : Job \cup {None}, at : WaitSteps]]
  /\ pc \in [Thread -> Steps] /\ arg \in [Thread -> Job \cup {None}]
  /\ todo \in [Thread -> SUBSET Job] /\ withResult \in [Thread -> BOOLEAN]

\* A job that a thread took is in that thread's hand alone.
HandsAreOne ==
  /\ \A t \in Thread : pc[t] \in HoldSteps => place[arg[t]] = "hand"
  /\ \A t \in Thread : pc[t] \in OwnSteps => arg[t] \in Job
  /\ \A t, u \in Thread :
       pc[t] \in OwnSteps /\ pc[u] \in OwnSteps /\ arg[t] = arg[u] => t = u

\* A job in a container has not ended, and a thread that ends one knows how it did.
EndsAreFinal ==
  /\ \A j \in Job : place[j] \in {"queue", "processing", "waiting_children"} => ended[j] = "none"
  /\ \A t \in Thread :
       /\ pc[t] \in LiveSteps => ended[arg[t]] = "none"
       /\ pc[t] \in AckSteps =>
            ended[arg[t]] = IF withResult[t] THEN "acked_result" ELSE "acked"
       /\ pc[t] = "ack_report" => arg[t] \in Children
       /\ pc[t] \in {"acks_index", "acks_notify"} => arg[t] \in Job /\ ended[arg[t]] = "batch"
       /\ pc[t] \in DeadSteps => ended[arg[t]] = "dead"
       /\ pc[t] \in CancelSteps => arg[t] \in Job /\ ended[arg[t]] = "cancelled"

Unpushed == index[Parent] = "none" /\ ended[Parent] = "none"
Fresh(j) == place[j] = "none" /\ ended[j] = "none"

\* A flow is pushed once, by one thread, and until it is in the queue nobody has
\* seen a child.
FlowIsPushedOnce ==
  /\ Unpushed => (\A j \in Flow : Fresh(j)) /\ \A t \in Thread : pc[t] \notin FlowSteps
  /\ \A t, u \in Thread : pc[t] \in FlowSteps /\ pc[u] \in FlowSteps => t = u
  /\ \A t \in Thread :
       /\ pc[t] = "flow_park" => \A j \in Flow : Fresh(j)
       /\ pc[t] \in {"flow_index", "flow_insert"} =>
            todo[t] \subseteq Children /\ \A c \in todo[t] : Fresh(c)
       /\ pc[t] = "flow_insert" => arg[t] \in Children \ todo[t] /\ Fresh(arg[t])

Acked == {"acked_result", "acked"}
\* The children whose ack has told the parent, or that had no parent to tell.
Reported == {c \in Children :
               /\ ended[c] \in Acked
               /\ \A t \in Thread : pc[t] \in AckSteps => arg[t] # c}
CountIsBacked == children_completed <= Cardinality(Reported)

\* What the index and the results say is so, apart from results that were dropped.
IndexTellsEnd ==
  /\ \A j \in results : ended[j] = "acked_result"
  /\ \A j \in Job : index[j] = "completed" => ended[j] \in Acked \cup {"batch"}
  /\ \A j \in Job : index[j] = "completed" /\ ended[j] = "acked_result" =>
                      j \in results \cup evicted
  /\ \A j \in Job : index[j] = "dlq" => ended[j] = "dead"
  /\ \A t \in Thread : pc[t] = "ack_index" /\ withResult[t] =>
                      arg[t] \in results \cup evicted \cup RemoveOnComplete

\* A wait that found its job completed can still rely on it.
CompletedStands ==
  \A w \in Wait : LET j == wait[w].job IN
    /\ wait[w].at # "idle" => j \in Job
    /\ wait[w].at = "completed" => /\ ended[j] \in Acked \cup {"batch"}
                                   /\ ended[j] = "acked_result" => j \in results \cup evicted

\* Where the parent is once it may be pulled.
Pulled == {"queue", "hand", "processing", "completed", "dlq"}

CmInv ==
  /\ CmTypeOK /\ HandsAreOne /\ EndsAreFinal /\ FlowIsPushedOnce /\ CountIsBacked
  /\ ParentAfterChildren /\ IndexTellsEnd /\ CompletedStands /\ WaitsAnswered

\* The steps that go through a job know it.
LEMMA ArgKnown ==
  ASSUME CmInv, NEW t \in Thread,
         pc[t] \in OwnSteps \cup CancelSteps \cup {"acks_notify", "flow_insert"}
  PROVE  arg[t] \in Job
BY CompletionAssumption DEF CmInv, HandsAreOne, EndsAreFinal, FlowIsPushedOnce

\* Waiters that are told keep the shape of waiters.
LEMMA TellingTypes ==
  ASSUME CmTypeOK, NEW j \in Job, NEW what \in {"result", "nothing"}, NotifyJobWaiters(j, what)
  PROVE  /\ wait' \in [Wait -> [job : Job \cup {None}, at : WaitSteps]]
         /\ job_waiters' \in [Job -> SUBSET Wait]
BY DEF CmTypeOK, NotifyJobWaiters, Told, WaitSteps

\* Types are kept.
LEMMA CmTypeStep == CmInv /\ [WaitsNext]_waitsVars => CmTypeOK'
<1> SUFFICES ASSUME CmInv, [WaitsNext]_waitsVars PROVE CmTypeOK'
  OBVIOUS
<1> USE CompletionAssumption DEF CmInv, CmTypeOK, HandsAreOne, EndsAreFinal, CompletedStands,
       Places, Ends, Steps, WaitSteps, OwnSteps, HoldSteps, AckSteps, CancelSteps, FlowSteps,
       Goto, Return, AtStep, Move, SetIndex, End, Tell, Told, flow, waits, threads, waitsHistory
<1>1. CASE UNCHANGED waitsVars
  BY <1>1 DEF waitsVars
<1>2. ASSUME NEW t \in Thread, PushFlow(t) PROVE CmTypeOK'
  BY <1>2 DEF PushFlow
<1>3. ASSUME NEW t \in Thread, Pull(t) PROVE CmTypeOK'
  BY <1>3 DEF Pull
<1>4. ASSUME NEW t \in Thread, Ack(t) PROVE CmTypeOK'
  BY <1>4 DEF Ack
<1>5. ASSUME NEW t \in Thread, AckBatch(t) PROVE CmTypeOK'
  BY <1>5 DEF AckBatch
<1>6. ASSUME NEW t \in Thread, Fail(t) PROVE CmTypeOK'
  <2>1. PICK j \in Job :
          /\ place' = [place EXCEPT ![j] = "hand"]
          /\ ended' = ended \/ ended' = [ended EXCEPT ![j] = "dead"]
          /\ \E step \in {"dead_notify", "retry_index"} : Goto(t, step, j)
    BY <1>6 DEF Fail
  <2>2. place' \in [Job -> Places] /\ ended' \in [Job -> Ends]
    BY <2>1
  <2>3. pc' \in [Thread -> Steps] /\ arg' \in [Thread -> Job \cup {None}]
    BY <2>1
  <2> QED BY <1>6, <2>1, <2>2, <2>3 DEF Fail
<1>7. ASSUME NEW t \in Thread, Stall(t) PROVE CmTypeOK'
  BY <1>7 DEF Stall
<1>8. ASSUME NEW t \in Thread, Cancel(t) PROVE CmTypeOK'
  BY <1>8 DEF Cancel
<1>9. ASSUME NEW t \in Thread, Drain(t) PROVE CmTypeOK'
  BY <1>9 DEF Drain
<1>10. ASSUME NEW t \in Thread, FlowPark(t) PROVE CmTypeOK'
  BY <1>10 DEF FlowPark
<1>11. ASSUME NEW t \in Thread, FlowIndex(t) PROVE CmTypeOK'
  BY <1>11 DEF FlowIndex
<1>12. ASSUME NEW t \in Thread, FlowInsert(t) PROVE CmTypeOK'
  BY <1>12, ArgKnown DEF FlowInsert
<1>13. ASSUME NEW t \in Thread, PullIndex(t) PROVE CmTypeOK'
  BY <1>13 DEF PullIndex
<1>14. ASSUME NEW t \in Thread, PullInsert(t) PROVE CmTypeOK'
  BY <1>14 DEF PullInsert
<1>15. ASSUME NEW t \in Thread, AckStore(t) PROVE CmTypeOK'
  BY <1>15 DEF AckStore
<1>16. ASSUME NEW t \in Thread, AckIndex(t) PROVE CmTypeOK'
  BY <1>16 DEF AckIndex
<1>17. ASSUME NEW t \in Thread, AckNotify(t) PROVE CmTypeOK'
  <2>1. arg[t] \in Job
    BY <1>17, ArgKnown DEF AckNotify
  <2>2. \E what \in {"result", "nothing"} : NotifyJobWaiters(arg[t], what)
    BY <1>17 DEF AckNotify
  <2>3. /\ wait' \in [Wait -> [job : Job \cup {None}, at : WaitSteps]]
        /\ job_waiters' \in [Job -> SUBSET Wait]
    BY <2>1, <2>2, TellingTypes
  <2>4. pc' \in [Thread -> Steps] /\ arg' \in [Thread -> Job \cup {None}]
    <3>1. \E step \in {"ack_report", "acks_take", "dead_index", "idle"}, j \in {arg[t], None} :
            Goto(t, step, j)
      BY <1>17 DEF AckNotify
    <3> QED BY <2>1, <3>1
  <2> QED BY <1>17, <2>3, <2>4 DEF AckNotify
<1>18. ASSUME NEW t \in Thread, AckReport(t) PROVE CmTypeOK'
  BY <1>18, SMTT(20) DEF AckReport, OnChildCompleted
<1>19. ASSUME NEW t \in Thread, ParentIndex(t) PROVE CmTypeOK'
  BY <1>19 DEF ParentIndex
<1>20. ASSUME NEW t \in Thread, AcksTake(t) PROVE CmTypeOK'
  <2>1. PICK j \in todo[t] :
          /\ place' = place \/ Move(j, "hand")
          /\ ended' = ended \/ End(j, "batch")
          /\ arg' = arg \/ arg' = [arg EXCEPT ![t] = j]
          /\ \E step \in {"acks_index", "idle", pc[t]} : pc' = [pc EXCEPT ![t] = step]
          /\ todo' = [todo EXCEPT ![t] = @ \ {j}]
    BY <1>20 DEF AcksTake
  <2>2. j \in Job /\ place' \in [Job -> Places] /\ ended' \in [Job -> Ends]
    BY <2>1, SMTT(20)
  <2>3. pc' \in [Thread -> Steps]
    <3>1. {"acks_index", "idle", pc[t]} \subseteq Steps
      OBVIOUS
    <3> HIDE DEF Steps
    <3> QED BY <2>1, <3>1
  <2>4. arg' \in [Thread -> Job \cup {None}] /\ todo' \in [Thread -> SUBSET Job]
    BY <2>1, <2>2
  <2> QED BY <1>20, <2>2, <2>3, <2>4 DEF AcksTake
<1>21. ASSUME NEW t \in Thread, AcksIndex(t) PROVE CmTypeOK'
  BY <1>21 DEF AcksIndex
<1>22. ASSUME NEW t \in Thread, AcksNotify(t) PROVE CmTypeOK'
  <2>1. arg[t] \in Job
    BY <1>22, ArgKnown DEF AcksNotify
  <2>2. \E what \in {"result", "nothing"} : NotifyJobWaiters(arg[t], what)
    BY <1>22 DEF AcksNotify
  <2>3. /\ wait' \in [Wait -> [job : Job \cup {None}, at : WaitSteps]]
        /\ job_waiters' \in [Job -> SUBSET Wait]
    BY <2>1, <2>2, TellingTypes
  <2>4. pc' \in [Thread -> Steps] /\ arg' \in [Thread -> Job \cup {None}]
    <3>1. \E step \in {"ack_report", "acks_take", "dead_index", "idle"}, j \in {arg[t], None} :
            Goto(t, step, j)
      BY <1>22 DEF AcksNotify
    <3> QED BY <2>1, <3>1
  <2> QED BY <1>22, <2>3, <2>4 DEF AcksNotify
<1>23. ASSUME NEW t \in Thread, DeadNotify(t) PROVE CmTypeOK'
  <2>1. arg[t] \in Job
    BY <1>23, ArgKnown DEF DeadNotify
  <2>2. \E what \in {"result", "nothing"} : NotifyJobWaiters(arg[t], what)
    BY <1>23 DEF DeadNotify
  <2>3. /\ wait' \in [Wait -> [job : Job \cup {None}, at : WaitSteps]]
        /\ job_waiters' \in [Job -> SUBSET Wait]
    BY <2>1, <2>2, TellingTypes
  <2>4. pc' \in [Thread -> Steps] /\ arg' \in [Thread -> Job \cup {None}]
    <3>1. \E step \in {"ack_report", "acks_take", "dead_index", "idle"}, j \in {arg[t], None} :
            Goto(t, step, j)
      BY <1>23 DEF DeadNotify
    <3> QED BY <2>1, <3>1
  <2> QED BY <1>23, <2>3, <2>4 DEF DeadNotify
<1>24. ASSUME NEW t \in Thread, DeadIndex(t) PROVE CmTypeOK'
  BY <1>24 DEF DeadIndex
<1>25. ASSUME NEW t \in Thread, DeadPlace(t) PROVE CmTypeOK'
  BY <1>25 DEF DeadPlace
<1>26. ASSUME NEW t \in Thread, RetryIndex(t) PROVE CmTypeOK'
  BY <1>26 DEF RetryIndex
<1>27. ASSUME NEW t \in Thread, RetryPlace(t) PROVE CmTypeOK'
  BY <1>27 DEF RetryPlace
<1>28. ASSUME NEW t \in Thread, CancelIndex(t) PROVE CmTypeOK'
  BY <1>28 DEF CancelIndex
<1>29. ASSUME NEW t \in Thread, CancelNotify(t) PROVE CmTypeOK'
  <2>1. arg[t] \in Job
    BY <1>29, ArgKnown DEF CancelNotify
  <2>2. \E what \in {"result", "nothing"} : NotifyJobWaiters(arg[t], what)
    BY <1>29 DEF CancelNotify
  <2>3. /\ wait' \in [Wait -> [job : Job \cup {None}, at : WaitSteps]]
        /\ job_waiters' \in [Job -> SUBSET Wait]
    BY <2>1, <2>2, TellingTypes
  <2>4. pc' \in [Thread -> Steps] /\ arg' \in [Thread -> Job \cup {None}]
    <3>1. \E step \in {"ack_report", "acks_take", "dead_index", "idle"}, j \in {arg[t], None} :
            Goto(t, step, j)
      BY <1>29 DEF CancelNotify
    <3> QED BY <2>1, <3>1
  <2> QED BY <1>29, <2>3, <2>4 DEF CancelNotify
<1>30. ASSUME NEW w \in Wait, WaitCheck(w) PROVE CmTypeOK'
  BY <1>30 DEF WaitCheck
<1>31. ASSUME NEW w \in Wait, WaitReadResult(w) PROVE CmTypeOK'
  BY <1>31 DEF WaitReadResult
<1>32. ASSUME NEW w \in Wait, WaitRegister(w) PROVE CmTypeOK'
  BY <1>32 DEF WaitRegister
<1>33. ASSUME NEW w \in Wait, WaitExpire(w) PROVE CmTypeOK'
  BY <1>33 DEF WaitExpire
<1>34. ASSUME NEW w \in Wait, WaitCleanUp(w) PROVE CmTypeOK'
  BY <1>34 DEF WaitCleanUp
<1>35. ASSUME NEW w \in Wait, WaitAbandon(w) PROVE CmTypeOK'
  BY <1>35 DEF WaitAbandon
<1>36. CASE CleanupJobResults
  BY <1>36 DEF CleanupJobResults
<1> QED BY <1>1, <1>2, <1>3, <1>4, <1>5, <1>6, <1>7, <1>8, <1>9, <1>10, <1>11, <1>12, <1>13,
          <1>14, <1>15, <1>16, <1>17, <1>18, <1>19, <1>20, <1>21, <1>22, <1>23, <1>24, <1>25,
          <1>26, <1>27, <1>28, <1>29, <1>30, <1>31, <1>32, <1>33, <1>34, <1>35, <1>36
       DEF WaitsNext, Call, CallStep, WaitStep

\* A job in a container is in no thread's hand.
LEMMA NobodyHas ==
  ASSUME CmInv, NEW j \in Job, place[j] \in {"queue", "processing", "waiting_children"}
  PROVE  \A u \in Thread : pc[u] \in OwnSteps => arg[u] # j
BY DEF CmInv, HandsAreOne, EndsAreFinal, OwnSteps, AckSteps

\* What a thread took stays in its hand.
LEMMA HandsStep == CmInv /\ [WaitsNext]_waitsVars => HandsAreOne'
<1> SUFFICES ASSUME CmInv, [WaitsNext]_waitsVars PROVE HandsAreOne'
  OBVIOUS
<1> USE CompletionAssumption DEF CmInv, CmTypeOK, HandsAreOne, EndsAreFinal, FlowIsPushedOnce,
       Fresh, Unpushed, Flow, OwnSteps, HoldSteps, AckSteps, CancelSteps, FlowSteps, LiveSteps,
       DeadSteps, Goto, Return, AtStep, Move, SetIndex, End, Tell, Told, flow, waits, threads,
       waitsHistory
<1>1. CASE UNCHANGED waitsVars
  BY <1>1 DEF waitsVars
<1>2. ASSUME NEW t \in Thread, PushFlow(t) PROVE HandsAreOne'
  BY <1>2 DEF PushFlow
<1>3. ASSUME NEW t \in Thread, Pull(t) PROVE HandsAreOne'
  BY <1>3 DEF Pull
<1>4. ASSUME NEW t \in Thread, Ack(t) PROVE HandsAreOne'
  BY <1>4 DEF Ack
<1>5. ASSUME NEW t \in Thread, AckBatch(t) PROVE HandsAreOne'
  BY <1>5 DEF AckBatch
<1>6. ASSUME NEW t \in Thread, Fail(t) PROVE HandsAreOne'
  <2>1. PICK j \in Job :
          /\ place[j] = "processing" /\ Move(j, "hand") /\ UNCHANGED withResult
          /\ \/ End(j, "dead") /\ Goto(t, "dead_notify", j)
             \/ UNCHANGED ended /\ Goto(t, "retry_index", j)
    BY <1>6 DEF Fail
  <2>2. CASE End(j, "dead") /\ Goto(t, "dead_notify", j)
    <3>1. \A u \in Thread : pc[u] \in OwnSteps => arg[u] # j
      BY <2>1, NobodyHas
    <3> QED BY <1>6, <2>1, <2>2, <3>1 DEF Fail
  <2>3. CASE UNCHANGED ended /\ Goto(t, "retry_index", j)
    BY <1>6, <2>1, <2>3 DEF Fail
  <2> QED BY <2>1, <2>2, <2>3
<1>7. ASSUME NEW t \in Thread, Stall(t) PROVE HandsAreOne'
  BY <1>7, SMTT(20) DEF Stall
<1>8. ASSUME NEW t \in Thread, Cancel(t) PROVE HandsAreOne'
  BY <1>8 DEF Cancel
<1>9. ASSUME NEW t \in Thread, Drain(t) PROVE HandsAreOne'
  BY <1>9 DEF Drain
<1>10. ASSUME NEW t \in Thread, FlowPark(t) PROVE HandsAreOne'
  BY <1>10 DEF FlowPark
<1>11. ASSUME NEW t \in Thread, FlowIndex(t) PROVE HandsAreOne'
  BY <1>11 DEF FlowIndex
<1>12. ASSUME NEW t \in Thread, FlowInsert(t) PROVE HandsAreOne'
  <2>1. place[arg[t]] = "none" /\ arg[t] \in Job /\ Move(arg[t], "queue") /\ UNCHANGED ended
    BY <1>12 DEF FlowInsert
  <2>2. \E step \in {"idle", "flow_index"} : Goto(t, step, None)
    BY <1>12 DEF FlowInsert
  <2> QED BY <1>12, <2>1, <2>2
<1>13. ASSUME NEW t \in Thread, PullIndex(t) PROVE HandsAreOne'
  BY <1>13 DEF PullIndex
<1>14. ASSUME NEW t \in Thread, PullInsert(t) PROVE HandsAreOne'
  BY <1>14 DEF PullInsert
<1>15. ASSUME NEW t \in Thread, AckStore(t) PROVE HandsAreOne'
  BY <1>15 DEF AckStore
<1>16. ASSUME NEW t \in Thread, AckIndex(t) PROVE HandsAreOne'
  BY <1>16 DEF AckIndex
<1>17. ASSUME NEW t \in Thread, AckNotify(t) PROVE HandsAreOne'
  BY <1>17 DEF AckNotify
<1>18. ASSUME NEW t \in Thread, AckReport(t) PROVE HandsAreOne'
  <2>1. /\ pc[t] = "ack_report" /\ UNCHANGED <<ended, withResult, todo>>
        /\ Return(t) \/ Goto(t, "parent_index", arg[t])
    BY <1>18 DEF AckReport, OnChildCompleted
  <2>2. place' = place \/ (place[Parent] = "waiting_children" /\ Move(Parent, "queue"))
    BY <1>18 DEF AckReport, OnChildCompleted
  <2>3. \A u \in Thread : pc'[u] \in OwnSteps => u # t /\ pc'[u] = pc[u] /\ arg'[u] = arg[u]
    BY <2>1
  <2>4. \A u \in Thread : pc[u] \in HoldSteps => place'[arg[u]] = "hand"
    BY <2>2
  <2> QED BY <2>3, <2>4
<1>19. ASSUME NEW t \in Thread, ParentIndex(t) PROVE HandsAreOne'
  BY <1>19 DEF ParentIndex
<1>20. ASSUME NEW t \in Thread, AcksTake(t) PROVE HandsAreOne'
  <2>1. PICK j \in todo[t] :
          IF place[j] = "processing"
            THEN /\ Move(j, "hand") /\ End(j, "batch")
                 /\ pc' = [pc EXCEPT ![t] = "acks_index"] /\ arg' = [arg EXCEPT ![t] = j]
            ELSE /\ pc' = [pc EXCEPT ![t] = IF todo[t] = {j} THEN "idle" ELSE @]
                 /\ UNCHANGED <<place, arg, ended>>
    BY <1>20 DEF AcksTake
  <2>2. pc[t] = "acks_take" /\ UNCHANGED withResult /\ j \in Job
    BY <1>20, <2>1 DEF AcksTake
  <2>3. CASE place[j] = "processing"
    <3>1. \A u \in Thread : pc[u] \in OwnSteps => arg[u] # j
      BY <2>2, <2>3, NobodyHas
    <3>2. /\ pc' = [pc EXCEPT ![t] = "acks_index"] /\ arg' = [arg EXCEPT ![t] = j]
          /\ place' = [place EXCEPT ![j] = "hand"]
      BY <2>1, <2>3
    <3>3. \A u \in Thread : pc'[u] \in OwnSteps => arg'[u] \in Job
      BY <2>2, <3>2
    <3>4. \A u \in Thread : pc'[u] \in HoldSteps => place'[arg'[u]] = "hand"
      BY <2>2, <3>2
    <3>5. \A u, v \in Thread :
            pc'[u] \in OwnSteps /\ pc'[v] \in OwnSteps /\ arg'[u] = arg'[v] => u = v
      BY <2>2, <3>1, <3>2
    <3> QED BY <3>3, <3>4, <3>5
  <2>4. CASE place[j] # "processing"
    <3>1. /\ \E step \in {"idle", "acks_take"} : pc' = [pc EXCEPT ![t] = step]
          /\ UNCHANGED <<place, arg, ended>>
      BY <2>1, <2>2, <2>4
    <3> QED BY <2>2, <3>1
  <2> QED BY <2>3, <2>4
<1>21. ASSUME NEW t \in Thread, AcksIndex(t) PROVE HandsAreOne'
  BY <1>21 DEF AcksIndex
<1>22. ASSUME NEW t \in Thread, AcksNotify(t) PROVE HandsAreOne'
  <2>1. \E step \in {"idle", "acks_take"} : Goto(t, step, None)
    BY <1>22 DEF AcksNotify
  <2> QED BY <1>22, <2>1 DEF AcksNotify
<1>23. ASSUME NEW t \in Thread, DeadNotify(t) PROVE HandsAreOne'
  BY <1>23 DEF DeadNotify
<1>24. ASSUME NEW t \in Thread, DeadIndex(t) PROVE HandsAreOne'
  BY <1>24 DEF DeadIndex
<1>25. ASSUME NEW t \in Thread, DeadPlace(t) PROVE HandsAreOne'
  BY <1>25 DEF DeadPlace
<1>26. ASSUME NEW t \in Thread, RetryIndex(t) PROVE HandsAreOne'
  BY <1>26 DEF RetryIndex
<1>27. ASSUME NEW t \in Thread, RetryPlace(t) PROVE HandsAreOne'
  BY <1>27 DEF RetryPlace
<1>28. ASSUME NEW t \in Thread, CancelIndex(t) PROVE HandsAreOne'
  BY <1>28 DEF CancelIndex
<1>29. ASSUME NEW t \in Thread, CancelNotify(t) PROVE HandsAreOne'
  BY <1>29 DEF CancelNotify
<1>30. ASSUME NEW w \in Wait, WaitCheck(w) PROVE HandsAreOne'
  BY <1>30 DEF WaitCheck
<1>31. ASSUME NEW w \in Wait, WaitReadResult(w) PROVE HandsAreOne'
  BY <1>31 DEF WaitReadResult
<1>32. ASSUME NEW w \in Wait, WaitRegister(w) PROVE HandsAreOne'
  BY <1>32 DEF WaitRegister
<1>33. ASSUME NEW w \in Wait, WaitExpire(w) PROVE HandsAreOne'
  BY <1>33 DEF WaitExpire
<1>34. ASSUME NEW w \in Wait, WaitCleanUp(w) PROVE HandsAreOne'
  BY <1>34 DEF WaitCleanUp
<1>35. ASSUME NEW w \in Wait, WaitAbandon(w) PROVE HandsAreOne'
  BY <1>35 DEF WaitAbandon
<1>36. CASE CleanupJobResults
  BY <1>36 DEF CleanupJobResults
<1> QED BY <1>1, <1>2, <1>3, <1>4, <1>5, <1>6, <1>7, <1>8, <1>9, <1>10, <1>11, <1>12, <1>13,
          <1>14, <1>15, <1>16, <1>17, <1>18, <1>19, <1>20, <1>21, <1>22, <1>23, <1>24, <1>25,
          <1>26, <1>27, <1>28, <1>29, <1>30, <1>31, <1>32, <1>33, <1>34, <1>35, <1>36, SMTT(20)
       DEF WaitsNext, Call, CallStep, WaitStep

\* An end is final, and a thread knows which it is.
LEMMA EndsStep == CmInv /\ [WaitsNext]_waitsVars => EndsAreFinal'
<1> SUFFICES ASSUME CmInv, [WaitsNext]_waitsVars PROVE EndsAreFinal'
  OBVIOUS
<1> USE CompletionAssumption DEF CmInv, CmTypeOK, HandsAreOne, EndsAreFinal, FlowIsPushedOnce,
       Fresh, Unpushed, Flow, OwnSteps, HoldSteps, AckSteps, CancelSteps, FlowSteps, LiveSteps,
       DeadSteps, Goto, Return, AtStep, Move, SetIndex, End, Tell, Told, flow, waits, threads,
       waitsHistory
<1>1. CASE UNCHANGED waitsVars
  BY <1>1 DEF waitsVars
<1>2. ASSUME NEW t \in Thread, PushFlow(t) PROVE EndsAreFinal'
  BY <1>2 DEF PushFlow
<1>3. ASSUME NEW t \in Thread, Pull(t) PROVE EndsAreFinal'
  BY <1>3 DEF Pull
<1>4. ASSUME NEW t \in Thread, Ack(t) PROVE EndsAreFinal'
  BY <1>4 DEF Ack
<1>5. ASSUME NEW t \in Thread, AckBatch(t) PROVE EndsAreFinal'
  BY <1>5 DEF AckBatch
<1>6. ASSUME NEW t \in Thread, Fail(t) PROVE EndsAreFinal'
  <2>1. PICK j \in Job :
          /\ place[j] = "processing" /\ Move(j, "hand") /\ UNCHANGED withResult
          /\ \/ End(j, "dead") /\ Goto(t, "dead_notify", j)
             \/ UNCHANGED ended /\ Goto(t, "retry_index", j)
    BY <1>6 DEF Fail
  <2>2. CASE End(j, "dead") /\ Goto(t, "dead_notify", j)
    <3>1. \A u \in Thread : pc[u] \in OwnSteps => arg[u] # j
      BY <2>1, NobodyHas
    <3> QED BY <1>6, <2>1, <2>2, <3>1 DEF Fail
  <2>3. CASE UNCHANGED ended /\ Goto(t, "retry_index", j)
    BY <1>6, <2>1, <2>3 DEF Fail
  <2> QED BY <2>1, <2>2, <2>3
<1>7. ASSUME NEW t \in Thread, Stall(t) PROVE EndsAreFinal'
  BY <1>7 DEF Stall
<1>8. ASSUME NEW t \in Thread, Cancel(t) PROVE EndsAreFinal'
  BY <1>8 DEF Cancel
<1>9. ASSUME NEW t \in Thread, Drain(t) PROVE EndsAreFinal'
  BY <1>9 DEF Drain
<1>10. ASSUME NEW t \in Thread, FlowPark(t) PROVE EndsAreFinal'
  BY <1>10 DEF FlowPark
<1>11. ASSUME NEW t \in Thread, FlowIndex(t) PROVE EndsAreFinal'
  BY <1>11 DEF FlowIndex
<1>12. ASSUME NEW t \in Thread, FlowInsert(t) PROVE EndsAreFinal'
  BY <1>12 DEF FlowInsert
<1>13. ASSUME NEW t \in Thread, PullIndex(t) PROVE EndsAreFinal'
  BY <1>13 DEF PullIndex
<1>14. ASSUME NEW t \in Thread, PullInsert(t) PROVE EndsAreFinal'
  BY <1>14 DEF PullInsert
<1>15. ASSUME NEW t \in Thread, AckStore(t) PROVE EndsAreFinal'
  BY <1>15 DEF AckStore
<1>16. ASSUME NEW t \in Thread, AckIndex(t) PROVE EndsAreFinal'
  BY <1>16 DEF AckIndex
<1>17. ASSUME NEW t \in Thread, AckNotify(t) PROVE EndsAreFinal'
  BY <1>17 DEF AckNotify
<1>18. ASSUME NEW t \in Thread, AckReport(t) PROVE EndsAreFinal'
  BY <1>18 DEF AckReport, OnChildCompleted
<1>19. ASSUME NEW t \in Thread, ParentIndex(t) PROVE EndsAreFinal'
  BY <1>19 DEF ParentIndex
<1>20. ASSUME NEW t \in Thread, AcksTake(t) PROVE EndsAreFinal'
  <2>1. PICK j \in todo[t] :
          IF place[j] = "processing"
            THEN /\ Move(j, "hand") /\ End(j, "batch")
                 /\ pc' = [pc EXCEPT ![t] = "acks_index"] /\ arg' = [arg EXCEPT ![t] = j]
            ELSE /\ pc' = [pc EXCEPT ![t] = IF todo[t] = {j} THEN "idle" ELSE @]
                 /\ UNCHANGED <<place, arg, ended>>
    BY <1>20 DEF AcksTake
  <2>2. pc[t] = "acks_take" /\ UNCHANGED withResult /\ j \in Job
    BY <1>20, <2>1 DEF AcksTake
  <2>3. CASE place[j] = "processing"
    BY <2>1, <2>2, <2>3
  <2>4. CASE place[j] # "processing"
    <3>1. /\ \E step \in {"idle", "acks_take"} : pc' = [pc EXCEPT ![t] = step]
          /\ UNCHANGED <<place, arg, ended>>
      BY <2>1, <2>2, <2>4
    <3> QED BY <2>2, <3>1
  <2> QED BY <2>3, <2>4
<1>21. ASSUME NEW t \in Thread, AcksIndex(t) PROVE EndsAreFinal'
  BY <1>21 DEF AcksIndex
<1>22. ASSUME NEW t \in Thread, AcksNotify(t) PROVE EndsAreFinal'
  <2>1. \E step \in {"idle", "acks_take"} : Goto(t, step, None)
    BY <1>22 DEF AcksNotify
  <2> QED BY <1>22, <2>1 DEF AcksNotify
<1>23. ASSUME NEW t \in Thread, DeadNotify(t) PROVE EndsAreFinal'
  BY <1>23 DEF DeadNotify
<1>24. ASSUME NEW t \in Thread, DeadIndex(t) PROVE EndsAreFinal'
  BY <1>24 DEF DeadIndex
<1>25. ASSUME NEW t \in Thread, DeadPlace(t) PROVE EndsAreFinal'
  BY <1>25 DEF DeadPlace
<1>26. ASSUME NEW t \in Thread, RetryIndex(t) PROVE EndsAreFinal'
  BY <1>26 DEF RetryIndex
<1>27. ASSUME NEW t \in Thread, RetryPlace(t) PROVE EndsAreFinal'
  BY <1>27 DEF RetryPlace
<1>28. ASSUME NEW t \in Thread, CancelIndex(t) PROVE EndsAreFinal'
  BY <1>28 DEF CancelIndex
<1>29. ASSUME NEW t \in Thread, CancelNotify(t) PROVE EndsAreFinal'
  BY <1>29 DEF CancelNotify
<1>30. ASSUME NEW w \in Wait, WaitCheck(w) PROVE EndsAreFinal'
  BY <1>30 DEF WaitCheck
<1>31. ASSUME NEW w \in Wait, WaitReadResult(w) PROVE EndsAreFinal'
  BY <1>31 DEF WaitReadResult
<1>32. ASSUME NEW w \in Wait, WaitRegister(w) PROVE EndsAreFinal'
  BY <1>32 DEF WaitRegister
<1>33. ASSUME NEW w \in Wait, WaitExpire(w) PROVE EndsAreFinal'
  BY <1>33 DEF WaitExpire
<1>34. ASSUME NEW w \in Wait, WaitCleanUp(w) PROVE EndsAreFinal'
  BY <1>34 DEF WaitCleanUp
<1>35. ASSUME NEW w \in Wait, WaitAbandon(w) PROVE EndsAreFinal'
  BY <1>35 DEF WaitAbandon
<1>36. CASE CleanupJobResults
  BY <1>36 DEF CleanupJobResults
<1> QED BY <1>1, <1>2, <1>3, <1>4, <1>5, <1>6, <1>7, <1>8, <1>9, <1>10, <1>11, <1>12, <1>13,
          <1>14, <1>15, <1>16, <1>17, <1>18, <1>19, <1>20, <1>21, <1>22, <1>23, <1>24, <1>25,
          <1>26, <1>27, <1>28, <1>29, <1>30, <1>31, <1>32, <1>33, <1>34, <1>35, <1>36
       DEF WaitsNext, Call, CallStep, WaitStep

\* A flow is pushed once.
LEMMA FlowStep == CmInv /\ [WaitsNext]_waitsVars => FlowIsPushedOnce'
<1> SUFFICES ASSUME CmInv, [WaitsNext]_waitsVars PROVE FlowIsPushedOnce'
  OBVIOUS
<1> USE CompletionAssumption DEF CmInv, CmTypeOK, HandsAreOne, EndsAreFinal, FlowIsPushedOnce,
       Fresh, Unpushed, Flow, OwnSteps, HoldSteps, AckSteps, CancelSteps, FlowSteps, LiveSteps,
       DeadSteps, Goto, Return, AtStep, Move, SetIndex, End, Tell, Told, flow, waits, threads,
       waitsHistory
<1>1. CASE UNCHANGED waitsVars
  BY <1>1 DEF waitsVars
<1>2. ASSUME NEW t \in Thread, PushFlow(t) PROVE FlowIsPushedOnce'
  BY <1>2 DEF PushFlow
<1>3. ASSUME NEW t \in Thread, Pull(t) PROVE FlowIsPushedOnce'
  BY <1>3 DEF Pull
<1>4. ASSUME NEW t \in Thread, Ack(t) PROVE FlowIsPushedOnce'
  BY <1>4 DEF Ack
<1>5. ASSUME NEW t \in Thread, AckBatch(t) PROVE FlowIsPushedOnce'
  BY <1>5 DEF AckBatch
<1>6. ASSUME NEW t \in Thread, Fail(t) PROVE FlowIsPushedOnce'
  BY <1>6 DEF Fail
<1>7. ASSUME NEW t \in Thread, Stall(t) PROVE FlowIsPushedOnce'
  BY <1>7 DEF Stall
<1>8. ASSUME NEW t \in Thread, Cancel(t) PROVE FlowIsPushedOnce'
  BY <1>8 DEF Cancel
<1>9. ASSUME NEW t \in Thread, Drain(t) PROVE FlowIsPushedOnce'
  BY <1>9 DEF Drain
<1>10. ASSUME NEW t \in Thread, FlowPark(t) PROVE FlowIsPushedOnce'
  BY <1>10 DEF FlowPark
<1>11. ASSUME NEW t \in Thread, FlowIndex(t) PROVE FlowIsPushedOnce'
  BY <1>11 DEF FlowIndex
<1>12. ASSUME NEW t \in Thread, FlowInsert(t) PROVE FlowIsPushedOnce'
  BY <1>12, SMTT(20) DEF FlowInsert
<1>13. ASSUME NEW t \in Thread, PullIndex(t) PROVE FlowIsPushedOnce'
  BY <1>13 DEF PullIndex
<1>14. ASSUME NEW t \in Thread, PullInsert(t) PROVE FlowIsPushedOnce'
  BY <1>14 DEF PullInsert
<1>15. ASSUME NEW t \in Thread, AckStore(t) PROVE FlowIsPushedOnce'
  BY <1>15 DEF AckStore
<1>16. ASSUME NEW t \in Thread, AckIndex(t) PROVE FlowIsPushedOnce'
  BY <1>16 DEF AckIndex
<1>17. ASSUME NEW t \in Thread, AckNotify(t) PROVE FlowIsPushedOnce'
  BY <1>17 DEF AckNotify
<1>18. ASSUME NEW t \in Thread, AckReport(t) PROVE FlowIsPushedOnce'
  BY <1>18 DEF AckReport, OnChildCompleted
<1>19. ASSUME NEW t \in Thread, ParentIndex(t) PROVE FlowIsPushedOnce'
  BY <1>19 DEF ParentIndex
<1>20. ASSUME NEW t \in Thread, AcksTake(t) PROVE FlowIsPushedOnce'
  BY <1>20 DEF AcksTake
<1>21. ASSUME NEW t \in Thread, AcksIndex(t) PROVE FlowIsPushedOnce'
  BY <1>21 DEF AcksIndex
<1>22. ASSUME NEW t \in Thread, AcksNotify(t) PROVE FlowIsPushedOnce'
  BY <1>22 DEF AcksNotify
<1>23. ASSUME NEW t \in Thread, DeadNotify(t) PROVE FlowIsPushedOnce'
  BY <1>23 DEF DeadNotify
<1>24. ASSUME NEW t \in Thread, DeadIndex(t) PROVE FlowIsPushedOnce'
  BY <1>24 DEF DeadIndex
<1>25. ASSUME NEW t \in Thread, DeadPlace(t) PROVE FlowIsPushedOnce'
  BY <1>25 DEF DeadPlace
<1>26. ASSUME NEW t \in Thread, RetryIndex(t) PROVE FlowIsPushedOnce'
  BY <1>26 DEF RetryIndex
<1>27. ASSUME NEW t \in Thread, RetryPlace(t) PROVE FlowIsPushedOnce'
  BY <1>27 DEF RetryPlace
<1>28. ASSUME NEW t \in Thread, CancelIndex(t) PROVE FlowIsPushedOnce'
  BY <1>28 DEF CancelIndex
<1>29. ASSUME NEW t \in Thread, CancelNotify(t) PROVE FlowIsPushedOnce'
  BY <1>29 DEF CancelNotify
<1>30. ASSUME NEW w \in Wait, WaitCheck(w) PROVE FlowIsPushedOnce'
  BY <1>30 DEF WaitCheck
<1>31. ASSUME NEW w \in Wait, WaitReadResult(w) PROVE FlowIsPushedOnce'
  BY <1>31 DEF WaitReadResult
<1>32. ASSUME NEW w \in Wait, WaitRegister(w) PROVE FlowIsPushedOnce'
  BY <1>32 DEF WaitRegister
<1>33. ASSUME NEW w \in Wait, WaitExpire(w) PROVE FlowIsPushedOnce'
  BY <1>33 DEF WaitExpire
<1>34. ASSUME NEW w \in Wait, WaitCleanUp(w) PROVE FlowIsPushedOnce'
  BY <1>34 DEF WaitCleanUp
<1>35. ASSUME NEW w \in Wait, WaitAbandon(w) PROVE FlowIsPushedOnce'
  BY <1>35 DEF WaitAbandon
<1>36. CASE CleanupJobResults
  BY <1>36 DEF CleanupJobResults
<1> QED BY <1>1, <1>2, <1>3, <1>4, <1>5, <1>6, <1>7, <1>8, <1>9, <1>10, <1>11, <1>12, <1>13,
          <1>14, <1>15, <1>16, <1>17, <1>18, <1>19, <1>20, <1>21, <1>22, <1>23, <1>24, <1>25,
          <1>26, <1>27, <1>28, <1>29, <1>30, <1>31, <1>32, <1>33, <1>34, <1>35, <1>36
       DEF WaitsNext, Call, CallStep, WaitStep

\* What has ended stays so.
EndsStand ==
  \A j \in Job : ended[j] # "none" => ended'[j] = ended[j]

\* No step but keeps that.
LEMMA EndedStays == CmInv /\ [WaitsNext]_waitsVars => EndsStand
<1> SUFFICES ASSUME CmInv, [WaitsNext]_waitsVars PROVE EndsStand
  OBVIOUS
<1> USE CompletionAssumption DEF CmInv, CmTypeOK, HandsAreOne, EndsAreFinal, OwnSteps, HoldSteps,
       AckSteps, CancelSteps, FlowSteps, LiveSteps, DeadSteps, Goto, Return, AtStep, Move,
       SetIndex, End, Tell, Told, flow, waits, threads, waitsHistory, EndsStand
<1>1. CASE UNCHANGED waitsVars
  BY <1>1 DEF waitsVars
<1>2. ASSUME NEW t \in Thread, PushFlow(t) PROVE EndsStand
  BY <1>2 DEF PushFlow
<1>3. ASSUME NEW t \in Thread, Pull(t) PROVE EndsStand
  BY <1>3 DEF Pull
<1>4. ASSUME NEW t \in Thread, Ack(t) PROVE EndsStand
  BY <1>4 DEF Ack
<1>5. ASSUME NEW t \in Thread, AckBatch(t) PROVE EndsStand
  BY <1>5 DEF AckBatch
<1>6. ASSUME NEW t \in Thread, Fail(t) PROVE EndsStand
  BY <1>6 DEF Fail
<1>7. ASSUME NEW t \in Thread, Stall(t) PROVE EndsStand
  BY <1>7 DEF Stall
<1>8. ASSUME NEW t \in Thread, Cancel(t) PROVE EndsStand
  BY <1>8 DEF Cancel
<1>9. ASSUME NEW t \in Thread, Drain(t) PROVE EndsStand
  BY <1>9 DEF Drain
<1>10. ASSUME NEW t \in Thread, FlowPark(t) PROVE EndsStand
  BY <1>10 DEF FlowPark
<1>11. ASSUME NEW t \in Thread, FlowIndex(t) PROVE EndsStand
  BY <1>11 DEF FlowIndex
<1>12. ASSUME NEW t \in Thread, FlowInsert(t) PROVE EndsStand
  BY <1>12 DEF FlowInsert
<1>13. ASSUME NEW t \in Thread, PullIndex(t) PROVE EndsStand
  BY <1>13 DEF PullIndex
<1>14. ASSUME NEW t \in Thread, PullInsert(t) PROVE EndsStand
  BY <1>14 DEF PullInsert
<1>15. ASSUME NEW t \in Thread, AckStore(t) PROVE EndsStand
  BY <1>15 DEF AckStore
<1>16. ASSUME NEW t \in Thread, AckIndex(t) PROVE EndsStand
  BY <1>16 DEF AckIndex
<1>17. ASSUME NEW t \in Thread, AckNotify(t) PROVE EndsStand
  BY <1>17 DEF AckNotify
<1>18. ASSUME NEW t \in Thread, AckReport(t) PROVE EndsStand
  BY <1>18 DEF AckReport, OnChildCompleted
<1>19. ASSUME NEW t \in Thread, ParentIndex(t) PROVE EndsStand
  BY <1>19 DEF ParentIndex
<1>20. ASSUME NEW t \in Thread, AcksTake(t) PROVE EndsStand
  BY <1>20 DEF AcksTake
<1>21. ASSUME NEW t \in Thread, AcksIndex(t) PROVE EndsStand
  BY <1>21 DEF AcksIndex
<1>22. ASSUME NEW t \in Thread, AcksNotify(t) PROVE EndsStand
  BY <1>22 DEF AcksNotify
<1>23. ASSUME NEW t \in Thread, DeadNotify(t) PROVE EndsStand
  BY <1>23 DEF DeadNotify
<1>24. ASSUME NEW t \in Thread, DeadIndex(t) PROVE EndsStand
  BY <1>24 DEF DeadIndex
<1>25. ASSUME NEW t \in Thread, DeadPlace(t) PROVE EndsStand
  BY <1>25 DEF DeadPlace
<1>26. ASSUME NEW t \in Thread, RetryIndex(t) PROVE EndsStand
  BY <1>26 DEF RetryIndex
<1>27. ASSUME NEW t \in Thread, RetryPlace(t) PROVE EndsStand
  BY <1>27 DEF RetryPlace
<1>28. ASSUME NEW t \in Thread, CancelIndex(t) PROVE EndsStand
  BY <1>28 DEF CancelIndex
<1>29. ASSUME NEW t \in Thread, CancelNotify(t) PROVE EndsStand
  BY <1>29 DEF CancelNotify
<1>30. ASSUME NEW w \in Wait, WaitCheck(w) PROVE EndsStand
  BY <1>30 DEF WaitCheck
<1>31. ASSUME NEW w \in Wait, WaitReadResult(w) PROVE EndsStand
  BY <1>31 DEF WaitReadResult
<1>32. ASSUME NEW w \in Wait, WaitRegister(w) PROVE EndsStand
  BY <1>32 DEF WaitRegister
<1>33. ASSUME NEW w \in Wait, WaitExpire(w) PROVE EndsStand
  BY <1>33 DEF WaitExpire
<1>34. ASSUME NEW w \in Wait, WaitCleanUp(w) PROVE EndsStand
  BY <1>34 DEF WaitCleanUp
<1>35. ASSUME NEW w \in Wait, WaitAbandon(w) PROVE EndsStand
  BY <1>35 DEF WaitAbandon
<1>36. CASE CleanupJobResults
  BY <1>36 DEF CleanupJobResults
<1> QED BY <1>1, <1>2, <1>3, <1>4, <1>5, <1>6, <1>7, <1>8, <1>9, <1>10, <1>11, <1>12, <1>13,
          <1>14, <1>15, <1>16, <1>17, <1>18, <1>19, <1>20, <1>21, <1>22, <1>23, <1>24, <1>25,
          <1>26, <1>27, <1>28, <1>29, <1>30, <1>31, <1>32, <1>33, <1>34, <1>35, <1>36
       DEF WaitsNext, Call, CallStep, WaitStep

\* An ack is under way as before, or has just ended its job.
AcksAreBegun ==
  \A u \in Thread : pc'[u] \in AckSteps =>
    (pc[u] \in AckSteps /\ arg'[u] = arg[u]) \/ ended[arg'[u]] = "none"

\* No step but keeps that.
LEMMA AcksBegin == CmInv /\ [WaitsNext]_waitsVars => AcksAreBegun
<1> SUFFICES ASSUME CmInv, [WaitsNext]_waitsVars PROVE AcksAreBegun
  OBVIOUS
<1> USE CompletionAssumption DEF CmInv, CmTypeOK, HandsAreOne, EndsAreFinal, OwnSteps, HoldSteps,
       AckSteps, CancelSteps, FlowSteps, LiveSteps, DeadSteps, Goto, Return, AtStep, Move,
       SetIndex, End, Tell, Told, flow, waits, threads, waitsHistory, AcksAreBegun
<1>1. CASE UNCHANGED waitsVars
  BY <1>1 DEF waitsVars
<1>2. ASSUME NEW t \in Thread, PushFlow(t) PROVE AcksAreBegun
  BY <1>2 DEF PushFlow
<1>3. ASSUME NEW t \in Thread, Pull(t) PROVE AcksAreBegun
  BY <1>3 DEF Pull
<1>4. ASSUME NEW t \in Thread, Ack(t) PROVE AcksAreBegun
  BY <1>4 DEF Ack
<1>5. ASSUME NEW t \in Thread, AckBatch(t) PROVE AcksAreBegun
  BY <1>5 DEF AckBatch
<1>6. ASSUME NEW t \in Thread, Fail(t) PROVE AcksAreBegun
  BY <1>6 DEF Fail
<1>7. ASSUME NEW t \in Thread, Stall(t) PROVE AcksAreBegun
  BY <1>7 DEF Stall
<1>8. ASSUME NEW t \in Thread, Cancel(t) PROVE AcksAreBegun
  BY <1>8 DEF Cancel
<1>9. ASSUME NEW t \in Thread, Drain(t) PROVE AcksAreBegun
  BY <1>9 DEF Drain
<1>10. ASSUME NEW t \in Thread, FlowPark(t) PROVE AcksAreBegun
  BY <1>10 DEF FlowPark
<1>11. ASSUME NEW t \in Thread, FlowIndex(t) PROVE AcksAreBegun
  BY <1>11 DEF FlowIndex
<1>12. ASSUME NEW t \in Thread, FlowInsert(t) PROVE AcksAreBegun
  BY <1>12 DEF FlowInsert
<1>13. ASSUME NEW t \in Thread, PullIndex(t) PROVE AcksAreBegun
  BY <1>13 DEF PullIndex
<1>14. ASSUME NEW t \in Thread, PullInsert(t) PROVE AcksAreBegun
  BY <1>14 DEF PullInsert
<1>15. ASSUME NEW t \in Thread, AckStore(t) PROVE AcksAreBegun
  BY <1>15 DEF AckStore
<1>16. ASSUME NEW t \in Thread, AckIndex(t) PROVE AcksAreBegun
  BY <1>16 DEF AckIndex
<1>17. ASSUME NEW t \in Thread, AckNotify(t) PROVE AcksAreBegun
  BY <1>17 DEF AckNotify
<1>18. ASSUME NEW t \in Thread, AckReport(t) PROVE AcksAreBegun
  BY <1>18 DEF AckReport, OnChildCompleted
<1>19. ASSUME NEW t \in Thread, ParentIndex(t) PROVE AcksAreBegun
  BY <1>19 DEF ParentIndex
<1>20. ASSUME NEW t \in Thread, AcksTake(t) PROVE AcksAreBegun
  BY <1>20 DEF AcksTake
<1>21. ASSUME NEW t \in Thread, AcksIndex(t) PROVE AcksAreBegun
  BY <1>21 DEF AcksIndex
<1>22. ASSUME NEW t \in Thread, AcksNotify(t) PROVE AcksAreBegun
  BY <1>22 DEF AcksNotify
<1>23. ASSUME NEW t \in Thread, DeadNotify(t) PROVE AcksAreBegun
  BY <1>23 DEF DeadNotify
<1>24. ASSUME NEW t \in Thread, DeadIndex(t) PROVE AcksAreBegun
  BY <1>24 DEF DeadIndex
<1>25. ASSUME NEW t \in Thread, DeadPlace(t) PROVE AcksAreBegun
  BY <1>25 DEF DeadPlace
<1>26. ASSUME NEW t \in Thread, RetryIndex(t) PROVE AcksAreBegun
  BY <1>26 DEF RetryIndex
<1>27. ASSUME NEW t \in Thread, RetryPlace(t) PROVE AcksAreBegun
  BY <1>27 DEF RetryPlace
<1>28. ASSUME NEW t \in Thread, CancelIndex(t) PROVE AcksAreBegun
  BY <1>28 DEF CancelIndex
<1>29. ASSUME NEW t \in Thread, CancelNotify(t) PROVE AcksAreBegun
  BY <1>29 DEF CancelNotify
<1>30. ASSUME NEW w \in Wait, WaitCheck(w) PROVE AcksAreBegun
  BY <1>30 DEF WaitCheck
<1>31. ASSUME NEW w \in Wait, WaitReadResult(w) PROVE AcksAreBegun
  BY <1>31 DEF WaitReadResult
<1>32. ASSUME NEW w \in Wait, WaitRegister(w) PROVE AcksAreBegun
  BY <1>32 DEF WaitRegister
<1>33. ASSUME NEW w \in Wait, WaitExpire(w) PROVE AcksAreBegun
  BY <1>33 DEF WaitExpire
<1>34. ASSUME NEW w \in Wait, WaitCleanUp(w) PROVE AcksAreBegun
  BY <1>34 DEF WaitCleanUp
<1>35. ASSUME NEW w \in Wait, WaitAbandon(w) PROVE AcksAreBegun
  BY <1>35 DEF WaitAbandon
<1>36. CASE CleanupJobResults
  BY <1>36 DEF CleanupJobResults
<1> QED BY <1>1, <1>2, <1>3, <1>4, <1>5, <1>6, <1>7, <1>8, <1>9, <1>10, <1>11, <1>12, <1>13,
          <1>14, <1>15, <1>16, <1>17, <1>18, <1>19, <1>20, <1>21, <1>22, <1>23, <1>24, <1>25,
          <1>26, <1>27, <1>28, <1>29, <1>30, <1>31, <1>32, <1>33, <1>34, <1>35, <1>36
       DEF WaitsNext, Call, CallStep, WaitStep

\* Only a report counts.
OnlyReportsCount ==
  children_completed' = children_completed \/ \E u \in Thread : AckReport(u)

\* No step but keeps that.
LEMMA CountsOnReport == CmInv /\ [WaitsNext]_waitsVars => OnlyReportsCount
<1> SUFFICES ASSUME CmInv, [WaitsNext]_waitsVars PROVE OnlyReportsCount
  OBVIOUS
<1> USE DEF Goto, Return, AtStep, Move, SetIndex, End, Tell, Told, flow, waits, threads,
       waitsHistory, OnlyReportsCount
<1>1. CASE UNCHANGED waitsVars
  BY <1>1 DEF waitsVars
<1>2. ASSUME NEW t \in Thread, PushFlow(t) PROVE OnlyReportsCount
  BY <1>2 DEF PushFlow
<1>3. ASSUME NEW t \in Thread, Pull(t) PROVE OnlyReportsCount
  BY <1>3 DEF Pull
<1>4. ASSUME NEW t \in Thread, Ack(t) PROVE OnlyReportsCount
  BY <1>4 DEF Ack
<1>5. ASSUME NEW t \in Thread, AckBatch(t) PROVE OnlyReportsCount
  BY <1>5 DEF AckBatch
<1>6. ASSUME NEW t \in Thread, Fail(t) PROVE OnlyReportsCount
  BY <1>6 DEF Fail
<1>7. ASSUME NEW t \in Thread, Stall(t) PROVE OnlyReportsCount
  BY <1>7 DEF Stall
<1>8. ASSUME NEW t \in Thread, Cancel(t) PROVE OnlyReportsCount
  BY <1>8 DEF Cancel
<1>9. ASSUME NEW t \in Thread, Drain(t) PROVE OnlyReportsCount
  BY <1>9 DEF Drain
<1>10. ASSUME NEW t \in Thread, FlowPark(t) PROVE OnlyReportsCount
  BY <1>10 DEF FlowPark
<1>11. ASSUME NEW t \in Thread, FlowIndex(t) PROVE OnlyReportsCount
  BY <1>11 DEF FlowIndex
<1>12. ASSUME NEW t \in Thread, FlowInsert(t) PROVE OnlyReportsCount
  BY <1>12 DEF FlowInsert
<1>13. ASSUME NEW t \in Thread, PullIndex(t) PROVE OnlyReportsCount
  BY <1>13 DEF PullIndex
<1>14. ASSUME NEW t \in Thread, PullInsert(t) PROVE OnlyReportsCount
  BY <1>14 DEF PullInsert
<1>15. ASSUME NEW t \in Thread, AckStore(t) PROVE OnlyReportsCount
  BY <1>15 DEF AckStore
<1>16. ASSUME NEW t \in Thread, AckIndex(t) PROVE OnlyReportsCount
  BY <1>16 DEF AckIndex
<1>17. ASSUME NEW t \in Thread, AckNotify(t) PROVE OnlyReportsCount
  BY <1>17 DEF AckNotify
<1>18. ASSUME NEW t \in Thread, AckReport(t) PROVE OnlyReportsCount
  BY <1>18
<1>19. ASSUME NEW t \in Thread, ParentIndex(t) PROVE OnlyReportsCount
  BY <1>19 DEF ParentIndex
<1>20. ASSUME NEW t \in Thread, AcksTake(t) PROVE OnlyReportsCount
  BY <1>20 DEF AcksTake
<1>21. ASSUME NEW t \in Thread, AcksIndex(t) PROVE OnlyReportsCount
  BY <1>21 DEF AcksIndex
<1>22. ASSUME NEW t \in Thread, AcksNotify(t) PROVE OnlyReportsCount
  BY <1>22 DEF AcksNotify
<1>23. ASSUME NEW t \in Thread, DeadNotify(t) PROVE OnlyReportsCount
  BY <1>23 DEF DeadNotify
<1>24. ASSUME NEW t \in Thread, DeadIndex(t) PROVE OnlyReportsCount
  BY <1>24 DEF DeadIndex
<1>25. ASSUME NEW t \in Thread, DeadPlace(t) PROVE OnlyReportsCount
  BY <1>25 DEF DeadPlace
<1>26. ASSUME NEW t \in Thread, RetryIndex(t) PROVE OnlyReportsCount
  BY <1>26 DEF RetryIndex
<1>27. ASSUME NEW t \in Thread, RetryPlace(t) PROVE OnlyReportsCount
  BY <1>27 DEF RetryPlace
<1>28. ASSUME NEW t \in Thread, CancelIndex(t) PROVE OnlyReportsCount
  BY <1>28 DEF CancelIndex
<1>29. ASSUME NEW t \in Thread, CancelNotify(t) PROVE OnlyReportsCount
  BY <1>29 DEF CancelNotify
<1>30. ASSUME NEW w \in Wait, WaitCheck(w) PROVE OnlyReportsCount
  BY <1>30 DEF WaitCheck
<1>31. ASSUME NEW w \in Wait, WaitReadResult(w) PROVE OnlyReportsCount
  BY <1>31 DEF WaitReadResult
<1>32. ASSUME NEW w \in Wait, WaitRegister(w) PROVE OnlyReportsCount
  BY <1>32 DEF WaitRegister
<1>33. ASSUME NEW w \in Wait, WaitExpire(w) PROVE OnlyReportsCount
  BY <1>33 DEF WaitExpire
<1>34. ASSUME NEW w \in Wait, WaitCleanUp(w) PROVE OnlyReportsCount
  BY <1>34 DEF WaitCleanUp
<1>35. ASSUME NEW w \in Wait, WaitAbandon(w) PROVE OnlyReportsCount
  BY <1>35 DEF WaitAbandon
<1>36. CASE CleanupJobResults
  BY <1>36 DEF CleanupJobResults
<1> QED BY <1>1, <1>2, <1>3, <1>4, <1>5, <1>6, <1>7, <1>8, <1>9, <1>10, <1>11, <1>12, <1>13,
          <1>14, <1>15, <1>16, <1>17, <1>18, <1>19, <1>20, <1>21, <1>22, <1>23, <1>24, <1>25,
          <1>26, <1>27, <1>28, <1>29, <1>30, <1>31, <1>32, <1>33, <1>34, <1>35, <1>36
       DEF WaitsNext, Call, CallStep, WaitStep

\* The count never exceeds the children that have reported.
LEMMA CountStep == CmInv /\ [WaitsNext]_waitsVars => CountIsBacked'
<1> SUFFICES ASSUME CmInv, [WaitsNext]_waitsVars PROVE CountIsBacked'
  OBVIOUS
<1>1. Reported \subseteq Reported'
  BY CompletionAssumption, EndedStays, AcksBegin DEF EndsStand, AcksAreBegun, Reported, Acked
<1>2. IsFiniteSet(Reported') /\ IsFiniteSet(Reported)
  <2>1. Reported \subseteq Children /\ Reported' \subseteq Children
    BY DEF Reported
  <2> QED BY <2>1, CompletionAssumption, FS_Subset
<1>3. /\ Cardinality(Reported) \in Nat /\ Cardinality(Reported') \in Nat
      /\ children_completed \in Nat
  BY <1>2, FS_CardinalityType DEF CmInv, CmTypeOK
<1>4. children_completed <= Cardinality(Reported)
  BY DEF CmInv, CountIsBacked
<1>5. CASE children_completed' = children_completed
  <2>1. Cardinality(Reported) <= Cardinality(Reported')
    BY <1>1, <1>2, FS_Subset
  <2> QED BY <1>3, <1>4, <1>5, <2>1 DEF CountIsBacked
<1>6. ASSUME NEW t \in Thread, AckReport(t), children_completed' # children_completed
      PROVE  CountIsBacked'
  <2>1. /\ pc[t] = "ack_report" /\ children_completed' = children_completed + 1
        /\ \E step \in {"idle", "parent_index"} : pc' = [pc EXCEPT ![t] = step]
    BY <1>6 DEF AckReport, OnChildCompleted, AtStep, Return, Goto, flow
  <2>2. /\ arg[t] \in Children /\ ended[arg[t]] \in Acked /\ arg[t] \in Job
        /\ \A u \in Thread : pc[u] \in AckSteps /\ arg[u] = arg[t] => u = t
    BY <2>1, CompletionAssumption
    DEF CmInv, CmTypeOK, EndsAreFinal, HandsAreOne, AckSteps, OwnSteps, Acked
  <2>3. pc'[t] \notin AckSteps /\ pc[t] \in AckSteps
    BY <2>1 DEF CmInv, CmTypeOK, AckSteps
  <2>4. arg[t] \in Reported' /\ arg[t] \notin Reported
    <3>1. ended'[arg[t]] \in Acked
      BY <2>2, EndedStays DEF EndsStand, Acked
    <3>2. ASSUME NEW u \in Thread, pc'[u] \in AckSteps PROVE arg'[u] # arg[t]
      <4>1. (pc[u] \in AckSteps /\ arg'[u] = arg[u]) \/ ended[arg'[u]] = "none"
        BY <3>2, AcksBegin DEF AcksAreBegun
      <4>2. ended[arg[t]] # "none"
        BY <2>2 DEF Acked
      <4> QED BY <2>2, <2>3, <3>2, <4>1, <4>2
    <3>3. \A c : c = arg[t] => c \in Reported'
      BY <2>2, <3>1, <3>2 DEF Reported
    <3> QED BY <2>3, <3>3 DEF Reported
  <2>5. Cardinality(Reported \cup {arg[t]}) = Cardinality(Reported) + 1
    BY <1>2, <2>4, FS_AddElement
  <2>6. Cardinality(Reported \cup {arg[t]}) <= Cardinality(Reported')
    <3>1. Reported \cup {arg[t]} \subseteq Reported'
      BY <1>1, <2>4
    <3> QED BY <1>2, <3>1, FS_Subset
  <2> QED BY <1>3, <1>4, <2>1, <2>5, <2>6 DEF CountIsBacked
<1> QED BY <1>5, <1>6, CountsOnReport DEF OnlyReportsCount

\* The parent leaves its place for the queue when enough children have told it.
ParentIsReleased ==
  place'[Parent] \in Pulled =>
    place[Parent] \in Pulled \/ children_completed' >= Cardinality(Children)

\* No step but keeps that.
LEMMA ParentMoves == CmInv /\ [WaitsNext]_waitsVars => ParentIsReleased
<1> SUFFICES ASSUME CmInv, [WaitsNext]_waitsVars PROVE ParentIsReleased
  OBVIOUS
<1> USE CompletionAssumption DEF CmInv, CmTypeOK, HandsAreOne, EndsAreFinal, FlowIsPushedOnce,
       Fresh, Unpushed, Flow, OwnSteps, HoldSteps, AckSteps, CancelSteps, FlowSteps, LiveSteps,
       DeadSteps, Goto, Return, AtStep, Move, SetIndex, End, Tell, Told, flow, waits, threads,
       waitsHistory, Pulled, ParentIsReleased
<1>1. CASE UNCHANGED waitsVars
  BY <1>1 DEF waitsVars
<1>2. ASSUME NEW t \in Thread, PushFlow(t) PROVE ParentIsReleased
  BY <1>2 DEF PushFlow
<1>3. ASSUME NEW t \in Thread, Pull(t) PROVE ParentIsReleased
  BY <1>3 DEF Pull
<1>4. ASSUME NEW t \in Thread, Ack(t) PROVE ParentIsReleased
  BY <1>4 DEF Ack
<1>5. ASSUME NEW t \in Thread, AckBatch(t) PROVE ParentIsReleased
  BY <1>5 DEF AckBatch
<1>6. ASSUME NEW t \in Thread, Fail(t) PROVE ParentIsReleased
  BY <1>6 DEF Fail
<1>7. ASSUME NEW t \in Thread, Stall(t) PROVE ParentIsReleased
  BY <1>7 DEF Stall
<1>8. ASSUME NEW t \in Thread, Cancel(t) PROVE ParentIsReleased
  BY <1>8 DEF Cancel
<1>9. ASSUME NEW t \in Thread, Drain(t) PROVE ParentIsReleased
  BY <1>9 DEF Drain
<1>10. ASSUME NEW t \in Thread, FlowPark(t) PROVE ParentIsReleased
  BY <1>10 DEF FlowPark
<1>11. ASSUME NEW t \in Thread, FlowIndex(t) PROVE ParentIsReleased
  BY <1>11 DEF FlowIndex
<1>12. ASSUME NEW t \in Thread, FlowInsert(t) PROVE ParentIsReleased
  BY <1>12 DEF FlowInsert
<1>13. ASSUME NEW t \in Thread, PullIndex(t) PROVE ParentIsReleased
  BY <1>13 DEF PullIndex
<1>14. ASSUME NEW t \in Thread, PullInsert(t) PROVE ParentIsReleased
  BY <1>14 DEF PullInsert
<1>15. ASSUME NEW t \in Thread, AckStore(t) PROVE ParentIsReleased
  BY <1>15 DEF AckStore
<1>16. ASSUME NEW t \in Thread, AckIndex(t) PROVE ParentIsReleased
  BY <1>16 DEF AckIndex
<1>17. ASSUME NEW t \in Thread, AckNotify(t) PROVE ParentIsReleased
  BY <1>17 DEF AckNotify
<1>18. ASSUME NEW t \in Thread, AckReport(t) PROVE ParentIsReleased
  BY <1>18 DEF AckReport, OnChildCompleted
<1>19. ASSUME NEW t \in Thread, ParentIndex(t) PROVE ParentIsReleased
  BY <1>19 DEF ParentIndex
<1>20. ASSUME NEW t \in Thread, AcksTake(t) PROVE ParentIsReleased
  BY <1>20 DEF AcksTake
<1>21. ASSUME NEW t \in Thread, AcksIndex(t) PROVE ParentIsReleased
  BY <1>21 DEF AcksIndex
<1>22. ASSUME NEW t \in Thread, AcksNotify(t) PROVE ParentIsReleased
  BY <1>22 DEF AcksNotify
<1>23. ASSUME NEW t \in Thread, DeadNotify(t) PROVE ParentIsReleased
  BY <1>23 DEF DeadNotify
<1>24. ASSUME NEW t \in Thread, DeadIndex(t) PROVE ParentIsReleased
  BY <1>24 DEF DeadIndex
<1>25. ASSUME NEW t \in Thread, DeadPlace(t) PROVE ParentIsReleased
  BY <1>25 DEF DeadPlace
<1>26. ASSUME NEW t \in Thread, RetryIndex(t) PROVE ParentIsReleased
  BY <1>26 DEF RetryIndex
<1>27. ASSUME NEW t \in Thread, RetryPlace(t) PROVE ParentIsReleased
  BY <1>27 DEF RetryPlace
<1>28. ASSUME NEW t \in Thread, CancelIndex(t) PROVE ParentIsReleased
  BY <1>28 DEF CancelIndex
<1>29. ASSUME NEW t \in Thread, CancelNotify(t) PROVE ParentIsReleased
  BY <1>29 DEF CancelNotify
<1>30. ASSUME NEW w \in Wait, WaitCheck(w) PROVE ParentIsReleased
  BY <1>30 DEF WaitCheck
<1>31. ASSUME NEW w \in Wait, WaitReadResult(w) PROVE ParentIsReleased
  BY <1>31 DEF WaitReadResult
<1>32. ASSUME NEW w \in Wait, WaitRegister(w) PROVE ParentIsReleased
  BY <1>32 DEF WaitRegister
<1>33. ASSUME NEW w \in Wait, WaitExpire(w) PROVE ParentIsReleased
  BY <1>33 DEF WaitExpire
<1>34. ASSUME NEW w \in Wait, WaitCleanUp(w) PROVE ParentIsReleased
  BY <1>34 DEF WaitCleanUp
<1>35. ASSUME NEW w \in Wait, WaitAbandon(w) PROVE ParentIsReleased
  BY <1>35 DEF WaitAbandon
<1>36. CASE CleanupJobResults
  BY <1>36 DEF CleanupJobResults
<1> QED BY <1>1, <1>2, <1>3, <1>4, <1>5, <1>6, <1>7, <1>8, <1>9, <1>10, <1>11, <1>12, <1>13,
          <1>14, <1>15, <1>16, <1>17, <1>18, <1>19, <1>20, <1>21, <1>22, <1>23, <1>24, <1>25,
          <1>26, <1>27, <1>28, <1>29, <1>30, <1>31, <1>32, <1>33, <1>34, <1>35, <1>36
       DEF WaitsNext, Call, CallStep, WaitStep

\* The parent is not in the queue before its children have been acked.
LEMMA ParentStep == CmInv /\ [WaitsNext]_waitsVars => ParentAfterChildren'
<1> SUFFICES ASSUME CmInv, [WaitsNext]_waitsVars, place'[Parent] \in Pulled, NEW c \in Children
             PROVE  ended'[c] \in Acked
  BY DEF ParentAfterChildren, Pulled, Acked
<1>1. CASE place[Parent] \in Pulled
  <2>1. ended[c] \in Acked /\ c \in Job
    BY <1>1, CompletionAssumption DEF CmInv, ParentAfterChildren, Pulled, Acked
  <2> QED BY <2>1, EndedStays DEF EndsStand, Acked
<1>2. CASE children_completed' >= Cardinality(Children)
  <2>1. children_completed' <= Cardinality(Reported')
    BY CountStep DEF CountIsBacked
  <2>2. Reported' \subseteq Children
    BY DEF Reported
  <2>3. IsFiniteSet(Reported') /\ IsFiniteSet(Children)
    BY <2>2, CompletionAssumption, FS_Subset
  <2>4. /\ Cardinality(Reported') \in Nat /\ Cardinality(Children) \in Nat
        /\ children_completed' \in Nat
    BY <2>3, FS_CardinalityType, CmTypeStep DEF CmTypeOK
  <2>5. Cardinality(Reported') >= Cardinality(Children)
    BY <1>2, <2>1, <2>4
  <2>6. Reported' = Children
    <3>1. Cardinality(Reported') <= Cardinality(Children)
      BY <2>2, <2>3, FS_Subset
    <3>2. Cardinality(Reported') = Cardinality(Children)
      BY <2>4, <2>5, <3>1
    <3> QED BY <2>2, <2>3, <3>2, FS_Subset
  <2> QED BY <2>6 DEF Reported
<1> QED BY <1>1, <1>2, ParentMoves DEF ParentIsReleased

\* A result is there until it is evicted.
ResultsAreKept ==
  results \cup evicted \subseteq results' \cup evicted' /\ evicted \subseteq evicted'

\* No step but keeps that.
LEMMA ResultsStay == CmInv /\ [WaitsNext]_waitsVars => ResultsAreKept
<1> SUFFICES ASSUME CmInv, [WaitsNext]_waitsVars PROVE ResultsAreKept
  OBVIOUS
<1> USE DEF Goto, Return, AtStep, Move, SetIndex, End, Tell, Told, flow, waits, threads,
       waitsHistory, ResultsAreKept
<1>1. CASE UNCHANGED waitsVars
  BY <1>1 DEF waitsVars
<1>2. ASSUME NEW t \in Thread, PushFlow(t) PROVE ResultsAreKept
  BY <1>2 DEF PushFlow
<1>3. ASSUME NEW t \in Thread, Pull(t) PROVE ResultsAreKept
  BY <1>3 DEF Pull
<1>4. ASSUME NEW t \in Thread, Ack(t) PROVE ResultsAreKept
  BY <1>4 DEF Ack
<1>5. ASSUME NEW t \in Thread, AckBatch(t) PROVE ResultsAreKept
  BY <1>5 DEF AckBatch
<1>6. ASSUME NEW t \in Thread, Fail(t) PROVE ResultsAreKept
  BY <1>6 DEF Fail
<1>7. ASSUME NEW t \in Thread, Stall(t) PROVE ResultsAreKept
  BY <1>7 DEF Stall
<1>8. ASSUME NEW t \in Thread, Cancel(t) PROVE ResultsAreKept
  BY <1>8 DEF Cancel
<1>9. ASSUME NEW t \in Thread, Drain(t) PROVE ResultsAreKept
  BY <1>9 DEF Drain
<1>10. ASSUME NEW t \in Thread, FlowPark(t) PROVE ResultsAreKept
  BY <1>10 DEF FlowPark
<1>11. ASSUME NEW t \in Thread, FlowIndex(t) PROVE ResultsAreKept
  BY <1>11 DEF FlowIndex
<1>12. ASSUME NEW t \in Thread, FlowInsert(t) PROVE ResultsAreKept
  BY <1>12 DEF FlowInsert
<1>13. ASSUME NEW t \in Thread, PullIndex(t) PROVE ResultsAreKept
  BY <1>13 DEF PullIndex
<1>14. ASSUME NEW t \in Thread, PullInsert(t) PROVE ResultsAreKept
  BY <1>14 DEF PullInsert
<1>15. ASSUME NEW t \in Thread, AckStore(t) PROVE ResultsAreKept
  BY <1>15 DEF AckStore
<1>16. ASSUME NEW t \in Thread, AckIndex(t) PROVE ResultsAreKept
  BY <1>16 DEF AckIndex
<1>17. ASSUME NEW t \in Thread, AckNotify(t) PROVE ResultsAreKept
  BY <1>17 DEF AckNotify
<1>18. ASSUME NEW t \in Thread, AckReport(t) PROVE ResultsAreKept
  BY <1>18 DEF AckReport, OnChildCompleted
<1>19. ASSUME NEW t \in Thread, ParentIndex(t) PROVE ResultsAreKept
  BY <1>19 DEF ParentIndex
<1>20. ASSUME NEW t \in Thread, AcksTake(t) PROVE ResultsAreKept
  BY <1>20 DEF AcksTake
<1>21. ASSUME NEW t \in Thread, AcksIndex(t) PROVE ResultsAreKept
  BY <1>21 DEF AcksIndex
<1>22. ASSUME NEW t \in Thread, AcksNotify(t) PROVE ResultsAreKept
  BY <1>22 DEF AcksNotify
<1>23. ASSUME NEW t \in Thread, DeadNotify(t) PROVE ResultsAreKept
  BY <1>23 DEF DeadNotify
<1>24. ASSUME NEW t \in Thread, DeadIndex(t) PROVE ResultsAreKept
  BY <1>24 DEF DeadIndex
<1>25. ASSUME NEW t \in Thread, DeadPlace(t) PROVE ResultsAreKept
  BY <1>25 DEF DeadPlace
<1>26. ASSUME NEW t \in Thread, RetryIndex(t) PROVE ResultsAreKept
  BY <1>26 DEF RetryIndex
<1>27. ASSUME NEW t \in Thread, RetryPlace(t) PROVE ResultsAreKept
  BY <1>27 DEF RetryPlace
<1>28. ASSUME NEW t \in Thread, CancelIndex(t) PROVE ResultsAreKept
  BY <1>28 DEF CancelIndex
<1>29. ASSUME NEW t \in Thread, CancelNotify(t) PROVE ResultsAreKept
  BY <1>29 DEF CancelNotify
<1>30. ASSUME NEW w \in Wait, WaitCheck(w) PROVE ResultsAreKept
  BY <1>30 DEF WaitCheck
<1>31. ASSUME NEW w \in Wait, WaitReadResult(w) PROVE ResultsAreKept
  BY <1>31 DEF WaitReadResult
<1>32. ASSUME NEW w \in Wait, WaitRegister(w) PROVE ResultsAreKept
  BY <1>32 DEF WaitRegister
<1>33. ASSUME NEW w \in Wait, WaitExpire(w) PROVE ResultsAreKept
  BY <1>33 DEF WaitExpire
<1>34. ASSUME NEW w \in Wait, WaitCleanUp(w) PROVE ResultsAreKept
  BY <1>34 DEF WaitCleanUp
<1>35. ASSUME NEW w \in Wait, WaitAbandon(w) PROVE ResultsAreKept
  BY <1>35 DEF WaitAbandon
<1>36. CASE CleanupJobResults
  BY <1>36 DEF CleanupJobResults
<1> QED BY <1>1, <1>2, <1>3, <1>4, <1>5, <1>6, <1>7, <1>8, <1>9, <1>10, <1>11, <1>12, <1>13,
          <1>14, <1>15, <1>16, <1>17, <1>18, <1>19, <1>20, <1>21, <1>22, <1>23, <1>24, <1>25,
          <1>26, <1>27, <1>28, <1>29, <1>30, <1>31, <1>32, <1>33, <1>34, <1>35, <1>36
       DEF WaitsNext, Call, CallStep, WaitStep

\* The index and the results tell how a job ended.
LEMMA IndexStep == CmInv /\ [WaitsNext]_waitsVars => IndexTellsEnd'
<1> SUFFICES ASSUME CmInv, [WaitsNext]_waitsVars PROVE IndexTellsEnd'
  OBVIOUS
<1> USE DEF CmInv, CmTypeOK, HandsAreOne, EndsAreFinal, IndexTellsEnd, Acked, OwnSteps,
       HoldSteps, AckSteps, CancelSteps, FlowSteps, LiveSteps, DeadSteps, Goto, Return, AtStep,
       Move, SetIndex, End, Tell, Told, flow, waits, threads, waitsHistory
<1>1. CASE UNCHANGED waitsVars
  BY <1>1 DEF waitsVars
<1>2. ASSUME NEW t \in Thread, PushFlow(t) PROVE IndexTellsEnd'
  BY <1>2 DEF PushFlow
<1>3. ASSUME NEW t \in Thread, Pull(t) PROVE IndexTellsEnd'
  BY <1>3 DEF Pull
<1>4. ASSUME NEW t \in Thread, Ack(t) PROVE IndexTellsEnd'
  BY <1>4 DEF Ack
<1>5. ASSUME NEW t \in Thread, AckBatch(t) PROVE IndexTellsEnd'
  BY <1>5 DEF AckBatch
<1>6. ASSUME NEW t \in Thread, Fail(t) PROVE IndexTellsEnd'
  <2>1. UNCHANGED <<index, results, evicted, withResult>>
    BY <1>6 DEF Fail
  <2>2. \A u \in Thread : pc'[u] = "ack_index" => pc[u] = "ack_index" /\ arg'[u] = arg[u]
    BY <1>6 DEF Fail
  <2> QED BY <2>1, <2>2, EndedStays DEF EndsStand
<1>7. ASSUME NEW t \in Thread, Stall(t) PROVE IndexTellsEnd'
  BY <1>7 DEF Stall
<1>8. ASSUME NEW t \in Thread, Cancel(t) PROVE IndexTellsEnd'
  BY <1>8 DEF Cancel
<1>9. ASSUME NEW t \in Thread, Drain(t) PROVE IndexTellsEnd'
  BY <1>9 DEF Drain
<1>10. ASSUME NEW t \in Thread, FlowPark(t) PROVE IndexTellsEnd'
  BY <1>10 DEF FlowPark
<1>11. ASSUME NEW t \in Thread, FlowIndex(t) PROVE IndexTellsEnd'
  BY <1>11 DEF FlowIndex
<1>12. ASSUME NEW t \in Thread, FlowInsert(t) PROVE IndexTellsEnd'
  BY <1>12 DEF FlowInsert
<1>13. ASSUME NEW t \in Thread, PullIndex(t) PROVE IndexTellsEnd'
  BY <1>13 DEF PullIndex
<1>14. ASSUME NEW t \in Thread, PullInsert(t) PROVE IndexTellsEnd'
  BY <1>14 DEF PullInsert
<1>15. ASSUME NEW t \in Thread, AckStore(t) PROVE IndexTellsEnd'
  BY <1>15 DEF AckStore
<1>16. ASSUME NEW t \in Thread, AckIndex(t) PROVE IndexTellsEnd'
  BY <1>16 DEF AckIndex
<1>17. ASSUME NEW t \in Thread, AckNotify(t) PROVE IndexTellsEnd'
  BY <1>17 DEF AckNotify
<1>18. ASSUME NEW t \in Thread, AckReport(t) PROVE IndexTellsEnd'
  BY <1>18 DEF AckReport, OnChildCompleted
<1>19. ASSUME NEW t \in Thread, ParentIndex(t) PROVE IndexTellsEnd'
  BY <1>19 DEF ParentIndex
<1>20. ASSUME NEW t \in Thread, AcksTake(t) PROVE IndexTellsEnd'
  <2>1. UNCHANGED <<index, results, evicted, withResult>>
    BY <1>20 DEF AcksTake
  <2>2. \A u \in Thread : pc'[u] = "ack_index" => pc[u] = "ack_index" /\ arg'[u] = arg[u]
    BY <1>20 DEF AcksTake
  <2> QED BY <2>1, <2>2, EndedStays DEF EndsStand
<1>21. ASSUME NEW t \in Thread, AcksIndex(t) PROVE IndexTellsEnd'
  BY <1>21 DEF AcksIndex
<1>22. ASSUME NEW t \in Thread, AcksNotify(t) PROVE IndexTellsEnd'
  BY <1>22 DEF AcksNotify
<1>23. ASSUME NEW t \in Thread, DeadNotify(t) PROVE IndexTellsEnd'
  BY <1>23 DEF DeadNotify
<1>24. ASSUME NEW t \in Thread, DeadIndex(t) PROVE IndexTellsEnd'
  BY <1>24 DEF DeadIndex
<1>25. ASSUME NEW t \in Thread, DeadPlace(t) PROVE IndexTellsEnd'
  BY <1>25 DEF DeadPlace
<1>26. ASSUME NEW t \in Thread, RetryIndex(t) PROVE IndexTellsEnd'
  BY <1>26 DEF RetryIndex
<1>27. ASSUME NEW t \in Thread, RetryPlace(t) PROVE IndexTellsEnd'
  BY <1>27 DEF RetryPlace
<1>28. ASSUME NEW t \in Thread, CancelIndex(t) PROVE IndexTellsEnd'
  BY <1>28 DEF CancelIndex
<1>29. ASSUME NEW t \in Thread, CancelNotify(t) PROVE IndexTellsEnd'
  BY <1>29 DEF CancelNotify
<1>30. ASSUME NEW w \in Wait, WaitCheck(w) PROVE IndexTellsEnd'
  BY <1>30 DEF WaitCheck
<1>31. ASSUME NEW w \in Wait, WaitReadResult(w) PROVE IndexTellsEnd'
  BY <1>31 DEF WaitReadResult
<1>32. ASSUME NEW w \in Wait, WaitRegister(w) PROVE IndexTellsEnd'
  BY <1>32 DEF WaitRegister
<1>33. ASSUME NEW w \in Wait, WaitExpire(w) PROVE IndexTellsEnd'
  BY <1>33 DEF WaitExpire
<1>34. ASSUME NEW w \in Wait, WaitCleanUp(w) PROVE IndexTellsEnd'
  BY <1>34 DEF WaitCleanUp
<1>35. ASSUME NEW w \in Wait, WaitAbandon(w) PROVE IndexTellsEnd'
  BY <1>35 DEF WaitAbandon
<1>36. CASE CleanupJobResults
  BY <1>36 DEF CleanupJobResults
<1> QED BY <1>1, <1>2, <1>3, <1>4, <1>5, <1>6, <1>7, <1>8, <1>9, <1>10, <1>11, <1>12, <1>13,
          <1>14, <1>15, <1>16, <1>17, <1>18, <1>19, <1>20, <1>21, <1>22, <1>23, <1>24, <1>25,
          <1>26, <1>27, <1>28, <1>29, <1>30, <1>31, <1>32, <1>33, <1>34, <1>35, <1>36
       DEF WaitsNext, Call, CallStep, WaitStep

\* A wait that found its job completed can rely on it.
LEMMA CompletedStep == CmInv /\ [WaitsNext]_waitsVars => CompletedStands'
<1> SUFFICES ASSUME CmInv, [WaitsNext]_waitsVars PROVE CompletedStands'
  OBVIOUS
<1> USE EndedStays, ResultsStay DEF EndsStand, ResultsAreKept, CmInv, CmTypeOK, EndsAreFinal,
       IndexTellsEnd, CompletedStands, WaitsAnswered, WaitTellsTruth, OnlyAbandonedWaitsLeak,
       Acked, OwnSteps, HoldSteps, AckSteps, CancelSteps, FlowSteps, LiveSteps, DeadSteps, Goto,
       Return, AtStep, Move, SetIndex, End, Tell, Told, flow, waits, threads, waitsHistory
<1>1. CASE UNCHANGED waitsVars
  BY <1>1 DEF waitsVars
<1>2. ASSUME NEW t \in Thread, PushFlow(t) PROVE CompletedStands'
  BY <1>2 DEF PushFlow
<1>3. ASSUME NEW t \in Thread, Pull(t) PROVE CompletedStands'
  BY <1>3 DEF Pull
<1>4. ASSUME NEW t \in Thread, Ack(t) PROVE CompletedStands'
  BY <1>4 DEF Ack
<1>5. ASSUME NEW t \in Thread, AckBatch(t) PROVE CompletedStands'
  BY <1>5 DEF AckBatch
<1>6. ASSUME NEW t \in Thread, Fail(t) PROVE CompletedStands'
  BY <1>6 DEF Fail
<1>7. ASSUME NEW t \in Thread, Stall(t) PROVE CompletedStands'
  BY <1>7 DEF Stall
<1>8. ASSUME NEW t \in Thread, Cancel(t) PROVE CompletedStands'
  BY <1>8 DEF Cancel
<1>9. ASSUME NEW t \in Thread, Drain(t) PROVE CompletedStands'
  BY <1>9 DEF Drain
<1>10. ASSUME NEW t \in Thread, FlowPark(t) PROVE CompletedStands'
  BY <1>10 DEF FlowPark
<1>11. ASSUME NEW t \in Thread, FlowIndex(t) PROVE CompletedStands'
  BY <1>11 DEF FlowIndex
<1>12. ASSUME NEW t \in Thread, FlowInsert(t) PROVE CompletedStands'
  BY <1>12 DEF FlowInsert
<1>13. ASSUME NEW t \in Thread, PullIndex(t) PROVE CompletedStands'
  BY <1>13 DEF PullIndex
<1>14. ASSUME NEW t \in Thread, PullInsert(t) PROVE CompletedStands'
  BY <1>14 DEF PullInsert
<1>15. ASSUME NEW t \in Thread, AckStore(t) PROVE CompletedStands'
  BY <1>15 DEF AckStore
<1>16. ASSUME NEW t \in Thread, AckIndex(t) PROVE CompletedStands'
  BY <1>16 DEF AckIndex
<1>17. ASSUME NEW t \in Thread, AckNotify(t) PROVE CompletedStands'
  BY <1>17 DEF AckNotify, NotifyJobWaiters
<1>18. ASSUME NEW t \in Thread, AckReport(t) PROVE CompletedStands'
  BY <1>18 DEF AckReport, OnChildCompleted
<1>19. ASSUME NEW t \in Thread, ParentIndex(t) PROVE CompletedStands'
  BY <1>19 DEF ParentIndex
<1>20. ASSUME NEW t \in Thread, AcksTake(t) PROVE CompletedStands'
  BY <1>20 DEF AcksTake
<1>21. ASSUME NEW t \in Thread, AcksIndex(t) PROVE CompletedStands'
  BY <1>21 DEF AcksIndex
<1>22. ASSUME NEW t \in Thread, AcksNotify(t) PROVE CompletedStands'
  BY <1>22 DEF AcksNotify, NotifyJobWaiters
<1>23. ASSUME NEW t \in Thread, DeadNotify(t) PROVE CompletedStands'
  BY <1>23 DEF DeadNotify, NotifyJobWaiters
<1>24. ASSUME NEW t \in Thread, DeadIndex(t) PROVE CompletedStands'
  BY <1>24 DEF DeadIndex
<1>25. ASSUME NEW t \in Thread, DeadPlace(t) PROVE CompletedStands'
  BY <1>25 DEF DeadPlace
<1>26. ASSUME NEW t \in Thread, RetryIndex(t) PROVE CompletedStands'
  BY <1>26 DEF RetryIndex
<1>27. ASSUME NEW t \in Thread, RetryPlace(t) PROVE CompletedStands'
  BY <1>27 DEF RetryPlace
<1>28. ASSUME NEW t \in Thread, CancelIndex(t) PROVE CompletedStands'
  BY <1>28 DEF CancelIndex
<1>29. ASSUME NEW t \in Thread, CancelNotify(t) PROVE CompletedStands'
  BY <1>29 DEF CancelNotify, NotifyJobWaiters
<1>30. ASSUME NEW w \in Wait, WaitCheck(w) PROVE CompletedStands'
  BY <1>30, CompletionAssumption DEF WaitCheck, GetState
<1>31. ASSUME NEW w \in Wait, WaitReadResult(w) PROVE CompletedStands'
  BY <1>31 DEF WaitReadResult
<1>32. ASSUME NEW w \in Wait, WaitRegister(w) PROVE CompletedStands'
  BY <1>32 DEF WaitRegister
<1>33. ASSUME NEW w \in Wait, WaitExpire(w) PROVE CompletedStands'
  BY <1>33 DEF WaitExpire
<1>34. ASSUME NEW w \in Wait, WaitCleanUp(w) PROVE CompletedStands'
  BY <1>34 DEF WaitCleanUp
<1>35. ASSUME NEW w \in Wait, WaitAbandon(w) PROVE CompletedStands'
  BY <1>35 DEF WaitAbandon
<1>36. CASE CleanupJobResults
  BY <1>36 DEF CleanupJobResults
<1> QED BY <1>1, <1>2, <1>3, <1>4, <1>5, <1>6, <1>7, <1>8, <1>9, <1>10, <1>11, <1>12, <1>13,
          <1>14, <1>15, <1>16, <1>17, <1>18, <1>19, <1>20, <1>21, <1>22, <1>23, <1>24, <1>25,
          <1>26, <1>27, <1>28, <1>29, <1>30, <1>31, <1>32, <1>33, <1>34, <1>35, <1>36
       DEF WaitsNext, Call, CallStep, WaitStep

\* Waiters that are told how their job ended are told the truth, and are gone.
LEMMA TellingTruth ==
  ASSUME CmInv, NEW j \in Job, NEW what \in {"result", "nothing"}, NotifyJobWaiters(j, what),
         UNCHANGED <<ended, evicted>>,
         what = "result" => ended[j] = "acked_result",
         what = "nothing" => ended[j] \notin {"none", "acked_result"}
  PROVE  WaitTellsTruth' /\ OnlyAbandonedWaitsLeak'
<1>1. ASSUME NEW w \in Wait
      PROVE  \/ wait'[w] = wait[w]
             \/ wait'[w] = [job |-> j, at |-> what]
  BY <1>1 DEF NotifyJobWaiters, Told, CmInv, WaitsAnswered, OnlyAbandonedWaitsLeak
<1>2. WaitTellsTruth'
  BY <1>1 DEF CmInv, WaitsAnswered, WaitTellsTruth
<1>3. ASSUME NEW k \in Job, NEW w \in Wait, w \in job_waiters'[k]
      PROVE  w \in job_waiters[k] /\ k # j /\ wait'[w] = wait[w]
  BY <1>3 DEF NotifyJobWaiters, Told, CmInv, CmTypeOK, WaitsAnswered, OnlyAbandonedWaitsLeak
<1>4. OnlyAbandonedWaitsLeak'
  BY <1>3 DEF CmInv, WaitsAnswered, OnlyAbandonedWaitsLeak
<1> QED BY <1>2, <1>4

\* Answers are true.
LEMMA TruthStep == CmInv /\ [WaitsNext]_waitsVars => WaitTellsTruth'
<1> SUFFICES ASSUME CmInv, [WaitsNext]_waitsVars PROVE WaitTellsTruth'
  OBVIOUS
<1> USE EndedStays, ResultsStay DEF EndsStand, ResultsAreKept, CmInv, CmTypeOK, EndsAreFinal,
       IndexTellsEnd, CompletedStands, WaitsAnswered, WaitTellsTruth, OnlyAbandonedWaitsLeak,
       Acked, OwnSteps, HoldSteps, AckSteps, CancelSteps, FlowSteps, LiveSteps, DeadSteps, Goto,
       Return, AtStep, Move, SetIndex, End, Tell, Told, flow, waits, threads, waitsHistory
<1>1. CASE UNCHANGED waitsVars
  BY <1>1 DEF waitsVars
<1>2. ASSUME NEW t \in Thread, PushFlow(t) PROVE WaitTellsTruth'
  BY <1>2 DEF PushFlow
<1>3. ASSUME NEW t \in Thread, Pull(t) PROVE WaitTellsTruth'
  BY <1>3 DEF Pull
<1>4. ASSUME NEW t \in Thread, Ack(t) PROVE WaitTellsTruth'
  BY <1>4 DEF Ack
<1>5. ASSUME NEW t \in Thread, AckBatch(t) PROVE WaitTellsTruth'
  BY <1>5 DEF AckBatch
<1>6. ASSUME NEW t \in Thread, Fail(t) PROVE WaitTellsTruth'
  <2>1. UNCHANGED <<wait, job_waiters, results, evicted>>
    BY <1>6 DEF Fail
  <2> QED BY <2>1
<1>7. ASSUME NEW t \in Thread, Stall(t) PROVE WaitTellsTruth'
  BY <1>7 DEF Stall
<1>8. ASSUME NEW t \in Thread, Cancel(t) PROVE WaitTellsTruth'
  BY <1>8 DEF Cancel
<1>9. ASSUME NEW t \in Thread, Drain(t) PROVE WaitTellsTruth'
  <2>1. UNCHANGED <<wait, job_waiters, results, evicted>>
    BY <1>9 DEF Drain
  <2> QED BY <2>1
<1>10. ASSUME NEW t \in Thread, FlowPark(t) PROVE WaitTellsTruth'
  BY <1>10 DEF FlowPark
<1>11. ASSUME NEW t \in Thread, FlowIndex(t) PROVE WaitTellsTruth'
  BY <1>11 DEF FlowIndex
<1>12. ASSUME NEW t \in Thread, FlowInsert(t) PROVE WaitTellsTruth'
  BY <1>12 DEF FlowInsert
<1>13. ASSUME NEW t \in Thread, PullIndex(t) PROVE WaitTellsTruth'
  BY <1>13 DEF PullIndex
<1>14. ASSUME NEW t \in Thread, PullInsert(t) PROVE WaitTellsTruth'
  BY <1>14 DEF PullInsert
<1>15. ASSUME NEW t \in Thread, AckStore(t) PROVE WaitTellsTruth'
  BY <1>15 DEF AckStore
<1>16. ASSUME NEW t \in Thread, AckIndex(t) PROVE WaitTellsTruth'
  BY <1>16 DEF AckIndex
<1>17. ASSUME NEW t \in Thread, AckNotify(t) PROVE WaitTellsTruth'
  <2>1. /\ arg[t] \in Job /\ UNCHANGED <<ended, evicted>>
        /\ \E what \in {"result", "nothing"} :
             /\ NotifyJobWaiters(arg[t], what)
             /\ what = "result" => ended[arg[t]] = "acked_result"
             /\ what = "nothing" => ended[arg[t]] \notin {"none", "acked_result"}
    BY <1>17, ArgKnown DEF AckNotify
  <2> QED BY <2>1, TellingTruth
<1>18. ASSUME NEW t \in Thread, AckReport(t) PROVE WaitTellsTruth'
  BY <1>18 DEF AckReport, OnChildCompleted
<1>19. ASSUME NEW t \in Thread, ParentIndex(t) PROVE WaitTellsTruth'
  BY <1>19 DEF ParentIndex
<1>20. ASSUME NEW t \in Thread, AcksTake(t) PROVE WaitTellsTruth'
  <2>1. UNCHANGED <<wait, job_waiters, results, evicted>>
    BY <1>20 DEF AcksTake
  <2> QED BY <2>1
<1>21. ASSUME NEW t \in Thread, AcksIndex(t) PROVE WaitTellsTruth'
  BY <1>21 DEF AcksIndex
<1>22. ASSUME NEW t \in Thread, AcksNotify(t) PROVE WaitTellsTruth'
  <2>1. /\ arg[t] \in Job /\ UNCHANGED <<ended, evicted>>
        /\ \E what \in {"result", "nothing"} :
             /\ NotifyJobWaiters(arg[t], what)
             /\ what = "result" => ended[arg[t]] = "acked_result"
             /\ what = "nothing" => ended[arg[t]] \notin {"none", "acked_result"}
    BY <1>22, ArgKnown DEF AcksNotify
  <2> QED BY <2>1, TellingTruth
<1>23. ASSUME NEW t \in Thread, DeadNotify(t) PROVE WaitTellsTruth'
  <2>1. /\ arg[t] \in Job /\ UNCHANGED <<ended, evicted>>
        /\ \E what \in {"result", "nothing"} :
             /\ NotifyJobWaiters(arg[t], what)
             /\ what = "result" => ended[arg[t]] = "acked_result"
             /\ what = "nothing" => ended[arg[t]] \notin {"none", "acked_result"}
    BY <1>23, ArgKnown DEF DeadNotify
  <2> QED BY <2>1, TellingTruth
<1>24. ASSUME NEW t \in Thread, DeadIndex(t) PROVE WaitTellsTruth'
  BY <1>24 DEF DeadIndex
<1>25. ASSUME NEW t \in Thread, DeadPlace(t) PROVE WaitTellsTruth'
  BY <1>25 DEF DeadPlace
<1>26. ASSUME NEW t \in Thread, RetryIndex(t) PROVE WaitTellsTruth'
  BY <1>26 DEF RetryIndex
<1>27. ASSUME NEW t \in Thread, RetryPlace(t) PROVE WaitTellsTruth'
  BY <1>27 DEF RetryPlace
<1>28. ASSUME NEW t \in Thread, CancelIndex(t) PROVE WaitTellsTruth'
  BY <1>28 DEF CancelIndex
<1>29. ASSUME NEW t \in Thread, CancelNotify(t) PROVE WaitTellsTruth'
  <2>1. /\ arg[t] \in Job /\ UNCHANGED <<ended, evicted>>
        /\ \E what \in {"result", "nothing"} :
             /\ NotifyJobWaiters(arg[t], what)
             /\ what = "result" => ended[arg[t]] = "acked_result"
             /\ what = "nothing" => ended[arg[t]] \notin {"none", "acked_result"}
    BY <1>29, ArgKnown DEF CancelNotify
  <2> QED BY <2>1, TellingTruth
<1>30. ASSUME NEW w \in Wait, WaitCheck(w) PROVE WaitTellsTruth'
  BY <1>30, CompletionAssumption DEF WaitCheck, GetState
<1>31. ASSUME NEW w \in Wait, WaitReadResult(w) PROVE WaitTellsTruth'
  BY <1>31 DEF WaitReadResult
<1>32. ASSUME NEW w \in Wait, WaitRegister(w) PROVE WaitTellsTruth'
  BY <1>32 DEF WaitRegister
<1>33. ASSUME NEW w \in Wait, WaitExpire(w) PROVE WaitTellsTruth'
  BY <1>33 DEF WaitExpire
<1>34. ASSUME NEW w \in Wait, WaitCleanUp(w) PROVE WaitTellsTruth'
  BY <1>34 DEF WaitCleanUp
<1>35. ASSUME NEW w \in Wait, WaitAbandon(w) PROVE WaitTellsTruth'
  BY <1>35 DEF WaitAbandon
<1>36. CASE CleanupJobResults
  BY <1>36 DEF CleanupJobResults
<1> QED BY <1>1, <1>2, <1>3, <1>4, <1>5, <1>6, <1>7, <1>8, <1>9, <1>10, <1>11, <1>12, <1>13,
          <1>14, <1>15, <1>16, <1>17, <1>18, <1>19, <1>20, <1>21, <1>22, <1>23, <1>24, <1>25,
          <1>26, <1>27, <1>28, <1>29, <1>30, <1>31, <1>32, <1>33, <1>34, <1>35, <1>36
       DEF WaitsNext, Call, CallStep, WaitStep

\* Only abandoned waits are left behind.
LEMMA LeakStep == CmInv /\ [WaitsNext]_waitsVars => OnlyAbandonedWaitsLeak'
<1> SUFFICES ASSUME CmInv, [WaitsNext]_waitsVars PROVE OnlyAbandonedWaitsLeak'
  OBVIOUS
<1> USE EndedStays, ResultsStay DEF EndsStand, ResultsAreKept, CmInv, CmTypeOK, EndsAreFinal,
       IndexTellsEnd, CompletedStands, WaitsAnswered, WaitTellsTruth, OnlyAbandonedWaitsLeak,
       Acked, OwnSteps, HoldSteps, AckSteps, CancelSteps, FlowSteps, LiveSteps, DeadSteps, Goto,
       Return, AtStep, Move, SetIndex, End, Tell, Told, flow, waits, threads, waitsHistory
<1>1. CASE UNCHANGED waitsVars
  BY <1>1 DEF waitsVars
<1>2. ASSUME NEW t \in Thread, PushFlow(t) PROVE OnlyAbandonedWaitsLeak'
  BY <1>2 DEF PushFlow
<1>3. ASSUME NEW t \in Thread, Pull(t) PROVE OnlyAbandonedWaitsLeak'
  BY <1>3 DEF Pull
<1>4. ASSUME NEW t \in Thread, Ack(t) PROVE OnlyAbandonedWaitsLeak'
  BY <1>4 DEF Ack
<1>5. ASSUME NEW t \in Thread, AckBatch(t) PROVE OnlyAbandonedWaitsLeak'
  BY <1>5 DEF AckBatch
<1>6. ASSUME NEW t \in Thread, Fail(t) PROVE OnlyAbandonedWaitsLeak'
  <2>1. UNCHANGED <<wait, job_waiters, results, evicted>>
    BY <1>6 DEF Fail
  <2> QED BY <2>1
<1>7. ASSUME NEW t \in Thread, Stall(t) PROVE OnlyAbandonedWaitsLeak'
  BY <1>7 DEF Stall
<1>8. ASSUME NEW t \in Thread, Cancel(t) PROVE OnlyAbandonedWaitsLeak'
  BY <1>8 DEF Cancel
<1>9. ASSUME NEW t \in Thread, Drain(t) PROVE OnlyAbandonedWaitsLeak'
  <2>1. UNCHANGED <<wait, job_waiters, results, evicted>>
    BY <1>9 DEF Drain
  <2> QED BY <2>1
<1>10. ASSUME NEW t \in Thread, FlowPark(t) PROVE OnlyAbandonedWaitsLeak'
  BY <1>10 DEF FlowPark
<1>11. ASSUME NEW t \in Thread, FlowIndex(t) PROVE OnlyAbandonedWaitsLeak'
  BY <1>11 DEF FlowIndex
<1>12. ASSUME NEW t \in Thread, FlowInsert(t) PROVE OnlyAbandonedWaitsLeak'
  BY <1>12 DEF FlowInsert
<1>13. ASSUME NEW t \in Thread, PullIndex(t) PROVE OnlyAbandonedWaitsLeak'
  BY <1>13 DEF PullIndex
<1>14. ASSUME NEW t \in Thread, PullInsert(t) PROVE OnlyAbandonedWaitsLeak'
  BY <1>14 DEF PullInsert
<1>15. ASSUME NEW t \in Thread, AckStore(t) PROVE OnlyAbandonedWaitsLeak'
  BY <1>15 DEF AckStore
<1>16. ASSUME NEW t \in Thread, AckIndex(t) PROVE OnlyAbandonedWaitsLeak'
  BY <1>16 DEF AckIndex
<1>17. ASSUME NEW t \in Thread, AckNotify(t) PROVE OnlyAbandonedWaitsLeak'
  <2>1. /\ arg[t] \in Job /\ UNCHANGED <<ended, evicted>>
        /\ \E what \in {"result", "nothing"} :
             /\ NotifyJobWaiters(arg[t], what)
             /\ what = "result" => ended[arg[t]] = "acked_result"
             /\ what = "nothing" => ended[arg[t]] \notin {"none", "acked_result"}
    BY <1>17, ArgKnown DEF AckNotify
  <2> QED BY <2>1, TellingTruth
<1>18. ASSUME NEW t \in Thread, AckReport(t) PROVE OnlyAbandonedWaitsLeak'
  BY <1>18 DEF AckReport, OnChildCompleted
<1>19. ASSUME NEW t \in Thread, ParentIndex(t) PROVE OnlyAbandonedWaitsLeak'
  BY <1>19 DEF ParentIndex
<1>20. ASSUME NEW t \in Thread, AcksTake(t) PROVE OnlyAbandonedWaitsLeak'
  <2>1. UNCHANGED <<wait, job_waiters, results, evicted>>
    BY <1>20 DEF AcksTake
  <2> QED BY <2>1
<1>21. ASSUME NEW t \in Thread, AcksIndex(t) PROVE OnlyAbandonedWaitsLeak'
  BY <1>21 DEF AcksIndex
<1>22. ASSUME NEW t \in Thread, AcksNotify(t) PROVE OnlyAbandonedWaitsLeak'
  <2>1. /\ arg[t] \in Job /\ UNCHANGED <<ended, evicted>>
        /\ \E what \in {"result", "nothing"} :
             /\ NotifyJobWaiters(arg[t], what)
             /\ what = "result" => ended[arg[t]] = "acked_result"
             /\ what = "nothing" => ended[arg[t]] \notin {"none", "acked_result"}
    BY <1>22, ArgKnown DEF AcksNotify
  <2> QED BY <2>1, TellingTruth
<1>23. ASSUME NEW t \in Thread, DeadNotify(t) PROVE OnlyAbandonedWaitsLeak'
  <2>1. /\ arg[t] \in Job /\ UNCHANGED <<ended, evicted>>
        /\ \E what \in {"result", "nothing"} :
             /\ NotifyJobWaiters(arg[t], what)
             /\ what = "result" => ended[arg[t]] = "acked_result"
             /\ what = "nothing" => ended[arg[t]] \notin {"none", "acked_result"}
    BY <1>23, ArgKnown DEF DeadNotify
  <2> QED BY <2>1, TellingTruth
<1>24. ASSUME NEW t \in Thread, DeadIndex(t) PROVE OnlyAbandonedWaitsLeak'
  BY <1>24 DEF DeadIndex
<1>25. ASSUME NEW t \in Thread, DeadPlace(t) PROVE OnlyAbandonedWaitsLeak'
  BY <1>25 DEF DeadPlace
<1>26. ASSUME NEW t \in Thread, RetryIndex(t) PROVE OnlyAbandonedWaitsLeak'
  BY <1>26 DEF RetryIndex
<1>27. ASSUME NEW t \in Thread, RetryPlace(t) PROVE OnlyAbandonedWaitsLeak'
  BY <1>27 DEF RetryPlace
<1>28. ASSUME NEW t \in Thread, CancelIndex(t) PROVE OnlyAbandonedWaitsLeak'
  BY <1>28 DEF CancelIndex
<1>29. ASSUME NEW t \in Thread, CancelNotify(t) PROVE OnlyAbandonedWaitsLeak'
  <2>1. /\ arg[t] \in Job /\ UNCHANGED <<ended, evicted>>
        /\ \E what \in {"result", "nothing"} :
             /\ NotifyJobWaiters(arg[t], what)
             /\ what = "result" => ended[arg[t]] = "acked_result"
             /\ what = "nothing" => ended[arg[t]] \notin {"none", "acked_result"}
    BY <1>29, ArgKnown DEF CancelNotify
  <2> QED BY <2>1, TellingTruth
<1>30. ASSUME NEW w \in Wait, WaitCheck(w) PROVE OnlyAbandonedWaitsLeak'
  BY <1>30, CompletionAssumption DEF WaitCheck, GetState
<1>31. ASSUME NEW w \in Wait, WaitReadResult(w) PROVE OnlyAbandonedWaitsLeak'
  BY <1>31 DEF WaitReadResult
<1>32. ASSUME NEW w \in Wait, WaitRegister(w) PROVE OnlyAbandonedWaitsLeak'
  BY <1>32 DEF WaitRegister
<1>33. ASSUME NEW w \in Wait, WaitExpire(w) PROVE OnlyAbandonedWaitsLeak'
  BY <1>33 DEF WaitExpire
<1>34. ASSUME NEW w \in Wait, WaitCleanUp(w) PROVE OnlyAbandonedWaitsLeak'
  BY <1>34 DEF WaitCleanUp
<1>35. ASSUME NEW w \in Wait, WaitAbandon(w) PROVE OnlyAbandonedWaitsLeak'
  BY <1>35 DEF WaitAbandon
<1>36. CASE CleanupJobResults
  BY <1>36 DEF CleanupJobResults
<1> QED BY <1>1, <1>2, <1>3, <1>4, <1>5, <1>6, <1>7, <1>8, <1>9, <1>10, <1>11, <1>12, <1>13,
          <1>14, <1>15, <1>16, <1>17, <1>18, <1>19, <1>20, <1>21, <1>22, <1>23, <1>24, <1>25,
          <1>26, <1>27, <1>28, <1>29, <1>30, <1>31, <1>32, <1>33, <1>34, <1>35, <1>36
       DEF WaitsNext, Call, CallStep, WaitStep

\* It holds at the start.
LEMMA CompletionInitially == WaitsInit => CmInv
<1> SUFFICES ASSUME NEW S \in Scenes, WaitsStart(S) PROVE CmInv
  BY DEF WaitsInit
<1> USE CompletionAssumption DEF WaitsStart, flow, waits, threads, waitsHistory
<1>1. /\ \A t \in Thread : pc[t] = "idle"
      /\ \A j \in Job : place[j] \in {"none", "queue"} /\ index[j] = place[j]
      /\ \A j \in Job : place[j] = "queue" => j \in S \ Flow
      /\ \A j \in Job : ended[j] = IF j \in S THEN "none" ELSE "cancelled"
  OBVIOUS
<1>2. CmTypeOK
  BY DEF CmTypeOK, Places, Ends, Steps, WaitSteps
<1>3. HandsAreOne /\ EndsAreFinal
  BY <1>1 DEF HandsAreOne, EndsAreFinal, OwnSteps, HoldSteps, AckSteps, DeadSteps, LiveSteps,
              CancelSteps
<1>4. FlowIsPushedOnce
  <2>1. Unpushed => \A j \in Flow : Fresh(j)
    BY <1>1 DEF Unpushed, Fresh, Flow
  <2> QED BY <1>1, <2>1 DEF FlowIsPushedOnce, FlowSteps
<1>5. CountIsBacked
  <2>1. IsFiniteSet(Reported)
    BY FS_Subset DEF Reported
  <2> QED BY <2>1, FS_CardinalityType DEF CountIsBacked
<1>6. ParentAfterChildren
  BY <1>1 DEF ParentAfterChildren, Flow
<1>7. IndexTellsEnd /\ CompletedStands /\ WaitsAnswered
  BY <1>1 DEF IndexTellsEnd, CompletedStands, WaitsAnswered, WaitTellsTruth,
         OnlyAbandonedWaitsLeak
<1> QED BY <1>2, <1>3, <1>4, <1>5, <1>6, <1>7 DEF CmInv

\* No step breaks it.
LEMMA CmInvStep == CmInv /\ [WaitsNext]_waitsVars => CmInv'
BY CmTypeStep, HandsStep, EndsStep, FlowStep, CountStep, ParentStep, IndexStep, CompletedStep,
   TruthStep, LeakStep DEF CmInv, WaitsAnswered

\* Whatever calls about jobs and waits for them are under way together, a wait is
\* answered with what became of its job, and only a wait whose handler was dropped
\* leaves its channel behind.
THEOREM WaitsAreAnswered == WaitsSpec => []WaitsAnswered
<1>1. WaitsInit => CmInv
  BY CompletionInitially
<1>2. CmInv /\ [WaitsNext]_waitsVars => CmInv'
  BY CmInvStep
<1>3. CmInv => WaitsAnswered
  BY DEF CmInv
<1> QED BY <1>1, <1>2, <1>3, PTL DEF WaitsSpec

\* However its children complete, fail, are cancelled or drained, the parent of a
\* flow is in the queue only after each of them was acked by itself.
THEOREM ParentWaitsForChildren == WaitsSpec => []ParentAfterChildren
<1>1. WaitsInit => CmInv
  BY CompletionInitially
<1>2. CmInv /\ [WaitsNext]_waitsVars => CmInv'
  BY CmInvStep
<1>3. CmInv => ParentAfterChildren
  BY DEF CmInv
<1> QED BY <1>1, <1>2, <1>3, PTL DEF WaitsSpec

-----------------------------------------------------------------------------
(* Sequences as sets *)

\* A job appended joins those in the channel.
LEMMA AppendJoins ==
  ASSUME NEW S, NEW s \in Seq(S), NEW x \in S
  PROVE  Append(s, x) \in Seq(S) /\ ToSet(Append(s, x)) = ToSet(s) \cup {x}
<1>1. Append(s, x) \in Seq(S) /\ Len(Append(s, x)) = Len(s) + 1 /\ Len(s) \in Nat
  OBVIOUS
<1>2. /\ \A i \in 1..Len(s) : Append(s, x)[i] = s[i]
      /\ Append(s, x)[Len(s) + 1] = x
  OBVIOUS
<1>3. /\ ToSet(s) = {s[i] : i \in 1..Len(s)}
      /\ ToSet(Append(s, x)) = {Append(s, x)[i] : i \in 1..(Len(s) + 1)}
  BY <1>1 DEF ToSet
<1>4. 1..(Len(s) + 1) = 1..Len(s) \cup {Len(s) + 1}
  BY <1>1
<1> QED BY <1>1, <1>2, <1>3, <1>4

\* The head of a channel leaves it.
LEMMA HeadLeaves ==
  ASSUME NEW S, NEW s \in Seq(S), s # <<>>
  PROVE  /\ Tail(s) \in Seq(S) /\ Head(s) \in S
         /\ ToSet(s) = ToSet(Tail(s)) \cup {Head(s)}
<1>1. /\ Tail(s) \in Seq(S) /\ Head(s) = s[1] /\ Len(s) \in Nat /\ Len(s) >= 1
      /\ Len(Tail(s)) = Len(s) - 1
      /\ \A i \in 1..(Len(s) - 1) : Tail(s)[i] = s[i + 1]
  OBVIOUS
<1>2. /\ ToSet(s) = {s[i] : i \in 1..Len(s)}
      /\ ToSet(Tail(s)) = {Tail(s)[i] : i \in 1..(Len(s) - 1)}
  <2>1. DOMAIN s = 1..Len(s) /\ DOMAIN Tail(s) = 1..Len(Tail(s))
    BY <1>1
  <2> QED BY <1>1, <2>1 DEF ToSet
<1>3. ToSet(s) \subseteq ToSet(Tail(s)) \cup {Head(s)}
  <2> SUFFICES ASSUME NEW i \in 1..Len(s), i # 1 PROVE s[i] \in ToSet(Tail(s))
    BY <1>1, <1>2
  <2>1. i - 1 \in 1..(Len(s) - 1) /\ (i - 1) + 1 = i
    BY <1>1
  <2> QED BY <1>1, <1>2, <2>1
<1>4. ToSet(Tail(s)) \subseteq ToSet(s)
  <2> SUFFICES ASSUME NEW i \in 1..(Len(s) - 1) PROVE Tail(s)[i] \in ToSet(s)
    BY <1>2
  <2>1. i + 1 \in 1..Len(s)
    BY <1>1
  <2> QED BY <1>1, <1>2, <2>1
<1>5. Head(s) \in ToSet(s) /\ Head(s) \in S
  <2>1. 1 \in 1..Len(s)
    BY <1>1
  <2> QED BY <1>1, <1>2, <2>1
<1> QED BY <1>1, <1>3, <1>4, <1>5

-----------------------------------------------------------------------------
(* Consumers *)

FeederRecord == [at : {"idle", "pulling", "answered", "holding", "ended"},
                 job : DlvJob \cup {NoDlvJob}]
Reply == [job : DlvJob, ok : BOOLEAN]

DlvTypeOK ==
  /\ status \in [DlvJob -> {"queued", "active", "done", "dead"}]
  /\ feeder \in [Feeder -> FeederRecord] /\ orphans \in [Consumer -> Nat]
  /\ mode \in [Consumer -> {"running", "draining", "stopped", "gone"}]
  /\ channel \in [Consumer -> Seq(DlvJob)]
  /\ running \in [Consumer -> SUBSET DlvJob]
  /\ replies \in [Consumer -> SUBSET Reply]
  /\ astray \in [Consumer -> SUBSET DlvJob]
  /\ taker = [j \in DlvJob |-> taker[j]]

\* Only a puller between its pull and its send has a job, and a worker that was
\* stopped has no puller left.
FeedersInStep ==
  \A f \in Feeder :
    /\ feeder[f].job \in DlvJob <=> feeder[f].at \in {"answered", "holding"}
    /\ mode[OwnerOf[f]] = "stopped" => feeder[f].at = "ended"

TakersKnown == \A j \in DlvJob : status[j] = "active" => taker[j] \in Consumer

DlvInv == DlvTypeOK /\ FeedersInStep /\ TakersKnown /\ ActiveJobsAreHeld

\* What is said of an active job and the consumer that took it.
Accounted(c, j) == HeldBy(c, j) \/ mode[c] = "gone" \/ j \in astray[c]

LEMMA OwnersAreConsumers == \A f \in Feeder : OwnerOf[f] \in Consumer
BY DeliveryAssumption DEF Consumer

\* A pull that is given up touches what its consumer lost, and nothing else.
LEMMA AbandonedDoes ==
  ASSUME DlvInv, NEW f \in Feeder, Abandoned(f)
  PROVE  /\ orphans' \in [Consumer -> Nat] /\ astray' \in [Consumer -> SUBSET DlvJob]
         /\ \A d \in Consumer \ {OwnerOf[f]} : astray'[d] = astray[d]
         /\ astray'[OwnerOf[f]] = astray[OwnerOf[f]] \cup ({feeder[f].job} \ {NoDlvJob})
<1> USE OwnersAreConsumers DEF DlvInv, DlvTypeOK, Abandoned
<1>1. orphans' \in [Consumer -> Nat]
  <2>1. OwnerOf[f] \in Consumer /\ orphans \in [Consumer -> Nat]
    OBVIOUS
  <2>2. CASE orphans' = [orphans EXCEPT ![OwnerOf[f]] = @ + 1]
    BY <2>1, <2>2
  <2> QED BY <2>1, <2>2
<1>2. {feeder[f].job} \ {NoDlvJob} \subseteq DlvJob
  BY DEF FeederRecord
<1> HIDE DEF FeederRecord
<1> QED BY <1>1, <1>2

\* Types are kept.
LEMMA DlvTypeStep == DlvInv /\ [DeliveryNext]_deliveryVars => DlvTypeOK'
<1> SUFFICES ASSUME DlvInv, [DeliveryNext]_deliveryVars PROVE DlvTypeOK'
  OBVIOUS
<1> USE DeliveryAssumption, OwnersAreConsumers DEF DlvInv, DlvTypeOK, Reply, engineSide,
       consumerSide, dlvHistory, Stopped, StallSeen
<1>0. ASSUME NEW f \in Feeder, NEW j \in DlvJob \cup {NoDlvJob},
             NEW at \in {"idle", "pulling", "answered", "holding", "ended"}, Feeds(f, at, j)
      PROVE  feeder' \in [Feeder -> FeederRecord]
  <2>1. [at |-> at, job |-> j] \in FeederRecord
    BY DEF FeederRecord
  <2> QED BY <1>0, <2>1 DEF Feeds
<1>1. CASE UNCHANGED deliveryVars
  BY <1>1 DEF deliveryVars
<1>2. ASSUME NEW f \in Feeder, FeederLoop(f) PROVE DlvTypeOK'
  <2>1. feeder' \in [Feeder -> FeederRecord]
    BY <1>2, <1>0 DEF FeederLoop
  <2> QED BY <1>2, <2>1 DEF FeederLoop
<1>3. ASSUME NEW f \in Feeder, FeederPullTimeout(f) PROVE DlvTypeOK'
  <2>1. feeder' \in [Feeder -> FeederRecord]
    BY <1>3, <1>0 DEF FeederPullTimeout
  <2> QED BY <1>3, <2>1 DEF FeederPullTimeout
<1>4. ASSUME NEW f \in Feeder, FeederPull(f) PROVE DlvTypeOK'
  <2>1. PICK j \in DlvJob :
          Taken(OwnerOf[f], j, TRUE) /\ (Feeds(f, "holding", j) \/ Feeds(f, "answered", j))
    BY <1>4 DEF FeederPull
  <2>2. feeder' \in [Feeder -> FeederRecord]
    BY <2>1, <1>0
  <2>3. /\ status' \in [DlvJob -> {"queued", "active", "done", "dead"}]
        /\ taker' = [k \in DlvJob |-> taker'[k]] /\ astray' \in [Consumer -> SUBSET DlvJob]
    BY <2>1 DEF Taken
  <2> QED BY <1>4, <2>2, <2>3 DEF FeederPull
<1>5. ASSUME NEW f \in Feeder, PullAnswered(f) PROVE DlvTypeOK'
  <2>1. feeder' \in [Feeder -> FeederRecord]
    <3>1. feeder[f].job \in DlvJob \cup {NoDlvJob}
      BY DEF FeederRecord
    <3> QED BY <3>1, <1>5, <1>0 DEF PullAnswered
  <2> QED BY <1>5, <2>1 DEF PullAnswered
<1>6. ASSUME NEW f \in Feeder, PullGivenUp(f) PROVE DlvTypeOK'
  <2>1. feeder' \in [Feeder -> FeederRecord]
    BY <1>6, <1>0 DEF PullGivenUp
  <2> QED BY <1>6, <2>1, AbandonedDoes DEF PullGivenUp
<1>7. ASSUME NEW f \in Feeder, FeederSend(f) PROVE DlvTypeOK'
  <2>1. feeder' \in [Feeder -> FeederRecord]
    BY <1>7, <1>0 DEF FeederSend
  <2>2. feeder[f].job \in DlvJob
    BY <1>7 DEF FeederSend, FeedersInStep
  <2>3. Append(channel[OwnerOf[f]], feeder[f].job) \in Seq(DlvJob)
    BY <2>2, AppendJoins
  <2>4. channel' \in [Consumer -> Seq(DlvJob)]
    BY <1>7, <2>3 DEF FeederSend
  <2> QED BY <1>7, <2>1, <2>4 DEF FeederSend
<1>8. ASSUME NEW f \in Feeder, AbortPuller(f) PROVE DlvTypeOK'
  <2>1. feeder' \in [Feeder -> FeederRecord]
    BY <1>8, <1>0 DEF AbortPuller
  <2> QED BY <1>8, <2>1, AbandonedDoes DEF AbortPuller
<1>9. ASSUME NEW c \in Consumer, OrphanPull(c) PROVE DlvTypeOK'
  <2>1. PICK j \in DlvJob : Taken(c, j, FALSE)
    BY <1>9 DEF OrphanPull
  <2>2. /\ status' \in [DlvJob -> {"queued", "active", "done", "dead"}]
        /\ taker' = [k \in DlvJob |-> taker'[k]] /\ astray' \in [Consumer -> SUBSET DlvJob]
    BY <2>1 DEF Taken
  <2>3. orphans' \in [Consumer -> Nat]
    BY <1>9 DEF OrphanPull
  <2> QED BY <1>9, <2>2, <2>3 DEF OrphanPull
<1>10. ASSUME NEW c \in Consumer, OrphanGivesUp(c) PROVE DlvTypeOK'
  <2>1. orphans' \in [Consumer -> Nat]
    BY <1>10 DEF OrphanGivesUp
  <2> QED BY <1>10, <2>1 DEF OrphanGivesUp
<1>11. ASSUME NEW c \in Consumer, Consume(c) PROVE DlvTypeOK'
  <2>1. Tail(channel[c]) \in Seq(DlvJob) /\ Head(channel[c]) \in DlvJob
    BY <1>11, HeadLeaves DEF Consume
  <2> QED BY <1>11, <2>1 DEF Consume
<1>12. ASSUME NEW c \in Consumer, Finish(c) PROVE DlvTypeOK'
  BY <1>12 DEF Finish
<1>13. ASSUME NEW c \in Consumer, ReplyArrives(c) PROVE DlvTypeOK'
  <2>1. PICK r \in Reply :
          /\ replies' = [replies EXCEPT ![c] = @ \ {r}] \/ replies' = replies
          /\ \/ status' = status
             \/ status' = [status EXCEPT ![r.job] = IF r.ok THEN "done" ELSE Retried(r.job)]
    BY <1>13 DEF ReplyArrives
  <2>2. replies' \in [Consumer -> SUBSET Reply]
    <3>1. replies \in [Consumer -> SUBSET Reply]
      OBVIOUS
    <3>2. CASE replies' = [replies EXCEPT ![c] = @ \ {r}]
      <4> HIDE DEF Reply
      <4> QED BY <3>1, <3>2
    <3> QED BY <2>1, <3>1, <3>2
  <2>3. Retried(r.job) \in {"queued", "dead"}
    BY DEF Retried
  <2>4. status' \in [DlvJob -> {"queued", "active", "done", "dead"}]
    BY <2>1, <2>3
  <2> QED BY <1>13, <2>2, <2>4 DEF ReplyArrives
<1>14. ASSUME NEW c \in Consumer, ReplyLost(c) PROVE DlvTypeOK'
  BY <1>14 DEF ReplyLost
<1>15. ASSUME NEW c \in Consumer, Vanish(c) PROVE DlvTypeOK'
  <2>1. <<>> \in Seq(DlvJob)
    OBVIOUS
  <2> QED BY <1>15, <2>1 DEF Vanish
<1>16. ASSUME NEW w \in SdkWorker, Stop(w) PROVE DlvTypeOK'
  BY <1>16 DEF Stop
<1>17. ASSUME NEW w \in SdkWorker, WorkerStops(w) PROVE DlvTypeOK'
  BY <1>17 DEF WorkerStops
<1>18. ASSUME NEW j \in DlvJob, CheckStalledJob(j) PROVE DlvTypeOK'
  BY <1>18 DEF CheckStalledJob
<1>19. ASSUME NEW j \in DlvJob, CheckTimedOutJob(j) PROVE DlvTypeOK'
  <2>1. Retried(j) \in {"queued", "dead"}
    BY DEF Retried
  <2>2. status' = [status EXCEPT ![j] = Retried(j)]
    BY <1>19 DEF CheckTimedOutJob
  <2>3. status' \in [DlvJob -> {"queued", "active", "done", "dead"}]
    BY <2>1, <2>2
  <2> QED BY <1>19, <2>3 DEF CheckTimedOutJob
<1> QED BY <1>1, <1>2, <1>3, <1>4, <1>5, <1>6, <1>7, <1>8, <1>9,
          <1>10, <1>11, <1>12, <1>13, <1>14, <1>15, <1>16, <1>17, <1>18, <1>19 DEF DeliveryNext

\* Pullers stay in step with their consumer.
LEMMA FeedersStep == DlvInv /\ [DeliveryNext]_deliveryVars => FeedersInStep'
<1> SUFFICES ASSUME DlvInv, [DeliveryNext]_deliveryVars PROVE FeedersInStep'
  OBVIOUS
<1> USE DeliveryAssumption, OwnersAreConsumers DEF DlvInv, DlvTypeOK, FeedersInStep, FeederRecord,
       engineSide, consumerSide, dlvHistory, Feeds, Stopped, StallSeen
<1>1. CASE UNCHANGED deliveryVars
  BY <1>1 DEF deliveryVars
<1>2. ASSUME NEW f \in Feeder, FeederLoop(f) PROVE FeedersInStep'
  BY <1>2 DEF FeederLoop
<1>3. ASSUME NEW f \in Feeder, FeederPullTimeout(f) PROVE FeedersInStep'
  BY <1>3 DEF FeederPullTimeout
<1>4. ASSUME NEW f \in Feeder, FeederPull(f) PROVE FeedersInStep'
  BY <1>4 DEF FeederPull
<1>5. ASSUME NEW f \in Feeder, PullAnswered(f) PROVE FeedersInStep'
  BY <1>5 DEF PullAnswered
<1>6. ASSUME NEW f \in Feeder, PullGivenUp(f) PROVE FeedersInStep'
  BY <1>6 DEF PullGivenUp
<1>7. ASSUME NEW f \in Feeder, FeederSend(f) PROVE FeedersInStep'
  <2>1. PICK at \in {"ended", "idle"} :
          /\ feeder' = [feeder EXCEPT ![f] = [at |-> at, job |-> NoDlvJob]] /\ mode' = mode
          /\ at = "idle" => mode[OwnerOf[f]] # "gone"
    BY <1>7 DEF FeederSend
  <2>2. feeder[f].at = "holding"
    BY <1>7 DEF FeederSend
  <2> QED BY <2>1, <2>2
<1>8. ASSUME NEW f \in Feeder, AbortPuller(f) PROVE FeedersInStep'
  BY <1>8 DEF AbortPuller
<1>9. ASSUME NEW c \in Consumer, OrphanPull(c) PROVE FeedersInStep'
  BY <1>9 DEF OrphanPull
<1>10. ASSUME NEW c \in Consumer, OrphanGivesUp(c) PROVE FeedersInStep'
  BY <1>10 DEF OrphanGivesUp
<1>11. ASSUME NEW c \in Consumer, Consume(c) PROVE FeedersInStep'
  BY <1>11 DEF Consume
<1>12. ASSUME NEW c \in Consumer, Finish(c) PROVE FeedersInStep'
  BY <1>12 DEF Finish
<1>13. ASSUME NEW c \in Consumer, ReplyArrives(c) PROVE FeedersInStep'
  BY <1>13 DEF ReplyArrives
<1>14. ASSUME NEW c \in Consumer, ReplyLost(c) PROVE FeedersInStep'
  BY <1>14 DEF ReplyLost
<1>15. ASSUME NEW c \in Consumer, Vanish(c) PROVE FeedersInStep'
  BY <1>15 DEF Vanish
<1>16. ASSUME NEW w \in SdkWorker, Stop(w) PROVE FeedersInStep'
  BY <1>16 DEF Stop
<1>17. ASSUME NEW w \in SdkWorker, WorkerStops(w) PROVE FeedersInStep'
  BY <1>17 DEF WorkerStops, PullersEnded
<1>18. ASSUME NEW j \in DlvJob, CheckStalledJob(j) PROVE FeedersInStep'
  BY <1>18 DEF CheckStalledJob
<1>19. ASSUME NEW j \in DlvJob, CheckTimedOutJob(j) PROVE FeedersInStep'
  BY <1>19 DEF CheckTimedOutJob
<1> QED BY <1>1, <1>2, <1>3, <1>4, <1>5, <1>6, <1>7, <1>8, <1>9,
          <1>10, <1>11, <1>12, <1>13, <1>14, <1>15, <1>16, <1>17, <1>18, <1>19 DEF DeliveryNext

\* Whoever makes a job active is its taker.
LEMMA TakersStep == DlvInv /\ [DeliveryNext]_deliveryVars => TakersKnown'
<1> SUFFICES ASSUME DlvInv, [DeliveryNext]_deliveryVars PROVE TakersKnown'
  OBVIOUS
<1> USE OwnersAreConsumers DEF DlvInv, DlvTypeOK, TakersKnown, engineSide, consumerSide,
       dlvHistory,
       Stopped, StallSeen, Retried, Taken
<1>1. CASE UNCHANGED deliveryVars
  BY <1>1 DEF deliveryVars
<1>2. ASSUME NEW f \in Feeder, FeederLoop(f) PROVE TakersKnown'
  BY <1>2 DEF FeederLoop
<1>3. ASSUME NEW f \in Feeder, FeederPullTimeout(f) PROVE TakersKnown'
  BY <1>3 DEF FeederPullTimeout
<1>4. ASSUME NEW f \in Feeder, FeederPull(f) PROVE TakersKnown'
  BY <1>4 DEF FeederPull
<1>5. ASSUME NEW f \in Feeder, PullAnswered(f) PROVE TakersKnown'
  BY <1>5 DEF PullAnswered
<1>6. ASSUME NEW f \in Feeder, PullGivenUp(f) PROVE TakersKnown'
  BY <1>6 DEF PullGivenUp
<1>7. ASSUME NEW f \in Feeder, FeederSend(f) PROVE TakersKnown'
  BY <1>7 DEF FeederSend
<1>8. ASSUME NEW f \in Feeder, AbortPuller(f) PROVE TakersKnown'
  BY <1>8 DEF AbortPuller
<1>9. ASSUME NEW c \in Consumer, OrphanPull(c) PROVE TakersKnown'
  BY <1>9 DEF OrphanPull
<1>10. ASSUME NEW c \in Consumer, OrphanGivesUp(c) PROVE TakersKnown'
  BY <1>10 DEF OrphanGivesUp
<1>11. ASSUME NEW c \in Consumer, Consume(c) PROVE TakersKnown'
  BY <1>11 DEF Consume
<1>12. ASSUME NEW c \in Consumer, Finish(c) PROVE TakersKnown'
  BY <1>12 DEF Finish
<1>13. ASSUME NEW c \in Consumer, ReplyArrives(c) PROVE TakersKnown'
  BY <1>13 DEF ReplyArrives
<1>14. ASSUME NEW c \in Consumer, ReplyLost(c) PROVE TakersKnown'
  BY <1>14 DEF ReplyLost
<1>15. ASSUME NEW c \in Consumer, Vanish(c) PROVE TakersKnown'
  BY <1>15 DEF Vanish
<1>16. ASSUME NEW w \in SdkWorker, Stop(w) PROVE TakersKnown'
  BY <1>16 DEF Stop
<1>17. ASSUME NEW w \in SdkWorker, WorkerStops(w) PROVE TakersKnown'
  BY <1>17 DEF WorkerStops
<1>18. ASSUME NEW j \in DlvJob, CheckStalledJob(j) PROVE TakersKnown'
  BY <1>18 DEF CheckStalledJob
<1>19. ASSUME NEW j \in DlvJob, CheckTimedOutJob(j) PROVE TakersKnown'
  BY <1>19 DEF CheckTimedOutJob
<1> QED BY <1>1, <1>2, <1>3, <1>4, <1>5, <1>6, <1>7, <1>8, <1>9,
          <1>10, <1>11, <1>12, <1>13, <1>14, <1>15, <1>16, <1>17, <1>18, <1>19 DEF DeliveryNext

\* What other consumers have is not touched.
OthersUntouched(c) ==
  /\ \A f \in Feeder : OwnerOf[f] # c => feeder'[f] = feeder[f]
  /\ \A d \in Consumer \ {c} :
       /\ mode'[d] = mode[d] /\ channel'[d] = channel[d] /\ running'[d] = running[d]
       /\ replies'[d] = replies[d] /\ astray'[d] = astray[d]

\* A step of one consumer that accounts for what that one took keeps the rest.
LEMMA OthersKeepTheirs ==
  ASSUME DlvInv, NEW c \in Consumer, OthersUntouched(c),
         \A j \in DlvJob : status'[j] = "active" =>
           \/ status[j] = "active" /\ taker'[j] = taker[j]
           \/ taker'[j] = c /\ Accounted(c, j)',
         \A j \in DlvJob : status'[j] = "active" /\ status[j] = "active" /\ Accounted(c, j)
                             => Accounted(c, j)'
  PROVE  ActiveJobsAreHeld'
<1> SUFFICES ASSUME NEW j \in DlvJob, status'[j] = "active"
             PROVE  \E d \in Consumer : taker'[j] = d /\ Accounted(d, j)'
  BY DEF ActiveJobsAreHeld, Accounted
<1>1. CASE taker'[j] = c /\ Accounted(c, j)'
  BY <1>1
<1>2. CASE status[j] = "active" /\ taker'[j] = taker[j]
  <2>1. PICK d \in Consumer : taker[j] = d /\ Accounted(d, j)
    BY <1>2 DEF DlvInv, TakersKnown, ActiveJobsAreHeld, Accounted
  <2>2. CASE d = c
    BY <1>2, <2>1, <2>2
  <2>3. CASE d # c
    BY <1>2, <2>1, <2>3 DEF Accounted, HeldBy, OthersUntouched
  <2> QED BY <2>2, <2>3
<1> QED BY <1>1, <1>2

\* A step that leaves the feeders alone keeps what they hold.
LEMMA FeederJobs ==
  ASSUME NEW f \in Feeder, NEW c \in Consumer, NEW j \in DlvJob, OwnerOf[f] = c,
         feeder'[f].job = j
  PROVE  Accounted(c, j)'
BY DEF Accounted, HeldBy

\* No step loses sight of an active job.
LEMMA HeldStep == DlvInv /\ [DeliveryNext]_deliveryVars => ActiveJobsAreHeld'
<1> SUFFICES ASSUME DlvInv, [DeliveryNext]_deliveryVars PROVE ActiveJobsAreHeld'
  OBVIOUS
<1> USE DeliveryAssumption, OwnersAreConsumers DEF DlvInv, DlvTypeOK, FeedersInStep, Reply,
       engineSide,
       consumerSide, dlvHistory, Feeds, Stopped, StallSeen
<1>1. CASE UNCHANGED deliveryVars
  BY <1>1 DEF deliveryVars, ActiveJobsAreHeld, HeldBy
<1>2. ASSUME NEW f \in Feeder, FeederLoop(f) PROVE ActiveJobsAreHeld'
  <2>1. OthersUntouched(OwnerOf[f])
    BY <1>2 DEF FeederLoop, OthersUntouched
  <2>2. ASSUME NEW j \in DlvJob, status'[j] = "active"
        PROVE \/ status[j] = "active" /\ taker'[j] = taker[j]
              \/ taker'[j] = OwnerOf[f] /\ Accounted(OwnerOf[f], j)'
    BY <1>2, <2>2 DEF FeederLoop
  <2>3. ASSUME NEW j \in DlvJob, status'[j] = "active", status[j] = "active",
               Accounted(OwnerOf[f], j)
        PROVE Accounted(OwnerOf[f], j)'
    BY <1>2, <2>3 DEF FeederLoop, Accounted, HeldBy
  <2> QED BY <2>1, <2>2, <2>3, OthersKeepTheirs
<1>3. ASSUME NEW f \in Feeder, FeederPullTimeout(f) PROVE ActiveJobsAreHeld'
  <2>1. OthersUntouched(OwnerOf[f])
    BY <1>3 DEF FeederPullTimeout, OthersUntouched
  <2>2. ASSUME NEW j \in DlvJob, status'[j] = "active"
        PROVE \/ status[j] = "active" /\ taker'[j] = taker[j]
              \/ taker'[j] = OwnerOf[f] /\ Accounted(OwnerOf[f], j)'
    BY <1>3, <2>2 DEF FeederPullTimeout
  <2>3. ASSUME NEW j \in DlvJob, status'[j] = "active", status[j] = "active",
               Accounted(OwnerOf[f], j)
        PROVE Accounted(OwnerOf[f], j)'
    BY <1>3, <2>3 DEF FeederPullTimeout, Accounted, HeldBy
  <2> QED BY <2>1, <2>2, <2>3, OthersKeepTheirs
<1>4. ASSUME NEW f \in Feeder, FeederPull(f) PROVE ActiveJobsAreHeld'
  <2>0. PICK k \in DlvJob :
          Taken(OwnerOf[f], k, TRUE) /\ (Feeds(f, "holding", k) \/ Feeds(f, "answered", k))
    BY <1>4 DEF FeederPull
  <2>01. feeder'[f].job = k /\ \A g \in Feeder \ {f} : feeder'[g] = feeder[g]
    BY <2>0
  <2>1. OthersUntouched(OwnerOf[f])
    BY <1>4, <2>0 DEF FeederPull, OthersUntouched, Taken
  <2>2. ASSUME NEW j \in DlvJob, status'[j] = "active"
        PROVE \/ status[j] = "active" /\ taker'[j] = taker[j]
              \/ taker'[j] = OwnerOf[f] /\ Accounted(OwnerOf[f], j)'
    BY <2>2, <2>0, <2>01, FeederJobs DEF Taken
  <2>3. ASSUME NEW j \in DlvJob, status'[j] = "active", status[j] = "active",
               Accounted(OwnerOf[f], j)
        PROVE Accounted(OwnerOf[f], j)'
    <3>1. j # k
      BY <2>3, <2>0 DEF Taken
    <3>2. feeder[f].job \notin DlvJob
      BY <1>4 DEF FeederPull
    <3> QED BY <1>4, <2>3, <3>1, <3>2, <2>0, <2>01 DEF FeederPull, Taken, Accounted, HeldBy
  <2> QED BY <2>1, <2>2, <2>3, OthersKeepTheirs
<1>5. ASSUME NEW f \in Feeder, PullAnswered(f) PROVE ActiveJobsAreHeld'
  <2>1. OthersUntouched(OwnerOf[f])
    BY <1>5 DEF PullAnswered, OthersUntouched
  <2>2. ASSUME NEW j \in DlvJob, status'[j] = "active"
        PROVE \/ status[j] = "active" /\ taker'[j] = taker[j]
              \/ taker'[j] = OwnerOf[f] /\ Accounted(OwnerOf[f], j)'
    BY <1>5, <2>2 DEF PullAnswered
  <2>3. ASSUME NEW j \in DlvJob, status'[j] = "active", status[j] = "active",
               Accounted(OwnerOf[f], j)
        PROVE Accounted(OwnerOf[f], j)'
    BY <1>5, <2>3 DEF PullAnswered, Accounted, HeldBy
  <2> QED BY <2>1, <2>2, <2>3, OthersKeepTheirs
<1>6. ASSUME NEW f \in Feeder, PullGivenUp(f) PROVE ActiveJobsAreHeld'
  <2>1. OthersUntouched(OwnerOf[f])
    BY <1>6, AbandonedDoes DEF PullGivenUp, OthersUntouched
  <2>2. ASSUME NEW j \in DlvJob, status'[j] = "active"
        PROVE \/ status[j] = "active" /\ taker'[j] = taker[j]
              \/ taker'[j] = OwnerOf[f] /\ Accounted(OwnerOf[f], j)'
    BY <1>6, <2>2 DEF PullGivenUp
  <2>3. ASSUME NEW j \in DlvJob, status'[j] = "active", status[j] = "active",
               Accounted(OwnerOf[f], j)
        PROVE Accounted(OwnerOf[f], j)'
    <3>1. CASE feeder[f].job = j
      <4>1. j # NoDlvJob
        BY DeliveryAssumption
      <4> QED BY <1>6, <3>1, <4>1, AbandonedDoes DEF PullGivenUp, Accounted
    <3>2. CASE feeder[f].job # j
      BY <1>6, <2>3, <3>2, AbandonedDoes DEF PullGivenUp, Accounted, HeldBy
    <3> QED BY <3>1, <3>2
  <2> QED BY <2>1, <2>2, <2>3, OthersKeepTheirs
<1>7. ASSUME NEW f \in Feeder, FeederSend(f) PROVE ActiveJobsAreHeld'
  <2>1. OthersUntouched(OwnerOf[f])
    BY <1>7 DEF FeederSend, OthersUntouched
  <2>2. ASSUME NEW j \in DlvJob, status'[j] = "active"
        PROVE \/ status[j] = "active" /\ taker'[j] = taker[j]
              \/ taker'[j] = OwnerOf[f] /\ Accounted(OwnerOf[f], j)'
    BY <1>7, <2>2 DEF FeederSend
  <2>3. ASSUME NEW j \in DlvJob, status'[j] = "active", status[j] = "active",
               Accounted(OwnerOf[f], j)
        PROVE Accounted(OwnerOf[f], j)'
    <3>1. CASE mode[OwnerOf[f]] = "gone"
      BY <1>7, <3>1 DEF FeederSend, Accounted
    <3>2. CASE mode[OwnerOf[f]] # "gone"
      <4> DEFINE c == OwnerOf[f]
      <4>1. feeder[f].job \in DlvJob /\ channel[c] \in Seq(DlvJob)
        BY <1>7 DEF FeederSend
      <4>2. channel'[c] = Append(channel[c], feeder[f].job)
        BY <1>7, <3>2 DEF FeederSend
      <4>3. ToSet(channel'[c]) = ToSet(channel[c]) \cup {feeder[f].job}
        BY <4>1, <4>2, AppendJoins
      <4>4. mode'[c] \in {"running", "draining"} /\ mode'[c] = mode[c]
        <5>1. mode[c] # "stopped"
          BY <1>7 DEF FeederSend
        <5> QED BY <1>7, <3>2, <5>1 DEF FeederSend
      <4>5. /\ running'[c] = running[c] /\ replies'[c] = replies[c] /\ astray'[c] = astray[c]
            /\ \A g \in Feeder \ {f} : feeder'[g] = feeder[g]
        BY <1>7 DEF FeederSend
      <4>6. CASE feeder[f].job = j
        BY <4>3, <4>4, <4>6 DEF Accounted, HeldBy
      <4>7. CASE feeder[f].job # j
        BY <2>3, <4>3, <4>4, <4>5, <4>7 DEF Accounted, HeldBy
      <4> QED BY <4>6, <4>7
    <3> QED BY <3>1, <3>2
  <2> QED BY <2>1, <2>2, <2>3, OthersKeepTheirs
<1>8. ASSUME NEW f \in Feeder, AbortPuller(f) PROVE ActiveJobsAreHeld'
  <2>1. OthersUntouched(OwnerOf[f])
    BY <1>8, AbandonedDoes DEF AbortPuller, OthersUntouched
  <2>2. ASSUME NEW j \in DlvJob, status'[j] = "active"
        PROVE \/ status[j] = "active" /\ taker'[j] = taker[j]
              \/ taker'[j] = OwnerOf[f] /\ Accounted(OwnerOf[f], j)'
    BY <1>8, <2>2 DEF AbortPuller
  <2>3. ASSUME NEW j \in DlvJob, status'[j] = "active", status[j] = "active",
               Accounted(OwnerOf[f], j)
        PROVE Accounted(OwnerOf[f], j)'
    <3>1. CASE feeder[f].job = j
      <4>1. j # NoDlvJob
        BY DeliveryAssumption
      <4> QED BY <1>8, <3>1, <4>1, AbandonedDoes DEF AbortPuller, Accounted
    <3>2. CASE feeder[f].job # j
      BY <1>8, <2>3, <3>2, AbandonedDoes DEF AbortPuller, Accounted, HeldBy
    <3> QED BY <3>1, <3>2
  <2> QED BY <2>1, <2>2, <2>3, OthersKeepTheirs
<1>9. ASSUME NEW c \in Consumer, OrphanPull(c) PROVE ActiveJobsAreHeld'
  <2>0. PICK k \in DlvJob : Taken(c, k, FALSE)
    BY <1>9 DEF OrphanPull
  <2>1. OthersUntouched(c)
    BY <1>9, <2>0 DEF OrphanPull, OthersUntouched, Taken
  <2>2. ASSUME NEW j \in DlvJob, status'[j] = "active"
        PROVE \/ status[j] = "active" /\ taker'[j] = taker[j]
              \/ taker'[j] = c /\ Accounted(c, j)'
    BY <2>2, <2>0 DEF Taken, Accounted
  <2>3. ASSUME NEW j \in DlvJob, status'[j] = "active", status[j] = "active",
               Accounted(c, j)
        PROVE Accounted(c, j)'
    BY <1>9, <2>3, <2>0 DEF OrphanPull, Taken, Accounted, HeldBy
  <2> QED BY <2>1, <2>2, <2>3, OthersKeepTheirs
<1>10. ASSUME NEW c \in Consumer, OrphanGivesUp(c) PROVE ActiveJobsAreHeld'
  <2>1. OthersUntouched(c)
    BY <1>10 DEF OrphanGivesUp, OthersUntouched
  <2>2. ASSUME NEW j \in DlvJob, status'[j] = "active"
        PROVE \/ status[j] = "active" /\ taker'[j] = taker[j]
              \/ taker'[j] = c /\ Accounted(c, j)'
    BY <1>10, <2>2 DEF OrphanGivesUp
  <2>3. ASSUME NEW j \in DlvJob, status'[j] = "active", status[j] = "active",
               Accounted(c, j)
        PROVE Accounted(c, j)'
    BY <1>10, <2>3 DEF OrphanGivesUp, Accounted, HeldBy
  <2> QED BY <2>1, <2>2, <2>3, OthersKeepTheirs
<1>11. ASSUME NEW c \in Consumer, Consume(c) PROVE ActiveJobsAreHeld'
  <2>1. OthersUntouched(c)
    BY <1>11 DEF Consume, OthersUntouched
  <2>2. ASSUME NEW j \in DlvJob, status'[j] = "active"
        PROVE \/ status[j] = "active" /\ taker'[j] = taker[j]
              \/ taker'[j] = c /\ Accounted(c, j)'
    BY <1>11, <2>2 DEF Consume
  <2>3. ASSUME NEW j \in DlvJob, status'[j] = "active", status[j] = "active",
               Accounted(c, j)
        PROVE Accounted(c, j)'
    <3>1. channel[c] \in Seq(DlvJob) /\ channel[c] # <<>>
      BY <1>11 DEF Consume
    <3>2. ToSet(channel[c]) \subseteq ToSet(channel'[c]) \cup {Head(channel[c])}
      BY <1>11, <3>1, HeadLeaves DEF Consume
    <3>3. running'[c] = running[c] \cup {Head(channel[c])}
      BY <1>11 DEF Consume
    <3> HIDE DEF ToSet
    <3> QED BY <1>11, <2>3, <3>2, <3>3 DEF Consume, Accounted, HeldBy
  <2> QED BY <2>1, <2>2, <2>3, OthersKeepTheirs
<1>12. ASSUME NEW c \in Consumer, Finish(c) PROVE ActiveJobsAreHeld'
  <2>1. OthersUntouched(c)
    BY <1>12 DEF Finish, OthersUntouched
  <2>2. ASSUME NEW j \in DlvJob, status'[j] = "active"
        PROVE \/ status[j] = "active" /\ taker'[j] = taker[j]
              \/ taker'[j] = c /\ Accounted(c, j)'
    BY <1>12, <2>2 DEF Finish
  <2>3. ASSUME NEW j \in DlvJob, status'[j] = "active", status[j] = "active",
               Accounted(c, j)
        PROVE Accounted(c, j)'
    <3>1. PICK k \in running[c], ok \in BOOLEAN :
            /\ running' = [running EXCEPT ![c] = @ \ {k}]
            /\ replies' = [replies EXCEPT ![c] = @ \cup {[job |-> k, ok |-> ok]}]
      BY <1>12 DEF Finish
    <3>2. UNCHANGED <<feeder, channel, mode, astray>>
      BY <1>12 DEF Finish
    <3>3. CASE j = k
      <4>1. [job |-> k, ok |-> ok] \in replies'[c] /\ [job |-> k, ok |-> ok].job = j
        BY <3>1, <3>3
      <4> QED BY <4>1 DEF Accounted, HeldBy
    <3>4. CASE j # k
      BY <2>3, <3>1, <3>2, <3>4 DEF Accounted, HeldBy
    <3> QED BY <3>3, <3>4
  <2> QED BY <2>1, <2>2, <2>3, OthersKeepTheirs
<1>13. ASSUME NEW c \in Consumer, ReplyArrives(c) PROVE ActiveJobsAreHeld'
  <2>1. OthersUntouched(c)
    BY <1>13 DEF ReplyArrives, OthersUntouched
  <2>2. ASSUME NEW j \in DlvJob, status'[j] = "active"
        PROVE \/ status[j] = "active" /\ taker'[j] = taker[j]
              \/ taker'[j] = c /\ Accounted(c, j)'
    BY <1>13, <2>2 DEF ReplyArrives, Retried
  <2>3. ASSUME NEW j \in DlvJob, status'[j] = "active", status[j] = "active",
               Accounted(c, j)
        PROVE Accounted(c, j)'
    BY <1>13, <2>3 DEF ReplyArrives, Accounted, HeldBy, Retried
  <2> QED BY <2>1, <2>2, <2>3, OthersKeepTheirs
<1>14. ASSUME NEW c \in Consumer, ReplyLost(c) PROVE ActiveJobsAreHeld'
  <2>1. OthersUntouched(c)
    BY <1>14 DEF ReplyLost, OthersUntouched
  <2>2. ASSUME NEW j \in DlvJob, status'[j] = "active"
        PROVE \/ status[j] = "active" /\ taker'[j] = taker[j]
              \/ taker'[j] = c /\ Accounted(c, j)'
    BY <1>14, <2>2 DEF ReplyLost
  <2>3. ASSUME NEW j \in DlvJob, status'[j] = "active", status[j] = "active",
               Accounted(c, j)
        PROVE Accounted(c, j)'
    BY <1>14, <2>3 DEF ReplyLost, Accounted, HeldBy
  <2> QED BY <2>1, <2>2, <2>3, OthersKeepTheirs
<1>15. ASSUME NEW c \in Consumer, Vanish(c) PROVE ActiveJobsAreHeld'
  <2>1. OthersUntouched(c)
    BY <1>15 DEF Vanish, OthersUntouched
  <2>2. ASSUME NEW j \in DlvJob, status'[j] = "active"
        PROVE \/ status[j] = "active" /\ taker'[j] = taker[j]
              \/ taker'[j] = c /\ Accounted(c, j)'
    BY <1>15, <2>2 DEF Vanish
  <2>3. ASSUME NEW j \in DlvJob, status'[j] = "active", status[j] = "active",
               Accounted(c, j)
        PROVE Accounted(c, j)'
    BY <1>15, <2>3 DEF Vanish, Accounted, HeldBy
  <2> QED BY <2>1, <2>2, <2>3, OthersKeepTheirs
<1>16. ASSUME NEW w \in SdkWorker, Stop(w) PROVE ActiveJobsAreHeld'
  <2>0. w \in Consumer
    BY DEF Consumer
  <2>1. OthersUntouched(w)
    BY <1>16, <2>0 DEF Stop, OthersUntouched
  <2>2. ASSUME NEW j \in DlvJob, status'[j] = "active"
        PROVE \/ status[j] = "active" /\ taker'[j] = taker[j]
              \/ taker'[j] = w /\ Accounted(w, j)'
    BY <1>16, <2>0, <2>2 DEF Stop
  <2>3. ASSUME NEW j \in DlvJob, status'[j] = "active", status[j] = "active",
               Accounted(w, j)
        PROVE Accounted(w, j)'
    BY <1>16, <2>0, <2>3 DEF Stop, Accounted, HeldBy
  <2> QED BY <2>0, <2>1, <2>2, <2>3, OthersKeepTheirs
<1>17. ASSUME NEW w \in SdkWorker, WorkerStops(w) PROVE ActiveJobsAreHeld'
  <2>0. w \in Consumer
    BY DEF Consumer
  <2>1. OthersUntouched(w)
    BY <1>17, <2>0 DEF WorkerStops, OthersUntouched
  <2>2. ASSUME NEW j \in DlvJob, status'[j] = "active"
        PROVE \/ status[j] = "active" /\ taker'[j] = taker[j]
              \/ taker'[j] = w /\ Accounted(w, j)'
    BY <1>17, <2>2 DEF WorkerStops
  <2>3. ASSUME NEW j \in DlvJob, status'[j] = "active", status[j] = "active",
               Accounted(w, j)
        PROVE Accounted(w, j)'
    <3>1. ToSet(<<>>) = {}
      BY DEF ToSet
    <3> HIDE DEF ToSet
    <3> QED BY <1>17, <2>0, <2>3, <3>1 DEF WorkerStops, Accounted, HeldBy
  <2> QED BY <2>0, <2>1, <2>2, <2>3, OthersKeepTheirs
<1>18. ASSUME NEW j \in DlvJob, CheckStalledJob(j) PROVE ActiveJobsAreHeld'
  BY <1>18 DEF CheckStalledJob, ActiveJobsAreHeld, HeldBy
<1>19. ASSUME NEW j \in DlvJob, CheckTimedOutJob(j) PROVE ActiveJobsAreHeld'
  BY <1>19 DEF CheckTimedOutJob, ActiveJobsAreHeld, HeldBy, Retried
<1> QED BY <1>1, <1>2, <1>3, <1>4, <1>5, <1>6, <1>7, <1>8, <1>9,
          <1>10, <1>11, <1>12, <1>13, <1>14, <1>15, <1>16, <1>17, <1>18, <1>19 DEF DeliveryNext

\* However consumers pull, run, answer, stop and vanish, whatever answers, acks and
\* fails the wire loses, and however often they are sent: a job in processing is
\* with the one that took it last, or on its way there, or that one vanished, or
\* the job was lost since with an answer, an ack or fail, or an aborted puller.
THEOREM NoActiveJobForgotten == DeliverySpec => []ActiveJobsAreHeld
<1>1. DeliveryInit => DlvInv
  <2> SUFFICES ASSUME NEW scene \in DlvScenes, DeliveryStart(scene) PROVE DlvInv
    BY DEF DeliveryInit
  <2> USE DeliveryAssumption, OwnersAreConsumers
  <2>1. \A j \in DlvJob : status[j] # "active"
    BY DEF DeliveryStart
  <2>2. DlvTypeOK
    BY DEF DeliveryStart, DlvTypeOK, FeederRecord, Reply
  <2>3. FeedersInStep
    BY DEF DeliveryStart, FeedersInStep
  <2> QED BY <2>1, <2>2, <2>3 DEF DlvInv, TakersKnown, ActiveJobsAreHeld
<1>2. DlvInv /\ [DeliveryNext]_deliveryVars => DlvInv'
  BY DlvTypeStep, FeedersStep, TakersStep, HeldStep DEF DlvInv
<1> QED BY <1>1, <1>2, PTL DEF DeliverySpec, DlvInv

-----------------------------------------------------------------------------
(* Requests and answers *)

Request == [conn : Conn, n : Nat, by : Requester]
Answer == [req : Request, what : {"ok", "refused"}]
Channel == [what : {"none", "lost", "ok", "refused"}, of : Requester]
SessionRecord ==
  [conn : Conn \cup {MaxPool}, alive : BOOLEAN, reader : BOOLEAN, authenticated : BOOLEAN,
   up : Seq(Request), out : Seq(Answer), down : Seq(Answer)]
SessionState == {x \in SessionRecord : x.reader => x.conn \in Conn}
CallSteps == {"unused", "idle", "trying", "writing", "waiting", "answered", "failed",
              "dropped"}
CallState == [at : CallSteps, start : Nat, tries : Nat, req : Request]

TpTypeOK ==
  /\ poolSize \in 1..MaxPool
  /\ connected \in [Conn -> BOOLEAN] /\ writer \in [Conn -> Session \cup {0}]
  /\ pending \in [Conn -> SUBSET Request] /\ reqCounter \in [Conn -> Nat]
  /\ session \in [Session -> SessionState]
  /\ call \in [SdkCall -> CallState]
  /\ rx \in [Requester -> Channel]
  /\ health \in [at : {"idle", "auth", "auth_wait"}, conn : Conn, req : Request]
  /\ executed \in [SdkCall -> Nat] /\ givenUp \in [SdkCall -> Nat]

\* What is on the wires of a session, in either direction.
Up(s) == ToSet(session[s].up)
Answers(s) == ToSet(session[s].out) \cup ToSet(session[s].down)

SentUp(r) == \E s \in Session : r \in Up(s)
Served(r) == \E s \in Session : \E a \in Answers(s) : a.req = r
Awaited(r) == \E c \in Conn : r \in pending[c]
Held(r) == r # NoRequest /\ (health.req = r \/ \E k \in SdkCall : call[k].req = r)
Made(r) == SentUp(r) \/ Served(r) \/ Awaited(r) \/ Held(r)

\* A request is known by its connection and its number, which was counted.
Numbered ==
  /\ \A r \in Request : Made(r) => 1 <= r.n /\ r.n <= reqCounter[r.conn]
  /\ \A q, r \in Request : Made(q) /\ Made(r) /\ q.conn = r.conn /\ q.n = r.n => q = r

\* Requests and answers stay with the connection they were made for.
WiresOfConn ==
  \A s \in Session :
    /\ \A r \in Up(s) : r.conn = session[s].conn
    /\ \A a \in Answers(s) : a.req.conn = session[s].conn
WritersOfConn == \A c \in Conn : writer[c] # 0 => session[writer[c]].conn = c
PendingOfConn == \A c \in Conn : \A r \in pending[c] : r.conn = c
WritingOfConn ==
  /\ \A k \in SdkCall : call[k].at = "writing" => call[k].req.conn = ConnOf(k)
  /\ health.at = "auth_wait" => health.req.conn = health.conn
Wired == WiresOfConn /\ WritersOfConn /\ PendingOfConn /\ WritingOfConn

NoneTwice(q) == \A i, j \in DOMAIN q : q[i] = q[j] => i = j

\* A request is written once.
OnceOnWires ==
  /\ \A s \in Session : NoneTwice(session[s].up)
  /\ \A s, t \in Session : \A r \in Up(s) : r \in Up(t) => s = t
WritingIsNew ==
  \A k \in SdkCall : call[k].at = "writing" => ~SentUp(call[k].req) /\ ~Served(call[k].req)
WrittenOnce == OnceOnWires /\ WritingIsNew

\* A requester with an answer in its channel waits for none.
ChannelsAreFinal ==
  \A k \in Requester : rx[k] # NoReply => \A c \in Conn : \A r \in pending[c] : r.by # k
ChannelsOfCalls ==
  \A k \in SdkCall :
    /\ call[k].at \in {"idle", "trying"} => rx[k] = NoReply
    /\ call[k].at = "writing" => rx[k].what \in {"none", "lost"}
    /\ call[k].at \in {"writing", "waiting", "answered"} => call[k].req.by = k
AuthIsAwaited == health.at # "auth_wait" => health.req = NoRequest
ChannelsTell == ChannelsAreFinal /\ ChannelsOfCalls /\ AuthIsAwaited

\* "ok" says that the command ran.
RepliesAreTrue ==
  /\ \A k \in Requester : rx[k].what \in {"ok", "refused"} => rx[k].of = k
  /\ \A k \in SdkCall : rx[k].what = "ok" => executed[k] >= 1
WiresAreTrue ==
  \A s \in Session : \A a \in Answers(s) :
    a.what = "ok" /\ a.req.by \in SdkCall => executed[a.req.by] >= 1
AnswersAreTrue == RepliesAreTrue /\ WiresAreTrue

\* Attempts that may still run: one each for the requests under way.
Sent(k) == {r \in Request : r.by = k /\ SentUp(r)}
Refusal(k) ==
  \/ rx[k].what = "refused"
  \/ \E s \in Session : \E a \in Answers(s) : a.req = call[k].req /\ a.what = "refused"
Due(k) ==
  IF call[k].at = "dropped" \/ (call[k].at \in {"waiting", "answered"} /\ ~Refusal(k))
    THEN 1 ELSE 0
RunsCounted ==
  \A k \in SdkCall :
    IsFiniteSet(Sent(k)) /\ Cardinality(Sent(k)) + executed[k] <= givenUp[k] + Due(k)

\* What a call does, with or without room for a write.
RequestGoes(k) == Writes(k, "waiting") \/ Writes(k, "dropped")
SdkMoves(k) ==
  \/ SdkSend(k) \/ TryConn(k) \/ RequestGoes(k) \/ WriteFails(k) \/ Receive(k)
  \/ CallTimeout(k) \/ Leaves(k)

TransportMoves ==
  \/ \E k \in SdkCall : SdkMoves(k)
  \/ \E s \in Session : Serve(s) \/ Break(s) \/ Dispatch(s) \/ ReaderEnds(s)
  \/ Reconnect \/ SendAuth \/ AuthAnswered \/ AuthFails

LEMMA NextMoves == [TransportNext]_transportVars => [TransportMoves]_transportVars
<1>1. ASSUME NEW k \in SdkCall, SdkSend(k) \/ SdkStep(k) \/ CallDropped(k) PROVE SdkMoves(k)
  BY <1>1 DEF SdkStep, CallDropped, WriteRequest, SdkMoves, RequestGoes
<1> QED BY <1>1 DEF TransportNext, TransportMoves

TpInv ==
  /\ TpTypeOK /\ Numbered /\ Wired /\ WrittenOnce /\ PendingIsAwaited /\ ChannelsTell
  /\ AnswersAreTrue /\ RunsCounted

-----------------------------------------------------------------------------
(* Types *)

\* The bounds of a pool, and the values that stand for nothing.
LEMMA PoolNumbers ==
  /\ MaxPool \in Nat \ {0} /\ MaxReconnects \in Nat /\ 0 \in Conn /\ MaxPool \notin Conn
  /\ Conn \subseteq Nat /\ 0 \notin Session /\ Auth \notin SdkCall /\ Auth \in Requester
  /\ SdkCall \subseteq Requester
  /\ NoRequest \in Request /\ NoReply \in Channel /\ Unopened \in SessionState
BY TransportAssumption
   DEF Conn, Session, Requester, NoRequest, NoReply, Request, Channel, Unopened, SessionState,
       SessionRecord

\* A session that is opened.
LEMMA OpenedState ==
  ASSUME NEW c \in Conn, NEW auth \in BOOLEAN
  PROVE  Opened(c, auth) \in SessionState /\ Opened(c, auth).conn = c
         /\ Opened(c, auth).up = <<>> /\ Opened(c, auth).out = <<>>
         /\ Opened(c, auth).down = <<>>
BY DEF Opened, SessionState, SessionRecord

\* The typed parts, without the sets they are taken from.
LEMMA TpTypeParts ==
  ASSUME TpTypeOK
  PROVE  /\ \A s \in Session : session[s] \in SessionState
         /\ \A k \in SdkCall : call[k] \in CallState /\ call[k].req \in Request
         /\ \A c \in Conn : writer[c] \in Session \cup {0} /\ pending[c] \subseteq Request
                            /\ reqCounter[c] \in Nat
         /\ \A k \in Requester : rx[k] \in Channel
         /\ health.req \in Request /\ health.conn \in Conn
         /\ \A k \in SdkCall : executed[k] \in Nat /\ givenUp[k] \in Nat
<1>1. \A k \in SdkCall : call[k] \in CallState /\ call[k].req \in Request
  BY DEF TpTypeOK, CallState
<1>2. health.req \in Request /\ health.conn \in Conn
  BY DEF TpTypeOK
<1>3. \A c \in Conn : writer[c] \in Session \cup {0} /\ pending[c] \subseteq Request
                       /\ reqCounter[c] \in Nat
  BY DEF TpTypeOK
<1> QED BY <1>1, <1>2, <1>3 DEF TpTypeOK

\* A call tries connections of the pool.
LEMMA ConnOfPool ==
  ASSUME TpTypeOK, NEW k \in SdkCall
  PROVE  ConnOf(k) \in Conn /\ ConnOf(k) < poolSize
<1>1. poolSize \in Nat /\ poolSize > 0 /\ poolSize <= MaxPool /\ MaxPool \in Nat
  BY PoolNumbers DEF TpTypeOK
<1>2. call[k].start + call[k].tries \in Nat
  BY TpTypeParts DEF CallState
<1>3. ConnOf(k) \in 0..(poolSize - 1)
  BY <1>1, <1>2 DEF ConnOf
<1> QED BY <1>1, <1>3 DEF Conn

\* A request leaves the map.
LEMMA ForgetTypes ==
  ASSUME TpTypeOK, NEW r \in Request, Forget(r)
  PROVE  pending' \in [Conn -> SUBSET Request] /\ rx' \in [Requester -> Channel]
BY PoolNumbers DEF Forget, TpTypeOK, Request

\* All the requests of a connection leave the map.
LEMMA FailAllTypes ==
  ASSUME TpTypeOK, NEW c, FailAllPending(c)
  PROVE  pending' \in [Conn -> SUBSET Request] /\ rx' \in [Requester -> Channel]
BY DEF FailAllPending, TpTypeOK, Channel

\* A wire that is written to keeps its type.
LEMMA WrittenTypes ==
  ASSUME TpTypeOK, NEW w \in Session \cup {0}, NEW r \in Request, NEW b \in BOOLEAN,
         session' = [session EXCEPT ![w].up = IF b THEN Append(@, r) ELSE @]
  PROVE  session' \in [Session -> SessionState]
<1>1. CASE w = 0
  <2>1. session' = session
    BY <1>1, PoolNumbers DEF TpTypeOK
  <2> QED BY <2>1 DEF TpTypeOK
<1>2. CASE w \in Session
  <2> DEFINE up == IF b THEN Append(session[w].up, r) ELSE session[w].up
  <2>1. session[w] \in SessionState
    BY <1>2, TpTypeParts
  <2>2. up \in Seq(Request)
    BY <2>1 DEF SessionState, SessionRecord
  <2>3. session' = [session EXCEPT ![w].up = up]
    OBVIOUS
  <2> HIDE DEF up
  <2> DEFINE x == [session[w] EXCEPT !.up = up]
  <2>4. x \in SessionState
    BY <2>1, <2>2 DEF SessionState, SessionRecord
  <2>5. session' = [session EXCEPT ![w] = x]
    BY <2>3
  <2> HIDE DEF x
  <2> QED BY <1>2, <2>4, <2>5 DEF TpTypeOK
<1> QED BY <1>1, <1>2

\* The types are kept by the steps of a call.
LEMMA CallStepTypes ==
  ASSUME TpTypeOK, NEW k \in SdkCall, SdkMoves(k)
  PROVE  TpTypeOK'
<1>1. CASE SdkSend(k)
  <2>1. PICK c \in 0..(poolSize - 1) : call' = [call EXCEPT ![k].at = "trying", ![k].start = c]
    BY <1>1 DEF SdkSend
  <2>2. c \in Nat
    BY PoolNumbers DEF TpTypeOK
  <2>3. call' \in [SdkCall -> CallState]
    <3>1. "trying" \in CallSteps /\ call \in [SdkCall -> CallState]
      BY DEF CallSteps, TpTypeOK
    <3> QED BY <2>1, <2>2, <3>1 DEF CallState
  <2> QED BY <1>1, <2>3 DEF SdkSend, client, counts, TpTypeOK
<1>2. CASE TryConn(k)
  <2> DEFINE c == ConnOf(k)
             r == [conn |-> c, n |-> reqCounter[c] + 1, by |-> k]
  <2>1. c \in Conn /\ reqCounter[c] \in Nat /\ k \in Requester
    BY ConnOfPool, TpTypeParts, PoolNumbers
  <2>5. r \in Request /\ r.n \in Nat
    BY <2>1 DEF Request
  <2>2. \/ call' = [call EXCEPT ![k] = [call[k] EXCEPT !.at = "failed"]]
           /\ UNCHANGED <<pending, reqCounter>>
        \/ call' = [call EXCEPT ![k].tries = @ + 1] /\ UNCHANGED <<pending, reqCounter>>
        \/ /\ reqCounter' = [reqCounter EXCEPT ![c] = r.n]
           /\ pending' = [pending EXCEPT ![c] = @ \cup {r}]
           /\ call' = [call EXCEPT ![k].at = "writing", ![k].req = r]
    BY <1>2 DEF TryConn, TryWith
  <2> HIDE DEF c, r
  <2>3. /\ pending' \in [Conn -> SUBSET Request] /\ reqCounter' \in [Conn -> Nat]
    BY <2>1, <2>5, <2>2 DEF TpTypeOK
  <2>4. call' \in [SdkCall -> CallState]
    <3>1. {"failed", "writing"} \subseteq CallSteps /\ call \in [SdkCall -> CallState]
      BY DEF CallSteps, TpTypeOK
    <3> QED BY <2>5, <2>2, <3>1 DEF CallState
  <2> QED BY <1>2, <2>3, <2>4 DEF TryConn, TryWith, counts, TpTypeOK
<1>3. CASE RequestGoes(k)
  <2>1. session' \in [Session -> SessionState]
    BY <1>3, ConnOfPool, WrittenTypes, TpTypeParts DEF RequestGoes, Writes, Whole
  <2>2. call' \in [SdkCall -> CallState]
    <3>1. PICK then \in {"waiting", "dropped"} : call' = [call EXCEPT ![k].at = then]
      BY <1>3 DEF RequestGoes, Writes
    <3>2. then \in CallSteps /\ call \in [SdkCall -> CallState]
      BY DEF CallSteps, TpTypeOK
    <3> QED BY <3>1, <3>2 DEF CallState
  <2>3. UNCHANGED <<client, rx, health, counts>>
    BY <1>3 DEF RequestGoes, Writes
  <2> QED BY <2>1, <2>2, <2>3 DEF client, counts, TpTypeOK
<1>4. CASE WriteFails(k)
  <2>1. pending' \in [Conn -> SUBSET Request] /\ rx' \in [Requester -> Channel]
    BY <1>4, TpTypeParts, ForgetTypes DEF WriteFails
  <2> QED BY <1>4, <2>1 DEF WriteFails, counts, TpTypeOK, CallSteps, CallState
<1>5. CASE Receive(k)
  BY <1>5 DEF Receive, client, counts, TpTypeOK, CallSteps, CallState
<1>6. CASE CallTimeout(k)
  <2>1. pending' \in [Conn -> SUBSET Request] /\ rx' \in [Requester -> Channel]
    BY <1>6, TpTypeParts, ForgetTypes DEF CallTimeout, GiveUp
  <2> QED BY <1>6, <2>1 DEF CallTimeout, GiveUp, TpTypeOK, CallSteps, CallState
<1>7. CASE Leaves(k)
  BY <1>7 DEF Leaves, client, counts, TpTypeOK, CallSteps, CallState
<1> QED BY <1>1, <1>2, <1>3, <1>4, <1>5, <1>6, <1>7 DEF SdkMoves

\* A sequence cut short has only what it had.
LEMMA FrontHolds ==
  ASSUME NEW S, NEW q \in Seq(S), NEW f \in FrontsOf(q)
  PROVE  f \in Seq(S) /\ ToSet(f) \subseteq ToSet(q) /\ (NoneTwice(q) => NoneTwice(f))
<1>1. PICK n \in 0..Len(q) : f = SubSeq(q, 1, n)
  BY DEF FrontsOf
<1>2. /\ f \in Seq(S) /\ DOMAIN f = 1..n /\ DOMAIN q = 1..Len(q) /\ n <= Len(q) /\ n \in Nat
      /\ Len(q) \in Nat /\ \A i \in 1..n : f[i] = q[i]
  BY <1>1
<1> QED BY <1>2 DEF ToSet, NoneTwice

\* A sequence of answers that is lengthened by another.
LEMMA ConcatHolds ==
  ASSUME NEW S, NEW p \in Seq(S), NEW q \in Seq(S)
  PROVE  p \o q \in Seq(S) /\ ToSet(p \o q) = ToSet(p) \cup ToSet(q)
<1>1. /\ p \o q \in Seq(S) /\ DOMAIN (p \o q) = 1..(Len(p) + Len(q))
      /\ DOMAIN p = 1..Len(p) /\ DOMAIN q = 1..Len(q) /\ Len(p) \in Nat /\ Len(q) \in Nat
      /\ \A i \in 1..Len(p) : (p \o q)[i] = p[i]
      /\ \A i \in 1..Len(q) : (p \o q)[Len(p) + i] = q[i]
  OBVIOUS
<1>2. ToSet(p \o q) \subseteq ToSet(p) \cup ToSet(q)
  <2> SUFFICES ASSUME NEW i \in 1..(Len(p) + Len(q))
               PROVE  (p \o q)[i] \in ToSet(p) \cup ToSet(q)
    BY <1>1 DEF ToSet
  <2>1. CASE i <= Len(p)
    BY <1>1, <2>1 DEF ToSet
  <2>2. CASE i > Len(p)
    <3>1. i - Len(p) \in 1..Len(q) /\ Len(p) + (i - Len(p)) = i
      BY <1>1, <2>2
    <3> QED BY <1>1, <3>1 DEF ToSet
  <2> QED BY <1>1, <2>1, <2>2
<1>3. ToSet(p) \subseteq ToSet(p \o q)
  BY <1>1 DEF ToSet
<1>4. ToSet(q) \subseteq ToSet(p \o q)
  <2> SUFFICES ASSUME NEW i \in 1..Len(q) PROVE q[i] \in ToSet(p \o q)
    BY <1>1 DEF ToSet
  <2>1. Len(p) + i \in 1..(Len(p) + Len(q))
    BY <1>1
  <2> QED BY <1>1, <2>1 DEF ToSet
<1> QED BY <1>1, <1>2, <1>3, <1>4

\* A head leaves a sequence without repetitions for good.
LEMMA HeadLeavesForGood ==
  ASSUME NEW S, NEW q \in Seq(S), q # <<>>, NoneTwice(q)
  PROVE  NoneTwice(Tail(q)) /\ Head(q) \notin ToSet(Tail(q))
<1>1. /\ Head(q) = q[1] /\ Len(q) \in Nat /\ Len(q) >= 1 /\ DOMAIN q = 1..Len(q)
      /\ DOMAIN Tail(q) = 1..(Len(q) - 1)
      /\ \A i \in 1..(Len(q) - 1) : Tail(q)[i] = q[i + 1]
  <2>1. Tail(q) \in Seq(S) /\ Len(Tail(q)) = Len(q) - 1
    OBVIOUS
  <2> QED BY <2>1
<1>2. \A i \in 1..(Len(q) - 1) : i + 1 \in 1..Len(q) /\ i + 1 # 1
  BY <1>1
<1>3. \A i, j \in 1..Len(q) : q[i] = q[j] => i = j
  BY <1>1 DEF NoneTwice
<1>4. NoneTwice(Tail(q))
  <2> SUFFICES ASSUME NEW i \in 1..(Len(q) - 1), NEW j \in 1..(Len(q) - 1),
                      Tail(q)[i] = Tail(q)[j]
               PROVE  i = j
    BY <1>1 DEF NoneTwice
  <2>1. q[i + 1] = q[j + 1]
    BY <1>1
  <2>2. i + 1 = j + 1
    BY <1>2, <1>3, <2>1
  <2> QED BY <1>1, <2>2
<1>5. Head(q) \notin ToSet(Tail(q))
  <2> SUFFICES ASSUME NEW i \in 1..(Len(q) - 1), Tail(q)[i] = q[1] PROVE FALSE
    BY <1>1 DEF ToSet
  <2>1. q[i + 1] = q[1] /\ 1 \in 1..Len(q)
    BY <1>1
  <2> QED BY <1>2, <1>3, <2>1
<1> QED BY <1>4, <1>5

\* A new element keeps a sequence without repetitions.
LEMMA AppendedOnce ==
  ASSUME NEW S, NEW q \in Seq(S), NEW x \in S, NoneTwice(q), x \notin ToSet(q)
  PROVE  NoneTwice(Append(q, x))
<1>1. /\ DOMAIN Append(q, x) = 1..(Len(q) + 1) /\ DOMAIN q = 1..Len(q) /\ Len(q) \in Nat
      /\ \A i \in 1..Len(q) : Append(q, x)[i] = q[i] /\ q[i] # x
      /\ Append(q, x)[Len(q) + 1] = x
  BY DEF ToSet
<1>2. \A i \in 1..(Len(q) + 1) : i \in 1..Len(q) \/ i = Len(q) + 1
  BY <1>1
<1> QED BY <1>1, <1>2 DEF NoneTwice

\* What the server reads at the head of a wire, and what it answers.
Request1(s) == Head(session[s].up)
AnswerTo(s) == [req |-> Request1(s),
                what |-> IF Allowed(s, Request1(s)) THEN "ok" ELSE "refused"]

\* The server reads one request of one wire and writes one answer at most.
LEMMA ServeMoves ==
  ASSUME TpTypeOK, NEW s \in Session, Serve(s)
  PROVE  /\ Request1(s) \in Request /\ Request1(s) \in Up(s) /\ AnswerTo(s) \in Answer
         /\ session' \in [Session -> SessionState]
         /\ \A t \in Session \ {s} : session'[t] = session[t]
         /\ session'[s].conn = session[s].conn
         /\ Up(s)' \subseteq Up(s) /\ Answers(s)' \subseteq Answers(s) \cup {AnswerTo(s)}
         /\ NoneTwice(session[s].up) => NoneTwice(session'[s].up) /\ Request1(s) \notin Up(s)'
<1> DEFINE x == session[s]
           a == AnswerTo(s)
<1>1. x \in SessionState /\ x.up # <<>>
  BY TpTypeParts DEF Serve, ServeWith
<1>2. /\ x.up \in Seq(Request) /\ x.out \in Seq(Answer) /\ x.down \in Seq(Answer)
      /\ x.authenticated \in BOOLEAN /\ x.alive \in BOOLEAN
  BY <1>1 DEF SessionState, SessionRecord
<1>3. /\ Request1(s) \in Request /\ Request1(s) \in Up(s) /\ Tail(x.up) \in Seq(Request)
      /\ ToSet(Tail(x.up)) \subseteq Up(s)
  <2> HIDE DEF x
  <2>1. Head(x.up) \in Request /\ Tail(x.up) \in Seq(Request)
        /\ ToSet(x.up) = ToSet(Tail(x.up)) \cup {Head(x.up)}
    BY <1>1, <1>2, HeadLeaves
  <2> QED BY <2>1 DEF x, Request1, Up
<1>4. a \in Answer
  BY <1>3 DEF AnswerTo, Answer
<1>5. PICK flush \in BOOLEAN, ends \in BOOLEAN :
        session' = [session EXCEPT
          ![s].authenticated = @ \/ Request1(s).by = Auth,
          ![s].up = IF ends THEN <<>> ELSE Tail(x.up),
          ![s].out = IF flush THEN <<>> ELSE Append(@, a),
          ![s].down = IF flush /\ session[s].alive THEN @ \o Append(session[s].out, a) ELSE @]
  BY DEF Serve, ServeWith, Request1, AnswerTo
<1> DEFINE auth == x.authenticated \/ Request1(s).by = Auth
           up == IF ends THEN <<>> ELSE Tail(x.up)
           out == IF flush THEN <<>> ELSE Append(x.out, a)
           down == IF flush /\ x.alive THEN x.down \o Append(x.out, a) ELSE x.down
<1>6. /\ \A t \in Session \ {s} : session'[t] = session[t]
      /\ session'[s] = [x EXCEPT !.authenticated = auth, !.up = up, !.out = out, !.down = down]
      /\ session' \in [Session -> SessionState] <=> session'[s] \in SessionState
  <2>1. session \in [Session -> SessionState]
    BY DEF TpTypeOK
  <2> QED BY <1>5, <2>1
<1> HIDE DEF a
<1>7. /\ Append(x.out, a) \in Seq(Answer) /\ ToSet(Append(x.out, a)) = ToSet(x.out) \cup {a}
      /\ x.down \o Append(x.out, a) \in Seq(Answer)
      /\ ToSet(x.down \o Append(x.out, a)) = ToSet(x.down) \cup ToSet(x.out) \cup {a}
  <2> HIDE DEF x
  <2>1. Append(x.out, a) \in Seq(Answer) /\ ToSet(Append(x.out, a)) = ToSet(x.out) \cup {a}
    BY <1>2, <1>4, AppendJoins
  <2>2. \A p, q \in Seq(Answer) :
          p \o q \in Seq(Answer) /\ ToSet(p \o q) = ToSet(p) \cup ToSet(q)
    BY ConcatHolds
  <2>3. Append(x.out, a) \in Seq(Answer) /\ x.down \in Seq(Answer)
    BY <1>2, <2>1
  <2> DEFINE b == Append(x.out, a)
  <2> HIDE DEF b
  <2>4. ToSet(b) = ToSet(x.out) \cup {a} /\ b \in Seq(Answer)
    BY <2>1 DEF b
  <2>5. x.down \o b \in Seq(Answer) /\ ToSet(x.down \o b) = ToSet(x.down) \cup ToSet(b)
    BY <2>2, <2>3, <2>4
  <2> QED BY <2>4, <2>5 DEF b
<1>8. ToSet(<<>>) = {} /\ NoneTwice(<<>>)
  BY DEF ToSet, NoneTwice
<1>9. auth \in BOOLEAN /\ up \in Seq(Request) /\ out \in Seq(Answer) /\ down \in Seq(Answer)
  BY <1>2, <1>3, <1>7
<1>10. ToSet(up) \subseteq ToSet(Tail(x.up))
  BY <1>8
<1>11. ToSet(out) \subseteq ToSet(x.out) \cup {a}
       /\ ToSet(down) \subseteq ToSet(x.down) \cup ToSet(x.out) \cup {a}
  BY <1>7, <1>8
<1>12. NoneTwice(x.up) => NoneTwice(up) /\ Request1(s) \notin ToSet(up)
  <2> HIDE DEF x
  <2>1. NoneTwice(x.up) => NoneTwice(Tail(x.up)) /\ Head(x.up) \notin ToSet(Tail(x.up))
    BY <1>1, <1>2, HeadLeavesForGood
  <2> QED BY <2>1, <1>8 DEF Request1, x
<1> HIDE DEF auth, up, out, down
<1>13. /\ session'[s] \in SessionState /\ session'[s].conn = x.conn /\ session'[s].up = up
       /\ session'[s].out = out /\ session'[s].down = down
  BY <1>1, <1>6, <1>9 DEF SessionState, SessionRecord
<1> QED BY <1>3, <1>4, <1>6, <1>10, <1>11, <1>12, <1>13 DEF Up, Answers, a

\* Sessions whose wires only lose what they carry.
Losing ==
  /\ session' \in [Session -> SessionState]
  /\ \A t \in Session :
       /\ Up(t)' \subseteq Up(t) /\ Answers(t)' \subseteq Answers(t)
       /\ NoneTwice(session[t].up) => NoneTwice(session'[t].up)

\* A session takes the place of another with less on its wires.
LEMMA LosingOne ==
  ASSUME TpTypeOK, NEW s \in Session, NEW x \in SessionState,
         session' = [session EXCEPT ![s] = x],
         ToSet(x.up) \subseteq Up(s), ToSet(x.out) \cup ToSet(x.down) \subseteq Answers(s),
         NoneTwice(session[s].up) => NoneTwice(x.up)
  PROVE  Losing
<1>1. \A t \in Session : session'[t] = IF t = s THEN x ELSE session[t]
  BY DEF TpTypeOK
<1>2. session' \in [Session -> SessionState]
  BY DEF TpTypeOK
<1> QED BY <1>1, <1>2 DEF Losing, Up, Answers

\* Nothing happens to the sessions.
LEMMA LosingNothing ==
  ASSUME TpTypeOK, UNCHANGED session
  PROVE  Losing
BY DEF TpTypeOK, Losing, Up, Answers

\* A wire breaks and loses what was at its ends.
LEMMA BreakLoses ==
  ASSUME TpTypeOK, NEW s \in Session, Break(s)
  PROVE  Losing /\ \A t \in Session : session'[t].conn = session[t].conn
<1>1. PICK up \in FrontsOf(session[s].up), down \in FrontsOf(session[s].down) :
        session' = [session EXCEPT ![s].alive = FALSE, ![s].up = up, ![s].down = down]
  BY DEF Break
<1>2. session[s] \in SessionState /\ session[s].up \in Seq(Request)
      /\ session[s].down \in Seq(Answer)
  BY TpTypeParts DEF SessionState, SessionRecord
<1>3. up \in Seq(Request) /\ ToSet(up) \subseteq ToSet(session[s].up)
      /\ (NoneTwice(session[s].up) => NoneTwice(up))
  BY <1>1, <1>2, FrontHolds
<1>4. down \in Seq(Answer) /\ ToSet(down) \subseteq ToSet(session[s].down)
  BY <1>1, <1>2, FrontHolds
<1> DEFINE x == [session[s] EXCEPT !.alive = FALSE, !.up = up, !.down = down]
<1>5. x \in SessionState /\ x.up = up /\ x.down = down /\ x.out = session[s].out
      /\ x.conn = session[s].conn
  BY <1>2, <1>3, <1>4 DEF SessionState, SessionRecord
<1>6. session' = [session EXCEPT ![s] = x]
  BY <1>1
<1> HIDE DEF x
<1>7. Losing
  BY <1>3, <1>4, <1>5, <1>6, LosingOne DEF Up, Answers
<1> QED BY <1>5, <1>6, <1>7 DEF TpTypeOK

\* A reader takes an answer off the wire.
LEMMA DispatchLoses ==
  ASSUME TpTypeOK, NEW s \in Session, Dispatch(s)
  PROVE  /\ Losing /\ \A t \in Session : session'[t].conn = session[t].conn
         /\ Head(session[s].down) \in Answers(s) /\ Head(session[s].down) \in Answer
<1>1. session' = [session EXCEPT ![s].down = Tail(@)] /\ session[s].down # <<>>
  BY DEF Dispatch
<1>2. session[s] \in SessionState /\ session[s].down \in Seq(Answer)
  BY TpTypeParts DEF SessionState, SessionRecord
<1> DEFINE down == Tail(session[s].down)
<1>3. down \in Seq(Answer) /\ Head(session[s].down) \in Answer
      /\ ToSet(session[s].down) = ToSet(down) \cup {Head(session[s].down)}
  BY <1>1, <1>2, HeadLeaves
<1> HIDE DEF down
<1> DEFINE x == [session[s] EXCEPT !.down = down]
<1>4. x \in SessionState /\ x.up = session[s].up /\ x.down = down /\ x.out = session[s].out
      /\ x.conn = session[s].conn
  BY <1>2, <1>3 DEF SessionState, SessionRecord
<1>5. session' = [session EXCEPT ![s] = x]
  BY <1>1 DEF down
<1> HIDE DEF x
<1>6. Losing
  BY <1>3, <1>4, <1>5, LosingOne DEF Up, Answers
<1> QED BY <1>3, <1>4, <1>5, <1>6 DEF TpTypeOK, Answers

\* A reader ends.
LEMMA ReaderEndsLoses ==
  ASSUME TpTypeOK, NEW s \in Session, ReaderEnds(s)
  PROVE  Losing /\ \A t \in Session : session'[t].conn = session[t].conn
<1>1. session' = [session EXCEPT ![s].reader = FALSE] /\ session[s] \in SessionState
  BY TpTypeParts DEF ReaderEnds
<1> DEFINE x == [session[s] EXCEPT !.reader = FALSE]
<1>2. x \in SessionState /\ x.up = session[s].up /\ x.down = session[s].down
      /\ x.out = session[s].out /\ x.conn = session[s].conn
  BY <1>1 DEF SessionState, SessionRecord
<1>3. session' = [session EXCEPT ![s] = x]
  BY <1>1
<1> HIDE DEF x
<1>4. Losing
  BY <1>2, <1>3, LosingOne DEF Up, Answers
<1> QED BY <1>2, <1>3, <1>4 DEF TpTypeOK

\* The health checker closes a connection.
LEMMA AuthFailsLoses ==
  ASSUME TpTypeOK, AuthFails
  PROVE  Losing /\ \A t \in Session : session'[t].conn = session[t].conn
<1> DEFINE s == writer[health.conn]
           none == <<>>
           x == [session[s] EXCEPT !.alive = FALSE, !.reader = FALSE, !.down = none]
<1>1. s \in Session \cup {0} /\ session' = [session EXCEPT ![s] = x]
  BY TpTypeParts DEF AuthFails
<1>4. none \in Seq(Answer) /\ ToSet(none) = {}
  BY DEF ToSet
<1> HIDE DEF none
<1>2. CASE s \in Session
  <2>1. session[s] \in SessionState
    BY <1>2, TpTypeParts
  <2>2. /\ x \in SessionState /\ x.up = session[s].up /\ x.down = none
        /\ x.out = session[s].out /\ x.conn = session[s].conn
    BY <1>4, <2>1 DEF SessionState, SessionRecord
  <2> HIDE DEF x
  <2>4. Losing
    BY <1>1, <1>2, <1>4, <2>2, LosingOne DEF Up, Answers
  <2> QED BY <1>1, <1>2, <2>2, <2>4 DEF TpTypeOK
<1>3. CASE s = 0
  <2>1. session' = session
    BY <1>1, <1>3, PoolNumbers DEF TpTypeOK
  <2> QED BY <2>1, LosingNothing
<1> QED BY <1>1, <1>2, <1>3

\* A new session has its connection, and what was there before was nothing.
LEMMA ReconnectOpens ==
  ASSUME TpTypeOK, Reconnect
  PROVE  \E c \in Conn, s \in Session :
           /\ ~connected[c] /\ session[s] = Unopened
           /\ writer' = [writer EXCEPT ![c] = s] /\ connected' = [connected EXCEPT ![c] = TRUE]
           /\ session' = [session EXCEPT ![s] = Opened(c, FALSE)]
           /\ health' = [health EXCEPT !.at = "auth", !.conn = c]
           /\ reqCounter' = reqCounter
           /\ UNCHANGED <<poolSize, pending, call, rx, counts>>
           /\ Losing
<1>1. PICK c \in 0..(poolSize - 1), s \in Unused :
        /\ ~connected[c]
        /\ writer' = [writer EXCEPT ![c] = s] /\ connected' = [connected EXCEPT ![c] = TRUE]
        /\ reqCounter' = [reqCounter EXCEPT ![c] = reqCounter[c]]
        /\ session' = [session EXCEPT ![s] = Opened(c, FALSE)]
        /\ health' = [health EXCEPT !.at = "auth", !.conn = c]
  BY DEF Reconnect, Reconnected
<1>2. c \in Conn /\ s \in Session /\ session[s] = Unopened
  BY PoolNumbers DEF TpTypeOK, Conn, Session, Unused
<1>3. reqCounter' = reqCounter
  BY <1>1, <1>2 DEF TpTypeOK
<1>4. Losing
  <2> DEFINE x == Opened(c, FALSE)
  <2>1. x \in SessionState /\ x.up = <<>> /\ x.out = <<>> /\ x.down = <<>>
    BY <1>2, OpenedState
  <2>2. ToSet(<<>>) = {} /\ NoneTwice(<<>>)
    BY DEF ToSet, NoneTwice
  <2>3. session' = [session EXCEPT ![s] = x]
    BY <1>1
  <2> HIDE DEF x
  <2> QED BY <1>2, <2>1, <2>2, <2>3, LosingOne
<1> QED BY <1>1, <1>2, <1>3, <1>4 DEF Reconnect, Reconnected

\* AUTH is written to the new session, if it still stands.
AuthRequest ==
  [conn |-> health.conn, n |-> reqCounter[health.conn] + 1, by |-> Auth]

\* It is a request of the checker's connection.
LEMMA AuthRequestTyped ==
  ASSUME TpTypeOK
  PROVE  AuthRequest \in Request /\ AuthRequest.n = reqCounter[health.conn] + 1
         /\ AuthRequest.conn = health.conn /\ AuthRequest.by = Auth
         /\ health.conn \in Conn
<1>1. health.conn \in Conn /\ Auth \in Requester
  BY TpTypeParts, PoolNumbers
<1>2. reqCounter[health.conn] + 1 \in Nat
  BY <1>1, TpTypeParts
<1> QED BY <1>1, <1>2 DEF AuthRequest, Request

\* What sending AUTH does.
LEMMA SendAuthDoes ==
  ASSUME TpTypeOK, SendAuth
  PROVE  /\ reqCounter' = [reqCounter EXCEPT ![health.conn] = AuthRequest.n]
         /\ pending' = [pending EXCEPT ![health.conn] = @ \cup {AuthRequest}]
         /\ health' = [health EXCEPT !.at = "auth_wait", !.req = AuthRequest]
         /\ rx' = [rx EXCEPT ![Auth] = NoReply]
         /\ UNCHANGED <<poolSize, writer, connected, call, counts>>
         /\ \E b \in BOOLEAN :
              session' = [session EXCEPT ![writer[health.conn]].up =
                            IF b THEN Append(@, AuthRequest) ELSE @]
<1>1. /\ reqCounter' = [reqCounter EXCEPT ![health.conn] = AuthRequest.n]
      /\ pending' = [pending EXCEPT ![health.conn] = @ \cup {AuthRequest}]
      /\ health' = [health EXCEPT !.at = "auth_wait", !.req = AuthRequest]
      /\ rx' = [rx EXCEPT ![Auth] = NoReply]
      /\ UNCHANGED <<poolSize, writer, connected, call, counts>>
      /\ session' = [session EXCEPT ![writer[health.conn]].up =
                       IF session[writer[health.conn]].alive
                         THEN Append(@, AuthRequest) ELSE @]
  BY DEF SendAuth, AuthRequest
<1>2. CASE writer[health.conn] \in Session
  <2>1. session[writer[health.conn]].alive \in BOOLEAN
    BY <1>2, TpTypeParts DEF SessionState, SessionRecord
  <2> QED BY <1>1, <2>1
<1>3. CASE writer[health.conn] = 0
  <2>1. session' = session
    BY <1>1, <1>3, PoolNumbers DEF TpTypeOK
  <2>2. session = [session EXCEPT ![writer[health.conn]].up =
                     IF TRUE THEN Append(@, AuthRequest) ELSE @]
    BY <1>3, PoolNumbers DEF TpTypeOK
  <2> QED BY <1>1, <2>1, <2>2
<1> QED BY <1>1, <1>2, <1>3, TpTypeParts

\* The types are kept by the other steps.
LEMMA ServerStepTypes ==
  ASSUME TpTypeOK,
         \/ \E s \in Session : Serve(s) \/ Break(s) \/ Dispatch(s) \/ ReaderEnds(s)
         \/ Reconnect \/ SendAuth \/ AuthAnswered \/ AuthFails
  PROVE  TpTypeOK'
<1>1. ASSUME NEW s \in Session, Serve(s) PROVE TpTypeOK'
  <2>1. session' \in [Session -> SessionState]
    BY <1>1, ServeMoves
  <2>2. executed' \in [SdkCall -> Nat]
    <3>1. \/ executed' = executed
          \/ /\ Request1(s).by # Auth
             /\ executed' = [executed EXCEPT ![Request1(s).by] = @ + 1]
      BY <1>1 DEF Serve, ServeWith, Request1
    <3>2. Request1(s).by \in SdkCall \cup {Auth}
      BY <1>1, ServeMoves DEF Request, Requester
    <3> QED BY <3>1, <3>2 DEF TpTypeOK
  <2> QED BY <1>1, <2>1, <2>2 DEF Serve, ServeWith, client, TpTypeOK
<1>2. ASSUME NEW s \in Session, Break(s) PROVE TpTypeOK'
  <2>1. session' \in [Session -> SessionState]
    BY <1>2, BreakLoses DEF Losing
  <2> QED BY <1>2, <2>1 DEF Break, client, counts, TpTypeOK
<1>3. ASSUME NEW s \in Session, Dispatch(s) PROVE TpTypeOK'
  <2> DEFINE a == Head(session[s].down)
             c == session[s].conn
             waiting == {r \in pending[c] : r.n = a.req.n}
  <2>1. session' \in [Session -> SessionState] /\ a \in Answer
    BY <1>3, DispatchLoses DEF Losing
  <2>2. /\ pending' = [pending EXCEPT ![c] = @ \ waiting]
        /\ rx' = [k \in Requester |-> IF \E r \in waiting : r.by = k
                                        THEN [what |-> a.what, of |-> a.req.by] ELSE rx[k]]
    BY <1>3 DEF Dispatch
  <2>3. [what |-> a.what, of |-> a.req.by] \in Channel
    BY <2>1 DEF Answer, Request, Channel
  <2> HIDE DEF a, waiting
  <2>4. pending' \in [Conn -> SUBSET Request] /\ rx' \in [Requester -> Channel]
    BY <2>2, <2>3 DEF TpTypeOK
  <2> QED BY <1>3, <2>1, <2>4 DEF Dispatch, counts, TpTypeOK
<1>4. ASSUME NEW s \in Session, ReaderEnds(s) PROVE TpTypeOK'
  <2>1. session' \in [Session -> SessionState]
    BY <1>4, ReaderEndsLoses DEF Losing
  <2>2. pending' \in [Conn -> SUBSET Request] /\ rx' \in [Requester -> Channel]
    BY <1>4, FailAllTypes DEF ReaderEnds
  <2> QED BY <1>4, <2>1, <2>2 DEF ReaderEnds, counts, TpTypeOK
<1>5. ASSUME Reconnect PROVE TpTypeOK'
  <2>1. PICK c \in Conn, s \in Session :
          /\ writer' = [writer EXCEPT ![c] = s] /\ connected' = [connected EXCEPT ![c] = TRUE]
          /\ health' = [health EXCEPT !.at = "auth", !.conn = c]
          /\ reqCounter' = reqCounter
          /\ UNCHANGED <<poolSize, pending, call, rx, counts>>
          /\ Losing
    BY <1>5, ReconnectOpens
  <2> QED BY <2>1 DEF counts, Losing, TpTypeOK
<1>6. ASSUME SendAuth PROVE TpTypeOK'
  <2>1. PICK b \in BOOLEAN :
          /\ reqCounter' = [reqCounter EXCEPT ![health.conn] = AuthRequest.n]
          /\ pending' = [pending EXCEPT ![health.conn] = @ \cup {AuthRequest}]
          /\ health' = [health EXCEPT !.at = "auth_wait", !.req = AuthRequest]
          /\ rx' = [rx EXCEPT ![Auth] = NoReply]
          /\ UNCHANGED <<poolSize, writer, connected, call, counts>>
          /\ session' = [session EXCEPT ![writer[health.conn]].up =
                           IF b THEN Append(@, AuthRequest) ELSE @]
    BY <1>6, SendAuthDoes
  <2>2. AuthRequest \in Request /\ AuthRequest.n \in Nat /\ health.conn \in Conn
    BY AuthRequestTyped DEF Request
  <2>3. session' \in [Session -> SessionState]
    BY <2>1, <2>2, TpTypeParts, WrittenTypes
  <2>4. /\ pending' \in [Conn -> SUBSET Request] /\ reqCounter' \in [Conn -> Nat]
        /\ rx' \in [Requester -> Channel]
    BY <2>1, <2>2, PoolNumbers DEF TpTypeOK
  <2>5. health' \in [at : {"idle", "auth", "auth_wait"}, conn : Conn, req : Request]
    BY <2>1, <2>2 DEF TpTypeOK
  <2> QED BY <2>1, <2>3, <2>4, <2>5 DEF counts, TpTypeOK
<1>7. ASSUME AuthAnswered PROVE TpTypeOK'
  BY <1>7, PoolNumbers DEF AuthAnswered, client, counts, TpTypeOK
<1>8. ASSUME AuthFails PROVE TpTypeOK'
  <2>1. session' \in [Session -> SessionState]
    BY <1>8, AuthFailsLoses DEF Losing
  <2>2. pending' \in [Conn -> SUBSET Request] /\ rx' \in [Requester -> Channel]
    BY <1>8, FailAllTypes DEF AuthFails
  <2>3. health' \in [at : {"idle", "auth", "auth_wait"}, conn : Conn, req : Request]
    BY <1>8, PoolNumbers DEF AuthFails, TpTypeOK
  <2>4. connected' \in [Conn -> BOOLEAN] /\ writer' \in [Conn -> Session \cup {0}]
    BY <1>8 DEF AuthFails, TpTypeOK
  <2> QED BY <1>8, <2>1, <2>2, <2>3, <2>4 DEF AuthFails, counts, TpTypeOK
<1> QED BY <1>1, <1>2, <1>3, <1>4, <1>5, <1>6, <1>7, <1>8

\* The types are kept by every step.
LEMMA TpTypeStep == TpTypeOK /\ [TransportMoves]_transportVars => TpTypeOK'
<1> SUFFICES ASSUME TpTypeOK, [TransportMoves]_transportVars PROVE TpTypeOK'
  OBVIOUS
<1>1. CASE UNCHANGED transportVars
  BY <1>1 DEF transportVars, client, counts, TpTypeOK
<1>2. CASE TransportMoves
  BY <1>2, CallStepTypes, ServerStepTypes DEF TransportMoves
<1> QED BY <1>1, <1>2

-----------------------------------------------------------------------------
(* Requests are told apart *)

\* What a wire carries after it was written to.
LEMMA WrittenWires ==
  ASSUME TpTypeOK, NEW w \in Session \cup {0}, NEW r \in Request, NEW b \in BOOLEAN,
         session' = [session EXCEPT ![w].up = IF b THEN Append(@, r) ELSE @]
  PROVE  \A t \in Session :
           /\ Answers(t)' = Answers(t) /\ session'[t].conn = session[t].conn
           /\ Up(t)' = Up(t) \/ (t = w /\ Up(t)' = Up(t) \cup {r})
           /\ NoneTwice(session[t].up) /\ r \notin Up(t) => NoneTwice(session'[t].up)
<1> SUFFICES ASSUME NEW t \in Session
             PROVE  /\ Answers(t)' = Answers(t) /\ session'[t].conn = session[t].conn
                    /\ Up(t)' = Up(t) \/ (t = w /\ Up(t)' = Up(t) \cup {r})
                    /\ NoneTwice(session[t].up) /\ r \notin Up(t)
                         => NoneTwice(session'[t].up)
  OBVIOUS
<1>1. session[t] \in SessionState /\ session[t].up \in Seq(Request)
  BY TpTypeParts DEF SessionState, SessionRecord
<1>2. CASE t = w /\ b
  <2> DEFINE up == Append(session[t].up, r)
  <2>1. /\ ToSet(up) = ToSet(session[t].up) \cup {r}
        /\ NoneTwice(session[t].up) /\ r \notin ToSet(session[t].up) => NoneTwice(up)
    BY <1>1, AppendJoins, AppendedOnce
  <2>2. session' = [session EXCEPT ![t].up = up]
    BY <1>2
  <2> HIDE DEF up
  <2>3. /\ session'[t].up = up /\ session'[t].out = session[t].out
        /\ session'[t].down = session[t].down /\ session'[t].conn = session[t].conn
    BY <1>1, <2>2 DEF TpTypeOK, SessionState, SessionRecord
  <2> QED BY <1>2, <2>1, <2>3 DEF Up, Answers
<1>3. CASE ~(t = w /\ b)
  <2>1. session'[t].up = session[t].up /\ session'[t].out = session[t].out
        /\ session'[t].down = session[t].down /\ session'[t].conn = session[t].conn
    BY <1>1, <1>3 DEF TpTypeOK, SessionState, SessionRecord
  <2> QED BY <2>1 DEF Up, Answers
<1> QED BY <1>2, <1>3

\* No request is made but those there are.
NoneMade == \A r \in Request : Made(r)' => Made(r)
OneMade(q) == \A r \in Request : Made(r)' => Made(r) \/ r = q

\* Where requests are to be found after a step.
WiresHold == \A r \in Request : SentUp(r)' \/ Served(r)' => Made(r)
MapsHold == \A c \in Conn : pending'[c] \subseteq pending[c]
CallsHold == \A k \in SdkCall : call'[k].req = call[k].req
HealthHolds == health'.req \in {health.req, NoRequest}

\* A step that puts nothing new anywhere makes no request.
LEMMA NoneMadeParts ==
  ASSUME WiresHold, MapsHold, CallsHold, HealthHolds
  PROVE  NoneMade
<1>1. \A r \in Request : Awaited(r)' => Awaited(r)
  BY DEF MapsHold, Awaited
<1>2. \A r \in Request : Held(r)' => Held(r)
  BY DEF CallsHold, HealthHolds, Held
<1> QED BY <1>1, <1>2 DEF WiresHold, NoneMade, Made

\* Wires that lose what they carry carry nothing new.
LEMMA LosingHolds ==
  ASSUME Losing
  PROVE  WiresHold
BY DEF Losing, WiresHold, SentUp, Served, Made

\* Numbers stay apart when none is given.
LEMMA NumberedKept ==
  ASSUME Numbered, NoneMade, UNCHANGED reqCounter
  PROVE  Numbered'
BY DEF Numbered, NoneMade

\* A new request takes the next number of its connection.
LEMMA NumberedMore ==
  ASSUME TpTypeOK, Numbered, NEW q \in Request, q.n = reqCounter[q.conn] + 1, OneMade(q),
         reqCounter' = [reqCounter EXCEPT ![q.conn] = q.n]
  PROVE  Numbered'
<1>1. q.conn \in Conn /\ q.n \in Nat /\ \A c \in Conn : reqCounter[c] \in Nat
  BY TpTypeParts DEF Request
<1>2. \A c \in Conn : reqCounter'[c] = IF c = q.conn THEN q.n ELSE reqCounter[c]
  BY <1>1 DEF TpTypeOK
<1>3. \A r \in Request : r.conn \in Conn /\ r.n \in Nat
  BY DEF Request
<1>4. \A r \in Request : Made(r) => 1 <= r.n /\ r.n <= reqCounter[r.conn]
  BY DEF Numbered
<1>5. \A r \in Request : Made(r)' => 1 <= r.n /\ r.n <= reqCounter'[r.conn]
  <2> SUFFICES ASSUME NEW r \in Request, Made(r)'
               PROVE  1 <= r.n /\ r.n <= reqCounter'[r.conn]
    OBVIOUS
  <2>1. CASE r = q
    BY <1>1, <1>2, <2>1
  <2>2. CASE Made(r)
    BY <1>1, <1>2, <1>3, <1>4, <2>2
  <2> QED BY <2>1, <2>2 DEF OneMade
<1>6. \A r \in Request : Made(r) /\ r.conn = q.conn => r.n # q.n
  BY <1>1, <1>3, <1>4
<1> QED BY <1>5, <1>6 DEF Numbered, OneMade

\* A request that was made is not the one that stands for nothing.
LEMMA MadeIsSome ==
  ASSUME Numbered, NEW r \in Request, Made(r)
  PROVE  r # NoRequest
BY DEF Numbered, NoRequest

\* A call that writes has made its request.
LEMMA WritingIsHeld ==
  ASSUME TpTypeOK, ChannelsTell, NEW k \in SdkCall, call[k].at = "writing"
  PROVE  call[k].req \in Request /\ Made(call[k].req) /\ call[k].req.by = k
<1>1. call[k].req \in Request /\ call[k].req.by = k /\ k # Auth
  BY TpTypeParts, PoolNumbers DEF ChannelsTell, ChannelsOfCalls
<1> QED BY <1>1 DEF NoRequest, Made, Held

\* A call tries the next connection: it fails, goes on, or makes a request.
NextRequest(k) == [conn |-> ConnOf(k), n |-> reqCounter[ConnOf(k)] + 1, by |-> k]
Asks(k) ==
  /\ reqCounter' = [reqCounter EXCEPT ![ConnOf(k)] = NextRequest(k).n]
  /\ pending' = [pending EXCEPT ![ConnOf(k)] = @ \cup {NextRequest(k)}]
  /\ call' = [call EXCEPT ![k].at = "writing", ![k].req = NextRequest(k)]
GoesOn(k) ==
  /\ UNCHANGED <<pending, reqCounter>>
  /\ \/ call' = [call EXCEPT ![k].at = "failed"] \/ call' = [call EXCEPT ![k].tries = @ + 1]

\* What a step of `trying` does to the call.
LEMMA TryDoes ==
  ASSUME TpTypeOK, NEW k \in SdkCall, TryConn(k)
  PROVE  /\ call[k].at = "trying"
         /\ UNCHANGED <<poolSize, writer, connected, session, rx, health, counts>>
         /\ Asks(k) \/ GoesOn(k)
         /\ NextRequest(k) \in Request /\ NextRequest(k).conn = ConnOf(k)
         /\ NextRequest(k).n = reqCounter[ConnOf(k)] + 1 /\ NextRequest(k).by = k
         /\ ConnOf(k) \in Conn
<1>1. ConnOf(k) \in Conn /\ reqCounter[ConnOf(k)] \in Nat /\ k \in Requester
  BY ConnOfPool, TpTypeParts, PoolNumbers
<1>2. NextRequest(k) \in Request
  BY <1>1 DEF NextRequest, Request
<1>3. \/ call' = [call EXCEPT ![k] = [call[k] EXCEPT !.at = "failed"]]
         /\ UNCHANGED <<pending, reqCounter>>
      \/ call' = [call EXCEPT ![k].tries = @ + 1] /\ UNCHANGED <<pending, reqCounter>>
      \/ Asks(k)
  BY DEF TryConn, TryWith, Asks, NextRequest
<1>4. Asks(k) \/ GoesOn(k)
  BY <1>3 DEF GoesOn
<1> QED BY <1>1, <1>2, <1>4 DEF TryConn, TryWith, NextRequest

\* The steps of a call that make no request leave those there are as they are.
LEMMA CallHolds ==
  ASSUME TpTypeOK, NEW k \in SdkCall,
         \/ SdkSend(k) \/ (TryConn(k) /\ GoesOn(k)) \/ WriteFails(k) \/ Receive(k)
         \/ CallTimeout(k) \/ Leaves(k)
  PROVE  /\ UNCHANGED <<session, health, reqCounter, poolSize, writer, executed>>
         /\ MapsHold /\ CallsHold
         /\ \A h \in SdkCall \ {k} : call'[h] = call[h]
<1>1. UNCHANGED <<session, health, reqCounter, poolSize, writer, executed>>
  <2>1. CASE TryConn(k) /\ GoesOn(k)
    BY <2>1, TryDoes DEF GoesOn, counts
  <2>2. CASE SdkSend(k) \/ WriteFails(k) \/ Receive(k) \/ CallTimeout(k) \/ Leaves(k)
    BY <2>2 DEF SdkSend, WriteFails, Receive, CallTimeout, GiveUp, Leaves, client, counts
  <2> QED BY <2>1, <2>2
<1>2. MapsHold
  BY TryDoes DEF SdkSend, WriteFails, Receive, CallTimeout, GiveUp, Leaves, client, counts,
                 GoesOn, Forget, MapsHold, TpTypeOK
<1>3. CallsHold /\ \A h \in SdkCall \ {k} : call'[h] = call[h]
  <2>1. CASE SdkSend(k)
    <3>1. PICK c \in 0..(poolSize - 1) :
            call' = [call EXCEPT ![k].at = "trying", ![k].start = c]
      BY <2>1 DEF SdkSend
    <3> QED BY <3>1 DEF TpTypeOK, CallState, CallsHold
  <2>2. CASE TryConn(k) /\ GoesOn(k)
    <3>1. call' = [call EXCEPT ![k].at = "failed"] \/ call' = [call EXCEPT ![k].tries = @ + 1]
      BY <2>2 DEF GoesOn
    <3>2. call \in [SdkCall -> CallState]
      BY DEF TpTypeOK
    <3> QED BY <3>1, <3>2 DEF CallState, CallsHold
  <2>3. CASE WriteFails(k) \/ CallTimeout(k)
    BY <2>3 DEF WriteFails, CallTimeout, GiveUp, TpTypeOK, CallState, CallsHold
  <2>4. CASE Receive(k) \/ Leaves(k)
    <3>1. \/ call' = [call EXCEPT ![k].at = "answered"]
          \/ call' = [call EXCEPT ![k].at = "dropped"]
      BY <2>4 DEF Receive, Leaves
    <3>2. call \in [SdkCall -> CallState]
      BY DEF TpTypeOK
    <3> QED BY <3>1, <3>2 DEF CallState, CallsHold
  <2> QED BY <2>1, <2>2, <2>3, <2>4
<1> QED BY <1>1, <1>2, <1>3

\* A request is written to a wire.
LEMMA WriteDoes ==
  ASSUME TpTypeOK, NEW k \in SdkCall, RequestGoes(k)
  PROVE  /\ call[k].at = "writing"
         /\ \/ call' = [call EXCEPT ![k].at = "waiting"]
            \/ call' = [call EXCEPT ![k].at = "dropped"]
         /\ UNCHANGED <<client, rx, health, counts>>
         /\ writer[ConnOf(k)] \in Session /\ ConnOf(k) \in Conn
         /\ \E b \in BOOLEAN :
              session' = [session EXCEPT ![writer[ConnOf(k)]].up =
                            IF b THEN Append(@, call[k].req) ELSE @]
<1>1. writer[ConnOf(k)] \in Session /\ ConnOf(k) \in Conn
  BY ConnOfPool, TpTypeParts DEF RequestGoes, Writes
<1>2. Whole(ConnOf(k)) \in BOOLEAN
  BY DEF Whole
<1> QED BY <1>1, <1>2 DEF RequestGoes, Writes

\* Which requests the server's steps and the reader's leave.
LEMMA ServerHolds ==
  ASSUME TpTypeOK, NEW s \in Session, Break(s) \/ Dispatch(s) \/ ReaderEnds(s)
  PROVE  /\ Losing /\ MapsHold
         /\ UNCHANGED <<poolSize, writer, connected, reqCounter, call, health, counts>>
         /\ \A t \in Session : session'[t].conn = session[t].conn
<1>1. Losing /\ \A t \in Session : session'[t].conn = session[t].conn
  BY BreakLoses, DispatchLoses, ReaderEndsLoses
<1>2. MapsHold
  <2>1. CASE Break(s)
    BY <2>1 DEF Break, client, MapsHold
  <2>2. CASE Dispatch(s)
    BY <2>2 DEF Dispatch, MapsHold, TpTypeOK
  <2>3. CASE ReaderEnds(s)
    BY <2>3 DEF ReaderEnds, FailAllPending, MapsHold, TpTypeOK
  <2> QED BY <2>1, <2>2, <2>3
<1> QED BY <1>1, <1>2 DEF Break, Dispatch, ReaderEnds, client

\* Requests stay told apart.
LEMMA NumberedStep ==
  ASSUME TpTypeOK, Numbered, ChannelsTell, [TransportMoves]_transportVars
  PROVE  Numbered'
<1> USE DEF HealthHolds
<1>1. ASSUME NEW k \in SdkCall,
             SdkSend(k) \/ (TryConn(k) /\ GoesOn(k)) \/ WriteFails(k) \/ Receive(k)
               \/ CallTimeout(k) \/ Leaves(k)
      PROVE  Numbered'
  <2>1. /\ UNCHANGED <<session, health, reqCounter>> /\ MapsHold /\ CallsHold
    BY <1>1, CallHolds
  <2> QED BY <2>1, LosingNothing, LosingHolds, NoneMadeParts, NumberedKept
<1>2. ASSUME NEW k \in SdkCall, TryConn(k), Asks(k) PROVE Numbered'
  <2> DEFINE q == NextRequest(k)
  <2>1. /\ q \in Request /\ q.n = reqCounter[q.conn] + 1 /\ q.conn = ConnOf(k)
        /\ ConnOf(k) \in Conn /\ UNCHANGED <<session, health>>
    BY <1>2, TryDoes
  <2>2. /\ \A h \in SdkCall : call'[h].req = IF h = k THEN q ELSE call[h].req
        /\ \A c \in Conn : pending'[c] \subseteq pending[c] \cup {q}
    BY <1>2 DEF Asks, TpTypeOK, CallState
  <2>3. WiresHold
    BY <2>1, LosingNothing, LosingHolds
  <2> HIDE DEF q
  <2>4. OneMade(q)
    BY <2>1, <2>2, <2>3 DEF OneMade, Made, WiresHold, Awaited, Held
  <2>5. reqCounter' = [reqCounter EXCEPT ![q.conn] = q.n]
    BY <1>2, <2>1 DEF Asks, q
  <2> QED BY <2>1, <2>4, <2>5, NumberedMore
<1>3. ASSUME NEW k \in SdkCall, RequestGoes(k) PROVE Numbered'
  <2>1. PICK b \in BOOLEAN :
          session' = [session EXCEPT ![writer[ConnOf(k)]].up =
                        IF b THEN Append(@, call[k].req) ELSE @]
    BY <1>3, WriteDoes
  <2>2. call[k].req \in Request /\ Made(call[k].req)
    BY <1>3, WriteDoes, WritingIsHeld
  <2>3. \A t \in Session : /\ Answers(t)' = Answers(t)
                           /\ Up(t)' \subseteq Up(t) \cup {call[k].req}
    <3>1. writer[ConnOf(k)] \in Session
      BY <1>3, WriteDoes
    <3>2. \A t \in Session :
            /\ Answers(t)' = Answers(t)
            /\ Up(t)' = Up(t) \/ (t = writer[ConnOf(k)] /\ Up(t)' = Up(t) \cup {call[k].req})
      BY <2>1, <2>2, <3>1, WrittenWires
    <3> QED BY <3>2
  <2>4. WiresHold
    BY <2>2, <2>3 DEF WiresHold, SentUp, Served, Made
  <2>5. MapsHold /\ UNCHANGED <<health, reqCounter>>
    BY <1>3, WriteDoes DEF MapsHold, client
  <2>6. CallsHold
    <3>1. /\ call \in [SdkCall -> CallState]
          /\ \/ call' = [call EXCEPT ![k].at = "waiting"]
             \/ call' = [call EXCEPT ![k].at = "dropped"]
      BY <1>3, WriteDoes DEF TpTypeOK
    <3> QED BY <3>1 DEF CallsHold, CallState
  <2> QED BY <2>4, <2>5, <2>6, NoneMadeParts, NumberedKept
<1>4. ASSUME NEW s \in Session, Serve(s) PROVE Numbered'
  <2>1. \A t \in Session : /\ \A a \in Answers(t)' : a \in Answers(t) \/ a = AnswerTo(s)
                           /\ Up(t)' \subseteq Up(t)
    BY <1>4, ServeMoves DEF Up, Answers
  <2>2. SentUp(AnswerTo(s).req)
    BY <1>4, ServeMoves DEF SentUp, AnswerTo
  <2>3. WiresHold
    BY <2>1, <2>2 DEF WiresHold, SentUp, Served, Made
  <2>4. MapsHold /\ CallsHold /\ UNCHANGED <<health, reqCounter>>
    BY <1>4 DEF Serve, ServeWith, MapsHold, CallsHold, client
  <2> QED BY <2>3, <2>4, NoneMadeParts, NumberedKept
<1>5. ASSUME NEW s \in Session, Break(s) \/ Dispatch(s) \/ ReaderEnds(s) PROVE Numbered'
  <2>1. Losing /\ MapsHold /\ UNCHANGED <<health, reqCounter, call>>
    BY <1>5, ServerHolds
  <2>2. CallsHold
    BY <2>1 DEF CallsHold
  <2> QED BY <2>1, <2>2, LosingHolds, NoneMadeParts, NumberedKept
<1>6. ASSUME Reconnect PROVE Numbered'
  <2>1. Losing /\ UNCHANGED <<pending, reqCounter, call>> /\ health'.req = health.req
    BY <1>6, ReconnectOpens DEF TpTypeOK
  <2>2. CallsHold /\ MapsHold
    BY <2>1 DEF CallsHold, MapsHold
  <2> QED BY <2>1, <2>2, LosingHolds, NoneMadeParts, NumberedKept
<1>7. ASSUME SendAuth PROVE Numbered'
  <2>9. PICK q : q = AuthRequest
    OBVIOUS
  <2>1. PICK b \in BOOLEAN :
          session' = [session EXCEPT ![writer[health.conn]].up = IF b THEN Append(@, q) ELSE @]
    BY <1>7, <2>9, SendAuthDoes
  <2>2. q \in Request /\ q.n = reqCounter[q.conn] + 1 /\ q.conn = health.conn
        /\ health.conn \in Conn
    BY <2>9, AuthRequestTyped
  <2>3. /\ \A h \in SdkCall : call'[h].req = call[h].req
        /\ \A c \in Conn : pending'[c] \subseteq pending[c] \cup {q}
        /\ health'.req = q /\ reqCounter' = [reqCounter EXCEPT ![q.conn] = q.n]
    <3>1. /\ reqCounter' = [reqCounter EXCEPT ![health.conn] = q.n]
          /\ pending' = [pending EXCEPT ![health.conn] = @ \cup {q}]
          /\ health' = [health EXCEPT !.at = "auth_wait", !.req = q] /\ call' = call
      BY <1>7, <2>9, SendAuthDoes
    <3> QED BY <2>2, <3>1 DEF TpTypeOK
  <2>4. \A t \in Session : Answers(t)' = Answers(t) /\ Up(t)' \subseteq Up(t) \cup {q}
    <3>1. writer[health.conn] \in Session \cup {0} /\ q \in Request
      BY <2>2, TpTypeParts
    <3>3. PICK w \in Session \cup {0} : w = writer[health.conn]
      BY <3>1
    <3>4. session' = [session EXCEPT ![w].up = IF b THEN Append(@, q) ELSE @]
      BY <2>1, <3>3
    <3>2. \A t \in Session :
            /\ Answers(t)' = Answers(t)
            /\ Up(t)' = Up(t) \/ (t = w /\ Up(t)' = Up(t) \cup {q})
      BY <3>1, <3>4, WrittenWires
    <3> QED BY <3>2
  <2>5. OneMade(q)
    BY <2>3, <2>4 DEF OneMade, Made, SentUp, Served, Awaited, Held
  <2> QED BY <2>2, <2>3, <2>5, NumberedMore
<1>8. ASSUME AuthAnswered PROVE Numbered'
  <2>1. /\ UNCHANGED <<session, pending, call, reqCounter>> /\ health'.req = NoRequest
    BY <1>8 DEF AuthAnswered, client, TpTypeOK
  <2>2. CallsHold /\ MapsHold
    BY <2>1 DEF CallsHold, MapsHold
  <2> QED BY <2>1, <2>2, LosingNothing, LosingHolds, NoneMadeParts, NumberedKept
<1>9. ASSUME AuthFails PROVE Numbered'
  <2>1. /\ UNCHANGED <<call, reqCounter>> /\ health'.req = NoRequest /\ MapsHold
    BY <1>9 DEF AuthFails, FailAllPending, TpTypeOK, MapsHold
  <2>2. CallsHold
    BY <2>1 DEF CallsHold
  <2> QED BY <1>9, <2>1, <2>2, AuthFailsLoses, LosingHolds, NoneMadeParts, NumberedKept
<1>10. ASSUME UNCHANGED transportVars PROVE Numbered'
  BY <1>10 DEF transportVars, client, Numbered, Made, SentUp, Served, Awaited, Held, Up, Answers
<1> QED BY <1>1, <1>2, <1>3, <1>4, <1>5, <1>6, <1>7, <1>8, <1>9, <1>10, TryDoes
        DEF TransportMoves, SdkMoves

-----------------------------------------------------------------------------
(* Requests stay with their connection *)

\* What a write and SendAuth do to the wires.
LEMMA RequestWritten ==
  ASSUME TpTypeOK, NEW k \in SdkCall, RequestGoes(k)
  PROVE  /\ writer[ConnOf(k)] \in Session
         /\ \A t \in Session :
              /\ Answers(t)' = Answers(t) /\ session'[t].conn = session[t].conn
              /\ \/ Up(t)' = Up(t)
                 \/ t = writer[ConnOf(k)] /\ Up(t)' = Up(t) \cup {call[k].req}
              /\ NoneTwice(session[t].up) /\ call[k].req \notin Up(t)
                   => NoneTwice(session'[t].up)
<1>1. PICK b \in BOOLEAN :
        session' = [session EXCEPT ![writer[ConnOf(k)]].up =
                      IF b THEN Append(@, call[k].req) ELSE @]
  BY WriteDoes
<1>2. PICK w \in Session : w = writer[ConnOf(k)]
  BY WriteDoes
<1>3. PICK q \in Request : q = call[k].req
  BY TpTypeParts
<1>4. session' = [session EXCEPT ![w].up = IF b THEN Append(@, q) ELSE @]
  BY <1>1, <1>2, <1>3
<1>5. \A t \in Session :
        /\ Answers(t)' = Answers(t) /\ session'[t].conn = session[t].conn
        /\ Up(t)' = Up(t) \/ (t = w /\ Up(t)' = Up(t) \cup {q})
        /\ NoneTwice(session[t].up) /\ q \notin Up(t) => NoneTwice(session'[t].up)
  BY <1>4, WrittenWires
<1> QED BY <1>2, <1>3, <1>5

\* What is written when the checker sends AUTH.
LEMMA AuthWritten ==
  ASSUME TpTypeOK, SendAuth
  PROVE  /\ writer[health.conn] \in Session \cup {0}
         /\ \A t \in Session :
              /\ Answers(t)' = Answers(t) /\ session'[t].conn = session[t].conn
              /\ \/ Up(t)' = Up(t)
                 \/ t = writer[health.conn] /\ Up(t)' = Up(t) \cup {AuthRequest}
              /\ NoneTwice(session[t].up) /\ AuthRequest \notin Up(t)
                   => NoneTwice(session'[t].up)
<1>1. PICK b \in BOOLEAN :
        session' = [session EXCEPT ![writer[health.conn]].up =
                      IF b THEN Append(@, AuthRequest) ELSE @]
  BY SendAuthDoes
<1>2. PICK w \in Session \cup {0} : w = writer[health.conn]
  BY TpTypeParts
<1>3. PICK q \in Request : q = AuthRequest
  BY AuthRequestTyped
<1>4. session' = [session EXCEPT ![w].up = IF b THEN Append(@, q) ELSE @]
  BY <1>1, <1>2, <1>3
<1>5. \A t \in Session :
        /\ Answers(t)' = Answers(t) /\ session'[t].conn = session[t].conn
        /\ Up(t)' = Up(t) \/ (t = w /\ Up(t)' = Up(t) \cup {q})
        /\ NoneTwice(session[t].up) /\ q \notin Up(t) => NoneTwice(session'[t].up)
  BY <1>4, WrittenWires
<1> QED BY <1>2, <1>3, <1>5

\* The server changes one session, in what it carries.
LEMMA ServeKeeps ==
  ASSUME TpTypeOK, NEW s \in Session, Serve(s)
  PROVE  /\ UNCHANGED <<client, call, rx, health, givenUp>>
         /\ \A t \in Session : /\ session'[t].conn = session[t].conn
                               /\ Up(t)' \subseteq Up(t)
                               /\ t # s => Up(t)' = Up(t) /\ Answers(t)' = Answers(t)
                               /\ NoneTwice(session[t].up) => NoneTwice(session'[t].up)
         /\ Answers(s)' \subseteq Answers(s) \cup {AnswerTo(s)}
         /\ Request1(s) \in Request /\ Request1(s) \in Up(s) /\ AnswerTo(s).req = Request1(s)
         /\ NoneTwice(session[s].up) => Request1(s) \notin Up(s)'
<1>1. /\ \A t \in Session \ {s} : session'[t] = session[t]
      /\ session'[s].conn = session[s].conn
      /\ Up(s)' \subseteq Up(s) /\ Answers(s)' \subseteq Answers(s) \cup {AnswerTo(s)}
      /\ NoneTwice(session[s].up) => NoneTwice(session'[s].up) /\ Request1(s) \notin Up(s)'
      /\ Request1(s) \in Request /\ Request1(s) \in Up(s)
  BY ServeMoves
<1>2. \A t \in Session \ {s} : Up(t)' = Up(t) /\ Answers(t)' = Answers(t)
  BY <1>1 DEF Up, Answers
<1> QED BY <1>1, <1>2 DEF Serve, ServeWith, AnswerTo

\* Nothing on the wires changes with the sessions unchanged.
LEMMA SameWires ==
  ASSUME UNCHANGED session
  PROVE  /\ \A t \in Session : Up(t)' = Up(t) /\ Answers(t)' = Answers(t)
         /\ \A t : session'[t] = session[t]
BY DEF Up, Answers

\* What the wires carry stays with their connection.
LEMMA WiresStep ==
  ASSUME TpTypeOK, Wired, [TransportMoves]_transportVars
  PROVE  WiresOfConn'
<1> USE DEF WiresOfConn
<1>1. ASSUME UNCHANGED session PROVE WiresOfConn'
  BY <1>1, SameWires DEF Wired
<1>2. ASSUME NEW k \in SdkCall, SdkMoves(k), ~RequestGoes(k) PROVE WiresOfConn'
  <2>1. UNCHANGED session
    BY <1>2 DEF SdkSend, SdkMoves, TryConn, TryWith, WriteFails, Receive, CallTimeout, GiveUp,
           Leaves
  <2> QED BY <2>1, <1>1
<1>3. ASSUME NEW k \in SdkCall, RequestGoes(k), call[k].req.conn = ConnOf(k)
      PROVE  WiresOfConn'
  <2>1. session[writer[ConnOf(k)]].conn = ConnOf(k)
    BY <1>3, WriteDoes, PoolNumbers DEF Wired, WritersOfConn
  <2> QED BY <1>3, <2>1, RequestWritten DEF Wired
<1>4. ASSUME NEW s \in Session, Serve(s) PROVE WiresOfConn'
  <2> SUFFICES ASSUME NEW t \in Session
               PROVE  /\ \A r \in Up(t)' : r.conn = session'[t].conn
                      /\ \A a \in Answers(t)' : a.req.conn = session'[t].conn
    OBVIOUS
  <2> QED BY <1>4, ServeKeeps DEF Wired
<1>5. ASSUME Losing, \A t \in Session : session'[t].conn = session[t].conn
      PROVE  WiresOfConn'
  BY <1>5 DEF Losing, Wired
<1>6. ASSUME NEW s \in Session, Break(s) \/ Dispatch(s) \/ ReaderEnds(s) PROVE WiresOfConn'
  BY <1>5, <1>6, ServerHolds
<1>7. ASSUME Reconnect PROVE WiresOfConn'
  <2>1. PICK c \in Conn, s \in Session :
          /\ session[s] = Unopened /\ session' = [session EXCEPT ![s] = Opened(c, FALSE)]
          /\ Losing
    BY <1>7, ReconnectOpens
  <2>2. Up(s) = {} /\ Answers(s) = {}
    BY <2>1 DEF Up, Answers, Unopened, ToSet
  <2>3. \A t \in Session \ {s} : session'[t] = session[t]
    BY <2>1 DEF TpTypeOK
  <2> QED BY <2>1, <2>2, <2>3 DEF Losing, Wired
<1>8. ASSUME SendAuth PROVE WiresOfConn'
  <2>1. writer[health.conn] # 0 => session[writer[health.conn]].conn = AuthRequest.conn
    BY AuthRequestTyped DEF Wired, WritersOfConn
  <2> QED BY <1>8, <2>1, AuthWritten, PoolNumbers DEF Wired
<1>9. ASSUME AuthFails PROVE WiresOfConn'
  BY <1>5, <1>9, AuthFailsLoses
<1>10. ASSUME AuthAnswered \/ UNCHANGED transportVars PROVE WiresOfConn'
  BY <1>1, <1>10 DEF AuthAnswered, transportVars
<1>11. ASSUME NEW k \in SdkCall, RequestGoes(k) PROVE call[k].req.conn = ConnOf(k)
  BY <1>11, WriteDoes DEF Wired, WritingOfConn
<1> QED BY <1>2, <1>3, <1>4, <1>6, <1>7, <1>8, <1>9, <1>10, <1>11 DEF TransportMoves

\* A writer writes to a session of its connection.
LEMMA WritersStep ==
  ASSUME TpTypeOK, Wired, [TransportMoves]_transportVars
  PROVE  WritersOfConn'
<1> USE DEF WritersOfConn
<1>1. ASSUME UNCHANGED writer, \A t \in Session : session'[t].conn = session[t].conn
      PROVE  WritersOfConn'
  BY <1>1, TpTypeParts DEF Wired
<1>2. ASSUME NEW k \in SdkCall, SdkMoves(k), ~RequestGoes(k) PROVE WritersOfConn'
  <2>1. UNCHANGED <<session, writer>>
    BY <1>2 DEF SdkSend, SdkMoves, TryConn, TryWith, WriteFails, Receive, CallTimeout, GiveUp,
           Leaves,
                client
  <2> QED BY <2>1, <1>1
<1>3. ASSUME NEW k \in SdkCall, RequestGoes(k) PROVE WritersOfConn'
  <2>1. UNCHANGED writer
    BY <1>3 DEF RequestGoes, Writes, client
  <2> QED BY <1>1, <1>3, <2>1, RequestWritten
<1>4. ASSUME NEW s \in Session, Serve(s) PROVE WritersOfConn'
  <2>1. UNCHANGED writer
    BY <1>4, ServeKeeps DEF client
  <2> QED BY <1>1, <1>4, <2>1, ServeKeeps
<1>5. ASSUME NEW s \in Session, Break(s) \/ Dispatch(s) \/ ReaderEnds(s) PROVE WritersOfConn'
  BY <1>1, <1>5, ServerHolds
<1>6. ASSUME Reconnect PROVE WritersOfConn'
  <2>1. PICK c \in Conn, s \in Session :
          /\ writer' = [writer EXCEPT ![c] = s] /\ session[s] = Unopened
          /\ session' = [session EXCEPT ![s] = Opened(c, FALSE)]
    BY <1>6, ReconnectOpens
  <2>2. \A t \in Session : session'[t] = IF t = s THEN Opened(c, FALSE) ELSE session[t]
    BY <2>1 DEF TpTypeOK
  <2>3. \A d \in Conn : writer'[d] = IF d = c THEN s ELSE writer[d]
    BY <2>1 DEF TpTypeOK
  <2>4. Opened(c, FALSE).conn = c
    BY DEF Opened
  <2>5. \A d \in Conn : writer[d] # 0 => writer[d] # s
    BY <2>1, PoolNumbers DEF Wired, Unopened
  <2> QED BY <2>2, <2>3, <2>4, <2>5, TpTypeParts DEF Wired
<1>7. ASSUME SendAuth PROVE WritersOfConn'
  <2>1. UNCHANGED writer
    BY <1>7, SendAuthDoes
  <2> QED BY <1>1, <1>7, <2>1, AuthWritten
<1>8. ASSUME AuthFails PROVE WritersOfConn'
  <2>1. \A c \in Conn : writer'[c] = writer[c] \/ writer'[c] = 0
    BY <1>8 DEF AuthFails, TpTypeOK
  <2> QED BY <1>8, <2>1, AuthFailsLoses, TpTypeParts DEF Wired
<1>9. ASSUME AuthAnswered \/ UNCHANGED transportVars PROVE WritersOfConn'
  BY <1>1, <1>9 DEF AuthAnswered, transportVars, client
<1> QED BY <1>2, <1>3, <1>4, <1>5, <1>6, <1>7, <1>8, <1>9 DEF TransportMoves

\* The pool keeps its size, and a call that takes no step stays where it is.
LEMMA CallsStay ==
  ASSUME TpTypeOK, [TransportMoves]_transportVars
  PROVE  /\ UNCHANGED poolSize
         /\ \A h \in SdkCall : SdkMoves(h) \/ call'[h] = call[h]
<1>1. ASSUME NEW k \in SdkCall, SdkMoves(k)
      PROVE  UNCHANGED poolSize /\ \A h \in SdkCall \ {k} : call'[h] = call[h]
  <2>1. CASE TryConn(k) /\ Asks(k)
    BY <2>1, TryDoes DEF Asks, TpTypeOK
  <2>2. CASE RequestGoes(k)
    BY <2>2, WriteDoes DEF client, TpTypeOK
  <2> QED BY <1>1, <2>1, <2>2, TryDoes, CallHolds DEF SdkMoves
<1>2. ASSUME NEW s \in Session, Serve(s) \/ Break(s) \/ Dispatch(s) \/ ReaderEnds(s)
      PROVE  UNCHANGED <<poolSize, call>>
  BY <1>2 DEF Serve, ServeWith, Break, Dispatch, ReaderEnds, client
<1>3. ASSUME Reconnect \/ SendAuth \/ AuthAnswered \/ AuthFails \/ UNCHANGED transportVars
      PROVE  UNCHANGED <<poolSize, call>>
  BY <1>3 DEF Reconnect, Reconnected, SendAuth, AuthAnswered, AuthFails, client, transportVars
<1> QED BY <1>1, <1>2, <1>3 DEF TransportMoves

\* The step of the health checker changes nothing of calls, and conversely.
LEMMA HealthStays ==
  ASSUME [TransportMoves]_transportVars
  PROVE  Reconnect \/ SendAuth \/ AuthAnswered \/ AuthFails \/ UNCHANGED health
<1>1. ASSUME NEW k \in SdkCall, SdkMoves(k) PROVE UNCHANGED health
  BY <1>1 DEF SdkSend, SdkMoves, TryConn, TryWith, RequestGoes, Writes, WriteFails, Receive,
         CallTimeout,
              GiveUp, Leaves
<1>2. ASSUME NEW s \in Session, Serve(s) \/ Break(s) \/ Dispatch(s) \/ ReaderEnds(s)
      PROVE  UNCHANGED health
  BY <1>2 DEF Serve, ServeWith, Break, Dispatch, ReaderEnds
<1> QED BY <1>1, <1>2 DEF TransportMoves, transportVars

\* Requests are added to the map by those who make them.
LEMMA MapsStay ==
  ASSUME TpTypeOK, [TransportMoves]_transportVars
  PROVE  MapsHold \/ SendAuth \/ \E k \in SdkCall : TryConn(k) /\ Asks(k)
<1>1. ASSUME NEW k \in SdkCall, SdkMoves(k)
      PROVE  MapsHold \/ (TryConn(k) /\ Asks(k))
  <2>1. CASE RequestGoes(k)
    BY <2>1, WriteDoes DEF client, MapsHold
  <2> QED BY <1>1, <2>1, TryDoes, CallHolds DEF SdkMoves
<1>2. ASSUME NEW s \in Session, Serve(s) \/ Break(s) \/ Dispatch(s) \/ ReaderEnds(s)
      PROVE  MapsHold
  <2>1. CASE Serve(s)
    BY <2>1, ServeKeeps DEF client, MapsHold
  <2> QED BY <1>2, <2>1, ServerHolds
<1>3. ASSUME Reconnect \/ AuthAnswered \/ UNCHANGED transportVars PROVE MapsHold
  BY <1>3 DEF Reconnect, Reconnected, AuthAnswered, client, transportVars, MapsHold
<1>4. ASSUME AuthFails PROVE MapsHold
  BY <1>4 DEF AuthFails, FailAllPending, TpTypeOK, MapsHold
<1> QED BY <1>1, <1>2, <1>3, <1>4 DEF TransportMoves

\* What waits in the map waits for its connection.
LEMMA PendingStep ==
  ASSUME TpTypeOK, Wired, [TransportMoves]_transportVars
  PROVE  PendingOfConn'
<1> USE DEF PendingOfConn
<1>1. CASE MapsHold
  BY <1>1 DEF MapsHold, Wired
<1>2. CASE SendAuth
  <2>1. \A c \in Conn : pending'[c] = IF c = health.conn THEN pending[c] \cup {AuthRequest}
                                                         ELSE pending[c]
    BY <1>2, SendAuthDoes DEF TpTypeOK
  <2> QED BY <2>1, AuthRequestTyped DEF Wired
<1>3. ASSUME NEW k \in SdkCall, TryConn(k), Asks(k) PROVE PendingOfConn'
  <2>1. \A c \in Conn : pending'[c] = IF c = ConnOf(k) THEN pending[c] \cup {NextRequest(k)}
                                                       ELSE pending[c]
    BY <1>3 DEF Asks, TpTypeOK
  <2>2. NextRequest(k).conn = ConnOf(k)
    BY <1>3, TryDoes
  <2> QED BY <2>1, <2>2 DEF Wired
<1> QED BY <1>1, <1>2, <1>3, MapsStay

\* What a call or the health checker has to write is for the connection it tries.
LEMMA WritingStep ==
  ASSUME TpTypeOK, Wired, [TransportMoves]_transportVars
  PROVE  WritingOfConn'
<1>1. ASSUME NEW k \in SdkCall, (call[k].at = "writing")'
      PROVE  (call[k].req.conn = ConnOf(k))'
  <2>1. UNCHANGED poolSize
    BY CallsStay
  <2>2. CASE call'[k] = call[k]
    BY <1>1, <2>1, <2>2 DEF Wired, WritingOfConn, ConnOf
  <2>3. CASE TryConn(k) /\ Asks(k)
    <3>1. /\ call'[k].req = NextRequest(k)
          /\ call'[k].start = call[k].start /\ call'[k].tries = call[k].tries
      BY <2>3 DEF Asks, TpTypeOK, CallState
    <3> QED BY <2>1, <2>3, <3>1, TryDoes DEF ConnOf
  <2>4. CASE SdkSend(k)
    <3>1. PICK c \in 0..(poolSize - 1) :
            call' = [call EXCEPT ![k].at = "trying", ![k].start = c]
      BY <2>4 DEF SdkSend
    <3>2. call'[k].at = "trying"
      BY <3>1 DEF TpTypeOK, CallState
    <3> QED BY <1>1, <3>2
  <2>5. CASE TryConn(k) /\ GoesOn(k)
    <3>1. call'[k].at \in {"failed", "trying"}
      BY <2>5, TryDoes DEF GoesOn, TpTypeOK, CallState
    <3> QED BY <1>1, <3>1
  <2>6. CASE RequestGoes(k) \/ WriteFails(k) \/ Receive(k) \/ CallTimeout(k) \/ Leaves(k)
    <3>1. call'[k].at \in {"waiting", "trying", "answered", "dropped"}
      BY <2>6 DEF RequestGoes, Writes, WriteFails, Receive, CallTimeout, GiveUp, Leaves,
                  TpTypeOK, CallState
    <3> QED BY <1>1, <3>1
  <2> QED BY <2>2, <2>3, <2>4, <2>5, <2>6, CallsStay, TryDoes DEF SdkMoves
<1>2. ASSUME health'.at = "auth_wait" PROVE health'.req.conn = health'.conn
  <2>1. CASE SendAuth
    BY <2>1, SendAuthDoes, AuthRequestTyped DEF TpTypeOK
  <2>2. CASE Reconnect
    <3>1. PICK c \in Conn : health' = [health EXCEPT !.at = "auth", !.conn = c]
      BY <2>2, ReconnectOpens
    <3> QED BY <1>2, <3>1 DEF TpTypeOK
  <2>3. CASE AuthAnswered \/ AuthFails
    <3>1. health'.at = "idle"
      BY <2>3 DEF AuthAnswered, AuthFails, TpTypeOK
    <3> QED BY <1>2, <3>1
  <2>4. CASE UNCHANGED health
    BY <1>2, <2>4 DEF Wired, WritingOfConn
  <2> QED BY <2>1, <2>2, <2>3, <2>4, HealthStays
<1> QED BY <1>1, <1>2 DEF WritingOfConn

\* Requests and answers stay with their connection.
LEMMA WiredStep ==
  ASSUME TpTypeOK, Wired, [TransportMoves]_transportVars
  PROVE  Wired'
BY WiresStep, WritersStep, PendingStep, WritingStep DEF Wired

-----------------------------------------------------------------------------
(* A request is written once *)

\* The next number of a connection is nobody's.
LEMMA NextIsNew ==
  ASSUME TpTypeOK, Numbered, NEW q \in Request, q.n = reqCounter[q.conn] + 1
  PROVE  ~Made(q)
<1>1. reqCounter[q.conn] \in Nat
  BY TpTypeParts DEF Request
<1> QED BY <1>1 DEF Numbered

\* The requests of the wires, when one of a call or of the health checker is added.
LEMMA OnceMore ==
  ASSUME OnceOnWires, NEW q, ~SentUp(q), NEW w,
         \A t \in Session :
           /\ \/ Up(t)' = Up(t)
              \/ t = w /\ Up(t)' = Up(t) \cup {q}
           /\ NoneTwice(session[t].up) /\ q \notin Up(t) => NoneTwice(session'[t].up)
  PROVE  OnceOnWires'
<1>1. \A t \in Session : q \notin Up(t)
  BY DEF SentUp
<1>2. \A s \in Session : NoneTwice(session'[s].up)
  BY <1>1 DEF OnceOnWires
<1>3. \A s, t \in Session : \A r \in Up(s)' : r \in Up(t)' => s = t
  <2> SUFFICES ASSUME NEW s \in Session, NEW t \in Session, NEW r \in Up(s)', r \in Up(t)'
               PROVE  s = t
    OBVIOUS
  <2>1. CASE r = q
    BY <1>1, <2>1
  <2>2. CASE r # q
    <3>1. r \in Up(s) /\ r \in Up(t)
      BY <2>2
    <3> QED BY <3>1 DEF OnceOnWires
  <2> QED BY <2>1, <2>2
<1> QED BY <1>2, <1>3 DEF OnceOnWires

\* No request comes on two wires, or twice on one.
LEMMA OnceStep ==
  ASSUME TpTypeOK, Numbered, WrittenOnce, [TransportMoves]_transportVars
  PROVE  OnceOnWires'
<1>1. ASSUME \A t \in Session : /\ Up(t)' \subseteq Up(t)
                                /\ NoneTwice(session[t].up) => NoneTwice(session'[t].up)
      PROVE  OnceOnWires'
  BY <1>1 DEF OnceOnWires, WrittenOnce
<1>2. ASSUME Losing PROVE OnceOnWires'
  BY <1>1, <1>2 DEF Losing
<1>3. ASSUME UNCHANGED session PROVE OnceOnWires'
  BY <1>2, <1>3, LosingNothing
<1>4. ASSUME NEW k \in SdkCall, SdkMoves(k), ~RequestGoes(k) PROVE OnceOnWires'
  <2>1. UNCHANGED session
    BY <1>4 DEF SdkSend, SdkMoves, TryConn, TryWith, WriteFails, Receive, CallTimeout, GiveUp,
           Leaves
  <2> QED BY <2>1, <1>3
<1>5. ASSUME NEW k \in SdkCall, RequestGoes(k) PROVE OnceOnWires'
  <2>1. ~SentUp(call[k].req)
    BY <1>5, WriteDoes DEF WrittenOnce, WritingIsNew
  <2>2. PICK q : q = call[k].req
    OBVIOUS
  <2>3. PICK w : w = writer[ConnOf(k)]
    OBVIOUS
  <2>4. \A t \in Session :
          /\ Up(t)' = Up(t) \/ (t = w /\ Up(t)' = Up(t) \cup {q})
          /\ NoneTwice(session[t].up) /\ q \notin Up(t) => NoneTwice(session'[t].up)
    BY <1>5, <2>2, <2>3, RequestWritten
  <2> QED BY <2>1, <2>2, <2>4, OnceMore DEF WrittenOnce
<1>6. ASSUME NEW s \in Session, Serve(s) PROVE OnceOnWires'
  BY <1>1, <1>6, ServeKeeps
<1>7. ASSUME NEW s \in Session, Break(s) \/ Dispatch(s) \/ ReaderEnds(s) PROVE OnceOnWires'
  BY <1>2, <1>7, ServerHolds
<1>8. ASSUME SendAuth PROVE OnceOnWires'
  <2>1. PICK q : q = AuthRequest
    OBVIOUS
  <2>2. ~SentUp(q)
    BY <2>1, AuthRequestTyped, NextIsNew DEF Made
  <2>3. PICK w : w = writer[health.conn]
    OBVIOUS
  <2>4. \A t \in Session :
          /\ Up(t)' = Up(t) \/ (t = w /\ Up(t)' = Up(t) \cup {q})
          /\ NoneTwice(session[t].up) /\ q \notin Up(t) => NoneTwice(session'[t].up)
    BY <1>8, <2>1, <2>3, AuthWritten
  <2> QED BY <2>2, <2>4, OnceMore DEF WrittenOnce
<1>9. ASSUME Reconnect \/ AuthFails PROVE OnceOnWires'
  BY <1>2, <1>9, ReconnectOpens, AuthFailsLoses
<1>10. ASSUME AuthAnswered \/ UNCHANGED transportVars PROVE OnceOnWires'
  BY <1>3, <1>10 DEF AuthAnswered, transportVars
<1> QED BY <1>4, <1>5, <1>6, <1>7, <1>8, <1>9, <1>10 DEF TransportMoves

\* What the wires carry after a step.
LEMMA WiresMove ==
  ASSUME TpTypeOK, [TransportMoves]_transportVars
  PROVE  \/ Losing
         \/ SendAuth /\ \A t \in Session : /\ Up(t)' \subseteq Up(t) \cup {AuthRequest}
                                           /\ Answers(t)' = Answers(t)
         \/ \E k \in SdkCall : RequestGoes(k)
              /\ \A t \in Session : /\ Up(t)' \subseteq Up(t) \cup {call[k].req}
                                    /\ Answers(t)' = Answers(t)
         \/ \E s \in Session : Serve(s)
              /\ \A t \in Session : /\ Up(t)' \subseteq Up(t)
                                    /\ Answers(t)' \subseteq Answers(t) \cup {AnswerTo(s)}
<1>1. ASSUME NEW k \in SdkCall, SdkMoves(k), ~RequestGoes(k) PROVE Losing
  <2>1. UNCHANGED session
    BY <1>1 DEF SdkSend, SdkMoves, TryConn, TryWith, WriteFails, Receive, CallTimeout, GiveUp,
           Leaves
  <2> QED BY <2>1, LosingNothing
<1>2. ASSUME NEW k \in SdkCall, RequestGoes(k)
      PROVE  \A t \in Session : /\ Up(t)' \subseteq Up(t) \cup {call[k].req}
                                /\ Answers(t)' = Answers(t)
  BY <1>2, RequestWritten
<1>3. ASSUME NEW s \in Session, Serve(s)
      PROVE  \A t \in Session : /\ Up(t)' \subseteq Up(t)
                                /\ Answers(t)' \subseteq Answers(t) \cup {AnswerTo(s)}
  BY <1>3, ServeKeeps
<1>4. ASSUME NEW s \in Session, Break(s) \/ Dispatch(s) \/ ReaderEnds(s) PROVE Losing
  BY <1>4, ServerHolds
<1>5. ASSUME SendAuth
      PROVE  \A t \in Session : /\ Up(t)' \subseteq Up(t) \cup {AuthRequest}
                                /\ Answers(t)' = Answers(t)
  BY <1>5, AuthWritten
<1>6. ASSUME Reconnect \/ AuthFails PROVE Losing
  BY <1>6, ReconnectOpens, AuthFailsLoses
<1>7. ASSUME AuthAnswered \/ UNCHANGED transportVars PROVE Losing
  BY <1>7, LosingNothing DEF AuthAnswered, transportVars
<1> QED BY <1>1, <1>2, <1>3, <1>4, <1>5, <1>6, <1>7 DEF TransportMoves

\* A request that goes up a wire is being written; one that is answered was sent.
LEMMA WiresStay ==
  ASSUME TpTypeOK, [TransportMoves]_transportVars, NEW r
  PROVE  /\ SentUp(r)' => \/ SentUp(r)
                          \/ r = AuthRequest /\ SendAuth
                          \/ \E k \in SdkCall : RequestGoes(k) /\ r = call[k].req
         /\ Served(r)' => SentUp(r) \/ Served(r)
<1>1. CASE Losing
  BY <1>1 DEF Losing, SentUp, Served
<1>2. CASE SendAuth /\ \A t \in Session : /\ Up(t)' \subseteq Up(t) \cup {AuthRequest}
                                          /\ Answers(t)' = Answers(t)
  BY <1>2 DEF SentUp, Served
<1>3. ASSUME NEW k \in SdkCall, RequestGoes(k),
             \A t \in Session : /\ Up(t)' \subseteq Up(t) \cup {call[k].req}
                                /\ Answers(t)' = Answers(t)
      PROVE  /\ SentUp(r)' => SentUp(r) \/ r = call[k].req
             /\ Served(r)' => SentUp(r) \/ Served(r)
  BY <1>3 DEF SentUp, Served
<1>4. ASSUME NEW s \in Session, Serve(s),
             \A t \in Session : /\ Up(t)' \subseteq Up(t)
                                /\ Answers(t)' \subseteq Answers(t) \cup {AnswerTo(s)}
      PROVE  /\ SentUp(r)' => SentUp(r)
             /\ Served(r)' => SentUp(r) \/ Served(r)
  <2>1. SentUp(AnswerTo(s).req)
    BY <1>4, ServeKeeps DEF SentUp
  <2> QED BY <1>4, <2>1 DEF SentUp, Served
<1> QED BY <1>1, <1>2, <1>3, <1>4, WiresMove

\* Where a call is after a step of its own.
LEMMA CallGoes ==
  ASSUME TpTypeOK, NEW k \in SdkCall, SdkMoves(k)
  PROVE  \/ SdkSend(k) /\ call[k].at = "idle" /\ call'[k].at = "trying"
         \/ TryConn(k) /\ Asks(k) /\ call'[k].at = "writing" /\ call'[k].req = NextRequest(k)
         \/ TryConn(k) /\ GoesOn(k) /\ call'[k].at \in {"failed", "trying"}
         \/ RequestGoes(k) /\ call[k].at = "writing" /\ call'[k].at \in {"waiting", "dropped"}
              /\ call'[k].req = call[k].req
         \/ WriteFails(k) /\ call[k].at = "writing" /\ call'[k].at = "trying"
         \/ Receive(k) /\ call[k].at = "waiting" /\ call'[k].at = "answered"
              /\ call'[k].req = call[k].req
         \/ CallTimeout(k) /\ call[k].at = "waiting" /\ call'[k].at = "trying"
         \/ Leaves(k) /\ call[k].at \in {"trying", "writing", "waiting"}
              /\ call'[k].at = "dropped" /\ call'[k].req = call[k].req
<1> USE DEF CallState
<1>0. call \in [SdkCall -> CallState]
  BY DEF TpTypeOK
<1>1. CASE SdkSend(k)
  <2>1. PICK c \in 0..(poolSize - 1) :
          call' = [call EXCEPT ![k].at = "trying", ![k].start = c]
    BY <1>1 DEF SdkSend
  <2>2. call'[k].at = "trying"
    BY <1>0, <2>1
  <2>3. call[k].at = "idle"
    BY <1>1 DEF SdkSend
  <2> QED BY <1>1, <2>2, <2>3
<1>2. CASE TryConn(k) /\ Asks(k)
  <2>1. call' = [call EXCEPT ![k].at = "writing", ![k].req = NextRequest(k)]
    BY <1>2 DEF Asks
  <2> QED BY <1>0, <1>2, <2>1
<1>3. CASE TryConn(k) /\ GoesOn(k)
  <2>1. call' = [call EXCEPT ![k].at = "failed"] \/ call' = [call EXCEPT ![k].tries = @ + 1]
    BY <1>3 DEF GoesOn
  <2>2. call[k].at = "trying"
    BY <1>3, TryDoes
  <2> QED BY <1>0, <1>3, <2>1, <2>2
<1>4. CASE RequestGoes(k)
  BY <1>0, <1>4, WriteDoes
<1>5. CASE WriteFails(k)
  BY <1>0, <1>5 DEF WriteFails
<1>6. CASE Receive(k)
  BY <1>0, <1>6 DEF Receive
<1>7. CASE CallTimeout(k)
  BY <1>0, <1>7 DEF CallTimeout, GiveUp
<1>8. CASE Leaves(k)
  BY <1>0, <1>8 DEF Leaves
<1> QED BY <1>1, <1>2, <1>3, <1>4, <1>5, <1>6, <1>7, <1>8, TryDoes DEF SdkMoves

\* What a call has to write is on no wire yet.
LEMMA WritingNewStep ==
  ASSUME TpTypeOK, Numbered, WrittenOnce, ChannelsTell, [TransportMoves]_transportVars
  PROVE  WritingIsNew'
<1> SUFFICES ASSUME NEW k \in SdkCall, (call[k].at = "writing")',
                    (SentUp(call[k].req) \/ Served(call[k].req))'
             PROVE  FALSE
  BY DEF WritingIsNew
<1>0. PICK q : q = call'[k].req
  OBVIOUS
<1>1. SentUp(q)' \/ Served(q)'
  BY <1>0 DEF SentUp, Served
<1>2. CASE call'[k] = call[k]
  <2>1. call[k].at = "writing" /\ q = call[k].req /\ q.by = k /\ ~SentUp(q) /\ ~Served(q)
    BY <1>0, <1>2, WritingIsHeld DEF WrittenOnce, WritingIsNew
  <2>2. AuthRequest.by = Auth /\ k # Auth
    BY AuthRequestTyped, PoolNumbers
  <2>3. PICK h \in SdkCall : RequestGoes(h) /\ q = call[h].req
    BY <1>1, <2>1, <2>2, WiresStay
  <2>4. call[h].req.by = h
    BY <2>3, WriteDoes, WritingIsHeld
  <2>5. h = k
    BY <2>1, <2>3, <2>4
  <2>6. call'[k].at \in {"waiting", "dropped"}
    <3>1. /\ call \in [SdkCall -> CallState]
          /\ \/ call' = [call EXCEPT ![k].at = "waiting"]
             \/ call' = [call EXCEPT ![k].at = "dropped"]
      BY <2>3, <2>5, WriteDoes DEF TpTypeOK
    <3> QED BY <3>1 DEF CallState
  <2> QED BY <2>6
<1>3. CASE TryConn(k) /\ Asks(k)
  <2>1. q = NextRequest(k)
    BY <1>0, <1>3 DEF Asks, TpTypeOK, CallState
  <2>2. ~Made(q) /\ UNCHANGED session
    BY <1>3, <2>1, TryDoes, NextIsNew
  <2> QED BY <1>1, <2>2, SameWires DEF Made, SentUp, Served
<1> QED BY <1>2, <1>3, CallsStay, CallGoes

-----------------------------------------------------------------------------
(* Who waits for an answer *)

\* What the map holds was made, and is the request its requester waits for.
LEMMA PendingIsOne ==
  ASSUME TpTypeOK, Numbered, Wired, PendingIsAwaited, NEW c \in Conn, NEW r \in pending[c]
  PROVE  /\ r \in Request /\ r # NoRequest /\ r.conn = c /\ r.by \in Requester
         /\ r.by = Auth => r = health.req
         /\ r.by # Auth => /\ r.by \in SdkCall /\ r = call[r.by].req
                           /\ call[r.by].at \in {"writing", "waiting", "dropped"}
<1>1. r \in Request /\ r.by \in Requester
  BY TpTypeParts DEF Request
<1>2. Made(r)
  BY DEF Made, Awaited
<1>3. r # NoRequest
  BY <1>1, <1>2, MadeIsSome
<1> QED BY <1>1, <1>3 DEF Wired, PendingOfConn, PendingIsAwaited, Requester

\* A request is forgotten: it leaves the map, and its requester's channel is empty.
LEMMA Forgotten ==
  ASSUME TpTypeOK, NEW k \in SdkCall, WriteFails(k) \/ CallTimeout(k)
  PROVE  /\ \A c \in Conn : \A r \in pending'[c] :
              r \in pending[c] /\ (c = call[k].req.conn => r # call[k].req)
         /\ \A h \in Requester : rx'[h] = IF h = call[k].req.by THEN NoReply ELSE rx[h]
<1>1. call[k].req \in Request /\ call[k].req.conn \in Conn
  BY TpTypeParts DEF Request
<1>2. Forget(call[k].req)
  BY DEF WriteFails, CallTimeout, GiveUp
<1> QED BY <1>1, <1>2 DEF Forget, TpTypeOK

\* The answers to requests of one connection are told, and these leave the map.
AllTold(c, W) ==
  /\ \A d \in Conn : pending'[d] = IF d = c THEN pending[d] \ W ELSE pending[d]
  /\ \A k \in Requester :
       /\ (\E r \in W : r.by = k) => rx'[k] # NoReply
       /\ ~(\E r \in W : r.by = k) => rx'[k] = rx[k]

\* A broken connection tells everybody who waits on it.
LEMMA FailAllTells ==
  ASSUME TpTypeOK, NEW c, FailAllPending(c)
  PROVE  /\ \E W : (c \in Conn => W = pending[c]) /\ AllTold(c, W)
                   /\ \A k \in Requester : rx'[k] = rx[k] \/ rx'[k] = [what |-> "lost", of |-> k]
<1> DEFINE W == IF c \in Conn THEN pending[c] ELSE pending[c]
<1>1. \A k \in Requester :
        rx'[k] = IF \E r \in W : r.by = k THEN [what |-> "lost", of |-> k] ELSE rx[k]
  BY DEF FailAllPending
<1>2. \A k : [what |-> "lost", of |-> k] # NoReply
  BY DEF NoReply
<1>3. \A d \in Conn : pending'[d] = IF d = c THEN pending[d] \ W ELSE pending[d]
  BY DEF FailAllPending, TpTypeOK
<1>4. AllTold(c, W)
  BY <1>1, <1>2, <1>3 DEF AllTold
<1> QED BY <1>1, <1>4

\* An answer goes to who waits for the request of its number.
Waiting(s) == {r \in pending[session[s].conn] : r.n = Head(session[s].down).req.n}

\* The reader tells who waits for the number of the answer it read.
LEMMA DispatchTells ==
  ASSUME TpTypeOK, NEW s \in Session, Dispatch(s)
  PROVE  /\ AllTold(session[s].conn, Waiting(s))
         /\ \A k \in Requester :
              rx'[k] = IF \E r \in Waiting(s) : r.by = k
                         THEN [what |-> Head(session[s].down).what,
                               of |-> Head(session[s].down).req.by]
                         ELSE rx[k]
<1> DEFINE a == Head(session[s].down)
           c == session[s].conn
<1>1. a \in Answer
  BY DispatchLoses
<1>2. [what |-> a.what, of |-> a.req.by] # NoReply
  BY <1>1 DEF NoReply, Answer
<1>3. /\ pending' = [pending EXCEPT ![c] = @ \ Waiting(s)]
      /\ rx' = [k \in Requester |-> IF \E r \in Waiting(s) : r.by = k
                                      THEN [what |-> a.what, of |-> a.req.by] ELSE rx[k]]
  BY DEF Dispatch, Waiting
<1> HIDE DEF a
<1>4. \A d \in Conn : pending'[d] = IF d = c THEN pending[d] \ Waiting(s) ELSE pending[d]
  BY <1>3 DEF TpTypeOK
<1>5. \A k \in Requester :
        rx'[k] = IF \E r \in Waiting(s) : r.by = k
                   THEN [what |-> a.what, of |-> a.req.by] ELSE rx[k]
  BY <1>3
<1> QED BY <1>2, <1>4, <1>5 DEF AllTold, a

\* A requester that was told waits no more.
LEMMA ToldIsFinal ==
  ASSUME TpTypeOK, Numbered, Wired, PendingIsAwaited, ChannelsTell, NEW c, NEW W, AllTold(c, W),
         W \subseteq pending[c], c \in Conn
  PROVE  ChannelsAreFinal'
<1> SUFFICES ASSUME NEW k \in Requester, rx'[k] # NoReply, NEW d \in Conn,
                    NEW r \in pending'[d], r.by = k
             PROVE  FALSE
  BY DEF ChannelsAreFinal
<1>1. r \in pending[d] /\ (d = c => r \notin W)
  BY DEF AllTold
<1>2. CASE \E q \in W : q.by = k
  <2>1. PICK q \in W : q.by = k
    BY <1>2
  <2>2. q \in pending[c]
    BY <2>1
  <2>3. q = r /\ q.conn = c /\ r.conn = d
    BY <1>1, <2>1, <2>2, PendingIsOne
  <2> QED BY <1>1, <2>1, <2>3
<1>3. CASE ~\E q \in W : q.by = k
  BY <1>1, <1>3 DEF AllTold, ChannelsTell, ChannelsAreFinal
<1> QED BY <1>2, <1>3

\* Readers read for a connection of the pool.
LEMMA ReadersRead ==
  ASSUME TpTypeOK, NEW s \in Session, Dispatch(s) \/ ReaderEnds(s)
  PROVE  session[s].conn \in Conn
<1>1. session[s] \in SessionState
  BY TpTypeParts
<1>2. session[s].reader
  BY DEF Dispatch, ReaderEnds
<1> QED BY <1>1, <1>2 DEF SessionState

\* Channels change for those who forget, who are told, and for the health checker.
LEMMA ChannelsStay ==
  ASSUME TpTypeOK, [TransportMoves]_transportVars
  PROVE  \/ UNCHANGED rx /\ MapsHold
         \/ UNCHANGED rx /\ \E k \in SdkCall : TryConn(k) /\ Asks(k)
         \/ \E k \in SdkCall : WriteFails(k) \/ CallTimeout(k)
         \/ \E s \in Session : Dispatch(s) \/ ReaderEnds(s)
         \/ SendAuth \/ AuthFails
<1>1. ASSUME NEW k \in SdkCall,
             SdkSend(k) \/ TryConn(k) \/ RequestGoes(k) \/ Receive(k) \/ Leaves(k)
      PROVE  UNCHANGED rx
  BY <1>1 DEF SdkSend, TryConn, TryWith, RequestGoes, Writes, Receive, Leaves
<1>2. ASSUME NEW s \in Session, Serve(s) \/ Break(s) PROVE UNCHANGED rx /\ MapsHold
  <2>1. UNCHANGED <<rx, pending>>
    BY <1>2 DEF Serve, ServeWith, Break, client
  <2> QED BY <2>1 DEF MapsHold
<1>3. ASSUME Reconnect \/ AuthAnswered \/ UNCHANGED transportVars
      PROVE  UNCHANGED rx /\ MapsHold
  <2>1. UNCHANGED <<rx, pending>>
    BY <1>3 DEF Reconnect, Reconnected, AuthAnswered, client, transportVars
  <2> QED BY <2>1 DEF MapsHold
<1>4. ASSUME NEW k \in SdkCall, SdkMoves(k)
      PROVE  \/ UNCHANGED rx /\ (MapsHold \/ (TryConn(k) /\ Asks(k)))
             \/ WriteFails(k) \/ CallTimeout(k)
  <2>1. ASSUME RequestGoes(k) PROVE MapsHold
    BY <2>1, WriteDoes DEF client, MapsHold
  <2> QED BY <1>1, <1>4, <2>1, CallHolds, TryDoes DEF SdkMoves
<1> QED BY <1>2, <1>3, <1>4 DEF TransportMoves

\* Who has an answer waits for none, after any step.
LEMMA FinalStep ==
  ASSUME TpTypeOK, Numbered, Wired, PendingIsAwaited, ChannelsTell,
         [TransportMoves]_transportVars
  PROVE  ChannelsAreFinal'
<1>1. CASE UNCHANGED rx /\ MapsHold
  BY <1>1 DEF MapsHold, ChannelsTell, ChannelsAreFinal
<1>2. ASSUME NEW k \in SdkCall, TryConn(k), Asks(k), UNCHANGED rx PROVE ChannelsAreFinal'
  <2>1. NextRequest(k).by = k /\ rx[k] = NoReply
    BY <1>2, TryDoes DEF ChannelsTell, ChannelsOfCalls
  <2>2. \A c \in Conn : pending'[c] \subseteq pending[c] \cup {NextRequest(k)}
    BY <1>2 DEF Asks, TpTypeOK
  <2> QED BY <1>2, <2>1, <2>2 DEF ChannelsTell, ChannelsAreFinal
<1>3. ASSUME NEW k \in SdkCall, WriteFails(k) \/ CallTimeout(k) PROVE ChannelsAreFinal'
  BY <1>3, Forgotten DEF ChannelsTell, ChannelsAreFinal
<1>4. ASSUME NEW s \in Session, Dispatch(s) PROVE ChannelsAreFinal'
  <2>1. AllTold(session[s].conn, Waiting(s)) /\ Waiting(s) \subseteq pending[session[s].conn]
    BY <1>4, DispatchTells DEF Waiting
  <2>2. session[s].conn \in Conn
    BY <1>4, ReadersRead
  <2> QED BY <2>1, <2>2, ToldIsFinal
<1>5. ASSUME NEW c, FailAllPending(c), c \in Conn PROVE ChannelsAreFinal'
  <2>1. PICK W : W = pending[c] /\ AllTold(c, W)
    BY <1>5, FailAllTells
  <2> QED BY <1>5, <2>1, ToldIsFinal
<1>6. ASSUME NEW s \in Session, ReaderEnds(s) PROVE ChannelsAreFinal'
  <2>1. PICK c : c = session[s].conn
    OBVIOUS
  <2>2. c \in Conn /\ FailAllPending(c)
    BY <1>6, <2>1, ReadersRead DEF ReaderEnds
  <2> QED BY <1>5, <2>2
<1>7. ASSUME SendAuth PROVE ChannelsAreFinal'
  <2>1. /\ \A c \in Conn : pending'[c] \subseteq pending[c] \cup {AuthRequest}
        /\ \A k \in Requester : rx'[k] = IF k = Auth THEN NoReply ELSE rx[k]
    <3>1. PICK q : q = AuthRequest
      OBVIOUS
    <3>2. /\ pending' = [pending EXCEPT ![health.conn] = @ \cup {q}]
          /\ rx' = [rx EXCEPT ![Auth] = NoReply]
      BY <1>7, <3>1, SendAuthDoes
    <3> QED BY <3>1, <3>2 DEF TpTypeOK
  <2> QED BY <2>1, AuthRequestTyped DEF ChannelsTell, ChannelsAreFinal
<1>8. ASSUME AuthFails PROVE ChannelsAreFinal'
  <2>1. PICK c \in Conn : FailAllPending(c)
    BY <1>8, TpTypeParts DEF AuthFails
  <2> QED BY <1>5, <2>1
<1> QED BY <1>1, <1>2, <1>3, <1>4, <1>6, <1>7, <1>8, ChannelsStay

\* Numbers tell requests of one connection apart: an answer finds its own request.
LEMMA DispatchMatches ==
  ASSUME TpTypeOK, Numbered, Wired, NEW s \in Session, Dispatch(s),
         NEW r \in pending[session[s].conn], r.n = Head(session[s].down).req.n
  PROVE  r = Head(session[s].down).req
<1> DEFINE a == Head(session[s].down)
<1>1. a \in Answers(s) /\ a \in Answer /\ a.req \in Request
  BY DispatchLoses DEF Answer
<1>2. session[s].conn \in Conn
  BY ReadersRead
<1>3. r \in Request /\ r.conn = session[s].conn /\ Made(r)
  BY <1>2, TpTypeParts DEF Wired, PendingOfConn, Made, Awaited
<1>4. a.req.conn = session[s].conn /\ Made(a.req)
  BY <1>1 DEF Wired, WiresOfConn, Made, Served
<1> HIDE DEF a
<1>5. r.n = a.req.n
  BY DEF a
<1>6. r = a.req
  BY <1>1, <1>3, <1>4, <1>5 DEF Numbered
<1> QED BY <1>6 DEF a

\* What the health checker does not wait for is nothing.
LEMMA AuthAwaitedStep ==
  ASSUME TpTypeOK, AuthIsAwaited, [TransportMoves]_transportVars
  PROVE  AuthIsAwaited'
<1> USE DEF AuthIsAwaited
<1>1. CASE SendAuth
  BY <1>1, SendAuthDoes DEF TpTypeOK
<1>2. CASE Reconnect
  <2>1. PICK c \in Conn : health' = [health EXCEPT !.at = "auth", !.conn = c]
    BY <1>2, ReconnectOpens
  <2>2. health.at = "idle"
    BY <1>2 DEF Reconnect, Reconnected
  <2> QED BY <2>1, <2>2 DEF TpTypeOK
<1>3. CASE AuthAnswered \/ AuthFails
  BY <1>3 DEF AuthAnswered, AuthFails, TpTypeOK
<1> QED BY <1>1, <1>2, <1>3, HealthStays

\* A call's steps leave the map with what is awaited.
LEMMA CallAwaitedStep ==
  ASSUME TpTypeOK, Numbered, Wired, PendingIsAwaited, ChannelsTell,
         NEW k \in SdkCall, SdkMoves(k)
  PROVE  PendingIsAwaited'
<1> SUFFICES ASSUME NEW c \in Conn, NEW r \in pending'[c]
             PROVE  /\ r.by = Auth => health'.req = r
                    /\ r.by # Auth => /\ call'[r.by].req = r
                                      /\ call'[r.by].at \in {"writing", "waiting", "dropped"}
  BY DEF PendingIsAwaited
<1>1. UNCHANGED health /\ \A h \in SdkCall \ {k} : call'[h] = call[h]
  <2>1. CASE TryConn(k) /\ Asks(k)
    BY <2>1, TryDoes DEF Asks, TpTypeOK
  <2>2. CASE RequestGoes(k)
    BY <2>2, WriteDoes DEF TpTypeOK
  <2> QED BY <2>1, <2>2, CallHolds, TryDoes DEF SdkMoves
<1>2. \/ r \in pending[c]
      \/ TryConn(k) /\ Asks(k) /\ r = NextRequest(k)
  <2>1. CASE TryConn(k) /\ Asks(k)
    BY <2>1 DEF Asks, TpTypeOK
  <2>2. CASE RequestGoes(k)
    BY <2>2, WriteDoes DEF client
  <2> QED BY <2>1, <2>2, CallHolds, TryDoes DEF SdkMoves, MapsHold
<1>3. CASE r \in pending[c] /\ r.by # k
  BY <1>1, <1>3, PendingIsOne
<1>4. CASE r \in pending[c] /\ r.by = k
  <2>1. k # Auth /\ k \in Requester
    BY PoolNumbers
  <2>2. r = call[k].req /\ call[k].at \in {"writing", "waiting", "dropped"} /\ r.conn = c
    BY <1>4, <2>1, PendingIsOne
  <2>3. rx[k] = NoReply
    BY <1>4, <2>1 DEF ChannelsTell, ChannelsAreFinal
  <2>4. ~WriteFails(k) /\ ~CallTimeout(k)
    BY <2>2, Forgotten
  <2>5. RequestGoes(k) \/ Receive(k) \/ Leaves(k)
    BY <2>2, <2>4, TryDoes DEF SdkMoves, SdkSend
  <2>6. ~Receive(k)
    BY <2>3 DEF Receive
  <2>7. call'[k].req = call[k].req /\ call'[k].at \in {"waiting", "dropped"}
    <3>1. RequestGoes(k) \/ Leaves(k)
      BY <2>5, <2>6
    <3> QED BY <3>1, WriteDoes DEF TpTypeOK, CallState, Leaves
  <2> QED BY <1>4, <2>1, <2>2, <2>7
<1>5. CASE TryConn(k) /\ Asks(k) /\ r = NextRequest(k)
  <2>1. r.by = k /\ k # Auth
    BY <1>5, TryDoes, PoolNumbers
  <2>2. call'[k].at = "writing" /\ call'[k].req = NextRequest(k)
    <3>1. call' = [call EXCEPT ![k].at = "writing", ![k].req = NextRequest(k)]
      BY <1>5 DEF Asks
    <3> QED BY <3>1 DEF TpTypeOK, CallState
  <2> QED BY <1>5, <2>1, <2>2
<1> QED BY <1>2, <1>3, <1>4, <1>5

\* The map holds only what somebody waits for, after any step.
LEMMA AwaitedStep ==
  ASSUME TpTypeOK, Numbered, Wired, PendingIsAwaited, ChannelsTell,
         [TransportMoves]_transportVars
  PROVE  PendingIsAwaited'
<1>1. ASSUME MapsHold, UNCHANGED call, \/ health'.req = health.req
                                       \/ \A c \in Conn : \A r \in pending'[c] : r.by # Auth
      PROVE  PendingIsAwaited'
  BY <1>1 DEF MapsHold, PendingIsAwaited
<1>2. ASSUME NEW s \in Session, Serve(s) \/ Break(s) \/ Dispatch(s) \/ ReaderEnds(s)
      PROVE  PendingIsAwaited'
  <2>1. CASE Serve(s)
    BY <1>1, <2>1, ServeKeeps DEF client, MapsHold
  <2> QED BY <1>1, <1>2, <2>1, ServerHolds
<1>3. ASSUME Reconnect PROVE PendingIsAwaited'
  <2>1. PICK c \in Conn : /\ health' = [health EXCEPT !.at = "auth", !.conn = c]
                          /\ UNCHANGED <<pending, call>>
    BY <1>3, ReconnectOpens
  <2> QED BY <1>1, <2>1 DEF TpTypeOK, MapsHold
<1>4. ASSUME SendAuth PROVE PendingIsAwaited'
  <2>1. PICK q : q = AuthRequest
    OBVIOUS
  <2>2. /\ pending' = [pending EXCEPT ![health.conn] = @ \cup {q}]
        /\ health' = [health EXCEPT !.at = "auth_wait", !.req = q] /\ call' = call
    BY <1>4, <2>1, SendAuthDoes
  <2>3. /\ \A c \in Conn : pending'[c] \subseteq pending[c] \cup {q}
        /\ health'.req = q
    BY <2>2 DEF TpTypeOK
  <2>4. health.req = NoRequest
    BY <1>4 DEF SendAuth, ChannelsTell, AuthIsAwaited
  <2>5. \A c \in Conn : \A r \in pending[c] : r.by # Auth
    BY <2>4, PendingIsOne
  <2>6. q.by = Auth
    BY <2>1, AuthRequestTyped
  <2> QED BY <2>2, <2>3, <2>5, <2>6 DEF PendingIsAwaited
<1>5. ASSUME AuthAnswered PROVE PendingIsAwaited'
  <2>1. UNCHANGED <<pending, call>> /\ rx[Auth] # NoReply
    BY <1>5 DEF AuthAnswered, client
  <2>2. \A c \in Conn : \A r \in pending[c] : r.by # Auth
    BY <2>1, PoolNumbers DEF ChannelsTell, ChannelsAreFinal
  <2> QED BY <1>1, <2>1, <2>2 DEF MapsHold
<1>6. ASSUME AuthFails PROVE PendingIsAwaited'
  <2>1. UNCHANGED call /\ FailAllPending(health.conn) /\ health.at \in {"auth", "auth_wait"}
    BY <1>6 DEF AuthFails
  <2>2. \A c \in Conn : pending'[c] = IF c = health.conn THEN {} ELSE pending[c]
    BY <2>1 DEF FailAllPending, TpTypeOK
  <2>3. \A c \in Conn : \A r \in pending[c] : r.by = Auth => c = health.conn
    BY PendingIsOne DEF ChannelsTell, AuthIsAwaited, Wired, WritingOfConn
  <2> QED BY <1>1, <2>1, <2>2, <2>3 DEF MapsHold
<1>7. ASSUME UNCHANGED transportVars PROVE PendingIsAwaited'
  BY <1>1, <1>7 DEF transportVars, client, MapsHold
<1> QED BY <1>2, <1>3, <1>4, <1>5, <1>6, <1>7, CallAwaitedStep DEF TransportMoves

\* The channels of calls, after any step.
LEMMA CallChannelsStep ==
  ASSUME TpTypeOK, Numbered, Wired, WrittenOnce, PendingIsAwaited, ChannelsTell,
         [TransportMoves]_transportVars
  PROVE  ChannelsOfCalls'
<1> SUFFICES ASSUME NEW k \in SdkCall
             PROVE  /\ call'[k].at \in {"idle", "trying"} => rx'[k] = NoReply
                    /\ call'[k].at = "writing" => rx'[k].what \in {"none", "lost"}
                    /\ call'[k].at \in {"writing", "waiting", "answered"} => call'[k].req.by = k
  BY DEF ChannelsOfCalls
<1>8. k # Auth /\ k \in Requester /\ NoReply.what = "none"
  BY PoolNumbers DEF NoReply
<1>9. /\ call[k].at \in {"idle", "trying"} => rx[k] = NoReply
      /\ call[k].at = "writing" => rx[k].what \in {"none", "lost"}
      /\ call[k].at \in {"writing", "waiting", "answered"} => call[k].req.by = k
  BY DEF ChannelsTell, ChannelsOfCalls
<1>1. ASSUME SdkMoves(k)
      PROVE  /\ call'[k].at \in {"idle", "trying"} => rx'[k] = NoReply
             /\ call'[k].at = "writing" => rx'[k].what \in {"none", "lost"}
             /\ call'[k].at \in {"writing", "waiting", "answered"} => call'[k].req.by = k
  <2>1. CASE WriteFails(k) \/ CallTimeout(k)
    <3>1. call[k].req.by = k
      BY <1>9, <2>1 DEF WriteFails, CallTimeout, GiveUp
    <3>2. rx'[k] = NoReply
      BY <1>8, <2>1, <3>1, Forgotten
    <3>3. call'[k].at = "trying"
      BY <2>1 DEF WriteFails, CallTimeout, GiveUp, TpTypeOK, CallState
    <3> QED BY <3>2, <3>3
  <2>2. CASE SdkSend(k) \/ TryConn(k) \/ RequestGoes(k) \/ Receive(k) \/ Leaves(k)
    <3>1. UNCHANGED rx
      BY <2>2 DEF SdkSend, TryConn, TryWith, RequestGoes, Writes, Receive, Leaves
    <3>2. TryConn(k) => NextRequest(k).by = k /\ call[k].at = "trying"
      BY TryDoes
    <3> QED BY <1>1, <1>8, <1>9, <2>1, <3>1, <3>2, CallGoes
  <2> QED BY <1>1, <2>1, <2>2 DEF SdkMoves
<1>2. ASSUME call'[k] = call[k], rx'[k] = rx[k] \/ call[k].at \notin {"idle", "trying", "writing"}
      PROVE  /\ call'[k].at \in {"idle", "trying"} => rx'[k] = NoReply
             /\ call'[k].at = "writing" => rx'[k].what \in {"none", "lost"}
             /\ call'[k].at \in {"writing", "waiting", "answered"} => call'[k].req.by = k
  BY <1>2, <1>9
<1>3. ASSUME call'[k] = call[k], rx'[k] # rx[k], call[k].at \in {"idle", "trying", "writing"}
      PROVE  /\ call[k].at = "writing"
             /\ rx'[k].what \in {"none", "lost"}
  <2>1. ASSUME NEW c \in Conn, NEW r \in pending[c], r.by = k
        PROVE  call[k].at = "writing" /\ r = call[k].req
    BY <1>3, <1>8, <2>1, PendingIsOne
  <2>2. ASSUME NEW c \in Conn, FailAllPending(c)
        PROVE  call[k].at = "writing" /\ rx'[k].what \in {"none", "lost"}
    <3>1. PICK W : /\ W = pending[c] /\ AllTold(c, W)
                   /\ \A h \in Requester : rx'[h] = rx[h] \/ rx'[h] = [what |-> "lost", of |-> h]
      BY <2>2, FailAllTells
    <3>2. \E r \in pending[c] : r.by = k
      BY <1>3, <1>8, <3>1 DEF AllTold
    <3>3. call[k].at = "writing"
      BY <2>1, <2>2, <3>2
    <3>4. rx'[k] = [what |-> "lost", of |-> k]
      BY <1>3, <1>8, <3>1
    <3> QED BY <3>3, <3>4
  <2>3. ASSUME NEW s \in Session, Dispatch(s) PROVE FALSE
    <3>1. PICK c \in Conn : c = session[s].conn
      BY <2>3, ReadersRead
    <3>2. PICK r \in Waiting(s) : r.by = k
      BY <1>3, <1>8, <2>3, DispatchTells DEF AllTold
    <3>3. r \in pending[c] /\ r.n = Head(session[s].down).req.n
      BY <3>1, <3>2 DEF Waiting
    <3>4. r = Head(session[s].down).req
      BY <2>3, <3>1, <3>3, DispatchMatches
    <3>5. Served(r)
      BY <2>3, <3>4, DispatchLoses DEF Served
    <3> QED BY <2>1, <3>2, <3>3, <3>5 DEF WrittenOnce, WritingIsNew
  <2>4. ASSUME NEW h \in SdkCall, WriteFails(h) \/ CallTimeout(h) PROVE FALSE
    <3>1. call[h].req.by = h
      BY <2>4 DEF WriteFails, CallTimeout, GiveUp, ChannelsTell, ChannelsOfCalls
    <3>2. h = k
      BY <1>3, <1>8, <2>4, <3>1, Forgotten
    <3>3. call'[k].at = "trying" /\ call[k].at \in {"writing", "waiting"}
          /\ call'[k].tries = call[k].tries + 1 /\ call[k].tries \in Nat
      BY <2>4, <3>2 DEF WriteFails, CallTimeout, GiveUp, TpTypeOK, CallState
    <3> QED BY <1>3, <3>3
  <2>5. ASSUME SendAuth PROVE FALSE
    BY <1>3, <1>8, <2>5, SendAuthDoes DEF TpTypeOK
  <2>6. ASSUME NEW s \in Session, ReaderEnds(s) PROVE \E c \in Conn : FailAllPending(c)
    BY <2>6, ReadersRead DEF ReaderEnds
  <2>7. ASSUME AuthFails PROVE \E c \in Conn : FailAllPending(c)
    BY <2>7, TpTypeParts DEF AuthFails
  <2> QED BY <1>3, <2>2, <2>3, <2>4, <2>5, <2>6, <2>7, ChannelsStay
<1> QED BY <1>1, <1>2, <1>3, <1>9, CallsStay

\* The channels and the map go together, after any step.
LEMMA ChannelsTellStep ==
  ASSUME TpTypeOK, Numbered, Wired, WrittenOnce, PendingIsAwaited, ChannelsTell,
         [TransportMoves]_transportVars
  PROVE  ChannelsTell'
BY FinalStep, CallChannelsStep, AuthAwaitedStep DEF ChannelsTell

-----------------------------------------------------------------------------
(* Answers tell what ran *)

\* What the server runs, and how often it has run it.
LEMMA ServeRuns ==
  ASSUME TpTypeOK, NEW s \in Session, Serve(s), NEW k \in SdkCall
  PROVE  /\ executed[k] \in Nat
         /\ executed'[k] = IF Request1(s).by = k /\ Allowed(s, Request1(s))
                             THEN executed[k] + 1 ELSE executed[k]
         /\ AnswerTo(s).what = IF Allowed(s, Request1(s)) THEN "ok" ELSE "refused"
<1>1. executed' = IF Allowed(s, Request1(s)) /\ Request1(s).by # Auth
                    THEN [executed EXCEPT ![Request1(s).by] = @ + 1] ELSE executed
  BY DEF Serve, ServeWith, Request1
<1>2. Request1(s).by \in Requester /\ k # Auth
  BY ServeKeeps, PoolNumbers DEF Request
<1>3. executed[k] \in Nat /\ executed \in [SdkCall -> Nat]
  BY DEF TpTypeOK
<1>4. PICK h : h = Request1(s).by
  OBVIOUS
<1>5. h \in SdkCall \/ h = Auth
  BY <1>2, <1>4 DEF Requester
<1>6. executed'[k] = IF h = k /\ Allowed(s, Request1(s)) THEN executed[k] + 1 ELSE executed[k]
  BY <1>1, <1>2, <1>3, <1>4, <1>5
<1> QED BY <1>3, <1>4, <1>6 DEF AnswerTo

\* Only the server runs commands, and only a timeout gives an attempt up.
LEMMA CountsStay ==
  ASSUME TpTypeOK, [TransportMoves]_transportVars
  PROVE  /\ UNCHANGED executed \/ \E s \in Session : Serve(s)
         /\ \A k \in SdkCall : /\ executed[k] \in Nat /\ executed'[k] \in Nat
                               /\ executed'[k] >= executed[k]
                               /\ CallTimeout(k) \/ givenUp'[k] = givenUp[k]
<1>1. \A k \in SdkCall : executed[k] \in Nat
  BY TpTypeParts
<1>2. ASSUME NEW s \in Session, Serve(s)
      PROVE  \A k \in SdkCall : /\ executed'[k] \in Nat /\ executed'[k] >= executed[k]
                                /\ givenUp'[k] = givenUp[k]
  <2>1. UNCHANGED givenUp
    BY <1>2, ServeKeeps
  <2> QED BY <1>1, <1>2, <2>1, ServeRuns
<1>3. ASSUME NEW k \in SdkCall, SdkMoves(k)
      PROVE  /\ UNCHANGED executed
             /\ \A h \in SdkCall : CallTimeout(h) \/ givenUp'[h] = givenUp[h]
  <2>1. CASE CallTimeout(k)
    BY <2>1 DEF CallTimeout, GiveUp, TpTypeOK
  <2>2. CASE \/ SdkSend(k) \/ TryConn(k) \/ RequestGoes(k) \/ WriteFails(k) \/ Receive(k)
             \/ Leaves(k)
    BY <2>2 DEF SdkSend, TryConn, TryWith, RequestGoes, Writes, WriteFails, Receive, Leaves,
                counts
  <2> QED BY <1>3, <2>1, <2>2 DEF SdkMoves
<1>4. ASSUME NEW s \in Session, Break(s) \/ Dispatch(s) \/ ReaderEnds(s)
      PROVE  UNCHANGED counts
  BY <1>4, ServerHolds
<1>5. ASSUME Reconnect \/ SendAuth \/ AuthAnswered \/ AuthFails \/ UNCHANGED transportVars
      PROVE  UNCHANGED counts
  BY <1>5 DEF Reconnect, Reconnected, SendAuth, AuthAnswered, AuthFails, transportVars
<1> QED BY <1>1, <1>2, <1>3, <1>4, <1>5 DEF TransportMoves, counts

\* What a channel may hold after a step: what it held, nothing, the news that the
\* connection was lost, or the answer to the requester's own request.
OneTold(k, s) ==
  /\ Dispatch(s) /\ Head(session[s].down) \in Answers(s)
  /\ rx'[k] = [what |-> Head(session[s].down).what, of |-> k]
  /\ Head(session[s].down).req.by = k
  /\ k \in SdkCall => Head(session[s].down).req = call[k].req

\* A channel gets an answer only from the reader of a session.
LEMMA RepliesMove ==
  ASSUME TpTypeOK, Numbered, Wired, PendingIsAwaited, [TransportMoves]_transportVars,
         NEW k \in Requester
  PROVE  \/ rx'[k] = rx[k]
         \/ rx'[k].what \in {"none", "lost"}
         \/ \E s \in Session : OneTold(k, s)
<1>0. NoReply.what = "none"
  BY DEF NoReply
<1>1. ASSUME NEW h \in SdkCall, WriteFails(h) \/ CallTimeout(h)
      PROVE  rx'[k] = rx[k] \/ rx'[k].what = "none"
  BY <1>0, <1>1, Forgotten
<1>2. ASSUME NEW c, FailAllPending(c)
      PROVE  rx'[k] = rx[k] \/ rx'[k].what = "lost"
  <2>1. rx'[k] = rx[k] \/ rx'[k] = [what |-> "lost", of |-> k]
    BY <1>2, FailAllTells
  <2> QED BY <2>1
<1>3. ASSUME NEW s \in Session, Dispatch(s), rx'[k] # rx[k] PROVE OneTold(k, s)
  <2>1. PICK c \in Conn : c = session[s].conn
    BY <1>3, ReadersRead
  <2>2. PICK r \in Waiting(s) : r.by = k
    BY <1>3, DispatchTells DEF AllTold
  <2>3. r \in pending[c] /\ r.n = Head(session[s].down).req.n
    BY <2>1, <2>2 DEF Waiting
  <2>4. r = Head(session[s].down).req
    BY <1>3, <2>1, <2>3, DispatchMatches
  <2>5. k \in SdkCall => r = call[k].req
    BY <2>2, <2>3, PendingIsOne, PoolNumbers
  <2>6. rx'[k] = [what |-> Head(session[s].down).what, of |-> Head(session[s].down).req.by]
    BY <1>3, <2>2, DispatchTells
  <2>7. Head(session[s].down) \in Answers(s)
    BY <1>3, DispatchLoses
  <2> QED BY <1>3, <2>2, <2>4, <2>5, <2>6, <2>7 DEF OneTold
<1>4. ASSUME SendAuth PROVE rx'[k] = rx[k] \/ rx'[k].what = "none"
  BY <1>0, <1>4, SendAuthDoes DEF TpTypeOK
<1>5. ASSUME NEW s \in Session, ReaderEnds(s) PROVE \E c : FailAllPending(c)
  BY <1>5 DEF ReaderEnds
<1>6. ASSUME AuthFails PROVE \E c : FailAllPending(c)
  BY <1>6 DEF AuthFails
<1> QED BY <1>1, <1>2, <1>3, <1>4, <1>5, <1>6, ChannelsStay

\* Channels and wires say "ok" of commands that ran, after any step.
LEMMA TrueStep ==
  ASSUME TpTypeOK, Numbered, Wired, PendingIsAwaited, AnswersAreTrue,
         [TransportMoves]_transportVars
  PROVE  AnswersAreTrue'
<1>1. ASSUME NEW k \in Requester
      PROVE  /\ rx'[k].what \in {"ok", "refused"} => rx'[k].of = k
             /\ k \in SdkCall /\ rx'[k].what = "ok" => executed'[k] >= 1
  <2>1. CASE rx'[k] = rx[k]
    BY <2>1, CountsStay DEF AnswersAreTrue, RepliesAreTrue
  <2>2. CASE rx'[k].what \in {"none", "lost"}
    BY <2>2
  <2>3. ASSUME NEW s \in Session, OneTold(k, s)
        PROVE  /\ rx'[k].of = k
               /\ k \in SdkCall /\ rx'[k].what = "ok" => executed'[k] >= 1
    <3>1. PICK a : a = Head(session[s].down)
      OBVIOUS
    <3>2. a \in Answers(s) /\ rx'[k].what = a.what /\ rx'[k].of = k /\ a.req.by = k
      BY <2>3, <3>1 DEF OneTold
    <3> QED BY <3>2, CountsStay DEF AnswersAreTrue, WiresAreTrue
  <2> QED BY <2>1, <2>2, <2>3, RepliesMove
<1>2. RepliesAreTrue'
  BY <1>1, PoolNumbers DEF RepliesAreTrue
<1>3. ASSUME NEW t \in Session, NEW a \in Answers(t), a.what = "ok", a.req.by \in SdkCall
      PROVE  executed'[a.req.by] >= 1
  BY <1>3, CountsStay DEF AnswersAreTrue, WiresAreTrue
<1>4. ASSUME NEW s \in Session, Serve(s), AnswerTo(s).what = "ok",
             AnswerTo(s).req.by \in SdkCall
      PROVE  executed'[AnswerTo(s).req.by] >= 1
  <2>1. AnswerTo(s).req = Request1(s)
    BY <1>4, ServeKeeps
  <2>2. PICK k \in SdkCall : k = Request1(s).by
    BY <1>4, <2>1
  <2>3. executed[k] \in Nat /\ executed'[k] = executed[k] + 1
    BY <1>4, <2>2, ServeRuns
  <2> QED BY <2>1, <2>2, <2>3
<1>5. WiresAreTrue'
  <2> SUFFICES ASSUME NEW t \in Session, NEW a \in Answers(t)', a.what = "ok",
                      a.req.by \in SdkCall
               PROVE  executed'[a.req.by] >= 1
    BY DEF WiresAreTrue
  <2>1. a \in Answers(t) \/ \E s \in Session : Serve(s) /\ a = AnswerTo(s)
    BY WiresMove DEF Losing
  <2> QED BY <1>3, <1>4, <2>1
<1> QED BY <1>2, <1>5 DEF AnswersAreTrue

-----------------------------------------------------------------------------
(* Runs are counted *)

\* Sets of requests that lose or win one.
LEMMA CardinalitySmaller ==
  ASSUME NEW S, NEW T, IsFiniteSet(S), T \subseteq S
  PROVE  IsFiniteSet(T) /\ Cardinality(T) \in Nat /\ Cardinality(S) \in Nat
         /\ Cardinality(T) <= Cardinality(S)
BY FS_Subset, FS_CardinalityType

\* A set that loses an element is smaller.
LEMMA CardinalityWithout ==
  ASSUME NEW S, NEW T, NEW x \in S, IsFiniteSet(S), T \subseteq S \ {x}
  PROVE  IsFiniteSet(T) /\ Cardinality(T) \in Nat /\ Cardinality(S) \in Nat
         /\ Cardinality(T) + 1 <= Cardinality(S)
<1>1. IsFiniteSet(S \ {x}) /\ Cardinality(S \ {x}) = Cardinality(S) - 1
  BY FS_RemoveElement
<1>2. IsFiniteSet(T) /\ Cardinality(T) \in Nat /\ Cardinality(T) <= Cardinality(S \ {x})
  BY <1>1, CardinalitySmaller
<1>3. Cardinality(S) \in Nat
  BY FS_CardinalityType
<1> QED BY <1>1, <1>2, <1>3

\* A set that gains an element grows by one at most.
LEMMA CardinalityWith ==
  ASSUME NEW S, NEW T, NEW x, IsFiniteSet(S), T \subseteq S \cup {x}
  PROVE  IsFiniteSet(T) /\ Cardinality(T) \in Nat /\ Cardinality(S) \in Nat
         /\ Cardinality(T) <= Cardinality(S) + 1
<1>1. /\ IsFiniteSet(S \cup {x}) /\ Cardinality(S) \in Nat
      /\ Cardinality(S \cup {x}) \in {Cardinality(S), Cardinality(S) + 1}
  BY FS_AddElement, FS_CardinalityType
<1>2. IsFiniteSet(T) /\ Cardinality(T) \in Nat /\ Cardinality(T) <= Cardinality(S \cup {x})
  BY <1>1, CardinalitySmaller
<1> QED BY <1>1, <1>2

\* The requests of a call that are on the wires.
LEMMA SentMoves ==
  ASSUME TpTypeOK, ChannelsTell, [TransportMoves]_transportVars, NEW k \in SdkCall
  PROVE  \/ Sent(k)' \subseteq Sent(k)
         \/ RequestGoes(k) /\ Sent(k)' \subseteq Sent(k) \cup {call[k].req}
<1>1. ASSUME NEW r \in Request, r.by = k, SentUp(r)'
      PROVE  SentUp(r) \/ (RequestGoes(k) /\ r = call[k].req)
  <2>1. r # AuthRequest
    BY <1>1, AuthRequestTyped, PoolNumbers
  <2>2. ASSUME NEW h \in SdkCall, RequestGoes(h), r = call[h].req PROVE h = k
    BY <1>1, <2>2, WriteDoes DEF ChannelsTell, ChannelsOfCalls
  <2> QED BY <1>1, <2>1, <2>2, WiresStay
<1> QED BY <1>1 DEF Sent

\* A call that is refused in a step was to be, or is refused by the server now.
LEMMA RefusalMoves ==
  ASSUME TpTypeOK, Numbered, Wired, PendingIsAwaited, [TransportMoves]_transportVars,
         NEW k \in SdkCall, call'[k].req = call[k].req, Refusal(k)'
  PROVE  \/ Refusal(k)
         \/ \E s \in Session : /\ Serve(s) /\ Request1(s) = call[k].req
                               /\ ~Allowed(s, Request1(s))
<1>1. ASSUME rx'[k].what = "refused" PROVE Refusal(k)
  <2>1. k \in Requester
    BY PoolNumbers
  <2>2. CASE rx'[k] = rx[k]
    BY <1>1, <2>2 DEF Refusal
  <2>3. ASSUME NEW s \in Session, OneTold(k, s) PROVE Refusal(k)
    <3>1. PICK a : a = Head(session[s].down)
      OBVIOUS
    <3>2. a \in Answers(s) /\ rx'[k].what = a.what /\ a.req = call[k].req
      BY <2>3, <3>1 DEF OneTold
    <3> QED BY <1>1, <3>2 DEF Refusal
  <2> QED BY <1>1, <2>1, <2>2, <2>3, RepliesMove
<1>2. ASSUME NEW t \in Session, NEW a \in Answers(t)', a.req = call[k].req, a.what = "refused"
      PROVE  \/ Refusal(k)
             \/ \E s \in Session : /\ Serve(s) /\ Request1(s) = call[k].req
                                   /\ ~Allowed(s, Request1(s))
  <2>1. a \in Answers(t) \/ \E s \in Session : Serve(s) /\ a = AnswerTo(s)
    BY WiresMove DEF Losing
  <2>2. CASE a \in Answers(t)
    BY <1>2, <2>2 DEF Refusal
  <2>3. ASSUME NEW s \in Session, Serve(s), a = AnswerTo(s)
        PROVE  Request1(s) = call[k].req /\ ~Allowed(s, Request1(s))
    BY <1>2, <2>3, ServeKeeps, ServeRuns
  <2> QED BY <2>1, <2>2, <2>3
<1>3. \/ rx'[k].what = "refused"
      \/ \E t \in Session : \E a \in Answers(t)' : a.req = call'[k].req /\ a.what = "refused"
  BY DEF Refusal
<1> QED BY <1>1, <1>2, <1>3

\* How many attempts are due after a step of the call itself, or of another.
LEMMA DueMoves ==
  ASSUME TpTypeOK, Numbered, Wired, WrittenOnce, PendingIsAwaited, ChannelsTell,
         [TransportMoves]_transportVars, NEW k \in SdkCall
  PROVE  /\ Due(k) \in {0, 1} /\ Due(k)' \in {0, 1}
         /\ RequestGoes(k) => Due(k) = 0 /\ Due(k)' = 1
         /\ \/ CallTimeout(k) \/ Due(k) <= Due(k)'
            \/ \E s \in Session : /\ Serve(s) /\ Request1(s) = call[k].req
                                  /\ ~Allowed(s, Request1(s)) /\ call[k].req.by = k
<1>1. Due(k) \in {0, 1} /\ Due(k)' \in {0, 1}
  BY DEF Due
<1>2. ASSUME RequestGoes(k) PROVE Due(k) = 0 /\ Due(k)' = 1
  <2>1. /\ call[k].at = "writing" /\ call'[k].at \in {"waiting", "dropped"}
        /\ call'[k].req = call[k].req
    BY <1>2, WriteDoes DEF TpTypeOK, CallState
  <2>2. Due(k) = 0
    BY <2>1 DEF Due
  <2>3. UNCHANGED rx /\ \A t \in Session : Answers(t)' = Answers(t)
    BY <1>2, WriteDoes, RequestWritten
  <2>4. rx[k].what # "refused" /\ ~Served(call[k].req)
    BY <2>1 DEF ChannelsTell, ChannelsOfCalls, WrittenOnce, WritingIsNew
  <2>5. ~Refusal(k)'
    BY <2>1, <2>3, <2>4 DEF Refusal, Served
  <2> QED BY <2>1, <2>2, <2>5 DEF Due
<1>3. ASSUME Due(k) = 1, Due(k)' = 0, ~CallTimeout(k)
      PROVE  \E s \in Session : /\ Serve(s) /\ Request1(s) = call[k].req
                                /\ ~Allowed(s, Request1(s)) /\ call[k].req.by = k
  <2>0. call[k].at # "dropped" /\ call'[k].at # "dropped"
    <3>1. call'[k].at # "dropped"
      BY <1>3 DEF Due
    <3>2. CASE SdkMoves(k)
      <4>1. TryConn(k) => call[k].at = "trying"
        BY TryDoes
      <4> QED BY <3>1, <3>2, <4>1, CallGoes
    <3>3. CASE call'[k] = call[k]
      BY <3>1, <3>3
    <3> QED BY <3>2, <3>3, CallsStay
  <2>1. call[k].at \in {"waiting", "answered"} /\ ~Refusal(k)
    BY <1>3, <2>0 DEF Due
  <2>2. call'[k].at \in {"waiting", "answered"} /\ call'[k].req = call[k].req
    <3>1. CASE call'[k] = call[k]
      BY <2>1, <3>1
    <3>2. CASE SdkMoves(k)
      BY <1>3, <2>0, <2>1, <3>2, CallGoes, TryDoes
    <3> QED BY <3>1, <3>2, CallsStay
  <2>3. Refusal(k)'
    BY <1>3, <2>2 DEF Due
  <2>4. call[k].req.by = k
    BY <2>1 DEF ChannelsTell, ChannelsOfCalls
  <2> QED BY <2>1, <2>2, <2>3, <2>4, RefusalMoves
<1> QED BY <1>1, <1>2, <1>3

\* The runs of a call are within its attempts, after any step.
LEMMA CountedStep ==
  ASSUME TpTypeOK, Numbered, Wired, WrittenOnce, PendingIsAwaited, ChannelsTell, RunsCounted,
         [TransportMoves]_transportVars
  PROVE  RunsCounted'
<1> SUFFICES ASSUME NEW k \in SdkCall
             PROVE  /\ IsFiniteSet(Sent(k)')
                    /\ Cardinality(Sent(k)') + executed'[k] <= givenUp'[k] + Due(k)'
  BY DEF RunsCounted
<1>0. PICK S, T, e, g, d, f : /\ S = Sent(k) /\ T = Sent(k)' /\ e = executed[k]
                              /\ g = givenUp[k] /\ d = Due(k) /\ f = Due(k)'
  OBVIOUS
<1>1. /\ IsFiniteSet(S) /\ Cardinality(S) + e <= g + d
      /\ e \in Nat /\ g \in Nat /\ d \in {0, 1} /\ f \in {0, 1} /\ Cardinality(S) \in Nat
  <2>1. IsFiniteSet(S) /\ Cardinality(S) + e <= g + d
    BY <1>0 DEF RunsCounted
  <2>2. d \in {0, 1} /\ f \in {0, 1}
    BY <1>0, DueMoves
  <2>3. e \in Nat /\ g \in Nat
    BY <1>0, TpTypeParts
  <2> QED BY <2>1, <2>2, <2>3, FS_CardinalityType
<1> SUFFICES IsFiniteSet(T) /\ Cardinality(T) + executed'[k] <= givenUp'[k] + f
  BY <1>0
<1>2. CASE RequestGoes(k)
  <2>1. executed'[k] = e /\ givenUp'[k] = g
    BY <1>0, <1>2, WriteDoes DEF counts
  <2>2. d = 0 /\ f = 1
    BY <1>0, <1>2, DueMoves
  <2>3. T \subseteq S \cup {call[k].req}
    BY <1>0, SentMoves
  <2>4. IsFiniteSet(T) /\ Cardinality(T) \in Nat /\ Cardinality(T) <= Cardinality(S) + 1
    BY <1>1, <2>3, CardinalityWith
  <2> QED BY <1>1, <2>1, <2>2, <2>4
<1>3. CASE ~RequestGoes(k)
  <2>1. T \subseteq S
    BY <1>0, <1>3, SentMoves
  <2>2. IsFiniteSet(T) /\ Cardinality(T) \in Nat /\ Cardinality(T) <= Cardinality(S)
    BY <1>1, <2>1, CardinalitySmaller
  <2>3. CASE CallTimeout(k)
    <3>1. executed'[k] = e /\ givenUp'[k] = g + 1
      BY <1>0, <2>3 DEF CallTimeout, GiveUp, TpTypeOK
    <3> QED BY <1>1, <2>2, <3>1
  <2>4. CASE ~CallTimeout(k) /\ \E s \in Session : Serve(s) /\ Request1(s).by = k
    <3>1. PICK s \in Session : Serve(s) /\ Request1(s).by = k
      BY <2>4
    <3>2. PICK r : r = Request1(s)
      OBVIOUS
    <3>3. r \in S /\ r \notin T
      <4>1. /\ r \in Request /\ r \in Up(s) /\ r \notin Up(s)'
            /\ \A t \in Session : Up(t)' \subseteq Up(t)
        BY <3>1, <3>2, ServeKeeps DEF WrittenOnce, OnceOnWires
      <4>2. \A t \in Session : r \notin Up(t)'
        BY <4>1 DEF WrittenOnce, OnceOnWires
      <4> QED BY <1>0, <3>1, <3>2, <4>1, <4>2 DEF Sent, SentUp
    <3>4. IsFiniteSet(T) /\ Cardinality(T) \in Nat /\ Cardinality(T) + 1 <= Cardinality(S)
      BY <1>1, <2>1, <3>3, CardinalityWithout
    <3>5. givenUp'[k] = g
      BY <1>0, <2>4, CountsStay
    <3>6. executed'[k] = IF Allowed(s, r) THEN e + 1 ELSE e
      BY <1>0, <3>1, <3>2, ServeRuns
    <3>7. CASE Allowed(s, r)
      <4>1. d <= f
        <5> SUFFICES ASSUME NEW q \in Session, Serve(q), ~Allowed(q, Request1(q)),
                            Request1(q) = call[k].req
                     PROVE  FALSE
          BY <1>0, <1>1, <2>4, DueMoves
        <5>1. AnswerTo(q).what = "refused" /\ executed'[k] = executed[k]
          BY ServeRuns
        <5>2. executed'[k] = e + 1
          BY <3>6, <3>7
        <5> QED BY <1>0, <1>1, <5>1, <5>2
      <4> QED BY <1>1, <3>4, <3>5, <3>6, <3>7, <4>1
    <3>8. CASE ~Allowed(s, r)
      BY <1>1, <3>4, <3>5, <3>6, <3>8
    <3> QED BY <3>7, <3>8
  <2>5. CASE ~CallTimeout(k) /\ ~\E s \in Session : Serve(s) /\ Request1(s).by = k
    <3>1. givenUp'[k] = g
      BY <1>0, <2>5, CountsStay
    <3>2. executed'[k] = e
      BY <1>0, <2>5, CountsStay, ServeRuns
    <3>3. d <= f
      BY <1>0, <1>1, <2>5, DueMoves
    <3> QED BY <1>1, <2>2, <3>1, <3>2, <3>3
  <2> QED BY <2>3, <2>4, <2>5
<1> QED BY <1>2, <1>3

-----------------------------------------------------------------------------
(* The invariant *)

\* It holds of a new pool.
LEMMA TpInitially == TransportInit => TpInv
<1> SUFFICES ASSUME NEW o \in Openings, TransportStart(o) PROVE TpInv
  BY DEF TransportInit
<1> USE DEF TransportStart
<1>1. /\ o.size \in Nat /\ o.size >= 1 /\ o.size <= MaxPool /\ o.calls \subseteq SdkCall
      /\ MaxPool \in Nat /\ MaxReconnects \in Nat
  BY TransportAssumption
<1>2. \A c \in Conn : c < o.size => c + 1 \in Session
  BY <1>1 DEF Conn, Session
<1>3. \A s \in Session : s <= o.size => s - 1 \in Conn
  BY <1>1 DEF Conn, Session
<1>4. session \in [Session -> SessionState]
  BY <1>3, OpenedState, PoolNumbers
<1>5. TpTypeOK
  <2>1. writer \in [Conn -> Session \cup {0}]
    BY <1>2
  <2>2. call \in [SdkCall -> CallState]
    BY PoolNumbers DEF CallState, CallSteps
  <2>3. health \in [at : {"idle", "auth", "auth_wait"}, conn : Conn, req : Request]
    BY PoolNumbers
  <2>4. poolSize \in 1..MaxPool
    BY <1>1
  <2>5. /\ connected \in [Conn -> BOOLEAN] /\ pending \in [Conn -> SUBSET Request]
        /\ reqCounter \in [Conn -> Nat]
    OBVIOUS
  <2>6. rx \in [Requester -> Channel]
    BY PoolNumbers
  <2>7. executed \in [SdkCall -> Nat] /\ givenUp \in [SdkCall -> Nat]
    OBVIOUS
  <2> QED BY <1>4, <2>1, <2>2, <2>3, <2>4, <2>5, <2>6, <2>7 DEF TpTypeOK
<1>6. \A s \in Session : /\ session[s].up = <<>> /\ session[s].out = <<>>
                         /\ session[s].down = <<>>
  BY <1>3, OpenedState DEF Unopened
<1>7. \A s \in Session : Up(s) = {} /\ Answers(s) = {} /\ NoneTwice(session[s].up)
  <2>1. ToSet(<<>>) = {} /\ NoneTwice(<<>>)
    BY DEF ToSet, NoneTwice
  <2> SUFFICES ASSUME NEW s \in Session
               PROVE  Up(s) = {} /\ Answers(s) = {} /\ NoneTwice(session[s].up)
    OBVIOUS
  <2>2. session[s].up = <<>> /\ session[s].out = <<>> /\ session[s].down = <<>>
    BY <1>6
  <2>3. Up(s) = {} /\ Answers(s) = {}
    BY ONLY <2>1, <2>2 DEF Up, Answers
  <2>4. NoneTwice(session[s].up)
    BY ONLY <2>1, <2>2
  <2> QED BY <2>3, <2>4
<1>8. \A r : ~Made(r)
  BY <1>7 DEF Made, SentUp, Served, Awaited, Held
<1>9. Numbered
  BY <1>8 DEF Numbered
<1>10. Wired
  <2>1. \A c \in Conn : writer[c] # 0 => session[writer[c]].conn = c
    <3> SUFFICES ASSUME NEW c \in Conn, c < o.size PROVE session[c + 1].conn = c
      OBVIOUS
    <3>1. c + 1 \in Session /\ c + 1 <= o.size /\ (c + 1) - 1 = c
      BY <1>1, <1>2, PoolNumbers
    <3> QED BY <3>1, OpenedState
  <2> QED BY <1>7, <2>1 DEF Wired, WiresOfConn, WritersOfConn, PendingOfConn, WritingOfConn
<1>11. WrittenOnce
  BY <1>7 DEF WrittenOnce, OnceOnWires, WritingIsNew
<1>12. PendingIsAwaited
  BY DEF PendingIsAwaited
<1>13. ChannelsTell
  <2>1. ChannelsAreFinal
    BY DEF ChannelsAreFinal
  <2>2. ChannelsOfCalls
    <3> SUFFICES ASSUME NEW k \in SdkCall
                 PROVE  call[k].at \in {"idle", "unused"} /\ rx[k] = NoReply
      BY DEF ChannelsOfCalls
    <3>1. call[k].at = IF k \in o.calls THEN "idle" ELSE "unused"
      OBVIOUS
    <3>2. rx[k] = NoReply
      BY PoolNumbers
    <3> QED BY <3>1, <3>2
  <2>3. AuthIsAwaited
    BY DEF AuthIsAwaited
  <2> QED BY <2>1, <2>2, <2>3 DEF ChannelsTell
<1>14. AnswersAreTrue
  BY <1>7, PoolNumbers DEF AnswersAreTrue, RepliesAreTrue, WiresAreTrue, NoReply
<1>15. RunsCounted
  <2> SUFFICES ASSUME NEW k \in SdkCall
               PROVE  /\ IsFiniteSet(Sent(k))
                      /\ Cardinality(Sent(k)) + executed[k] <= givenUp[k] + Due(k)
    BY DEF RunsCounted
  <2>1. Sent(k) = {}
    BY <1>7 DEF Sent, SentUp
  <2>2. Due(k) = 0
    BY DEF Due
  <2> QED BY <2>1, <2>2, FS_EmptySet
<1> QED BY <1>5, <1>9, <1>10, <1>11, <1>12, <1>13, <1>14, <1>15 DEF TpInv

\* It is kept by every step.
LEMMA TpInvStep == TpInv /\ [TransportMoves]_transportVars => TpInv'
BY TpTypeStep, NumberedStep, WiredStep, OnceStep, WritingNewStep, AwaitedStep, ChannelsTellStep,
   TrueStep, CountedStep DEF TpInv, WrittenOnce

\* It says what a caller learns.
LEMMA CallersLearn == TpInv => CallsAnswered
<1> SUFFICES ASSUME TpInv, NEW k \in SdkCall
             PROVE  /\ executed[k] <= givenUp[k] + 1
                    /\ call[k].at = "answered" /\ rx[k].what = "ok" =>
                         rx[k].of = k /\ executed[k] >= 1
                    /\ call[k].at = "answered" /\ rx[k].what = "refused" =>
                         rx[k].of = k /\ executed[k] <= givenUp[k]
                    /\ call[k].at = "failed" => executed[k] <= givenUp[k]
  BY DEF CallsAnswered, AnswerTellsExecution, TpInv
<1>1. k \in Requester
  BY PoolNumbers
<1>2. rx[k].what \in {"ok", "refused"} => rx[k].of = k
  BY <1>1 DEF TpInv, AnswersAreTrue, RepliesAreTrue
<1>3. rx[k].what = "ok" => executed[k] >= 1
  BY DEF TpInv, AnswersAreTrue, RepliesAreTrue
<1>4. executed[k] \in Nat /\ givenUp[k] \in Nat
  BY TpTypeParts DEF TpInv
<1>5. PICK n \in Nat : n = Cardinality(Sent(k))
  BY FS_CardinalityType DEF TpInv, RunsCounted
<1>6. n + executed[k] <= givenUp[k] + Due(k)
  BY <1>5 DEF TpInv, RunsCounted
<1>7. /\ Due(k) \in {0, 1}
      /\ call[k].at = "failed" \/ (call[k].at = "answered" /\ rx[k].what = "refused")
           => Due(k) = 0
  BY DEF Due, Refusal
<1>8. executed[k] <= givenUp[k] + 1
  BY <1>4, <1>5, <1>6, <1>7
<1>9. call[k].at = "failed" \/ (call[k].at = "answered" /\ rx[k].what = "refused")
        => executed[k] <= givenUp[k]
  BY <1>4, <1>5, <1>6, <1>7
<1> QED BY <1>2, <1>3, <1>8, <1>9

\* What an answer says about the engine is so, for any number of calls over any
\* pool, with sessions that break and are opened again and calls that are dropped;
\* and the map of pending requests holds only what somebody waits for and the last
\* request of each call that was dropped.
THEOREM CallersAreTold == TransportSpec => []CallsAnswered
<1>1. TransportInit => TpInv
  BY TpInitially
<1>2. TpInv /\ [TransportNext]_transportVars => TpInv'
  BY TpInvStep, NextMoves
<1>3. TpInv => CallsAnswered
  BY CallersLearn
<1> QED BY <1>1, <1>2, <1>3, PTL DEF TransportSpec
=============================================================================

--------------------------- MODULE JobStoreProofs ---------------------------
(***************************************************************************)
(* The engine implements JobStore: every lock scope of every thread is one *)
(* step of the store, or invisible to it.                                  *)
(*                                                                         *)
(* The status of a job is read from the one place it is in.  Each action   *)
(* moves the jobs in its hand or those it withdraws from a container, and  *)
(* leaves all others where they are; so there is one lemma for each kind   *)
(* of move, and one step for each action that says which kind it is.  That *)
(* keys and groups stay apart when jobs are submitted and started comes    *)
(* from UniqueKeysExclusive and from ActiveApart.                          *)
(***************************************************************************)
EXTENDS JobExclusionProofs

\* What a job is to the store while a thread has it in hand, by the thread's step.
PendingSteps == {"batch_check", "batch_insert"}
ActiveSteps == ExecutingSteps \cup {"timeout_index", "timeout_place"}
DoneSteps == {"ack_record", "acks_record"}
UnbornSteps == {"push_ready", "push_waiting"}

HandStatus(step, j) ==
  CASE step \in PendingSteps -> "pending"
    [] step \in ActiveSteps -> "active"
    [] step \in DoneSteps -> IF j \in RemoveOnComplete THEN "gone" ELSE "done"
    [] step \in UnbornSteps -> "unborn"
    [] OTHER -> "gone"

\* In no container and no hand.
Nowhere(j) == j \notin Stored /\ \A t \in Thread : j \notin hand[t]

\* Held, spelled out.
LEMMA HeldIs == \A S : \A j : j \in Held(S) <=> \E t \in Thread : pc[t] \in S /\ j \in hand[t]
  BY DEF Held

\* StatusOf, read from the place of the job: each job is in one place (SingleOwner),
\* so the order of its cases does not matter.
StatusByPlace ==
  \A j \in Job :
    /\ j \in queued \cup waitingDeps => StatusOf(j) = "pending"
    /\ j \in processing => StatusOf(j) = "active"
    /\ j \in dlq => StatusOf(j) = "dead"
    /\ j \in completed => StatusOf(j) = "done"
    /\ \A t \in Thread : j \in hand[t] => StatusOf(j) = HandStatus(pc[t], j)
    /\ Nowhere(j) => StatusOf(j) = IF j \in created THEN "gone" ELSE "unborn"

\* So it is in every reachable state.
LEMMA Places == Owned => StatusByPlace
<1> SUFFICES ASSUME Owned, NEW j \in Job
             PROVE  /\ j \in queued \cup waitingDeps => StatusOf(j) = "pending"
                    /\ j \in processing => StatusOf(j) = "active"
                    /\ j \in dlq => StatusOf(j) = "dead"
                    /\ j \in completed => StatusOf(j) = "done"
                    /\ \A t \in Thread : j \in hand[t] => StatusOf(j) = HandStatus(pc[t], j)
                    /\ Nowhere(j) => StatusOf(j) = IF j \in created THEN "gone" ELSE "unborn"
  BY DEF StatusByPlace
<1>0. /\ j \in Held(PendingSteps) <=> \E t \in Thread : pc[t] \in PendingSteps /\ j \in hand[t]
      /\ j \in Held({"timeout_index", "timeout_place"})
           <=> \E t \in Thread : pc[t] \in {"timeout_index", "timeout_place"} /\ j \in hand[t]
      /\ j \in Held(DoneSteps) <=> \E t \in Thread : pc[t] \in DoneSteps /\ j \in hand[t]
      /\ j \in Held(UnbornSteps) <=> \E t \in Thread : pc[t] \in UnbornSteps /\ j \in hand[t]
      /\ j \in Executing
           <=> j \in processing \/ \E t \in Thread : pc[t] \in ExecutingSteps /\ j \in hand[t]
  BY HeldIs, ExecutingIs DEF Executes
<1>1. CASE j \in Stored
  <2>1. \A t \in Thread : j \notin hand[t]
    BY <1>1 DEF Owned, SingleOwner, Stored
  <2>2. /\ j \notin Held(PendingSteps) /\ j \notin Held({"timeout_index", "timeout_place"})
        /\ j \notin Held(DoneSteps) /\ j \notin Held(UnbornSteps)
        /\ j \in Executing <=> j \in processing
    BY <1>0, <2>1
  <2>3. j \in created
    BY <1>1 DEF Owned, OnlyCreated
  <2>4. CASE j \in queued \cup waitingDeps
    <3>1. j \notin processing /\ j \notin dlq /\ j \notin completed
      BY <2>4 DEF Owned, SingleOwner
    <3> QED BY <2>1, <2>2, <2>3, <2>4, <3>1
            DEF StatusOf, Nowhere, Stored, PendingSteps, DoneSteps, UnbornSteps
  <2>5. CASE j \in processing
    <3>1. j \notin queued \cup waitingDeps /\ j \notin dlq /\ j \notin completed
      BY <2>5 DEF Owned, SingleOwner
    <3> QED BY <2>1, <2>2, <2>3, <2>5, <3>1
            DEF StatusOf, Nowhere, Stored, PendingSteps, DoneSteps, UnbornSteps
  <2>6. CASE j \in completed
    <3>1. j \notin queued \cup waitingDeps /\ j \notin dlq /\ j \notin processing
      BY <2>6 DEF Owned, SingleOwner
    <3> QED BY <2>1, <2>2, <2>3, <2>6, <3>1
            DEF StatusOf, Nowhere, Stored, PendingSteps, DoneSteps, UnbornSteps
  <2>7. CASE j \in dlq
    <3>1. j \notin queued \cup waitingDeps /\ j \notin processing /\ j \notin completed
      BY <2>7 DEF Owned, SingleOwner
    <3> QED BY <2>1, <2>2, <2>3, <2>7, <3>1
            DEF StatusOf, Nowhere, Stored, PendingSteps, DoneSteps, UnbornSteps
  <2> QED BY <1>1, <2>4, <2>5, <2>6, <2>7 DEF Stored
<1>2. CASE \E t \in Thread : j \in hand[t]
  <2>1. PICK t \in Thread : j \in hand[t]
    BY <1>2
  <2>2. j \notin Stored /\ \A u \in Thread : j \in hand[u] => u = t
    BY <2>1 DEF Owned, SingleOwner, Stored
  <2>3. j \in created
    BY <2>1 DEF Owned, OnlyCreated
  <2>4. /\ j \in Held(PendingSteps) <=> pc[t] \in PendingSteps
        /\ j \in Held({"timeout_index", "timeout_place"})
             <=> pc[t] \in {"timeout_index", "timeout_place"}
        /\ j \in Held(DoneSteps) <=> pc[t] \in DoneSteps
        /\ j \in Held(UnbornSteps) <=> pc[t] \in UnbornSteps
        /\ j \in Executing <=> pc[t] \in ExecutingSteps
    BY <1>0, <2>1, <2>2 DEF Stored
  <2>5. StatusOf(j) = HandStatus(pc[t], j)
    BY <2>2, <2>3, <2>4 DEF StatusOf, HandStatus, Stored, PendingSteps, ActiveSteps, DoneSteps,
            UnbornSteps, ExecutingSteps
  <2> QED BY <2>1, <2>2, <2>5 DEF Stored, Nowhere
<1>3. CASE Nowhere(j)
  <2>1. /\ j \notin Held(PendingSteps) /\ j \notin Held({"timeout_index", "timeout_place"})
        /\ j \notin Held(DoneSteps) /\ j \notin Held(UnbornSteps) /\ j \notin Executing
    BY <1>0, <1>3 DEF Nowhere, Stored
  <2> QED BY <1>3, <2>1 DEF StatusOf, Nowhere, Stored, PendingSteps, DoneSteps, UnbornSteps
<1> QED BY <1>1, <1>2, <1>3 DEF Nowhere

\* After a step, too.
LEMMA PlacesNext == Owned' => StatusByPlace'
BY Places, PTL

-----------------------------------------------------------------------------
\* Some jobs change from a status in `from` to one in `to`, and no other job changes.
Changes(from, to) ==
  \A j \in Job : StatusOf(j)' # StatusOf(j) => StatusOf(j) \in from /\ StatusOf(j)' \in to

\* Only thread c moves, and only the jobs in S change their place.
Untouched(c, S) ==
  /\ \A u \in Thread \ {c} : pc'[u] = pc[u] /\ hand'[u] = hand[u]
  /\ \A j \in Job \ S :
       /\ j \in queued' \cup waitingDeps' <=> j \in queued \cup waitingDeps
       /\ j \in processing' <=> j \in processing
       /\ j \in dlq' <=> j \in dlq
       /\ j \in completed' <=> j \in completed
       /\ j \in created' <=> j \in created
       /\ j \in hand'[c] <=> j \in hand[c]
       /\ j \in hand[c] => HandStatus(pc'[c], j) = HandStatus(pc[c], j)

\* A job whose place does not change keeps its status.
LEMMA Elsewhere ==
  ASSUME Owned, Owned', NEW c \in Thread, NEW S, Untouched(c, S), NEW j \in Job, j \notin S
  PROVE  StatusOf(j)' = StatusOf(j)
<1>0. StatusByPlace /\ StatusByPlace'
  BY Places, PlacesNext
<1>1. CASE j \in queued \cup waitingDeps \/ j \in processing \/ j \in dlq \/ j \in completed
  BY <1>0, <1>1 DEF StatusByPlace, Untouched
<1>2. CASE \E t \in Thread : j \in hand[t]
  BY <1>0, <1>2 DEF StatusByPlace, Untouched
<1>3. CASE Nowhere(j)
  <2>1. Nowhere(j)'
    BY <1>3 DEF Untouched, Nowhere, Stored
  <2> QED BY <1>0, <1>3, <2>1 DEF StatusByPlace, Untouched
<1> QED BY <1>1, <1>2, <1>3 DEF Nowhere, Stored

\* So only the jobs in S need a look.
LEMMA ChangesOnly ==
  ASSUME Owned, Owned', NEW c \in Thread, NEW S, Untouched(c, S), NEW from, NEW to,
         \A j \in S \cap Job :
           StatusOf(j)' # StatusOf(j) => StatusOf(j) \in from /\ StatusOf(j)' \in to
  PROVE  Changes(from, to)
BY Elsewhere DEF Changes

\* No status changes: the step is invisible to the store.
Quiet == \A j \in Job : StatusOf(j)' = StatusOf(j)

\* A step that moves no job at all changes no status.
LEMMA NothingChanges ==
  ASSUME Owned, Owned', NEW c \in Thread, Untouched(c, {})
  PROVE  Quiet
BY Elsewhere DEF Quiet

\* A job taken out of the processing table stays active in the hand of the thread.
LEMMA TakenIsActive ==
  ASSUME Owned, Owned', NEW t \in Thread, NEW j, TakeFromProcessing(t, j),
         UNCHANGED created, pc'[t] \in ActiveSteps,
         \A i \in hand[t] : HandStatus(pc'[t], i) = HandStatus(pc[t], i),
         \A u \in Thread \ {t} : pc'[u] = pc[u]
  PROVE  Quiet
<1>0. StatusByPlace /\ StatusByPlace'
  BY Places, PlacesNext
<1>1. j \in Job /\ j \in processing /\ j \in hand'[t]
  BY DEF TakeFromProcessing, Take, Owned, TypeOK
<1>2. Untouched(t, {j})
  BY DEF TakeFromProcessing, Take, Owned, TypeOK, Untouched
<1>3. StatusOf(j) = "active" /\ StatusOf(j)' = "active"
  <2>1. StatusOf(j)' = HandStatus(pc'[t], j)
    BY <1>0, <1>1 DEF StatusByPlace
  <2>2. HandStatus(pc'[t], j) = "active"
    BY DEF HandStatus, ActiveSteps, ExecutingSteps, PendingSteps, DoneSteps, UnbornSteps
  <2> QED BY <1>0, <1>1, <2>1, <2>2 DEF StatusByPlace
<1> QED BY <1>2, <1>3, Elsewhere DEF Quiet

\* What a step of the store does to the statuses of jobs that were submitted before.
Harmless ==
  \/ Quiet
  \/ Changes({"active"}, {"done", "gone"})
  \/ Changes({"active"}, {"pending"})
  \/ Changes({"active", "pending"}, {"dead"})
  \/ Changes({"dead"}, {"pending"})
  \/ Changes({"pending", "active", "dead", "done"}, {"gone"})

\* A job in a container is in no hand, and the other way round.
LEMMA OnePlace ==
  ASSUME Owned
  PROVE  /\ \A j \in Stored : j \in created /\ \A t \in Thread : j \notin hand[t]
         /\ \A t \in Thread : \A j \in hand[t] :
              /\ j \in Job /\ j \in created /\ j \notin Stored
              /\ \A u \in Thread \ {t} : j \notin hand[u]
BY DEF Owned, TypeOK, SingleOwner, OnlyCreated, Stored

\* The jobs in the hand of a thread at these steps are active.
LEMMA ActiveInHand ==
  \A t, j : pc[t] \in ActiveSteps => HandStatus(pc[t], j) = "active"
BY DEF HandStatus, ActiveSteps, ExecutingSteps, PendingSteps, DoneSteps, UnbornSteps

\* Jobs withdrawn from the containers are gone.
LEMMA WithdrawnIsGone ==
  ASSUME Owned, Owned', NEW t \in Thread, NEW S, S \subseteq Stored, Untouched(t, S),
         \A j \in S : j \notin Stored', UNCHANGED hand, created \subseteq created'
  PROVE  Changes({"pending", "active", "dead", "done"}, {"gone"})
<1>0. StatusByPlace /\ StatusByPlace'
  BY Places, PlacesNext
<1>1. ASSUME NEW j \in S \cap Job
      PROVE  StatusOf(j) \in {"pending", "active", "dead", "done"} /\ StatusOf(j)' = "gone"
  <2>1. StatusOf(j) \in {"pending", "active", "dead", "done"}
    BY <1>0 DEF StatusByPlace, Stored
  <2>2. Nowhere(j)' /\ j \in created'
    BY OnePlace DEF Nowhere
  <2> QED BY <1>0, <2>1, <2>2 DEF StatusByPlace
<1> QED BY <1>1, ChangesOnly

\* Jobs dropped by the thread that ended them are gone.
LEMMA DroppedIsGone ==
  ASSUME Owned, Owned', NEW t \in Thread, NEW S, S \subseteq hand[t], pc[t] \in ActiveSteps,
         Untouched(t, S), \A j \in S : j \notin Stored' /\ j \notin hand'[t],
         created \subseteq created'
  PROVE  Changes({"active"}, {"done", "gone"})
<1>0. StatusByPlace /\ StatusByPlace'
  BY Places, PlacesNext
<1>1. ASSUME NEW j \in S \cap Job
      PROVE  StatusOf(j) = "active" /\ StatusOf(j)' = "gone"
  <2>1. StatusOf(j) = "active"
    BY <1>0, ActiveInHand DEF StatusByPlace
  <2>2. Nowhere(j)' /\ j \in created'
    BY OnePlace DEF Nowhere, Untouched
  <2> QED BY <1>0, <2>1, <2>2 DEF StatusByPlace
<1> QED BY <1>1, ChangesOnly

\* A job put back in its queue is retried, one put among the dead letters is buried.
LEMMA PlacedIsPending ==
  ASSUME Owned, Owned', NEW t \in Thread, NEW j \in hand[t], pc[t] \in ActiveSteps,
         Untouched(t, {j}), j \in queued' \/ j \in dlq'
  PROVE  Changes({"active"}, {"pending"}) \/ Changes({"active", "pending"}, {"dead"})
<1>0. StatusByPlace /\ StatusByPlace' /\ j \in Job
  BY Places, PlacesNext, OnePlace
<1>1. StatusOf(j) = "active"
  BY <1>0, ActiveInHand DEF StatusByPlace
<1>2. StatusOf(j)' = "pending" \/ StatusOf(j)' = "dead"
  BY <1>0 DEF StatusByPlace
<1>3. CASE StatusOf(j)' = "pending"
  BY <1>1, <1>3, ChangesOnly
<1>4. CASE StatusOf(j)' = "dead"
  BY <1>1, <1>4, ChangesOnly
<1> QED BY <1>2, <1>3, <1>4

\* With the release of what they held, jobs have succeeded.
LEMMA ReleasedIsDone ==
  ASSUME Owned, Owned', NEW t \in Thread, pc[t] \in ActiveSteps, pc'[t] \in DoneSteps,
         Untouched(t, hand[t]), hand'[t] = hand[t]
  PROVE  Changes({"active"}, {"done", "gone"})
<1>0. StatusByPlace /\ StatusByPlace'
  BY Places, PlacesNext
<1>1. ASSUME NEW j \in hand[t] \cap Job
      PROVE  StatusOf(j) = "active" /\ StatusOf(j)' \in {"done", "gone"}
  <2>1. StatusOf(j) = "active"
    BY <1>0, ActiveInHand DEF StatusByPlace
  <2>2. StatusOf(j)' = HandStatus(pc'[t], j)
    BY <1>0 DEF StatusByPlace
  <2>3. HandStatus(pc'[t], j) \in {"done", "gone"}
    BY DEF HandStatus, ActiveSteps, ExecutingSteps, PendingSteps, DoneSteps, UnbornSteps
  <2> QED BY <2>1, <2>2, <2>3
<1> QED BY <1>1, ChangesOnly

\* To record a success changes nothing.
LEMMA RecordedIsDone ==
  ASSUME Owned, Owned', NEW t \in Thread, pc[t] \in DoneSteps, Untouched(t, hand[t]),
         \A j \in hand[t] : /\ j \notin hand'[t]
                            /\ IF j \in RemoveOnComplete THEN j \notin Stored'
                               ELSE j \in completed',
         created \subseteq created'
  PROVE  Quiet
<1>0. StatusByPlace /\ StatusByPlace'
  BY Places, PlacesNext
<1>1. ASSUME NEW j \in hand[t]
      PROVE  StatusOf(j)' = StatusOf(j)
  <2>1. StatusOf(j) = IF j \in RemoveOnComplete THEN "gone" ELSE "done"
    <3>1. StatusOf(j) = HandStatus(pc[t], j)
      BY <1>0, OnePlace DEF StatusByPlace
    <3> QED BY <3>1 DEF HandStatus, ActiveSteps, ExecutingSteps, PendingSteps, DoneSteps,
                        UnbornSteps
  <2>2. CASE j \in RemoveOnComplete
    <3>1. Nowhere(j)' /\ j \in created' /\ j \in Job
      BY <2>2, OnePlace DEF Nowhere, Untouched
    <3> QED BY <1>0, <2>1, <2>2, <3>1 DEF StatusByPlace
  <2>3. CASE j \notin RemoveOnComplete
    BY <1>0, <2>1, <2>3, OnePlace DEF StatusByPlace
  <2> QED BY <2>2, <2>3
<1> QED BY <1>1, Elsewhere DEF Quiet

\* The first lock scope of a call about one job: all of them are steps of the store.
LEMMA BeginJobCallStore ==
  ASSUME Owned, Owned', HandShape, NEW c \in Thread, NEW j \in Job, BeginJobCall(c, j)
  PROVE  Harmless
<1>0. ControlOK /\ hand \in [Thread -> SUBSET Job]
  BY DEF Owned, TypeOK
<1> USE <1>0 DEF ControlOK, HandShape, EmptyHanded, OneHanded
<1>1. CASE Push(c, j)
  <2>1. /\ j \in Job \ created /\ hand[c] = {} /\ hand' = [hand EXCEPT ![c] = {j}]
        /\ UNCHANGED stores /\ created' = created \cup {j}
    BY <1>1 DEF Push, Idle, Take
  <2>2. pc'[c] \in UnbornSteps /\ \A u \in Thread \ {c} : pc'[u] = pc[u]
    BY <1>1 DEF Push, Goto, UnbornSteps
  <2>3. Untouched(c, {j})
    BY <2>1, <2>2 DEF Untouched, stores
  <2>4. StatusOf(j) = "unborn"
    <3>1. Nowhere(j)
      BY <2>1, OnePlace DEF Nowhere
    <3> QED BY <2>1, <3>1, Places DEF StatusByPlace
  <2>5. StatusOf(j)' = "unborn"
    <3>1. StatusOf(j)' = HandStatus(pc'[c], j)
      BY <2>1, PlacesNext DEF StatusByPlace
    <3> QED BY <2>2, <3>1 DEF HandStatus, UnbornSteps, PendingSteps, ActiveSteps, DoneSteps,
                 ExecutingSteps
  <2> QED BY <2>3, <2>4, <2>5, Elsewhere DEF Harmless, Quiet
<1>2. CASE Ack(c, j)
  <2>1. TakeFromProcessing(c, j) /\ UNCHANGED created /\ pc'[c] \in ActiveSteps
    BY <1>2 DEF Ack, Goto, GotoEach, ActiveSteps, ExecutingSteps
  <2>2. hand[c] = {} /\ \A u \in Thread \ {c} : pc'[u] = pc[u]
    BY <1>2 DEF Ack, Idle, At, Goto, GotoEach
  <2> QED BY <2>1, <2>2, TakenIsActive DEF Harmless
<1>3. CASE Fail(c, j)
  <2>1. TakeFromProcessing(c, j) /\ UNCHANGED created /\ pc'[c] \in ActiveSteps
    BY <1>3 DEF Fail, Goto, GotoEach, ActiveSteps, ExecutingSteps
  <2>2. hand[c] = {} /\ \A u \in Thread \ {c} : pc'[u] = pc[u]
    BY <1>3 DEF Fail, Idle, At, Goto, GotoEach
  <2> QED BY <2>1, <2>2, TakenIsActive DEF Harmless
<1>4. CASE Cancel(c, j)
  <2>1. Untouched(c, {})
    BY <1>4 DEF Cancel, Idle, GotoWith, stores, Untouched
  <2> QED BY <2>1, NothingChanges DEF Harmless
<1>5. CASE MoveToDelayed(c, j)
  <2>1. TakeFromProcessing(c, j) /\ UNCHANGED created /\ pc'[c] \in ActiveSteps
    BY <1>5 DEF MoveToDelayed, Goto, GotoEach, ActiveSteps, ExecutingSteps
  <2>2. hand[c] = {} /\ \A u \in Thread \ {c} : pc'[u] = pc[u]
    BY <1>5 DEF MoveToDelayed, Idle, At, Goto, GotoEach
  <2> QED BY <2>1, <2>2, TakenIsActive DEF Harmless
<1>6. CASE Promote(c, j)
  <2>1. Untouched(c, {})
    BY <1>6 DEF Promote, Idle, GotoWith, stores, Untouched
  <2> QED BY <2>1, NothingChanges DEF Harmless
<1>7. CASE Discard(c, j)
  <2>1. Untouched(c, {})
    BY <1>7 DEF Discard, Idle, GotoWith, stores, Untouched
  <2> QED BY <2>1, NothingChanges DEF Harmless
<1>8. CASE Heartbeat(c, j)
  <2>1. Untouched(c, {})
    BY <1>8 DEF Heartbeat, Idle, stores, threads, Untouched
  <2> QED BY <2>1, NothingChanges DEF Harmless
<1> QED BY <1>1, <1>2, <1>3, <1>4, <1>5, <1>6, <1>7, <1>8 DEF BeginJobCall

\* pull and pull_batch are steps of the store.
LEMMA BeginPullStore ==
  ASSUME Owned, Owned', HandShape, NEW c \in Thread, BeginPull(c)
  PROVE  Changes({"pending"}, {"active", "gone"})
<1>0. ControlOK /\ hand \in [Thread -> SUBSET Job]
  BY DEF Owned, TypeOK
<1> USE <1>0 DEF ControlOK, HandShape, EmptyHanded, OneHanded
<1>1. ASSUME NEW q \in Queue, NEW n, NEW S, NEW X, Pull(c, q, n, S, X)
      PROVE  Changes({"pending"}, {"active", "gone"})
  <2>1. /\ S \subseteq queued /\ X \subseteq queued /\ S \cap X = {}
        /\ hand[c] = {} /\ hand' = [hand EXCEPT ![c] = S] /\ queued' = queued \ (S \cup X)
        /\ UNCHANGED <<processing, waitingDeps, dlq, completed, created>>
    BY <1>1 DEF Pull, Idle, Take, Reachable, Waiting, On
  <2>2. /\ S # {} => pc'[c] = "pull_index"
        /\ \A u \in Thread \ {c} : pc'[u] = pc[u]
    BY <1>1 DEF Pull, Goto, Return
  <2>3. Untouched(c, S \cup X)
    BY <2>1, <2>2 DEF Untouched
  <2>4. ASSUME NEW j \in S \cup X
        PROVE  StatusOf(j) = "pending" /\ StatusOf(j)' \in {"active", "gone"}
    <3>1. j \in Job /\ j \in created /\ j \in queued /\ \A u \in Thread : j \notin hand[u]
      BY <2>1, OnePlace DEF Stored, Owned, TypeOK
    <3>2. StatusOf(j) = "pending"
      BY <3>1, Places DEF StatusByPlace
    <3>3. CASE j \in S
      <4>1. StatusOf(j)' = HandStatus("pull_index", j)
        BY <2>1, <2>2, <3>1, <3>3, PlacesNext DEF StatusByPlace
      <4> QED BY <3>2, <4>1 DEF HandStatus, UnbornSteps, PendingSteps, ActiveSteps,
                   DoneSteps, ExecutingSteps
    <3>4. CASE j \notin S
      <4>1. j \notin processing \cup waitingDeps \cup dlq \cup completed
        BY <3>1 DEF Owned, SingleOwner
      <4>2. Nowhere(j)' /\ j \in created'
        BY <2>1, <3>1, <3>4, <4>1 DEF Nowhere, Stored
      <4> QED BY <3>1, <3>2, <4>2, PlacesNext DEF StatusByPlace
    <3> QED BY <3>3, <3>4
  <2> QED BY <2>3, <2>4, ChangesOnly
<1> QED BY <1>1 DEF BeginPull

\* The first lock scopes of push_batch and ack_batch are steps of the store.
LEMMA BeginBatchCallStore ==
  ASSUME Owned, Owned', HandShape, NEW c \in Thread, BeginBatchCall(c)
  PROVE  Harmless \/ Changes({"unborn"}, {"pending", "gone"})
<1>0. ControlOK /\ hand \in [Thread -> SUBSET Job]
  BY DEF Owned, TypeOK
<1> USE <1>0 DEF ControlOK, HandShape, EmptyHanded, OneHanded
<1>1. ASSUME NEW q \in Queue, NEW S, NEW Accepted, PushBatch(c, q, S, Accepted)
      PROVE  Harmless \/ Changes({"unborn"}, {"pending", "gone"})
  <2>1. /\ S \subseteq Job \ created /\ hand[c] = {} /\ hand' = [hand EXCEPT ![c] = Accepted]
        /\ UNCHANGED stores /\ created' = created \cup S /\ Accepted \subseteq S
    BY <1>1 DEF PushBatch, Idle, Take, On
  <2>2. /\ Accepted # {} => pc'[c] = "batch_check"
        /\ \A u \in Thread \ {c} : pc'[u] = pc[u]
    BY <1>1 DEF PushBatch, Goto, Return
  <2>3. Untouched(c, S)
    BY <2>1, <2>2 DEF Untouched, stores
  <2>4. ASSUME NEW j \in S
        PROVE  StatusOf(j) = "unborn" /\ StatusOf(j)' \in {"pending", "gone"}
    <3>1. j \in Job /\ j \notin created /\ Nowhere(j)
      BY <2>1, OnePlace DEF Nowhere
    <3>2. StatusOf(j) = "unborn"
      BY <3>1, Places DEF StatusByPlace
    <3>3. CASE j \in Accepted
      <4>1. StatusOf(j)' = HandStatus("batch_check", j)
        BY <2>1, <2>2, <3>1, <3>3, PlacesNext DEF StatusByPlace
      <4> QED BY <3>2, <4>1 DEF HandStatus, UnbornSteps, PendingSteps, ActiveSteps,
                   DoneSteps, ExecutingSteps
    <3>4. CASE j \notin Accepted
      <4>1. Nowhere(j)' /\ j \in created'
        BY <2>1, <3>1, <3>4 DEF Nowhere, Stored, stores
      <4> QED BY <3>1, <3>2, <4>1, PlacesNext DEF StatusByPlace
    <3> QED BY <3>3, <3>4
  <2> QED BY <2>3, <2>4, ChangesOnly
<1>2. ASSUME NEW S \in SUBSET Job, AckBatch(c, S)
      PROVE  Harmless \/ Changes({"unborn"}, {"pending", "gone"})
  <2>1. Untouched(c, {})
    BY <1>2 DEF AckBatch, Idle, GotoEach, stores, Untouched
  <2> QED BY <2>1, NothingChanges DEF Harmless
<1> QED BY <1>1, <1>2 DEF BeginBatchCall

\* The calls about a whole queue are steps of the store.
LEMMA BeginQueueCallStore ==
  ASSUME Owned, Owned', HandShape, NEW c \in Thread, NEW q \in Queue, BeginQueueCall(c, q)
  PROVE  Harmless
<1>0. ControlOK /\ hand \in [Thread -> SUBSET Job]
  BY DEF Owned, TypeOK
<1> USE <1>0 DEF ControlOK, HandShape, EmptyHanded, OneHanded
<1>1. ASSUME NEW S, RetryDlq(c, q, S)
      PROVE  Harmless
  <2>1. S \subseteq dlq /\ S \subseteq queued' /\ Untouched(c, S)
    BY <1>1 DEF RetryDlq, On, threads, Untouched
  <2>2. \A i \in S \cap Job : StatusOf(i) = "dead" /\ StatusOf(i)' = "pending"
    BY <2>1, Places, PlacesNext DEF StatusByPlace
  <2> QED BY <2>1, <2>2, ChangesOnly DEF Harmless
<1>2. ASSUME NEW S, CleanFailed(c, q, S)
      PROVE  Harmless
  <2>1. S \subseteq Stored /\ \A i \in S : i \notin Stored'
    BY <1>2 DEF CleanFailed, On, Stored, Owned, TypeOK, SingleOwner
  <2>2. Untouched(c, S)
    BY <1>2 DEF CleanFailed, Idle, On, GotoEach, GotoWith, threads, Untouched
  <2>3. UNCHANGED <<hand, created>>
    BY <1>2 DEF CleanFailed, threads
  <2> QED BY <2>1, <2>2, <2>3, WithdrawnIsGone DEF Harmless
<1>3. ASSUME NEW S, CleanWaiting(c, q, S)
      PROVE  Harmless
  <2>1. S \subseteq Stored /\ \A i \in S : i \notin Stored'
    BY <1>3 DEF CleanWaiting, On, Stored, Owned, TypeOK, SingleOwner
  <2>2. Untouched(c, S)
    BY <1>3 DEF CleanWaiting, Idle, On, GotoEach, GotoWith, threads, Untouched
  <2>3. UNCHANGED <<hand, created>>
    BY <1>3 DEF CleanWaiting, threads
  <2> QED BY <2>1, <2>2, <2>3, WithdrawnIsGone DEF Harmless
<1>4. ASSUME NEW S, CleanCompleted(c, S)
      PROVE  Harmless
  <2>1. S \subseteq Stored /\ \A i \in S : i \notin Stored'
    BY <1>4 DEF CleanCompleted, On, Stored, Owned, TypeOK, SingleOwner
  <2>2. Untouched(c, S)
    BY <1>4 DEF CleanCompleted, Idle, On, GotoEach, GotoWith, threads, Untouched
  <2>3. UNCHANGED <<hand, created>>
    BY <1>4 DEF CleanCompleted, threads
  <2> QED BY <2>1, <2>2, <2>3, WithdrawnIsGone DEF Harmless
<1>5. CASE PurgeDlq(c, q)
  <2>1. On(q, dlq) \subseteq Stored /\ \A i \in On(q, dlq) : i \notin Stored'
    BY <1>5 DEF PurgeDlq, On, Stored, Owned, TypeOK, SingleOwner
  <2>2. Untouched(c, On(q, dlq))
    BY <1>5 DEF PurgeDlq, Idle, On, GotoEach, GotoWith, threads, Untouched
  <2>3. UNCHANGED <<hand, created>>
    BY <1>5 DEF PurgeDlq, threads
  <2> QED BY <2>1, <2>2, <2>3, WithdrawnIsGone DEF Harmless
<1>6. CASE Drain(c, q)
  <2>1. On(q, queued) \subseteq Stored /\ \A i \in On(q, queued) : i \notin Stored'
    BY <1>6 DEF Drain, On, Stored, Owned, TypeOK, SingleOwner
  <2>2. Untouched(c, On(q, queued))
    BY <1>6 DEF Drain, Idle, On, GotoEach, GotoWith, threads, Untouched
  <2>3. UNCHANGED <<hand, created>>
    BY <1>6 DEF Drain, threads
  <2> QED BY <2>1, <2>2, <2>3, WithdrawnIsGone DEF Harmless
<1>7. CASE Obliterate(c, q)
  <2>1. /\ On(q, queued \cup dlq \cup waitingDeps) \subseteq Stored
        /\ \A i \in On(q, queued \cup dlq \cup waitingDeps) : i \notin Stored'
    BY <1>7 DEF Obliterate, On, Stored, Owned, TypeOK, SingleOwner
  <2>2. Untouched(c, On(q, queued \cup dlq \cup waitingDeps))
    BY <1>7 DEF Obliterate, Idle, On, GotoEach, GotoWith, threads, Untouched
  <2>3. UNCHANGED <<hand, created>>
    BY <1>7 DEF Obliterate, threads
  <2> QED BY <2>1, <2>2, <2>3, WithdrawnIsGone DEF Harmless
<1>8. CASE Pause(c, q)
  <2>1. Untouched(c, {})
    BY <1>8 DEF Pause, Idle, stores, threads, Untouched
  <2> QED BY <2>1, NothingChanges DEF Harmless
<1>9. CASE Resume(c, q)
  <2>1. Untouched(c, {})
    BY <1>9 DEF Resume, Idle, stores, threads, Untouched
  <2> QED BY <2>1, NothingChanges DEF Harmless
<1>10. CASE ClearConcurrency(c, q)
  <2>1. Untouched(c, {})
    BY <1>10 DEF ClearConcurrency, Idle, stores, threads, Untouched
  <2> QED BY <2>1, NothingChanges DEF Harmless
<1>11. ASSUME NEW n \in NewLimits, SetConcurrency(c, q, n)
      PROVE  Harmless
  <2>1. Untouched(c, {})
    BY <1>11 DEF SetConcurrency, Idle, stores, threads, Untouched
  <2> QED BY <2>1, NothingChanges DEF Harmless
<1> QED BY <1>1, <1>2, <1>3, <1>4, <1>5, <1>6, <1>7, <1>8, <1>9, <1>10,
      <1>11 DEF BeginQueueCall

\* The later lock scopes of the calls are steps of the store.
LEMMA AdvanceStore ==
  ASSUME Owned, Owned', HandShape, NEW c \in Thread, Advance(c)
  PROVE  Harmless \/ Changes({"unborn"}, {"pending", "gone"})
<1>0. ControlOK /\ hand \in [Thread -> SUBSET Job]
  BY DEF Owned, TypeOK
<1> USE <1>0 DEF ControlOK, HandShape, EmptyHanded, OneHanded
<1>1. CASE PushDuplicate(c)
  <2>0. PICK j \in hand[c] : pc[c] \in UnbornSteps /\ hand' = [hand EXCEPT ![c] = @ \ {j}]
    BY <1>1 DEF PushDuplicate, Drop, UnbornSteps
  <2>1. hand[c] = {j} /\ hand' = [hand EXCEPT ![c] = {}]
    BY <1>1, <2>0 DEF UnbornSteps
  <2>2. UNCHANGED <<stores, created>> /\ \A u \in Thread \ {c} : pc'[u] = pc[u]
    BY <1>1 DEF PushDuplicate, Return
  <2>3. Untouched(c, {j})
    BY <2>0, <2>1, <2>2 DEF Untouched, stores
  <2>4. StatusOf(j) = "unborn"
    <3>1. StatusOf(j) = HandStatus(pc[c], j)
      BY <2>1, Places, OnePlace DEF StatusByPlace
    <3> QED BY <2>0, <3>1 DEF HandStatus, UnbornSteps, PendingSteps, ActiveSteps, DoneSteps,
                 ExecutingSteps
  <2>5. StatusOf(j)' = "gone"
    <3>1. Nowhere(j)' /\ j \in created' /\ j \in Job
      BY <2>1, <2>2, OnePlace DEF Nowhere, Stored, stores
    <3> QED BY <3>1, PlacesNext DEF StatusByPlace
  <2> QED BY <2>3, <2>4, <2>5, ChangesOnly
<1>2. CASE PushInsert(c)
  <2>0. PICK j \in hand[c] : /\ pc[c] \in UnbornSteps
                             /\ hand' = [hand EXCEPT ![c] = @ \ {j}]
                             /\ \/ queued' = queued \cup {j} /\ UNCHANGED waitingDeps
                                \/ waitingDeps' = waitingDeps \cup {j} /\ UNCHANGED queued
    BY <1>2 DEF PushInsert, At, Drop, UnbornSteps
  <2>1. hand[c] = {j} /\ hand' = [hand EXCEPT ![c] = {}]
    BY <1>2, <2>0 DEF UnbornSteps
  <2>2. /\ UNCHANGED <<processing, dlq, completed, created>>
        /\ \A u \in Thread \ {c} : pc'[u] = pc[u]
    BY <1>2 DEF PushInsert, GotoWith, Return
  <2>3. Untouched(c, {j})
    BY <2>0, <2>1, <2>2 DEF Untouched
  <2>4. StatusOf(j) = "unborn"
    <3>1. StatusOf(j) = HandStatus(pc[c], j)
      BY <2>1, Places, OnePlace DEF StatusByPlace
    <3> QED BY <2>0, <3>1 DEF HandStatus, UnbornSteps, PendingSteps, ActiveSteps, DoneSteps,
                 ExecutingSteps
  <2>5. StatusOf(j)' = "pending"
    BY <2>0, <2>1, PlacesNext, OnePlace DEF StatusByPlace
  <2> QED BY <2>3, <2>4, <2>5, ChangesOnly
<1>3. CASE PushPersisted(c)
  <2>1. Untouched(c, {})
    BY <1>3 DEF PushPersisted, Return, stores, Untouched
  <2> QED BY <2>1, NothingChanges DEF Harmless
<1>4. CASE PushRollback(c)
  <2>1. /\ \/ queued' = queued \ {arg[c]} /\ UNCHANGED waitingDeps
           \/ waitingDeps' = waitingDeps \ {arg[c]} /\ UNCHANGED queued
        /\ UNCHANGED <<processing, dlq, completed, created, hand>> /\ hand[c] = {}
        /\ \A u \in Thread \ {c} : pc'[u] = pc[u]
    BY <1>4 DEF PushRollback, At, Goto
  <2> DEFINE S == (queued \cup waitingDeps) \ (queued' \cup waitingDeps')
  <2>2. S \subseteq Stored /\ \A i \in S : i \notin Stored'
    BY <2>1 DEF Stored, Owned, SingleOwner
  <2>3. Untouched(c, S)
    BY <2>1 DEF Untouched
  <2> HIDE DEF S
  <2> QED BY <2>1, <2>2, <2>3, WithdrawnIsGone DEF Harmless
<1>5. CASE Unindex(c)
  <2>1. Untouched(c, {})
    BY <1>5 DEF Unindex, At, Return, stores, Untouched
  <2> QED BY <2>1, NothingChanges DEF Harmless
<1>6. CASE PushBatchCheck(c)
  <2>1. Untouched(c, {})
    BY <1>6 DEF PushBatchCheck, At, GotoEach, stores, Untouched, HandStatus, PendingSteps,
       ActiveSteps, ExecutingSteps, DoneSteps, UnbornSteps
  <2> QED BY <2>1, NothingChanges DEF Harmless
<1>7. CASE PushBatchInsert(c)
  <2>1. /\ pc[c] = "batch_insert" /\ hand' = [hand EXCEPT ![c] = {}]
        /\ hand[c] \subseteq queued' \cup waitingDeps'
        /\ queued' \cup waitingDeps' = queued \cup waitingDeps \cup hand[c]
        /\ UNCHANGED <<processing, dlq, completed, created>>
        /\ \A u \in Thread \ {c} : pc'[u] = pc[u]
    BY <1>7 DEF PushBatchInsert, At, Drop, Return
  <2>2. Untouched(c, hand[c])
    BY <2>1 DEF Untouched
  <2>3. \A j \in hand[c] : StatusOf(j) = "pending"
    <3>1. \A j \in hand[c] : StatusOf(j) = HandStatus("batch_insert", j)
      BY <2>1, Places, OnePlace DEF StatusByPlace
    <3> QED BY <3>1 DEF HandStatus, UnbornSteps, PendingSteps, ActiveSteps, DoneSteps,
                 ExecutingSteps
  <2>4. \A j \in hand[c] : StatusOf(j)' = "pending"
    BY <2>1, PlacesNext, OnePlace DEF StatusByPlace
  <2> QED BY <2>2, <2>3, <2>4, Elsewhere DEF Harmless, Quiet
<1>8. ASSUME NEW j \in Job, PullIndex(c, j)
      PROVE  Harmless \/ Changes({"unborn"}, {"pending", "gone"})
  <2>1. Untouched(c, {})
    BY <1>8 DEF PullIndex, At, GotoWith, stores, Untouched, HandStatus, PendingSteps,
       ActiveSteps, ExecutingSteps, DoneSteps, UnbornSteps
  <2> QED BY <2>1, NothingChanges DEF Harmless
<1>9. ASSUME NEW j \in Job, AckBatchTake(c, j)
      PROVE  Harmless \/ Changes({"unborn"}, {"pending", "gone"})
  <2>1. /\ pc[c] = "acks_take" /\ \A u \in Thread \ {c} : pc'[u] = pc[u]
        /\ UNCHANGED created
    BY <1>9 DEF AckBatchTake, AckBatchGoesOn, At
  <2>2. hand[c] # {} \/ j \in processing => pc'[c] \in {"acks_take", "acks_release"}
    BY <1>9, <2>1, OptionAssumption DEF AckBatchTake, AckBatchGoesOn, TakeFromProcessing,
       Owned, TypeOK
  <2>3. \A i \in hand[c] : HandStatus(pc'[c], i) = HandStatus(pc[c], i)
    BY <2>1, <2>2 DEF HandStatus, UnbornSteps, PendingSteps, ActiveSteps, DoneSteps,
       ExecutingSteps
  <2>4. CASE j \in processing
    <3>1. TakeFromProcessing(c, j)
      BY <1>9, <2>4 DEF AckBatchTake, AckBatchGoesOn
    <3>2. pc'[c] \in ActiveSteps
      BY <2>2, <2>4 DEF ActiveSteps, ExecutingSteps
    <3> QED BY <2>1, <2>3, <3>1, <3>2, TakenIsActive DEF Harmless
  <2>5. CASE j \notin processing
    <3>1. UNCHANGED <<stores, hand>>
      BY <1>9, <2>5 DEF AckBatchTake, AckBatchGoesOn, TakeFromProcessing
    <3>2. Untouched(c, {})
      BY <2>1, <2>3, <3>1 DEF Untouched, stores
    <3> QED BY <3>2, NothingChanges DEF Harmless
  <2> QED BY <2>4, <2>5
<1>34. ASSUME NEW j \in Job, AckBatchIndex(c, j)
      PROVE  Harmless \/ Changes({"unborn"}, {"pending", "gone"})
  <2>1. Untouched(c, {})
    BY <1>34, OptionAssumption DEF AckBatchIndex, AckBatchGoesOn, At, stores, Owned, TypeOK,
       Untouched, HandStatus, PendingSteps, ActiveSteps, ExecutingSteps, DoneSteps,
       UnbornSteps
  <2> QED BY <2>1, NothingChanges DEF Harmless
<1>10. ASSUME NEW j \in Job, ObliterateRemove(c, j)
      PROVE  Harmless \/ Changes({"unborn"}, {"pending", "gone"})
  <2>1. /\ processing' = processing \ {j} /\ hand[c] = {}
        /\ UNCHANGED <<queued, waitingDeps, dlq, completed, created, hand>>
        /\ \A u \in Thread \ {c} : pc'[u] = pc[u]
    BY <1>10 DEF ObliterateRemove, At, Continue, Return, GotoEach
  <2> DEFINE S == processing \ processing'
  <2>2. S \subseteq Stored /\ \A i \in S : i \notin Stored'
    BY <2>1 DEF Stored, Owned, SingleOwner
  <2>3. Untouched(c, S)
    BY <2>1 DEF Untouched
  <2> HIDE DEF S
  <2> QED BY <2>1, <2>2, <2>3, WithdrawnIsGone DEF Harmless
<1>11. CASE PullInsert(c)
  <2>1. PICK j \in hand[c] : /\ pc[c] = "pull_insert" /\ processing' = processing \cup {j}
                             /\ hand' = [hand EXCEPT ![c] = @ \ {j}]
                             /\ hand[c] # {j} => pc'[c] = "pull_index"
    BY <1>11 DEF PullInsert, At, Drop, Goto
  <2>2. /\ UNCHANGED <<queued, waitingDeps, dlq, completed, created>>
        /\ \A u \in Thread \ {c} : pc'[u] = pc[u]
    BY <1>11 DEF PullInsert, Goto, Return
  <2>3. Untouched(c, {j})
    BY <2>1, <2>2 DEF Untouched, HandStatus, UnbornSteps, PendingSteps, ActiveSteps, DoneSteps,
       ExecutingSteps
  <2>4. StatusOf(j) = "active"
    <3>1. pc[c] \in ActiveSteps
      BY <2>1 DEF ActiveSteps, ExecutingSteps
    <3> QED BY <3>1, Places, OnePlace, ActiveInHand DEF StatusByPlace
  <2>5. StatusOf(j)' = "active"
    BY <2>1, PlacesNext, OnePlace DEF StatusByPlace
  <2> QED BY <2>3, <2>4, <2>5, Elsewhere DEF Harmless, Quiet
<1>12. CASE AckRelease(c)
  <2>1. /\ pc[c] \in ActiveSteps /\ pc'[c] \in DoneSteps
        /\ UNCHANGED <<stores, created, hand>>
        /\ \A u \in Thread \ {c} : pc'[u] = pc[u]
    BY <1>12 DEF AckRelease, At, Goto, ActiveSteps, ExecutingSteps, DoneSteps, fields
  <2>2. Untouched(c, hand[c])
    BY <2>1 DEF Untouched, stores
  <2> QED BY <2>1, <2>2, ReleasedIsDone DEF Harmless
<1>13. CASE AckRecord(c)
  <2>0. PICK j \in hand[c] : /\ hand' = [hand EXCEPT ![c] = @ \ {j}]
                             /\ \/ j \in RemoveOnComplete /\ UNCHANGED completed
                                \/ j \notin RemoveOnComplete /\ completed' = completed \cup {j}
    BY <1>13 DEF AckRecord, Drop
  <2>1. /\ pc[c] \in DoneSteps /\ UNCHANGED <<queued, processing, waitingDeps, dlq, created>>
        /\ \A u \in Thread \ {c} : pc'[u] = pc[u]
    BY <1>13 DEF AckRecord, At, Return, GotoWith, DoneSteps
  <2>2. hand[c] = {j}
    BY <1>13, <2>0 DEF AckRecord, At
  <2>3. Untouched(c, hand[c])
    BY <1>13, <2>0, <2>1, <2>2 DEF Untouched
  <2>4. \A i \in hand[c] : /\ i \notin hand'[c]
                           /\ IF i \in RemoveOnComplete THEN i \notin Stored' ELSE i \in completed'
    BY <1>13, <2>0, <2>1, <2>2, OnePlace DEF Stored
  <2> QED BY <2>1, <2>3, <2>4, RecordedIsDone DEF Harmless
<1>14. CASE AckIndex(c)
  <2>1. Untouched(c, {})
    BY <1>14 DEF AckIndex, At, Return, stores, Untouched
  <2> QED BY <2>1, NothingChanges DEF Harmless
<1>15. CASE AckBatchRelease(c)
  <2>1. /\ pc[c] \in ActiveSteps /\ pc'[c] \in DoneSteps
        /\ UNCHANGED <<stores, created, hand>>
        /\ \A u \in Thread \ {c} : pc'[u] = pc[u]
    BY <1>15 DEF AckBatchRelease, At, Goto, ActiveSteps, ExecutingSteps, DoneSteps, fields
  <2>2. Untouched(c, hand[c])
    BY <2>1 DEF Untouched, stores
  <2> QED BY <2>1, <2>2, ReleasedIsDone DEF Harmless
<1>16. CASE AckBatchRecord(c)
  <2>1. /\ pc[c] \in DoneSteps /\ hand' = [hand EXCEPT ![c] = @ \ hand[c]]
        /\ completed' = completed \cup (hand[c] \ RemoveOnComplete)
        /\ UNCHANGED <<queued, processing, waitingDeps, dlq, created>>
        /\ \A u \in Thread \ {c} : pc'[u] = pc[u]
    BY <1>16 DEF AckBatchRecord, At, Drop, Return, DoneSteps
  <2>2. Untouched(c, hand[c])
    BY <1>16, <2>1 DEF Untouched
  <2>3. \A j \in hand[c] : /\ j \notin hand'[c]
                           /\ IF j \in RemoveOnComplete THEN j \notin Stored' ELSE j \in completed'
    BY <1>16, <2>1, OnePlace DEF Stored
  <2> QED BY <2>1, <2>2, <2>3, RecordedIsDone DEF Harmless
<1>17. CASE FailIndex(c)
  <2>1. Untouched(c, {})
    BY <1>17 DEF FailIndex, IndexNext, At, Goto, stores, Untouched, HandStatus, PendingSteps,
       ActiveSteps, ExecutingSteps, DoneSteps, UnbornSteps
  <2> QED BY <2>1, NothingChanges DEF Harmless
<1>18. CASE FailPlace(c)
  <2>0. /\ pc[c] \in ActiveSteps /\ \E j \in Job : hand[c] = {j}
        /\ UNCHANGED <<processing, waitingDeps, completed, created>>
        /\ \A u \in Thread \ {c} : pc'[u] = pc[u]
    BY <1>18 DEF FailPlace, At, Goto, Return, Continue, GotoEach, fields, ActiveSteps,
       ExecutingSteps
  <2>1. PICK j \in hand[c] : /\ hand' = [hand EXCEPT ![c] = @ \ {j}]
                             /\ \/ queued' = queued \cup {j} /\ UNCHANGED dlq
                                \/ dlq' = dlq \cup {j} /\ UNCHANGED queued
    BY <1>18 DEF FailPlace, PlaceNext, Requeue, Drop
  <2>2. Untouched(c, {j}) /\ hand[c] = {j}
    BY <1>18, <2>0, <2>1 DEF Untouched
  <2>3. j \in queued' \/ j \in dlq'
    BY <2>1
  <2> QED BY <2>0, <2>2, <2>3, PlacedIsPending DEF Harmless
<1>19. CASE FailDiscard(c)
  <2>0. PICK j \in hand[c] : hand' = [hand EXCEPT ![c] = @ \ {j}]
    BY <1>19 DEF FailDiscard, Drop
  <2>1. /\ pc[c] \in ActiveSteps /\ UNCHANGED <<stores, created>>
        /\ \A u \in Thread \ {c} : pc'[u] = pc[u]
    BY <1>19 DEF FailDiscard, At, Goto, GotoWith, ActiveSteps, ExecutingSteps
  <2>2. hand[c] = {j}
    BY <1>19, <2>0 DEF FailDiscard, At
  <2>3. Untouched(c, hand[c])
    BY <1>19, <2>0, <2>1, <2>2 DEF Untouched, stores
  <2>4. \A i \in hand[c] : i \notin Stored' /\ i \notin hand'[c]
    BY <1>19, <2>0, <2>1, <2>2, OnePlace DEF Stored, stores
  <2> QED BY <2>1, <2>3, <2>4, DroppedIsGone DEF Harmless
<1>20. CASE FailForget(c)
  <2>1. Untouched(c, {})
    BY <1>20 DEF FailForget, At, Return, stores, Untouched
  <2> QED BY <2>1, NothingChanges DEF Harmless
<1>21. CASE CancelProcessing(c)
  <2>1. CASE arg[c] \in processing
    <3>1. /\ TakeFromProcessing(c, arg[c]) /\ UNCHANGED created
          /\ pc' = [pc EXCEPT ![c] = "cancel_release"]
      BY <1>21, <2>1 DEF CancelProcessing, Goto, GotoEach, fields
    <3>2. pc'[c] \in ActiveSteps
      BY <3>1 DEF ActiveSteps, ExecutingSteps
    <3>3. hand[c] = {} /\ \A u \in Thread \ {c} : pc'[u] = pc[u]
      BY <1>21, <3>1 DEF CancelProcessing, At
    <3> QED BY <3>1, <3>2, <3>3, TakenIsActive DEF Harmless
  <2>2. CASE arg[c] \notin processing
    <3>1. Untouched(c, {})
      BY <1>21, <2>2 DEF CancelProcessing, At, TakeFromProcessing, Return, stores, fields, Untouched
    <3> QED BY <3>1, NothingChanges DEF Harmless
  <2> QED BY <2>1, <2>2
<1>22. CASE CancelRelease(c)
  <2>0. PICK j \in hand[c] : hand' = [hand EXCEPT ![c] = @ \ {j}]
    BY <1>22 DEF CancelRelease, Drop
  <2>1. /\ pc[c] \in ActiveSteps /\ UNCHANGED <<stores, created>>
        /\ \A u \in Thread \ {c} : pc'[u] = pc[u]
    BY <1>22 DEF CancelRelease, At, Goto, GotoWith, ActiveSteps, ExecutingSteps
  <2>2. hand[c] = {j}
    BY <1>22, <2>0 DEF CancelRelease, At
  <2>3. Untouched(c, hand[c])
    BY <1>22, <2>0, <2>1, <2>2 DEF Untouched, stores
  <2>4. \A i \in hand[c] : i \notin Stored' /\ i \notin hand'[c]
    BY <1>22, <2>0, <2>1, <2>2, OnePlace DEF Stored, stores
  <2> QED BY <2>1, <2>3, <2>4, DroppedIsGone DEF Harmless
<1>23. CASE CancelWaiting(c)
  <2>1. /\ waitingDeps' = waitingDeps \ {arg[c]} /\ hand[c] = {}
        /\ UNCHANGED <<queued, processing, dlq, completed, created, hand>>
        /\ \A u \in Thread \ {c} : pc'[u] = pc[u]
    BY <1>23 DEF CancelWaiting, At, Goto, Return, fields
  <2> DEFINE S == waitingDeps \ waitingDeps'
  <2>2. S \subseteq Stored /\ \A i \in S : i \notin Stored'
    BY <2>1 DEF Stored, Owned, SingleOwner
  <2>3. Untouched(c, S)
    BY <2>1 DEF Untouched
  <2> HIDE DEF S
  <2> QED BY <2>1, <2>2, <2>3, WithdrawnIsGone DEF Harmless
<1>24. CASE CancelQueued(c)
  <2>1. /\ queued' = queued \ {arg[c]} /\ hand[c] = {}
        /\ UNCHANGED <<processing, waitingDeps, dlq, completed, created, hand>>
        /\ \A u \in Thread \ {c} : pc'[u] = pc[u]
    BY <1>24 DEF CancelQueued, At, Goto, Return, fields
  <2> DEFINE S == queued \ queued'
  <2>2. S \subseteq Stored /\ \A i \in S : i \notin Stored'
    BY <2>1 DEF Stored, Owned, SingleOwner
  <2>3. Untouched(c, S)
    BY <2>1 DEF Untouched
  <2> HIDE DEF S
  <2> QED BY <2>1, <2>2, <2>3, WithdrawnIsGone DEF Harmless
<1>25. CASE DelayIndex(c)
  <2>1. Untouched(c, {})
    BY <1>25 DEF DelayIndex, At, Goto, stores, Untouched, HandStatus, PendingSteps,
       ActiveSteps, ExecutingSteps, DoneSteps, UnbornSteps
  <2> QED BY <2>1, NothingChanges DEF Harmless
<1>26. CASE DelayPlace(c)
  <2>0. /\ pc[c] \in ActiveSteps /\ \E j \in Job : hand[c] = {j}
        /\ UNCHANGED <<processing, waitingDeps, completed, created>>
        /\ \A u \in Thread \ {c} : pc'[u] = pc[u]
    BY <1>26 DEF DelayPlace, At, Goto, Return, Continue, GotoEach, fields, ActiveSteps,
       ExecutingSteps
  <2>1. PICK j \in hand[c] : /\ hand' = [hand EXCEPT ![c] = @ \ {j}]
                             /\ \/ queued' = queued \cup {j} /\ UNCHANGED dlq
                                \/ dlq' = dlq \cup {j} /\ UNCHANGED queued
    BY <1>26 DEF DelayPlace, PlaceNext, Requeue, Drop
  <2>2. Untouched(c, {j}) /\ hand[c] = {j}
    BY <1>26, <2>0, <2>1 DEF Untouched
  <2>3. j \in queued' \/ j \in dlq'
    BY <2>1
  <2> QED BY <2>0, <2>2, <2>3, PlacedIsPending DEF Harmless
<1>27. CASE PromoteQueued(c)
  <2>1. Untouched(c, {})
    BY <1>27 DEF PromoteQueued, At, Return, stores, Untouched
  <2> QED BY <2>1, NothingChanges DEF Harmless
<1>28. CASE DiscardQueued(c)
  <2>1. /\ hand[c] = {} /\ UNCHANGED <<processing, waitingDeps, completed, created, hand>>
        /\ \A u \in Thread \ {c} : pc'[u] = pc[u]
    BY <1>28 DEF DiscardQueued, At, Return
  <2>2. ASSUME NEW j \in Job, j = arg[c], j \in queued
        PROVE  Harmless
    <3>1. queued' = queued \ {j} /\ dlq' = dlq \cup {j}
      BY <1>28, <2>2 DEF DiscardQueued
    <3>2. Untouched(c, {j})
      BY <2>1, <3>1 DEF Untouched
    <3>3. StatusOf(j) = "pending" /\ StatusOf(j)' = "dead"
      BY <2>2, <3>1, Places, PlacesNext DEF StatusByPlace
    <3> QED BY <3>2, <3>3, ChangesOnly DEF Harmless
  <2>3. CASE arg[c] \notin queued
    <3>1. Untouched(c, {})
      BY <1>28, <2>1, <2>3 DEF DiscardQueued, Untouched
    <3> QED BY <3>1, NothingChanges DEF Harmless
  <2> QED BY <2>2, <2>3 DEF Owned, TypeOK
<1>29. CASE DiscardProcessing(c)
  <2>1. CASE arg[c] \in processing
    <3>1. /\ TakeFromProcessing(c, arg[c]) /\ UNCHANGED created
          /\ pc' = [pc EXCEPT ![c] = "discard_place"]
      BY <1>29, <2>1 DEF DiscardProcessing, Goto, GotoEach, fields
    <3>2. pc'[c] \in ActiveSteps
      BY <3>1 DEF ActiveSteps, ExecutingSteps
    <3>3. hand[c] = {} /\ \A u \in Thread \ {c} : pc'[u] = pc[u]
      BY <1>29, <3>1 DEF DiscardProcessing, At
    <3> QED BY <3>1, <3>2, <3>3, TakenIsActive DEF Harmless
  <2>2. CASE arg[c] \notin processing
    <3>1. Untouched(c, {})
      BY <1>29, <2>2 DEF DiscardProcessing, At, TakeFromProcessing, Return, stores, fields,
         Untouched
    <3> QED BY <3>1, NothingChanges DEF Harmless
  <2> QED BY <2>1, <2>2
<1>30. CASE DiscardPlace(c)
  <2>0. /\ pc[c] \in ActiveSteps /\ \E j \in Job : hand[c] = {j}
        /\ UNCHANGED <<processing, waitingDeps, completed, created>>
        /\ \A u \in Thread \ {c} : pc'[u] = pc[u]
    BY <1>30 DEF DiscardPlace, At, Goto, Return, Continue, GotoEach, fields, ActiveSteps,
       ExecutingSteps
  <2>1. PICK j \in hand[c] : /\ hand' = [hand EXCEPT ![c] = @ \ {j}]
                             /\ \/ queued' = queued \cup {j} /\ UNCHANGED dlq
                                \/ dlq' = dlq \cup {j} /\ UNCHANGED queued
    BY <1>30 DEF DiscardPlace, PlaceNext, Requeue, Drop
  <2>2. Untouched(c, {j}) /\ hand[c] = {j}
    BY <1>30, <2>0, <2>1 DEF Untouched
  <2>3. j \in queued' \/ j \in dlq'
    BY <2>1
  <2> QED BY <2>0, <2>2, <2>3, PlacedIsPending DEF Harmless
<1>31. CASE DiscardIndex(c)
  <2>1. Untouched(c, {})
    BY <1>31 DEF DiscardIndex, At, Return, stores, Untouched
  <2> QED BY <2>1, NothingChanges DEF Harmless
<1>32. CASE PurgeUnindex(c)
  <2>1. Untouched(c, {})
    BY <1>32 DEF PurgeUnindex, At, Return, stores, Untouched
  <2> QED BY <2>1, NothingChanges DEF Harmless
<1>33. CASE ObliterateCollect(c)
  <2>1. Untouched(c, {})
    BY <1>33 DEF ObliterateCollect, At, Continue, Return, GotoEach, On, stores, Untouched
  <2> QED BY <2>1, NothingChanges DEF Harmless
<1> QED BY <1>1, <1>2, <1>3, <1>4, <1>5, <1>6, <1>7, <1>8, <1>9, <1>10, <1>11, <1>12, <1>13,
      <1>14, <1>15, <1>16, <1>17, <1>18, <1>19, <1>20, <1>21, <1>22, <1>23, <1>24, <1>25,
      <1>26, <1>27, <1>28, <1>29, <1>30, <1>31, <1>32, <1>33, <1>34 DEF Advance

\* The scans of the background task are steps of the store.
LEMMA TickStore ==
  ASSUME Owned, Owned', HandShape, NEW b \in Thread, Tick(b)
  PROVE  Harmless
<1>0. ControlOK /\ hand \in [Thread -> SUBSET Job]
  BY DEF Owned, TypeOK
<1> USE <1>0 DEF ControlOK, HandShape, EmptyHanded, OneHanded
<1>1. ASSUME NEW S, TimeoutScan(b, S)
      PROVE  Harmless
  <2>1. Untouched(b, {})
    BY <1>1 DEF TimeoutScan, Idle, GotoEach, stores, Untouched
  <2> QED BY <2>1, NothingChanges DEF Harmless
<1>2. ASSUME NEW S, StallScan(b, S)
      PROVE  Harmless
  <2>1. Untouched(b, {})
    BY <1>2 DEF StallScan, Idle, GotoEach, stores, Untouched
  <2> QED BY <2>1, NothingChanges DEF Harmless
<1>3. CASE DepsScan(b)
  <2>1. Untouched(b, {})
    BY <1>3 DEF DepsScan, Idle, GotoEach, stores, Untouched
  <2> QED BY <2>1, NothingChanges DEF Harmless
<1>4. ASSUME NEW S, CleanupScan(b, S)
      PROVE  Harmless
  <2>1. Untouched(b, {})
    BY <1>4 DEF CleanupScan, Idle, GotoEach, stores, Untouched
  <2> QED BY <2>1, NothingChanges DEF Harmless
<1> QED BY <1>1, <1>2, <1>3, <1>4 DEF Tick

\* What the background task does with the ids it collected: its steps are steps of the store.
LEMMA AdvanceTickStore ==
  ASSUME Owned, Owned', HandShape, NEW b \in Thread, AdvanceTick(b)
  PROVE  Harmless
<1>0. ControlOK /\ hand \in [Thread -> SUBSET Job]
  BY DEF Owned, TypeOK
<1> USE <1>0 DEF ControlOK, HandShape, EmptyHanded, OneHanded
<1>1. ASSUME NEW j \in Job, TimeoutTake(b, j)
      PROVE  Harmless
  <2>1. CASE j \in processing
    <3>1. /\ TakeFromProcessing(b, j) /\ UNCHANGED created
          /\ pc' = [pc EXCEPT ![b] = "timeout_release"]
      BY <1>1, <2>1 DEF TimeoutTake, Goto, GotoEach, fields
    <3>2. pc'[b] \in ActiveSteps
      BY <3>1 DEF ActiveSteps, ExecutingSteps
    <3>3. hand[b] = {} /\ \A u \in Thread \ {b} : pc'[u] = pc[u]
      BY <1>1, <3>1 DEF TimeoutTake, At
    <3> QED BY <3>1, <3>2, <3>3, TakenIsActive DEF Harmless
  <2>2. CASE j \notin processing
    <3>1. Untouched(b, {})
      BY <1>1, <2>2 DEF TimeoutTake, At, TakeFromProcessing, Continue, Return, GotoEach, stores,
         fields, Untouched
    <3> QED BY <3>1, NothingChanges DEF Harmless
  <2> QED BY <2>1, <2>2
<1>2. ASSUME NEW j \in Job, StallCount(b, j)
      PROVE  Harmless
  <2>1. /\ UNCHANGED <<stores, created, hand>> /\ hand[b] = {}
        /\ \A u \in Thread \ {b} : pc'[u] = pc[u]
    BY <1>2 DEF StallCount, At, Continue, Return, GotoEach
  <2>2. Untouched(b, {})
    BY <2>1 DEF Untouched, stores
  <2> QED BY <2>2, NothingChanges DEF Harmless
<1>3. CASE TimeoutRelease(b)
  <2>1. Untouched(b, {})
    BY <1>3 DEF TimeoutRelease, At, Goto, stores, Untouched, HandStatus, PendingSteps,
       ActiveSteps, ExecutingSteps, DoneSteps, UnbornSteps
  <2> QED BY <2>1, NothingChanges DEF Harmless
<1>4. CASE TimeoutIndex(b)
  <2>1. Untouched(b, {})
    BY <1>4 DEF TimeoutIndex, IndexNext, At, Goto, stores, Untouched, HandStatus,
       PendingSteps, ActiveSteps, ExecutingSteps, DoneSteps, UnbornSteps
  <2> QED BY <2>1, NothingChanges DEF Harmless
<1>5. CASE TimeoutPlace(b)
  <2>0. /\ pc[b] \in ActiveSteps /\ \E j \in Job : hand[b] = {j}
        /\ UNCHANGED <<processing, waitingDeps, completed, created>>
        /\ \A u \in Thread \ {b} : pc'[u] = pc[u]
    BY <1>5 DEF TimeoutPlace, At, Goto, Return, Continue, GotoEach, fields, ActiveSteps,
       ExecutingSteps
  <2>1. PICK j \in hand[b] : /\ hand' = [hand EXCEPT ![b] = @ \ {j}]
                             /\ \/ queued' = queued \cup {j} /\ UNCHANGED dlq
                                \/ dlq' = dlq \cup {j} /\ UNCHANGED queued
    BY <1>5 DEF TimeoutPlace, PlaceNext, Requeue, Drop
  <2>2. Untouched(b, {j}) /\ hand[b] = {j}
    BY <1>5, <2>0, <2>1 DEF Untouched
  <2>3. j \in queued' \/ j \in dlq'
    BY <2>1
  <2> QED BY <2>0, <2>2, <2>3, PlacedIsPending DEF Harmless
<1>6. CASE StallRemove(b)
  <2>1. CASE arg[b] \in processing
    <3>1. /\ TakeFromProcessing(b, arg[b]) /\ UNCHANGED created
          /\ pc' = [pc EXCEPT ![b] = "stall_index"]
      BY <1>6, <2>1 DEF StallRemove, Goto, GotoEach, fields
    <3>2. pc'[b] \in ActiveSteps
      BY <3>1 DEF ActiveSteps, ExecutingSteps
    <3>3. hand[b] = {} /\ \A u \in Thread \ {b} : pc'[u] = pc[u]
      BY <1>6, <3>1 DEF StallRemove, At
    <3> QED BY <3>1, <3>2, <3>3, TakenIsActive DEF Harmless
  <2>2. CASE arg[b] \notin processing
    <3>1. Untouched(b, {})
      BY <1>6, <2>2 DEF StallRemove, At, TakeFromProcessing, Continue, Return, GotoEach, stores,
         fields, Untouched
    <3> QED BY <3>1, NothingChanges DEF Harmless
  <2> QED BY <2>1, <2>2
<1>7. CASE StallIndex(b)
  <2>1. Untouched(b, {})
    BY <1>7 DEF StallIndex, At, Goto, stores, Untouched, HandStatus, PendingSteps,
       ActiveSteps, ExecutingSteps, DoneSteps, UnbornSteps
  <2> QED BY <2>1, NothingChanges DEF Harmless
<1>8. CASE StallPlace(b)
  <2>0. /\ pc[b] \in ActiveSteps /\ \E j \in Job : hand[b] = {j}
        /\ UNCHANGED <<processing, waitingDeps, completed, created>>
        /\ \A u \in Thread \ {b} : pc'[u] = pc[u]
    BY <1>8 DEF StallPlace, At, Goto, Return, Continue, GotoEach, fields, ActiveSteps,
       ExecutingSteps
  <2>1. PICK j \in hand[b] : /\ hand' = [hand EXCEPT ![b] = @ \ {j}]
                             /\ \/ queued' = queued \cup {j} /\ UNCHANGED dlq
                                \/ dlq' = dlq \cup {j} /\ UNCHANGED queued
    BY <1>8 DEF StallPlace, PlaceNext, Requeue, Drop
  <2>2. Untouched(b, {j}) /\ hand[b] = {j}
    BY <1>8, <2>0, <2>1 DEF Untouched
  <2>3. j \in queued' \/ j \in dlq'
    BY <2>1
  <2> QED BY <2>0, <2>2, <2>3, PlacedIsPending DEF Harmless
<1>9. CASE DepsMove(b)
  <2>1. /\ queued' \cup waitingDeps' = queued \cup waitingDeps /\ hand[b] = {}
        /\ UNCHANGED <<processing, dlq, completed, created, hand>>
        /\ \A u \in Thread \ {b} : pc'[u] = pc[u]
    BY <1>9 DEF DepsMove, At, Return
  <2>2. Untouched(b, {})
    BY <2>1 DEF Untouched
  <2> QED BY <2>2, NothingChanges DEF Harmless
<1>10. CASE CleanupUnindex(b)
  <2>1. Untouched(b, {})
    BY <1>10 DEF CleanupUnindex, At, Goto, stores, Untouched
  <2> QED BY <2>1, NothingChanges DEF Harmless
<1>11. CASE CleanupRemove(b)
  <2>1. /\ completed' = completed \ todo[b] /\ hand[b] = {}
        /\ UNCHANGED <<queued, processing, waitingDeps, dlq, created, hand>>
        /\ \A u \in Thread \ {b} : pc'[u] = pc[u]
    BY <1>11 DEF CleanupRemove, At, Return
  <2> DEFINE S == completed \ completed'
  <2>2. S \subseteq Stored /\ \A i \in S : i \notin Stored'
    BY <2>1 DEF Stored, Owned, SingleOwner
  <2>3. Untouched(b, S)
    BY <2>1 DEF Untouched
  <2> HIDE DEF S
  <2> QED BY <2>1, <2>2, <2>3, WithdrawnIsGone DEF Harmless
<1> QED BY <1>1, <1>2, <1>3, <1>4, <1>5, <1>6, <1>7, <1>8, <1>9, <1>10,
      <1>11 DEF AdvanceTick

\* The passing of time: its steps are steps of the store.
LEMMA ClockStore ==
  ASSUME Owned, Owned', HandShape, Clock
  PROVE  Harmless
<1>0. ControlOK /\ hand \in [Thread -> SUBSET Job]
  BY DEF Owned, TypeOK
<1> USE <1>0 DEF ControlOK, HandShape, EmptyHanded, OneHanded
<1>1. ASSUME NEW j \in Job, BecomesDue(j)
      PROVE  Harmless
  <2>1. Untouched(Background, {})
    BY <1>1 DEF BecomesDue, stores, threads, Untouched
  <2> QED BY <2>1, NothingChanges DEF Harmless, Thread
<1>2. ASSUME NEW j \in Job, Expires(j)
      PROVE  Harmless
  <2>1. Untouched(Background, {})
    BY <1>2 DEF Expires, stores, threads, Untouched
  <2> QED BY <2>1, NothingChanges DEF Harmless, Thread
<1> QED BY <1>1, <1>2 DEF Clock

\* A step of the store, told by what becomes of the statuses.
LEMMA NextStore ==
  ASSUME Owned, Owned', HandShape, [Next]_vars
  PROVE  \/ Harmless \/ Changes({"unborn"}, {"pending", "gone"})
         \/ \E c \in Client : BeginPull(c) /\ Changes({"pending"}, {"active", "gone"})
<1> USE DEF Thread
<1>1. ASSUME NEW c \in Client, Begin(c)
      PROVE  \/ Harmless \/ Changes({"unborn"}, {"pending", "gone"})
             \/ BeginPull(c) /\ Changes({"pending"}, {"active", "gone"})
  BY <1>1, BeginJobCallStore, BeginPullStore, BeginBatchCallStore, BeginQueueCallStore DEF Begin
<1>2. ASSUME NEW c \in Client, Advance(c)
      PROVE  Harmless \/ Changes({"unborn"}, {"pending", "gone"})
  BY <1>2, AdvanceStore
<1>3. CASE Tick(Background)
  BY <1>3, TickStore
<1>4. CASE AdvanceTick(Background)
  BY <1>4, AdvanceTickStore
<1>5. CASE Clock
  BY <1>5, ClockStore
<1>6. CASE UNCHANGED vars
  <2>1. Untouched(Background, {})
    BY <1>6 DEF vars, stores, threads, Untouched
  <2> QED BY <2>1, NothingChanges DEF Harmless
<1> QED BY <1>1, <1>2, <1>3, <1>4, <1>5, <1>6 DEF Next

\* Only pull gives jobs to workers.
NoneStarts == \A j \in Job : StatusOf(j)' = "active" => StatusOf(j) = "active"

\* Every other step of the store.
LEMMA OthersStartNone ==
  Harmless \/ Changes({"unborn"}, {"pending", "gone"}) => NoneStarts
BY DEF Harmless, Changes, Quiet, NoneStarts

-----------------------------------------------------------------------------
(* Groups: the jobs that are active in the store are those in execution and *)
(* those that the timeout scan has taken and not yet placed, whose groups   *)
(* are still marked.                                                        *)

Rivals(i, j) ==
  i # j /\ QueueOf[i] = QueueOf[j] /\ GroupOf[i] = GroupOf[j] /\ GroupOf[i] # NoGroup

ActiveApart ==
  /\ \A i, j \in Job : StatusOf(i) = "active" /\ StatusOf(j) = "active" => ~Rivals(i, j)
  /\ \A j \in Job : StatusOf(j) = "active" /\ GroupOf[j] # NoGroup
                      => GroupOf[j] \in activeGroups[QueueOf[j]]

\* A step that gives no job to a worker and releases no group.
LEMMA ApartFrame ==
  ASSUME ActiveApart, NoneStarts, UNCHANGED activeGroups
  PROVE  ActiveApart'
BY DEF ActiveApart, NoneStarts, Rivals

\* A step that ends the jobs in S, which were active, and releases their groups.
LEMMA ApartRelease ==
  ASSUME TypeOK, ActiveApart, NoneStarts, NEW q \in Queue, NEW S \in SUBSET Job,
         \A j \in S : QueueOf[j] = q /\ StatusOf(j) = "active" /\ StatusOf(j)' # "active",
         ReleaseGroups(q, S)
  PROVE  ActiveApart'
<1>1. ASSUME NEW j \in Job, StatusOf(j)' = "active", GroupOf[j] # NoGroup
      PROVE  GroupOf[j] \in activeGroups'[QueueOf[j]]
  <2>1. StatusOf(j) = "active" /\ GroupOf[j] \in activeGroups[QueueOf[j]] /\ QueueOf[j] \in Queue
    BY <1>1, OptionAssumption DEF ActiveApart, NoneStarts
  <2>2. CASE QueueOf[j] = q
    <3>1. \A i \in S : GroupOf[i] # GroupOf[j]
      BY <1>1, <2>1, <2>2 DEF ActiveApart, Rivals
    <3>2. GroupOf[j] \notin Groups(S)
      BY <3>1 DEF Groups
    <3> QED BY <2>1, <2>2, <3>2 DEF ReleaseGroups, TypeOK
  <2>3. CASE QueueOf[j] # q
    BY <2>1, <2>3 DEF ReleaseGroups, TypeOK
  <2> QED BY <2>2, <2>3
<1>2. \A i, j \in Job : StatusOf(i)' = "active" /\ StatusOf(j)' = "active" => ~Rivals(i, j)
  BY DEF ActiveApart, NoneStarts
<1> QED BY <1>1, <1>2 DEF ActiveApart, Rivals

\* The active jobs, place by place.
Runs(j) == j \in processing \/ \E t \in Thread : pc[t] \in ActiveSteps /\ j \in hand[t]

ActiveByPlace == \A j \in Job : StatusOf(j) = "active" <=> Runs(j)

\* The two say the same.
LEMMA ActiveIs == Owned => ActiveByPlace
<1> SUFFICES ASSUME Owned, NEW j \in Job
             PROVE  StatusOf(j) = "active" <=> Runs(j)
  BY DEF ActiveByPlace
<1>0. StatusByPlace
  BY Places
<1>1. ASSUME NEW t \in Thread, j \in hand[t]
      PROVE  StatusOf(j) = "active" <=> Runs(j)
  <2>1. j \notin processing /\ \A u \in Thread \ {t} : j \notin hand[u]
    BY <1>1, OnePlace DEF Stored
  <2>2. StatusOf(j) = HandStatus(pc[t], j)
    BY <1>0, <1>1 DEF StatusByPlace
  <2>3. HandStatus(pc[t], j) = "active" <=> pc[t] \in ActiveSteps
    BY DEF HandStatus, ActiveSteps, ExecutingSteps, PendingSteps, DoneSteps, UnbornSteps
  <2> QED BY <1>1, <2>1, <2>2, <2>3 DEF Runs
<1>2. CASE j \in Stored
  <2>1. \A t \in Thread : j \notin hand[t]
    BY <1>2, OnePlace
  <2>2. j \in processing => j \notin queued \cup waitingDeps \cup dlq \cup completed
    BY DEF Owned, SingleOwner
  <2> QED BY <1>0, <1>2, <2>1, <2>2 DEF StatusByPlace, Runs, Stored
<1>3. CASE Nowhere(j)
  BY <1>0, <1>3 DEF StatusByPlace, Nowhere, Runs, Stored
<1> QED BY <1>1, <1>2, <1>3 DEF Nowhere

\* After a step, too.
LEMMA ActiveIsNext == Owned' => ActiveByPlace'
BY ActiveIs, PTL

\* A job in the hand of a thread is active no more once the thread has let go of
\* it or has left the steps of active jobs.
LEMMA NotActive ==
  ASSUME Owned, Owned', NEW c \in Thread, NEW j \in hand[c], processing' \subseteq processing,
         \A t \in Thread \ {c} : hand'[t] = hand[t],
         pc'[c] \notin ActiveSteps \/ j \notin hand'[c]
  PROVE  j \in Job /\ StatusOf(j)' # "active"
<1>1. j \in Job /\ j \notin processing /\ \A t \in Thread \ {c} : j \notin hand[t]
  BY OnePlace DEF Stored
<1>2. ~Runs(j)'
  BY <1>1 DEF Runs
<1> QED BY <1>1, <1>2, ActiveIsNext DEF ActiveByPlace

\* The jobs whose groups are released stop being active in that step.
LEMMA ReleasedEnd ==
  ASSUME Owned, Owned', HandShape, NEW c \in Client,
         AckRelease(c) \/ FailPlace(c) \/ FailDiscard(c)
  PROVE  \E j \in Job : /\ StatusOf(j) = "active" /\ StatusOf(j)' # "active"
                        /\ ReleaseGroups(QueueOf[j], {j})
<1>0. /\ c \in Thread /\ processing' = processing
      /\ \A t \in Thread \ {c} : hand'[t] = hand[t]
      /\ pc[c] \in ActiveSteps /\ \E i \in Job : hand[c] = {i}
  <2>1. /\ c \in Thread /\ processing' = processing
        /\ pc[c] \in {"ack_release", "fail_place", "fail_discard"}
    BY DEF Thread, AckRelease, FailPlace, FailDiscard, At, stores
  <2>2. \E i \in Job : hand[c] = {i}
    BY <2>1 DEF HandShape, OneHanded
  <2>3. \A t \in Thread \ {c} : hand'[t] = hand[t]
    BY DEF AckRelease, FailPlace, FailDiscard, Drop, Owned, TypeOK
  <2> QED BY <2>1, <2>2, <2>3 DEF ActiveSteps, ExecutingSteps
<1>1. PICK j \in hand[c] : ReleaseGroups(QueueOf[j], {j}) /\ hand[c] = {j}
  BY <1>0 DEF AckRelease, FailPlace, FailDiscard
<1>2. pc'[c] \notin ActiveSteps \/ j \notin hand'[c]
  <2>1. CASE AckRelease(c)
    BY <1>0, <2>1 DEF AckRelease, Goto, Owned, TypeOK, ControlOK, ActiveSteps, ExecutingSteps
  <2>2. CASE FailPlace(c) \/ FailDiscard(c)
    BY <1>0, <1>1, <2>2 DEF FailPlace, FailDiscard, Drop, Owned, TypeOK
  <2> QED BY <2>1, <2>2
<1>3. j \in Job /\ StatusOf(j) = "active"
  BY <1>0, <1>1, ActiveIs, OnePlace DEF ActiveByPlace, Runs
<1> QED BY <1>0, <1>1, <1>2, <1>3, NotActive

\* The same of a batch, which is released against its own queue.
LEMMA BatchReleasedEnd ==
  ASSUME Owned, Owned', BatchQueue, NEW c \in Client, AckBatchRelease(c)
  PROVE  /\ \A j \in hand[c] : /\ j \in Job /\ QueueOf[j] = arg[c]
                               /\ StatusOf(j) = "active" /\ StatusOf(j)' # "active"
         /\ ReleaseGroups(arg[c], hand[c])
<1>1. /\ c \in Thread /\ pc[c] \in ActiveSteps /\ pc'[c] \notin ActiveSteps
      /\ UNCHANGED <<processing, hand>>
  BY DEF Thread, AckBatchRelease, At, Goto, stores, Owned, TypeOK, ControlOK, ActiveSteps,
     ExecutingSteps
<1>2. ASSUME NEW j \in hand[c]
      PROVE  /\ j \in Job /\ QueueOf[j] = arg[c]
             /\ StatusOf(j) = "active" /\ StatusOf(j)' # "active"
  <2>1. j \in Job /\ StatusOf(j)' # "active"
    BY <1>1, NotActive
  <2>2. StatusOf(j) = "active"
    BY <1>1, <2>1, ActiveIs DEF ActiveByPlace, Runs
  <2> QED BY <2>1, <2>2, BatchEnded
<1> QED BY <1>2, BatchEnded

\* pull takes no job of an active group and no two jobs of one group.
LEMMA PullApart ==
  ASSUME Owned, Owned', ActiveApart, HandShape, NEW c \in Thread, BeginPull(c)
  PROVE  ActiveApart'
<1>1. PICK q \in Queue, n \in 1..BatchSize : \E S, X : Pull(c, q, n, S, X)
  BY DEF BeginPull
<1>2. PICK S, X : Pull(c, q, n, S, X)
  BY <1>1
<1>3. \A j \in Job : StatusOf(j)' = "active" => StatusOf(j) = "active" \/ j \in S
  <2>0. hand[c] = {}
    BY <1>2 DEF Pull, Idle, HandShape, EmptyHanded
  <2>1. /\ processing' = processing /\ hand' = [hand EXCEPT ![c] = S]
        /\ \A u \in Thread \ {c} : pc'[u] = pc[u]
    BY <1>2, <2>0 DEF Pull, Take, Return, Goto, Owned, TypeOK, ControlOK
  <2>2. \A j \in Job : Runs(j)' => Runs(j) \/ j \in S
    BY <2>1 DEF Runs, Owned, TypeOK
  <2> QED BY <2>2, ActiveIs, ActiveIsNext DEF ActiveByPlace
<1>4. \A j \in S : QueueOf[j] = q /\ GroupOf[j] \notin activeGroups[q]
  BY <1>2 DEF Pull, PoppedJobs, Busy, Reachable, Waiting, On
<1>5. \A i, j \in S : i # j /\ GroupOf[i] = GroupOf[j] => GroupOf[i] = NoGroup
  BY <1>2 DEF Pull, PoppedJobs
<1>6. activeGroups' = [activeGroups EXCEPT ![q] = @ \cup Groups(S)]
  BY <1>2 DEF Pull
<1>7. ASSUME NEW i \in Job, NEW j \in Job, StatusOf(i)' = "active", StatusOf(j)' = "active",
             Rivals(i, j)
      PROVE  FALSE
  <2>1. \A k \in Job : StatusOf(k) = "active" /\ GroupOf[k] # NoGroup
                         => GroupOf[k] \in activeGroups[QueueOf[k]]
    BY DEF ActiveApart
  <2>2. CASE i \in S /\ j \in S
    BY <1>5, <1>7, <2>2 DEF Rivals
  <2>3. CASE i \notin S /\ j \notin S
    BY <1>3, <1>7, <2>3 DEF ActiveApart
  <2>4. CASE i \in S /\ j \notin S
    BY <1>3, <1>4, <1>7, <2>1, <2>4 DEF Rivals
  <2>5. CASE i \notin S /\ j \in S
    BY <1>3, <1>4, <1>7, <2>1, <2>5 DEF Rivals
  <2> QED BY <2>2, <2>3, <2>4, <2>5
<1>8. ASSUME NEW j \in Job, StatusOf(j)' = "active", GroupOf[j] # NoGroup
      PROVE  GroupOf[j] \in activeGroups'[QueueOf[j]]
  <2>1. CASE j \in S
    <3>1. GroupOf[j] \in Groups(S) /\ QueueOf[j] = q
      BY <1>4, <1>8, <2>1 DEF Groups
    <3> QED BY <1>6, <3>1 DEF Owned, TypeOK
  <2>2. CASE j \notin S
    <3>1. GroupOf[j] \in activeGroups[QueueOf[j]] /\ QueueOf[j] \in Queue
      BY <1>3, <1>8, <2>2, OptionAssumption DEF ActiveApart
    <3> QED BY <1>6, <3>1 DEF Owned, TypeOK
  <2> QED BY <2>1, <2>2
<1> QED BY <1>7, <1>8 DEF ActiveApart, Rivals

\* No step makes two jobs of a group active.
LEMMA NextApart ==
  ASSUME Owned, Owned', HandShape, BatchQueue, ActiveApart, [Next]_vars
  PROVE  ActiveApart'
<1> USE DEF Owned
<1>1. CASE \E c \in Client : BeginPull(c)
  BY <1>1, PullApart DEF Thread
<1>2. CASE NoneStarts /\ UNCHANGED activeGroups
  BY <1>2, ApartFrame
<1>3. ASSUME NoneStarts, NEW c \in Client, AckRelease(c) \/ FailPlace(c) \/ FailDiscard(c)
      PROVE  ActiveApart'
  <2>1. PICK j \in Job : /\ StatusOf(j) = "active" /\ StatusOf(j)' # "active"
                         /\ ReleaseGroups(QueueOf[j], {j})
    BY <1>3, ReleasedEnd
  <2>2. QueueOf[j] \in Queue
    BY OptionAssumption
  <2> QED BY <1>3, <2>1, <2>2, ApartRelease
<1>4. ASSUME NoneStarts, NEW c \in Client, AckBatchRelease(c)
      PROVE  ActiveApart'
  <2>1. /\ \A j \in hand[c] : /\ j \in Job /\ QueueOf[j] = arg[c]
                              /\ StatusOf(j) = "active" /\ StatusOf(j)' # "active"
        /\ ReleaseGroups(arg[c], hand[c])
    BY <1>4, BatchReleasedEnd
  <2>2. CASE hand[c] = {}
    <3>1. UNCHANGED activeGroups
      BY <2>1, <2>2 DEF ReleaseGroups, Groups, TypeOK
    <3> QED BY <1>4, <3>1, ApartFrame
  <2>3. CASE hand[c] # {}
    <3>1. arg[c] \in Queue
      BY <2>1, <2>3, OptionAssumption
    <3> QED BY <1>4, <2>1, <3>1, ApartRelease
  <2> QED BY <2>2, <2>3
<1> QED BY <1>1, <1>2, <1>3, <1>4, NextStore, OthersStartNone, GroupSteps

\* At the start every job is unborn.
LEMMA InitStatus == Init => ActiveApart /\ \A j \in Job : StatusOf(j) = "unborn"
<1> SUFFICES ASSUME Init PROVE ActiveApart /\ \A j \in Job : StatusOf(j) = "unborn"
  OBVIOUS
<1>1. \A j \in Job : Nowhere(j) /\ j \notin created
  BY DEF Init, Nowhere, Stored
<1>2. \A j \in Job : StatusOf(j) = "unborn"
  BY <1>1, InitOwned, Places DEF StatusByPlace
<1> QED BY <1>2 DEF ActiveApart

-----------------------------------------------------------------------------
(* Keys: a live job of the store holds its key. *)

LiveHoldKeys ==
  \A j \in Job : StatusOf(j) \in {"pending", "active", "dead"} => j \in KeyHolders

\* So it is in every reachable state.
LEMMA LiveHolds == Owned => LiveHoldKeys
<1> SUFFICES ASSUME Owned, NEW j \in Job, StatusOf(j) \in {"pending", "active", "dead"}
             PROVE  Holds(j)
  BY HoldersAre DEF LiveHoldKeys, Owned, TypeOK
<1>0. StatusByPlace
  BY Places
<1>1. ASSUME NEW t \in Thread, j \in hand[t]
      PROVE  Holds(j)
  <2>1. StatusOf(j) = HandStatus(pc[t], j)
    BY <1>0, <1>1 DEF StatusByPlace
  <2>2. pc[t] \notin KeyFreeSteps
    BY <2>1 DEF HandStatus, ActiveSteps, ExecutingSteps, PendingSteps, DoneSteps, UnbornSteps,
       KeyFreeSteps
  <2> QED BY <1>1, <2>2 DEF Holds
<1>2. CASE j \in Stored
  BY <1>0, <1>2 DEF StatusByPlace, Stored, Holds
<1>3. CASE Nowhere(j)
  BY <1>0, <1>3 DEF StatusByPlace
<1> QED BY <1>1, <1>2, <1>3 DEF Nowhere

\* After a step, too.
LEMMA LiveHoldsNext == Owned' => LiveHoldKeys'
BY LiveHolds, PTL

-----------------------------------------------------------------------------
(* The refinement *)

StatusFunction == [j \in Job |-> StatusOf(j)]

\* A job has one of the statuses of the store.
LEMMA HasStatus ==
  /\ \A j : StatusOf(j) \in Store!Status
  /\ \A j : StatusOf(j)' \in Store!Status
BY DEF StatusOf, Store!Status

\* Changes, in the words of the store.
LEMMA Moved ==
  ASSUME NEW from, NEW to, Changes(from, to)
  PROVE  Store!Moves(from, to)
BY HasStatus DEF Changes, Store!Moves

\* A step with the keys and the groups of live jobs apart is a step of the store.
LEMMA StoreStep ==
  ASSUME Owned', UniqueKeyExclusion', ActiveApart',
         \/ Harmless \/ Changes({"unborn"}, {"pending", "gone"})
         \/ Changes({"pending"}, {"active", "gone"})
  PROVE  [Store!Next]_StatusFunction
<1>1. CASE Quiet
  BY <1>1 DEF Quiet, StatusFunction
<1>2. CASE Changes({"active"}, {"done", "gone"})
  BY <1>2, Moved DEF Store!Next, Store!Finish
<1>3. CASE Changes({"active"}, {"pending"})
  BY <1>3, Moved DEF Store!Next, Store!Retry
<1>4. CASE Changes({"active", "pending"}, {"dead"})
  BY <1>4, Moved DEF Store!Next, Store!Bury
<1>5. CASE Changes({"dead"}, {"pending"})
  BY <1>5, Moved DEF Store!Next, Store!Revive
<1>6. CASE Changes({"pending", "active", "dead", "done"}, {"gone"})
  BY <1>6, Moved DEF Store!Next, Store!Remove
<1>7. CASE Changes({"unborn"}, {"pending", "gone"})
  <2>1. Store!KeysExclusive'
    BY LiveHoldsNext DEF LiveHoldKeys, UniqueKeyExclusion, Store!KeysExclusive, Store!Live, Store!With,
       Store!SameKey
  <2> QED BY <1>7, <2>1, Moved DEF Store!Next, Store!Submit
<1>8. CASE Changes({"pending"}, {"active", "gone"})
  <2>1. Store!GroupsExclusive'
    BY DEF ActiveApart, Rivals, Store!GroupsExclusive, Store!With, Store!SameGroup
  <2> QED BY <1>8, <2>1, Moved DEF Store!Next, Store!Start
<1> QED BY <1>1, <1>2, <1>3, <1>4, <1>5, <1>6, <1>7, <1>8 DEF Harmless

\* The engine implements the store of jobs it promises: every lock scope of every
\* thread is one step of the store, or none.  ack_batch must not be given ids of
\* several queues, and no queue is obliterated, for that frees the keys of jobs that
\* still run.
THEOREM EngineImplementsStore ==
  ASSUME "obliterate" \notin Calls, "ack_batch" \in Calls => OneQueue
  PROVE  Spec => ImplementsJobStore
<1> DEFINE Inv == Owned /\ HandShape /\ BatchQueue /\ KeySafe /\ ActiveApart
<1>1. Init => Inv /\ Store!Init
  BY InitOwned, InitHand, InitExclusion, InitKeys, InitStatus DEF Store!Init
<1>2. Inv /\ [Next]_vars => Inv'
  BY NextOwned, NextHand, NextBatchQueue, NextKeys, NextApart DEF Owned
<1>3. Inv /\ Inv' /\ [Next]_vars => [Store!Next]_StatusFunction
  BY NextStore, StoreStep DEF KeySafe
<1> QED BY <1>1, <1>2, <1>3, PTL DEF Spec, ImplementsJobStore, Store!Spec, StatusFunction

=============================================================================

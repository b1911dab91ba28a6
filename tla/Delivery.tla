------------------------------- MODULE Delivery -------------------------------
(***************************************************************************)
(* Jobs on their way to those who run them: the gRPC streams and the Rust  *)
(* client's Worker.  Both are a feeder that pulls, a bounded channel, and  *)
(* something at its end that runs jobs and answers with ack or fail.  They *)
(* stop, are killed, or vanish at any moment; a worker's commands and what *)
(* answers them are lost on the way and sent again.  The engine only sees  *)
(* jobs in processing that nobody answers for, which the stall check (and  *)
(* for jobs with a timeout the timeout check) takes back.  Nobody here     *)
(* sends heartbeats.  What the engine does inside is JobLifecycle's, how   *)
(* commands get lost Transport's.                                          *)
(***************************************************************************)
EXTENDS Naturals, Sequences, FiniteSets, SequencesExt

CONSTANTS
  DlvJob, NoDlvJob,
  Stream,         \* gRPC streams: a client that vanishes is all that stops them
  SdkWorker,      \* workers of the Rust client, which can be stopped
  Feeder,         \* the tasks that pull: one for a stream, some for a worker
  OwnerOf,        \* whose each of them is
  MaxOrphans,     \* bound, per consumer: its pulls in the engine nobody waits for
  ChannelSize,    \* slots of a channel
  Concurrency,    \* processors of a worker, jobs a stream's client runs at once
  TimesOut,       \* jobs with a timeout
  DlvMaxAttempts, \* per job, its max_attempts
  DlvScenes       \* bound: jobs that are queued, and the feeders there are

ASSUME DeliveryAssumption ==
  /\ NoDlvJob \notin DlvJob /\ MaxOrphans \in [Stream \cup SdkWorker -> Nat]
  /\ OwnerOf \in [Feeder -> Stream \cup SdkWorker]

VARIABLES
  status,     \* per job, as the engine has it
  attempts, stalledCount,
  feeder,     \* per feeder: where it is, and the job on its way or in its hand
  orphans,    \* per consumer: pulls in the engine whose caller is gone
  channel,    \* per consumer: jobs between the pullers and the processors
  running,    \* per consumer: jobs being run
  replies,    \* per consumer: acks and fails on their way
  mode,       \* per consumer: does it run, drain, or is it over
  taker,      \* per job, who pulled it last (history)
  astray      \* per consumer, jobs that were lost since it was given them: with the
              \* answer to a pull, an aborted puller, or an ack or fail (history)

engineSide == <<status, attempts, stalledCount>>
consumerSide == <<feeder, orphans, channel, running, replies, mode>>
dlvHistory == <<taker, astray>>
deliveryVars == <<engineSide, consumerSide, dlvHistory>>

Consumer == Stream \cup SdkWorker

DeliveryStart(scene) ==
  /\ status = [j \in DlvJob |-> IF j \in scene.jobs THEN "queued" ELSE "done"]
  /\ attempts = [j \in DlvJob |-> 0] /\ stalledCount = [j \in DlvJob |-> 0]
  /\ feeder = [f \in Feeder |->
       [at |-> IF f \in scene.feeders THEN "idle" ELSE "ended", job |-> NoDlvJob]]
  /\ orphans = [c \in Consumer |-> 0]
  /\ channel = [c \in Consumer |-> <<>>] /\ running = [c \in Consumer |-> {}]
  /\ replies = [c \in Consumer |-> {}]
  /\ mode = [c \in Consumer |->
               IF \E f \in scene.feeders : OwnerOf[f] = c THEN "running" ELSE "gone"]
  /\ taker = [j \in DlvJob |-> CHOOSE c \in Consumer : TRUE]
  /\ astray = [c \in Consumer |-> {}]

DeliveryInit == \E scene \in DlvScenes : DeliveryStart(scene)

Feeds(f, at, j) == feeder' = [feeder EXCEPT ![f] = [at |-> at, job |-> j]]

-----------------------------------------------------------------------------
(* A feeder: stream_jobs, process_jobs, a puller of start *)

\* The loop looks whether its consumer is still there, then waits in pull ...
FeederLoop(f) ==
  /\ feeder[f].at = "idle"
  /\ Feeds(f, IF mode[OwnerOf[f]] = "running" THEN "pulling" ELSE "ended", NoDlvJob)
  /\ UNCHANGED <<engineSide, orphans, channel, running, replies, mode, dlvHistory>>

FeederPullTimeout(f) ==
  /\ feeder[f].at = "pulling" /\ Feeds(f, "idle", NoDlvJob)
  /\ UNCHANGED <<engineSide, orphans, channel, running, replies, mode, dlvHistory>>

\* The engine gives j to a pull of c: one that somebody waits for, or not.
Taken(c, j, awaited) ==
  /\ status[j] = "queued" /\ status' = [status EXCEPT ![j] = "active"]
  /\ taker' = [taker EXCEPT ![j] = c]
  /\ astray' = [astray EXCEPT ![c] = IF awaited THEN @ \ {j} ELSE @ \cup {j}]

\* ... which a stream calls, and a worker asks for over its connections.
FeederPull(f) ==
  /\ feeder[f].at = "pulling"
  /\ \E j \in DlvJob :
       /\ Taken(OwnerOf[f], j, TRUE)
       /\ Feeds(f, IF OwnerOf[f] \in Stream THEN "holding" ELSE "answered", j)
  /\ UNCHANGED <<attempts, stalledCount, orphans, channel, running, replies, mode>>

PullAnswered(f) ==
  /\ feeder[f].at = "answered" /\ Feeds(f, "holding", feeder[f].job)
  /\ UNCHANGED <<engineSide, orphans, channel, running, replies, mode, dlvHistory>>

\* A pull is given up: it may never have come to the engine, it may be there and
\* still wait for a job, and the job it was given is lost with the answer.
Abandoned(f) ==
  /\ \/ UNCHANGED orphans
     \/ /\ feeder[f].at = "pulling" /\ orphans[OwnerOf[f]] < MaxOrphans[OwnerOf[f]]
        /\ orphans' = [orphans EXCEPT ![OwnerOf[f]] = @ + 1]
  /\ astray' = [astray EXCEPT ![OwnerOf[f]] = @ \cup ({feeder[f].job} \ {NoDlvJob})]

\* Its session broke or its time is over: it goes out on the next connection, or
\* fails, and the loop goes on.
PullGivenUp(f) ==
  /\ OwnerOf[f] \in SdkWorker /\ feeder[f].at \in {"pulling", "answered"}
  /\ \E at \in {"pulling", "idle"} : Feeds(f, at, NoDlvJob)
  /\ Abandoned(f)
  /\ UNCHANGED <<engineSide, channel, running, replies, mode, taker>>

\* A pull in the engine takes a job even if nobody waits for it any more.
OrphanPull(c) ==
  /\ orphans[c] > 0 /\ orphans' = [orphans EXCEPT ![c] = @ - 1]
  /\ \E j \in DlvJob : Taken(c, j, FALSE)
  /\ UNCHANGED <<attempts, stalledCount, feeder, channel, running, replies, mode>>

OrphanGivesUp(c) ==
  /\ orphans[c] > 0 /\ orphans' = [orphans EXCEPT ![c] = @ - 1]
  /\ UNCHANGED <<engineSide, feeder, channel, running, replies, mode, dlvHistory>>

\* To a closed channel nothing is sent: the job is dropped, the loop ends.
FeederSend(f) ==
  /\ feeder[f].at = "holding"
  /\ LET c == OwnerOf[f] IN
       IF mode[c] = "gone"
         THEN Feeds(f, "ended", NoDlvJob) /\ UNCHANGED channel
         ELSE /\ Len(channel[c]) < ChannelSize
              /\ channel' = [channel EXCEPT ![c] = Append(@, feeder[f].job)]
              /\ Feeds(f, "idle", NoDlvJob)
  /\ UNCHANGED <<engineSide, orphans, running, replies, mode, dlvHistory>>

-----------------------------------------------------------------------------
(* The other end of the channel *)

Consume(c) ==
  /\ mode[c] \in {"running", "draining"} /\ channel[c] # <<>>
  /\ Cardinality(running[c]) < Concurrency
  /\ running' = [running EXCEPT ![c] = @ \cup {Head(channel[c])}]
  /\ channel' = [channel EXCEPT ![c] = Tail(@)]
  /\ UNCHANGED <<engineSide, feeder, orphans, replies, mode, dlvHistory>>

\* The processor returns; a worker's task waits until the engine has answered.
Finish(c) ==
  /\ mode[c] \in {"running", "draining"}
  /\ \E j \in running[c], ok \in BOOLEAN :
       /\ running' = [running EXCEPT ![c] = @ \ {j}]
       /\ replies' = [replies EXCEPT ![c] = @ \cup {[job |-> j, ok |-> ok]}]
  /\ UNCHANGED <<engineSide, feeder, orphans, channel, mode, dlvHistory>>

Retried(j) == IF attempts[j] + 1 < DlvMaxAttempts[j] THEN "queued" ELSE "dead"

\* ack or fail of a job that is no longer in processing is an error nobody reads.
\* A worker that does not get the answer sends it again.
ReplyArrives(c) ==
  /\ \E r \in replies[c] :
       /\ \/ replies' = [replies EXCEPT ![c] = @ \ {r}]
          \/ c \in SdkWorker /\ mode[c] # "gone" /\ UNCHANGED replies
       /\ IF status[r.job] # "active" THEN UNCHANGED <<status, attempts, stalledCount>>
          ELSE /\ status' = [status EXCEPT ![r.job] = IF r.ok THEN "done" ELSE Retried(r.job)]
               /\ attempts' = [attempts EXCEPT ![r.job] = IF r.ok THEN @ ELSE @ + 1]
               /\ stalledCount' = [stalledCount EXCEPT ![r.job] =
                                     IF r.ok \/ Retried(r.job) = "dead" THEN 0 ELSE @]
  /\ UNCHANGED <<feeder, orphans, channel, running, mode, dlvHistory>>

\* The worker's client fails to send it, the stream breaks before it: a warning.
ReplyLost(c) ==
  /\ c \in SdkWorker \/ mode[c] = "gone"
  /\ \E r \in replies[c] :
       /\ replies' = [replies EXCEPT ![c] = @ \ {r}]
       /\ astray' = [astray EXCEPT ![c] = @ \cup {r.job}]
  /\ UNCHANGED <<engineSide, feeder, orphans, channel, running, mode, taker>>

-----------------------------------------------------------------------------
(* The end of a consumer *)

\* The client of a stream hangs up, the process of a worker dies, or a worker's
\* close_timeout is over: what its channel and its processors had is gone.
Vanish(c) ==
  /\ mode[c] # "gone" /\ mode' = [mode EXCEPT ![c] = "gone"]
  /\ channel' = [channel EXCEPT ![c] = <<>>] /\ running' = [running EXCEPT ![c] = {}]
  /\ UNCHANGED <<engineSide, feeder, orphans, replies, dlvHistory>>

Stop(w) ==
  /\ mode[w] = "running" /\ mode' = [mode EXCEPT ![w] = "draining"]
  /\ UNCHANGED <<engineSide, feeder, orphans, channel, running, replies, dlvHistory>>

\* A worker that stops aborts its pullers one by one, in their pull or with a job
\* for a full channel.
AbortPuller(f) ==
  /\ mode[OwnerOf[f]] = "draining" /\ feeder[f].at # "ended"
  /\ Feeds(f, "ended", NoDlvJob) /\ Abandoned(f)
  /\ UNCHANGED <<engineSide, channel, running, replies, mode, taker>>

PullersEnded(w) == \A f \in Feeder : OwnerOf[f] = w => feeder[f].at = "ended"

\* No puller is left to fill the channel, and the processors have drained it: they
\* end, and start returns.
Stopped(w, drained) ==
  /\ mode[w] = "draining" /\ PullersEnded(w) /\ drained
  /\ mode' = [mode EXCEPT ![w] = "stopped"]
  /\ UNCHANGED <<engineSide, feeder, orphans, channel, running, replies, dlvHistory>>

\* Mutant: the processors end with the job they have.
WorkerStopsAtOnce(w) == Stopped(w, running[w] = {} /\ replies[w] = {})
WorkerStops(w) == Stopped(w, channel[w] = <<>> /\ running[w] = {} /\ replies[w] = {})

-----------------------------------------------------------------------------
(* The engine's checks *)

StallSeen(j, count) ==
  /\ status[j] = "active"
  /\ stalledCount' = [stalledCount EXCEPT ![j] = count]
  /\ status' = [status EXCEPT ![j] = IF count >= 3 THEN "dead" ELSE @]
  /\ UNCHANGED <<attempts, consumerSide, dlvHistory>>

\* Mutant: more time for the job is a fresh start.
CheckStalledJobForgets(j) == StallSeen(j, 1)
CheckStalledJob(j) == StallSeen(j, IF stalledCount[j] >= 2 THEN 3 ELSE stalledCount[j] + 1)

CheckTimedOutJob(j) ==
  /\ j \in TimesOut /\ status[j] = "active"
  /\ status' = [status EXCEPT ![j] = Retried(j)]
  /\ attempts' = [attempts EXCEPT ![j] = @ + 1]
  /\ UNCHANGED <<stalledCount, consumerSide, dlvHistory>>

DeliveryNext ==
  \/ \E f \in Feeder :
       \/ FeederLoop(f) \/ FeederPullTimeout(f) \/ FeederPull(f) \/ PullAnswered(f)
       \/ PullGivenUp(f) \/ FeederSend(f) \/ AbortPuller(f)
  \/ \E c \in Consumer :
       \/ OrphanPull(c) \/ OrphanGivesUp(c)
       \/ Consume(c) \/ Finish(c) \/ ReplyArrives(c) \/ ReplyLost(c) \/ Vanish(c)
  \/ \E w \in SdkWorker : Stop(w) \/ WorkerStops(w)
  \/ \E j \in DlvJob : CheckStalledJob(j) \/ CheckTimedOutJob(j)

DeliverySpec == DeliveryInit /\ [][DeliveryNext]_deliveryVars

\* The stall check runs every ten seconds, and nobody sends heartbeats.
DeliveryFairness == \A j \in DlvJob : WF_deliveryVars(CheckStalledJob(j))

-----------------------------------------------------------------------------
HeldBy(c, j) ==
  \/ \E f \in Feeder : OwnerOf[f] = c /\ feeder[f].job = j
  \/ mode[c] \in {"running", "draining"} /\ j \in ToSet(channel[c]) \cup running[c]
  \/ \E r \in replies[c] : r.job = j

(* No job in processing is forgotten: whoever took it last has it, on the way to
   it, in one of its hands or on the way back, or has vanished, or the job was
   lost since it took it: the answer to its pull or its ack or fail did not
   arrive, or a puller was aborted with it.  A worker that was stopped in order
   leaves nothing else. *)
ActiveJobsAreHeld ==
  \A j \in DlvJob : status[j] = "active" =>
    \/ HeldBy(taker[j], j)
    \/ mode[taker[j]] = "gone"
    \/ j \in astray[taker[j]]

(* A job somebody took does not stay in processing, whatever became of them. *)
TakenJobsSettle == \A j \in DlvJob : status[j] = "active" ~> status[j] # "active"
=============================================================================

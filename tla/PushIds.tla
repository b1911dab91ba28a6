------------------------------- MODULE PushIds -------------------------------
(***************************************************************************)
(* Pushes of one custom id.  custom_id_map maps it to a job; push looks    *)
(* there, claims the id for a job of its own, puts the job into a          *)
(* container and, if that or its write fails, takes the claim back, each   *)
(* under locks of its own.  push_batch looks, claims and inserts in three  *)
(* critical sections and does not look whether a mapped job exists.        *)
(***************************************************************************)
EXTENDS Integers, FiniteSets

CONSTANTS
  Pusher,
  PiMaxId   \* bound: job ids

ASSUME PushIdAssumption == PiMaxId \in Nat

VARIABLES
  piMapped,  \* custom_id_map: the job of the custom id, or Unmapped
  piJob,     \* id -> where the job is
  piMissed,  \* live jobs whose index entry is gone or names another container
  piCall,    \* per pusher: how far it is (a container: its job went there and
             \* is being written), with which id
  piWindow   \* a push met or made one of the windows named below (history)

piVars == <<piMapped, piJob, piMissed, piCall, piWindow>>

PiId == 1..PiMaxId
Unmapped == 0
FirstIn == {"queue", "waiting"}   \* where a pushed job goes
NotPushing == [at |-> "idle", id |-> Unmapped]

PiInit ==
  /\ piMapped = Unmapped
  /\ piJob = [j \in PiId |-> "none"] /\ piMissed = {}
  /\ piCall = [p \in Pusher |-> NotPushing]
  /\ piWindow = FALSE

-----------------------------------------------------------------------------
\* "elsewhere": processing, or the dead letters; "hidden": between two containers,
\* or its index entry is still to be written.
Alive(j) == piJob[j] \in {"waiting", "queue", "elsewhere", "hidden"}
Drawn(j) == \E p \in Pusher : piCall[p].id = j
FreeIds == {j \in PiId : piJob[j] = "none" /\ ~Drawn(j)}

PushAt(p, stage) == piCall[p].at = stage
PushGoes(p, stage, j) == piCall' = [piCall EXCEPT ![p] = [at |-> stage, id |-> j]]
Returns(p) == piCall' = [piCall EXCEPT ![p] = NotPushing]

\* get_job_by_internal_id looks in the container the index names; completed jobs
\* have no data and are not found.
Found(j) == piJob[j] \in {"waiting", "queue", "elsewhere"} /\ j \notin piMissed
\* The mapping leads to a job that lives, or that its push is about to put in.
MapsToSomeone == piMapped # Unmapped /\ (Drawn(piMapped) \/ Alive(piMapped))

\* Look and claim in one critical section; a mapping to nothing is replaced.
PushClaim(p) ==
  /\ PushAt(p, "idle")
  /\ IF piMapped # Unmapped /\ Found(piMapped)
       THEN UNCHANGED <<piMapped, piCall, piWindow>>
       ELSE /\ \E j \in FreeIds : /\ \A k \in FreeIds : j <= k
                                  /\ PushGoes(p, "insert", j) /\ piMapped' = j
            /\ piWindow' = (piWindow \/ MapsToSomeone)
  /\ UNCHANGED <<piJob, piMissed>>

PushInsert(p) ==
  /\ PushAt(p, "insert")
  /\ \/ \E c \in FirstIn : /\ piJob' = [piJob EXCEPT ![piCall[p].id] = c]
                            /\ PushGoes(p, c, piCall[p].id)
     \/ PushGoes(p, "rollback", piCall[p].id) /\ UNCHANGED piJob   \* unique key taken
  /\ UNCHANGED <<piMapped, piMissed, piWindow>>

PushReturns(p) ==
  /\ \E c \in FirstIn : PushAt(p, c)
  /\ Returns(p)
  /\ UNCHANGED <<piMapped, piJob, piMissed, piWindow>>

\* The synchronous write failed: the job is taken out of the container it was put
\* in, if it is still there, and out of the index, wherever it is.
PushTakeOut(p) ==
  /\ \E c \in FirstIn :
       /\ PushAt(p, c)
       /\ piJob' = [piJob EXCEPT ![piCall[p].id] = IF @ = c THEN "gone" ELSE @]
  /\ piMissed' = piMissed \cup {piCall[p].id}
  /\ PushGoes(p, "rollback", piCall[p].id)
  /\ UNCHANGED <<piMapped, piWindow>>

\* The mapping is removed, whoever's it is.
PushRollback(p) ==
  /\ PushAt(p, "rollback")
  /\ piMapped' = Unmapped
  /\ piWindow' = \/ piWindow
                 \/ piMapped # Unmapped /\ (piMapped # piCall[p].id \/ Alive(piMapped))
  /\ Returns(p)
  /\ UNCHANGED <<piJob, piMissed>>

\* Whatever is mapped is the answer; completed jobs and jobs that are gone too.
PushBatchLookup(p) ==
  /\ PushAt(p, "idle") /\ piMapped = Unmapped
  /\ PushGoes(p, "batch_claim", Unmapped)
  /\ UNCHANGED <<piMapped, piJob, piMissed, piWindow>>

\* Mutant: the second look, under the write lock, is left out.
PushBatchClaimBlindly(p) ==
  /\ PushAt(p, "batch_claim")
  /\ \E j \in FreeIds : /\ \A k \in FreeIds : j <= k
                        /\ piMapped' = j /\ PushGoes(p, "batch_insert", j)
  /\ UNCHANGED <<piJob, piMissed, piWindow>>
\* Claim and unique key under one lock: a duplicate leaves no claim behind.
PushBatchClaim(p) ==
  /\ PushAt(p, "batch_claim")
  /\ \/ Returns(p) /\ UNCHANGED piMapped
     \/ /\ piMapped = Unmapped
        /\ \E j \in FreeIds : /\ \A k \in FreeIds : j <= k
                              /\ piMapped' = j /\ PushGoes(p, "batch_insert", j)
  /\ UNCHANGED <<piJob, piMissed, piWindow>>

PushBatchInsert(p) ==
  /\ PushAt(p, "batch_insert")
  /\ \E c \in FirstIn : piJob' = [piJob EXCEPT ![piCall[p].id] = c]
  /\ Returns(p)
  /\ UNCHANGED <<piMapped, piMissed, piWindow>>

\* What the rest of the engine does with a job.
Moves(j, from, to) == piJob[j] = from /\ piJob' = [piJob EXCEPT ![j] = to]

\* A pull pops the job; ack, fail and the scans take it out of processing.
PiTaken(j) ==
  /\ Moves(j, "queue", "hidden") \/ Moves(j, "elsewhere", "hidden")
  /\ UNCHANGED <<piMapped, piMissed, piCall, piWindow>>

\* It lies in its next container and the index says so: the later of the two.
PiFiled(j) ==
  /\ \/ Moves(j, "hidden", "queue") \/ Moves(j, "hidden", "elsewhere")
     \/ Moves(j, "elsewhere", "queue")   \* retry_dlq
     \/ Moves(j, "queue", "elsewhere") \/ Moves(j, "waiting", "elsewhere")   \* discard
  /\ piMissed' = piMissed \ {j}
  /\ UNCHANGED <<piMapped, piCall, piWindow>>

\* check_dependencies leaves the index entry as it was.
PiReleased(j) ==
  /\ Moves(j, "waiting", "queue")
  /\ piMissed' = piMissed \cup {j}
  /\ UNCHANGED <<piMapped, piCall, piWindow>>

\* A pull's entry lands after its worker gave the job back; clear_all_queues and
\* run_cleanup drop entries of jobs that live on.
PiEntryLost(j) ==
  /\ Alive(j)
  /\ piMissed' = piMissed \cup {j}
  /\ UNCHANGED <<piMapped, piJob, piCall, piWindow>>

PiEnd(j) ==
  /\ \/ Moves(j, "hidden", "completed") \/ Moves(j, "completed", "gone")
     \/ \E c \in {"waiting", "queue", "elsewhere", "hidden"} : Moves(j, c, "gone")
  /\ piMissed' = piMissed \ {j}
  /\ UNCHANGED <<piMapped, piCall, piWindow>>

\* Cleanup of completed jobs takes their mappings with them.
PiCleanupCompleted(j) ==
  /\ Moves(j, "completed", "gone")
  /\ piMapped' = IF piMapped = j THEN Unmapped ELSE piMapped
  /\ UNCHANGED <<piMissed, piCall, piWindow>>

\* reset forgets the ids after the jobs: a push may come between.
PiReset ==
  /\ piMapped' = Unmapped
  /\ piWindow' = (piWindow \/ MapsToSomeone)
  /\ UNCHANGED <<piJob, piMissed, piCall>>

PiNext ==
  \/ \E p \in Pusher :
       \/ PushClaim(p) \/ PushInsert(p) \/ PushReturns(p) \/ PushTakeOut(p) \/ PushRollback(p)
       \/ PushBatchLookup(p) \/ PushBatchClaim(p) \/ PushBatchInsert(p)
  \/ \E j \in PiId : PiTaken(j) \/ PiFiled(j) \/ PiReleased(j) \/ PiEntryLost(j)
                      \/ PiEnd(j) \/ PiCleanupCompleted(j)
  \/ PiReset

PiSpec == PiInit /\ [][PiNext]_piVars

-----------------------------------------------------------------------------
(* Two live jobs share a custom id only when a push met a mapping whose job get_job
   does not find - not yet or for a moment not in a container, or in one the index
   does not name, as every job released from its dependencies until a worker takes
   it - or when a rollback removed the mapping of another job or of its own job
   that had left its first container, or reset the mapping of a job pushed while
   it ran: single and batch pushes, refused and failed ones, ends and cleanups in
   any other order keep the id to one job. *)
OneLiveJobPerId ==
  \A i, j \in PiId : Alive(i) /\ Alive(j) /\ i # j => piWindow
=============================================================================

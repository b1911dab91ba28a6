------------------------ MODULE PersistenceProperties ------------------------
(***************************************************************************)
(* What the database must know of the jobs, and what the comments of the   *)
(* code say that it knows.                                                 *)
(***************************************************************************)
EXTENDS Persistence

Copy == [attempts : Nat, max : Nat, fleeting : BOOLEAN]
Row == [attempts : Nat, max : Nat, state : {"waiting", "delayed", "waiting_children"}]
Container == [Job -> Copy \cup {Nothing}]

\* Type correctness of the engine's copies, the writer and the tables.
TypeOK ==
  /\ queued \in Container /\ active \in Container /\ waiting \in Container
  /\ \A e \in ToSet(dlq) : e.job \in Job /\ e.copy \in Copy
  /\ completed \subseteq Job /\ nextId \in 1..(MaxId + 1)
  /\ Len(queue) <= Capacity /\ JobsOf(queue \o buffer) \subseteq Job
  /\ Len(calls) <= MaxCalls
  /\ writer \in {"running", "stopping", "leaving", "final", "stopped"}
  /\ db.rows \in [Job -> Row \cup {Nothing}] /\ db.results \subseteq Job
  /\ \A r \in ToSet(db.dead) : r.job \in Job /\ r.attempts \in Nat
  /\ up \in BOOLEAN /\ restarts \in 0..MaxRestarts
  /\ dropped \cup strayed \cup promised \subseteq Job

-----------------------------------------------------------------------------
(* The tables as they will be when everything accepted so far is written *)

Accepted == buffer \o (IF TooLate THEN <<>> ELSE queue)
Projected == ExecAll(db, Accepted)

InCall(j) == \E i \in DOMAIN calls : calls[i].op.job = j
Inserting(j) == \E i \in DOMAIN calls : calls[i].op.kind = "insert" /\ calls[i].op.job = j
Entries(s, j) == Cardinality({i \in DOMAIN s : s[i].job = j})

\* The tables follow the engine: once what is queued is written, a job of the
\* engine has its row with its count of attempts, a dead letter has its row, and
\* a job that ended has none; after a crash and recovery at any moment too.  A
\* job is excepted only if a write of it was lost in a batch, failed, or came
\* after the writer's last look, or if its writes left the order of the engine's
\* steps: an overtaken write, a write beside the queue, or no write at all.
RowsMatchEngine ==
  up => \A j \in Job \ (strayed \cup dropped) : ~InCall(j) =>
    /\ Known(j) <=> HasRow(Projected, j)
    /\ \A container \in {queued, active, waiting} :
         Holds(container, j) => container[j].attempts = Projected.rows[j].attempts
    /\ Entries(dlq, j) = Entries(Projected.dead, j)

\* Whatever overtakes what, a job that is queued, running or waiting has a row
\* in one of the tables, or will: a restart finds it.  Only a lost write can lose it.
NoLiveJobLost ==
  up => \A j \in Job \ dropped : Known(j) /\ ~Inserting(j) =>
    HasRow(Projected, j) \/ Entries(Projected.dead, j) > 0

-----------------------------------------------------------------------------
(* What comments and documents say *)

\* "guaranteed durability": with SYNC_PERSISTENCE a job whose push returned Ok,
\* and that has not ended since, is in the engine after every restart.
SyncPushDurable ==
  SyncPersistence /\ up => \A j \in promised : Known(j) \/ InCall(j)

\* "job was inserted at push, must be removed now": when nothing about an ended
\* job is on its way to the tables any more, it has no row to be recovered from.
EndedJobsErased ==
  up => \A j \in Job :
    ~Known(j) /\ ~InCall(j) /\ Entries(dlq, j) = 0 /\ j \notin JobsOf(Accepted)
      => ~HasRow(db, j)

\* "cluster-wide unique ID from SQLite sequence": the next id is none that the
\* engine knows as a job, a dead letter or a completed job.
NextIdIsFresh ==
  up => \A j \in Job :
    Known(j) \/ Entries(dlq, j) > 0 \/ j \in completed => j < nextId
=============================================================================

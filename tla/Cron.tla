--------------------------------- MODULE Cron ---------------------------------
(***************************************************************************)
(* Cron jobs: a table in memory, its copy in SQLite, and the background    *)
(* task that runs what is due.  add_cron writes the row and then the       *)
(* table, delete_cron and obliterate the table and then the row, and the   *)
(* task changes the table in one lock scope, then writes rows one by one,  *)
(* then pushes: the three overlap, and the process may die in between.  A  *)
(* write of a row may fail, which is only logged; reset clears the table   *)
(* and leaves the rows; the wall clock may be set back.                    *)
(***************************************************************************)
EXTENDS Integers, FiniteSets

CONSTANTS
  CronName,
  CronCaller,      \* threads that serve add_cron, delete_cron and obliterate
  CronInterval,    \* repeat_every, or N of a schedule "*/N"
  CronOccurs,      \* time -> when a cron expression occurs next (croner, or in a minute)
  CronLimit,       \* limit
  CronMaxNow,      \* bound: the clock
  CronMaxAdds,     \* bound: calls of add_cron
  CronMaxRestarts  \* bound: restarts

ASSUME CronAssumption ==
  /\ CronInterval \in Nat /\ CronLimit \in Nat \ {0}
  /\ CronMaxNow \in Nat /\ CronMaxAdds \in Nat /\ CronMaxRestarts \in Nat
ASSUME CronOccursAssumption ==
  /\ CronOccurs \in [0..CronMaxNow -> Nat]
  /\ \A t \in 0..CronMaxNow : CronOccurs[t] > t

VARIABLES
  cronJobs,   \* cron_jobs: name -> entry or NoEntry
  cronRows,   \* the table cron_jobs of the database
  cronCall,   \* per caller: what it has still to do
  cronTask,   \* the background task: rows to write, rows to delete, jobs to push
  cronNow, cronAdds, cronRestarts,
  cronPushes,    \* the pushes made: entry's serial, slot, process (history)
  cronStale,     \* serials whose row missed a next run, or got another's (history)
  cronForgotten  \* names whose row outlived the entry: reset, or a failed delete (history)

cronVars == <<cronJobs, cronRows, cronCall, cronTask, cronNow, cronAdds, cronRestarts,
              cronPushes, cronStale, cronForgotten>>
cronBounds == <<cronAdds, cronRestarts>>
cronFailed == <<cronStale, cronForgotten>>

CronKind == {"repeat", "schedule"}
\* serial tells one registration of a name from the next.
NoEntry == [serial |-> 0, kind |-> "repeat", next_run |-> 0, executions |-> 0]
CronIdle == [at |-> "idle", names |-> {}, entry |-> NoEntry]
NothingDue == [updates |-> {}, removals |-> {}, pushes |-> {}]

CronInit ==
  /\ cronJobs = [n \in CronName |-> NoEntry] /\ cronRows = cronJobs
  /\ cronCall = [c \in CronCaller |-> CronIdle]
  /\ cronTask = NothingDue
  /\ cronNow = 0 /\ cronAdds = 0 /\ cronRestarts = 0 /\ cronPushes = {}
  /\ cronStale = {} /\ cronForgotten = {}

Emptied(table, S) == [n \in CronName |-> IF n \in S THEN NoEntry ELSE table[n]]

\* When a registration runs after time t.
NextRun(kind, t) == IF kind = "repeat" THEN t + CronInterval ELSE CronOccurs[t]

-----------------------------------------------------------------------------
(* add_cron, add_cron_with_repeat: the row first *)

AddCron(c) ==
  /\ cronCall[c].at = "idle" /\ cronAdds < CronMaxAdds
  /\ \E n \in CronName, kind \in CronKind :
       LET e == [serial |-> cronAdds + 1, kind |-> kind, next_run |-> NextRun(kind, cronNow),
                 executions |-> 0]
       IN /\ cronRows' \in {[cronRows EXCEPT ![n] = e], cronRows}
          /\ cronCall' = [cronCall EXCEPT ![c] = [at |-> "insert", names |-> {n}, entry |-> e]]
  /\ cronAdds' = cronAdds + 1
  /\ UNCHANGED <<cronJobs, cronTask, cronNow, cronRestarts, cronPushes, cronFailed>>

AddCronInsert(c) ==
  /\ cronCall[c].at = "insert"
  /\ cronJobs' = [n \in CronName |->
                    IF n \in cronCall[c].names THEN cronCall[c].entry ELSE cronJobs[n]]
  /\ cronForgotten' = cronForgotten \ cronCall[c].names
  /\ cronCall' = [cronCall EXCEPT ![c] = CronIdle]
  /\ UNCHANGED <<cronRows, cronTask, cronNow, cronBounds, cronPushes, cronStale>>

\* delete_cron of one name, obliterate of the queue of all: the table first.
RemoveCrons(c) ==
  /\ cronCall[c].at = "idle"
  /\ \E S \in {{n} : n \in {m \in CronName : cronJobs[m] # NoEntry}} \cup {CronName} :
       /\ cronJobs' = Emptied(cronJobs, S)
       /\ cronCall' = [cronCall EXCEPT ![c] =
                         [at |-> "delete_rows", names |-> S, entry |-> NoEntry]]
  /\ UNCHANGED <<cronRows, cronTask, cronNow, cronBounds, cronPushes, cronFailed>>

\* Rows are deleted, or stay.
DeletesRows(S) ==
  \/ cronRows' = Emptied(cronRows, S) /\ cronForgotten' = cronForgotten \ S
  \/ cronRows' = cronRows /\ cronForgotten' = cronForgotten \cup S

RemoveCronRows(c) ==
  /\ cronCall[c].at = "delete_rows"
  /\ DeletesRows(cronCall[c].names)
  /\ cronCall' = [cronCall EXCEPT ![c] = CronIdle]
  /\ UNCHANGED <<cronJobs, cronTask, cronNow, cronBounds, cronPushes, cronStale>>

\* reset: the table only.
ResetCrons ==
  /\ cronJobs' = Emptied(cronJobs, CronName)
  /\ cronForgotten' = cronForgotten \cup {n \in CronName : cronJobs[n] # NoEntry}
  /\ UNCHANGED <<cronRows, cronCall, cronTask, cronNow, cronBounds, cronPushes, cronStale>>

-----------------------------------------------------------------------------
(* run_cron_jobs: one scope of the table, then row by row, then push by push *)

Due(n) == cronJobs[n] # NoEntry /\ cronJobs[n].next_run <= cronNow
Spent(n) == cronJobs[n].executions >= CronLimit

\* One push, of a registration, for one of its slots, by one process.
PushOf(e) == [serial |-> e.serial, kind |-> e.kind, slot |-> e.next_run, at |-> cronNow,
              process |-> cronRestarts]

Advanced(e) == [e EXCEPT !.executions = @ + 1, !.next_run = NextRun(e.kind, cronNow)]

RunCronJobs ==
  /\ cronTask = NothingDue
  /\ LET run == {n \in CronName : Due(n) /\ ~Spent(n)}
         gone == {n \in CronName : Due(n) /\ Spent(n)}
     IN /\ run \cup gone # {}
        /\ cronJobs' = [n \in CronName |->
             CASE n \in run -> Advanced(cronJobs[n])
               [] n \in gone -> NoEntry
               [] OTHER -> cronJobs[n]]
        /\ cronTask' = [updates |-> {<<n, cronJobs'[n].next_run, cronJobs[n].serial>> :
                                       n \in run},
                        removals |-> gone,
                        pushes |-> {PushOf(cronJobs[n]) : n \in run}]
  /\ UNCHANGED <<cronRows, cronCall, cronNow, cronBounds, cronPushes, cronFailed>>

\* UPDATE cron_jobs SET next_run, by name: the count of executions is not written,
\* a row that is gone is not written either, and one that a later registration of
\* the name put there is written too.
Rescheduled(row, t) == IF row = NoEntry THEN NoEntry ELSE [row EXCEPT !.next_run = t]

PersistCronNextRun ==
  /\ \E u \in cronTask.updates :
       /\ \/ /\ cronRows' = [cronRows EXCEPT ![u[1]] = Rescheduled(@, u[2])]
             /\ cronStale' = cronStale \cup ({cronRows[u[1]].serial} \ {u[3]})
          \/ cronRows' = cronRows /\ cronStale' = cronStale \cup {u[3]}
       /\ cronTask' = [cronTask EXCEPT !.updates = @ \ {u}]
  /\ UNCHANGED <<cronJobs, cronCall, cronNow, cronBounds, cronPushes, cronForgotten>>

PersistCronDelete ==
  /\ cronTask.updates = {}
  /\ \E n \in cronTask.removals :
       /\ DeletesRows({n})
       /\ cronTask' = [cronTask EXCEPT !.removals = @ \ {n}]
  /\ UNCHANGED <<cronJobs, cronCall, cronNow, cronBounds, cronPushes, cronStale>>

\* Mutant: the jobs are pushed before the rows are advanced.
CronPushEarly ==
  /\ \E p \in cronTask.pushes :
       /\ cronPushes' = cronPushes \cup {p}
       /\ cronTask' = [cronTask EXCEPT !.pushes = @ \ {p}]
  /\ UNCHANGED <<cronJobs, cronRows, cronCall, cronNow, cronBounds, cronFailed>>
CronPush ==
  /\ cronTask.updates = {} /\ cronTask.removals = {}
  /\ \E p \in cronTask.pushes :
       /\ cronPushes' = cronPushes \cup {p}
       /\ cronTask' = [cronTask EXCEPT !.pushes = @ \ {p}]
  /\ UNCHANGED <<cronJobs, cronRows, cronCall, cronNow, cronBounds, cronFailed>>

CronTick ==
  /\ cronNow' \in {cronNow + 1, cronNow - 1} \cap 0..CronMaxNow
  /\ UNCHANGED <<cronJobs, cronRows, cronCall, cronTask, cronBounds, cronPushes, cronFailed>>

\* The process ends at any point; the next one loads the rows.
CronRestart ==
  /\ cronRestarts < CronMaxRestarts /\ cronRestarts' = cronRestarts + 1
  /\ cronJobs' = cronRows
  /\ cronCall' = [c \in CronCaller |-> CronIdle] /\ cronTask' = NothingDue
  /\ cronForgotten' = {}
  /\ UNCHANGED <<cronRows, cronNow, cronAdds, cronPushes, cronStale>>

CronNext ==
  \/ \E c \in CronCaller : AddCron(c) \/ AddCronInsert(c) \/ RemoveCrons(c) \/ RemoveCronRows(c)
  \/ ResetCrons
  \/ RunCronJobs \/ PersistCronNextRun \/ PersistCronDelete \/ CronPush
  \/ CronTick \/ CronRestart

CronSpec == CronInit /\ [][CronNext]_cronVars

-----------------------------------------------------------------------------
\* p is for a slot after the decision on q: an interval or more later, or another
\* occurrence of the schedule.
Follows(p, q) == p.slot >= NextRun(q.kind, q.at)

(* A registration is run as it was asked for, a process that died between two
   steps and a clock set back included: of two pushes of a registration one is
   for a slot that comes after the decision on the other -- two repeats are an
   interval apart, and no occurrence of a cron expression is run twice --, and
   one process makes at most CronLimit of them (the count starts again with
   every restart).  Excepted from the first are registrations whose row missed a
   next run because its write failed, or got that of another registration of
   the same name, added while the first was run: a restart goes by the row. *)
CronRunsAsRegistered ==
  /\ \A p, q \in cronPushes : p.serial = q.serial /\ p # q /\ p.serial \notin cronStale =>
       Follows(p, q) \/ Follows(q, p)
  /\ \A p \in cronPushes :
       Cardinality({q \in cronPushes : q.serial = p.serial /\ q.process = p.process})
         <= CronLimit

(* A cron job that was deleted does not come back with a restart: a row
   without an entry belongs to a call, or a run of the task, in progress, unless
   the deletion of the row failed or reset, which deletes none, took the entry. *)
NoGhostCron ==
  \A n \in CronName : cronRows[n] # NoEntry /\ cronJobs[n] = NoEntry =>
    \/ \E c \in CronCaller : cronCall[c].at # "idle" /\ n \in cronCall[c].names
    \/ n \in cronTask.removals
    \/ n \in cronForgotten

(* The table, its copy and the pushes say the same of a registration, however
   calls, the task and restarts overlap. *)
CronKeepsItsTable == CronRunsAsRegistered /\ NoGhostCron
=============================================================================

---------------------------- MODULE MCPersistence ----------------------------
(* Instances of Persistence for TLC: the options of the jobs and of the server. *)
EXTENDS PersistenceProperties

SecondOnFirst == [j \in Job |-> IF j = 2 THEN {1} ELSE {}]
NoDependencies == [j \in Job |-> {}]
FirstTwice == [j \in Job |-> IF j = 1 THEN 2 ELSE 1]
Once == [j \in Job |-> 1]

\* One job and every fault, or two jobs and the ways a process ends.
OneOrTwo ==
  {[ids |-> 1, batch |-> 1, sync |-> TRUE, faults |-> {"batch", "write", "crash", "stop"},
    calls |-> {"push", "pull", "stall", "discard", "delay", "cancel", "retry_dlq"}],
   [ids |-> 2, batch |-> 2, sync |-> FALSE, faults |-> {"crash", "stop"},
    calls |-> {"push", "pull", "ack", "fail", "cancel"}]}
\* Two jobs that end before the process stops in good order.
EndedBeforeStop ==
  {[ids |-> 2, batch |-> 2, sync |-> FALSE, faults |-> {"stop"},
    calls |-> {"push", "pull", "ack", "fail"}]}
\* Jobs pushed with SYNC_PERSISTENCE before a crash.
SyncThenCrash ==
  {[ids |-> 2, batch |-> 2, sync |-> TRUE, faults |-> {"crash"},
    calls |-> {"push", "pull", "ack"}]}
=============================================================================

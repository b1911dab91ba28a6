------------------------------- MODULE JobStore -------------------------------
(***************************************************************************)
(* What the job engine promises its clients, without threads or locks:     *)
(* each job has one status at a time, a unique key belongs to one live job *)
(* of a queue, a group of a queue has one job in execution, and a job that *)
(* has completed or left the engine never comes back.                      *)
(***************************************************************************)
CONSTANTS Job, Queue, Key, NoKey, Group, NoGroup, QueueOf, KeyOf, GroupOf

VARIABLE status

Status == {"unborn", "pending", "active", "dead", "done", "gone"}

With(st) == {j \in Job : status[j] = st}
Live == With("pending") \cup With("active") \cup With("dead")

SameKey(i, j) ==
  i # j /\ QueueOf[i] = QueueOf[j] /\ KeyOf[i] = KeyOf[j] /\ KeyOf[i] # NoKey
SameGroup(i, j) ==
  i # j /\ QueueOf[i] = QueueOf[j] /\ GroupOf[i] = GroupOf[j] /\ GroupOf[i] # NoGroup

Init == status = [j \in Job |-> "unborn"]

KeysExclusive == \A i, j \in Live : ~SameKey(i, j)
GroupsExclusive == \A i, j \in With("active") : ~SameGroup(i, j)

\* Some jobs whose status is in `from` get one in `to`; no other job changes.
Moves(from, to) ==
  LET old == status
      new == status' IN
  /\ new \in [Job -> Status]
  /\ \A j \in Job : new[j] # old[j] => old[j] \in from /\ new[j] \in to

\* Jobs are submitted, and refused when their unique key is taken.
Submit == Moves({"unborn"}, {"pending", "gone"}) /\ KeysExclusive'

\* A worker is given jobs; expired ones are dropped on the way.
Start == Moves({"pending"}, {"active", "gone"}) /\ GroupsExclusive'

\* Jobs succeed; those with remove_on_complete leave no trace.
Finish == Moves({"active"}, {"done", "gone"})

Retry == Moves({"active"}, {"pending"})
Bury == Moves({"active", "pending"}, {"dead"})
Revive == Moves({"dead"}, {"pending"})

\* Cancelling, draining, cleaning, purging.
Remove == Moves({"pending", "active", "dead", "done"}, {"gone"})

Next == Submit \/ Start \/ Finish \/ Retry \/ Bury \/ Revive \/ Remove

Spec == Init /\ [][Next]_status
=============================================================================

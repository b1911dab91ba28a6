------------------------------- MODULE MCJobs -------------------------------
(* Instances of JobLifecycle for TLC: the options of the jobs. *)
EXTENDS JobProperties, TLC

CONSTANTS j1, j2, j3, j4, q1, q2, k1, g1

Nothing == {}
Everyone == Job
OneQueue == [j \in Job |-> q1]
TwoQueues == [j \in Job |-> IF j = j2 THEN q2 ELSE q1]
\* j1 and j2 share a unique key, j1 and j3 a group.
TwoSameKey == [j \in Job |-> IF j = j3 THEN NoKey ELSE k1]
TwoSameGroup == [j \in Job |-> IF j = j2 THEN NoGroup ELSE g1]
\* j1 and j2 share a group.
FirstTwoGroup == [j \in Job |-> IF j \in {j1, j2} THEN g1 ELSE NoGroup]
NoKeys == [j \in Job |-> NoKey]
SameKeys == [j \in Job |-> k1]
AllButFirst == [j \in Job |-> IF j = j1 THEN NoGroup ELSE g1]
NoGroups == [j \in Job |-> NoGroup]
OneGroup == [j \in Job |-> g1]
\* j3 depends on j1 and j2.
ThirdOnBoth == [j \in Job |-> IF j = j3 THEN {j1, j2} ELSE {}]
NoDeps == [j \in Job |-> {}]
SamePrio == [j \in Job |-> 0]
Attempts1 == [j \in Job |-> 1]
Attempts2 == [j \in Job |-> 2]
FirstTwice == [j \in Job |-> IF j = j1 THEN 2 ELSE 1]
Unlimited == [q \in Queue |-> NoLimit]
LimitOne == [q \in Queue |-> 1]
LimitTwo == [q \in Queue |-> 2]
Symmetry == Permutations(Client)
=============================================================================

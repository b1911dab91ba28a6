---------------------------- MODULE PriorityQueue ----------------------------
(***************************************************************************)
(* IndexedPriorityQueue: a binary heap of small entries next to a map from *)
(* id to job.  Removing and updating leave the heap alone; a generation    *)
(* number tells a heap entry that is out of date, and pop discards it.     *)
(*                                                                         *)
(* The order of two entries compares ids upwards when either is LIFO and   *)
(* downwards when neither is, which is not transitive, so what a pop       *)
(* returns depends on the shape of the heap: the heap is modelled as the   *)
(* array of Rust's BinaryHeap, with the same sifts.                        *)
(***************************************************************************)
EXTENDS Integers, Sequences, FiniteSets

CONSTANTS
  PqJob,          \* ids, numbers
  Priorities, RunAts, Lifo, \* options: Lifo is the set of LIFO ids
  MaxPushes       \* bound: pushes, and so generations

VARIABLES
  pqHeap,         \* the array of heap entries
  pqIndex,        \* id -> the stored job and its generation
  pqGeneration,
  pqPopped,       \* what the last pop returned, or Nothing
  pqSince         \* history: the ids pushed since the heap was last empty

pqVars == <<pqHeap, pqIndex, pqGeneration, pqPopped, pqSince>>

\* Ids and times are u64, priorities i32; ids start at 1.
PqAssumption ==
  /\ PqJob \subseteq Nat \ {0} /\ RunAts \subseteq Nat /\ Priorities \subseteq Int
  /\ MaxPushes \in Nat
ASSUME PqAssumption

Nothing == [job_id |-> 0, priority |-> 0, run_at |-> 0, generation |-> 0]
Entry == [job_id: PqJob, priority: Priorities, run_at: RunAts, generation: 0..(MaxPushes - 1)]

PqInit ==
  /\ pqHeap = <<>> /\ pqIndex = [i \in {} |-> Nothing]
  /\ pqGeneration = 0 /\ pqPopped = Nothing /\ pqSince = {}

\* HeapEntry::cmp: a is greater, that is, popped before b.
Greater(a, b) ==
  \/ a.priority > b.priority
  \/ a.priority = b.priority /\ a.run_at < b.run_at
  \/ /\ a.priority = b.priority /\ a.run_at = b.run_at
     /\ IF {a.job_id, b.job_id} \cap Lifo # {} THEN a.job_id > b.job_id
                                                ELSE a.job_id < b.job_id

\* The heaps of n entries.  The sifts are functions of the place they stand at
\* and the heap they stand in.
Heaps(n) == [1..n -> Entry]
Swap(h, i, j) == [h EXCEPT ![i] = h[j], ![j] = h[i]]

\* BinaryHeap: the hole rises while its element is greater than the parent.
Rising(n) ==
  LET rise[i \in 1..n] == [h \in Heaps(n) |->
        IF i = 1 THEN h
        ELSE IF ~Greater(h[i], h[i \div 2]) THEN h
        ELSE rise[i \div 2][Swap(h, i, i \div 2)]]
  IN rise

SiftUp(h, i) == Rising(Len(h))[i][h]

GreaterChild(h, n, i) ==
  IF 2 * i + 1 <= n /\ ~Greater(h[2 * i], h[2 * i + 1]) THEN 2 * i + 1 ELSE 2 * i

\* The hole falls to the bottom along the greater children, then rises.
Falling(n) ==
  LET fall[i \in 1..n] == [h \in Heaps(n) |->
        IF 2 * i > n THEN Rising(n)[i][h]
        ELSE fall[GreaterChild(h, n, i)][Swap(h, i, GreaterChild(h, n, i))]]
  IN fall

SiftDownToBottom(h, i) == Falling(Len(h))[i][h]

HeapPush(h, e) == SiftUp(Append(h, e), Len(h) + 1)

HeapPop(h) ==
  IF Len(h) = 1 THEN <<>>
  ELSE SiftDownToBottom([SubSeq(h, 1, Len(h) - 1) EXCEPT ![1] = h[Len(h)]], 1)

Without(S) == [i \in DOMAIN pqIndex \ S |-> pqIndex[i]]

\* Mutant: the generation is not compared.
LiveById(e) == e.job_id \in DOMAIN pqIndex
\* An entry is live while the index holds its id at its generation.
Live(e) == LiveById(e) /\ pqIndex[e.job_id].generation = e.generation

\* pop and peek discard entries until the root is live.
Settling(n) ==
  LET settle[k \in 0..n] == [h \in Heaps(k) |->
        IF k = 0 THEN h ELSE IF Live(h[1]) THEN h ELSE settle[k - 1][HeapPop(h)]]
  IN settle

Settle(h) == Settling(Len(h))[Len(h)][h]

Since(S) == pqSince' = IF pqHeap' = <<>> THEN {} ELSE S

Push(i, p, r) ==
  LET e == [job_id |-> i, priority |-> p, run_at |-> r, generation |-> pqGeneration] IN
    /\ pqGeneration < MaxPushes
    /\ pqGeneration' = pqGeneration + 1
    /\ pqIndex' = [k \in DOMAIN pqIndex \cup {i} |-> IF k = i THEN e ELSE pqIndex[k]]
    /\ pqHeap' = HeapPush(pqHeap, e)
    /\ pqPopped' = Nothing
    /\ Since(pqSince \cup {i})

PqPush == \E i \in PqJob \ DOMAIN pqIndex, p \in Priorities, r \in RunAts : Push(i, p, r)

\* update: the old entry stays in the heap.
PqUpdate == \E i \in DOMAIN pqIndex, p \in Priorities, r \in RunAts : Push(i, p, r)

PqPop ==
  LET h == Settle(pqHeap) IN
    /\ pqHeap # <<>>
    /\ IF h = <<>>
         THEN pqHeap' = <<>> /\ pqPopped' = Nothing /\ UNCHANGED pqIndex
         ELSE /\ pqHeap' = HeapPop(h)
              /\ pqIndex' = Without({h[1].job_id})
              /\ pqPopped' = pqIndex[h[1].job_id]
    /\ UNCHANGED pqGeneration /\ Since(pqSince)

PqPeek ==
  /\ pqHeap' = Settle(pqHeap) /\ pqPopped' = Nothing
  /\ UNCHANGED <<pqIndex, pqGeneration>> /\ Since(pqSince)

\* remove, and retain for several at once: lazy.
PqRemove ==
  /\ \E S \in SUBSET DOMAIN pqIndex : S # {} /\ pqIndex' = Without(S)
  /\ pqPopped' = Nothing
  /\ UNCHANGED <<pqHeap, pqGeneration, pqSince>>

PqClear ==
  /\ pqHeap' = <<>> /\ pqIndex' = [i \in {} |-> Nothing] /\ pqPopped' = Nothing
  /\ UNCHANGED pqGeneration /\ Since(pqSince)

PqNext == PqPush \/ PqUpdate \/ PqPop \/ PqPeek \/ PqRemove \/ PqClear

PqSpec == PqInit /\ [][PqNext]_pqVars

-----------------------------------------------------------------------------
Stored == {pqIndex[i] : i \in DOMAIN pqIndex}

(* Every job of the map can still be popped: exactly one heap entry is live
   for it, whatever was removed, updated and pushed again under its id, and
   that entry carries the job's own priority and time. *)
OneLiveEntry ==
  \A i \in DOMAIN pqIndex :
    /\ Cardinality({n \in 1..Len(pqHeap) : pqHeap[n].job_id = i /\ Live(pqHeap[n])}) = 1
    /\ \A n \in 1..Len(pqHeap) :
         pqHeap[n].job_id = i /\ Live(pqHeap[n]) => pqHeap[n] = pqIndex[i]

(* A pop never passes over a job of higher priority, or of the same priority
   and an earlier time, though the comparison below that is not an order; and
   as long as no LIFO job was in the heap since it was empty it returns the
   oldest of those, and the newest as long as there was no other. *)
PopsMostUrgent ==
  pqPopped # Nothing => \A e \in Stored :
    /\ e.priority <= pqPopped.priority
    /\ e.priority = pqPopped.priority => e.run_at >= pqPopped.run_at
    /\ e.priority = pqPopped.priority /\ e.run_at = pqPopped.run_at =>
         /\ pqSince \cap Lifo = {} => e.job_id > pqPopped.job_id
         /\ pqSince \subseteq Lifo => e.job_id < pqPopped.job_id

(* What pull, drain and the queries rely on when they use the heap as the set
   of waiting jobs in their order. *)
EveryJobPopsInTurn == OneLiveEntry /\ PopsMostUrgent

(* "FIFO: lower ID = greater (older jobs first)", says HeapEntry::cmp, and the
   tests that jobs of the same priority should be FIFO: when the queue holds no
   LIFO job, not even a stale entry, a pop returns the oldest of its priority
   and time.  Does not hold: the entries a LIFO job has passed in the heap may
   stay out of order after it has gone. *)
OldestFirst ==
  /\ pqPopped # Nothing /\ pqPopped.job_id \notin Lifo
  /\ DOMAIN pqIndex \cap Lifo = {}
  /\ \A n \in 1..Len(pqHeap) : pqHeap[n].job_id \notin Lifo
  => \A e \in Stored :
       e.priority = pqPopped.priority /\ e.run_at = pqPopped.run_at
       => e.job_id > pqPopped.job_id
=============================================================================

-------------------------- MODULE PersistenceProofs --------------------------
(***************************************************************************)
(* Theorems about the road of a job to the database and back: the types,   *)
(* that no live job is lost but by a lost write, and that the tables       *)
(* follow the engine.                                                      *)
(*                                                                         *)
(* Both invariants speak of Projected, what a recursive function makes of  *)
(* the tables and the writes accepted.  So the proofs begin with what such *)
(* a run of writes does, go on with how many calls there are about a job,  *)
(* and then follow one job through every step; a step of another job       *)
(* changes nothing that is said of it (SameJob).                           *)
(***************************************************************************)
EXTENDS PersistenceProperties, TLAPS, FiniteSetTheorems, WellFoundedInduction, SequenceTheorems

InsertOp == [kind : {"insert"}, job : Job, attempts : Nat, max : Nat,
             state : {"waiting", "waiting_children"}]
AckOp == [kind : {"ack"}, job : Job, result : BOOLEAN]
CancelOp == [kind : {"cancel"}, job : Job]
CountOp == [kind : {"fail", "dead"}, job : Job, attempts : Nat]
QueuedOp == InsertOp \cup AckOp \cup CancelOp \cup CountOp
DirectOp == [kind : Direct, job : Job]
Op == QueuedOp \cup DirectOp

Letters == [job : Job, attempts : Nat]
Tables == [rows : [Job -> Row \cup {Nothing}], dead : Seq(Letters), results : SUBSET Job]

\* A set of numbers has a least one; this is the well-foundedness of the numbers.
LEMMA LeastNumber ==
  ASSUME NEW T, T \subseteq Nat, T # {}
  PROVE  \E x \in T : \A y \in T : x <= y
<1> DEFINE R == OpToRel(<, Nat)
<1>1. IsWellFoundedOn(R, Nat)
  BY NatLessThanWellFounded
<1> HIDE DEF R
<1>2. PICK x \in T : \A y \in T : ~(<<y, x>> \in R)
  BY <1>1, WFMin
<1>3. \A y \in T : ~(y < x)
  BY <1>2 DEF R, OpToRel
<1> QED BY <1>3

\* What holds of 0 and of the successor of each number it holds of, holds of all: the
\* step by which a recursive function is followed along a sequence of writes.
LEMMA NumbersAreReached ==
  ASSUME NEW S, 0 \in S, \A n \in Nat : n \in S => n + 1 \in S
  PROVE  Nat \subseteq S
<1> DEFINE T == Nat \ S
<1>1. SUFFICES ASSUME T # {} PROVE FALSE
  OBVIOUS
<1>2. PICK x \in T : \A y \in T : x <= y
  BY <1>1, LeastNumber
<1>3. x # 0 /\ x - 1 \in Nat /\ x - 1 \notin T
  BY <1>2
<1> QED BY <1>2, <1>3

\* No copy and no row is neither.
LEMMA NothingIsNothing ==
  Nothing \notin Row /\ Nothing \notin Copy
BY DEF Nothing, Row, Copy

\* What a write operation carries, by its kind.
LEMMA OpParts ==
  ASSUME NEW op \in Op
  PROVE  /\ op.job \in Job
         /\ op.kind \in {"insert", "ack", "cancel", "fail", "dead", "delay", "discard"}
         /\ op.kind = "insert" => op.attempts \in Nat /\ op.max \in Nat
                                  /\ op.state \in {"waiting", "waiting_children"}
         /\ op.kind \in {"fail", "dead"} => op.attempts \in Nat
         /\ op \in QueuedOp => op.kind \notin Direct
BY DEF Op, QueuedOp, DirectOp, InsertOp, AckOp, CancelOp, CountOp, Direct

\* A row written changes that row only.
LEMMA WithRowIsTables ==
  ASSUME NEW d \in Tables, NEW j \in Job, NEW row \in Row \cup {Nothing}
  PROVE  /\ WithRow(d, j, row) \in Tables
         /\ WithRow(d, j, row).rows[j] = row
         /\ \A k \in Job \ {j} : WithRow(d, j, row).rows[k] = d.rows[k]
         /\ WithRow(d, j, row).dead = d.dead
         /\ WithRow(d, j, row).results = d.results
BY DEF WithRow, Tables

\* A letter written is appended to the others.
LEMMA WithLetterIsTables ==
  ASSUME NEW d \in Tables, NEW j \in Job, NEW n \in Nat
  PROVE  /\ WithLetter(d, j, n) \in Tables
         /\ WithLetter(d, j, n).rows = d.rows
         /\ WithLetter(d, j, n).dead = Append(d.dead, [job |-> j, attempts |-> n])
<1>1. [job |-> j, attempts |-> n] \in Letters /\ d.dead \in Seq(Letters)
  BY DEF Letters, Tables
<1>2. Append(d.dead, [job |-> j, attempts |-> n]) \in Seq(Letters)
  BY <1>1, AppendProperties
<1> QED BY <1>2 DEF WithLetter, Tables

\* The recursion that ExecAll is.
Run(f, d, ops, m) == f = [n \in 0..m |-> IF n = 0 THEN d ELSE Exec(f[n - 1], ops[n])]

\* The recursive function of ExecAll is there, for every sequence.
LEMMA RunExists ==
  ASSUME NEW d, NEW ops, NEW m \in Nat
  PROVE  \E f : Run(f, d, ops, m)
<1> DEFINE S == {k \in Nat : \E f : Run(f, d, ops, k)}
<1>1. 0 \in S
  <2>1. Run([n \in 0..0 |-> d], d, ops, 0)
    BY DEF Run
  <2> QED BY <2>1
<1>2. \A k \in Nat : k \in S => k + 1 \in S
  <2> SUFFICES ASSUME NEW k \in Nat, NEW f, Run(f, d, ops, k)
               PROVE  \E g : Run(g, d, ops, k + 1)
    OBVIOUS
  <2> DEFINE g == [n \in 0..(k + 1) |-> IF n <= k THEN f[n] ELSE Exec(f[k], ops[k + 1])]
  <2>1. Run(g, d, ops, k + 1)
    BY DEF Run
  <2> QED BY <2>1
<1> HIDE DEF S
<1>3. m \in S
  BY <1>1, <1>2, NumbersAreReached
<1> QED BY <1>3 DEF S

\* ExecAll is where it ends.
LEMMA ExecAllRuns ==
  ASSUME NEW d, NEW ops, Len(ops) \in Nat
  PROVE  \E f : Run(f, d, ops, Len(ops)) /\ ExecAll(d, ops) = f[Len(ops)]
<1> DEFINE h == CHOOSE f : Run(f, d, ops, Len(ops))
<1>1. \E f : Run(f, d, ops, Len(ops))
  BY RunExists
<1>2. Run(h, d, ops, Len(ops))
  BY <1>1, Zenon
<1>3. ExecAll(d, ops) = h[Len(ops)]
  BY Zenon DEF ExecAll, Run
<1> QED BY <1>2, <1>3

\* What holds of d and outlives each of the writes holds of the outcome.
LEMMA RunsStayTogether ==
  ASSUME NEW d, NEW e, NEW ops, Len(ops) \in Nat, NEW G, <<d, e>> \in G,
         \A p \in G, n \in 1..Len(ops) :
           <<Exec(p[1], ops[n]), Exec(p[2], ops[n])>> \in G
  PROVE  <<ExecAll(d, ops), ExecAll(e, ops)>> \in G
<1>1. PICK f : Run(f, d, ops, Len(ops)) /\ ExecAll(d, ops) = f[Len(ops)]
  BY ExecAllRuns
<1>2. PICK g : Run(g, e, ops, Len(ops)) /\ ExecAll(e, ops) = g[Len(ops)]
  BY ExecAllRuns
<1> DEFINE S == {n \in Nat : n <= Len(ops) => <<f[n], g[n]>> \in G}
<1>3. 0 \in S
  BY <1>1, <1>2 DEF Run
<1>4. ASSUME NEW n \in Nat, n \in S PROVE n + 1 \in S
  <2> SUFFICES ASSUME n + 1 <= Len(ops) PROVE <<f[n + 1], g[n + 1]>> \in G
    OBVIOUS
  <2>1. f[n + 1] = Exec(f[n], ops[n + 1]) /\ g[n + 1] = Exec(g[n], ops[n + 1])
    BY <1>1, <1>2 DEF Run
  <2>2. <<f[n], g[n]>> \in G
    BY <1>4
  <2> QED BY <2>1, <2>2
<1> HIDE DEF S
<1>5. Len(ops) \in S
  BY <1>3, <1>4, NumbersAreReached
<1> QED BY <1>1, <1>2, <1>5 DEF S

-----------------------------------------------------------------------------
(* Counting in a sequence *)

Count(s, S) == Cardinality({i \in DOMAIN s : s[i] \in S})

\* A count is a number, none or one or more.
LEMMA CountIsNumber ==
  ASSUME NEW T, NEW s \in Seq(T), NEW S
  PROVE  /\ IsFiniteSet({i \in DOMAIN s : s[i] \in S})
         /\ Count(s, S) \in Nat
         /\ Count(s, S) = 0 <=> \A i \in DOMAIN s : s[i] \notin S
<1> DEFINE I == {i \in DOMAIN s : s[i] \in S}
<1>1. IsFiniteSet(1..Len(s)) /\ DOMAIN s = 1..Len(s)
  BY FS_Interval, LenProperties
<1>2. IsFiniteSet(I)
  BY <1>1, FS_Subset
<1>3. Cardinality(I) \in Nat /\ (Cardinality(I) = 0 <=> I = {})
  BY <1>2, FS_CardinalityType, FS_EmptySet
<1> QED BY <1>2, <1>3 DEF Count

\* Where at most one is counted there are no two.
LEMMA CountOne ==
  ASSUME NEW T, NEW s \in Seq(T), NEW S, Count(s, S) <= 1,
         NEW i \in DOMAIN s, NEW k \in DOMAIN s, s[i] \in S, s[k] \in S
  PROVE  i = k
<1> DEFINE I == {m \in DOMAIN s : s[m] \in S}
<1>1. IsFiniteSet(I) /\ Cardinality(I) \in Nat /\ Cardinality(I) <= 1
  BY CountIsNumber DEF Count
<1>2. i \in I /\ k \in I
  OBVIOUS
<1> HIDE DEF I
<1>3. IsFiniteSet(I \ {i}) /\ Cardinality(I \ {i}) = Cardinality(I) - 1
  BY <1>1, <1>2, FS_RemoveElement
<1>4. Cardinality(I \ {i}) \in Nat
  BY <1>3, FS_CardinalityType
<1>5. Cardinality(I \ {i}) = 0
  BY <1>1, <1>3, <1>4
<1>6. I \ {i} = {}
  BY <1>3, <1>5, FS_EmptySet
<1> QED BY <1>2, <1>6

\* A smaller set counts no more.
LEMMA CountSubset ==
  ASSUME NEW T, NEW s \in Seq(T), NEW S, NEW U, S \subseteq U
  PROVE  Count(s, S) <= Count(s, U)
<1> DEFINE I == {m \in DOMAIN s : s[m] \in S}
           K == {m \in DOMAIN s : s[m] \in U}
<1>1. IsFiniteSet(K) /\ I \subseteq K
  BY CountIsNumber
<1> HIDE DEF I, K
<1>2. Cardinality(I) <= Cardinality(K)
  BY <1>1, FS_Subset
<1> QED BY <1>2 DEF Count, I, K

\* One more at the end.
LEMMA CountAppend ==
  ASSUME NEW T, NEW s \in Seq(T), NEW e \in T, NEW S
  PROVE  Count(Append(s, e), S) = Count(s, S) + (IF e \in S THEN 1 ELSE 0)
<1> DEFINE t == Append(s, e)
           n == Len(s) + 1
           I == {i \in DOMAIN s : s[i] \in S}
           K == {i \in DOMAIN t : t[i] \in S}
<1>1. /\ Len(s) \in Nat /\ DOMAIN s = 1..Len(s) /\ DOMAIN t = 1..n
      /\ t[n] = e /\ \A i \in 1..Len(s) : t[i] = s[i]
  BY AppendProperties, LenProperties
<1>2. IsFiniteSet(I) /\ Count(s, S) = Cardinality(I) /\ Count(t, S) = Cardinality(K)
      /\ Count(s, S) \in Nat
  BY CountIsNumber DEF Count
<1>3. e \in S => K = I \cup {n} /\ n \notin I
  BY <1>1
<1>4. e \notin S => K = I
  BY <1>1
<1> HIDE DEF t, n, I, K
<1>5. e \in S => Cardinality(K) = Cardinality(I) + 1
  BY <1>2, <1>3, FS_AddElement
<1>6. Count(t, S) = Count(s, S) + (IF e \in S THEN 1 ELSE 0)
  BY <1>2, <1>4, <1>5
<1> QED BY <1>6 DEF t

\* A sequence without one of its elements.
LEMMA RemoveAtKeeps ==
  ASSUME NEW S, NEW s \in Seq(S), NEW i \in 1..Len(s)
  PROVE  /\ RemoveAt(s, i) \in Seq(S)
         /\ Len(RemoveAt(s, i)) = Len(s) - 1
         /\ \A m \in 1..(Len(s) - 1) : RemoveAt(s, i)[m] = IF m < i THEN s[m] ELSE s[m + 1]
<1> DEFINE a == SubSeq(s, 1, i - 1)
           b == SubSeq(s, i + 1, Len(s))
<1>1. Len(s) \in Nat /\ \A m \in 1..Len(s) : s[m] \in S
  BY ElementOfSeq, LenProperties
<1>2. /\ a \in Seq(S) /\ Len(a) = i - 1
      /\ \A m \in 1..(i - 1) : a[m] = s[1 + m - 1]
  BY <1>1, SubSeqProperties
<1>3. /\ b \in Seq(S) /\ Len(b) = Len(s) - i
      /\ \A m \in 1..(Len(s) - i) : b[m] = s[(i + 1) + m - 1]
  BY <1>1, SubSeqProperties
<1>4. RemoveAt(s, i) = a \o b
  BY DEF RemoveAt
<1> HIDE DEF a, b
<1>5. /\ a \o b \in Seq(S) /\ Len(a \o b) = Len(a) + Len(b)
      /\ \A m \in 1..(Len(a) + Len(b)) : (a \o b)[m] = IF m <= Len(a) THEN a[m] ELSE b[m - Len(a)]
  BY <1>2, <1>3, ConcatProperties
<1> QED BY <1>1, <1>2, <1>3, <1>4, <1>5

\* One less.
LEMMA CountRemove ==
  ASSUME NEW T, NEW s \in Seq(T), NEW i \in 1..Len(s), NEW S
  PROVE  Count(RemoveAt(s, i), S) = Count(s, S) - (IF s[i] \in S THEN 1 ELSE 0)
<1> DEFINE r == RemoveAt(s, i)
           R == {m \in DOMAIN r : r[m] \in S}
           U == {m \in DOMAIN s : s[m] \in S}
           f == [m \in R |-> IF m < i THEN m ELSE m + 1]
<1>1. /\ r \in Seq(T) /\ Len(s) \in Nat /\ DOMAIN r = 1..(Len(s) - 1) /\ DOMAIN s = 1..Len(s)
      /\ \A m \in 1..(Len(s) - 1) : r[m] = IF m < i THEN s[m] ELSE s[m + 1]
  BY RemoveAtKeeps, LenProperties
<1> HIDE DEF r
<1>2. f \in [R -> U \ {i}]
  BY <1>1
<1>3. \A m, n \in R : f[m] = f[n] => m = n
  BY <1>1
<1>4. ASSUME NEW n \in U \ {i} PROVE \E m \in R : f[m] = n
  <2>1. CASE n < i
    <3>1. n \in R
      BY <1>1, <2>1
    <3>2. f[n] = n
      BY <2>1, <3>1
    <3> QED BY <3>1, <3>2
  <2>2. CASE n > i
    <3>1. n - 1 \in R
      BY <1>1, <2>2
    <3>2. f[n - 1] = n
      BY <1>1, <2>2, <3>1
    <3> QED BY <3>1, <3>2
  <2>3. n < i \/ n > i
    <3>1. n \in 1..Len(s) /\ n # i
      BY <1>1
    <3> QED BY <1>1, <3>1
  <2> QED BY <2>1, <2>2, <2>3
<1>5. IsFiniteSet(R) /\ IsFiniteSet(U)
  <2>1. IsFiniteSet(1..Len(s)) /\ IsFiniteSet(1..(Len(s) - 1))
    BY <1>1, FS_Interval
  <2>2. R \subseteq 1..(Len(s) - 1) /\ U \subseteq 1..Len(s)
    BY <1>1
  <2> HIDE DEF R, U
  <2> QED BY <2>1, <2>2, FS_Subset
<1>6. Count(r, S) = Cardinality(R) /\ Count(s, S) = Cardinality(U)
  BY DEF Count
<1>7. i \in U <=> s[i] \in S
  BY <1>1
<1> HIDE DEF f, R, U, r
<1>8. f \in Bijection(R, U \ {i})
  BY <1>2, <1>3, <1>4 DEF Bijection, Injection, Surjection, IsInjective
<1>9. Cardinality(U \ {i}) = Cardinality(R)
  BY <1>5, <1>8, FS_Bijection DEF ExistsBijection
<1>10. Cardinality(U \ {i}) = IF i \in U THEN Cardinality(U) - 1 ELSE Cardinality(U)
  BY <1>5, FS_RemoveElement
<1>11. Cardinality(U) \in Nat
  BY <1>5, FS_CardinalityType
<1> QED BY <1>6, <1>7, <1>9, <1>10, <1>11 DEF r

\* One changed.
Replaced(s, t, i, e) == t = [s EXCEPT ![i] = e]

\* It counts as the new one.
LEMMA CountReplace ==
  ASSUME NEW T, NEW s \in Seq(T), NEW i \in DOMAIN s, NEW e \in T, NEW S,
         NEW t, Replaced(s, t, i, e)
  PROVE  Count(t, S) =
           Count(s, S) - (IF s[i] \in S THEN 1 ELSE 0) + (IF e \in S THEN 1 ELSE 0)
<1> DEFINE I == {m \in DOMAIN s : s[m] \in S}
           K == {m \in DOMAIN t : t[m] \in S}
           R == I \ {i}
<1>1. t \in Seq(T) /\ DOMAIN t = DOMAIN s /\ t[i] = e /\ \A m \in DOMAIN s \ {i} : t[m] = s[m]
  BY ExceptSeq DEF Replaced
<1>2. IsFiniteSet(I) /\ Cardinality(I) \in Nat /\ Count(s, S) = Cardinality(I)
      /\ Count(t, S) = Cardinality(K)
  BY CountIsNumber DEF Count
<1>3. K = IF e \in S THEN R \cup {i} ELSE R
  BY <1>1
<1>4. i \notin R /\ (i \in I <=> s[i] \in S)
  OBVIOUS
<1> HIDE DEF I, K
<1>5. IsFiniteSet(R) /\ Cardinality(R) = Cardinality(I) - (IF s[i] \in S THEN 1 ELSE 0)
  BY <1>2, <1>4, FS_RemoveElement
<1> HIDE DEF R
<1>6. Cardinality(R \cup {i}) = Cardinality(R) + 1
  BY <1>4, <1>5, FS_AddElement
<1>7. Cardinality(R) \in Nat
  BY <1>5, FS_CardinalityType
<1> QED BY <1>2, <1>3, <1>5, <1>6, <1>7

\* The letters of a job are counted.
LEMMA EntriesIsCount ==
  ASSUME NEW S, NEW s \in Seq(S), NEW j
  PROVE  Entries(s, j) = Count(s, {x \in S : x.job = j})
<1> DEFINE I == {i \in DOMAIN s : s[i].job = j}
           K == {i \in DOMAIN s : s[i] \in {x \in S : x.job = j}}
<1>1. I = K
  BY ElementOfSeq, LenProperties
<1> HIDE DEF I, K
<1>2. Cardinality(I) = Cardinality(K)
  BY <1>1
<1> QED BY <1>2 DEF Entries, Count, I, K

\* The same about the letters of a job.
LEMMA EntriesCount ==
  ASSUME NEW S, NEW s \in Seq(S), NEW j
  PROVE  /\ Entries(s, j) \in Nat
         /\ Entries(s, j) = 0 <=> \A i \in DOMAIN s : s[i].job # j
<1>1. \A i \in DOMAIN s : s[i] \in S
  BY ElementOfSeq, LenProperties
<1> DEFINE K == {x \in S : x.job = j}
<1>2. Entries(s, j) = Count(s, K)
  BY EntriesIsCount
<1>3. \A i \in DOMAIN s : s[i] \in K <=> s[i].job = j
  BY <1>1
<1> HIDE DEF K
<1>4. Count(s, K) \in Nat /\ (Count(s, K) = 0 <=> \A i \in DOMAIN s : s[i] \notin K)
  BY CountIsNumber
<1> QED BY <1>2, <1>3, <1>4

\* One letter more.
LEMMA EntriesAppend ==
  ASSUME NEW S, NEW s \in Seq(S), NEW e \in S, NEW j
  PROVE  Entries(Append(s, e), j) = Entries(s, j) + (IF e.job = j THEN 1 ELSE 0)
<1>1. Append(s, e) \in Seq(S)
  BY AppendProperties
<1>2. /\ Entries(s, j) = Count(s, {x \in S : x.job = j})
      /\ Entries(Append(s, e), j) = Count(Append(s, e), {x \in S : x.job = j})
  BY <1>1, EntriesIsCount
<1>3. Count(Append(s, e), {x \in S : x.job = j})
        = Count(s, {x \in S : x.job = j}) + (IF e \in {x \in S : x.job = j} THEN 1 ELSE 0)
  BY CountAppend
<1> QED BY <1>2, <1>3

\* One letter less.
LEMMA EntriesRemove ==
  ASSUME NEW S, NEW s \in Seq(S), NEW i \in 1..Len(s), NEW j
  PROVE  Entries(RemoveAt(s, i), j) = Entries(s, j) - (IF s[i].job = j THEN 1 ELSE 0)
<1>1. RemoveAt(s, i) \in Seq(S) /\ s[i] \in S
  BY RemoveAtKeeps, ElementOfSeq
<1>2. /\ Entries(s, j) = Count(s, {x \in S : x.job = j})
      /\ Entries(RemoveAt(s, i), j) = Count(RemoveAt(s, i), {x \in S : x.job = j})
  BY <1>1, EntriesIsCount
<1>3. Count(RemoveAt(s, i), {x \in S : x.job = j})
        = Count(s, {x \in S : x.job = j}) - (IF s[i] \in {x \in S : x.job = j} THEN 1 ELSE 0)
  BY CountRemove
<1> QED BY <1>1, <1>2, <1>3

-----------------------------------------------------------------------------
(* What a write does *)

\* Two databases say the same of a job.
Agree(d, e, j) == d.rows[j] = e.rows[j] /\ Entries(d.dead, j) = Entries(e.dead, j)

\* The row a write leaves of the one it finds, and whether it writes a dead letter.
RowAfter(row, op) ==
  CASE op.kind = "insert" -> [attempts |-> op.attempts, state |-> op.state,
                              max |-> IF row # Nothing THEN row.max ELSE op.max]
    [] op.kind = "fail" /\ row # Nothing ->
         [attempts |-> op.attempts, state |-> "waiting", max |-> row.max]
    [] op.kind = "delay" /\ row # Nothing -> [row EXCEPT !.state = "delayed"]
    [] OTHER -> Nothing

Buries(row, op) == op.kind = "dead" \/ (op.kind = "discard" /\ row # Nothing)

\* The row a write leaves, by its kind.
LEMMA RowAfterIsRow ==
  ASSUME NEW op \in Op, NEW row \in Row \cup {Nothing}
  PROVE  /\ RowAfter(row, op) \in Row \cup {Nothing}
         /\ op.kind = "insert" => RowAfter(row, op) # Nothing /\ RowAfter(row, op).attempts = op.attempts
         /\ op.kind = "fail" /\ row # Nothing =>
              RowAfter(row, op) # Nothing /\ RowAfter(row, op).attempts = op.attempts
         /\ op.kind = "delay" /\ row # Nothing =>
              RowAfter(row, op) # Nothing /\ RowAfter(row, op).attempts = row.attempts
         /\ op.kind \in {"fail", "delay"} /\ row = Nothing => RowAfter(row, op) = Nothing
         /\ op.kind \in {"ack", "cancel", "dead", "discard"} => RowAfter(row, op) = Nothing
<1> USE OpParts
<1>1. CASE op.kind = "insert"
  <2>1. RowAfter(row, op) \in Row /\ RowAfter(row, op).attempts = op.attempts
    BY <1>1 DEF RowAfter, Row
  <2> QED BY <1>1, <2>1, NothingIsNothing
<1>2. CASE op.kind = "fail" /\ row # Nothing
  <2>1. RowAfter(row, op) \in Row /\ RowAfter(row, op).attempts = op.attempts
    BY <1>2 DEF RowAfter, Row
  <2> QED BY <1>2, <2>1, NothingIsNothing
<1>3. CASE op.kind = "delay" /\ row # Nothing
  <2>1. RowAfter(row, op) \in Row /\ RowAfter(row, op).attempts = row.attempts
    BY <1>3 DEF RowAfter, Row
  <2> QED BY <1>3, <2>1, NothingIsNothing
<1>4. CASE op.kind \in {"fail", "delay"} /\ row = Nothing
  BY <1>4 DEF RowAfter
<1>5. CASE op.kind \in {"ack", "cancel", "dead", "discard"}
  BY <1>5 DEF RowAfter
<1> QED BY <1>1, <1>2, <1>3, <1>4, <1>5

\* A write in these terms.
LEMMA ExecDoes ==
  ASSUME NEW d \in Tables, NEW op \in Op
  PROVE  /\ Exec(d, op) \in Tables
         /\ Exec(d, op).rows[op.job] = RowAfter(d.rows[op.job], op)
         /\ \A k \in Job \ {op.job} : Exec(d, op).rows[k] = d.rows[k]
         /\ \A k : Entries(Exec(d, op).dead, k) =
                     Entries(d.dead, k)
                       + (IF k = op.job /\ Buries(d.rows[op.job], op) THEN 1 ELSE 0)
<1> DEFINE j == op.job
           row == d.rows[j]
           after == RowAfter(row, op)
<1>1. j \in Job /\ row \in Row \cup {Nothing} /\ after \in Row \cup {Nothing}
  BY OpParts, RowAfterIsRow DEF Tables
<1>2. d.dead \in Seq(Letters) /\ \A k : Entries(d.dead, k) \in Nat
  BY EntriesCount DEF Tables
<1>3. ASSUME NEW e, e = WithRow(d, j, after), ~Buries(row, op)
      PROVE  /\ e \in Tables /\ e.rows[j] = after
             /\ \A k \in Job \ {j} : e.rows[k] = d.rows[k]
             /\ \A k : Entries(e.dead, k) =
                         Entries(d.dead, k) + (IF k = j /\ Buries(row, op) THEN 1 ELSE 0)
  BY <1>1, <1>2, <1>3, WithRowIsTables
<1>4. ASSUME NEW e, NEW n \in Nat, e = Bury(d, j, n), Buries(row, op), after = Nothing
      PROVE  /\ e \in Tables /\ e.rows[j] = after
             /\ \A k \in Job \ {j} : e.rows[k] = d.rows[k]
             /\ \A k : Entries(e.dead, k) =
                         Entries(d.dead, k) + (IF k = j /\ Buries(row, op) THEN 1 ELSE 0)
  <2> DEFINE g == WithRow(d, j, Nothing)
             letter == [job |-> j, attempts |-> n]
  <2>1. /\ g \in Tables /\ g.rows[j] = Nothing /\ g.dead = d.dead
        /\ \A k \in Job \ {j} : g.rows[k] = d.rows[k]
    BY <1>1, WithRowIsTables
  <2>2. e = WithLetter(g, j, n)
    BY <1>4 DEF Bury
  <2> HIDE DEF g
  <2>3. e \in Tables /\ e.rows = g.rows /\ e.dead = Append(d.dead, letter)
    BY <1>1, <2>1, <2>2, WithLetterIsTables
  <2>4. letter \in Letters /\ letter.job = j
    BY <1>1 DEF Letters
  <2> HIDE DEF letter
  <2>5. \A k : Entries(e.dead, k) = Entries(d.dead, k) + (IF j = k THEN 1 ELSE 0)
    BY <1>2, <2>3, <2>4, EntriesAppend
  <2> QED BY <1>4, <2>1, <2>3, <2>5
<1>5. ASSUME NEW e, e = d, after = row, ~Buries(row, op)
      PROVE  /\ e \in Tables /\ e.rows[j] = after
             /\ \A k \in Job \ {j} : e.rows[k] = d.rows[k]
             /\ \A k : Entries(e.dead, k) =
                         Entries(d.dead, k) + (IF k = j /\ Buries(row, op) THEN 1 ELSE 0)
  BY <1>2, <1>5
<1>6. CASE op.kind = "insert"
  <2>1. Exec(d, op) = WithRow(d, j, after) /\ ~Buries(row, op)
    BY <1>6 DEF Exec, ExecInsert, RowAfter, HasRow, Buries
  <2> QED BY <1>3, <2>1
<1>7. CASE op.kind = "cancel"
  <2>1. Exec(d, op) = WithRow(d, j, after) /\ ~Buries(row, op)
    BY <1>7 DEF Exec, RowAfter, Buries
  <2> QED BY <1>3, <2>1
<1>8. CASE op.kind = "fail"
  <2>1. CASE row # Nothing
    <3>1. Exec(d, op) = WithRow(d, j, after) /\ ~Buries(row, op)
      BY <1>8, <2>1 DEF Exec, ExecFail, RowAfter, HasRow, Buries
    <3> QED BY <1>3, <3>1
  <2>2. CASE row = Nothing
    <3>1. Exec(d, op) = d /\ after = row /\ ~Buries(row, op)
      BY <1>8, <2>2 DEF Exec, ExecFail, RowAfter, HasRow, Buries
    <3> QED BY <1>5, <3>1
  <2> QED BY <2>1, <2>2
<1>9. CASE op.kind = "delay"
  <2>1. CASE row # Nothing
    <3>1. Exec(d, op) = WithRow(d, j, after) /\ ~Buries(row, op)
      BY <1>9, <2>1 DEF Exec, ExecDelay, RowAfter, HasRow, Buries
    <3> QED BY <1>3, <3>1
  <2>2. CASE row = Nothing
    <3>1. Exec(d, op) = d /\ after = row /\ ~Buries(row, op)
      BY <1>9, <2>2 DEF Exec, ExecDelay, RowAfter, HasRow, Buries
    <3> QED BY <1>5, <3>1
  <2> QED BY <2>1, <2>2
<1>10. CASE op.kind = "dead"
  <2>1. Exec(d, op) = Bury(d, j, op.attempts) /\ Buries(row, op) /\ after = Nothing
    BY <1>10 DEF Exec, RowAfter, Buries
  <2> QED BY <1>4, <1>10, <2>1, OpParts
<1>11. CASE op.kind = "discard"
  <2>1. CASE row # Nothing
    <3>1. /\ Exec(d, op) = Bury(d, j, row.attempts)
          /\ Buries(row, op) /\ after = Nothing
      BY <1>11, <2>1 DEF Exec, ExecDiscard, RowAfter, HasRow, Buries
    <3>2. row.attempts \in Nat
      BY <1>1, <2>1 DEF Row
    <3> QED BY <1>4, <3>1, <3>2
  <2>2. CASE row = Nothing
    <3>1. Exec(d, op) = d /\ after = row /\ ~Buries(row, op)
      BY <1>11, <2>2 DEF Exec, ExecDiscard, RowAfter, HasRow, Buries
    <3> QED BY <1>5, <3>1
  <2> QED BY <2>1, <2>2
<1>12. CASE op.kind = "ack"
  <2> DEFINE g == WithRow(d, j, Nothing)
  <2>1. /\ g \in Tables /\ g.rows[j] = Nothing /\ g.dead = d.dead
        /\ \A k \in Job \ {j} : g.rows[k] = d.rows[k]
    BY <1>1, WithRowIsTables
  <2>2. /\ Exec(d, op) = [g EXCEPT !.results = IF op.result THEN d.results \cup {j}
                                                            ELSE d.results]
        /\ ~Buries(row, op) /\ after = Nothing
    BY <1>12 DEF Exec, ExecAck, RowAfter, Buries
  <2> HIDE DEF g
  <2>3. /\ Exec(d, op) \in Tables /\ Exec(d, op).rows = g.rows /\ Exec(d, op).dead = g.dead
    BY <1>1, <2>1, <2>2 DEF Tables, Job
  <2> QED BY <1>2, <2>1, <2>2, <2>3
<1> QED BY <1>6, <1>7, <1>8, <1>9, <1>10, <1>11, <1>12, OpParts

\* The same for one job.
LEMMA ExecDoesTo ==
  ASSUME NEW d \in Tables, NEW op \in Op, NEW j \in Job
  PROVE  /\ Exec(d, op).rows[j] = IF op.job = j THEN RowAfter(d.rows[j], op) ELSE d.rows[j]
         /\ Entries(Exec(d, op).dead, j) =
              Entries(d.dead, j) + (IF op.job = j /\ Buries(d.rows[j], op) THEN 1 ELSE 0)
         /\ Entries(d.dead, j) \in Nat
<1>1. Entries(d.dead, j) \in Nat
  BY EntriesCount DEF Tables
<1>2. /\ \A k \in Job \ {op.job} : Exec(d, op).rows[k] = d.rows[k]
      /\ Exec(d, op).rows[op.job] = RowAfter(d.rows[op.job], op)
      /\ Entries(Exec(d, op).dead, j) =
           Entries(d.dead, j) + (IF j = op.job /\ Buries(d.rows[op.job], op) THEN 1 ELSE 0)
  BY ExecDoes, Zenon
<1> QED BY <1>1, <1>2

\* A write leaves the row and the letters of every other job.
LEMMA ExecElsewhere ==
  ASSUME NEW d \in Tables, NEW op \in Op, NEW j \in Job, op.job # j
  PROVE  Agree(Exec(d, op), d, j)
BY ExecDoesTo DEF Agree

\* A write does the same to two tables that agree about a job.
LEMMA ExecAlike ==
  ASSUME NEW d \in Tables, NEW e \in Tables, NEW op \in Op, NEW j \in Job, Agree(d, e, j)
  PROVE  Agree(Exec(d, op), Exec(e, op), j)
BY ExecDoesTo DEF Agree

-----------------------------------------------------------------------------
(* What a sequence of writes does *)

\* Tables stay tables through any sequence of writes.
LEMMA ExecAllTables ==
  ASSUME NEW d \in Tables, NEW ops \in Seq(Op)
  PROVE  ExecAll(d, ops) \in Tables
<1> DEFINE G == Tables \X Tables
<1>1. \A p \in G, n \in 1..Len(ops) : <<Exec(p[1], ops[n]), Exec(p[2], ops[n])>> \in G
  BY ElementOfSeq, ExecDoes
<1>2. <<d, d>> \in G /\ Len(ops) \in Nat
  BY LenProperties
<1> HIDE DEF G
<1>3. <<ExecAll(d, ops), ExecAll(d, ops)>> \in G
  BY <1>1, <1>2, RunsStayTogether
<1> QED BY <1>3 DEF G

\* Writes about other jobs.
LEMMA ExecAllElsewhere ==
  ASSUME NEW d \in Tables, NEW ops \in Seq(Op), NEW j \in Job,
         \A n \in 1..Len(ops) : ops[n].job # j
  PROVE  Agree(ExecAll(d, ops), d, j)
<1> DEFINE G == {p \in Tables \X Tables : Agree(p[1], d, j)}
<1>1. ASSUME NEW p \in G, NEW n \in 1..Len(ops)
      PROVE  <<Exec(p[1], ops[n]), Exec(p[2], ops[n])>> \in G
  <2>1. ops[n] \in Op /\ p[1] \in Tables /\ p[2] \in Tables
    BY ElementOfSeq
  <2>2. Exec(p[1], ops[n]) \in Tables /\ Exec(p[2], ops[n]) \in Tables
    BY <2>1, ExecDoes
  <2>3. Agree(Exec(p[1], ops[n]), d, j)
    BY <2>1, ExecElsewhere DEF Agree
  <2> QED BY <2>2, <2>3
<1>2. <<d, d>> \in G /\ Len(ops) \in Nat
  BY LenProperties DEF Agree
<1> HIDE DEF G
<1>3. <<ExecAll(d, ops), ExecAll(d, ops)>> \in G
  BY <1>1, <1>2, RunsStayTogether
<1> QED BY <1>3 DEF G

\* Of two databases that say the same of a job.
LEMMA ExecAllAlike ==
  ASSUME NEW d \in Tables, NEW e \in Tables, NEW ops \in Seq(Op), NEW j \in Job,
         Agree(d, e, j)
  PROVE  Agree(ExecAll(d, ops), ExecAll(e, ops), j)
<1> DEFINE G == {p \in Tables \X Tables : Agree(p[1], p[2], j)}
<1>1. ASSUME NEW p \in G, NEW n \in 1..Len(ops)
      PROVE  <<Exec(p[1], ops[n]), Exec(p[2], ops[n])>> \in G
  <2>1. ops[n] \in Op /\ p[1] \in Tables /\ p[2] \in Tables /\ Agree(p[1], p[2], j)
    BY ElementOfSeq
  <2>2. Exec(p[1], ops[n]) \in Tables /\ Exec(p[2], ops[n]) \in Tables
    BY <2>1, ExecDoes
  <2>3. Agree(Exec(p[1], ops[n]), Exec(p[2], ops[n]), j)
    BY <2>1, ExecAlike
  <2> QED BY <2>2, <2>3
<1>2. <<d, e>> \in G /\ Len(ops) \in Nat
  BY LenProperties
<1> HIDE DEF G
<1>3. <<ExecAll(d, ops), ExecAll(e, ops)>> \in G
  BY <1>1, <1>2, RunsStayTogether
<1> QED BY <1>3 DEF G

\* One sequence after another.
LEMMA ExecAllConcat ==
  ASSUME NEW d, NEW s \in Seq(Op), NEW t \in Seq(Op)
  PROVE  ExecAll(d, s \o t) = ExecAll(ExecAll(d, s), t)
<1> DEFINE u == s \o t
<1>1. /\ Len(s) \in Nat /\ Len(t) \in Nat /\ Len(u) = Len(s) + Len(t) /\ Len(u) \in Nat
      /\ \A i \in 1..Len(u) : u[i] = IF i <= Len(s) THEN s[i] ELSE t[i - Len(s)]
  BY ConcatProperties, LenProperties
<1> HIDE DEF u
<1>2. PICK f : Run(f, d, u, Len(u)) /\ ExecAll(d, u) = f[Len(u)]
  BY <1>1, ExecAllRuns
<1>3. PICK g : Run(g, d, s, Len(s)) /\ ExecAll(d, s) = g[Len(s)]
  BY <1>1, ExecAllRuns
<1>4. PICK h : Run(h, g[Len(s)], t, Len(t)) /\ ExecAll(g[Len(s)], t) = h[Len(t)]
  BY <1>1, ExecAllRuns
<1>5a. ASSUME NEW m \in 1..Len(u) PROVE f[m] = Exec(f[m - 1], u[m])
  <2>1. m \in 0..Len(u) /\ m # 0
    BY <1>1
  <2> QED BY <1>2, <2>1 DEF Run
<1> DEFINE S == {n \in Nat : n <= Len(s) => f[n] = g[n]}
           T == {n \in Nat : n <= Len(t) => f[Len(s) + n] = h[n]}
<1>5. 0 \in S
  BY <1>1, <1>2, <1>3 DEF Run
<1>6. ASSUME NEW n \in Nat, n \in S PROVE n + 1 \in S
  <2> SUFFICES ASSUME n + 1 <= Len(s) PROVE f[n + 1] = g[n + 1]
    OBVIOUS
  <2>1. f[n + 1] = Exec(f[n], u[n + 1]) /\ g[n + 1] = Exec(g[n], s[n + 1])
    BY <1>1, <1>2, <1>3 DEF Run
  <2> QED BY <1>1, <1>6, <2>1
<1> HIDE DEF S
<1>7. Len(s) \in S
  BY <1>1, <1>5, <1>6, NumbersAreReached
<1>8. f[Len(s)] = g[Len(s)]
  BY <1>1, <1>7 DEF S
<1>9. 0 \in T
  BY <1>1, <1>4, <1>8 DEF Run
<1>10. ASSUME NEW n \in Nat, n \in T PROVE n + 1 \in T
  <2> SUFFICES ASSUME n + 1 <= Len(t) PROVE f[Len(s) + (n + 1)] = h[n + 1]
    OBVIOUS
  <2>1. /\ Len(s) + (n + 1) \in 1..Len(u) /\ (Len(s) + (n + 1)) - 1 = Len(s) + n
        /\ ~(Len(s) + (n + 1) <= Len(s)) /\ (Len(s) + (n + 1)) - Len(s) = n + 1
    BY <1>1
  <2>2. f[Len(s) + (n + 1)] = Exec(f[Len(s) + n], u[Len(s) + (n + 1)])
    BY <1>5a, <2>1
  <2>3. h[n + 1] = Exec(h[n], t[n + 1])
    BY <1>1, <1>4 DEF Run
  <2> QED BY <1>1, <1>10, <2>1, <2>2, <2>3
<1> HIDE DEF T
<1>11. Len(t) \in T
  BY <1>1, <1>9, <1>10, NumbersAreReached
<1>12. f[Len(s) + Len(t)] = h[Len(t)]
  BY <1>1, <1>11 DEF T
<1>13. ExecAll(d, u) = ExecAll(ExecAll(d, s), t)
  BY <1>1, <1>2, <1>3, <1>4, <1>12
<1> QED BY <1>13 DEF u

\* None, and one.
LEMMA ExecAllOne ==
  ASSUME NEW d, NEW op \in Op
  PROVE  ExecAll(d, <<>>) = d /\ ExecAll(d, <<op>>) = Exec(d, op)
<1>1. Len(<<>>) = 0 /\ Len(<<op>>) = 1 /\ <<op>>[1] = op
  OBVIOUS
<1>2. PICK f : Run(f, d, <<>>, 0) /\ ExecAll(d, <<>>) = f[0]
  BY <1>1, ExecAllRuns
<1>3. PICK g : Run(g, d, <<op>>, 1) /\ ExecAll(d, <<op>>) = g[1]
  BY <1>1, ExecAllRuns
<1>4. f[0] = d
  BY <1>2 DEF Run
<1>5. g[0] = d /\ g[1] = Exec(g[0], <<op>>[1])
  BY <1>3 DEF Run
<1> QED BY <1>1, <1>2, <1>3, <1>4, <1>5

\* One write more, after the others.
LEMMA ExecAllAppend ==
  ASSUME NEW d, NEW s \in Seq(Op), NEW op \in Op
  PROVE  ExecAll(d, Append(s, op)) = Exec(ExecAll(d, s), op)
<1>1. Append(s, op) = s \o <<op>> /\ <<op>> \in Seq(Op)
  BY AppendIsConcat
<1>2. ExecAll(d, s \o <<op>>) = ExecAll(ExecAll(d, s), <<op>>)
  BY <1>1, ExecAllConcat
<1> QED BY <1>1, <1>2, ExecAllOne

-----------------------------------------------------------------------------
(* A job that has a row or a dead letter *)

Buried(d, j) == Entries(d.dead, j) > 0
InTables(d, j) == HasRow(d, j) \/ Buried(d, j)
Erases(op) == op.kind \in {"ack", "cancel"}

\* Only two kinds of writes make a row vanish and leave no letter.
LEMMA ExecKeeps ==
  ASSUME NEW d \in Tables, NEW op \in Op, NEW j \in Job
  PROVE  /\ Buried(d, j) => Buried(Exec(d, op), j)
         /\ InTables(d, j) /\ ~(op.job = j /\ Erases(op)) => InTables(Exec(d, op), j)
         /\ op.job = j /\ op.kind \in {"insert", "dead"} => InTables(Exec(d, op), j)
<1>1. d.rows[j] \in Row \cup {Nothing}
  BY DEF Tables
<1>2. CASE op.job = j
  <2>1. /\ Exec(d, op).rows[j] = RowAfter(d.rows[j], op)
        /\ Entries(Exec(d, op).dead, j) =
             Entries(d.dead, j) + (IF Buries(d.rows[j], op) THEN 1 ELSE 0)
        /\ Entries(d.dead, j) \in Nat
    BY <1>2, ExecDoesTo
  <2> QED BY <1>1, <1>2, <2>1, RowAfterIsRow, OpParts DEF Buried, InTables, HasRow, Erases, Buries
<1>3. CASE op.job # j
  BY <1>3, ExecDoesTo DEF Buried, InTables, HasRow
<1> QED BY <1>2, <1>3

\* A sequence that erases nothing of a job keeps it in one of the tables.
LEMMA ExecAllKeeps ==
  ASSUME NEW d \in Tables, NEW ops \in Seq(Op), NEW j \in Job, InTables(d, j),
         \A n \in 1..Len(ops) : ops[n].job = j => ~Erases(ops[n])
  PROVE  InTables(ExecAll(d, ops), j)
<1> DEFINE G == {p \in Tables \X Tables : InTables(p[1], j)}
<1>1. ASSUME NEW p \in G, NEW n \in 1..Len(ops)
      PROVE  <<Exec(p[1], ops[n]), Exec(p[2], ops[n])>> \in G
  <2>1. ops[n] \in Op /\ p[1] \in Tables /\ p[2] \in Tables
    BY ElementOfSeq
  <2>2. Exec(p[1], ops[n]) \in Tables /\ Exec(p[2], ops[n]) \in Tables
    BY <2>1, ExecDoes
  <2>3. InTables(Exec(p[1], ops[n]), j)
    BY <2>1, ExecKeeps
  <2> QED BY <2>2, <2>3
<1>2. <<d, d>> \in G /\ Len(ops) \in Nat
  BY LenProperties
<1> HIDE DEF G
<1>3. <<ExecAll(d, ops), ExecAll(d, ops)>> \in G
  BY <1>1, <1>2, RunsStayTogether
<1> QED BY <1>3 DEF G

\* Letters the writer's operations write do not depend on the rows.
LEMMA ExecAllBuriesMore ==
  ASSUME NEW d \in Tables, NEW e \in Tables, NEW ops \in Seq(QueuedOp), NEW j \in Job,
         Entries(d.dead, j) <= Entries(e.dead, j)
  PROVE  Entries(ExecAll(d, ops).dead, j) <= Entries(ExecAll(e, ops).dead, j)
<1> DEFINE G == {p \in Tables \X Tables : Entries(p[1].dead, j) <= Entries(p[2].dead, j)}
<1>1. ASSUME NEW p \in G, NEW n \in 1..Len(ops)
      PROVE  <<Exec(p[1], ops[n]), Exec(p[2], ops[n])>> \in G
  <2>1. /\ ops[n] \in QueuedOp /\ ops[n] \in Op /\ p[1] \in Tables /\ p[2] \in Tables
        /\ Entries(p[1].dead, j) <= Entries(p[2].dead, j)
    BY ElementOfSeq DEF Op
  <2>2. Exec(p[1], ops[n]) \in Tables /\ Exec(p[2], ops[n]) \in Tables
    BY <2>1, ExecDoes
  <2>3. ops[n].kind # "discard"
    BY <2>1, OpParts DEF Direct
  <2>4. Entries(Exec(p[1], ops[n]).dead, j) <= Entries(Exec(p[2], ops[n]).dead, j)
    BY <2>1, <2>3, ExecDoesTo DEF Buries
  <2> QED BY <2>2, <2>4
<1>2. <<d, e>> \in G /\ Len(ops) \in Nat
  BY LenProperties
<1> HIDE DEF G
<1>3. <<ExecAll(d, ops), ExecAll(e, ops)>> \in G
  BY <1>1, <1>2, RunsStayTogether
<1> QED BY <1>3 DEF G

\* A job that the tables know still, after a write in front of others.
LEMMA ExecAllKeepsToo ==
  ASSUME NEW d \in Tables, NEW e \in Tables, NEW ops \in Seq(Op), NEW j \in Job,
         InTables(d, j) => InTables(e, j),
         \A n \in 1..Len(ops) : ops[n].job = j => ~Erases(ops[n])
  PROVE  InTables(ExecAll(d, ops), j) => InTables(ExecAll(e, ops), j)
<1> DEFINE G == {p \in Tables \X Tables : InTables(p[1], j) => InTables(p[2], j)}
<1>1. ASSUME NEW p \in G, NEW n \in 1..Len(ops)
      PROVE  <<Exec(p[1], ops[n]), Exec(p[2], ops[n])>> \in G
  <2>1. /\ ops[n] \in Op /\ p[1] \in Tables /\ p[2] \in Tables
        /\ InTables(p[1], j) => InTables(p[2], j)
    BY ElementOfSeq
  <2>2. Exec(p[1], ops[n]) \in Tables /\ Exec(p[2], ops[n]) \in Tables
    BY <2>1, ExecDoes
  <2>3. InTables(Exec(p[1], ops[n]), j) => InTables(Exec(p[2], ops[n]), j)
    <3>1. CASE InTables(p[2], j)
      BY <2>1, <3>1, ExecKeeps
    <3>2. CASE ~InTables(p[1], j) /\ ops[n].job = j
      <4>1. CASE ops[n].kind \in {"insert", "dead"}
        BY <2>1, <3>2, <4>1, ExecKeeps
      <4>2. CASE ops[n].kind \notin {"insert", "dead"}
        <5>1. p[1].rows[j] = Nothing /\ ~(Entries(p[1].dead, j) > 0)
          BY <3>2 DEF InTables, HasRow, Buried
        <5>2. /\ Exec(p[1], ops[n]).rows[j] = RowAfter(Nothing, ops[n])
              /\ Entries(Exec(p[1], ops[n]).dead, j) =
                   Entries(p[1].dead, j) + (IF Buries(Nothing, ops[n]) THEN 1 ELSE 0)
              /\ Entries(p[1].dead, j) \in Nat
          BY <2>1, <3>2, <5>1, ExecDoesTo
        <5>3. RowAfter(Nothing, ops[n]) = Nothing /\ ~Buries(Nothing, ops[n])
          BY <2>1, <4>2, OpParts, RowAfterIsRow DEF Buries
        <5> QED BY <5>1, <5>2, <5>3 DEF InTables, HasRow, Buried
      <4> QED BY <4>1, <4>2
    <3>3. CASE ~InTables(p[1], j) /\ ops[n].job # j
      BY <2>1, <3>3, ExecDoesTo DEF InTables, HasRow, Buried
    <3> QED BY <2>1, <3>1, <3>2, <3>3
  <2> QED BY <2>2, <2>3
<1>2. <<d, e>> \in G /\ Len(ops) \in Nat
  BY LenProperties
<1> HIDE DEF G
<1>3. <<ExecAll(d, ops), ExecAll(e, ops)>> \in G
  BY <1>1, <1>2, RunsStayTogether
<1> QED BY <1>3 DEF G

-----------------------------------------------------------------------------
(* Places in a sequence *)

\* The first and the last place of a kind exist.
LEMMA LeastPlace ==
  ASSUME NEW n \in Nat, NEW I, I \subseteq 1..n, I # {}
  PROVE  Min(I) \in I /\ Max(I) \in I
<1>1. PICK x \in I : \A y \in I : x <= y
  <2>1. I \subseteq Nat
    OBVIOUS
  <2> QED BY <2>1, LeastNumber
<1>2. PICK z \in I : \A y \in I : z >= y
  <2> DEFINE T == {n - y : y \in I}
  <2>1. T \subseteq Nat /\ T # {}
    OBVIOUS
  <2>2. PICK t \in T : \A u \in T : t <= u
    BY <2>1, LeastNumber
  <2>3. PICK z \in I : t = n - z
    OBVIOUS
  <2>4. \A y \in I : n - z <= n - y
    BY <2>2, <2>3
  <2> QED BY <2>4
<1>3. Min(I) \in I
  BY <1>1 DEF Min
<1>4. Max(I) \in I
  BY <1>2 DEF Max
<1> QED BY <1>3, <1>4

-----------------------------------------------------------------------------
(* Types *)

DeadLetters == [job : Job, copy : Copy]

\* A call goes on after its write only with the job in its hands.
Call ==
  {c \in [op : Op, next : {"return", "queue", "dlq"}, copy : Copy \cup {Nothing},
          stage : {"due", "refused", "written"}] :
     /\ c.next = "queue" <=> c.op.kind \in {"fail", "delay"}
     /\ c.next = "dlq" <=> c.op.kind = "dead"
     /\ c.next # "return" => c.copy \in Copy
     /\ c.next = "return" => c.stage # "written"
     /\ c.op.kind = "fail" => c.op.attempts = c.copy.attempts}

EngineTypes ==
  /\ queued \in Container /\ active \in Container /\ waiting \in Container
  /\ dlq \in Seq(DeadLetters) /\ completed \subseteq Job /\ nextId \in 1..(MaxId + 1)
CallTypes == calls \in Seq(Call) /\ Len(calls) <= MaxCalls
WriterTypes ==
  /\ queue \in Seq(QueuedOp) /\ buffer \in Seq(QueuedOp) /\ Len(queue) <= Capacity
  /\ writer \in {"running", "stopping", "leaving", "final", "stopped"}
OtherTypes ==
  /\ setting \in Settings /\ up \in BOOLEAN /\ restarts \in 0..MaxRestarts
  /\ dropped \cup strayed \cup promised \subseteq Job

\* While the process is down its memory is empty.
Down ==
  ~up => /\ queued = Empty /\ active = Empty /\ waiting = Empty /\ dlq = <<>> /\ calls = <<>>
         /\ queue = <<>> /\ buffer = <<>> /\ writer = "running" /\ restarts < MaxRestarts

Types == EngineTypes /\ CallTypes /\ WriterTypes /\ db \in Tables /\ OtherTypes

\* The bounds are numbers.
LEMMA MaxIdIsNumber == MaxId \in Nat \ {0} /\ Capacity \in Nat \ {0} /\ MaxCalls \in Nat \ {0}
BY BoundAssumption

\* A copy put into a container, or taken out.
LEMMA PutIsContainer ==
  ASSUME NEW c \in Container, NEW j \in Job, NEW copy \in Copy
  PROVE  /\ Put(c, j, copy) \in Container /\ Without(c, j) \in Container
         /\ Holds(c, j) => c[j] \in Copy
BY DEF Put, Without, Holds, Container

-----------------------------------------------------------------------------
(* Retried letters *)

\* The jobs of the letters are queued again, with a copy each; the others stay.
LEMMA RetryDoes ==
  ASSUME NEW letters \in Seq(DeadLetters), NEW rest \in Seq(DeadLetters), EngineTypes,
         Retry(letters, rest)
  PROVE  /\ queued' \in Container
         /\ \A j \in Job : IF j \in JobsOf(letters) THEN Holds(queued, j)'
                                                    ELSE queued'[j] = queued[j]
<1> DEFINE I(j) == {i \in 1..Len(letters) : letters[i].job = j}
           Latest(j) == IF I(j) # {} THEN Max(I(j)) ELSE 0
           ids == JobsOf(letters)
<1>1. /\ Len(letters) \in Nat /\ DOMAIN letters = 1..Len(letters)
      /\ \A i \in 1..Len(letters) : letters[i] \in DeadLetters
  BY LenProperties, ElementOfSeq
<1>2. queued' = [j \in Job |->
                   IF j \in ids THEN [letters[Latest(j)].copy EXCEPT !.attempts = 0]
                                ELSE queued[j]]
  BY DEF Retry, SelectLastInSeq, JobsOf
<1>3. ASSUME NEW j \in Job, j \in ids
      PROVE  [letters[Latest(j)].copy EXCEPT !.attempts = 0] \in Copy
  <2>1. I(j) # {} /\ I(j) \subseteq 1..Len(letters)
    BY <1>1, <1>3 DEF JobsOf, ToSet
  <2> DEFINE K == I(j)
  <2> HIDE DEF K
  <2>2. Max(K) \in K
    BY <1>1, <2>1, LeastPlace DEF K
  <2>3. Latest(j) \in 1..Len(letters)
    BY <2>1, <2>2 DEF K
  <2>4. letters[Latest(j)].copy \in Copy
    BY <1>1, <2>3 DEF DeadLetters
  <2> HIDE DEF Latest
  <2> QED BY <2>4 DEF Copy
<1>4. \A j \in Job : queued[j] \in Copy \cup {Nothing}
  BY DEF EngineTypes, Container
<1> HIDE DEF I, Latest, ids
<1>5. queued' \in Container
  BY <1>2, <1>3, <1>4 DEF Container
<1>6. \A j \in Job : IF j \in ids THEN Holds(queued, j)' ELSE queued'[j] = queued[j]
  BY <1>2, <1>3, NothingIsNothing DEF Holds
<1> QED BY <1>5, <1>6 DEF ids

\* Which letters are retried, and which stay.
LEMMA RetryChooses ==
  ASSUME EngineTypes, RetryDlq
  PROVE  \E letters \in Seq(DeadLetters), rest \in Seq(DeadLetters) :
           /\ Retry(letters, rest)
           /\ \A j \in Job :
                /\ j \in JobsOf(letters) <=> Entries(letters, j) > 0
                /\ Entries(letters, j) + Entries(rest, j) = Entries(dlq, j)
<1>0. dlq \in Seq(DeadLetters) /\ <<>> \in Seq(DeadLetters)
  BY DEF EngineTypes
<1>1. ASSUME NEW s \in Seq(DeadLetters), NEW j
      PROVE  j \in JobsOf(s) <=> Entries(s, j) > 0
  <2>1. Entries(s, j) \in Nat /\ (Entries(s, j) = 0 <=> \A i \in DOMAIN s : s[i].job # j)
    BY EntriesCount
  <2> QED BY <2>1 DEF JobsOf, ToSet
<1>2. ASSUME NEW j PROVE Entries(<<>>, j) = 0
  <2>1. \A i \in DOMAIN <<>> : <<>>[i].job # j
    <3>1. DOMAIN <<>> = {}
      OBVIOUS
    <3> QED BY <3>1
  <2> QED BY <1>0, <2>1, EntriesCount
<1>3. CASE Retry(dlq, <<>>)
  <2>1. \A j \in Job : Entries(dlq, j) \in Nat
    BY <1>0, EntriesCount
  <2>2. \A j \in Job : Entries(dlq, j) + Entries(<<>>, j) = Entries(dlq, j)
    BY <1>2, <2>1
  <2> QED BY <1>0, <1>1, <1>3, <2>2
<1>4. ASSUME NEW g \in JobsOf(dlq),
             Retry(<<dlq[SelectInSeq(dlq, LAMBDA e : e.job = g)]>>,
                   RemoveAt(dlq, SelectInSeq(dlq, LAMBDA e : e.job = g)))
      PROVE  \E letters \in Seq(DeadLetters), rest \in Seq(DeadLetters) :
               /\ Retry(letters, rest)
               /\ \A j \in Job :
                    /\ j \in JobsOf(letters) <=> Entries(letters, j) > 0
                    /\ Entries(letters, j) + Entries(rest, j) = Entries(dlq, j)
  <2> DEFINE I == {i \in 1..Len(dlq) : dlq[i].job = g}
             first == IF I # {} THEN Min(I) ELSE 0
  <2>1. Len(dlq) \in Nat /\ DOMAIN dlq = 1..Len(dlq)
    BY <1>0, LenProperties
  <2>2. I # {} /\ I \subseteq 1..Len(dlq)
    BY <2>1 DEF JobsOf, ToSet
  <2>3. Retry(<<dlq[first]>>, RemoveAt(dlq, first))
    BY <1>4 DEF SelectInSeq
  <2>4. Min(I) \in I
    <3> HIDE DEF I
    <3> QED BY <2>1, <2>2, LeastPlace
  <2>5. first \in 1..Len(dlq)
    BY <2>2, <2>4
  <2> HIDE DEF first, I
  <2>6. RemoveAt(dlq, first) \in Seq(DeadLetters) /\ dlq[first] \in DeadLetters
    BY <1>0, <2>5, RemoveAtKeeps, ElementOfSeq
  <2> DEFINE one == <<dlq[first]>>
  <2>7. one = Append(<<>>, dlq[first]) /\ one \in Seq(DeadLetters)
    BY <2>6
  <2>8. ASSUME NEW j \in Job
        PROVE  Entries(one, j) + Entries(RemoveAt(dlq, first), j) = Entries(dlq, j)
    <3> DEFINE e == dlq[first]
    <3> HIDE DEF e
    <3>0. Entries(Append(<<>>, e), j) = Entries(<<>>, j) + (IF e.job = j THEN 1 ELSE 0)
      BY <1>0, <2>6, EntriesAppend DEF e
    <3>1. Entries(one, j) = 0 + (IF dlq[first].job = j THEN 1 ELSE 0)
      BY <1>2, <2>7, <3>0 DEF e
    <3>2. Entries(RemoveAt(dlq, first), j) = Entries(dlq,
           j) - (IF dlq[first].job = j THEN 1 ELSE 0)
      BY <1>0, <2>5, EntriesRemove
    <3>3. Entries(dlq, j) \in Nat
      BY <1>0, EntriesCount
    <3> QED BY <3>1, <3>2, <3>3
  <2> HIDE DEF one
  <2> QED BY <1>1, <2>3, <2>6, <2>7, <2>8 DEF one
<1> QED BY <1>3, <1>4 DEF RetryDlq

-----------------------------------------------------------------------------
(* What becomes of the calls *)

Inserts(j) == {c \in Call : c.op.job = j /\ c.op.kind = "insert"}
Others(j) == {c \in Call : c.op.job = j /\ c.op.kind # "insert"}

\* The insert of a job is issued before everything else about it.
InsertsFirst(cs, j) ==
  \A m, n \in DOMAIN cs : cs[m] \in Inserts(j) /\ cs[n] \in Others(j) => m < n

At(c, stage) == [c EXCEPT !.stage = stage]
New(op, next, copy) == [op |-> op, next |-> next, copy |-> copy, stage |-> "due"]

\* What a step makes of the calls: one more, one less, or one that became another.
Added(c) ==
  /\ \A S : Count(calls', S) = Count(calls, S) + (IF c \in S THEN 1 ELSE 0)
  /\ ToSet(calls') = ToSet(calls) \cup {c}
  /\ \A j : InsertsFirst(calls, j) /\ (c \in Inserts(j) => Count(calls, Others(j)) = 0)
              => InsertsFirst(calls', j)
Ended(i) ==
  /\ \A S : Count(calls', S) = Count(calls, S) - (IF calls[i] \in S THEN 1 ELSE 0)
  /\ ToSet(calls') \subseteq ToSet(calls)
  /\ \A j : InsertsFirst(calls, j) => InsertsFirst(calls', j)
Moved(i, c) ==
  /\ \A S : Count(calls', S) = Count(calls, S) - (IF calls[i] \in S THEN 1 ELSE 0)
                                             + (IF c \in S THEN 1 ELSE 0)
  /\ ToSet(calls') \subseteq ToSet(calls) \cup {c}
  /\ \A j : InsertsFirst(calls, j) => InsertsFirst(calls', j)

\* The kinds of calls there are.
LEMMA CallsMade ==
  ASSUME NEW j \in Job
  PROVE  /\ \A copy \in Copy, state \in {"waiting", "waiting_children"} :
              New(InsertJob(j, copy, state), "return", Nothing) \in Call
         /\ \A result \in BOOLEAN : New(AckJob(j, result), "return", Nothing) \in Call
         /\ New(CancelJob(j), "return", Nothing) \in Call
         /\ New(DiscardJob(j), "return", Nothing) \in Call
         /\ \A copy \in Copy :
              /\ New(FailJob(j, copy.attempts), "queue", copy) \in Call
              /\ New(MoveToDelayed(j), "queue", copy) \in Call
              /\ New(MoveToDlq(j, copy.attempts), "dlq", copy) \in Call
BY DEF New, Call, Op, QueuedOp, DirectOp, InsertOp, AckOp, CancelOp, CountOp, Direct, InsertJob,
  AckJob, CancelJob, DiscardJob, FailJob, MoveToDelayed, MoveToDlq, Copy

\* An operation of the engine issues a call.
LEMMA CallAdded ==
  ASSUME NEW op \in Op, NEW next, NEW copy, CallTypes, Len(calls) < MaxCalls,
         NEW c \in Call, c = New(op, next, copy), Due(op, next, copy)
  PROVE  CallTypes' /\ Added(c)
<1>1. calls' = Append(calls, c) /\ calls \in Seq(Call)
  BY DEF Due, CallTypes, New
<1>2. /\ calls' \in Seq(Call) /\ Len(calls') = Len(calls) + 1
      /\ \A m \in 1..Len(calls) : calls'[m] = calls[m]
      /\ calls'[Len(calls) + 1] = c
  BY <1>1, AppendProperties
<1>3. /\ Len(calls) \in Nat /\ DOMAIN calls = 1..Len(calls)
      /\ DOMAIN calls' = 1..(Len(calls) + 1)
  BY <1>1, <1>2, LenProperties
<1>4. CallTypes'
  BY <1>2, <1>3, MaxIdIsNumber DEF CallTypes
<1>5. ASSUME NEW S PROVE Count(calls', S) = Count(calls, S) + (IF c \in S THEN 1 ELSE 0)
  BY <1>1, CountAppend
<1>6. ToSet(calls') = ToSet(calls) \cup {c}
  BY <1>2, <1>3 DEF ToSet
<1>7. ASSUME NEW j, InsertsFirst(calls, j), c \in Inserts(j) => Count(calls, Others(j)) = 0
      PROVE  InsertsFirst(calls', j)
  <2>1. c \in Inserts(j) => \A n \in DOMAIN calls : calls[n] \notin Others(j)
    BY <1>1, <1>7, CountIsNumber
  <2>2. c \in Inserts(j) => c \notin Others(j)
    BY DEF Inserts, Others
  <2> QED BY <1>2, <1>3, <1>7, <2>1, <2>2 DEF InsertsFirst
<1> QED BY <1>4, <1>5, <1>6, <1>7 DEF Added

\* A call returns.
LEMMA CallEnded ==
  ASSUME CallTypes, NEW i \in DOMAIN calls, calls' = RemoveAt(calls, i)
  PROVE  CallTypes' /\ Ended(i)
<1>1. calls \in Seq(Call) /\ i \in 1..Len(calls) /\ Len(calls) \in Nat
      /\ DOMAIN calls = 1..Len(calls)
  BY LenProperties DEF CallTypes
<1>2. /\ calls' \in Seq(Call) /\ Len(calls') = Len(calls) - 1
      /\ \A m \in 1..(Len(calls) - 1) : calls'[m] = IF m < i THEN calls[m] ELSE calls[m + 1]
  BY <1>1, RemoveAtKeeps
<1>3. DOMAIN calls' = 1..(Len(calls) - 1)
  BY <1>2, LenProperties
<1>4. CallTypes'
  BY <1>1, <1>2, MaxIdIsNumber DEF CallTypes
<1>5. ASSUME NEW S PROVE Count(calls', S) = Count(calls, S) - (IF calls[i] \in S THEN 1 ELSE 0)
  BY <1>1, CountRemove
<1>6. ToSet(calls') \subseteq ToSet(calls)
  BY <1>1, <1>2, <1>3 DEF ToSet
<1>7. ASSUME NEW j, InsertsFirst(calls, j) PROVE InsertsFirst(calls', j)
  <2> SUFFICES ASSUME NEW m \in DOMAIN calls', NEW n \in DOMAIN calls',
                      calls'[m] \in Inserts(j), calls'[n] \in Others(j)
               PROVE  m < n
    BY DEF InsertsFirst
  <2> DEFINE old(k) == IF k < i THEN k ELSE k + 1
  <2>1. old(m) \in DOMAIN calls /\ old(n) \in DOMAIN calls
    BY <1>1, <1>3
  <2>2. calls[old(m)] = calls'[m] /\ calls[old(n)] = calls'[n]
    BY <1>2, <1>3
  <2>3. old(m) < old(n)
    BY <1>7, <2>1, <2>2 DEF InsertsFirst
  <2> QED BY <1>1, <1>3, <2>3
<1> QED BY <1>4, <1>5, <1>6, <1>7 DEF Ended

\* A call goes on to another stage.
LEMMA CallMoved ==
  ASSUME CallTypes, NEW i \in DOMAIN calls, NEW stage, At(calls[i], stage) \in Call,
         calls' = AtStage(i, stage)
  PROVE  CallTypes' /\ Moved(i, At(calls[i], stage))
<1> DEFINE c == At(calls[i], stage)
<1>1. /\ calls \in Seq(Call) /\ i \in 1..Len(calls) /\ Len(calls) \in Nat
      /\ DOMAIN calls = 1..Len(calls) /\ calls[i] \in Call
  BY LenProperties, ElementOfSeq DEF CallTypes
<1>2. calls' = [calls EXCEPT ![i] = c]
  BY DEF AtStage, At
<1>3. c \in Call /\ c.op = calls[i].op
  BY <1>1 DEF At, Call
<1> HIDE DEF c
<1>4. /\ calls' \in Seq(Call) /\ Len(calls') = Len(calls)
      /\ \A m \in 1..Len(calls) : calls'[m] = IF m = i THEN c ELSE calls[m]
  BY <1>1, <1>2, ExceptSeq DEF c
<1>5. DOMAIN calls' = DOMAIN calls
  BY <1>1, <1>4, LenProperties
<1>6. CallTypes'
  BY <1>4 DEF CallTypes
<1>7. ASSUME NEW S
      PROVE  Count(calls', S) = Count(calls, S) - (IF calls[i] \in S THEN 1 ELSE 0)
                                   + (IF c \in S THEN 1 ELSE 0)
  <2>1. Replaced(calls, calls', i, c)
    BY <1>2 DEF Replaced
  <2> QED BY <1>1, <1>3, <2>1, CountReplace
<1>8. ToSet(calls') \subseteq ToSet(calls) \cup {c}
  BY <1>1, <1>4, <1>5 DEF ToSet
<1>9. ASSUME NEW j, InsertsFirst(calls, j) PROVE InsertsFirst(calls', j)
  <2>1. c \in Inserts(j) <=> calls[i] \in Inserts(j)
    BY <1>1, <1>3 DEF Inserts, c
  <2>2. c \in Others(j) <=> calls[i] \in Others(j)
    BY <1>1, <1>3 DEF Others, c
  <2> QED BY <1>1, <1>4, <1>5, <1>9, <2>1, <2>2 DEF InsertsFirst
<1> QED BY <1>6, <1>7, <1>8, <1>9 DEF c, Moved

\* A call whose write was handed over.
LEMMA CallServed ==
  ASSUME CallTypes, NEW i \in DOMAIN calls, Served(i)
  PROVE  /\ CallTypes'
         /\ calls[i].next = "return" => Ended(i)
         /\ calls[i].next # "return" => Moved(i, At(calls[i], "written"))
<1>1. calls \in Seq(Call) /\ calls[i] \in Call
  BY LenProperties, ElementOfSeq DEF CallTypes
<1>2. CASE calls[i].next = "return"
  BY <1>2, CallEnded DEF Served
<1>3. CASE calls[i].next # "return"
  <2>1. At(calls[i], "written") \in Call
    BY <1>1, <1>3 DEF At, Call
  <2> QED BY <1>3, <2>1, CallMoved DEF Served
<1> QED BY <1>2, <1>3

-----------------------------------------------------------------------------
(* The types are kept *)

\* The parts of the types in the forms the steps need.
LEMMA TypeParts ==
  ASSUME Types
  PROVE  /\ nextId \in 1..(MaxId + 1) /\ MaxId \in Nat
         /\ setting.ids \in Job
         /\ queued \in Container /\ active \in Container /\ waiting \in Container
         /\ \A i \in DOMAIN calls :
              /\ calls[i] \in Call /\ calls[i].op \in Op /\ calls[i].op.job \in Job
              /\ calls[i].next \in {"return", "queue", "dlq"}
              /\ calls[i].stage \in {"due", "refused", "written"}
              /\ calls[i].next = "return" => calls[i].stage # "written"
              /\ calls[i].next # "return" => calls[i].copy \in Copy
<1>1. setting.ids \in Job
  BY OptionAssumption DEF Types, OtherTypes
<1>2. \A i \in DOMAIN calls : calls[i] \in Call
  BY LenProperties, ElementOfSeq DEF Types, CallTypes
<1>3. \A c \in Call : /\ c.op \in Op /\ c.next \in {"return", "queue", "dlq"}
                      /\ c.stage \in {"due", "refused", "written"}
                      /\ c.next = "return" => c.stage # "written"
                      /\ c.next # "return" => c.copy \in Copy
  BY DEF Call
<1> QED BY <1>1, <1>2, <1>3, MaxIdIsNumber, OpParts DEF Types, EngineTypes

\* What a push puts into the engine.
LEMMA NewCopy ==
  ASSUME Types, nextId <= setting.ids
  PROVE  /\ nextId \in Job
         /\ [attempts |-> 0, max |-> MaxAttempts[nextId], fleeting |-> nextId \in Fleeting] \in Copy
<1>1. nextId \in Job
  BY TypeParts DEF Job
<1>2. MaxAttempts[nextId] \in Nat
  BY <1>1, OptionAssumption
<1> QED BY <1>1, <1>2 DEF Copy

\* A container without a job is one.
LEMMA WithoutIsContainer ==
  ASSUME NEW c \in Container, NEW j \in Job
  PROVE  Without(c, j) \in Container
BY DEF Without, Container

\* The counter of a new process is beyond the rows of jobs, the largest if any.
LEMMA RecoveredIdIsAbove ==
  ASSUME NEW d \in Tables
  PROVE  /\ RecoveredId(d) \in 1..(MaxId + 1)
         /\ \A j \in Job : HasRow(d, j) => j < RecoveredId(d)
<1>1. CASE \A j \in Job : ~HasRow(d, j)
  BY <1>1, MaxIdIsNumber DEF RecoveredId
<1>2. CASE \E j \in Job : HasRow(d, j)
  <2> DEFINE I == {j \in Job : HasRow(d, j)}
             top == CHOOSE j \in Job : HasRow(d, j) /\ \A k \in Job : HasRow(d, k) => k <= j
  <2>1. I # {} /\ I \subseteq 1..MaxId /\ MaxId \in Nat
    BY <1>2, MaxIdIsNumber DEF Job
  <2> HIDE DEF I
  <2>2. \E x \in I : \A y \in I : x >= y
    <3> DEFINE T == {MaxId - y : y \in I}
    <3>1. T \subseteq Nat /\ T # {}
      <4>1. \A y \in I : MaxId - y \in Nat
        BY <2>1
      <4> QED BY <2>1, <4>1
    <3>2. PICK t \in T : \A u \in T : t <= u
      BY <3>1, LeastNumber
    <3>3. PICK x \in I : t = MaxId - x
      OBVIOUS
    <3>4. \A y \in I : MaxId - x <= MaxId - y
      BY <3>2, <3>3
    <3> QED BY <2>1, <3>4
  <2>3. \E j \in Job : HasRow(d, j) /\ \A k \in Job : HasRow(d, k) => k <= j
    BY <2>1, <2>2 DEF I, Job
  <2>4. top \in Job /\ \A k \in Job : HasRow(d, k) => k <= top
    BY <2>3, Zenon
  <2>5. RecoveredId(d) = 1 + top
    BY <1>2 DEF RecoveredId
  <2> HIDE DEF top
  <2> QED BY <2>4, <2>5, MaxIdIsNumber DEF Job
<1> QED BY <1>1, <1>2

\* The engine's copies stay copies of jobs.
LEMMA EngineTypesKept ==
  ASSUME Types, Down, [Next]_vars
  PROVE  EngineTypes'
<1>1. CASE UNCHANGED vars
  BY <1>1 DEF vars, engine, EngineTypes, Types
<1>2. CASE Push
  <2> DEFINE copy == [attempts |-> 0, max |-> MaxAttempts[nextId], fleeting |-> nextId \in Fleeting]
  <2>1. nextId \in Job /\ copy \in Copy
    BY <1>2, NewCopy DEF Push
  <2>2. /\ queued' = Put(queued, nextId, copy) \/ queued' = queued
        /\ waiting' = Put(waiting, nextId, copy) \/ waiting' = waiting
    BY <1>2 DEF Push
  <2> HIDE DEF copy
  <2>3. queued' \in Container /\ waiting' \in Container
    BY <2>1, <2>2, TypeParts, PutIsContainer
  <2>4. nextId + 1 \in 1..(MaxId + 1)
    BY <2>1, MaxIdIsNumber DEF Job
  <2> QED BY <1>2, <2>3, <2>4 DEF Push, EngineTypes, Types
<1>3. CASE RetryDlq
  <2>1. PICK letters \in Seq(DeadLetters), rest \in Seq(DeadLetters) : Retry(letters, rest)
    BY <1>3, RetryChooses DEF Types
  <2>2. queued' \in Container
    BY <2>1, RetryDoes DEF Types
  <2> QED BY <2>1, <2>2 DEF Retry, EngineTypes, Types
<1>4. ASSUME NEW j \in Job, Pull(j) PROVE EngineTypes'
  <2>1. queued \in Container /\ active \in Container
    BY TypeParts
  <2>2. queued[j] \in Copy
    BY <1>4, <2>1 DEF Pull, Container, Holds
  <2>3. queued' \in Container /\ active' \in Container
    BY <1>4, <2>1, <2>2, PutIsContainer DEF Pull
  <2> QED BY <1>4, <2>3 DEF Pull, EngineTypes, Types
<1>5. ASSUME NEW j \in Job, ReleaseDependents(j) PROVE EngineTypes'
  <2>1. waiting \in Container /\ queued \in Container
    BY TypeParts
  <2>2. waiting[j] \in Copy
    BY <1>5, <2>1 DEF ReleaseDependents, Container, Holds
  <2>3. waiting' \in Container /\ queued' \in Container
    BY <1>5, <2>1, <2>2, PutIsContainer DEF ReleaseDependents
  <2> QED BY <1>5, <2>3 DEF ReleaseDependents, EngineTypes, Types
<1>6. ASSUME NEW j \in Job, Fail(j) PROVE EngineTypes'
  <2>1. active \in Container
    BY TypeParts
  <2>2. active' \in Container
    BY <1>6, <2>1, WithoutIsContainer DEF Fail
  <2> QED BY <1>6, <2>2 DEF Fail, EngineTypes, Types
<1>7. ASSUME NEW j \in Job, Stall(j) PROVE EngineTypes'
  <2>1. active \in Container
    BY TypeParts
  <2>2. active' \in Container
    BY <1>7, <2>1, WithoutIsContainer DEF Stall
  <2> QED BY <1>7, <2>2 DEF Stall, EngineTypes, Types
<1>8. ASSUME NEW j \in Job, Delay(j) PROVE EngineTypes'
  <2>1. active \in Container
    BY TypeParts
  <2>2. active' \in Container
    BY <1>8, <2>1, WithoutIsContainer DEF Delay
  <2> QED BY <1>8, <2>2 DEF Delay, EngineTypes, Types
<1>9. ASSUME NEW j \in Job, Cancel(j) PROVE EngineTypes'
  <2>1. \A c \in Container : Without(c, j) \in Container
    BY WithoutIsContainer
  <2>2. queued' \in Container /\ active' \in Container /\ waiting' \in Container
    BY <1>9, <2>1, TypeParts DEF Cancel
  <2> QED BY <1>9, <2>2 DEF Cancel, EngineTypes, Types
<1>10. ASSUME NEW j \in Job, Discard(j) PROVE EngineTypes'
  <2>1. \E c \in {queued, active} : Holds(c, j) /\ dlq' = Append(dlq, DeadLetter(j, c[j]))
    BY <1>10 DEF Discard
  <2>2. PICK letter : letter \in DeadLetters /\ dlq' = Append(dlq, letter)
    <3>1. PICK c \in {queued, active} : Holds(c, j) /\ dlq' = Append(dlq, DeadLetter(j, c[j]))
      BY <2>1
    <3>2. c[j] \in Copy
      BY <3>1, TypeParts DEF Container, Holds
    <3>3. DeadLetter(j, c[j]) \in DeadLetters
      BY <3>2 DEF DeadLetter, DeadLetters
    <3> QED BY <3>1, <3>3
  <2>3. dlq' \in Seq(DeadLetters)
    BY <2>2, AppendProperties DEF EngineTypes, Types
  <2>4. queued' \in Container /\ active' \in Container
    BY <1>10, TypeParts, WithoutIsContainer DEF Discard
  <2> QED BY <1>10, <2>3, <2>4 DEF Discard, EngineTypes, Types
<1>11. ASSUME NEW j \in Job, NEW result \in BOOLEAN, Ack(j, result) PROVE EngineTypes'
  <2>1. completed' \subseteq Job
    BY <1>11 DEF Ack, EngineTypes, Types
  <2>2. active' \in Container
    BY <1>11, WithoutIsContainer, TypeParts DEF Ack
  <2> QED BY <1>11, <2>1, <2>2 DEF Ack, EngineTypes, Types
<1>12. ASSUME NEW i \in DOMAIN calls, QueueOp(i) PROVE EngineTypes'
  BY <1>12 DEF QueueOp, engine, EngineTypes, Types
<1>13. ASSUME NEW i \in DOMAIN calls, QueueFull(i) PROVE EngineTypes'
  BY <1>13 DEF QueueFull, engine, EngineTypes, Types
<1>14. ASSUME NEW i \in DOMAIN calls, WriteNow(i) PROVE EngineTypes'
  BY <1>14 DEF WriteNow, engine, EngineTypes, Types
<1>15. ASSUME NEW i \in DOMAIN calls, WriteNowFails(i) PROVE EngineTypes'
  <2>1. calls[i].op.job \in Job
    BY TypeParts
  <2>2. /\ queued' = Without(queued, calls[i].op.job) \/ queued' = queued
        /\ waiting' = Without(waiting, calls[i].op.job) \/ waiting' = waiting
    BY <1>15 DEF WriteNowFails
  <2>3. queued' \in Container /\ waiting' \in Container
    BY <2>1, <2>2, TypeParts DEF Without, Container
  <2> QED BY <1>15, <2>3 DEF WriteNowFails, EngineTypes, Types
<1>16. ASSUME NEW i \in DOMAIN calls, Place(i) PROVE EngineTypes'
  <2>1. calls[i].op.job \in Job /\ calls[i].copy \in Copy
    BY <1>16, TypeParts DEF Place
  <2>2. CASE calls[i].next = "queue"
    <3>1. queued' = Put(queued, calls[i].op.job, calls[i].copy) /\ dlq' = dlq
      BY <1>16, <2>2 DEF Place
    <3>2. queued' \in Container
      BY <2>1, <3>1, TypeParts, PutIsContainer
    <3> QED BY <1>16, <3>1, <3>2 DEF Place, EngineTypes, Types
  <2>3. CASE calls[i].next # "queue"
    <3>1. dlq' = Append(dlq, DeadLetter(calls[i].op.job, calls[i].copy)) /\ queued' = queued
      BY <1>16, <2>3 DEF Place
    <3>2. DeadLetter(calls[i].op.job, calls[i].copy) \in DeadLetters
      BY <2>1 DEF DeadLetter, DeadLetters
    <3>3. dlq' \in Seq(DeadLetters)
      BY <3>1, <3>2, AppendProperties DEF EngineTypes, Types
    <3> QED BY <1>16, <3>1, <3>3 DEF Place, EngineTypes, Types
  <2> QED BY <2>2, <2>3
<1>17. CASE TakeBatch
  BY <1>17 DEF TakeBatch, engine, EngineTypes, Types
<1>18. CASE Commit
  BY <1>18 DEF Commit, engine, EngineTypes, Types
<1>19. CASE BatchFails
  BY <1>19 DEF BatchFails, engine, EngineTypes, Types
<1>20. CASE Stop
  BY <1>20 DEF Stop, engine, EngineTypes, Types
<1>21. CASE TakeLast
  BY <1>21 DEF TakeLast, engine, EngineTypes, Types
<1>22. CASE Stopped
  BY <1>22 DEF Stopped, engine, EngineTypes, Types
<1>23. CASE Exit
  <2>1. Empty \in Container /\ <<>> \in Seq(DeadLetters)
    BY DEF Empty, Container
  <2>2. 1 \in 1..(MaxId + 1)
    BY MaxIdIsNumber
  <2> QED BY <1>23, <2>1, <2>2 DEF Exit, EngineTypes
<1>24. CASE Recover
  <2>1. db.rows \in [Job -> Row \cup {Nothing}] /\ db.dead \in Seq(Letters) /\ db.results \subseteq Job
    BY DEF Types, Tables
  <2>2. ASSUME NEW states PROVE Recovered(db, states) \in Container
    <3>1. \A k \in Job : HasRow(db, k) => db.rows[k].attempts \in Nat /\ db.rows[k].max \in Nat
      BY <2>1 DEF HasRow, Row
    <3> QED BY <3>1 DEF Recovered, Container, Copy
  <2>3. RecoveredDead(db) \in Seq(DeadLetters)
    <3>1. \A n \in 1..Len(db.dead) : db.dead[n] \in Letters
      BY <2>1, ElementOfSeq
    <3>2. DOMAIN db.dead = 1..Len(db.dead) /\ Len(db.dead) \in Nat
      BY <2>1, LenProperties
    <3>3. ASSUME NEW n \in 1..Len(db.dead)
          PROVE  DeadLetter(db.dead[n].job, [attempts |-> db.dead[n].attempts,
                            max |-> db.dead[n].attempts, fleeting |-> FALSE]) \in DeadLetters
      BY <3>1 DEF DeadLetter, DeadLetters, Letters, Copy
    <3> DEFINE letter(n) == DeadLetter(db.dead[n].job, [attempts |-> db.dead[n].attempts,
                                       max |-> db.dead[n].attempts, fleeting |-> FALSE])
    <3>4. RecoveredDead(db) = [n \in 1..Len(db.dead) |-> letter(n)]
      BY <3>2 DEF RecoveredDead
    <3>5. \A n \in 1..Len(db.dead) : letter(n) \in DeadLetters
      BY <3>3
    <3> HIDE DEF letter
    <3> QED BY <3>2, <3>4, <3>5, IsASeq
  <2>4. RecoveredId(db) \in 1..(MaxId + 1)
    BY MaxIdIsNumber, RecoveredIdIsAbove DEF Types
  <2> HIDE DEF Recovered
  <2>5. queued' \in Container /\ waiting' \in Container
    BY <1>24, <2>2 DEF Recover
  <2> QED BY <1>24, <2>1, <2>3, <2>4, <2>5 DEF Recover, EngineTypes, Types
<1> QED BY <1>1, <1>2, <1>3, <1>4, <1>5, <1>6, <1>7, <1>8, <1>9, <1>10, <1>11, <1>12, <1>13,
          <1>14, <1>15, <1>16, <1>17, <1>18, <1>19, <1>20, <1>21, <1>22, <1>23, <1>24
       DEF Next, Operate, Serve, Write

-----------------------------------------------------------------------------
(* What each operation of the engine issues *)

\* A push: the insert of the new job.
LEMMA PushIssues ==
  ASSUME Types, Push
  PROVE  /\ CallTypes'
         /\ \E copy \in Copy, state \in {"waiting", "waiting_children"} :
              /\ copy.attempts = 0
              /\ New(InsertJob(nextId, copy, state), "return", Nothing) \in Call
              /\ Added(New(InsertJob(nextId, copy, state), "return", Nothing))
              /\ \/ queued' = Put(queued, nextId, copy) /\ waiting' = waiting
                 \/ waiting' = Put(waiting, nextId, copy) /\ queued' = queued
<1> DEFINE copy == [attempts |-> 0, max |-> MaxAttempts[nextId], fleeting |-> nextId \in Fleeting]
<1>1. nextId \in Job /\ copy \in Copy /\ Len(calls) < MaxCalls /\ CallTypes
  BY NewCopy DEF Push, May, Types
<1>2. copy.attempts = 0
  OBVIOUS
<1>3. PICK state \in {"waiting", "waiting_children"} :
        /\ Due(InsertJob(nextId, copy, state), "return", Nothing)
        /\ \/ queued' = Put(queued, nextId, copy) /\ waiting' = waiting
           \/ waiting' = Put(waiting, nextId, copy) /\ queued' = queued
  BY DEF Push
<1> HIDE DEF copy
<1> DEFINE op == InsertJob(nextId, copy, state)
           c == New(op, "return", Nothing)
<1>4. c \in Call
  BY <1>1, CallsMade
<1>5. op \in Op
  BY <1>4 DEF Call, New
<1> HIDE DEF op, c
<1>6. CallTypes' /\ Added(c)
  BY <1>1, <1>3, <1>4, <1>5, CallAdded DEF c, op
<1> QED BY <1>1, <1>2, <1>3, <1>4, <1>6 DEF c, op

\* A call whose operation is one of the job in hand.
LEMMA CallIssued ==
  ASSUME Types, NEW op, NEW next, NEW copy, New(op, next, copy) \in Call,
         Len(calls) < MaxCalls, Due(op, next, copy)
  PROVE  CallTypes' /\ Added(New(op, next, copy))
<1> DEFINE c == New(op, next, copy)
<1>1. op \in Op /\ CallTypes
  BY DEF Call, New, Types
<1>2. c \in Call
  OBVIOUS
<1> HIDE DEF c
<1>3. CallTypes' /\ Added(c)
  BY <1>1, <1>2, CallAdded DEF c
<1> QED BY <1>3 DEF c

\* A failure: another attempt is counted, or the job is buried, or nothing is written.
LEMMA FailIssues ==
  ASSUME Types, NEW j \in Job, Fail(j)
  PROVE  /\ CallTypes'
         /\ \E copy \in Copy :
              \/ /\ New(FailJob(j, copy.attempts), "queue", copy) \in Call
                 /\ Added(New(FailJob(j, copy.attempts), "queue", copy))
              \/ /\ New(MoveToDlq(j, copy.attempts), "dlq", copy) \in Call
                 /\ Added(New(MoveToDlq(j, copy.attempts), "dlq", copy))
              \/ calls' = calls /\ strayed' = strayed \cup {j}
<1> DEFINE copy == [active[j] EXCEPT !.attempts = @ + 1]
<1>1. active[j] \in Copy
  BY TypeParts DEF Fail, Container, Holds
<1>2. copy \in Copy
  BY <1>1 DEF Copy
<1>3. \/ Due(FailJob(j, copy.attempts), "queue", copy)
      \/ Due(MoveToDlq(j, copy.attempts), "dlq", copy)
      \/ calls' = calls /\ strayed' = strayed \cup {j}
  BY DEF Fail
<1> HIDE DEF copy
<1>4. /\ New(FailJob(j, copy.attempts), "queue", copy) \in Call
      /\ New(MoveToDlq(j, copy.attempts), "dlq", copy) \in Call
      /\ Len(calls) < MaxCalls
  BY <1>2, CallsMade DEF Fail, May
<1>5. CASE calls' = calls /\ strayed' = strayed \cup {j}
  BY <1>2, <1>5 DEF Types, CallTypes
<1>6. CASE Due(FailJob(j, copy.attempts), "queue", copy)
  BY <1>2, <1>4, <1>6, CallIssued
<1>7. CASE Due(MoveToDlq(j, copy.attempts), "dlq", copy)
  BY <1>2, <1>4, <1>7, CallIssued
<1> QED BY <1>3, <1>5, <1>6, <1>7

\* A job that stalled too often is buried.
LEMMA StallIssues ==
  ASSUME Types, NEW j \in Job, Stall(j)
  PROVE  /\ CallTypes'
         /\ New(MoveToDlq(j, active[j].attempts), "dlq", active[j]) \in Call
         /\ Added(New(MoveToDlq(j, active[j].attempts), "dlq", active[j]))
<1>1. active[j] \in Copy
  BY TypeParts DEF Stall, Container, Holds
<1>2. New(MoveToDlq(j, active[j].attempts), "dlq", active[j]) \in Call
  BY <1>1, CallsMade
<1> QED BY <1>2, CallIssued DEF Stall, May

\* A job that is moved to delayed keeps its attempts.
LEMMA DelayIssues ==
  ASSUME Types, NEW j \in Job, Delay(j)
  PROVE  /\ CallTypes'
         /\ New(MoveToDelayed(j), "queue", active[j]) \in Call
         /\ Added(New(MoveToDelayed(j), "queue", active[j]))
<1>1. active[j] \in Copy
  BY TypeParts DEF Delay, Container, Holds
<1>2. New(MoveToDelayed(j), "queue", active[j]) \in Call
  BY <1>1, CallsMade
<1> QED BY <1>2, CallIssued DEF Delay, May

\* What cancels and discards issue.
LEMMA CancelIssues ==
  ASSUME Types, NEW j \in Job, Cancel(j)
  PROVE  /\ CallTypes'
         /\ New(CancelJob(j), "return", Nothing) \in Call
         /\ Added(New(CancelJob(j), "return", Nothing))
BY CallsMade, CallIssued DEF Cancel, May

\* The same of a discard.
LEMMA DiscardIssues ==
  ASSUME Types, NEW j \in Job, Discard(j)
  PROVE  /\ CallTypes'
         /\ New(DiscardJob(j), "return", Nothing) \in Call
         /\ Added(New(DiscardJob(j), "return", Nothing))
BY CallsMade, CallIssued DEF Discard, May

\* An ack deletes the row of a fleeting job and the row of any other.
LEMMA AckIssues ==
  ASSUME Types, NEW j \in Job, NEW result \in BOOLEAN, Ack(j, result)
  PROVE  /\ CallTypes'
         /\ \/ /\ New(CancelJob(j), "return", Nothing) \in Call
               /\ Added(New(CancelJob(j), "return", Nothing))
            \/ /\ New(AckJob(j, result), "return", Nothing) \in Call
               /\ Added(New(AckJob(j, result), "return", Nothing))
<1>1. Len(calls) < MaxCalls
  BY DEF Ack, May
<1>2. CASE Due(CancelJob(j), "return", Nothing)
  BY <1>1, <1>2, CallsMade, CallIssued
<1>3. CASE Due(AckJob(j, result), "return", Nothing)
  BY <1>1, <1>3, CallsMade, CallIssued
<1> QED BY <1>2, <1>3 DEF Ack

\* Calls stay calls, and not too many.
LEMMA CallTypesKept ==
  ASSUME Types, [Next]_vars
  PROVE  CallTypes'
<1>1. CASE UNCHANGED vars
  BY <1>1 DEF vars, CallTypes, Types
<1>2. CASE Push
  BY <1>2, PushIssues
<1>3. CASE RetryDlq
  <2>1. calls' = calls
    BY <1>3 DEF RetryDlq, Retry
  <2> QED BY <2>1 DEF CallTypes, Types
<1>4. ASSUME NEW j \in Job, Pull(j) PROVE CallTypes'
  BY <1>4 DEF Pull, CallTypes, Types
<1>5. ASSUME NEW j \in Job, ReleaseDependents(j) PROVE CallTypes'
  BY <1>5 DEF ReleaseDependents, CallTypes, Types
<1>6. ASSUME NEW j \in Job, Fail(j) PROVE CallTypes'
  BY <1>6, FailIssues
<1>7. ASSUME NEW j \in Job, Stall(j) PROVE CallTypes'
  BY <1>7, StallIssues
<1>8. ASSUME NEW j \in Job, Delay(j) PROVE CallTypes'
  BY <1>8, DelayIssues
<1>9. ASSUME NEW j \in Job, Cancel(j) PROVE CallTypes'
  BY <1>9, CancelIssues
<1>10. ASSUME NEW j \in Job, Discard(j) PROVE CallTypes'
  BY <1>10, DiscardIssues
<1>11. ASSUME NEW j \in Job, NEW result \in BOOLEAN, Ack(j, result) PROVE CallTypes'
  BY <1>11, AckIssues
<1>12. ASSUME NEW i \in DOMAIN calls, QueueOp(i) PROVE CallTypes'
  BY <1>12, CallServed DEF QueueOp, Types
<1>13. ASSUME NEW i \in DOMAIN calls, QueueFull(i) PROVE CallTypes'
  <2>1. At(calls[i], "refused") \in Call
    BY <1>13, TypeParts DEF QueueFull, Queueable, At, Call
  <2> QED BY <1>13, <2>1, CallMoved DEF QueueFull, Types
<1>14. ASSUME NEW i \in DOMAIN calls, WriteNow(i) PROVE CallTypes'
  BY <1>14, CallServed DEF WriteNow, Types
<1>15. ASSUME NEW i \in DOMAIN calls, WriteNowFails(i) PROVE CallTypes'
  BY <1>15, CallServed, CallEnded DEF WriteNowFails, Types
<1>16. ASSUME NEW i \in DOMAIN calls, Place(i) PROVE CallTypes'
  BY <1>16, CallEnded DEF Place, Types
<1>17. CASE TakeBatch
  BY <1>17 DEF TakeBatch, CallTypes, Types
<1>18. CASE Commit
  BY <1>18 DEF Commit, CallTypes, Types
<1>19. CASE BatchFails
  BY <1>19 DEF BatchFails, CallTypes, Types
<1>20. CASE Stop
  BY <1>20 DEF Stop, CallTypes, Types
<1>21. CASE TakeLast
  BY <1>21 DEF TakeLast, CallTypes, Types
<1>22. CASE Stopped
  BY <1>22 DEF Stopped, CallTypes, Types
<1>23. CASE Exit
  <2>1. calls' = <<>>
    BY <1>23 DEF Exit
  <2> QED BY <2>1, MaxIdIsNumber DEF CallTypes
<1>24. CASE Recover
  BY <1>24 DEF Recover, CallTypes, Types
<1> QED BY <1>1, <1>2, <1>3, <1>4, <1>5, <1>6, <1>7, <1>8, <1>9, <1>10, <1>11, <1>12, <1>13,
          <1>14, <1>15, <1>16, <1>17, <1>18, <1>19, <1>20, <1>21, <1>22, <1>23, <1>24
       DEF Next, Operate, Serve, Write

\* The queue and the buffer hold operations that go through the writer.
LEMMA WriterTypesKept ==
  ASSUME Types, [Next]_vars
  PROVE  WriterTypes'
<1>1. CASE UNCHANGED vars
  BY <1>1 DEF vars, writing, WriterTypes, Types
<1>2. CASE Push
  BY <1>2 DEF Push, writing, WriterTypes, Types
<1>3. CASE RetryDlq
  BY <1>3 DEF RetryDlq, Retry, writing, WriterTypes, Types
<1>4. ASSUME NEW j \in Job, Pull(j) PROVE WriterTypes'
  BY <1>4 DEF Pull, writing, WriterTypes, Types
<1>5. ASSUME NEW j \in Job, ReleaseDependents(j) PROVE WriterTypes'
  BY <1>5 DEF ReleaseDependents, writing, WriterTypes, Types
<1>6. ASSUME NEW j \in Job, Fail(j) PROVE WriterTypes'
  BY <1>6 DEF Fail, writing, WriterTypes, Types
<1>7. ASSUME NEW j \in Job, Stall(j) PROVE WriterTypes'
  BY <1>7 DEF Stall, writing, WriterTypes, Types
<1>8. ASSUME NEW j \in Job, Delay(j) PROVE WriterTypes'
  BY <1>8 DEF Delay, writing, WriterTypes, Types
<1>9. ASSUME NEW j \in Job, Cancel(j) PROVE WriterTypes'
  BY <1>9 DEF Cancel, writing, WriterTypes, Types
<1>10. ASSUME NEW j \in Job, Discard(j) PROVE WriterTypes'
  BY <1>10 DEF Discard, writing, WriterTypes, Types
<1>11. ASSUME NEW j \in Job, NEW result \in BOOLEAN, Ack(j, result) PROVE WriterTypes'
  BY <1>11 DEF Ack, writing, WriterTypes, Types
<1>12. ASSUME NEW i \in DOMAIN calls, QueueOp(i) PROVE WriterTypes'
  <2>1. calls[i].op \in QueuedOp
    BY <1>12, TypeParts, OpParts DEF QueueOp, Queueable, Op, DirectOp
  <2>2. queue' \in Seq(QueuedOp) /\ Len(queue') = Len(queue) + 1
    BY <1>12, <2>1, AppendProperties DEF QueueOp, WriterTypes, Types
  <2>3. Len(queue) \in Nat /\ Len(queue) < Capacity
    BY <1>12, LenProperties DEF QueueOp, WriterTypes, Types
  <2> QED BY <1>12, <2>2, <2>3, MaxIdIsNumber DEF QueueOp, WriterTypes, Types
<1>13. ASSUME NEW i \in DOMAIN calls, QueueFull(i) PROVE WriterTypes'
  BY <1>13 DEF QueueFull, writing, WriterTypes, Types
<1>14. ASSUME NEW i \in DOMAIN calls, WriteNow(i) PROVE WriterTypes'
  BY <1>14 DEF WriteNow, writing, WriterTypes, Types
<1>15. ASSUME NEW i \in DOMAIN calls, WriteNowFails(i) PROVE WriterTypes'
  BY <1>15 DEF WriteNowFails, writing, WriterTypes, Types
<1>16. ASSUME NEW i \in DOMAIN calls, Place(i) PROVE WriterTypes'
  BY <1>16 DEF Place, writing, WriterTypes, Types
<1>17. CASE TakeBatch
  <2> DEFINE n == IF Len(queue) < MaxBatch THEN Len(queue) ELSE MaxBatch
  <2>1. Len(queue) \in Nat /\ queue \in Seq(QueuedOp) /\ Len(queue) <= Capacity
    BY LenProperties DEF WriterTypes, Types
  <2>2. MaxBatch \in Nat \ {0}
    BY OptionAssumption DEF MaxBatch, Types, OtherTypes
  <2>3. n \in 0..Len(queue)
    BY <2>1, <2>2
  <2>4. buffer' = SubSeq(queue, 1, n) /\ queue' = SubSeq(queue, n + 1, Len(queue))
    BY <1>17 DEF TakeBatch
  <2> HIDE DEF n
  <2>5. buffer' \in Seq(QueuedOp) /\ queue' \in Seq(QueuedOp) /\ Len(queue') <= Len(queue)
    <3>1. \A m \in 1..Len(queue) : queue[m] \in QueuedOp
      BY <2>1, ElementOfSeq
    <3>2. SubSeq(queue, 1, n) \in Seq(QueuedOp)
      BY <2>1, <2>3, <3>1, SubSeqProperties
    <3>3. /\ SubSeq(queue, n + 1, Len(queue)) \in Seq(QueuedOp)
          /\ Len(SubSeq(queue, n + 1, Len(queue))) <= Len(queue)
      BY <2>1, <2>3, <3>1, SubSeqProperties
    <3> QED BY <2>4, <3>2, <3>3
  <2>6. writer' \in {"running", "stopping", "leaving", "final", "stopped"}
    BY <1>17 DEF TakeBatch, TakenOff
  <2>7. Len(queue') \in Nat
    BY <2>5, LenProperties
  <2> QED BY <2>1, <2>5, <2>6, <2>7, MaxIdIsNumber DEF WriterTypes
<1>18. CASE Commit
  <2>1. <<>> \in Seq(QueuedOp)
    OBVIOUS
  <2> QED BY <1>18, <2>1 DEF Commit, WriterTypes, Types
<1>19. CASE BatchFails
  <2>1. <<>> \in Seq(QueuedOp)
    OBVIOUS
  <2> QED BY <1>19, <2>1 DEF BatchFails, WriterTypes, Types
<1>20. CASE Stop
  BY <1>20 DEF Stop, writing, WriterTypes, Types
<1>21. CASE TakeLast
  <2>1. <<>> \in Seq(QueuedOp) /\ Len(<<>>) = 0
    OBVIOUS
  <2> QED BY <1>21, <2>1, MaxIdIsNumber DEF TakeLast, WriterTypes, Types
<1>22. CASE Stopped
  BY <1>22 DEF Stopped, writing, WriterTypes, Types
<1>23. CASE Exit
  <2>1. <<>> \in Seq(QueuedOp) /\ Len(<<>>) = 0
    OBVIOUS
  <2> QED BY <1>23, <2>1, MaxIdIsNumber DEF Exit, WriterTypes, Types
<1>24. CASE Recover
  BY <1>24 DEF Recover, writing, WriterTypes, Types
<1> QED BY <1>1, <1>2, <1>3, <1>4, <1>5, <1>6, <1>7, <1>8, <1>9, <1>10, <1>11, <1>12, <1>13,
          <1>14, <1>15, <1>16, <1>17, <1>18, <1>19, <1>20, <1>21, <1>22, <1>23, <1>24
       DEF Next, Operate, Serve, Write

\* What goes through the writer are operations.
LEMMA WriterOps ==
  ASSUME Types
  PROVE  buffer \in Seq(Op) /\ queue \in Seq(Op)
<1>1. \A s \in Seq(QueuedOp) : s \in Seq(Op)
  <2> SUFFICES ASSUME NEW s \in Seq(QueuedOp) PROVE s \in Seq(Op)
    OBVIOUS
  <2>1. \A n \in 1..Len(s) : s[n] \in Op
    BY ElementOfSeq DEF Op
  <2>2. s \in [1..Len(s) -> Op] /\ Len(s) \in Nat
    BY <2>1, LenProperties
  <2> QED BY <2>2
<1> QED BY <1>1 DEF Types, WriterTypes

\* The tables hold rows of jobs and letters of jobs.
LEMMA TablesKept ==
  ASSUME Types, [Next]_vars
  PROVE  (db \in Tables)'
<1>1. CASE UNCHANGED vars
  BY <1>1 DEF vars, writing, Types
<1>2. CASE Push
  BY <1>2 DEF Push, writing, Types
<1>3. CASE RetryDlq
  BY <1>3 DEF RetryDlq, Retry, writing, Types
<1>4. ASSUME NEW j \in Job, Pull(j) PROVE (db \in Tables)'
  BY <1>4 DEF Pull, writing, Types
<1>5. ASSUME NEW j \in Job, ReleaseDependents(j) PROVE (db \in Tables)'
  BY <1>5 DEF ReleaseDependents, writing, Types
<1>6. ASSUME NEW j \in Job, Fail(j) PROVE (db \in Tables)'
  BY <1>6 DEF Fail, writing, Types
<1>7. ASSUME NEW j \in Job, Stall(j) PROVE (db \in Tables)'
  BY <1>7 DEF Stall, writing, Types
<1>8. ASSUME NEW j \in Job, Delay(j) PROVE (db \in Tables)'
  BY <1>8 DEF Delay, writing, Types
<1>9. ASSUME NEW j \in Job, Cancel(j) PROVE (db \in Tables)'
  BY <1>9 DEF Cancel, writing, Types
<1>10. ASSUME NEW j \in Job, Discard(j) PROVE (db \in Tables)'
  BY <1>10 DEF Discard, writing, Types
<1>11. ASSUME NEW j \in Job, NEW result \in BOOLEAN, Ack(j, result) PROVE (db \in Tables)'
  BY <1>11 DEF Ack, writing, Types
<1>12. ASSUME NEW i \in DOMAIN calls, QueueOp(i) PROVE (db \in Tables)'
  BY <1>12 DEF QueueOp, writing, Types
<1>13. ASSUME NEW i \in DOMAIN calls, QueueFull(i) PROVE (db \in Tables)'
  BY <1>13 DEF QueueFull, writing, Types
<1>14. ASSUME NEW i \in DOMAIN calls, WriteNow(i) PROVE (db \in Tables)'
  BY <1>14, TypeParts, ExecDoes DEF WriteNow, Types
<1>15. ASSUME NEW i \in DOMAIN calls, WriteNowFails(i) PROVE (db \in Tables)'
  BY <1>15 DEF WriteNowFails, writing, Types
<1>16. ASSUME NEW i \in DOMAIN calls, Place(i) PROVE (db \in Tables)'
  BY <1>16 DEF Place, writing, Types
<1>17. CASE TakeBatch
  BY <1>17 DEF TakeBatch, writing, Types
<1>18. CASE Commit
  <2>1. buffer \in Seq(Op)
    BY WriterOps
  <2> QED BY <1>18, <2>1, ExecAllTables DEF Commit, Types
<1>19. CASE BatchFails
  BY <1>19 DEF BatchFails, writing, Types
<1>20. CASE Stop
  BY <1>20 DEF Stop, writing, Types
<1>21. CASE TakeLast
  BY <1>21 DEF TakeLast, writing, Types
<1>22. CASE Stopped
  BY <1>22 DEF Stopped, writing, Types
<1>23. CASE Exit
  BY <1>23 DEF Exit, writing, Types
<1>24. CASE Recover
  BY <1>24 DEF Recover, writing, Types
<1> QED BY <1>1, <1>2, <1>3, <1>4, <1>5, <1>6, <1>7, <1>8, <1>9, <1>10, <1>11, <1>12, <1>13,
          <1>14, <1>15, <1>16, <1>17, <1>18, <1>19, <1>20, <1>21, <1>22, <1>23, <1>24
       DEF Next, Operate, Serve, Write

\* The rest of the types.
LEMMA OtherTypesKept ==
  ASSUME Types, Down, [Next]_vars
  PROVE  OtherTypes'
<1>1. CASE UNCHANGED vars
  BY <1>1 DEF vars, history, OtherTypes, Types
<1>2. CASE Push
  BY <1>2 DEF Push, history, OtherTypes, Types
<1>3. CASE RetryDlq
  <2>1. PICK letters \in Seq(DeadLetters), rest \in Seq(DeadLetters) : Retry(letters, rest)
    BY <1>3, RetryChooses DEF Types
  <2>2. JobsOf(letters) \subseteq Job
    <3>1. \A n \in DOMAIN letters : letters[n] \in DeadLetters
      BY ElementOfSeq, LenProperties
    <3> QED BY <3>1 DEF JobsOf, ToSet, DeadLetters
  <2>3. strayed' = strayed \cup JobsOf(letters)
    BY <2>1 DEF Retry, JobsOf
  <2> QED BY <2>1, <2>2, <2>3 DEF Retry, OtherTypes, Types
<1>4. ASSUME NEW j \in Job, Pull(j) PROVE OtherTypes'
  BY <1>4 DEF Pull, history, OtherTypes, Types
<1>5. ASSUME NEW j \in Job, ReleaseDependents(j) PROVE OtherTypes'
  BY <1>5 DEF ReleaseDependents, history, OtherTypes, Types
<1>6. ASSUME NEW j \in Job, Fail(j) PROVE OtherTypes'
  BY <1>6 DEF Fail, history, OtherTypes, Types
<1>7. ASSUME NEW j \in Job, Stall(j) PROVE OtherTypes'
  BY <1>7 DEF Stall, history, OtherTypes, Types
<1>8. ASSUME NEW j \in Job, Delay(j) PROVE OtherTypes'
  BY <1>8 DEF Delay, history, OtherTypes, Types
<1>9. ASSUME NEW j \in Job, Cancel(j) PROVE OtherTypes'
  BY <1>9 DEF Cancel, history, OtherTypes, Types
<1>10. ASSUME NEW j \in Job, Discard(j) PROVE OtherTypes'
  BY <1>10 DEF Discard, history, OtherTypes, Types
<1>11. ASSUME NEW j \in Job, NEW result \in BOOLEAN, Ack(j, result) PROVE OtherTypes'
  BY <1>11 DEF Ack, history, OtherTypes, Types
<1>12. ASSUME NEW i \in DOMAIN calls, QueueOp(i) PROVE OtherTypes'
  BY <1>12, TypeParts DEF QueueOp, Served, Straying, OtherTypes, Types
<1>13. ASSUME NEW i \in DOMAIN calls, QueueFull(i) PROVE OtherTypes'
  BY <1>13 DEF QueueFull, history, OtherTypes, Types
<1>14. ASSUME NEW i \in DOMAIN calls, WriteNow(i) PROVE OtherTypes'
  BY <1>14, TypeParts DEF WriteNow, Served, Straying, OtherTypes, Types
<1>15. ASSUME NEW i \in DOMAIN calls, WriteNowFails(i) PROVE OtherTypes'
  BY <1>15, TypeParts DEF WriteNowFails, Served, OtherTypes, Types
<1>16. ASSUME NEW i \in DOMAIN calls, Place(i) PROVE OtherTypes'
  BY <1>16 DEF Place, history, OtherTypes, Types
<1>17. CASE TakeBatch
  BY <1>17 DEF TakeBatch, history, OtherTypes, Types
<1>18. CASE Commit
  BY <1>18 DEF Commit, history, OtherTypes, Types
<1>19. CASE BatchFails
  <2>1. JobsOf(buffer) \subseteq Job
    <3>1. buffer \in Seq(Op)
      BY WriterOps
    <3> QED BY <3>1, ElementOfSeq, LenProperties, OpParts DEF JobsOf, ToSet
  <2> QED BY <1>19, <2>1 DEF BatchFails, OtherTypes, Types
<1>20. CASE Stop
  BY <1>20 DEF Stop, history, OtherTypes, Types
<1>21. CASE TakeLast
  BY <1>21 DEF TakeLast, history, OtherTypes, Types
<1>22. CASE Stopped
  BY <1>22 DEF Stopped, history, OtherTypes, Types
<1>23. CASE Exit
  BY <1>23 DEF Exit, OtherTypes, Types
<1>24. CASE Recover
  <2>1. restarts < MaxRestarts
    BY <1>24 DEF Recover, Down
  <2> QED BY <1>24, <2>1, BoundAssumption DEF Recover, history, OtherTypes, Types
<1> QED BY <1>1, <1>2, <1>3, <1>4, <1>5, <1>6, <1>7, <1>8, <1>9, <1>10, <1>11, <1>12, <1>13,
          <1>14, <1>15, <1>16, <1>17, <1>18, <1>19, <1>20, <1>21, <1>22, <1>23, <1>24
       DEF Next, Operate, Serve, Write

\* Only a process that is up has calls.
LEMMA OnlyUp ==
  ASSUME Down, NEW i \in DOMAIN calls
  PROVE  up
BY DEF Down

\* While the process is down nothing of it is there.
LEMMA DownKept ==
  ASSUME Types, Down, [Next]_vars
  PROVE  Down'
<1>1. CASE UNCHANGED vars
  BY <1>1 DEF vars, engine, writing, Down
<1>2. CASE Push
  BY <1>2 DEF Push, May, Down
<1>3. CASE RetryDlq
  BY <1>3 DEF RetryDlq, Retry, Down
<1>4. ASSUME NEW j \in Job, Pull(j) PROVE Down'
  BY <1>4 DEF Pull, May, Down
<1>5. ASSUME NEW j \in Job, ReleaseDependents(j) PROVE Down'
  BY <1>5 DEF ReleaseDependents, May, Down
<1>6. ASSUME NEW j \in Job, Fail(j) PROVE Down'
  BY <1>6 DEF Fail, May, Down
<1>7. ASSUME NEW j \in Job, Stall(j) PROVE Down'
  BY <1>7 DEF Stall, May, Down
<1>8. ASSUME NEW j \in Job, Delay(j) PROVE Down'
  BY <1>8 DEF Delay, May, Down
<1>9. ASSUME NEW j \in Job, Cancel(j) PROVE Down'
  BY <1>9 DEF Cancel, May, Down
<1>10. ASSUME NEW j \in Job, Discard(j) PROVE Down'
  BY <1>10 DEF Discard, May, Down
<1>11. ASSUME NEW j \in Job, NEW result \in BOOLEAN, Ack(j, result) PROVE Down'
  BY <1>11 DEF Ack, May, Down
<1>12. ASSUME NEW i \in DOMAIN calls, QueueOp(i) PROVE Down'
  BY <1>12, OnlyUp DEF QueueOp, Down
<1>13. ASSUME NEW i \in DOMAIN calls, QueueFull(i) PROVE Down'
  BY <1>13, OnlyUp DEF QueueFull, Down
<1>14. ASSUME NEW i \in DOMAIN calls, WriteNow(i) PROVE Down'
  BY <1>14, OnlyUp DEF WriteNow, Down
<1>15. ASSUME NEW i \in DOMAIN calls, WriteNowFails(i) PROVE Down'
  BY <1>15, OnlyUp DEF WriteNowFails, Down
<1>16. ASSUME NEW i \in DOMAIN calls, Place(i) PROVE Down'
  BY <1>16, OnlyUp DEF Place, Down
<1>17. CASE TakeBatch
  BY <1>17 DEF TakeBatch, May, Down
<1>18. CASE Commit
  BY <1>18 DEF Commit, May, Down
<1>19. CASE BatchFails
  BY <1>19 DEF BatchFails, May, Down
<1>20. CASE Stop
  BY <1>20 DEF Stop, May, Down
<1>21. CASE TakeLast
  BY <1>21 DEF TakeLast, May, Down
<1>22. CASE Stopped
  BY <1>22 DEF Stopped, May, Down
<1>23. CASE Exit
  BY <1>23 DEF Exit, Down
<1>24. CASE Recover
  BY <1>24 DEF Recover, Down
<1> QED BY <1>1, <1>2, <1>3, <1>4, <1>5, <1>6, <1>7, <1>8, <1>9, <1>10, <1>11, <1>12, <1>13,
          <1>14, <1>15, <1>16, <1>17, <1>18, <1>19, <1>20, <1>21, <1>22, <1>23, <1>24
       DEF Next, Operate, Serve, Write

\* Types and Down together are what holds first and is kept.
LEMMA TypesFirst ==
  ASSUME Init
  PROVE  Types /\ Down
<1>1. <<>> \in Seq(QueuedOp) /\ Len(<<>>) = 0 /\ <<>> \in Seq(Call) /\ <<>> \in Seq(DeadLetters)
      /\ <<>> \in Seq(Letters)
  OBVIOUS
<1>2. Empty \in Container /\ Empty \in [Job -> Row \cup {Nothing}]
  BY DEF Empty, Container
<1>3. 1 \in 1..(MaxId + 1) /\ 0 \in 0..MaxRestarts
  BY MaxIdIsNumber, BoundAssumption
<1>4. EngineTypes /\ CallTypes /\ WriterTypes
  BY <1>1, <1>2, <1>3, MaxIdIsNumber DEF Init, EngineTypes, CallTypes, WriterTypes
<1>5. db \in Tables
  BY <1>1, <1>2 DEF Init, Tables
<1>6. OtherTypes /\ Down
  BY <1>3 DEF Init, OtherTypes, Down
<1> QED BY <1>4, <1>5, <1>6 DEF Types

\* They say what TypeOK says.
LEMMA TypesAreOK ==
  ASSUME Types
  PROVE  TypeOK
<1>1. \A e \in ToSet(dlq) : e.job \in Job /\ e.copy \in Copy
  <2>1. \A n \in DOMAIN dlq : dlq[n] \in DeadLetters
    BY ElementOfSeq, LenProperties DEF Types, EngineTypes
  <2> QED BY <2>1 DEF ToSet, DeadLetters
<1>2. JobsOf(queue \o buffer) \subseteq Job
  <2>1. queue \o buffer \in Seq(Op)
    BY WriterOps, ConcatProperties
  <2>2. \A n \in DOMAIN (queue \o buffer) : (queue \o buffer)[n] \in Op
    BY <2>1, ElementOfSeq, LenProperties
  <2> QED BY <2>2, OpParts DEF JobsOf, ToSet
<1>3. \A r \in ToSet(db.dead) : r.job \in Job /\ r.attempts \in Nat
  <2>1. \A n \in DOMAIN db.dead : db.dead[n] \in Letters
    BY ElementOfSeq, LenProperties DEF Types, Tables
  <2> QED BY <2>1 DEF ToSet, Letters
<1>4. db.rows \in [Job -> Row \cup {Nothing}] /\ db.results \subseteq Job
  BY DEF Types, Tables
<1> QED BY <1>1, <1>2, <1>3, <1>4 DEF TypeOK, Types, EngineTypes, CallTypes, WriterTypes,
       OtherTypes

\* Every step keeps both.
LEMMA TypesAndDownKept ==
  ASSUME Types, Down, [Next]_vars
  PROVE  Types' /\ Down'
BY EngineTypesKept, CallTypesKept, WriterTypesKept, TablesKept, OtherTypesKept, DownKept DEF Types

\* The engine's copies, the writer, the calls and the tables keep their types, in
\* every behaviour and for every number of jobs, capacity and depth of calls.
THEOREM PersistenceTypeCorrect == Spec => []TypeOK
<1>1. Init => Types /\ Down
  BY TypesFirst
<1>2. (Types /\ Down) /\ [Next]_vars => (Types /\ Down)'
  BY TypesAndDownKept
<1>3. Types /\ Down => TypeOK
  BY TypesAreOK
<1> QED BY <1>1, <1>2, <1>3, PTL DEF Spec

-----------------------------------------------------------------------------
(* What becomes of the tables as they will be *)

Rest == IF TooLate THEN <<>> ELSE queue

\* What is accepted is a sequence of the writer's operations.
LEMMA AcceptedOps ==
  ASSUME Types
  PROVE  /\ Accepted \in Seq(QueuedOp) /\ Accepted \in Seq(Op)
         /\ Rest \in Seq(QueuedOp) /\ Rest \in Seq(Op)
         /\ Accepted = buffer \o Rest
         /\ Projected \in Tables /\ db \in Tables
<1>1. Rest \in Seq(QueuedOp) /\ Rest \in Seq(Op) /\ buffer \in Seq(QueuedOp) /\ buffer \in Seq(Op)
  BY WriterOps DEF Rest, Types, WriterTypes
<1>2. Accepted = buffer \o Rest
  BY DEF Accepted, Rest
<1>3. Accepted \in Seq(QueuedOp) /\ Accepted \in Seq(Op)
  BY <1>1, <1>2, ConcatProperties
<1>4. Projected \in Tables
  BY <1>3, ExecAllTables DEF Projected, Types
<1> QED BY <1>1, <1>2, <1>3, <1>4 DEF Types

\* The members of a sequence and of one put together.
LEMMA Members ==
  ASSUME NEW S, NEW s \in Seq(S), NEW t \in Seq(S)
  PROVE  /\ ToSet(s \o t) = ToSet(s) \cup ToSet(t)
         /\ ToSet(s) = {s[n] : n \in 1..Len(s)}
<1>1. /\ DOMAIN s = 1..Len(s) /\ DOMAIN t = 1..Len(t) /\ Len(s) \in Nat /\ Len(t) \in Nat
      /\ DOMAIN (s \o t) = 1..(Len(s) + Len(t))
      /\ \A i \in 1..(Len(s) + Len(t)) : (s \o t)[i] = IF i <= Len(s) THEN s[i] ELSE t[i - Len(s)]
  BY ConcatProperties, LenProperties
<1>2. ASSUME NEW x \in ToSet(s) PROVE x \in ToSet(s \o t)
  <2>1. PICK n \in 1..Len(s) : x = s[n]
    BY <1>1 DEF ToSet
  <2>2. (s \o t)[n] = x /\ n \in 1..(Len(s) + Len(t))
    BY <1>1, <2>1
  <2> QED BY <1>1, <2>2 DEF ToSet
<1>3. ASSUME NEW x \in ToSet(t) PROVE x \in ToSet(s \o t)
  <2>1. PICK n \in 1..Len(t) : x = t[n]
    BY <1>1 DEF ToSet
  <2>2. (s \o t)[Len(s) + n] = x /\ Len(s) + n \in 1..(Len(s) + Len(t))
    BY <1>1, <2>1
  <2> QED BY <1>1, <2>2 DEF ToSet
<1>4. ASSUME NEW x \in ToSet(s \o t) PROVE x \in ToSet(s) \cup ToSet(t)
  <2>1. PICK n \in 1..(Len(s) + Len(t)) : x = (s \o t)[n]
    BY <1>1 DEF ToSet
  <2>2. CASE n <= Len(s)
    BY <1>1, <2>1, <2>2 DEF ToSet
  <2>3. CASE n > Len(s)
    <3>1. n - Len(s) \in 1..Len(t) /\ x = t[n - Len(s)]
      BY <1>1, <2>1, <2>3
    <3> QED BY <1>1, <3>1 DEF ToSet
  <2> QED BY <1>1, <2>1, <2>2, <2>3
<1> QED BY <1>1, <1>2, <1>3, <1>4 DEF ToSet

\* The tables as they will be, and what is accepted, as a job sees them.
SameTables(j) ==
  /\ Agree(Projected', Projected, j)
  /\ \A op \in ToSet(Accepted') : op.job = j => op \in ToSet(Accepted)

\* A step that leaves the writer and its tables alone.
LEMMA NothingWritten ==
  ASSUME UNCHANGED writing
  PROVE  Accepted' = Accepted /\ Projected' = Projected
BY DEF writing, Accepted, Projected, TooLate

\* An operation that is queued is written after all others, or never.
LEMMA QueueOpProjects ==
  ASSUME Types, NEW i \in DOMAIN calls, QueueOp(i)
  PROVE  IF TooLate
         THEN Accepted' = Accepted /\ Projected' = Projected
         ELSE /\ Projected' = Exec(Projected, calls[i].op)
              /\ ToSet(Accepted') = ToSet(Accepted) \cup {calls[i].op}
<1>1. /\ calls[i].op \in Op /\ buffer \in Seq(Op) /\ queue \in Seq(Op)
      /\ Accepted \in Seq(Op)
  BY TypeParts, WriterOps, AcceptedOps
<1>2. CASE TooLate
  BY <1>2 DEF QueueOp, Accepted, Projected, TooLate
<1>3. CASE ~TooLate
  <2> DEFINE op == calls[i].op
  <2>1. queue' = Append(queue, op) /\ buffer' = buffer /\ writer' = writer /\ db' = db
    BY DEF QueueOp
  <2>2. Accepted = buffer \o queue /\ Accepted' = buffer \o Append(queue, op)
    BY <1>3, <2>1 DEF Accepted, TooLate
  <2> HIDE DEF op
  <2>3. op \in Op
    BY <1>1 DEF op
  <2>4. <<op>> \in Seq(Op) /\ Append(queue, op) = queue \o <<op>>
    BY <1>1, <2>3, AppendIsConcat
  <2>5. Accepted' = Accepted \o <<op>>
    BY <1>1, <2>2, <2>4, ConcatAssociative
  <2>6. Accepted' = Append(Accepted, op)
    BY <1>1, <2>3, <2>5, AppendIsConcat
  <2>7. Projected' = Exec(Projected, op)
    BY <1>1, <2>1, <2>3, <2>6, ExecAllAppend DEF Projected
  <2>8. ToSet(Accepted') = ToSet(Accepted) \cup {op}
    <3>1. DOMAIN <<op>> = {1} /\ <<op>>[1] = op
      OBVIOUS
    <3>2. ToSet(<<op>>) = {op}
      BY <3>1 DEF ToSet
    <3> DEFINE one == <<op>>
    <3>3. one \in Seq(Op) /\ Accepted' = Accepted \o one /\ ToSet(one) = {op}
      BY <2>4, <2>5, <3>2
    <3> HIDE DEF one
    <3> QED BY <1>1, <3>3, Members
  <2> QED BY <1>3, <2>7, <2>8 DEF op
<1> QED BY <1>2, <1>3

\* A write beside the queue comes before what is accepted.
LEMMA WriteNowProjects ==
  ASSUME Types, NEW i \in DOMAIN calls, WriteNow(i)
  PROVE  /\ Accepted' = Accepted
         /\ Projected' = ExecAll(Exec(db, calls[i].op), Accepted)
         /\ Exec(db, calls[i].op) \in Tables
         /\ \A j \in Job \ {calls[i].op.job} : SameTables(j)
<1>1. calls[i].op \in Op /\ db \in Tables /\ Accepted \in Seq(Op) /\ Exec(db, calls[i].op) \in Tables
  BY TypeParts, AcceptedOps, ExecDoes
<1>2. Accepted' = Accepted /\ Projected' = ExecAll(Exec(db, calls[i].op), Accepted)
  BY DEF WriteNow, Accepted, Projected, TooLate
<1>3. ASSUME NEW j \in Job \ {calls[i].op.job} PROVE SameTables(j)
  <2>1. Agree(Exec(db, calls[i].op), db, j)
    BY <1>1, ExecElsewhere
  <2>2. Agree(ExecAll(Exec(db, calls[i].op), Accepted), ExecAll(db, Accepted), j)
    BY <1>1, <2>1, ExecAllAlike
  <2> QED BY <1>2, <2>2 DEF SameTables, Projected
<1> QED BY <1>1, <1>2, <1>3

\* The writer takes operations from its queue.
LEMMA TakenIsAccepted ==
  ASSUME Types, TakeBatch \/ TakeLast \/ Stop \/ Stopped
  PROVE  Accepted' = Accepted /\ Projected' = Projected
<1>1. queue \in Seq(Op)
  BY WriterOps
<1>2. CASE TakeBatch
  <2> DEFINE n == IF Len(queue) < MaxBatch THEN Len(queue) ELSE MaxBatch
  <2>1. buffer' = SubSeq(queue, 1, n) /\ queue' = SubSeq(queue, n + 1, Len(queue))
    BY <1>2 DEF TakeBatch
  <2>2. buffer = <<>> /\ ~TooLate /\ ~TooLate' /\ db' = db
    BY <1>2 DEF TakeBatch, TakenOff, TooLate
  <2>3. MaxBatch \in Nat \ {0} /\ Len(queue) \in Nat
    BY <1>1, OptionAssumption, LenProperties DEF MaxBatch, Types, OtherTypes
  <2>4. n \in 0..Len(queue)
    BY <2>3
  <2> HIDE DEF n
  <2>5. SubSeq(queue, 1, n) \o SubSeq(queue, n + 1, Len(queue)) = SubSeq(queue, 1, Len(queue))
    <3>1. 1 \in 1..(Len(queue) + 1) /\ n \in (1 - 1)..Len(queue) /\ Len(queue) \in n..Len(queue)
      BY <2>3, <2>4
    <3> QED BY <1>1, <3>1, ConcatAdjacentSubSeq
  <2>6. buffer' \o queue' = queue
    BY <1>1, <2>1, <2>5, SubSeqFull
  <2>7. <<>> \o queue = queue
    BY <1>1, ConcatEmptySeq
  <2> QED BY <2>2, <2>6, <2>7 DEF Accepted, Projected
<1>3. CASE TakeLast
  <2>1. buffer = <<>> /\ ~TooLate /\ TooLate' /\ buffer' = queue /\ db' = db
    BY <1>3 DEF TakeLast, TooLate
  <2>2. <<>> \o queue = queue /\ queue \o <<>> = queue
    BY <1>1, ConcatEmptySeq
  <2> QED BY <2>1, <2>2 DEF Accepted, Projected
<1>4. CASE Stop \/ Stopped
  BY <1>4 DEF Stop, Stopped, Accepted, Projected, TooLate
<1> QED BY <1>2, <1>3, <1>4

\* A batch that is written is not accepted any more.
LEMMA CommitProjects ==
  ASSUME Types, Commit
  PROVE  Projected' = Projected /\ ToSet(Accepted') \subseteq ToSet(Accepted)
<1>1. buffer \in Seq(Op) /\ Rest \in Seq(Op) /\ Accepted = buffer \o Rest
  BY WriterOps, AcceptedOps
<1>2. db' = ExecAll(db, buffer) /\ Accepted' = <<>> \o Rest
  BY DEF Commit, Accepted, Rest, TooLate
<1>3. Accepted' = Rest
  BY <1>1, <1>2, ConcatEmptySeq
<1>4. Projected' = Projected
  BY <1>1, <1>2, <1>3, ExecAllConcat DEF Projected
<1> QED BY <1>1, <1>3, <1>4, Members

\* A batch that is lost is missed only by its own jobs.
LEMMA BatchFailsProjects ==
  ASSUME Types, BatchFails, NEW j \in Job \ JobsOf(buffer)
  PROVE  SameTables(j)
<1>1. buffer \in Seq(Op) /\ Rest \in Seq(Op) /\ Accepted = buffer \o Rest /\ db \in Tables
  BY WriterOps, AcceptedOps
<1>2. db' = db /\ Accepted' = <<>> \o Rest
  BY DEF BatchFails, Accepted, Rest, TooLate
<1>3. Accepted' = Rest
  BY <1>1, <1>2, ConcatEmptySeq
<1>4. \A n \in 1..Len(buffer) : buffer[n].job # j
  BY <1>1, LenProperties DEF JobsOf, ToSet
<1>5. Agree(db, ExecAll(db, buffer), j)
  BY <1>1, <1>4, ExecAllElsewhere DEF Agree
<1>6. ExecAll(db, buffer) \in Tables
  BY <1>1, ExecAllTables
<1>7. Agree(ExecAll(db, Rest), ExecAll(ExecAll(db, buffer), Rest), j)
  BY <1>1, <1>5, <1>6, ExecAllAlike
<1>8. Projected = ExecAll(ExecAll(db, buffer), Rest) /\ Projected' = ExecAll(db, Rest)
  BY <1>1, <1>2, <1>3, ExecAllConcat DEF Projected
<1>9. ToSet(Accepted') \subseteq ToSet(Accepted)
  BY <1>1, <1>3, Members
<1> QED BY <1>7, <1>8, <1>9 DEF SameTables

\* A new process finds the tables as they are.
LEMMA RecoverProjects ==
  ASSUME Types, Down, Recover
  PROVE  Projected' = db /\ ToSet(Accepted') = {}
<1>1. buffer' = <<>> /\ queue' = <<>> /\ db' = db
  BY DEF Recover, Down, writing
<1>2. <<>> \in Seq(Op) /\ ToSet(<<>>) = {}
  BY DEF ToSet
<1>3. Accepted' = <<>>
  BY <1>1, <1>2, ConcatEmptySeq DEF Accepted
<1>4. ExecAll(db, <<>>) = db
  <2>1. CancelOp \subseteq Op /\ [kind |-> "cancel", job |-> 1] \in CancelOp
    BY MaxIdIsNumber DEF Op, QueuedOp, CancelOp, Job
  <2> QED BY <2>1, ExecAllOne
<1> QED BY <1>1, <1>2, <1>3, <1>4 DEF Projected

-----------------------------------------------------------------------------
(* A job that a step does not touch *)

About(j) == {c \in Call : c.op.job = j}
Hands(j) == {c \in Call : c.op.job = j /\ c.next # "return"}
Erasers(j) == {c \in Call : c.op.job = j /\ Erases(c.op)}
Burials(j) == {c \in Call : c.op.job = j /\ c.op.kind = "dead" /\ c.stage # "written"}

SameEngine(j) ==
  /\ queued'[j] = queued[j] /\ active'[j] = active[j] /\ waiting'[j] = waiting[j]
  /\ Entries(dlq', j) = Entries(dlq, j) /\ nextId <= nextId'
SameCalls(j) ==
  /\ \A S : S \subseteq About(j) => Count(calls', S) = Count(calls, S)
  /\ \A c \in ToSet(calls') : c \in About(j) => c \in ToSet(calls)
  /\ InsertsFirst(calls, j) => InsertsFirst(calls', j)
Lasting == up' = up /\ dropped \subseteq dropped' /\ strayed \subseteq strayed'
SameJob(j) == SameEngine(j) /\ SameCalls(j) /\ SameTables(j) /\ Lasting

\* What is counted are numbers.
LEMMA Numbers ==
  ASSUME Types
  PROVE  /\ \A S : Count(calls, S) \in Nat
         /\ \A j : Entries(dlq, j) \in Nat /\ Entries(Projected.dead, j) \in Nat
         /\ nextId \in Nat
<1>1. calls \in Seq(Call) /\ dlq \in Seq(DeadLetters)
  BY DEF Types, CallTypes, EngineTypes
<1>2. Projected.dead \in Seq(Letters)
  BY AcceptedOps DEF Tables
<1>3. nextId \in Nat
  BY TypeParts
<1> QED BY <1>1, <1>2, <1>3, CountIsNumber, EntriesCount

\* A call in the calls is counted.
LEMMA Counted ==
  ASSUME Types, NEW i \in DOMAIN calls, NEW S, calls[i] \in S
  PROVE  Count(calls, S) > 0
<1>1. calls \in Seq(Call)
  BY DEF Types, CallTypes
<1>2. Count(calls, S) \in Nat /\ (Count(calls, S) = 0 <=> \A n \in DOMAIN calls : calls[n] \notin S)
  BY <1>1, CountIsNumber
<1> QED BY <1>2

\* A call about another job.
LEMMA AddedElsewhere ==
  ASSUME Types, NEW j, NEW c \in Call, c.op.job # j, Added(c)
  PROVE  SameCalls(j)
<1>1. c \notin About(j) /\ c \notin Inserts(j)
  BY DEF About, Inserts
<1> QED BY <1>1, Numbers DEF Added, SameCalls

\* The end of a call about another job.
LEMMA EndedElsewhere ==
  ASSUME Types, NEW j, NEW i \in DOMAIN calls, calls[i].op.job # j, Ended(i)
  PROVE  SameCalls(j)
<1>1. calls[i] \notin About(j)
  BY DEF About
<1> QED BY <1>1, Numbers DEF Ended, SameCalls

\* Another stage of a call about another job.
LEMMA MovedElsewhere ==
  ASSUME Types, NEW j, NEW i \in DOMAIN calls, calls[i].op.job # j,
         NEW stage, Moved(i, At(calls[i], stage))
  PROVE  SameCalls(j)
<1> DEFINE c == At(calls[i], stage)
<1>1. c.op = calls[i].op
  BY TypeParts DEF At, Call
<1>2. calls[i] \notin About(j) /\ c \notin About(j)
  BY <1>1 DEF About
<1> HIDE DEF c
<1>3. Moved(i, c)
  BY DEF c
<1> QED BY <1>2, <1>3, Numbers DEF Moved, SameCalls

\* The same of a call that was served.
LEMMA ServedElsewhere ==
  ASSUME Types, NEW j, NEW i \in DOMAIN calls, calls[i].op.job # j, Served(i)
  PROVE  SameCalls(j)
<1>1. CASE calls[i].next = "return"
  BY <1>1, CallServed, EndedElsewhere DEF Types
<1>2. CASE calls[i].next # "return"
  BY <1>2, CallServed, MovedElsewhere DEF Types
<1> QED BY <1>1, <1>2

\* Calls that stay as they are, and tables that do.
LEMMA SameUnchanged ==
  ASSUME Types, NEW j
  PROVE  /\ calls' = calls => SameCalls(j)
         /\ Accepted' = Accepted /\ Projected' = Projected => SameTables(j)
BY DEF SameCalls, SameTables, Agree

\* A discarded job has one letter more.
LEMMA DiscardBuries ==
  ASSUME Types, NEW j \in Job, Discard(j)
  PROVE  \A k : Entries(dlq', k) = Entries(dlq, k) + (IF k = j THEN 1 ELSE 0)
<1>1. PICK c \in {queued, active} : Holds(c, j) /\ dlq' = Append(dlq, DeadLetter(j, c[j]))
  BY DEF Discard
<1>2. c[j] \in Copy
  BY <1>1, TypeParts DEF Container, Holds
<1> DEFINE e == DeadLetter(j, c[j])
<1>3. e \in DeadLetters /\ e.job = j
  BY <1>2 DEF DeadLetter, DeadLetters
<1> HIDE DEF e
<1>4. dlq' = Append(dlq, e) /\ dlq \in Seq(DeadLetters)
  BY <1>1 DEF e, Types, EngineTypes
<1> QED BY <1>3, <1>4, EntriesAppend

\* The steps of the engine leave the other jobs alone.
LEMMA EngineSpares ==
  ASSUME Types, NEW j \in Job, NEW k \in Job \ {j},
         \/ (Push /\ j = nextId) \/ Pull(j) \/ ReleaseDependents(j) \/ Fail(j) \/ Stall(j)
         \/ Delay(j) \/ Cancel(j) \/ Discard(j) \/ \E result \in BOOLEAN : Ack(j, result)
  PROVE  SameJob(k)
<1>1. SameTables(k)
  <2>1. UNCHANGED writing
    BY DEF Push, Pull, ReleaseDependents, Fail, Stall, Delay, Cancel, Discard, Ack
  <2> QED BY <2>1, NothingWritten, SameUnchanged
<1>2. Lasting
  BY DEF Push, Pull, ReleaseDependents, Fail, Stall, Delay, Cancel, Discard, Ack, history, Lasting
<1>3. SameCalls(k)
  <2>1. CASE calls' = calls
    BY <2>1, SameUnchanged
  <2>2. ASSUME NEW c \in Call, c.op.job = j, Added(c) PROVE SameCalls(k)
    BY <2>2, AddedElsewhere
  <2>3. CASE Push /\ j = nextId
    <3>1. PICK copy \in Copy, state \in {"waiting", "waiting_children"} :
            /\ New(InsertJob(j, copy, state), "return", Nothing) \in Call
            /\ Added(New(InsertJob(j, copy, state), "return", Nothing))
      BY <2>3, PushIssues
    <3>2. New(InsertJob(j, copy, state), "return", Nothing).op.job = j
      BY DEF New, InsertJob
    <3> QED BY <2>2, <3>1, <3>2
  <2>4. CASE Fail(j)
    <3>1. PICK copy \in Copy :
              \/ /\ New(FailJob(j, copy.attempts), "queue", copy) \in Call
                 /\ Added(New(FailJob(j, copy.attempts), "queue", copy))
              \/ /\ New(MoveToDlq(j, copy.attempts), "dlq", copy) \in Call
                 /\ Added(New(MoveToDlq(j, copy.attempts), "dlq", copy))
              \/ calls' = calls
      BY <2>4, FailIssues
    <3>2. /\ New(FailJob(j, copy.attempts), "queue", copy).op.job = j
          /\ New(MoveToDlq(j, copy.attempts), "dlq", copy).op.job = j
      BY DEF New, FailJob, MoveToDlq
    <3> QED BY <2>1, <2>2, <3>1, <3>2
  <2>5. CASE Stall(j)
    <3>1. New(MoveToDlq(j, active[j].attempts), "dlq", active[j]).op.job = j
      BY DEF New, MoveToDlq
    <3> QED BY <2>2, <2>5, <3>1, StallIssues
  <2>6. CASE Delay(j)
    <3>1. New(MoveToDelayed(j), "queue", active[j]).op.job = j
      BY DEF New, MoveToDelayed
    <3> QED BY <2>2, <2>6, <3>1, DelayIssues
  <2>7. New(CancelJob(j), "return", Nothing).op.job = j
        /\ New(DiscardJob(j), "return", Nothing).op.job = j
        /\ \A result \in BOOLEAN : New(AckJob(j, result), "return", Nothing).op.job = j
    BY DEF New, CancelJob, DiscardJob, AckJob
  <2>8. CASE Cancel(j)
    BY <2>2, <2>7, <2>8, CancelIssues
  <2>9. CASE Discard(j)
    BY <2>2, <2>7, <2>9, DiscardIssues
  <2>10. ASSUME NEW result \in BOOLEAN, Ack(j, result) PROVE SameCalls(k)
    BY <2>2, <2>7, <2>10, AckIssues
  <2>11. CASE Pull(j) \/ ReleaseDependents(j)
    BY <2>1, <2>11 DEF Pull, ReleaseDependents
  <2> QED BY <2>3, <2>4, <2>5, <2>6, <2>8, <2>9, <2>10, <2>11
<1>4. SameEngine(k)
  <2>1. nextId \in Nat /\ queued \in Container /\ active \in Container /\ waiting \in Container
        /\ dlq \in Seq(DeadLetters)
    BY TypeParts DEF Types, EngineTypes
  <2>2. \A c \in Container : \A copy : Put(c, j, copy)[k] = c[k] /\ Without(c, j)[k] = c[k]
    BY DEF Put, Without, Container
  <2>3. queued'[k] = queued[k] /\ active'[k] = active[k] /\ waiting'[k] = waiting[k]
    BY <2>1, <2>2
       DEF Push, Pull, ReleaseDependents, Fail, Stall, Delay, Cancel, Discard, Ack
  <2>4. nextId <= nextId'
    BY <2>1 DEF Push, Pull, ReleaseDependents, Fail, Stall, Delay, Cancel, Discard, Ack
  <2>5. Entries(dlq', k) = Entries(dlq, k)
    <3>1. CASE dlq' = dlq
      BY <3>1
    <3>2. CASE Discard(j)
      BY <3>2, DiscardBuries, Numbers
    <3> QED BY <3>1, <3>2 DEF Push, Pull, ReleaseDependents, Fail, Stall, Delay, Cancel, Ack
  <2> QED BY <2>3, <2>4, <2>5 DEF SameEngine
<1> QED BY <1>1, <1>2, <1>3, <1>4 DEF SameJob

\* A call that ends in the dead letters puts one there.
LEMMA PlaceBuries ==
  ASSUME Types, NEW i \in DOMAIN calls, Place(i), calls[i].next # "queue"
  PROVE  \A k : Entries(dlq', k) = Entries(dlq, k) + (IF k = calls[i].op.job THEN 1 ELSE 0)
<1> DEFINE e == DeadLetter(calls[i].op.job, calls[i].copy)
<1>1. calls[i].next # "return"
  BY TypeParts DEF Place
<1>2. e \in DeadLetters /\ e.job = calls[i].op.job
  BY <1>1, TypeParts DEF DeadLetter, DeadLetters
<1>3. dlq' = Append(dlq, e)
  BY DEF Place
<1> HIDE DEF e
<1>4. dlq \in Seq(DeadLetters)
  BY DEF Types, EngineTypes
<1> QED BY <1>2, <1>3, <1>4, EntriesAppend

\* A call that is served, refused or ended leaves the other jobs alone.
LEMMA ServeSpares ==
  ASSUME Types, NEW i \in DOMAIN calls, NEW k \in Job \ {calls[i].op.job},
         QueueOp(i) \/ QueueFull(i) \/ WriteNow(i) \/ WriteNowFails(i) \/ Place(i)
  PROVE  SameJob(k)
<1> DEFINE j == calls[i].op.job
<1>1. j \in Job /\ j # k /\ calls[i].op \in Op
  BY TypeParts
<1>2. SameTables(k)
  <2>1. CASE UNCHANGED writing
    BY <2>1, NothingWritten, SameUnchanged
  <2>2. CASE QueueOp(i)
    <3>1. CASE TooLate
      BY <2>2, <3>1, QueueOpProjects, SameUnchanged
    <3>2. CASE ~TooLate
      <4>1. Projected' = Exec(Projected, calls[i].op)
            /\ ToSet(Accepted') = ToSet(Accepted) \cup {calls[i].op}
        BY <2>2, <3>2, QueueOpProjects
      <4>2. Agree(Exec(Projected, calls[i].op), Projected, k)
        BY <1>1, AcceptedOps, ExecElsewhere
      <4> QED BY <1>1, <4>1, <4>2 DEF SameTables
    <3> QED BY <3>1, <3>2
  <2>3. CASE WriteNow(i)
    BY <2>3, WriteNowProjects
  <2> QED BY <2>1, <2>2, <2>3 DEF QueueFull, WriteNowFails, Place
<1>3. Lasting
  BY DEF QueueOp, QueueFull, WriteNow, WriteNowFails, Place, Straying, history, Lasting
<1>4. SameCalls(k)
  <2>1. CASE Served(i)
    BY <1>1, <2>1, ServedElsewhere
  <2>2. CASE calls' = RemoveAt(calls, i)
    BY <1>1, <2>2, CallEnded, EndedElsewhere DEF Types
  <2>3. CASE QueueFull(i)
    <3>1. At(calls[i], "refused") \in Call
      BY <2>3, TypeParts DEF QueueFull, Queueable, At, Call
    <3>2. Moved(i, At(calls[i], "refused"))
      BY <2>3, <3>1, CallMoved DEF QueueFull, Types
    <3> QED BY <1>1, <3>2, MovedElsewhere
  <2> QED BY <2>1, <2>2, <2>3 DEF QueueOp, WriteNow, WriteNowFails, Place
<1>5. SameEngine(k)
  <2>1. nextId \in Nat /\ queued \in Container /\ waiting \in Container
    BY TypeParts
  <2>2. \A c \in Container : \A copy : Put(c, j, copy)[k] = c[k] /\ Without(c, j)[k] = c[k]
    BY <1>1 DEF Put, Without, Container
  <2>3. CASE UNCHANGED engine
    BY <2>1, <2>3 DEF engine, SameEngine
  <2>4. CASE WriteNowFails(i)
    <3>1. queued' = queued \/ queued' = Without(queued, j)
      BY <2>4 DEF WriteNowFails
    <3>2. waiting' = waiting \/ waiting' = Without(waiting, j)
      BY <2>4 DEF WriteNowFails
    <3>3. active' = active /\ dlq' = dlq /\ nextId' = nextId
      BY <2>4 DEF WriteNowFails
    <3> HIDE DEF j
    <3> QED BY <2>1, <2>2, <3>1, <3>2, <3>3 DEF SameEngine
  <2>5. CASE Place(i)
    <3>1. queued' = queued \/ queued' = Put(queued, j, calls[i].copy)
      BY <2>5 DEF Place
    <3>2. active' = active /\ waiting' = waiting /\ nextId' = nextId
      BY <2>5 DEF Place
    <3>3. Entries(dlq', k) = Entries(dlq, k)
      <4>1. CASE dlq' = dlq
        BY <4>1
      <4>2. CASE calls[i].next # "queue"
        BY <1>1, <2>5, <4>2, PlaceBuries, Numbers
      <4> QED BY <2>5, <4>1, <4>2 DEF Place
    <3> HIDE DEF j
    <3> QED BY <2>1, <2>2, <3>1, <3>2, <3>3 DEF SameEngine
  <2> QED BY <2>3, <2>4, <2>5 DEF QueueOp, QueueFull, WriteNow
<1> QED BY <1>2, <1>3, <1>4, <1>5 DEF SameJob

\* A step of the writer changes nothing for a job, unless it loses a write of it.
LEMMA WriteSpares ==
  ASSUME Types, Write, NEW k \in Job \ dropped'
  PROVE  SameJob(k)
<1>1. SameTables(k)
  <2>1. CASE TakeBatch \/ TakeLast \/ Stop \/ Stopped
    BY <2>1, TakenIsAccepted, SameUnchanged
  <2>2. CASE Commit
    BY <2>2, CommitProjects DEF SameTables, Agree
  <2>3. CASE BatchFails
    <3>1. k \notin JobsOf(buffer)
      BY <2>3 DEF BatchFails
    <3> QED BY <2>3, <3>1, BatchFailsProjects
  <2> QED BY <2>1, <2>2, <2>3 DEF Write
<1>2. Lasting
  BY DEF Write, TakeBatch, Commit, BatchFails, Stop, TakeLast, Stopped, history, Lasting
<1>3. SameCalls(k)
  BY SameUnchanged DEF Write, TakeBatch, Commit, BatchFails, Stop, TakeLast, Stopped
<1>4. SameEngine(k)
  BY TypeParts DEF Write, TakeBatch, Commit, BatchFails, Stop, TakeLast, Stopped, engine,
         SameEngine
<1> QED BY <1>1, <1>2, <1>3, <1>4 DEF SameJob

\* A step that changes nothing.
LEMMA StutterSpares ==
  ASSUME Types, UNCHANGED vars, NEW k \in Job
  PROVE  SameJob(k)
<1>1. SameTables(k)
  BY NothingWritten, SameUnchanged DEF vars
<1>2. SameCalls(k)
  BY SameUnchanged DEF vars
<1> QED BY <1>1, <1>2, TypeParts DEF vars, engine, history, SameEngine, Lasting, SameJob

-----------------------------------------------------------------------------
(* No live job is lost *)

In(container, j) == IF Holds(container, j) THEN 1 ELSE 0

\* The copies of a job that the engine has, in whatever place or hands.
Copies(j) ==
  In(queued, j) + In(active, j) + In(waiting, j) + Count(calls, Hands(j)) + Entries(dlq, j)

\* The next restart cannot find the job among the dead letters.
Exposed(j) == up /\ j \notin dropped /\ ~Buried(Projected, j)

OneCopy(j) == Copies(j) <= 1
NotErased(j) ==
  Copies(j) > 0 =>
    /\ Count(calls, Erasers(j)) = 0
    /\ \A op \in ToSet(Accepted) : op.job = j => ~Erases(op)
RowToCome(j) ==
  Copies(j) > 0 =>
    HasRow(Projected, j) \/ Count(calls, Inserts(j)) > 0 \/ Count(calls, Burials(j)) > 0
Unissued(j) ==
  nextId <= j =>
    /\ Copies(j) = 0 /\ Count(calls, About(j)) = 0
    /\ \A op \in ToSet(Accepted) : op.job # j

\* A job that is exposed has one copy at most; while it has one, nothing erases its
\* row and the row is there or on its way.  Of an id not given out there is nothing.
Live(j) == Exposed(j) => OneCopy(j) /\ NotErased(j) /\ RowToCome(j) /\ Unissued(j)
LiveJobs == \A j \in Job : Live(j)

\* The sets a job's calls are counted in.
LEMMA CallSets ==
  ASSUME NEW j
  PROVE  /\ Hands(j) \subseteq About(j) /\ Erasers(j) \subseteq About(j)
         /\ Inserts(j) \subseteq About(j) /\ Burials(j) \subseteq About(j)
         /\ Others(j) \subseteq About(j)
         /\ \A c \in Call :
              /\ c \in About(j) <=> c.op.job = j
              /\ c \in Hands(j) <=> c.op.job = j /\ c.next # "return"
              /\ c \in Erasers(j) <=> c.op.job = j /\ Erases(c.op)
              /\ c \in Inserts(j) <=> c.op.job = j /\ c.op.kind = "insert"
              /\ c \in Burials(j) <=> c.op.job = j /\ c.op.kind = "dead" /\ c.stage # "written"
              /\ c \in Others(j) <=> c.op.job = j /\ c.op.kind # "insert"
BY DEF Hands, Erasers, Inserts, Burials, Others, About

\* The copies in numbers.
LEMMA CopiesAreNumber ==
  ASSUME Types, NEW j \in Job
  PROVE  /\ Copies(j) \in Nat
         /\ In(queued, j) \in 0..1 /\ In(active, j) \in 0..1 /\ In(waiting, j) \in 0..1
         /\ Count(calls, Hands(j)) \in Nat /\ Entries(dlq, j) \in Nat
BY Numbers DEF Copies, In

\* The counter before and after a step.
LEMMA NextIdNumbers ==
  ASSUME Types, Types'
  PROVE  nextId \in 1..(MaxId + 1) /\ nextId' \in 1..(MaxId + 1) /\ MaxId \in Nat
BY MaxIdIsNumber DEF Types, EngineTypes

\* A job that a step does not touch lives on.
LEMMA SameJobLives ==
  ASSUME Types, Types', NEW j \in Job, SameJob(j), Live(j)
  PROVE  Live(j)'
<1>1. SUFFICES ASSUME Exposed(j)'
               PROVE  OneCopy(j)' /\ NotErased(j)' /\ RowToCome(j)' /\ Unissued(j)'
  BY DEF Live
<1>2. /\ Projected'.rows[j] = Projected.rows[j]
      /\ Entries(Projected'.dead, j) = Entries(Projected.dead, j)
      /\ \A op \in ToSet(Accepted') : op.job = j => op \in ToSet(Accepted)
  BY DEF SameJob, SameTables, Agree
<1>3. OneCopy(j) /\ NotErased(j) /\ RowToCome(j) /\ Unissued(j)
  BY <1>1, <1>2 DEF Live, Exposed, Buried, SameJob, Lasting
<1>4. /\ Count(calls', Hands(j)) = Count(calls, Hands(j))
      /\ Count(calls', Erasers(j)) = Count(calls, Erasers(j))
      /\ Count(calls', Inserts(j)) = Count(calls, Inserts(j))
      /\ Count(calls', Burials(j)) = Count(calls, Burials(j))
      /\ Count(calls', About(j)) = Count(calls, About(j))
  BY CallSets DEF SameJob, SameCalls
<1>5. Copies(j)' = Copies(j)
  BY <1>4 DEF SameJob, SameEngine, Copies, In, Holds
<1>6. nextId' <= j => nextId <= j
  BY NextIdNumbers DEF SameJob, SameEngine, Job
<1>7. OneCopy(j)'
  BY <1>3, <1>5 DEF OneCopy
<1>8. NotErased(j)'
  BY <1>2, <1>3, <1>4, <1>5 DEF NotErased
<1>9. RowToCome(j)'
  BY <1>2, <1>3, <1>4, <1>5 DEF RowToCome, HasRow
<1>10. Unissued(j)'
  BY <1>2, <1>3, <1>4, <1>5, <1>6 DEF Unissued
<1> QED BY <1>7, <1>8, <1>9, <1>10

\* A step of the engine writes nothing, so a job exposed after it was so before.
LEMMA StillExposed ==
  ASSUME NEW j \in Job, UNCHANGED writing, Lasting, Live(j), Exposed(j)'
  PROVE  /\ OneCopy(j) /\ NotErased(j) /\ RowToCome(j) /\ Unissued(j)
         /\ Projected' = Projected /\ Accepted' = Accepted
<1>1. Projected' = Projected /\ Accepted' = Accepted
  BY NothingWritten
<1>2. Exposed(j)
  BY <1>1 DEF Exposed, Buried, Lasting
<1> QED BY <1>1, <1>2 DEF Live

\* A container with and without a job.
LEMMA InContainer ==
  ASSUME NEW c \in Container, NEW j \in Job
  PROVE  /\ In(c, j) \in 0..1 /\ (In(c, j) = 1 <=> Holds(c, j))
         /\ In(Without(c, j), j) = 0
         /\ \A copy \in Copy : In(Put(c, j, copy), j) = 1
BY NothingIsNothing DEF In, Holds, Without, Put, Container

\* The job pushed is new: nothing is known of it, and now its insert is on its way.
LEMMA PushLives ==
  ASSUME Types, Types', Push, NEW j \in Job, j = nextId, Live(j)
  PROVE  Live(j)'
<1>1. SUFFICES ASSUME Exposed(j)'
               PROVE  OneCopy(j)' /\ NotErased(j)' /\ RowToCome(j)' /\ Unissued(j)'
  BY DEF Live
<1>2. /\ Unissued(j) /\ Projected' = Projected /\ Accepted' = Accepted
  BY <1>1, StillExposed DEF Push, history, Lasting
<1>3. PICK copy \in Copy, state \in {"waiting", "waiting_children"} :
        /\ New(InsertJob(j, copy, state), "return", Nothing) \in Call
        /\ Added(New(InsertJob(j, copy, state), "return", Nothing))
        /\ \/ queued' = Put(queued, j, copy) /\ waiting' = waiting
           \/ waiting' = Put(waiting, j, copy) /\ queued' = queued
  BY PushIssues
<1> DEFINE c == New(InsertJob(j, copy, state), "return", Nothing)
<1>4. c.op.job = j /\ c.op.kind = "insert" /\ c.next = "return" /\ c \in Call /\ Added(c)
  BY <1>3 DEF New, InsertJob
<1> HIDE DEF c
<1>5. /\ c \notin Hands(j) /\ c \notin Erasers(j) /\ c \in Inserts(j)
  BY <1>4, CallSets DEF Erases
<1>6. Copies(j) = 0 /\ Count(calls, About(j)) = 0 /\ \A op \in ToSet(Accepted) : op.job # j
  BY <1>2, TypeParts DEF Unissued
<1>7. Count(calls, Erasers(j)) = 0 /\ Count(calls, Inserts(j)) \in Nat
  <2>1. calls \in Seq(Call)
    BY DEF Types, CallTypes
  <2>2. Count(calls, Erasers(j)) <= Count(calls, About(j)) /\ Count(calls, Erasers(j)) \in Nat
    BY <2>1, CallSets, CountSubset, Numbers
  <2> QED BY <1>6, <2>2, Numbers
<1>8. /\ Count(calls', Hands(j)) = Count(calls, Hands(j))
      /\ Count(calls', Erasers(j)) = 0 /\ Count(calls', Inserts(j)) > 0
  BY <1>4, <1>5, <1>7, Numbers DEF Added
<1>9. Copies(j)' = 1
  <2>1. In(queued, j) = 0 /\ In(active, j) = 0 /\ In(waiting, j) = 0
        /\ Count(calls, Hands(j)) = 0 /\ Entries(dlq, j) = 0
    BY <1>6, CopiesAreNumber DEF Copies
  <2>2. active' = active /\ dlq' = dlq
    BY DEF Push
  <2>3. In(queued', j) + In(waiting', j) = 1
    BY <1>3, <2>1, TypeParts, InContainer
  <2>4. In(queued', j) \in 0..1 /\ In(waiting', j) \in 0..1
    BY DEF In
  <2> QED BY <1>8, <2>1, <2>2, <2>3, <2>4 DEF Copies
<1>10. nextId' > j
  BY NextIdNumbers DEF Push
<1>11. OneCopy(j)' /\ NotErased(j)'
  BY <1>2, <1>6, <1>8, <1>9 DEF OneCopy, NotErased
<1>12. RowToCome(j)'
  BY <1>8 DEF RowToCome
<1>13. Unissued(j)'
  BY <1>10, NextIdNumbers DEF Unissued, Job
<1> QED BY <1>11, <1>12, <1>13

\* The job moves from one container to another.
LEMMA MoveLives ==
  ASSUME Types, Types', NEW j \in Job, Pull(j) \/ ReleaseDependents(j), Live(j)
  PROVE  Live(j)'
<1>1. SUFFICES ASSUME Exposed(j)'
               PROVE  OneCopy(j)' /\ NotErased(j)' /\ RowToCome(j)' /\ Unissued(j)'
  BY DEF Live
<1>2. /\ OneCopy(j) /\ NotErased(j) /\ RowToCome(j) /\ Unissued(j)
      /\ Projected' = Projected /\ Accepted' = Accepted
  BY <1>1, StillExposed DEF Pull, ReleaseDependents, history, Lasting
<1>3. calls' = calls /\ dlq' = dlq /\ nextId' = nextId
  BY DEF Pull, ReleaseDependents
<1>4. In(queued', j) + In(active', j) + In(waiting', j)
        = In(queued, j) + In(active, j) + In(waiting, j)
  <2>1. CASE Pull(j)
    <3>1. queued[j] \in Copy /\ Holds(queued, j)
      BY <2>1, TypeParts DEF Pull, Container, Holds
    <3>2. In(queued', j) = 0 /\ In(active', j) = 1 /\ waiting' = waiting /\ In(queued, j) = 1
      BY <2>1, <3>1, TypeParts, InContainer DEF Pull
    <3>3. In(active, j) = 0
      BY <1>2, <3>2, CopiesAreNumber DEF OneCopy, Copies
    <3> QED BY <3>2, <3>3, CopiesAreNumber
  <2>2. CASE ReleaseDependents(j)
    <3>1. waiting[j] \in Copy /\ Holds(waiting, j)
      BY <2>2, TypeParts DEF ReleaseDependents, Container, Holds
    <3>2. In(waiting', j) = 0 /\ In(queued', j) = 1 /\ active' = active /\ In(waiting, j) = 1
      BY <2>2, <3>1, TypeParts, InContainer DEF ReleaseDependents
    <3>3. In(queued, j) = 0
      BY <1>2, <3>2, CopiesAreNumber DEF OneCopy, Copies
    <3> QED BY <3>2, <3>3, CopiesAreNumber
  <2> QED BY <2>1, <2>2
<1>5. Copies(j)' = Copies(j)
  <2>1. In(queued', j) \in 0..1 /\ In(active', j) \in 0..1 /\ In(waiting', j) \in 0..1
    BY DEF In
  <2> QED BY <1>3, <1>4, <2>1, CopiesAreNumber DEF Copies
<1> QED BY <1>2, <1>3, <1>5 DEF OneCopy, NotErased, RowToCome, Unissued

\* The job is taken from the running ones into the hands of a call.
LEMMA TakenLives ==
  ASSUME Types, Types', NEW j \in Job, Holds(active, j), active' = Without(active, j),
         NEW c \in Call, Added(c), c.op.job = j, c.next # "return",
         c.op.kind \in {"fail", "dead", "delay"},
         UNCHANGED <<queued, waiting, dlq, nextId, writing>>, Lasting, Live(j)
  PROVE  Live(j)'
<1>1. SUFFICES ASSUME Exposed(j)'
               PROVE  OneCopy(j)' /\ NotErased(j)' /\ RowToCome(j)' /\ Unissued(j)'
  BY DEF Live
<1>2. /\ OneCopy(j) /\ NotErased(j) /\ RowToCome(j) /\ Unissued(j)
      /\ Projected' = Projected /\ Accepted' = Accepted
  BY <1>1, StillExposed DEF writing
<1>3. c \in Hands(j) /\ c \notin Erasers(j) /\ c \notin Inserts(j)
  BY CallSets DEF Erases
<1>4. /\ Count(calls', Hands(j)) = Count(calls, Hands(j)) + 1
      /\ Count(calls', Erasers(j)) = Count(calls, Erasers(j))
      /\ Count(calls', Inserts(j)) = Count(calls, Inserts(j))
      /\ Count(calls', Burials(j)) >= Count(calls, Burials(j))
      /\ Count(calls, Burials(j)) \in Nat /\ Count(calls', Burials(j)) \in Nat
  BY <1>3, Numbers DEF Added
<1>5. In(active, j) = 1 /\ In(active', j) = 0
  BY TypeParts, InContainer
<1>6. Copies(j)' = Copies(j) /\ Copies(j) > 0
  BY <1>4, <1>5, CopiesAreNumber DEF Copies
<1>7. RowToCome(j)'
  BY <1>2, <1>4, <1>6 DEF RowToCome
<1>8. Unissued(j)'
  BY <1>2, <1>6 DEF Unissued
<1> QED BY <1>2, <1>4, <1>6, <1>7, <1>8 DEF OneCopy, NotErased

\* A job that ended: the engine has no copy of it any more.
LEMMA EndedLives ==
  ASSUME Types, Types', NEW j \in Job, NEW in \in {queued, active, waiting}, Holds(in, j),
         \/ in = queued /\ queued' = Without(queued, j) /\ UNCHANGED <<active, waiting>>
         \/ in = active /\ active' = Without(active, j) /\ UNCHANGED <<queued, waiting>>
         \/ in = waiting /\ waiting' = Without(waiting, j) /\ UNCHANGED <<queued, active>>,
         Count(calls', Hands(j)) = Count(calls, Hands(j)),
         UNCHANGED <<dlq, nextId, writing>>, Lasting, Live(j)
  PROVE  Live(j)'
<1>1. SUFFICES ASSUME Exposed(j)'
               PROVE  OneCopy(j)' /\ NotErased(j)' /\ RowToCome(j)' /\ Unissued(j)'
  BY DEF Live
<1>2. OneCopy(j) /\ Unissued(j)
  BY <1>1, StillExposed DEF writing
<1>3. In(in, j) = 1
  BY InContainer, TypeParts
<1>4. /\ In(Without(queued, j), j) = 0 /\ In(Without(active, j), j) = 0
      /\ In(Without(waiting, j), j) = 0
  BY TypeParts, InContainer
<1>5. Copies(j)' = 0 /\ Copies(j) > 0
  <2>1. CASE in = queued /\ queued' = Without(queued, j) /\ UNCHANGED <<active, waiting>>
    BY <1>2, <1>3, <1>4, <2>1, CopiesAreNumber DEF Copies, OneCopy
  <2>2. CASE in = active /\ active' = Without(active, j) /\ UNCHANGED <<queued, waiting>>
    BY <1>2, <1>3, <1>4, <2>2, CopiesAreNumber DEF Copies, OneCopy
  <2>3. CASE in = waiting /\ waiting' = Without(waiting, j) /\ UNCHANGED <<queued, active>>
    BY <1>2, <1>3, <1>4, <2>3, CopiesAreNumber DEF Copies, OneCopy
  <2> QED BY <2>1, <2>2, <2>3
<1>6. ~(nextId' <= j)
  BY <1>2, <1>5 DEF Unissued
<1> QED BY <1>5, <1>6 DEF OneCopy, NotErased, RowToCome, Unissued

\* A failure, a stall and a delay take the job into hands, or end it unwritten.
LEMMA FailLives ==
  ASSUME Types, Types', NEW j \in Job, Fail(j), Live(j)
  PROVE  Live(j)'
<1>1. /\ Holds(active, j) /\ active' = Without(active, j) /\ Lasting
      /\ UNCHANGED <<queued, waiting, dlq, nextId, writing>>
  BY DEF Fail, Lasting
<1>2. ASSUME NEW c \in Call, Added(c), c.op.job = j, c.next # "return",
             c.op.kind \in {"fail", "dead"}
      PROVE  Live(j)'
  BY <1>1, <1>2, TakenLives
<1>3. PICK copy \in Copy :
        \/ /\ New(FailJob(j, copy.attempts), "queue", copy) \in Call
           /\ Added(New(FailJob(j, copy.attempts), "queue", copy))
        \/ /\ New(MoveToDlq(j, copy.attempts), "dlq", copy) \in Call
           /\ Added(New(MoveToDlq(j, copy.attempts), "dlq", copy))
        \/ calls' = calls
  BY FailIssues
<1>4. CASE calls' = calls
  BY <1>1, <1>4, EndedLives
<1> DEFINE a == New(FailJob(j, copy.attempts), "queue", copy)
           b == New(MoveToDlq(j, copy.attempts), "dlq", copy)
<1>5. /\ a.op.job = j /\ a.next # "return" /\ a.op.kind \in {"fail", "dead"}
      /\ b.op.job = j /\ b.next # "return" /\ b.op.kind \in {"fail", "dead"}
  BY DEF New, FailJob, MoveToDlq
<1> HIDE DEF a, b
<1>6. a \in Call /\ Added(a) => Live(j)'
  BY <1>2, <1>5
<1>7. b \in Call /\ Added(b) => Live(j)'
  BY <1>2, <1>5
<1> QED BY <1>3, <1>4, <1>6, <1>7 DEF a, b

\* The same of a stall.
LEMMA StallLives ==
  ASSUME Types, Types', NEW j \in Job, Stall(j), Live(j)
  PROVE  Live(j)'
<1> DEFINE c == New(MoveToDlq(j, active[j].attempts), "dlq", active[j])
<1>1. /\ Holds(active, j) /\ active' = Without(active, j) /\ Lasting
      /\ UNCHANGED <<queued, waiting, dlq, nextId, writing>>
  BY DEF Stall, Lasting
<1>2. /\ c.op.job = j /\ c.next # "return" /\ c.op.kind \in {"fail", "dead", "delay"}
      /\ c \in Call /\ Added(c)
  BY StallIssues DEF New, MoveToDlq
<1> HIDE DEF c
<1> QED BY <1>1, <1>2, TakenLives

\* The same of a delay.
LEMMA DelayLives ==
  ASSUME Types, Types', NEW j \in Job, Delay(j), Live(j)
  PROVE  Live(j)'
<1> DEFINE c == New(MoveToDelayed(j), "queue", active[j])
<1>1. /\ Holds(active, j) /\ active' = Without(active, j) /\ Lasting
      /\ UNCHANGED <<queued, waiting, dlq, nextId, writing>>
  BY DEF Delay, history, Lasting
<1>2. /\ c.op.job = j /\ c.next # "return" /\ c.op.kind \in {"fail", "dead", "delay"}
      /\ c \in Call /\ Added(c)
  BY DelayIssues DEF New, MoveToDelayed
<1> HIDE DEF c
<1> QED BY <1>1, <1>2, TakenLives

\* A call that returns after its write is in nobody's hands.
LEMMA NobodysHands ==
  ASSUME Types, NEW j, NEW c \in Call, Added(c), c.next = "return"
  PROVE  Count(calls', Hands(j)) = Count(calls, Hands(j))
BY CallSets, Numbers DEF Added

\* A cancelled job has ended.
LEMMA CancelLives ==
  ASSUME Types, Types', NEW j \in Job, Cancel(j), Live(j)
  PROVE  Live(j)'
<1>1. Lasting /\ UNCHANGED <<dlq, nextId, writing>>
  BY DEF Cancel, Lasting
<1>2. Count(calls', Hands(j)) = Count(calls, Hands(j))
  <2>1. New(CancelJob(j), "return", Nothing).next = "return"
    BY DEF New
  <2> QED BY <2>1, CancelIssues, NobodysHands
<1>3. CASE Holds(queued, j) /\ queued' = Without(queued, j) /\ UNCHANGED <<active, waiting>>
  BY <1>1, <1>2, <1>3, EndedLives
<1>4. CASE Holds(active, j) /\ active' = Without(active, j) /\ UNCHANGED <<queued, waiting>>
  BY <1>1, <1>2, <1>4, EndedLives
<1>5. CASE Holds(waiting, j) /\ waiting' = Without(waiting, j) /\ UNCHANGED <<queued, active>>
  BY <1>1, <1>2, <1>5, EndedLives
<1> QED BY <1>3, <1>4, <1>5 DEF Cancel

\* An acknowledged job has ended.
LEMMA AckLives ==
  ASSUME Types, Types', NEW j \in Job, NEW result \in BOOLEAN, Ack(j, result), Live(j)
  PROVE  Live(j)'
<1>1. /\ Holds(active, j) /\ active' = Without(active, j) /\ Lasting
      /\ UNCHANGED <<queued, waiting, dlq, nextId, writing>>
  BY DEF Ack, Lasting
<1>2. Count(calls', Hands(j)) = Count(calls, Hands(j))
  <2>1. /\ New(CancelJob(j), "return", Nothing).next = "return"
        /\ New(AckJob(j, result), "return", Nothing).next = "return"
    BY DEF New
  <2> QED BY <2>1, AckIssues, NobodysHands
<1> QED BY <1>1, <1>2, EndedLives

\* A discarded job becomes a dead letter; its row stays until the write is served.
LEMMA DiscardLives ==
  ASSUME Types, Types', NEW j \in Job, Discard(j), Live(j)
  PROVE  Live(j)'
<1>1. SUFFICES ASSUME Exposed(j)'
               PROVE  OneCopy(j)' /\ NotErased(j)' /\ RowToCome(j)' /\ Unissued(j)'
  BY DEF Live
<1>2. /\ OneCopy(j) /\ NotErased(j) /\ RowToCome(j) /\ Unissued(j)
      /\ Projected' = Projected /\ Accepted' = Accepted
  BY <1>1, StillExposed DEF Discard, Lasting
<1> DEFINE c == New(DiscardJob(j), "return", Nothing)
<1>3. /\ c.op.job = j /\ c.next = "return" /\ c.op.kind = "discard" /\ c \in Call /\ Added(c)
  BY DiscardIssues DEF New, DiscardJob
<1> HIDE DEF c
<1>4. c \notin Hands(j) /\ c \notin Erasers(j) /\ c \notin Inserts(j) /\ c \notin Burials(j)
  BY <1>3, CallSets DEF Erases
<1>5. /\ Count(calls', Hands(j)) = Count(calls, Hands(j))
      /\ Count(calls', Erasers(j)) = Count(calls, Erasers(j))
      /\ Count(calls', Inserts(j)) = Count(calls, Inserts(j))
      /\ Count(calls', Burials(j)) = Count(calls, Burials(j))
  BY <1>3, <1>4, Numbers DEF Added
<1>6. Copies(j)' = Copies(j) /\ Copies(j) > 0
  <2>1. Entries(dlq', j) = Entries(dlq, j) + 1
    BY DiscardBuries
  <2>2. /\ In(Without(queued, j), j) = 0 /\ In(Without(active, j), j) = 0
        /\ (In(queued, j) = 1 <=> Holds(queued, j)) /\ (In(active, j) = 1 <=> Holds(active, j))
    BY TypeParts, InContainer
  <2>3. waiting' = waiting
    BY DEF Discard
  <2>4. CASE Holds(queued, j) /\ queued' = Without(queued, j) /\ active' = active
    BY <1>5, <2>1, <2>2, <2>3, <2>4, CopiesAreNumber DEF Copies
  <2>5. CASE Holds(active, j) /\ active' = Without(active, j) /\ queued' = queued
    BY <1>5, <2>1, <2>2, <2>3, <2>5, CopiesAreNumber DEF Copies
  <2> QED BY <2>4, <2>5 DEF Discard
<1>7. Unissued(j)'
  BY <1>2, <1>6 DEF Unissued, Discard
<1> QED BY <1>2, <1>5, <1>6, <1>7 DEF OneCopy, NotErased, RowToCome

\* A retried letter is a queued job again.
LEMMA RetryLives ==
  ASSUME Types, Types', RetryDlq, NEW j \in Job, Live(j)
  PROVE  Live(j)'
<1>1. PICK letters \in Seq(DeadLetters), rest \in Seq(DeadLetters) :
        /\ Retry(letters, rest)
        /\ \A k \in Job : /\ k \in JobsOf(letters) <=> Entries(letters, k) > 0
                          /\ Entries(letters, k) + Entries(rest, k) = Entries(dlq, k)
  BY RetryChooses DEF Types
<1>2. /\ \A k \in Job : IF k \in JobsOf(letters) THEN Holds(queued, k)' ELSE queued'[k] = queued[k]
      /\ queued' \in Container
  BY <1>1, RetryDoes DEF Types
<1>3. /\ dlq' = rest
      /\ UNCHANGED <<setting, active, waiting, completed, nextId, calls, writing, up, restarts,
                     dropped, promised>>
      /\ strayed \subseteq strayed'
  BY <1>1 DEF Retry
<1>4. /\ Entries(letters, j) \in Nat /\ Entries(rest, j) \in Nat /\ Entries(dlq, j) \in Nat
      /\ j \in JobsOf(letters) <=> Entries(letters, j) > 0
      /\ Entries(letters, j) + Entries(rest, j) = Entries(dlq, j)
      /\ IF j \in JobsOf(letters) THEN Holds(queued, j)' ELSE queued'[j] = queued[j]
  BY <1>1, <1>2, EntriesCount, Numbers
<1>5. SUFFICES ASSUME Exposed(j)'
               PROVE  OneCopy(j)' /\ NotErased(j)' /\ RowToCome(j)' /\ Unissued(j)'
  BY DEF Live
<1>6. /\ OneCopy(j) /\ NotErased(j) /\ RowToCome(j) /\ Unissued(j)
      /\ Projected' = Projected /\ Accepted' = Accepted
  BY <1>3, <1>5, StillExposed DEF Lasting
<1>7. Copies(j)' = Copies(j)
  <2>1. CASE j \in JobsOf(letters)
    <3>0. /\ In(queued, j) \in 0..1 /\ In(active, j) \in 0..1 /\ In(waiting, j) \in 0..1
          /\ Count(calls, Hands(j)) \in Nat /\ Entries(dlq, j) \in Nat
          /\ In(queued, j) + In(active, j) + In(waiting, j) + Count(calls, Hands(j))
               + Entries(dlq, j) <= 1
      BY <1>6, CopiesAreNumber DEF OneCopy, Copies
    <3>1. Entries(dlq, j) = 1 /\ Entries(rest, j) = 0 /\ In(queued, j) = 0
      BY <1>4, <2>1, <3>0
    <3>2. In(queued', j) = 1
      BY <1>4, <2>1 DEF In
    <3> QED BY <1>3, <3>1, <3>2, CopiesAreNumber DEF Copies
  <2>2. CASE j \notin JobsOf(letters)
    <3>1. Entries(rest, j) = Entries(dlq, j) /\ In(queued', j) = In(queued, j)
      BY <1>4, <2>2 DEF In, Holds
    <3> QED BY <1>3, <3>1 DEF Copies
  <2> QED BY <2>1, <2>2
<1> QED BY <1>3, <1>6, <1>7 DEF OneCopy, NotErased, RowToCome, Unissued

-----------------------------------------------------------------------------
(* What a recovery finds *)

\* The dead letters of a new process are those of the table.
LEMMA RecoveredLetters ==
  ASSUME Types, Recover
  PROVE  \A j : Entries(dlq', j) = Entries(db.dead, j) /\ Entries(db.dead, j) \in Nat
<1>1. db.dead \in Seq(Letters) /\ dlq' = RecoveredDead(db)
  BY DEF Types, Tables, Recover
<1>2. /\ DOMAIN dlq' = DOMAIN db.dead
      /\ \A n \in DOMAIN db.dead : dlq'[n].job = db.dead[n].job
  BY <1>1 DEF RecoveredDead, DeadLetter
<1>3. \A j : {n \in DOMAIN dlq' : dlq'[n].job = j} = {n \in DOMAIN db.dead : db.dead[n].job = j}
  BY <1>2
<1>4. \A j : Entries(dlq', j) = Entries(db.dead, j)
  BY <1>3, Zenon DEF Entries
<1> QED BY <1>1, <1>4, EntriesCount

\* A row gives one copy, with the attempts of the row; no row gives none.
LEMMA RecoveredCopies ==
  ASSUME Types, Recover, NEW j \in Job
  PROVE  /\ HasRow(db, j) => In(queued', j) + In(waiting', j) = 1
         /\ ~HasRow(db, j) => In(queued', j) + In(waiting', j) = 0
         /\ In(queued', j) \in 0..1 /\ In(waiting', j) \in 0..1
         /\ Holds(queued', j) => HasRow(db, j) /\ queued'[j].attempts = db.rows[j].attempts
         /\ Holds(waiting', j) => HasRow(db, j) /\ waiting'[j].attempts = db.rows[j].attempts
<1>1. db.rows[j] \in Row \cup {Nothing}
  BY DEF Types, Tables
<1> DEFINE copy == [attempts |-> db.rows[j].attempts, max |-> db.rows[j].max, fleeting |-> FALSE]
<1>2. HasRow(db, j) => db.rows[j] \in Row /\ copy \in Copy
  BY <1>1 DEF HasRow, Row, Copy
<1>3. ASSUME NEW states
      PROVE  Recovered(db, states)[j]
               = IF HasRow(db, j) /\ db.rows[j].state \in states THEN copy ELSE Nothing
  BY DEF Recovered
<1>4. copy.attempts = db.rows[j].attempts
  OBVIOUS
<1> HIDE DEF copy
<1>5. HasRow(db, j) => copy # Nothing /\ db.rows[j].state \in {"waiting", "delayed", "waiting_children"}
  BY <1>2, NothingIsNothing DEF Row
<1>6. queued' = Recovered(db, {"waiting", "delayed"}) /\ waiting' = Recovered(db, {"waiting_children"})
  BY DEF Recover
<1>7. queued'[j] = IF HasRow(db, j) /\ db.rows[j].state \in {"waiting", "delayed"} THEN copy ELSE Nothing
  BY <1>3, <1>6
<1>8. waiting'[j] = IF HasRow(db, j) /\ db.rows[j].state \in {"waiting_children"} THEN copy ELSE Nothing
  BY <1>3, <1>6
<1> QED BY <1>4, <1>5, <1>7, <1>8 DEF In, Holds

\* What the calls about a job count after one of them was served.
LEMMA ServedCounts ==
  ASSUME Types, NEW i \in DOMAIN calls, calls[i].stage # "written", Served(i), NEW j \in Job,
         j = calls[i].op.job
  PROVE  /\ Count(calls', Hands(j)) = Count(calls, Hands(j))
         /\ Count(calls', Erasers(j)) <= Count(calls, Erasers(j))
         /\ calls[i].op.kind # "insert" => Count(calls', Inserts(j)) = Count(calls, Inserts(j))
         /\ calls[i].op.kind # "dead" => Count(calls', Burials(j)) = Count(calls, Burials(j))
         /\ calls[i] \in About(j) /\ (Erases(calls[i].op) => calls[i] \in Erasers(j))
<1>1. calls[i] \in Call
  BY TypeParts
<1>2. \A S : Count(calls, S) \in Nat
  BY Numbers
<1>3. calls[i] \in About(j) /\ (Erases(calls[i].op) => calls[i] \in Erasers(j))
  BY <1>1, CallSets
<1>4. CASE calls[i].next = "return"
  <2>1. Ended(i)
    BY <1>4, CallServed DEF Types
  <2>2. calls[i] \notin Hands(j)
    BY <1>1, <1>4, CallSets
  <2>3. calls[i].op.kind # "insert" => calls[i] \notin Inserts(j)
    BY <1>1, CallSets
  <2>4. calls[i].op.kind # "dead" => calls[i] \notin Burials(j)
    BY <1>1, CallSets
  <2> QED BY <1>2, <1>3, <2>1, <2>2, <2>3, <2>4 DEF Ended
<1>5. CASE calls[i].next # "return"
  <2> DEFINE c == At(calls[i], "written")
  <2>1. Moved(i, c)
    BY <1>5, CallServed DEF Types
  <2>2. c \in Call /\ c.op = calls[i].op /\ c.next = calls[i].next
    BY <1>1, <1>5 DEF At, Call
  <2> HIDE DEF c
  <2>3. calls[i] \in Hands(j) /\ c \in Hands(j)
    BY <1>1, <1>5, <2>2, CallSets
  <2>4. calls[i] \in Erasers(j) <=> c \in Erasers(j)
    BY <1>1, <2>2, CallSets
  <2>5. calls[i].op.kind # "insert" => calls[i] \notin Inserts(j) /\ c \notin Inserts(j)
    BY <1>1, <2>2, CallSets
  <2>6. calls[i].op.kind # "dead" => calls[i] \notin Burials(j) /\ c \notin Burials(j)
    BY <1>1, <2>2, CallSets
  <2> QED BY <1>2, <1>3, <2>1, <2>3, <2>4, <2>5, <2>6 DEF Moved
<1> QED BY <1>4, <1>5

\* The job of a write that is handed over lives on, if the write does to its tables
\* what it says.
LEMMA ServedLives ==
  ASSUME Types, Types', NEW i \in DOMAIN calls, calls[i].stage # "written", Served(i),
         UNCHANGED engine, NEW j \in Job, j = calls[i].op.job,
         OneCopy(j) /\ NotErased(j) /\ RowToCome(j) /\ Unissued(j),
         Exposed(j)',
         \A op \in ToSet(Accepted') : op \in ToSet(Accepted) \/ op = calls[i].op,
         Copies(j) > 0 /\ InTables(Projected, j) => InTables(Projected', j),
         Copies(j) > 0 /\ calls[i].op.kind \in {"insert", "dead"} => InTables(Projected', j)
  PROVE  Live(j)'
<1>1. /\ Count(calls', Hands(j)) = Count(calls, Hands(j))
      /\ Count(calls', Erasers(j)) <= Count(calls, Erasers(j))
      /\ calls[i].op.kind # "insert" => Count(calls', Inserts(j)) = Count(calls, Inserts(j))
      /\ calls[i].op.kind # "dead" => Count(calls', Burials(j)) = Count(calls, Burials(j))
      /\ calls[i] \in About(j) /\ (Erases(calls[i].op) => calls[i] \in Erasers(j))
  BY ServedCounts
<1>2. Copies(j)' = Copies(j)
  BY <1>1 DEF engine, Copies
<1>3. Copies(j) > 0 => ~Erases(calls[i].op)
  BY <1>1, Counted DEF NotErased
<1>4. Count(calls', Erasers(j)) \in Nat /\ Count(calls, Erasers(j)) \in Nat
  <2>1. calls' \in Seq(Call)
    BY DEF Types, CallTypes
  <2> QED BY <2>1, CountIsNumber, Numbers
<1>5. NotErased(j)'
  BY <1>1, <1>2, <1>3, <1>4 DEF NotErased
<1>6. RowToCome(j)'
  <2>1. InTables(Projected', j) => HasRow(Projected', j)
    BY DEF InTables, Exposed
  <2>2. SUFFICES ASSUME Copies(j) > 0, ~HasRow(Projected', j)
                 PROVE  Count(calls', Inserts(j)) > 0 \/ Count(calls', Burials(j)) > 0
    BY <1>2 DEF RowToCome
  <2>3. calls[i].op.kind \notin {"insert", "dead"} /\ ~HasRow(Projected, j)
    BY <2>1, <2>2 DEF InTables
  <2> QED BY <1>1, <2>2, <2>3 DEF RowToCome
<1>7. Count(calls, About(j)) > 0
  BY <1>1, Counted
<1>8. ~(nextId' <= j)
  BY <1>7 DEF Unissued, engine
<1> QED BY <1>2, <1>5, <1>6, <1>8 DEF Live, OneCopy, Unissued

\* A queued write.
LEMMA QueueOpLives ==
  ASSUME Types, Types', NEW i \in DOMAIN calls, QueueOp(i), NEW j \in Job,
         j = calls[i].op.job, Live(j)
  PROVE  Live(j)'
<1>1. SUFFICES ASSUME Exposed(j)' PROVE Live(j)'
  BY DEF Live
<1>2. ~TooLate
  BY <1>1 DEF QueueOp, Exposed
<1>3. /\ Projected' = Exec(Projected, calls[i].op)
      /\ ToSet(Accepted') = ToSet(Accepted) \cup {calls[i].op}
  BY <1>2, QueueOpProjects
<1>4. calls[i].op \in Op /\ Projected \in Tables
  BY TypeParts, AcceptedOps
<1>5. /\ Buried(Projected, j) => Buried(Projected', j)
      /\ InTables(Projected, j) /\ ~Erases(calls[i].op) => InTables(Projected', j)
      /\ calls[i].op.kind \in {"insert", "dead"} => InTables(Projected', j)
  BY <1>3, <1>4, ExecKeeps
<1>6. Exposed(j)
  BY <1>1, <1>5 DEF Exposed, QueueOp
<1>7. OneCopy(j) /\ NotErased(j) /\ RowToCome(j) /\ Unissued(j)
  BY <1>6 DEF Live
<1>8. Copies(j) > 0 => ~Erases(calls[i].op)
  <2>1. Erases(calls[i].op) => calls[i] \in Erasers(j)
    BY TypeParts, CallSets
  <2> QED BY <1>7, <2>1, Counted DEF NotErased
<1>9. calls[i].stage # "written" /\ Served(i) /\ UNCHANGED engine
  BY DEF QueueOp, Queueable
<1> QED BY <1>1, <1>3, <1>5, <1>7, <1>8, <1>9, ServedLives

\* A write beside the queue.
LEMMA WriteNowLives ==
  ASSUME Types, Types', NEW i \in DOMAIN calls, WriteNow(i), NEW j \in Job,
         j = calls[i].op.job, Live(j)
  PROVE  Live(j)'
<1>1. SUFFICES ASSUME Exposed(j)' PROVE Live(j)'
  BY DEF Live
<1> DEFINE e == Exec(db, calls[i].op)
<1>2. /\ Accepted' = Accepted /\ Projected' = ExecAll(e, Accepted) /\ e \in Tables
  BY WriteNowProjects
<1>3. /\ calls[i].op \in Op /\ db \in Tables /\ Accepted \in Seq(Op) /\ Accepted \in Seq(QueuedOp)
      /\ Projected = ExecAll(db, Accepted)
  BY TypeParts, AcceptedOps DEF Projected
<1>4. /\ Entries(db.dead, j) <= Entries(e.dead, j)
      /\ InTables(db, j) /\ ~Erases(calls[i].op) => InTables(e, j)
      /\ calls[i].op.kind \in {"insert", "dead"} => InTables(e, j)
  BY <1>3, ExecKeeps, ExecDoesTo
<1> HIDE DEF e
<1>5. Entries(Projected.dead, j) <= Entries(Projected'.dead, j)
  BY <1>2, <1>3, <1>4, ExecAllBuriesMore
<1>6. Entries(Projected.dead, j) \in Nat /\ Entries(Projected'.dead, j) \in Nat
  <2>1. Projected' \in Tables
    BY <1>2, <1>3, ExecAllTables
  <2>2. Projected'.dead \in Seq(Letters)
    BY <2>1 DEF Tables
  <2> QED BY <2>2, Numbers, EntriesCount
<1>7. Exposed(j)
  BY <1>1, <1>5, <1>6 DEF Exposed, Buried, WriteNow
<1>8. OneCopy(j) /\ NotErased(j) /\ RowToCome(j) /\ Unissued(j)
  BY <1>7 DEF Live
<1>9. Copies(j) > 0 => ~Erases(calls[i].op)
  <2>1. Erases(calls[i].op) => calls[i] \in Erasers(j)
    BY TypeParts, CallSets
  <2> QED BY <1>8, <2>1, Counted DEF NotErased
<1>10. Copies(j) > 0 => \A n \in 1..Len(Accepted) : Accepted[n].job = j => ~Erases(Accepted[n])
  <2>1. \A n \in 1..Len(Accepted) : Accepted[n] \in ToSet(Accepted)
    BY <1>3, LenProperties DEF ToSet
  <2> QED BY <1>8, <2>1 DEF NotErased
<1>11. Copies(j) > 0 /\ InTables(Projected, j) => InTables(Projected', j)
  BY <1>2, <1>3, <1>4, <1>9, <1>10, ExecAllKeepsToo
<1>12. Copies(j) > 0 /\ calls[i].op.kind \in {"insert", "dead"} => InTables(Projected', j)
  BY <1>2, <1>3, <1>4, <1>10, ExecAllKeeps
<1>13. calls[i].stage # "written" /\ Served(i) /\ UNCHANGED engine
  BY DEF WriteNow, Synchronous
<1> QED BY <1>1, <1>2, <1>8, <1>11, <1>12, <1>13, ServedLives

\* A refused write is still to be made.
LEMMA QueueFullLives ==
  ASSUME Types, Types', NEW i \in DOMAIN calls, QueueFull(i), NEW j \in Job,
         j = calls[i].op.job, Live(j)
  PROVE  Live(j)'
<1>1. SUFFICES ASSUME Exposed(j)'
               PROVE  OneCopy(j)' /\ NotErased(j)' /\ RowToCome(j)' /\ Unissued(j)'
  BY DEF Live
<1>2. /\ OneCopy(j) /\ NotErased(j) /\ RowToCome(j) /\ Unissued(j)
      /\ Projected' = Projected /\ Accepted' = Accepted
  BY <1>1, StillExposed DEF QueueFull, history, Lasting
<1> DEFINE c == At(calls[i], "refused")
<1>3. calls[i] \in Call /\ calls[i].stage = "due"
  BY TypeParts DEF QueueFull, Queueable
<1>4. c \in Call /\ c.op = calls[i].op /\ c.next = calls[i].next /\ c.stage = "refused"
  BY <1>3 DEF At, Call
<1>5. Moved(i, c)
  BY <1>4, CallMoved DEF QueueFull, Types
<1> HIDE DEF c
<1>6. /\ calls[i] \in Hands(j) <=> c \in Hands(j)
      /\ calls[i] \in Erasers(j) <=> c \in Erasers(j)
      /\ calls[i] \in Inserts(j) <=> c \in Inserts(j)
      /\ calls[i] \in Burials(j) <=> c \in Burials(j)
      /\ calls[i] \in About(j) <=> c \in About(j)
  BY <1>3, <1>4, CallSets
<1>7. \A S : (calls[i] \in S <=> c \in S) => Count(calls', S) = Count(calls, S)
  BY <1>5, Numbers DEF Moved
<1>8. Copies(j)' = Copies(j)
  BY <1>6, <1>7 DEF QueueFull, engine, Copies
<1> QED BY <1>2, <1>6, <1>7, <1>8 DEF OneCopy, NotErased, RowToCome, Unissued, QueueFull, engine

\* The job in hand is put back, or into the dead letters.
LEMMA PlaceLives ==
  ASSUME Types, Types', NEW i \in DOMAIN calls, Place(i), NEW j \in Job,
         j = calls[i].op.job, Live(j)
  PROVE  Live(j)'
<1>1. SUFFICES ASSUME Exposed(j)'
               PROVE  OneCopy(j)' /\ NotErased(j)' /\ RowToCome(j)' /\ Unissued(j)'
  BY DEF Live
<1>2. /\ OneCopy(j) /\ NotErased(j) /\ RowToCome(j) /\ Unissued(j)
      /\ Projected' = Projected /\ Accepted' = Accepted
  BY <1>1, StillExposed DEF Place, history, Lasting
<1>3. /\ calls[i] \in Call /\ calls[i].stage = "written" /\ calls[i].next # "return"
      /\ calls[i].copy \in Copy
  BY TypeParts DEF Place
<1>4. calls[i].op.kind \in {"fail", "delay", "dead"}
  BY <1>3 DEF Call
<1>5. calls[i] \in Hands(j) /\ calls[i] \notin Erasers(j) /\ calls[i] \notin Inserts(j)
      /\ calls[i] \notin Burials(j)
  BY <1>3, <1>4, CallSets DEF Erases
<1>6. Ended(i)
  BY CallEnded DEF Place, Types
<1>7. /\ Count(calls', Hands(j)) = Count(calls, Hands(j)) - 1
      /\ Count(calls', Erasers(j)) = Count(calls, Erasers(j))
      /\ Count(calls', Inserts(j)) = Count(calls, Inserts(j))
      /\ Count(calls', Burials(j)) = Count(calls, Burials(j))
      /\ Count(calls, Hands(j)) > 0
  BY <1>5, <1>6, Numbers, Counted DEF Ended
<1>8. Copies(j)' = Copies(j) /\ Copies(j) > 0
  <2>1. active' = active /\ waiting' = waiting
    BY DEF Place
  <2>2. CASE calls[i].next = "queue"
    <3>1. queued' = Put(queued, j, calls[i].copy) /\ dlq' = dlq
      BY <2>2 DEF Place
    <3>2. In(queued', j) = 1
      BY <1>3, <3>1, TypeParts, InContainer
    <3>3. In(queued, j) = 0
      BY <1>2, <1>7, CopiesAreNumber DEF OneCopy, Copies
    <3> QED BY <1>7, <2>1, <3>1, <3>2, <3>3, CopiesAreNumber DEF Copies
  <2>3. CASE calls[i].next # "queue"
    <3>1. queued' = queued /\ Entries(dlq', j) = Entries(dlq, j) + 1
      BY <2>3, PlaceBuries DEF Place
    <3> QED BY <1>7, <2>1, <3>1, CopiesAreNumber DEF Copies
  <2> QED BY <2>2, <2>3
<1>9. Unissued(j)'
  BY <1>2, <1>8 DEF Unissued, Place
<1> QED BY <1>2, <1>7, <1>8, <1>9 DEF OneCopy, NotErased, RowToCome

\* What a new process finds.
LEMMA RecoverLives ==
  ASSUME Types, Types', Down, Recover, NEW j \in Job
  PROVE  Live(j)'
<1>1. SUFFICES ASSUME Exposed(j)'
               PROVE  OneCopy(j)' /\ NotErased(j)' /\ RowToCome(j)' /\ Unissued(j)'
  BY DEF Live
<1>2. Projected' = db /\ ToSet(Accepted') = {} /\ db \in Tables
  BY RecoverProjects DEF Types
<1>3. calls' = <<>> /\ active' = Empty
  BY DEF Recover, Down
<1>4. ASSUME NEW S PROVE Count(calls', S) = 0
  <2>1. DOMAIN calls' = {} /\ calls' \in Seq(Call)
    BY <1>3
  <2> QED BY <2>1, CountIsNumber
<1>5. Entries(dlq', j) = 0
  BY <1>1, <1>2, RecoveredLetters DEF Exposed, Buried
<1>6. /\ HasRow(db, j) => In(queued', j) + In(waiting', j) = 1
      /\ ~HasRow(db, j) => In(queued', j) + In(waiting', j) = 0
      /\ In(queued', j) \in 0..1 /\ In(waiting', j) \in 0..1
  BY <1>2, RecoveredCopies
<1>7. In(active', j) = 0
  BY <1>3 DEF In, Holds, Empty
<1>8. Copies(j)' = IF HasRow(db, j) THEN 1 ELSE 0
  BY <1>4, <1>5, <1>6, <1>7 DEF Copies
<1>9. ~(nextId' <= j) \/ ~HasRow(db, j)
  <2>1. nextId' = RecoveredId(db)
    BY DEF Recover
  <2> QED BY <1>2, <2>1, RecoveredIdIsAbove, MaxIdIsNumber DEF Job
<1>10. OneCopy(j)' /\ NotErased(j)' /\ RowToCome(j)'
  BY <1>2, <1>4, <1>8 DEF OneCopy, NotErased, RowToCome
<1>11. Unissued(j)'
  BY <1>2, <1>4, <1>8, <1>9 DEF Unissued
<1> QED BY <1>10, <1>11

\* No step loses a live job.
LEMMA LiveJobsKept ==
  ASSUME Types, Types', Down, LiveJobs, [Next]_vars
  PROVE  LiveJobs'
<1>1. CASE UNCHANGED vars
  <2> SUFFICES ASSUME NEW k \in Job PROVE Live(k)'
    BY DEF LiveJobs
  <2>1. SameJob(k)
    BY <1>1, StutterSpares
  <2> QED BY <2>1, SameJobLives DEF LiveJobs
<1>2. CASE Push
  <2>1. ASSUME NEW k \in Job, k = nextId PROVE Live(k)'
    BY <1>2, <2>1, PushLives DEF LiveJobs
  <2>2. ASSUME NEW k \in Job \ {nextId} PROVE Live(k)'
    <3>1. nextId \in Job
      BY <1>2, NewCopy DEF Push
    <3>2. SameJob(k)
      BY <1>2, <3>1, EngineSpares
    <3> QED BY <3>2, SameJobLives DEF LiveJobs
  <2> QED BY <2>1, <2>2 DEF LiveJobs
<1>3. CASE RetryDlq
  BY <1>3, RetryLives DEF LiveJobs
<1>4. ASSUME NEW j \in Job, Pull(j) PROVE LiveJobs'
  <2>1. ASSUME NEW k \in Job, k = j PROVE Live(k)'
    BY <1>4, <2>1, MoveLives DEF LiveJobs
  <2>2. ASSUME NEW k \in Job \ {j} PROVE Live(k)'
    <3>1. SameJob(k)
      BY <1>4, EngineSpares
    <3> QED BY <3>1, SameJobLives DEF LiveJobs
  <2> QED BY <2>1, <2>2 DEF LiveJobs
<1>5. ASSUME NEW j \in Job, ReleaseDependents(j) PROVE LiveJobs'
  <2>1. ASSUME NEW k \in Job, k = j PROVE Live(k)'
    BY <1>5, <2>1, MoveLives DEF LiveJobs
  <2>2. ASSUME NEW k \in Job \ {j} PROVE Live(k)'
    <3>1. SameJob(k)
      BY <1>5, EngineSpares
    <3> QED BY <3>1, SameJobLives DEF LiveJobs
  <2> QED BY <2>1, <2>2 DEF LiveJobs
<1>6. ASSUME NEW j \in Job, Fail(j) PROVE LiveJobs'
  <2>1. ASSUME NEW k \in Job, k = j PROVE Live(k)'
    BY <1>6, <2>1, FailLives DEF LiveJobs
  <2>2. ASSUME NEW k \in Job \ {j} PROVE Live(k)'
    <3>1. SameJob(k)
      BY <1>6, EngineSpares
    <3> QED BY <3>1, SameJobLives DEF LiveJobs
  <2> QED BY <2>1, <2>2 DEF LiveJobs
<1>7. ASSUME NEW j \in Job, Stall(j) PROVE LiveJobs'
  <2>1. ASSUME NEW k \in Job, k = j PROVE Live(k)'
    BY <1>7, <2>1, StallLives DEF LiveJobs
  <2>2. ASSUME NEW k \in Job \ {j} PROVE Live(k)'
    <3>1. SameJob(k)
      BY <1>7, EngineSpares
    <3> QED BY <3>1, SameJobLives DEF LiveJobs
  <2> QED BY <2>1, <2>2 DEF LiveJobs
<1>8. ASSUME NEW j \in Job, Delay(j) PROVE LiveJobs'
  <2>1. ASSUME NEW k \in Job, k = j PROVE Live(k)'
    BY <1>8, <2>1, DelayLives DEF LiveJobs
  <2>2. ASSUME NEW k \in Job \ {j} PROVE Live(k)'
    <3>1. SameJob(k)
      BY <1>8, EngineSpares
    <3> QED BY <3>1, SameJobLives DEF LiveJobs
  <2> QED BY <2>1, <2>2 DEF LiveJobs
<1>9. ASSUME NEW j \in Job, Cancel(j) PROVE LiveJobs'
  <2>1. ASSUME NEW k \in Job, k = j PROVE Live(k)'
    BY <1>9, <2>1, CancelLives DEF LiveJobs
  <2>2. ASSUME NEW k \in Job \ {j} PROVE Live(k)'
    <3>1. SameJob(k)
      BY <1>9, EngineSpares
    <3> QED BY <3>1, SameJobLives DEF LiveJobs
  <2> QED BY <2>1, <2>2 DEF LiveJobs
<1>10. ASSUME NEW j \in Job, Discard(j) PROVE LiveJobs'
  <2>1. ASSUME NEW k \in Job, k = j PROVE Live(k)'
    BY <1>10, <2>1, DiscardLives DEF LiveJobs
  <2>2. ASSUME NEW k \in Job \ {j} PROVE Live(k)'
    <3>1. SameJob(k)
      BY <1>10, EngineSpares
    <3> QED BY <3>1, SameJobLives DEF LiveJobs
  <2> QED BY <2>1, <2>2 DEF LiveJobs
<1>11. ASSUME NEW j \in Job, NEW result \in BOOLEAN, Ack(j, result) PROVE LiveJobs'
  <2>1. ASSUME NEW k \in Job, k = j PROVE Live(k)'
    BY <1>11, <2>1, AckLives DEF LiveJobs
  <2>2. ASSUME NEW k \in Job \ {j} PROVE Live(k)'
    <3>1. SameJob(k)
      BY <1>11, EngineSpares
    <3> QED BY <3>1, SameJobLives DEF LiveJobs
  <2> QED BY <2>1, <2>2 DEF LiveJobs
<1>12. ASSUME NEW i \in DOMAIN calls, QueueOp(i) PROVE LiveJobs'
  <2>1. ASSUME NEW k \in Job, k = calls[i].op.job PROVE Live(k)'
    BY <1>12, <2>1, QueueOpLives DEF LiveJobs
  <2>2. ASSUME NEW k \in Job \ {calls[i].op.job} PROVE Live(k)'
    <3>1. SameJob(k)
      BY <1>12, ServeSpares
    <3> QED BY <3>1, SameJobLives DEF LiveJobs
  <2> QED BY <2>1, <2>2 DEF LiveJobs
<1>13. ASSUME NEW i \in DOMAIN calls, QueueFull(i) PROVE LiveJobs'
  <2>1. ASSUME NEW k \in Job, k = calls[i].op.job PROVE Live(k)'
    BY <1>13, <2>1, QueueFullLives DEF LiveJobs
  <2>2. ASSUME NEW k \in Job \ {calls[i].op.job} PROVE Live(k)'
    <3>1. SameJob(k)
      BY <1>13, ServeSpares
    <3> QED BY <3>1, SameJobLives DEF LiveJobs
  <2> QED BY <2>1, <2>2 DEF LiveJobs
<1>14. ASSUME NEW i \in DOMAIN calls, WriteNow(i) PROVE LiveJobs'
  <2>1. ASSUME NEW k \in Job, k = calls[i].op.job PROVE Live(k)'
    BY <1>14, <2>1, WriteNowLives DEF LiveJobs
  <2>2. ASSUME NEW k \in Job \ {calls[i].op.job} PROVE Live(k)'
    <3>1. SameJob(k)
      BY <1>14, ServeSpares
    <3> QED BY <3>1, SameJobLives DEF LiveJobs
  <2> QED BY <2>1, <2>2 DEF LiveJobs
<1>15. ASSUME NEW i \in DOMAIN calls, WriteNowFails(i) PROVE LiveJobs'
  <2>1. ASSUME NEW k \in Job, k = calls[i].op.job PROVE Live(k)'
    BY <1>15, <2>1 DEF WriteNowFails, Live, Exposed
  <2>2. ASSUME NEW k \in Job \ {calls[i].op.job} PROVE Live(k)'
    <3>1. SameJob(k)
      BY <1>15, ServeSpares
    <3> QED BY <3>1, SameJobLives DEF LiveJobs
  <2> QED BY <2>1, <2>2 DEF LiveJobs
<1>16. ASSUME NEW i \in DOMAIN calls, Place(i) PROVE LiveJobs'
  <2>1. ASSUME NEW k \in Job, k = calls[i].op.job PROVE Live(k)'
    BY <1>16, <2>1, PlaceLives DEF LiveJobs
  <2>2. ASSUME NEW k \in Job \ {calls[i].op.job} PROVE Live(k)'
    <3>1. SameJob(k)
      BY <1>16, ServeSpares
    <3> QED BY <3>1, SameJobLives DEF LiveJobs
  <2> QED BY <2>1, <2>2 DEF LiveJobs
<1>17. CASE Write
  <2> SUFFICES ASSUME NEW k \in Job PROVE Live(k)'
    BY DEF LiveJobs
  <2>1. CASE k \in dropped'
    BY <2>1 DEF Live, Exposed
  <2>2. CASE k \notin dropped'
    <3>1. SameJob(k)
      BY <1>17, <2>2, WriteSpares
    <3> QED BY <3>1, SameJobLives DEF LiveJobs
  <2> QED BY <2>1, <2>2
<1>18. CASE Exit
  BY <1>18 DEF Exit, LiveJobs, Live, Exposed
<1>19. CASE Recover
  BY <1>19, RecoverLives DEF LiveJobs
<1> QED BY <1>1, <1>2, <1>3, <1>4, <1>5, <1>6, <1>7, <1>8, <1>9, <1>10, <1>11, <1>12,
          <1>13, <1>14, <1>15, <1>16, <1>17, <1>18, <1>19
       DEF Next, Operate, Serve

\* There are no jobs at first.
LEMMA LiveJobsFirst ==
  ASSUME Init
  PROVE  LiveJobs
<1>1. SUFFICES ASSUME NEW j \in Job PROVE OneCopy(j) /\ NotErased(j) /\ RowToCome(j) /\ Unissued(j)
  BY DEF LiveJobs, Live
<1>2. Types
  BY TypesFirst
<1>3. /\ calls = <<>> /\ dlq = <<>> /\ queue = <<>> /\ buffer = <<>>
      /\ queued = Empty /\ active = Empty /\ waiting = Empty
  BY DEF Init
<1>4. \A S : Count(calls, S) = 0
  <2>1. DOMAIN calls = {} /\ calls \in Seq(Call)
    BY <1>3
  <2> QED BY <2>1, CountIsNumber
<1>5. Entries(dlq, j) = 0
  <2>1. DOMAIN dlq = {} /\ dlq \in Seq(DeadLetters)
    BY <1>3
  <2> QED BY <2>1, EntriesCount
<1>6. ToSet(Accepted) = {}
  <2>1. <<>> \in Seq(Op) /\ ToSet(<<>>) = {}
    BY DEF ToSet
  <2>2. Accepted = <<>>
    BY <1>3, <2>1, ConcatEmptySeq DEF Accepted
  <2> QED BY <2>1, <2>2
<1>7. In(queued, j) = 0 /\ In(active, j) = 0 /\ In(waiting, j) = 0
  BY <1>3 DEF In, Holds, Empty
<1>8. Copies(j) = 0
  BY <1>4, <1>5, <1>7 DEF Copies
<1> QED BY <1>4, <1>6, <1>8 DEF OneCopy, NotErased, RowToCome, Unissued

\* A job that is held is found by the next restart.
LEMMA LiveJobsAreFound ==
  ASSUME Types, LiveJobs
  PROVE  NoLiveJobLost
<1>1. SUFFICES ASSUME up, NEW j \in Job \ dropped, Known(j), ~Inserting(j), ~Buried(Projected, j)
               PROVE  HasRow(Projected, j)
  BY DEF NoLiveJobLost, Buried
<1>2. OneCopy(j) /\ RowToCome(j)
  BY <1>1 DEF LiveJobs, Live, Exposed
<1>3. calls \in Seq(Call) /\ \A i \in DOMAIN calls : calls[i] \in Call
  BY TypeParts DEF Types, CallTypes
<1>4. Count(calls, Inserts(j)) = 0
  <2>1. \A i \in DOMAIN calls : calls[i] \notin Inserts(j)
    BY <1>1 DEF Inserting, Inserts
  <2> QED BY <1>3, <2>1, CountIsNumber
<1>5. Copies(j) > 0 /\ Count(calls, Hands(j)) = 0
  <2>1. In(queued, j) = 1 \/ In(active, j) = 1 \/ In(waiting, j) = 1
    BY <1>1 DEF Known, In
  <2> QED BY <1>2, <2>1, CopiesAreNumber DEF Copies, OneCopy
<1>6. Count(calls, Burials(j)) = 0
  <2>1. Burials(j) \subseteq Hands(j)
    BY DEF Burials, Hands, Call
  <2>2. Count(calls, Burials(j)) <= Count(calls, Hands(j)) /\ Count(calls, Burials(j)) \in Nat
    BY <1>3, <2>1, CountSubset, Numbers
  <2> QED BY <1>5, <2>2
<1> QED BY <1>2, <1>4, <1>5, <1>6 DEF RowToCome

\* A job that is queued, running or waiting has a row in one of the tables or will
\* have, whatever overtakes what, unless a write of it was lost: a restart finds it.
THEOREM LiveJobsSurvive == Spec => []NoLiveJobLost
<1>1. Init => Types /\ Down /\ LiveJobs
  BY TypesFirst, LiveJobsFirst
<1>2. (Types /\ Down /\ LiveJobs) /\ [Next]_vars => (Types /\ Down /\ LiveJobs)'
  BY TypesAndDownKept, LiveJobsKept
<1>3. Types /\ Down /\ LiveJobs => NoLiveJobLost
  BY LiveJobsAreFound
<1> QED BY <1>1, <1>2, <1>3, PTL DEF Spec

-----------------------------------------------------------------------------
(* The tables follow the engine *)

Running(j) == In(queued, j) + In(active, j) + In(waiting, j)
InsertsOf(j, n) == {c \in Call : c.op.job = j /\ c.op.kind = "insert" /\ c.op.attempts = n}
BuriedCalls(j) == {c \in Call : c.op.job = j /\ c.op.kind = "dead" /\ c.stage = "written"}
Discards(j) == {c \in Call : c.op.job = j /\ c.op.kind = "discard"}

\* Nothing went wrong with a write of the job.
Clean(j) == up /\ j \notin strayed /\ j \notin dropped

\* The tables will have a row of the job, and one with n attempts.
RowTold(j) == HasRow(Projected, j) \/ Count(calls, Inserts(j)) > 0
Told(j, n) ==
  \/ HasRow(Projected, j) /\ Projected.rows[j].attempts = n
  \/ Count(calls, InsertsOf(j, n)) > 0

\* A job is held once, or one call is about it; its insert comes before.
OneAtATime(j) ==
  /\ Running(j) + Count(calls, Others(j)) <= 1
  /\ Count(calls, Inserts(j)) <= 1 /\ InsertsFirst(calls, j)
NewRow(j) == Count(calls, Inserts(j)) > 0 => ~HasRow(Projected, j)
CopiesTold(j) ==
  /\ Holds(queued, j) => Told(j, queued[j].attempts)
  /\ Holds(active, j) => Told(j, active[j].attempts)
  /\ Holds(waiting, j) => Told(j, waiting[j].attempts)
NothingTold(j) == Running(j) + Count(calls, Others(j)) = 0 => ~RowTold(j)
CallTold(j, c) ==
  IF c.stage # "written"
  THEN RowTold(j) /\ (c.op.kind = "delay" => Told(j, c.copy.attempts))
  ELSE IF c.op.kind = "dead" THEN ~RowTold(j) ELSE Told(j, c.copy.attempts)
CallsTold(j) == \A c \in ToSet(calls) : c \in Others(j) => CallTold(j, c)
LettersTold(j) ==
  Entries(dlq, j) + Count(calls, BuriedCalls(j))
    = Entries(Projected.dead, j) + Count(calls, Discards(j))
Ungiven(j) ==
  nextId <= j => Running(j) = 0 /\ Count(calls, About(j)) = 0 /\ ~HasRow(Projected, j)

\* What the engine holds of a clean job and what the tables will say of it go
\* together, and what a call about it will do to either is the same for both.
Follows(j) ==
  Clean(j) => /\ OneAtATime(j) /\ NewRow(j) /\ CopiesTold(j) /\ NothingTold(j)
              /\ CallsTold(j) /\ LettersTold(j) /\ Ungiven(j)
RowsFollow == \A j \in Job : Follows(j)

\* The sets of calls once more.
LEMMA MoreCallSets ==
  ASSUME NEW j
  PROVE  /\ BuriedCalls(j) \subseteq About(j) /\ Discards(j) \subseteq About(j)
         /\ \A n : InsertsOf(j, n) \subseteq Inserts(j) /\ InsertsOf(j, n) \subseteq About(j)
         /\ \A c \in Call :
              /\ c \in BuriedCalls(j) <=> c.op.job = j /\ c.op.kind = "dead" /\ c.stage = "written"
              /\ c \in Discards(j) <=> c.op.job = j /\ c.op.kind = "discard"
              /\ \A n : c \in InsertsOf(j, n)
                          <=> c.op.job = j /\ c.op.kind = "insert" /\ c.op.attempts = n
BY DEF BuriedCalls, Discards, InsertsOf, Inserts, About

\* Whatever is told with a number is told.
LEMMA ToldIsTold ==
  ASSUME Types, NEW j
  PROVE  \A n : Told(j, n) => RowTold(j)
<1>1. calls \in Seq(Call)
  BY DEF Types, CallTypes
<1>2. \A n : Count(calls, InsertsOf(j, n)) <= Count(calls, Inserts(j))
  BY <1>1, MoreCallSets, CountSubset
<1> QED BY <1>2, Numbers DEF Told, RowTold

\* The numbers of a job.
LEMMA RunningIsNumber ==
  ASSUME Types, NEW j \in Job
  PROVE  /\ Running(j) \in Nat
         /\ In(queued, j) \in 0..1 /\ In(active, j) \in 0..1 /\ In(waiting, j) \in 0..1
         /\ Count(calls, Others(j)) \in Nat /\ Count(calls, Inserts(j)) \in Nat
         /\ (Running(j) = 0 <=> ~Known(j))
         /\ (Holds(queued, j) <=> In(queued, j) = 1) /\ (Holds(active, j) <=> In(active, j) = 1)
         /\ (Holds(waiting, j) <=> In(waiting, j) = 1)
BY Numbers DEF Running, In, Known

\* A job that a step does not touch is followed as before.
LEMMA SameJobFollows ==
  ASSUME Types, Types', NEW j \in Job, SameJob(j), Follows(j)
  PROVE  Follows(j)'
<1>1. SUFFICES ASSUME Clean(j)'
               PROVE  /\ OneAtATime(j)' /\ NewRow(j)' /\ CopiesTold(j)' /\ NothingTold(j)'
                      /\ CallsTold(j)' /\ LettersTold(j)' /\ Ungiven(j)'
  BY DEF Follows
<1>2. /\ OneAtATime(j) /\ NewRow(j) /\ CopiesTold(j) /\ NothingTold(j)
      /\ CallsTold(j) /\ LettersTold(j) /\ Ungiven(j)
  BY <1>1 DEF Follows, Clean, SameJob, Lasting
<1>3. /\ Projected'.rows[j] = Projected.rows[j]
      /\ Entries(Projected'.dead, j) = Entries(Projected.dead, j)
  BY DEF SameJob, SameTables, Agree
<1>4. /\ Count(calls', Others(j)) = Count(calls, Others(j))
      /\ Count(calls', Inserts(j)) = Count(calls, Inserts(j))
      /\ Count(calls', BuriedCalls(j)) = Count(calls, BuriedCalls(j))
      /\ Count(calls', Discards(j)) = Count(calls, Discards(j))
      /\ Count(calls', About(j)) = Count(calls, About(j))
      /\ \A n : Count(calls', InsertsOf(j, n)) = Count(calls, InsertsOf(j, n))
  BY CallSets, MoreCallSets DEF SameJob, SameCalls
<1>5. Running(j)' = Running(j)
  BY DEF SameJob, SameEngine, Running, In, Holds
<1>6. ASSUME NEW n PROVE Told(j, n)' = Told(j, n)
  BY <1>3, <1>4 DEF Told, HasRow
<1>7. RowTold(j)' = RowTold(j)
  BY <1>3, <1>4 DEF RowTold, HasRow
<1>8. OneAtATime(j)'
  BY <1>2, <1>4, <1>5 DEF OneAtATime, SameJob, SameCalls
<1>9. NewRow(j)' /\ NothingTold(j)'
  BY <1>2, <1>3, <1>4, <1>5, <1>7 DEF NewRow, NothingTold, HasRow
<1>10. CopiesTold(j)'
  BY <1>2, <1>3, <1>4 DEF CopiesTold, Told, HasRow, Holds, SameJob, SameEngine
<1>11. CallsTold(j)'
  <2> SUFFICES ASSUME NEW c \in ToSet(calls'), c \in Others(j) PROVE CallTold(j, c)'
    BY DEF CallsTold
  <2>1. c \in ToSet(calls)
    BY CallSets DEF SameJob, SameCalls
  <2>2. CallTold(j, c)
    BY <1>2, <2>1 DEF CallsTold
  <2> QED BY <1>3, <1>4, <2>2 DEF CallTold, Told, RowTold, HasRow
<1>12. LettersTold(j)'
  BY <1>2, <1>3, <1>4 DEF LettersTold, SameJob, SameEngine
<1>13. Ungiven(j)'
  <2>1. nextId' <= j => nextId <= j
    BY NextIdNumbers DEF SameJob, SameEngine, Job
  <2> QED BY <1>2, <1>3, <1>4, <1>5, <2>1 DEF Ungiven, HasRow
<1> QED BY <1>8, <1>9, <1>10, <1>11, <1>12, <1>13

\* A step of the engine writes nothing, so a job clean after it was so before.
LEMMA StillClean ==
  ASSUME NEW j \in Job, UNCHANGED writing, Lasting, Follows(j), Clean(j)'
  PROVE  /\ OneAtATime(j) /\ NewRow(j) /\ CopiesTold(j) /\ NothingTold(j)
         /\ CallsTold(j) /\ LettersTold(j) /\ Ungiven(j)
         /\ Projected' = Projected
BY NothingWritten DEF Follows, Clean, Lasting

\* The job pushed is new: nothing is told of it, and now it is held and inserted.
LEMMA PushFollows ==
  ASSUME Types, Types', Push, NEW j \in Job, j = nextId, Follows(j)
  PROVE  Follows(j)'
<1>1. SUFFICES ASSUME Clean(j)'
               PROVE  /\ OneAtATime(j)' /\ NewRow(j)' /\ CopiesTold(j)' /\ NothingTold(j)'
                      /\ CallsTold(j)' /\ LettersTold(j)' /\ Ungiven(j)'
  BY DEF Follows
<1>2. /\ OneAtATime(j) /\ LettersTold(j) /\ Ungiven(j) /\ Projected' = Projected
  BY <1>1, StillClean DEF Push, history, Lasting
<1>3. PICK copy \in Copy, state \in {"waiting", "waiting_children"} :
        /\ New(InsertJob(j, copy, state), "return", Nothing) \in Call
        /\ Added(New(InsertJob(j, copy, state), "return", Nothing))
        /\ \/ queued' = Put(queued, j, copy) /\ waiting' = waiting
           \/ waiting' = Put(waiting, j, copy) /\ queued' = queued
  BY PushIssues
<1> DEFINE c == New(InsertJob(j, copy, state), "return", Nothing)
<1>4. /\ c.op.job = j /\ c.op.kind = "insert" /\ c.op.attempts = copy.attempts
      /\ c \in Call /\ Added(c)
  BY <1>3 DEF New, InsertJob
<1> HIDE DEF c
<1>5. /\ c \in Inserts(j) /\ c \in InsertsOf(j, copy.attempts) /\ c \notin Others(j)
      /\ c \notin BuriedCalls(j) /\ c \notin Discards(j)
  BY <1>4, CallSets, MoreCallSets
<1>6. Running(j) = 0 /\ Count(calls, About(j)) = 0 /\ ~HasRow(Projected, j)
  BY <1>2, TypeParts DEF Ungiven
<1>7. Count(calls, Others(j)) = 0 /\ Count(calls, Inserts(j)) = 0
  <2>1. calls \in Seq(Call)
    BY DEF Types, CallTypes
  <2>2. /\ Count(calls, Others(j)) <= Count(calls, About(j))
        /\ Count(calls, Inserts(j)) <= Count(calls, About(j))
    BY <2>1, CallSets, CountSubset
  <2> QED BY <1>6, <2>2, Numbers
<1>8. /\ Count(calls', Others(j)) = 0 /\ Count(calls', Inserts(j)) = 1
      /\ Count(calls', InsertsOf(j, copy.attempts)) > 0
      /\ Count(calls', BuriedCalls(j)) = Count(calls, BuriedCalls(j))
      /\ Count(calls', Discards(j)) = Count(calls, Discards(j))
  BY <1>4, <1>5, <1>7, Numbers DEF Added
<1>9. InsertsFirst(calls', j)
  BY <1>2, <1>4, <1>7 DEF Added, OneAtATime
<1>10. /\ In(queued, j) = 0 /\ In(active, j) = 0 /\ In(waiting, j) = 0
  BY <1>6, RunningIsNumber DEF Running
<1>11. active' = active /\ dlq' = dlq
  BY DEF Push
<1>12. /\ In(queued', j) + In(waiting', j) = 1 /\ In(active', j) = 0
       /\ In(queued', j) \in 0..1 /\ In(waiting', j) \in 0..1
  <2>1. In(queued', j) \in 0..1 /\ In(waiting', j) \in 0..1
    BY DEF In
  <2> QED BY <1>3, <1>10, <1>11, <2>1, TypeParts, InContainer
<1>13. OneAtATime(j)'
  BY <1>8, <1>9, <1>12 DEF OneAtATime, Running
<1>14. NewRow(j)' /\ NothingTold(j)' /\ LettersTold(j)'
  BY <1>2, <1>6, <1>8, <1>11, <1>12 DEF NewRow, HasRow, NothingTold, LettersTold, Running
<1>15. CopiesTold(j)'
  <2>1. ~Holds(active, j)'
    BY <1>12 DEF In
  <2>2. Holds(queued, j)' => queued'[j] = copy
    BY <1>3, <1>10, TypeParts DEF In, Holds, Put, Container
  <2>3. Holds(waiting, j)' => waiting'[j] = copy
    BY <1>3, <1>10, TypeParts DEF In, Holds, Put, Container
  <2> QED BY <1>8, <2>1, <2>2, <2>3 DEF CopiesTold, Told, Holds
<1>16. CallsTold(j)'
  <2> SUFFICES ASSUME NEW d \in ToSet(calls'), d \in Others(j) PROVE FALSE
    BY DEF CallsTold
  <2>1. calls' \in Seq(Call)
    BY DEF Types, CallTypes
  <2>2. PICK i \in DOMAIN calls' : calls'[i] = d
    BY DEF ToSet
  <2> QED BY <1>8, <2>1, <2>2, CountIsNumber
<1>17. Ungiven(j)'
  BY NextIdNumbers DEF Push, Ungiven
<1> QED BY <1>13, <1>14, <1>15, <1>16, <1>17

\* A job that is pulled or released is where it was not, and told the same.
LEMMA MoveFollows ==
  ASSUME Types, Types', NEW j \in Job, Pull(j) \/ ReleaseDependents(j), Follows(j)
  PROVE  Follows(j)'
<1>1. SUFFICES ASSUME Clean(j)'
               PROVE  /\ OneAtATime(j)' /\ NewRow(j)' /\ CopiesTold(j)' /\ NothingTold(j)'
                      /\ CallsTold(j)' /\ LettersTold(j)' /\ Ungiven(j)'
  BY DEF Follows
<1>2. /\ OneAtATime(j) /\ NewRow(j) /\ CopiesTold(j) /\ NothingTold(j)
      /\ CallsTold(j) /\ LettersTold(j) /\ Ungiven(j)
      /\ Projected' = Projected
  BY <1>1, StillClean DEF Pull, ReleaseDependents, history, Lasting
<1>3. calls' = calls /\ dlq' = dlq /\ nextId' = nextId
  BY DEF Pull, ReleaseDependents
<1>4. Running(j) <= 1
  BY <1>2, RunningIsNumber DEF OneAtATime
<1>5. Running(j)' = Running(j) /\ CopiesTold(j)'
  <2>1. CASE Pull(j)
    <3>1. queued[j] \in Copy /\ Holds(queued, j)
      BY <2>1, TypeParts DEF Pull, Container, Holds
    <3>2. In(queued', j) = 0 /\ In(active', j) = 1 /\ waiting' = waiting /\ In(queued, j) = 1
      BY <2>1, <3>1, TypeParts, InContainer DEF Pull
    <3>3. In(active, j) = 0 /\ In(waiting, j) = 0
      BY <1>4, <3>2, RunningIsNumber DEF Running
    <3>4. active'[j] = queued[j] /\ ~Holds(queued, j)' /\ ~Holds(waiting, j)'
      BY <2>1, <3>2, <3>3, TypeParts DEF Pull, Put, Container, In, Holds
    <3>5. Told(j, queued[j].attempts)
      BY <1>2, <3>1 DEF CopiesTold
    <3> QED BY <1>2, <1>3, <3>2, <3>3, <3>4, <3>5 DEF CopiesTold, Told, Running
  <2>2. CASE ReleaseDependents(j)
    <3>1. waiting[j] \in Copy /\ Holds(waiting, j)
      BY <2>2, TypeParts DEF ReleaseDependents, Container, Holds
    <3>2. In(waiting', j) = 0 /\ In(queued', j) = 1 /\ active' = active /\ In(waiting, j) = 1
      BY <2>2, <3>1, TypeParts, InContainer DEF ReleaseDependents
    <3>3. In(queued, j) = 0 /\ In(active, j) = 0
      BY <1>4, <3>2, RunningIsNumber DEF Running
    <3>4. queued'[j] = waiting[j] /\ ~Holds(active, j)' /\ ~Holds(waiting, j)'
      BY <2>2, <3>2, <3>3, TypeParts DEF ReleaseDependents, Put, Container, In, Holds
    <3>5. Told(j, waiting[j].attempts)
      BY <1>2, <3>1 DEF CopiesTold
    <3> QED BY <1>2, <1>3, <3>2, <3>3, <3>4, <3>5 DEF CopiesTold, Told, Running
  <2> QED BY <2>1, <2>2
<1> QED BY <1>2, <1>3, <1>5
        DEF OneAtATime, NewRow, NothingTold, CallsTold, CallTold, Told, RowTold, LettersTold,
        Ungiven

\* A job taken out of the only place that holds it.
LEMMA TakenOut ==
  ASSUME Types, NEW j \in Job, NEW in \in {queued, active, waiting}, Holds(in, j),
         \/ in = queued /\ queued' = Without(queued, j) /\ UNCHANGED <<active, waiting>>
         \/ in = active /\ active' = Without(active, j) /\ UNCHANGED <<queued, waiting>>
         \/ in = waiting /\ waiting' = Without(waiting, j) /\ UNCHANGED <<queued, active>>
  PROVE  Running(j)' = Running(j) - 1 /\ Running(j) > 0
<1>1. /\ In(Without(queued, j), j) = 0 /\ In(Without(active, j), j) = 0
      /\ In(Without(waiting, j), j) = 0
  BY TypeParts, InContainer
<1> QED BY <1>1, RunningIsNumber DEF Running

\* A job taken out of its place by a call that now has to write so: the row the call
\* is about is told, and nothing else of the job is held.
LEMMA TakenFollows ==
  ASSUME Types, Types', NEW j \in Job, Running(j)' = Running(j) - 1, Running(j) > 0,
         NEW c \in Call, Added(c), c.op.job = j, c.op.kind # "insert", c.stage = "due",
         c.op.kind = "delay" => Told(j, c.copy.attempts),
         Entries(dlq', j) = Entries(dlq, j) + (IF c.op.kind = "discard" THEN 1 ELSE 0),
         UNCHANGED <<nextId, writing>>, Lasting, Follows(j)
  PROVE  Follows(j)'
<1>1. SUFFICES ASSUME Clean(j)'
               PROVE  /\ OneAtATime(j)' /\ NewRow(j)' /\ CopiesTold(j)' /\ NothingTold(j)'
                      /\ CallsTold(j)' /\ LettersTold(j)' /\ Ungiven(j)'
  BY DEF Follows
<1>2. /\ OneAtATime(j) /\ NewRow(j) /\ CopiesTold(j) /\ LettersTold(j) /\ Ungiven(j)
      /\ Projected' = Projected
  BY <1>1, StillClean
<1>3. /\ c \in Others(j) /\ c \notin Inserts(j) /\ c \notin BuriedCalls(j)
      /\ c \in Discards(j) <=> c.op.kind = "discard"
      /\ \A n : c \notin InsertsOf(j, n)
  BY CallSets, MoreCallSets
<1>4. /\ Count(calls', Others(j)) = Count(calls, Others(j)) + 1
      /\ Count(calls', Inserts(j)) = Count(calls, Inserts(j))
      /\ Count(calls', BuriedCalls(j)) = Count(calls, BuriedCalls(j))
      /\ Count(calls', Discards(j))
           = Count(calls, Discards(j)) + (IF c.op.kind = "discard" THEN 1 ELSE 0)
      /\ \A n : Count(calls', InsertsOf(j, n)) = Count(calls, InsertsOf(j, n))
  BY <1>3, Numbers DEF Added
<1>5. /\ Running(j) = 1 /\ Count(calls, Others(j)) = 0 /\ Running(j)' = 0
      /\ Count(calls', Others(j)) = 1
  BY <1>2, <1>4, RunningIsNumber DEF OneAtATime
<1>6. ~Holds(queued, j)' /\ ~Holds(active, j)' /\ ~Holds(waiting, j)'
  <2>1. In(queued', j) = 0 /\ In(active', j) = 0 /\ In(waiting', j) = 0
    <3>1. In(queued', j) \in 0..1 /\ In(active', j) \in 0..1 /\ In(waiting', j) \in 0..1
      BY DEF In
    <3> QED BY <1>5, <3>1 DEF Running
  <2> QED BY <2>1 DEF In
<1>7. RowTold(j)
  <2>1. Known(j)
    BY RunningIsNumber
  <2> QED BY <1>2, <2>1, ToldIsTold DEF Known, CopiesTold
<1>8. RowTold(j)'
  BY <1>2, <1>4, <1>7 DEF RowTold, HasRow
<1>9. OneAtATime(j)'
  BY <1>2, <1>3, <1>4, <1>5 DEF OneAtATime, Added
<1>10. NewRow(j)' /\ CopiesTold(j)' /\ NothingTold(j)'
  BY <1>2, <1>4, <1>5, <1>6 DEF NewRow, CopiesTold, NothingTold, HasRow
<1>11. CallsTold(j)'
  <2> SUFFICES ASSUME NEW d \in ToSet(calls'), d \in Others(j) PROVE CallTold(j, d)'
    BY DEF CallsTold
  <2>1. d = c
    <3> SUFFICES ASSUME d \in ToSet(calls) PROVE FALSE
      BY DEF Added
    <3>1. PICK i \in DOMAIN calls : calls[i] = d
      BY DEF ToSet
    <3> QED BY <1>5, <3>1, Counted
  <2>2. c.op.kind = "delay" => Told(j, c.copy.attempts)'
    BY <1>2, <1>4 DEF Told, HasRow
  <2> QED BY <1>8, <2>1, <2>2 DEF CallTold
<1>12. LettersTold(j)'
  BY <1>2, <1>4, Numbers DEF LettersTold
<1>13. Ungiven(j)'
  BY <1>2, <1>5 DEF Ungiven
<1> QED BY <1>9, <1>10, <1>11, <1>12, <1>13

\* A failed job: its row is told, or nothing is written and it is not clean.
LEMMA FailFollows ==
  ASSUME Types, Types', NEW j \in Job, Fail(j), Follows(j)
  PROVE  Follows(j)'
<1>1. /\ Holds(active, j) /\ active' = Without(active, j) /\ Lasting
      /\ UNCHANGED <<queued, waiting, dlq, nextId, writing>>
  BY DEF Fail, Lasting
<1>2. Running(j)' = Running(j) - 1 /\ Running(j) > 0 /\ Entries(dlq', j) = Entries(dlq, j) + 0
  BY <1>1, TakenOut, Numbers
<1>3. ASSUME NEW c \in Call, Added(c), c.op.job = j, c.op.kind \in {"fail", "dead"},
             c.stage = "due"
      PROVE  Follows(j)'
  BY <1>1, <1>2, <1>3, TakenFollows
<1>4. PICK copy \in Copy :
        \/ /\ New(FailJob(j, copy.attempts), "queue", copy) \in Call
           /\ Added(New(FailJob(j, copy.attempts), "queue", copy))
        \/ /\ New(MoveToDlq(j, copy.attempts), "dlq", copy) \in Call
           /\ Added(New(MoveToDlq(j, copy.attempts), "dlq", copy))
        \/ calls' = calls /\ strayed' = strayed \cup {j}
  BY FailIssues
<1>5. CASE strayed' = strayed \cup {j}
  BY <1>5 DEF Follows, Clean
<1> DEFINE a == New(FailJob(j, copy.attempts), "queue", copy)
           b == New(MoveToDlq(j, copy.attempts), "dlq", copy)
<1>6. /\ a.op.job = j /\ a.op.kind \in {"fail", "dead"} /\ a.stage = "due"
      /\ b.op.job = j /\ b.op.kind \in {"fail", "dead"} /\ b.stage = "due"
  BY DEF New, FailJob, MoveToDlq
<1> HIDE DEF a, b
<1>7. a \in Call /\ Added(a) => Follows(j)'
  BY <1>3, <1>6
<1>8. b \in Call /\ Added(b) => Follows(j)'
  BY <1>3, <1>6
<1> QED BY <1>4, <1>5, <1>7, <1>8 DEF a, b

\* A stalled job.
LEMMA StallFollows ==
  ASSUME Types, Types', NEW j \in Job, Stall(j), Follows(j)
  PROVE  Follows(j)'
<1> DEFINE c == New(MoveToDlq(j, active[j].attempts), "dlq", active[j])
<1>1. /\ Holds(active, j) /\ active' = Without(active, j) /\ Lasting
      /\ UNCHANGED <<queued, waiting, dlq, nextId, writing>>
  BY DEF Stall, Lasting
<1>2. Running(j)' = Running(j) - 1 /\ Running(j) > 0 /\ Entries(dlq', j) = Entries(dlq, j) + 0
  BY <1>1, TakenOut, Numbers
<1>3. /\ c.op.job = j /\ c.op.kind = "dead" /\ c.stage = "due" /\ c \in Call /\ Added(c)
  BY StallIssues DEF New, MoveToDlq
<1> HIDE DEF c
<1> QED BY <1>1, <1>2, <1>3, TakenFollows

\* A delayed job: the row keeps the attempts of the copy in the caller's hands.
LEMMA DelayFollows ==
  ASSUME Types, Types', NEW j \in Job, Delay(j), Follows(j)
  PROVE  Follows(j)'
<1>1. SUFFICES ASSUME Clean(j)' PROVE Follows(j)'
  BY DEF Follows
<1> DEFINE c == New(MoveToDelayed(j), "queue", active[j])
<1>2. /\ Holds(active, j) /\ active' = Without(active, j) /\ Lasting
      /\ UNCHANGED <<queued, waiting, dlq, nextId, writing>>
  BY DEF Delay, Lasting, history
<1>3. Running(j)' = Running(j) - 1 /\ Running(j) > 0 /\ Entries(dlq', j) = Entries(dlq, j) + 0
  BY <1>2, TakenOut, Numbers
<1>4. /\ c.op.job = j /\ c.op.kind = "delay" /\ c.stage = "due" /\ c \in Call /\ Added(c)
      /\ c.copy = active[j]
  BY DelayIssues DEF New, MoveToDelayed
<1> HIDE DEF c
<1>5. Told(j, c.copy.attempts)
  <2>1. CopiesTold(j)
    BY <1>1, <1>2, StillClean
  <2> QED BY <1>2, <1>4, <2>1 DEF CopiesTold
<1> QED BY <1>2, <1>3, <1>4, <1>5, TakenFollows

\* A cancelled job.
LEMMA CancelFollows ==
  ASSUME Types, Types', NEW j \in Job, Cancel(j), Follows(j)
  PROVE  Follows(j)'
<1> DEFINE c == New(CancelJob(j), "return", Nothing)
<1>1. UNCHANGED <<dlq, nextId, writing>> /\ Lasting
  BY DEF Cancel, Lasting
<1>2. Running(j)' = Running(j) - 1 /\ Running(j) > 0 /\ Entries(dlq', j) = Entries(dlq, j) + 0
  <2>1. CASE Holds(queued, j) /\ queued' = Without(queued, j) /\ UNCHANGED <<active, waiting>>
    BY <1>1, <2>1, TakenOut, Numbers
  <2>2. CASE Holds(active, j) /\ active' = Without(active, j) /\ UNCHANGED <<queued, waiting>>
    BY <1>1, <2>2, TakenOut, Numbers
  <2>3. CASE Holds(waiting, j) /\ waiting' = Without(waiting, j) /\ UNCHANGED <<queued, active>>
    BY <1>1, <2>3, TakenOut, Numbers
  <2> QED BY <2>1, <2>2, <2>3 DEF Cancel
<1>3. /\ c.op.job = j /\ c.op.kind = "cancel" /\ c.stage = "due" /\ c \in Call /\ Added(c)
  BY CancelIssues DEF New, CancelJob
<1> HIDE DEF c
<1> QED BY <1>1, <1>2, <1>3, TakenFollows

\* An acknowledged job.
LEMMA AckFollows ==
  ASSUME Types, Types', NEW j \in Job, NEW result \in BOOLEAN, Ack(j, result), Follows(j)
  PROVE  Follows(j)'
<1> DEFINE a == New(CancelJob(j), "return", Nothing)
           b == New(AckJob(j, result), "return", Nothing)
<1>1. /\ Holds(active, j) /\ active' = Without(active, j) /\ Lasting
      /\ UNCHANGED <<queued, waiting, dlq, nextId, writing>>
  BY DEF Ack, Lasting
<1>2. Running(j)' = Running(j) - 1 /\ Running(j) > 0 /\ Entries(dlq', j) = Entries(dlq, j) + 0
  BY <1>1, TakenOut, Numbers
<1>3. /\ a.op.job = j /\ a.op.kind = "cancel" /\ a.stage = "due"
      /\ b.op.job = j /\ b.op.kind = "ack" /\ b.stage = "due"
      /\ (a \in Call /\ Added(a)) \/ (b \in Call /\ Added(b))
  BY AckIssues DEF New, CancelJob, AckJob
<1> HIDE DEF a, b
<1>4. a \in Call /\ Added(a) => Follows(j)'
  BY <1>1, <1>2, <1>3, TakenFollows
<1>5. b \in Call /\ Added(b) => Follows(j)'
  BY <1>1, <1>2, <1>3, TakenFollows
<1> QED BY <1>3, <1>4, <1>5

\* A discarded job is a dead letter at once; its row is told until the write.
LEMMA DiscardFollows ==
  ASSUME Types, Types', NEW j \in Job, Discard(j), Follows(j)
  PROVE  Follows(j)'
<1> DEFINE c == New(DiscardJob(j), "return", Nothing)
<1>1. UNCHANGED <<nextId, writing>> /\ Lasting
  BY DEF Discard, Lasting
<1>2. Running(j)' = Running(j) - 1 /\ Running(j) > 0
  <2>1. CASE Holds(queued, j) /\ queued' = Without(queued, j) /\ active' = active
    BY <2>1, TakenOut DEF Discard
  <2>2. CASE Holds(active, j) /\ active' = Without(active, j) /\ queued' = queued
    BY <2>2, TakenOut DEF Discard
  <2> QED BY <2>1, <2>2 DEF Discard
<1>3. /\ c.op.job = j /\ c.op.kind = "discard" /\ c.stage = "due" /\ c \in Call /\ Added(c)
  BY DiscardIssues DEF New, DiscardJob
<1>4. Entries(dlq', j) = Entries(dlq, j) + 1
  BY DiscardBuries
<1> HIDE DEF c
<1> QED BY <1>1, <1>2, <1>3, <1>4, TakenFollows

\* A retried letter writes nothing, so its job is not clean any more.
LEMMA RetryFollows ==
  ASSUME Types, Types', RetryDlq, NEW j \in Job, Follows(j)
  PROVE  Follows(j)'
<1>1. PICK letters \in Seq(DeadLetters), rest \in Seq(DeadLetters) :
        /\ Retry(letters, rest)
        /\ j \in JobsOf(letters) <=> Entries(letters, j) > 0
        /\ Entries(letters, j) + Entries(rest, j) = Entries(dlq, j)
  BY RetryChooses DEF Types
<1>2. CASE j \in JobsOf(letters)
  <2>1. j \in strayed'
    BY <1>1, <1>2 DEF Retry, JobsOf
  <2> QED BY <2>1 DEF Follows, Clean
<1>3. CASE j \notin JobsOf(letters)
  <2>1. queued'[j] = queued[j]
    BY <1>1, <1>3, RetryDoes DEF Types
  <2>2. /\ active' = active /\ waiting' = waiting /\ dlq' = rest /\ nextId' = nextId
        /\ calls' = calls /\ writing' = writing /\ up' = up /\ dropped' = dropped
        /\ strayed \subseteq strayed'
    BY <1>1 DEF Retry
  <2>3. Entries(letters, j) \in Nat /\ Entries(rest, j) \in Nat
    BY EntriesCount
  <2>4. SameEngine(j)
    BY <1>1, <1>3, <2>1, <2>2, <2>3, NextIdNumbers DEF SameEngine
  <2>5. SameCalls(j) /\ SameTables(j)
    BY <2>2, SameUnchanged, NothingWritten
  <2>6. SameJob(j)
    BY <2>2, <2>4, <2>5 DEF SameJob, Lasting
  <2> QED BY <2>6, SameJobFollows
<1> QED BY <1>2, <1>3

\* The write of the job's own call, done by the tables in their turn.
InTurn(i, j) ==
  /\ calls[i].stage # "written" /\ j = calls[i].op.job /\ Served(i) /\ ~Overtakes(i)
  /\ Agree(Projected', Exec(Projected, calls[i].op), j) /\ UNCHANGED engine

\* What Follows says of a clean job.
FollowsCleanly(j) ==
  /\ OneAtATime(j) /\ NewRow(j) /\ CopiesTold(j) /\ NothingTold(j)
  /\ CallsTold(j) /\ LettersTold(j) /\ Ungiven(j)

\* What such a write does.
LEMMA InTurnWrites ==
  ASSUME Types, NEW i \in DOMAIN calls, NEW j \in Job, InTurn(i, j)
  PROVE  /\ Projected'.rows[j] = RowAfter(Projected.rows[j], calls[i].op)
         /\ Projected.rows[j] \in Row \cup {Nothing}
         /\ Entries(Projected'.dead, j) =
              Entries(Projected.dead, j)
                + (IF Buries(Projected.rows[j], calls[i].op) THEN 1 ELSE 0)
         /\ Running(j)' = Running(j) /\ dlq' = dlq /\ nextId' = nextId
<1>1. calls[i].op \in Op /\ Projected \in Tables
  BY TypeParts, AcceptedOps
<1>2. Projected.rows[j] \in Row \cup {Nothing}
  BY <1>1 DEF Tables
<1>3. UNCHANGED <<queued, active, waiting, dlq, nextId>> /\ calls[i].op.job = j
  BY DEF InTurn, engine
<1> QED BY <1>1, <1>2, <1>3, ExecDoesTo DEF InTurn, Agree, Running, In, Holds

\* Of an id that is not given out there is no call.
LEMMA GivenOut ==
  ASSUME Types, NEW i \in DOMAIN calls, Ungiven(calls[i].op.job)
  PROVE  ~(nextId <= calls[i].op.job)
<1>1. calls[i] \in About(calls[i].op.job)
  BY TypeParts, CallSets
<1> QED BY <1>1, Counted DEF Ungiven

\* The insert of a job: the row it told of is there.
LEMMA InsertServed ==
  ASSUME Types, Types', NEW i \in DOMAIN calls, NEW j \in Job, InTurn(i, j),
         calls[i].op.kind = "insert", FollowsCleanly(j)
  PROVE  FollowsCleanly(j)'
<1>1. calls[i] \in Call /\ calls[i].op \in Op /\ calls[i].op.job = j /\ calls \in Seq(Call)
  BY TypeParts DEF InTurn, Types, CallTypes
<1>2. Ended(i)
  <2>1. calls[i].next = "return"
    BY <1>1 DEF Call
  <2> QED BY <2>1, CallServed DEF InTurn, Types
<1>3. /\ calls[i] \in Inserts(j) /\ calls[i] \notin Others(j)
      /\ calls[i] \notin BuriedCalls(j) /\ calls[i] \notin Discards(j)
  BY <1>1, CallSets, MoreCallSets
<1>4. Count(calls, Inserts(j)) = 1
  BY <1>3, Counted, Numbers DEF FollowsCleanly, OneAtATime
<1>5. /\ Count(calls', Inserts(j)) = 0 /\ Count(calls', Others(j)) = Count(calls, Others(j))
      /\ Count(calls', BuriedCalls(j)) = Count(calls, BuriedCalls(j))
      /\ Count(calls', Discards(j)) = Count(calls, Discards(j))
  BY <1>2, <1>3, <1>4, Numbers DEF Ended
<1>6. ~HasRow(Projected, j) /\ RowTold(j)
  BY <1>4 DEF FollowsCleanly, NewRow, RowTold
<1>7. HasRow(Projected', j) /\ Projected'.rows[j].attempts = calls[i].op.attempts
  BY <1>1, InTurnWrites, RowAfterIsRow DEF HasRow
<1>8. ASSUME NEW n, Told(j, n) PROVE n = calls[i].op.attempts
  <2>1. Count(calls, InsertsOf(j, n)) > 0
    BY <1>6, <1>8 DEF Told
  <2>2. PICK k \in DOMAIN calls : calls[k] \in InsertsOf(j, n)
    <3> SUFFICES ASSUME \A k \in DOMAIN calls : calls[k] \notin InsertsOf(j, n) PROVE FALSE
      OBVIOUS
    <3>1. Count(calls, InsertsOf(j, n)) = 0
      BY <1>1, CountIsNumber
    <3> QED BY <2>1, <3>1
  <2>3. calls[k] \in Inserts(j) /\ calls[k].op.attempts = n
    BY <2>2 DEF Inserts, InsertsOf
  <2>4. k = i
    BY <1>1, <1>3, <1>4, <2>3, CountOne
  <2> QED BY <2>3, <2>4
<1>9. UNCHANGED <<queued, active, waiting>>
  BY DEF InTurn, engine
<1>10. OneAtATime(j)' /\ NewRow(j)'
  BY <1>2, <1>5, InTurnWrites DEF FollowsCleanly, OneAtATime, NewRow, Ended
<1>11. CopiesTold(j)'
  BY <1>7, <1>8, <1>9 DEF FollowsCleanly, CopiesTold, Told, Holds
<1>12. NothingTold(j)' /\ Ungiven(j)'
  BY <1>1, <1>5, <1>6, InTurnWrites, GivenOut DEF FollowsCleanly, NothingTold, Ungiven
<1>13. CallsTold(j)'
  <2> SUFFICES ASSUME NEW d \in ToSet(calls'), d \in Others(j) PROVE CallTold(j, d)'
    BY DEF CallsTold
  <2>1. CallTold(j, d)
    BY <1>2 DEF Ended, FollowsCleanly, CallsTold
  <2>2. Told(j, d.copy.attempts) => Told(j, d.copy.attempts)'
    <3>1. Told(j, d.copy.attempts) => d.copy.attempts = calls[i].op.attempts
      BY <1>8
    <3> QED BY <1>7, <3>1 DEF Told
  <2>3. RowTold(j)'
    BY <1>7 DEF RowTold
  <2>4. CASE d.stage # "written"
    BY <2>1, <2>2, <2>3, <2>4 DEF CallTold
  <2>5. CASE d.stage = "written"
    <3>1. d.op.kind # "dead" /\ Told(j, d.copy.attempts)
      BY <1>6, <2>1, <2>5 DEF CallTold
    <3> QED BY <2>2, <2>5, <3>1 DEF CallTold
  <2> QED BY <2>4, <2>5
<1>14. LettersTold(j)'
  BY <1>5, InTurnWrites, Numbers DEF FollowsCleanly, LettersTold, Buries
<1> QED BY <1>10, <1>11, <1>12, <1>13, <1>14 DEF FollowsCleanly

\* Any other write of a job: the insert is done, the row is there, nobody holds the job.
LEMMA OtherInTurn ==
  ASSUME Types, NEW i \in DOMAIN calls, NEW j \in Job, InTurn(i, j),
         calls[i].op.kind # "insert", FollowsCleanly(j)
  PROVE  /\ Running(j) = 0 /\ Count(calls, Others(j)) = 1 /\ Count(calls, Inserts(j)) = 0
         /\ calls[i] \in Others(j) /\ HasRow(Projected, j)
         /\ ~Holds(queued, j) /\ ~Holds(active, j) /\ ~Holds(waiting, j)
         /\ calls[i].op.kind = "delay" => Projected.rows[j].attempts = calls[i].copy.attempts
<1>1. calls[i] \in Call /\ calls[i].op.job = j /\ calls \in Seq(Call)
  BY TypeParts DEF InTurn, Types, CallTypes
<1>2. calls[i] \in Others(j)
  BY <1>1, CallSets
<1>3. Running(j) = 0 /\ Count(calls, Others(j)) = 1
  BY <1>2, Counted, RunningIsNumber DEF FollowsCleanly, OneAtATime
<1>4. Count(calls, Inserts(j)) = 0
  <2> SUFFICES ASSUME NEW k \in DOMAIN calls, calls[k] \in Inserts(j) PROVE FALSE
    BY <1>1, CountIsNumber
  <2>1. k < i
    BY <1>2 DEF FollowsCleanly, OneAtATime, InsertsFirst
  <2>2. calls[k].stage # "written" /\ calls[k].op.job = j
    BY DEF Inserts, Call
  <2> QED BY <1>1, <2>1, <2>2 DEF InTurn, Overtakes
<1>5. CallTold(j, calls[i])
  BY <1>2 DEF FollowsCleanly, CallsTold, ToSet
<1>6. HasRow(Projected, j)
  BY <1>4, <1>5 DEF CallTold, RowTold, InTurn
<1>7. ASSUME calls[i].op.kind = "delay"
      PROVE  Projected.rows[j].attempts = calls[i].copy.attempts
  <2>1. Told(j, calls[i].copy.attempts)
    BY <1>5, <1>7 DEF CallTold, InTurn
  <2>2. \A n : Count(calls, InsertsOf(j, n)) = 0
    BY <1>1, <1>4, MoreCallSets, CountSubset, Numbers
  <2> QED BY <2>1, <2>2 DEF Told
<1> QED BY <1>2, <1>3, <1>4, <1>6, <1>7, RunningIsNumber DEF Known

\* The write that ends a job: its row is gone, a discarded one has its letter.
LEMMA EndServed ==
  ASSUME Types, Types', NEW i \in DOMAIN calls, NEW j \in Job, InTurn(i, j),
         calls[i].op.kind # "insert", calls[i].next = "return", FollowsCleanly(j)
  PROVE  FollowsCleanly(j)'
<1>1. calls[i] \in Call /\ calls[i].op \in Op /\ calls[i].op.job = j
  BY TypeParts DEF InTurn
<1>2. /\ Running(j) = 0 /\ Count(calls, Others(j)) = 1 /\ Count(calls, Inserts(j)) = 0
      /\ calls[i] \in Others(j) /\ HasRow(Projected, j)
      /\ ~Holds(queued, j) /\ ~Holds(active, j) /\ ~Holds(waiting, j)
  BY OtherInTurn
<1>3. Ended(i)
  BY CallServed DEF InTurn, Types
<1>4. calls[i].op.kind \in {"ack", "cancel", "discard"}
  BY <1>1, OpParts DEF Call
<1>5. /\ calls[i] \notin Inserts(j) /\ calls[i] \notin BuriedCalls(j)
      /\ calls[i] \in Discards(j) <=> calls[i].op.kind = "discard"
  BY <1>1, <1>4, CallSets, MoreCallSets
<1>6. /\ Count(calls', Others(j)) = 0 /\ Count(calls', Inserts(j)) = 0
      /\ Count(calls', BuriedCalls(j)) = Count(calls, BuriedCalls(j))
      /\ Count(calls', Discards(j))
           = Count(calls, Discards(j)) - (IF calls[i].op.kind = "discard" THEN 1 ELSE 0)
  BY <1>2, <1>3, <1>5, Numbers DEF Ended
<1>7. ~HasRow(Projected', j)
  BY <1>1, <1>4, InTurnWrites, RowAfterIsRow DEF HasRow
<1>8. UNCHANGED <<queued, active, waiting>>
  BY DEF InTurn, engine
<1>9. OneAtATime(j)' /\ NewRow(j)' /\ CopiesTold(j)' /\ NothingTold(j)'
  BY <1>2, <1>3, <1>6, <1>7, <1>8, InTurnWrites
     DEF FollowsCleanly, OneAtATime, NewRow, CopiesTold, NothingTold, RowTold, Ended, Holds
<1>10. CallsTold(j)'
  <2> SUFFICES ASSUME NEW d \in ToSet(calls'), d \in Others(j) PROVE FALSE
    BY DEF CallsTold
  <2>1. calls' \in Seq(Call)
    BY DEF Types, CallTypes
  <2>2. PICK k \in DOMAIN calls' : calls'[k] = d
    BY DEF ToSet
  <2> QED BY <1>6, <2>1, <2>2, CountIsNumber
<1>11. LettersTold(j)'
  BY <1>2, <1>4, <1>6, InTurnWrites, Numbers DEF FollowsCleanly, LettersTold, Buries, HasRow
<1>12. Ungiven(j)'
  BY <1>1, InTurnWrites, GivenOut DEF FollowsCleanly, Ungiven
<1> QED BY <1>9, <1>10, <1>11, <1>12 DEF FollowsCleanly

\* The write of a call that then puts the job back, or among the dead letters: the
\* call has it in hand, and the row says what the copy in hand says.
LEMMA HandServed ==
  ASSUME Types, Types', NEW i \in DOMAIN calls, NEW j \in Job, InTurn(i, j),
         calls[i].next # "return", FollowsCleanly(j)
  PROVE  FollowsCleanly(j)'
<1>0. PICK c : c = At(calls[i], "written")
  OBVIOUS
<1>1. calls[i] \in Call /\ calls[i].op \in Op /\ calls[i].op.job = j
      /\ calls[i].op.kind \in {"fail", "delay", "dead"} /\ calls' \in Seq(Call)
  <2>1. calls[i] \in Call /\ calls[i].op \in Op /\ calls[i].op.job = j
    BY TypeParts DEF InTurn
  <2>2. calls[i].op.kind \in {"fail", "delay", "dead"}
    BY <2>1 DEF Call
  <2> QED BY <2>1, <2>2 DEF Types, CallTypes
<1>2. /\ Running(j) = 0 /\ Count(calls, Others(j)) = 1 /\ Count(calls, Inserts(j)) = 0
      /\ calls[i] \in Others(j) /\ HasRow(Projected, j)
      /\ ~Holds(queued, j) /\ ~Holds(active, j) /\ ~Holds(waiting, j)
      /\ calls[i].op.kind = "delay" => Projected.rows[j].attempts = calls[i].copy.attempts
  BY <1>1, OtherInTurn
<1>3. Moved(i, c)
  BY <1>0, CallServed DEF InTurn, Types
<1>4. /\ c \in Call /\ c.op = calls[i].op /\ c.copy = calls[i].copy /\ c.stage = "written"
      /\ c # calls[i] /\ c.op.job = j
  BY <1>0, <1>1 DEF At, Call, InTurn
<1>5. /\ c \in Others(j) /\ c \notin Inserts(j) /\ calls[i] \notin Inserts(j)
      /\ calls[i] \notin BuriedCalls(j) /\ (c \in BuriedCalls(j) <=> calls[i].op.kind = "dead")
      /\ calls[i] \notin Discards(j) /\ c \notin Discards(j)
  BY <1>1, <1>4, CallSets, MoreCallSets DEF InTurn
<1>6. /\ Count(calls', Others(j)) = 1 /\ Count(calls', Inserts(j)) = 0
      /\ Count(calls', BuriedCalls(j))
           = Count(calls, BuriedCalls(j)) + (IF calls[i].op.kind = "dead" THEN 1 ELSE 0)
      /\ Count(calls', Discards(j)) = Count(calls, Discards(j))
  <2>1. /\ Count(calls', Others(j)) = 1 /\ Count(calls', Inserts(j)) = 0
        /\ Count(calls', Discards(j)) = Count(calls, Discards(j))
    BY <1>2, <1>3, <1>5, Numbers DEF Moved
  <2>2. CASE calls[i].op.kind = "dead"
    BY <1>3, <1>5, <2>1, <2>2, Numbers DEF Moved
  <2>3. CASE calls[i].op.kind # "dead"
    BY <1>3, <1>5, <2>1, <2>3, Numbers DEF Moved
  <2> QED BY <2>2, <2>3
<1>7. UNCHANGED <<queued, active, waiting>>
  BY DEF InTurn, engine
<1>8. CallTold(j, c)'
  <2>1. CASE calls[i].op.kind = "dead"
    <3>1. ~HasRow(Projected', j)
      BY <1>1, <2>1, InTurnWrites, RowAfterIsRow DEF HasRow
    <3> QED BY <1>4, <1>6, <2>1, <3>1 DEF CallTold, RowTold
  <2>2. CASE calls[i].op.kind # "dead"
    <3>1. Projected'.rows[j] # Nothing /\ Projected'.rows[j].attempts = calls[i].copy.attempts
      <4>1. calls[i].op.kind = "fail" => calls[i].op.attempts = calls[i].copy.attempts
        BY <1>1 DEF Call
      <4> QED BY <1>1, <1>2, <2>2, <4>1, InTurnWrites, RowAfterIsRow DEF HasRow
    <3>2. Told(j, c.copy.attempts)'
      BY <1>4, <3>1 DEF Told, HasRow
    <3> QED BY <1>4, <2>2, <3>2 DEF CallTold
  <2> QED BY <2>1, <2>2
<1>9. CallsTold(j)'
  <2> SUFFICES ASSUME NEW d \in ToSet(calls'), d \in Others(j) PROVE d = c
    BY <1>8 DEF CallsTold
  <2>1. PICK k \in DOMAIN calls' : calls'[k] = d
    BY DEF ToSet
  <2>2. PICK m \in DOMAIN calls' : calls'[m] = c
    <3> SUFFICES ASSUME \A m \in DOMAIN calls' : calls'[m] \notin {c} PROVE FALSE
      OBVIOUS
    <3>1. Count(calls', {c}) = 0
      BY <1>1, CountIsNumber
    <3>2. Count(calls', {c}) = Count(calls, {c}) + 1 /\ Count(calls, {c}) \in Nat
      BY <1>3, <1>4, Numbers DEF Moved
    <3> QED BY <3>1, <3>2
  <2> QED BY <1>1, <1>5, <1>6, <2>1, <2>2, CountOne
<1>10. OneAtATime(j)' /\ NewRow(j)' /\ CopiesTold(j)' /\ NothingTold(j)'
  BY <1>2, <1>3, <1>6, <1>7, InTurnWrites
     DEF FollowsCleanly, OneAtATime, NewRow, CopiesTold, NothingTold, Moved, Holds
<1>11. LettersTold(j)'
  <2>1. CASE calls[i].op.kind = "dead"
    BY <1>6, <2>1, InTurnWrites, Numbers DEF FollowsCleanly, LettersTold, Buries
  <2>2. CASE calls[i].op.kind # "dead"
    BY <1>1, <1>6, <2>2, InTurnWrites, Numbers DEF FollowsCleanly, LettersTold, Buries
  <2> QED BY <2>1, <2>2
<1>12. Ungiven(j)'
  BY <1>1, InTurnWrites, GivenOut DEF FollowsCleanly, Ungiven
<1> QED BY <1>9, <1>10, <1>11, <1>12 DEF FollowsCleanly

\* A write in its turn keeps the tables behind the engine, whatever it writes.
LEMMA InTurnFollows ==
  ASSUME Types, Types', NEW i \in DOMAIN calls, NEW j \in Job, InTurn(i, j), FollowsCleanly(j)
  PROVE  FollowsCleanly(j)'
<1>1. CASE calls[i].op.kind = "insert"
  BY <1>1, InsertServed
<1>2. CASE calls[i].op.kind # "insert" /\ calls[i].next = "return"
  BY <1>2, EndServed
<1>3. CASE calls[i].next # "return"
  BY <1>3, HandServed
<1> QED BY <1>1, <1>2, <1>3

\* A queued write comes after everything accepted before.
LEMMA QueueOpFollows ==
  ASSUME Types, Types', NEW i \in DOMAIN calls, QueueOp(i), NEW j \in Job,
         j = calls[i].op.job, Follows(j)
  PROVE  Follows(j)'
<1>1. SUFFICES ASSUME Clean(j)' PROVE FollowsCleanly(j)'
  BY DEF Follows, FollowsCleanly
<1>2. ~TooLate /\ ~Overtakes(i) /\ Clean(j)
  BY <1>1 DEF QueueOp, Straying, Clean
<1>3. Projected' = Exec(Projected, calls[i].op)
  BY <1>2, QueueOpProjects
<1>4. InTurn(i, j)
  BY <1>2, <1>3 DEF QueueOp, Queueable, InTurn, Agree
<1> QED BY <1>2, <1>4, InTurnFollows DEF Follows, FollowsCleanly

\* A write beside the queue is in its turn if nothing about the job is queued.
LEMMA WriteNowFollows ==
  ASSUME Types, Types', NEW i \in DOMAIN calls, WriteNow(i), NEW j \in Job,
         j = calls[i].op.job, Follows(j)
  PROVE  Follows(j)'
<1>1. SUFFICES ASSUME Clean(j)' PROVE FollowsCleanly(j)'
  BY DEF Follows, FollowsCleanly
<1>2. j \notin JobsOf(buffer \o queue) /\ ~Overtakes(i) /\ Clean(j)
  BY <1>1 DEF WriteNow, Straying, Clean
<1> DEFINE e == Exec(db, calls[i].op)
<1>3. Projected' = ExecAll(e, Accepted) /\ e \in Tables
  BY WriteNowProjects
<1>4. /\ calls[i].op \in Op /\ db \in Tables /\ Accepted \in Seq(Op) /\ Projected \in Tables
      /\ Projected = ExecAll(db, Accepted)
  BY TypeParts, AcceptedOps DEF Projected
<1>5. \A n \in 1..Len(Accepted) : Accepted[n].job # j
  <2> SUFFICES ASSUME NEW n \in 1..Len(Accepted), Accepted[n].job = j PROVE FALSE
    OBVIOUS
  <2>1. ToSet(Accepted) \subseteq ToSet(buffer \o queue)
    <3>1. /\ ToSet(buffer \o Rest) = ToSet(buffer) \cup ToSet(Rest)
          /\ ToSet(buffer \o queue) = ToSet(buffer) \cup ToSet(queue)
      BY WriterOps, AcceptedOps, Members
    <3>2. ToSet(Rest) \subseteq ToSet(queue)
      BY DEF Rest, ToSet
    <3> QED BY <3>1, <3>2, AcceptedOps
  <2>2. Accepted[n] \in ToSet(Accepted)
    BY <1>4, Members
  <2> QED BY <1>2, <2>1, <2>2 DEF JobsOf
<1>6. Agree(e, Exec(Projected, calls[i].op), j)
  <2>1. Agree(Projected, db, j)
    BY <1>4, <1>5, ExecAllElsewhere
  <2>2. Agree(db, Projected, j)
    BY <2>1 DEF Agree
  <2> QED BY <1>4, <2>2, ExecAlike
<1>7. Agree(ExecAll(e, Accepted), e, j)
  <2> HIDE DEF e
  <2> QED BY <1>3, <1>4, <1>5, ExecAllElsewhere
<1>8. Agree(Projected', Exec(Projected, calls[i].op), j)
  BY <1>3, <1>6, <1>7 DEF Agree
<1>9. InTurn(i, j)
  BY <1>2, <1>8, TypeParts DEF WriteNow, Synchronous, InTurn
<1> QED BY <1>2, <1>9, InTurnFollows DEF Follows, FollowsCleanly

\* A refused write is still to be done.
LEMMA QueueFullFollows ==
  ASSUME Types, Types', NEW i \in DOMAIN calls, QueueFull(i), NEW j \in Job,
         j = calls[i].op.job, Follows(j)
  PROVE  Follows(j)'
<1>1. SUFFICES ASSUME Clean(j)'
               PROVE  /\ OneAtATime(j)' /\ NewRow(j)' /\ CopiesTold(j)' /\ NothingTold(j)'
                      /\ CallsTold(j)' /\ LettersTold(j)' /\ Ungiven(j)'
  BY DEF Follows
<1>2. /\ OneAtATime(j) /\ NewRow(j) /\ CopiesTold(j) /\ NothingTold(j)
      /\ CallsTold(j) /\ LettersTold(j) /\ Ungiven(j)
      /\ Projected' = Projected
  BY <1>1, StillClean DEF QueueFull, Lasting, history
<1>3. PICK c : c = At(calls[i], "refused")
  OBVIOUS
<1>4. calls[i] \in Call /\ calls[i].op.job = j /\ calls[i].stage = "due"
  BY TypeParts DEF QueueFull, Queueable
<1>5. c \in Call /\ c.op = calls[i].op /\ c.copy = calls[i].copy /\ c.stage = "refused"
  BY <1>3, <1>4 DEF At, Call
<1>6. Moved(i, c)
  BY <1>3, <1>5, CallMoved DEF QueueFull, Types
<1>7. /\ calls[i] \in Others(j) <=> c \in Others(j)
      /\ calls[i] \in Inserts(j) <=> c \in Inserts(j)
      /\ calls[i] \in Discards(j) <=> c \in Discards(j)
      /\ \A n : calls[i] \in InsertsOf(j, n) <=> c \in InsertsOf(j, n)
      /\ calls[i] \notin BuriedCalls(j) /\ c \notin BuriedCalls(j)
  BY <1>4, <1>5, CallSets, MoreCallSets
<1>8. /\ Count(calls', Others(j)) = Count(calls, Others(j))
      /\ Count(calls', Inserts(j)) = Count(calls, Inserts(j))
      /\ Count(calls', Discards(j)) = Count(calls, Discards(j))
      /\ \A n : Count(calls', InsertsOf(j, n)) = Count(calls, InsertsOf(j, n))
      /\ Count(calls', BuriedCalls(j)) = Count(calls, BuriedCalls(j))
  BY <1>6, <1>7, Numbers DEF Moved
<1>9. /\ Running(j)' = Running(j) /\ UNCHANGED <<queued, active, waiting, dlq, nextId>>
  BY DEF QueueFull, engine, Running, In, Holds
<1>10. OneAtATime(j)' /\ NewRow(j)' /\ NothingTold(j)' /\ CopiesTold(j)'
  BY <1>2, <1>6, <1>8, <1>9
     DEF OneAtATime, NewRow, NothingTold, CopiesTold, RowTold, Told, HasRow, Holds, Moved
<1>11. CallsTold(j)'
  <2> SUFFICES ASSUME NEW d \in ToSet(calls'), d \in Others(j) PROVE CallTold(j, d)'
    BY DEF CallsTold
  <2>1. CallTold(j, d)
    <3>1. CASE d \in ToSet(calls)
      BY <1>2, <3>1 DEF CallsTold
    <3>2. CASE d = c
      <4>1. CallTold(j, calls[i])
        BY <1>2, <1>7, <3>2 DEF CallsTold, ToSet
      <4> QED BY <1>4, <1>5, <3>2, <4>1 DEF CallTold
    <3> QED BY <1>6, <3>1, <3>2 DEF Moved
  <2> QED BY <1>2, <1>8, <2>1 DEF CallTold, RowTold, Told, HasRow
<1>12. LettersTold(j)'
  BY <1>2, <1>8, <1>9 DEF LettersTold
<1>13. Ungiven(j)'
  BY <1>2, <1>4, <1>9, GivenOut DEF Ungiven
<1> QED BY <1>10, <1>11, <1>12, <1>13

\* A job put back is told with the attempts of its copy; one among the dead letters has
\* no row any more, and its letter.
LEMMA PlaceFollows ==
  ASSUME Types, Types', NEW i \in DOMAIN calls, Place(i), NEW j \in Job,
         j = calls[i].op.job, Follows(j)
  PROVE  Follows(j)'
<1>1. SUFFICES ASSUME Clean(j)'
               PROVE  /\ OneAtATime(j)' /\ NewRow(j)' /\ CopiesTold(j)' /\ NothingTold(j)'
                      /\ CallsTold(j)' /\ LettersTold(j)' /\ Ungiven(j)'
  BY DEF Follows
<1>2. /\ OneAtATime(j) /\ NewRow(j) /\ CopiesTold(j) /\ NothingTold(j)
      /\ CallsTold(j) /\ LettersTold(j) /\ Ungiven(j)
      /\ Projected' = Projected
  BY <1>1, StillClean DEF Place, Lasting, history
<1>3. /\ calls[i] \in Call /\ calls[i].op.job = j /\ calls[i].stage = "written"
      /\ calls[i].copy \in Copy /\ calls[i].op.kind \in {"fail", "delay", "dead"}
      /\ calls[i].next = "queue" <=> calls[i].op.kind \in {"fail", "delay"}
  <2>1. calls[i] \in Call /\ calls[i].stage = "written"
    BY TypeParts DEF Place
  <2> QED BY <2>1 DEF Call
<1>4. Ended(i)
  BY CallEnded DEF Place, Types
<1>5. /\ calls[i] \in Others(j) /\ calls[i] \notin Inserts(j) /\ calls[i] \notin Discards(j)
      /\ calls[i] \in BuriedCalls(j) <=> calls[i].op.kind = "dead"
      /\ \A n : calls[i] \notin InsertsOf(j, n)
  BY <1>3, CallSets, MoreCallSets
<1>6. /\ Running(j) = 0 /\ Count(calls, Others(j)) = 1
  BY <1>2, <1>5, Counted, RunningIsNumber DEF OneAtATime
<1>7. /\ Count(calls', Others(j)) = 0
      /\ Count(calls', Inserts(j)) = Count(calls, Inserts(j))
      /\ Count(calls', Discards(j)) = Count(calls, Discards(j))
      /\ \A n : Count(calls', InsertsOf(j, n)) = Count(calls, InsertsOf(j, n))
  BY <1>4, <1>5, <1>6, Numbers DEF Ended
<1>8. CallTold(j, calls[i])
  BY <1>2, <1>5 DEF CallsTold, ToSet
<1>9. In(queued, j) = 0 /\ In(active, j) = 0 /\ In(waiting, j) = 0
  BY <1>6, RunningIsNumber DEF Running
<1>10. ~Holds(queued, j) /\ ~Holds(active, j) /\ ~Holds(waiting, j)
  BY <1>9 DEF In
<1>11. active' = active /\ waiting' = waiting /\ nextId' = nextId
  BY DEF Place
<1>12. CallsTold(j)'
  <2> SUFFICES ASSUME NEW d \in ToSet(calls'), d \in Others(j) PROVE FALSE
    BY DEF CallsTold
  <2>1. calls' \in Seq(Call)
    BY DEF Types, CallTypes
  <2>2. PICK k \in DOMAIN calls' : calls'[k] = d
    BY DEF ToSet
  <2> QED BY <1>7, <2>1, <2>2, CountIsNumber
<1>13. NewRow(j)' /\ RowTold(j)' = RowTold(j)
  BY <1>2, <1>7 DEF NewRow, RowTold, HasRow
<1>14. Ungiven(j)'
  BY <1>2, <1>3, <1>11, GivenOut DEF Ungiven
<1>15. CASE calls[i].next = "queue"
  <2>1. queued' = Put(queued, j, calls[i].copy) /\ dlq' = dlq
    BY <1>3, <1>15 DEF Place
  <2>2. Running(j)' = 1
    <3>1. In(queued', j) = 1
      BY <1>3, <2>1, TypeParts, InContainer
    <3> QED BY <1>9, <1>11, <3>1 DEF Running
  <2>3. queued'[j] = calls[i].copy
    BY <2>1, TypeParts DEF Put, Container
  <2>4. Told(j, calls[i].copy.attempts)
    BY <1>3, <1>8, <1>15 DEF CallTold
  <2>5. CopiesTold(j)'
    BY <1>2, <1>7, <1>10, <1>11, <2>3, <2>4 DEF CopiesTold, Told, HasRow, Holds
  <2>6. OneAtATime(j)' /\ NothingTold(j)'
    BY <1>2, <1>4, <1>7, <2>2 DEF OneAtATime, NothingTold, Ended
  <2>7. Count(calls', BuriedCalls(j)) = Count(calls, BuriedCalls(j))
    BY <1>3, <1>4, <1>5, <1>15, Numbers DEF Ended
  <2>8. LettersTold(j)'
    BY <1>2, <1>7, <2>1, <2>7 DEF LettersTold
  <2> QED BY <1>12, <1>13, <1>14, <2>5, <2>6, <2>8
<1>16. CASE calls[i].next # "queue"
  <2>1. queued' = queued /\ Entries(dlq', j) = Entries(dlq, j) + 1
    BY <1>3, <1>16, PlaceBuries DEF Place
  <2>2. Running(j)' = 0
    BY <1>6, <1>11, <2>1 DEF Running
  <2>3. ~RowTold(j)
    BY <1>3, <1>8, <1>16 DEF CallTold
  <2>4. CopiesTold(j)'
    BY <1>10, <1>11, <2>1 DEF CopiesTold, Holds
  <2>5. OneAtATime(j)' /\ NothingTold(j)'
    BY <1>2, <1>4, <1>7, <1>13, <2>2, <2>3 DEF OneAtATime, NothingTold, Ended
  <2>6. Count(calls', BuriedCalls(j)) = Count(calls, BuriedCalls(j)) - 1
    BY <1>3, <1>4, <1>5, <1>16, Numbers DEF Ended
  <2>7. LettersTold(j)'
    BY <1>2, <1>7, <2>1, <2>6, Numbers DEF LettersTold
  <2> QED BY <1>12, <1>13, <1>14, <2>4, <2>5, <2>7
<1> QED BY <1>15, <1>16

\* A new process knows what the tables say, and they say nothing else.
LEMMA RecoverFollows ==
  ASSUME Types, Types', Down, Recover, NEW j \in Job
  PROVE  Follows(j)'
<1>1. /\ Projected' = db /\ calls' = <<>> /\ active' = Empty /\ nextId' = RecoveredId(db)
  BY RecoverProjects DEF Recover, Down
<1>2. \A S : Count(calls', S) = 0
  <2>1. calls' \in Seq(Call) /\ DOMAIN calls' = {}
    BY <1>1 DEF Types, CallTypes
  <2> QED BY <2>1, CountIsNumber
<1>3. ToSet(calls') = {} /\ InsertsFirst(calls', j)
  BY <1>1 DEF ToSet, InsertsFirst
<1>4. ~Holds(active, j)' /\ In(active', j) = 0
  BY <1>1 DEF Holds, Empty, In
<1>5. /\ HasRow(db, j) => Running(j)' = 1
      /\ ~HasRow(db, j) => Running(j)' = 0
  BY <1>4, RecoveredCopies DEF Running
<1>6. OneAtATime(j)' /\ NewRow(j)' /\ NothingTold(j)' /\ CallsTold(j)'
  BY <1>1, <1>2, <1>3, <1>5 DEF OneAtATime, NewRow, NothingTold, CallsTold, RowTold, HasRow
<1>7. CopiesTold(j)'
  BY <1>1, <1>4, RecoveredCopies DEF CopiesTold, Told, HasRow, Holds
<1>8. LettersTold(j)'
  BY <1>1, <1>2, RecoveredLetters DEF LettersTold
<1>9. Ungiven(j)'
  <2>1. nextId' <= j => ~HasRow(db, j)
    BY <1>1, RecoveredIdIsAbove, NextIdNumbers DEF Types, Job
  <2> QED BY <1>1, <1>2, <1>5, <2>1 DEF Ungiven, HasRow
<1> QED BY <1>6, <1>7, <1>8, <1>9 DEF Follows

\* No step leaves a table behind the engine.
LEMMA RowsFollowKept ==
  ASSUME Types, Types', Down, RowsFollow, [Next]_vars
  PROVE  RowsFollow'
<1>1. CASE UNCHANGED vars
  <2> SUFFICES ASSUME NEW k \in Job PROVE Follows(k)'
    BY DEF RowsFollow
  <2>1. SameJob(k)
    BY <1>1, StutterSpares
  <2> QED BY <2>1, SameJobFollows DEF RowsFollow
<1>2. CASE Push
  <2>1. ASSUME NEW k \in Job, k = nextId PROVE Follows(k)'
    BY <1>2, <2>1, PushFollows DEF RowsFollow
  <2>2. ASSUME NEW k \in Job \ {nextId} PROVE Follows(k)'
    <3>1. nextId \in Job
      BY <1>2, NewCopy DEF Push
    <3>2. SameJob(k)
      BY <1>2, <3>1, EngineSpares
    <3> QED BY <3>2, SameJobFollows DEF RowsFollow
  <2> QED BY <2>1, <2>2 DEF RowsFollow
<1>3. CASE RetryDlq
  BY <1>3, RetryFollows DEF RowsFollow
<1>4. ASSUME NEW j \in Job, Pull(j) PROVE RowsFollow'
  <2>1. ASSUME NEW k \in Job, k = j PROVE Follows(k)'
    BY <1>4, <2>1, MoveFollows DEF RowsFollow
  <2>2. ASSUME NEW k \in Job \ {j} PROVE Follows(k)'
    <3>1. SameJob(k)
      BY <1>4, EngineSpares
    <3> QED BY <3>1, SameJobFollows DEF RowsFollow
  <2> QED BY <2>1, <2>2 DEF RowsFollow
<1>5. ASSUME NEW j \in Job, ReleaseDependents(j) PROVE RowsFollow'
  <2>1. ASSUME NEW k \in Job, k = j PROVE Follows(k)'
    BY <1>5, <2>1, MoveFollows DEF RowsFollow
  <2>2. ASSUME NEW k \in Job \ {j} PROVE Follows(k)'
    <3>1. SameJob(k)
      BY <1>5, EngineSpares
    <3> QED BY <3>1, SameJobFollows DEF RowsFollow
  <2> QED BY <2>1, <2>2 DEF RowsFollow
<1>6. ASSUME NEW j \in Job, Fail(j) PROVE RowsFollow'
  <2>1. ASSUME NEW k \in Job, k = j PROVE Follows(k)'
    BY <1>6, <2>1, FailFollows DEF RowsFollow
  <2>2. ASSUME NEW k \in Job \ {j} PROVE Follows(k)'
    <3>1. SameJob(k)
      BY <1>6, EngineSpares
    <3> QED BY <3>1, SameJobFollows DEF RowsFollow
  <2> QED BY <2>1, <2>2 DEF RowsFollow
<1>7. ASSUME NEW j \in Job, Stall(j) PROVE RowsFollow'
  <2>1. ASSUME NEW k \in Job, k = j PROVE Follows(k)'
    BY <1>7, <2>1, StallFollows DEF RowsFollow
  <2>2. ASSUME NEW k \in Job \ {j} PROVE Follows(k)'
    <3>1. SameJob(k)
      BY <1>7, EngineSpares
    <3> QED BY <3>1, SameJobFollows DEF RowsFollow
  <2> QED BY <2>1, <2>2 DEF RowsFollow
<1>8. ASSUME NEW j \in Job, Delay(j) PROVE RowsFollow'
  <2>1. ASSUME NEW k \in Job, k = j PROVE Follows(k)'
    BY <1>8, <2>1, DelayFollows DEF RowsFollow
  <2>2. ASSUME NEW k \in Job \ {j} PROVE Follows(k)'
    <3>1. SameJob(k)
      BY <1>8, EngineSpares
    <3> QED BY <3>1, SameJobFollows DEF RowsFollow
  <2> QED BY <2>1, <2>2 DEF RowsFollow
<1>9. ASSUME NEW j \in Job, Cancel(j) PROVE RowsFollow'
  <2>1. ASSUME NEW k \in Job, k = j PROVE Follows(k)'
    BY <1>9, <2>1, CancelFollows DEF RowsFollow
  <2>2. ASSUME NEW k \in Job \ {j} PROVE Follows(k)'
    <3>1. SameJob(k)
      BY <1>9, EngineSpares
    <3> QED BY <3>1, SameJobFollows DEF RowsFollow
  <2> QED BY <2>1, <2>2 DEF RowsFollow
<1>10. ASSUME NEW j \in Job, Discard(j) PROVE RowsFollow'
  <2>1. ASSUME NEW k \in Job, k = j PROVE Follows(k)'
    BY <1>10, <2>1, DiscardFollows DEF RowsFollow
  <2>2. ASSUME NEW k \in Job \ {j} PROVE Follows(k)'
    <3>1. SameJob(k)
      BY <1>10, EngineSpares
    <3> QED BY <3>1, SameJobFollows DEF RowsFollow
  <2> QED BY <2>1, <2>2 DEF RowsFollow
<1>11. ASSUME NEW j \in Job, NEW result \in BOOLEAN, Ack(j, result) PROVE RowsFollow'
  <2>1. ASSUME NEW k \in Job, k = j PROVE Follows(k)'
    BY <1>11, <2>1, AckFollows DEF RowsFollow
  <2>2. ASSUME NEW k \in Job \ {j} PROVE Follows(k)'
    <3>1. SameJob(k)
      BY <1>11, EngineSpares
    <3> QED BY <3>1, SameJobFollows DEF RowsFollow
  <2> QED BY <2>1, <2>2 DEF RowsFollow
<1>12. ASSUME NEW i \in DOMAIN calls, QueueOp(i) PROVE RowsFollow'
  <2>1. ASSUME NEW k \in Job, k = calls[i].op.job PROVE Follows(k)'
    BY <1>12, <2>1, QueueOpFollows DEF RowsFollow
  <2>2. ASSUME NEW k \in Job \ {calls[i].op.job} PROVE Follows(k)'
    <3>1. SameJob(k)
      BY <1>12, ServeSpares
    <3> QED BY <3>1, SameJobFollows DEF RowsFollow
  <2> QED BY <2>1, <2>2 DEF RowsFollow
<1>13. ASSUME NEW i \in DOMAIN calls, QueueFull(i) PROVE RowsFollow'
  <2>1. ASSUME NEW k \in Job, k = calls[i].op.job PROVE Follows(k)'
    BY <1>13, <2>1, QueueFullFollows DEF RowsFollow
  <2>2. ASSUME NEW k \in Job \ {calls[i].op.job} PROVE Follows(k)'
    <3>1. SameJob(k)
      BY <1>13, ServeSpares
    <3> QED BY <3>1, SameJobFollows DEF RowsFollow
  <2> QED BY <2>1, <2>2 DEF RowsFollow
<1>14. ASSUME NEW i \in DOMAIN calls, WriteNow(i) PROVE RowsFollow'
  <2>1. ASSUME NEW k \in Job, k = calls[i].op.job PROVE Follows(k)'
    BY <1>14, <2>1, WriteNowFollows DEF RowsFollow
  <2>2. ASSUME NEW k \in Job \ {calls[i].op.job} PROVE Follows(k)'
    <3>1. SameJob(k)
      BY <1>14, ServeSpares
    <3> QED BY <3>1, SameJobFollows DEF RowsFollow
  <2> QED BY <2>1, <2>2 DEF RowsFollow
<1>15. ASSUME NEW i \in DOMAIN calls, WriteNowFails(i) PROVE RowsFollow'
  <2>1. ASSUME NEW k \in Job, k = calls[i].op.job PROVE Follows(k)'
    BY <1>15, <2>1 DEF WriteNowFails, Follows, Clean
  <2>2. ASSUME NEW k \in Job \ {calls[i].op.job} PROVE Follows(k)'
    <3>1. SameJob(k)
      BY <1>15, ServeSpares
    <3> QED BY <3>1, SameJobFollows DEF RowsFollow
  <2> QED BY <2>1, <2>2 DEF RowsFollow
<1>16. ASSUME NEW i \in DOMAIN calls, Place(i) PROVE RowsFollow'
  <2>1. ASSUME NEW k \in Job, k = calls[i].op.job PROVE Follows(k)'
    BY <1>16, <2>1, PlaceFollows DEF RowsFollow
  <2>2. ASSUME NEW k \in Job \ {calls[i].op.job} PROVE Follows(k)'
    <3>1. SameJob(k)
      BY <1>16, ServeSpares
    <3> QED BY <3>1, SameJobFollows DEF RowsFollow
  <2> QED BY <2>1, <2>2 DEF RowsFollow
<1>17. CASE Write
  <2> SUFFICES ASSUME NEW k \in Job PROVE Follows(k)'
    BY DEF RowsFollow
  <2>1. CASE k \in dropped'
    BY <2>1 DEF Follows, Clean
  <2>2. CASE k \notin dropped'
    <3>1. SameJob(k)
      BY <1>17, <2>2, WriteSpares
    <3> QED BY <3>1, SameJobFollows DEF RowsFollow
  <2> QED BY <2>1, <2>2
<1>18. CASE Exit
  BY <1>18 DEF Exit, RowsFollow, Follows, Clean
<1>19. CASE Recover
  BY <1>19, RecoverFollows DEF RowsFollow
<1> QED BY <1>1, <1>2, <1>3, <1>4, <1>5, <1>6, <1>7, <1>8, <1>9, <1>10, <1>11, <1>12,
          <1>13, <1>14, <1>15, <1>16, <1>17, <1>18, <1>19
       DEF Next, Operate, Serve

\* There are neither jobs nor rows at first.
LEMMA RowsFollowFirst ==
  ASSUME Init
  PROVE  RowsFollow
<1>1. SUFFICES ASSUME NEW j \in Job
               PROVE  /\ OneAtATime(j) /\ NewRow(j) /\ CopiesTold(j) /\ NothingTold(j)
                      /\ CallsTold(j) /\ LettersTold(j) /\ Ungiven(j)
  BY DEF RowsFollow, Follows
<1>2. /\ calls = <<>> /\ dlq = <<>> /\ queue = <<>> /\ buffer = <<>>
      /\ queued = Empty /\ active = Empty /\ waiting = Empty
      /\ db.rows = Empty /\ db.dead = <<>>
  BY DEF Init
<1>3. \A S : Count(calls, S) = 0
  <2>1. DOMAIN calls = {} /\ calls \in Seq(Call)
    BY <1>2
  <2> QED BY <2>1, CountIsNumber
<1>4. Entries(<<>>, j) = 0
  <2>1. DOMAIN <<>> = {} /\ <<>> \in Seq(DeadLetters)
    OBVIOUS
  <2> QED BY <2>1, EntriesCount
<1>5. Projected = db
  <2>1. <<>> \in Seq(Op)
    OBVIOUS
  <2>2. Accepted = <<>>
    BY <1>2, <2>1, ConcatEmptySeq DEF Accepted
  <2>3. ExecAll(db, <<>>) = db
    <3>1. CancelJob(1) \in Op
      BY MaxIdIsNumber DEF CancelJob, Op, QueuedOp, CancelOp, Job
    <3> QED BY <3>1, ExecAllOne
  <2> QED BY <2>2, <2>3 DEF Projected
<1>6. /\ ~Holds(queued, j) /\ ~Holds(active, j) /\ ~Holds(waiting, j) /\ ~HasRow(Projected, j)
  BY <1>2, <1>5 DEF Holds, HasRow, Empty
<1>7. Running(j) = 0
  BY <1>6 DEF Running, In
<1>8. ToSet(calls) = {} /\ InsertsFirst(calls, j)
  BY <1>2 DEF ToSet, InsertsFirst
<1> QED BY <1>2, <1>3, <1>4, <1>5, <1>6, <1>7, <1>8
        DEF OneAtATime, NewRow, CopiesTold, NothingTold, CallsTold, LettersTold, Ungiven, RowTold

\* When no call about a job is under way, the tables say of it what the engine holds.
LEMMA RowsAreMatched ==
  ASSUME Types, RowsFollow
  PROVE  RowsMatchEngine
<1>1. SUFFICES ASSUME up, NEW j \in Job \ (strayed \cup dropped), ~InCall(j)
               PROVE  /\ Known(j) <=> HasRow(Projected, j)
                      /\ \A container \in {queued, active, waiting} :
                           Holds(container, j) =>
                             container[j].attempts = Projected.rows[j].attempts
                      /\ Entries(dlq, j) = Entries(Projected.dead, j)
  BY DEF RowsMatchEngine
<1>2. CopiesTold(j) /\ NothingTold(j) /\ LettersTold(j)
  BY <1>1 DEF RowsFollow, Follows, Clean
<1>3. \A S : S \subseteq About(j) => Count(calls, S) = 0
  <2>1. calls \in Seq(Call) /\ \A i \in DOMAIN calls : calls[i] \notin About(j)
    BY <1>1 DEF InCall, About, Types, CallTypes
  <2> QED BY <2>1, CountIsNumber
<1>4. /\ Count(calls, Inserts(j)) = 0 /\ Count(calls, Others(j)) = 0
      /\ Count(calls, BuriedCalls(j)) = 0 /\ Count(calls, Discards(j)) = 0
      /\ \A n : Count(calls, InsertsOf(j, n)) = 0
  BY <1>3, CallSets, MoreCallSets
<1>5. Entries(dlq, j) = Entries(Projected.dead, j)
  BY <1>2, <1>4, Numbers DEF LettersTold
<1>6. \A n : Told(j, n) => HasRow(Projected, j) /\ Projected.rows[j].attempts = n
  BY <1>4 DEF Told
<1>7. ~Known(j) => ~HasRow(Projected, j)
  BY <1>2, <1>4, RunningIsNumber DEF NothingTold, RowTold
<1> QED BY <1>2, <1>5, <1>6, <1>7 DEF CopiesTold, Known

\* Once what is queued is written, a job of the engine has its row with its count of
\* attempts, a dead letter has its row, and a job that ended has none; after any crash
\* and recovery too.  Excepted are the jobs of a write that was lost or out of turn.
THEOREM RowsAlwaysMatch == Spec => []RowsMatchEngine
<1>1. Init => Types /\ Down /\ RowsFollow
  BY TypesFirst, RowsFollowFirst
<1>2. (Types /\ Down /\ RowsFollow) /\ [Next]_vars => (Types /\ Down /\ RowsFollow)'
  BY TypesAndDownKept, RowsFollowKept
<1>3. Types /\ Down /\ RowsFollow => RowsMatchEngine
  BY RowsAreMatched
<1> QED BY <1>1, <1>2, <1>3, PTL DEF Spec
=============================================================================

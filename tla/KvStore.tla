------------------------------- MODULE KvStore -------------------------------
(***************************************************************************)
(* The key-value store: a concurrent map (one lock per key) of values with *)
(* an optional time of expiry.  An expired entry stays in the map until it *)
(* is overwritten, deleted or swept; every read has to treat it as absent. *)
(* kv_incr of an absent key is two accesses, a failed lookup and an        *)
(* insert, so other calls run in between.  Time is the wall clock, which   *)
(* may be set back.                                                        *)
(***************************************************************************)
EXTENDS Integers

CONSTANTS
  KvKey, KvClient, NoKvKey,
  KvTtls,      \* bound: the TTLs that occur
  KvValues,    \* bound: the numbers kv_set writes
  KvMaxNow,    \* bound: the clock
  KvMaxCount   \* bound: increments

ASSUME KvAssumption ==
  /\ KvTtls \subseteq Nat /\ KvValues \subseteq Nat /\ KvMaxNow \in Nat
  /\ NoKvKey \notin KvKey

VARIABLES
  kvStore,     \* key -> entry; value Absent: no entry
  kvNow,
  kvCall,      \* per client: the key it is about to insert, or NoKvKey
  kvBase, kvAdded, \* per key: value it was set to, increments answered since (history)
  kvRaced      \* keys inserted by kv_incr over an entry that had appeared (history)

kvVars == <<kvStore, kvNow, kvCall, kvBase, kvAdded, kvRaced>>
kvHistory == <<kvBase, kvAdded, kvRaced>>

Absent == -1
Text == -2       \* a value that is not a number
Forever == KvMaxNow + 10

KvInit ==
  /\ kvStore = [k \in KvKey |-> [value |-> Absent, expires_at |-> Forever]]
  /\ kvNow = 0
  /\ kvCall = [c \in KvClient |-> NoKvKey]
  /\ kvBase = [k \in KvKey |-> 0] /\ kvAdded = [k \in KvKey |-> 0] /\ kvRaced = {}

-----------------------------------------------------------------------------
IsExpired(k) == kvNow > kvStore[k].expires_at
Present(k) == kvStore[k].value # Absent
\* What kv_get, kv_mget, kv_exists, kv_ttl and kv_keys go by.
Readable(k) == Present(k) /\ ~IsExpired(k)

Free(c) == kvCall[c] = NoKvKey

Store(k, v, e) == kvStore' = [kvStore EXCEPT ![k] = [value |-> v, expires_at |-> e]]

\* The history of a key starts again at v.
Restarts(S, v) ==
  /\ kvBase' = [k \in KvKey |-> IF k \in S THEN v ELSE kvBase[k]]
  /\ kvAdded' = [k \in KvKey |-> IF k \in S THEN 0 ELSE kvAdded[k]]
  /\ kvRaced' = kvRaced \ S

Expiries == {Forever} \cup {kvNow + t : t \in KvTtls}

KvSet(c) ==
  /\ Free(c)
  /\ \E k \in KvKey, v \in KvValues \cup {Text}, e \in Expiries :
       Store(k, v, e) /\ Restarts({k}, v)
  /\ UNCHANGED <<kvNow, kvCall>>

KvDel(c) ==
  /\ Free(c)
  /\ \E k \in KvKey : Present(k) /\ Store(k, Absent, Forever) /\ Restarts({k}, 0)
  /\ UNCHANGED <<kvNow, kvCall>>

\* Mutant: an expired entry is given a new time.
KvExpireRevives(c) ==
  /\ Free(c)
  /\ \E k \in KvKey, t \in KvTtls :
       /\ Present(k)
       /\ kvStore' = [kvStore EXCEPT ![k].expires_at = kvNow + t]
  /\ UNCHANGED <<kvNow, kvCall, kvHistory>>
KvExpire(c) ==
  /\ Free(c)
  /\ \E k \in KvKey, t \in KvTtls :
       /\ Readable(k)
       /\ kvStore' = [kvStore EXCEPT ![k].expires_at = kvNow + t]
  /\ UNCHANGED <<kvNow, kvCall, kvHistory>>

\* Mutant: the number of an expired entry is added to.
KvIncrPresentAddsToExpired(c) ==
  /\ Free(c)
  /\ \E k \in KvKey :
       /\ Present(k) /\ kvStore[k].value # Text /\ kvAdded[k] < KvMaxCount
       /\ Store(k, kvStore[k].value + 1, Forever)
       /\ IF IsExpired(k) THEN kvBase' = [kvBase EXCEPT ![k] = 0]
                               /\ kvAdded' = [kvAdded EXCEPT ![k] = 1] /\ kvRaced' = kvRaced \ {k}
                          ELSE kvAdded' = [kvAdded EXCEPT ![k] = @ + 1]
                               /\ UNCHANGED <<kvBase, kvRaced>>
  /\ UNCHANGED <<kvNow, kvCall>>

\* kv_incr of an entry, under its lock: an expired one starts anew.
IncrementsEntry(k) ==
  /\ Present(k) /\ kvAdded[k] < KvMaxCount
  /\ \/ /\ IsExpired(k)
        /\ Store(k, 1, Forever)
        /\ kvBase' = [kvBase EXCEPT ![k] = 0] /\ kvAdded' = [kvAdded EXCEPT ![k] = 1]
        /\ kvRaced' = kvRaced \ {k}
     \/ /\ ~IsExpired(k) /\ kvStore[k].value # Text
        /\ kvStore' = [kvStore EXCEPT ![k].value = @ + 1]
        /\ kvAdded' = [kvAdded EXCEPT ![k] = @ + 1]
        /\ UNCHANGED <<kvBase, kvRaced>>

KvIncrPresent(c) ==
  /\ Free(c)
  /\ \E k \in KvKey : IncrementsEntry(k)
  /\ UNCHANGED <<kvNow, kvCall>>

\* kv_incr of an absent key: not found ...
KvIncrLookup(c) ==
  /\ Free(c)
  /\ \E k \in KvKey : ~Present(k) /\ kvCall' = [kvCall EXCEPT ![c] = k]
  /\ UNCHANGED <<kvStore, kvNow, kvHistory>>

\* ... then inserted over whatever is there by now.
KvIncrInsert(c) ==
  /\ ~Free(c)
  /\ LET k == kvCall[c] IN
       /\ Store(k, 1, Forever)
       /\ IF Present(k)
            THEN /\ kvAdded' = [kvAdded EXCEPT ![k] = @ + 1] /\ UNCHANGED kvBase
                 /\ kvRaced' = kvRaced \cup {k}
            ELSE /\ kvBase' = [kvBase EXCEPT ![k] = 0] /\ kvAdded' = [kvAdded EXCEPT ![k] = 1]
                 /\ kvRaced' = kvRaced \ {k}
  /\ kvCall' = [kvCall EXCEPT ![c] = NoKvKey]
  /\ UNCHANGED kvNow

\* Removes what is expired, in one pass over the map.
CleanupExpiredKv ==
  /\ LET S == {k \in KvKey : Present(k) /\ IsExpired(k)} IN
       /\ S # {}
       /\ kvStore' = [k \in KvKey |-> IF k \in S THEN [value |-> Absent, expires_at |-> Forever]
                                             ELSE kvStore[k]]
       /\ Restarts(S, 0)
  /\ UNCHANGED <<kvNow, kvCall>>

\* now_ms follows the wall clock, which somebody may set back.
KvTick ==
  /\ kvNow' \in {kvNow + 1, kvNow - 1} \cap 0..KvMaxNow
  /\ UNCHANGED <<kvStore, kvCall, kvHistory>>

KvWrite(c) == KvSet(c) \/ KvIncrPresent(c) \/ KvIncrInsert(c)

KvNext ==
  \/ \E c \in KvClient :
       \/ KvSet(c) \/ KvDel(c) \/ KvExpire(c)
       \/ KvIncrPresent(c) \/ KvIncrLookup(c) \/ KvIncrInsert(c)
  \/ CleanupExpiredKv \/ KvTick

KvSpec == KvInit /\ [][KvNext]_kvVars

-----------------------------------------------------------------------------
(* A counter is what it was set to plus the increments that were answered
   since, however the calls of several clients interleave with expiry and its
   cleanup; the one exception is a kv_incr that found no entry and inserted
   its own over one that had appeared meanwhile. *)
IncrementsCounted ==
  \A k \in KvKey : Readable(k) /\ kvStore[k].value # Text /\ k \notin kvRaced =>
    kvStore[k].value = (IF kvBase[k] = Text THEN 0 ELSE kvBase[k]) + kvAdded[k]

\* The clock is set back while the expired entry is still in the map.
ClockRevives(k) == kvNow' < kvNow /\ Present(k) /\ UNCHANGED kvStore

(* An expired value does not come back by itself: a key that reads as absent
   reads as present again only by a kv_set, kv_mset or kv_incr, or because the
   clock was set back before the sweep took the entry.  Neither kv_expire nor a
   lookup revives it, and one that was swept, deleted or overwritten is gone
   whatever the clock does. *)
ExpiredStaysGone ==
  [][\A k \in KvKey : ~Readable(k) /\ Readable(k)' =>
       (\E c \in KvClient : KvWrite(c)) \/ ClockRevives(k)]_kvVars
=============================================================================

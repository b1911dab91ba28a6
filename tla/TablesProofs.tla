----------------------------- MODULE TablesProofs -----------------------------
(***************************************************************************)
(* The tables beside the queue -- settings and their row, custom ids, the  *)
(* key-value store, cron jobs -- for any number of callers, names and      *)
(* keys; the patterns that select keys; and the database file: retention   *)
(* keeps the newest backup and the bucket holds one that is young enough,  *)
(* and a restore that is hit by at most one failure leaves the data on     *)
(* disk.  Each part states the invariant its property needs, shows that    *)
(* every action keeps it, and draws the theorem.                           *)
(***************************************************************************)
EXTENDS QueueConfig, PushIds, KvStore, Glob, Cron, Backups, Restore, TLAPS, FiniteSetTheorems,
        NaturalsInduction, WellFoundedInduction

-----------------------------------------------------------------------------
(* The settings of a queue *)

Settings == [paused : BOOLEAN, rate : QcLimits \cup {Unset}, concurrency : QcLimits \cup {Unset}]

QcTypeOK ==
  /\ qcState \in Settings /\ qcRow \in Settings
  /\ qcCall \in [QcCaller ->
       [at : {"idle", "read", "store"}, read : Settings, number : Nat]]
  /\ qcReads \in Nat /\ qcStored \in Nat

\* Nothing carries a number that was not given yet; and unless a caller has
\* still to read, whatever was read last -- on its way or in the row -- is what
\* is in force.
LastReadInForce ==
  /\ qcStored <= qcReads
  /\ \A c \in QcCaller : qcCall[c].at = "store" => qcCall[c].number <= qcReads
  /\ (\A c \in QcCaller : qcCall[c].at # "read") =>
       /\ qcStored = qcReads => qcRow = qcState
       /\ \A c \in QcCaller :
            qcCall[c].at = "store" /\ qcCall[c].number = qcReads => qcCall[c].read = qcState

QcInv == QcTypeOK /\ LastReadInForce

\* The settings stay well typed.
LEMMA QcTypeStep == QcTypeOK /\ [QcNext]_qcVars => QcTypeOK'
<1> SUFFICES ASSUME QcTypeOK, [QcNext]_qcVars PROVE QcTypeOK'
  OBVIOUS
<1> USE DEF QcTypeOK, Settings
<1>1. CASE UNCHANGED qcVars
  BY <1>1 DEF qcVars
<1>2. CASE RecoverConfig
  BY <1>2 DEF RecoverConfig, NoConfigCall, Default, Unset
<1>3. ASSUME NEW c \in QcCaller, ChangeSetting(c) PROVE QcTypeOK'
  BY <1>3 DEF ChangeSetting, Calling, Unset
<1>4. ASSUME NEW c \in QcCaller, ReadSettings(c) PROVE QcTypeOK'
  BY <1>4 DEF ReadSettings, Held
<1>5. ASSUME NEW c \in QcCaller, StoreRow(c) PROVE QcTypeOK'
  BY <1>5 DEF StoreRow, NoConfigCall, Default, Unset
<1>6. ASSUME NEW c \in QcCaller, ObliterateConfig(c) PROVE QcTypeOK'
  BY <1>6 DEF ObliterateConfig, Calling, Held, Default, Unset
<1>7. CASE ResetConfig
  BY <1>7 DEF ResetConfig, Default, Unset
<1> QED BY <1>1, <1>2, <1>3, <1>4, <1>5, <1>6, <1>7 DEF QcNext

\* What is read last stays what is in force, or somebody has still to read.
LEMMA LastReadStep == QcInv /\ [QcNext]_qcVars => LastReadInForce'
<1> SUFFICES ASSUME QcInv, [QcNext]_qcVars PROVE LastReadInForce'
  OBVIOUS
<1> USE DEF QcInv, QcTypeOK, LastReadInForce
<1>1. CASE UNCHANGED qcVars
  BY <1>1 DEF qcVars
<1>2. CASE RecoverConfig
  BY <1>2 DEF RecoverConfig, NoConfigCall
<1>3. ASSUME NEW c \in QcCaller, ChangeSetting(c) PROVE LastReadInForce'
  <2>1. qcCall'[c].at = "read"
    BY <1>3 DEF ChangeSetting
  <2> QED BY <1>3, <2>1 DEF ChangeSetting
<1>4. ASSUME NEW c \in QcCaller, ReadSettings(c) PROVE LastReadInForce'
  BY <1>4 DEF ReadSettings, Held
<1>5. ASSUME NEW c \in QcCaller, StoreRow(c) PROVE LastReadInForce'
  BY <1>5 DEF StoreRow, NoConfigCall
<1>6. ASSUME NEW c \in QcCaller, ObliterateConfig(c) PROVE LastReadInForce'
  BY <1>6 DEF ObliterateConfig, Held
<1>7. CASE ResetConfig
  BY <1>7 DEF ResetConfig
<1> QED BY <1>1, <1>2, <1>3, <1>4, <1>5, <1>6, <1>7 DEF QcNext

\* However many callers change, read and store the settings of a queue, and
\* whenever the process dies, an idle queue's row holds what is in force, unless
\* a call stored after one that had read later than it, the store of the last to
\* read failed, or a reset came after it.
THEOREM SettingsSurvive == QcSpec => []RowHoldsSettings
<1>1. QcInit => QcInv
  BY DEF QcInit, QcInv, QcTypeOK, LastReadInForce, Settings, NoConfigCall, Default, Unset
<1>2. QcInv /\ [QcNext]_qcVars => QcInv'
  BY QcTypeStep, LastReadStep DEF QcInv
<1>3. QcInv => RowHoldsSettings
  BY DEF QcInv, QcTypeOK, LastReadInForce, LastReadStored, RowHoldsSettings
<1> QED BY <1>1, <1>2, <1>3, PTL DEF QcSpec

-----------------------------------------------------------------------------
(* Custom ids *)

PiStages == {"idle", "insert", "rollback", "batch_claim", "batch_insert"} \cup FirstIn

PiTypeOK ==
  /\ piMapped \in PiId \cup {Unmapped}
  /\ piJob \in [PiId -> {"none", "waiting", "queue", "elsewhere", "hidden", "completed", "gone"}]
  /\ piMissed \subseteq PiId
  /\ piCall \in [Pusher -> [at : PiStages, id : PiId \cup {Unmapped}]]
  /\ \A p \in Pusher :
       piCall[p].at \in {"insert", "rollback", "batch_insert"} \cup FirstIn => piCall[p].id \in PiId

\* An id that was drawn belongs to the one push that drew it.
DrawnOnce ==
  \A p, q \in Pusher : p # q /\ piCall[p].id = piCall[q].id => piCall[p].id = Unmapped

\* Outside the windows a live job is the one the custom id maps to, and so is
\* the job a push has claimed the id for and not inserted yet.
MappedJobs ==
  ~piWindow =>
    /\ \A j \in PiId : Alive(j) => piMapped = j
    /\ \A p \in Pusher : piCall[p].at \in {"insert", "batch_insert"} =>
         piMapped = piCall[p].id /\ piJob[piCall[p].id] = "none"

PiInv == PiTypeOK /\ DrawnOnce /\ MappedJobs

\* "No id" is not the id of a job.
LEMMA PiIdIsNot0 == Unmapped \notin PiId
  BY PushIdAssumption DEF PiId, Unmapped

\* Every step of a push keeps the types.
LEMMA PushTypeStep ==
  ASSUME PiTypeOK, NEW p \in Pusher,
         \/ PushClaim(p) \/ PushInsert(p) \/ PushReturns(p) \/ PushTakeOut(p) \/ PushRollback(p)
         \/ PushBatchLookup(p) \/ PushBatchClaim(p) \/ PushBatchInsert(p)
  PROVE  PiTypeOK'
<1> USE PiIdIsNot0 DEF PiTypeOK, PiStages, FirstIn, PushAt, PushGoes, Returns, NotPushing, FreeIds
<1>1. CASE PushClaim(p)
  <2>1. CASE UNCHANGED <<piMapped, piCall, piJob, piMissed>>
    BY <2>1
  <2>2. ASSUME NEW j \in FreeIds, PushGoes(p, "insert", j), piMapped' = j, UNCHANGED <<piJob, piMissed>>
        PROVE PiTypeOK'
    BY <2>2
  <2> QED BY <1>1, <2>1, <2>2 DEF PushClaim
<1>2. CASE PushInsert(p)
  BY <1>2 DEF PushInsert
<1>3. CASE PushReturns(p)
  BY <1>3 DEF PushReturns
<1>4. CASE PushTakeOut(p)
  BY <1>4 DEF PushTakeOut
<1>5. CASE PushRollback(p)
  BY <1>5 DEF PushRollback
<1>6. CASE PushBatchLookup(p)
  BY <1>6 DEF PushBatchLookup
<1>7. CASE PushBatchClaim(p)
  BY <1>7 DEF PushBatchClaim
<1>8. CASE PushBatchInsert(p)
  BY <1>8 DEF PushBatchInsert
<1> QED BY <1>1, <1>2, <1>3, <1>4, <1>5, <1>6, <1>7, <1>8

\* An id in somebody's hand is not drawn again.
LEMMA PushDrawsFresh ==
  ASSUME PiTypeOK, DrawnOnce, NEW p \in Pusher,
         \/ PushClaim(p) \/ PushInsert(p) \/ PushReturns(p) \/ PushTakeOut(p) \/ PushRollback(p)
         \/ PushBatchLookup(p) \/ PushBatchClaim(p) \/ PushBatchInsert(p)
  PROVE  DrawnOnce'
<1> USE DEF PiTypeOK, DrawnOnce, PushGoes, Returns, NotPushing
<1>1. CASE PushClaim(p)
  <2>1. CASE UNCHANGED piCall
    BY <2>1
  <2>2. ASSUME NEW j \in FreeIds, PushGoes(p, "insert", j) PROVE DrawnOnce'
    BY <2>2 DEF FreeIds, Drawn
  <2> QED BY <1>1, <2>1, <2>2 DEF PushClaim
<1>2. CASE PushInsert(p)
  BY <1>2 DEF PushInsert
<1>3. CASE PushReturns(p)
  BY <1>3 DEF PushReturns
<1>4. CASE PushTakeOut(p)
  BY <1>4 DEF PushTakeOut
<1>5. CASE PushRollback(p)
  BY <1>5 DEF PushRollback
<1>6. CASE PushBatchLookup(p)
  BY <1>6 DEF PushBatchLookup
<1>7. CASE PushBatchClaim(p)
  BY <1>7 DEF PushBatchClaim, FreeIds, Drawn
<1>8. CASE PushBatchInsert(p)
  BY <1>8 DEF PushBatchInsert
<1> QED BY <1>1, <1>2, <1>3, <1>4, <1>5, <1>6, <1>7, <1>8

\* A push keeps the mapping right or passes one of the windows.
LEMMA PushMapsStep ==
  ASSUME PiInv, NEW p \in Pusher,
         \/ PushClaim(p) \/ PushInsert(p) \/ PushReturns(p) \/ PushTakeOut(p) \/ PushRollback(p)
         \/ PushBatchLookup(p) \/ PushBatchClaim(p) \/ PushBatchInsert(p)
  PROVE  MappedJobs'
<1> USE PiIdIsNot0
    DEF PiInv, PiTypeOK, DrawnOnce, MappedJobs, Alive, FirstIn,
        MapsToSomeone, PushAt, PushGoes, Returns, NotPushing
<1>1. CASE PushClaim(p)
  <2>1. CASE piMapped # Unmapped /\ Found(piMapped)
    BY <1>1, <2>1 DEF PushClaim
  <2>2. CASE ~(piMapped # Unmapped /\ Found(piMapped))
    <3>1. PICK j \in FreeIds : PushGoes(p, "insert", j) /\ piMapped' = j
      BY <1>1, <2>2 DEF PushClaim
    <3>2. piJob[j] = "none" /\ j \in PiId /\ ~Drawn(j)
      BY DEF FreeIds
    <3>3. UNCHANGED piJob
      BY <1>1 DEF PushClaim
    <3>4. SUFFICES ASSUME ~piWindow' PROVE MappedJobs'
      OBVIOUS
    <3>5. ~piWindow /\ (piMapped = Unmapped \/ (~Drawn(piMapped) /\ ~Alive(piMapped)))
      BY <1>1, <2>2, <3>4 DEF PushClaim, MapsToSomeone
    <3>6. \A i \in PiId : ~Alive(i)
      BY <3>5
    <3>7. \A q \in Pusher : piCall[q].at \notin {"insert", "batch_insert"}
      BY <3>5 DEF Drawn
    <3> QED BY <3>1, <3>2, <3>3, <3>6, <3>7
  <2> QED BY <2>1, <2>2
<1>2. CASE PushInsert(p)
  BY <1>2 DEF PushInsert
<1>3. CASE PushReturns(p)
  BY <1>3 DEF PushReturns
<1>4. CASE PushTakeOut(p)
  BY <1>4 DEF PushTakeOut
<1>5. CASE PushRollback(p)
  BY <1>5 DEF PushRollback
<1>6. CASE PushBatchLookup(p)
  BY <1>6 DEF PushBatchLookup
<1>7. CASE PushBatchClaim(p)
  BY <1>7 DEF PushBatchClaim, FreeIds, Drawn
<1>8. CASE PushBatchInsert(p)
  BY <1>8 DEF PushBatchInsert
<1> QED BY <1>1, <1>2, <1>3, <1>4, <1>5, <1>6, <1>7, <1>8

\* What the rest of the engine does with jobs.
LEMMA EngineKeepsMapping ==
  ASSUME PiInv, NEW j \in PiId,
         \/ PiTaken(j) \/ PiFiled(j) \/ PiReleased(j) \/ PiEntryLost(j)
         \/ PiEnd(j) \/ PiCleanupCompleted(j)
  PROVE  PiInv'
<1> USE PiIdIsNot0 DEF PiInv, PiTypeOK, PiStages, FirstIn, DrawnOnce, MappedJobs, Alive, Moves
<1>1. CASE PiTaken(j)
  BY <1>1 DEF PiTaken
<1>2. CASE PiFiled(j)
  BY <1>2 DEF PiFiled
<1>3. CASE PiEnd(j)
  BY <1>3 DEF PiEnd
<1>4. CASE PiCleanupCompleted(j)
  BY <1>4 DEF PiCleanupCompleted
<1>5. CASE PiReleased(j)
  BY <1>5 DEF PiReleased
<1>6. CASE PiEntryLost(j)
  BY <1>6 DEF PiEntryLost
<1> QED BY <1>1, <1>2, <1>3, <1>4, <1>5, <1>6

\* A reset forgets a mapping nobody needs, or passes a window.
LEMMA ResetKeepsMapping == PiInv /\ PiReset => PiInv'
<1> SUFFICES ASSUME PiInv, PiReset PROVE PiInv'
  OBVIOUS
<1>1. PiTypeOK' /\ DrawnOnce'
  BY DEF PiInv, PiReset, PiTypeOK, PiStages, FirstIn, DrawnOnce
<1>2. ASSUME ~piWindow' PROVE MappedJobs'
  <2>1. ~piWindow /\ ~MapsToSomeone /\ piJob' = piJob /\ piCall' = piCall
    <3>1. piWindow' = (piWindow \/ MapsToSomeone) /\ piJob' = piJob /\ piCall' = piCall
      BY DEF PiReset
    <3> QED BY <1>2, <3>1, Zenon
  <2>2. \A j \in PiId : ~Alive(j)
    BY <2>1, PiIdIsNot0 DEF PiInv, MappedJobs, MapsToSomeone
  <2>3. \A p \in Pusher : piCall[p].at \notin {"insert", "batch_insert"}
    BY <2>1, PiIdIsNot0 DEF PiInv, PiTypeOK, MappedJobs, MapsToSomeone, Drawn
  <2> QED BY <2>1, <2>2, <2>3 DEF MappedJobs, Alive
<1> QED BY <1>1, <1>2 DEF PiInv, MappedJobs

\* However many pushes and batch pushes of one custom id are refused, fail and
\* are taken back while its jobs run and end, two of them are never live at
\* once, unless a push passed one of the windows PushIds names.
THEOREM CustomIdsExclusive == PiSpec => []OneLiveJobPerId
<1>1. PiInit => PiInv
  BY PiIdIsNot0 DEF PiInit, PiInv, PiTypeOK, PiStages, FirstIn, DrawnOnce, MappedJobs, Alive,
         NotPushing
<1>2. PiInv /\ [PiNext]_piVars => PiInv'
  <2> SUFFICES ASSUME PiInv, [PiNext]_piVars PROVE PiInv'
    OBVIOUS
  <2>1. CASE UNCHANGED piVars
    BY <2>1 DEF piVars, PiInv, PiTypeOK, PiStages, FirstIn, DrawnOnce, MappedJobs, Alive
  <2>2. ASSUME NEW p \in Pusher,
               \/ PushClaim(p) \/ PushInsert(p) \/ PushReturns(p) \/ PushTakeOut(p)
               \/ PushRollback(p) \/ PushBatchLookup(p) \/ PushBatchClaim(p) \/ PushBatchInsert(p)
        PROVE PiInv'
    BY <2>2, PushTypeStep, PushDrawsFresh, PushMapsStep DEF PiInv
  <2> QED BY <2>1, <2>2, EngineKeepsMapping, ResetKeepsMapping DEF PiNext
<1>3. PiInv => OneLiveJobPerId
  BY DEF PiInv, MappedJobs, OneLiveJobPerId
<1> QED BY <1>1, <1>2, <1>3, PTL DEF PiSpec

-----------------------------------------------------------------------------
(* The key-value store *)

KvTypeOK ==
  /\ kvNow \in Nat
  /\ kvStore \in [KvKey -> [value : Nat \cup {Absent, Text}, expires_at : Nat]]
  /\ kvCall \in [KvClient -> KvKey \cup {NoKvKey}]
  /\ kvBase \in [KvKey -> Nat \cup {Text}] /\ kvAdded \in [KvKey -> Nat]

\* Entries that expired count too: the clock may make them readable again.
EntriesCounted ==
  \A k \in KvKey : Present(k) /\ kvStore[k].value # Text /\ k \notin kvRaced =>
    kvStore[k].value = (IF kvBase[k] = Text THEN 0 ELSE kvBase[k]) + kvAdded[k]

KvInv == KvTypeOK /\ EntriesCounted

\* Every step of the store is one call, or the clock's.
LEMMA KvAction ==
  KvNext <=> \/ CleanupExpiredKv \/ KvTick
             \/ \E c \in KvClient : \/ KvSet(c) \/ KvDel(c) \/ KvExpire(c)
                                    \/ KvIncrPresent(c) \/ KvIncrLookup(c) \/ KvIncrInsert(c)
  BY DEF KvNext

\* An expiry is a time, the one of "never" too.
LEMMA KvExpiriesAreTimes == KvTypeOK => Forever \in Nat /\ Expiries \subseteq Nat
  BY KvAssumption DEF KvTypeOK, Forever, Expiries

\* Every action of the store keeps the types.
LEMMA KvTypeStep == KvTypeOK /\ [KvNext]_kvVars => KvTypeOK'
<1> SUFFICES ASSUME KvTypeOK, [KvNext]_kvVars PROVE KvTypeOK'
  OBVIOUS
<1> USE KvExpiriesAreTimes, KvAssumption
    DEF KvTypeOK, Store, Restarts, Absent, Text, Free, kvHistory, Present
<1>1. CASE UNCHANGED kvVars
  BY <1>1 DEF kvVars
<1>2. CASE CleanupExpiredKv
  BY <1>2 DEF CleanupExpiredKv
<1>3. CASE KvTick
  BY <1>3 DEF KvTick
<1>4. ASSUME NEW c \in KvClient, KvSet(c) PROVE KvTypeOK'
  BY <1>4 DEF KvSet
<1>5. ASSUME NEW c \in KvClient, KvDel(c) PROVE KvTypeOK'
  BY <1>5 DEF KvDel
<1>6. ASSUME NEW c \in KvClient, KvExpire(c) PROVE KvTypeOK'
  BY <1>6 DEF KvExpire, Readable
<1>7. ASSUME NEW c \in KvClient, KvIncrPresent(c) PROVE KvTypeOK'
  <2>1. PICK k \in KvKey : IncrementsEntry(k)
    BY <1>7 DEF KvIncrPresent, IncrementsEntry
  <2>2. CASE IsExpired(k)
    BY <1>7, <2>1, <2>2 DEF KvIncrPresent, IncrementsEntry
  <2>3. CASE ~IsExpired(k)
    <3>1. kvStore[k].value \in Nat
      BY <2>1, <2>3 DEF IncrementsEntry
    <3>2. kvStore' = [kvStore EXCEPT ![k].value = @ + 1] /\ kvAdded' = [kvAdded EXCEPT ![k] = @ + 1]
      BY <2>1, <2>3 DEF IncrementsEntry
    <3>3. UNCHANGED <<kvBase, kvNow, kvCall>>
      BY <1>7, <2>1, <2>3 DEF KvIncrPresent, IncrementsEntry
    <3>4. kvStore[k].value + 1 \in Nat /\ kvAdded[k] + 1 \in Nat
      BY <3>1
    <3>5. kvStore' \in [KvKey -> [value : Nat \cup {Absent, Text}, expires_at : Nat]]
      BY <3>2, <3>4
    <3> QED BY <3>2, <3>3, <3>4, <3>5
  <2> QED BY <2>2, <2>3
<1>8. ASSUME NEW c \in KvClient, KvIncrLookup(c) PROVE KvTypeOK'
  BY <1>8 DEF KvIncrLookup
<1>9. ASSUME NEW c \in KvClient, KvIncrInsert(c) PROVE KvTypeOK'
  <2> DEFINE k == kvCall[c]
  <2>1. k \in KvKey
    BY <1>9 DEF KvIncrInsert
  <2>2. /\ kvStore' \in [KvKey -> [value : Nat \cup {Absent, Text}, expires_at : Nat]]
        /\ kvCall' \in [KvClient -> KvKey \cup {NoKvKey}] /\ kvNow' \in Nat
    BY <1>9 DEF KvIncrInsert
  <2>3. \/ kvBase' = [kvBase EXCEPT ![k] = 0] /\ kvAdded' = [kvAdded EXCEPT ![k] = 1]
        \/ kvBase' = kvBase /\ kvAdded' = [kvAdded EXCEPT ![k] = @ + 1]
    BY <1>9 DEF KvIncrInsert
  <2>4. kvBase' \in [KvKey -> Nat \cup {Text}]
    BY <2>1, <2>3
  <2>5. kvAdded[k] + 1 \in Nat
    BY <2>1
  <2>6. kvAdded' \in [KvKey -> Nat]
    BY <2>1, <2>3, <2>5
  <2> QED BY <2>2, <2>4, <2>6
<1> QED BY <1>1, <1>2, <1>3, <1>4, <1>5, <1>6, <1>7, <1>8, <1>9, KvAction

\* Every action counts the increments it answers.
LEMMA KvCountStep == KvInv /\ [KvNext]_kvVars => EntriesCounted'
<1> SUFFICES ASSUME KvInv, [KvNext]_kvVars PROVE EntriesCounted'
  OBVIOUS
<1> USE KvExpiriesAreTimes, KvAssumption
    DEF KvInv, KvTypeOK, EntriesCounted, Store, Restarts, Absent, Text, Free, kvHistory,
        Present, Readable, IsExpired
<1>1. CASE UNCHANGED kvVars
  BY <1>1 DEF kvVars
<1>2. CASE CleanupExpiredKv
  BY <1>2 DEF CleanupExpiredKv
<1>3. CASE KvTick
  BY <1>3 DEF KvTick
<1>4. ASSUME NEW c \in KvClient, KvSet(c) PROVE EntriesCounted'
  BY <1>4 DEF KvSet
<1>5. ASSUME NEW c \in KvClient, KvDel(c) PROVE EntriesCounted'
  BY <1>5 DEF KvDel
<1>6. ASSUME NEW c \in KvClient, KvExpire(c) PROVE EntriesCounted'
  BY <1>6 DEF KvExpire
<1>7. ASSUME NEW c \in KvClient, KvIncrPresent(c) PROVE EntriesCounted'
  <2>1. PICK k \in KvKey : IncrementsEntry(k)
    BY <1>7 DEF KvIncrPresent, IncrementsEntry
  <2>2. CASE IsExpired(k)
    BY <1>7, <2>1, <2>2 DEF KvIncrPresent, IncrementsEntry
  <2>3. CASE ~IsExpired(k)
    <3>1. kvStore[k].value \in Nat
      BY <2>1, <2>3 DEF IncrementsEntry
    <3> QED BY <1>7, <2>1, <2>3, <3>1 DEF KvIncrPresent, IncrementsEntry
  <2> QED BY <2>2, <2>3
<1>8. ASSUME NEW c \in KvClient, KvIncrLookup(c) PROVE EntriesCounted'
  BY <1>8 DEF KvIncrLookup
<1>9. ASSUME NEW c \in KvClient, KvIncrInsert(c) PROVE EntriesCounted'
  BY <1>9 DEF KvIncrInsert
<1> QED BY <1>1, <1>2, <1>3, <1>4, <1>5, <1>6, <1>7, <1>8, <1>9, KvAction

\* The invariant of the store.
LEMMA KvInvariant == KvSpec => []KvInv
<1>1. KvInit => KvInv
  BY KvAssumption
     DEF KvInit, KvInv, KvTypeOK, EntriesCounted, Readable, Present, Absent, Text, Forever
<1>2. KvInv /\ [KvNext]_kvVars => KvInv'
  BY KvTypeStep, KvCountStep DEF KvInv
<1> QED BY <1>1, <1>2, PTL DEF KvSpec

\* A counter is what it was set to plus the increments answered since, for any
\* number of keys and clients, any TTLs and however long the clock runs; the
\* exception is the insertion of a kv_incr over an entry that had appeared.
THEOREM IncrementsAreCounted == KvSpec => []IncrementsCounted
<1>1. KvInv => IncrementsCounted
  BY DEF KvInv, EntriesCounted, IncrementsCounted, Readable
<1> QED BY <1>1, KvInvariant, PTL

\* A key reads as present again only by a step that writes it, or by the clock.
LEMMA OnlyWritesRevive ==
  ASSUME KvTypeOK, KvNext, NEW k \in KvKey, ~Readable(k), Readable(k)'
  PROVE  (\E c \in KvClient : KvWrite(c)) \/ ClockRevives(k)
<1> USE KvExpiriesAreTimes, KvAssumption
    DEF KvTypeOK, Store, Absent, Text, Free, Present, Readable, IsExpired
<1>1. CASE CleanupExpiredKv
  BY <1>1 DEF CleanupExpiredKv
<1>2. CASE KvTick
  <2>1. kvStore' = kvStore /\ kvStore[k].expires_at \in Nat /\ kvNow \in Nat /\ kvNow' \in Nat
    BY <1>2 DEF KvTick
  <2>2. kvNow > kvStore[k].expires_at /\ ~(kvNow' > kvStore[k].expires_at) /\ Present(k)
    BY <2>1
  <2> QED BY <2>1, <2>2 DEF ClockRevives
<1>3. ASSUME NEW c \in KvClient, KvDel(c) PROVE FALSE
  BY <1>3 DEF KvDel
<1>4. ASSUME NEW c \in KvClient, KvExpire(c) PROVE FALSE
  BY <1>4 DEF KvExpire
<1>5. ASSUME NEW c \in KvClient, KvIncrLookup(c) PROVE FALSE
  BY <1>5 DEF KvIncrLookup
<1> QED BY <1>1, <1>2, <1>3, <1>4, <1>5, KvAction DEF KvWrite

\* An expired value never comes back by itself, although its entry stays in the
\* map until the sweep: not by kv_expire, not by a lookup, and not by time unless
\* the clock is set back before the sweep.
THEOREM ExpiredNeverReturns == KvSpec => ExpiredStaysGone
<1>1. KvTypeOK /\ [KvNext]_kvVars =>
        [\A k \in KvKey : ~Readable(k) /\ Readable(k)' =>
             (\E c \in KvClient : KvWrite(c)) \/ ClockRevives(k)]_kvVars
  BY OnlyWritesRevive
<1>2. KvInv => KvTypeOK
  BY DEF KvInv
<1> QED BY <1>1, <1>2, KvInvariant, PTL DEF KvSpec, ExpiredStaysGone

-----------------------------------------------------------------------------
(* Cron jobs *)

CronTime == 0..CronMaxNow
CronEntry == [serial : Nat, kind : CronKind, next_run : Nat, executions : Nat]
CronPushRecord == [serial : Nat, kind : CronKind, slot : Nat, at : CronTime, process : Nat]
CronUpdate == CronName \X Nat \X Nat

CronTypeOK ==
  /\ cronJobs \in [CronName -> CronEntry] /\ cronRows \in [CronName -> CronEntry]
  /\ cronCall \in [CronCaller -> [at : {"idle", "insert", "delete_rows"},
                                  names : SUBSET CronName, entry : CronEntry]]
  /\ cronTask \in [updates : SUBSET CronUpdate, removals : SUBSET CronName,
                   pushes : SUBSET CronPushRecord]
  /\ cronPushes \subseteq CronPushRecord
  /\ cronNow \in CronTime /\ cronAdds \in Nat /\ cronRestarts \in Nat

\* The pushes that are decided, made or not.
Decided == cronPushes \cup cronTask.pushes
Inserting(c) == cronCall[c].at = "insert"

\* A serial was given by add_cron, and is of one name.
Registers(n, s) ==
  \/ cronJobs[n].serial = s \/ cronRows[n].serial = s
  \/ \E c \in CronCaller : Inserting(c) /\ n \in cronCall[c].names /\ cronCall[c].entry.serial = s

CronSerials ==
  /\ \A n \in CronName : /\ cronJobs[n] = NoEntry \/ cronJobs[n].serial \in 1..cronAdds
                         /\ cronRows[n] = NoEntry \/ cronRows[n].serial \in 1..cronAdds
  /\ \A c \in CronCaller : Inserting(c) => cronCall[c].entry.serial \in 1..cronAdds
  /\ \A p \in Decided : p.serial \in 1..cronAdds
  /\ \A m, n \in CronName, s \in Nat \ {0} : Registers(m, s) /\ Registers(n, s) => m = n

\* What add_cron has still to insert was never in the table, nor pushed.
InsertsAreNew ==
  \A c \in CronCaller : Inserting(c) =>
    /\ \A n \in CronName : cronJobs[n].serial # cronCall[c].entry.serial
    /\ \A p \in Decided : p.serial # cronCall[c].entry.serial
    /\ \A d \in CronCaller \ {c} : Inserting(d) =>
         cronCall[d].entry.serial # cronCall[c].entry.serial

Kept(p) == p.serial \notin cronStale
After(t, p) == t >= NextRun(p.kind, p.at)

\* A registration's next run comes after each of its pushes: in the table for
\* those decided, in the row for those made -- for those not made yet the row is
\* right or about to be written.
RunsAhead ==
  /\ \A n \in CronName, p \in Decided :
       cronJobs[n].serial = p.serial /\ Kept(p) => After(cronJobs[n].next_run, p)
  /\ \A n \in CronName, p \in cronPushes :
       cronRows[n].serial = p.serial /\ Kept(p) => After(cronRows[n].next_run, p)
  /\ \A n \in CronName, p \in cronTask.pushes : cronRows[n].serial = p.serial /\ Kept(p) =>
       \/ After(cronRows[n].next_run, p)
       \/ \E u \in cronTask.updates : u[1] = n /\ u[3] = p.serial
  /\ \A u \in cronTask.updates, p \in Decided :
       u[3] = p.serial /\ Kept(p) => After(u[2], p)

PushesSpaced ==
  /\ \A p \in Decided : p.process <= cronRestarts
  /\ \A p, q \in Decided : p.serial = q.serial /\ p # q /\ Kept(p) =>
       Follows(p, q) \/ Follows(q, p)

PushesOf(s, r) == {q \in Decided : q.serial = s /\ q.process = r}

\* The count of executions keeps up with the pushes of this process.
PushesCounted ==
  /\ \A s, r \in Nat :
       IsFiniteSet(PushesOf(s, r)) /\ Cardinality(PushesOf(s, r)) <= CronLimit
  /\ \A n \in CronName : cronJobs[n] # NoEntry =>
       Cardinality(PushesOf(cronJobs[n].serial, cronRestarts)) <= cronJobs[n].executions

CronInv ==
  /\ CronTypeOK /\ CronSerials /\ InsertsAreNew /\ RunsAhead /\ PushesSpaced
  /\ PushesCounted /\ NoGhostCron

\* The next run after a time is a time, and not before it.
LEMMA NextRunIsLater ==
  ASSUME NEW kind \in CronKind, NEW t \in CronTime
  PROVE  NextRun(kind, t) \in Nat /\ NextRun(kind, t) >= t
  BY CronAssumption, CronOccursAssumption DEF NextRun, CronTime

\* A run adds one to the count and moves the next run on.
LEMMA AdvancedEntry ==
  ASSUME NEW e \in CronEntry, cronNow \in CronTime
  PROVE  /\ Advanced(e) \in CronEntry /\ Advanced(e).serial = e.serial
         /\ Advanced(e).kind = e.kind
         /\ Advanced(e).next_run = NextRun(e.kind, cronNow)
         /\ Advanced(e).executions = e.executions + 1
<1>1. e.kind \in CronKind /\ NextRun(e.kind, cronNow) \in Nat
  BY NextRunIsLater DEF CronEntry
<1>2. Advanced(e) \in CronEntry
  <2>1. [e EXCEPT !.executions = @ + 1] \in CronEntry
    BY DEF CronEntry
  <2> QED BY <1>1, <2>1 DEF Advanced, CronEntry
<1>3. Advanced(e).serial = e.serial /\ Advanced(e).kind = e.kind
  BY DEF Advanced, CronEntry
<1>4. Advanced(e).next_run = NextRun(e.kind, cronNow)
  BY DEF Advanced, CronEntry
<1>5. Advanced(e).executions = e.executions + 1
  BY DEF Advanced, CronEntry
<1> QED BY <1>2, <1>3, <1>4, <1>5

\* A push says of which entry, when and by which process it was decided.
LEMMA PushOfEntry ==
  ASSUME NEW e \in CronEntry, cronNow \in CronTime, cronRestarts \in Nat
  PROVE  /\ PushOf(e) \in CronPushRecord /\ PushOf(e).serial = e.serial
         /\ PushOf(e).kind = e.kind /\ PushOf(e).slot = e.next_run
         /\ PushOf(e).at = cronNow /\ PushOf(e).process = cronRestarts
  BY DEF PushOf, CronEntry, CronPushRecord

\* What one run of the task does to the table and leaves to be done.
LEMMA CronRun ==
  ASSUME CronInv, RunCronJobs
  PROVE  /\ cronTask = NothingDue /\ Decided = cronPushes
         /\ \A n \in CronName :
              \/ cronJobs'[n] = cronJobs[n]
              \/ cronJobs'[n] = NoEntry /\ n \in cronTask'.removals
              \/ /\ cronJobs[n] # NoEntry /\ cronJobs[n].next_run <= cronNow
                 /\ cronJobs[n].executions < CronLimit
                 /\ cronJobs'[n] = Advanced(cronJobs[n])
                 /\ PushOf(cronJobs[n]) \in cronTask'.pushes
         /\ \A p \in cronTask'.pushes : \E n \in CronName :
              /\ cronJobs[n] # NoEntry /\ cronJobs[n].next_run <= cronNow
              /\ cronJobs[n].executions < CronLimit
              /\ cronJobs'[n] = Advanced(cronJobs[n])
              /\ p = PushOf(cronJobs[n])
              /\ <<n, NextRun(cronJobs[n].kind, cronNow), p.serial>> \in cronTask'.updates
         /\ \A u \in cronTask'.updates : \E n \in CronName :
              /\ u = <<n, NextRun(cronJobs[n].kind, cronNow), cronJobs[n].serial>>
              /\ cronJobs[n] # NoEntry /\ cronJobs[n].next_run <= cronNow
         /\ cronTask' = [updates |-> cronTask'.updates, removals |-> cronTask'.removals,
                         pushes |-> cronTask'.pushes]
         /\ cronTask'.removals \subseteq CronName
         /\ cronJobs' \in [CronName -> CronEntry]
<1> DEFINE run == {n \in CronName : Due(n) /\ ~Spent(n)}
           gone == {n \in CronName : Due(n) /\ Spent(n)}
<1>1. /\ cronTask = NothingDue
      /\ cronJobs' = [n \in CronName |-> CASE n \in run -> Advanced(cronJobs[n])
                                           [] n \in gone -> NoEntry
                                           [] OTHER -> cronJobs[n]]
      /\ cronTask' = [updates |-> {<<n, cronJobs'[n].next_run, cronJobs[n].serial>> : n \in run},
                      removals |-> gone, pushes |-> {PushOf(cronJobs[n]) : n \in run}]
  BY DEF RunCronJobs
<1>2. run \cap gone = {} /\ run \subseteq CronName /\ gone \subseteq CronName
  OBVIOUS
<1>3. \A n \in run :
        /\ cronJobs[n] # NoEntry /\ cronJobs[n].next_run <= cronNow
        /\ cronJobs[n].executions < CronLimit
  BY CronAssumption DEF Due, Spent, CronInv, CronTypeOK, CronEntry
<1> HIDE DEF run, gone
<1>4. \A n \in CronName :
        /\ n \in run => cronJobs'[n] = Advanced(cronJobs[n])
        /\ n \in gone => cronJobs'[n] = NoEntry
        /\ n \notin run \cup gone => cronJobs'[n] = cronJobs[n]
  BY <1>1, <1>2
<1>5. \A n \in run : cronJobs'[n].next_run = NextRun(cronJobs[n].kind, cronNow)
  <2>1. cronNow \in CronTime /\ \A n \in CronName : cronJobs[n] \in CronEntry
    BY DEF CronInv, CronTypeOK
  <2> QED BY <2>1, <1>2, <1>4, AdvancedEntry
<1>6. /\ cronTask'.updates = {<<n, NextRun(cronJobs[n].kind, cronNow), cronJobs[n].serial>> : n \in run}
      /\ cronTask'.removals = gone
      /\ cronTask'.pushes = {PushOf(cronJobs[n]) : n \in run}
      /\ cronTask' = [updates |-> cronTask'.updates, removals |-> cronTask'.removals,
                      pushes |-> cronTask'.pushes]
  BY <1>1, <1>5
<1>7. \A n \in CronName : cronJobs'[n] \in CronEntry
  <2>1. NoEntry \in CronEntry
    BY DEF NoEntry, CronEntry, CronKind
  <2>2. \A n \in CronName : Advanced(cronJobs[n]) \in CronEntry /\ cronJobs[n] \in CronEntry
    BY AdvancedEntry DEF CronInv, CronTypeOK
  <2> QED BY <2>1, <2>2, <1>4
<1>8. cronJobs' \in [CronName -> CronEntry]
  BY <1>1, <1>7
<1>9. Decided = cronPushes
  BY <1>1 DEF Decided, NothingDue
<1>10. ASSUME NEW n \in CronName
       PROVE \/ cronJobs'[n] = cronJobs[n]
             \/ cronJobs'[n] = NoEntry /\ n \in cronTask'.removals
             \/ /\ cronJobs[n] # NoEntry /\ cronJobs[n].next_run <= cronNow
                /\ cronJobs[n].executions < CronLimit
                /\ cronJobs'[n] = Advanced(cronJobs[n])
                /\ PushOf(cronJobs[n]) \in cronTask'.pushes
  BY <1>3, <1>4, <1>6
<1>11. ASSUME NEW p \in cronTask'.pushes
       PROVE \E n \in CronName :
               /\ cronJobs[n] # NoEntry /\ cronJobs[n].next_run <= cronNow
               /\ cronJobs[n].executions < CronLimit
               /\ cronJobs'[n] = Advanced(cronJobs[n])
               /\ p = PushOf(cronJobs[n])
               /\ <<n, NextRun(cronJobs[n].kind, cronNow), p.serial>> \in cronTask'.updates
  <2>1. PICK n \in run : p = PushOf(cronJobs[n])
    BY <1>6
  <2>2. p.serial = cronJobs[n].serial
    BY <2>1 DEF PushOf
  <2> QED BY <1>2, <1>3, <1>4, <1>6, <2>1, <2>2
<1>12. ASSUME NEW u \in cronTask'.updates
       PROVE \E n \in CronName :
               /\ u = <<n, NextRun(cronJobs[n].kind, cronNow), cronJobs[n].serial>>
               /\ cronJobs[n] # NoEntry /\ cronJobs[n].next_run <= cronNow
  BY <1>2, <1>3, <1>6
<1> QED BY <1>1, <1>2, <1>6, <1>8, <1>9, <1>10, <1>11, <1>12


\* The same, said of serials and times.
LEMMA CronRunFacts ==
  ASSUME CronInv, RunCronJobs
  PROVE  /\ cronTask = NothingDue /\ Decided = cronPushes
         /\ Decided' = cronPushes \cup cronTask'.pushes
         /\ UNCHANGED <<cronRows, cronCall, cronNow, cronAdds, cronRestarts, cronPushes>>
         /\ UNCHANGED <<cronStale, cronForgotten>>
         /\ \A n \in CronName :
              \/ cronJobs'[n] = cronJobs[n]
              \/ cronJobs'[n] = NoEntry /\ n \in cronTask'.removals
              \/ /\ cronJobs[n].serial \in 1..cronAdds
                 /\ cronJobs'[n].serial = cronJobs[n].serial
                 /\ cronJobs[n].next_run <= cronNow
                 /\ cronJobs'[n].next_run = NextRun(cronJobs[n].kind, cronNow)
                 /\ cronJobs'[n].executions = cronJobs[n].executions + 1
         /\ \A p \in cronTask'.pushes :
              /\ p.at = cronNow /\ p.process = cronRestarts /\ p.serial \in 1..cronAdds
              /\ \E n \in CronName : Registers(n, p.serial)
              /\ \A n \in CronName : Registers(n, p.serial) =>
                   /\ cronJobs[n].serial = p.serial /\ cronJobs[n].next_run <= cronNow
                   /\ p.kind = cronJobs[n].kind /\ p.slot = cronJobs[n].next_run
                   /\ cronJobs'[n].next_run = NextRun(p.kind, cronNow)
                   /\ cronJobs[n].executions < CronLimit
                   /\ cronJobs'[n].executions = cronJobs[n].executions + 1
                   /\ \E u \in cronTask'.updates : u[1] = n /\ u[3] = p.serial
         /\ \A p, q \in cronTask'.pushes : p.serial = q.serial => p = q
         /\ \A u \in cronTask'.updates : \E n \in CronName :
              /\ cronJobs[n].serial = u[3] /\ cronJobs[n].serial \in 1..cronAdds
              /\ cronJobs[n].next_run <= cronNow
              /\ u[1] = n /\ u[2] = NextRun(cronJobs[n].kind, cronNow)
<1>1. cronNow \in CronTime /\ cronRestarts \in Nat /\ \A n \in CronName : cronJobs[n] \in CronEntry
  BY DEF CronInv, CronTypeOK
<1>2. \A n \in CronName : cronJobs[n] # NoEntry => cronJobs[n].serial \in 1..cronAdds
  BY DEF CronInv, CronSerials
<1>3. /\ UNCHANGED <<cronRows, cronCall, cronNow, cronAdds, cronRestarts, cronPushes>>
      /\ UNCHANGED <<cronStale, cronForgotten>>
  BY DEF RunCronJobs, cronBounds, cronFailed
<1>4. ASSUME NEW n \in CronName
      PROVE \/ cronJobs'[n] = cronJobs[n]
            \/ cronJobs'[n] = NoEntry /\ n \in cronTask'.removals
            \/ /\ cronJobs[n].serial \in 1..cronAdds
               /\ cronJobs'[n].serial = cronJobs[n].serial
               /\ cronJobs[n].next_run <= cronNow
               /\ cronJobs'[n].next_run = NextRun(cronJobs[n].kind, cronNow)
               /\ cronJobs'[n].executions = cronJobs[n].executions + 1
  BY <1>1, <1>2, CronRun, AdvancedEntry
<1>5. ASSUME NEW p \in cronTask'.pushes
      PROVE /\ p.at = cronNow /\ p.process = cronRestarts /\ p.serial \in 1..cronAdds
            /\ \E n \in CronName :
                 /\ cronJobs[n].serial = p.serial /\ cronJobs[n].next_run <= cronNow
                 /\ p.kind = cronJobs[n].kind /\ p.slot = cronJobs[n].next_run
                 /\ cronJobs'[n].next_run = NextRun(p.kind, cronNow)
                 /\ cronJobs[n].executions < CronLimit
                 /\ cronJobs'[n].executions = cronJobs[n].executions + 1
                 /\ p = PushOf(cronJobs[n])
                 /\ \E u \in cronTask'.updates : u[1] = n /\ u[3] = p.serial
  <2>1. PICK n \in CronName :
          /\ cronJobs[n] # NoEntry /\ cronJobs[n].next_run <= cronNow
          /\ cronJobs[n].executions < CronLimit
          /\ cronJobs'[n] = Advanced(cronJobs[n]) /\ p = PushOf(cronJobs[n])
          /\ <<n, NextRun(cronJobs[n].kind, cronNow), p.serial>> \in cronTask'.updates
    BY CronRun
  <2>2. \E u \in cronTask'.updates : u[1] = n /\ u[3] = p.serial
    BY <2>1
  <2> QED BY <1>1, <1>2, <2>1, <2>2, AdvancedEntry, PushOfEntry
<1>6. ASSUME NEW p \in cronTask'.pushes, NEW q \in cronTask'.pushes, p.serial = q.serial
      PROVE p = q
  <2>1. PICK n \in CronName : p = PushOf(cronJobs[n]) /\ cronJobs[n].serial = p.serial
    BY <1>5
  <2>2. PICK m \in CronName : q = PushOf(cronJobs[m]) /\ cronJobs[m].serial = q.serial
    BY <1>5
  <2>3. p.serial \in Nat \ {0}
    BY <1>5
  <2>4. m = n
    BY <1>6, <2>1, <2>2, <2>3 DEF CronInv, CronSerials, Registers
  <2> QED BY <2>1, <2>2, <2>4
<1>7. cronTask = NothingDue /\ Decided = cronPushes
  BY CronRun
<1>8. Decided' = cronPushes \cup cronTask'.pushes
  BY <1>3 DEF Decided
<1>9. ASSUME NEW u \in cronTask'.updates
      PROVE \E n \in CronName :
              /\ cronJobs[n].serial = u[3] /\ cronJobs[n].serial \in 1..cronAdds
              /\ cronJobs[n].next_run <= cronNow
              /\ u[1] = n /\ u[2] = NextRun(cronJobs[n].kind, cronNow)
  BY <1>2, CronRun
<1>10. ASSUME NEW p \in cronTask'.pushes
       PROVE /\ p.at = cronNow /\ p.process = cronRestarts /\ p.serial \in 1..cronAdds
             /\ \E n \in CronName : Registers(n, p.serial)
             /\ \A n \in CronName : Registers(n, p.serial) =>
                  /\ cronJobs[n].serial = p.serial /\ cronJobs[n].next_run <= cronNow
                  /\ p.kind = cronJobs[n].kind /\ p.slot = cronJobs[n].next_run
                  /\ cronJobs'[n].next_run = NextRun(p.kind, cronNow)
                  /\ cronJobs[n].executions < CronLimit
                  /\ cronJobs'[n].executions = cronJobs[n].executions + 1
                  /\ \E u \in cronTask'.updates : u[1] = n /\ u[3] = p.serial
  <2>1. PICK n \in CronName :
                  /\ cronJobs[n].serial = p.serial /\ cronJobs[n].next_run <= cronNow
                  /\ p.kind = cronJobs[n].kind /\ p.slot = cronJobs[n].next_run
                  /\ cronJobs'[n].next_run = NextRun(p.kind, cronNow)
                  /\ cronJobs[n].executions < CronLimit
                  /\ cronJobs'[n].executions = cronJobs[n].executions + 1
                  /\ \E u \in cronTask'.updates : u[1] = n /\ u[3] = p.serial
    BY <1>5
  <2>2. p.serial \in Nat \ {0} /\ Registers(n, p.serial)
    BY <1>5, <2>1 DEF Registers, CronInv, CronTypeOK
  <2>3. \A m \in CronName : Registers(m, p.serial) => m = n
    BY <2>2 DEF CronInv, CronSerials
  <2> QED BY <1>5, <2>1, <2>2, <2>3
<1> QED BY <1>3, <1>4, <1>6, <1>7, <1>8, <1>9, <1>10

\* What one UPDATE of the task does to the rows.
LEMMA CronNextRunFacts ==
  ASSUME CronInv, PersistCronNextRun
  PROVE  /\ UNCHANGED <<cronJobs, cronCall, cronNow, cronAdds, cronRestarts, cronPushes>>
         /\ cronForgotten' = cronForgotten /\ cronStale \subseteq cronStale'
         /\ cronRows' \in [CronName -> CronEntry]
         /\ cronTask'.removals = cronTask.removals /\ cronTask'.pushes = cronTask.pushes
         /\ cronTask' = [updates |-> cronTask'.updates, removals |-> cronTask'.removals,
                         pushes |-> cronTask'.pushes]
         /\ \E u \in cronTask.updates :
              /\ cronTask'.updates = cronTask.updates \ {u}
              /\ \A n \in CronName \ {u[1]} : cronRows'[n] = cronRows[n]
              /\ \A n \in CronName : /\ cronRows'[n].serial = cronRows[n].serial
                                     /\ (cronRows[n] = NoEntry) = (cronRows'[n] = NoEntry)
              /\ u[1] \in CronName
              /\ \/ u[3] \in cronStale'
                 \/ cronRows[u[1]] = NoEntry
                 \/ /\ cronRows'[u[1]].next_run = u[2]
                    /\ cronRows[u[1]].serial = u[3] \/ cronRows[u[1]].serial \in cronStale'
              /\ cronRows'[u[1]] = cronRows[u[1]] \/ cronRows[u[1]].serial = u[3]
                   \/ cronRows[u[1]].serial \in cronStale'
<1>1. PICK u \in cronTask.updates :
        /\ \/ /\ cronRows' = [cronRows EXCEPT ![u[1]] = Rescheduled(cronRows[u[1]], u[2])]
              /\ cronStale' = cronStale \cup ({cronRows[u[1]].serial} \ {u[3]})
           \/ cronRows' = cronRows /\ cronStale' = cronStale \cup {u[3]}
        /\ cronTask' = [cronTask EXCEPT !.updates = @ \ {u}]
  BY DEF PersistCronNextRun
<1>2. u[1] \in CronName /\ u[2] \in Nat /\ cronRows \in [CronName -> CronEntry]
  BY DEF CronInv, CronTypeOK, CronUpdate
<1> DEFINE old == cronRows[u[1]]
           new == Rescheduled(old, u[2])
<1>3. old \in CronEntry /\ NoEntry \in CronEntry
  BY <1>2 DEF NoEntry, CronEntry, CronKind
<1>4. /\ new \in CronEntry /\ new.serial = old.serial
      /\ old = NoEntry => new = NoEntry
      /\ old # NoEntry => new.next_run = u[2]
  BY <1>2, <1>3 DEF Rescheduled, CronEntry
<1>5. old # NoEntry => new # NoEntry
  <2>1. old # NoEntry => old.serial # 0
    BY <1>2 DEF CronInv, CronSerials
  <2> QED BY <1>4, <2>1 DEF NoEntry
<1>6. /\ cronRows' \in [CronName -> CronEntry]
      /\ \A n \in CronName \ {u[1]} : cronRows'[n] = cronRows[n]
      /\ \/ cronRows'[u[1]] = new /\ cronStale' = cronStale \cup ({old.serial} \ {u[3]})
         \/ cronRows'[u[1]] = old /\ cronStale' = cronStale \cup {u[3]}
  BY <1>1, <1>2, <1>4
<1>7. /\ UNCHANGED <<cronJobs, cronCall, cronNow, cronAdds, cronRestarts, cronPushes>>
      /\ cronForgotten' = cronForgotten
  BY DEF PersistCronNextRun, cronBounds
<1>8. /\ cronTask'.removals = cronTask.removals /\ cronTask'.pushes = cronTask.pushes
      /\ cronTask'.updates = cronTask.updates \ {u}
      /\ cronTask' = [updates |-> cronTask'.updates, removals |-> cronTask'.removals,
                      pushes |-> cronTask'.pushes]
  BY <1>1 DEF CronInv, CronTypeOK
<1> QED BY <1>2, <1>4, <1>5, <1>6, <1>7, <1>8

\* What add_cron does before it inserts.
LEMMA AddCronFacts ==
  ASSUME CronInv, NEW c \in CronCaller, AddCron(c)
  PROVE  /\ UNCHANGED <<cronJobs, cronTask, cronNow, cronRestarts, cronPushes, Decided>>
         /\ UNCHANGED <<cronStale, cronForgotten>>
         /\ cronAdds' = cronAdds + 1
         /\ cronRows' \in [CronName -> CronEntry]
         /\ \E n \in CronName, e \in CronEntry :
              /\ e.serial = cronAdds + 1 /\ e # NoEntry
              /\ cronCall' = [cronCall EXCEPT ![c] = [at |-> "insert", names |-> {n},
                                                      entry |-> e]]
              /\ \A m \in CronName : \/ cronRows'[m] = cronRows[m]
                                     \/ m = n /\ cronRows'[m] = e
<1>1. PICK n \in CronName, kind \in CronKind :
        LET e == [serial |-> cronAdds + 1, kind |-> kind, next_run |-> NextRun(kind, cronNow),
                  executions |-> 0]
        IN /\ cronRows' \in {[cronRows EXCEPT ![n] = e], cronRows}
           /\ cronCall' = [cronCall EXCEPT ![c] = [at |-> "insert", names |-> {n}, entry |-> e]]
  BY DEF AddCron
<1> DEFINE e == [serial |-> cronAdds + 1, kind |-> kind, next_run |-> NextRun(kind, cronNow),
                 executions |-> 0]
<1>2. NextRun(kind, cronNow) \in Nat /\ cronAdds \in Nat
  BY NextRunIsLater DEF CronInv, CronTypeOK
<1>3. e \in CronEntry /\ e.serial = cronAdds + 1
  BY <1>2 DEF CronEntry
<1>4. e # NoEntry
  BY <1>2, <1>3 DEF NoEntry
<1>5. UNCHANGED <<cronJobs, cronTask, cronNow, cronRestarts, cronPushes, cronStale, cronForgotten>>
      /\ cronAdds' = cronAdds + 1
  BY DEF AddCron, cronFailed
<1>6. /\ cronRows' \in {[cronRows EXCEPT ![n] = e], cronRows}
      /\ cronCall' = [cronCall EXCEPT ![c] = [at |-> "insert", names |-> {n}, entry |-> e]]
  BY <1>1
<1> HIDE DEF e
<1>7. /\ cronRows' \in [CronName -> CronEntry]
      /\ \A m \in CronName : \/ cronRows'[m] = cronRows[m]
                             \/ m = n /\ cronRows'[m] = e
  BY <1>3, <1>6 DEF CronInv, CronTypeOK
<1>8. Decided' = Decided
  BY <1>5 DEF Decided
<1> QED BY <1>3, <1>4, <1>5, <1>6, <1>7, <1>8

\* An entry taken out of a table is gone, the others stay.
LEMMA EmptiedTable ==
  ASSUME NEW table \in [CronName -> CronEntry], NEW S
  PROVE  /\ Emptied(table, S) \in [CronName -> CronEntry]
         /\ \A n \in CronName : Emptied(table, S)[n] = (IF n \in S THEN NoEntry ELSE table[n])
  BY DEF Emptied, NoEntry, CronEntry, CronKind

\* Rows that are deleted are gone or forgotten, the others stay.
LEMMA RowsDeleted ==
  ASSUME CronInv, NEW S, DeletesRows(S)
  PROVE  /\ cronRows' \in [CronName -> CronEntry]
         /\ \A n \in CronName : cronRows'[n] = cronRows[n] \/ cronRows'[n] = NoEntry
         /\ \A n \in CronName : cronRows'[n] # NoEntry =>
              /\ cronRows[n] # NoEntry
              /\ n \in S => n \in cronForgotten'
              /\ n \in cronForgotten => n \in cronForgotten'
<1>1. cronRows \in [CronName -> CronEntry]
  BY DEF CronInv, CronTypeOK
<1>2. CASE cronRows' = Emptied(cronRows, S) /\ cronForgotten' = cronForgotten \ S
  BY <1>1, <1>2, EmptiedTable
<1>3. CASE cronRows' = cronRows /\ cronForgotten' = cronForgotten \cup S
  BY <1>1, <1>3
<1> QED BY <1>2, <1>3 DEF DeletesRows

\* The tables, the calls and the task stay well typed.
LEMMA CronTypeStep == CronInv /\ [CronNext]_cronVars => CronTypeOK'
<1> SUFFICES ASSUME CronInv, [CronNext]_cronVars PROVE CronTypeOK'
  OBVIOUS
<1> USE CronAssumption DEF CronInv, CronTypeOK, CronEntry, CronPushRecord, cronBounds, CronIdle,
       NothingDue, NoEntry, Emptied, cronFailed, DeletesRows, CronTime, CronKind, CronUpdate
<1>1. CASE UNCHANGED cronVars
  BY <1>1 DEF cronVars
<1>2. ASSUME NEW c \in CronCaller, AddCron(c) PROVE CronTypeOK'
  <2>1. cronRows' \in [CronName -> CronEntry] /\ cronAdds' = cronAdds + 1
    BY <1>2, AddCronFacts
  <2>2. cronCall' \in [CronCaller -> [at : {"idle", "insert", "delete_rows"},
                                     names : SUBSET CronName, entry : CronEntry]]
    <3> HIDE DEF CronEntry
    <3> QED BY <1>2, AddCronFacts
  <2>3. UNCHANGED <<cronJobs, cronTask, cronNow, cronRestarts, cronPushes>>
    BY <1>2, AddCronFacts
  <2> QED BY <2>1, <2>2, <2>3
<1>3. ASSUME NEW c \in CronCaller, AddCronInsert(c) PROVE CronTypeOK'
  BY <1>3 DEF AddCronInsert
<1>4. ASSUME NEW c \in CronCaller, RemoveCrons(c) PROVE CronTypeOK'
  BY <1>4 DEF RemoveCrons
<1>5. ASSUME NEW c \in CronCaller, RemoveCronRows(c) PROVE CronTypeOK'
  BY <1>5 DEF RemoveCronRows
<1>6. CASE RunCronJobs
  <2>1. cronTask'.updates \subseteq CronUpdate
    <3>1. \A n \in CronName : NextRun(cronJobs[n].kind, cronNow) \in Nat
      BY NextRunIsLater
    <3> QED BY <1>6, <3>1, CronRun
  <2>2. cronTask'.pushes \subseteq CronPushRecord
    <3>1. \A n \in CronName : PushOf(cronJobs[n]) \in CronPushRecord
      BY PushOfEntry
    <3>2. \A p \in cronTask'.pushes : \E n \in CronName : p = PushOf(cronJobs[n])
      BY <1>6, CronRun
    <3> QED BY <3>1, <3>2
  <2>3. UNCHANGED <<cronRows, cronCall, cronNow, cronBounds, cronPushes>>
    BY <1>6 DEF RunCronJobs
  <2>4. cronTask' \in [updates : SUBSET CronUpdate, removals : SUBSET CronName,
                       pushes : SUBSET CronPushRecord]
    BY <1>6, <2>1, <2>2, CronRun
  <2>5. cronJobs' \in [CronName -> CronEntry]
    BY <1>6, CronRun
  <2> QED BY <2>3, <2>4, <2>5
<1>7. CASE PersistCronNextRun
  <2>1. cronTask' \in [updates : SUBSET CronUpdate, removals : SUBSET CronName,
                       pushes : SUBSET CronPushRecord]
    BY <1>7, CronNextRunFacts
  <2>2. cronRows' \in [CronName -> CronEntry]
    BY <1>7, CronNextRunFacts
  <2>3. UNCHANGED <<cronJobs, cronCall, cronNow, cronAdds, cronRestarts, cronPushes>>
    BY <1>7, CronNextRunFacts
  <2> QED BY <2>1, <2>2, <2>3
<1>8. CASE PersistCronDelete
  <2>1. cronRows' \in [CronName -> CronEntry]
    BY <1>8 DEF PersistCronDelete
  <2>2. cronTask' \in [updates : SUBSET CronUpdate, removals : SUBSET CronName,
                       pushes : SUBSET CronPushRecord]
    <3> HIDE DEF CronPushRecord, CronEntry
    <3> QED BY <1>8 DEF PersistCronDelete
  <2>3. UNCHANGED <<cronJobs, cronCall, cronNow, cronBounds, cronPushes>>
    BY <1>8 DEF PersistCronDelete
  <2> QED BY <2>1, <2>2, <2>3
<1>9. CASE CronPush
  <2> HIDE DEF CronPushRecord, CronEntry
  <2>1. cronPushes' \subseteq CronPushRecord
    BY <1>9 DEF CronPush
  <2>2. cronTask' \in [updates : SUBSET CronUpdate, removals : SUBSET CronName,
                       pushes : SUBSET CronPushRecord]
    BY <1>9 DEF CronPush
  <2>3. UNCHANGED <<cronJobs, cronRows, cronCall, cronNow, cronBounds>>
    BY <1>9 DEF CronPush
  <2> QED BY <2>1, <2>2, <2>3
<1>10. CASE CronTick
  BY <1>10 DEF CronTick
<1>11. CASE CronRestart
  BY <1>11 DEF CronRestart
<1>12. CASE ResetCrons
  BY <1>12 DEF ResetCrons
<1> QED BY <1>1, <1>2, <1>3, <1>4, <1>5, <1>6, <1>7, <1>8, <1>9, <1>10, <1>11,
           <1>12 DEF CronNext

\* Serials are of one name.
LEMMA CronSerialsStep == CronInv /\ [CronNext]_cronVars => CronSerials'
<1> SUFFICES ASSUME CronInv, [CronNext]_cronVars PROVE CronSerials'
  OBVIOUS
<1> USE CronAssumption DEF CronInv, CronTypeOK, CronEntry, CronPushRecord, cronBounds, CronIdle,
       NothingDue, NoEntry, Emptied, cronFailed, DeletesRows, CronSerials, Registers,
       Inserting, Decided
<1>1. CASE UNCHANGED cronVars
  BY <1>1 DEF cronVars
<1>2. ASSUME NEW c \in CronCaller, AddCron(c) PROVE CronSerials'
  <2> HIDE CronAssumption DEF CronInv, CronTypeOK, CronEntry, CronPushRecord, cronBounds,
         CronIdle, NothingDue, NoEntry, Emptied, DeletesRows, CronSerials, Registers,
         Inserting, Decided
  <2>1. PICK n \in CronName, e \in CronEntry :
          /\ e.serial = cronAdds + 1 /\ e # NoEntry
          /\ cronCall' = [cronCall EXCEPT ![c] = [at |-> "insert", names |-> {n}, entry |-> e]]
          /\ \A m \in CronName : cronRows'[m] = cronRows[m] \/ (m = n /\ cronRows'[m] = e)
    BY <1>2, AddCronFacts
  <2>2. /\ UNCHANGED <<cronJobs, Decided>> /\ cronAdds' = cronAdds + 1 /\ cronAdds \in Nat
    BY <1>2, AddCronFacts DEF CronInv, CronTypeOK
  <2>3. \A d \in CronCaller :
          \/ cronCall'[d] = cronCall[d]
          \/ d = c /\ cronCall'[d].names = {n} /\ cronCall'[d].entry = e
    <3>1. DOMAIN cronCall = CronCaller
      BY DEF CronInv, CronTypeOK
    <3> DEFINE call == [at |-> "insert", names |-> {n}, entry |-> e]
    <3>2. call.names = {n} /\ call.entry = e /\ cronCall' = [cronCall EXCEPT ![c] = call]
      BY <2>1
    <3> HIDE DEF call
    <3>3. ASSUME NEW d \in CronCaller, d # c PROVE cronCall'[d] = cronCall[d]
      BY <3>1, <3>2, <3>3
    <3>4. cronCall'[c] = call
      BY <3>1, <3>2
    <3> QED BY <3>2, <3>3, <3>4
  <2>4. \A m \in CronName, s \in Nat \ {0} : Registers(m, s)' =>
          Registers(m, s) \/ (m = n /\ s = cronAdds + 1)
    BY <2>1, <2>2, <2>3 DEF Registers, Inserting
  <2>5. \A m \in CronName, s \in Nat \ {0} : Registers(m, s) => s \in 1..cronAdds
    BY DEF Registers, CronInv, CronSerials, NoEntry
  <2>6. ASSUME NEW l \in CronName, NEW m \in CronName, NEW s \in Nat \ {0},
               Registers(l, s)', Registers(m, s)'
        PROVE l = m
    <3>1. CASE s = cronAdds + 1
      BY <2>2, <2>4, <2>5, <2>6, <3>1
    <3>2. CASE s # cronAdds + 1
      BY <2>4, <2>6, <3>2 DEF CronInv, CronSerials
    <3> QED BY <3>1, <3>2
  <2>7. ASSUME NEW d \in CronCaller, Inserting(d)'
        PROVE (cronCall[d].entry.serial \in 1..cronAdds)'
    BY <2>1, <2>2, <2>3, <2>7 DEF CronInv, CronSerials, Inserting
  <2>8. ASSUME NEW p \in Decided' PROVE (p.serial \in 1..cronAdds)'
    BY <2>2, <2>8 DEF CronInv, CronSerials
  <2>9. ASSUME NEW m \in CronName
        PROVE /\ cronJobs'[m] = NoEntry \/ cronJobs'[m].serial \in 1..cronAdds'
              /\ cronRows'[m] = NoEntry \/ cronRows'[m].serial \in 1..cronAdds'
    BY <2>1, <2>2 DEF CronInv, CronSerials
  <2> QED BY <2>6, <2>7, <2>8, <2>9 DEF CronSerials
<1>3. ASSUME NEW c \in CronCaller, AddCronInsert(c) PROVE CronSerials'
  <2> HIDE CronAssumption DEF CronInv, CronTypeOK, CronEntry, CronPushRecord, cronBounds,
         CronIdle, NothingDue, NoEntry, Emptied, cronFailed, DeletesRows, CronSerials,
         Registers, Inserting, Decided
  <2>1. UNCHANGED <<cronRows, cronAdds, Decided>>
    BY <1>3 DEF AddCronInsert, Decided, cronBounds
  <2>2. \A n \in CronName : \/ cronJobs'[n] = cronJobs[n]
                            \/ n \in cronCall[c].names /\ cronJobs'[n] = cronCall[c].entry
    BY <1>3 DEF AddCronInsert
  <2>3. \A d \in CronCaller : Inserting(d)' => Inserting(d) /\ cronCall'[d] = cronCall[d]
    BY <1>3 DEF AddCronInsert, Inserting, CronIdle, CronInv, CronTypeOK
  <2>4. Inserting(c)
    BY <1>3 DEF AddCronInsert, Inserting
  <2>5. ASSUME NEW n \in CronName, NEW s \in Nat \ {0}, Registers(n, s)'
        PROVE Registers(n, s)
    BY <2>1, <2>2, <2>3, <2>4, <2>5 DEF Registers
  <2>6. ASSUME NEW m \in CronName, NEW n \in CronName, NEW s \in Nat \ {0},
               Registers(m, s)', Registers(n, s)'
        PROVE m = n
    BY <2>5, <2>6 DEF CronInv, CronSerials
  <2>7. ASSUME NEW d \in CronCaller, Inserting(d)'
        PROVE (cronCall[d].entry.serial \in 1..cronAdds)'
    BY <2>1, <2>3, <2>7 DEF CronInv, CronSerials
  <2>8. ASSUME NEW p \in Decided' PROVE (p.serial \in 1..cronAdds)'
    BY <2>1, <2>8 DEF CronInv, CronSerials
  <2>9. ASSUME NEW n \in CronName
        PROVE /\ cronJobs'[n] = NoEntry \/ cronJobs'[n].serial \in 1..cronAdds'
              /\ cronRows'[n] = NoEntry \/ cronRows'[n].serial \in 1..cronAdds'
    BY <2>1, <2>2, <2>4 DEF CronInv, CronSerials
  <2> QED BY <2>6, <2>7, <2>8, <2>9 DEF CronSerials
<1>4. ASSUME NEW c \in CronCaller, RemoveCrons(c) PROVE CronSerials'
  BY <1>4 DEF RemoveCrons
<1>5. ASSUME NEW c \in CronCaller, RemoveCronRows(c) PROVE CronSerials'
  <2> HIDE CronAssumption DEF CronInv, CronTypeOK, CronEntry, CronPushRecord, cronBounds,
         CronIdle, NothingDue, NoEntry, Emptied, DeletesRows, CronSerials, Registers,
         Inserting, Decided
  <2>1. /\ UNCHANGED <<cronJobs, cronAdds, Decided>>
        /\ \A d \in CronCaller : Inserting(d)' => Inserting(d) /\ cronCall'[d] = cronCall[d]
    BY <1>5 DEF RemoveCronRows, Decided, cronBounds, Inserting, CronIdle, CronInv, CronTypeOK
  <2>2. \A n \in CronName : cronRows'[n] = cronRows[n] \/ cronRows'[n] = NoEntry
    BY <1>5, RowsDeleted DEF RemoveCronRows
  <2>3. \A n \in CronName, s \in Nat \ {0} : Registers(n, s)' => Registers(n, s)
    BY <2>1, <2>2 DEF Registers, NoEntry, Inserting
  <2>4. ASSUME NEW m \in CronName, NEW n \in CronName, NEW s \in Nat \ {0},
               Registers(m, s)', Registers(n, s)'
        PROVE m = n
    BY <2>3, <2>4 DEF CronInv, CronSerials
  <2>5. ASSUME NEW d \in CronCaller, Inserting(d)'
        PROVE (cronCall[d].entry.serial \in 1..cronAdds)'
    BY <2>1, <2>5 DEF CronInv, CronSerials, Inserting
  <2>6. ASSUME NEW p \in Decided' PROVE (p.serial \in 1..cronAdds)'
    BY <2>1, <2>6 DEF CronInv, CronSerials
  <2>7. ASSUME NEW n \in CronName
        PROVE /\ cronJobs'[n] = NoEntry \/ cronJobs'[n].serial \in 1..cronAdds'
              /\ cronRows'[n] = NoEntry \/ cronRows'[n].serial \in 1..cronAdds'
    BY <2>1, <2>2 DEF CronInv, CronSerials
  <2> QED BY <2>4, <2>5, <2>6, <2>7 DEF CronSerials
<1>6. CASE RunCronJobs
  <2> HIDE CronAssumption DEF CronInv, CronTypeOK, CronEntry, CronPushRecord, cronBounds,
         CronIdle, NothingDue, NoEntry, Emptied, cronFailed, DeletesRows, CronSerials,
         Registers, Inserting, Decided
  <2>1. UNCHANGED <<cronRows, cronCall, cronAdds>>
    BY <1>6, CronRunFacts
  <2>2. \A n \in CronName : \/ cronJobs'[n] = NoEntry
                            \/ cronJobs'[n] = cronJobs[n]
                            \/ /\ cronJobs[n].serial = cronJobs'[n].serial
                               /\ cronJobs'[n].serial \in 1..cronAdds
    BY <1>6, CronRunFacts
  <2>3. \A n \in CronName, s \in Nat \ {0} : Registers(n, s)' => Registers(n, s)
    BY <2>1, <2>2 DEF Registers, NoEntry, Inserting
  <2>4. ASSUME NEW m \in CronName, NEW n \in CronName, NEW s \in Nat \ {0},
               Registers(m, s)', Registers(n, s)'
        PROVE m = n
    BY <2>3, <2>4 DEF CronInv, CronSerials
  <2>5. ASSUME NEW c \in CronCaller, Inserting(c)'
        PROVE (cronCall[c].entry.serial \in 1..cronAdds)'
    BY <2>1, <2>5 DEF CronInv, CronSerials, Inserting
  <2>6. ASSUME NEW p \in Decided' PROVE (p.serial \in 1..cronAdds)'
    BY <1>6, CronRunFacts, <2>1, <2>6 DEF CronInv, CronSerials
  <2>7. ASSUME NEW n \in CronName
        PROVE /\ cronJobs'[n] = NoEntry \/ cronJobs'[n].serial \in 1..cronAdds'
              /\ cronRows'[n] = NoEntry \/ cronRows'[n].serial \in 1..cronAdds'
    BY <2>1, <2>2 DEF CronInv, CronSerials
  <2> QED BY <2>4, <2>5, <2>6, <2>7 DEF CronSerials
<1>7. CASE PersistCronNextRun
  <2> HIDE CronAssumption DEF CronInv, CronTypeOK, CronEntry, CronPushRecord, cronBounds,
         CronIdle, NothingDue, NoEntry, Emptied, cronFailed, DeletesRows, CronSerials,
         Registers, Inserting, Decided
  <2>1. UNCHANGED <<cronJobs, cronCall, cronAdds, Decided>>
    BY <1>7, CronNextRunFacts DEF Decided
  <2>2. \A n \in CronName : cronRows'[n].serial = cronRows[n].serial
    BY <1>7, CronNextRunFacts
  <2>9. \A n \in CronName : cronRows[n] = NoEntry => cronRows'[n] = NoEntry
    BY <1>7, CronNextRunFacts
  <2>3. ASSUME NEW n \in CronName, NEW s \in Nat \ {0}, Registers(n, s)'
        PROVE Registers(n, s)
    BY <2>1, <2>2, <2>3 DEF Registers, Inserting
  <2>4. ASSUME NEW m \in CronName, NEW n \in CronName, NEW s \in Nat \ {0},
               Registers(m, s)', Registers(n, s)'
        PROVE m = n
    BY <2>3, <2>4 DEF CronInv, CronSerials
  <2>5. ASSUME NEW c \in CronCaller, Inserting(c)'
        PROVE (cronCall[c].entry.serial \in 1..cronAdds)'
    BY <2>1, <2>5 DEF CronInv, CronSerials, Inserting
  <2>6. ASSUME NEW p \in Decided' PROVE (p.serial \in 1..cronAdds)'
    BY <2>1, <2>6 DEF CronInv, CronSerials
  <2>7. ASSUME NEW n \in CronName
        PROVE /\ cronJobs'[n] = NoEntry \/ cronJobs'[n].serial \in 1..cronAdds'
              /\ cronRows'[n] = NoEntry \/ cronRows'[n].serial \in 1..cronAdds'
    BY <2>1, <2>2, <2>9 DEF CronInv, CronSerials
  <2> QED BY <2>4, <2>5, <2>6, <2>7 DEF CronSerials
<1>8. CASE PersistCronDelete
  <2> HIDE CronAssumption DEF CronInv, CronTypeOK, CronEntry, CronPushRecord, cronBounds,
         CronIdle, NothingDue, NoEntry, Emptied, cronFailed, DeletesRows, CronSerials,
         Registers, Inserting, Decided
  <2>1. UNCHANGED <<cronJobs, cronCall, cronAdds, Decided>>
    BY <1>8 DEF PersistCronDelete, Decided, cronBounds, CronInv, CronTypeOK
  <2>2. \A n \in CronName : cronRows'[n] = cronRows[n] \/ cronRows'[n] = NoEntry
    BY <1>8, RowsDeleted DEF PersistCronDelete
  <2>3. \A n \in CronName, s \in Nat \ {0} : Registers(n, s)' => Registers(n, s)
    BY <2>1, <2>2 DEF Registers, NoEntry, Inserting
  <2>4. ASSUME NEW m \in CronName, NEW n \in CronName, NEW s \in Nat \ {0},
               Registers(m, s)', Registers(n, s)'
        PROVE m = n
    BY <2>3, <2>4 DEF CronInv, CronSerials
  <2>5. ASSUME NEW c \in CronCaller, Inserting(c)'
        PROVE (cronCall[c].entry.serial \in 1..cronAdds)'
    BY <2>1, <2>5 DEF CronInv, CronSerials, Inserting
  <2>6. ASSUME NEW p \in Decided' PROVE (p.serial \in 1..cronAdds)'
    BY <2>1, <2>6 DEF CronInv, CronSerials
  <2>7. ASSUME NEW n \in CronName
        PROVE /\ cronJobs'[n] = NoEntry \/ cronJobs'[n].serial \in 1..cronAdds'
              /\ cronRows'[n] = NoEntry \/ cronRows'[n].serial \in 1..cronAdds'
    BY <2>1, <2>2 DEF CronInv, CronSerials
  <2> QED BY <2>4, <2>5, <2>6, <2>7 DEF CronSerials
<1>9. CASE CronPush
  BY <1>9 DEF CronPush
<1>10. CASE CronTick
  BY <1>10 DEF CronTick
<1>11. CASE CronRestart
  BY <1>11 DEF CronRestart
<1>12. CASE ResetCrons
  <2> HIDE CronAssumption DEF CronInv, CronTypeOK, CronEntry, CronPushRecord, cronBounds,
         CronIdle, NothingDue, NoEntry, Emptied, DeletesRows, CronSerials, Registers,
         Inserting, Decided
  <2>1. UNCHANGED <<cronRows, cronCall, cronAdds, Decided>>
    BY <1>12 DEF ResetCrons, Decided, cronBounds
  <2>2. \A n \in CronName : cronJobs'[n] = NoEntry
    BY <1>12, EmptiedTable DEF ResetCrons, CronInv, CronTypeOK
  <2>3. \A n \in CronName, s \in Nat \ {0} : Registers(n, s)' => Registers(n, s)
    BY <2>1, <2>2 DEF Registers, NoEntry, Inserting
  <2>4. ASSUME NEW m \in CronName, NEW n \in CronName, NEW s \in Nat \ {0},
               Registers(m, s)', Registers(n, s)'
        PROVE m = n
    BY <2>3, <2>4 DEF CronInv, CronSerials
  <2>5. ASSUME NEW d \in CronCaller, Inserting(d)'
        PROVE (cronCall[d].entry.serial \in 1..cronAdds)'
    BY <2>1, <2>5 DEF CronInv, CronSerials, Inserting
  <2>6. ASSUME NEW p \in Decided' PROVE (p.serial \in 1..cronAdds)'
    BY <2>1, <2>6 DEF CronInv, CronSerials
  <2>7. ASSUME NEW n \in CronName
        PROVE /\ cronJobs'[n] = NoEntry \/ cronJobs'[n].serial \in 1..cronAdds'
              /\ cronRows'[n] = NoEntry \/ cronRows'[n].serial \in 1..cronAdds'
    BY <2>1, <2>2 DEF CronInv, CronSerials
  <2> QED BY <2>4, <2>5, <2>6, <2>7 DEF CronSerials
<1> QED BY <1>1, <1>2, <1>3, <1>4, <1>5, <1>6, <1>7, <1>8, <1>9, <1>10, <1>11,
           <1>12 DEF CronNext

\* What is to be inserted stays new.
LEMMA InsertsAreNewStep == CronInv /\ [CronNext]_cronVars => InsertsAreNew'
<1> SUFFICES ASSUME CronInv, [CronNext]_cronVars PROVE InsertsAreNew'
  OBVIOUS
<1> USE CronAssumption DEF CronInv, CronTypeOK, CronEntry, CronPushRecord, cronBounds, CronIdle,
       NothingDue, NoEntry, Emptied, cronFailed, DeletesRows, CronSerials, InsertsAreNew,
       Inserting, Decided
<1>1. CASE UNCHANGED cronVars
  BY <1>1 DEF cronVars
<1>2. ASSUME NEW c \in CronCaller, AddCron(c) PROVE InsertsAreNew'
  BY <1>2 DEF AddCron
<1>3. ASSUME NEW c \in CronCaller, AddCronInsert(c) PROVE InsertsAreNew'
  BY <1>3 DEF AddCronInsert
<1>4. ASSUME NEW c \in CronCaller, RemoveCrons(c) PROVE InsertsAreNew'
  BY <1>4 DEF RemoveCrons
<1>5. ASSUME NEW c \in CronCaller, RemoveCronRows(c) PROVE InsertsAreNew'
  BY <1>5 DEF RemoveCronRows
<1>6. CASE RunCronJobs
  BY <1>6, CronRunFacts
<1>7. CASE PersistCronNextRun
  BY <1>7 DEF PersistCronNextRun
<1>8. CASE PersistCronDelete
  BY <1>8 DEF PersistCronDelete
<1>9. CASE CronPush
  BY <1>9 DEF CronPush
<1>10. CASE CronTick
  BY <1>10 DEF CronTick
<1>11. CASE CronRestart
  BY <1>11 DEF CronRestart
<1>12. CASE ResetCrons
  BY <1>12 DEF ResetCrons
<1> QED BY <1>1, <1>2, <1>3, <1>4, <1>5, <1>6, <1>7, <1>8, <1>9, <1>10, <1>11,
           <1>12 DEF CronNext

\* What is due and comes after a push is after it still when it is moved on.
LEMMA LaterStill ==
  ASSUME CronInv, NEW n \in CronName, cronJobs[n].next_run <= cronNow,
         NEW p \in Decided, After(cronJobs[n].next_run, p)
  PROVE  After(NextRun(cronJobs[n].kind, cronNow), p)
<1>1. /\ cronJobs[n].next_run \in Nat /\ cronJobs[n].kind \in CronKind /\ cronNow \in CronTime
      /\ p.kind \in CronKind /\ p.at \in CronTime
  BY DEF CronInv, CronTypeOK, CronEntry, CronPushRecord, Decided
<1>2. cronNow \in Nat
  BY <1>1, CronAssumption DEF CronTime
<1>3. NextRun(p.kind, p.at) \in Nat /\ cronJobs[n].next_run >= NextRun(p.kind, p.at)
  BY <1>1, NextRunIsLater DEF After
<1>4. /\ NextRun(cronJobs[n].kind, cronNow) \in Nat
      /\ NextRun(cronJobs[n].kind, cronNow) >= cronNow
  BY <1>1, NextRunIsLater
<1> QED BY <1>1, <1>2, <1>3, <1>4 DEF After

\* The next run stays ahead of the pushes.
LEMMA RunsAheadStep == CronInv /\ [CronNext]_cronVars => RunsAhead'
<1> SUFFICES ASSUME CronInv, [CronNext]_cronVars PROVE RunsAhead'
  OBVIOUS
<1> USE CronAssumption DEF CronInv, CronTypeOK, CronEntry, CronPushRecord, cronBounds, CronIdle,
       NothingDue, NoEntry, Emptied, cronFailed, DeletesRows, CronSerials, Inserting,
       InsertsAreNew, RunsAhead,
       PushesSpaced, Decided, Registers, Kept
<1>1. CASE UNCHANGED cronVars
  BY <1>1 DEF cronVars
<1>2. ASSUME NEW c \in CronCaller, AddCron(c) PROVE RunsAhead'
  <2> HIDE CronAssumption DEF CronInv, CronTypeOK, CronEntry, CronPushRecord, cronBounds,
         CronIdle, NothingDue, NoEntry, Emptied, DeletesRows, CronSerials, Registers,
         Inserting, InsertsAreNew, PushesSpaced, RunsAhead, Decided, Kept
  <2>1. UNCHANGED <<cronJobs, cronTask, cronPushes, cronStale, Decided>>
    BY <1>2, AddCronFacts
  <2>2. \A n \in CronName : cronRows'[n] = cronRows[n] \/ cronRows'[n].serial = cronAdds + 1
    BY <1>2, AddCronFacts
  <2>3. \A p \in Decided : p.serial # cronAdds + 1
    BY DEF CronInv, CronSerials, CronTypeOK
  <2>4. \A n \in CronName, p \in Decided : cronRows'[n].serial = p.serial => cronRows'[n] = cronRows[n]
    BY <2>2, <2>3
  <2> QED BY <2>1, <2>4 DEF RunsAhead, CronInv, Decided, Kept
<1>3. ASSUME NEW c \in CronCaller, AddCronInsert(c) PROVE RunsAhead'
  BY <1>3 DEF AddCronInsert
<1>4. ASSUME NEW c \in CronCaller, RemoveCrons(c) PROVE RunsAhead'
  BY <1>4 DEF RemoveCrons
<1>5. ASSUME NEW c \in CronCaller, RemoveCronRows(c) PROVE RunsAhead'
  <2> HIDE CronAssumption DEF CronInv, CronTypeOK, CronEntry, CronPushRecord, cronBounds,
         CronIdle, NothingDue, NoEntry, Emptied, DeletesRows, CronSerials, Registers,
         Inserting, InsertsAreNew, PushesSpaced, RunsAhead, Decided, Kept
  <2>1. UNCHANGED <<cronJobs, cronTask, cronPushes, cronStale, Decided>>
    BY <1>5 DEF RemoveCronRows, Decided
  <2>2. \A n \in CronName : cronRows'[n] = cronRows[n] \/ cronRows'[n] = NoEntry
    BY <1>5, RowsDeleted DEF RemoveCronRows
  <2>3. \A n \in CronName, p \in Decided : p.serial # 0
    BY DEF CronInv, CronSerials
  <2>4. \A n \in CronName, p \in Decided : cronRows'[n].serial = p.serial => cronRows'[n] = cronRows[n]
    BY <2>2, <2>3 DEF NoEntry
  <2> QED BY <2>1, <2>4 DEF RunsAhead, CronInv, Decided, Kept
<1>6. CASE RunCronJobs
  <2>0. cronStale' = cronStale
    BY <1>6, CronRunFacts
  <2>1. ASSUME NEW n \in CronName, NEW p \in Decided', cronJobs'[n].serial = p.serial, Kept(p)
        PROVE After(cronJobs'[n].next_run, p)
    <3>1. p \in cronTask'.pushes \/ p \in Decided
      <4> HIDE DEF Decided, CronInv
      <4>1. Decided' = cronPushes \cup cronTask'.pushes /\ Decided = cronPushes
        BY <1>6, CronRunFacts
      <4> QED BY <4>1
    <3>2. p.serial \in 1..cronAdds
      BY <1>6, <3>1, CronRunFacts
    <3>3. cronJobs'[n] # NoEntry
      BY <2>1, <3>2
    <3>4. \/ cronJobs'[n] = cronJobs[n]
          \/ /\ cronJobs'[n].serial = cronJobs[n].serial
             /\ cronJobs[n].next_run <= cronNow
             /\ cronJobs'[n].next_run = NextRun(cronJobs[n].kind, cronNow)
      BY <1>6, <3>3, CronRunFacts
    <3>5. Registers(n, p.serial)
      BY <2>1, <3>4
    <3>6. CASE p \in cronTask'.pushes
      <4>1. cronJobs'[n].next_run = NextRun(p.kind, cronNow) /\ p.at = cronNow
        <5> HIDE DEF Decided, CronInv, CronTypeOK, CronSerials, Registers, RunsAhead, PushesSpaced
        <5> QED BY <1>6, <3>5, <3>6, CronRunFacts
      <4>2. p.kind \in CronKind /\ cronNow \in CronTime
        BY <1>6, <3>6, CronTypeStep
      <4> QED BY <4>1, <4>2, NextRunIsLater DEF After
    <3>7. CASE p \in Decided
      <4>1. After(cronJobs[n].next_run, p)
        BY <2>1, <3>4, <3>7
      <4>2. cronJobs[n].next_run <= cronNow => After(NextRun(cronJobs[n].kind, cronNow), p)
        <5> HIDE DEF CronInv, Decided
        <5> QED BY <3>7, <4>1, LaterStill
      <4> QED BY <3>4, <4>1, <4>2
    <3> QED BY <3>1, <3>6, <3>7
  <2>2. ASSUME NEW n \in CronName, NEW p \in cronTask'.pushes, cronRows'[n].serial = p.serial
        PROVE \E u \in cronTask'.updates : u[1] = n /\ u[3] = p.serial
    BY <1>6, <2>2, CronRunFacts
  <2>3. ASSUME NEW u \in cronTask'.updates, NEW p \in Decided', u[3] = p.serial, Kept(p)
        PROVE After(u[2], p)
    <3>1. PICK n \in CronName :
            /\ cronJobs[n].serial = u[3] /\ cronJobs[n].serial \in 1..cronAdds
            /\ cronJobs[n].next_run <= cronNow /\ u[2] = NextRun(cronJobs[n].kind, cronNow)
      BY <1>6, CronRunFacts
    <3>2. CASE p \in cronTask'.pushes
      <4>1. p.at = cronNow /\ p.kind = cronJobs[n].kind
        <5> HIDE DEF Decided, CronInv, CronTypeOK, CronSerials, RunsAhead, PushesSpaced
        <5> QED BY <1>6, <2>3, <3>1, <3>2, CronRunFacts
      <4> QED BY <3>1, <4>1, NextRunIsLater DEF After
    <3>3. CASE p \in Decided
      <4>1. After(cronJobs[n].next_run, p)
        BY <2>3, <3>1, <3>3
      <4> QED BY <3>1, <3>3, <4>1, LaterStill
    <3> QED BY <1>6, <3>2, <3>3, CronRunFacts
  <2>4. UNCHANGED <<cronRows, cronPushes>>
    BY <1>6, CronRunFacts
  <2> HIDE DEF CronInv, CronTypeOK, CronSerials, InsertsAreNew, PushesSpaced, Registers
  <2>5. Decided' = cronPushes \cup cronTask'.pushes /\ Decided = cronPushes
    BY <1>6, CronRunFacts
  <2>6. \A n \in CronName, p \in cronPushes :
          cronRows'[n].serial = p.serial /\ Kept(p) => After(cronRows'[n].next_run, p)
    BY <2>4 DEF CronInv, RunsAhead
  <2> QED BY <2>0, <2>1, <2>2, <2>3, <2>4, <2>5, <2>6
<1>7. CASE PersistCronNextRun
  <2>1. PICK u \in cronTask.updates :
          /\ cronTask'.updates = cronTask.updates \ {u} /\ u[1] \in CronName
          /\ \A n \in CronName \ {u[1]} : cronRows'[n] = cronRows[n]
          /\ \A n \in CronName : /\ cronRows'[n].serial = cronRows[n].serial
                                 /\ (cronRows[n] = NoEntry) = (cronRows'[n] = NoEntry)
          /\ \/ u[3] \in cronStale'
             \/ cronRows[u[1]] = NoEntry
             \/ /\ cronRows'[u[1]].next_run = u[2]
                /\ cronRows[u[1]].serial = u[3] \/ cronRows[u[1]].serial \in cronStale'
          /\ cronRows'[u[1]] = cronRows[u[1]] \/ cronRows[u[1]].serial = u[3]
               \/ cronRows[u[1]].serial \in cronStale'
    BY <1>7, CronNextRunFacts
  <2>2. /\ UNCHANGED <<cronJobs, cronPushes, Decided>> /\ cronTask'.pushes = cronTask.pushes
        /\ cronStale \subseteq cronStale'
    BY <1>7, CronNextRunFacts
  <2>3. \A p \in Decided : p.serial # 0
    BY DEF CronPushRecord
  <2>4. ASSUME NEW n \in CronName, NEW p \in Decided, cronRows'[n].serial = p.serial, n = u[1],
               p.serial = u[3], p.serial \notin cronStale'
        PROVE After(cronRows'[n].next_run, p)
    <3>1. After(u[2], p)
      BY <2>2, <2>4
    <3>2. cronRows'[n].next_run = u[2]
      BY <2>1, <2>3, <2>4
    <3> QED BY <3>1, <3>2
  <2>12. ASSUME NEW n \in CronName, NEW p \in Decided, cronRows'[n].serial = p.serial,
                n # u[1] \/ p.serial # u[3], p.serial \notin cronStale'
         PROVE cronRows'[n] = cronRows[n]
    BY <2>1, <2>12
  <2>7. ASSUME NEW n \in CronName, NEW p \in cronPushes, cronRows'[n].serial = p.serial,
               p.serial \notin cronStale'
        PROVE After(cronRows'[n].next_run, p)
    BY <2>2, <2>4, <2>7, <2>12
  <2>8. ASSUME NEW n \in CronName, NEW p \in cronTask.pushes, cronRows'[n].serial = p.serial,
               p.serial \notin cronStale'
        PROVE \/ After(cronRows'[n].next_run, p)
              \/ \E v \in cronTask'.updates : v[1] = n /\ v[3] = p.serial
    <3>1. CASE n = u[1] /\ p.serial = u[3]
      BY <2>4, <2>8, <3>1
    <3>2. CASE ~(n = u[1] /\ p.serial = u[3])
      <4>1. cronRows'[n] = cronRows[n] /\ p.serial \notin cronStale
        BY <2>2, <2>8, <2>12, <3>2
      <4>2. \/ After(cronRows[n].next_run, p)
            \/ \E v \in cronTask.updates : v[1] = n /\ v[3] = p.serial
        BY <2>8, <4>1
      <4> QED BY <2>1, <3>2, <4>1, <4>2
    <3> QED BY <3>1, <3>2
  <2>9. cronTask'.updates \subseteq cronTask.updates
    BY <2>1
  <2>10. ASSUME NEW v \in cronTask'.updates, NEW p \in Decided, v[3] = p.serial,
                p.serial \notin cronStale'
         PROVE After(v[2], p)
    BY <2>2, <2>9, <2>10
  <2>11. ASSUME NEW n \in CronName, NEW p \in Decided, cronJobs[n].serial = p.serial,
                p.serial \notin cronStale'
         PROVE After(cronJobs[n].next_run, p)
    BY <2>2, <2>11
  <2> HIDE DEF CronInv, CronTypeOK, CronEntry, CronPushRecord, CronSerials, InsertsAreNew,
               PushesSpaced, Decided
  <2> QED BY <2>2, <2>7, <2>8, <2>10, <2>11
<1>8. CASE PersistCronDelete
  <2> HIDE CronAssumption DEF CronInv, CronTypeOK, CronEntry, CronPushRecord, cronBounds,
         CronIdle, NothingDue, NoEntry, Emptied, DeletesRows, CronSerials, Registers,
         Inserting, InsertsAreNew, PushesSpaced, RunsAhead, Decided, Kept
  <2>1. /\ UNCHANGED <<cronJobs, cronPushes, cronStale, Decided>>
        /\ cronTask'.updates = cronTask.updates /\ cronTask'.pushes = cronTask.pushes
    BY <1>8 DEF PersistCronDelete, Decided, CronInv, CronTypeOK
  <2>2. \A n \in CronName : cronRows'[n] = cronRows[n] \/ cronRows'[n] = NoEntry
    BY <1>8, RowsDeleted DEF PersistCronDelete
  <2>3. \A n \in CronName, p \in Decided : p.serial # 0
    BY DEF CronInv, CronSerials
  <2>4. \A n \in CronName, p \in Decided : cronRows'[n].serial = p.serial => cronRows'[n] = cronRows[n]
    BY <2>2, <2>3 DEF NoEntry
  <2> QED BY <2>1, <2>4 DEF RunsAhead, CronInv, Decided, Kept
<1>9. CASE CronPush
  BY <1>9 DEF CronPush
<1>10. CASE CronTick
  BY <1>10 DEF CronTick
<1>11. CASE CronRestart
  BY <1>11 DEF CronRestart
<1>12. CASE ResetCrons
  BY <1>12 DEF ResetCrons
<1> QED BY <1>1, <1>2, <1>3, <1>4, <1>5, <1>6, <1>7, <1>8, <1>9, <1>10, <1>11,
           <1>12 DEF CronNext

\* Pushes stay an interval apart.
LEMMA PushesSpacedStep == CronInv /\ [CronNext]_cronVars => PushesSpaced'
<1> SUFFICES ASSUME CronInv, [CronNext]_cronVars PROVE PushesSpaced'
  OBVIOUS
<1> USE CronAssumption DEF CronInv, CronTypeOK, CronEntry, CronPushRecord, cronBounds, CronIdle,
       NothingDue, NoEntry, Emptied, cronFailed, DeletesRows, RunsAhead, PushesSpaced, Decided,
       Registers, Kept
<1>1. CASE UNCHANGED cronVars
  BY <1>1 DEF cronVars
<1>2. ASSUME NEW c \in CronCaller, AddCron(c) PROVE PushesSpaced'
  BY <1>2 DEF AddCron
<1>3. ASSUME NEW c \in CronCaller, AddCronInsert(c) PROVE PushesSpaced'
  BY <1>3 DEF AddCronInsert
<1>4. ASSUME NEW c \in CronCaller, RemoveCrons(c) PROVE PushesSpaced'
  BY <1>4 DEF RemoveCrons
<1>5. ASSUME NEW c \in CronCaller, RemoveCronRows(c) PROVE PushesSpaced'
  BY <1>5 DEF RemoveCronRows
<1>6. CASE RunCronJobs
  <2>1. \A p \in Decided' : p.process <= cronRestarts
    BY <1>6, CronRunFacts
  <2>2. ASSUME NEW p \in cronPushes, NEW q \in cronTask'.pushes, p.serial = q.serial, Kept(p)
        PROVE Follows(q, p)
    <3> HIDE DEF CronInv, CronTypeOK, PushesSpaced, RunsAhead, Decided, Registers
    <3>1. PICK n \in CronName : cronJobs[n].serial = q.serial /\ q.slot = cronJobs[n].next_run
      BY <1>6, CronRunFacts
    <3>3. After(cronJobs[n].next_run, p)
      BY <2>2, <3>1 DEF CronInv, RunsAhead, Decided
    <3> QED BY <3>1, <3>3 DEF After, Follows
  <2>3. \A p, q \in cronTask'.pushes : p.serial = q.serial => p = q
    BY <1>6, CronRunFacts
  <2>4. Decided' = cronPushes \cup cronTask'.pushes /\ UNCHANGED <<cronStale, cronRestarts>>
    BY <1>6, CronRunFacts
  <2> QED BY <2>1, <2>2, <2>3, <2>4
<1>7. CASE PersistCronNextRun
  BY <1>7, CronNextRunFacts
<1>8. CASE PersistCronDelete
  BY <1>8 DEF PersistCronDelete
<1>9. CASE CronPush
  BY <1>9 DEF CronPush
<1>10. CASE CronTick
  BY <1>10 DEF CronTick
<1>11. CASE CronRestart
  BY <1>11 DEF CronRestart
<1>12. CASE ResetCrons
  BY <1>12 DEF ResetCrons
<1> QED BY <1>1, <1>2, <1>3, <1>4, <1>5, <1>6, <1>7, <1>8, <1>9, <1>10, <1>11,
           <1>12 DEF CronNext

\* A row without an entry is somebody's to delete or to insert.
LEMMA NoGhostStep == CronInv /\ [CronNext]_cronVars => NoGhostCron'
<1> SUFFICES ASSUME CronInv, [CronNext]_cronVars PROVE NoGhostCron'
  OBVIOUS
<1> USE CronAssumption DEF CronInv, CronTypeOK, CronEntry, CronPushRecord, cronBounds, CronIdle,
       NothingDue, NoEntry, Emptied, cronFailed, DeletesRows, CronSerials, Inserting, NoGhostCron
<1>1. CASE UNCHANGED cronVars
  BY <1>1 DEF cronVars
<1>2. ASSUME NEW c \in CronCaller, AddCron(c) PROVE NoGhostCron'
  BY <1>2 DEF AddCron
<1>3. ASSUME NEW c \in CronCaller, AddCronInsert(c) PROVE NoGhostCron'
  BY <1>3 DEF AddCronInsert
<1>4. ASSUME NEW c \in CronCaller, RemoveCrons(c) PROVE NoGhostCron'
  BY <1>4 DEF RemoveCrons
<1>5. ASSUME NEW c \in CronCaller, RemoveCronRows(c) PROVE NoGhostCron'
  BY <1>5 DEF RemoveCronRows
<1>6. CASE RunCronJobs
  <2>1. \A n \in CronName : cronJobs'[n] = NoEntry =>
          cronJobs[n] = NoEntry \/ n \in cronTask'.removals
    BY <1>6, CronRunFacts
  <2>2. cronTask.removals = {} /\ UNCHANGED <<cronRows, cronCall, cronForgotten>>
    BY <1>6, CronRunFacts
  <2> QED BY <2>1, <2>2
<1>7. CASE PersistCronNextRun
  <2>1. /\ UNCHANGED <<cronJobs, cronCall, cronForgotten>>
        /\ cronTask'.removals = cronTask.removals
        /\ \A n \in CronName : (cronRows[n] = NoEntry) = (cronRows'[n] = NoEntry)
    BY <1>7, CronNextRunFacts
  <2> QED BY <2>1
<1>8. CASE PersistCronDelete
  <2>1. PICK m \in cronTask.removals :
          /\ DeletesRows({m})
          /\ cronTask'.removals = cronTask.removals \ {m}
    BY <1>8 DEF PersistCronDelete
  <2>2. \A n \in CronName : cronRows'[n] # NoEntry =>
          cronRows[n] # NoEntry /\ (n # m \/ n \in cronForgotten')
    BY <2>1
  <2>4. cronForgotten \ {m} \subseteq cronForgotten'
    BY <2>1
  <2>3. UNCHANGED <<cronJobs, cronCall>>
    BY <1>8 DEF PersistCronDelete
  <2> QED BY <2>1, <2>2, <2>3, <2>4
<1>9. CASE CronPush
  BY <1>9 DEF CronPush
<1>10. CASE CronTick
  BY <1>10 DEF CronTick
<1>11. CASE CronRestart
  BY <1>11 DEF CronRestart
<1>12. CASE ResetCrons
  BY <1>12 DEF ResetCrons
<1> QED BY <1>1, <1>2, <1>3, <1>4, <1>5, <1>6, <1>7, <1>8, <1>9, <1>10, <1>11,
           <1>12 DEF CronNext

\* Pushes that are not added do not count.
LEMMA PushesShrink ==
  ASSUME CronInv, Decided' \subseteq Decided, NEW s \in Nat, NEW r \in Nat
  PROVE  /\ IsFiniteSet(PushesOf(s, r)')
         /\ Cardinality(PushesOf(s, r)') <= Cardinality(PushesOf(s, r))
         /\ Cardinality(PushesOf(s, r)') \in Nat
<1>1. PushesOf(s, r)' \subseteq PushesOf(s, r) /\ IsFiniteSet(PushesOf(s, r))
  BY DEF PushesOf, CronInv, PushesCounted
<1> QED BY <1>1, FS_Subset, FS_CardinalityType

\* A step that decides no push keeps the counts of the entries it keeps.
LEMMA CountsKept ==
  ASSUME CronInv, CronTypeOK', Decided' \subseteq Decided,
         \A n \in CronName :
           \/ cronJobs'[n] = NoEntry
           \/ cronJobs'[n] = cronJobs[n] /\ cronRestarts' = cronRestarts
           \/ \A p \in Decided' : p.serial # cronJobs'[n].serial \/ p.process # cronRestarts'
  PROVE  PushesCounted'
<1>1. ASSUME NEW s \in Nat, NEW r \in Nat
      PROVE (IsFiniteSet(PushesOf(s, r)) /\ Cardinality(PushesOf(s, r)) <= CronLimit)'
  <2>1. Cardinality(PushesOf(s, r)) <= CronLimit /\ Cardinality(PushesOf(s, r)) \in Nat
    BY FS_CardinalityType DEF CronInv, PushesCounted
  <2> QED BY <2>1, PushesShrink, CronAssumption
<1>2. ASSUME NEW n \in CronName, cronJobs'[n] # NoEntry
      PROVE (Cardinality(PushesOf(cronJobs[n].serial, cronRestarts)) <= cronJobs[n].executions)'
  <2>1. /\ cronJobs'[n].serial \in Nat /\ cronRestarts' \in Nat
        /\ cronJobs'[n].executions \in Nat
    BY DEF CronTypeOK, CronEntry
  <2>2. CASE cronJobs'[n] = cronJobs[n] /\ cronRestarts' = cronRestarts
    <3> DEFINE s == cronJobs[n].serial
               r == cronRestarts
    <3>1. s \in Nat /\ r \in Nat /\ cronJobs[n] # NoEntry
      BY <1>2, <2>1, <2>2
    <3>2. /\ Cardinality(PushesOf(s, r)) <= cronJobs[n].executions
          /\ Cardinality(PushesOf(s, r)) \in Nat
      BY <3>1, FS_CardinalityType DEF CronInv, PushesCounted
    <3>3. (PushesOf(cronJobs[n].serial,
           cronRestarts))' = {q \in Decided' : q.serial = s /\ q.process = r}
      BY <2>2 DEF PushesOf
    <3> HIDE DEF s, r
    <3>4. PushesOf(s, r) = {q \in Decided : q.serial = s /\ q.process = r}
      BY DEF PushesOf
    <3> DEFINE T == {q \in Decided' : q.serial = s /\ q.process = r}
    <3>5. T \subseteq PushesOf(s, r) /\ IsFiniteSet(PushesOf(s, r))
      BY <3>1, <3>4 DEF CronInv, PushesCounted
    <3>6. Cardinality(T) <= Cardinality(PushesOf(s, r)) /\ Cardinality(T) \in Nat
      BY <3>5, FS_Subset, FS_CardinalityType
    <3> QED BY <2>1, <2>2, <3>2, <3>3, <3>6
  <2>3. CASE \A p \in Decided' : p.serial # cronJobs'[n].serial \/ p.process # cronRestarts'
    <3>1. (PushesOf(cronJobs[n].serial, cronRestarts))' = {}
      BY <2>3 DEF PushesOf
    <3> QED BY <2>1, <3>1, FS_EmptySet
  <2> QED BY <1>2, <2>2, <2>3
<1> QED BY <1>1, <1>2 DEF PushesCounted

\* A run of the task decides one push of an entry and counts one execution.
LEMMA RunCounts ==
  ASSUME CronInv, RunCronJobs, CronTypeOK'
  PROVE  PushesCounted'
<1> DEFINE new == cronTask'.pushes
           Of(s, r) == {q \in cronPushes \cup new : q.serial = s /\ q.process = r}
<1>1. Decided' = cronPushes \cup new /\ Decided = cronPushes /\ cronRestarts' = cronRestarts
  BY CronRunFacts
<1>2. \A s, r : PushesOf(s, r) = {q \in cronPushes : q.serial = s /\ q.process = r}
  BY <1>1 DEF PushesOf
<1>3. \A p \in new : p.process = cronRestarts /\ p.serial \in 1..cronAdds
  BY CronRunFacts
<1>4. \A p, q \in new : p.serial = q.serial => p = q
  BY CronRunFacts
<1>5. /\ cronRestarts \in Nat /\ cronAdds \in Nat
      /\ \A n \in CronName : cronJobs[n] \in CronEntry /\ cronJobs'[n] \in CronEntry
  BY DEF CronInv, CronTypeOK
<1>6. ASSUME NEW s \in Nat, NEW r \in Nat
      PROVE /\ IsFiniteSet(Of(s, r)) /\ Cardinality(Of(s, r)) \in Nat
            /\ Cardinality(PushesOf(s, r)) \in Nat
            /\ Cardinality(Of(s, r)) <= Cardinality(PushesOf(s, r)) + 1
            /\ (\A p \in new : p.serial # s \/ r # cronRestarts) =>
                 Cardinality(Of(s, r)) = Cardinality(PushesOf(s, r))
  <2>1. IsFiniteSet(PushesOf(s, r)) /\ Cardinality(PushesOf(s, r)) \in Nat
    BY FS_CardinalityType DEF CronInv, PushesCounted
  <2> HIDE DEF Of
  <2>2. CASE \A p \in new : p.serial # s \/ r # cronRestarts
    <3>1. Of(s, r) = PushesOf(s, r)
      BY <1>2, <1>3, <2>2 DEF Of
    <3> QED BY <2>1, <3>1
  <2>3. CASE \E p \in new : p.serial = s /\ r = cronRestarts
    <3>1. PICK p \in new : p.serial = s /\ r = cronRestarts
      BY <2>3
    <3>2. Of(s, r) = PushesOf(s, r) \cup {p}
      BY <1>2, <1>3, <1>4, <3>1 DEF Of
    <3>3. /\ IsFiniteSet(PushesOf(s, r) \cup {p})
          /\ \/ Cardinality(PushesOf(s, r) \cup {p}) = Cardinality(PushesOf(s, r)) + 1
             \/ Cardinality(PushesOf(s, r) \cup {p}) = Cardinality(PushesOf(s, r))
      BY <2>1, FS_AddElement
    <3> QED BY <2>1, <2>3, <3>2, <3>3
  <2> QED BY <2>2, <2>3
<1> HIDE DEF Of
<1>7. ASSUME NEW s \in Nat, NEW r \in Nat PROVE Cardinality(Of(s, r)) <= CronLimit
  <2>1. Cardinality(PushesOf(s, r)) <= CronLimit
    BY DEF CronInv, PushesCounted
  <2>2. CASE \A p \in new : p.serial # s \/ r # cronRestarts
    BY <1>6, <2>1, <2>2
  <2>3. CASE \E p \in new : p.serial = s /\ r = cronRestarts
    <3>1. PICK n \in CronName : cronJobs[n].serial = s /\ cronJobs[n].executions < CronLimit
      BY <2>3, CronRunFacts
    <3>2. s # 0
      BY <1>3, <1>5, <2>3
    <3>3. Cardinality(PushesOf(s, r)) <= cronJobs[n].executions
      BY <2>3, <3>1, <3>2 DEF CronInv, PushesCounted, NoEntry
    <3>4. cronJobs[n].executions \in Nat
      BY <1>5 DEF CronEntry
    <3>5. /\ Cardinality(Of(s, r)) \in Nat /\ Cardinality(PushesOf(s, r)) \in Nat
          /\ Cardinality(Of(s, r)) <= Cardinality(PushesOf(s, r)) + 1
      BY <1>6
    <3> QED BY <3>1, <3>3, <3>4, <3>5, CronAssumption
  <2> QED BY <2>2, <2>3
<1>8. ASSUME NEW n \in CronName, cronJobs'[n] # NoEntry
      PROVE Cardinality(Of(cronJobs'[n].serial, cronRestarts)) <= cronJobs'[n].executions
  <2> DEFINE s == cronJobs[n].serial
  <2>1. /\ cronJobs'[n].serial = s /\ cronJobs[n] # NoEntry
        /\ \/ cronJobs'[n].executions = cronJobs[n].executions
           \/ cronJobs'[n].executions = cronJobs[n].executions + 1
    <3>1. \/ cronJobs'[n] = cronJobs[n]
          \/ /\ cronJobs[n].serial \in 1..cronAdds
             /\ cronJobs'[n].serial = cronJobs[n].serial
             /\ cronJobs'[n].executions = cronJobs[n].executions + 1
      BY <1>8, CronRunFacts
    <3> QED BY <1>8, <3>1 DEF NoEntry
  <2>2. Cardinality(PushesOf(s, cronRestarts)) <= cronJobs[n].executions
    BY <2>1 DEF CronInv, PushesCounted
  <2>3. /\ s \in Nat /\ cronJobs[n].executions \in Nat /\ cronJobs'[n].executions \in Nat
    BY <1>5 DEF CronEntry
  <2>4. CASE \A p \in new : p.serial # s
    <3>1. Cardinality(Of(s, cronRestarts)) = Cardinality(PushesOf(s, cronRestarts))
      BY <1>5, <1>6, <2>3, <2>4
    <3>2. Cardinality(PushesOf(s, cronRestarts)) \in Nat
      BY <1>5, <1>6, <2>3
    <3> HIDE DEF s
    <3> QED BY <2>1, <2>2, <2>3, <3>1, <3>2
  <2>5. CASE \E p \in new : p.serial = s
    <3>1. cronJobs'[n].executions = cronJobs[n].executions + 1
      BY <2>5, CronRunFacts DEF Registers
    <3>2. /\ Cardinality(Of(s, cronRestarts)) <= Cardinality(PushesOf(s, cronRestarts)) + 1
          /\ Cardinality(Of(s, cronRestarts)) \in Nat
          /\ Cardinality(PushesOf(s, cronRestarts)) \in Nat
      BY <1>5, <1>6, <2>3
    <3> QED BY <2>1, <2>2, <2>3, <3>1, <3>2
  <2> QED BY <2>4, <2>5
<1>9. \A s, r : PushesOf(s, r)' = Of(s, r)
  BY <1>1 DEF PushesOf, Of
<1>10. \A s, r \in Nat :
         (IsFiniteSet(PushesOf(s, r)) /\ Cardinality(PushesOf(s, r)) <= CronLimit)'
  BY <1>6, <1>7, <1>9
<1>11. ASSUME NEW n \in CronName, cronJobs'[n] # NoEntry
       PROVE (Cardinality(PushesOf(cronJobs[n].serial, cronRestarts)) <= cronJobs[n].executions)'
  <2>1. (PushesOf(cronJobs[n].serial, cronRestarts))' = Of(cronJobs'[n].serial, cronRestarts)
    BY <1>1 DEF PushesOf, Of
  <2> QED BY <1>8, <1>11, <2>1
<1> QED BY <1>10, <1>11 DEF PushesCounted

\* One process makes at most CronLimit pushes of a registration.
LEMMA PushesCountedStep == CronInv /\ [CronNext]_cronVars => PushesCounted'
<1> SUFFICES ASSUME CronInv, [CronNext]_cronVars PROVE PushesCounted'
  OBVIOUS
<1>1. CASE UNCHANGED cronVars
  BY <1>1, CronTypeStep, CountsKept DEF cronVars, Decided
<1>2. ASSUME NEW c \in CronCaller, AddCron(c) PROVE PushesCounted'
  <2>1. Decided' \subseteq Decided /\ cronRestarts' = cronRestarts
    BY <1>2 DEF AddCron, Decided, cronBounds, CronInv, CronTypeOK
  <2>2. \A n \in CronName : cronJobs'[n] = NoEntry \/ cronJobs'[n] = cronJobs[n]
    BY <1>2 DEF AddCron, Emptied, CronInv, CronTypeOK
  <2> QED BY <2>1, <2>2, CronTypeStep, CountsKept
<1>3. ASSUME NEW c \in CronCaller, AddCronInsert(c) PROVE PushesCounted'
  <2>1. Decided' = Decided /\ cronRestarts' = cronRestarts
    BY <1>3 DEF AddCronInsert, Decided, cronBounds
  <2>2. ASSUME NEW n \in CronName, NEW p \in Decided
        PROVE cronJobs'[n] = cronJobs[n] \/ p.serial # cronJobs'[n].serial
    BY <1>3 DEF AddCronInsert, Inserting, CronInv, CronTypeOK, InsertsAreNew
  <2> QED BY <2>1, <2>2, CronTypeStep, CountsKept
<1>4. ASSUME NEW c \in CronCaller, RemoveCrons(c) PROVE PushesCounted'
  <2>1. Decided' \subseteq Decided /\ cronRestarts' = cronRestarts
    BY <1>4 DEF RemoveCrons, Decided, cronBounds, CronInv, CronTypeOK
  <2>2. \A n \in CronName : cronJobs'[n] = NoEntry \/ cronJobs'[n] = cronJobs[n]
    BY <1>4 DEF RemoveCrons, Emptied, CronInv, CronTypeOK
  <2> QED BY <2>1, <2>2, CronTypeStep, CountsKept
<1>5. ASSUME NEW c \in CronCaller, RemoveCronRows(c) PROVE PushesCounted'
  <2>1. Decided' \subseteq Decided /\ cronRestarts' = cronRestarts
    BY <1>5 DEF RemoveCronRows, Decided, cronBounds, CronInv, CronTypeOK
  <2>2. \A n \in CronName : cronJobs'[n] = NoEntry \/ cronJobs'[n] = cronJobs[n]
    BY <1>5 DEF RemoveCronRows, Emptied, CronInv, CronTypeOK
  <2> QED BY <2>1, <2>2, CronTypeStep, CountsKept
<1>6. CASE RunCronJobs
  BY <1>6, RunCounts, CronTypeStep
<1>7. CASE PersistCronNextRun
  <2>1. UNCHANGED <<cronJobs, cronRestarts>> /\ Decided' = Decided
    BY <1>7, CronNextRunFacts DEF Decided
  <2> QED BY <2>1, CronTypeStep, CountsKept
<1>8. CASE PersistCronDelete
  <2>1. Decided' \subseteq Decided /\ cronRestarts' = cronRestarts
    BY <1>8 DEF PersistCronDelete, Decided, cronBounds, CronInv, CronTypeOK
  <2>2. \A n \in CronName : cronJobs'[n] = NoEntry \/ cronJobs'[n] = cronJobs[n]
    BY <1>8 DEF PersistCronDelete, Emptied, CronInv, CronTypeOK
  <2> QED BY <2>1, <2>2, CronTypeStep, CountsKept
<1>9. CASE CronPush
  <2>1. Decided' \subseteq Decided /\ cronRestarts' = cronRestarts
    BY <1>9 DEF CronPush, Decided, cronBounds, CronInv, CronTypeOK
  <2>2. \A n \in CronName : cronJobs'[n] = NoEntry \/ cronJobs'[n] = cronJobs[n]
    BY <1>9 DEF CronPush, Emptied, CronInv, CronTypeOK
  <2> QED BY <2>1, <2>2, CronTypeStep, CountsKept
<1>10. CASE CronTick
  <2>1. Decided' \subseteq Decided /\ cronRestarts' = cronRestarts
    BY <1>10 DEF CronTick, Decided, cronBounds, CronInv, CronTypeOK
  <2>2. \A n \in CronName : cronJobs'[n] = NoEntry \/ cronJobs'[n] = cronJobs[n]
    BY <1>10 DEF CronTick, Emptied, CronInv, CronTypeOK
  <2> QED BY <2>1, <2>2, CronTypeStep, CountsKept
<1>11. CASE CronRestart
  <2>1. Decided' \subseteq Decided /\ cronRestarts' = cronRestarts + 1 /\ cronRestarts \in Nat
    BY <1>11 DEF CronRestart, Decided, NothingDue, CronInv, CronTypeOK
  <2>2. \A p \in Decided' : p.process # cronRestarts'
    <3>1. \A p \in Decided : p.process <= cronRestarts /\ p.process \in Nat
      BY DEF CronInv, PushesSpaced, CronTypeOK, Decided, CronPushRecord
    <3> QED BY <2>1, <3>1
  <2> QED BY <2>1, <2>2, CronTypeStep, CountsKept
<1>12. CASE ResetCrons
  <2>1. Decided' \subseteq Decided /\ cronRestarts' = cronRestarts
    BY <1>12 DEF ResetCrons, Decided, cronBounds, CronInv, CronTypeOK
  <2>2. \A n \in CronName : cronJobs'[n] = NoEntry \/ cronJobs'[n] = cronJobs[n]
    BY <1>12 DEF ResetCrons, Emptied, CronInv, CronTypeOK
  <2> QED BY <2>1, <2>2, CronTypeStep, CountsKept
<1> QED BY <1>1, <1>2, <1>3, <1>4, <1>5, <1>6, <1>7, <1>8, <1>9, <1>10, <1>11,
           <1>12 DEF CronNext

\* What a step keeps.
LEMMA CronInvStep == CronInv /\ [CronNext]_cronVars => CronInv'
<1> SUFFICES ASSUME CronInv, [CronNext]_cronVars PROVE CronInv'
  OBVIOUS
<1> QED BY CronTypeStep, CronSerialsStep, InsertsAreNewStep, RunsAheadStep, PushesSpacedStep,
           PushesCountedStep, NoGhostStep DEF CronInv

\* An empty table and no push.
LEMMA CronInvInit == CronInit => CronInv
<1> SUFFICES ASSUME CronInit PROVE CronInv
  OBVIOUS
<1>1. CronTypeOK
  BY CronAssumption
     DEF CronInit, CronTypeOK, CronEntry, CronIdle, NoEntry, NothingDue, CronTime, CronKind
<1>2. Decided = {} /\ \A c \in CronCaller : ~Inserting(c)
  BY DEF CronInit, Decided, NothingDue, Inserting, CronIdle
<1>3. CronSerials /\ NoGhostCron
  BY <1>2 DEF CronInit, CronSerials, NoGhostCron, Registers, NoEntry
<1>4. InsertsAreNew /\ RunsAhead /\ PushesSpaced
  BY <1>2 DEF CronInit, InsertsAreNew, RunsAhead, PushesSpaced, NothingDue
<1>5. PushesCounted
  <2>1. \A s, r : PushesOf(s, r) = {}
    BY <1>2 DEF PushesOf
  <2>2. IsFiniteSet({}) /\ Cardinality({}) = 0
    BY FS_EmptySet
  <2>3. \A n \in CronName : cronJobs[n] = NoEntry
    BY DEF CronInit
  <2> QED BY <2>1, <2>2, <2>3, CronAssumption DEF PushesCounted
<1> QED BY <1>1, <1>3, <1>4, <1>5 DEF CronInv

\* However calls, the task and restarts overlap, and whatever the schedule and the
\* clock do: of two pushes of a registration -- those on the two sides of a crash
\* too -- one is for a slot after the decision on the other, unless its row missed
\* a next run; one process makes at most CronLimit of them; and a deleted cron job
\* has no row that a restart would bring back, unless that deletion failed or a
\* reset left the row behind.
THEOREM CronJobsRunAsRegistered == CronSpec => []CronKeepsItsTable
<1>1. CronInv => CronKeepsItsTable
  <2> SUFFICES ASSUME CronInv PROVE CronRunsAsRegistered
    BY DEF CronKeepsItsTable, CronInv
  <2>1. \A p, q \in cronPushes : p.serial = q.serial /\ p # q /\ p.serial \notin cronStale =>
          Follows(p, q) \/ Follows(q, p)
    BY DEF CronInv, PushesSpaced, Decided, Kept
  <2>2. ASSUME NEW p \in cronPushes
        PROVE Cardinality({q \in cronPushes : q.serial = p.serial /\ q.process = p.process})
                <= CronLimit
    <3> DEFINE made == {q \in cronPushes : q.serial = p.serial /\ q.process = p.process}
    <3>1. p.serial \in Nat /\ p.process \in Nat
      BY DEF CronInv, CronTypeOK, CronPushRecord
    <3>2. /\ IsFiniteSet(PushesOf(p.serial, p.process))
          /\ Cardinality(PushesOf(p.serial, p.process)) <= CronLimit
      BY <3>1 DEF CronInv, PushesCounted
    <3>3. made \subseteq PushesOf(p.serial, p.process)
      BY DEF PushesOf, Decided
    <3>4. /\ Cardinality(made) <= Cardinality(PushesOf(p.serial, p.process))
          /\ Cardinality(made) \in Nat /\ Cardinality(PushesOf(p.serial, p.process)) \in Nat
      BY <3>2, <3>3, FS_Subset, FS_CardinalityType
    <3> QED BY <3>2, <3>4, CronAssumption
  <2> QED BY <2>1, <2>2 DEF CronRunsAsRegistered
<1> QED BY <1>1, CronInvInit, CronInvStep, PTL DEF CronSpec

-----------------------------------------------------------------------------
(* Backups *)

BackupCall == [at : {"idle", "upload", "list", "delete"}, key : Int, old : SUBSET Int]

BkTypeOK ==
  /\ bkNow \in Nat /\ bkNextTick \in Nat /\ bkLast \in Int
  /\ bkNewest \in Int /\ bkNewest >= NoKey
  /\ bkCall \in [Backer -> BackupCall]
  /\ bucket \subseteq Int

\* The newest key is in the bucket, and whoever deletes has older keys in mind.
KeysKnown ==
  /\ \A k \in bucket : k <= bkNewest
  /\ \A b \in Backer : \A k \in bkCall[b].old : k < bkNewest
  /\ \A b \in Backer : bkCall[b].at = "upload" => bkCall[b].key \in Nat
  /\ NewestBackupKept

TaskUploads == bkCall["task"].at = "upload"
TaskKey == bkCall["task"].key

\* Before the task has made a backup: its first tick is at the start.
FirstTick ==
  /\ bkLast = -BkInterval
  /\ \/ ~TaskUploads /\ bkNextTick = 0 /\ bkNow = 0
     \/ TaskUploads /\ TaskKey = 0 /\ bkNextTick = BkInterval /\ bkNow <= BkMaxDuration

\* After the task's backup with key kl: the tick that makes the next one is the
\* first or the second after it.
LaterTick(kl) ==
  /\ kl <= bkNewest /\ bkLast <= kl + BkMaxDuration
  /\ ~TaskUploads => /\ bkNextTick \in {kl + BkInterval, kl + 2 * BkInterval}
                     /\ bkNow <= bkNextTick
  /\ TaskUploads => /\ TaskKey <= kl + 2 * BkInterval /\ bkNextTick = TaskKey + BkInterval
                    /\ bkNow <= TaskKey + BkMaxDuration

TaskOnTime == FirstTick \/ \E kl \in Nat : LaterTick(kl)

BkInv == BkTypeOK /\ KeysKnown

\* Every step is the task's tick, the clock's, or one of a backup.
LEMMA BkAction ==
  BkNext => \/ TaskTick \/ BkTick
            \/ \E b \in Backer : \/ TriggerBackup(b) \/ Upload(b) \/ ListOld(b)
                                 \/ DeleteOld(b) \/ BackupDone(b)
  BY DEF BkNext

\* What lies beyond the newest KeepCount keys is older than some key.
LEMMA BeyondIsOlder ==
  ASSUME KeepCount > 0, NEW S, NEW k \in Beyond(S)
  PROVE  k \in S /\ \E l \in S : l > k
<1>1. Cardinality(Newer(S, k)) >= KeepCount
  BY DEF Beyond
<1>2. Newer(S, k) # {}
  BY <1>1, FS_EmptySet, BackupAssumption
<1> QED BY <1>2 DEF Newer, Beyond

\* Types are kept.
LEMMA BkTypeStep == BkInv /\ [BkNext]_bkVars => BkTypeOK'
<1> SUFFICES ASSUME BkInv, [BkNext]_bkVars PROVE BkTypeOK'
  OBVIOUS
<1> USE BackupAssumption DEF BkInv, BkTypeOK, BackupCall, BkIdle, NoKey, Started, Backer
<1>1. CASE UNCHANGED bkVars
  BY <1>1 DEF bkVars
<1>2. CASE TaskTick
  BY <1>2 DEF TaskTick
<1>3. CASE BkTick
  BY <1>3 DEF BkTick
<1>4. ASSUME NEW b \in Backer, TriggerBackup(b) PROVE BkTypeOK'
  BY <1>4 DEF TriggerBackup
<1>5. ASSUME NEW b \in Backer, Upload(b) PROVE BkTypeOK'
  BY <1>5 DEF Upload
<1>6. ASSUME NEW b \in Backer, ListOld(b) PROVE BkTypeOK'
  <2>1. Beyond(bucket) \subseteq Int
    BY DEF Beyond
  <2> QED BY <1>6, <2>1 DEF ListOld
<1>7. ASSUME NEW b \in Backer, DeleteOld(b) PROVE BkTypeOK'
  BY <1>7 DEF DeleteOld
<1>8. ASSUME NEW b \in Backer, BackupDone(b) PROVE BkTypeOK'
  BY <1>8 DEF BackupDone
<1> QED BY <1>1, <1>2, <1>3, <1>4, <1>5, <1>6, <1>7, <1>8 DEF BkNext

\* Retention deletes no key but older ones.
LEMMA KeysKnownStep ==
  ASSUME KeepCount > 0, BkInv, [BkNext]_bkVars
  PROVE  KeysKnown'
<1> USE BackupAssumption DEF BkInv, BkTypeOK, BackupCall, BkIdle, NoKey, Started, KeysKnown,
       NewestBackupKept
<1>1. CASE UNCHANGED bkVars
  BY <1>1 DEF bkVars
<1>2. CASE TaskTick
  BY <1>2 DEF TaskTick
<1>3. CASE BkTick
  BY <1>3 DEF BkTick
<1>4. ASSUME NEW b \in Backer, TriggerBackup(b) PROVE KeysKnown'
  BY <1>4 DEF TriggerBackup
<1>5. ASSUME NEW b \in Backer, Upload(b) PROVE KeysKnown'
  BY <1>5 DEF Upload
<1>6. ASSUME NEW b \in Backer, ListOld(b) PROVE KeysKnown'
  <2>1. \A k \in Beyond(bucket) : k \in bucket /\ \E l \in bucket : l > k
    BY BeyondIsOlder
  <2>2. ASSUME NEW k \in Beyond(bucket) PROVE k < bkNewest
    <3>1. PICK l \in bucket : l > k
      BY <2>1
    <3>2. k \in bucket
      BY <2>1
    <3> QED BY <3>1, <3>2
  <2> QED BY <1>6, <2>2 DEF ListOld
<1>7. ASSUME NEW b \in Backer, DeleteOld(b) PROVE KeysKnown'
  BY <1>7 DEF DeleteOld
<1>8. ASSUME NEW b \in Backer, BackupDone(b) PROVE KeysKnown'
  BY <1>8 DEF BackupDone
<1> QED BY <1>1, <1>2, <1>3, <1>4, <1>5, <1>6, <1>7, <1>8 DEF BkNext

\* What the task's timing depends on.
LEMMA TaskUndisturbed ==
  ASSUME BkTypeOK, BkTypeOK', TaskOnTime, UNCHANGED <<bkNow, bkNextTick, bkLast>>,
         bkNewest' >= bkNewest, TaskUploads' = TaskUploads, TaskUploads => TaskKey' = TaskKey
  PROVE  TaskOnTime'
<1>1. CASE FirstTick
  BY <1>1 DEF FirstTick, TaskOnTime
<1>2. CASE \E kl \in Nat : LaterTick(kl)
  <2>1. PICK kl \in Nat : LaterTick(kl)
    BY <1>2
  <2>2. LaterTick(kl)'
    BY <2>1 DEF LaterTick, BkTypeOK
  <2> QED BY <2>2 DEF TaskOnTime
<1> QED BY <1>1, <1>2 DEF TaskOnTime

\* A tick of the task comes in time.
LEMMA TaskTickInTime ==
  ASSUME BkMaxDuration <= BkInterval, BkTypeOK, TaskOnTime, TaskTick
  PROVE  TaskOnTime'
<1> USE BackupAssumption
<1>1. /\ bkNow >= bkNextTick /\ ~TaskUploads
      /\ bkNextTick' = bkNextTick + BkInterval
      /\ UNCHANGED <<bkNow, bkLast, bkNewest>>
  BY DEF TaskTick, BkIsIdle, TaskUploads
<1>2. /\ BkDue => TaskUploads' /\ TaskKey' = bkNow
      /\ ~BkDue => ~TaskUploads'
  BY <1>1 DEF TaskTick, Started, BkTypeOK, TaskUploads, TaskKey, Backer
<1>3. bkNow \in Nat /\ bkNextTick \in Nat /\ bkLast \in Int /\ bkNewest \in Int
  BY DEF BkTypeOK
<1>4. CASE FirstTick
  <2>1. bkNow = 0 /\ bkNextTick = 0 /\ bkLast = -BkInterval
    BY <1>1, <1>4 DEF FirstTick
  <2>2. BkDue
    BY <2>1 DEF BkDue
  <2> QED BY <1>1, <1>2, <2>1, <2>2 DEF FirstTick, TaskOnTime
<1>5. CASE \E kl \in Nat : LaterTick(kl)
  <2>1. PICK kl \in Nat : LaterTick(kl)
    BY <1>5
  <2>2. /\ bkNow = bkNextTick /\ kl <= bkNewest /\ bkLast <= kl + BkMaxDuration
        /\ bkNextTick = kl + BkInterval \/ bkNextTick = kl + 2 * BkInterval
    BY <1>1, <1>3, <2>1 DEF LaterTick
  <2>3. CASE BkDue
    BY <1>1, <1>2, <1>3, <2>2, <2>3 DEF LaterTick, TaskOnTime
  <2>4. CASE ~BkDue
    <3>1. bkNextTick = kl + BkInterval
      BY <1>3, <2>2, <2>4 DEF BkDue
    <3> QED BY <1>1, <1>2, <1>3, <2>2, <2>4, <3>1 DEF LaterTick, TaskOnTime
  <2> QED BY <2>3, <2>4
<1> QED BY <1>4, <1>5 DEF TaskOnTime

\* The task's upload starts the next round.
LEMMA TaskUploadInTime ==
  ASSUME BkMaxDuration <= BkInterval, BkInv, TaskOnTime, Upload("task")
  PROVE  TaskOnTime'
<1> USE BackupAssumption
<1>1. /\ TaskUploads /\ TaskKey \in Nat
      /\ bkNow \in Nat /\ bkNextTick \in Nat /\ bkLast \in Int /\ bkNewest \in Int
  BY DEF Upload, TaskUploads, TaskKey, BkInv, BkTypeOK, KeysKnown, Backer
<1>2. /\ ~TaskUploads' /\ bkLast' = bkNow /\ UNCHANGED <<bkNow, bkNextTick>>
      /\ bkNewest' >= TaskKey
  BY <1>1 DEF Upload, TaskUploads, TaskKey, BkInv, BkTypeOK, BackupCall, Backer
<1>3. bkNow <= TaskKey + BkMaxDuration /\ bkNextTick = TaskKey + BkInterval
  <2>1. CASE FirstTick
    BY <1>1, <2>1 DEF FirstTick
  <2>2. CASE \E kl \in Nat : LaterTick(kl)
    BY <1>1, <2>2 DEF LaterTick
  <2> QED BY <2>1, <2>2 DEF TaskOnTime
<1>4. \A kl \in Nat : kl = TaskKey => LaterTick(kl)'
  BY <1>1, <1>2, <1>3 DEF LaterTick
<1> QED BY <1>1, <1>4 DEF TaskOnTime

\* Time passes no further than the task lets it.
LEMMA ClockInTime ==
  ASSUME BkTypeOK, TaskOnTime, BkTick
  PROVE  TaskOnTime'
<1>1. /\ bkNow' = bkNow + 1 /\ UNCHANGED <<bkNextTick, bkLast, bkNewest>>
      /\ ~TaskUploads => bkNow < bkNextTick
      /\ TaskUploads => bkNow < TaskKey + BkMaxDuration
      /\ TaskUploads' = TaskUploads /\ TaskKey' = TaskKey
  BY DEF BkTick, TaskUploads, TaskKey, BkIsIdle
<1>2. /\ bkNow \in Nat /\ bkNextTick \in Nat /\ bkLast \in Int /\ bkNewest \in Int
      /\ TaskKey \in Int
  BY DEF BkTypeOK, BackupCall, TaskKey, Backer
<1>3. CASE FirstTick
  BY <1>1, <1>2, <1>3, BackupAssumption DEF FirstTick, TaskOnTime
<1>4. CASE \E kl \in Nat : LaterTick(kl)
  <2>1. PICK kl \in Nat : LaterTick(kl)
    BY <1>4
  <2>2. LaterTick(kl)'
    BY <1>1, <1>2, <2>1, BackupAssumption DEF LaterTick
  <2> QED BY <2>2 DEF TaskOnTime
<1> QED BY <1>3, <1>4 DEF TaskOnTime

\* The task keeps its rounds.
LEMMA TaskOnTimeStep ==
  ASSUME BkMaxDuration <= BkInterval, BkInv, BkInv', TaskOnTime, [BkNext]_bkVars
  PROVE  TaskOnTime'
<1>1. CASE UNCHANGED bkVars
  BY <1>1, TaskUndisturbed DEF bkVars, TaskUploads, TaskKey, BkInv, BkTypeOK
<1>2. CASE TaskTick
  BY <1>2, TaskTickInTime DEF BkInv
<1>3. CASE BkTick
  BY <1>3, ClockInTime DEF BkInv
<1>4. ASSUME NEW b \in Backer, TriggerBackup(b) PROVE TaskOnTime'
  <2>1. /\ UNCHANGED <<bkNow, bkNextTick, bkLast, bkNewest>> /\ bkCall'["task"] = bkCall["task"]
    BY <1>4, BackupAssumption DEF TriggerBackup, Started, Backer, BkInv, BkTypeOK
  <2> QED BY <2>1, TaskUndisturbed DEF BkInv, BkTypeOK, TaskUploads, TaskKey
<1>5. ASSUME NEW b \in Backer, Upload(b) PROVE TaskOnTime'
  <2>1. CASE b = "task"
    BY <1>5, <2>1, TaskUploadInTime
  <2>2. CASE b # "task"
    <3>1. UNCHANGED <<bkNow, bkNextTick, bkLast>> /\ bkCall'["task"] = bkCall["task"]
      BY <1>5, <2>2 DEF Upload, Backer, BkInv, BkTypeOK
    <3>2. bkNewest' >= bkNewest
      BY <1>5 DEF Upload, BkInv, BkTypeOK, BackupCall
    <3> QED BY <3>1, <3>2, TaskUndisturbed DEF BkInv, TaskUploads, TaskKey
  <2> QED BY <2>1, <2>2
<1>6. ASSUME NEW b \in Backer, ListOld(b) PROVE TaskOnTime'
  <2>1. UNCHANGED <<bkNow, bkNextTick, bkLast, bkNewest>>
    BY <1>6 DEF ListOld
  <2>2. TaskUploads' = TaskUploads /\ (TaskUploads => TaskKey' = TaskKey)
    BY <1>6 DEF ListOld, TaskUploads, TaskKey, BkInv, BkTypeOK, BackupCall, BkIdle, Backer
  <2> QED BY <2>1, <2>2, TaskUndisturbed DEF BkInv, BkTypeOK
<1>7. ASSUME NEW b \in Backer, DeleteOld(b) PROVE TaskOnTime'
  <2>1. UNCHANGED <<bkNow, bkNextTick, bkLast, bkNewest>>
    BY <1>7 DEF DeleteOld
  <2>2. TaskUploads' = TaskUploads /\ (TaskUploads => TaskKey' = TaskKey)
    BY <1>7 DEF DeleteOld, TaskUploads, TaskKey, BkInv, BkTypeOK, BackupCall, BkIdle, Backer
  <2> QED BY <2>1, <2>2, TaskUndisturbed DEF BkInv, BkTypeOK
<1>8. ASSUME NEW b \in Backer, BackupDone(b) PROVE TaskOnTime'
  <2>1. UNCHANGED <<bkNow, bkNextTick, bkLast, bkNewest>>
    BY <1>8 DEF BackupDone
  <2>2. TaskUploads' = TaskUploads /\ (TaskUploads => TaskKey' = TaskKey)
    BY <1>8 DEF BackupDone, TaskUploads, TaskKey, BkInv, BkTypeOK, BackupCall, BkIdle, Backer
  <2> QED BY <2>1, <2>2, TaskUndisturbed DEF BkInv, BkTypeOK
<1> QED BY <1>1, <1>2, <1>3, <1>4, <1>5, <1>6, <1>7, <1>8 DEF BkNext

\* The types and the keys, whatever the durations.
LEMMA BkInvariant ==
  ASSUME KeepCount > 0
  PROVE  BkSpec => []BkInv
<1>1. BkInit => BkInv
  BY BackupAssumption DEF BkInit, BkInv, BkTypeOK, BackupCall, BkIdle, NoKey, KeysKnown,
         NewestBackupKept
<1>2. BkInv /\ [BkNext]_bkVars => BkInv'
  BY BkTypeStep, KeysKnownStep DEF BkInv
<1> QED BY <1>1, <1>2, PTL DEF BkSpec

\* With a KeepCount of at least one: however many backups list and delete at once,
\* and whichever requests fail, the newest backup stays in the bucket; and if no
\* upload takes longer than the interval, it was begun at most two intervals and one
\* upload ago.
THEOREM BackupsAreYoung ==
  ASSUME KeepCount > 0, BkMaxDuration <= BkInterval
  PROVE  BkSpec => []BackupsProtect
<1>1. BkInit => TaskOnTime
  BY BackupAssumption DEF BkInit, TaskOnTime, FirstTick, TaskUploads, BkIdle, Backer
<1>2. BkInv /\ BkInv' /\ TaskOnTime /\ [BkNext]_bkVars => TaskOnTime'
  BY TaskOnTimeStep
<1>3. BkInv /\ TaskOnTime => BackupsProtect
  <2> SUFFICES ASSUME BkInv, TaskOnTime, bkNewest # NoKey
               PROVE  \E k \in bucket : bkNow - k <= 2 * BkInterval + BkMaxDuration
    BY DEF BackupsProtect, BackupGap, BkInv, KeysKnown
  <2>1. /\ bkNewest \in bucket /\ bkNewest \in Int /\ bkNewest >= 0
        /\ bkNow \in Nat /\ bkNextTick \in Nat /\ TaskKey \in Int
    BY DEF BkInv, BkTypeOK, KeysKnown, NewestBackupKept, NoKey, TaskKey, BackupCall,
           Backer
  <2>2. bkNow - bkNewest <= 2 * BkInterval + BkMaxDuration
    <3>1. CASE FirstTick
      BY <2>1, <3>1, BackupAssumption DEF FirstTick
    <3>2. CASE \E kl \in Nat : LaterTick(kl)
      BY <2>1, <3>2, BackupAssumption DEF LaterTick
    <3> QED BY <3>1, <3>2 DEF TaskOnTime
  <2> QED BY <2>1, <2>2
<1> QED BY <1>1, <1>2, <1>3, BkInvariant, PTL DEF BkSpec

-----------------------------------------------------------------------------
(* Restore *)

FileName == {"db", "tmp", "restore", "bak", "copy"}

\* The file holds a database with jobs.
Holds(f) == HasJobs(rsFile[f])

RsTypeOK ==
  /\ rsFile = [f \in FileName |-> rsFile[f]] /\ rsBlank \in BOOLEAN
  /\ rsStage \in {"none", "validate", "swap", "swap_in", "swap_done", "write", "written"}
  /\ rsFaults \in Nat /\ rsFaults <= RsMaxFaults

\* What a stage of a restore relies on.
StageHolds ==
  /\ rsServer # "up" => rsStage = "none"
  /\ rsStage \in {"swap", "swap_in"} => Holds("restore") \/ rsBlank
  /\ rsStage = "written" => rsFile["db"] = Torn

\* The database is in its place, or the file beside it that the stage puts back.
InPlace ==
  /\ rsStage \in {"none", "validate", "swap", "write", "swap_done"} => Holds("db")
  /\ rsStage = "swap_in" => Holds("bak")
  /\ rsStage \in {"write", "written"} => Holds("copy")

\* A crash left it where the swap had moved it; then a second swap moves over it,
\* with a database to move in.
LeftAside == rsFaults = 1 /\ Holds("bak") /\ rsStage \notin {"swap_in", "swap_done"}
MovedOver == rsFaults = 1 /\ rsStage = "swap_in"

\* A crash left half of an upload: the server does not start again.
LeftCopy ==
  rsFaults = 1 /\ rsServer = "down" /\ rsStage = "none" /\ Holds("copy") /\ rsFile["db"] = Torn

RsInv ==
  RsTypeOK /\ StageHolds /\ (rsBlank \/ InPlace \/ LeftAside \/ MovedOver \/ LeftCopy)

\* Files(fs) changes the files fs names, and no other.
LEMMA FilesChanged ==
  ASSUME RsTypeOK, NEW fs, DOMAIN fs \subseteq FileName, Files(fs)
  PROVE  /\ rsFile' = [f \in FileName |-> rsFile'[f]]
         /\ \A f \in DOMAIN fs : rsFile'[f] = fs[f]
         /\ \A f \in FileName \ DOMAIN fs : rsFile'[f] = rsFile[f]
<1>1. DOMAIN rsFile = FileName
  BY DEF RsTypeOK
<1>2. rsFile' = [f \in FileName |-> IF f \in DOMAIN fs THEN fs[f] ELSE rsFile[f]]
  BY <1>1 DEF Files
<1> QED BY <1>2

\* A file renamed takes what it holds with it.
LEMMA FileRenamed ==
  ASSUME RsTypeOK, NEW from \in FileName, NEW to \in FileName, from # to, RenameFile(from, to)
  PROVE  /\ rsFile' = [f \in FileName |-> rsFile'[f]]
         /\ rsFile'[to] = rsFile[from] /\ rsFile'[from] = NoFile
         /\ \A f \in FileName \ {from, to} : rsFile'[f] = rsFile[f]
<1> DEFINE fs == [f \in {from, to} |-> IF f = to THEN rsFile[from] ELSE NoFile]
<1>1. DOMAIN fs = {from, to} /\ fs[to] = rsFile[from] /\ fs[from] = NoFile
  OBVIOUS
<1>2. Files(fs)
  BY DEF RenameFile
<1> HIDE DEF fs
<1> QED BY <1>1, <1>2, FilesChanged

\* A file removed is gone.
LEMMA FileRemoved ==
  ASSUME RsTypeOK, NEW f \in FileName, RemoveFile(f)
  PROVE  /\ rsFile' = [g \in FileName |-> rsFile'[g]]
         /\ rsFile'[f] = NoFile
         /\ \A g \in FileName \ {f} : rsFile'[g] = rsFile[g]
<1> DEFINE fs == [g \in {f} |-> NoFile]
<1>1. DOMAIN fs = {f} /\ fs[f] = NoFile
  OBVIOUS
<1>2. Files(fs)
  BY DEF RemoveFile
<1> HIDE DEF fs
<1> QED BY <1>1, <1>2, FilesChanged

\* A file set to one content holds that.
LEMMA FileSet ==
  ASSUME RsTypeOK, NEW f \in FileName, NEW c, Files([g \in {f} |-> c])
  PROVE  /\ rsFile' = [g \in FileName |-> rsFile'[g]]
         /\ rsFile'[f] = c
         /\ \A g \in FileName \ {f} : rsFile'[g] = rsFile[g]
<1> DEFINE fs == [g \in {f} |-> c]
<1>1. DOMAIN fs = {f} /\ fs[f] = c
  OBVIOUS
<1>2. Files(fs)
  OBVIOUS
<1> HIDE DEF fs
<1> QED BY <1>1, <1>2, FilesChanged

\* A step that is the first fault, or none, keeps the invariant.
LEMMA RsInvStep ==
  ASSUME RsMaxFaults <= 1, RsInv, [RsNext]_rsVars
  PROVE  RsInv'
<1> USE RestoreAssumption DEF RsInv, RsTypeOK, StageHolds, InPlace, LeftAside, MovedOver,
       LeftCopy, RsAt,
       RsThen, WithFault, WithoutFault, Begins, FileName
<1>1. CASE UNCHANGED rsVars
  BY <1>1 DEF rsVars, Holds, HasJobs, IsDatabase
<1>2. CASE RestoreDownload
  <2>1. PICK c \in Backup \cup {Torn} : Files([f \in {"tmp"} |-> c])
    BY <1>2 DEF RestoreDownload
  <2>2. /\ rsFile' = [f \in FileName |-> rsFile'[f]] /\ rsFile'["tmp"] = c
        /\ \A f \in FileName \ {"tmp"} : rsFile'[f] = rsFile[f]
    BY <2>1, FileSet DEF FileName
  <2> QED BY <1>2, <2>2 DEF RestoreDownload, Holds, HasJobs, IsDatabase
<1>3. CASE Validate
  <2>1. CASE IsDatabase("tmp")
    <3>1. /\ rsFile' = [f \in FileName |-> rsFile'[f]]
          /\ rsFile'["restore"] = rsFile["tmp"]
          /\ \A f \in FileName \ {"tmp", "restore"} : rsFile'[f] = rsFile[f]
      BY <1>3, <2>1, FileRenamed DEF Validate, FileName
    <3> QED BY <1>3, <2>1, <3>1 DEF Validate, Holds, HasJobs, IsDatabase
  <2>2. CASE ~IsDatabase("tmp")
    <3> DEFINE fs == [f \in {"tmp", "restore"} |-> NoFile]
    <3>1. Files(fs) /\ DOMAIN fs = {"tmp", "restore"}
      BY <1>3, <2>2 DEF Validate
    <3> HIDE DEF fs
    <3>2. /\ rsFile' = [f \in FileName |-> rsFile'[f]]
          /\ \A f \in FileName \ {"tmp", "restore"} : rsFile'[f] = rsFile[f]
      BY <3>1, FilesChanged DEF FileName
    <3> QED BY <1>3, <2>2, <3>2 DEF Validate, Holds, HasJobs, IsDatabase
  <2> QED BY <2>1, <2>2
<1>4. CASE SwapMoveAway
  <2>1. CASE FileExists("db")
    <3>1. /\ rsFile' = [f \in FileName |-> rsFile'[f]]
          /\ rsFile'["bak"] = rsFile["db"] /\ rsFile'["db"] = NoFile
          /\ \A f \in FileName \ {"db", "bak"} : rsFile'[f] = rsFile[f]
      BY <1>4, <2>1, FileRenamed DEF SwapMoveAway, FileName
    <3> QED BY <1>4, <2>1, <3>1 DEF SwapMoveAway, Holds, HasJobs, IsDatabase
  <2>2. CASE ~FileExists("db")
    <3>1. UNCHANGED rsFile
      BY <1>4, <2>2 DEF SwapMoveAway
    <3> QED BY <1>4, <2>2, <3>1 DEF SwapMoveAway, Holds, HasJobs, IsDatabase, FileExists
  <2> QED BY <2>1, <2>2
<1>5. CASE SwapMoveAwayFails
  <2>1. /\ rsFile' = [f \in FileName |-> rsFile'[f]] /\ rsFile'["restore"] = NoFile
        /\ \A f \in FileName \ {"restore"} : rsFile'[f] = rsFile[f]
    BY <1>5, FileRemoved DEF SwapMoveAwayFails, FileName
  <2> QED BY <1>5, <2>1 DEF SwapMoveAwayFails, Holds, HasJobs, IsDatabase
<1>6. CASE SwapMoveIn
  <2>1. /\ rsFile' = [f \in FileName |-> rsFile'[f]]
        /\ rsFile'["db"] = rsFile["restore"] /\ rsFile'["restore"] = NoFile
        /\ \A f \in FileName \ {"restore", "db"} : rsFile'[f] = rsFile[f]
    BY <1>6, FileRenamed DEF SwapMoveIn, FileName
  <2>2. rsBlank' = ~Holds("restore") /\ rsBlank' \in BOOLEAN
    BY <1>6 DEF SwapMoveIn, Accepts, Holds, HasJobs
  <2>3. rsBlank' \/ Holds("db")'
    BY <2>1, <2>2 DEF Holds
  <2>4. rsStage' = "swap_done" /\ rsServer' = "up" /\ rsFaults' = rsFaults
    BY <1>6 DEF SwapMoveIn
  <2> QED BY <2>1, <2>2, <2>3, <2>4
<1>7. CASE SwapMoveInFails
  <2>1. CASE FileExists("bak")
    <3>1. /\ rsFile' = [f \in FileName |-> rsFile'[f]]
          /\ rsFile'["db"] = rsFile["bak"] /\ rsFile'["bak"] = NoFile
          /\ \A f \in FileName \ {"bak", "db"} : rsFile'[f] = rsFile[f]
      BY <1>7, <2>1, FileRenamed DEF SwapMoveInFails, FileName
    <3> QED BY <1>7, <2>1, <3>1 DEF SwapMoveInFails, Holds, HasJobs, IsDatabase
  <2>2. CASE ~FileExists("bak")
    <3>1. UNCHANGED rsFile
      BY <1>7, <2>2 DEF SwapMoveInFails
    <3> QED BY <1>7, <2>2, <3>1 DEF SwapMoveInFails, Holds, HasJobs, IsDatabase, FileExists
  <2> QED BY <2>1, <2>2
<1>8. CASE SwapDone
  <2>1. /\ rsFile' = [f \in FileName |-> rsFile'[f]] /\ rsFile'["bak"] = NoFile
        /\ \A f \in FileName \ {"bak"} : rsFile'[f] = rsFile[f]
    BY <1>8, FileRemoved DEF SwapDone, FileName
  <2> QED BY <1>8, <2>1 DEF SwapDone, Holds, HasJobs, IsDatabase
<1>9. CASE UploadCopy
  <2>1. CASE FileExists("db")
    <3>1. /\ rsFile' = [f \in FileName |-> rsFile'[f]] /\ rsFile'["copy"] = rsFile["db"]
          /\ \A f \in FileName \ {"copy"} : rsFile'[f] = rsFile[f]
      BY <1>9, <2>1, FileSet DEF UploadCopy, FileName
    <3> QED BY <1>9, <2>1, <3>1 DEF UploadCopy, Holds, HasJobs, IsDatabase
  <2>2. CASE ~FileExists("db")
    <3>1. UNCHANGED rsFile
      BY <1>9, <2>2 DEF UploadCopy
    <3> QED BY <1>9, <2>2, <3>1 DEF UploadCopy, Holds, HasJobs, IsDatabase, FileExists
  <2> QED BY <2>1, <2>2
<1>10. CASE UploadWrite
  <2>1. /\ rsFile' = [f \in FileName |-> rsFile'[f]] /\ rsFile'["db"] = Torn
        /\ \A f \in FileName \ {"db"} : rsFile'[f] = rsFile[f]
    BY <1>10, FileSet DEF UploadWrite, FileName
  <2> QED BY <1>10, <2>1 DEF UploadWrite, Holds, HasJobs, IsDatabase
<1>11. CASE UploadDone
  <2>1. PICK c \in Uploadable :
          /\ Files([f \in {"db", "copy"} |-> IF f = "db" THEN c ELSE NoFile])
          /\ rsBlank' = ~HasJobs(c)
    BY <1>11 DEF UploadDone, Accepts
  <2> DEFINE fs == [f \in {"db", "copy"} |-> IF f = "db" THEN c ELSE NoFile]
  <2>2. Files(fs) /\ DOMAIN fs = {"db", "copy"} /\ fs["db"] = c
    BY <2>1
  <2> HIDE DEF fs
  <2>3. /\ rsFile' = [f \in FileName |-> rsFile'[f]] /\ rsFile'["db"] = c
        /\ \A f \in FileName \ {"db", "copy"} : rsFile'[f] = rsFile[f]
    BY <2>2, FilesChanged DEF FileName
  <2>4. rsBlank' \/ Holds("db")'
    BY <2>1, <2>3 DEF Holds
  <2>5. rsBlank' \in BOOLEAN
    BY <2>1
  <2> QED BY <1>11, <2>3, <2>4, <2>5 DEF UploadDone
<1>12. CASE UploadFails
  <2>1. CASE FileExists("copy")
    <3>1. /\ rsFile' = [f \in FileName |-> rsFile'[f]]
          /\ rsFile'["db"] = rsFile["copy"] /\ rsFile'["copy"] = NoFile
          /\ \A f \in FileName \ {"copy", "db"} : rsFile'[f] = rsFile[f]
      BY <1>12, <2>1, FileRenamed DEF UploadFails, FileName
    <3> QED BY <1>12, <2>1, <3>1 DEF UploadFails, Holds, HasJobs, IsDatabase
  <2>2. CASE ~FileExists("copy")
    <3>1. UNCHANGED rsFile
      BY <1>12, <2>2 DEF UploadFails
    <3> QED BY <1>12, <2>2, <3>1 DEF UploadFails, Holds, HasJobs, IsDatabase, FileExists
  <2> QED BY <2>1, <2>2
<1>13. CASE RsCrash
  <2>1. UNCHANGED <<rsFile, rsBlank>> /\ rsStage' = "none" /\ rsServer' = "down"
    BY <1>13 DEF RsCrash
  <2>2. rsFaults = 0 /\ rsFaults' = 1 /\ rsFaults' <= RsMaxFaults
    BY <1>13 DEF RsCrash
  <2>3. \A f \in FileName : Holds(f)' = Holds(f)
    BY <2>1 DEF Holds, HasJobs, IsDatabase
  <2>4. rsBlank' \/ InPlace' \/ LeftAside' \/ LeftCopy'
    BY <2>1, <2>2, <2>3
  <2>5. RsTypeOK'
    BY <2>1, <2>2
  <2>6. StageHolds'
    BY <2>1
  <2> QED BY <2>4, <2>5, <2>6
<1>14. CASE RsStop
  <2>1. UNCHANGED rsFile
    BY <1>14 DEF RsStop, rsVars
  <2> QED BY <1>14, <2>1 DEF RsStop, rsVars, Holds, HasJobs, IsDatabase
<1>15. CASE RsStart
  <2>1. CASE IsDatabase("db") /\ UNCHANGED rsFile
    BY <1>15, <2>1 DEF RsStart, Holds, HasJobs, IsDatabase, Torn
  <2>2. CASE ~FileExists("db") /\ Files([f \in {"db"} |-> Database(FALSE, 0)])
    <3>1. /\ rsFile' = [f \in FileName |-> rsFile'[f]]
          /\ \A f \in FileName \ {"db"} : rsFile'[f] = rsFile[f]
      BY <2>2, FileSet DEF FileName
    <3>2. ~Holds("db") /\ rsFile["db"] # Torn
      BY <2>2 DEF Holds, HasJobs, IsDatabase, FileExists, Torn
    <3> QED BY <1>15, <3>1, <3>2 DEF RsStart, Holds, HasJobs, IsDatabase
  <2> QED BY <1>15, <2>1, <2>2 DEF RsStart
<1>16. CASE Migrate
  <2> DEFINE c == Database(Db.data, Db.made + 1)
  <2>1. /\ rsFile' = [f \in FileName |-> rsFile'[f]] /\ rsFile'["db"] = c
        /\ \A f \in FileName \ {"db"} : rsFile'[f] = rsFile[f]
    BY <1>16, FileSet DEF Migrate, FileName
  <2>2. Holds("db") => Holds("db")'
    BY <2>1 DEF Holds, HasJobs, IsDatabase, Database, Db
  <2> HIDE DEF c
  <2> QED BY <1>16, <2>1, <2>2 DEF Migrate, Holds, HasJobs, IsDatabase, FileName
<1>17. CASE Ready
  <2>1. UNCHANGED rsFile
    BY <1>17 DEF Ready, rsVars
  <2> QED BY <1>17, <2>1 DEF Ready, rsVars, Holds, HasJobs, IsDatabase
<1> QED BY <1>1, <1>2, <1>3, <1>4, <1>5, <1>6, <1>7, <1>8, <1>9, <1>10, <1>11, <1>12, <1>13,
          <1>14, <1>15, <1>16, <1>17 DEF RsNext, RsSwap, RsUpload, RsServe

\* While at most one step fails -- the server dies, a file is not renamed or not
\* written -- some file holds the jobs at every moment, whatever restores and
\* restarts follow: the swap moves the database aside before it moves the new one
\* in, and the upload handler writes over it only after it made a copy.
THEOREM OneFaultLosesNoData ==
  ASSUME RsMaxFaults <= 1
  PROVE  RsSpec => []DataSurvives
<1>1. RsInit => RsInv
  <2> SUFFICES ASSUME RsInit PROVE RsInv
    OBVIOUS
  <2>1. Holds("db")
    BY DEF RsInit, Holds, HasJobs, IsDatabase, Database
  <2>2. RsTypeOK
    <3>1. rsFile = [f \in FileName |-> rsFile[f]]
      BY DEF RsInit, FileName
    <3>2. rsBlank \in BOOLEAN /\ rsStage = "none" /\ rsFaults = 0
      BY DEF RsInit
    <3> QED BY <3>1, <3>2, RestoreAssumption DEF RsTypeOK
  <2> QED BY <2>1, <2>2 DEF RsInit, RsInv, StageHolds, InPlace
<1>2. RsInv /\ [RsNext]_rsVars => RsInv'
  BY RsInvStep
<1>3. RsInv => DataSurvives
  <2> SUFFICES ASSUME RsInv PROVE DataSurvives
    OBVIOUS
  <2>1. DOMAIN rsFile = FileName
    BY DEF RsInv, RsTypeOK
  <2>2. rsBlank \/ \E f \in FileName : Holds(f)
    <3>1. CASE InPlace
      <4>1. Holds("db") \/ Holds("bak") \/ Holds("copy")
        BY <3>1 DEF InPlace, RsInv, RsTypeOK
      <4> QED BY <4>1 DEF FileName
    <3>2. CASE LeftAside \/ MovedOver \/ LeftCopy
      <4>1. rsBlank \/ Holds("bak") \/ Holds("restore") \/ Holds("copy")
        BY <3>2 DEF RsInv, StageHolds, LeftAside, MovedOver, LeftCopy
      <4> QED BY <4>1 DEF FileName
    <3> QED BY <3>1, <3>2 DEF RsInv
  <2> QED BY <2>1, <2>2 DEF DataSurvives, Holds
<1> QED BY <1>1, <1>2, <1>3, PTL DEF RsSpec

-----------------------------------------------------------------------------
(***************************************************************************)
(* Matching the keys of the store, for every pattern and every key.  The   *)
(* matcher works from the left, so what it finds is followed from the      *)
(* right: at each character of the pattern it says whether the rest of the *)
(* pattern covers the rest of the text.                                    *)
(***************************************************************************)

\* Of numbers there is a least.
LEMMA LeastNumber ==
  ASSUME NEW T, T \subseteq Nat, T # {}
  PROVE  \E x \in T : \A y \in T : x <= y
<1> DEFINE Less == OpToRel(<, Nat)
<1>1. IsWellFoundedOn(Less, Nat)
  BY NatLessThanWellFounded
<1> HIDE DEF Less
<1>2. PICK x \in T : \A y \in T : ~(<<y, x>> \in Less)
  BY <1>1, WFMin
<1>3. \A y \in T : ~(y < x)
  BY <1>2 DEF Less, OpToRel
<1> QED BY <1>3

\* What holds of 0 and of the successor of each number it holds of, holds of all.
LEMMA NumbersAreReached ==
  ASSUME NEW S, 0 \in S, \A n \in Nat : n \in S => n + 1 \in S
  PROVE  Nat \subseteq S
<1> DEFINE T == Nat \ S
<1>1. SUFFICES ASSUME T # {} PROVE FALSE
  OBVIOUS
<1>2. PICK x \in T : \A y \in T : x <= y
  BY <1>1, LeastNumber
<1>3. x # 0 /\ x - 1 \in Nat /\ x - 1 \notin T
  BY <1>2
<1> QED BY <1>2, <1>3

\* The matcher is a function: it is built up from the end of the pattern.
LEMMA MatcherIsDefined ==
  ASSUME NEW p, NEW t, Len(p) \in Nat
  PROVE  \A i \in 1..(Len(p) + 1) : \A j, depth \in Nat :
           GlobMatchInner(p, t)[i][j][depth] <=>
             IF depth > MaxGlobDepth THEN FALSE
             ELSE IF i = Len(p) + 1 THEN j > Len(t)
             ELSE IF p[i] = Star
               THEN i = Len(p) \/ \E n \in j..(Len(t) + 1) :
                                    GlobMatchInner(p, t)[i + 1][n][depth + 1]
             ELSE Fits(p[i], t, j) /\ GlobMatchInner(p, t)[i + 1][j + 1][depth]
<1> DEFINE z == Len(p) + 1
           Body(f, i) == [j \in Nat |-> [depth \in Nat |->
             IF depth > MaxGlobDepth THEN FALSE
             ELSE IF i = Len(p) + 1 THEN j > Len(t)
             ELSE IF p[i] = Star
               THEN i = Len(p) \/ \E n \in j..(Len(t) + 1) : f[i + 1][n][depth + 1]
             ELSE Fits(p[i], t, j) /\ f[i + 1][j + 1][depth]]]
           Built == {m \in Nat : m <= z => \E f : f = [i \in (z + 1 - m)..z |-> Body(f, i)]}
<1>1. 0 \in Built
  <2> DEFINE f0 == [i \in (z + 1 - 0)..z |-> 0]
  <2>1. (z + 1 - 0)..z = {}
    OBVIOUS
  <2> HIDE DEF Body, z
  <2>2. f0 = [i \in (z + 1 - 0)..z |-> Body(f0, i)]
    BY <2>1
  <2> HIDE DEF f0
  <2> QED BY <2>2
<1>2. ASSUME NEW m \in Nat, m \in Built PROVE m + 1 \in Built
  <2> DEFINE D == (z + 1 - m)..z
             D2 == (z + 1 - (m + 1))..z
  <2> SUFFICES ASSUME m + 1 <= z PROVE \E g : g = [i \in D2 |-> Body(g, i)]
    <3> HIDE DEF Body, z
    <3> QED OBVIOUS
  <2>1. PICK f : f = [i \in D |-> Body(f, i)]
    <3> HIDE DEF Body
    <3> QED BY <1>2
  <2> DEFINE g == [i \in D2 |-> Body(f, i)]
  <2>2. ASSUME NEW i \in D PROVE f[i] = Body(f, i) /\ g[i] = f[i]
    <3> HIDE DEF Body
    <3>1. f[i] = Body(f, i)
      BY <2>1
    <3>2. i \in D2
      OBVIOUS
    <3> QED BY <3>1, <3>2
  <2>3. ASSUME NEW i \in D2 PROVE Body(f, i) = Body(g, i)
    <3>1. CASE i = z
      <4> HIDE DEF g
      <4> QED BY <3>1
    <3>2. CASE i # z
      <4>1. i + 1 \in D
        BY <3>2
      <4>2. f[i + 1] = g[i + 1]
        <5> HIDE DEF g, D
        <5> QED BY <4>1, <2>2
      <4> HIDE DEF g
      <4> QED BY <4>2
    <3> QED BY <3>1, <3>2
  <2>5. g = [i \in D2 |-> Body(g, i)]
    <3> HIDE DEF Body
    <3> QED BY <2>3
  <2> HIDE DEF g, Body
  <2> QED BY <2>5
<1>3. z \in Built
  <2>1. z \in Nat
    OBVIOUS
  <2> HIDE DEF Built, z
  <2> QED BY <1>1, <1>2, <2>1, NumbersAreReached
<1>4. \E f : f = [i \in 1..z |-> Body(f, i)]
  <2> HIDE DEF Body
  <2>1. z + 1 - z = 1
    OBVIOUS
  <2> QED BY <1>3, <2>1
<1>5. GlobMatchInner(p, t) = CHOOSE f : f = [i \in 1..z |-> Body(f, i)]
  BY DEF GlobMatchInner
<1>6. GlobMatchInner(p, t) = [i \in 1..z |-> Body(GlobMatchInner(p, t), i)]
  <2> HIDE DEF Body
  <2> QED BY <1>4, <1>5
<1>7. ASSUME NEW i \in 1..z, NEW j \in Nat, NEW depth \in Nat
      PROVE  GlobMatchInner(p, t)[i][j][depth] = Body(GlobMatchInner(p, t), i)[j][depth]
  <2> HIDE DEF Body
  <2> QED BY <1>6
<1> QED BY <1>7

\* Character k of the pattern covers the text from a up to b; and the pattern from i
\* on covers the text from j on.
Covered(p, t, k, a, b) ==
  IF p[k] = Star THEN a <= b ELSE b = a + 1 /\ p[k] \in {AnyOne, t[a]}
Covers(p, t, i, j) ==
  \E cut \in [i..(Len(p) + 1) -> 1..(Len(t) + 1)] :
    /\ cut[i] = j /\ cut[Len(p) + 1] = Len(t) + 1
    /\ \A k \in i..Len(p) : Covered(p, t, k, cut[k], cut[k + 1])
StarsFrom(p, i) == Cardinality({k \in i..Len(p) : p[k] = Star})

LEMMA CoversAtEnd ==
  ASSUME NEW p, NEW t, Len(p) \in Nat, Len(t) \in Nat, NEW j \in 1..(Len(t) + 1)
  PROVE  Covers(p, t, Len(p) + 1, j) <=> j = Len(t) + 1
<1> DEFINE z == Len(p) + 1
<1>1. ASSUME j = Len(t) + 1 PROVE Covers(p, t, z, j)
  <2> DEFINE cut == [k \in z..(Len(p) + 1) |-> j]
  <2>1. cut \in [z..(Len(p) + 1) -> 1..(Len(t) + 1)]
    BY <1>1
  <2>2. cut[z] = j /\ cut[Len(p) + 1] = j
    OBVIOUS
  <2>3. z..Len(p) = {}
    OBVIOUS
  <2> HIDE DEF cut
  <2> QED BY <2>1, <2>2, <2>3, <1>1 DEF Covers
<1>2. Covers(p, t, z, j) => j = Len(t) + 1
  BY DEF Covers
<1> QED BY <1>1, <1>2

LEMMA CoversOneMore ==
  ASSUME NEW p, NEW t, Len(p) \in Nat, Len(t) \in Nat, NEW i \in 1..Len(p),
         NEW j \in 1..(Len(t) + 1)
  PROVE  Covers(p, t, i, j) <=>
           \E b \in 1..(Len(t) + 1) : Covered(p, t, i, j, b) /\ Covers(p, t, i + 1, b)
<1> DEFINE z == Len(p) + 1
           P == 1..(Len(t) + 1)
<1>1. ASSUME Covers(p, t, i, j)
      PROVE  \E b \in P : Covered(p, t, i, j, b) /\ Covers(p, t, i + 1, b)
  <2>1. PICK cut \in [i..z -> P] :
          /\ cut[i] = j /\ cut[z] = Len(t) + 1
          /\ \A k \in i..Len(p) : Covered(p, t, k, cut[k], cut[k + 1])
    BY <1>1 DEF Covers
  <2> DEFINE c == [k \in (i + 1)..z |-> cut[k]]
             b == cut[i + 1]
  <2>2. i \in i..z /\ i + 1 \in i..z /\ i + 1 \in (i + 1)..z /\ z \in (i + 1)..z /\ i \in i..Len(p)
    OBVIOUS
  <2>3. \A k \in (i + 1)..Len(p) :
          k \in i..Len(p) /\ k \in (i + 1)..z /\ k + 1 \in (i + 1)..z
    OBVIOUS
  <2>4. b \in P /\ Covered(p, t, i, j, b)
    BY <2>1, <2>2
  <2>5. c \in [(i + 1)..z -> P]
    <3>1. \A k \in (i + 1)..z : k \in i..z
      OBVIOUS
    <3> HIDE DEF z, P
    <3> QED BY <2>1, <3>1
  <2>6. c[i + 1] = b /\ c[z] = Len(t) + 1
    BY <2>1, <2>2
  <2>7. \A k \in (i + 1)..Len(p) : Covered(p, t, k, c[k], c[k + 1])
    BY <2>1, <2>3
  <2>8. Covers(p, t, i + 1, b)
    <3> HIDE DEF c, b
    <3> QED BY <2>5, <2>6, <2>7 DEF Covers
  <2> HIDE DEF b
  <2> QED BY <2>4, <2>8
<1>2. ASSUME NEW b \in P, Covered(p, t, i, j, b), Covers(p, t, i + 1, b)
      PROVE  Covers(p, t, i, j)
  <2>1. PICK cut \in [(i + 1)..z -> P] :
          /\ cut[i + 1] = b /\ cut[z] = Len(t) + 1
          /\ \A k \in (i + 1)..Len(p) : Covered(p, t, k, cut[k], cut[k + 1])
    BY <1>2 DEF Covers
  <2> DEFINE c == [k \in i..z |-> IF k = i THEN j ELSE cut[k]]
  <2>2. c \in [i..z -> P]
    <3>1. \A k \in i..z : k = i \/ k \in (i + 1)..z
      OBVIOUS
    <3> HIDE DEF z
    <3> QED BY <2>1, <3>1
  <2>3. c[i] = j /\ c[i + 1] = b /\ c[z] = Len(t) + 1
    BY <2>1
  <2>4. ASSUME NEW k \in i..Len(p) PROVE Covered(p, t, k, c[k], c[k + 1])
    <3>1. CASE k = i
      <4> HIDE DEF c
      <4> QED BY <3>1, <2>3, <1>2
    <3>2. CASE k # i
      <4>1. k \in (i + 1)..Len(p) /\ k \in i..z /\ k + 1 \in i..z /\ k + 1 # i
        BY <3>2
      <4>2. c[k] = cut[k] /\ c[k + 1] = cut[k + 1]
        BY <3>2, <4>1
      <4> HIDE DEF c
      <4> QED BY <4>1, <4>2, <2>1
    <3> QED BY <3>1, <3>2
  <2> HIDE DEF c
  <2> QED BY <2>2, <2>3, <2>4 DEF Covers
<1> QED BY <1>1, <1>2

LEMMA StarsAdd ==
  ASSUME NEW p, Len(p) \in Nat, NEW i \in 1..Len(p)
  PROVE  /\ StarsFrom(p, i + 1) \in Nat
         /\ StarsFrom(p, i) = StarsFrom(p, i + 1) + (IF p[i] = Star THEN 1 ELSE 0)
<1> DEFINE S == {k \in i..Len(p) : p[k] = Star}
           T == {k \in (i + 1)..Len(p) : p[k] = Star}
<1>1. IsFiniteSet(T)
  <2>1. IsFiniteSet((i + 1)..Len(p))
    BY FS_Interval
  <2> QED BY <2>1, FS_Subset
<1>2. Cardinality(T) \in Nat
  BY <1>1, FS_CardinalityType
<1>3. CASE p[i] = Star
  <2>1. S = T \cup {i} /\ i \notin T
    BY <1>3
  <2>2. Cardinality(S) = Cardinality(T) + 1
    <3> HIDE DEF S, T
    <3> QED BY <1>1, <2>1, FS_AddElement
  <2> QED BY <1>2, <1>3, <2>2 DEF StarsFrom
<1>4. CASE p[i] # Star
  <2>1. S = T
    <3>1. \A k \in i..Len(p) : k = i \/ k \in (i + 1)..Len(p)
      OBVIOUS
    <3>2. \A k \in (i + 1)..Len(p) : k \in i..Len(p)
      OBVIOUS
    <3> QED BY <1>4, <3>1, <3>2
  <2>2. StarsFrom(p, i) = Cardinality(S) /\ StarsFrom(p, i + 1) = Cardinality(T)
    BY DEF StarsFrom
  <2> HIDE DEF S, T
  <2> QED BY <1>2, <1>4, <2>1, <2>2
<1> QED BY <1>2, <1>3, <1>4 DEF StarsFrom

\* At every character: what the matcher finds is a match, and a match is found unless
\* the stars that are left lead too deep.
LEMMA MatcherCovers ==
  ASSUME NEW p, NEW t, Len(p) \in Nat, Len(t) \in Nat
  PROVE  \A i \in 1..(Len(p) + 1) : \A j \in 1..(Len(t) + 1) : \A depth \in Nat :
           /\ GlobMatchInner(p, t)[i][j][depth] => Covers(p, t, i, j)
           /\ depth + StarsFrom(p, i) <= MaxGlobDepth /\ Covers(p, t, i, j)
                => GlobMatchInner(p, t)[i][j][depth]
<1> DEFINE z == Len(p) + 1
           y == Len(t) + 1
           G(i, j, depth) == GlobMatchInner(p, t)[i][j][depth]
           Fine(i) == \A j \in 1..y : \A depth \in Nat :
             /\ G(i, j, depth) => Covers(p, t, i, j)
             /\ depth + StarsFrom(p, i) <= MaxGlobDepth /\ Covers(p, t, i, j) => G(i, j, depth)
           Good == {m \in Nat : m < z => Fine(z - m)}
<1>a. MaxGlobDepth \in Nat
  BY GlobAssumption DEF GlobAssumption
<1>b. \A i \in 1..z : \A j, depth \in Nat :
        G(i, j, depth) <=>
             IF depth > MaxGlobDepth THEN FALSE
             ELSE IF i = z THEN j > Len(t)
             ELSE IF p[i] = Star
               THEN i = Len(p) \/ \E n \in j..y : G(i + 1, n, depth + 1)
             ELSE Fits(p[i], t, j) /\ G(i + 1, j + 1, depth)
  BY MatcherIsDefined
<1> HIDE DEF G
<1>1. Fine(z)
  <2> SUFFICES ASSUME NEW j \in 1..y, NEW depth \in Nat
               PROVE  /\ G(z, j, depth) => Covers(p, t, z, j)
                      /\ depth + StarsFrom(p, z) <= MaxGlobDepth /\ Covers(p, t, z, j)
                           => G(z, j, depth)
    OBVIOUS
  <2>1. StarsFrom(p, z) = 0
    <3>1. {k \in z..Len(p) : p[k] = Star} = {}
      OBVIOUS
    <3> HIDE DEF z
    <3> QED BY <3>1, FS_EmptySet DEF StarsFrom
  <2>2. Covers(p, t, z, j) <=> j = y
    BY CoversAtEnd
  <2>3. G(z, j, depth) <=> ~(depth > MaxGlobDepth) /\ j > Len(t)
    BY <1>b
  <2> QED BY <2>1, <2>2, <2>3, <1>a
<1>2. ASSUME NEW i \in 1..Len(p), Fine(i + 1) PROVE Fine(i)
  <2> SUFFICES ASSUME NEW j \in 1..y, NEW depth \in Nat
               PROVE  /\ G(i, j, depth) => Covers(p, t, i, j)
                      /\ depth + StarsFrom(p, i) <= MaxGlobDepth /\ Covers(p, t, i, j)
                           => G(i, j, depth)
    OBVIOUS
  <2>1. /\ StarsFrom(p, i + 1) \in Nat
        /\ StarsFrom(p, i) = StarsFrom(p, i + 1) + (IF p[i] = Star THEN 1 ELSE 0)
    BY StarsAdd
  <2>2. Covers(p, t, i, j) <=> \E b \in 1..y : Covered(p, t, i, j, b) /\ Covers(p, t, i + 1, b)
    BY CoversOneMore
  <2>3. i \in 1..z /\ i # z
    OBVIOUS
  <2>4. CASE depth > MaxGlobDepth
    BY <2>1, <2>3, <2>4, <1>a, <1>b
  <2>5. CASE ~(depth > MaxGlobDepth) /\ p[i] = Star
    <3>1. G(i, j, depth) <=> i = Len(p) \/ \E n \in j..y : G(i + 1, n, depth + 1)
      BY <2>3, <2>5, <1>b
    <3>2. \A b \in 1..y : Covered(p, t, i, j, b) <=> j <= b
      BY <2>5 DEF Covered
    <3>3. CASE i = Len(p)
      <4>1. Covers(p, t, i + 1, y)
        BY <3>3, CoversAtEnd
      <4> QED BY <3>1, <3>2, <3>3, <4>1, <2>2
    <3>4. CASE i # Len(p)
      <4>1. \A n \in j..y : n \in 1..y /\ j <= n
        OBVIOUS
      <4>2. \A b \in 1..y : j <= b => b \in j..y
        OBVIOUS
      <4>3. depth + 1 \in Nat /\ (depth + StarsFrom(p, i) <= MaxGlobDepth
                                    => (depth + 1) + StarsFrom(p, i + 1) <= MaxGlobDepth)
        BY <2>1, <2>5, <1>a
      <4>4. G(i, j, depth) => Covers(p, t, i, j)
        BY <3>1, <3>2, <3>4, <4>1, <4>3, <2>2, <1>2
      <4>5. depth + StarsFrom(p, i) <= MaxGlobDepth /\ Covers(p, t, i, j) => G(i, j, depth)
        BY <3>1, <3>2, <4>2, <4>3, <2>2, <1>2
      <4> QED BY <4>4, <4>5
    <3> QED BY <3>3, <3>4
  <2>6. CASE ~(depth > MaxGlobDepth) /\ p[i] # Star
    <3>1. G(i, j, depth) <=> Fits(p[i], t, j) /\ G(i + 1, j + 1, depth)
      BY <2>3, <2>6, <1>b
    <3>2. \A b \in 1..y : Covered(p, t, i, j, b) <=> b = j + 1 /\ Fits(p[i], t, j)
      BY <2>6 DEF Covered, Fits
    <3>3. Fits(p[i], t, j) => j + 1 \in 1..y
      BY DEF Fits
    <3>4. StarsFrom(p, i) = StarsFrom(p, i + 1)
      BY <2>1, <2>6
    <3>5. Covers(p, t, i, j) <=> Fits(p[i], t, j) /\ Covers(p, t, i + 1, j + 1)
      BY <2>2, <3>2, <3>3
    <3>6. Fits(p[i], t, j) =>
            /\ G(i + 1, j + 1, depth) => Covers(p, t, i + 1, j + 1)
            /\ depth + StarsFrom(p, i + 1) <= MaxGlobDepth /\ Covers(p, t, i + 1, j + 1)
                 => G(i + 1, j + 1, depth)
      BY <3>3, <1>2
    <3> QED BY <3>1, <3>4, <3>5, <3>6
  <2> QED BY <2>4, <2>5, <2>6
<1>3. Nat \subseteq Good
  <2> HIDE DEF Fine
  <2>1. 0 \in Good
    BY <1>1
  <2>2. ASSUME NEW m \in Nat, m \in Good PROVE m + 1 \in Good
    <3> SUFFICES ASSUME m + 1 < z PROVE Fine(z - (m + 1))
      OBVIOUS
    <3>1. Fine(z - m)
      BY <2>2
    <3>2. z - (m + 1) \in 1..Len(p) /\ z - (m + 1) + 1 = z - m
      OBVIOUS
    <3> HIDE DEF z
    <3> QED BY <3>1, <3>2, <1>2
  <2> HIDE DEF Good
  <2> QED BY <2>1, <2>2, NumbersAreReached
<1>4. ASSUME NEW i \in 1..z PROVE Fine(i)
  <2> HIDE DEF Fine
  <2>1. z - i \in Nat /\ z - i < z /\ z - (z - i) = i
    OBVIOUS
  <2>2. z - i \in Good
    <3> HIDE DEF Good
    <3> QED BY <1>3, <2>1
  <2>3. z - i < z => Fine(z - (z - i))
    BY <2>2
  <2> HIDE DEF z
  <2> QED BY <2>1, <2>3
<1> QED BY <1>4 DEF G

(* kv_keys lists a key only if it matches the pattern, and every key that does as
   long as the pattern has at most MaxGlobDepth stars: for every alphabet, pattern,
   key and depth. *)
THEOREM KeysMatch == GlobInit => GlobMatchIsMatching
<1> SUFFICES ASSUME GlobInit PROVE GlobMatchIsMatching
  OBVIOUS
<1> DEFINE p == globPattern
           t == globText
<1>1. Len(p) \in Nat /\ Len(t) \in Nat
  <2>1. PICK m \in 0..MaxPattern : p \in [1..m -> Letter \cup {Star, AnyOne}]
    BY DEF GlobInit, Strings
  <2>2. PICK n \in 0..MaxText : t \in [1..n -> Letter]
    BY DEF GlobInit, Strings
  <2>3. m \in Nat /\ n \in Nat
    OBVIOUS
  <2>4. p \in Seq(Letter \cup {Star, AnyOne}) /\ t \in Seq(Letter)
    BY <2>1, <2>2, <2>3
  <2> QED BY <2>4
<1>2. Matches(p, t) <=> Covers(p, t, 1, 1)
  <2>1. 1 \in 1..(Len(t) + 1)
    BY <1>1
  <2> QED BY <2>1 DEF Matches, Covers, Covered
<1>3. Stars(p) = StarsFrom(p, 1)
  BY DEF Stars, StarsFrom
<1>4. /\ GlobMatch(p, t) => Covers(p, t, 1, 1)
      /\ 0 + StarsFrom(p, 1) <= MaxGlobDepth /\ Covers(p, t, 1, 1) => GlobMatch(p, t)
  <2>1. 1 \in 1..(Len(p) + 1) /\ 1 \in 1..(Len(t) + 1) /\ 0 \in Nat
    BY <1>1
  <2> QED BY <1>1, <2>1, MatcherCovers DEF GlobMatch
<1>5. StarsFrom(p, 1) \in Nat
  <2>1. IsFiniteSet({k \in 1..Len(p) : p[k] = Star})
    <3>1. IsFiniteSet(1..Len(p))
      BY <1>1, FS_Interval
    <3> QED BY <3>1, FS_Subset
  <2> QED BY <2>1, FS_CardinalityType DEF StarsFrom
<1>6. 0 + StarsFrom(p, 1) = StarsFrom(p, 1)
  BY <1>5
<1> QED BY <1>2, <1>3, <1>4, <1>6 DEF GlobMatchIsMatching
=============================================================================

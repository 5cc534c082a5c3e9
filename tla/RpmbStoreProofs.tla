-------------------------- MODULE RpmbStoreProofs --------------------------
(***************************************************************************)
(* Proofs about RpmbStore, for every set of keys, payloads, buffer sizes,  *)
(* cache size and number of faults.  About the storage: the type           *)
(* invariant, AckDurable (what was acknowledged stays stored) and          *)
(* BlockSurvives (a block that was backed up is never lost).  About the    *)
(* RAM caches: no key has two slots (UniqueSlots), the caches hold the     *)
(* acknowledged value of a key or nothing (CacheCoherent), FROM_RAM serves *)
(* the key asked for (RamServesOwnKey), and a successful WRITE is in RAM   *)
(* (ReadYourWrites).                                                       *)
(***************************************************************************)
EXTENDS RpmbStore, WellFoundedInduction, TLAPS

(***************************************************************************)
(* The strengthening: what storage holds at each point of a WRITE.  The    *)
(* acknowledgement of the key being written has been withdrawn; once the   *)
(* checks are passed the backup, then the main object, hold the new data.  *)
(***************************************************************************)
InFlight ==
  /\ Writing => /\ acked[req.id] = Nothing
                /\ \A j \in KeyIds : BackupOf(j) = req.id => shielded[j] = Nothing
  /\ at = "created" => shielded[req.id] = Nothing
  /\ at = "backed" => /\ IsBatch(req.id) /\ IndexFits(req.id)
                      /\ store[BackupOf(req.id)] = req.obj
                      /\ shielded[req.id] = req.obj
  /\ at = "stored" => /\ IndexFits(req.id)
                      /\ store[req.id] = req.obj
                      /\ shielded[req.id] = IF IsBatch(req.id) THEN req.obj ELSE Nothing

\* Only blocks the code accepts are ever backed up.
OnlyBlocksShielded ==
  \A k \in KeyIds : shielded[k] # Nothing => IsBatch(k) /\ IndexFits(k)

IndInv == TypeOK /\ InFlight /\ OnlyBlocksShielded /\ AckDurable /\ BlockSurvives

-----------------------------------------------------------------------------
(* Types of the values the actions build *)

LEMMA EmptyObjectType ==
  ASSUME NEW k \in StoreIds
  PROVE  EmptyObject(k) \in Object
  BY ConstantsAssumption DEF EmptyObject, Object, StoreIds, BackupIds, BackupOf

LEMMA SealType ==
  ASSUME NEW k \in KeyIds, NEW p \in Payloads
  PROVE  Seal(k, p) \in Object
  BY ConstantsAssumption DEF Seal, Object, Payload

LEMMA StoreIdsNat == StoreIds \subseteq Nat /\ KeyIds \subseteq StoreIds
                     /\ (\A k \in KeyIds : BackupOf(k) \in StoreIds)
  <1>1. \A k \in KeyIds : BackupOf(k) \in Nat
    BY ConstantsAssumption DEF BackupOf
  <1> QED BY <1>1, ConstantsAssumption DEF StoreIds, BackupIds

LEMMA ZeroTypes ==
  ASSUME kukCache' = ZeroKuk, eccCache' = ZeroEcc, batchCache' = ZeroBatch,
         normalCache' = ZeroNormal, commonCache' = ZeroCommon
  PROVE  CacheTypes'
  BY DEF CacheTypes, ZeroKuk, ZeroEcc, ZeroBatch, ZeroNormal, ZeroCommon,
         FreeEcc, FreeBlock, FreeSlot, Maybe, BatchEntry

LEMMA SyncCacheType ==
  ASSUME CacheTypes, NEW k \in KeyIds, NEW d \in Object, SyncCache(k, d)
  PROVE  CacheTypes'
  <1>1. d \in Maybe /\ d.used \in SUBSET Items /\ k \in Nat
    BY ConstantsAssumption DEF Maybe, Object
  <1>2. kukCache' \in [Kuks -> Maybe]
    BY <1>1 DEF CacheTypes, SyncCache, SyncKuk
  <1>3. eccCache' \in [Eccs -> [obj : Maybe, bad : BOOLEAN]]
    BY <1>1 DEF CacheTypes, SyncCache
  <1>4. batchCache' \in [Blocks -> BatchEntry]
    <2>1. [obj |-> d, used |-> d.used, bad |-> {}] \in BatchEntry
      BY <1>1, ConstantsAssumption DEF BatchEntry
    <2> QED BY <2>1 DEF CacheTypes, SyncCache
  <1>5. normalCache' \in [Normals -> Maybe]
    BY <1>1 DEF CacheTypes, SyncCache
  <1>6. commonCache' \in [Slots -> [valid : BOOLEAN, id : Nat, obj : Maybe, bad : BOOLEAN]]
    <2>1. StampedSlot(k, d) \in [valid : BOOLEAN, id : Nat, obj : Maybe, bad : BOOLEAN]
      BY <1>1 DEF StampedSlot
    <2> QED BY <2>1 DEF CacheTypes, SyncCache
  <1> QED BY <1>2, <1>3, <1>4, <1>5, <1>6 DEF CacheTypes

(***************************************************************************)
(* Slots of the common cache                                               *)
(***************************************************************************)
LEMMA FirstIn ==
  ASSUME NEW S \in SUBSET Slots, S # {}
  PROVE  First(S) \in S
  <1> DEFINE R == OpToRel(<, Nat)
  <1>1. S \subseteq Nat
    BY ConstantsAssumption DEF Slots
  <1>2. \E s \in S : \A t \in S : ~(<<t, s>> \in R)
    BY <1>1, NatLessThanWellFounded, WFMin
  <1>3. \A s, t \in Nat : t < s => <<t, s>> \in R
    BY Zenon DEF OpToRel
  <1> HIDE DEF R
  <1>4. \E s \in S : \A t \in S : s <= t
    <2>1. PICK s \in S : \A t \in S : ~(<<t, s>> \in R)
      BY <1>2
    <2>2. ASSUME NEW t \in S PROVE s <= t
      <3>1. s \in Nat /\ t \in Nat /\ ~(t < s)
        BY <1>1, <1>3, <2>1
      <3> QED BY <3>1
    <2> QED BY <2>1, <2>2
  <1> QED BY <1>4 DEF First

LEMMA SlotForIsHit ==
  ASSUME NEW k, Hits(k) # {}
  PROVE  SlotFor(k) \in Hits(k) /\ SlotFor(k) \in Slots
  BY FirstIn DEF SlotFor, Hits

LEMMA SlotForIsFree ==
  ASSUME NEW k, Hits(k) = {}, SlotFor(k) # 0
  PROVE  SlotFor(k) \in Free /\ SlotFor(k) \in Slots
  BY FirstIn DEF SlotFor, Free

LEMMA FaultType ==
  ASSUME faults \in 0..MaxFaults, NEW n \in Nat, Fault(n)
  PROVE  faults' \in 0..MaxFaults
  BY ConstantsAssumption DEF Fault

-----------------------------------------------------------------------------
(* Type preservation, action by action *)

LEMMA WriteStepType ==
  ASSUME TypeOK, Write
  PROVE  TypeOK'
  <1> USE DEF TypeOK, Writing
  <1>1. CASE WriteRejected
    <2>1. faults' \in 0..MaxFaults
      BY <1>1, ConstantsAssumption DEF WriteRejected, CloseAndDelete, NoFault, Fault
    <2>2. store' \in [StoreIds -> Maybe] /\ held' \subseteq StoreIds
      BY <1>1 DEF WriteRejected, CloseAndDelete, Maybe
    <2>3. resp' \in [op : Ops, id : Nat, res : Results, obj : Maybe, bad : SUBSET Items]
      BY <1>1 DEF WriteRejected, Respond, Ops, Results, Maybe
    <2>4. UNCHANGED <<caches, acked, shielded>> /\ at' = "idle" /\ req' = NoReq
      BY <1>1 DEF WriteRejected
    <2>5. NoReq \in [id : Nat, obj : Maybe]
      BY DEF NoReq, Maybe
    <2> QED BY <2>1, <2>2, <2>3, <2>4, <2>5 DEF CacheTypes, caches
  <1>2. CASE WriteBackup
    BY <1>2, StoreIdsNat DEF WriteBackup, CacheTypes, caches, Maybe
  <1>3. CASE WriteBackupFails
    <2>1. EmptyObject(BackupOf(req.id)) \in Object
      BY <1>3, EmptyObjectType, StoreIdsNat DEF WriteBackupFails
    <2>2. faults' \in 0..MaxFaults
      BY <1>3, ConstantsAssumption DEF WriteBackupFails, NoFault, Fault
    <2>. DEFINE b == BackupOf(req.id)
    <2>7. b \in StoreIds
      BY <1>3, StoreIdsNat DEF WriteBackupFails
    <2>8. EmptyObject(b) \in Maybe
      BY <2>1 DEF Maybe
    <2>9. \/ UNCHANGED <<store, held>>
          \/ store' = [store EXCEPT ![b] = EmptyObject(b)] /\ held' = held \cup {b}
      BY <1>3 DEF WriteBackupFails
    <2>. HIDE DEF b
    <2>3. store' \in [StoreIds -> Maybe] /\ held' \subseteq StoreIds
      BY <2>7, <2>8, <2>9
    <2>4. resp' \in [op : Ops, id : Nat, res : Results, obj : Maybe, bad : SUBSET Items]
      BY <1>3 DEF WriteBackupFails, Respond, Ops, Results, Maybe
    <2>5. UNCHANGED <<caches, acked, shielded>> /\ at' = "idle" /\ req' = NoReq
      BY <1>3 DEF WriteBackupFails
    <2>6. NoReq \in [id : Nat, obj : Maybe]
      BY DEF NoReq, Maybe
    <2> QED BY <2>2, <2>3, <2>4, <2>5, <2>6 DEF CacheTypes, caches
  <1>4. CASE WriteMain
    BY <1>4, StoreIdsNat DEF WriteMain, ReadyForMain, CacheTypes, caches, Maybe
  <1>5. CASE WriteMainFails
    <2>1. faults' \in 0..MaxFaults
      BY <1>5, ConstantsAssumption DEF WriteMainFails, CloseAndDelete, Fault
    <2>2. store' \in [StoreIds -> Maybe] /\ held' \subseteq StoreIds
      BY <1>5 DEF WriteMainFails, CloseAndDelete, Maybe
    <2>3. resp' \in [op : Ops, id : Nat, res : Results, obj : Maybe, bad : SUBSET Items]
      BY <1>5 DEF WriteMainFails, Respond, Ops, Results, Maybe
    <2>4. UNCHANGED <<caches, acked, shielded>> /\ at' = "idle" /\ req' = NoReq
      BY <1>5 DEF WriteMainFails
    <2>5. NoReq \in [id : Nat, obj : Maybe]
      BY DEF NoReq, Maybe
    <2> QED BY <2>1, <2>2, <2>3, <2>4, <2>5 DEF CacheTypes, caches
  <1>6. CASE WriteFinish
    <2>1. req.id \in KeyIds /\ req.obj \in Object
      BY <1>6 DEF WriteFinish
    <2>2. CacheTypes'
      BY <1>6, <2>1, SyncCacheType DEF WriteFinish
    <2>3. faults' \in 0..MaxFaults
      BY <1>6, ConstantsAssumption DEF WriteFinish, NoFault, Fault
    <2>4. store' \in [StoreIds -> Maybe] /\ held' \subseteq StoreIds
      BY <1>6 DEF WriteFinish, Closed, Maybe
    <2>5. resp' \in [op : Ops, id : Nat, res : Results, obj : Maybe, bad : SUBSET Items]
      BY <1>6, <2>1 DEF WriteFinish, Respond, Ops, Results, Maybe
    <2>6. acked' \in [KeyIds -> Maybe]
      BY <1>6, <2>1 DEF WriteFinish, Maybe
    <2>7. shielded' = shielded /\ at' = "idle" /\ req' = NoReq
      BY <1>6 DEF WriteFinish
    <2>8. NoReq \in [id : Nat, obj : Maybe]
      BY DEF NoReq, Maybe
    <2> QED BY <2>2, <2>3, <2>4, <2>5, <2>6, <2>7, <2>8
  <1> QED BY <1>1, <1>2, <1>3, <1>4, <1>5, <1>6 DEF Write

LEMMA EnvironmentStepType ==
  ASSUME TypeOK, Environment
  PROVE  TypeOK'
  <1> USE DEF TypeOK, Writing
  <1>1. NoReq \in [id : Nat, obj : Maybe]
        /\ NoResp \in [op : Ops, id : Nat, res : Results, obj : Maybe, bad : SUBSET Items]
    BY DEF NoReq, NoResp, Maybe, Ops, Results
  <1>2. CASE OpenSession
    BY <1>2 DEF OpenSession, CacheTypes, caches
  <1>3. CASE CloseSession
    <2>1. CacheTypes'
      BY <1>3, ZeroTypes DEF CloseSession, InstanceDies
    <2> QED BY <1>1, <1>3, <2>1 DEF CloseSession, InstanceDies
  <1>4. CASE PowerLoss
    <2>1. CacheTypes'
      BY <1>4, ZeroTypes DEF PowerLoss, InstanceDies
    <2> QED BY <1>1, <1>4, <2>1 DEF PowerLoss, InstanceDies
  <1>5. CASE RamUpset
    <2>3. kukCache' = kukCache /\ normalCache' = normalCache
      BY <1>5 DEF RamUpset
    <2>4. eccCache' \in [Eccs -> [obj : Maybe, bad : BOOLEAN]]
      <3>1. CASE eccCache' = eccCache
        BY <3>1 DEF CacheTypes
      <3>2. CASE \E k \in Eccs : eccCache' = [eccCache EXCEPT ![k].bad = TRUE]
        <4>1. PICK k \in Eccs : eccCache' = [eccCache EXCEPT ![k].bad = TRUE]
          BY <3>2
        <4>2. [eccCache[k] EXCEPT !.bad = TRUE] \in [obj : Maybe, bad : BOOLEAN]
          BY DEF CacheTypes
        <4> QED BY <4>1, <4>2 DEF CacheTypes
      <3> QED BY <1>5, <3>1, <3>2 DEF RamUpset
    <2>5. batchCache' \in [Blocks -> BatchEntry]
      <3>1. CASE batchCache' = batchCache
        BY <3>1 DEF CacheTypes
      <3>2. CASE \E b \in Blocks : \E i \in batchCache[b].used :
                   batchCache' = [batchCache EXCEPT ![b].bad = @ \cup {i}]
        <4>0. PICK b \in Blocks : \E i \in batchCache[b].used :
                batchCache' = [batchCache EXCEPT ![b].bad = @ \cup {i}]
          BY <3>2
        <4>1. PICK i \in batchCache[b].used :
                batchCache' = [batchCache EXCEPT ![b].bad = @ \cup {i}]
          BY <4>0
        <4>2. batchCache[b] \in BatchEntry
          BY DEF CacheTypes
        <4>3. [batchCache[b] EXCEPT !.bad = @ \cup {i}] \in BatchEntry
          BY <4>2 DEF BatchEntry
        <4> QED BY <4>1, <4>3 DEF CacheTypes
      <3> QED BY <1>5, <3>1, <3>2 DEF RamUpset
    <2>6. commonCache' \in [Slots -> [valid : BOOLEAN, id : Nat, obj : Maybe, bad : BOOLEAN]]
      <3>1. CASE commonCache' = commonCache
        BY <3>1 DEF CacheTypes
      <3>2. CASE \E s \in Slots : commonCache' = [commonCache EXCEPT ![s].bad = TRUE]
        <4>1. PICK s \in Slots : commonCache' = [commonCache EXCEPT ![s].bad = TRUE]
          BY <3>2
        <4>2. [commonCache[s] EXCEPT !.bad = TRUE] \in [valid : BOOLEAN, id : Nat, obj : Maybe, bad : BOOLEAN]
          BY DEF CacheTypes
        <4> QED BY <4>1, <4>2 DEF CacheTypes
      <3> QED BY <1>5, <3>1, <3>2 DEF RamUpset
    <2>1. CacheTypes'
      BY <2>3, <2>4, <2>5, <2>6 DEF CacheTypes
    <2>2. faults' \in 0..MaxFaults
      BY <1>5, FaultType DEF RamUpset
    <2> QED BY <1>5, <2>1, <2>2 DEF RamUpset
  <1> QED BY <1>2, <1>3, <1>4, <1>5 DEF Environment

LEMMA DeliverType ==
  ASSUME CacheTypes, NEW k \in KeyIds, NEW d \in Object, Deliver(k, d)
  PROVE  /\ CacheTypes'
         /\ resp' \in [op : Ops, id : Nat, res : Results, obj : Maybe, bad : SUBSET Items]
  <1>1. k \in Nat /\ d \in Maybe /\ Nothing \in Maybe
    BY ConstantsAssumption DEF Maybe
  <1>2. CASE Acceptable(k, d)
    <2>1. SyncCache(k, d)
      BY <1>2 DEF Deliver
    <2>2. CacheTypes'
      BY <2>1, SyncCacheType
    <2>3. Respond("READ_TO_RAM", k, "SUCCESS", d)
      BY <1>2 DEF Deliver
    <2> QED BY <1>1, <2>2, <2>3 DEF Respond, Ops, Results
  <1>3. CASE ~Acceptable(k, d)
    <2>1. UNCHANGED caches /\ Respond("READ_TO_RAM", k, "CORRUPT_OBJECT", Nothing)
      BY <1>3 DEF Deliver
    <2> QED BY <1>1, <2>1 DEF Respond, Ops, Results, CacheTypes, caches
  <1> QED BY <1>2, <1>3

RespType == [op : Ops, id : Nat, res : Results, obj : Maybe, bad : SUBSET Items]

LEMMA RespondType ==
  ASSUME NEW op \in Ops, NEW k \in KeyIds, NEW res \in Results, NEW obj \in Maybe,
         Respond(op, k, res, obj)
  PROVE  resp' \in RespType
  BY ConstantsAssumption DEF Respond, RespType

LEMMA OpenFailsType ==
  ASSUME NEW op \in Ops, NEW k \in KeyIds, OpenFails(op, k)
  PROVE  resp' \in RespType
  BY ConstantsAssumption DEF OpenFails, Respond, RespType, Maybe, Results

LEMMA TryBackupType ==
  ASSUME TypeOK, NEW k \in KeyIds, Openable(k), TryBackup(k)
  PROVE  CacheTypes' /\ resp' \in RespType /\ faults' \in 0..MaxFaults
  <1> DEFINE b == BackupOf(k)
  <1>1. k \in StoreIds /\ b \in StoreIds
    BY StoreIdsNat
  <1>2. CacheTypes /\ store \in [StoreIds -> Maybe] /\ faults \in 0..MaxFaults
    BY DEF TypeOK
  <1>3. faults' \in 0..MaxFaults
    BY <1>2, ConstantsAssumption DEF TryBackup, Fault
  <1>4. CASE /\ UNCHANGED caches
             /\ \E r \in {"ITEM_NOT_FOUND", "ACCESS_CONFLICT", "STORAGE_ERROR", "SUCCESS"} :
                   Respond("READ_TO_RAM", k, r, Nothing)
    <2>1. CacheTypes'
      BY <1>2, <1>4 DEF CacheTypes, caches
    <2>2. resp' \in RespType
      BY <1>4, RespondType DEF Ops, Results, Maybe
    <2> QED BY <1>3, <2>1, <2>2
  <1>5. CASE Openable(b) /\ Deliver(k, [store[b] EXCEPT !.size = store[k].size])
    <2>1. store[b] \in Object /\ store[k] \in Object
      BY <1>1, <1>2, <1>5 DEF Openable, Maybe
    <2>2. [store[b] EXCEPT !.size = store[k].size] \in Object
      BY <2>1 DEF Object
    <2> QED BY <1>2, <1>3, <1>5, <2>2, DeliverType DEF RespType
  <1> QED BY <1>4, <1>5 DEF TryBackup

LEMMA ReadToRamType ==
  ASSUME TypeOK, NEW k \in KeyIds, NEW buf \in BufSizes, ReadToRam(k, buf)
  PROVE  TypeOK'
  <1>1. /\ CacheTypes /\ k \in StoreIds
        /\ store \in [StoreIds -> Maybe] /\ faults \in 0..MaxFaults
    BY StoreIdsNat DEF TypeOK
  <1>2. at = "idle" /\ UNCHANGED <<store, acked, shielded>>
    BY DEF ReadToRam
  <1>3. CASE /\ UNCHANGED <<at, held, req>>
             /\ CacheTypes' /\ resp' \in RespType /\ faults' \in 0..MaxFaults
    BY <1>2, <1>3 DEF TypeOK, Writing, RespType
  <1>4. CASE OpenFails("READ_TO_RAM", k) /\ NoFault /\ UNCHANGED <<caches, at, held, req>>
    <2>1. CacheTypes'
      BY <1>1, <1>4 DEF CacheTypes, caches
    <2>2. resp' \in RespType
      BY <1>4, OpenFailsType DEF Ops
    <2> QED BY <1>1, <1>3, <1>4, <2>1, <2>2 DEF NoFault
  <1>5. CASE /\ Openable(k) /\ NoFault /\ UNCHANGED <<at, held, req>>
             /\ \/ UNCHANGED caches
                   /\ \E r \in {"CORRUPT_OBJECT", "SHORT_BUFFER"} :
                         Respond("READ_TO_RAM", k, r, Nothing)
                \/ Deliver(k, store[k])
    <2>1. CASE UNCHANGED caches /\ \E r \in {"CORRUPT_OBJECT", "SHORT_BUFFER"} :
                                     Respond("READ_TO_RAM", k, r, Nothing)
      <3>1. CacheTypes'
        BY <1>1, <2>1 DEF CacheTypes, caches
      <3>2. resp' \in RespType
        BY <2>1, RespondType DEF Ops, Results, Maybe
      <3> QED BY <1>1, <1>3, <1>5, <3>1, <3>2 DEF NoFault
    <2>2. CASE Deliver(k, store[k])
      <3>1. store[k] \in Object
        BY <1>1, <1>5 DEF Openable, Maybe
      <3>2. CacheTypes' /\ resp' \in RespType
        BY <1>1, <2>2, <3>1, DeliverType DEF RespType
      <3> QED BY <1>1, <1>3, <1>5, <3>2 DEF NoFault
    <2> QED BY <1>5, <2>1, <2>2
  <1>6. CASE Fault(1) /\ InstanceDies
    <2>1. CacheTypes'
      BY <1>6, ZeroTypes DEF InstanceDies
    <2>2. faults' \in 0..MaxFaults
      BY <1>1, <1>6, FaultType
    <2>3. NoReq \in [id : Nat, obj : Maybe] /\ NoResp \in RespType
      BY DEF NoReq, NoResp, RespType, Maybe, Ops, Results
    <2> QED BY <1>2, <1>6, <2>1, <2>2, <2>3 DEF TypeOK, InstanceDies, Writing, RespType
  <1>7. CASE Openable(k) /\ TryBackup(k) /\ UNCHANGED <<at, held, req>>
    BY <1>3, <1>7, TryBackupType
  <1> QED BY <1>4, <1>5, <1>6, <1>7 DEF ReadToRam

LEMMA FromRamType ==
  ASSUME TypeOK, NEW k \in KeyIds, NEW buf \in BufSizes, FromRam(k, buf)
  PROVE  TypeOK'
  <1>1. CacheTypes /\ at = "idle" /\ k \in Nat
        /\ UNCHANGED <<store, held, at, req, faults, acked, shielded>>
    BY ConstantsAssumption DEF TypeOK, FromRam
  <1>2. SUFFICES CacheTypes' /\ resp' \in RespType
    BY <1>1 DEF TypeOK, Writing, RespType
  <1>3. ASSUME NEW n \in Nat, NEW obj \in Maybe, NEW bad \in SUBSET Items,
               Serve(k, buf, n, obj, bad)
        PROVE  resp' \in RespType
    BY <1>1, <1>3 DEF Serve, Respond, RespType, Ops, Results, Maybe
  <1>4. ASSUME NEW r \in Results, Respond("FROM_RAM", k, r, Nothing)
        PROVE  resp' \in RespType
    BY <1>4, RespondType DEF Ops, Maybe
  <1>5. {"BAD_STATE", "BAD_PARAMETERS", "CORRUPT_OBJECT", "ITEM_NOT_FOUND"} \subseteq Results
    BY DEF Results
  <1>6. CASE FromRamKuk(k, buf)
    <2>1. CacheTypes'
      BY <1>1, <1>6 DEF FromRamKuk, CacheTypes, caches
    <2>2. k \in Kuks /\ kukCache[k] \in Maybe /\ KukSize \in Nat
      BY <1>1, <1>6 DEF FromRamKuk, IsKuk, Kuks, CacheTypes, KukSize
    <2> QED BY <1>3, <1>4, <1>5, <1>6, <2>1, <2>2 DEF FromRamKuk
  <1>7. CASE FromRamEcc(k, buf)
    <2>1. k \in Eccs /\ eccCache[k] \in [obj : Maybe, bad : BOOLEAN]
      BY <1>1, <1>7 DEF FromRamEcc, IsEcc, Eccs, CacheTypes
    <2>2. FreeEcc \in [obj : Maybe, bad : BOOLEAN]
      BY DEF FreeEcc, Maybe
    <2>3. CacheTypes'
      BY <1>1, <1>7, <2>2 DEF FromRamEcc, CacheTypes
    <2>4. eccCache[k].obj \in Maybe /\ EccSize \in Nat /\ {} \in SUBSET Items
      BY <2>1 DEF EccSize
    <2> QED BY <1>3, <1>4, <1>5, <1>7, <2>3, <2>4 DEF FromRamEcc
  <1>8. CASE FromRamBatch(k, buf)
    <2> DEFINE b == SapBlock(k)
    <2>1. b \in Blocks /\ batchCache[b] \in BatchEntry
      BY <1>1, <1>8 DEF FromRamBatch, Blocks, CacheTypes
    <2>2. ASSUME NEW i, batchCache' = [batchCache EXCEPT ![b].used = @ \ {i},
                                                        ![b].bad = @ \ {i}]
          PROVE  CacheTypes'
      <3>1. [batchCache[b] EXCEPT !.used = @ \ {i}, !.bad = @ \ {i}] \in BatchEntry
        BY <2>1 DEF BatchEntry
      <3>3. batchCache' = [batchCache EXCEPT ![b] = [batchCache[b] EXCEPT !.used = @ \ {i},
                                                                        !.bad = @ \ {i}]]
        BY <1>1, <2>1, <2>2 DEF CacheTypes
      <3>2. batchCache' \in [Blocks -> BatchEntry]
        BY <1>1, <2>1, <3>1, <3>3 DEF CacheTypes
      <3> QED BY <1>1, <1>8, <3>2 DEF FromRamBatch, CacheTypes
    <2>3. CacheTypes'
      <3>1. CASE batchCache' = batchCache
        BY <1>1, <1>8, <3>1 DEF FromRamBatch, CacheTypes
      <3> QED BY <1>8, <2>2, <3>1 DEF FromRamBatch
    <2>4. resp' \in RespType
      <3>1. CASE \E r \in Results : Respond("FROM_RAM", k, r, Nothing)
        BY <1>4, <3>1
      <3>2. CASE Serve(k, buf, BatchSize, [batchCache[b].obj EXCEPT !.used = batchCache[b].used],
                       batchCache[b].bad) /\ batchCache[b].obj \in Object
        <4>1. [batchCache[b].obj EXCEPT !.used = batchCache[b].used] \in Maybe
          BY <2>1, <3>2 DEF BatchEntry, Maybe, Object
        <4>2. BatchSize \in Nat /\ batchCache[b].bad \in SUBSET Items
          BY <2>1 DEF BatchEntry, BatchSize
        <4> QED BY <1>3, <3>2, <4>1, <4>2
      <3>3. SapItem(k) \in batchCache[b].used => batchCache[b].obj \in Object
        BY <2>1 DEF BatchEntry, Maybe
      <3> QED BY <1>5, <1>8, <3>1, <3>2, <3>3 DEF FromRamBatch
    <2> QED BY <2>3, <2>4
  <1>9. CASE FromRamNormal(k, buf)
    <2>1. CacheTypes'
      BY <1>1, <1>9 DEF FromRamNormal, CacheTypes, caches
    <2>2. IndexFits(k) => normalCache[NormalIndex(k)] \in Maybe
      BY <1>1, <1>9 DEF FromRamNormal, Normals, CacheTypes
    <2>3. NormalBlockSize \in Nat /\ {} \in SUBSET Items
      BY DEF NormalBlockSize
    <2> QED BY <1>3, <1>4, <1>5, <1>9, <2>1, <2>2, <2>3 DEF FromRamNormal
  <1>10. CASE FromRamCommon(k, buf)
    <2> DEFINE Slot == [valid : BOOLEAN, id : Nat, obj : Maybe, bad : BOOLEAN]
               s == SlotFor(k)
    <2>1. FreeSlot \in Slot
      BY DEF FreeSlot, Maybe
    <2>2. CacheTypes'
      BY <1>1, <1>10, <2>1 DEF FromRamCommon, CacheTypes
    <2>3. Hits(k) # {} => s \in Slots
      BY <1>1, SlotForIsHit
    <2>4. Hits(k) # {} => commonCache[s].obj \in Maybe
      BY <1>1, <2>3 DEF CacheTypes
    <2>5. CommonSize \in Nat /\ {} \in SUBSET Items
      BY DEF CommonSize
    <2> QED BY <1>3, <1>4, <1>5, <1>10, <2>2, <2>4, <2>5 DEF FromRamCommon
  <1> QED BY <1>6, <1>7, <1>8, <1>9, <1>10 DEF FromRam

LEMMA CommandStepType ==
  ASSUME TypeOK, Command
  PROVE  TypeOK'
  <1>1. PICK k \in KeyIds :
          \/ \E p \in Payloads : WriteRefused(k, p) \/ WriteCreate(k, p)
          \/ Delete(k)
          \/ \E buf \in BufSizes : ReadOnly(k, buf) \/ ReadToRam(k, buf) \/ FromRam(k, buf)
    BY DEF Command
  <1>2. k \in StoreIds /\ k \in Nat /\ Nothing \in Maybe
    BY StoreIdsNat DEF Maybe
  <1>3. CASE \E p \in Payloads : WriteRefused(k, p)
    <2>1. PICK p \in Payloads : WriteRefused(k, p)
      BY <1>3
    <2>2. resp' \in RespType
      BY <1>2, <2>1, RespondType DEF WriteRefused, Ops, Results
    <2>3. faults' \in 0..MaxFaults
      BY <2>1, ConstantsAssumption DEF WriteRefused, NoFault, Fault, TypeOK
    <2> QED BY <2>1, <2>2, <2>3
            DEF WriteRefused, TypeOK, Writing, CacheTypes, caches, RespType
  <1>4. CASE \E p \in Payloads : WriteCreate(k, p)
    <2>1. PICK p \in Payloads : WriteCreate(k, p)
      BY <1>4
    <2>2. EmptyObject(k) \in Maybe /\ Seal(k, p) \in Object /\ Seal(k, p) \in Maybe
      BY <1>2, EmptyObjectType, SealType DEF Maybe
    <2>3. acked' \in [KeyIds -> Maybe] /\ shielded' \in [KeyIds -> Maybe]
      BY <1>2, <2>1 DEF WriteCreate, Forget, TypeOK
    <2>4. NoResp \in RespType
      BY DEF NoResp, RespType, Maybe, Ops, Results
    <2>5. store' \in [StoreIds -> Maybe] /\ held' \subseteq StoreIds /\ k \in held'
      BY <1>2, <2>1, <2>2 DEF WriteCreate, TypeOK
    <2>6. req' \in [id : Nat, obj : Maybe] /\ req'.id = k /\ req'.obj \in Object
      BY <1>2, <2>1, <2>2 DEF WriteCreate
    <2> QED BY <2>1, <2>3, <2>4, <2>5, <2>6
            DEF WriteCreate, TypeOK, Writing, CacheTypes, caches, RespType
  <1>5. CASE Delete(k)
    <2>1. UNCHANGED <<at, req, caches>> /\ at = "idle"
      BY <1>5 DEF Delete
    <2>2. CASE OpenFails("DELETE", k) /\ UNCHANGED <<store, held, faults, acked, shielded>>
      <3>1. resp' \in RespType
        BY <2>2, OpenFailsType DEF Ops
      <3> QED BY <2>1, <2>2, <3>1 DEF TypeOK, Writing, CacheTypes, caches, RespType
    <2>3. CASE CloseAndDelete(k, 0) /\ Forget(k) /\ Respond("DELETE", k, "SUCCESS", Nothing)
      <3>1. resp' \in RespType
        BY <1>2, <2>3, RespondType DEF Ops, Results
      <3>2. acked' \in [KeyIds -> Maybe] /\ shielded' \in [KeyIds -> Maybe]
        BY <1>2, <2>3 DEF Forget, TypeOK
      <3>3. /\ store' \in [StoreIds -> Maybe] /\ held' \subseteq StoreIds
            /\ faults' \in 0..MaxFaults
        BY <1>2, <2>3, ConstantsAssumption DEF CloseAndDelete, Fault, TypeOK
      <3> QED BY <2>1, <3>1, <3>2, <3>3 DEF TypeOK, Writing, CacheTypes, caches, RespType
    <2> QED BY <1>5, <2>2, <2>3 DEF Delete
  <1>6. CASE \E buf \in BufSizes : ReadOnly(k, buf)
    <2>1. PICK buf \in BufSizes : ReadOnly(k, buf)
      BY <1>6
    <2>2. store[k] \in Maybe
      BY <1>2 DEF TypeOK
    <2>3. resp' \in RespType
      BY <1>2, <2>1, <2>2, OpenFailsType, RespondType DEF ReadOnly, Ops, Results
    <2>4. faults' \in 0..MaxFaults
      BY <2>1, ConstantsAssumption DEF ReadOnly, NoFault, Fault, TypeOK
    <2> QED BY <2>1, <2>3, <2>4
            DEF ReadOnly, TypeOK, Writing, CacheTypes, caches, RespType
  <1>7. CASE \E buf \in BufSizes : ReadToRam(k, buf) \/ FromRam(k, buf)
    BY <1>7, ReadToRamType, FromRamType
  <1> QED BY <1>1, <1>3, <1>4, <1>5, <1>6, <1>7

LEMMA InitType == Init => TypeOK
  <1> SUFFICES ASSUME Init PROVE TypeOK
    OBVIOUS
  <1>1. CacheTypes
    BY DEF Init, CacheTypes, ZeroKuk, ZeroEcc, ZeroBatch, ZeroNormal, ZeroCommon,
           FreeEcc, FreeBlock, FreeSlot, Maybe, BatchEntry
  <1>2. resp \in [op : Ops, id : Nat, res : Results, obj : Maybe, bad : SUBSET Items]
    BY DEF Init, NoResp, Maybe, Ops, Results
  <1>3. faults \in 0..MaxFaults
    BY ConstantsAssumption DEF Init
  <1> QED BY <1>1, <1>2, <1>3 DEF Init, TypeOK, Writing, NoReq, Maybe

LEMMA StepType == TypeOK /\ [Next]_vars => TypeOK'
  <1> SUFFICES ASSUME TypeOK, [Next]_vars PROVE TypeOK'
    OBVIOUS
  <1>1. CASE Next
    BY <1>1, CommandStepType, WriteStepType, EnvironmentStepType DEF Next
  <1>2. CASE UNCHANGED vars
    BY <1>2 DEF vars, caches, TypeOK, CacheTypes, Writing
  <1> QED BY <1>1, <1>2

\* Type correctness of the TA for every instance: whatever commands, faults
\* and restarts come, a WRITE in progress holds its key's handle.
THEOREM TypeCorrect == Spec => []TypeOK
  <1>1. Init => TypeOK
    BY InitType
  <1>2. TypeOK /\ [Next]_vars => TypeOK'
    BY StepType
  <1> QED BY <1>1, <1>2, PTL DEF Spec

-----------------------------------------------------------------------------
(* The storage invariant *)

StorageInv == InFlight /\ OnlyBlocksShielded /\ AckDurable /\ BlockSurvives

\* A backup is never the object it backs up, two keys never share one, and the
\* backup of an accepted block is not itself an accepted block.
LEMMA BackupFacts ==
  ASSUME NEW k \in KeyIds
  PROVE  /\ BackupOf(k) # k
         /\ \A j \in KeyIds : BackupOf(j) = BackupOf(k) => j = k
         /\ IsBatch(k) /\ IndexFits(k) /\ BackupOf(k) \in KeyIds
              => ~(IsBatch(BackupOf(k)) /\ IndexFits(BackupOf(k)))
  BY ConstantsAssumption
     DEF BackupOf, IsBatch, IndexFits, BlockOf, BatchMeter, NormalMinId, MaxBatchBlocks

\* Steps that leave storage and history alone, and open no handle.
LEMMA QuietStep ==
  ASSUME IndInv, UNCHANGED <<store, acked, shielded>>, held' \subseteq held,
         ~Writing' \/ UNCHANGED <<at, req>>
  PROVE  StorageInv'
  BY DEF IndInv, StorageInv, InFlight, OnlyBlocksShielded, AckDurable, BlockSurvives, Writing

\* What Forget leaves: nothing is promised about k or about a block backed up
\* in k, everything else is as before.
LEMMA ForgetFacts ==
  ASSUME TypeOK, NEW k \in KeyIds, Forget(k)
  PROVE  /\ acked'[k] = Nothing /\ shielded'[k] = Nothing
         /\ \A j \in KeyIds : j # k => acked'[j] = acked[j]
         /\ \A j \in KeyIds : BackupOf(j) = k => shielded'[j] = Nothing
         /\ \A j \in KeyIds : j # k /\ BackupOf(j) # k => shielded'[j] = shielded[j]
  BY DEF TypeOK, Forget

\* Rewriting or deleting the object of k after Forget(k).
LEMMA TouchStep ==
  ASSUME IndInv, NEW k \in KeyIds, NEW o, Forget(k),
         store' = [store EXCEPT ![k] = o] \/ store' = store,
         held' \subseteq held \cup {k}
  PROVE  OnlyBlocksShielded' /\ AckDurable' /\ BlockSurvives'
  <1> USE DEF IndInv
  <1>1. \A x \in StoreIds : x # k => store'[x] = store[x]
    BY DEF TypeOK
  <1>2. OnlyBlocksShielded'
    BY ForgetFacts DEF OnlyBlocksShielded
  <1>3. AckDurable'
    BY <1>1, ForgetFacts, StoreIdsNat DEF AckDurable
  <1>4. BlockSurvives'
    <2> SUFFICES ASSUME NEW j \in KeyIds, shielded'[j] # Nothing
                 PROVE  shielded'[j] \in {store'[j], store'[BackupOf(j)]}
      BY DEF BlockSurvives
    <2>1. j # k /\ BackupOf(j) # k /\ shielded'[j] = shielded[j]
      BY ForgetFacts
    <2>2. j \in StoreIds /\ BackupOf(j) \in StoreIds
      BY StoreIdsNat
    <2> QED BY <1>1, <2>1, <2>2 DEF BlockSurvives
  <1> QED BY <1>2, <1>3, <1>4

LEMMA CommandKeepsStorage ==
  ASSUME IndInv, Command
  PROVE  StorageInv'
  <1>1. PICK k \in KeyIds :
          \/ \E p \in Payloads : WriteRefused(k, p) \/ WriteCreate(k, p)
          \/ Delete(k)
          \/ \E buf \in BufSizes : ReadOnly(k, buf) \/ ReadToRam(k, buf) \/ FromRam(k, buf)
    BY DEF Command
  <1>2. CASE \E p \in Payloads : WriteRefused(k, p)
    BY <1>2, QuietStep DEF WriteRefused
  <1>3. CASE \E p \in Payloads : WriteCreate(k, p)
    <2>1. PICK p \in Payloads : WriteCreate(k, p)
      BY <1>3
    <2>2. OnlyBlocksShielded' /\ AckDurable' /\ BlockSurvives'
      BY <2>1, TouchStep DEF WriteCreate
    <2>3. at' = "created" /\ req'.id = k
      BY <2>1 DEF WriteCreate
    <2>4. InFlight'
      BY <2>1, <2>3, ForgetFacts DEF WriteCreate, InFlight, Writing, IndInv
    <2> QED BY <2>2, <2>4 DEF StorageInv
  <1>4. CASE Delete(k)
    <2>1. at' = at /\ at = "idle"
      BY <1>4 DEF Delete
    <2>2. CASE UNCHANGED <<store, held, acked, shielded>>
      BY <2>1, <2>2, QuietStep DEF Writing
    <2>3. CASE CloseAndDelete(k, 0) /\ Forget(k)
      <3>1. OnlyBlocksShielded' /\ AckDurable' /\ BlockSurvives'
        BY <2>3, TouchStep DEF CloseAndDelete
      <3>2. InFlight'
        BY <2>1 DEF InFlight, Writing
      <3> QED BY <3>1, <3>2 DEF StorageInv
    <2> QED BY <1>4, <2>2, <2>3 DEF Delete
  <1>5. CASE \E buf \in BufSizes : ReadOnly(k, buf) \/ FromRam(k, buf)
    BY <1>5, QuietStep DEF ReadOnly, FromRam
  <1>6. CASE \E buf \in BufSizes : ReadToRam(k, buf)
    <2>1. UNCHANGED <<store, acked, shielded>>
      BY <1>6 DEF ReadToRam
    <2>2. UNCHANGED <<at, held, req>> \/ (at' = "closed" /\ held' = {})
      BY <1>6 DEF ReadToRam, InstanceDies
    <2> QED BY <2>1, <2>2, QuietStep DEF Writing
  <1> QED BY <1>1, <1>2, <1>3, <1>4, <1>5, <1>6

LEMMA EnvironmentKeepsStorage ==
  ASSUME IndInv, Environment
  PROVE  StorageInv'
  <1>1. /\ UNCHANGED <<store, acked, shielded>>
        /\ held' \subseteq held
        /\ ~Writing' \/ UNCHANGED <<at, req>>
    BY DEF Environment, OpenSession, CloseSession, PowerLoss, RamUpset, InstanceDies, Writing
  <1> QED BY <1>1, QuietStep

\* Writing o to the object of the key in progress: only that key, and no block
\* backed up in it, can notice.
LEMMA MainTouched ==
  ASSUME IndInv, Writing, NEW o,
         store' = [store EXCEPT ![req.id] = o] \/ store' = store,
         UNCHANGED <<acked, shielded>>, held' \subseteq held,
         shielded[req.id] # Nothing =>
           shielded[req.id] \in {store'[req.id], store'[BackupOf(req.id)]}
  PROVE  OnlyBlocksShielded' /\ AckDurable' /\ BlockSurvives'
  <1> USE DEF IndInv
  <1>1. req.id \in KeyIds /\ acked[req.id] = Nothing
        /\ \A j \in KeyIds : BackupOf(j) = req.id => shielded[j] = Nothing
    BY DEF TypeOK, InFlight
  <1>2. \A x \in StoreIds : x # req.id => store'[x] = store[x]
    BY DEF TypeOK
  <1>3. OnlyBlocksShielded'
    BY DEF OnlyBlocksShielded
  <1>4. AckDurable'
    BY <1>1, <1>2, StoreIdsNat DEF AckDurable
  <1>5. BlockSurvives'
    <2> SUFFICES ASSUME NEW j \in KeyIds, shielded[j] # Nothing
                 PROVE  shielded[j] \in {store'[j], store'[BackupOf(j)]}
      BY DEF BlockSurvives
    <2>1. j \in StoreIds /\ BackupOf(j) \in StoreIds
      BY StoreIdsNat
    <2>2. CASE j = req.id
      BY <2>2
    <2>3. CASE j # req.id
      BY <1>1, <1>2, <2>1, <2>3 DEF BlockSurvives
    <2> QED BY <2>2, <2>3
  <1> QED BY <1>3, <1>4, <1>5

\* Writing o to the backup of the accepted block in progress.
LEMMA BackupTouched ==
  ASSUME IndInv, Writing, IsBatch(req.id), IndexFits(req.id), NEW o,
         store' = [store EXCEPT ![BackupOf(req.id)] = o] \/ store' = store,
         UNCHANGED acked, held' \subseteq held \cup {BackupOf(req.id)},
         \A j \in KeyIds : j # req.id => shielded'[j] = shielded[j],
         shielded'[req.id] # Nothing =>
           shielded'[req.id] \in {store'[req.id], store'[BackupOf(req.id)]}
  PROVE  OnlyBlocksShielded' /\ AckDurable' /\ BlockSurvives'
  <1> USE DEF IndInv
  <1> DEFINE b == BackupOf(req.id)
  <1>1. req.id \in KeyIds
    BY DEF TypeOK
  <1>2. \A x \in StoreIds : x # b => store'[x] = store[x]
    BY DEF TypeOK
  <1>3. OnlyBlocksShielded'
    BY <1>1 DEF OnlyBlocksShielded
  <1>4. AckDurable'
    <2> SUFFICES ASSUME NEW k \in KeyIds, acked[k] # Nothing, ~IsBackupId(k)
                 PROVE  store'[k] = acked[k] /\ k \notin held'
      BY DEF AckDurable
    <2>1. k # b
      BY <1>1 DEF IsBackupId
    <2> QED BY <1>2, <2>1, StoreIdsNat DEF AckDurable
  <1>5. BlockSurvives'
    <2> SUFFICES ASSUME NEW j \in KeyIds, shielded'[j] # Nothing
                 PROVE  shielded'[j] \in {store'[j], store'[BackupOf(j)]}
      BY DEF BlockSurvives
    <2>1. j \in StoreIds /\ BackupOf(j) \in StoreIds
      BY StoreIdsNat
    <2>2. CASE j = req.id
      BY <2>2
    <2>3. CASE j # req.id
      <3>1. shielded'[j] = shielded[j] /\ IsBatch(j) /\ IndexFits(j)
        BY <2>3 DEF OnlyBlocksShielded
      <3>2. j # b /\ BackupOf(j) # b
        BY <1>1, <2>3, <3>1, BackupFacts
      <3> QED BY <1>2, <2>1, <3>1, <3>2 DEF BlockSurvives
    <2> QED BY <2>2, <2>3
  <1> QED BY <1>3, <1>4, <1>5

LEMMA WriteKeepsStorage ==
  ASSUME IndInv, Write
  PROVE  StorageInv'
  <1> USE DEF IndInv
  <1> DEFINE k == req.id
             b == BackupOf(req.id)
  <1>0. ASSUME at' = "idle" PROVE InFlight'
    BY <1>0 DEF InFlight, Writing
  <1>1. CASE WriteRejected
    <2>1. Writing /\ shielded[k] = Nothing /\ at' = "idle"
      BY <1>1 DEF WriteRejected, Writing, InFlight
    <2>2. OnlyBlocksShielded' /\ AckDurable' /\ BlockSurvives'
      BY <1>1, <2>1, MainTouched DEF WriteRejected, CloseAndDelete
    <2> QED BY <1>0, <2>1, <2>2 DEF StorageInv
  <1>2. CASE WriteBackup
    <2>1. Writing /\ k \in KeyIds /\ k # b /\ b \in StoreIds /\ k \in StoreIds
      BY <1>2, BackupFacts, StoreIdsNat DEF WriteBackup, Writing, TypeOK
    <2>2. store'[b] = req.obj /\ shielded'[k] = req.obj
          /\ \A j \in KeyIds : j # k => shielded'[j] = shielded[j]
      BY <1>2, <2>1 DEF WriteBackup, TypeOK
    <2>3. OnlyBlocksShielded' /\ AckDurable' /\ BlockSurvives'
      BY <1>2, <2>1, <2>2, BackupTouched DEF WriteBackup
    <2>4. at' = "backed" /\ UNCHANGED <<req, acked>> /\ acked[k] = Nothing
      BY <1>2 DEF WriteBackup, InFlight, Writing
    <2>5. \A j \in KeyIds : BackupOf(j) = k => shielded'[j] = Nothing
      BY <1>2, <2>1, <2>2, BackupFacts DEF InFlight
    <2>6. InFlight'
      BY <1>2, <2>2, <2>4, <2>5 DEF InFlight, Writing, WriteBackup
    <2> QED BY <2>3, <2>6 DEF StorageInv
  <1>3. CASE WriteBackupFails
    <2>1. Writing /\ shielded[k] = Nothing /\ at' = "idle"
      BY <1>3 DEF WriteBackupFails, Writing, InFlight
    <2>2. OnlyBlocksShielded' /\ AckDurable' /\ BlockSurvives'
      BY <1>3, <2>1, BackupTouched DEF WriteBackupFails
    <2> QED BY <1>0, <2>1, <2>2 DEF StorageInv
  <1>4. CASE WriteMain
    <2>1. Writing /\ k \in KeyIds /\ k \in StoreIds /\ IndexFits(k)
      BY <1>4, StoreIdsNat DEF WriteMain, ReadyForMain, Writing, TypeOK
    <2>2. store'[k] = req.obj
      BY <1>4, <2>1 DEF WriteMain, TypeOK
    <2>3. shielded[k] = IF IsBatch(k) THEN req.obj ELSE Nothing
      BY <1>4 DEF WriteMain, ReadyForMain, InFlight
    <2>4. OnlyBlocksShielded' /\ AckDurable' /\ BlockSurvives'
      BY <1>4, <2>1, <2>2, <2>3, MainTouched DEF WriteMain
    <2>5. InFlight'
      BY <1>4, <2>1, <2>2, <2>3 DEF WriteMain, InFlight, Writing
    <2> QED BY <2>4, <2>5 DEF StorageInv
  <1>5. CASE WriteMainFails
    <2>1. Writing /\ at' = "idle" /\ k \in KeyIds
      BY <1>5 DEF WriteMainFails, ReadyForMain, Writing, TypeOK
    <2>2. shielded[k] # Nothing => shielded[k] = store'[b]
      <3>1. IsBatch(k) => store[b] = shielded[k]
        BY <1>5 DEF WriteMainFails, ReadyForMain, InFlight
      <3>2. ~IsBatch(k) => shielded[k] = Nothing
        BY <2>1 DEF OnlyBlocksShielded
      <3>3. store'[b] = store[b]
        BY <1>5, <2>1, BackupFacts, StoreIdsNat DEF WriteMainFails, CloseAndDelete, TypeOK
      <3> QED BY <3>1, <3>2, <3>3
    <2>3. OnlyBlocksShielded' /\ AckDurable' /\ BlockSurvives'
      BY <1>5, <2>1, <2>2, MainTouched DEF WriteMainFails, CloseAndDelete
    <2> QED BY <1>0, <2>1, <2>3 DEF StorageInv
  <1>6. CASE WriteFinish
    <2>1. /\ k \in KeyIds /\ k \in StoreIds /\ b \in StoreIds /\ k # b
          /\ at' = "idle" /\ shielded' = shielded
          /\ store[k] = req.obj /\ IndexFits(k)
          /\ shielded[k] = IF IsBatch(k) THEN req.obj ELSE Nothing
      BY <1>6, BackupFacts, StoreIdsNat DEF WriteFinish, Writing, TypeOK, InFlight
    <2>2. \/ store' = store
          \/ IsBatch(k) /\ store' = [store EXCEPT ![b] = Nothing]
      BY <1>6 DEF WriteFinish
    <2>3. store'[k] = req.obj /\ \A x \in StoreIds : store'[x] # store[x] => x = b /\ IsBatch(k)
      BY <2>1, <2>2 DEF TypeOK
    <2>4. acked' \in {acked, [acked EXCEPT ![k] = req.obj]}
          /\ held' \subseteq held /\ k \notin held'
      BY <1>6 DEF WriteFinish, Closed
    <2>5. OnlyBlocksShielded'
      BY <2>1 DEF OnlyBlocksShielded
    <2>6. AckDurable'
      <3> SUFFICES ASSUME NEW j \in KeyIds, acked'[j] # Nothing, ~IsBackupId(j)
                   PROVE  store'[j] = acked'[j] /\ j \notin held'
        BY DEF AckDurable
      <3>1. CASE j = k
        <4>1. acked[k] = Nothing
          BY <1>6 DEF WriteFinish, InFlight, Writing
        <4>2. acked'[k] = req.obj
          BY <2>1, <2>4, <3>1, <4>1 DEF TypeOK
        <4> QED BY <2>3, <2>4, <3>1, <4>2
      <3>2. CASE j # k
        <4>1. acked'[j] = acked[j]
          BY <2>1, <2>4, <3>2 DEF TypeOK
        <4>2. store'[j] = store[j]
          BY <2>1, <2>3, StoreIdsNat DEF IsBackupId
        <4> QED BY <2>4, <4>1, <4>2 DEF AckDurable
      <3> QED BY <3>1, <3>2
    <2>7. BlockSurvives'
      <3> SUFFICES ASSUME NEW j \in KeyIds, shielded[j] # Nothing
                   PROVE  shielded[j] \in {store'[j], store'[BackupOf(j)]}
        BY <2>1 DEF BlockSurvives
      <3>1. CASE j = k
        BY <2>1, <2>3, <3>1
      <3>2. CASE j # k /\ store'[j] = store[j] /\ store'[BackupOf(j)] = store[BackupOf(j)]
        BY <3>2 DEF BlockSurvives
      <3>3. CASE j # k /\ IsBatch(k) /\ (j = b \/ BackupOf(j) = b)
        BY <2>1, <3>3, BackupFacts DEF OnlyBlocksShielded
      <3> QED BY <2>3, <3>1, <3>2, <3>3, StoreIdsNat
    <2> QED BY <1>0, <2>1, <2>5, <2>6, <2>7 DEF StorageInv
  <1> QED BY <1>1, <1>2, <1>3, <1>4, <1>5, <1>6 DEF Write

LEMMA InitInd == Init => IndInv
  BY InitType DEF Init, IndInv, InFlight, Writing, OnlyBlocksShielded, AckDurable, BlockSurvives

LEMMA StepInd == IndInv /\ [Next]_vars => IndInv'
  <1> SUFFICES ASSUME IndInv, [Next]_vars PROVE IndInv'
    OBVIOUS
  <1>1. TypeOK'
    BY StepType DEF IndInv
  <1>2. StorageInv'
    <2>1. CASE Command
      BY <2>1, CommandKeepsStorage
    <2>2. CASE Write
      BY <2>2, WriteKeepsStorage
    <2>3. CASE Environment
      BY <2>3, EnvironmentKeepsStorage
    <2>4. CASE UNCHANGED vars
      BY <2>4, QuietStep DEF vars, Writing
    <2> QED BY <2>1, <2>2, <2>3, <2>4 DEF Next
  <1> QED BY <1>1, <1>2 DEF IndInv, StorageInv

\* What a WRITE reported as stored stays in storage, unlocked, until the client
\* itself touches the key: through power loss at any point of any command,
\* panics, failed commands on other keys and restarts.
THEOREM AcknowledgedStaysStored == Spec => []AckDurable
  <1>1. IndInv => AckDurable
    BY DEF IndInv
  <1> QED BY <1>1, InitInd, StepInd, PTL DEF Spec

\* Once the backup of a block is written, a complete copy of the block exists in
\* its main or its backup object whatever fails or is cut off later.
THEOREM BackedUpBlockSurvives == Spec => []BlockSurvives
  <1>1. IndInv => BlockSurvives
    BY DEF IndInv
  <1> QED BY <1>1, InitInd, StepInd, PTL DEF Spec

-----------------------------------------------------------------------------
(* The RAM caches *)

\* What READ_TO_RAM would copy into the cache of k.
Loadable(k, d) == d.size > 0 /\ Acceptable(k, d)

(***************************************************************************)
(* The strengthening.  As long as the acknowledged value of k stands,      *)
(* whatever READ_TO_RAM could load for k is that value: the object of k    *)
(* may have been replaced by the backup of a block, but such an object     *)
(* does not pass the checks of k's class; and where the recovery of a      *)
(* block looks there is no other object that is long enough.               *)
(***************************************************************************)
StoreCoherent ==
  \A k \in KeyIds : acked[k] # Nothing =>
    /\ SizeFits(k, acked[k].size) /\ IndexFits(k)
    /\ store[k] # Nothing /\ Loadable(k, store[k]) => store[k] = acked[k]
    /\ IsBatch(k) /\ store[BackupOf(k)] # Nothing => store[BackupOf(k)].size < BatchSize

\* Past the backups of the blocks there are only objects the client created.
NoStrangers ==
  \A x \in StoreIds \ KeyIds : x >= BackupOf(NormalMinId) => store[x] = Nothing

\* The length checks are behind a WRITE that has written something.
WriteChecked == at \in {"backed", "stored"} => SizeFits(req.id, req.obj.size)

CacheInv == UniqueSlots /\ CacheCoherent /\ StoreCoherent /\ NoStrangers /\ WriteChecked

-----------------------------------------------------------------------------
(* Slots of the common cache *)

LEMMA HitsAreSlots == \A k : Hits(k) \in SUBSET Slots
  BY DEF Hits

\* Overwriting the slot that is found for k leaves the slots of the others.
LEMMA SlotWritten ==
  ASSUME CacheTypes, NEW k \in KeyIds, NEW e, SlotFor(k) # 0,
         e.valid => e.id = k,
         commonCache' = [commonCache EXCEPT ![SlotFor(k)] = e]
  PROVE  \A j \in KeyIds : j # k =>
           Hits(j)' = Hits(j) /\ \A s \in Hits(j) : commonCache'[s] = commonCache[s]
  <1>1. SlotFor(k) \in Slots
    BY SlotForIsHit, SlotForIsFree
  <1>2. commonCache[SlotFor(k)].valid => commonCache[SlotFor(k)].id = k
    <2>1. CASE Hits(k) # {}
      BY <2>1, SlotForIsHit DEF Hits
    <2>2. CASE Hits(k) = {}
      BY <2>2, SlotForIsFree DEF Free
    <2> QED BY <2>1, <2>2
  <1>3. \A s \in Slots : s # SlotFor(k) => commonCache'[s] = commonCache[s]
    BY DEF CacheTypes
  <1>4. commonCache'[SlotFor(k)] = e
    BY <1>1 DEF CacheTypes
  <1> TAKE j \in KeyIds
  <1> HAVE j # k
  <1>5. SlotFor(k) \notin Hits(j)
    BY <1>2 DEF Hits
  <1>6. Hits(j)' = Hits(j)
    <2> DEFINE t == SlotFor(k)
    <2>1. t \notin Hits(j)'
      BY <1>4 DEF Hits
    <2>2. \A s \in Slots : s # t => (s \in Hits(j)' <=> s \in Hits(j))
      BY <1>3 DEF Hits
    <2>3. Hits(j)' \subseteq Slots /\ Hits(j) \subseteq Slots
      BY DEF Hits
    <2> QED BY <1>5, <2>1, <2>2, <2>3
  <1> QED BY <1>3, <1>5, <1>6, HitsAreSlots

LEMMA SlotForUnchanged ==
  ASSUME NEW j, Hits(j)' = Hits(j), Hits(j) # {}
  PROVE  SlotFor(j)' = SlotFor(j)
  BY DEF SlotFor

LEMMA UniqueAfter ==
  ASSUME CacheTypes, UniqueSlots, NEW k \in KeyIds, NEW e, SlotFor(k) # 0,
         e.valid => e.id = k,
         commonCache' = [commonCache EXCEPT ![SlotFor(k)] = e]
  PROVE  UniqueSlots'
  <1> DEFINE t == SlotFor(k)
  <1>1. t \in Slots /\ commonCache'[t] = e
    BY SlotForIsHit, SlotForIsFree DEF CacheTypes
  <1>2. \A s \in Slots : s # t => commonCache'[s] = commonCache[s]
    BY DEF CacheTypes
  <1>3. \A s \in Slots : s # t /\ commonCache[s].valid => commonCache[s].id # k
    <2>1. CASE Hits(k) # {}
      <3>1. t \in Hits(k)
        BY <2>1, SlotForIsHit
      <3> QED BY <3>1, <1>1 DEF UniqueSlots, Hits
    <2>2. CASE Hits(k) = {}
      BY <2>2 DEF Hits
    <2> QED BY <2>1, <2>2
  <1> HIDE DEF t
  <1> QED BY <1>1, <1>2, <1>3 DEF UniqueSlots

-----------------------------------------------------------------------------
(* What SyncCache does to the caches *)

\* Every key is in one class, and its identifier gives it a place of its own.
LEMMA Classes ==
  ASSUME NEW k \in KeyIds, NEW j \in KeyIds
  PROVE  /\ IsKuk(k) => ~IsEcc(k) /\ ~IsBatch(k) /\ ~IsNormal(k) /\ IndexFits(k) /\ k \in Kuks
         /\ IsEcc(k) => ~IsBatch(k) /\ ~IsNormal(k) /\ IndexFits(k) /\ k \in Eccs
         /\ IsBatch(k) => ~IsNormal(k)
         /\ k \in Kuks => IsKuk(k)
         /\ k \in Eccs => IsEcc(k)
         /\ IsBatch(k) /\ IndexFits(k) => BlockOf(k) \in Blocks
         /\ IsNormal(k) /\ IndexFits(k) => NormalIndex(k) \in Normals
         /\ IsCommon(k) => IndexFits(k)
         /\ BlockOf(k) = BlockOf(j) => k = j
         /\ NormalIndex(k) = NormalIndex(j) => k = j
  <1>1. k \in Nat /\ j \in Nat
    BY ConstantsAssumption
  <1>2. /\ IsKuk(k) => ~IsEcc(k) /\ ~IsBatch(k) /\ ~IsNormal(k)
        /\ IsEcc(k) => ~IsBatch(k) /\ ~IsNormal(k)
        /\ IsBatch(k) => ~IsNormal(k)
    BY <1>1 DEF IsKuk, KukIds, IsEcc, EccIds, IsBatch, IsNormal, BatchMeter, NormalMinId,
                NormalMaxId
  <1>3. /\ BlockOf(k) = BlockOf(j) => k = j
        /\ NormalIndex(k) = NormalIndex(j) => k = j
    BY <1>1 DEF BlockOf, NormalIndex, BatchMeter, NormalMinId
  <1>4. ~IsBatch(k) /\ ~IsNormal(k) => IndexFits(k)
    BY DEF IndexFits
  <1> QED BY <1>2, <1>3, <1>4 DEF IsKuk, Kuks, IsEcc, Eccs, Blocks, Normals, IsCommon

\* The caches of the other keys are left alone.
LEMMA SyncOther ==
  ASSUME CacheTypes, NEW k \in KeyIds, NEW d \in Object, SyncCache(k, d),
         NEW j \in KeyIds, j # k
  PROVE  CacheOf(j)' = CacheOf(j)
  <1>1. CASE IsKuk(j)
    <2>1. kukCache'[j] = kukCache[j]
      BY <1>1, Classes DEF SyncCache, SyncKuk, CacheTypes
    <2> QED BY <1>1, <2>1 DEF CacheOf
  <1>2. CASE IsEcc(j)
    <2>1. eccCache'[j] = eccCache[j]
      BY <1>2, Classes DEF SyncCache, CacheTypes
    <2> QED BY <1>2, <2>1, Classes DEF CacheOf
  <1>3. CASE IsBatch(j) /\ IndexFits(j)
    <2>1. batchCache'[BlockOf(j)] = batchCache[BlockOf(j)]
      BY <1>3, Classes DEF SyncCache, CacheTypes
    <2> QED BY <1>3, <2>1, Classes DEF CacheOf
  <1>4. CASE IsNormal(j) /\ IndexFits(j)
    <2>1. normalCache'[NormalIndex(j)] = normalCache[NormalIndex(j)]
      BY <1>4, Classes DEF SyncCache, CacheTypes
    <2> QED BY <1>4, <2>1, Classes DEF CacheOf
  <1>5. CASE IsCommon(j)
    <2>1. Hits(j)' = Hits(j) /\ \A s \in Hits(j) : commonCache'[s] = commonCache[s]
      <3>1. CASE commonCache' = commonCache
        BY <3>1 DEF Hits
      <3>2. CASE SlotFor(k) # 0
                 /\ commonCache' = [commonCache EXCEPT ![SlotFor(k)] = StampedSlot(k, d)]
        <4>1. StampedSlot(k, d).valid => StampedSlot(k, d).id = k
          BY DEF StampedSlot
        <4> QED BY <3>2, <4>1, SlotWritten
      <3> QED BY <3>1, <3>2 DEF SyncCache
    <2>2. CASE Hits(j) = {}
      BY <1>5, <2>1, <2>2 DEF CacheOf, IsCommon
    <2>3. CASE Hits(j) # {}
      <3>1. SlotFor(j)' = SlotFor(j) /\ SlotFor(j) \in Hits(j)
        BY <2>1, <2>3, SlotForUnchanged, SlotForIsHit
      <3> QED BY <1>5, <2>1, <2>3, <3>1 DEF CacheOf, IsCommon
    <2> QED BY <2>2, <2>3
  <1>6. CASE ~IndexFits(j)
    BY <1>6, Classes DEF CacheOf
  <1> QED BY <1>1, <1>2, <1>3, <1>4, <1>5, <1>6 DEF IsCommon

LEMMA SyncUnique ==
  ASSUME CacheTypes, UniqueSlots, NEW k \in KeyIds, NEW d \in Object, SyncCache(k, d)
  PROVE  UniqueSlots'
  <1>1. CASE commonCache' = commonCache
    BY <1>1 DEF UniqueSlots
  <1>2. CASE SlotFor(k) # 0
             /\ commonCache' = [commonCache EXCEPT ![SlotFor(k)] = StampedSlot(k, d)]
    <2>1. StampedSlot(k, d).valid => StampedSlot(k, d).id = k
      BY DEF StampedSlot
    <2> QED BY <1>2, <2>1, UniqueAfter
  <1> QED BY <1>1, <1>2 DEF SyncCache

\* The cache of k holds d afterwards, or nothing, and the latter only if it is
\* full or k has no place in it.
LEMMA SyncSelf ==
  ASSUME CacheTypes, UniqueSlots, NEW k \in KeyIds, NEW d \in Object, SyncCache(k, d)
  PROVE  /\ CacheOf(k)' \in {Nothing, d}
         /\ IndexFits(k) => \/ CacheOf(k)' = d
                            \/ IsCommon(k) /\ Hits(k)' = {} /\ Free' = {}
  <1>1. CASE IsKuk(k)
    BY <1>1, Classes DEF SyncCache, SyncKuk, CacheTypes, CacheOf
  <1>2. CASE IsEcc(k)
    BY <1>2, Classes DEF SyncCache, CacheTypes, CacheOf
  <1>3. CASE IsBatch(k) /\ IndexFits(k)
    <2>1. batchCache'[BlockOf(k)].obj = d
      BY <1>3, Classes DEF SyncCache, CacheTypes
    <2> QED BY <1>3, <2>1, Classes DEF CacheOf
  <1>4. CASE IsNormal(k) /\ IndexFits(k)
    <2>1. normalCache'[NormalIndex(k)] = d
      BY <1>4, Classes DEF SyncCache, CacheTypes
    <2> QED BY <1>4, <2>1, Classes DEF CacheOf
  <1>5. CASE IsCommon(k)
    <2>1. CASE SlotFor(k) = 0
      <3>1. Hits(k) = {} /\ Free = {}
        <4>1. 0 \notin Slots
          BY ConstantsAssumption DEF Slots
        <4>2. Hits(k) = {}
          BY <2>1, <4>1, SlotForIsHit
        <4>3. Free \in SUBSET Slots
          BY DEF Free
        <4> QED BY <2>1, <4>1, <4>2, <4>3, FirstIn DEF SlotFor
      <3>2. commonCache' = commonCache
        BY <2>1 DEF SyncCache
      <3>3. Hits(k)' = {} /\ Free' = {}
        BY <3>1, <3>2 DEF Hits, Free
      <3> QED BY <1>5, <3>3 DEF CacheOf, IsCommon
    <2>2. CASE SlotFor(k) # 0
      <3> DEFINE t == SlotFor(k)
      <3>1. t \in Slots
        BY <2>2, SlotForIsHit, SlotForIsFree
      <3>2. commonCache' = [commonCache EXCEPT ![t] = StampedSlot(k, d)]
        BY <1>5, <2>2 DEF SyncCache
      <3>3. t \in Hits(k)' /\ commonCache'[t].obj = d
        BY <3>1, <3>2 DEF Hits, StampedSlot, CacheTypes
      <3>4. Hits(k)' = {t}
        BY <3>1, <3>3, SyncUnique DEF UniqueSlots, Hits
      <3>5. SlotFor(k)' = t
        <4>1. SlotFor(k)' = First(Hits(k)')
          BY <3>4 DEF SlotFor
        <4>2. First({t}) \in {t}
          BY <3>1, FirstIn
        <4> QED BY <3>4, <4>1, <4>2
      <3> QED BY <1>5, <3>3, <3>5 DEF CacheOf, IsCommon
    <2> QED BY <2>1, <2>2
  <1>6. CASE ~IndexFits(k)
    BY <1>6, Classes DEF CacheOf
  <1> QED BY <1>1, <1>2, <1>3, <1>4, <1>5, <1>6 DEF IsCommon

-----------------------------------------------------------------------------
(* Steps that load nothing *)

\* If every cache keeps its object or loses it and no acknowledgement is new,
\* the caches stay coherent.
LEMMA QuietCache ==
  ASSUME CacheCoherent,
         \A j \in KeyIds : acked'[j] \in {Nothing, acked[j]}
                          /\ CacheOf(j)' \in {Nothing, CacheOf(j)}
  PROVE  CacheCoherent'
  BY DEF CacheCoherent

LEMMA CachesUnchanged ==
  ASSUME UNCHANGED caches
  PROVE  (UniqueSlots => UniqueSlots') /\ \A j \in KeyIds : CacheOf(j)' = CacheOf(j)
  BY DEF caches, UniqueSlots, CacheOf, Hits, SlotFor, Free

LEMMA CachesLost ==
  ASSUME InstanceDies
  PROVE  UniqueSlots' /\ \A j \in KeyIds : CacheOf(j)' = Nothing
  <1> USE DEF InstanceDies
  <1>1. \A s \in Slots : ~commonCache'[s].valid
    BY DEF ZeroCommon, FreeSlot
  <1>2. UniqueSlots'
    BY <1>1 DEF UniqueSlots
  <1>3. ASSUME NEW j \in KeyIds PROVE CacheOf(j)' = Nothing
    <2>1. Hits(j)' = {}
      BY <1>1 DEF Hits
    <2> QED BY <2>1, Classes
            DEF CacheOf, ZeroKuk, ZeroEcc, ZeroBatch, ZeroNormal, FreeEcc, FreeBlock
  <1> QED BY <1>2, <1>3

\* An upset spoils a CRC and moves nothing.
LEMMA CachesUpset ==
  ASSUME TypeOK, UniqueSlots, RamUpset
  PROVE  UniqueSlots' /\ \A j \in KeyIds : CacheOf(j)' = CacheOf(j)
  <1>1. kukCache' = kukCache /\ normalCache' = normalCache /\ CacheTypes
    BY DEF RamUpset, TypeOK
  <1>2. \A k \in Eccs : eccCache'[k].obj = eccCache[k].obj
    BY <1>1 DEF RamUpset, CacheTypes
  <1>3. \A b \in Blocks : batchCache'[b].obj = batchCache[b].obj
    <2>1. CASE batchCache' = batchCache
      BY <2>1
    <2>2. CASE \E b \in Blocks : \E i \in batchCache[b].used :
                 batchCache' = [batchCache EXCEPT ![b].bad = @ \cup {i}]
      <3>1. PICK b \in Blocks : \E i \in batchCache[b].used :
              batchCache' = [batchCache EXCEPT ![b].bad = @ \cup {i}]
        BY <2>2
      <3>2. batchCache[b] \in BatchEntry
        BY <1>1 DEF CacheTypes
      <3> QED BY <1>1, <3>1, <3>2 DEF CacheTypes, BatchEntry
    <2> QED BY <2>1, <2>2 DEF RamUpset
  <1>4. \A s \in Slots : /\ commonCache'[s].valid = commonCache[s].valid
                        /\ commonCache'[s].id = commonCache[s].id
                        /\ commonCache'[s].obj = commonCache[s].obj
    BY <1>1 DEF RamUpset, CacheTypes
  <1>5. UniqueSlots'
    BY <1>4 DEF UniqueSlots
  <1>6. ASSUME NEW j \in KeyIds PROVE CacheOf(j)' = CacheOf(j)
    <2>1. Hits(j)' = Hits(j)
      BY <1>4 DEF Hits
    <2>2. Hits(j) # {} => SlotFor(j)' = SlotFor(j) /\ SlotFor(j) \in Slots
      BY <2>1, SlotForUnchanged, SlotForIsHit
    <2> QED BY <1>1, <1>2, <1>3, <1>4, <2>1, <2>2, Classes DEF CacheOf
  <1> QED BY <1>5, <1>6

\* FROM_RAM only ever drops an entry.
LEMMA CachesServed ==
  ASSUME TypeOK, UniqueSlots, NEW k \in KeyIds, NEW buf, FromRam(k, buf)
  PROVE  UniqueSlots' /\ \A j \in KeyIds : CacheOf(j)' \in {Nothing, CacheOf(j)}
  <1>0. CacheTypes
    BY DEF TypeOK
  <1>1. CASE FromRamKuk(k, buf) \/ FromRamNormal(k, buf)
    BY <1>1, CachesUnchanged DEF FromRamKuk, FromRamNormal
  <1>2. CASE FromRamEcc(k, buf)
    <2>1. \A e \in Eccs : eccCache'[e].obj \in {Nothing, eccCache[e].obj}
      BY <1>0, <1>2 DEF FromRamEcc, FreeEcc, CacheTypes
    <2>2. UNCHANGED <<kukCache, batchCache, normalCache, commonCache>>
      BY <1>2 DEF FromRamEcc
    <2> QED BY <2>1, <2>2, Classes DEF UniqueSlots, CacheOf, Hits, SlotFor, Free
  <1>3. CASE FromRamBatch(k, buf)
    <2>1. \A b \in Blocks : batchCache'[b].obj = batchCache[b].obj
      <3>1. CASE batchCache' = batchCache
        BY <3>1
      <3>2. CASE \E i : batchCache' = [batchCache EXCEPT ![SapBlock(k)].used = @ \ {i},
                                                        ![SapBlock(k)].bad = @ \ {i}]
        <4>1. \A b \in Blocks : batchCache[b] \in BatchEntry
          BY <1>0 DEF CacheTypes
        <4> QED BY <1>0, <3>2, <4>1 DEF CacheTypes, BatchEntry
      <3> QED BY <1>3, <3>1, <3>2 DEF FromRamBatch
    <2>2. UNCHANGED <<kukCache, eccCache, normalCache, commonCache>>
      BY <1>3 DEF FromRamBatch
    <2> QED BY <2>1, <2>2, Classes DEF UniqueSlots, CacheOf, Hits, SlotFor, Free
  <1>4. CASE FromRamCommon(k, buf)
    <2>1. CASE UNCHANGED commonCache
      BY <1>4, <2>1, CachesUnchanged DEF FromRamCommon, caches
    <2>2. CASE Hits(k) # {} /\ commonCache' = [commonCache EXCEPT ![SlotFor(k)] = FreeSlot]
      <3>0. SlotFor(k) \in Slots /\ SlotFor(k) \in Hits(k) /\ SlotFor(k) # 0
        BY <2>2, SlotForIsHit, ConstantsAssumption DEF Slots
      <3>1. ~FreeSlot.valid
        BY DEF FreeSlot
      <3>2. UniqueSlots'
        BY <1>0, <2>2, <3>0, <3>1, UniqueAfter
      <3>3. ASSUME NEW j \in KeyIds, j # k PROVE CacheOf(j)' = CacheOf(j)
        <4>1. Hits(j)' = Hits(j) /\ \A s \in Hits(j) : commonCache'[s] = commonCache[s]
          BY <1>0, <2>2, <3>0, <3>1, <3>3, SlotWritten
        <4>2. Hits(j) # {} => SlotFor(j)' = SlotFor(j) /\ SlotFor(j) \in Hits(j)
          BY <4>1, SlotForUnchanged, SlotForIsHit
        <4> QED BY <1>4, <4>1, <4>2 DEF FromRamCommon, CacheOf
      <3>4. Hits(k)' = {}
        <4>1. commonCache'[SlotFor(k)] = FreeSlot
              /\ \A s \in Slots : s # SlotFor(k) => commonCache'[s] = commonCache[s]
          BY <1>0, <2>2, <3>0 DEF CacheTypes
        <4>2. \A s \in Hits(k) : s = SlotFor(k)
          BY <3>0 DEF Hits, UniqueSlots
        <4> QED BY <3>1, <4>1, <4>2 DEF Hits
      <3>5. CacheOf(k)' = Nothing
        BY <1>4, <3>4, Classes DEF FromRamCommon, IsCommon, CacheOf
      <3> QED BY <3>2, <3>3, <3>5
    <2> QED BY <1>4, <2>1, <2>2 DEF FromRamCommon
  <1> QED BY <1>1, <1>2, <1>3, <1>4 DEF FromRam

-----------------------------------------------------------------------------
(* What storage could load *)

\* Where the backups of accepted blocks are, and what they are to other keys.
LEMMA BackupRange ==
  ASSUME NEW k \in KeyIds, IsBatch(k), IndexFits(k), NEW n \in Nat
  PROVE  /\ BackupOf(k) < BackupOf(NormalMinId)
         /\ SizeFits(k, n) => n = BatchSize
         /\ IndexFits(BackupOf(k)) => IsNormal(BackupOf(k))
         /\ IndexFits(BackupOf(k)) /\ SizeFits(BackupOf(k), n) => n < BatchSize
         /\ IsNormal(BackupOf(k)) /\ n = BatchSize =>
              \A d : d.size = n => ~Acceptable(BackupOf(k), d)
         /\ ~IsBackupId(k)
  <1>1. k \in Nat /\ \A j \in KeyIds : j \in Nat
    BY ConstantsAssumption
  <1>2. k >= 100 /\ k < 220
    BY <1>1 DEF IsBatch, IndexFits, BlockOf, BatchMeter, NormalMinId, MaxBatchBlocks
  <1> USE <1>1, <1>2 DEF BackupOf, BatchMeter, NormalMinId, NormalMaxId
  <1>3. /\ BackupOf(k) < BackupOf(NormalMinId)
        /\ ~IsBackupId(k)
    BY DEF IsBackupId, IsBatch
  <1>4. IndexFits(BackupOf(k)) => IsNormal(BackupOf(k))
    BY DEF IndexFits, IsBatch, IsNormal, BlockOf, MaxBatchBlocks
  <1>5. IsNormal(BackupOf(k)) => /\ ~IsKuk(BackupOf(k)) /\ ~IsEcc(BackupOf(k))
                                 /\ ~IsBatch(BackupOf(k))
    BY DEF IsKuk, KukIds, IsEcc, EccIds, IsBatch, IsNormal
  <1>6. SizeFits(k, n) => n = BatchSize
    BY DEF SizeFits, IsKuk, KukIds, IsEcc, EccIds, IsBatch, IsNormal, IsCommon
  <1>7. IndexFits(BackupOf(k)) /\ SizeFits(BackupOf(k), n) => n < BatchSize
    BY <1>4, <1>5 DEF SizeFits, IsCommon, NormalBlockSize, BatchSize
  <1>8. IsNormal(BackupOf(k)) /\ n = BatchSize =>
          \A d : d.size = n => ~Acceptable(BackupOf(k), d)
    BY <1>5 DEF Acceptable, NormalBlockSize, BatchSize
  <1> QED BY <1>3, <1>4, <1>6, <1>7, <1>8

\* Putting o under x, when no acknowledgement is new.
LEMMA ObjectTouched ==
  ASSUME TypeOK, StoreCoherent, NoStrangers, NEW x \in StoreIds, NEW o,
         store' = [store EXCEPT ![x] = o] \/ store' = store,
         \A j \in KeyIds : acked'[j] \in {Nothing, acked[j]},
         x \in KeyIds /\ acked'[x] # Nothing =>
           (o # Nothing /\ Loadable(x, o) => o = acked'[x]),
         \A j \in KeyIds : acked'[j] # Nothing /\ IsBatch(j) /\ BackupOf(j) = x =>
           (o # Nothing => o.size < BatchSize),
         x \in KeyIds \/ x < BackupOf(NormalMinId) \/ o = Nothing
  PROVE  StoreCoherent' /\ NoStrangers'
  <1>1. store' = store \/ (store'[x] = o /\ \A y \in StoreIds : y # x => store'[y] = store[y])
    BY DEF TypeOK
  <1>2. StoreCoherent'
    <2> SUFFICES ASSUME NEW k \in KeyIds, acked'[k] # Nothing
                 PROVE  /\ SizeFits(k, acked'[k].size) /\ IndexFits(k)
                        /\ store'[k] # Nothing /\ Loadable(k, store'[k]) =>
                             store'[k] = acked'[k]
                        /\ IsBatch(k) /\ store'[BackupOf(k)] # Nothing =>
                             store'[BackupOf(k)].size < BatchSize
      BY DEF StoreCoherent, Loadable, Acceptable
    <2>1. acked'[k] = acked[k] /\ k \in StoreIds /\ BackupOf(k) \in StoreIds
      BY StoreIdsNat
    <2>2. SizeFits(k, acked'[k].size) /\ IndexFits(k)
      BY <2>1 DEF StoreCoherent
    <2>3. store'[k] # Nothing /\ Loadable(k, store'[k]) => store'[k] = acked'[k]
      BY <1>1, <2>1 DEF StoreCoherent
    <2>4. IsBatch(k) /\ store'[BackupOf(k)] # Nothing => store'[BackupOf(k)].size < BatchSize
      BY <1>1, <2>1 DEF StoreCoherent
    <2> QED BY <2>2, <2>3, <2>4
  <1>3. NoStrangers'
    <2> SUFFICES ASSUME NEW y \in StoreIds \ KeyIds, y >= BackupOf(NormalMinId)
                 PROVE  store'[y] = Nothing
      BY DEF NoStrangers
    <2>1. store[y] = Nothing
      BY DEF NoStrangers
    <2>2. x = y => o = Nothing
      BY ConstantsAssumption, StoreIdsNat DEF BackupOf, NormalMinId
    <2> QED BY <1>1, <2>1, <2>2
  <1> QED BY <1>2, <1>3

LEMMA ObjectsUnchanged ==
  ASSUME StoreCoherent, NoStrangers, UNCHANGED <<store, acked>>
  PROVE  StoreCoherent' /\ NoStrangers'
  BY DEF StoreCoherent, NoStrangers, Loadable, Acceptable

-----------------------------------------------------------------------------
(* The steps *)

\* Steps that load nothing and leave the caches alone or lose them.
LEMMA QuietCaches ==
  ASSUME UniqueSlots, CacheCoherent, UNCHANGED caches \/ InstanceDies,
         \A j \in KeyIds : acked'[j] \in {Nothing, acked[j]}
  PROVE  UniqueSlots' /\ CacheCoherent'
  BY CachesUnchanged, CachesLost, QuietCache

LEMMA DeliverCoherent ==
  ASSUME TypeOK, UniqueSlots, CacheCoherent, NEW k \in KeyIds, NEW d \in Object,
         Deliver(k, d), acked' = acked,
         NoFalseBackup(k) /\ acked[k] # Nothing /\ Acceptable(k, d) => d = acked[k]
  PROVE  UniqueSlots' /\ CacheCoherent'
  <1>1. CASE Acceptable(k, d)
    <2>1. SyncCache(k, d) /\ CacheTypes
      BY <1>1 DEF Deliver, TypeOK
    <2>2. UniqueSlots'
      BY <2>1, SyncUnique
    <2>3. CacheCoherent'
      <3> SUFFICES ASSUME NEW j \in KeyIds, NoFalseBackup(j), acked[j] # Nothing
                   PROVE  CacheOf(j)' \in {Nothing, acked[j]}
        BY DEF CacheCoherent
      <3>1. CASE j = k
        BY <1>1, <2>1, <3>1, SyncSelf
      <3>2. CASE j # k
        BY <2>1, <3>2, SyncOther DEF CacheCoherent
      <3> QED BY <3>1, <3>2
    <2> QED BY <2>2, <2>3
  <1>2. CASE ~Acceptable(k, d)
    BY <1>2, QuietCaches DEF Deliver
  <1> QED BY <1>1, <1>2

\* The recovery of an acknowledged block finds nothing as long as the block,
\* the recovery of another key finds nothing unless the client put it there.
LEMMA RecoveryFindsNothing ==
  ASSUME IndInv, CacheInv, NEW k \in KeyIds, k >= BatchMeter, NoFalseBackup(k),
         acked[k] # Nothing, store[k] # Nothing, store[BackupOf(k)] # Nothing,
         store[BackupOf(k)].size >= store[k].size
  PROVE  FALSE
  <1> USE DEF IndInv, CacheInv
  <1>1. /\ k \in Nat /\ k \in StoreIds /\ BackupOf(k) \in StoreIds
        /\ acked[k] \in Object /\ store[BackupOf(k)] \in Object
    BY ConstantsAssumption, StoreIdsNat DEF TypeOK, Maybe
  <1>2. CASE IsBatch(k)
    <2>1. /\ SizeFits(k, acked[k].size) /\ IndexFits(k)
          /\ store[BackupOf(k)].size < BatchSize
      BY <1>2 DEF StoreCoherent
    <2>2. acked[k].size \in Nat /\ store[BackupOf(k)].size \in Nat
      BY <1>1 DEF Object
    <2>3. acked[k].size = BatchSize /\ ~IsBackupId(k)
      BY <1>2, <2>1, <2>2, BackupRange
    <2>4. store[k] = acked[k]
      BY <2>3 DEF AckDurable
    <2> QED BY <2>1, <2>2, <2>3, <2>4 DEF BatchSize
  <1>3. CASE ~IsBatch(k)
    <2>1. k >= NormalMinId
      BY <1>1, <1>3 DEF IsBatch, BatchMeter, NormalMinId
    <2>2. BackupOf(k) \notin KeyIds /\ BackupOf(k) >= BackupOf(NormalMinId)
      BY <1>1, <2>1 DEF NoFalseBackup, BackupOf, NormalMinId
    <2> QED BY <1>1, <2>2 DEF NoStrangers
  <1> QED BY <1>2, <1>3

LEMMA ReadToRamCoherent ==
  ASSUME IndInv, CacheInv, NEW k \in KeyIds, NEW buf \in BufSizes, ReadToRam(k, buf)
  PROVE  UniqueSlots' /\ CacheCoherent'
  <1> USE DEF CacheInv
  <1>0. /\ TypeOK /\ acked' = acked /\ k \in StoreIds /\ BackupOf(k) \in StoreIds
        /\ store \in [StoreIds -> Maybe]
    BY StoreIdsNat DEF IndInv, ReadToRam, TypeOK
  <1>1. CASE UNCHANGED caches \/ InstanceDies
    BY <1>0, <1>1, QuietCaches
  <1>2. CASE Openable(k) /\ store[k].size \in 1..buf /\ Deliver(k, store[k])
    <2>1. store[k] \in Object /\ store[k].size > 0
      BY <1>0, <1>2, ConstantsAssumption DEF Openable, Maybe
    <2>2. acked[k] # Nothing /\ Acceptable(k, store[k]) => store[k] = acked[k]
      BY <1>2, <2>1 DEF StoreCoherent, Loadable, Openable
    <2> QED BY <1>0, <1>2, <2>1, <2>2, DeliverCoherent
  <1>3. CASE /\ Openable(k) /\ k >= BatchMeter /\ Openable(BackupOf(k))
             /\ store[BackupOf(k)].size >= store[k].size
             /\ Deliver(k, [store[BackupOf(k)] EXCEPT !.size = store[k].size])
    <2> DEFINE d == [store[BackupOf(k)] EXCEPT !.size = store[k].size]
    <2>1. store[BackupOf(k)] \in Object /\ store[k] \in Object
      BY <1>0, <1>3 DEF Openable, Maybe
    <2>2. d \in Object
      BY <2>1 DEF Object
    <2>3. ~(NoFalseBackup(k) /\ acked[k] # Nothing)
      BY <1>3, RecoveryFindsNothing DEF Openable
    <2> QED BY <1>0, <1>3, <2>2, <2>3, DeliverCoherent
  <1> QED BY <1>1, <1>2, <1>3 DEF ReadToRam, TryBackup

LEMMA CommandCoherent ==
  ASSUME IndInv, CacheInv, Command
  PROVE  CacheInv'
  <1> USE DEF CacheInv
  <1>0. TypeOK /\ Nothing \notin Object
    BY ConstantsAssumption DEF IndInv
  <1>1. PICK k \in KeyIds :
          \/ \E p \in Payloads : WriteRefused(k, p) \/ WriteCreate(k, p)
          \/ Delete(k)
          \/ \E buf \in BufSizes : ReadOnly(k, buf) \/ ReadToRam(k, buf) \/ FromRam(k, buf)
    BY DEF Command
  <1>2. k \in StoreIds
    BY StoreIdsNat
  <1>3. CASE \/ \E p \in Payloads : WriteRefused(k, p)
             \/ \E buf \in BufSizes : ReadOnly(k, buf)
    <2>1. UNCHANGED <<store, acked, caches, at, req>> /\ at = "idle"
      BY <1>3 DEF WriteRefused, ReadOnly
    <2>2. StoreCoherent' /\ NoStrangers'
      BY <2>1, ObjectsUnchanged
    <2>3. UniqueSlots' /\ CacheCoherent'
      BY <2>1, QuietCaches
    <2> QED BY <2>1, <2>2, <2>3 DEF WriteChecked
  <1>4. CASE \E p \in Payloads : WriteCreate(k, p)
    <2>1. PICK p \in Payloads : WriteCreate(k, p)
      BY <1>4
    <2>2. /\ store' = [store EXCEPT ![k] = EmptyObject(k)] /\ Forget(k)
          /\ UNCHANGED caches /\ at' = "created"
      BY <2>1 DEF WriteCreate
    <2>3. acked'[k] = Nothing /\ \A j \in KeyIds : acked'[j] \in {Nothing, acked[j]}
      BY <1>0, <2>2, ForgetFacts
    <2>4. EmptyObject(k).size < BatchSize
      BY DEF EmptyObject, BatchSize
    <2>5. StoreCoherent' /\ NoStrangers'
      BY <1>0, <1>2, <2>2, <2>3, <2>4, ObjectTouched
    <2>6. UniqueSlots' /\ CacheCoherent'
      BY <2>2, <2>3, QuietCaches
    <2> QED BY <2>2, <2>5, <2>6 DEF WriteChecked
  <1>5. CASE Delete(k)
    <2>1. UNCHANGED <<at, req, caches>> /\ at = "idle"
      BY <1>5 DEF Delete
    <2>2. CASE UNCHANGED <<store, acked>>
      <3>1. UniqueSlots' /\ CacheCoherent'
        BY <2>1, <2>2, QuietCaches
      <3>2. StoreCoherent' /\ NoStrangers'
        BY <2>2, ObjectsUnchanged
      <3> QED BY <2>1, <3>1, <3>2 DEF WriteChecked
    <2>3. CASE CloseAndDelete(k, 0) /\ Forget(k)
      <3>1. acked'[k] = Nothing /\ \A j \in KeyIds : acked'[j] \in {Nothing, acked[j]}
        BY <1>0, <2>3, ForgetFacts
      <3>2. store' = [store EXCEPT ![k] = Nothing] \/ store' = store
        BY <2>3 DEF CloseAndDelete
      <3>3. StoreCoherent' /\ NoStrangers'
        BY <1>0, <1>2, <3>1, <3>2, ObjectTouched
      <3>4. UniqueSlots' /\ CacheCoherent'
        BY <2>1, <3>1, QuietCaches
      <3> QED BY <2>1, <3>3, <3>4 DEF WriteChecked
    <2> QED BY <1>5, <2>2, <2>3 DEF Delete
  <1>6. CASE \E buf \in BufSizes : ReadToRam(k, buf)
    <2>1. UNCHANGED <<store, acked>>
      BY <1>6 DEF ReadToRam
    <2>2. at' \in {"idle", "closed"}
      BY <1>6 DEF ReadToRam, InstanceDies
    <2> QED BY <1>6, <2>1, <2>2, ReadToRamCoherent, ObjectsUnchanged DEF WriteChecked
  <1>7. CASE \E buf \in BufSizes : FromRam(k, buf)
    <2>1. UNCHANGED <<store, acked, at>> /\ at = "idle"
      BY <1>7 DEF FromRam
    <2>2. UniqueSlots' /\ CacheCoherent'
      BY <1>0, <1>7, <2>1, CachesServed, QuietCache
    <2> QED BY <2>1, <2>2, ObjectsUnchanged DEF WriteChecked
  <1> QED BY <1>1, <1>3, <1>4, <1>5, <1>6, <1>7

LEMMA EnvironmentCoherent ==
  ASSUME IndInv, CacheInv, Environment
  PROVE  CacheInv'
  <1> USE DEF CacheInv
  <1>1. UNCHANGED <<store, acked>> /\ at' \in {"idle", "closed"}
    BY DEF Environment, OpenSession, CloseSession, PowerLoss, RamUpset, InstanceDies
  <1>2. StoreCoherent' /\ NoStrangers' /\ WriteChecked'
    BY <1>1, ObjectsUnchanged DEF WriteChecked
  <1>3. CASE RamUpset
    BY <1>1, <1>2, <1>3, CachesUpset, QuietCache DEF IndInv
  <1>4. CASE OpenSession \/ CloseSession \/ PowerLoss
    <2>1. UNCHANGED caches \/ InstanceDies
      BY <1>4 DEF OpenSession, CloseSession, PowerLoss
    <2> QED BY <1>1, <1>2, <2>1, QuietCaches
  <1> QED BY <1>3, <1>4 DEF Environment

LEMMA WriteCoherent ==
  ASSUME IndInv, CacheInv, Write
  PROVE  CacheInv'
  <1> USE DEF CacheInv
  <1> DEFINE k == req.id
             b == BackupOf(req.id)
  <1>0. /\ TypeOK /\ Writing /\ k \in KeyIds /\ k \in StoreIds /\ b \in StoreIds
        /\ req.obj \in Object /\ req.obj.size \in Nat /\ acked[k] = Nothing
    <2>1. TypeOK /\ Writing
      BY DEF IndInv, Write, WriteRejected, WriteBackup, WriteBackupFails, WriteMain,
             WriteMainFails, WriteFinish, ReadyForMain, Writing
    <2>2. k \in KeyIds /\ req.obj \in Object
      BY <2>1 DEF TypeOK
    <2> QED BY <2>1, <2>2, StoreIdsNat DEF Object, IndInv, InFlight
  <1>1. CASE WriteRejected \/ WriteMainFails
    <2>1. /\ store' = [store EXCEPT ![k] = Nothing] \/ store' = store
          /\ UNCHANGED <<caches, acked>> /\ at' = "idle"
      BY <1>1 DEF WriteRejected, WriteMainFails, CloseAndDelete
    <2>2. StoreCoherent' /\ NoStrangers'
      BY <1>0, <2>1, ObjectTouched
    <2> QED BY <2>1, <2>2, QuietCaches DEF WriteChecked
  <1>2. CASE WriteBackup
    <2>1. /\ IsBatch(k) /\ SizeFits(k, req.obj.size) /\ IndexFits(k)
          /\ store' = [store EXCEPT ![b] = req.obj]
          /\ UNCHANGED <<caches, acked, req>>
      BY <1>2 DEF WriteBackup
    <2>2. req.obj.size = BatchSize /\ b < BackupOf(NormalMinId)
      BY <1>0, <2>1, BackupRange
    <2>3. b \in KeyIds /\ acked[b] # Nothing => ~Loadable(b, req.obj)
      <3>1. b \in KeyIds /\ acked[b] # Nothing => IsNormal(b)
        BY <1>0, <2>1, BackupRange DEF StoreCoherent
      <3> QED BY <1>0, <2>1, <2>2, <3>1, BackupRange DEF Loadable
    <2>4. \A j \in KeyIds : BackupOf(j) = b => acked'[j] = Nothing
      BY <1>0, <2>1, BackupFacts
    <2>5. StoreCoherent' /\ NoStrangers'
      BY <1>0, <2>1, <2>2, <2>3, <2>4, ObjectTouched
    <2> QED BY <2>1, <2>5, QuietCaches DEF WriteChecked
  <1>3. CASE WriteBackupFails
    <2>1. /\ IsBatch(k) /\ IndexFits(k) /\ at' = "idle"
          /\ store' = [store EXCEPT ![b] = EmptyObject(b)] \/ store' = store
          /\ UNCHANGED <<caches, acked>>
      BY <1>3 DEF WriteBackupFails
    <2>2. /\ EmptyObject(b).size < BatchSize /\ ~Loadable(b, EmptyObject(b))
          /\ b < BackupOf(NormalMinId)
      BY <1>0, <2>1, BackupRange DEF EmptyObject, BatchSize, Loadable
    <2>3. StoreCoherent' /\ NoStrangers'
      BY <1>0, <2>1, <2>2, ObjectTouched
    <2> QED BY <2>1, <2>3, QuietCaches DEF WriteChecked
  <1>4. CASE WriteMain
    <2>1. /\ store' = [store EXCEPT ![k] = req.obj]
          /\ UNCHANGED <<caches, acked, req>>
          /\ SizeFits(k, req.obj.size) /\ IndexFits(k)
      BY <1>4 DEF WriteMain, ReadyForMain
    <2>2. \A j \in KeyIds : acked'[j] # Nothing /\ IsBatch(j) /\ BackupOf(j) = k =>
             req.obj.size < BatchSize
      BY <1>0, <2>1, BackupRange DEF StoreCoherent
    <2>3. StoreCoherent' /\ NoStrangers'
      BY <1>0, <2>1, <2>2, ObjectTouched
    <2> QED BY <2>1, <2>3, QuietCaches DEF WriteChecked
  <1>5. CASE WriteFinish
    <2>1. /\ SyncCache(k, req.obj) /\ CacheTypes /\ at = "stored" /\ at' = "idle"
          /\ store[k] = req.obj /\ IndexFits(k) /\ SizeFits(k, req.obj.size)
      BY <1>0, <1>5 DEF WriteFinish, TypeOK, IndInv, InFlight, WriteChecked
    <2>2. \/ /\ store' = IF IsBatch(k) THEN [store EXCEPT ![b] = Nothing] ELSE store
             /\ acked' = [acked EXCEPT ![k] = req.obj]
          \/ UNCHANGED <<store, acked>>
      BY <1>5 DEF WriteFinish
    <2>3. \A j \in KeyIds : j # k => acked'[j] = acked[j]
      BY <1>0, <2>2 DEF TypeOK
    <2>4. UniqueSlots'
      BY <1>0, <2>1, SyncUnique
    <2>5. CacheCoherent'
      <3> SUFFICES ASSUME NEW j \in KeyIds, NoFalseBackup(j), acked'[j] # Nothing
                   PROVE  CacheOf(j)' \in {Nothing, acked'[j]}
        BY DEF CacheCoherent
      <3>1. CASE j = k
        <4>1. acked'[k] = req.obj
          BY <1>0, <2>2, <3>1 DEF TypeOK
        <4> QED BY <1>0, <2>1, <3>1, <4>1, SyncSelf
      <3>2. CASE j # k
        BY <1>0, <2>1, <2>3, <3>2, SyncOther DEF CacheCoherent
      <3> QED BY <3>1, <3>2
    <2>6. StoreCoherent' /\ NoStrangers'
      <3>1. CASE UNCHANGED <<store, acked>>
        BY <3>1, ObjectsUnchanged
      <3>2. CASE /\ store' = IF IsBatch(k) THEN [store EXCEPT ![b] = Nothing] ELSE store
                 /\ acked' = [acked EXCEPT ![k] = req.obj]
        <4>1. acked'[k] = req.obj /\ \A x \in StoreIds : store'[x] \in {Nothing, store[x]}
          BY <1>0, <3>2 DEF TypeOK
        <4>2. IsBatch(k) => store'[b] = Nothing
          BY <1>0, <3>2 DEF TypeOK
        <4>3. ASSUME NEW j \in KeyIds, acked'[j] # Nothing
              PROVE  /\ SizeFits(j, acked'[j].size) /\ IndexFits(j)
                     /\ store'[j] # Nothing /\ Loadable(j, store'[j]) =>
                          store'[j] = acked'[j]
                     /\ IsBatch(j) /\ store'[BackupOf(j)] # Nothing =>
                          store'[BackupOf(j)].size < BatchSize
          <5>1. j \in StoreIds /\ BackupOf(j) \in StoreIds
            BY StoreIdsNat
          <5>2. CASE j = k
            BY <1>0, <2>1, <4>1, <4>2, <5>2
          <5>3. CASE j # k
            BY <2>3, <4>1, <4>3, <5>1, <5>3 DEF StoreCoherent
          <5> QED BY <5>2, <5>3
        <4>4. StoreCoherent'
          BY <4>3 DEF StoreCoherent, Loadable, Acceptable
        <4>5. NoStrangers'
          BY <4>1 DEF NoStrangers
        <4> QED BY <4>4, <4>5
      <3> QED BY <2>2, <3>1, <3>2
    <2> QED BY <2>1, <2>4, <2>5, <2>6 DEF WriteChecked
  <1> QED BY <1>1, <1>2, <1>3, <1>4, <1>5 DEF Write

-----------------------------------------------------------------------------

LEMMA InitCoherent == Init => CacheInv
  <1> SUFFICES ASSUME Init PROVE CacheInv
    OBVIOUS
  <1>1. UniqueSlots
    BY DEF Init, ZeroCommon, FreeSlot, UniqueSlots
  <1> QED BY <1>1
          DEF Init, CacheInv, CacheCoherent, StoreCoherent, NoStrangers, WriteChecked

LEMMA StepCoherent == IndInv /\ CacheInv /\ [Next]_vars => CacheInv'
  <1> SUFFICES ASSUME IndInv, CacheInv, [Next]_vars PROVE CacheInv'
    OBVIOUS
  <1>1. CASE Next
    BY <1>1, CommandCoherent, WriteCoherent, EnvironmentCoherent DEF Next
  <1>2. CASE UNCHANGED vars
    <2>1. UNCHANGED <<store, acked, at, req>> /\ UNCHANGED caches
      BY <1>2 DEF vars
    <2> QED BY <2>1, QuietCaches, ObjectsUnchanged DEF CacheInv, WriteChecked
  <1> QED BY <1>1, <1>2

\* rpmb_cache_alloc_or_find_idx never gives a key a second slot, so that the
\* copy FROM_RAM finds, and the copy the CRC "stop loss" wipes, is the only one.
THEOREM NoSecondSlot == Spec => []UniqueSlots
  <1>1. CacheInv => UniqueSlots
    BY DEF CacheInv
  <1> QED BY <1>1, InitInd, StepInd, InitCoherent, StepCoherent, PTL DEF Spec

\* While the value a WRITE was acknowledged for stands, RAM holds that value or
\* nothing: through overwrites, failures, colliding backups, READ_TO_RAM with
\* and without recovery, RAM upsets, power losses and restarts.
THEOREM RamFollowsStorage == Spec => []CacheCoherent
  <1>1. CacheInv => CacheCoherent
    BY DEF CacheInv
  <1> QED BY <1>1, InitInd, StepInd, InitCoherent, StepCoherent, PTL DEF Spec

-----------------------------------------------------------------------------
(* Whose data the caches hold *)

\* The strengthening of RamServesOwnKey: a cache entry was written under the key
\* it is found by; a common entry of another key has a wrong CRC.
CachesOwn ==
  /\ \A k \in Kuks : kukCache[k] # Nothing => kukCache[k].key = k
  /\ \A k \in Eccs : eccCache[k].obj # Nothing => eccCache[k].obj.key = k
  /\ \A b \in Blocks : batchCache[b].obj # Nothing => batchCache[b].obj.key = BatchMeter + b
  /\ \A k \in KeyIds :
       IsNormal(k) /\ IndexFits(k) /\ NoFalseBackup(k) /\ normalCache[NormalIndex(k)] # Nothing
         => normalCache[NormalIndex(k)].key = k
  /\ \A s \in Slots : commonCache[s].valid /\ ~commonCache[s].bad =>
                       commonCache[s].obj.key = commonCache[s].id

\* ... and so is what READ_TO_RAM could load, also from the backup of a block.
StoreOwn ==
  \A k \in KeyIds :
    /\ store[k] # Nothing /\ Loadable(k, store[k]) => store[k].key = k
    /\ IsBatch(k) /\ IndexFits(k) =>
         /\ store[k] # Nothing => store[k].size \in {0, BatchSize}
         /\ store[BackupOf(k)] # Nothing /\ store[BackupOf(k)].size >= BatchSize =>
              store[BackupOf(k)].key = k

ReqOwn == Writing => req.obj.key = req.id

OwnInv == CachesOwn /\ StoreOwn /\ ReqOwn /\ RamServesOwnKey

\* An object of the size of a block is not loaded for the key it is a backup under.
LEMMA BackupNotLoaded ==
  ASSUME NEW k \in KeyIds, IsBatch(k), IndexFits(k), NEW d, d.size \in {0, BatchSize}
  PROVE  ~Loadable(BackupOf(k), d)
  <1>1. k \in Nat /\ k >= 100 /\ k < 220
    BY ConstantsAssumption
       DEF IsBatch, IndexFits, BlockOf, BatchMeter, NormalMinId, MaxBatchBlocks
  <1>2. BackupOf(k) \notin KukIds /\ BackupOf(k) \notin EccIds
    BY <1>1 DEF BackupOf, KukIds, EccIds
  <1>3. CASE IsBatch(BackupOf(k))
    <2>1. ~IndexFits(BackupOf(k))
      BY <1>1, <1>3 DEF BackupOf, IndexFits, BlockOf, BatchMeter, MaxBatchBlocks
    <2> QED BY <1>2, <1>3, <2>1 DEF Loadable, Acceptable, IsKuk, IsEcc
  <1>4. CASE ~IsBatch(BackupOf(k))
    <2>1. IsNormal(BackupOf(k))
      BY <1>1, <1>4 DEF BackupOf, IsBatch, IsNormal, BatchMeter, NormalMinId, NormalMaxId
    <2>2. ~(BatchSize <= NormalBlockSize)
      BY DEF BatchSize, NormalBlockSize
    <2> QED BY <1>2, <1>4, <2>1, <2>2 DEF Loadable, Acceptable, IsKuk, IsEcc
  <1> QED BY <1>3, <1>4

LEMMA SyncOwn ==
  ASSUME CacheTypes, CachesOwn, NEW k \in KeyIds, NEW d \in Object, SyncCache(k, d),
         d.key = k \/ IsCommon(k) \/ (IsNormal(k) /\ ~NoFalseBackup(k))
  PROVE  CachesOwn'
  <1>0. ~IsCommon(k) /\ ~IsNormal(k) => d.key = k
    OBVIOUS
  <1>1. \A j \in Kuks : kukCache'[j] # Nothing => kukCache'[j].key = j
    BY <1>0, Classes DEF CachesOwn, SyncCache, SyncKuk, CacheTypes, IsCommon
  <1>2. \A j \in Eccs : eccCache'[j].obj # Nothing => eccCache'[j].obj.key = j
    BY <1>0, Classes DEF CachesOwn, SyncCache, CacheTypes, IsCommon
  <1>3. \A b \in Blocks : batchCache'[b].obj # Nothing =>
                         batchCache'[b].obj.key = BatchMeter + b
    <2>1. CASE IsBatch(k)
      <3>1. d.key = BatchMeter + BlockOf(k)
        BY <1>0, <2>1, Classes, ConstantsAssumption DEF IsCommon, BlockOf, BatchMeter
      <3> QED BY <2>1, <3>1 DEF CachesOwn, SyncCache, CacheTypes
    <2>2. CASE ~IsBatch(k)
      BY <2>2 DEF CachesOwn, SyncCache
    <2> QED BY <2>1, <2>2
  <1>4. ASSUME NEW j \in KeyIds, IsNormal(j), IndexFits(j), NoFalseBackup(j),
               normalCache'[NormalIndex(j)] # Nothing
        PROVE  normalCache'[NormalIndex(j)].key = j
    <2>1. CASE j = k
      BY <1>4, <2>1, Classes DEF SyncCache, CacheTypes, IsCommon
    <2>2. CASE j # k
      <3>1. normalCache'[NormalIndex(j)] = normalCache[NormalIndex(j)]
        BY <1>4, <2>2, Classes DEF SyncCache, CacheTypes
      <3> QED BY <1>4, <3>1 DEF CachesOwn
    <2> QED BY <2>1, <2>2
  <1>5. \A s \in Slots : commonCache'[s].valid /\ ~commonCache'[s].bad =>
                        commonCache'[s].obj.key = commonCache'[s].id
    BY DEF CachesOwn, SyncCache, CacheTypes, StampedSlot
  <1> QED BY <1>1, <1>2, <1>3, <1>4, <1>5 DEF CachesOwn, NoFalseBackup

LEMMA LostOwn ==
  ASSUME InstanceDies
  PROVE  CachesOwn'
  BY Classes DEF InstanceDies, CachesOwn, ZeroKuk, ZeroEcc, ZeroBatch, ZeroNormal, ZeroCommon,
                 FreeEcc, FreeBlock, FreeSlot

LEMMA UnchangedOwn ==
  ASSUME CachesOwn, UNCHANGED caches
  PROVE  CachesOwn'
  BY DEF CachesOwn, caches

LEMMA UpsetOwn ==
  ASSUME TypeOK, CachesOwn, RamUpset
  PROVE  CachesOwn'
  <1>1. kukCache' = kukCache /\ normalCache' = normalCache /\ CacheTypes
    BY DEF RamUpset, TypeOK
  <1>2. \A k \in Eccs : eccCache'[k].obj = eccCache[k].obj
    BY <1>1 DEF RamUpset, CacheTypes
  <1>3. \A b \in Blocks : batchCache'[b].obj = batchCache[b].obj
    <2>1. CASE batchCache' = batchCache
      BY <2>1
    <2>2. CASE \E b \in Blocks : \E i \in batchCache[b].used :
                 batchCache' = [batchCache EXCEPT ![b].bad = @ \cup {i}]
      <3>1. PICK b \in Blocks : \E i \in batchCache[b].used :
              batchCache' = [batchCache EXCEPT ![b].bad = @ \cup {i}]
        BY <2>2
      <3>2. batchCache[b] \in BatchEntry
        BY <1>1 DEF CacheTypes
      <3> QED BY <1>1, <3>1, <3>2 DEF CacheTypes, BatchEntry
    <2> QED BY <2>1, <2>2 DEF RamUpset
  <1>4. \A s \in Slots : commonCache'[s] \in {commonCache[s], [commonCache[s] EXCEPT !.bad = TRUE]}
    BY <1>1 DEF RamUpset, CacheTypes
  <1>5. \A s \in Slots : commonCache'[s].valid /\ ~commonCache'[s].bad =>
                        commonCache'[s].obj.key = commonCache'[s].id
    <2> TAKE s \in Slots
    <2>1. commonCache[s] \in [valid : BOOLEAN, id : Nat, obj : Maybe, bad : BOOLEAN]
      BY <1>1 DEF CacheTypes
    <2>2. [commonCache[s] EXCEPT !.bad = TRUE].bad
      BY <2>1
    <2>3. commonCache'[s].bad \/ commonCache'[s] = commonCache[s]
      BY <1>4, <2>2
    <2> QED BY <2>3 DEF CachesOwn
  <1>6. \A b \in Blocks : batchCache'[b].obj # Nothing =>
                         batchCache'[b].obj.key = BatchMeter + b
    <2> TAKE b \in Blocks
    <2>1. batchCache[b].obj # Nothing => batchCache[b].obj.key = BatchMeter + b
      BY DEF CachesOwn
    <2> QED BY <1>3, <2>1
  <1>7. \A k \in Eccs : eccCache'[k].obj # Nothing => eccCache'[k].obj.key = k
    BY <1>2 DEF CachesOwn
  <1> QED BY <1>1, <1>5, <1>6, <1>7 DEF CachesOwn

\* Where RAM says the data comes from.
Owner(k) == IF IsBatch(k) THEN BatchMeter + SapBlock(k) ELSE k

LEMMA ServeOwn ==
  ASSUME NEW k \in KeyIds, NEW buf, NEW n, NEW obj, NEW bad, Serve(k, buf, n, obj, bad),
         obj # Nothing /\ (IsNormal(k) => NoFalseBackup(k)) => obj.key = Owner(k)
  PROVE  RamServesOwnKey'
  <1>1. CASE resp'.res # "SUCCESS"
    BY <1>1 DEF RamServesOwnKey
  <1>2. CASE resp'.id = k /\ resp'.obj = obj
    BY <1>2 DEF RamServesOwnKey, NoFalseBackup, Owner
  <1> QED BY <1>1, <1>2 DEF Serve, Respond

LEMMA OtherAnswer ==
  ASSUME RamServesOwnKey,
         resp' = resp \/ resp'.op # "FROM_RAM" \/ resp'.res # "SUCCESS"
  PROVE  RamServesOwnKey'
  BY DEF RamServesOwnKey, NoFalseBackup

LEMMA FromRamOwn ==
  ASSUME TypeOK, CachesOwn, RamServesOwnKey, NEW k \in KeyIds, NEW buf, FromRam(k, buf)
  PROVE  CachesOwn' /\ RamServesOwnKey'
  <1>0. CacheTypes
    BY DEF TypeOK
  <1>1. ASSUME NEW r, r # "SUCCESS", Respond("FROM_RAM", k, r, Nothing)
        PROVE  RamServesOwnKey'
    BY <1>1, OtherAnswer DEF Respond
  <1>2. CASE FromRamKuk(k, buf)
    <2>1. CachesOwn'
      BY <1>2, UnchangedOwn DEF FromRamKuk
    <2>2. kukCache[k] # Nothing => kukCache[k].key = Owner(k)
      BY <1>2, Classes DEF FromRamKuk, CachesOwn, Owner
    <2> QED BY <1>1, <1>2, <2>1, <2>2, ServeOwn DEF FromRamKuk
  <1>3. CASE FromRamEcc(k, buf)
    <2>1. \A j \in Eccs : eccCache'[j].obj # Nothing => eccCache'[j].obj.key = j
      BY <1>0, <1>3 DEF FromRamEcc, FreeEcc, CacheTypes, CachesOwn
    <2>2. UNCHANGED <<kukCache, batchCache, normalCache, commonCache>>
      BY <1>3 DEF FromRamEcc
    <2>3. CachesOwn'
      BY <2>1, <2>2 DEF CachesOwn
    <2>4. eccCache[k].obj # Nothing => eccCache[k].obj.key = Owner(k)
      BY <1>3, Classes DEF FromRamEcc, CachesOwn, Owner
    <2> QED BY <1>1, <1>3, <2>3, <2>4, ServeOwn DEF FromRamEcc
  <1>4. CASE FromRamBatch(k, buf)
    <2> DEFINE b == SapBlock(k)
               e == batchCache[b]
    <2>0. b \in Blocks /\ e \in BatchEntry
      BY <1>0, <1>4 DEF FromRamBatch, Blocks, CacheTypes
    <2>1. \A c \in Blocks : batchCache'[c].obj = batchCache[c].obj
      <3>1. CASE batchCache' = batchCache
        BY <3>1
      <3>2. CASE \E i : batchCache' = [batchCache EXCEPT ![SapBlock(k)].used = @ \ {i},
                                                        ![SapBlock(k)].bad = @ \ {i}]
        <4>1. \A c \in Blocks : batchCache[c] \in BatchEntry
          BY <1>0 DEF CacheTypes
        <4> QED BY <1>0, <3>2, <4>1 DEF CacheTypes, BatchEntry
      <3> QED BY <1>4, <3>1, <3>2 DEF FromRamBatch
    <2>2. UNCHANGED <<kukCache, eccCache, normalCache, commonCache>>
      BY <1>4 DEF FromRamBatch
    <2>3. \A c \in Blocks : batchCache'[c].obj # Nothing =>
                           batchCache'[c].obj.key = BatchMeter + c
      <3> TAKE c \in Blocks
      <3>1. batchCache[c].obj # Nothing => batchCache[c].obj.key = BatchMeter + c
        BY DEF CachesOwn
      <3> QED BY <2>1, <3>1
    <2>4. CachesOwn'
      BY <2>2, <2>3 DEF CachesOwn
    <2>5. SapItem(k) \in e.used => [e.obj EXCEPT !.used = e.used].key = Owner(k)
      <3>1. SapItem(k) \in e.used => e.obj \in Object /\ e.obj # Nothing
        BY <2>0, ConstantsAssumption DEF BatchEntry, Maybe
      <3>2. e.obj # Nothing => e.obj.key = BatchMeter + b
        BY <2>0 DEF CachesOwn
      <3> QED BY <1>4, <3>1, <3>2 DEF Object, Owner, FromRamBatch
    <2> QED BY <1>1, <1>4, <2>4, <2>5, ServeOwn DEF FromRamBatch
  <1>5. CASE FromRamNormal(k, buf)
    <2>1. CachesOwn'
      BY <1>5, UnchangedOwn DEF FromRamNormal
    <2>2. IndexFits(k) /\ normalCache[NormalIndex(k)] # Nothing /\ NoFalseBackup(k) =>
            normalCache[NormalIndex(k)].key = Owner(k)
      BY <1>5, Classes DEF FromRamNormal, CachesOwn, Owner
    <2> QED BY <1>1, <1>5, <2>1, <2>2, ServeOwn DEF FromRamNormal
  <1>6. CASE FromRamCommon(k, buf)
    <2>0. Hits(k) # {} => SlotFor(k) \in Hits(k) /\ SlotFor(k) \in Slots
      BY SlotForIsHit
    <2>1. \A s \in Slots : commonCache'[s].valid /\ ~commonCache'[s].bad =>
                          commonCache'[s].obj.key = commonCache'[s].id
      BY <1>0, <1>6 DEF FromRamCommon, CachesOwn, CacheTypes, FreeSlot
    <2>2. UNCHANGED <<kukCache, eccCache, batchCache, normalCache>>
      BY <1>6 DEF FromRamCommon
    <2>3. CachesOwn'
      BY <2>1, <2>2 DEF CachesOwn
    <2>4. Hits(k) # {} /\ ~commonCache[SlotFor(k)].bad =>
            commonCache[SlotFor(k)].obj.key = Owner(k)
      BY <1>6, <2>0 DEF FromRamCommon, IsCommon, CachesOwn, Owner, Hits
    <2> QED BY <1>1, <1>6, <2>3, <2>4, ServeOwn DEF FromRamCommon
  <1> QED BY <1>2, <1>3, <1>4, <1>5, <1>6 DEF FromRam

\* Putting o under x.
LEMMA OwnTouched ==
  ASSUME TypeOK, StoreOwn, NEW x \in StoreIds, NEW o,
         store' = [store EXCEPT ![x] = o] \/ store' = store,
         x \in KeyIds => (o # Nothing /\ Loadable(x, o) => o.key = x),
         x \in KeyIds /\ IsBatch(x) /\ IndexFits(x) =>
           (o # Nothing => o.size \in {0, BatchSize}),
         \A j \in KeyIds : IsBatch(j) /\ IndexFits(j) /\ BackupOf(j) = x =>
           (o # Nothing /\ o.size >= BatchSize => o.key = j)
  PROVE  StoreOwn'
  <1>1. store' = store \/ (store'[x] = o /\ \A y \in StoreIds : y # x => store'[y] = store[y])
    BY DEF TypeOK
  <1> SUFFICES ASSUME NEW k \in KeyIds
               PROVE /\ store'[k] # Nothing /\ Loadable(k, store'[k]) => store'[k].key = k
                     /\ IsBatch(k) /\ IndexFits(k) =>
                          /\ store'[k] # Nothing => store'[k].size \in {0, BatchSize}
                          /\ store'[BackupOf(k)] # Nothing
                               /\ store'[BackupOf(k)].size >= BatchSize =>
                               store'[BackupOf(k)].key = k
    BY DEF StoreOwn, Loadable, Acceptable
  <1>2. k \in StoreIds /\ BackupOf(k) \in StoreIds
    BY StoreIdsNat
  <1>3. store'[k] # Nothing /\ Loadable(k, store'[k]) => store'[k].key = k
    BY <1>1, <1>2 DEF StoreOwn
  <1>4. IsBatch(k) /\ IndexFits(k) /\ store'[k] # Nothing => store'[k].size \in {0, BatchSize}
    BY <1>1, <1>2 DEF StoreOwn
  <1>5. IsBatch(k) /\ IndexFits(k) /\ store'[BackupOf(k)] # Nothing
         /\ store'[BackupOf(k)].size >= BatchSize => store'[BackupOf(k)].key = k
    BY <1>1, <1>2 DEF StoreOwn
  <1> QED BY <1>3, <1>4, <1>5

LEMMA OwnUnchanged ==
  ASSUME StoreOwn, store' = store
  PROVE  StoreOwn'
  BY DEF StoreOwn, Loadable, Acceptable

\* What the recovery of a block or of a normal key can bring back.
LEMMA RecoveryOwn ==
  ASSUME TypeOK, NoStrangers, StoreOwn, NEW k \in KeyIds, k >= BatchMeter,
         IsBatch(k) \/ (IsNormal(k) /\ NoFalseBackup(k)),
         store[k] # Nothing, store[k].size > 0, store[BackupOf(k)] # Nothing,
         store[BackupOf(k)].size >= store[k].size,
         Acceptable(k, [store[BackupOf(k)] EXCEPT !.size = store[k].size])
  PROVE  store[BackupOf(k)].key = k
  <1>1. k \in Nat /\ k \in StoreIds /\ BackupOf(k) \in StoreIds
    BY ConstantsAssumption, StoreIdsNat
  <1>2. CASE IsBatch(k)
    <2>1. IndexFits(k)
      BY <1>2, Classes DEF Acceptable
    <2>2. store[k].size = BatchSize
      BY <1>2, <2>1 DEF StoreOwn
    <2> QED BY <1>2, <2>1, <2>2 DEF StoreOwn
  <1>3. CASE IsNormal(k) /\ NoFalseBackup(k)
    <2>1. BackupOf(k) \notin KeyIds /\ BackupOf(k) >= BackupOf(NormalMinId)
      BY <1>1, <1>3 DEF IsNormal, NoFalseBackup, BackupOf, NormalMinId
    <2> QED BY <1>1, <2>1 DEF NoStrangers
  <1> QED BY <1>2, <1>3

LEMMA DeliverOwn ==
  ASSUME TypeOK, CachesOwn, NEW k \in KeyIds, NEW d \in Object, Deliver(k, d),
         Acceptable(k, d) => d.key = k \/ IsCommon(k) \/ (IsNormal(k) /\ ~NoFalseBackup(k))
  PROVE  CachesOwn'
  BY SyncOwn, UnchangedOwn DEF Deliver, TypeOK

LEMMA ReadToRamOwn ==
  ASSUME IndInv, CacheInv, OwnInv, NEW k \in KeyIds, NEW buf \in BufSizes, ReadToRam(k, buf)
  PROVE  CachesOwn' /\ RamServesOwnKey'
  <1> USE DEF OwnInv
  <1>0. /\ TypeOK /\ NoStrangers /\ k \in StoreIds /\ BackupOf(k) \in StoreIds
        /\ store \in [StoreIds -> Maybe] /\ k \in Nat
    BY StoreIdsNat, ConstantsAssumption DEF IndInv, CacheInv, TypeOK
  <1>1. RamServesOwnKey'
    <2>1. resp'.op # "FROM_RAM"
      BY DEF ReadToRam, TryBackup, Deliver, OpenFails, Respond, InstanceDies, NoResp
    <2> QED BY <2>1, OtherAnswer
  <1>2. CASE UNCHANGED caches \/ InstanceDies
    BY <1>1, <1>2, UnchangedOwn, LostOwn
  <1>3. CASE Openable(k) /\ store[k].size \in 1..buf /\ Deliver(k, store[k])
    <2>1. store[k] \in Object /\ store[k].size > 0
      BY <1>0, <1>3, ConstantsAssumption DEF Openable, Maybe
    <2>2. Acceptable(k, store[k]) => store[k].key = k
      BY <1>3, <2>1 DEF StoreOwn, Loadable, Openable
    <2> QED BY <1>0, <1>1, <1>3, <2>1, <2>2, DeliverOwn
  <1>4. CASE /\ Openable(k) /\ store[k].size \in 1..buf
             /\ k >= BatchMeter /\ Openable(BackupOf(k))
             /\ store[BackupOf(k)].size >= store[k].size
             /\ Deliver(k, [store[BackupOf(k)] EXCEPT !.size = store[k].size])
    <2> DEFINE d == [store[BackupOf(k)] EXCEPT !.size = store[k].size]
    <2>1. store[BackupOf(k)] \in Object /\ store[k] \in Object /\ store[k].size > 0
      BY <1>0, <1>4, ConstantsAssumption DEF Openable, Maybe
    <2>2. d \in Object /\ d.key = store[BackupOf(k)].key
      BY <2>1 DEF Object
    <2>3. IsBatch(k) \/ IsNormal(k) \/ IsCommon(k)
      BY <1>0, <1>4
         DEF IsCommon, IsKuk, KukIds, IsEcc, EccIds, BatchMeter
    <2>4. Acceptable(k, d) => d.key = k \/ IsCommon(k) \/ (IsNormal(k) /\ ~NoFalseBackup(k))
      BY <1>0, <1>4, <2>1, <2>2, <2>3, RecoveryOwn DEF Openable
    <2> QED BY <1>0, <1>1, <1>4, <2>2, <2>4, DeliverOwn
  <1> QED BY <1>2, <1>3, <1>4 DEF ReadToRam, TryBackup

LEMMA CommandOwn ==
  ASSUME IndInv, CacheInv, OwnInv, Command
  PROVE  OwnInv'
  <1> USE DEF OwnInv
  <1>0. TypeOK
    BY DEF IndInv
  <1>1. PICK k \in KeyIds :
          \/ \E p \in Payloads : WriteRefused(k, p) \/ WriteCreate(k, p)
          \/ Delete(k)
          \/ \E buf \in BufSizes : ReadOnly(k, buf) \/ ReadToRam(k, buf) \/ FromRam(k, buf)
    BY DEF Command
  <1>2. k \in StoreIds
    BY StoreIdsNat
  <1>3. CASE \/ \E p \in Payloads : WriteRefused(k, p)
             \/ \E buf \in BufSizes : ReadOnly(k, buf)
    <2>1. UNCHANGED <<store, caches, at, req>> /\ resp'.op # "FROM_RAM" /\ at = "idle"
      BY <1>3 DEF WriteRefused, ReadOnly, OpenFails, Respond
    <2> QED BY <2>1, OwnUnchanged, UnchangedOwn, OtherAnswer DEF ReqOwn, Writing
  <1>4. CASE \E p \in Payloads : WriteCreate(k, p)
    <2>1. PICK p \in Payloads : WriteCreate(k, p)
      BY <1>4
    <2>2. /\ store' = [store EXCEPT ![k] = EmptyObject(k)] /\ UNCHANGED caches
          /\ resp'.op # "FROM_RAM"
      BY <2>1 DEF WriteCreate, NoResp
    <2>3. /\ EmptyObject(k).size \in {0, BatchSize} /\ EmptyObject(k).key = k
          /\ ~(EmptyObject(k).size >= BatchSize)
      BY DEF EmptyObject, BatchSize
    <2>4. StoreOwn'
      BY <1>0, <1>2, <2>2, <2>3, OwnTouched
    <2>5. ReqOwn'
      BY <2>1 DEF WriteCreate, ReqOwn, Seal
    <2> QED BY <2>2, <2>4, <2>5, UnchangedOwn, OtherAnswer
  <1>5. CASE Delete(k)
    <2>1. /\ UNCHANGED caches /\ resp'.op # "FROM_RAM" /\ UNCHANGED <<at, req>>
          /\ store' = [store EXCEPT ![k] = Nothing] \/ store' = store
      BY <1>5 DEF Delete, OpenFails, Respond, CloseAndDelete
    <2>2. StoreOwn'
      BY <1>0, <1>2, <2>1, OwnTouched
    <2> QED BY <2>1, <2>2, UnchangedOwn, OtherAnswer DEF ReqOwn, Writing
  <1>6. CASE \E buf \in BufSizes : ReadToRam(k, buf)
    <2>1. store' = store /\ at' \in {"idle", "closed"}
      BY <1>6 DEF ReadToRam, InstanceDies
    <2> QED BY <1>6, <2>1, ReadToRamOwn, OwnUnchanged DEF ReqOwn, Writing
  <1>7. CASE \E buf \in BufSizes : FromRam(k, buf)
    <2>1. store' = store /\ at' = "idle"
      BY <1>7 DEF FromRam
    <2> QED BY <1>0, <1>7, <2>1, FromRamOwn, OwnUnchanged DEF ReqOwn, Writing
  <1> QED BY <1>1, <1>3, <1>4, <1>5, <1>6, <1>7

LEMMA EnvironmentOwn ==
  ASSUME IndInv, OwnInv, Environment
  PROVE  OwnInv'
  <1> USE DEF OwnInv
  <1>1. /\ store' = store /\ at' \in {"idle", "closed"}
        /\ resp' = resp \/ resp'.op # "FROM_RAM"
    BY DEF Environment, OpenSession, CloseSession, PowerLoss, RamUpset, InstanceDies, NoResp
  <1>2. StoreOwn' /\ ReqOwn' /\ RamServesOwnKey'
    BY <1>1, OwnUnchanged, OtherAnswer DEF ReqOwn, Writing
  <1>3. CachesOwn'
    <2>1. CASE RamUpset
      BY <2>1, UpsetOwn DEF IndInv
    <2>2. CASE UNCHANGED caches \/ InstanceDies
      BY <2>2, UnchangedOwn, LostOwn
    <2> QED BY <2>1, <2>2 DEF Environment, OpenSession, CloseSession, PowerLoss
  <1> QED BY <1>2, <1>3

LEMMA WriteOwn ==
  ASSUME IndInv, CacheInv, OwnInv, Write
  PROVE  OwnInv'
  <1> USE DEF OwnInv
  <1> DEFINE k == req.id
             b == BackupOf(req.id)
  <1>0. /\ TypeOK /\ Writing /\ k \in KeyIds /\ k \in StoreIds /\ b \in StoreIds
        /\ req.obj \in Object /\ req.obj.size \in Nat /\ req.obj.key = k
    <2>1. TypeOK /\ Writing
      BY DEF IndInv, Write, WriteRejected, WriteBackup, WriteBackupFails, WriteMain,
             WriteMainFails, WriteFinish, ReadyForMain, Writing
    <2>2. k \in KeyIds /\ req.obj \in Object
      BY <2>1 DEF TypeOK
    <2> QED BY <2>1, <2>2, StoreIdsNat DEF Object, ReqOwn
  <1>1. RamServesOwnKey'
    <2>1. resp' = resp \/ resp'.op # "FROM_RAM"
      BY DEF Write, WriteRejected, WriteBackup, WriteBackupFails, WriteMain,
             WriteMainFails, WriteFinish, Respond
    <2> QED BY <2>1, OtherAnswer
  <1>2. ReqOwn'
    <2>1. req' = req \/ at' = "idle"
      BY DEF Write, WriteRejected, WriteBackup, WriteBackupFails, WriteMain,
             WriteMainFails, WriteFinish
    <2> QED BY <1>0, <2>1 DEF ReqOwn, Writing
  <1>3. CachesOwn'
    <2>1. CASE UNCHANGED caches
      BY <2>1, UnchangedOwn
    <2>2. CASE SyncCache(k, req.obj)
      BY <1>0, <2>2, SyncOwn DEF TypeOK
    <2> QED BY <2>1, <2>2 DEF Write, WriteRejected, WriteBackup, WriteBackupFails, WriteMain,
                              WriteMainFails, WriteFinish
  <1>4. StoreOwn'
    <2>1. CASE WriteRejected \/ WriteMainFails
      <3>1. store' = [store EXCEPT ![k] = Nothing] \/ store' = store
        BY <2>1 DEF WriteRejected, WriteMainFails, CloseAndDelete
      <3> QED BY <1>0, <3>1, OwnTouched
    <2>2. CASE WriteBackup \/ WriteBackupFails
      <3>1. /\ IsBatch(k) /\ IndexFits(k) /\ SizeFits(k, req.obj.size)
            /\ \/ store' = [store EXCEPT ![b] = req.obj]
               \/ store' = [store EXCEPT ![b] = EmptyObject(b)]
               \/ store' = store
        BY <2>2 DEF WriteBackup, WriteBackupFails
      <3>2. req.obj.size = BatchSize /\ EmptyObject(b).size = 0
        BY <1>0, <3>1, BackupRange DEF EmptyObject
      <3>3. ~Loadable(b, req.obj) /\ ~Loadable(b, EmptyObject(b))
        BY <1>0, <3>1, <3>2, BackupNotLoaded
      <3>4. \A j \in KeyIds : BackupOf(j) = b => j = k
        BY <1>0, BackupFacts
      <3> QED BY <1>0, <3>1, <3>2, <3>3, <3>4, OwnTouched DEF BatchSize
    <2>3. CASE WriteMain
      <3>1. /\ store' = [store EXCEPT ![k] = req.obj]
            /\ SizeFits(k, req.obj.size) /\ IndexFits(k)
        BY <2>3 DEF WriteMain, ReadyForMain
      <3>2. IsBatch(k) => req.obj.size = BatchSize
        BY <1>0, <3>1, BackupRange
      <3>3. \A j \in KeyIds : IsBatch(j) /\ IndexFits(j) /\ BackupOf(j) = k =>
               ~(req.obj.size >= BatchSize)
        <4>1. BatchSize \in Nat
          BY DEF BatchSize
        <4> QED BY <1>0, <3>1, <4>1, BackupRange
      <3> QED BY <1>0, <3>1, <3>2, <3>3, OwnTouched
    <2>4. CASE WriteFinish
      <3>1. store' = [store EXCEPT ![b] = Nothing] \/ store' = store
        BY <2>4 DEF WriteFinish
      <3> QED BY <1>0, <3>1, OwnTouched
    <2> QED BY <2>1, <2>2, <2>3, <2>4 DEF Write
  <1> QED BY <1>1, <1>2, <1>3, <1>4

LEMMA InitOwn == Init => OwnInv
  BY Classes DEF Init, OwnInv, CachesOwn, StoreOwn, ReqOwn, Writing, RamServesOwnKey, NoResp,
         ZeroKuk, ZeroEcc, ZeroBatch, ZeroNormal, ZeroCommon, FreeEcc, FreeBlock, FreeSlot,
         StoreIds, BackupIds

LEMMA StepOwn == IndInv /\ CacheInv /\ OwnInv /\ [Next]_vars => OwnInv'
  <1> SUFFICES ASSUME IndInv, CacheInv, OwnInv, [Next]_vars PROVE OwnInv'
    OBVIOUS
  <1>1. CASE Next
    BY <1>1, CommandOwn, WriteOwn, EnvironmentOwn DEF Next
  <1>2. CASE UNCHANGED vars
    <2>1. UNCHANGED <<store, at, req, resp>> /\ UNCHANGED caches
      BY <1>2 DEF vars
    <2> QED BY <2>1, OwnUnchanged, UnchangedOwn, OtherAnswer DEF OwnInv, ReqOwn, Writing
  <1> QED BY <1>1, <1>2

\* FROM_RAM never answers with the data of another key: colliding backups are
\* refused by the length checks of READ_TO_RAM, and a common entry recovered
\* from another key's object is exposed by its CRC.
THEOREM ServesOwnKey == Spec => []RamServesOwnKey
  <1>1. OwnInv => RamServesOwnKey
    BY DEF OwnInv
  <1> QED BY <1>1, InitInd, StepInd, InitCoherent, StepCoherent, InitOwn, StepOwn, PTL DEF Spec

-----------------------------------------------------------------------------
(* Written values are in RAM *)

AnswersAKey == resp.op = "WRITE" => resp.id \in KeyIds

LEMMA StepAnswers == ASSUME TypeOK, AnswersAKey, [Next]_vars PROVE AnswersAKey'
  <1>1. CASE Command
    <2>1. PICK k \in KeyIds :
            \/ \E p \in Payloads : WriteRefused(k, p) \/ WriteCreate(k, p)
            \/ Delete(k)
            \/ \E buf \in BufSizes : ReadOnly(k, buf) \/ ReadToRam(k, buf) \/ FromRam(k, buf)
      BY <1>1 DEF Command
    <2>2. CASE \E p \in Payloads : WriteRefused(k, p) \/ WriteCreate(k, p)
      BY <2>2 DEF WriteRefused, WriteCreate, Respond, NoResp, AnswersAKey
    <2>3. CASE Delete(k)
      BY <2>3 DEF Delete, OpenFails, Respond, AnswersAKey
    <2>4. CASE \E buf \in BufSizes : ReadOnly(k, buf)
      BY <2>4 DEF ReadOnly, OpenFails, Respond, AnswersAKey
    <2>5. CASE \E buf \in BufSizes : ReadToRam(k, buf)
      BY <2>5 DEF ReadToRam, TryBackup, Deliver, OpenFails, Respond, InstanceDies, NoResp,
                  AnswersAKey
    <2>6. CASE \E buf \in BufSizes : FromRam(k, buf)
      BY <2>6 DEF FromRam, FromRamKuk, FromRamEcc, FromRamBatch, FromRamNormal,
                  FromRamCommon, Serve, Respond, AnswersAKey
    <2> QED BY <2>1, <2>2, <2>3, <2>4, <2>5, <2>6
  <1>2. CASE Write
    <2>1. req.id \in KeyIds
      BY <1>2 DEF TypeOK, Writing, Write, WriteRejected, WriteBackup,
         WriteBackupFails, WriteMain, WriteMainFails, WriteFinish, ReadyForMain
    <2>2. resp' = resp \/ resp'.id = req.id
      BY <1>2 DEF Write, WriteRejected, WriteBackup, WriteBackupFails, WriteMain,
                  WriteMainFails, WriteFinish, Respond
    <2> QED BY <2>1, <2>2 DEF AnswersAKey
  <1>3. CASE Environment \/ UNCHANGED vars
    BY <1>3 DEF Environment, OpenSession, CloseSession, PowerLoss, RamUpset, InstanceDies,
                NoResp, vars, AnswersAKey
  <1> QED BY <1>1, <1>2, <1>3 DEF Next

WrittenInv == ReadYourWrites /\ AnswersAKey

LEMMA StepWritten == IndInv /\ CacheInv /\ WrittenInv /\ [Next]_vars => WrittenInv'
  <1> SUFFICES ASSUME IndInv, CacheInv, WrittenInv, [Next]_vars PROVE ReadYourWrites'
    BY StepAnswers DEF WrittenInv, IndInv
  <1>0. TypeOK /\ UniqueSlots /\ ReadYourWrites /\ AnswersAKey
    BY DEF IndInv, CacheInv, WrittenInv
  <1>1. ASSUME resp'.op # "WRITE" \/ resp'.res # "SUCCESS" PROVE ReadYourWrites'
    BY <1>1 DEF ReadYourWrites
  <1>2. ASSUME resp' = resp, UNCHANGED caches PROVE ReadYourWrites'
    <2>1. ASSUME NEW k \in KeyIds, resp.op = "WRITE", resp.res = "SUCCESS", resp.id = k
          PROVE  ReadYourWrites'
      <3>1. CacheOf(k)' = CacheOf(k) /\ Hits(k)' = Hits(k) /\ Free' = Free
        BY <1>2, CachesUnchanged DEF caches, Hits, Free
      <3>2. CacheOf(k) = resp.obj \/ (IsCommon(k) /\ Hits(k) = {} /\ Free = {})
        BY <1>0, <2>1 DEF ReadYourWrites
      <3>3. resp'.id = k /\ resp'.obj = resp.obj
        BY <1>2, <2>1
      <3> QED BY <3>1, <3>2, <3>3 DEF ReadYourWrites
    <2> QED BY <1>0, <1>1, <1>2, <2>1 DEF AnswersAKey
  <1>3. CASE Command
    <2>1. PICK k \in KeyIds :
            \/ \E p \in Payloads : WriteRefused(k, p) \/ WriteCreate(k, p)
            \/ Delete(k)
            \/ \E buf \in BufSizes : ReadOnly(k, buf) \/ ReadToRam(k, buf) \/ FromRam(k, buf)
      BY <1>3 DEF Command
    <2>2. CASE \E p \in Payloads : WriteRefused(k, p) \/ WriteCreate(k, p)
      BY <1>1, <2>2 DEF WriteRefused, WriteCreate, Respond, NoResp
    <2>3. CASE Delete(k)
      BY <1>1, <2>3 DEF Delete, OpenFails, Respond
    <2>4. CASE \E buf \in BufSizes : ReadOnly(k, buf)
      BY <1>1, <2>4 DEF ReadOnly, OpenFails, Respond
    <2>5. CASE \E buf \in BufSizes : ReadToRam(k, buf)
      BY <1>1, <2>5 DEF ReadToRam, TryBackup, Deliver, OpenFails, Respond, InstanceDies, NoResp
    <2>6. CASE \E buf \in BufSizes : FromRam(k, buf)
      BY <1>1, <2>6 DEF FromRam, FromRamKuk, FromRamEcc, FromRamBatch, FromRamNormal,
                        FromRamCommon, Serve, Respond
    <2> QED BY <2>1, <2>2, <2>3, <2>4, <2>5, <2>6
  <1>4. CASE Write
    <2>1. CASE WriteRejected \/ WriteBackupFails \/ WriteMainFails
      BY <1>1, <2>1 DEF WriteRejected, WriteBackupFails, WriteMainFails, Respond
    <2>2. CASE WriteBackup \/ WriteMain
      BY <1>2, <2>2 DEF WriteBackup, WriteMain
    <2>3. CASE WriteFinish
      <3>0. PICK k \in KeyIds : k = req.id
        BY <1>0, <2>3 DEF WriteFinish, TypeOK, Writing
      <3>1. PICK d \in Object : d = req.obj
        BY <1>0, <2>3 DEF WriteFinish, TypeOK, Writing
      <3>2. CacheTypes /\ SyncCache(k, d) /\ IndexFits(k)
        BY <1>0, <2>3, <3>0, <3>1 DEF WriteFinish, TypeOK, IndInv, InFlight
      <3>3. CacheOf(k)' = d \/ (IsCommon(k) /\ Hits(k)' = {} /\ Free' = {})
        BY <1>0, <3>2, SyncSelf
      <3>4. resp'.res # "SUCCESS" \/ (resp'.id = k /\ resp'.obj = d)
        BY <2>3, <3>0, <3>1 DEF WriteFinish, Respond
      <3> QED BY <1>1, <3>3, <3>4 DEF ReadYourWrites
    <2> QED BY <1>4, <2>1, <2>2, <2>3 DEF Write
  <1>5. CASE Environment
    <2>1. CASE OpenSession
      BY <1>2, <2>1 DEF OpenSession
    <2>2. CASE CloseSession \/ PowerLoss
      BY <1>1, <2>2 DEF CloseSession, PowerLoss, InstanceDies, NoResp
    <2>3. CASE RamUpset
      <3>1. resp' = resp /\ CacheTypes
        BY <1>0, <2>3 DEF RamUpset, TypeOK
      <3>2. \A s \in Slots : /\ commonCache'[s].valid = commonCache[s].valid
                            /\ commonCache'[s].id = commonCache[s].id
        BY <2>3, <3>1 DEF RamUpset, CacheTypes
      <3>3. ASSUME NEW k \in KeyIds, resp.op = "WRITE", resp.res = "SUCCESS", resp.id = k
            PROVE  ReadYourWrites'
        <4>1. Hits(k)' = Hits(k) /\ Free' = Free
          BY <3>2 DEF Hits, Free
        <4>2. CacheOf(k)' = CacheOf(k)
          BY <1>0, <2>3, CachesUpset
        <4>3. CacheOf(k) = resp.obj \/ (IsCommon(k) /\ Hits(k) = {} /\ Free = {})
          BY <1>0, <3>3 DEF ReadYourWrites
        <4>4. resp'.id = k /\ resp'.obj = resp.obj
          BY <3>1, <3>3
        <4> QED BY <4>1, <4>2, <4>3, <4>4 DEF ReadYourWrites
      <3> QED BY <1>0, <1>1, <3>1, <3>3 DEF AnswersAKey
    <2> QED BY <1>5, <2>1, <2>2, <2>3 DEF Environment
  <1>6. CASE UNCHANGED vars
    BY <1>2, <1>6 DEF vars
  <1> QED BY <1>3, <1>4, <1>5, <1>6 DEF Next

\* After a WRITE that reports success RAM holds what was written, except for a
\* common key that found every slot of its cache taken by other keys.
THEOREM WrittenIsInRam == Spec => []ReadYourWrites
  <1>1. Init => WrittenInv
    BY DEF Init, WrittenInv, AnswersAKey, ReadYourWrites, NoResp
  <1>2. WrittenInv => ReadYourWrites
    BY DEF WrittenInv
  <1> QED BY <1>1, <1>2, InitInd, StepInd, InitCoherent, StepCoherent, StepWritten, PTL DEF Spec

=============================================================================

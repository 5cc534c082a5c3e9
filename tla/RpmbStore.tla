------------------------------ MODULE RpmbStore ------------------------------
(***************************************************************************)
(* The ly_rpmb trusted application: persistent keys in RPMB storage,       *)
(* mirrored in RAM caches of the TA instance.                              *)
(*                                                                         *)
(* One client has one session at a time (the TA is SINGLE_INSTANCE without *)
(* MULTI_SESSION), so commands do not overlap; what makes the TA hard is   *)
(* that a command is a sequence of storage calls, each of which may fail,  *)
(* and that power may be lost or the instance may panic between any two of *)
(* them.  A WRITE is therefore split at its storage calls (at = "created", *)
(* "backed", "stored"); the other commands change storage at most once and *)
(* are one action.                                                         *)
(*                                                                         *)
(* The OP-TEE persistent object API is external: an object write is        *)
(* atomic, a call may return an error (at most MaxFaults times), and a     *)
(* handle opened for WRITE_META is exclusive until closed or until the     *)
(* instance dies.                                                          *)
(***************************************************************************)
EXTENDS RpmbKeys, FiniteSets

CONSTANTS
  KeyIds,        \* key identifiers the client uses
  Payloads,      \* what the client passes to WRITE, see Payload below
  Vals,          \* abstract key material
  BufSizes,      \* output buffer sizes the client passes to the reads
  SlotCount,     \* RPMB_KEY_CACHE_MAX_CNT
  MaxFaults,     \* bound on storage errors and RAM upsets in a behaviour
  BadHandleOutcomes, \* what closing-and-deleting a non-handle may do
  Nothing        \* no object; zeroed memory

Payload == [size : Nat, val : Vals, used : SUBSET Items, valid : BOOLEAN]
Object  == [size : Nat, val : Vals, used : SUBSET Items, valid : BOOLEAN,
            key : Nat]

ASSUME ConstantsAssumption ==
  /\ KeyIds \subseteq Nat
  /\ Payloads \subseteq Payload
  /\ Vals # {}
  /\ BufSizes \subseteq Nat
  /\ SlotCount \in Nat /\ MaxFaults \in Nat
  /\ BadHandleOutcomes \subseteq {"panic", "ignored"}
  /\ Nothing \notin Object

BackupIds == {BackupOf(k) : k \in KeyIds}
StoreIds  == KeyIds \cup BackupIds
Slots     == 1..SlotCount
Blocks    == {BlockOf(k) : k \in {j \in KeyIds : IsBatch(j) /\ IndexFits(j)}}
               \cup {SapBlock(k) : k \in {j \in KeyIds : IsBatch(j)}}
Normals   == {NormalIndex(k) : k \in {j \in KeyIds : IsNormal(j) /\ IndexFits(j)}}
Kuks      == KeyIds \cap KukIds
Eccs      == KeyIds \cap EccIds

VARIABLES
  store,        \* StoreIds -> object in RPMB, or Nothing
  held,         \* identifiers with an open exclusive handle
  at,           \* where the TA is: no instance, idle, or inside a WRITE
  req,          \* the WRITE in progress: its key and the sealed object
  kukCache, eccCache, batchCache, normalCache, commonCache,  \* the RAM caches
  resp,         \* the last response to the client
  faults,       \* faults the environment may still inject
  acked,        \* history: last object whose WRITE returned TEE_SUCCESS ...
  shielded      \* history: last batch block whose backup copy was written
                \* (both forgotten when the client touches the object again)

caches == <<kukCache, eccCache, batchCache, normalCache, commonCache>>
vars == <<store, held, at, req, caches, resp, faults, acked, shielded>>

EmptyObject(k) ==       \* what TEE_CreatePersistentObject leaves behind
  [size |-> 0, val |-> CHOOSE v \in Vals : TRUE, used |-> {}, valid |-> FALSE,
   key |-> k]

\* The object the handler writes for payload p: validity flags set, key
\* identifier filled in, CRC computed over the result.
Seal(k, p) ==
  [size |-> p.size, val |-> p.val, used |-> IF IsBatch(k) THEN p.used ELSE {},
   valid |-> IF IsKuk(k) THEN p.valid ELSE TRUE, key |-> k]

FreeSlot == [valid |-> FALSE, id |-> 0, obj |-> Nothing, bad |-> FALSE]
FreeEcc  == [obj |-> Nothing, bad |-> FALSE]
FreeBlock == [obj |-> Nothing, used |-> {}, bad |-> {}]
NoResp   == [op |-> "none", id |-> 0, res |-> "none", obj |-> Nothing,
             bad |-> {}]
NoReq    == [id |-> 0, obj |-> Nothing]

ZeroKuk    == [k \in Kuks |-> Nothing]
ZeroEcc    == [k \in Eccs |-> FreeEcc]
ZeroBatch  == [b \in Blocks |-> FreeBlock]
ZeroNormal == [n \in Normals |-> Nothing]
ZeroCommon == [s \in Slots |-> FreeSlot]

Respond(op, k, res, obj) ==
  resp' = [op |-> op, id |-> k, res |-> res, obj |-> obj, bad |-> {}]

Fault(n) == faults >= n /\ faults' = faults - n
NoFault  == UNCHANGED faults

-----------------------------------------------------------------------------
(* Caches *)

Hits(k)   == {s \in Slots : commonCache[s].valid /\ commonCache[s].id = k}
Free      == {s \in Slots : ~commonCache[s].valid}
First(S)  == CHOOSE s \in S : \A t \in S : s <= t

FreeSlotFirst(k) ==        \* mutant: the free slot is looked for first
  IF Free # {} THEN First(Free) ELSE IF Hits(k) # {} THEN First(Hits(k)) ELSE 0

\* rpmb_cache_alloc_or_find_idx: the slot holding k, else the first free one,
\* else 0 (the code's -1).
SlotFor(k) == IF Hits(k) # {} THEN First(Hits(k))
              ELSE IF Free # {} THEN First(Free) ELSE 0

SyncNoKuk(k, d) == kukCache' = kukCache          \* mutant: the copy is forgotten

SyncKuk(k, d) ==
  kukCache' = IF k \in Kuks THEN [kukCache EXCEPT ![k] = d] ELSE kukCache

UnprotectedSlot(k, d) ==   \* mutant: the CRC does not cover the key identifier
  [valid |-> TRUE, id |-> k, obj |-> d, bad |-> FALSE]

\* A common slot is stamped with k, which leaves its CRC wrong when d was
\* sealed under another key.
StampedSlot(k, d) == [valid |-> TRUE, id |-> k, obj |-> d, bad |-> d.key # k]

\* Copy the object d into the cache that serves k, if there is room.
SyncCache(k, d) ==
  /\ SyncKuk(k, d)
  /\ eccCache' = IF k \in Eccs
                   THEN [eccCache EXCEPT ![k] = [obj |-> d, bad |-> FALSE]]
                   ELSE eccCache
  /\ batchCache' = IF IsBatch(k)
                     THEN [batchCache EXCEPT ![BlockOf(k)] =
                             [obj |-> d, used |-> d.used, bad |-> {}]]
                     ELSE batchCache
  /\ normalCache' = IF IsNormal(k)
                      THEN [normalCache EXCEPT ![NormalIndex(k)] = d]
                      ELSE normalCache
  /\ commonCache' = IF IsCommon(k) /\ SlotFor(k) # 0
                      THEN [commonCache EXCEPT ![SlotFor(k)] = StampedSlot(k, d)]
                      ELSE commonCache

-----------------------------------------------------------------------------
(* Sessions, power loss, RAM upsets *)

\* The last close, a panic or a power loss destroys the instance: its RAM and
\* its handles are gone, storage stays.
InstanceDies ==
  /\ at' = "closed" /\ held' = {} /\ req' = NoReq /\ resp' = NoResp
  /\ kukCache' = ZeroKuk /\ eccCache' = ZeroEcc /\ batchCache' = ZeroBatch
  /\ normalCache' = ZeroNormal /\ commonCache' = ZeroCommon

OpenSession ==
  /\ at = "closed"
  /\ at' = "idle"
  /\ UNCHANGED <<store, held, req, caches, resp, faults, acked, shielded>>

CloseSession ==
  /\ at = "idle"
  /\ InstanceDies
  /\ UNCHANGED <<store, faults, acked, shielded>>

PowerLoss ==
  /\ at # "closed"
  /\ InstanceDies
  /\ UNCHANGED <<store, faults, acked, shielded>>

\* The upsets the CRCs are there to detect.
RamUpset ==
  /\ at = "idle" /\ Fault(1)
  /\ \/ /\ \E k \in Eccs : eccCache[k].obj # Nothing
                           /\ eccCache' = [eccCache EXCEPT ![k].bad = TRUE]
        /\ UNCHANGED <<batchCache, commonCache>>
     \/ /\ \E b \in Blocks : \E i \in batchCache[b].used :
             batchCache' = [batchCache EXCEPT ![b].bad = @ \cup {i}]
        /\ UNCHANGED <<eccCache, commonCache>>
     \/ /\ \E s \in Slots : commonCache[s].valid
                            /\ commonCache' = [commonCache EXCEPT ![s].bad = TRUE]
        /\ UNCHANGED <<eccCache, batchCache>>
  /\ UNCHANGED <<store, held, at, req, kukCache, normalCache, resp, acked, shielded>>

-----------------------------------------------------------------------------
(* TA_SECURE_STORAGE_CMD_WRITE_RAW: create_raw_object *)

\* The client touches the stored object of k: nothing is promised any more
\* about k, nor about a block whose backup lives under k.
Forget(k) ==
  /\ acked' = [acked EXCEPT ![k] = Nothing]
  /\ shielded' = [j \in KeyIds |-> IF j = k \/ BackupOf(j) = k
                                     THEN Nothing ELSE shielded[j]]

\* Refused before storage is touched.
WriteRefused(k, p) ==
  /\ at = "idle"
  /\ \/ /\ p.size = 0 \/ p.size > MaxObjectSize
        /\ Respond("WRITE", k, "BAD_PARAMETERS", Nothing) /\ NoFault
     \/ /\ p.size \in 1..MaxObjectSize
        /\ \/ k \in held /\ NoFault /\ Respond("WRITE", k, "ACCESS_CONFLICT", Nothing)
           \/ Fault(1) /\ Respond("WRITE", k, "STORAGE_ERROR", Nothing)
  /\ UNCHANGED <<store, held, at, req, caches, acked, shielded>>

\* TEE_CreatePersistentObject with OVERWRITE: the old content is gone.
WriteCreate(k, p) ==
  /\ at = "idle"
  /\ p.size \in 1..MaxObjectSize
  /\ k \notin held
  /\ store' = [store EXCEPT ![k] = EmptyObject(k)]
  /\ held' = held \cup {k}
  /\ at' = "created"
  /\ req' = [id |-> k, obj |-> Seal(k, p)]
  /\ Forget(k)
  /\ resp' = NoResp
  /\ UNCHANGED <<caches, faults>>

\* TEE_CloseAndDeletePersistentObject1 on an open handle, after f faults.
CloseAndDelete(k, f) ==
  /\ held' = held \ {k}
  /\ \/ store' = [store EXCEPT ![k] = Nothing] /\ faults >= f /\ faults' = faults - f
     \/ UNCHANGED store /\ Fault(f + 1)

WriteRejectedNoReturn ==   \* mutant: the return after the close is missing
  /\ at = "created"
  /\ ~(SizeFits(req.id, req.obj.size) /\ IndexFits(req.id))
  /\ CloseAndDelete(req.id, 0)
  /\ Respond("WRITE", req.id, "BAD_PARAMETERS", Nothing)
  /\ UNCHANGED <<at, req, caches, acked, shielded>>

\* The length or index checks after the creation.  KUK, ECC and common keys
\* close the handle and leave the empty object; an absurd batch length deletes
\* it; a wrong batch length, or an index out of range, returns with the handle
\* still open.
WriteRejected ==
  /\ at = "created"
  /\ LET k == req.id
         n == req.obj.size IN
     /\ ~(SizeFits(k, n) /\ IndexFits(k))
     /\ \/ /\ (IsKuk(k) \/ IsEcc(k) \/ IsCommon(k))
           /\ held' = held \ {k} /\ UNCHANGED store /\ NoFault
        \/ /\ IsBatch(k) /\ ~BatchSizeSane(n)
           /\ CloseAndDelete(k, 0)
        \/ /\ (IsBatch(k) /\ BatchSizeSane(n)) \/ IsNormal(k)
           /\ UNCHANGED <<held, store>> /\ NoFault
     /\ Respond("WRITE", k, "BAD_PARAMETERS", Nothing)
  /\ at' = "idle" /\ req' = NoReq
  /\ UNCHANGED <<caches, acked, shielded>>

\* A batch block is first written to its backup object ...
WriteBackup ==
  /\ at = "created"
  /\ LET b == BackupOf(req.id) IN
     /\ IsBatch(req.id) /\ SizeFits(req.id, req.obj.size) /\ IndexFits(req.id)
     /\ b \notin held
     /\ store' = [store EXCEPT ![b] = req.obj]
     /\ held' = held \cup {b}
  /\ shielded' = [shielded EXCEPT ![req.id] = req.obj]
  /\ at' = "backed"
  /\ UNCHANGED <<req, caches, resp, faults, acked>>

\* ... whose creation (refused, or failed) or write may fail.  The handles
\* opened so far stay open.
WriteBackupFails ==
  /\ at = "created"
  /\ LET b == BackupOf(req.id) IN
     /\ IsBatch(req.id) /\ SizeFits(req.id, req.obj.size) /\ IndexFits(req.id)
     /\ \/ b \in held /\ NoFault /\ UNCHANGED <<store, held>>
        \/ Fault(1) /\ UNCHANGED <<store, held>>
        \/ /\ b \notin held /\ Fault(1)
           /\ store' = [store EXCEPT ![b] = EmptyObject(b)]
           /\ held' = held \cup {b}
  /\ Respond("WRITE", req.id, "STORAGE_ERROR", Nothing)
  /\ at' = "idle" /\ req' = NoReq
  /\ UNCHANGED <<caches, acked, shielded>>

ReadyForMain ==
  /\ at = IF IsBatch(req.id) THEN "backed" ELSE "created"
  /\ SizeFits(req.id, req.obj.size) /\ IndexFits(req.id)

WriteMain ==
  /\ ReadyForMain
  /\ store' = [store EXCEPT ![req.id] = req.obj]
  /\ at' = "stored"
  /\ UNCHANGED <<held, req, caches, resp, faults, acked, shielded>>

WriteMainFailsWrongHandle ==   \* mutant: the backup is deleted, not the main object
  /\ ReadyForMain
  /\ Fault(1)
  /\ held' = held \ {BackupOf(req.id)}
  /\ store' = [store EXCEPT ![BackupOf(req.id)] = Nothing]
  /\ Respond("WRITE", req.id, "STORAGE_ERROR", Nothing)
  /\ at' = "idle" /\ req' = NoReq
  /\ UNCHANGED <<caches, acked, shielded>>

\* A failed write deletes the object; the backup handle stays open.
WriteMainFails ==
  /\ ReadyForMain
  /\ CloseAndDelete(req.id, 1)
  /\ Respond("WRITE", req.id, "STORAGE_ERROR", Nothing)
  /\ at' = "idle" /\ req' = NoReq
  /\ UNCHANGED <<caches, acked, shielded>>

MainLeftOpen(k) == held \ {BackupOf(k)}   \* mutant: TEE_CloseObject is missing

\* The handles still open once the object, and a batch block's backup, are closed.
Closed(k) == held \ (IF IsBatch(k) THEN {k, BackupOf(k)} ELSE {k})

\* Close, mirror in RAM, drop the backup, report.  For a batch block the
\* result is that of deleting the backup.
WriteFinish ==
  /\ at = "stored"
  /\ SyncCache(req.id, req.obj)
  /\ held' = Closed(req.id)
  /\ \/ /\ store' = IF IsBatch(req.id)
                       THEN [store EXCEPT ![BackupOf(req.id)] = Nothing] ELSE store
        /\ NoFault
        /\ acked' = [acked EXCEPT ![req.id] = req.obj]
        /\ Respond("WRITE", req.id, "SUCCESS", req.obj)
     \/ /\ IsBatch(req.id) /\ Fault(1)
        /\ UNCHANGED <<store, acked>>
        /\ Respond("WRITE", req.id, "STORAGE_ERROR", Nothing)
  /\ at' = "idle" /\ req' = NoReq
  /\ UNCHANGED shielded

-----------------------------------------------------------------------------
(* TA_SECURE_STORAGE_CMD_DELETE: delete_object *)

\* What opening the object of k answers when it does not open.
OpenFails(op, k) ==
  \/ store[k] = Nothing /\ Respond(op, k, "ITEM_NOT_FOUND", Nothing)
  \/ store[k] # Nothing /\ k \in held /\ Respond(op, k, "ACCESS_CONFLICT", Nothing)

Openable(k) == store[k] # Nothing /\ k \notin held

\* The caches are left as they are, and the result of the deletion is not
\* looked at: the response is that of the open.
Delete(k) ==
  /\ at = "idle"
  /\ \/ /\ OpenFails("DELETE", k)
        /\ UNCHANGED <<store, held, faults, acked, shielded>>
     \/ /\ Openable(k)
        /\ CloseAndDelete(k, 0)
        /\ Forget(k)
        /\ Respond("DELETE", k, "SUCCESS", Nothing)
  /\ UNCHANGED <<at, req, caches>>

-----------------------------------------------------------------------------
(* TA_SECURE_STORAGE_CMD_READ_ONLY: read_raw_object *)

ReadOnly(k, buf) ==
  /\ at = "idle"
  /\ \/ OpenFails("READ_ONLY", k) /\ NoFault
     \/ /\ Openable(k) /\ store[k].size > buf /\ NoFault
        /\ Respond("READ_ONLY", k, "SHORT_BUFFER", Nothing)
     \/ /\ Openable(k) /\ store[k].size <= buf
        /\ \/ NoFault /\ Respond("READ_ONLY", k, "SUCCESS", store[k])
           \/ Fault(1) /\ Respond("READ_ONLY", k, "STORAGE_ERROR", Nothing)
  /\ UNCHANGED <<store, held, at, req, caches, acked, shielded>>

-----------------------------------------------------------------------------
(* TA_SECURE_STORAGE_CMD_READ_TO_RAM: read_raw_object_to_ram *)

\* The checks of the five branches on the d.size bytes that were read.
Acceptable(k, d) ==
  CASE IsKuk(k)    -> d.size = KukSize /\ d.valid
    [] IsEcc(k)    -> d.size = EccSize
    [] IsBatch(k)  -> BatchSizeSane(d.size) /\ IndexFits(k)
    [] IsNormal(k) -> d.size <= NormalBlockSize /\ IndexFits(k)
    [] OTHER       -> d.size = CommonSize

Deliver(k, d) ==
  \/ /\ Acceptable(k, d)
     /\ SyncCache(k, d)
     /\ Respond("READ_TO_RAM", k, "SUCCESS", d)
  \/ /\ ~Acceptable(k, d)
     /\ UNCHANGED caches
     /\ Respond("READ_TO_RAM", k, "CORRUPT_OBJECT", Nothing)

\* After a failed read the code passes the identifier, not the handle, to the
\* close-and-delete call (it may panic); then, for every key from 100 up,
\* it reads the first store[k].size bytes of the object under k + 200.
TryBackup(k) ==
  LET b == BackupOf(k) IN
  \/ /\ k < BatchMeter
     /\ Fault(1) /\ UNCHANGED caches
     /\ Respond("READ_TO_RAM", k, "STORAGE_ERROR", Nothing)
  \/ /\ k >= BatchMeter /\ ~Openable(b)
     /\ Fault(1) /\ UNCHANGED caches
     /\ Respond("READ_TO_RAM", k, IF store[b] = Nothing THEN "ITEM_NOT_FOUND"
                                  ELSE "ACCESS_CONFLICT", Nothing)
  \/ /\ k >= BatchMeter /\ Openable(b)
     /\ \/ /\ Fault(2) /\ UNCHANGED caches
           /\ Respond("READ_TO_RAM", k, "STORAGE_ERROR", Nothing)
        \/ /\ Fault(1) /\ store[b].size < store[k].size
           /\ UNCHANGED caches     \* a short read: "data lost", res is TEE_SUCCESS
           /\ Respond("READ_TO_RAM", k, "SUCCESS", Nothing)
        \/ /\ Fault(1) /\ store[b].size >= store[k].size
           /\ Deliver(k, [store[b] EXCEPT !.size = store[k].size])

ReadToRam(k, buf) ==
  /\ at = "idle"
  /\ \/ OpenFails("READ_TO_RAM", k) /\ NoFault /\ UNCHANGED <<caches, at, held, req>>
     \/ /\ Openable(k) /\ NoFault /\ UNCHANGED <<at, held, req>>
        /\ \/ /\ store[k].size = 0 /\ UNCHANGED caches
              /\ Respond("READ_TO_RAM", k, "CORRUPT_OBJECT", Nothing)
           \/ /\ store[k].size > buf /\ UNCHANGED caches
              /\ Respond("READ_TO_RAM", k, "SHORT_BUFFER", Nothing)
           \/ /\ store[k].size \in 1..buf
              /\ Deliver(k, store[k])
     \/ /\ Openable(k) /\ store[k].size \in 1..buf
        /\ \/ "panic" \in BadHandleOutcomes /\ Fault(1) /\ InstanceDies
           \/ /\ "ignored" \in BadHandleOutcomes
              /\ TryBackup(k) /\ UNCHANGED <<at, held, req>>
  /\ UNCHANGED <<store, acked, shielded>>

-----------------------------------------------------------------------------
(* TA_SECURE_STORAGE_CMD_FROM_RAM: read_raw_object_from_ram *)

\* Answer with the n bytes of a cache entry, if the buffer can take them.
Serve(k, buf, n, obj, bad) ==
  \/ /\ n > buf
     /\ Respond("FROM_RAM", k, "SHORT_BUFFER", Nothing)
  \/ /\ n <= buf
     /\ resp' = [op |-> "FROM_RAM", id |-> k, res |-> "SUCCESS", obj |-> obj,
                 bad |-> bad]

FromRamKuk(k, buf) ==
  /\ IsKuk(k)
  /\ \/ /\ kukCache[k] # Nothing => ~kukCache[k].valid
        /\ Respond("FROM_RAM", k, "BAD_STATE", Nothing)
     \/ /\ kukCache[k] # Nothing /\ kukCache[k].valid
        /\ Serve(k, buf, KukSize, kukCache[k], {})
  /\ UNCHANGED caches

\* ECC and common entries that fail their CRC are wiped ("stop loss").
FromRamEcc(k, buf) ==
  /\ IsEcc(k)
  /\ LET e == eccCache[k] IN
     \/ /\ e.obj = Nothing /\ UNCHANGED eccCache
        /\ Respond("FROM_RAM", k, "BAD_STATE", Nothing)
     \/ /\ e.obj # Nothing /\ e.bad
        /\ eccCache' = [eccCache EXCEPT ![k] = FreeEcc]
        /\ Respond("FROM_RAM", k, "BAD_PARAMETERS", Nothing)
     \/ /\ e.obj # Nothing /\ ~e.bad /\ UNCHANGED eccCache
        /\ Serve(k, buf, EccSize, e.obj, {})
  /\ UNCHANGED <<kukCache, batchCache, normalCache, commonCache>>

\* The identifier names a meter; its item is checked, the block is served.
FromRamBatch(k, buf) ==
  /\ IsBatch(k)
  /\ LET e == batchCache[SapBlock(k)]
         i == SapItem(k) IN
     \/ /\ i \notin e.used /\ UNCHANGED batchCache
        /\ Respond("FROM_RAM", k, "BAD_STATE", Nothing)
     \/ /\ i \in e.used /\ i \in e.bad
        /\ batchCache' = [batchCache EXCEPT ![SapBlock(k)].used = @ \ {i},
                                           ![SapBlock(k)].bad = @ \ {i}]
        /\ Respond("FROM_RAM", k, "CORRUPT_OBJECT", Nothing)
     \/ /\ i \in e.used /\ i \notin e.bad /\ UNCHANGED batchCache
        /\ Serve(k, buf, BatchSize, [e.obj EXCEPT !.used = e.used], e.bad)
  /\ UNCHANGED <<kukCache, eccCache, normalCache, commonCache>>

\* No validity flag: an entry that was never loaded is served as zeros.
FromRamNormal(k, buf) ==
  /\ IsNormal(k)
  /\ \/ /\ ~IndexFits(k)
        /\ Respond("FROM_RAM", k, "BAD_PARAMETERS", Nothing)
     \/ /\ IndexFits(k)
        /\ Serve(k, buf, NormalBlockSize, normalCache[NormalIndex(k)], {})
  /\ UNCHANGED caches

FromRamCommon(k, buf) ==
  /\ IsCommon(k)
  /\ LET s == SlotFor(k)
         e == commonCache[s] IN
     \/ /\ s = 0 /\ UNCHANGED commonCache
        /\ Respond("FROM_RAM", k, "ITEM_NOT_FOUND", Nothing)
     \/ /\ s # 0 /\ Hits(k) = {} /\ UNCHANGED commonCache
        /\ Respond("FROM_RAM", k, "BAD_STATE", Nothing)
     \/ /\ Hits(k) # {} /\ e.bad
        /\ commonCache' = [commonCache EXCEPT ![s] = FreeSlot]
        /\ Respond("FROM_RAM", k, "BAD_PARAMETERS", Nothing)
     \/ /\ Hits(k) # {} /\ ~e.bad /\ UNCHANGED commonCache
        /\ Serve(k, buf, CommonSize, e.obj, {})
  /\ UNCHANGED <<kukCache, eccCache, batchCache, normalCache>>

FromRam(k, buf) ==
  /\ at = "idle"
  /\ \/ FromRamKuk(k, buf)
     \/ FromRamEcc(k, buf)
     \/ FromRamBatch(k, buf)
     \/ FromRamNormal(k, buf)
     \/ FromRamCommon(k, buf)
  /\ UNCHANGED <<store, held, at, req, faults, acked, shielded>>

-----------------------------------------------------------------------------

Init ==
  /\ store = [k \in StoreIds |-> Nothing]
  /\ held = {} /\ at = "closed" /\ req = NoReq
  /\ kukCache = ZeroKuk /\ eccCache = ZeroEcc /\ batchCache = ZeroBatch
  /\ normalCache = ZeroNormal /\ commonCache = ZeroCommon
  /\ resp = NoResp
  /\ faults \in 0..MaxFaults
  /\ acked = [k \in KeyIds |-> Nothing]
  /\ shielded = [k \in KeyIds |-> Nothing]

\* TA_InvokeCommandEntryPoint dispatches one command of the client.
Command ==
  \E k \in KeyIds :
    \/ \E p \in Payloads : WriteRefused(k, p) \/ WriteCreate(k, p)
    \/ Delete(k)
    \/ \E buf \in BufSizes : ReadOnly(k, buf) \/ ReadToRam(k, buf) \/ FromRam(k, buf)

\* The rest of create_raw_object.
Write ==
  \/ WriteRejected
  \/ WriteBackup \/ WriteBackupFails
  \/ WriteMain \/ WriteMainFails
  \/ WriteFinish

Environment == OpenSession \/ CloseSession \/ PowerLoss \/ RamUpset

Next == Command \/ Write \/ Environment

Spec == Init /\ [][Next]_vars

-----------------------------------------------------------------------------
(* Properties *)

Maybe == Object \cup {Nothing}
Results == {"none", "SUCCESS", "BAD_PARAMETERS", "ITEM_NOT_FOUND", "BAD_STATE",
            "ACCESS_CONFLICT", "SHORT_BUFFER", "CORRUPT_OBJECT", "STORAGE_ERROR"}
Ops == {"none", "WRITE", "DELETE", "READ_ONLY", "READ_TO_RAM", "FROM_RAM"}

\* A block that was never loaded has no valid meter.
BatchEntry == {e \in [obj : Maybe, used : SUBSET Items, bad : SUBSET Items] :
                 e.obj = Nothing => e.used = {}}

CacheTypes ==
  /\ kukCache \in [Kuks -> Maybe]
  /\ eccCache \in [Eccs -> [obj : Maybe, bad : BOOLEAN]]
  /\ batchCache \in [Blocks -> BatchEntry]
  /\ normalCache \in [Normals -> Maybe]
  /\ commonCache \in [Slots -> [valid : BOOLEAN, id : Nat, obj : Maybe, bad : BOOLEAN]]

Writing == at \in {"created", "backed", "stored"}

\* Every variable of the TA keeps its type, and a WRITE in progress always has
\* its key, its sealed object and the exclusive handle on the key.
TypeOK ==
  /\ store \in [StoreIds -> Maybe]
  /\ held \subseteq StoreIds
  /\ at \in {"closed", "idle", "created", "backed", "stored"}
  /\ req \in [id : Nat, obj : Maybe]
  /\ Writing => req.id \in KeyIds \cap held /\ req.obj \in Object
  /\ CacheTypes
  /\ resp \in [op : Ops, id : Nat, res : Results, obj : Maybe, bad : SUBSET Items]
  /\ faults \in 0..MaxFaults
  /\ acked \in [KeyIds -> Maybe]
  /\ shielded \in [KeyIds -> Maybe]

\* The backup object of some batch block the client writes has this id: ids
\* 400..409 double as normal keys and as backups of blocks 200..209.
IsBackupId(k) == \E j \in KeyIds : IsBatch(j) /\ BackupOf(j) = k

\* What a WRITE answered TEE_SUCCESS for is in storage, unlocked, through power
\* loss, panics, failed commands on other keys and restarts, until the client
\* writes or deletes that very key (create_raw_object, delete_object).
AckDurable ==
  \A k \in KeyIds : acked[k] # Nothing /\ ~IsBackupId(k) =>
                      store[k] = acked[k] /\ k \notin held

\* The purpose of the backup object: from the moment it is written, the new
\* block exists complete in its main or in its backup object, whatever step
\* of create_raw_object fails or is cut off afterwards.
BlockSurvives ==
  \A k \in KeyIds : shielded[k] # Nothing =>
                      shielded[k] \in {store[k], store[BackupOf(k)]}

\* The object the caches hold for k.
CacheOf(k) ==
  IF IsKuk(k) THEN kukCache[k]
  ELSE IF IsEcc(k) THEN eccCache[k].obj
  ELSE IF ~IndexFits(k) THEN Nothing
  ELSE IF IsBatch(k) THEN batchCache[BlockOf(k)].obj
  ELSE IF IsNormal(k) THEN normalCache[NormalIndex(k)]
  ELSE IF Hits(k) = {} THEN Nothing ELSE commonCache[SlotFor(k)].obj

\* No other key of the client sits where READ_TO_RAM looks for a backup of k.
\* Only batch blocks have backups, but the code looks for one from 100 up.
NoFalseBackup(k) == k >= NormalMinId => BackupOf(k) \notin KeyIds

\* As long as the acknowledged value of k stands, the caches hold that value
\* or nothing: no sequence of commands, failures and restarts leaves an older
\* value in RAM behind a newer acknowledged one.
CacheCoherent ==
  \A k \in KeyIds : NoFalseBackup(k) /\ acked[k] # Nothing =>
                      CacheOf(k) \in {Nothing, acked[k]}

\* A FROM_RAM that succeeds serves the object that was written under the key
\* asked for (for a meter: under the block of that meter), never another's.
\* For common keys this holds even after a recovery from a false backup: the
\* slot is stamped with the key, and the CRC exposes it.
RamServesOwnKey ==
  resp.op = "FROM_RAM" /\ resp.res = "SUCCESS" /\ resp.obj # Nothing
  /\ (IsNormal(resp.id) => NoFalseBackup(resp.id)) =>
    resp.obj.key = IF IsBatch(resp.id) THEN BatchMeter + SapBlock(resp.id)
                   ELSE resp.id

\* A key is never in two slots of the common cache, so the copy that
\* rpmb_cache_alloc_or_find_idx finds is the only one.
UniqueSlots ==
  \A s, t \in Slots :
    (commonCache[s].valid /\ commonCache[t].valid
      /\ commonCache[s].id = commonCache[t].id) => s = t

\* After a successful WRITE the caches hold the written object, except for a
\* common key that found the cache full (where the code still reports success).
ReadYourWrites ==
  resp.op = "WRITE" /\ resp.res = "SUCCESS" =>
    \/ CacheOf(resp.id) = resp.obj
    \/ IsCommon(resp.id) /\ Hits(resp.id) = {} /\ Free = {}

-----------------------------------------------------------------------------
\* "Recovery success from backup", refuted by the run claim_ownkey: the data
\* READ_TO_RAM returns is a copy of the key asked for.
RecoveryReturnsOwnKey ==
  resp.op = "READ_TO_RAM" /\ resp.obj # Nothing => resp.obj.key = resp.id
=============================================================================

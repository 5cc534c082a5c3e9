------------------------------ MODULE RpmbKeys ------------------------------
(***************************************************************************)
(* Key identifiers of the ly_rpmb trusted application (TA): the classes    *)
(* its handlers branch on, the ranges and sizes of each class, and the     *)
(* arithmetic that leads from an identifier to a cache index.              *)
(*                                                                         *)
(* The TA keeps one persistent object per 32-bit key identifier.  The      *)
(* class of an identifier decides which structure the object holds, which  *)
(* RAM cache mirrors it and what the handlers check.                       *)
(***************************************************************************)
EXTENDS Integers

KukIds == {10, 12}            \* KUK0_RPMB_KEY_ID, KUK1_RPMB_KEY_ID
EccIds == {2, 4, 6, 8}        \* saved and used key pairs, DCU and MTR

BatchMeter       == 100
NormalMinId      == 400
NormalMaxId      == 500
MaxBatchBlocks   == 120
NormalCacheCount == 10
NormalBlockSize  == 256
MaxObjectSize    == 16 * 1024

Items == 0..9                 \* the ten meters of a batch block

IsKuk(k)    == k \in KukIds
IsEcc(k)    == k \in EccIds
IsBatch(k)  == k >= BatchMeter /\ k < NormalMinId
IsNormal(k) == k >= NormalMinId /\ k < NormalMaxId
IsCommon(k) == ~(IsKuk(k) \/ IsEcc(k) \/ IsBatch(k) \/ IsNormal(k))

(***************************************************************************)
(* Sizes in bytes of the structures; a wrapped AES key has 68 bytes.       *)
(***************************************************************************)
KukSize    == 72              \* sizeof(KUK_RPMB_Storage)
EccSize    == 1612            \* sizeof(ECC_RPMB_Key_Storage)
CommonSize == 300             \* sizeof(RPMB_Key_Storage)
BatchSize  == 3000            \* sizeof(RPMB_Key_Batch_Block)

BackupOf(k) == k + 200        \* backup_block_id, and backup_key_id on reads

\* FROM_RAM takes a batch identifier for a meter number, ten meters to a block
SapBlock(k) == (k - BatchMeter) \div 10
SapItem(k)  == (k - BatchMeter) % 10
\* ... where WRITE and READ_TO_RAM take it for a block number.
BlockOf(k) == k - BatchMeter

NormalIndex(k) == k - NormalMinId

\* Whether a write of n bytes under k passes the checks that follow the
\* creation of the object.
SizeFits(k, n) ==
  \/ IsKuk(k)    /\ n = KukSize
  \/ IsEcc(k)    /\ n = EccSize
  \/ IsBatch(k)  /\ n = BatchSize
  \/ IsNormal(k) /\ n <= NormalBlockSize
  \/ IsCommon(k) /\ n = CommonSize

IndexFits(k) ==
  /\ IsBatch(k)  => BlockOf(k) < MaxBatchBlocks
  /\ IsNormal(k) => NormalIndex(k) < NormalCacheCount

\* The coarse length check that precedes the exact one for batch blocks.
BatchSizeSane(n) == n >= 64 /\ n <= 4096
=============================================================================

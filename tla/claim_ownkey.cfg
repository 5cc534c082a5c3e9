SPECIFICATION MCSpec
CONSTANTS
  Uses <- FalseUses
  KeyIds <- AllIds
  Payloads <- AllLoads
  BufSizes <- AllBufs
  Vals = {1, 2}
  SlotCount = 2
  MaxFaults = 2
  BadHandleOutcomes = {"panic", "ignored"}
  Nothing = Nothing
INVARIANTS
  RecoveryReturnsOwnKey

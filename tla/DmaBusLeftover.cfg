SPECIFICATION Spec
CONSTANTS
    BurstSize <- BuiltBurstSize
    Mod4 = 16
    Mod17 = 131072
    Mod32 <- BuiltMod32
    Word <- BuiltWord
    Zero = 0
    AddressUnit = 1
    Memory <- BuiltMemory
    Transfers <- TestbenchTransfers
    MaxPending = 2
INVARIANTS
    OwnWords

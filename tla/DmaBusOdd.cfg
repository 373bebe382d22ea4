SPECIFICATION FairSpec
CONSTANTS
    BurstSize <- SmallBurstSize
    Mod4 = 4
    Mod17 = 8
    Mod32 = 64
    Word <- SmallWord
    Zero = 0
    AddressUnit = 2
    Memory <- SmallMemory
    Transfers <- OddTransfers
    MaxPending = 2
INVARIANTS
    TypeOK
    FinishedAtLength
PROPERTIES
    TransferEnds

SPECIFICATION Spec
CONSTANTS
    BurstSize <- SmallBurstSize
    Mod4 = 4
    Mod17 = 16
    Mod32 = 64
    Word <- SmallWord
    Zero = 0
    AddressUnit = 2
    Memory <- SmallMemory
    Transfers <- SmallTransfers
    MaxPending = 2
INVARIANTS
    WindowsContiguous

SPECIFICATION FairSpec
CONSTANTS
    WriteDepth = 1
    ReadDepth = 2
    Threshold = 0
    Numbers = 6
    BufLen = 3
    Timeouts = {2}
    Traffic <- MCTraffic
    MaxInactive = 2
    MaxCount = 3
INVARIANTS
    TypeOK
    UnsentIsKicked
    ReceiverIsWoken
PROPERTIES
    OutputInOrder
    InputInOrder
    CallsEnd
    InputArrives
    OutputArrives

SPECIFICATION Spec
CONSTANTS
    WriteDepth = 1
    ReadDepth = 1
    Threshold = 0
    Numbers = 6
    BufLen = 3
    Timeouts = {2}
    Traffic <- MCTraffic
    MaxInactive = 2
    MaxCount = 3
PROPERTY ErrorMeansGone

SPECIFICATION WatchingSpec
CONSTANTS
    Length = 2
    MaxBodySize = 2
    ReadCap = 2
    MaxPieces = 1
PROPERTIES DisconnectIsSeen
CHECK_DEADLOCK FALSE

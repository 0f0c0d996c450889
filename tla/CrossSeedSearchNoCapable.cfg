SPECIFICATION Spec
CONSTANTS
    a = a
    b = b
    r1 = r1
    Torrents <- MCTorrents
    Results <- MCResults
    NoCapable <- MCOne
    MaxRequests = 2
    MaxActs = 5
    MaxFaults = 0
PROPERTY FilteringEnds
CHECK_DEADLOCK FALSE

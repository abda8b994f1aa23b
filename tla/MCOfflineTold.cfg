SPECIFICATION DiscoverySpec
CONSTANTS
    d1 = d1  q1 = q1
    Phones <- OnePhone
    Polls <- OnePoll
    NoPoll = NoPoll
PROPERTY OfflineIsTold

CONSTANTS
    Path = {a, b, c}
    MaxPending = 2
SPECIFICATION FairSpec
PROPERTIES EveryChangeSynchronised ImplementsFeed
CHECK_DEADLOCK FALSE

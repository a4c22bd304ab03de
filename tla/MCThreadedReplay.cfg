SPECIFICATION FairSpec
CONSTANTS
    Capacity = 4
    Wrap = 8
    Laps = 2
    MaxItems = 17
    Feed <- MCFeed
    Blank = Blank
CHECK_DEADLOCK FALSE
INVARIANTS NoDataRace Fifo SizeWithinCapacity InFeedOrder NothingLost ErrorsReachCaller
PROPERTY CallEnds

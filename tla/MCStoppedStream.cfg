SPECIFICATION LiveSpec
CONSTANTS
    v1 = v1  v2 = v2  m1 = m1  m2 = m2
    Viewers <- TwoViewers
    Feeds <- TwoFeeds
    NoFeed = NoFeed
    MaxRestarts = 2
    MaxTimers = 2
PROPERTIES
    StoppedStartsNothing
CHECK_DEADLOCK FALSE

CONSTANTS
    Tests = 1
    Count = 2
    MaxCopies = 1
    MaxBuffer = 2
    Foreign = Foreign
    None = None
CHECK_DEADLOCK FALSE
SPECIFICATION FairSpec
PROPERTY ScheduleGoesOn

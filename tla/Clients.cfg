CONSTANTS
    Runs = {r1, r2}
    Targets = {t1, t2}
    Unbounded = {t2}
    NoRun = NoRun
    Tests = 2
    Count = 2
    MaxCopies = 2
    MaxBuffer = 2
    Foreign = Foreign
    None = None
    Loops = {http, icmp}
    Endless = {icmp}
    MaxTokens = 6
    LoopTargets <- TargetsOfLoops
    NoLoop = NoLoop
CHECK_DEADLOCK FALSE
SPECIFICATION ClientsSpec
INVARIANTS CountersExact ManagerAgrees OwnReply CountedOnce
           UploadIsFresh
PROPERTIES EveryRunReturns LedgerSpec RoundEnds LoopsReturn

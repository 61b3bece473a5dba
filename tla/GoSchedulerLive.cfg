SPECIFICATION FairSpec
CONSTANTS
    Runs = {r1}
    Targets = {t1, t2}
    Unbounded = {t2}
    NoRun = NoRun
PROPERTIES PauseEndsLoops QuitCompletes
CHECK_DEADLOCK FALSE

SPECIFICATION Spec
CONSTANTS
    Runs = {r1, r2}
    Targets = {t1}
    Unbounded = {t1}
    NoRun = NoRun
SYMMETRY Symmetry
INVARIANTS MenuAgreesWithScheduler ScheduledRunsSerial
CHECK_DEADLOCK FALSE

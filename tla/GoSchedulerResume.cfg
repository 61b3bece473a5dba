SPECIFICATION Spec
CONSTANTS
    Runs = {r1, r2}
    Targets = {t1}
    Unbounded = {t1}
    NoRun = NoRun
INVARIANT MonitoringHasLoop
CHECK_DEADLOCK FALSE

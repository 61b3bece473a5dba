CONSTANTS
    Requests = {q1, q2}
    Secrets = {s1}
    DeviceIds = {d1}
    MaxLimit = 1
SPECIFICATION Spec
INVARIANT MaxUsesRespected
CHECK_DEADLOCK FALSE

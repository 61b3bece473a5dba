CONSTANTS
    Requests = {q1, q2, q3}
    Secrets = {s1, s2}
    DeviceIds = {d1}
    MaxLimit = 1
    Calls = {s1, s2}
    MaxCount = 2
    NoReport = NoReport
    UserRequests = {s1, s2}
    Users = {u1}
    Roles = {r1, r2}
    AccountRequests = {q1, q2, q3}
    Accounts = {a1}
    NoSecret = NoSecret
SPECIFICATION ServersSpec
INVARIANTS UsesNotAhead ExactIfUndisturbed RetriesCountedOnce
INVARIANTS GracefulStopLosesNothing ResultsAreHonest
INVARIANT RolesAsAsked
INVARIANTS EnabledWasVerified LoginNeedsCode
CHECK_DEADLOCK FALSE
SYMMETRY Symmetry

CONSTANTS
    Requests = {q1, q2, q3, q4}
    Users = {u1, u2}
    Initial = Initial
CHECK_DEADLOCK FALSE
SPECIFICATION Spec
SYMMETRY Symmetry
INVARIANT RevocationHolds
INVARIANT ResetTokenOnce
INVARIANT OldPasswordRefused

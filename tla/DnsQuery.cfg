CONSTANTS
    Ports = {22, 53, 443}
    Timeouts = {30}
    Counts = {10}
    Names = {"google.com", "example.org"}
CHECK_DEADLOCK FALSE
SPECIFICATION FormSpec
INVARIANT ResolvesTheQuery

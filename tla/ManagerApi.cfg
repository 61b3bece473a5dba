CONSTANTS
    Requests = {q1, q2, q3}
    Secrets = {s1, s2}
    Serials = {d1, d2}
    OUs = {o1, o2}
    NoOU = NoOU
    Updates = {q1, q2, q3}
    Users = {a1, a2}
    Units = {o1, o2}
    Default = Default
    NoUser = NoUser
    NoUpdate = NoUpdate
    Tabs = {tab1, tab2}
    MaxSignIns = 2
    MaxSignOuts = 1
    Admins = {1}
CHECK_DEADLOCK FALSE
SPECIFICATION ApiSpec
SYMMETRY Symmetry
PROPERTIES RegistrySpec EndedStaysOut
INVARIANTS SerialUpdatesServed LostWithAuthor

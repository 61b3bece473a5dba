CONSTANTS
    Tabs = {tab1}
    MaxSignIns = 1
    MaxSignOuts = 1
    Admins = {1}
CHECK_DEADLOCK FALSE
SPECIFICATION ManagerSpec
PROPERTY LoginShowsDashboard

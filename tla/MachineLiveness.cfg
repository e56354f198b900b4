SPECIFICATION FairSpec
CONSTANTS
    Nodes = {n1, n2}
    Machines = {m1}
    None = None
    Limit = 1
    MaxCommands = 2
    MaxFails = 2
    MaxEdits = 1
    MaxFaults = 2
    MaxEvents = 2
PROPERTIES MachinesSettle
CHECK_DEADLOCK FALSE

SPECIFICATION Spec
CONSTANTS
    Nodes = {n1, n2}
    Machines = {m1, m2}
    None = None
    Limit = 1
    MaxCommands = 2
    MaxFails = 1
    MaxEdits = 0
    MaxFaults = 1
    MaxEvents = 2
SYMMETRY Symmetry
INVARIANTS OneMachinePerNode
CHECK_DEADLOCK FALSE

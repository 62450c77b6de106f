SPECIFICATION Spec
CONSTANTS
    Keys = {"epoch", "dup"}
    Clients = {c1}
    Commands <- CounterCommands
    MaxBatch = 3
    MaxValue = 3
    MaxTime = 2
    c1 = c1
    NoTtl = NoTtl
    NoValue = NoValue
CHECK_DEADLOCK FALSE
PROPERTIES
    ContractButForSpent

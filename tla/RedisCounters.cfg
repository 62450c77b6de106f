SPECIFICATION Spec
CONSTANTS
    Keys = {"dup"}
    Clients = {c1, c2}
    Commands <- DupCommands
    MaxBatch = 2
    MaxValue = 2
    MaxTime = 1
    c1 = c1
    c2 = c2
    NoTtl = NoTtl
    NoValue = NoValue
SYMMETRY ClientSymmetry
CHECK_DEADLOCK FALSE
PROPERTIES
    ContractSpec

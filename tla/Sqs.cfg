SPECIFICATION Spec
CONSTANTS
    Messages = {m1, m2, m3}
    Queues = {"indexing", "cleanup"}
    Consumers = {c1, c2}
    DedupIds = {"id"}
    None = None
    MaxMessages = 2
    m1 = m1
    m2 = m2
    m3 = m3
    c1 = c1
    c2 = c2
SYMMETRY Symmetry
CHECK_DEADLOCK FALSE
INVARIANTS
    TypeOK
    DeliveredInOrder
    OneHolder
    DuplicatesAreDropped
PROPERTIES
    ContractSpec

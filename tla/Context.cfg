SPECIFICATION Spec
CONSTANTS
    Requests = {r1, r2, r3}
    ClientIds = {clientId}
    r1 = r1
    r2 = r2
    r3 = r3
    clientId = clientId
    EmptyId = EmptyId
    NoId = NoId
SYMMETRY RequestSymmetry
CHECK_DEADLOCK FALSE
INVARIANTS TypeOK LogsNameTheirRequest EnvelopeMatchesHeader NothingInherited

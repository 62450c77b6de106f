SPECIFICATION Spec
CONSTANTS
    d1 = d1
    d2 = d2
    v1 = v1
    v2 = v2
    w1 = w1
    k1 = k1
    k2 = k2
    k3 = k3
    Clients = {c1, c2}
    Documents = {d1, d2}
    Versions = {v1, v2, w1}
    Chunks = {k1, k2, k3}
    DocOf <- MCDocOf
    VersionOf <- MCVersionOf
    NoVersion = NoVersion
SYMMETRY Symmetry
CONSTRAINT OneAfterTheOther
INVARIANTS
    TypeOK
    OneCurrentVersion
    StagedUntilSwapped
    SupersedesIsAcyclic
PROPERTIES
    SeenChangesAsAWhole

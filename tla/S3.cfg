SPECIFICATION Spec
CONSTANTS
    Clients <- MCClients
    RecordKeys = {"jobA"}
    FileKeys = {"fileA", "failedA", "fileB"}
    TenantOf <- MCTenantOf
    TenantPrefix <- MCTenantPrefix
    Parts = 2
    NoObject = NoObject
    None = None
CHECK_DEADLOCK FALSE
INVARIANTS
    TypeOK
    NoLostUpdate
    ObjectsAreWhole
    BodiesStayInTenant

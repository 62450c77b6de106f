SPECIFICATION Spec
CONSTANTS
    a = a
    b = b
    x = x
    y = y
    boss = boss
    guest = guest
    None = None
    NoVector = NoVector
    Tenants = {a, b}
    Ids = {x, y}
    Clients = {boss, guest}
    Limits = {1, 2}
    ListFields = {"allowed_departments", "allowed_user_ids"}
    TenantOf <- MCTenantOf
    Score <- MCScore
    FilterOf <- MCFilterOf
    LevelOf <- MCLevelOf
    DepartmentsOf <- MCDepartmentsOf
    VersionAsked <- MCVersionAsked
    Metadata <- MCMetadata
    Batches <- MCBatches
    Patches <- MCPatches
    Passes <- EvalNode
INVARIANTS
    TypeOK
    TenantsStayApart
    ArchivedStaysArchived
PROPERTIES
    NothingFromNowhere
    ServedExactly

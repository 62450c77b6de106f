CONSTANTS
    Requests = {r1, r2}
    Inputs <- AdapterInputs
    NoDoc = NoDoc
    StoresFail = TRUE
    ServersCrash = TRUE
    PrimarySecret <- MCPrimarySecret
    SecondarySecret <- MCSecondarySecret
    AllowedMimeTypes <- MCMimeTypes
    MaxUploadBytes <- MCMaxUploadBytes
    Consumers = {worker}
    CacheTtl = 1
    MaxTime = 1
    NoObject = NoObject
    NoValue = NoValue
    None = None
SYMMETRY RequestSymmetry
SPECIFICATION Spec
INVARIANTS
    MessageLeadsToFile
    CacheAgreesWithTruth
PROPERTIES
    PipelineSpec
CHECK_DEADLOCK FALSE

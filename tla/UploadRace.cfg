CONSTANTS
    Requests = {r1, r2}
    NoDoc = NoDoc
    Inputs <- PlainInput
    StoresFail = FALSE
    ServersCrash = FALSE
    PrimarySecret <- MCPrimarySecret
    SecondarySecret <- MCSecondarySecret
    AllowedMimeTypes <- MCMimeTypes
    MaxUploadBytes <- MCMaxUploadBytes
SPECIFICATION Spec
INVARIANT OneUploadPerFile
\* The requests are finitely many; when all are settled nothing happens.
CHECK_DEADLOCK FALSE

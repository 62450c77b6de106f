CONSTANTS
    Requests = {r1, r2}
    NoDoc = NoDoc
    Inputs <- AllInputs
    StoresFail = TRUE
    ServersCrash = TRUE
    PrimarySecret <- MCPrimarySecret
    SecondarySecret <- MCSecondarySecret
    AllowedMimeTypes <- MCExtendedMimeTypes
    MaxUploadBytes <- MCMaxUploadBytes
SPECIFICATION FairSpec
INVARIANTS
    TypeOK
    RefusalLeavesNothing
    AcceptedIsDurable
    MessageIsProcessable
    DuplicateIsGenuine
    RepeatIsRefused
PROPERTIES
    ContractSpec
    EveryUploadSettles
\* The requests are finitely many; when all are settled nothing happens.
CHECK_DEADLOCK FALSE

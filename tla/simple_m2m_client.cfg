SPECIFICATION FairSpec
CONSTANTS
    Builds <- MCBuilds
    Calls <- MCCalls
INVARIANTS
    TypeOK
    ConnectsProvisioned
    AuthorizeHasClient
    RegisteredFollowsSession
    RegisteredOnlyIfCalled
    CallableAfterTheEnd
    OneObjectPerNumber
    ServerCanReset
PROPERTIES
    BootsConnect
    

SPECIFICATION FairSpec
CONSTANT Builds <- MCBuilds
INVARIANTS
    TypeOK
    ConnectsProvisioned
    AuthorizeHasClient
PROPERTIES
    FailureNeedsRestart
    BootsConnect
    NoticesAreAnnounced
    RequestsAreAnswered

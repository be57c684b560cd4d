SPECIFICATION Spec
CONSTANTS
    Routes <- MCRoutes
    Digits <- MCDigits
    Atoi <- MCAtoi
    Decimal <- MCDecimal
INVARIANTS
    TypeOK
    NoAliasing
    UpdatesFindTheRightVariable
    PublicationIsComplete
    UniformRoutesKeepTheirPath
PROPERTY
    ImplementsPathTree
CHECK_DEADLOCK FALSE

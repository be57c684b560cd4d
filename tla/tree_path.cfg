SPECIFICATION Spec
CONSTANTS
    Routes <- MCPlainRoutes
    Digits <- MCDigits
    Atoi <- MCAtoi
    Decimal <- MCDecimal
INVARIANT
    EveryRouteIsItsPath
CHECK_DEADLOCK FALSE

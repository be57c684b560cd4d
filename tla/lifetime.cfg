SPECIFICATION Spec
CHECK_DEADLOCK FALSE
CONSTANT QueueSize = 2
INVARIANTS
    TypeOK
    ThreadDiesWithItsObject
    OwnedEventsDieWithTheObject
    ZeroedBorrowerKeepsTheQueue

SPECIFICATION Spec
CONSTANT QueueSize = 2
INVARIANT BorrowedQueueSurvives

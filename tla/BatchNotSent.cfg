SPECIFICATION Spec
CONSTANT MaxQueued = 3
INVARIANT NotSentIsNotExecuted
CHECK_DEADLOCK FALSE

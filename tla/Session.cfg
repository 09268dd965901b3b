SPECIFICATION Spec
CONSTANTS
    QueueSize = 2
    MaxPresses = 5
INVARIANTS
    NoStaleInterrupt
    CallInterruptible
    NoTypeAhead
PROPERTIES
    ReadlineNotInterrupted
    InterruptHandled
CHECK_DEADLOCK FALSE

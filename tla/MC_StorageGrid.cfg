CONSTANTS
    Services = {s1}
    Interval = 2
    MaxGap = 5
    Sleep = 2
    MaxNow = 11
SPECIFICATION Spec
INVARIANTS TypeOK NeverAhead
PROPERTY StrictlyIncreasing
\* the bounded clock stops, and with it the daemon
CHECK_DEADLOCK FALSE

\* Two threads, three calls each, a limit of two and one task dropped.
SPECIFICATION Spec
CONSTANTS
    Threads = {p, q}
    max_tasks = 2
    MaxCalls = 3
    MaxDrops = 1
INVARIANTS Overshoot GaugeExact
PROPERTIES Answered SlotsReturned
CHECK_DEADLOCK FALSE

SPECIFICATION CadenceSpec
CONSTANTS
    a = a
    b = b
    w1 = w1
    w2 = w2
    w3 = w3
    Schedules = {a, b}
    Workers = {w1, w2, w3}
    Environments <- NoFaults
    Horizon = 3
    Interval = 2
    Grid = 3
INVARIANT OneShotFiresOnce
CHECK_DEADLOCK FALSE

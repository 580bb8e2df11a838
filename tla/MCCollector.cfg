CONSTANTS
    a = a b = b w1 = w1 w2 = w2 p = p run = run
    Devices = {a}
    Pushed = {b}
    Workers = {w1}
    Pushers = {p}
    Run = run
    Reopened = {b}
    QueueCap = 1
    OutCap = 1
SPECIFICATION Spec
INVARIANTS ClosedIsUnused NotifiedFollowsStatus
PROPERTIES ShutdownCompletes TimerNeverBlocks
CHECK_DEADLOCK FALSE

CONSTANTS
    None = None r1 = r1 pipe = pipe flush = flush
    high = high low = low temp = temp switch = switch
    Rules = {r1}
    Keys = {temp, switch}
    Values = {high, low}
    Callers = {pipe, flush}
    Defs <- MCDefs
    MaxFires = 2
    MaxEdits = 1
    MaxFaults = 1
SPECIFICATION AlertSpec
SYMMETRY Symmetry
INVARIANTS AlertTypeOK PendingIsOwned ActiveIsPending RulesFollowStore
CHECK_DEADLOCK FALSE

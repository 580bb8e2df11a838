CONSTANTS
    d1 = d1 d2 = d2 c1 = c1 c2 = c2 tcp = tcp listen = listen
    p1 = p1 p2 = p2 q1 = q1 q2 = q2 i1 = i1 i2 = i2
    Devices = {d1, d2}
    Connections = {c1, c2}
    ConnConfigs = {tcp, listen}
    PushConfigs = {listen}
    Params = {p1, p2}
    Points = {q1, q2}
    Intervals = {i1, i2}
    SavedRows <- MCSavedRows
    InitStores <- MCInitStores
    MaxEdits = 3
SYMMETRY MCSymmetry
SPECIFICATION Spec
INVARIANT NoPollingGap
CHECK_DEADLOCK FALSE

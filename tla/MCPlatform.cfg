SPECIFICATION MCSpec
CONSTANTS
    Connections = {c1, c2}
    Devices = {d1}
    Contents = {x, y}
    First = x
    Second = y
    One = c1
    Other = c2
    Edited = Edited
    Outputs = {o1, o2}
    Manual = Manual
    Syncs = {s1, s2}
    Requests = {r1}
    Absent = Absent
    Skipped = Skipped
    Files <- MCFiles
    MaxEvents = 2
    Registers = {0, 17, 124, 125, 65534, 65535, 65536}
    PointLists <- MCPointLists
    None = None
    Nil = Nil
    Receivers = {"thingsboard", "smardaten"}
    Instances = {i1, i2}
    QueueSize = 1
    MaxCommands = 3
SYMMETRY Symmetry
INVARIANTS TypesOK SyncIsExact CleanupSparesOthers ReadIsExact 
CHECK_DEADLOCK FALSE

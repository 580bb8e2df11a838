SPECIFICATION MCSpec
CONSTANTS
    Kinds = {"mqtt", "thingsboard", "tdengine", "smardaten"}
    Devices = {d1, d2}
    Values = {1, 2}
    None = None
    MaxPending = 2
    BatchMax = 1
    MaxPoints = 3
    MaxNotices = 2
    MaxOutages = 1
    MaxFaults = 1
    MaxBuilds = 1
    MaxMappings = 1
    SparkDevices = {s1}
    Names = {p, q}
    Notifiers = {n1}
    Sequence = sequence
    MaxConnects = 2
    MaxReports = 2
    MaxEdits = 1
    MaxData = 1
SYMMETRY Symmetry
CONSTRAINT Bounded
INVARIANTS TypesOK  StatusFollows HostViewIsRight
CHECK_DEADLOCK FALSE

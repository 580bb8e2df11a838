CONSTANTS
    None = None d1 = d1 d2 = d2 u = u w = w l1 = l1 l2 = l2 l3 = l3 a = a b = b
    Devices = {d1, d2}
    Users = {u}
    Workers = {w}
    Links = {l1, l2, l3}
    Configs = {a, b}
    Kinds = {"modbus", "opcua", "listen"}
    UnitOf <- MCUnitOf
    MaxEdits = 1
    MaxLost = 1
SPECIFICATION Spec
INVARIANTS TypeOK AnswersAreOwn FreshAfterRestart NotificationsAreSound
PROPERTIES  ReleaseEnds
CHECK_DEADLOCK FALSE

CONSTANTS
    a = a b = b x = x y = y z = z s1 = s1 s2 = s2 s3 = s3 s4 = s4
    pipe = pipe main = main h1 = h1 h2 = h2
    Outputs = {a}
    Points = {x, y, z}
    Max = 2
    Slots = {s1, s2, s3}
    Publishers = {pipe}
    Reloaders = {main, h1, h2}
    Main = main
    ChCap = 1
    Batch = 2
    Settings = {"enabled", "absent"}
    Troubles = 2
SPECIFICATION Spec
INVARIANTS TypeOK QueueBounded NothingVanishes AckIsExact ReplayInOrder ClosedIsQuiet
SYMMETRY Symmetry
CHECK_DEADLOCK FALSE

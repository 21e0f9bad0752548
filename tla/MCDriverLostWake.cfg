SPECIFICATION Spec
CONSTANTS
    None = None
    Workers = {w1, w2}
    Stoppers = {}
    Producers = {p1}
    MaxTasks = 2
    Options <- DriverOnly
    MaxSpinners = 2
SYMMETRY Symmetry
INVARIANT NoLostWork

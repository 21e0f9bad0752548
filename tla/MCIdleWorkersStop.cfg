SPECIFICATION Spec
CONSTANTS
    None = None
    Workers = {w1, w2}
    Stoppers = {s1}
    Producers = {p1}
    MaxTasks = 1
    Options <- PlainOnly
    MaxSpinners = 2
SYMMETRY Symmetry
INVARIANTS
    NoneSleepsThroughStop

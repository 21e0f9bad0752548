SPECIFICATION Spec
CONSTANTS
    None = None
    Workers = {w1, w2, w3}
    Stoppers = {}
    Producers = {p1}
    MaxTasks = 3
    Options <- RampUpOnly
    MaxSpinners = 2
CONSTRAINT InjectedOnly
SYMMETRY Symmetry
INVARIANT RampUpIsAnswered

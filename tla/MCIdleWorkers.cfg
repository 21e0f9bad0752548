SPECIFICATION MaySleepSpec
CONSTANTS
    None = None
    Workers = {w1, w2}
    Stoppers = {}
    Producers = {p1}
    MaxTasks = 2
    Options <- SpinningOrDriver
    MaxSpinners = 2
SYMMETRY Symmetry
INVARIANTS
    InjectedWorkIsSeen
    ClaimReachesSleeper
    OnlyKeeperInDriver

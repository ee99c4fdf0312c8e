SPECIFICATION TscSpec
CONSTANTS
    t1 = t1
    t2 = t2
    t3 = t3
    Thread = {t1, t2, t3}
    MaxClock = 2
    Apart = 2
SYMMETRY Alike
INVARIANT Monotonic
PROPERTY RunsOn

SPECIFICATION Spec
CONSTANTS
    s1 = s1
    s2 = s2
    p1 = p1
    p2 = p2
    None = None
    Sessions = {s1, s2}
    Procs = {p1, p2}
    PipeFaults = {"hang"}
SYMMETRY Symmetry
INVARIANTS TypeOK NoStrays StartupShownOnce NoCircularWait
PROPERTY NotStoppedWhileServing

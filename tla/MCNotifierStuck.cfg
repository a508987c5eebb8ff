SPECIFICATION FairSpec
CONSTANTS
    s1 = s1
    p1 = p1
    p2 = p2
    None = None
    Sessions = {s1}
    Procs = {p1, p2}
    PipeFaults = {"hang"}
PROPERTY CallsReturn

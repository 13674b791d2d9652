SPECIFICATION Spec
CONSTANTS
    Writes = {w1, w2, w3}
    Local = {w3}
    Threads = {t1, t2}
    None = None
    Receive = Receive
    MaxFaults = 2
    MaxSends = 1
CHECK_DEADLOCK FALSE
INVARIANT
    NoQueryRace

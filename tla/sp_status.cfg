SPECIFICATION Spec
CONSTANTS
    w1 = w1
    w2 = w2
    Workers = {w1, w2}
    Threads = {1}
    Protocols = {"ftso"}
    Timeout = 2
    MaxRequest = 1
    RoundLength = 2
    History = 1
    MaxClock = 5
SYMMETRY WorkersAlike
INVARIANTS
    TypeOK
    Fresh
    ReportedCanBeFetched

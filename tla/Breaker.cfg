SPECIFICATION BusySpec
CONSTANTS
    p1 = p1
    p2 = p2
    NoProc = NoProc
    Procs = {p1, p2}
    Threshold = 2
    MaxAttempts = 2
    Providers = {"openaicompat", "responses"}
    Streams = {p2}
INVARIANT NeverStranded
PROPERTY CircuitRecovers

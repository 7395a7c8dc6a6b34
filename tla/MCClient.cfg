CONSTANTS
    p1 = p1
    p2 = p2
    Nil = Nil
    NoResult = NoResult
    Procs = {p1}
    MaxSpec = 3
    MaxConns = 3
SPECIFICATION ClientSpec
INVARIANT ClientTypeOK

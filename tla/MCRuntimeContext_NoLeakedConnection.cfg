CONSTANTS
    p1 = p1
    p2 = p2
    Nil = Nil
    Procs = {p1, p2}
    MaxSpec = 3
    MaxConns = 3
SPECIFICATION Spec
INVARIANT NoLeakedConnection

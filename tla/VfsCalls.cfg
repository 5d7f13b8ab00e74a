SPECIFICATION Spec
SYMMETRY Symmetry
CONSTANTS
    t1 = t1
    t2 = t2
    t3 = t3
    Threads = {t1, t2, t3}
    TagOf <- OneTag
    TableOf <- ProcessOf
    Paths = {p, q}
    Files = {f1, f2}
    Fds = {3}
    Modes <- ReadOrAppend
    OneOpener = TRUE
    MaxChunks = 2
    MaxSize = 2
INVARIANTS RefsExact GateSound
PROPERTY AppendsAtEnd

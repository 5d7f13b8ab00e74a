SPECIFICATION Spec
SYMMETRY Symmetry
CONSTANTS
    t1 = t1
    t2 = t2
    t3 = t3
    Threads = {t1, t2, t3}
    TagOf <- OneTag
    TableOf <- ProcessOf
    Paths = {p}
    Files = {f1, f2}
    Fds = {3, 4}
    Modes <- AppendOnly
    OneOpener = TRUE
    MaxChunks = 2
    MaxSize = 3
INVARIANT NoSpin

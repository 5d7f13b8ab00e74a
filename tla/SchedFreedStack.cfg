CONSTANTS
    NCpu = 2
    Threads = {1, 2, 3}
    Procs = {1, 2}
    ProcOf <- InitAndChildProcOf
    ParentOf <- InitAndChildParentOf
    Ops = {"exit", "fault"}
    SleepTicks = {1}
    BlockTicks = 1
    BadPointers = {FALSE}
SPECIFICATION Spec
INVARIANTS
    NoFreedStackInUse

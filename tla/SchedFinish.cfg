CONSTANTS
    NCpu = 2
    Threads = {1, 2, 3}
    Procs = {1, 2}
    ProcOf <- InitAndChildProcOf
    ParentOf <- NoParentOf
    Ops = {"sleep", "exit"}
    SleepTicks = {1}
    BlockTicks = 1
    BadPointers = {FALSE}
SPECIFICATION Spec
INVARIANTS
    FinishOnlyWhenDone

CONSTANTS
    NCpu = 2
    Threads = {1, 2}
    Procs = {1}
    ProcOf <- OneProcessProcOf
    ParentOf <- OneProcessParentOf
    Ops = {"sleep", "join", "io", "exec", "exit"}
    SleepTicks = {1}
    BlockTicks = 1
    BadPointers = {FALSE}
SPECIFICATION FairSpec
PROPERTIES
    RendezvousEnds

CONSTANTS
    NCpu = 2
    Threads = {1, 2, 3}
    Procs = {1, 2}
    ProcOf <- InitAndChildProcOf
    ParentOf <- InitAndChildParentOf
    Ops = {"yield", "sleep", "wait", "join", "exit", "fault"}
    SleepTicks = {1}
    BlockTicks = 1
    BadPointers = {TRUE, FALSE}
SPECIFICATION FairSpec
INVARIANTS KernelStackExclusive QueuesExact FamilyExact
PROPERTIES TimedWaitsEnd RendezvousEnds

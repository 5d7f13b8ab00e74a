SPECIFICATION KernelSpec
CONSTANTS
  Lines = {0, 1}
  IpiLines = {2}
  Targets = {0, 1, 2}
  Compare = 2
  MaxTasks = 1
  MaxResets = 0
INVARIANT CommandReachesTarget

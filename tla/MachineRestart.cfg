SPECIFICATION RestartSpec
CONSTANTS
  Lines = {0, 1}
  IpiLines = {2}
  Targets = {0, 1}
  Compare = 2
  MaxTasks = 1
  MaxResets = 0
PROPERTY HaltsOnRequest

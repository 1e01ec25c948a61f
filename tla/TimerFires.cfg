SPECIFICATION FairSpec
CONSTANTS
  n1 = n1
  n2 = n2
  None = None
  Names = {n1}
  Durations = {1, 2}
  MaxGen = 2
  MaxTime = 4
  MaxTasks = 3
  MaxTold = 2
PROPERTY TimerFires
CHECK_DEADLOCK FALSE

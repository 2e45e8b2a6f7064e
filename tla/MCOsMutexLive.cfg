CONSTANTS
  task_idle = task_idle
  task_main = task_main
  worker1 = worker1
  worker2 = worker2
  Task = {task_idle, task_main, worker1, worker2}
  NULL = NULL
  TASK_PRIORITY_MAX = 2
  priority <- MCSamePriority
  tick_init <- MCTickInit
  Mutex = {mutex}
  Waitqueue = {mutex}
  MaxDepth = 2

SPECIFICATION MuFairSpec

INVARIANTS
  SleepersAreQueued

PROPERTIES
  LockEventuallyReturns

CHECK_DEADLOCK FALSE

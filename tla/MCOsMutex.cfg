CONSTANTS
  task_idle = task_idle
  task_main = task_main
  worker1 = worker1
  worker2 = worker2
  Task = {task_idle, task_main, worker1, worker2}
  NULL = NULL
  TASK_PRIORITY_MAX = 2
  priority <- MCPriority
  tick_init <- MCTickInit
  Mutex = {mutex1, mutex2}
  Waitqueue = {mutex1, mutex2, waitqueue}
  MaxDepth = 2

SPECIFICATION MuSpec

INVARIANTS
  MutexExact
  NodesOutliveNoCall

PROPERTIES
  ImplementsRecursiveLock
  WakesInOrder

\* The system stops for good when every task but the idle thread is asleep.
CHECK_DEADLOCK FALSE

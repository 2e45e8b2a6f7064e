CONSTANTS
  task_idle = task_idle
  task_main = task_main
  worker1 = worker1
  worker2 = worker2
  Task = {task_idle, task_main, worker1, worker2}
  NULL = NULL
  TASK_PRIORITY_MAX = 2
  priority <- MCPriority
  tick_init <- MCTickInit

SPECIFICATION Spec

INVARIANTS
  TypeOK
  ReadyListsExact
  CurrentIsRunning
  HartFollowsScheduler
  HaltsOnlyWhenIdle

PROPERTIES
  SwitchesToHighest
  OnlyStartupOutranks
  StoppedStaysStopped
  PeersTakeTurns

\* The system stops for good when the scheduler's assertion fails.
CHECK_DEADLOCK FALSE

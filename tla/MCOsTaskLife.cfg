\* Programs close a descriptor once.
CONSTANTS
  NULL = NULL
  task_idle = task_idle
  task_main = task_main
  task_user = task_user
  kernel_pagetable = kernel_pagetable
  program = program
  console = console
  File <- MCFile
  Console = console
  Cloned = {child1, child2}
  Pid <- MCPid
  Vtable <- MCVtable
  Table <- MCTable
  OS_MAX_OPEN_FILES = 4
  MaxOpen <- MCMaxOpen
  MaxLock = 1
  CloseTwice = FALSE
  SizeMax = 3
SPECIFICATION
  Spec
INVARIANTS
  TasksFound
  DescriptorsExact
  TasksKeepTheirVtable
  
PROPERTIES
  LockLeaksOnlyWhenFull
\* A fault stops the model.
CHECK_DEADLOCK FALSE

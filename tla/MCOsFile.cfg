SPECIFICATION Spec
CONSTANTS
  Task = {t1, t2}
  NULL = NULL
  Device = {"x"}
  FaultyDevice = {"x"}
  MountPoint = {1, 2, 3}
  Fnode = {1, 2, 3, 4}
  MaxOpen = 1
  SizeMax = 7
  MemoryMayRunOut = TRUE
  FreedMemoryReused = TRUE
  Directories <- DirectoriesDef
  Files <- FilesDef
  BootMount <- BootMountDef
  MountPaths <- MountPathsDef
  UnmountPaths <- UnmountPathsDef
  StatPaths <- StatPathsDef
  OpenPaths <- OpenPathsDef
SYMMETRY Symmetric
CHECK_DEADLOCK FALSE
INVARIANTS
  CountsExact
  OpenFilesKeepTheirMount
  LocksAreDisciplined
  SharedUnlessRespelt

CONSTANTS
  mem_start = 3
  mem_end = 8
  MetaPerPage = 4
  BUDDY_ORDER_MAX = 4
  MaxRequest = 2
  WordSize = 16
  small = small
  big = big
  NULL = NULL
  Cache = {small, big}
  object_total_nr <- MCObjects
  SLUB_MIN_PARTIAL = 2

SPECIFICATION MemorySpec

INVARIANTS
  ObjectsAccounted
  CachesExact

PROPERTIES
  ImplementsHeapAllocator

\* A null pointer that is followed stops the system.
CHECK_DEADLOCK FALSE

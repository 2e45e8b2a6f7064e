CONSTANTS
  Subject = {"trap"}
  mem_start = 3
  mem_end = 16
  MetaPerPage = 4
  BUDDY_ORDER_MAX = 5
  MaxRequest = 5
  WordSize = 64
  GROUP_SIZE = 3
  BitmapSize = {4, 6, 8}
  ListEntry = {1, 2, 3, 4}
  HashKey = {0, 1, 2, 4}
  HashValue = {0, 1}
  HashItem = {1, 2, 3}
  HashCount = {1, 3}
  UserVtable = {u1, u2}
  UserVa = {9, 10, 15}
  AutoSize = {1, 2}
  HeapFrame = {8, 9, 10, 11, 12, 13}
  TrapTask = {t1, t2}
  KStackSize = 5
  Progress = 2
  STACK_SIZE = 1
  TextAddress = {18, 19, 21}
  DataAddress = {22}
  SymbolSize = {0, 2}
  IntHalf = 8
  MaxSymbols = 3
  LONG_BITS = 8
  OS_PRINTF_BUFFER_SIZE = 9
  Ordinary = {0, 5}
  FieldWidth <- MCFieldWidth
  FieldPrecision <- MCFieldPrecision
  Argument = {0, 9, 40, 255}

SPECIFICATION StructSpec

INVARIANT EntersUserSpace

CHECK_DEADLOCK FALSE

SPECIFICATION Spec
CONSTANTS
  HeapSlots = 1
  FreeMin = 3
  YoungMax = 1
  GenMax = 1
  MaxHeaps = 3
  MaxRefs = 1
  MaxHidden = 0
  MaxFinalizers = 1
  Misuse = {"upvalue"}
CHECK_DEADLOCK FALSE
INVARIANT NoDangling

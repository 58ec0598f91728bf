SPECIFICATION Spec
CONSTANTS
  HeapSlots = 1
  FreeMin = 3
  YoungMax = 1
  GenMax = 1
  MaxHeaps = 3
  MaxRefs = 1
  MaxHidden = 1
  MaxFinalizers = 1
  Misuse = {"upvalue", "store", "throw"}
CONSTRAINTS HiddenAlone OneEdge
CHECK_DEADLOCK FALSE
INVARIANTS FewTries FreeListSound

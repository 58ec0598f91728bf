SPECIFICATION Spec
CONSTANTS
  HeapSlots = 1
  FreeMin = 3
  YoungMax = 2
  GenMax = 1
  MaxHeaps = 3
  MaxRefs = 1
  MaxHidden = 0
  MaxFinalizers = 1
  Misuse = {}
CHECK_DEADLOCK FALSE
INVARIANTS TypeOK NoDangling FinalizersCounted
PROPERTIES FinalizerFirst ImplementsObjectGraph

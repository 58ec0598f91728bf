SPECIFICATION Spec
CONSTANTS
  Threads = {main, t1, t2}
  Main = main
  NoThread = NoThread
  Natives = {"newThread", "joinThread", "sleep", "detach", "schedule", "collect", "exit"}
  MaxCollections = 1
CHECK_DEADLOCK FALSE
SYMMETRY Symmetry
INVARIANTS TypeOK ZombieStaysOut DetachedNotUndercounted

SPECIFICATION FairSpec
CONSTANTS
  Threads = {main, t1}
  Main = main
  NoThread = NoThread
  Natives = {"newThread", "sleep", "schedule", "error", "detach", "throw", "collect", "exit", "atExit"}
  MaxCollections = 1
CHECK_DEADLOCK FALSE
INVARIANT FreeVMAlone
PROPERTIES InterruptIsFinal MainExits

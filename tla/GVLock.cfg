SPECIFICATION FairSpec
CONSTANTS
  Threads = {main, t1, t2}
  Main = main
  NoThread = NoThread
  OpsUntilSwitch = 2
  MaxHeld = 2
INVARIANTS TypeOK MutualExclusion OwnerIsInVM MutexHolderKeepsGVL WakeupPending WaitersCounted
PROPERTIES ImplementsVMLock IdleVMTaken HolderYields

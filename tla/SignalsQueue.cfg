SPECIFICATION FairSpec
CONSTANTS
  Threads = {main, t1}
  Main = main
  Sigs = {1, 2, 9}
  Untrappable = {9}
  SelfSigs = {1}
  OSSigs = {2}
  SendUntrapped = TRUE
  Torn = TRUE
  MaxSent = 3
  MaxTraps = 2
CHECK_DEADLOCK FALSE
INVARIANTS TypeOK NoStrandedSignal
PROPERTY SignalHandled

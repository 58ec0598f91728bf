SPECIFICATION Spec
CONSTANTS
  Hash <- WrapHash
  MinCapacity = 2
  NoEntry = NoEntry
  Nil = Nil
  Maps = {m1}
  Keys = {1, 2, 3}
  FirstChars <- ThreeKeys
  MutableKeys = {1}
  Values = {v1}
  Loops = {"each", "iter"}
  MaxCapacity = 4
CHECK_DEADLOCK FALSE
INVARIANTS RoomLeft IterationComplete
PROPERTY RehashRepairs

SPECIFICATION Spec
CONSTANTS
  Hash <- MCHash
  MinCapacity = 4
  NoEntry = NoEntry
  Nil = Nil
  Maps = {m1}
  Keys = {1, 2, 3, 4}
  FirstChars <- FourKeys
  MutableKeys = {}
  Values = {v1}
  Loops = {"each"}
  MaxCapacity = 8
CHECK_DEADLOCK FALSE
INVARIANTS EachComplete

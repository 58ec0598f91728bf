SPECIFICATION Spec
CONSTANTS
  Hash <- WrapHash
  MinCapacity = 2
  NoEntry = NoEntry
  Nil = Nil
  Maps = {m1, m2}
  Keys = {1, 2, 3}
  FirstChars <- ThreeKeys
  MutableKeys = {}
  Values = {v1}
  Loops = {}
  MaxCapacity = 8
INVARIANTS TypeOK ProbesReach CountExact CopyEqual
PROPERTY ImplementsAbstractMap

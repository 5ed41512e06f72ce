SPECIFICATION Spec
CONSTANTS
  t1 = t1  t2 = t2  a = a  b = b  small = small  large = large
  Threads = {t1, t2}
  Expirer = expirer
  Keys = {a, b}
  Values = {small, large}
  KeyLen <- MCKeyLen
  ValueLen <- MCValueLen
  NumShards = 2
  ShardOf <- TwoShards
  MaxBytes = 2
  UsizeMax = 100
  Ttls = {}
  MaxTime = 0
  Absent = absent
  None = none
  Unlocked = unlocked
SYMMETRY Symmetric
PROPERTIES EvictsOnlyOverBudget

SPECIFICATION FocusedSpec
CONSTANTS
  t1 = t1  t2 = t2  a = a  b = b  small = small  large = large
  Threads = {t1, t2}
  Expirer = expirer
  Keys = {a, b}
  Values = {small, large}
  KeyLen <- MCKeyLen
  ValueLen <- MCValueLen
  NumShards = 2
  ShardOf <- TwoShards
  MaxBytes = 2
  UsizeMax = 100
  Ttls = {0, 1}
  MaxTime = 2
  Absent = absent
  None = none
  Unlocked = unlocked
SYMMETRY Symmetric
INVARIANTS TypeOK ByteAccounting LockDiscipline BudgetWatched WithinBudget BoundedOvershoot
PROPERTIES ImplementsKVEngine

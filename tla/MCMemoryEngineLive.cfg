SPECIFICATION FairRolesSpec
CONSTANTS
  t1 = t1  t2 = t2  a = a  b = b  small = small  large = large
  Threads = {t1, t2}
  Expirer = expirer
  Keys = {a}
  Values = {small, large}
  KeyLen <- MCKeyLen
  ValueLen <- MCValueLen
  NumShards = 2
  ShardOf <- TwoShards
  MaxBytes = 1
  UsizeMax = 100
  Ttls = {1}
  MaxTime = 1
  Absent = absent
  None = none
  Unlocked = unlocked
PROPERTIES OperationsReturn ExpiredPurged StopJoins

\* One partition, two members, no fault at all but a rebalance.
SPECIFICATION Spec
CONSTANTS
  p1 = p1
  p2 = p2
  m1 = m1
  m2 = m2
  Partitions = {p1}
  Members = {m1, m2}
  NoMember = NoMember
  MaxLen = 1
  MaxGeneration = 2
  Faults = {}
INVARIANT
  TakesEffectOnce
CHECK_DEADLOCK FALSE

\* One partition, two members that share it in turn; everything that can go
\* wrong, up to three assignments.
SPECIFICATION FairSpec
CONSTANTS
  p1 = p1
  p2 = p2
  m1 = m1
  m2 = m2
  Partitions = {p1}
  Members = {m1, m2}
  NoMember = NoMember
  MaxLen = 3
  MaxGeneration = 3
  Faults = {"handler", "crash", "stop"}
INVARIANTS
  TypeOK
  LostOnlyByFailure
PROPERTIES
  EveryMessageIsHandled
  ImplementsDelivery
CHECK_DEADLOCK FALSE

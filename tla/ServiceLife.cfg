\* The process ends: deadlock is not checked.
SPECIFICATION FairSpec
CONSTANT Services <- MCServices
INVARIANTS
  TypeOK
  NothingCutShort
  StopsForASignal
PROPERTIES
  SignalEndsProcess
  NoConsumerIsMissing
CHECK_DEADLOCK FALSE

SPECIFICATION Spec
CONSTANTS
  UUIDs <- MCUUIDs
  NilUUID = "nil"
  Statuses <- MCStatuses
  Methods <- MCMethods
  Orders <- MCOrders
  Documents <- MCDocuments
  Paths <- MCPaths
  NoValue = NoValue
INVARIANTS
  TypeOK
  ClientGetsTheAnswer
  HandlersGetValidInput
  NoOrderWithoutParts
  InvokedAsDocumented

SPECIFICATION Spec
CONSTANTS
  Orders = {o1}
  Txs = {t1, t2, t3}
  Methods = {Unspecified, card}
  Clients = {c1, c2}
  Workers = {w1}
  Faults = {"db", "answer", "kafka", "crash", "payment"}
CONSTANTS
  NoOrder = NoOrder
  NoTx = NoTx
  Unspecified = Unspecified
SYMMETRY Symmetry
INVARIANTS
  TypeOK
  StoredTransactionIsReal
  EventsAreTrue
  ConfirmedIsSettled
  ChargeIsNotForgotten
PROPERTY
  NeverPendingAgain

\* Two requests that never decide about one order at the same time.
SPECIFICATION Spec
CONSTANTS
  Orders = {o1, o2}
  Txs = {t1, t2}
  Methods = {Unspecified, card}
  Clients = {c1, c2}
  Workers = {w1}
  Faults = {"db", "answer", "kafka", "crash", "payment"}
  NoOrder = NoOrder
  NoTx = NoTx
  Unspecified = Unspecified
SYMMETRY Symmetry
CONSTRAINT OneAtATime
INVARIANTS
  ConfirmedPaymentSticks
  ChargedTwiceOnlyAfterFailure
PROPERTY
  ImplementsLifecycle

SPECIFICATION Spec
CONSTANTS
  Orders = {o1}
  Txs = {t1, t2}
  Methods = {Unspecified, card}
  Clients = {c1, c2}
  Workers = {w1}
  Faults = {}
  NoOrder = NoOrder
  NoTx = NoTx
  Unspecified = Unspecified
PROPERTY
  PaidIsNotChargedAgain

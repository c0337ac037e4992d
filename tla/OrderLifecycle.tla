--------------------------- MODULE OrderLifecycle ---------------------------
(***************************************************************************)
(* The life of an order, whatever handlers bring it about: it is created   *)
(* awaiting payment, is either paid or cancelled from there, never both,   *)
(* and is completed only after it was paid.  The transaction that paid it  *)
(* is stored with it for good, and pays for no other order.  The statuses  *)
(* are those of the table and of order.openapi.yaml; the README calls the  *)
(* last one ASSEMBLED, which no code writes.                               *)
(***************************************************************************)
CONSTANTS Orders, Txs, Methods, NoTx, Unspecified

VARIABLE orders

Absent == [status |-> "ABSENT", transactionID |-> NoTx,
           paymentMethod |-> Unspecified]

Init == orders = [o \in Orders |-> Absent]

Create(o) ==
  /\ orders[o] = Absent
  /\ orders' = [orders EXCEPT ![o] = [Absent EXCEPT !.status = "PENDING_PAYMENT"]]

Pay(o, t, m) ==
  /\ orders[o].status = "PENDING_PAYMENT"
  /\ \A other \in Orders : orders[other].transactionID # t
  /\ orders' = [orders EXCEPT ![o] = [status |-> "PAID", transactionID |-> t,
                                      paymentMethod |-> m]]

Cancel(o) ==
  /\ orders[o].status = "PENDING_PAYMENT"
  /\ orders' = [orders EXCEPT ![o] = [@ EXCEPT !.status = "CANCELLED"]]

Complete(o) ==
  /\ orders[o].status = "PAID"
  /\ orders' = [orders EXCEPT ![o] = [@ EXCEPT !.status = "COMPLETED"]]

Next == \E o \in Orders :
          \/ Create(o)
          \/ \E t \in Txs, m \in Methods : Pay(o, t, m)
          \/ Cancel(o)
          \/ Complete(o)

Spec == Init /\ [][Next]_orders
=============================================================================

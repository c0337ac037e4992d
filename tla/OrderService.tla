---------------------------- MODULE OrderService ----------------------------
(***************************************************************************)
(* The order service between its HTTP API, its `orders' table, the payment *)
(* service and two Kafka topics.                                           *)
(*                                                                         *)
(* Every HTTP request is a goroutine and so is every claimed partition of  *)
(* ShipAssembled; they share nothing but the table.  A handler is cut at   *)
(* each call that leaves the process (a statement, a gRPC call, a produce) *)
(* because other handlers run in between.  No statement is part of a       *)
(* transaction, and repository.Update is a SELECT followed by an UPDATE    *)
(* that writes all four columns whatever the row holds by then.            *)
(*                                                                         *)
(* A definite failure of a gRPC call (nothing happened, an error came back)*)
(* is always possible.  The other failures are listed in FaultKinds and    *)
(* enabled by the constant Faults.                                         *)
(***************************************************************************)
CONSTANTS Orders,       \* order UUIDs; bounds how many orders are created
          Txs,          \* transaction UUIDs; bounds how many payments happen
          Methods,      \* payment methods
          Clients,      \* HTTP request goroutines; bounds the concurrency
          Workers,      \* goroutines that consume ShipAssembled
          NoOrder, NoTx, Unspecified,
          Faults        \* the failures the environment may produce

FaultKinds == {"db",        \* a statement fails; an UPDATE or INSERT may have been applied
               "answer",    \* the payment is made, or will be, and its answer lost
               "kafka",     \* OrderPaid is not written
               "crash",     \* the order service stops and starts again
               "payment"}   \* the payment service stops and starts again

ASSUME OrderConstants ==
  /\ Faults \subseteq FaultKinds
  /\ NoOrder \notin Orders /\ NoTx \notin Txs
  /\ Unspecified \in Methods
  /\ Clients \cap Workers = {}

VARIABLES
  orders,        \* the table: a row for every order, Absent when there is none
  transactions, running, charged,  \* see Payment
  paid,          \* the OrderPaid events written to Kafka
  assembled,     \* the orders that ShipAssembled events in Kafka are about
  pc,            \* where each goroutine is
  call,          \* what it serves: the operation and its arguments
  tx,            \* PayOrder's transactionUUID
  draft,         \* the `order' of repository.Update, about to be written
  reply,         \* the status code of the goroutine's last response
  confirmed,     \* history: transactions reported to a customer with a 200
  abandoned      \* history: transactions, also those yet to come, whose
                 \* handler ended without a 200

table   == <<orders>>
topics  == <<paid, assembled>>
payment == <<transactions, running, charged>>
history == <<confirmed, abandoned>>
locals  == <<pc, call, tx, draft, reply>>
vars    == <<orders, transactions, running, charged, paid, assembled, pc, call,
             tx, draft, reply, confirmed, abandoned>>

Pay == INSTANCE Payment

Procs == Clients \cup Workers

Statuses == {"PENDING_PAYMENT", "PAID", "CANCELLED", "COMPLETED"}

Row == [status : Statuses \cup {"ABSENT"},
        transactionID : Txs \cup {NoTx},
        paymentMethod : Methods]

Absent == [status |-> "ABSENT", transactionID |-> NoTx,
           paymentMethod |-> Unspecified]

Call == [op : {"none", "create", "pay", "cancel", "complete"},
         order : Orders \cup {NoOrder},
         method : Methods]

NoCall == [op |-> "none", order |-> NoOrder, method |-> Unspecified]

Labels == {"idle", "parts", "insert", "readBack", "get", "charge", "read",
           "write", "publish"}

Codes == {0, 200, 201, 204, 400, 404, 409}

Event == [order : Orders, tx : Txs, method : Methods]

Init ==
  /\ orders = [o \in Orders |-> Absent]
  /\ Pay!PaymentInit
  /\ paid = {} /\ assembled = {}
  /\ pc = [p \in Procs |-> "idle"]
  /\ call = [p \in Procs |-> NoCall]
  /\ tx = [p \in Procs |-> NoTx]
  /\ draft = [p \in Procs |-> Absent]
  /\ reply = [p \in Procs |-> 0]
  /\ confirmed = {} /\ abandoned = {}

-----------------------------------------------------------------------------
(* Steps shared by the handlers.                                           *)

Exists(o) == orders[o].status # "ABSENT"

\* p goes on at label l.
Goto(p, l) == pc' = [pc EXCEPT ![p] = l]

\* p's handler ends with a status code; a consumer's ends with code 0.
Reply(p, code) ==
  /\ pc' = [pc EXCEPT ![p] = "idle"]
  /\ reply' = [reply EXCEPT ![p] = code]
  /\ draft' = [draft EXCEPT ![p] = Absent]
  /\ call' = [call EXCEPT ![p] = NoCall]
  /\ tx' = [tx EXCEPT ![p] = NoTx]

\* p's handler returns an error while it holds a transaction, if it holds one.
Abandon(p) ==
  /\ abandoned' = abandoned \cup ({tx[p]} \ {NoTx})
  /\ UNCHANGED confirmed

\* A goroutine starts to serve a request or a message.
Serve(p, c, l) ==
  /\ pc[p] = "idle"
  /\ pc' = [pc EXCEPT ![p] = l]
  /\ call' = [call EXCEPT ![p] = c]
  /\ reply' = [reply EXCEPT ![p] = 0]
  /\ UNCHANGED <<tx, draft, table, payment, topics, history>>

-----------------------------------------------------------------------------
(* POST /orders                                                            *)

StartCreate(c) ==
  Serve(c, [NoCall EXCEPT !.op = "create"], "parts")

\* uuid.New(): not in the table, and not about to be inserted by another.
FreshOrder(o) ==
  /\ ~Exists(o)
  /\ \A q \in Clients : pc[q] = "insert" => call[q].order # o

\* The loop over the parts: one that is unknown, out of stock or cannot be
\* asked for ends the request.  Stock is looked at and never reserved.
CheckParts(c) ==
  /\ pc[c] = "parts"
  /\ \/ Reply(c, 400)
     \/ \E o \in Orders :
          /\ FreshOrder(o)
          /\ Goto(c, "insert")
          /\ call' = [call EXCEPT ![c].order = o]
          /\ UNCHANGED <<tx, draft, reply>>
  /\ UNCHANGED <<table, payment, topics, history>>

NewRow == [status |-> "PENDING_PAYMENT", transactionID |-> NoTx,
           paymentMethod |-> Unspecified]

\* repository.Create.
Insert(c) ==
  LET stored == [orders EXCEPT ![call[c].order] = NewRow] IN
  /\ pc[c] = "insert"
  /\ \/ /\ orders' = stored
        /\ Goto(c, "readBack")
        /\ UNCHANGED <<call, tx, draft, reply>>
     \/ /\ "db" \in Faults
        /\ orders' \in {orders, stored}
        /\ Reply(c, 400)
  /\ UNCHANGED <<payment, topics, history>>

\* The delivery layer reads the order again for its total price; when that
\* fails the client is told the creation failed although the order is stored.
ReadBack(c) ==
  /\ pc[c] = "readBack"
  /\ \/ Exists(call[c].order) /\ Reply(c, 201)
     \/ "db" \in Faults /\ Reply(c, 400)
  /\ UNCHANGED <<table, payment, topics, history>>

-----------------------------------------------------------------------------
(* repository.Update, used by PayOrder, CancelOrder and the consumer.      *)

\* The fields the caller supplies, over the row as it was read.
OverlayDropsFields(row, p) ==
  IF call[p].op = "pay" THEN [row EXCEPT !.transactionID = tx[p]]
  ELSE [row EXCEPT !.status = "CANCELLED"]

OverlayKeepsMethod(row, p) ==
  CASE call[p].op = "pay"      -> [row EXCEPT !.status = "PAID",
                                              !.transactionID = tx[p]]
    [] call[p].op = "cancel"   -> [row EXCEPT !.status = "CANCELLED"]
    [] call[p].op = "complete" -> [row EXCEPT !.status = "COMPLETED"]

OverlayResets(row, p) ==
  CASE call[p].op = "pay"      -> [status |-> "PAID", transactionID |-> tx[p],
                                   paymentMethod |-> call[p].method]
    [] call[p].op = "cancel"   -> [row EXCEPT !.status = "CANCELLED"]
    [] call[p].op = "complete" -> [Absent EXCEPT !.status = "COMPLETED"]

OverlayMisspelt(row, p) ==
  [row EXCEPT !.status = IF call[p].op = "cancel" THEN "CANCELED" ELSE "PAID"]

Overlay(row, p) ==
  CASE call[p].op = "pay"      -> [status |-> "PAID", transactionID |-> tx[p],
                                   paymentMethod |-> call[p].method]
    [] call[p].op = "cancel"   -> [row EXCEPT !.status = "CANCELLED"]
    [] call[p].op = "complete" -> [row EXCEPT !.status = "COMPLETED"]

UpdateErrorIgnored(p) ==
  IF call[p].op = "pay"
  THEN Goto(p, "publish") /\ UNCHANGED <<call, tx, draft, reply, history>>
  ELSE Reply(p, 409) /\ Abandon(p)

\* An error of Update: PayOrder and CancelOrder answer, the consumer leaves
\* the message unmarked.
UpdateFails(p) ==
  /\ Reply(p, CASE call[p].op = "pay"      -> 400
                [] call[p].op = "cancel"   -> 409
                [] call[p].op = "complete" -> 0)
  /\ Abandon(p)

\* r.Get inside Update.
UpdateRead(p) ==
  /\ pc[p] = "read"
  /\ \/ /\ Exists(call[p].order)
        /\ draft' = [draft EXCEPT ![p] = Overlay(orders[call[p].order], p)]
        /\ Goto(p, "write")
        /\ UNCHANGED <<call, tx, reply, history>>
     \/ "db" \in Faults /\ UpdateFails(p)
  /\ UNCHANGED <<table, payment, topics>>

\* The UPDATE, which names no status the row must still have.
UpdateWrite(p) ==
  LET stored == [orders EXCEPT ![call[p].order] = draft[p]] IN
  /\ pc[p] = "write"
  /\ \/ /\ orders' = stored
        /\ \/ /\ call[p].op = "pay"
              /\ Goto(p, "publish")
              /\ UNCHANGED <<call, tx, draft, reply>>
           \/ call[p].op = "cancel" /\ Reply(p, 204)
           \/ call[p].op = "complete" /\ Reply(p, 0)
        /\ UNCHANGED history
     \/ /\ "db" \in Faults
        /\ orders' \in {orders, stored}
        /\ UpdateFails(p)
  /\ UNCHANGED <<payment, topics>>

-----------------------------------------------------------------------------
(* POST /orders/{order_uuid}/pay                                           *)

StartPay(c) ==
  \E o \in Orders, m \in Methods :
    Serve(c, [op |-> "pay", order |-> o, method |-> m], "get")

PayableUnlessCancelled(row) == row.status # "CANCELLED"

Payable(row) == row.status = "PENDING_PAYMENT"

\* PayOrder's Get and status check.
PayGet(c) ==
  /\ pc[c] = "get" /\ call[c].op = "pay"
  /\ LET row == orders[call[c].order] IN
     \/ /\ ~Exists(call[c].order) \/ "db" \in Faults
        /\ Reply(c, 404)
     \/ /\ Exists(call[c].order) /\ ~Payable(row)
        /\ Reply(c, 409)
     \/ /\ Exists(call[c].order) /\ Payable(row)
        /\ Goto(c, "charge")
        /\ UNCHANGED <<call, tx, draft, reply>>
  /\ UNCHANGED <<table, payment, topics, history>>

\* The order service's table of enum values; anything else is unspecified.
OpenAPIPaymentMethodToProto(m) == IF m \in Methods THEN m ELSE Unspecified

ChargeIgnoresError(c) ==
  /\ pc[c] = "charge"
  /\ \E t \in Txs \cup {NoTx} :
       /\ IF t = NoTx THEN UNCHANGED payment
          ELSE Pay!PayOrder(t, call[c].order, call[c].method)
       /\ tx' = [tx EXCEPT ![c] = t]
       /\ Goto(c, "read")
       /\ UNCHANGED <<call, draft, reply>>
  /\ UNCHANGED <<table, topics, history>>

\* The transaction that the payment service creates for c's call.
Asked(c, t) == [uuid |-> t, order |-> call[c].order,
                method |-> OpenAPIPaymentMethodToProto(call[c].method)]

\* The call to the payment service: it answers, or it fails and nothing has
\* happened, or it fails (a deadline, a broken connection, a customer who hung
\* up) when the payment is made already, or is still to be made.
Charge(c) ==
  /\ pc[c] = "charge"
  /\ \/ /\ Reply(c, 400)
        /\ UNCHANGED <<payment, history>>
     \/ \E t \in Txs :
          /\ Pay!PayOrder(t, call[c].order,
                          OpenAPIPaymentMethodToProto(call[c].method))
          /\ tx' = [tx EXCEPT ![c] = t]
          /\ Goto(c, "read")
          /\ UNCHANGED <<call, draft, reply, history>>
     \/ /\ "answer" \in Faults
        /\ \E t \in Txs :
             /\ \/ Pay!PayOrder(t, call[c].order,
                                OpenAPIPaymentMethodToProto(call[c].method))
                \/ Pay!LeaveCalls({Asked(c, t)})
             /\ abandoned' = abandoned \cup {t}
        /\ Reply(c, 400)
        /\ UNCHANGED confirmed
  /\ UNCHANGED <<table, topics>>

\* SendOrderPaid: its error is swallowed, the client gets its 200 either way.
Publish(c) ==
  /\ pc[c] = "publish"
  /\ \/ paid' = paid \cup {[order |-> call[c].order, tx |-> tx[c],
                            method |-> call[c].method]}
     \/ "kafka" \in Faults /\ UNCHANGED paid
  /\ Reply(c, 200)
  /\ confirmed' = confirmed \cup {tx[c]}
  /\ UNCHANGED <<table, payment, assembled, abandoned>>

-----------------------------------------------------------------------------
(* POST /orders/{order_uuid}/cancel                                        *)

StartCancel(c) ==
  \E o \in Orders :
    Serve(c, [op |-> "cancel", order |-> o, method |-> Unspecified], "get")

CancelUpdatesUnlessCancelled(status) == status \in {"PENDING_PAYMENT", "COMPLETED"}

CancelUpdates(status) == status = "PENDING_PAYMENT"

\* CancelOrder up to its Update: 409 for a paid order, and success without
\* an update for one that is already cancelled or completed.
CancelGet(c) ==
  /\ pc[c] = "get" /\ call[c].op = "cancel"
  /\ LET status == orders[call[c].order].status IN
     \/ /\ ~Exists(call[c].order) \/ "db" \in Faults
        /\ Reply(c, 404)
     \/ status = "PAID" /\ Reply(c, 409)
     \/ /\ status \in {"CANCELLED", "COMPLETED"} /\ ~CancelUpdates(status)
        /\ Reply(c, 204)
     \/ /\ CancelUpdates(status)
        /\ Goto(c, "read")
        /\ UNCHANGED <<call, tx, draft, reply>>
  /\ UNCHANGED <<table, payment, topics, history>>

-----------------------------------------------------------------------------
(* Kafka, the assembly service and the ShipAssembled consumer.             *)

\* The assembly service answers an OrderPaid event.  A topic keeps its
\* messages, so an event that is delivered again changes nothing here.
Assemble ==
  \E e \in paid :
    /\ e.order \notin assembled
    /\ assembled' = assembled \cup {e.order}
    /\ UNCHANGED <<table, payment, paid, locals, history>>

\* handler.Handle: a message is delivered, possibly not for the first time,
\* and the order's status is set without looking at what it is.
Consume(w) ==
  \E o \in assembled :
    Serve(w, [op |-> "complete", order |-> o, method |-> Unspecified], "read")

-----------------------------------------------------------------------------
(* Restarts, and what the payment service goes on with.                    *)

\* The order service stops: its goroutines are gone, the table and the
\* topics are not, and a payment it has asked for may still be made.
Crash ==
  /\ "crash" \in Faults
  /\ pc' = [p \in Procs |-> "idle"]
  /\ call' = [p \in Procs |-> NoCall]
  /\ tx' = [p \in Procs |-> NoTx]
  /\ draft' = [p \in Procs |-> Absent]
  /\ reply' = [p \in Procs |-> 0]
  /\ \E left \in SUBSET {c \in Clients : pc[c] = "charge"} :
     \E t \in [left -> Txs] :
       /\ \A c, d \in left : t[c] = t[d] => c = d
       /\ Pay!LeaveCalls({Asked(c, t[c]) : c \in left})
       /\ abandoned' = abandoned \cup {t[c] : c \in left} \cup
            ({tx[p] : p \in {q \in Clients :
                               pc[q] \in {"read", "write", "publish"}}} \ {NoTx})
  /\ UNCHANGED <<table, topics, confirmed>>

PaymentRestarts ==
  /\ "payment" \in Faults
  /\ Pay!PaymentRestart
  /\ UNCHANGED <<table, topics, locals, history>>

\* The payment service carries out a call that nobody waits for any more, maybe
\* long after another request has paid for the order or cancelled it.
LatePayment ==
  /\ \E tr \in running : Pay!PayLate(tr)
  /\ UNCHANGED <<table, topics, locals, history>>

-----------------------------------------------------------------------------
Request(c) ==
  \/ StartCreate(c) \/ CheckParts(c) \/ Insert(c) \/ ReadBack(c)
  \/ StartPay(c) \/ PayGet(c) \/ Charge(c) \/ Publish(c)
  \/ StartCancel(c) \/ CancelGet(c)

Next ==
  \/ \E c \in Clients : Request(c)
  \/ \E w \in Workers : Consume(w)
  \/ \E p \in Procs : UpdateRead(p) \/ UpdateWrite(p)
  \/ Assemble
  \/ Crash
  \/ PaymentRestarts
  \/ LatePayment

Spec == Init /\ [][Next]_vars

-----------------------------------------------------------------------------
(* Properties.                                                             *)

\* Every variable has its type; a goroutine that works on an order knows which.
TypeOK ==
  /\ orders \in [Orders -> Row]
  /\ Pay!PaymentTypeOK
  /\ paid \subseteq Event
  /\ assembled \subseteq Orders
  /\ pc \in [Procs -> Labels]
  /\ call \in [Procs -> Call]
  /\ tx \in [Procs -> Txs \cup {NoTx}]
  /\ draft \in [Procs -> Row]
  /\ reply \in [Procs -> Codes]
  /\ confirmed \subseteq Txs
  /\ abandoned \subseteq Txs

ChargedFor(o) == {c \in charged : c.order = o}

Settled(o) == orders[o].status \notin {"ABSENT", "PENDING_PAYMENT"}

\* Whatever handlers race and whatever statement fails, the transaction and
\* the payment method of a row belong together: they are those of one payment
\* the payment service made for this very order.  A row without a transaction
\* is not PAID and has the method it was created with.
StoredTransactionIsReal ==
  \A o \in Orders :
    LET row == orders[o] IN
    IF row.transactionID = NoTx
    THEN row.paymentMethod = Unspecified /\ row.status # "PAID"
    ELSE [uuid |-> row.transactionID, order |-> o,
          method |-> row.paymentMethod] \in charged

\* An OrderPaid event tells of a payment that was made for its order with
\* that method, and nobody reads it while the order still awaits payment.
PaidEventsAreTrue ==
  \A e \in paid :
    /\ [uuid |-> e.tx, order |-> e.order, method |-> e.method] \in charged
    /\ Settled(e.order)

\* A ship is assembled, and an order COMPLETED, only if the order was charged:
\* no race and no redelivery completes an order nobody paid for.
CompletedWereCharged ==
  \A o \in Orders :
    o \in assembled \/ orders[o].status = "COMPLETED" => ChargedFor(o) # {}

\* What the topics and the final status tell is true of the payments.
EventsAreTrue == PaidEventsAreTrue /\ CompletedWereCharged

\* A transaction the customer was told of with a 200 was charged, and the
\* order it paid for does not await payment (again).
ConfirmedIsSettled ==
  \A t \in confirmed :
    \E c \in charged : c.uuid = t /\ Settled(c.order)

Holds(p, t) == pc[p] \in {"read", "write"} /\ call[p].op = "pay" /\ tx[p] = t

\* Money is not forgotten silently: as long as a charged order still awaits
\* payment, either a handler is about to record the transaction or the
\* handler that made it ended without a 200 (an error, or a crash).
ChargeIsNotForgotten ==
  \A c \in charged :
    orders[c.order].status = "PENDING_PAYMENT" =>
      \/ c.uuid \in abandoned
      \/ \E p \in Clients : Holds(p, c.uuid)

\* No step makes an order await payment again or removes it.
NeverPendingAgain ==
  [][\A o \in Orders : Settled(o) => Settled(o)']_vars

-----------------------------------------------------------------------------
(* Promises that hold while requests for one order are decided one at a    *)
(* time, which nothing in the code sees to.                                *)

\* Between the Get that looks at an order's status and the UPDATE that
\* changes it, no other request gets there for the same order: as if
\* the row were locked.
Deciding(c) == pc[c] \in {"charge", "read", "write"}

OneAtATime ==
  \A c, d \in Clients :
    Deciding(c) /\ Deciding(d) /\ call[c].order = call[d].order => c = d

\* A payment that was confirmed with a 200 is the order's payment for good:
\* the order stays PAID or COMPLETED and keeps the transaction, through
\* failures, restarts and redelivered events.
ConfirmedPaymentSticks ==
  \A c \in charged :
    c.uuid \in confirmed =>
      /\ orders[c.order].transactionID = c.uuid
      /\ orders[c.order].status \in {"PAID", "COMPLETED"}

\* An order is charged twice only after an attempt that ended without a 200.
ChargedTwiceOnlyAfterFailure ==
  \A c, d \in charged :
    c.order = d.order /\ c # d =>
      c.uuid \in abandoned \/ d.uuid \in abandoned

Lifecycle == INSTANCE OrderLifecycle

\* The table implements the life cycle of an order: created, then paid or
\* cancelled once, and a paid one completed; the statuses are those of the code
\* and of order.openapi.yaml (the README calls the last one ASSEMBLED).
ImplementsLifecycle == Lifecycle!Spec

-----------------------------------------------------------------------------
(* Promises of the documentation that the code does not keep.              *)

\* README: "an order can be cancelled only while it is PENDING_PAYMENT; a
\* paid order cannot be cancelled".  CancelOrder reads the status and writes
\* CANCELLED in two later statements.
PaidIsNeverCancelled ==
  [][\A o \in Orders :
       orders[o].status = "PAID" => orders'[o].status # "CANCELLED"]_vars

\* order_pay.yaml: 409, "order is already paid or cancelled".  PayOrder looks
\* at the status before it calls the payment service and never again.
PaidIsNotChargedAgain ==
  [][\A o \in Orders :
       orders[o].status = "PAID" => ChargedFor(o)' = ChargedFor(o)]_vars

\* With one decision at a time, only a call of the payment service whose caller
\* has gone charges an order that has been paid meanwhile.
PaidIsChargedOnlyLate ==
  [][\A o \in Orders :
       orders[o].status = "PAID" => ChargedFor(o)' \ ChargedFor(o) \subseteq running]_vars
=============================================================================

------------------------------ MODULE Payment ------------------------------
(***************************************************************************)
(* The payment service: a gRPC handler in front of an in-memory map of     *)
(* transactions guarded by a mutex.  The map is lost when the process      *)
(* stops.  `charged' is a history variable: every transaction the service  *)
(* ever created, which is what the payer was actually charged.             *)
(*                                                                         *)
(* The handler never looks at its context, so a call whose caller has gone *)
(* (a deadline, a cancelled request, a stopped process) is carried out all *)
(* the same, when its goroutine gets to it.                                *)
(*                                                                         *)
(* The amount (always 0 in the code) and the timestamps are left out.      *)
(***************************************************************************)
CONSTANTS Txs,      \* transaction UUIDs; bounds how many payments can happen
          Orders,   \* order UUIDs
          Methods   \* the payment methods both API enums list

VARIABLES transactions,  \* Repository.transactions
          running,       \* what calls whose caller has gone will still create
          charged        \* history: every transaction ever created

paymentVars == <<transactions, running, charged>>

Transaction == [uuid : Txs, order : Orders, method : Methods]

PaymentTypeOK == /\ transactions \subseteq Transaction
                 /\ running \subseteq Transaction
                 /\ charged \subseteq Transaction

PaymentInit == transactions = {} /\ running = {} /\ charged = {}

\* uuid.New(): an identifier that no other transaction ever has.
FreshTx(t) == t \in Txs /\ \A c \in charged \cup running : c.uuid # t

\* Repository.CreateTransaction, under the write lock: a known UUID is refused.
CreateTransaction(tr) ==
  /\ \A known \in transactions : known.uuid # tr.uuid
  /\ transactions' = transactions \cup {tr}
  /\ charged' = charged \cup {tr}

\* useCase.PayOrder: a new COMPLETED transaction for every call, whether or not
\* the order already has one.  Its checks for an empty order or user UUID
\* cannot fail for the order service, which sends the UUIDs of a stored order.
PayOrder(t, order, method) ==
  /\ FreshTx(t)
  /\ CreateTransaction([uuid |-> t, order |-> order, method |-> method])
  /\ UNCHANGED running

\* The callers of useCase.PayOrder go away before it stores its transactions.
LeaveCalls(calls) ==
  /\ \A tr \in calls : FreshTx(tr.uuid)
  /\ running' = running \cup calls
  /\ UNCHANGED <<transactions, charged>>

\* One of those calls gets to CreateTransaction; its answer reaches nobody.
PayLate(tr) ==
  /\ tr \in running
  /\ CreateTransaction(tr)
  /\ running' = running \ {tr}

\* The process stops, with the calls it serves, and starts again with an empty
\* map (NewRepository).
PaymentRestart ==
  /\ transactions \cup running # {}
  /\ transactions' = {} /\ running' = {}
  /\ UNCHANGED charged
=============================================================================

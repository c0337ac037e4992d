------------------------- MODULE OrderServiceProofs -------------------------
(***************************************************************************)
(* Proofs about OrderService for every set of orders, transactions,        *)
(* clients and workers and every set of faults.                            *)
(***************************************************************************)
EXTENDS OrderService, TLAPS

-----------------------------------------------------------------------------
(* The inductive invariant.                                                *)

\* Which operation a goroutine serves follows from where it is.
Located(p) ==
  /\ pc[p] \in {"parts", "insert", "readBack", "get", "charge", "publish"}
       => p \in Clients
  /\ pc[p] \in {"parts", "insert", "readBack"} => call[p].op = "create"
  /\ pc[p] = "get" => call[p].op \in {"pay", "cancel"}
  /\ pc[p] \in {"charge", "publish"} => call[p].op = "pay"
  /\ pc[p] \in {"read", "write"} =>
       IF p \in Clients THEN call[p].op \in {"pay", "cancel"}
                        ELSE call[p].op = "complete"
  /\ pc[p] \notin {"idle", "parts"} => call[p].order \in Orders

\* An order about to be inserted is not in the table, and by nobody else.
Inserts(p) ==
  pc[p] = "insert" =>
    /\ ~Exists(call[p].order)
    /\ \A q \in Clients :
         pc[q] = "insert" /\ call[q].order = call[p].order => q = p

\* A row is one that some payment, or no payment, explains.
Explained(o, row) ==
  IF row.transactionID = NoTx
  THEN row.paymentMethod = Unspecified /\ row.status # "PAID"
  ELSE [uuid |-> row.transactionID, order |-> o,
        method |-> row.paymentMethod] \in charged

\* A PayOrder that got its answer holds the transaction it was given.
HoldsReal(p) ==
  /\ pc[p] \in {"charge", "read", "write", "publish"} => Exists(call[p].order)
  /\ pc[p] \in {"read", "write", "publish"} /\ call[p].op = "pay" =>
       [uuid |-> tx[p], order |-> call[p].order, method |-> call[p].method]
         \in charged
  /\ pc[p] = "publish" => Settled(call[p].order)

\* What Update is about to write would be a legal row, and settles the order.
DraftReal(p) ==
  pc[p] = "write" =>
    /\ Explained(call[p].order, draft[p])
    /\ draft[p].status \notin {"ABSENT", "PENDING_PAYMENT"}
    /\ draft[p].status = "COMPLETED" => ChargedFor(call[p].order) # {}

\* A consumer works on an order that was charged.
CompletesCharged(p) ==
  pc[p] \in {"read", "write"} /\ call[p].op = "complete" =>
    ChargedFor(call[p].order) # {}

\* A charged order is in the table, and a transaction pays for one order.
ChargedExist ==
  /\ \A c \in charged : Exists(c.order)
  /\ \A c, d \in charged : c.uuid = d.uuid => c = d

\* A call whose caller has gone is counted as abandoned, is about an order in
\* the table, and will create a transaction of its own.
RunningAbandoned ==
  /\ \A r \in running : r.uuid \in abandoned /\ Exists(r.order)
  /\ \A r \in running, c \in charged : r.uuid # c.uuid
  /\ \A r, s \in running : r.uuid = s.uuid => r = s

ProcInv(p) == /\ Located(p) /\ Inserts(p) /\ HoldsReal(p)
              /\ DraftReal(p) /\ CompletesCharged(p)

IInv == /\ TypeOK
        /\ \A p \in Procs : ProcInv(p)
        /\ ChargedExist
        /\ RunningAbandoned
        /\ StoredTransactionIsReal
        /\ EventsAreTrue
        /\ ConfirmedIsSettled
        /\ ChargeIsNotForgotten
-----------------------------------------------------------------------------
(* The payment service's variables, as this module sees them.              *)

LEMMA ChargeStep ==
  ASSUME NEW t \in Txs, NEW o \in Orders, NEW m \in Methods,
         Pay!PaymentTypeOK, Pay!PayOrder(t, o, m)
  PROVE  /\ Pay!PaymentTypeOK'
         /\ charged' = charged \cup {[uuid |-> t, order |-> o, method |-> m]}
         /\ running' = running
         /\ \A c \in charged \cup running : c.uuid # t
  BY DEF Pay!PaymentTypeOK, Pay!PayOrder, Pay!CreateTransaction, Pay!FreshTx,
         Pay!Transaction

LEMMA LeaveStep ==
  ASSUME NEW calls \in SUBSET Pay!Transaction,
         Pay!PaymentTypeOK, Pay!LeaveCalls(calls)
  PROVE  /\ Pay!PaymentTypeOK'
         /\ charged' = charged /\ running' = running \cup calls
         /\ \A r \in calls, c \in charged \cup running : c.uuid # r.uuid
  BY DEF Pay!PaymentTypeOK, Pay!LeaveCalls, Pay!FreshTx

LEMMA LateStep ==
  ASSUME NEW r, Pay!PaymentTypeOK, Pay!PayLate(r)
  PROVE  /\ Pay!PaymentTypeOK'
         /\ r \in running /\ running' = running \ {r}
         /\ charged' = charged \cup {r}
  BY DEF Pay!PaymentTypeOK, Pay!PayLate, Pay!CreateTransaction

LEMMA AskedIs ==
  ASSUME OrderConstants, IInv, NEW c \in Clients, pc[c] = "charge", NEW t \in Txs
  PROVE  /\ Asked(c, t) \in Pay!Transaction
         /\ Asked(c, t).uuid = t /\ Asked(c, t).order = call[c].order
         /\ Exists(call[c].order)
  <1>1. call[c].order \in Orders /\ call[c].method \in Methods
        /\ Exists(call[c].order)
    BY DEF IInv, ProcInv, Located, HoldsReal, TypeOK, Call, Procs
  <1> QED BY <1>1 DEF Asked, OpenAPIPaymentMethodToProto, Pay!Transaction

\* The calls a stop of the order service leaves behind.
LEMMA CrashLeaves ==
  ASSUME OrderConstants, IInv, Crash
  PROVE  \E calls \in SUBSET Pay!Transaction :
           /\ Pay!LeaveCalls(calls)
           /\ \A r \in calls : r.uuid \in abandoned' /\ Exists(r.order)
           /\ \A r, s \in calls : r.uuid = s.uuid => r = s
  <1> DEFINE held == {tx[p] : p \in {q \in Clients :
                                       pc[q] \in {"read", "write", "publish"}}}
             After(left, t) ==
               /\ \A c, d \in left : t[c] = t[d] => c = d
               /\ Pay!LeaveCalls({Asked(c, t[c]) : c \in left})
               /\ abandoned' = abandoned \cup {t[c] : c \in left} \cup (held \ {NoTx})
  <1>0. \E left \in SUBSET {c \in Clients : pc[c] = "charge"} :
          \E t \in [left -> Txs] : After(left, t)
    BY Zenon DEF Crash
  <1> HIDE DEF held
  <1>a. PICK left \in SUBSET {c \in Clients : pc[c] = "charge"} :
          \E t \in [left -> Txs] : After(left, t)
    BY <1>0
  <1>1. PICK t \in [left -> Txs] :
          /\ \A c, d \in left : t[c] = t[d] => c = d
          /\ Pay!LeaveCalls({Asked(c, t[c]) : c \in left})
          /\ \A c \in left : t[c] \in abandoned'
    BY <1>a
  <1> DEFINE calls == {Asked(c, t[c]) : c \in left}
  <1>2. \A c \in left : /\ Asked(c, t[c]) \in Pay!Transaction
                        /\ Asked(c, t[c]).uuid = t[c]
                        /\ Exists(Asked(c, t[c]).order)
    BY AskedIs
  <1>3. calls \in SUBSET Pay!Transaction
    BY <1>2
  <1>4. \A r \in calls : r.uuid \in abandoned' /\ Exists(r.order)
    BY <1>1, <1>2
  <1>5. \A r, s \in calls : r.uuid = s.uuid => r = s
    BY <1>1, <1>2
  <1> QED BY <1>1, <1>3, <1>4, <1>5

-----------------------------------------------------------------------------
(* The rows Update writes.                                                 *)

LEMMA OverlayIsLegal ==
  ASSUME OrderConstants, TypeOK, NEW p \in Procs, ProcInv(p), pc[p] = "read",
         StoredTransactionIsReal, EventsAreTrue
  PROVE  LET o == call[p].order  row == Overlay(orders[o], p) IN
         /\ row \in Row
         /\ Explained(o, row)
         /\ row.status \notin {"ABSENT", "PENDING_PAYMENT"}
         /\ row.status = "COMPLETED" => ChargedFor(o) # {}
<1> DEFINE o == call[p].order
           row == Overlay(orders[o], p)
<1>1. o \in Orders /\ orders[o] \in Row /\ call[p] \in Call
  BY DEF ProcInv, Located, TypeOK
<1>2. Explained(o, orders[o])
  BY <1>1 DEF StoredTransactionIsReal, Explained
<1>3. CASE call[p].op = "pay"
  <2>1. row = [status |-> "PAID", transactionID |-> tx[p],
               paymentMethod |-> call[p].method]
    BY <1>3 DEF Overlay
  <2>2. [uuid |-> tx[p], order |-> o, method |-> call[p].method] \in charged
    BY <1>3 DEF ProcInv, HoldsReal
  <2>3. tx[p] \in Txs /\ call[p].method \in Methods
    BY <1>1, <2>2 DEF TypeOK, Pay!PaymentTypeOK, Pay!Transaction, Call
  <2>4. QED
    BY <2>1, <2>2, <2>3 DEF Row, Statuses, Explained, OrderConstants
<1>4. CASE call[p].op = "cancel"
  <2>1. row = [orders[o] EXCEPT !.status = "CANCELLED"]
    BY <1>4 DEF Overlay
  <2>2. QED
    BY <1>1, <1>2, <2>1 DEF Row, Statuses, Explained
<1>5. CASE call[p].op = "complete"
  <2>1. row = [orders[o] EXCEPT !.status = "COMPLETED"]
    BY <1>5 DEF Overlay
  <2>2. ChargedFor(o) # {}
    BY <1>5 DEF ProcInv, CompletesCharged
  <2>3. QED
    BY <1>1, <1>2, <2>1, <2>2 DEF Row, Statuses, Explained
<1>6. call[p].op \in {"pay", "cancel", "complete"}
  BY DEF ProcInv, Located
<1>7. QED
  BY <1>3, <1>4, <1>5, <1>6

-----------------------------------------------------------------------------
(* Type correctness.                                                       *)

LEMMA InitTypeOK == ASSUME OrderConstants, Init PROVE TypeOK
BY DEF OrderConstants, Init, TypeOK, Pay!PaymentInit, Pay!PaymentTypeOK, Row,
       Absent, Call, NoCall, Labels, Codes, Statuses

LEMMA ReplyType ==
  ASSUME TypeOK, OrderConstants, NEW p \in Procs, NEW code \in Codes,
         Reply(p, code)
  PROVE  /\ pc' \in [Procs -> Labels]
         /\ call' \in [Procs -> Call]
         /\ tx' \in [Procs -> Txs \cup {NoTx}]
         /\ draft' \in [Procs -> Row]
         /\ reply' \in [Procs -> Codes]
BY DEF TypeOK, Reply, Labels, Absent, Row, OrderConstants, Statuses, NoCall,
       Call

LEMMA ServeType ==
  ASSUME TypeOK, OrderConstants, NEW p \in Procs, NEW c \in Call,
         NEW l \in Labels, Serve(p, c, l)
  PROVE  TypeOK'
BY DEF TypeOK, Serve, Codes, table, payment, topics, history,
       Pay!PaymentTypeOK

LEMMA UpdateFailsType ==
  ASSUME TypeOK, OrderConstants, NEW p \in Procs,
         call[p].op \in {"pay", "cancel", "complete"}, UpdateFails(p)
  PROVE  /\ pc' \in [Procs -> Labels]
         /\ call' \in [Procs -> Call]
         /\ tx' \in [Procs -> Txs \cup {NoTx}]
         /\ draft' \in [Procs -> Row]
         /\ reply' \in [Procs -> Codes]
         /\ confirmed' \subseteq Txs
         /\ abandoned' \subseteq Txs
<1>1. \E code \in Codes : Reply(p, code)
  BY DEF UpdateFails, Codes
<1>2. QED
  BY <1>1, ReplyType DEF TypeOK, UpdateFails, Abandon

\* One step per action; the located goroutines say which order each works on.
LEMMA TypeStep ==
  ASSUME OrderConstants, IInv, [Next]_vars
  PROVE  TypeOK'
<1> USE DEF Procs, IInv
<1>1. CASE UNCHANGED vars
  BY <1>1 DEF vars, TypeOK, Pay!PaymentTypeOK
<1>2. ASSUME NEW c \in Clients, StartCreate(c) PROVE TypeOK'
  <2>1. [NoCall EXCEPT !.op = "create"] \in Call
    BY OrderConstants DEF NoCall, Call
  <2>2. QED
    BY <1>2, <2>1, ServeType DEF StartCreate, Labels
<1>3. ASSUME NEW c \in Clients, CheckParts(c) PROVE TypeOK'
  <2>1. CASE Reply(c, 400)
    BY <1>3, <2>1, ReplyType
       DEF CheckParts, TypeOK, Codes, table, payment, topics, history,
           Pay!PaymentTypeOK
  <2>2. ASSUME NEW o \in Orders, Goto(c, "insert"),
               call' = [call EXCEPT ![c].order = o],
               UNCHANGED <<tx, draft, reply>>
        PROVE  TypeOK'
    <3>1. call' \in [Procs -> Call]
      BY <2>2 DEF TypeOK, Call
    <3>2. QED
      BY <1>3, <2>2, <3>1
         DEF CheckParts, TypeOK, Goto, Labels, table, payment, topics, history,
             Pay!PaymentTypeOK
  <2>3. QED
    BY <1>3, <2>1, <2>2 DEF CheckParts
<1>4. ASSUME NEW c \in Clients, Insert(c) PROVE TypeOK'
  <2>1. NewRow \in Row
    BY OrderConstants DEF NewRow, Row, Statuses
  <2>2. orders' \in [Orders -> Row]
    BY <1>4, <2>1 DEF Insert, TypeOK
  <2>3. CASE Reply(c, 400)
    BY <1>4, <2>2, <2>3, ReplyType
       DEF Insert, TypeOK, Codes, payment, topics, history, Pay!PaymentTypeOK
  <2>4. CASE Goto(c, "readBack") /\ UNCHANGED <<call, tx, draft, reply>>
    BY <1>4, <2>2, <2>4
       DEF Insert, TypeOK, Goto, Labels, payment, topics, history,
           Pay!PaymentTypeOK
  <2>5. QED
    BY <1>4, <2>3, <2>4 DEF Insert
<1>5. ASSUME NEW c \in Clients, ReadBack(c) PROVE TypeOK'
  <2>1. \E code \in Codes : Reply(c, code)
    BY <1>5 DEF ReadBack, Codes
  <2>2. QED
    BY <1>5, <2>1, ReplyType
       DEF ReadBack, TypeOK, table, payment, topics, history,
           Pay!PaymentTypeOK
<1>6. ASSUME NEW c \in Clients, StartPay(c) PROVE TypeOK'
  <2>1. PICK o \in Orders, m \in Methods :
          Serve(c, [op |-> "pay", order |-> o, method |-> m], "get")
    BY <1>6 DEF StartPay
  <2>2. QED
    BY <2>1, ServeType DEF Call, Labels
<1>7. ASSUME NEW c \in Clients, PayGet(c) PROVE TypeOK'
  <2>1. CASE \E code \in Codes : Reply(c, code)
    BY <1>7, <2>1, ReplyType
       DEF PayGet, TypeOK, table, payment, topics, history, Pay!PaymentTypeOK
  <2>2. CASE Goto(c, "charge") /\ UNCHANGED <<call, tx, draft, reply>>
    BY <1>7, <2>2
       DEF PayGet, TypeOK, Goto, Labels, table, payment, topics, history,
           Pay!PaymentTypeOK
  <2>3. QED
    BY <1>7, <2>1, <2>2 DEF PayGet, Codes
<1>8. ASSUME NEW c \in Clients, Charge(c) PROVE TypeOK'
  <2>1. call[c].order \in Orders
    BY <1>8 DEF Charge, ProcInv, Located
  <2>2. CASE Reply(c, 400) /\ UNCHANGED <<payment, history>>
    BY <1>8, <2>2, ReplyType
       DEF Charge, TypeOK, Codes, table, payment, topics, history,
           Pay!PaymentTypeOK
  <2>3. ASSUME NEW t \in Txs,
               Pay!PayOrder(t, call[c].order,
                            OpenAPIPaymentMethodToProto(call[c].method))
        PROVE  Pay!PaymentTypeOK'
    BY <2>1, <2>3, ChargeStep, OrderConstants
       DEF OpenAPIPaymentMethodToProto, TypeOK, Call
  <2>4. ASSUME NEW t \in Txs,
               Pay!PayOrder(t, call[c].order,
                            OpenAPIPaymentMethodToProto(call[c].method)),
               tx' = [tx EXCEPT ![c] = t], Goto(c, "read"),
               UNCHANGED <<call, draft, reply, history>>
        PROVE  TypeOK'
    BY <1>8, <2>3, <2>4
       DEF Charge, TypeOK, Goto, Labels, table, topics, history
  <2>5. ASSUME NEW t \in Txs,
               \/ Pay!PayOrder(t, call[c].order,
                               OpenAPIPaymentMethodToProto(call[c].method))
               \/ Pay!LeaveCalls({Asked(c, t)}),
               Reply(c, 400), abandoned' = abandoned \cup {t},
               UNCHANGED confirmed
        PROVE  TypeOK'
    <3>1. CASE Pay!LeaveCalls({Asked(c, t)})
      <4>1. {Asked(c, t)} \in SUBSET Pay!Transaction
        BY <1>8, AskedIs DEF Charge
      <4> QED BY <3>1, <4>1, LeaveStep, <1>8, <2>5, ReplyType
              DEF Charge, TypeOK, Codes, table, topics
    <3>2. CASE ~ Pay!LeaveCalls({Asked(c, t)})
      BY <1>8, <2>3, <2>5, <3>2, ReplyType DEF Charge, TypeOK, Codes, table, topics
    <3> QED BY <3>1, <3>2
  <2>6. QED
    BY <1>8, <2>2, <2>4, <2>5 DEF Charge
<1>9. ASSUME NEW c \in Clients, Publish(c) PROVE TypeOK'
  <2>1. [order |-> call[c].order, tx |-> tx[c], method |-> call[c].method]
          \in Event
    BY <1>9 DEF Publish, ProcInv, Located, HoldsReal, TypeOK,
                Pay!PaymentTypeOK, Pay!Transaction, Event, Call
  <2>2. tx[c] \in Txs
    BY <2>1 DEF Event
  <2>3. QED
    BY <1>9, <2>1, <2>2, ReplyType
       DEF Publish, TypeOK, Codes, table, payment, Pay!PaymentTypeOK
<1>10. ASSUME NEW c \in Clients, StartCancel(c) PROVE TypeOK'
  <2>1. PICK o \in Orders :
          Serve(c, [op |-> "cancel", order |-> o, method |-> Unspecified],
                "get")
    BY <1>10 DEF StartCancel
  <2>2. QED
    BY <2>1, ServeType, OrderConstants DEF Call, Labels
<1>11. ASSUME NEW c \in Clients, CancelGet(c) PROVE TypeOK'
  <2>1. CASE \E code \in Codes : Reply(c, code)
    BY <1>11, <2>1, ReplyType
       DEF CancelGet, TypeOK, table, payment, topics, history,
           Pay!PaymentTypeOK
  <2>2. CASE Goto(c, "read") /\ UNCHANGED <<call, tx, draft, reply>>
    BY <1>11, <2>2
       DEF CancelGet, TypeOK, Goto, Labels, table, payment, topics, history,
           Pay!PaymentTypeOK
  <2>3. QED
    BY <1>11, <2>1, <2>2 DEF CancelGet, Codes
<1>12. ASSUME NEW w \in Workers, Consume(w) PROVE TypeOK'
  <2>1. PICK o \in assembled :
          Serve(w, [op |-> "complete", order |-> o, method |-> Unspecified],
                "read")
    BY <1>12 DEF Consume
  <2>2. [op |-> "complete", order |-> o, method |-> Unspecified] \in Call
    BY OrderConstants DEF TypeOK, Call
  <2>3. QED
    BY <2>1, <2>2, ServeType DEF Labels
<1>13. ASSUME NEW p \in Procs, UpdateRead(p) PROVE TypeOK'
  <2>1. call[p].op \in {"pay", "cancel", "complete"}
    BY <1>13 DEF UpdateRead, ProcInv, Located
  <2>2. CASE UpdateFails(p)
    BY <1>13, <2>1, <2>2, UpdateFailsType
       DEF UpdateRead, TypeOK, table, payment, topics, Pay!PaymentTypeOK
  <2>3. CASE ~UpdateFails(p)
    <3>1. Overlay(orders[call[p].order], p) \in Row
      BY <1>13, OverlayIsLegal DEF UpdateRead
    <3>2. QED
      BY <1>13, <2>3, <3>1
         DEF UpdateRead, TypeOK, Goto, Labels, table, payment, topics,
             history, Pay!PaymentTypeOK
  <2>4. QED
    BY <2>2, <2>3
<1>14. ASSUME NEW p \in Procs, UpdateWrite(p) PROVE TypeOK'
  <2>1. call[p].op \in {"pay", "cancel", "complete"}
    BY <1>14 DEF UpdateWrite, ProcInv, Located
  <2>2. orders' \in [Orders -> Row]
    BY <1>14 DEF UpdateWrite, TypeOK
  <2>3. CASE UpdateFails(p)
    BY <1>14, <2>1, <2>2, <2>3, UpdateFailsType
       DEF UpdateWrite, TypeOK, payment, topics, Pay!PaymentTypeOK
  <2>4. CASE (\E code \in Codes : Reply(p, code)) /\ UNCHANGED history
    BY <1>14, <2>2, <2>4, ReplyType
       DEF UpdateWrite, TypeOK, payment, topics, history, Pay!PaymentTypeOK
  <2>5. CASE /\ Goto(p, "publish")
             /\ UNCHANGED <<call, tx, draft, reply, history>>
    BY <1>14, <2>2, <2>5
       DEF UpdateWrite, TypeOK, Goto, Labels, payment, topics, history,
           Pay!PaymentTypeOK
  <2>6. QED
    BY <1>14, <2>3, <2>4, <2>5 DEF UpdateWrite, Codes
<1>15. CASE Assemble
  BY <1>15 DEF Assemble, TypeOK, Event, table, payment, locals, history,
               Pay!PaymentTypeOK
<1>16. CASE Crash
  <2>1. /\ NoCall \in Call /\ Absent \in Row
        /\ "idle" \in Labels /\ 0 \in Codes
    BY OrderConstants DEF NoCall, Call, Absent, Row, Labels, Codes
  <2>2. abandoned' \subseteq Txs
    BY <1>16 DEF Crash, TypeOK
  <2>3. Pay!PaymentTypeOK'
    BY <1>16, CrashLeaves, LeaveStep DEF TypeOK
  <2>4. QED
    BY <1>16, <2>1, <2>2, <2>3 DEF Crash, TypeOK, table, topics
<1>17. CASE PaymentRestarts
  BY <1>17 DEF PaymentRestarts, TypeOK, table, topics, locals, history,
               Pay!PaymentTypeOK, Pay!PaymentRestart
<1>18. CASE LatePayment
  BY <1>18, LateStep DEF LatePayment, TypeOK, table, topics, locals, history
<1>19. QED
  BY <1>1, <1>2, <1>3, <1>4, <1>5, <1>6, <1>7, <1>8, <1>9, <1>10, <1>11,
     <1>12, <1>13, <1>14, <1>15, <1>16, <1>17, <1>18 DEF Next, Request

-----------------------------------------------------------------------------
(* Who writes what: each shared variable has one writer, or two.           *)

LEMMA WhoWrites ==
  ASSUME [Next]_vars
  PROVE  /\ \/ UNCHANGED orders
            \/ \E c \in Clients : Insert(c)
            \/ \E p \in Procs : UpdateWrite(p)
         /\ \/ UNCHANGED charged
            \/ \E c \in Clients, t \in Txs :
                 /\ Charge(c)
                 /\ Pay!PayOrder(t, call[c].order,
                                 OpenAPIPaymentMethodToProto(call[c].method))
            \/ LatePayment
         /\ UNCHANGED <<paid, confirmed>> \/ \E c \in Clients : Publish(c)
         /\ UNCHANGED assembled \/ Assemble
         /\ abandoned \subseteq abandoned'
<1>1. ASSUME NEW c \in Clients,
             \/ StartCreate(c) \/ CheckParts(c) \/ ReadBack(c)
             \/ StartPay(c) \/ PayGet(c) \/ StartCancel(c) \/ CancelGet(c)
      PROVE  UNCHANGED <<table, payment, topics, history>>
  BY <1>1 DEF StartCreate, CheckParts, ReadBack, StartPay, PayGet, StartCancel,
              CancelGet, Serve
<1>2. ASSUME NEW c \in Clients, Insert(c)
      PROVE  UNCHANGED <<payment, topics, history>>
  BY <1>2 DEF Insert
<1>3. ASSUME NEW c \in Clients, Charge(c)
      PROVE  /\ UNCHANGED <<table, topics, confirmed>>
             /\ abandoned \subseteq abandoned'
             /\ \/ UNCHANGED charged
                \/ \E t \in Txs :
                     Pay!PayOrder(t, call[c].order,
                                  OpenAPIPaymentMethodToProto(call[c].method))
  BY <1>3 DEF Charge, history, payment, Pay!LeaveCalls
<1>4. ASSUME NEW c \in Clients, Publish(c)
      PROVE  UNCHANGED <<table, payment, assembled, abandoned>>
  BY <1>4 DEF Publish
<1>5. ASSUME NEW w \in Workers, Consume(w)
      PROVE  UNCHANGED <<table, payment, topics, history>>
  BY <1>5 DEF Consume, Serve
<1>6. ASSUME NEW p \in Procs, UpdateRead(p) \/ UpdateWrite(p)
      PROVE  /\ UNCHANGED <<payment, topics, confirmed>>
             /\ UpdateRead(p) => UNCHANGED table
             /\ abandoned \subseteq abandoned'
  BY <1>6 DEF UpdateRead, UpdateWrite, UpdateFails, Abandon, history
<1>7. CASE Assemble
  BY <1>7 DEF Assemble, table, payment, history
<1>8. CASE Crash
  BY <1>8 DEF Crash, table, topics, Pay!LeaveCalls
<1>9. CASE PaymentRestarts
  BY <1>9 DEF PaymentRestarts, Pay!PaymentRestart, table, topics, history
<1>10. CASE UNCHANGED vars \/ LatePayment
  BY <1>10 DEF vars, LatePayment, table, topics, history
<1> USE DEF table, payment, topics, history
<1>11. CASE \E c \in Clients : Request(c)
  BY <1>1, <1>2, <1>3, <1>4, <1>11 DEF Request
<1> QED BY <1>5, <1>6, <1>7, <1>8, <1>9, <1>10, <1>11 DEF Next

-----------------------------------------------------------------------------
(* The table and the charges only grow more settled.                       *)

Monotone ==
  /\ \A o \in Orders : /\ Exists(o) => Exists(o)'
                       /\ Settled(o) => Settled(o)'
  /\ charged \subseteq charged'

LEMMA MonotoneStep ==
  ASSUME OrderConstants, IInv, [Next]_vars
  PROVE  Monotone
<1> USE DEF Procs, IInv, Monotone, Exists, Settled
<1>1. CASE UNCHANGED <<table, payment>>
  BY <1>1 DEF table, payment
<1>2. ASSUME NEW c \in Clients, Insert(c) PROVE Monotone
  <2>1. call[c].order \in Orders /\ ~Exists(call[c].order)
    BY <1>2 DEF Insert, ProcInv, Located, Inserts
  <2>2. QED
    BY <1>2, <2>1 DEF Insert, TypeOK, NewRow, payment
<1>3. ASSUME NEW c \in Clients, Charge(c) PROVE Monotone
  BY <1>3 DEF Charge, table, payment, Pay!PayOrder, Pay!CreateTransaction,
              Pay!LeaveCalls
<1>4. ASSUME NEW p \in Procs, UpdateWrite(p) PROVE Monotone
  <2>1. /\ call[p].order \in Orders
        /\ draft[p].status \notin {"ABSENT", "PENDING_PAYMENT"}
    BY <1>4 DEF UpdateWrite, ProcInv, Located, DraftReal
  <2>2. QED
    BY <1>4, <2>1 DEF UpdateWrite, TypeOK, payment
<1>5. CASE PaymentRestarts
  BY <1>5 DEF PaymentRestarts, Pay!PaymentRestart, table
<1>6. CASE LatePayment
  BY <1>6, LateStep DEF LatePayment, table, TypeOK
<1>7. QED
  BY <1>1, <1>2, <1>3, <1>4, <1>5, <1>6, WhoWrites DEF table

-----------------------------------------------------------------------------
(* A step of one goroutine leaves the others alone.                        *)

Unmoved(q) == /\ pc'[q] = pc[q] /\ call'[q] = call[q]
              /\ tx'[q] = tx[q] /\ draft'[q] = draft[q]

LEMMA OthersKeep ==
  ASSUME IInv, Monotone, NEW p \in Procs,
         \A q \in Procs \ {p} : Unmoved(q),
         \A q \in Procs \ {p} :
           pc[q] = "insert" => /\ ~Exists(call[q].order)'
                               /\ pc'[p] = "insert" =>
                                    call'[p].order # call[q].order
  PROVE  \A q \in Procs \ {p} : ProcInv(q)'
<1> SUFFICES ASSUME NEW q \in Procs \ {p} PROVE ProcInv(q)'
  OBVIOUS
<1> USE DEF IInv, Unmoved
<1>1. Located(q)'
  BY DEF ProcInv, Located
<1>2. Inserts(q)'
  BY DEF ProcInv, Inserts, Procs
<1>3. HoldsReal(q)'
  BY DEF ProcInv, HoldsReal, Located, Monotone
<1>4. DraftReal(q)'
  BY DEF ProcInv, DraftReal, Located, Monotone, Explained, ChargedFor
<1>5. CompletesCharged(q)'
  BY DEF ProcInv, CompletesCharged, Monotone, ChargedFor
<1>6. QED
  BY <1>1, <1>2, <1>3, <1>4, <1>5 DEF ProcInv

LEMMA IdleInv ==
  ASSUME NEW p \in Procs, pc'[p] = "idle"
  PROVE  ProcInv(p)'
BY DEF ProcInv, Located, Inserts, HoldsReal, DraftReal, CompletesCharged

LEMMA ReplyMoves ==
  ASSUME IInv, NEW p \in Procs, NEW code \in Codes, Reply(p, code)
  PROVE  /\ pc'[p] = "idle"
         /\ ProcInv(p)'
         /\ \A q \in Procs \ {p} : Unmoved(q)
BY IdleInv DEF IInv, TypeOK, Reply, Unmoved

LEMMA GotoMoves ==
  ASSUME IInv, NEW p \in Procs, NEW l \in Labels, Goto(p, l),
         UNCHANGED <<tx, draft>>, UNCHANGED call
  PROVE  /\ pc'[p] = l
         /\ \A q \in Procs \ {p} : Unmoved(q)
BY DEF IInv, TypeOK, Goto, Unmoved

LEMMA ServeMoves ==
  ASSUME IInv, NEW p \in Procs, NEW c \in Call, NEW l \in Labels,
         Serve(p, c, l)
  PROVE  /\ pc'[p] = l /\ call'[p] = c
         /\ \A q \in Procs \ {p} : Unmoved(q)
         /\ UNCHANGED <<table, payment, topics, history>>
BY DEF IInv, TypeOK, Serve, Unmoved

\* No step but Insert brings an order into the table.
LEMMA StaysAbsent ==
  ASSUME IInv, NEW p \in Procs, UNCHANGED table, pc'[p] # "insert",
         \A q \in Procs \ {p} : Unmoved(q)
  PROVE  \A q \in Procs \ {p} :
           pc[q] = "insert" => /\ ~Exists(call[q].order)'
                               /\ pc'[p] = "insert" =>
                                    call'[p].order # call[q].order
BY DEF IInv, ProcInv, Inserts, Exists, table, Unmoved

-----------------------------------------------------------------------------
(* Every goroutine's part of the invariant.                                *)

LEMMA ProcStep ==
  ASSUME OrderConstants, IInv, [Next]_vars
  PROVE  (\A p \in Procs : ProcInv(p))'
<1> USE DEF Procs
<1>0. Monotone
  BY MonotoneStep
<1>1. CASE UNCHANGED vars
  BY <1>1 DEF vars, IInv, ProcInv, Located, Inserts, HoldsReal, DraftReal,
              CompletesCharged, Exists, Settled, Explained, ChargedFor
<1>2. ASSUME NEW c \in Clients, StartCreate(c)
      PROVE  (\A p \in Procs : ProcInv(p))'
  <2>1. [NoCall EXCEPT !.op = "create"] \in Call
    BY OrderConstants DEF NoCall, Call
  <2>2. /\ pc'[c] = "parts" /\ call'[c].op = "create" /\ UNCHANGED table
        /\ \A q \in Procs \ {c} : Unmoved(q)
    BY <1>2, <2>1, ServeMoves DEF StartCreate, Labels, NoCall
  <2>3. ProcInv(c)'
    BY <2>2 DEF ProcInv, Located, Inserts, HoldsReal, DraftReal,
                CompletesCharged
  <2>4. QED
    BY <1>0, <2>2, <2>3, OthersKeep, StaysAbsent
<1>3. ASSUME NEW c \in Clients, CheckParts(c)
      PROVE  (\A p \in Procs : ProcInv(p))'
  <2>1. CASE Reply(c, 400)
    BY <1>0, <1>3, <2>1, ReplyMoves, OthersKeep, StaysAbsent
       DEF CheckParts, Codes
  <2>2. ASSUME NEW o \in Orders, FreshOrder(o), Goto(c, "insert"),
               call' = [call EXCEPT ![c].order = o],
               UNCHANGED <<tx, draft, reply>>
        PROVE  (\A p \in Procs : ProcInv(p))'
    <3>1. /\ pc'[c] = "insert" /\ call'[c].order = o
          /\ call'[c].op = call[c].op
          /\ \A q \in Procs \ {c} : Unmoved(q)
      BY <2>2 DEF IInv, TypeOK, Call, Goto, Unmoved
    <3>2. UNCHANGED table
      BY <1>3 DEF CheckParts
    <3>3. \A q \in Procs \ {c} :
            pc[q] = "insert" => ~Exists(call[q].order)' /\ call[q].order # o
      BY <2>2, <3>2 DEF IInv, ProcInv, Inserts, Located, FreshOrder, Exists, table
    <3>4. call[c].op = "create"
      BY <1>3 DEF CheckParts, IInv, ProcInv, Located
    <3>5. ProcInv(c)'
      BY <2>2, <3>1, <3>2, <3>3, <3>4
         DEF ProcInv, Located, Inserts, HoldsReal, DraftReal,
             CompletesCharged, FreshOrder, Exists, table, Unmoved
    <3>6. QED
      BY <1>0, <3>1, <3>3, <3>5, OthersKeep
  <2>3. QED
    BY <1>3, <2>1, <2>2 DEF CheckParts
<1>4. ASSUME NEW c \in Clients, Insert(c)
      PROVE  (\A p \in Procs : ProcInv(p))'
  <2>1. /\ pc[c] = "insert" /\ call[c].order \in Orders
        /\ call[c].op = "create"
    BY <1>4 DEF Insert, IInv, ProcInv, Located
  <2>2. /\ \/ pc'[c] = "idle"
           \/ pc'[c] = "readBack" /\ call'[c] = call[c]
        /\ \A q \in Procs \ {c} : Unmoved(q)
    BY <1>4 DEF Insert, IInv, TypeOK, Reply, Goto, Unmoved
  <2>3. \A q \in Procs \ {c} :
          pc[q] = "insert" => ~Exists(call[q].order)'
    <3>1. \A q \in Procs \ {c} : pc[q] = "insert" =>
            q \in Clients /\ call[q].order # call[c].order
      BY <2>1 DEF IInv, ProcInv, Inserts, Located
    <3>2. \A o \in Orders : o # call[c].order => orders'[o] = orders[o]
      BY <1>4 DEF Insert, IInv, TypeOK
    <3>3. QED
      BY <2>2, <3>1, <3>2
         DEF IInv, ProcInv, Inserts, Located, Exists, Unmoved
  <2>4. ProcInv(c)'
    BY <2>1, <2>2 DEF ProcInv, Located, Inserts, HoldsReal, DraftReal,
                      CompletesCharged
  <2>5. QED
    BY <1>0, <2>2, <2>3, <2>4, OthersKeep
<1>5. ASSUME NEW c \in Clients, ReadBack(c)
      PROVE  (\A p \in Procs : ProcInv(p))'
  <2>1. PICK code \in Codes : Reply(c, code)
    BY <1>5 DEF ReadBack, Codes
  <2>2. QED
    BY <1>0, <1>5, <2>1, ReplyMoves, OthersKeep, StaysAbsent DEF ReadBack
<1>6. ASSUME NEW c \in Clients, StartPay(c)
      PROVE  (\A p \in Procs : ProcInv(p))'
  <2>1. PICK o \in Orders, m \in Methods :
          Serve(c, [op |-> "pay", order |-> o, method |-> m], "get")
    BY <1>6 DEF StartPay
  <2>2. /\ pc'[c] = "get" /\ call'[c].op = "pay" /\ call'[c].order \in Orders
        /\ UNCHANGED table
        /\ \A q \in Procs \ {c} : Unmoved(q)
    BY <2>1, ServeMoves DEF Call, Labels
  <2>3. ProcInv(c)'
    BY <2>2 DEF ProcInv, Located, Inserts, HoldsReal, DraftReal,
                CompletesCharged
  <2>4. QED
    BY <1>0, <2>2, <2>3, OthersKeep, StaysAbsent
<1>7. ASSUME NEW c \in Clients, PayGet(c)
      PROVE  (\A p \in Procs : ProcInv(p))'
  <2>1. CASE \E code \in Codes : Reply(c, code)
    BY <1>0, <1>7, <2>1, ReplyMoves, OthersKeep, StaysAbsent DEF PayGet
  <2>2. CASE /\ Exists(call[c].order) /\ Goto(c, "charge")
             /\ UNCHANGED <<call, tx, draft, reply>>
    <3>1. /\ pc'[c] = "charge" /\ call'[c] = call[c] /\ UNCHANGED table
          /\ \A q \in Procs \ {c} : Unmoved(q)
      BY <1>7, <2>2, GotoMoves DEF PayGet, Labels
    <3>2. ProcInv(c)'
      BY <1>7, <2>2, <3>1
         DEF PayGet, IInv, ProcInv, Located, Inserts, HoldsReal, DraftReal,
             CompletesCharged, Exists, table
    <3>3. QED
      BY <1>0, <3>1, <3>2, OthersKeep, StaysAbsent
  <2>3. QED
    BY <1>7, <2>1, <2>2 DEF PayGet, Codes
<1>8. ASSUME NEW c \in Clients, Charge(c)
      PROVE  (\A p \in Procs : ProcInv(p))'
  <2>1. CASE Reply(c, 400)
    BY <1>0, <1>8, <2>1, ReplyMoves, OthersKeep, StaysAbsent DEF Charge, Codes
  <2>2. ASSUME NEW t \in Txs,
               Pay!PayOrder(t, call[c].order,
                            OpenAPIPaymentMethodToProto(call[c].method)),
               tx' = [tx EXCEPT ![c] = t], Goto(c, "read"),
               UNCHANGED <<call, draft, reply>>
        PROVE  (\A p \in Procs : ProcInv(p))'
    <3>1. /\ call[c].order \in Orders /\ call[c].method \in Methods
          /\ call[c].op = "pay" /\ Exists(call[c].order)
      BY <1>8 DEF Charge, IInv, ProcInv, Located, HoldsReal, TypeOK, Call
    <3>2. [uuid |-> t, order |-> call[c].order, method |-> call[c].method]
            \in charged'
      BY <2>2, <3>1, ChargeStep DEF OpenAPIPaymentMethodToProto, IInv, TypeOK
    <3>3. /\ pc'[c] = "read" /\ call'[c] = call[c] /\ tx'[c] = t
          /\ UNCHANGED table
          /\ \A q \in Procs \ {c} : Unmoved(q)
      BY <1>8, <2>2 DEF Charge, Goto, IInv, TypeOK, Unmoved
    <3>4. ProcInv(c)'
      BY <3>1, <3>2, <3>3
         DEF ProcInv, Located, Inserts, HoldsReal, DraftReal,
             CompletesCharged, Exists, table
    <3>5. QED
      BY <1>0, <3>3, <3>4, OthersKeep, StaysAbsent
  <2>3. QED
    BY <1>8, <2>1, <2>2 DEF Charge
<1>9. ASSUME NEW c \in Clients, Publish(c)
      PROVE  (\A p \in Procs : ProcInv(p))'
  BY <1>0, <1>9, ReplyMoves, OthersKeep, StaysAbsent DEF Publish, Codes
<1>10. ASSUME NEW c \in Clients, StartCancel(c)
       PROVE  (\A p \in Procs : ProcInv(p))'
  <2>1. PICK o \in Orders :
          Serve(c, [op |-> "cancel", order |-> o, method |-> Unspecified],
                "get")
    BY <1>10 DEF StartCancel
  <2>2. /\ pc'[c] = "get" /\ call'[c].op = "cancel"
        /\ call'[c].order \in Orders /\ UNCHANGED table
        /\ \A q \in Procs \ {c} : Unmoved(q)
    BY <2>1, ServeMoves, OrderConstants DEF Call, Labels
  <2>3. ProcInv(c)'
    BY <2>2 DEF ProcInv, Located, Inserts, HoldsReal, DraftReal,
                CompletesCharged
  <2>4. QED
    BY <1>0, <2>2, <2>3, OthersKeep, StaysAbsent
<1>11. ASSUME NEW c \in Clients, CancelGet(c)
       PROVE  (\A p \in Procs : ProcInv(p))'
  <2>1. CASE \E code \in Codes : Reply(c, code)
    BY <1>0, <1>11, <2>1, ReplyMoves, OthersKeep, StaysAbsent DEF CancelGet
  <2>2. CASE /\ orders[call[c].order].status = "PENDING_PAYMENT"
             /\ Goto(c, "read") /\ UNCHANGED <<call, tx, draft, reply>>
    <3>1. /\ pc'[c] = "read" /\ call'[c] = call[c] /\ UNCHANGED table
          /\ \A q \in Procs \ {c} : Unmoved(q)
      BY <1>11, <2>2, GotoMoves DEF CancelGet, Labels
    <3>2. ProcInv(c)'
      BY <1>11, <2>2, <3>1
         DEF CancelGet, IInv, ProcInv, Located, Inserts, HoldsReal, DraftReal,
             CompletesCharged, Exists, table
    <3>3. QED
      BY <1>0, <3>1, <3>2, OthersKeep, StaysAbsent
  <2>3. QED
    BY <1>11, <2>1, <2>2 DEF CancelGet, CancelUpdates, Codes
<1>12. ASSUME NEW w \in Workers, Consume(w)
       PROVE  (\A p \in Procs : ProcInv(p))'
  <2>1. PICK o \in assembled :
          Serve(w, [op |-> "complete", order |-> o, method |-> Unspecified],
                "read")
    BY <1>12 DEF Consume
  <2>2. o \in Orders /\ ChargedFor(o) # {} /\ w \notin Clients
    BY OrderConstants
       DEF OrderConstants, IInv, TypeOK, EventsAreTrue, CompletedWereCharged
  <2>3. [op |-> "complete", order |-> o, method |-> Unspecified] \in Call
    BY <2>2, OrderConstants DEF Call
  <2>4. /\ pc'[w] = "read" /\ call'[w].op = "complete" /\ call'[w].order = o
        /\ UNCHANGED <<table, payment>>
        /\ \A q \in Procs \ {w} : Unmoved(q)
    BY <2>1, <2>3, ServeMoves DEF Labels
  <2>5. Exists(o)
    BY <2>2 DEF IInv, ChargedExist, ChargedFor
  <2>6. ProcInv(w)'
    BY <2>2, <2>4, <2>5
       DEF ProcInv, Located, Inserts, HoldsReal, DraftReal, CompletesCharged,
           Exists, ChargedFor, table, payment
  <2>7. QED
    BY <1>0, <2>4, <2>6, OthersKeep, StaysAbsent DEF table
<1>13. ASSUME NEW p \in Procs, UpdateRead(p)
       PROVE  (\A q \in Procs : ProcInv(q))'
  <2>1. call[p].op \in {"pay", "cancel", "complete"}
    BY <1>13 DEF UpdateRead, IInv, ProcInv, Located
  <2>2. CASE UpdateFails(p)
    <3>1. PICK code \in Codes : Reply(p, code)
      BY <2>1, <2>2 DEF UpdateFails, Codes
    <3>2. QED
      BY <1>0, <1>13, <3>1, ReplyMoves, OthersKeep, StaysAbsent
         DEF UpdateRead
  <2>3. CASE ~UpdateFails(p)
    <3> DEFINE row == Overlay(orders[call[p].order], p)
    <3>1. /\ Exists(call[p].order) /\ draft' = [draft EXCEPT ![p] = row]
          /\ Goto(p, "write") /\ UNCHANGED <<call, tx, reply>>
          /\ UNCHANGED <<table, payment>>
      BY <1>13, <2>3 DEF UpdateRead
    <3>2. /\ pc'[p] = "write" /\ call'[p] = call[p] /\ tx'[p] = tx[p]
          /\ draft'[p] = row
          /\ \A q \in Procs \ {p} : Unmoved(q)
      BY <3>1 DEF Goto, IInv, TypeOK, Unmoved
    <3>3. /\ Explained(call[p].order, row)
          /\ row.status \notin {"ABSENT", "PENDING_PAYMENT"}
          /\ row.status = "COMPLETED" => ChargedFor(call[p].order) # {}
      BY <1>13, OverlayIsLegal DEF UpdateRead, IInv
    <3>4. ProcInv(p)'
      <4> HIDE DEF row
      <4>1. Located(p)' /\ Inserts(p)' /\ CompletesCharged(p)'
        BY <1>13, <3>1, <3>2
           DEF UpdateRead, IInv, ProcInv, Located, Inserts, CompletesCharged,
               ChargedFor, payment
      <4>2. HoldsReal(p)'
        BY <1>13, <3>1, <3>2
           DEF UpdateRead, IInv, ProcInv, HoldsReal, Exists, table, payment
      <4>3. DraftReal(p)'
        BY <3>1, <3>2, <3>3 DEF DraftReal, Explained, ChargedFor, payment
      <4>4. QED
        BY <4>1, <4>2, <4>3 DEF ProcInv
    <3>5. QED
      BY <1>0, <3>1, <3>2, <3>4, OthersKeep, StaysAbsent DEF table
  <2>4. QED
    BY <2>2, <2>3
<1>14. ASSUME NEW p \in Procs, UpdateWrite(p)
       PROVE  (\A q \in Procs : ProcInv(q))'
  <2>1. /\ pc[p] = "write" /\ call[p].order \in Orders
        /\ call[p].op \in {"pay", "cancel", "complete"}
        /\ draft[p].status \notin {"ABSENT", "PENDING_PAYMENT"}
        /\ Exists(call[p].order)
    BY <1>14
       DEF UpdateWrite, IInv, ProcInv, Located, DraftReal, HoldsReal
  <2>2. \A q \in Procs \ {p} : pc[q] = "insert" => ~Exists(call[q].order)
    BY DEF IInv, ProcInv, Inserts
  <2>3. \A o \in Orders : ~Exists(o) => orders'[o] = orders[o]
    BY <1>14, <2>1 DEF UpdateWrite, IInv, TypeOK
  <2>4. \A q \in Procs \ {p} :
          pc[q] = "insert" /\ Unmoved(q) => ~Exists(call[q].order)'
    BY <2>2, <2>3 DEF IInv, ProcInv, Located, Exists, Unmoved
  <2>5. CASE \E code \in Codes : Reply(p, code)
    BY <1>0, <2>4, <2>5, ReplyMoves, OthersKeep
  <2>6. CASE /\ call[p].op = "pay" /\ Goto(p, "publish")
             /\ UNCHANGED <<call, tx, draft, reply>>
             /\ orders' = [orders EXCEPT ![call[p].order] = draft[p]]
    <3>1. /\ pc'[p] = "publish" /\ call'[p] = call[p] /\ tx'[p] = tx[p]
          /\ \A q \in Procs \ {p} : Unmoved(q)
      BY <2>6, GotoMoves DEF Labels
    <3>2. Settled(call[p].order)' /\ Exists(call[p].order)'
      BY <2>1, <2>6 DEF Settled, Exists, IInv, TypeOK
    <3>3. ProcInv(p)'
      BY <1>14, <2>1, <2>6, <3>1, <3>2
         DEF UpdateWrite, IInv, ProcInv, Located, Inserts, HoldsReal,
             DraftReal, CompletesCharged, payment
    <3>4. QED
      BY <1>0, <2>4, <3>1, <3>3, OthersKeep
  <2>7. QED
    BY <1>14, <2>1, <2>5, <2>6 DEF UpdateWrite, UpdateFails, Codes
<1>15. CASE Assemble
  BY <1>15
     DEF Assemble, IInv, ProcInv, Located, Inserts, HoldsReal, DraftReal,
         CompletesCharged, Exists, Settled, Explained, ChargedFor, table,
         payment, locals
<1>16. CASE Crash
  BY <1>16, IdleInv DEF Crash
<1>17. CASE PaymentRestarts
  BY <1>17
     DEF PaymentRestarts, Pay!PaymentRestart, IInv, ProcInv, Located, Inserts,
         HoldsReal, DraftReal, CompletesCharged, Exists, Settled, Explained,
         ChargedFor, table, locals
<1>18. CASE LatePayment
  <2>1. \A q \in Procs : Unmoved(q) /\ UNCHANGED table
    BY <1>18 DEF LatePayment, locals, Unmoved
  <2>2. QED
    BY <1>0, <2>1 DEF IInv, ProcInv, Located, Inserts, HoldsReal, DraftReal,
       CompletesCharged, Exists, Settled, Explained, ChargedFor, Monotone,
       Unmoved, table
<1>19. QED
  BY <1>1, <1>2, <1>3, <1>4, <1>5, <1>6, <1>7, <1>8, <1>9, <1>10, <1>11,
     <1>12, <1>13, <1>14, <1>15, <1>16, <1>17, <1>18 DEF Next, Request

-----------------------------------------------------------------------------
(* The parts of the invariant about the table, the charges and the events. *)

LEMMA ChargedExistStep ==
  ASSUME OrderConstants, IInv, [Next]_vars
  PROVE  ChargedExist'
<1>0. Monotone
  BY MonotoneStep
<1>1. CASE charged' = charged
  BY <1>0, <1>1 DEF Monotone, ChargedExist, IInv, TypeOK, Pay!PaymentTypeOK,
                    Pay!Transaction
<1>2. ASSUME NEW c \in Clients, Charge(c), charged' # charged
      PROVE  ChargedExist'
  <2>1. PICK t \in Txs :
          Pay!PayOrder(t, call[c].order,
                       OpenAPIPaymentMethodToProto(call[c].method))
    BY <1>2 DEF Charge, payment, Pay!LeaveCalls
  <2>2. /\ call[c].order \in Orders /\ Exists(call[c].order)
        /\ call[c].method \in Methods
    BY <1>2 DEF Charge, IInv, ProcInv, Located, HoldsReal, TypeOK, Call, Procs
  <2>3. /\ charged' = charged \cup
             {[uuid |-> t, order |-> call[c].order, method |-> call[c].method]}
        /\ \A d \in charged : d.uuid # t
    BY <2>1, <2>2, ChargeStep DEF OpenAPIPaymentMethodToProto, IInv, TypeOK
  <2>4. UNCHANGED table
    BY <1>2 DEF Charge
  <2>5. QED
    BY <2>2, <2>3, <2>4 DEF IInv, ChargedExist, Exists, table
<1>3. CASE LatePayment
  <2>1. PICK r \in running : charged' = charged \cup {r}
    BY <1>3, LateStep DEF LatePayment, IInv, TypeOK
  <2>2. Exists(r.order) /\ \A d \in charged : r.uuid # d.uuid
    BY DEF IInv, RunningAbandoned
  <2>3. UNCHANGED table
    BY <1>3 DEF LatePayment
  <2>4. QED
    BY <2>1, <2>2, <2>3 DEF IInv, ChargedExist, Exists, table
<1>4. QED
  BY <1>1, <1>2, <1>3, WhoWrites

\* Three steps touch the calls whose caller has gone: the failure and the stop
\* that leave them behind, the payment that ends one, and payment's restart.
LEMMA WhoLeaves ==
  ASSUME [Next]_vars
  PROVE  \/ running' \subseteq running /\ charged' = charged
         \/ \E c \in Clients : Charge(c)
         \/ Crash
         \/ LatePayment
<1>1. ASSUME NEW c \in Clients, Request(c)
      PROVE  UNCHANGED payment \/ Charge(c)
  BY <1>1 DEF Request, StartCreate, CheckParts, Insert, ReadBack, StartPay,
              PayGet, Publish, StartCancel, CancelGet, Serve
<1>2. ASSUME NEW w \in Workers, Consume(w)
      PROVE  UNCHANGED payment
  BY <1>2 DEF Consume, Serve
<1>3. ASSUME NEW p \in Procs, UpdateRead(p) \/ UpdateWrite(p)
      PROVE  UNCHANGED payment
  BY <1>3 DEF UpdateRead, UpdateWrite
<1>4. CASE PaymentRestarts
  BY <1>4 DEF PaymentRestarts, Pay!PaymentRestart
<1> QED BY <1>1, <1>2, <1>3, <1>4 DEF Next, Assemble, vars, payment

LEMMA RunningStep ==
  ASSUME OrderConstants, IInv, [Next]_vars
  PROVE  RunningAbandoned'
<1>0. Monotone /\ abandoned \subseteq abandoned'
  BY MonotoneStep, WhoWrites
<1>a. \A r \in running : r.order \in Orders
  BY DEF IInv, TypeOK, Pay!PaymentTypeOK, Pay!Transaction
<1>b. \A r \in running : r.uuid \in abandoned' /\ Exists(r.order)'
  BY <1>0, <1>a DEF Monotone, IInv, RunningAbandoned
<1>1. CASE running' \subseteq running /\ charged' = charged
  BY <1>1, <1>b DEF IInv, RunningAbandoned
<1>2. ASSUME NEW calls \in SUBSET Pay!Transaction, Pay!LeaveCalls(calls),
             \A r \in calls : r.uuid \in abandoned' /\ Exists(r.order),
             \A r, s \in calls : r.uuid = s.uuid => r = s
      PROVE  RunningAbandoned'
  <2>1. /\ charged' = charged /\ running' = running \cup calls
        /\ \A r \in calls, c \in charged \cup running : c.uuid # r.uuid
    BY <1>2, LeaveStep DEF IInv, TypeOK
  <2>2. \A r \in calls : Exists(r.order)'
    BY <1>0, <1>2 DEF Monotone, Pay!Transaction
  <2> QED BY <1>2, <1>b, <2>1, <2>2 DEF IInv, RunningAbandoned
<1>3. ASSUME NEW c \in Clients, Charge(c)
      PROVE  RunningAbandoned'
  <2>1. call[c].order \in Orders /\ call[c].method \in Methods
    BY <1>3 DEF Charge, IInv, ProcInv, Located, TypeOK, Call, Procs
  <2>2. CASE UNCHANGED payment
    BY <1>1, <2>2 DEF payment
  <2>3. ASSUME NEW t \in Txs,
               Pay!PayOrder(t, call[c].order,
                            OpenAPIPaymentMethodToProto(call[c].method))
        PROVE  RunningAbandoned'
    <3>1. /\ charged' = charged \cup {[uuid |-> t, order |-> call[c].order,
                                       method |-> call[c].method]}
          /\ running' = running
          /\ \A r \in running : r.uuid # t
      BY <2>1, <2>3, ChargeStep DEF OpenAPIPaymentMethodToProto, IInv, TypeOK
    <3> QED BY <1>b, <3>1 DEF IInv, RunningAbandoned
  <2>4. ASSUME NEW t \in Txs, Pay!LeaveCalls({Asked(c, t)}), t \in abandoned'
        PROVE  RunningAbandoned'
    <3>1. Asked(c, t) \in Pay!Transaction /\ Asked(c, t).uuid = t
          /\ Exists(Asked(c, t).order)
      BY <1>3, AskedIs DEF Charge
    <3> QED BY <1>2, <2>4, <3>1
  <2> QED BY <1>3, <2>2, <2>3, <2>4 DEF Charge
<1>4. CASE Crash
  BY <1>2, <1>4, CrashLeaves
<1>5. CASE LatePayment
  <2>1. PICK r \in running :
          /\ running' = running \ {r}
          /\ charged' = charged \cup {r}
    BY <1>5, LateStep DEF LatePayment, IInv, TypeOK
  <2> QED BY <1>b, <2>1 DEF IInv, RunningAbandoned
<1> QED BY <1>1, <1>3, <1>4, <1>5, WhoLeaves

LEMMA StoredStep ==
  ASSUME OrderConstants, IInv, [Next]_vars
  PROVE  StoredTransactionIsReal'
<1>0. Monotone
  BY MonotoneStep
<1>1. CASE UNCHANGED table
  BY <1>0, <1>1 DEF Monotone, IInv, StoredTransactionIsReal, table
<1>2. ASSUME NEW c \in Clients, Insert(c) PROVE StoredTransactionIsReal'
  <2>1. \A o \in Orders : orders'[o] \in {orders[o], NewRow}
    BY <1>2 DEF Insert, IInv, TypeOK
  <2>2. QED
    BY <1>2, <2>1 DEF Insert, IInv, StoredTransactionIsReal, NewRow, payment
<1>3. ASSUME NEW p \in Procs, UpdateWrite(p) PROVE StoredTransactionIsReal'
  <2>1. /\ Explained(call[p].order, draft[p])
        /\ call[p].order \in Orders
    BY <1>3 DEF UpdateWrite, IInv, ProcInv, Located, DraftReal
  <2>2. \A o \in Orders :
          \/ orders'[o] = orders[o]
          \/ o = call[p].order /\ orders'[o] = draft[p]
    BY <1>3 DEF UpdateWrite, IInv, TypeOK
  <2>3. UNCHANGED charged
    BY <1>3 DEF UpdateWrite, payment
  <2>4. QED
    BY <2>1, <2>2, <2>3 DEF IInv, StoredTransactionIsReal, Explained
<1>4. QED
  BY <1>1, <1>2, <1>3, WhoWrites DEF table

LEMMA PaidEventsStep ==
  ASSUME OrderConstants, IInv, [Next]_vars
  PROVE  PaidEventsAreTrue'
<1>0. Monotone
  BY MonotoneStep
<1>1. CASE paid' = paid
  BY <1>0, <1>1 DEF Monotone, IInv, EventsAreTrue, PaidEventsAreTrue, TypeOK,
                    Event
<1>2. ASSUME NEW c \in Clients, Publish(c), paid' # paid
      PROVE  PaidEventsAreTrue'
  <2>1. paid' = paid \cup {[order |-> call[c].order, tx |-> tx[c],
                            method |-> call[c].method]}
    BY <1>2 DEF Publish
  <2>2. /\ [uuid |-> tx[c], order |-> call[c].order,
            method |-> call[c].method] \in charged
        /\ Settled(call[c].order)
    BY <1>2 DEF Publish, IInv, ProcInv, HoldsReal, Located, Procs
  <2>3. UNCHANGED <<table, payment>>
    BY <1>2 DEF Publish
  <2>4. charged' = charged /\ \A o \in Orders : Settled(o)' <=> Settled(o)
    BY <2>3 DEF Settled, table, payment
  <2>5. \A e \in paid : e.order \in Orders
    BY DEF IInv, TypeOK, Event
  <2>6. call[c].order \in Orders
    BY <1>2 DEF Publish, IInv, ProcInv, Located, Procs
  <2>7. ASSUME NEW e \in paid'
        PROVE  /\ [uuid |-> e.tx, order |-> e.order, method |-> e.method]
                    \in charged'
               /\ Settled(e.order)'
    <3>1. CASE e \in paid
      BY <2>4, <2>5, <3>1 DEF IInv, EventsAreTrue, PaidEventsAreTrue
    <3>2. CASE e = [order |-> call[c].order, tx |-> tx[c],
                    method |-> call[c].method]
      BY <2>2, <2>4, <2>6, <3>2
    <3>3. QED
      BY <2>1, <3>1, <3>2
  <2>8. QED
    BY <2>7 DEF PaidEventsAreTrue
<1>3. QED
  BY <1>1, <1>2, WhoWrites

LEMMA CompletedStep ==
  ASSUME OrderConstants, IInv, [Next]_vars
  PROVE  CompletedWereCharged'
<1>0. Monotone
  BY MonotoneStep
<1> SUFFICES ASSUME NEW o \in Orders,
                    o \in assembled' \/ orders'[o].status = "COMPLETED",
                    ChargedFor(o) = {}
             PROVE  FALSE
  BY <1>0 DEF CompletedWereCharged, ChargedFor, Monotone
<1>1. o \notin assembled /\ orders[o].status # "COMPLETED"
  BY DEF IInv, EventsAreTrue, CompletedWereCharged
<1>2. CASE Assemble
  <2>1. PICK e \in paid : assembled' = assembled \cup {e.order}
    BY <1>2 DEF Assemble
  <2>2. o = e.order
    BY <1>1, <1>2, <2>1 DEF Assemble, table
  <2>3. [uuid |-> e.tx, order |-> e.order, method |-> e.method] \in charged
    BY DEF IInv, EventsAreTrue, PaidEventsAreTrue
  <2>4. QED
    BY <2>2, <2>3 DEF ChargedFor
<1>3. ASSUME NEW p \in Procs, UpdateWrite(p) PROVE FALSE
  <2>1. orders'[o] = orders[o] \/ (o = call[p].order /\ orders'[o] = draft[p])
    BY <1>3 DEF UpdateWrite, IInv, TypeOK
  <2>2. QED
    BY <1>1, <1>3, <2>1 DEF UpdateWrite, IInv, ProcInv, DraftReal, topics
<1>4. ASSUME NEW c \in Clients, Insert(c) PROVE FALSE
  <2>1. orders'[o] \in {orders[o], NewRow}
    BY <1>4 DEF Insert, IInv, TypeOK
  <2>2. QED
    BY <1>1, <1>4, <2>1 DEF Insert, NewRow, topics
<1>5. QED
  BY <1>1, <1>2, <1>3, <1>4, WhoWrites DEF table

LEMMA ConfirmedStep ==
  ASSUME OrderConstants, IInv, [Next]_vars
  PROVE  ConfirmedIsSettled'
<1>0. Monotone
  BY MonotoneStep
<1>1. \A t \in confirmed :
        \E c \in charged : c.uuid = t /\ c.order \in Orders /\ Settled(c.order)
  BY DEF IInv, TypeOK, ConfirmedIsSettled, Pay!PaymentTypeOK, Pay!Transaction
<1>2. CASE confirmed' = confirmed
  BY <1>0, <1>1, <1>2 DEF Monotone, ConfirmedIsSettled
<1>3. ASSUME NEW c \in Clients, Publish(c) PROVE ConfirmedIsSettled'
  <2>1. /\ [uuid |-> tx[c], order |-> call[c].order,
            method |-> call[c].method] \in charged
        /\ Settled(call[c].order)
    BY <1>3 DEF Publish, IInv, ProcInv, HoldsReal, Located, Procs
  <2>2. /\ confirmed' = confirmed \cup {tx[c]}
        /\ UNCHANGED <<table, payment>>
    BY <1>3 DEF Publish
  <2>3. QED
    BY <1>1, <2>1, <2>2 DEF ConfirmedIsSettled, Settled, table, payment
<1>4. QED
  BY <1>2, <1>3, WhoWrites

\* A charge that nobody holds any more, and whose order awaits payment, was
\* abandoned: the one step that ends the holding without abandoning the
\* transaction is the UPDATE, and that settles the order.
LEMMA ForgottenStep ==
  ASSUME OrderConstants, IInv, [Next]_vars
  PROVE  ChargeIsNotForgotten'
<1>0. Monotone
  BY MonotoneStep
<1> DEFINE Held(c) == \E p \in Clients : Holds(p, c.uuid)
<1>a. \A c \in charged : c.order \in Orders /\ c.uuid \in Txs
  BY DEF IInv, TypeOK, Pay!PaymentTypeOK, Pay!Transaction
<1>b. \A c \in charged :
        /\ Exists(c.order)
        /\ Settled(c.order) \/ c.uuid \in abandoned \/ Held(c)
  BY DEF IInv, ChargeIsNotForgotten, ChargedExist, Settled, Exists
<1>c. \A c \in charged : Settled(c.order) => Settled(c.order)'
  BY <1>0, <1>a DEF Monotone
<1>d. ASSUME charged' = charged, abandoned \subseteq abandoned',
             \A p \in Clients, c \in charged :
               Holds(p, c.uuid) =>
                 Holds(p, c.uuid)' \/ c.uuid \in abandoned' \/ Settled(c.order)'
      PROVE  ChargeIsNotForgotten'
  BY <1>b, <1>c, <1>d DEF ChargeIsNotForgotten, Settled
<1>e. ASSUME NEW p \in Procs, \A q \in Procs \ {p} : Unmoved(q),
             charged' = charged, abandoned \subseteq abandoned',
             \A c \in charged :
               Holds(p, c.uuid) =>
                 Holds(p, c.uuid)' \/ c.uuid \in abandoned' \/ Settled(c.order)'
      PROVE  ChargeIsNotForgotten'
  BY <1>d, <1>e DEF Procs, Unmoved, Holds
<1>1. CASE UNCHANGED vars
  BY <1>1, <1>d DEF vars, Holds
<1>2. ASSUME NEW c \in Clients, Charge(c) PROVE ChargeIsNotForgotten'
  <2>1. /\ call[c].order \in Orders /\ call[c].method \in Methods
        /\ call[c].op = "pay" /\ c \in Procs
    BY <1>2 DEF Charge, IInv, ProcInv, Located, HoldsReal, TypeOK, Call, Procs
  <2>2. \A t : ~Holds(c, t)
    BY <1>2 DEF Charge, Holds
  <2>3. CASE Reply(c, 400) /\ UNCHANGED <<payment, history>>
    BY <2>1, <2>2, <2>3, <1>e, ReplyMoves DEF Codes, payment, history
  <2>4. ASSUME NEW t \in Txs,
               Pay!PayOrder(t, call[c].order,
                            OpenAPIPaymentMethodToProto(call[c].method)),
               \A q \in Procs \ {c} : Unmoved(q),
               abandoned \subseteq abandoned',
               t \in abandoned' \/ Holds(c, t)'
        PROVE  ChargeIsNotForgotten'
    <3>1. charged' = charged \cup {[uuid |-> t, order |-> call[c].order,
                                    method |-> call[c].method]}
      BY <2>1, <2>4, ChargeStep DEF OpenAPIPaymentMethodToProto, IInv, TypeOK
    <3>2. \A p \in Clients : \A u : Holds(p, u) => Holds(p, u)'
      BY <2>2, <2>4 DEF Holds, Unmoved, Procs
    <3>3. ASSUME NEW d \in charged',
                 (orders[d.order].status = "PENDING_PAYMENT")'
          PROVE  d.uuid \in abandoned' \/ \E p \in Clients : Holds(p, d.uuid)'
      <4>1. CASE d \in charged
        BY <4>1, <3>2, <3>3, <2>4, <1>b, <1>c DEF Settled
      <4>2. CASE d.uuid = t
        BY <4>2, <2>4
      <4>3. QED
        BY <3>1, <4>1, <4>2
    <3>4. QED
      BY <3>3 DEF ChargeIsNotForgotten
  <2>5. ASSUME NEW t \in Txs,
               Pay!PayOrder(t, call[c].order,
                            OpenAPIPaymentMethodToProto(call[c].method)),
               tx' = [tx EXCEPT ![c] = t], Goto(c, "read"),
               UNCHANGED <<call, draft, reply, history>>
        PROVE  ChargeIsNotForgotten'
    <3>1. Holds(c, t)' /\ \A q \in Procs \ {c} : Unmoved(q)
      BY <2>1, <2>5 DEF Goto, IInv, TypeOK, Unmoved, Holds
    <3>2. QED
      BY <2>4, <2>5, <3>1 DEF history
  <2>6. ASSUME NEW t \in Txs,
               \/ Pay!PayOrder(t, call[c].order,
                               OpenAPIPaymentMethodToProto(call[c].method))
               \/ Pay!LeaveCalls({Asked(c, t)}),
               Reply(c, 400), abandoned' = abandoned \cup {t}
        PROVE  ChargeIsNotForgotten'
    <3>1. CASE Pay!LeaveCalls({Asked(c, t)})
      BY <1>e, <2>1, <2>2, <2>6, <3>1, ReplyMoves DEF Pay!LeaveCalls, Codes
    <3> QED BY <2>1, <2>4, <2>6, <3>1, ReplyMoves DEF Codes
  <2>7. QED
    BY <1>2, <2>3, <2>5, <2>6 DEF Charge
<1>3. ASSUME NEW p \in Procs, UpdateFails(p), UNCHANGED charged,
             call[p].op \in {"pay", "cancel", "complete"}
      PROVE  ChargeIsNotForgotten'
  <2>1. PICK code \in Codes : Reply(p, code)
    BY <1>3 DEF UpdateFails, Codes
  <2>2. \A c \in charged : Holds(p, c.uuid) => c.uuid \in abandoned'
    BY <1>3, <1>a, OrderConstants DEF UpdateFails, Abandon, Holds, OrderConstants
  <2>3. abandoned \subseteq abandoned'
    BY <1>3 DEF UpdateFails, Abandon
  <2>4. QED
    BY <1>3, <1>e, <2>1, <2>2, <2>3, ReplyMoves
<1>4. ASSUME NEW p \in Procs, UpdateRead(p) PROVE ChargeIsNotForgotten'
  <2>1. call[p].op \in {"pay", "cancel", "complete"} /\ UNCHANGED charged
    BY <1>4 DEF UpdateRead, IInv, ProcInv, Located, payment
  <2>2. CASE ~UpdateFails(p)
    <3>1. /\ draft' = [draft EXCEPT ![p] = Overlay(orders[call[p].order], p)]
          /\ Goto(p, "write") /\ UNCHANGED <<call, tx, history>>
      BY <1>4, <2>2 DEF UpdateRead
    <3>2. \A q \in Procs \ {p} : Unmoved(q)
      BY <3>1 DEF Goto, IInv, TypeOK, Unmoved
    <3>3. \A t : Holds(p, t) => Holds(p, t)'
      BY <3>1 DEF Goto, IInv, TypeOK, Holds
    <3>4. QED
      BY <1>e, <2>1, <3>1, <3>2, <3>3 DEF history
  <2>3. QED
    BY <1>3, <2>1, <2>2
<1>5. ASSUME NEW p \in Procs, UpdateWrite(p) PROVE ChargeIsNotForgotten'
  <2>1. /\ call[p].op \in {"pay", "cancel", "complete"} /\ UNCHANGED charged
        /\ call[p].order \in Orders /\ pc[p] = "write"
        /\ draft[p].status \notin {"ABSENT", "PENDING_PAYMENT"}
    BY <1>5 DEF UpdateWrite, IInv, ProcInv, Located, DraftReal, payment
  <2>2. CASE /\ orders' = [orders EXCEPT ![call[p].order] = draft[p]]
             /\ UNCHANGED history
             /\ \A q \in Procs \ {p} : Unmoved(q)
    <3>1. \A c \in charged : c.order = call[p].order => Settled(c.order)'
      BY <2>1, <2>2 DEF Settled, IInv, TypeOK
    <3>2. \A c \in charged : Holds(p, c.uuid) => c.order = call[p].order
      <4> SUFFICES ASSUME NEW c \in charged, Holds(p, c.uuid)
                   PROVE  c.order = call[p].order
        OBVIOUS
      <4> DEFINE d == [uuid |-> tx[p], order |-> call[p].order,
                       method |-> call[p].method]
      <4>1. d \in charged
        BY DEF Holds, IInv, ProcInv, HoldsReal
      <4>2. d.uuid = c.uuid
        BY DEF Holds
      <4>3. QED
        BY <4>1, <4>2 DEF IInv, ChargedExist
    <3>3. QED
      BY <1>e, <2>1, <2>2, <3>1, <3>2 DEF history
  <2>3. CASE UpdateFails(p)
    BY <1>3, <2>1, <2>3
  <2>4. CASE ~UpdateFails(p)
    <3>1. /\ orders' = [orders EXCEPT ![call[p].order] = draft[p]]
          /\ UNCHANGED history
          /\ \/ Goto(p, "publish") /\ UNCHANGED <<call, tx, draft, reply>>
             \/ \E code \in Codes : Reply(p, code)
      BY <1>5, <2>4 DEF UpdateWrite, Codes
    <3>2. \A q \in Procs \ {p} : Unmoved(q)
      BY <3>1, GotoMoves, ReplyMoves DEF Labels
    <3>3. QED
      BY <2>2, <3>1, <3>2
  <2>5. QED
    BY <2>3, <2>4
<1>6. CASE Crash
  <2>1. charged' = charged /\ abandoned \subseteq abandoned'
    BY <1>6 DEF Crash, Pay!LeaveCalls
  <2>2. ASSUME NEW p \in Clients, NEW c \in charged, Holds(p, c.uuid)
        PROVE  c.uuid \in abandoned'
    BY <1>6, <1>a, <2>2, OrderConstants DEF Crash, Holds, OrderConstants
  <2>3. QED
    BY <1>d, <2>1, <2>2
<1>7. ASSUME NEW c \in Clients,
             \/ StartCreate(c) \/ CheckParts(c) \/ Insert(c) \/ ReadBack(c)
             \/ StartPay(c) \/ PayGet(c) \/ Publish(c)
             \/ StartCancel(c) \/ CancelGet(c)
      PROVE  ChargeIsNotForgotten'
  <2>1. \A t : ~Holds(c, t)
    BY <1>7 DEF StartCreate, CheckParts, Insert, ReadBack, StartPay, PayGet,
                Publish, StartCancel, CancelGet, Serve, Holds
  <2>2. charged' = charged /\ abandoned' = abandoned
    BY <1>7 DEF StartCreate, CheckParts, Insert, ReadBack, StartPay, PayGet,
                Publish, StartCancel, CancelGet, Serve, payment, history
  <2>3. \A q \in Procs \ {c} : Unmoved(q)
    BY <1>7 DEF StartCreate, CheckParts, Insert, ReadBack, StartPay, PayGet,
                Publish, StartCancel, CancelGet, Serve, Reply, Goto, IInv,
                TypeOK, Unmoved
  <2>4. QED
    BY <1>e, <2>1, <2>2, <2>3 DEF Procs
<1>8. ASSUME NEW w \in Workers, Consume(w) PROVE ChargeIsNotForgotten'
  <2>1. /\ \A t : ~Holds(w, t) /\ charged' = charged
        /\ abandoned' = abandoned
        /\ \A q \in Procs \ {w} : Unmoved(q)
    BY <1>8 DEF Consume, Serve, Holds, payment, history, IInv, TypeOK, Unmoved
  <2>2. QED
    BY <1>e, <2>1 DEF Procs
<1>9. CASE Assemble \/ PaymentRestarts
  BY <1>9, <1>d DEF Assemble, PaymentRestarts, Pay!PaymentRestart, payment,
                    locals, history, Holds
<1>10. CASE LatePayment
  <2>1. PICK r \in running : charged' = charged \cup {r}
    BY <1>10, LateStep DEF LatePayment, IInv, TypeOK
  <2>2. r.uuid \in abandoned /\ abandoned' = abandoned
        /\ UNCHANGED <<orders, pc, call, tx>>
    BY <1>10 DEF IInv, RunningAbandoned, LatePayment, history, table, locals
  <2>3. \A p \in Clients : \A u : Holds(p, u) => Holds(p, u)'
    BY <2>2 DEF Holds
  <2>4. QED
    BY <1>b, <1>c, <2>1, <2>2, <2>3 DEF ChargeIsNotForgotten, Settled
<1>11. QED
  BY <1>1, <1>2, <1>4, <1>5, <1>6, <1>7, <1>8, <1>9, <1>10 DEF Next, Request

-----------------------------------------------------------------------------
(* The theorems.                                                           *)

LEMMA InitIInv == ASSUME OrderConstants, Init PROVE IInv
<1>1. \A p \in Procs : pc[p] = "idle"
  BY DEF Init
<1>2. \A p \in Procs : ProcInv(p)
  BY <1>1 DEF ProcInv, Located, Inserts, HoldsReal, DraftReal, CompletesCharged
<1>3. charged = {} /\ running = {} /\ paid = {} /\ assembled = {}
      /\ confirmed = {} /\ orders = [o \in Orders |-> Absent]
  BY DEF Init, Pay!PaymentInit
<1>4. QED
  BY <1>2, <1>3, InitTypeOK
     DEF IInv, ChargedExist, RunningAbandoned, StoredTransactionIsReal,
         EventsAreTrue, PaidEventsAreTrue, CompletedWereCharged, ConfirmedIsSettled,
         ChargeIsNotForgotten, Absent

LEMMA NextIInv == ASSUME OrderConstants, IInv, [Next]_vars PROVE IInv'
BY TypeStep, ProcStep, ChargedExistStep, RunningStep, StoredStep, PaidEventsStep,
   CompletedStep, ConfirmedStep, ForgottenStep DEF IInv, EventsAreTrue

\* The inductive invariant holds in every reachable state.
THEOREM Invariance == Spec => []IInv
BY InitIInv, NextIInv, OrderConstants, PTL DEF Spec

\* The service's variables keep their types, whatever races and fails.
THEOREM TypeCorrect == Spec => []TypeOK
BY Invariance, PTL DEF IInv

\* The transaction and the method of a row always are those of one payment
\* made for that order.
THEOREM StoredIsReal == Spec => []StoredTransactionIsReal
BY Invariance, PTL DEF IInv

\* OrderPaid and COMPLETED always stand for a payment that was made.
THEOREM EventsTrue == Spec => []EventsAreTrue
BY Invariance, PTL DEF IInv

\* A payment confirmed with a 200 was charged, and its order left PENDING_PAYMENT.
THEOREM ConfirmedSettled == Spec => []ConfirmedIsSettled
BY Invariance, PTL DEF IInv

\* A charge whose order awaits payment is in a handler's hands, or its
\* handler ended without a 200.
THEOREM NotForgotten == Spec => []ChargeIsNotForgotten
BY Invariance, PTL DEF IInv

\* An order that left PENDING_PAYMENT never comes back to it.
THEOREM NeverPending == Spec => NeverPendingAgain
<1>1. ASSUME IInv, [Next]_vars
      PROVE  [\A o \in Orders : Settled(o) => Settled(o)']_vars
  BY <1>1, MonotoneStep, OrderConstants DEF Monotone
<1>2. QED
  BY <1>1, Invariance, PTL DEF Spec, NeverPendingAgain

-----------------------------------------------------------------------------
(* Requests that are decided one at a time for each order (OneAtATime), and *)
(* any number of clients, orders and consumers.                            *)

\* One client is enough for OneAtATime.
OneClient == \A c, d \in Clients : c = d

IsPaid(o) == orders[o].status \in {"PAID", "COMPLETED"}

\* What a handler has read of the table is still so when it acts on it.
UpToDate(p) ==
  LET o == call[p].order IN
  /\ pc[p] = "write" => draft[p] = Overlay(orders[o], p)
  /\ p \in Clients =>
       /\ pc[p] \in {"charge", "read", "write"} =>
            orders[o].status = "PENDING_PAYMENT"
       /\ pc[p] = "publish" => IsPaid(o) /\ orders[o].transactionID = tx[p]
  /\ p \in Workers /\ pc[p] \in {"read", "write"} => o \in assembled

\* What has been told to others of an order was told of a paid one.
ToldOfPaid ==
  /\ \A e \in paid : IsPaid(e.order)
  /\ \A o \in assembled : IsPaid(o)

PendingUnpaid ==
  \A o \in Orders : orders[o].status = "PENDING_PAYMENT" =>
                      orders[o].transactionID = NoTx

SInv == /\ \A p \in Procs : UpToDate(p)
        /\ ToldOfPaid /\ PendingUnpaid
        /\ ConfirmedPaymentSticks /\ ChargedTwiceOnlyAfterFailure

(* A row that is not there is Absent: no transaction pays for it.          *)
LEMMA AbsentIs ==
  ASSUME IInv, NEW o \in Orders, ~Exists(o)
  PROVE  orders[o] = Absent
<1>1. orders[o] \in Row
  BY DEF IInv, TypeOK
<1>2. orders[o].transactionID = NoTx
  <2>1. ASSUME orders[o].transactionID # NoTx
        PROVE  FALSE
    <3> DEFINE c == [uuid |-> orders[o].transactionID, order |-> o,
                     method |-> orders[o].paymentMethod]
    <3>1. c \in charged
      BY <2>1 DEF IInv, StoredTransactionIsReal
    <3>2. Exists(c.order)
      BY <3>1 DEF IInv, ChargedExist
    <3> QED BY <3>2
  <2> QED BY <2>1
<1>3. orders[o].paymentMethod = Unspecified
  BY <1>2 DEF IInv, StoredTransactionIsReal
<1> QED BY <1>1, <1>2, <1>3 DEF Exists, Row, Absent

(* The transaction of PayOrder's UPDATE is stored in no row yet.           *)
LEMMA TransactionIsNew ==
  ASSUME OrderConstants, IInv, PendingUnpaid, NEW c \in Procs,
         pc[c] = "write", call[c].op = "pay",
         orders[call[c].order].status = "PENDING_PAYMENT"
  PROVE  /\ tx[c] \in Txs /\ call[c].method \in Methods
         /\ \A o \in Orders : orders[o].transactionID # tx[c]
<1> DEFINE mine == [uuid |-> tx[c], order |-> call[c].order,
                    method |-> call[c].method]
<1>1. mine \in charged
  BY DEF IInv, ProcInv, HoldsReal
<1>2. tx[c] \in Txs /\ call[c].method \in Methods /\ call[c].order \in Orders
  BY <1>1 DEF IInv, TypeOK, Pay!PaymentTypeOK, Pay!Transaction
<1>3. tx[c] # NoTx
  BY <1>2 DEF OrderConstants
<1>4. ASSUME NEW o \in Orders, orders[o].transactionID = tx[c]
      PROVE  FALSE
  <2> DEFINE other == [uuid |-> tx[c], order |-> o,
                       method |-> orders[o].paymentMethod]
  <2>1. other \in charged
    BY <1>3, <1>4 DEF IInv, StoredTransactionIsReal
  <2>2. other.uuid = mine.uuid
    OBVIOUS
  <2>3. other = mine
    BY <1>1, <2>1, <2>2 DEF IInv, ChargedExist
  <2>4. o = call[c].order
    BY <2>3
  <2> QED BY <1>3, <1>4, <2>4 DEF PendingUnpaid
<1> QED BY <1>2, <1>4

\* The steps of the life cycle, and the handler that takes each.
Created == \E c \in Clients : pc[c] = "insert" /\ Lifecycle!Create(call[c].order)

Decided ==
  \E c \in Clients :
    /\ pc[c] = "write" /\ pc'[c] # "write" /\ call[c].order \in Orders
    /\ \/ \E t \in Txs, m \in Methods : Lifecycle!Pay(call[c].order, t, m)
       \/ Lifecycle!Cancel(call[c].order)

Completed == \E o \in assembled : Lifecycle!Complete(o)

(* Whatever the handlers do, the table takes a step of the life cycle.     *)
LEMMA TableStep ==
  ASSUME OrderConstants, IInv, SInv, [Next]_vars
  PROVE  UNCHANGED orders \/ Created \/ Decided \/ Completed
<1>1. ASSUME NEW c \in Clients, Insert(c), orders' # orders
      PROVE  Created
  <2>1. call[c].order \in Orders /\ ~Exists(call[c].order) /\ pc[c] = "insert"
    BY <1>1 DEF Insert, IInv, ProcInv, Located, Inserts, Procs
  <2>2. orders[call[c].order] = Absent
    BY <2>1, AbsentIs
  <2>3. orders' = [orders EXCEPT ![call[c].order] = NewRow]
    BY <1>1 DEF Insert
  <2>4. NewRow = [Absent EXCEPT !.status = "PENDING_PAYMENT"]
    BY DEF NewRow, Absent
  <2> QED BY <2>1, <2>2, <2>3, <2>4
          DEF Created, Lifecycle!Create, Lifecycle!Absent, Absent
<1>2. ASSUME NEW p \in Procs, UpdateWrite(p), orders' # orders
      PROVE  /\ pc[p] = "write" /\ pc'[p] # "write" /\ call[p].order \in Orders
             /\ orders' = [orders EXCEPT ![call[p].order] =
                             Overlay(orders[call[p].order], p)]
  <2>1. pc[p] = "write" /\ call[p].order \in Orders
        /\ draft[p] = Overlay(orders[call[p].order], p)
    BY <1>2 DEF UpdateWrite, IInv, ProcInv, Located, SInv, UpToDate
  <2>2. orders' = [orders EXCEPT ![call[p].order] = draft[p]]
    BY <1>2 DEF UpdateWrite
  <2>3. pc'[p] \in {"publish", "idle"}
    BY <1>2 DEF UpdateWrite, UpdateFails, Reply, Goto, IInv, TypeOK
  <2> QED BY <2>1, <2>2, <2>3
<1>3. ASSUME NEW c \in Clients, UpdateWrite(c), orders' # orders
      PROVE  Decided
  <2>0. c \in Procs
    BY DEF Procs
  <2>1. /\ pc[c] = "write" /\ pc'[c] # "write" /\ call[c].order \in Orders
        /\ orders' = [orders EXCEPT ![call[c].order] =
                        Overlay(orders[call[c].order], c)]
        /\ call[c].op \in {"pay", "cancel"}
    BY <1>2, <1>3, <2>0 DEF IInv, ProcInv, Located
  <2>2. orders[call[c].order].status = "PENDING_PAYMENT"
    BY <2>0, <2>1 DEF SInv, UpToDate
  <2>3. CASE call[c].op = "pay"
    <3>1. /\ tx[c] \in Txs /\ call[c].method \in Methods
          /\ \A o \in Orders : orders[o].transactionID # tx[c]
      BY <2>0, <2>1, <2>2, <2>3, TransactionIsNew DEF SInv
    <3>2. Lifecycle!Pay(call[c].order, tx[c], call[c].method)
      BY <2>1, <2>2, <2>3, <3>1 DEF Overlay, Lifecycle!Pay
    <3> QED BY <2>1, <3>1, <3>2 DEF Decided
  <2>4. CASE call[c].op = "cancel"
    <3>1. Lifecycle!Cancel(call[c].order)
      BY <2>1, <2>2, <2>4 DEF Overlay, Lifecycle!Cancel
    <3> QED BY <2>1, <3>1 DEF Decided
  <2> QED BY <2>1, <2>3, <2>4
<1>4. ASSUME NEW w \in Workers, UpdateWrite(w), orders' # orders
      PROVE  Completed
  <2>0. w \in Procs /\ w \notin Clients
    BY OrderConstants DEF Procs, OrderConstants
  <2>1. /\ pc[w] = "write" /\ call[w].order \in Orders
        /\ orders' = [orders EXCEPT ![call[w].order] =
                        Overlay(orders[call[w].order], w)]
        /\ call[w].op = "complete" /\ call[w].order \in assembled
    BY <1>2, <1>4, <2>0 DEF IInv, ProcInv, Located, SInv, UpToDate
  <2> DEFINE o == call[w].order
  <2>2. orders' = [orders EXCEPT ![o] = [orders[o] EXCEPT !.status = "COMPLETED"]]
    BY <2>1 DEF Overlay
  <2>3. orders[o].status \in {"PAID", "COMPLETED"} /\ orders[o] \in Row
    BY <2>1 DEF SInv, ToldOfPaid, IsPaid, IInv, TypeOK
  <2>4. orders[o].status # "COMPLETED"
    <3>1. ASSUME orders[o].status = "COMPLETED"
          PROVE  FALSE
      <4>1. [orders[o] EXCEPT !.status = "COMPLETED"] = orders[o]
        BY <2>3, <3>1 DEF Row
      <4> QED BY <1>4, <2>1, <2>2, <4>1 DEF IInv, TypeOK
    <3> QED BY <3>1
  <2>5. Lifecycle!Complete(o)
    BY <2>2, <2>3, <2>4 DEF Lifecycle!Complete
  <2> QED BY <2>1, <2>5 DEF Completed
<1>5. \/ UNCHANGED orders
      \/ \E c \in Clients : Insert(c)
      \/ \E p \in Procs : UpdateWrite(p)
  BY WhoWrites
<1> QED BY <1>1, <1>3, <1>4, <1>5 DEF Procs

\* What a step of the life cycle leaves of the rows.
RowsLast ==
  /\ \A o \in Orders : IsPaid(o) =>
       orders'[o] \in {orders[o], [orders[o] EXCEPT !.status = "COMPLETED"]}
  /\ \A o \in Orders : orders[o].status = "PENDING_PAYMENT" =>
       \/ orders'[o] = orders[o]
       \/ \E c \in Clients : /\ pc[c] = "write" /\ pc'[c] # "write"
                             /\ call[c].order = o
  /\ PendingUnpaid'

(* A paid order stays one, with its transaction, and a row that awaits     *)
(* payment is changed only by the handler of a request.                    *)
LEMMA RowsStep ==
  ASSUME OrderConstants, IInv, SInv, [Next]_vars
  PROVE  RowsLast
<1> USE DEF RowsLast, IsPaid, PendingUnpaid
<1>0. PendingUnpaid /\ orders \in [Orders -> Row]
      /\ \A o \in assembled : o \in Orders /\ IsPaid(o)
  BY DEF SInv, ToldOfPaid, IInv, TypeOK
<1>1. CASE UNCHANGED orders
  BY <1>0, <1>1
<1>2. CASE Created
  <2>1. PICK c \in Clients : Lifecycle!Create(call[c].order)
    BY <1>2 DEF Created
  <2> DEFINE o == call[c].order
  <2>2. /\ orders[o].status = "ABSENT"
        /\ orders' = [orders EXCEPT ![o] =
                         [Absent EXCEPT !.status = "PENDING_PAYMENT"]]
    BY <2>1 DEF Lifecycle!Create, Lifecycle!Absent, Absent
  <2>3. [Absent EXCEPT !.status = "PENDING_PAYMENT"].transactionID = NoTx
    BY DEF Absent
  <2> HIDE DEF o
  <2> QED BY <1>0, <2>2, <2>3
<1>3. CASE Decided
  <2>1. PICK c \in Clients :
          /\ pc[c] = "write" /\ pc'[c] # "write" /\ call[c].order \in Orders
          /\ \/ \E t \in Txs, m \in Methods : Lifecycle!Pay(call[c].order, t, m)
             \/ Lifecycle!Cancel(call[c].order)
    BY <1>3 DEF Decided
  <2> DEFINE o == call[c].order
  <2>2. /\ orders[o].status = "PENDING_PAYMENT"
        /\ \E row : orders' = [orders EXCEPT ![o] = row]
                    /\ row.status # "PENDING_PAYMENT"
    <3>1. CASE \E t \in Txs, m \in Methods : Lifecycle!Pay(o, t, m)
      <4>1. PICK t \in Txs, m \in Methods : Lifecycle!Pay(o, t, m)
        BY <3>1
      <4> DEFINE row == [status |-> "PAID", transactionID |-> t,
                         paymentMethod |-> m]
      <4>2. /\ orders[o].status = "PENDING_PAYMENT"
            /\ orders' = [orders EXCEPT ![o] = row]
        BY <4>1 DEF Lifecycle!Pay
      <4>3. row.status # "PENDING_PAYMENT"
        OBVIOUS
      <4> HIDE DEF row
      <4> QED BY <4>2, <4>3
    <3>2. CASE Lifecycle!Cancel(o)
      <4> DEFINE row == [orders[o] EXCEPT !.status = "CANCELLED"]
      <4>1. /\ orders[o].status = "PENDING_PAYMENT"
            /\ orders' = [orders EXCEPT ![o] = row]
        BY <3>2 DEF Lifecycle!Cancel
      <4>2. row.status # "PENDING_PAYMENT"
        BY <1>0, <2>1 DEF Row
      <4> HIDE DEF row
      <4> QED BY <4>1, <4>2
    <3> QED BY <2>1, <3>1, <3>2
  <2>3. PICK row : orders' = [orders EXCEPT ![o] = row]
                   /\ row.status # "PENDING_PAYMENT"
    BY <2>2
  <2>4. o \in Orders /\ \A other \in Orders \ {o} : orders'[other] = orders[other]
    BY <1>0, <2>1, <2>3
  <2>5. orders'[o] = row
    BY <1>0, <2>1, <2>3
  <2>6. ASSUME NEW other \in Orders, IsPaid(other)
        PROVE  orders'[other] = orders[other]
    BY <2>2, <2>4, <2>6
  <2>7. ASSUME NEW other \in Orders, orders'[other].status = "PENDING_PAYMENT"
        PROVE  orders'[other].transactionID = NoTx
    BY <1>0, <2>3, <2>4, <2>5, <2>7
  <2> QED BY <2>1, <2>4, <2>6, <2>7
<1>4. CASE Completed
  <2>1. PICK o \in assembled : Lifecycle!Complete(o)
    BY <1>4 DEF Completed
  <2>2. orders' = [orders EXCEPT ![o] = [orders[o] EXCEPT !.status = "COMPLETED"]]
    BY <2>1 DEF Lifecycle!Complete
  <2>3. o \in Orders /\ IsPaid(o)
    BY <1>0
  <2>4. [orders[o] EXCEPT !.status = "COMPLETED"].status = "COMPLETED"
    BY <1>0, <2>3 DEF Row
  <2> QED BY <1>0, <2>2, <2>3, <2>4
<1> QED BY <1>1, <1>2, <1>3, <1>4, TableStep

(* A goroutine that does not move still knows what it knew.                *)
LEMMA OthersUpToDate ==
  ASSUME OrderConstants, IInv, SInv, RowsLast,
         assembled \subseteq assembled',
         NEW q \in Procs, Unmoved(q),
         q \in Clients /\ Deciding(q) =>
             \A c \in Clients : pc[c] = "write" /\ call[c].order = call[q].order
                                  => pc'[c] = "write"
  PROVE  UpToDate(q)'
<1> DEFINE o == call[q].order
<1>1. UpToDate(q)
  BY DEF SInv
<1>2. pc[q] \notin {"idle", "parts"} => o \in Orders
  BY DEF IInv, ProcInv, Located
<1>3. CASE q \in Clients
  <2>0. q \notin Workers
    BY <1>3 DEF OrderConstants
  <2>1. CASE pc[q] \in {"charge", "read", "write"}
    <3>1. orders'[o] = orders[o]
      BY <1>1, <1>2, <1>3, <2>1 DEF UpToDate, RowsLast, Deciding
    <3>2. Overlay(orders[o], q)' = Overlay(orders[o], q)
      BY <3>1 DEF Overlay, Unmoved
    <3> QED BY <1>1, <1>3, <2>0, <2>1, <3>1, <3>2 DEF UpToDate, Unmoved
  <2>2. CASE pc[q] = "publish"
    <3>1. IsPaid(o) /\ orders[o].transactionID = tx[q] /\ orders[o] \in Row
          /\ o \in Orders
      BY <1>1, <1>2, <1>3, <2>2 DEF UpToDate, IInv, TypeOK
    <3>2. orders'[o] \in {orders[o], [orders[o] EXCEPT !.status = "COMPLETED"]}
      BY <3>1 DEF RowsLast
    <3>3. IsPaid(o)' /\ orders'[o].transactionID = tx[q]
      BY <3>1, <3>2 DEF IsPaid, Row, Unmoved
    <3> QED BY <1>3, <2>0, <2>2, <3>3 DEF UpToDate, Unmoved, IsPaid
  <2>3. CASE pc[q] \notin {"charge", "read", "write", "publish"}
    BY <1>3, <2>0, <2>3 DEF UpToDate, Unmoved
  <2> QED BY <2>1, <2>2, <2>3
<1>4. CASE q \in Workers
  <2>0. q \notin Clients
    BY <1>4 DEF OrderConstants
  <2>1. CASE pc[q] \in {"read", "write"}
    <3>1. /\ o \in assembled /\ o \in assembled' /\ o \in Orders
          /\ IsPaid(o) /\ orders[o] \in Row
          /\ call[q].op = "complete"
      BY <1>1, <1>2, <1>4, <2>0, <2>1
         DEF UpToDate, SInv, ToldOfPaid, IInv, TypeOK, ProcInv, Located
    <3>2. orders'[o] \in {orders[o], [orders[o] EXCEPT !.status = "COMPLETED"]}
      BY <3>1 DEF RowsLast
    <3>3. [orders'[o] EXCEPT !.status = "COMPLETED"]
            = [orders[o] EXCEPT !.status = "COMPLETED"]
      BY <3>1, <3>2 DEF Row
    <3>4. Overlay(orders[o], q)' = Overlay(orders[o], q)
      BY <3>1, <3>3 DEF Overlay, Unmoved
    <3> QED BY <1>1, <1>4, <2>0, <2>1, <3>1, <3>4 DEF UpToDate, Unmoved
  <2>2. CASE pc[q] \notin {"read", "write"}
    BY <1>4, <2>0, <2>2 DEF UpToDate, Unmoved
  <2> QED BY <2>1, <2>2
<1> QED BY <1>3, <1>4 DEF Procs

(* A handler that finishes, or has not begun to look at the table.         *)
LEMMA NothingRead ==
  ASSUME NEW p \in Procs, pc'[p] \in {"idle", "parts", "insert", "readBack", "get"}
  PROVE  UpToDate(p)'
BY DEF UpToDate

(* One goroutine's step: what it has read is still so.                     *)
LEMMA UpToDateStep ==
  ASSUME OrderConstants, OneAtATime, IInv, SInv, RowsLast, [Next]_vars
  PROVE  (\A p \in Procs : UpToDate(p))'
<1>0. assembled \subseteq assembled'
  BY WhoWrites DEF Assemble
<1>1. ASSUME NEW p \in Procs, \A q \in Procs \ {p} : Unmoved(q), UpToDate(p)'
      PROVE  (\A q \in Procs : UpToDate(q))'
  <2> SUFFICES ASSUME NEW q \in Procs \ {p}
               PROVE  UpToDate(q)'
    BY <1>1
  <2>1. q \in Clients /\ Deciding(q) =>
            \A c \in Clients : pc[c] = "write" /\ call[c].order = call[q].order
                                 => pc'[c] = "write"
    <3> SUFFICES ASSUME q \in Clients, Deciding(q), NEW c \in Clients,
                        pc[c] = "write", call[c].order = call[q].order
                 PROVE  pc'[c] = "write"
      OBVIOUS
    <3>1. c = q
      BY DEF OneAtATime, Deciding
    <3> QED BY <1>1, <3>1 DEF Unmoved
  <2> QED BY <1>0, <1>1, <2>1, OthersUpToDate
<1>2. ASSUME \A q \in Procs : Unmoved(q)
      PROVE  (\A q \in Procs : UpToDate(q))'
  BY <1>0, <1>2, OthersUpToDate DEF Unmoved, Procs
<1>3. ASSUME NEW p \in Procs, NEW code \in Codes, Reply(p, code)
      PROVE  (\A q \in Procs : UpToDate(q))'
  BY <1>1, <1>3, ReplyMoves, NothingRead
<1>4. ASSUME NEW p \in Procs, NEW c \in Call, NEW l \in {"parts", "get"},
             Serve(p, c, l)
      PROVE  (\A q \in Procs : UpToDate(q))'
  <2>1. l \in Labels
    BY DEF Labels
  <2>2. pc'[p] = l /\ \A q \in Procs \ {p} : Unmoved(q)
    BY <1>4, <2>1, ServeMoves
  <2> QED BY <1>1, <2>2, NothingRead
<1>5. ASSUME NEW c \in Clients, StartCreate(c)
      PROVE  (\A q \in Procs : UpToDate(q))'
  <2>1. [NoCall EXCEPT !.op = "create"] \in Call
    BY OrderConstants DEF NoCall, Call
  <2> QED BY <1>4, <1>5, <2>1 DEF StartCreate, Procs
<1>6. ASSUME NEW c \in Clients, StartPay(c) \/ StartCancel(c)
      PROVE  (\A q \in Procs : UpToDate(q))'
  <2>1. \A o \in Orders, m \in Methods :
          /\ [op |-> "pay", order |-> o, method |-> m] \in Call
          /\ [op |-> "cancel", order |-> o, method |-> m] \in Call
    BY DEF Call
  <2> QED BY <1>4, <1>6, <2>1, OrderConstants
          DEF StartPay, StartCancel, Procs, OrderConstants
<1>7. ASSUME NEW c \in Clients, CheckParts(c)
      PROVE  (\A q \in Procs : UpToDate(q))'
  <2>0. c \in Procs /\ 400 \in Codes
    BY DEF Procs, Codes
  <2>1. CASE Reply(c, 400)
    BY <1>3, <2>0, <2>1
  <2>2. CASE ~Reply(c, 400)
    <3>1. Goto(c, "insert") /\ UNCHANGED <<tx, draft>>
          /\ \E o \in Orders : call' = [call EXCEPT ![c].order = o]
      BY <1>7, <2>2 DEF CheckParts
    <3>2. pc'[c] = "insert" /\ \A q \in Procs \ {c} : Unmoved(q)
      BY <2>0, <3>1 DEF Goto, Unmoved, IInv, TypeOK
    <3> QED BY <1>1, <2>0, <3>2, NothingRead
  <2> QED BY <2>1, <2>2
<1>8. ASSUME NEW c \in Clients, Insert(c)
      PROVE  (\A q \in Procs : UpToDate(q))'
  <2>0. c \in Procs /\ 400 \in Codes /\ "readBack" \in Labels
    BY DEF Procs, Codes, Labels
  <2>1. CASE Reply(c, 400)
    BY <1>3, <2>0, <2>1
  <2>2. CASE ~Reply(c, 400)
    <3>1. Goto(c, "readBack") /\ UNCHANGED <<call, tx, draft>>
      BY <1>8, <2>2 DEF Insert
    <3>2. pc'[c] = "readBack" /\ \A q \in Procs \ {c} : Unmoved(q)
      BY <2>0, <3>1, GotoMoves
    <3> QED BY <1>1, <2>0, <3>2, NothingRead
  <2> QED BY <2>1, <2>2
<1>9. ASSUME NEW c \in Clients, ReadBack(c) \/ Publish(c)
      PROVE  (\A q \in Procs : UpToDate(q))'
  <2>1. \E code \in Codes : Reply(c, code)
    BY <1>9 DEF ReadBack, Publish, Codes
  <2> QED BY <1>3, <2>1 DEF Procs
<1>10. ASSUME NEW c \in Clients, PayGet(c)
       PROVE  (\A q \in Procs : UpToDate(q))'
  <2>0. c \in Procs /\ c \notin Workers /\ "charge" \in Labels
    BY OrderConstants DEF Procs, Labels, OrderConstants
  <2>1. CASE \E code \in Codes : Reply(c, code)
    BY <1>3, <2>0, <2>1
  <2>2. CASE ~ \E code \in Codes : Reply(c, code)
    <3>1. /\ Goto(c, "charge") /\ UNCHANGED <<call, tx, draft>>
          /\ UNCHANGED orders
          /\ orders[call[c].order].status = "PENDING_PAYMENT"
      BY <1>10, <2>2 DEF PayGet, Payable, Codes, table
    <3>2. pc'[c] = "charge" /\ \A q \in Procs \ {c} : Unmoved(q)
      BY <2>0, <3>1, GotoMoves
    <3>3. UpToDate(c)'
      BY <2>0, <3>1, <3>2 DEF UpToDate
    <3> QED BY <1>1, <2>0, <3>2, <3>3
  <2> QED BY <2>1, <2>2
<1>11. ASSUME NEW c \in Clients, CancelGet(c)
       PROVE  (\A q \in Procs : UpToDate(q))'
  <2>0. c \in Procs /\ c \notin Workers /\ "read" \in Labels
    BY OrderConstants DEF Procs, Labels, OrderConstants
  <2>1. CASE \E code \in Codes : Reply(c, code)
    BY <1>3, <2>0, <2>1
  <2>2. CASE ~ \E code \in Codes : Reply(c, code)
    <3>1. /\ Goto(c, "read") /\ UNCHANGED <<call, tx, draft>>
          /\ UNCHANGED orders
          /\ orders[call[c].order].status = "PENDING_PAYMENT"
      BY <1>11, <2>2 DEF CancelGet, CancelUpdates, Codes, table
    <3>2. pc'[c] = "read" /\ \A q \in Procs \ {c} : Unmoved(q)
      BY <2>0, <3>1, GotoMoves
    <3>3. UpToDate(c)'
      BY <2>0, <3>1, <3>2 DEF UpToDate
    <3> QED BY <1>1, <2>0, <3>2, <3>3
  <2> QED BY <2>1, <2>2
<1>12. ASSUME NEW c \in Clients, Charge(c)
       PROVE  (\A q \in Procs : UpToDate(q))'
  <2>0. c \in Procs /\ c \notin Workers /\ 400 \in Codes
    BY OrderConstants DEF Procs, Codes, OrderConstants
  <2>1. CASE Reply(c, 400)
    BY <1>3, <2>0, <2>1
  <2>2. CASE ~Reply(c, 400)
    <3>1. /\ Goto(c, "read") /\ UNCHANGED <<call, draft>> /\ UNCHANGED orders
          /\ \E t \in Txs : tx' = [tx EXCEPT ![c] = t]
          /\ pc[c] = "charge"
      BY <1>12, <2>2 DEF Charge, table
    <3>2. pc'[c] = "read" /\ \A q \in Procs \ {c} : Unmoved(q)
      BY <2>0, <3>1 DEF Goto, Unmoved, IInv, TypeOK
    <3>3. UpToDate(c)'
      BY <2>0, <3>1, <3>2 DEF UpToDate, SInv
    <3> QED BY <1>1, <2>0, <3>2, <3>3
  <2> QED BY <2>1, <2>2
<1>13. ASSUME NEW w \in Workers, Consume(w)
       PROVE  (\A q \in Procs : UpToDate(q))'
  <2>0. w \in Procs /\ w \notin Clients /\ "read" \in Labels
    BY OrderConstants DEF Procs, Labels, OrderConstants
  <2>1. PICK o \in assembled :
          Serve(w, [op |-> "complete", order |-> o, method |-> Unspecified],
                "read")
    BY <1>13 DEF Consume
  <2> DEFINE c == [op |-> "complete", order |-> o, method |-> Unspecified]
  <2>2. c \in Call /\ c.order = o
    BY OrderConstants DEF IInv, TypeOK, Call, OrderConstants
  <2> HIDE DEF c
  <2>3. /\ pc'[w] = "read" /\ call'[w] = c
        /\ \A q \in Procs \ {w} : Unmoved(q)
    BY <2>0, <2>1, <2>2, ServeMoves DEF c
  <2>4. UpToDate(w)'
    BY <1>0, <2>0, <2>2, <2>3 DEF UpToDate
  <2> QED BY <1>1, <2>0, <2>3, <2>4
<1>14. ASSUME NEW p \in Procs, UpdateRead(p)
       PROVE  (\A q \in Procs : UpToDate(q))'
  <2>1. CASE UpdateFails(p)
    <3>1. \E code \in Codes : Reply(p, code)
      BY <1>14, <2>1 DEF UpdateRead, UpdateFails, Codes, IInv, ProcInv, Located
    <3> QED BY <1>3, <3>1
  <2>2. CASE ~UpdateFails(p)
    <3>1. /\ pc[p] = "read" /\ Goto(p, "write")
          /\ draft' = [draft EXCEPT ![p] = Overlay(orders[call[p].order], p)]
          /\ UNCHANGED <<call, tx>> /\ UNCHANGED orders
          /\ UNCHANGED assembled
      BY <1>14, <2>2 DEF UpdateRead, table, topics
    <3>2. /\ pc'[p] = "write" /\ \A q \in Procs \ {p} : Unmoved(q)
          /\ draft'[p] = Overlay(orders[call[p].order], p)
      BY <3>1 DEF Goto, Unmoved, IInv, TypeOK
    <3>3. Overlay(orders[call[p].order], p)' = Overlay(orders[call[p].order], p)
      BY <3>1 DEF Overlay
    <3>4. UpToDate(p)'
      BY <3>1, <3>2, <3>3 DEF UpToDate, SInv
    <3> QED BY <1>1, <3>2, <3>4
  <2> QED BY <2>1, <2>2
<1>15. ASSUME NEW p \in Procs, UpdateWrite(p)
       PROVE  (\A q \in Procs : UpToDate(q))'
  <2>0. call[p].op \in {"pay", "cancel", "complete"}
    BY <1>15 DEF UpdateWrite, IInv, ProcInv, Located
  <2>1. CASE \E code \in Codes : Reply(p, code)
    BY <1>3, <2>1
  <2>2. CASE ~ \E code \in Codes : Reply(p, code)
    <3>1. /\ pc[p] = "write" /\ Goto(p, "publish") /\ UNCHANGED <<call, tx, draft>>
          /\ orders' = [orders EXCEPT ![call[p].order] = draft[p]]
          /\ call[p].op = "pay"
      BY <1>15, <2>0, <2>2 DEF UpdateWrite, UpdateFails, Codes
    <3>2. pc'[p] = "publish" /\ \A q \in Procs \ {p} : Unmoved(q)
      BY <3>1, GotoMoves DEF Labels
    <3>3. draft[p] = [status |-> "PAID", transactionID |-> tx[p],
                      paymentMethod |-> call[p].method]
          /\ call[p].order \in Orders
      BY <3>1 DEF SInv, UpToDate, Overlay, IInv, ProcInv, Located
    <3>4. orders'[call[p].order] = draft[p]
      BY <3>1, <3>3 DEF IInv, TypeOK
    <3>5. UpToDate(p)'
      BY <3>1, <3>2, <3>3, <3>4 DEF UpToDate, IsPaid
    <3> QED BY <1>1, <3>2, <3>5
  <2> QED BY <2>1, <2>2
<1>16. CASE Crash
  BY <1>16, NothingRead DEF Crash
<1>17. CASE Assemble \/ PaymentRestarts \/ LatePayment \/ UNCHANGED vars
  BY <1>2, <1>17 DEF Assemble, PaymentRestarts, LatePayment, vars, locals, Unmoved
<1> QED BY <1>5, <1>6, <1>7, <1>8, <1>9, <1>10, <1>11, <1>12, <1>13, <1>14,
           <1>15, <1>16, <1>17 DEF Next, Request

(* What is told to Kafka and to assembly is told of paid orders.           *)
LEMMA ToldStep ==
  ASSUME OrderConstants, IInv, SInv, RowsLast, [Next]_vars
  PROVE  ToldOfPaid'
<1>1. \A o \in Orders : IsPaid(o) => IsPaid(o)'
  <2> SUFFICES ASSUME NEW o \in Orders, IsPaid(o)
               PROVE  IsPaid(o)'
    OBVIOUS
  <2>1. orders[o] \in Row
    BY DEF IInv, TypeOK
  <2>2. orders'[o] \in {orders[o], [orders[o] EXCEPT !.status = "COMPLETED"]}
    BY DEF RowsLast
  <2> QED BY <2>1, <2>2 DEF IsPaid, Row
<1>2. /\ \A e \in paid : e.order \in Orders /\ IsPaid(e.order)
      /\ \A o \in assembled : o \in Orders /\ IsPaid(o)
  BY DEF SInv, ToldOfPaid, IInv, TypeOK, Event
<1>3. CASE paid' = paid /\ assembled' = assembled
  BY <1>1, <1>2, <1>3 DEF ToldOfPaid
<1>4. ASSUME NEW c \in Clients, Publish(c)
      PROVE  ToldOfPaid'
  <2>1. IsPaid(call[c].order) /\ call[c].order \in Orders
    BY <1>4 DEF Publish, SInv, UpToDate, IInv, ProcInv, Located, Procs
  <2>2. \A e \in paid' : e.order \in Orders /\ IsPaid(e.order)
    BY <1>2, <1>4, <2>1 DEF Publish
  <2>3. assembled' = assembled
    BY <1>4 DEF Publish
  <2> QED BY <1>1, <1>2, <2>2, <2>3 DEF ToldOfPaid
<1>5. CASE Assemble
  <2>1. PICK e \in paid : assembled' = assembled \cup {e.order}
    BY <1>5 DEF Assemble
  <2>2. paid' = paid
    BY <1>5 DEF Assemble
  <2> QED BY <1>1, <1>2, <2>1, <2>2 DEF ToldOfPaid
<1> QED BY <1>3, <1>4, <1>5, WhoWrites

(* A confirmed payment stays the order's.                                  *)
LEMMA SticksStep ==
  ASSUME OrderConstants, IInv, SInv, RowsLast, [Next]_vars
  PROVE  ConfirmedPaymentSticks'
<1>1. ASSUME NEW o \in Orders, NEW t, orders[o].transactionID = t, IsPaid(o)
      PROVE  orders'[o].transactionID = t /\ IsPaid(o)'
  <2>1. orders[o] \in Row
    BY DEF IInv, TypeOK
  <2>2. orders'[o] \in {orders[o], [orders[o] EXCEPT !.status = "COMPLETED"]}
    BY <1>1 DEF RowsLast
  <2> QED BY <1>1, <2>1, <2>2 DEF IsPaid, Row
<1>2. \A c \in charged : c.order \in Orders
  BY DEF IInv, TypeOK, Pay!PaymentTypeOK, Pay!Transaction
<1>3. \A c \in charged : c.uuid \in confirmed =>
        orders'[c.order].transactionID = c.uuid /\ IsPaid(c.order)'
  BY <1>1, <1>2 DEF SInv, ConfirmedPaymentSticks, IsPaid
<1>4. CASE charged' = charged /\ confirmed' = confirmed
  BY <1>3, <1>4 DEF ConfirmedPaymentSticks, IsPaid
<1>5. ASSUME NEW c \in Clients, Charge(c)
      PROVE  ConfirmedPaymentSticks'
  <2>1. /\ call[c].order \in Orders /\ call[c].method \in Methods
        /\ confirmed' = confirmed
    BY <1>5 DEF Charge, IInv, ProcInv, Located, TypeOK, Call, Procs, history
  <2>2. ASSUME NEW t \in Txs,
               Pay!PayOrder(t, call[c].order,
                            OpenAPIPaymentMethodToProto(call[c].method))
        PROVE  ConfirmedPaymentSticks'
    <3>1. /\ charged' = charged \cup {[uuid |-> t, order |-> call[c].order,
                                       method |-> call[c].method]}
          /\ \A d \in charged : d.uuid # t
      BY <2>1, <2>2, ChargeStep DEF OpenAPIPaymentMethodToProto, IInv, TypeOK
    <3>2. t \notin confirmed
      BY <3>1 DEF IInv, ConfirmedIsSettled
    <3> QED BY <1>3, <2>1, <3>1, <3>2 DEF ConfirmedPaymentSticks, IsPaid
  <2> QED BY <1>4, <1>5, <2>1, <2>2 DEF Charge, payment, Pay!LeaveCalls
<1>6. CASE LatePayment
  <2>1. PICK r \in running : charged' = charged \cup {r}
    BY <1>6, LateStep DEF LatePayment, IInv, TypeOK
  <2>2. r.uuid \notin confirmed /\ confirmed' = confirmed
    BY <1>6 DEF IInv, RunningAbandoned, ConfirmedIsSettled, LatePayment, history
  <2> QED BY <1>3, <2>1, <2>2 DEF ConfirmedPaymentSticks, IsPaid
<1>7. ASSUME NEW c \in Clients, Publish(c)
      PROVE  ConfirmedPaymentSticks'
  <2> DEFINE mine == [uuid |-> tx[c], order |-> call[c].order,
                      method |-> call[c].method]
  <2>1. /\ charged' = charged /\ confirmed' = confirmed \cup {tx[c]}
        /\ mine \in charged
        /\ IsPaid(call[c].order) /\ orders[call[c].order].transactionID = tx[c]
        /\ call[c].order \in Orders
    BY <1>7 DEF Publish, payment, SInv, UpToDate, IInv, ProcInv, HoldsReal,
                Located, Procs
  <2>2. ASSUME NEW d \in charged, d.uuid = tx[c]
        PROVE  orders'[d.order].transactionID = d.uuid /\ IsPaid(d.order)'
    <3>1. d = mine
      BY <2>1, <2>2 DEF IInv, ChargedExist
    <3> QED BY <1>1, <2>1, <3>1
  <2> QED BY <1>3, <2>1, <2>2 DEF ConfirmedPaymentSticks, IsPaid
<1> QED BY <1>4, <1>5, <1>6, <1>7, WhoWrites

(* Whoever charges an order found it awaiting payment: a charge made for   *)
(* it before is nobody's any more, so its handler ended without a 200.     *)
LEMMA ChargedTwiceStep ==
  ASSUME OrderConstants, OneAtATime, IInv, SInv, [Next]_vars
  PROVE  ChargedTwiceOnlyAfterFailure'
<1>0. abandoned \subseteq abandoned'
  BY WhoWrites
<1>1. CASE charged' = charged
  BY <1>0, <1>1 DEF SInv, ChargedTwiceOnlyAfterFailure
<1>2. ASSUME NEW c \in Clients, Charge(c), NEW t \in Txs,
             Pay!PayOrder(t, call[c].order,
                          OpenAPIPaymentMethodToProto(call[c].method))
      PROVE  ChargedTwiceOnlyAfterFailure'
  <2>1. call[c].order \in Orders /\ call[c].method \in Methods
    BY <1>2 DEF Charge, IInv, ProcInv, Located, TypeOK, Call, Procs
  <2>2. charged' = charged \cup {[uuid |-> t, order |-> call[c].order,
                                  method |-> call[c].method]}
    BY <1>2, <2>1, ChargeStep DEF OpenAPIPaymentMethodToProto, IInv, TypeOK
  <2>3. orders[call[c].order].status = "PENDING_PAYMENT" /\ pc[c] = "charge"
    BY <1>2 DEF Charge, SInv, UpToDate, Procs
  <2>4. ASSUME NEW d \in charged, d.order = call[c].order,
               NEW p \in Clients, Holds(p, d.uuid)
        PROVE  FALSE
    <3>1. \E e \in charged : e.uuid = d.uuid /\ e.order = call[p].order
      BY <2>4 DEF Holds, IInv, ProcInv, HoldsReal, Procs
    <3>2. call[p].order = call[c].order
      BY <2>4, <3>1 DEF IInv, ChargedExist
    <3> QED BY <2>3, <2>4, <3>2 DEF OneAtATime, Deciding, Holds
  <2>5. \A d \in charged : d.order = call[c].order => d.uuid \in abandoned
    BY <2>3, <2>4 DEF IInv, ChargeIsNotForgotten
  <2> QED BY <1>0, <2>2, <2>5 DEF SInv, ChargedTwiceOnlyAfterFailure
<1>3. CASE LatePayment
  <2>1. PICK r \in running : charged' = charged \cup {r}
    BY <1>3, LateStep DEF LatePayment, IInv, TypeOK
  <2>2. r.uuid \in abandoned
    BY DEF IInv, RunningAbandoned
  <2> QED BY <1>0, <2>1, <2>2 DEF SInv, ChargedTwiceOnlyAfterFailure
<1> QED BY <1>1, <1>2, <1>3, WhoWrites

(* Nothing has been read or told when the service starts.                  *)
LEMMA InitSInv ==
  ASSUME OrderConstants, Init
  PROVE  SInv
<1>1. /\ charged = {} /\ paid = {} /\ assembled = {}
      /\ orders = [o \in Orders |-> Absent]
      /\ \A p \in Procs : pc[p] = "idle"
  BY DEF Init, Pay!PaymentInit
<1>2. ToldOfPaid /\ PendingUnpaid
  BY <1>1 DEF ToldOfPaid, PendingUnpaid, Absent
<1>3. ConfirmedPaymentSticks /\ ChargedTwiceOnlyAfterFailure
  BY <1>1 DEF ConfirmedPaymentSticks, ChargedTwiceOnlyAfterFailure
<1>4. \A p \in Procs : UpToDate(p)
  BY <1>1 DEF UpToDate
<1> QED BY <1>2, <1>3, <1>4 DEF SInv

(* With one decision at a time, what a handler has read is so until it     *)
(* acts on it.                                                             *)
THEOREM SerialInvariance == Spec /\ []OneAtATime => [](IInv /\ SInv)
<1>1. Init => IInv /\ SInv
  BY InitIInv, InitSInv, OrderConstants
<1>2. IInv /\ SInv /\ OneAtATime /\ [Next]_vars => IInv' /\ SInv'
  <2> SUFFICES ASSUME IInv, SInv, OneAtATime, [Next]_vars
               PROVE  IInv' /\ SInv'
    OBVIOUS
  <2>1. RowsLast
    BY RowsStep, OrderConstants
  <2>2. (\A p \in Procs : UpToDate(p))'
    BY <2>1, UpToDateStep, OrderConstants
  <2>3. ToldOfPaid' /\ PendingUnpaid' /\ ConfirmedPaymentSticks'
    BY <2>1, ToldStep, SticksStep, OrderConstants DEF RowsLast
  <2>4. ChargedTwiceOnlyAfterFailure'
    BY ChargedTwiceStep, OrderConstants
  <2> QED BY <2>2, <2>3, <2>4, NextIInv, OrderConstants DEF SInv
<1> QED BY <1>1, <1>2, PTL DEF Spec

(* One client, whose requests come one after the other, is enough.         *)
THEOREM OneClientDecides ==
  ASSUME OneClient
  PROVE  Spec => []OneAtATime
<1>1. OneAtATime
  BY DEF OneClient, OneAtATime
<1> QED BY <1>1, PTL

(* With one decision at a time, the payment a customer was told of with a  *)
(* 200 stays the order's payment, whatever fails and is delivered again.   *)
THEOREM ConfirmedSticks ==
  Spec /\ []OneAtATime => []ConfirmedPaymentSticks
<1>1. IInv /\ SInv => ConfirmedPaymentSticks
  BY DEF SInv
<1> QED BY <1>1, SerialInvariance, PTL

(* With one decision at a time, only an attempt that ended without a 200   *)
(* is followed by another charge for the same order.                       *)
THEOREM ChargedTwiceAfterFailure ==
  Spec /\ []OneAtATime => []ChargedTwiceOnlyAfterFailure
<1>1. IInv /\ SInv => ChargedTwiceOnlyAfterFailure
  BY DEF SInv
<1> QED BY <1>1, SerialInvariance, PTL

(* With one decision at a time, the table goes through the life cycle of   *)
(* OrderLifecycle.                                                         *)
THEOREM RefinesLifecycle == Spec /\ []OneAtATime => ImplementsLifecycle
<1>1. Init => Lifecycle!Init
  BY DEF Init, Lifecycle!Init, Lifecycle!Absent, Absent
<1>2. IInv /\ SInv /\ [Next]_vars => [Lifecycle!Next]_orders
  <2> SUFFICES ASSUME IInv, SInv, [Next]_vars
               PROVE  [Lifecycle!Next]_orders
    OBVIOUS
  <2>1. CASE Created
    <3>1. PICK c \in Clients : pc[c] = "insert" /\ Lifecycle!Create(call[c].order)
      BY <2>1 DEF Created
    <3>2. call[c].order \in Orders
      BY <3>1 DEF IInv, ProcInv, Located, Procs
    <3> QED BY <3>1, <3>2 DEF Lifecycle!Next
  <2>2. CASE Decided
    BY <2>2 DEF Decided, Lifecycle!Next
  <2>3. CASE Completed
    BY <2>3 DEF Completed, Lifecycle!Next, IInv, TypeOK
  <2> QED BY <2>1, <2>2, <2>3, TableStep, OrderConstants
<1> QED BY <1>1, <1>2, SerialInvariance, PTL
        DEF Spec, ImplementsLifecycle, Lifecycle!Spec

(* README: "a paid order cannot be cancelled".  If nobody pays between     *)
(* CancelOrder's Get and its UPDATE the promise is kept: the race of two   *)
(* requests for one order is the only way to break it.                     *)
THEOREM PaidStaysUncancelled ==
  Spec /\ []OneAtATime => PaidIsNeverCancelled
<1>1. IInv /\ SInv /\ [Next]_vars =>
        \A o \in Orders :
          orders[o].status = "PAID" => orders'[o].status # "CANCELLED"
  <2> SUFFICES ASSUME IInv, SInv, [Next]_vars,
                      NEW o \in Orders, orders[o].status = "PAID"
               PROVE  orders'[o].status # "CANCELLED"
    OBVIOUS
  <2>0. orders \in [Orders -> Row]
    BY DEF IInv, TypeOK
  <2>1. CASE UNCHANGED orders
    BY <2>1
  <2>2. CASE Created
    <3>1. PICK c \in Clients : Lifecycle!Create(call[c].order)
      BY <2>2 DEF Created
    <3> QED BY <2>0, <3>1 DEF Lifecycle!Create, Lifecycle!Absent
  <2>3. CASE Decided
    <3>1. PICK c \in Clients :
            \/ \E t \in Txs, m \in Methods : Lifecycle!Pay(call[c].order, t, m)
            \/ Lifecycle!Cancel(call[c].order)
      BY <2>3 DEF Decided
    <3> QED BY <2>0, <3>1 DEF Lifecycle!Pay, Lifecycle!Cancel
  <2>4. CASE Completed
    <3>1. PICK q \in assembled : Lifecycle!Complete(q)
      BY <2>4 DEF Completed
    <3> QED BY <2>0, <3>1 DEF Lifecycle!Complete
  <2> QED BY <2>1, <2>2, <2>3, <2>4, TableStep, OrderConstants
<1>2. IInv /\ SInv /\ [Next]_vars =>
        [\A o \in Orders :
           orders[o].status = "PAID" => orders'[o].status # "CANCELLED"]_vars
  BY <1>1
<1> QED BY <1>2, SerialInvariance, PTL DEF Spec, PaidIsNeverCancelled

(* Whoever gets an answer of the payment service, while requests are       *)
(* decided one at a time, asked for an order that awaits payment.          *)
LEMMA PaidChargedStep ==
  ASSUME OrderConstants, IInv, SInv, [Next]_vars,
         NEW o \in Orders, orders[o].status = "PAID"
  PROVE  /\ ChargedFor(o) \subseteq ChargedFor(o)'
         /\ ChargedFor(o)' \ ChargedFor(o) \subseteq running
<1>0. ChargedFor(o) \subseteq ChargedFor(o)'
  BY MonotoneStep DEF Monotone, ChargedFor
<1>1. CASE charged' = charged
  BY <1>1 DEF ChargedFor
<1>2. ASSUME NEW c \in Clients, Charge(c), NEW t \in Txs,
             Pay!PayOrder(t, call[c].order,
                          OpenAPIPaymentMethodToProto(call[c].method))
      PROVE  ChargedFor(o)' = ChargedFor(o)
  <2>1. call[c].order \in Orders /\ call[c].method \in Methods
    BY <1>2 DEF Charge, IInv, ProcInv, Located, TypeOK, Call, Procs
  <2>2. charged' = charged \cup {[uuid |-> t, order |-> call[c].order,
                                  method |-> call[c].method]}
    BY <1>2, <2>1, ChargeStep DEF OpenAPIPaymentMethodToProto, IInv, TypeOK
  <2>3. call[c].order # o
    BY <1>2 DEF Charge, SInv, UpToDate, Procs
  <2> QED BY <2>2, <2>3 DEF ChargedFor
<1>3. CASE LatePayment
  <2>1. PICK r \in running : charged' = charged \cup {r}
    BY <1>3, LateStep DEF LatePayment, IInv, TypeOK
  <2> QED BY <1>0, <2>1 DEF ChargedFor
<1> QED BY <1>0, <1>1, <1>2, <1>3, WhoWrites

(* order_pay.yaml's 409 for a paid order.  With one decision at a time     *)
(* PayOrder's check still holds when the payment service answers its call, *)
(* so all that can charge a paid order is a call left behind by a handler  *)
(* that has failed, or stopped, while it waited.                           *)
THEOREM PaidIsChargedByWhatWasLeft ==
  Spec /\ []OneAtATime => PaidIsChargedOnlyLate
<1>1. IInv /\ SInv /\ [Next]_vars =>
        [\A o \in Orders : orders[o].status = "PAID" =>
           ChargedFor(o)' \ ChargedFor(o) \subseteq running]_vars
  BY PaidChargedStep, OrderConstants
<1> QED BY <1>1, SerialInvariance, PTL DEF Spec, PaidIsChargedOnlyLate

(* No call is left behind if calls of the payment service fail only before *)
(* they do anything, and the order service does not stop.                  *)
NobodyLeaves == "answer" \notin Faults /\ "crash" \notin Faults

LEMMA NoneIsLeft ==
  ASSUME NobodyLeaves
  PROVE  Spec => [](running = {})
<1>1. Init => running = {}
  BY DEF Init, Pay!PaymentInit
<1>2. running = {} /\ [Next]_vars => (running = {})'
  <2> SUFFICES ASSUME running = {}, [Next]_vars
               PROVE  running' = {}
    OBVIOUS
  <2>1. ASSUME NEW c \in Clients, Charge(c)
        PROVE  running' = {}
    BY <2>1 DEF Charge, NobodyLeaves, payment, Pay!PayOrder
  <2>2. ~Crash
    BY DEF Crash, NobodyLeaves
  <2>3. CASE LatePayment
    BY <2>3 DEF LatePayment
  <2> QED BY <2>1, <2>2, <2>3, WhoLeaves
<1> QED BY <1>1, <1>2, PTL DEF Spec

(* Then a paid order is never charged again, whatever else fails: the race *)
(* that breaks the 409 of order_pay.yaml takes two requests that decide    *)
(* about one order at the same time.                                       *)
THEOREM PaidStaysUncharged ==
  ASSUME NobodyLeaves
  PROVE  Spec /\ []OneAtATime => PaidIsNotChargedAgain
<1>1. Spec => [](running = {})
  BY NoneIsLeft
<1>2. running = {} /\ (IInv /\ SInv) /\ [Next]_vars =>
        [\A o \in Orders :
           orders[o].status = "PAID" => ChargedFor(o)' = ChargedFor(o)]_vars
  BY PaidChargedStep, OrderConstants
<1> QED BY <1>1, <1>2, SerialInvariance, PTL DEF Spec, PaidIsNotChargedAgain
=============================================================================

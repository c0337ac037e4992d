# Rocket marketplace: TLA+ models, checks and proofs

This directory holds the formal models of the rocket marketplace: TLA+ modules
translated from the Go source, TLC configurations that model-check them on small
instances, and theorems that TLAPS proves for every size of the system.
`PROJECT.json` is the index: it ties each definition to the source lines it
models (`map`), each run to its properties, each property to a mutant of the
code that breaks it, and each hazard of the code to the properties that would
catch it.

## 1. The system

Six services and a shared platform library, written in Go.

| Component | State | Operations | Talks to |
|---|---|---|---|
| **Order** (`order/`) | table `orders` in PostgreSQL | `CreateOrder`, `PayOrder`, `CancelOrder`, `GetOrder` over HTTP; consumer of `ShipAssembled` | inventory and payment by gRPC, Kafka topics `OrderPaid` (out) and `ShipAssembled` (in) |
| **Payment** (`payment/`) | transactions in memory, under a mutex | `PayOrder` | order |
| **Assembly** (`assembly/`) | none but Kafka offsets | consumer of `OrderPaid`: waits 1–10 s, produces `ShipAssembled` | Kafka |
| **Notification** (`notification/`) | none but Kafka offsets | two consumer groups, a Telegram message for each event | Kafka, Telegram |
| **IAM** (`iam/`) | table `users` in PostgreSQL; sessions and each user's set of sessions in Redis | `Register`, `GetUser`, `Login`, `Whoami`, ext_authz `Check` | Envoy, order's and inventory's interceptors |
| **Inventory** (`inventory/`) | parts, in MongoDB (or in memory) | `GetPart`, `ListParts` with a filter | order |
| **platform/kafka** | offsets, sessions, claims (with sarama and the broker) | `Consume`, `ConsumeClaim`, `Send` | all Kafka users |
| **Gateway** (`deploy/compose/envoy`, `iam/.../ext_authz_v1.go`, `platform/pkg/middleware`) | none | routes, ext_authz, gRPC transcoding, session middleware, session interceptor | clients, IAM, order, inventory |
| **Order's HTTP API** (`shared/pkg/openapi`, `order/internal/delivery`) | none | routing, decoding, validation, encoding, generated client | clients, order |
| **platform/closer** | closing functions, `once`, `done` | `Add`, `CloseAll`, `handleSignals`, `Wait` | every service's start-up and shutdown |
| **App and container** of each service (`app.go`, `di.go`, `main.go`) | what is built, servers, consumers | `initDeps`, `Run`, signals, exit | closer |
| other platform code | logger, tracing, metrics, health, cache and migrator wrappers | – | – |

What is hard in it, and what makes each part correct:

* **Order.** Requests and the consumer run concurrently and share only the table.
  No statement is in a transaction, `repository.Update` is a SELECT followed by
  an UPDATE of all columns, and the payment call happens between the check of
  the status and the update. Correct means: a row's transaction is one that was
  really made for it, a charge is never forgotten without anybody having been
  told of an error, a settled order never awaits payment again, events are true;
  and, when requests do not race, an order is paid or cancelled once and only a
  paid one is completed.
* **Kafka.** Offsets are committed behind the handlers' backs, a rebalance takes
  partitions from members that still work on them, and a failed handler does not
  stop the claim. Correct means: an offset passes a message only when its handler
  succeeded or failed by itself; every message reaches a handler.
* **Closer.** Goroutines, a `sync.Once`, a deadline, a buffered channel and
  functions that may hang, fail or be registered too late. Correct means: who
  returns from `CloseAll` and `Wait`, when, with which error; nobody blocks; it ends.
* **IAM.** Check-then-insert, two writes to Redis without a transaction, a look
  at the clock between two Redis commands, keys that vanish.
* **Payment** has one atomic operation; what is hard is that it forgets on
  restart, never recognises a repeated payment, and never looks whether its
  caller still waits.
* **Inventory** has two repositories, one for the tests and one for production,
  which have to answer alike.
* **Gateway.** Two documented ways to name a session and a third that works (the
  metadata `session-uuid`, which the client may send as a header of its own), three
  places that look for one, headers that are renamed or dropped in between. Correct
  means: whoever is served was admitted, and an order is placed in the name of the
  session that was admitted, never of another one the client named as well.
* **Order's HTTP API.** Decoding, validation and routing are separate generated
  steps. Correct means: the handlers see only what the schema allows, and the
  client takes nothing for an answer that is not one.
* **App and container.** Requests, consumers, a failing server, a signal and the
  closing functions race to the end of the process. Correct means: no request is
  cut short by a process that says all is well, and a process that was told to
  stop, or cannot do its work any more, ends.
* **Assembly, Notification**: at-least-once handlers without deduplication.

The full list of hazards, each with its line and the properties that cover it,
is under `hazards` in `PROJECT.json`.

## 2. Modules

```
OrderLifecycle      the life of an order, by the API's statuses (abstract)
   ^ refined by (as long as requests for one order are decided one at a time)
OrderService  --INSTANCE-->  Payment
   ^ EXTENDS: OrderServiceProofs (TLAPS), MCOrderService (TLC)
TopicDelivery       what a reader of a topic may count on  (abstract)
   ^ refined by
ConsumerGroup       one topic, one consumer group
   ^ EXTENDS: ConsumerGroupProofs (TLAPS), MCConsumerGroup (TLC)
GracefulShutdown    what a shutdown promises               (abstract)
   ^ refined by                     ^ INSTANCE
Closer                              ServiceLife    a process, main to exit
   ^ EXTENDS: CloserProofs             ^ EXTENDS: ServiceLifeProofs
   ^ EXTENDS: MCCloser                 ^ EXTENDS: MCServiceLife
SessionAuthority    what may be counted on about a session (abstract)
   ^ refined by                     ^ asked by Gateway (GatewayProofs)
IAM                 accounts and sessions
   ^ EXTENDS: IAMProofs (TLAPS), MCIAM (TLC)
PartCatalogue       what a repository of parts promises    (abstract)
   ^ refined by (twice: the map in memory, the collection in MongoDB)
Inventory           both repositories, given the same calls
   ^ EXTENDS: InventoryProofs (TLAPS)
   ^ EXTENDS: Gateway   a request from Envoy to the parts
        ^ EXTENDS: GatewayProofs (TLAPS), MCGateway (TLC)
OrderSchemas        JSON types, their encoding and validation
   ^ EXTENDS: OrderAPI  one HTTP exchange
        ^ EXTENDS: OrderAPIProofs (TLAPS), MCOrderAPI (TLC)
```

### OrderService, Payment, OrderLifecycle

Every request goroutine (`Clients`) and every consumer goroutine (`Workers`) has
a program counter `pc`, what it serves in `call`, and the locals that survive a
call out of the process: `tx` (PayOrder's transaction) and `draft` (the order
`repository.Update` is about to write). A handler is cut at each statement, gRPC
call and produce:

| Code | Actions |
|---|---|
| `CreateOrder` | `StartCreate`, `CheckParts`, `Insert`, `ReadBack` (the delivery layer's second read) |
| `PayOrder` | `StartPay`, `PayGet`, `Charge`, `UpdateRead`, `UpdateWrite`, `Publish` |
| `CancelOrder` | `StartCancel`, `CancelGet`, `UpdateRead`, `UpdateWrite` |
| `order_consumer.Handle` | `Consume`, `UpdateRead`, `UpdateWrite` |
| assembly's answer to an event | `Assemble` |
| payment's `PayOrder` after its caller has gone | `LatePayment` |
| restarts | `Crash`, `PaymentRestarts` |

`Faults` enables the failures of the environment: a statement that fails with or
without having been applied, an answer of the payment service that is lost, an
event that is not written, a crash of either service. When the answer is lost (a
deadline, a customer who hangs up, a stop of the order service) the payment has been
made or is still to be made: payment's handler ignores its context, so the call stays
in `running` until `LatePayment` carries it out, maybe after another request has paid
or cancelled, or a restart of payment ends it. That a payment is refused is always
possible. History variables: `charged` (what the payer was charged,
which outlives the payment service's memory), `confirmed` (told to a customer
with a 200), `abandoned` (its handler ended without a 200).

Abstracted: amounts, parts, users and timestamps; decoding of messages and
malformed UUIDs. A failed statement (unlike a call of the payment service) has been
applied or not by the time its error is returned, never later. Both topics are sets that only grow, so that a
message can be delivered any number of times and in any order: what ConsumerGroup
shows to be possible.

`OneAtATime` says that no two requests are between the Get and the UPDATE of one
order at once (`Deciding`), as if the row were locked from the check of its status
on. The code does not lock it; the life cycle, and that a confirmed payment stays,
are stated, checked and proved under this condition, and the two runs without it show
what is lost. The life cycle is that of the code and of `order.openapi.yaml`
(`status: COMPLETED`, which `handler.go:47` writes); the README calls the last status
`ASSEMBLED`, see the departures in section 3.

### ConsumerGroup

The repository's part is `Consume` (join again and again, give up on an error)
and `ConsumeClaim` (`Deliver`, `HandlerSucceeds`, `HandlerFails`); the broker, the
coordinator and sarama are external and modelled by what the code relies on:
sessions with a generation, a fenced member's commits refused, automatic commit
of the marks, a final commit at the end of a session, rebalances that do not wait
for a member for ever. `failed` records only failures of a handler whose session
was alive. A handler that is called with a context that is already done fails:
each of the repository's handlers uses it for what it does.

`TopicDelivery` has neither members nor sessions: any message of the log may be
handled any number of times, and the group's offset moves forward only, over
messages that succeeded or failed, and stops behind one that succeeded.
`ImplementsDelivery` is the refinement, with the same four variables. It is this that
OrderService assumes of its topics, and the duplicates it allows are those that
`duplicate_effect` shows.

### Closer

`Enter`, `Start`, `Collect` are `CloseAll`'s caller; `Succeed`, `Fail`, `Send` the
functions' goroutines (`Fail` is an error or a panic); `CloseErrCh` the goroutine
that waits for them; `Expire`, `NoSignal`, `Call` handleSignals and the other
callers; `Add` registers a function at any time. Each of the services uses one
kind of caller; the package allows both at once, so the instance has both. That
the process exits once `Wait` has returned is ServiceLife's subject.

`GracefulShutdown` is what a user of the package may count on: functions are
registered at any time; the first shutdown takes those that are there and runs
them, all at once; it is over when all have returned, or at its deadline. The
refinement (`Promise`) maps `done` and `owner` to the phase, `batch` to the set of
functions taken, and a goroutine that is still sending its error to one that is
still running. The comment at `closer.go:166` promises the reverse order of
addition; the loop starts the goroutines in that order and waits for none, so the
abstract `Start` and `Return` are free to interleave.

The comment at `closer.go:144` says that `CloseAll` returns the first error that arose.
What it does return is the first that was *sent* (the history variable `sent`), or its
context's error: of two functions that fail the later may be quicker to send, and at the
deadline the select may take `ctx.Done()` although errors are buffered.
`FirstErrorIsReturned` says so.

### ServiceLife

One process of any of the six services. `Build` is a step of `initDeps` or of a
container that builds a dependency on the way, each of which registers its
closing function; `InitFails` is a returned error, a panic, or the nil logger that
is used when the configuration of assembly or notification cannot be read. A
request (`Accept`, `Use`, `Respond`) needs the dependencies its handler calls, in
that order, and finds them closed or not. `Join`, `BuildProducer` and `Consume` are
the consumer goroutines; `ServerFails`, `ServerReturns` and `RunEnds` the ends of
`Run`; `Signal` and `MainReturns` those of `main`. The shutdown itself is the
instance of `GracefulShutdown`, driven by `StartClosing`, `ClosingFunctionReturns`,
`DeadlinePasses` and `ShutdownEnds`.

What the services do not have in common is in the operators that say so: order,
inventory and payment handle signals with a deadline and leave `main` by
`closer.Wait()`; iam handles them without a deadline and leaves with `Run`; assembly
and notification do not handle signals at all and shut down only when a consumer
has ended. Inventory and payment register their listener beside their server:
when it is closed before `GracefulStop` has begun, `Serve` returns an error and
`log.Fatalf` ends the process (`ServerFails`), which is why `NothingCutShort` is
about processes that exit with status 0.

### Inventory, PartCatalogue

A call is one atomic action that updates both repositories and records both
answers: the map is behind a mutex, and a statement touches one document. The two
differ in how they filter (five filters, one after the other, against one
conjunction of `$in`), in that the collection is keyed by a unique index, and in
what an update leaves of the old part: the map's is replaced, while `$set` keeps the
fields that the new part encodes to nothing (`omitempty`: tags, manufacturer).
A caller may ask for any UUID, one that no part has included. `Maintain` stands for the
use case's create, update and delete, which no API of the service offers and no other
code calls: the seed program writes to the collection by itself.
`PartCatalogue` has the update as a parameter, `Changed`, and is instantiated once for
each: `MemoryIsACatalogue`, `MongoIsACatalogue`. The use case turns each error into
`NotFound` or hides it, and so do the replies.

### Gateway

`Arrive`, `Check` and `RouteRequest` are Envoy with ext_authz and the transcoder;
`OptionalAuth`, `BuyPart` and `PlaceOrder` the order service's CreateOrder with its
calls of inventory; `RefuseSession`, `ServeGetPart` and `ServeListParts` inventory's
interceptor and API; `Dial` a gRPC client that goes around Envoy. `EndSession` and
`ChangeParts` happen at any time: a session may end after it was checked, and a
part may be sold out, change its price or disappear between two of CreateOrder's
calls. Envoy's own behaviour is modelled as far as `envoy.yaml` configures it.

A request names up to three sessions: `header` (X-Session-UUID) and `cookie`, which
ext_authz looks at, and `metadata`, a header `session-uuid` of the client's own. No
document asks for the last, but Envoy removes it nowhere, the transcoder makes it
metadata, and inventory's interceptor takes what it finds there. So a transcoded call
may be handled with another session in its context than the one ext_authz asked about;
no handler of inventory does anything in its name. `ServedAsWhoWasAdmitted` therefore says
of inventory's API only that IAM vouched for a session of the client, and of the order
service that it acts in the name of that session or of none.

### OrderAPI, OrderSchemas

One exchange: `Send...` is the generated client or any other sender, `Refuse` the
router, `Handle...Request` the generated handlers with decoding and validation, then
one action for each operation of the delivery layer, `EncodeResponse`, and `Receive`
or `Break` at the client. A JSON object is the sequence of its members, so
that repeated, unknown and missing members, and values of the wrong kind, occur. A
Go struct is a function from its fields, and each generated type is the table of its
fields: Encode and Decode, which ogen writes out once for each type, are stated once.
*Documented*, in this module, means documented by `order.openapi.yaml`, which the code is
generated from. The README documents another API in places (section 3), and `OtherClient`
sends what it describes too: a DELETE is answered 405.

### IAM

`Register`, `Login` and `Whoami` cut at each call to PostgreSQL and Redis, and
`Judge`, the look at the clock. `Lapse` is the passing of a session's `ExpiresAt`,
`Vanish` the end of its key's time to live. bcrypt takes no step of its own: it
works on what was read. Assumed: logins are unique in the table (the migration
says so), and Redis keeps what it acknowledged. A session's UUID is used by those
it was given to.

`SessionAuthority` has no accounts, stores or commands: a session lives once, from
`Grant` to `End`, and a question about one is answered by a decision at one moment,
`Vouch` while it is alive or `Refuse` when it has ended (or none was shown), or by an
error. `ImplementsAuthority` is the refinement: the sessions alive are those a Login has
opened that have not lapsed, a question is pending from `StartWhoami` to `Judge` (or to
the refusal, by `GetSession` or `DeleteExpired`), and the account that is looked up
afterwards changes nothing about the decision. A refusal by `GetSession` decides by the
key alone; it is right because the key of a granted session is there until the session
has lapsed. The same module is what `Gateway` asks, with ext_authz as its one asker: in
`GatewayProofs` its step `Check` is proved to be such a decision, so that what the gateway
takes for one step is what IAM's many steps amount to.

## 3. Runs

| Run | Instance | Shows |
|---|---|---|
| `order_concurrent` | 1 order, 3 transactions, 2 methods, 2 requests, 1 consumer, all faults | what survives races on one order: `StoredTransactionIsReal`, `EventsAreTrue`, `ConfirmedIsSettled`, `ChargeIsNotForgotten`, `NeverPendingAgain` |
| `order_serial` | 2 orders, 2 transactions, 2 requests that never decide about one order at the same time, 1 consumer, all faults | `ConfirmedPaymentSticks`, `ChargedTwiceOnlyAfterFailure`, and `ImplementsLifecycle`: the table refines OrderLifecycle |
| `race_cancel_pay` | no faults | violated: a paid order is cancelled |
| `double_pay` | no faults | violated: a PAID order is charged once more |
| `group_progress` | 1 partition, 3 messages, 2 members, 3 rebalances, all faults | `LostOnlyByFailure`, `EveryMessageIsHandled`, and `ImplementsDelivery`: the group refines TopicDelivery |
| `duplicate_effect` | 1 message, no faults | violated: a message takes effect twice, no consumer uses `event_uuid` |
| `shutdown` | 3 functions (one may hang), 2 callers | `WaitMeansClosed`, `NilMeansDone`, `FirstErrorIsReturned`, `NobodyStaysBlocked`, `ShutdownEnds`, and `ImplementsShutdown`: the package refines GracefulShutdown |
| `iam` | 2 logins, 2 users, 2 sessions, 2 requests, all faults | `OneAccountPerLogin`, `SessionsAreListed`, `AllowedIsOwner`, and `ImplementsAuthority`: Whoami refines SessionAuthority |
| `service_life` | all six services, one request at a time, one signal | `NothingCutShort`, `StopsForASignal`, `SignalEndsProcess`, `NoConsumerIsMissing` |
| `gateway` | 2 sessions, named in any of three places, 2 parts (one changes) and a UUID without a part, 7 filters, 4 lists of parts, all faults | `ServedAsWhoWasAdmitted`, `OrderedPartsWereOnOffer`, and both refinements of PartCatalogue |
| `session_lost` | same, no faults | violated: a request that was admitted is refused by inventory for want of a session |
| `order_api` | 1 order, 18 documents, 17 paths, 3 UUIDs | `ClientGetsTheAnswer`, `HandlersGetValidInput`, `NoOrderWithoutParts`, `InvokedAsDocumented` |

**Bounds.** The constants are the only bounds, but for the `CONSTRAINT OneAtATime` of
`order_serial`, which is the condition its properties are stated under. In OrderService the interesting
races need two requests and the consumer on one order, and a second transaction
for a double charge; the third lets a call that was given up be carried out after
another request has paid, while a third is decided; two orders matter for the refinement (a transaction pays for
one order only). The number of payments, orders and logins is bounded by the
number of UUIDs; a request that finds none left fails as the environment's faults
let it. ConsumerGroup bounds messages (`MaxLen`) and what may disturb the group
(`MaxGeneration`): three messages are enough for failed, succeeded, in flight; three
generations for a fenced member that meets the successor of its successor. Two
partitions (2 messages, 2 generations) were checked too, with the same result in
half a million states. In Gateway two sessions let header, cookie and `session-uuid`
name different ones (what is admitted, and something else), and two orders of parts let one change while the other is bought; the update
of `p1` omits its tags and manufacturer, which is where the repositories differ. In
OrderAPI the documents hold every way a decoder can go (complete, incomplete,
repeated, unknown, of the wrong kind, a bad value before or after a good one) and
the paths every branch of the router. ServiceLife has no bound but one request and
one signal at a time: a second request would need what the first needs, and a second
signal changes nothing. The proofs below remove the bounds for safety.

**Symmetry** is used in `order_concurrent`, `order_serial` and `iam`, which check no liveness.

**Deadlock.** The order and IAM runs check for it. In ConsumerGroup everything may
come to rest when all messages are handled or no member runs, in Closer when
the shutdown is over, and in ServiceLife when the process has exited, hence
`CHECK_DEADLOCK FALSE` there. In Gateway and OrderAPI the next request can always come.

**Fairness.** `group_progress`, `shutdown` and `service_life` need it. ConsumerGroup: the
claim's goroutine goes on; a handler returns (its calls take the session's context
or end with a timer of at most ten seconds; Telegram's HTTP client has no timeout
of its own, which is the exception and listed as a hazard); the library notices
that its session is over and joins again; the coordinator does its part. Nothing
restarts a member, so the property ends with `up = {}`. A disturbance can happen
only while `generation < MaxGeneration`: for ever disturbed groups make no
progress in reality either. Closer: goroutines run, timers fire, a function
returns unless it is in `Hangs`. Nothing makes a signal come. ServiceLife: the
process's own goroutines go on (`StartClosing`, `ShutdownEnds`, `RunEnds`,
`MainReturns`) and its deadline passes. Nothing is assumed of requests, servers or
closing functions, which may all hang, except for the closing of consumer groups and
of the producer in assembly and notification, whose shutdown has no deadline: sarama's
`Close` returns once the handlers have. iam's has none either, and nothing of the kind
is assumed there; accordingly `SignalEndsProcess` does not speak of iam.

**What the violations say** is under `findings` in `PROJECT.json`, each with the
sentence of the documentation the code departs from. More departures need no run, since
one look at the code shows them:

* `CancelOrder` answers 204 ("Order successfully cancelled") for a COMPLETED order, which
  it leaves as it is (`cancel.go:18-22`; `ImplementsLifecycle` shows that it stays
  COMPLETED).
* The README's life of an order ends `PAID` → `ASSEMBLED` (`src/README.md:564`, 618,
  628-632), and the consumer's log says ASSEMBLED too (`order_consumer/handler.go:51`,
  55). What `handler.go:47` writes is `COMPLETED`, and neither the code nor the schema
  has a status `ASSEMBLED`. OrderLifecycle follows the code and the schema, so
  `ImplementsLifecycle` is not a confirmation of the README.
* The README cancels an order by `DELETE /api/v1/orders/{uuid}` (`src/README.md:643-649`,
  681). The schema and the router have `POST .../cancel`, and answer that DELETE with
  405, as `InvokedAsDocumented` says of every method the schema does not have.
* The README's example bodies (`userId`, `partUUIDs` at `src/README.md:442-443`) and
  payment methods (`..._CASH`, `..._CRYPTO` at 520-521) are not those of the schema: such
  a request is refused with 400, which is what `HandlersGetValidInput` is about.
* The closing functions run concurrently (`closer.go:166`), and the error returned is the
  first that was sent rather than the first that arose (`closer.go:144`).

## 4. Proofs

Checked by `tlapm`, from the named assumptions on the constants only
(`OrderConstants`, `GroupConstants`, `IAMConstants`, `CloserConstants`,
`InventoryConstants`, `GatewayConstants`, `ServiceConstants`, `APIConstants`), for any
number of orders, clients, members, partitions, users, sessions, closing functions,
callers, parts and filters, any JSON documents and paths, and any set of faults.

* **OrderServiceProofs.** `Invariance` proves the inductive invariant `IInv`, from
  which follow `TypeCorrect`, `StoredIsReal`, `EventsTrue`, `ConfirmedSettled`,
  `NotForgotten`; `NeverPending` is an action property proved from it. The
  properties are not inductive by themselves: an UPDATE writes a `draft` that was
  computed from an older row. `IInv` therefore says of every goroutine that its
  transaction was charged for its order with its method (`HoldsReal`), that its
  draft is a row that could be stored whatever the row is by now (`DraftReal`: a
  draft never awaits payment, and its transaction is a real one), and that a
  consumer's order was charged (`CompletesCharged`). The key lemmas say that some
  things only grow: orders exist for good, charges and events stay, and a settled
  order stays settled, because no draft is `PENDING_PAYMENT`. Which of the many steps
  writes which of the shared variables is said once, in `WhoWrites`.
  Of every behaviour in which `OneAtATime` always holds (the only hypothesis added:
  clients, consumers, orders, transactions and faults stay any) `ConfirmedSticks`,
  `ChargedTwiceAfterFailure`, `PaidStaysUncancelled`, `PaidIsChargedByWhatWasLeft` and
  `RefinesLifecycle` follow from `SInv`: what a
  handler has read is still so when it acts on it (`UpToDate`), whatever was told to
  Kafka or assembly was told of a paid order (`ToldOfPaid`), which a consumer may
  therefore complete at any time, and a row that awaits payment has no transaction
  (`PendingUnpaid`). `TableStep` shows that every step that writes the table is a step
  of the life cycle. Without `OneAtATime`, `UpToDate` is what fails, and
  the `race_cancel_pay` and `double_pay` runs show it. `PaidStaysUncancelled` is about
  the very property that the first of them violates, so that the race, and not a fault
  or a redelivered event, is the only way to violate it. For the second that is not so:
  a call of the payment service whose caller has gone may charge an order that another
  request has paid meanwhile. `PaidIsChargedByWhatWasLeft` says that, without the race, it
  takes such a call (one in `running`; `RunningAbandoned` in `IInv` says that its handler
  ended without a 200), and `PaidStaysUncharged` that a paid order is never charged again
  when besides none can be left behind (`NobodyLeaves`: no lost answer, no stop of the
  order service).
  Many behaviours satisfy the hypothesis: `OneClientDecides` proves that those of a
  single client do, and the run has those of two.
* **ConsumerGroupProofs.** `NothingIsLost` and `CommitsSuccess` say which offsets may
  be committed. Since any mark may be committed at any time, and by a member that
  has long lost the partition, `IInv` requires of every mark what is required of a
  committed offset (`Sound`), and of every claim whose session is alive that all it
  has received is accounted for, but for the message in the handler (`ClaimInv`).
  Once the context is done, only the message that was already in the handler may
  still succeed; this is why a cancelled claim that drains its channel loses
  nothing.
  `OwnersInvariance` adds who may commit (`RInv`): a member whose offsets the
  coordinator still takes is the one the partition is assigned to, and has marked at
  least what is committed (`OwnerOnly`); without it a commit could move the offset
  back, which `TypeOK` and `Sound` allow. From it follow `OffsetNeverGoesBack`,
  `CommittedIsBehind` (whoever handles a committed message again cannot commit it),
  `OnceUntilRebalanced` (a duplicate needs a rebalance: in the first generation a claim
  is past everything that took effect) and the refinement `Implements`, step by step.
* **CloserProofs.** `WaitIsLast`, `NilIsDone` and `FirstErrorReturned`, the safety of the
  `shutdown` run, and `Implements`: every behaviour of Closer is one of
  GracefulShutdown. `ClosesOnce` says what the code relies on without saying it:
  each function is registered once, the batch belongs to the one caller that got
  through `once.Do` (`OneOwner`), the loop meets each function once because it
  counts down and what it has started is never added again (`StartedFromTheEnd`),
  and whoever has seen the channel closed has seen all errors (`ErrorsAreSeen`). The
  refinement is proved step by step from that invariant (`StepOfPromise`).
  `FirstErrorReturned` rests on `FirstIsKept`: while the closing caller has no result the
  channel holds all that was ever sent, and its first is what the caller takes, unless
  its time is up; and nothing is sent after the caller has found the channel closed.
  `SendsAreFree` is the safety half of `NobodyStaysBlocked`: a function that failed finds
  room for its error and an open channel, whether or not the caller has stopped reading.
  Every error in `errCh` is that of another function, which has ended (`SentOnce`); as the
  one that is sending has not, fewer are in the channel than functions in the batch
  (`ShorterThan`, by the pigeonhole principle).
* **InventoryProofs.** `MemoryImplements` and `MongoImplements`: for any parts and
  filters both repositories implement PartCatalogue. `FiltersConjoin` is the lemma
  behind the first: five maps, each filtered from the last, hold exactly the parts
  that match every criterion which is set, provided each part is kept under its own
  UUID (`KeyedAlways`).
* **GatewayProofs.** `AdmittedAndServed` and `NothingElseIsOrdered`. Both need what
  holds on the way: that nobody on the way to the order service takes a session before
  it does, and that the header X-Session-UUID, if there is one, is what ext_authz asked
  about, since it looks at the header before the cookie (`Admitted`); and that what is bought is a
  prefix of what was asked for, while all that is on offer now has been on offer
  since the request arrived (`BoughtInOrder`).
  Whatever comes through the gateway calls Inventory as its API allows
  (`CallsInventory`), so that both refinements of PartCatalogue hold behind it as well
  (`MemoryBehindTheGateway`, `MongoBehindTheGateway`). `HeaderReachesInventory` says how
  far the violation of `session_lost` goes: nobody is refused for want of a session who
  orders with X-Session-UUID, or calls inventory with a `session-uuid` of his own.
  `AsksTheAuthority`: the gateway is a client of the session authority that IAM
  implements. It rests on the fact that nobody has been vouched for while IAM is asked
  (`NobodyYet`). The run does not check it; it is a statement about the mapping
  `Standing`, `Regarding` in that module.
* **ServiceLifeProofs.** `ExitsCleanly` and `StopsOnlyForSignal`, for all services at
  once. That status 0 means what it should rests on how the parts of a process hang
  together: what a shutdown with time left has taken has returned (`ShutdownInv`);
  before a process serves, its server is registered, so that the shutdown takes it
  (`ServerInv`); a server returns only when it has answered, or at the deadline
  (`RequestInv`); and a consumer ends without an error only in a shutdown that
  somebody else began (`ConsumerInv`).
* **IAMProofs.** `UniqueLogins`, `NoLostSession`, `WhoamiIsRight` and `Implements`,
  the safety properties of the run, `TypeCorrect`, and `RefusalIsFinal`. A
  request holds what it read some steps ago, so `IInv` says what of it is still
  true: what a login found (`LoginInv`), that a session read from Redis was granted
  for the account it names, though its key may be gone (`WhoamiInv`), and for every
  grant that the key, while it exists, holds the account it was granted for
  (`GrantInv`). That another request's step keeps this follows from one relation,
  `Grows`, that every step satisfies: rows, grants and refusals stay, and the key of
  an opened session only vanishes. `RefusalIsFinal` rests on it too: a refused
  session has no key (`RefusedInv`), and since a UUID is never used again, no key
  comes back.
  `Implements` needs what `IInv` leaves open, that a session is not refused too early:
  the key of every granted session, and of the one a login is between its two writes of,
  is there until the session has lapsed, and only what has lapsed is going to be deleted
  (`AInv`, `SessionsKept`). It is kept because of the few that write keys or the clock
  (`KeyWriters`) a new session writes its own key, and the others take only lapsed ones
  away (`KeptStays`). There is then one lemma for each step of Whoami, which says which
  of the authority's steps it is, or that it is none (`StillThere`).
* **OrderAPIProofs.** `ClientIsToldTheAnswer`, `OnlyValidInput` and `EveryOrderHasParts`,
  for any JSON documents, paths, UUIDs and enums. The first is the round trip of an
  exchange, put together from one lemma for each leg: the router leads a call to its
  operation and to no other (`CallIsRouted`, which needs that a slash is no UUID); what
  the service decodes is what the caller passed (`CallIsDecoded`, by `RoundTrip`: the
  field names of a type are different); whatever the delivery layer returns is valid by
  the client's schema (`GetOrderRespFits` and its like, for which a stored row must hold
  what a request was validated to hold, `Rows`); no body of one type is read as another's
  answer (`AnswerIsRead`, `RefusalIsError`). `APIInv` says at each stage which legs are
  behind. `CallsAreDocumented` is about the generated router, which takes a path apart
  piece by piece: it invokes an operation for the documented method and path only, with
  the UUID of the path, and refuses no documented one. Its lemmas invert the router: which
  pieces a path consists of when a route is found.

Only model-checked: liveness (`EveryMessageIsHandled`, `NobodyStaysBlocked`,
`ShutdownEnds`, `SignalEndsProcess`, `NoConsumerIsMissing`), which this prover does
not do. Every invariant and every safety property of a passing run is a theorem; what
the violating runs refute is not, but for the conditions named above under which it holds.

## 5. Not modelled

* The end-to-end promise, that a paid order is at last COMPLETED. Its parts are
  modelled (OrderService, ConsumerGroup, ServiceLife), but the code does not keep it:
  `pay.go:60` drops the error of `SendOrderPaid`, so that it holds only if no produce
  ever fails, and there is nothing left to check.
* Observability: logger, tracing, metrics, health. Nothing of the program waits for
  them or reads what they write; CORS and Kafka's logging middleware are alike.
* The Redis client, the migrator and the transaction-less database helpers wrap
  libraries call by call; the models take their statements as atomic.
* The answers of order's Recoverer and Timeout middleware (`order/internal/app/app.go:209-210`):
  an exchange of OrderAPI ends with an answer of the generated server or a broken
  connection. What the timeout does to a handler, whose context is done, is in OrderService
  a statement or a call that fails.
* The IAM client (`shared/pkg/iamclient`): the containers of order and inventory can
  build one, and nothing asks them to. ext_authz, which does ask for a session's user,
  is in IAM and Gateway.
* Telegram and its HTTP client: a message is sent or fails; that it may hang
  (`client.go:37`) is an exception to the fairness above.
* Configuration, but for the variables without a default (ServiceLife); deployment
  files, but for `envoy.yaml`.
* Generated gRPC code and ogen's server and client plumbing (options, tracing,
  middleware hooks), which differ by type only; the JSON types, their
  validation, the router, handlers and the client's answers are in OrderAPI.
* Test containers, integration tests and seed data.

## 6. Plan

Done, in this order: OrderService and its life cycle; ConsumerGroup; Closer; IAM;
Inventory and its catalogue; Gateway; GracefulShutdown and ServiceLife; OrderAPI;
TopicDelivery; SessionAuthority. Left:

* `Marketplace`: order, two consumer groups, assembly's timed handler and
  notification together, with `PAID ~> COMPLETED` under the assumption that
  no produce fails, should the code come to retry it.

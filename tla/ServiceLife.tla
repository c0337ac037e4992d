----------------------------- MODULE ServiceLife -----------------------------
(***************************************************************************)
(* One process of one of the six services from its main to its exit:       *)
(* initDeps builds its dependencies one by one and registers how to close  *)
(* them, Run serves requests or consumes topics, and a signal or the end   *)
(* of Run shuts it down as GracefulShutdown says.  (That the package does  *)
(* it that way is what Closer shows.)                                      *)
(*                                                                         *)
(* One request at a time is followed: what it needs of its service's       *)
(* dependencies, in that order.  Logger, tracer and the metrics server are *)
(* left out; nothing waits for them.                                       *)
(***************************************************************************)
EXTENDS Integers, Sequences

CONSTANT Services

ASSUME ServiceConstants ==
  Services \subseteq {"order", "inventory", "payment", "iam", "assembly",
                     "notification"}

VARIABLES
  svc,        \* the service
  proc,       \* "starting", "running", "exited"
  status,     \* how it exited
  built,      \* how many of its dependencies initDeps has built
  server,     \* "down", "accepting", "draining", "stopped"
  group,      \* Consume, for each of its consumer groups
  returned,   \* what Run has returned
  request,    \* [state, needs]: what the request still needs
  signalled,  \* SIGINT or SIGTERM has come
  phase, taken, run, late  \* the Closer of the process

process == <<proc, status>>
closing == <<phase, taken, run, late>>
vars == <<svc, process, built, server, group, returned, request, signalled,
          closing>>

HTTPServer == "HTTP server"
GRPCServer == "gRPC server"
Listener   == "TCP listener"
Pool       == "PostgreSQL pool"
Cache      == "Redis cache"
Mongo      == "MongoDB client"
Inventory  == "Inventory gRPC client"
Payment    == "Payment gRPC client"
Producer   == "Kafka sync producer"
Paid       == "Kafka consumer group for OrderPaid"
Assembled  == "Kafka consumer group for OrderAssembled"

Servers == {HTTPServer, GRPCServer}
Groups  == {Paid, Assembled}
Funcs   == Servers \cup Groups
             \cup {Listener, Pool, Cache, Mongo, Inventory, Payment, Producer}

Closer == INSTANCE GracefulShutdown

-----------------------------------------------------------------------------
(* The services.                                                           *)

\* What initDeps builds, the containers' dependencies when they are first
\* asked for, in the order in which their closing functions are added.
OrderDeps     == <<Pool, Inventory, Payment, Producer, HTTPServer>>
InventoryDeps == <<Listener, GRPCServer, Mongo>>
PaymentDeps   == <<Listener, GRPCServer>>
IAMDeps       == <<Cache, Pool, GRPCServer>>

Deps ==
  CASE svc = "order" -> OrderDeps
    [] svc = "inventory" -> InventoryDeps
    [] svc = "payment" -> PaymentDeps
    [] svc = "iam" -> IAMDeps
    [] svc \in {"assembly", "notification"} -> <<>>

\* What Run's goroutines build and consume.
OrderGroups        == {Assembled}
AssemblyGroups     == {Paid}
NotificationGroups == {Paid, Assembled}

GroupsOf ==
  CASE svc = "order" -> OrderGroups
    [] svc = "assembly" -> AssemblyGroups
    [] svc = "notification" -> NotificationGroups
    [] svc \in {"inventory", "payment", "iam"} -> {}

HasServer == svc \in {"order", "inventory", "payment", "iam"}
ServerOf == IF svc = "order" THEN HTTPServer ELSE GRPCServer

\* The services whose environment has variables without a default.
MayLackConfig == {"order", "inventory", "assembly", "notification"}

\* CreateOrder, PayOrder; GetPart; PayOrder; Whoami.
Needs ==
  CASE svc = "order" -> {<<Inventory, Pool>>,
                         <<Pool, Payment, Pool, Producer>>}
    [] svc = "inventory" -> {<<Mongo>>}
    [] svc = "payment" -> {<<>>}
    [] svc = "iam" -> {<<Cache, Pool>>}

\* handleSignals closes with a timeout, the goroutine in iam's main without
\* one; assembly and notification do not handle signals.
HandlesSignals == {"order", "inventory", "payment", "iam"}
NoDeadline == {}
HasDeadline == {"order", "inventory", "payment"}

-----------------------------------------------------------------------------
Init ==
  /\ svc \in Services
  /\ proc = "starting" /\ status = "none" /\ built = 0
  /\ server = "down" /\ returned = "no" /\ signalled = FALSE
  /\ group = [g \in GroupsOf |-> "none"]
  /\ request = [state |-> "none", needs |-> <<>>]
  /\ Closer!Init

ExitSilently(s) == proc' = "exited" /\ UNCHANGED status

Exit(s) == proc' = "exited" /\ status' = s

\* Whatever fails in initDeps, be it a returned error, a panic of a container
\* or, in assembly and notification, the logger that is nil when the warning
\* about the configuration is to be written, ends the process at once.
InitFails ==
  /\ proc = "starting"
  /\ built < Len(Deps) \/ svc \in MayLackConfig
  /\ Exit("failed")
  /\ UNCHANGED <<svc, built, server, group, returned, request, signalled,
                 closing>>

Build ==
  /\ proc = "starting" /\ built < Len(Deps)
  /\ built' = built + 1
  /\ Closer!Register(Deps[built + 1])
  /\ UNCHANGED <<svc, process, server, group, returned, request, signalled>>

\* main goes on with Run, and the server listens.
Serve ==
  /\ proc = "starting" /\ built = Len(Deps)
  /\ proc' = "running"
  /\ server' = IF HasServer THEN "accepting" ELSE "down"
  /\ UNCHANGED <<svc, status, built, group, returned, request, signalled,
                 closing>>

-----------------------------------------------------------------------------
(* Requests.                                                               *)

Accept ==
  /\ proc = "running" /\ server = "accepting"
  /\ request.state # "working"
  /\ \E n \in Needs : request' = [state |-> "working", needs |-> n]
  /\ UNCHANGED <<svc, process, built, server, group, returned, signalled,
                 closing>>

\* The next dependency: one whose closing function has returned fails, one
\* that is being closed may; the error is answered.
Use ==
  LET d == Head(request.needs) IN
  /\ proc = "running"
  /\ request.state = "working" /\ request.needs # <<>>
  /\ \/ /\ run[d] # "ended"
        /\ request' = [request EXCEPT !.needs = Tail(@)]
     \/ /\ run[d] \in {"running", "ended"}
        /\ request' = [state |-> "answered", needs |-> <<>>]
  /\ UNCHANGED <<svc, process, built, server, group, returned, signalled,
                 closing>>

Respond ==
  /\ proc = "running"
  /\ request.state = "working" /\ request.needs = <<>>
  /\ request' = [request EXCEPT !.state = "answered"]
  /\ UNCHANGED <<svc, process, built, server, group, returned, signalled,
                 closing>>

-----------------------------------------------------------------------------
(* Consumer groups.                                                        *)

\* The container builds the group, or panics, whatever else goes on.
Join(g) ==
  /\ proc = "running" /\ group[g] = "none"
  /\ \/ /\ group' = [group EXCEPT ![g] = "consuming"]
        /\ Closer!Register(g)
        /\ UNCHANGED process
     \/ Exit("failed") /\ UNCHANGED <<group, closing>>
  /\ UNCHANGED <<svc, built, server, returned, request, signalled>>

ConsumeHidesErrors(g) ==
  /\ proc = "running" /\ group[g] = "consuming"
  /\ group' = [group EXCEPT ![g] = "nil"]
  /\ UNCHANGED <<svc, process, built, server, returned, request, signalled,
                 closing>>

\* Assembly's container goes on to the producer its handler needs.
BuildProducer ==
  /\ proc = "running" /\ svc = "assembly" /\ group[Paid] = "consuming"
  /\ \/ Closer!Register(Producer) /\ UNCHANGED process
     \/ run[Producer] = "unknown" /\ Exit("failed") /\ UNCHANGED closing
  /\ UNCHANGED <<svc, built, server, group, returned, request, signalled>>

\* Consume returns nil once the group is closed, and any other error as it is.
Consume(g) ==
  /\ proc = "running" /\ group[g] = "consuming"
  /\ svc = "assembly" => run[Producer] # "unknown"
  /\ \/ group' = [group EXCEPT ![g] = "error"]
     \/ /\ run[g] \in {"running", "ended"}
        /\ group' = [group EXCEPT ![g] = "nil"]
  /\ UNCHANGED <<svc, process, built, server, returned, request, signalled,
                 closing>>

-----------------------------------------------------------------------------
(* Run.                                                                    *)

\* Listening fails, or Accept does because the listener was closed before
\* GracefulStop began: log.Fatalf, or os.Exit in iam.
ServerFails ==
  /\ proc = "running" /\ server = "accepting"
  /\ svc \in {"inventory", "payment"} => run[Listener] \in {"running", "ended"}
  /\ Exit("failed")
  /\ UNCHANGED <<svc, built, server, group, returned, request, signalled,
                 closing>>

\* ListenAndServe returns as soon as Shutdown begins, Serve when GracefulStop
\* has seen the last request end.
ServerReturns ==
  /\ proc = "running" /\ HasServer /\ returned = "no"
  /\ IF svc = "order" THEN server = "draining"
     ELSE server \in {"draining", "stopped"} /\ request.state # "working"
  /\ returned' = "nil"
  /\ UNCHANGED <<svc, process, built, server, group, request, signalled,
                 closing>>

RunWaitsForAll ==
  /\ proc = "running" /\ ~HasServer /\ returned = "no"
  /\ \A g \in GroupsOf : group[g] \in {"nil", "error"}
  /\ \E g \in GroupsOf : returned' = group[g]
  /\ Closer!Begin /\ ~late'
  /\ UNCHANGED <<svc, process, built, server, group, request, signalled>>

\* Assembly and notification: the first consumer that ends ends Run, whose
\* deferred function closes the rest.  (In order its end is only logged.)
RunEnds ==
  /\ proc = "running" /\ ~HasServer /\ returned = "no"
  /\ \E g \in GroupsOf : /\ group[g] \in {"nil", "error"}
                         /\ returned' = group[g]
  /\ Closer!Begin /\ ~late'
  /\ UNCHANGED <<svc, process, built, server, group, request, signalled>>

-----------------------------------------------------------------------------
(* Signals and the shutdown.                                               *)

Signal ==
  /\ proc # "exited" /\ ~signalled
  /\ signalled' = TRUE
  /\ IF proc = "running" /\ svc \in HandlesSignals
     THEN Closer!Begin /\ ~late' /\ UNCHANGED process
     ELSE Exit("killed") /\ UNCHANGED closing
  /\ UNCHANGED <<svc, built, server, group, returned, request>>

StartClosing ==
  /\ proc = "running"
  /\ \E f \in taken : Closer!Start(f)
  /\ UNCHANGED <<svc, process, built, server, group, returned, request,
                 signalled>>

\* Shutdown and GracefulStop: the server accepts nothing any more.
StopAccepting ==
  /\ proc = "running" /\ server = "accepting" /\ run[ServerOf] = "running"
  /\ server' = "draining"
  /\ UNCHANGED <<svc, process, built, group, returned, request, signalled,
                 closing>>

\* Shutdown and GracefulStop wait for the requests, Shutdown no longer than its
\* deadline; closing the pool, a client or a group waits for its users, who
\* take a step at a time.
ClosingFunctionReturns(f) ==
  /\ proc = "running"
  /\ Closer!Return(f)
  /\ IF f \in Servers
     THEN /\ server = "draining"
          /\ \/ request.state # "working"
             \/ f = HTTPServer /\ late
          /\ server' = "stopped"
     ELSE UNCHANGED server
  /\ UNCHANGED <<svc, process, built, group, returned, request, signalled>>

DeadlinePasses ==
  /\ proc = "running" /\ svc \in HasDeadline
  /\ Closer!Expire
  /\ UNCHANGED <<svc, process, built, server, group, returned, request,
                 signalled>>

ShutdownEnds ==
  /\ proc = "running"
  /\ Closer!End
  /\ UNCHANGED <<svc, process, built, server, group, returned, request,
                 signalled>>

MainFollowsRun ==
  /\ proc = "running" /\ returned # "no"
  /\ HasServer \/ phase = "over"
  /\ Exit(IF returned = "nil" THEN "ok" ELSE "failed")
  /\ UNCHANGED <<svc, built, server, group, returned, request, signalled,
                 closing>>

\* main waits for the shutdown, where there are signals to wait for; in iam it
\* returns with Run, in assembly and notification with Run and its Wait.
MainReturns ==
  /\ proc = "running"
  /\ CASE HasServer /\ svc # "iam" -> phase = "over" /\ Exit("ok")
       [] svc = "iam" -> returned = "nil" /\ Exit("ok")
       [] ~HasServer -> /\ phase = "over"
                        /\ Exit(IF returned = "nil" THEN "ok" ELSE "failed")
  /\ UNCHANGED <<svc, built, server, group, returned, request, signalled,
                 closing>>

-----------------------------------------------------------------------------
Next ==
  \/ InitFails \/ Build \/ Serve
  \/ Accept \/ Use \/ Respond
  \/ (\E g \in GroupsOf : Join(g) \/ Consume(g)) \/ BuildProducer
  \/ ServerFails \/ ServerReturns \/ RunEnds
  \/ Signal \/ StartClosing \/ StopAccepting
  \/ \E f \in Funcs : ClosingFunctionReturns(f)
  \/ DeadlinePasses \/ ShutdownEnds \/ MainReturns

Spec == Init /\ [][Next]_vars

\* The process's own goroutines go on and its timers fire.  Nothing is assumed
\* of requests or of what closing functions wait for, but for the groups and
\* the producer of the services that have nothing else to do.
Fairness ==
  /\ WF_vars(StartClosing) /\ WF_vars(ShutdownEnds) /\ WF_vars(MainReturns)
  /\ WF_vars(RunEnds) /\ WF_vars(DeadlinePasses)
  /\ \A f \in Groups \cup {Producer} :
       WF_vars(~HasServer /\ ClosingFunctionReturns(f))

FairSpec == Spec /\ Fairness

-----------------------------------------------------------------------------
(* Properties.                                                             *)

\* Every variable has its type.
TypeOK ==
  /\ svc \in Services
  /\ proc \in {"starting", "running", "exited"}
  /\ status \in {"none", "ok", "failed", "killed"}
  /\ (status = "none") = (proc # "exited")
  /\ built \in 0..Len(Deps)
  /\ server \in {"down", "accepting", "draining", "stopped"}
  /\ group \in [GroupsOf -> {"none", "consuming", "nil", "error"}]
  /\ returned \in {"no", "nil", "error"}
  /\ request \in [state : {"none", "working", "answered"}, needs : Seq(Funcs)]
  /\ signalled \in BOOLEAN
  /\ phase \in {"open", "closing", "over"} /\ taken \subseteq Funcs
  /\ run \in [Funcs -> {"unknown", "added", "running", "ended"}]
  /\ late \in BOOLEAN

\* A process that exits with status 0 has answered every request it accepted,
\* unless its time was up: whoever closes what first, and though Run may
\* return long before.  (An exit with another status cuts them short: also
\* that of inventory and payment when the listener is closed first.)
NothingCutShort == status = "ok" /\ ~late => request.state # "working"

\* Status 0 means that somebody asked the service to stop.  A consumer whose
\* group was closed ends without an error, but when that happens in assembly
\* or notification another one's error has ended Run already.
StopsForASignal == status = "ok" => signalled

\* Order, inventory and payment end after a signal, though requests, closing
\* functions and servers may hang: the deadline is enough.
SignalEndsProcess ==
  signalled /\ svc \in {"order", "inventory", "payment"} ~> proc = "exited"

\* Assembly and notification do not live on with a consumer less than they
\* should have: the end of any of them ends the process.
NoConsumerIsMissing ==
  ~HasServer /\ (\E g \in GroupsOf : group[g] \in {"nil", "error"})
    ~> proc = "exited"
=============================================================================

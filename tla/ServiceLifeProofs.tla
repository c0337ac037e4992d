-------------------------- MODULE ServiceLifeProofs --------------------------
(***************************************************************************)
(* What an exit with status 0 says, of any of the services and whatever    *)
(* fails, hangs or ends before its shutdown or during it.                  *)
(***************************************************************************)
EXTENDS ServiceLife, SequenceTheorems, TLAPS

\* Before the shutdown begins nothing is closed, and after it has begun with
\* time left it is over only when all it took has returned.
ShutdownInv ==
  /\ \A f \in Funcs : run[f] \in {"running", "ended"} => phase # "open"
  /\ phase = "over" /\ ~late => \A f \in taken : run[f] = "ended"

\* What initDeps has built is registered, and the shutdown of a process that
\* serves takes its server.
ServerInv ==
  HasServer =>
    /\ proc = "starting" => /\ \A i \in 1..built : run[Deps[i]] # "unknown"
                            /\ phase = "open"
    /\ proc = "running" => run[ServerOf] # "unknown"
    /\ phase # "open" => ServerOf \in taken /\ signalled

\* A server that is stopped has answered, unless time was up, and a server
\* that has returned accepts nothing.
RequestInv ==
  /\ server \in {"draining", "stopped"} => HasServer /\ phase # "open"
  /\ HasServer /\ run[ServerOf] = "ended" =>
       server = "stopped" /\ (request.state # "working" \/ late)
  /\ svc = "iam" /\ returned = "nil" =>
       server \in {"draining", "stopped"} /\ request.state # "working"
  /\ ~HasServer => server = "down" /\ request.state = "none"

\* A consumer that ended without an error ended in a shutdown that was under
\* way, so it is not the one that ended Run.
ConsumerInv ==
  ~HasServer =>
    /\ \A g \in GroupsOf : group[g] = "nil" => phase # "open"
    /\ returned # "nil"

IInv ==
  /\ TypeOK /\ ShutdownInv /\ ServerInv /\ RequestInv /\ ConsumerInv
  /\ NothingCutShort /\ StopsForASignal

-----------------------------------------------------------------------------
(* The tables of the services.                                             *)

(* The names are different closing functions.                              *)
LEMMA FuncsFacts ==
  /\ {HTTPServer, GRPCServer, Listener, Pool, Cache, Mongo, Inventory, Payment,
      Producer, Paid, Assembled} \subseteq Funcs
  /\ Groups = {Paid, Assembled}
BY DEF Funcs, Servers, Groups

(* A service that serves builds its server, and requests need only what     *)
(* there is.                                                               *)
LEMMA ServiceFacts ==
  ASSUME svc \in Services
  PROVE  /\ GroupsOf \subseteq Groups /\ Groups \subseteq Funcs
         /\ Deps \in Seq(Funcs)
         /\ HasServer => /\ ServerOf \in Funcs
                         /\ \E i \in 1..Len(Deps) : Deps[i] = ServerOf
                         /\ \A n \in Needs : n \in Seq(Funcs)
         /\ ~HasServer => Deps = <<>>
<1>1. svc \in {"order", "inventory", "payment", "iam", "assembly",
              "notification"}
  BY ServiceConstants
<1>2. GroupsOf \subseteq Groups /\ Groups \subseteq Funcs
  BY <1>1, FuncsFacts
     DEF GroupsOf, OrderGroups, AssemblyGroups, NotificationGroups
<1>3. CASE svc = "order"
  <2>1. Deps = <<Pool, Inventory, Payment, Producer, HTTPServer>>
    BY <1>3 DEF Deps, OrderDeps
  <2>2. Needs = {<<Inventory, Pool>>, <<Pool, Payment, Pool, Producer>>}
    BY <1>3 DEF Needs
  <2>3. ServerOf = HTTPServer /\ HasServer
    BY <1>3 DEF ServerOf, HasServer
  <2>4. Deps \in Seq(Funcs) /\ Len(Deps) = 5 /\ Deps[5] = HTTPServer
    BY <2>1, FuncsFacts
  <2>5. /\ <<Inventory, Pool>> \in Seq(Funcs)
        /\ <<Pool, Payment, Pool, Producer>> \in Seq(Funcs)
    BY FuncsFacts
  <2>6. ServerOf \in Funcs /\ \E i \in 1..Len(Deps) : Deps[i] = ServerOf
    BY <2>3, <2>4, FuncsFacts
  <2> QED BY <1>2, <2>2, <2>3, <2>4, <2>5, <2>6
<1>4. CASE svc = "inventory"
  <2>1. Deps = <<Listener, GRPCServer, Mongo>>
    BY <1>4 DEF Deps, InventoryDeps
  <2>2. Needs = {<<Mongo>>}
    BY <1>4 DEF Needs
  <2>3. ServerOf = GRPCServer /\ HasServer
    BY <1>4 DEF ServerOf, HasServer
  <2>4. Deps \in Seq(Funcs) /\ Len(Deps) = 3 /\ Deps[2] = GRPCServer
    BY <2>1, FuncsFacts
  <2>5. <<Mongo>> \in Seq(Funcs)
    BY FuncsFacts
  <2>6. ServerOf \in Funcs /\ \E i \in 1..Len(Deps) : Deps[i] = ServerOf
    BY <2>3, <2>4, FuncsFacts
  <2> QED BY <1>2, <2>2, <2>3, <2>4, <2>5, <2>6
<1>5. CASE svc = "payment"
  <2>1. Deps = <<Listener, GRPCServer>>
    BY <1>5 DEF Deps, PaymentDeps
  <2>2. Needs = {<<>>}
    BY <1>5 DEF Needs
  <2>3. ServerOf = GRPCServer /\ HasServer
    BY <1>5 DEF ServerOf, HasServer
  <2>4. Deps \in Seq(Funcs) /\ Len(Deps) = 2 /\ Deps[2] = GRPCServer
    BY <2>1, FuncsFacts
  <2>6. ServerOf \in Funcs /\ \E i \in 1..Len(Deps) : Deps[i] = ServerOf
    BY <2>3, <2>4, FuncsFacts
  <2> QED BY <1>2, <2>2, <2>3, <2>4, <2>6
<1>6. CASE svc = "iam"
  <2>1. Deps = <<Cache, Pool, GRPCServer>>
    BY <1>6 DEF Deps, IAMDeps
  <2>2. Needs = {<<Cache, Pool>>}
    BY <1>6 DEF Needs
  <2>3. ServerOf = GRPCServer /\ HasServer
    BY <1>6 DEF ServerOf, HasServer
  <2>4. Deps \in Seq(Funcs) /\ Len(Deps) = 3 /\ Deps[3] = GRPCServer
    BY <2>1, FuncsFacts
  <2>5. <<Cache, Pool>> \in Seq(Funcs)
    BY FuncsFacts
  <2>6. ServerOf \in Funcs /\ \E i \in 1..Len(Deps) : Deps[i] = ServerOf
    BY <2>3, <2>4, FuncsFacts
  <2> QED BY <1>2, <2>2, <2>3, <2>4, <2>5, <2>6
<1>7. CASE svc \in {"assembly", "notification"}
  <2>1. Deps = <<>> /\ ~HasServer
    BY <1>7 DEF Deps, HasServer
  <2> QED BY <1>2, <2>1
<1> QED BY <1>1, <1>3, <1>4, <1>5, <1>6, <1>7

(* The tables depend on the service only, and no step changes that.         *)
LEMMA SameService ==
  ASSUME svc' = svc
  PROVE  /\ GroupsOf' = GroupsOf /\ Deps' = Deps
         /\ HasServer' = HasServer /\ ServerOf' = ServerOf
BY DEF GroupsOf, Deps, HasServer, ServerOf

-----------------------------------------------------------------------------
(* What each step preserves.                                               *)

(* A process that ends while it starts does not end with status 0.         *)
LEMMA InitFailsPreserves ==
  ASSUME IInv, InitFails
  PROVE  IInv'
<1> USE DEF IInv, InitFails, Exit, process, closing
<1>1. TypeOK'
  BY SameService DEF TypeOK
<1>2. ShutdownInv' /\ NothingCutShort' /\ StopsForASignal'
  BY DEF ShutdownInv, NothingCutShort, StopsForASignal
<1>3. ServerInv' /\ RequestInv' /\ ConsumerInv'
  BY DEF ServerInv, HasServer, RequestInv, ServerOf, ConsumerInv, GroupsOf
<1> QED BY <1>1, <1>2, <1>3

(* What is built is registered.                                            *)
LEMMA BuildRegisters ==
  ASSUME IInv, Build
  PROVE  TypeOK' /\ ServerInv'
<1>1. /\ svc' = svc /\ svc \in Services /\ built \in 0..Len(Deps)
      /\ built < Len(Deps) /\ built' = built + 1 /\ proc' = proc
  BY DEF IInv, TypeOK, Build, process
<1>2. Deps \in Seq(Funcs) /\ Len(Deps) \in Nat
  BY <1>1, ServiceFacts
<1>3. built' \in 0..Len(Deps) /\ built + 1 \in 1..Len(Deps)
  BY <1>1, <1>2
<1>4. PICK f \in Funcs : f = Deps[built + 1]
  BY <1>2, <1>3
<1>5. run' = [run EXCEPT ![f] = "added"] /\ UNCHANGED <<phase, taken, late>>
  BY <1>4 DEF Build, Closer!Register
<1>6. TypeOK'
  BY <1>1, <1>3, <1>5, SameService DEF IInv, TypeOK, Build, process
<1>7. \A d \in Funcs : run[d] # "unknown" => run'[d] # "unknown"
  BY <1>5 DEF IInv, TypeOK
<1>8. ASSUME HasServer, NEW i \in 1..built'
      PROVE  run'[Deps[i]] # "unknown"
  <2>1. CASE i = built + 1
    BY <1>4, <1>5, <2>1 DEF IInv, TypeOK
  <2>2. CASE i # built + 1
    <3>1. i \in 1..built /\ Deps[i] \in Funcs
      BY <1>1, <1>2, <2>2
    <3> QED BY <1>7, <1>8, <3>1 DEF IInv, ServerInv, Build
  <2> QED BY <2>1, <2>2
<1>9. ServerInv'
  BY <1>1, <1>5, <1>8, SameService DEF IInv, ServerInv, Build
<1> QED BY <1>6, <1>9

(* Nothing else depends on what is built.                                  *)
LEMMA BuildPreserves ==
  ASSUME IInv, Build
  PROVE  IInv'
<1> USE DEF IInv, Build, Closer!Register, process, closing
<1>1. ShutdownInv' /\ NothingCutShort' /\ StopsForASignal'
  BY DEF ShutdownInv, NothingCutShort, StopsForASignal
<1>2. RequestInv'
  BY DEF RequestInv, HasServer, ServerOf
<1>3. ConsumerInv'
  BY DEF ConsumerInv, HasServer, GroupsOf
<1> QED BY <1>1, <1>2, <1>3, BuildRegisters

(* The server is among what was built.                                     *)
LEMMA ServeHasServer ==
  ASSUME IInv, Serve
  PROVE  ServerInv'
<1>1. /\ svc' = svc /\ svc \in Services /\ built = Len(Deps)
      /\ proc = "starting" /\ proc' = "running"
      /\ UNCHANGED <<run, phase, taken, signalled>>
  BY DEF IInv, TypeOK, Serve, closing
<1>2. ASSUME HasServer
      PROVE  run[ServerOf] # "unknown" /\ phase = "open"
  BY <1>1, <1>2, ServiceFacts DEF IInv, ServerInv
<1> QED BY <1>1, <1>2, SameService DEF ServerInv

(* Nobody has asked for anything yet.                                      *)
LEMMA ServePreserves ==
  ASSUME IInv, Serve
  PROVE  IInv'
<1> USE DEF IInv, Serve, process, closing
<1>1. TypeOK'
  BY SameService DEF TypeOK
<1>2. ShutdownInv' /\ NothingCutShort' /\ StopsForASignal'
  BY DEF ShutdownInv, NothingCutShort, StopsForASignal
<1>3. RequestInv'
  BY DEF RequestInv, HasServer, ServerOf, ServerInv
<1>4. ConsumerInv'
  BY DEF ConsumerInv, HasServer, GroupsOf
<1> QED BY <1>1, <1>2, <1>3, <1>4, ServeHasServer

(* What a request needs are closing functions of its service.              *)
LEMMA AcceptHasNeeds ==
  ASSUME IInv, Accept
  PROVE  TypeOK'
<1>1. svc' = svc /\ svc \in Services /\ HasServer
  BY DEF IInv, TypeOK, RequestInv, Accept
<1>2. PICK n \in Needs : request' = [state |-> "working", needs |-> n]
  BY DEF Accept
<1>3. n \in Seq(Funcs)
  BY <1>1, ServiceFacts
<1> QED BY <1>1, <1>2, <1>3, SameService
        DEF IInv, TypeOK, Accept, process, closing

(* A server that accepts is neither draining nor stopped.                  *)
LEMMA AcceptPreserves ==
  ASSUME IInv, Accept
  PROVE  IInv'
<1> USE DEF IInv, Accept, process, closing
<1>1. ShutdownInv' /\ StopsForASignal'
  BY DEF ShutdownInv, StopsForASignal
<1>2. ServerInv' /\ RequestInv' /\ ConsumerInv'
  BY DEF ServerInv, HasServer, ServerOf, RequestInv, ConsumerInv, GroupsOf
<1>3. NothingCutShort'
  BY DEF NothingCutShort, TypeOK
<1> QED BY <1>1, <1>2, <1>3, AcceptHasNeeds

(* Of what it needs the request keeps the rest.                            *)
LEMMA UseTakesNext ==
  ASSUME IInv, Use
  PROVE  TypeOK'
<1>1. /\ request \in
           [state : {"none", "working", "answered"}, needs : Seq(Funcs)]
      /\ request.needs # <<>>
  BY DEF IInv, TypeOK, Use
<1>2. Tail(request.needs) \in Seq(Funcs) /\ <<>> \in Seq(Funcs)
  BY <1>1
<1>3. request' \in
        [state : {"none", "working", "answered"}, needs : Seq(Funcs)]
  <2>1. CASE request' = [request EXCEPT !.needs = Tail(@)]
    BY <1>1, <1>2, <2>1
  <2>2. CASE request' = [state |-> "answered", needs |-> <<>>]
    BY <1>2, <2>2
  <2> QED BY <2>1, <2>2 DEF Use
<1>4. svc' = svc /\ UNCHANGED <<process, built, server, group, returned,
                                signalled, closing>>
  BY DEF Use
<1> QED BY <1>3, <1>4, SameService DEF IInv, TypeOK, process, closing

(* A request that goes on changes nothing but itself.                      *)
LEMMA UsePreserves ==
  ASSUME IInv, Use
  PROVE  IInv'
<1> USE DEF IInv, Use, process, closing
<1>1. ShutdownInv' /\ NothingCutShort' /\ StopsForASignal'
  BY DEF ShutdownInv, NothingCutShort, StopsForASignal
<1>2. ServerInv' /\ RequestInv' /\ ConsumerInv'
  BY DEF ServerInv, HasServer, ServerOf, RequestInv, ConsumerInv, GroupsOf
<1> QED BY <1>1, <1>2, UseTakesNext

(* Nor does one that ends.                                                 *)
LEMMA RespondPreserves ==
  ASSUME IInv, Respond
  PROVE  IInv'
<1> USE DEF IInv, Respond, process, closing
<1>1. TypeOK'
  BY SameService DEF TypeOK
<1>2. ShutdownInv' /\ NothingCutShort' /\ StopsForASignal'
  BY DEF ShutdownInv, NothingCutShort, StopsForASignal
<1>3. ServerInv' /\ RequestInv' /\ ConsumerInv'
  BY DEF ServerInv, HasServer, ServerOf, RequestInv, ConsumerInv, GroupsOf
<1> QED BY <1>1, <1>2, <1>3

(* A group is registered once its consumer starts, which a service that    *)
(* serves is free to do late.                                              *)
LEMMA JoinPreserves ==
  ASSUME IInv, NEW g \in GroupsOf, Join(g)
  PROVE  IInv'
<1> USE DEF IInv, Join, Exit, Closer!Register, process, closing
<1>1. TypeOK'
  BY SameService DEF TypeOK
<1>2. ShutdownInv'
  BY DEF ShutdownInv, TypeOK
<1>3. ServerInv'
  BY ServiceFacts DEF ServerInv, HasServer, ServerOf, TypeOK
<1>4. RequestInv'
  BY ServiceFacts DEF RequestInv, HasServer, ServerOf, TypeOK
<1>5. ConsumerInv'
  BY DEF ConsumerInv, TypeOK, HasServer, GroupsOf
<1>6. NothingCutShort' /\ StopsForASignal'
  BY DEF NothingCutShort, StopsForASignal
<1> QED BY <1>1, <1>2, <1>3, <1>4, <1>5, <1>6

(* Consume returns nil only if the group is being closed, which is after the*)
(* shutdown has begun.                                                     *)
LEMMA ConsumeEndsInShutdown ==
  ASSUME IInv, NEW g \in GroupsOf, Consume(g)
  PROVE  ConsumerInv'
<1>1. g \in Funcs /\ svc' = svc /\ UNCHANGED <<phase, run, returned>>
  BY ServiceFacts DEF IInv, TypeOK, Consume, closing
<1>2. ASSUME group'[g] = "nil"
      PROVE  phase # "open"
  BY <1>1, <1>2 DEF IInv, TypeOK, ShutdownInv, Consume
<1>3. \A h \in GroupsOf : h # g => group'[h] = group[h]
  BY DEF IInv, TypeOK, Consume
<1> QED BY <1>1, <1>2, <1>3, SameService DEF IInv, ConsumerInv

(* The end of a consumer concerns services without a server, or none.      *)
LEMMA ConsumePreserves ==
  ASSUME IInv, NEW g \in GroupsOf, Consume(g)
  PROVE  IInv'
<1> USE DEF IInv, Consume, process, closing
<1>1. TypeOK'
  BY SameService DEF TypeOK
<1>2. ShutdownInv' /\ NothingCutShort' /\ StopsForASignal'
  BY DEF ShutdownInv, NothingCutShort, StopsForASignal
<1>3. ServerInv' /\ RequestInv'
  BY DEF ServerInv, HasServer, ServerOf, RequestInv
<1> QED BY <1>1, <1>2, <1>3, ConsumeEndsInShutdown

(* Only assembly builds a producer, and it has no server.                  *)
LEMMA BuildProducerPreserves ==
  ASSUME IInv, BuildProducer
  PROVE  IInv'
<1> USE DEF IInv, BuildProducer, Exit, Closer!Register, process, closing
<1>1. TypeOK'
  BY SameService DEF TypeOK
<1>2. ShutdownInv'
  BY DEF ShutdownInv, TypeOK
<1>3. ServerInv' /\ RequestInv' /\ ConsumerInv'
  BY DEF ServerInv, HasServer, RequestInv, ConsumerInv, GroupsOf
<1>4. NothingCutShort' /\ StopsForASignal'
  BY DEF NothingCutShort, StopsForASignal
<1> QED BY <1>1, <1>2, <1>3, <1>4

(* A server that fails ends the process with an error.                     *)
LEMMA ServerFailsPreserves ==
  ASSUME IInv, ServerFails
  PROVE  IInv'
<1> USE DEF IInv, ServerFails, Exit, process, closing
<1>1. TypeOK'
  BY SameService DEF TypeOK
<1>2. ShutdownInv' /\ NothingCutShort' /\ StopsForASignal'
  BY DEF ShutdownInv, NothingCutShort, StopsForASignal
<1>3. ServerInv' /\ RequestInv' /\ ConsumerInv'
  BY DEF ServerInv, HasServer, ServerOf, RequestInv, ConsumerInv, GroupsOf
<1> QED BY <1>1, <1>2, <1>3

(* The server returns when it drains, iam's after its last answer.         *)
LEMMA ServerReturnsPreserves ==
  ASSUME IInv, ServerReturns
  PROVE  IInv'
<1> USE DEF IInv, ServerReturns, process, closing
<1>1. TypeOK'
  BY SameService DEF TypeOK
<1>2. ShutdownInv' /\ NothingCutShort' /\ StopsForASignal'
  BY DEF ShutdownInv, NothingCutShort, StopsForASignal
<1>3. ServerInv' /\ RequestInv' /\ ConsumerInv'
  BY DEF ServerInv, ServerOf, RequestInv, HasServer, ConsumerInv
<1> QED BY <1>1, <1>2, <1>3

(* The consumer that ends Run does so before the shutdown, so with an error.*)
LEMMA RunEndsPreserves ==
  ASSUME IInv, RunEnds
  PROVE  IInv'
<1> USE DEF IInv, RunEnds, Closer!Begin, process, closing
<1>1. TypeOK'
  BY SameService DEF TypeOK
<1>2. ShutdownInv' /\ ConsumerInv' /\ StopsForASignal'
  BY DEF ShutdownInv, ConsumerInv, StopsForASignal
<1>3. ServerInv' /\ RequestInv'
  BY DEF ServerInv, HasServer, RequestInv
<1>4. NothingCutShort'
  BY DEF NothingCutShort, TypeOK
<1> QED BY <1>1, <1>2, <1>3, <1>4

(* A signal to a process that serves takes the server with the rest.       *)
LEMMA SignalTakesServer ==
  ASSUME IInv, Signal
  PROVE  ServerInv'
<1>1. svc' = svc /\ svc \in Services /\ signalled' /\ proc # "exited"
  BY DEF IInv, TypeOK, Signal
<1>2. CASE Exit("killed") /\ UNCHANGED closing
  BY <1>1, <1>2, SameService DEF IInv, ServerInv, Exit, closing
<1>3. CASE proc = "running" /\ Closer!Begin /\ UNCHANGED process
  <2>1. ASSUME HasServer
        PROVE  ServerOf \in taken'
    <3>1. ServerOf \in Funcs /\ run[ServerOf] # "unknown"
      BY <1>1, <1>3, <2>1, ServiceFacts DEF IInv, ServerInv
    <3>2. run[ServerOf] = "added"
      BY <1>3, <3>1 DEF IInv, TypeOK, ShutdownInv, Closer!Begin
    <3> QED BY <1>3, <3>1, <3>2 DEF Closer!Begin
  <2> QED BY <1>1, <1>3, <2>1, SameService
          DEF IInv, ServerInv, Closer!Begin, process
<1> QED BY <1>2, <1>3 DEF Signal

(* A signal begins the shutdown or kills.                                  *)
LEMMA SignalPreserves ==
  ASSUME IInv, Signal
  PROVE  IInv'
<1> USE DEF IInv, Signal, Exit, Closer!Begin, process, closing
<1>1. TypeOK'
  BY SameService DEF TypeOK
<1>2. ShutdownInv' /\ StopsForASignal'
  BY DEF ShutdownInv, StopsForASignal
<1>3. RequestInv' /\ ConsumerInv'
  BY DEF RequestInv, HasServer, ServerOf, ConsumerInv, GroupsOf
<1>4. NothingCutShort'
  BY DEF NothingCutShort, TypeOK
<1> QED BY <1>1, <1>2, <1>3, <1>4, SignalTakesServer

(* What is started was taken, so the shutdown has begun.                   *)
LEMMA StartClosingPreserves ==
  ASSUME IInv, StartClosing
  PROVE  IInv'
<1> USE DEF IInv, StartClosing, Closer!Start, process, closing
<1>1. TypeOK'
  BY SameService DEF TypeOK
<1>2. ShutdownInv' /\ NothingCutShort' /\ StopsForASignal'
  BY DEF ShutdownInv, NothingCutShort, StopsForASignal
<1>3. ServerInv' /\ RequestInv' /\ ConsumerInv'
  BY DEF ServerInv, HasServer, ServerOf, RequestInv, ConsumerInv
<1> QED BY <1>1, <1>2, <1>3

(* A server that drains is being closed.                                   *)
LEMMA StopAcceptingPreserves ==
  ASSUME IInv, StopAccepting
  PROVE  IInv'
<1> USE DEF IInv, StopAccepting, process, closing
<1>1. TypeOK'
  BY SameService DEF TypeOK
<1>2. ShutdownInv' /\ NothingCutShort' /\ StopsForASignal'
  BY DEF ShutdownInv, NothingCutShort, StopsForASignal
<1>3. ServerInv' /\ ConsumerInv'
  BY DEF ServerInv, HasServer, ServerOf, ConsumerInv, GroupsOf
<1>4. RequestInv'
  BY ServiceFacts DEF RequestInv, HasServer, ServerOf, TypeOK, ShutdownInv
<1> QED BY <1>1, <1>2, <1>3, <1>4

(* The server's closing function returns when the server has answered, or at*)
(* the deadline.                                                           *)
LEMMA ReturnPreserves ==
  ASSUME IInv, NEW f \in Funcs, ClosingFunctionReturns(f)
  PROVE  IInv'
<1> USE DEF IInv, ClosingFunctionReturns, Closer!Return, process, closing
<1>1. TypeOK'
  BY SameService DEF TypeOK
<1>2. ShutdownInv' /\ NothingCutShort' /\ StopsForASignal'
  BY DEF ShutdownInv, NothingCutShort, StopsForASignal
<1>3. ServerInv'
  BY DEF ServerInv, HasServer, ServerOf
<1>4. RequestInv'
  BY DEF RequestInv, Servers, HasServer, ServerOf
<1>5. ConsumerInv'
  BY DEF ConsumerInv, HasServer, GroupsOf
<1> QED BY <1>1, <1>2, <1>3, <1>4, <1>5

(* Whoever is late may leave requests behind.                              *)
LEMMA DeadlinePreserves ==
  ASSUME IInv, DeadlinePasses
  PROVE  IInv'
<1> USE DEF IInv, DeadlinePasses, Closer!Expire, process, closing
<1>1. TypeOK'
  BY SameService DEF TypeOK
<1>2. ShutdownInv' /\ NothingCutShort' /\ StopsForASignal'
  BY DEF ShutdownInv, NothingCutShort, StopsForASignal
<1>3. ServerInv' /\ RequestInv' /\ ConsumerInv'
  BY DEF ServerInv, HasServer, ServerOf, RequestInv, ConsumerInv
<1> QED BY <1>1, <1>2, <1>3

(* The shutdown is over when all has returned, or late.                    *)
LEMMA ShutdownEndsPreserves ==
  ASSUME IInv, ShutdownEnds
  PROVE  IInv'
<1> USE DEF IInv, ShutdownEnds, Closer!End, process, closing
<1>1. TypeOK'
  BY SameService DEF TypeOK
<1>2. ShutdownInv' /\ NothingCutShort' /\ StopsForASignal'
  BY DEF ShutdownInv, NothingCutShort, StopsForASignal
<1>3. ServerInv' /\ RequestInv' /\ ConsumerInv'
  BY DEF ServerInv, HasServer, ServerOf, RequestInv, ConsumerInv
<1> QED BY <1>1, <1>2, <1>3

(* Where the four parts of the invariant meet: main returns when the shutdown*)
(* is over, and then the server was taken, has returned and has answered.  *)
LEMMA MainReturnsPreserves ==
  ASSUME IInv, MainReturns
  PROVE  IInv'
<1> USE DEF IInv, MainReturns, Exit, process, closing
<1>1. TypeOK'
  BY SameService DEF TypeOK
<1>2. ShutdownInv'
  BY DEF ShutdownInv
<1>3. ServerInv' /\ RequestInv' /\ ConsumerInv'
  BY DEF ServerInv, HasServer, ServerOf, RequestInv, ConsumerInv
<1>4. NothingCutShort'
  BY DEF NothingCutShort, ShutdownInv, ServerInv, RequestInv
<1>5. StopsForASignal'
  BY DEF StopsForASignal, ServerInv, RequestInv, ConsumerInv
<1> QED BY <1>1, <1>2, <1>3, <1>4, <1>5

-----------------------------------------------------------------------------
(* The theorems.                                                           *)

(* At first nothing is built, nobody asks and nothing is closed.           *)
LEMMA InitIInv ==
  ASSUME Init
  PROVE  IInv
<1> USE DEF Init, Closer!Init
<1>1. Deps \in Seq(Funcs) /\ Len(Deps) \in Nat
  BY ServiceFacts
<1>2. request \in [state : {"none", "working", "answered"}, needs : Seq(Funcs)]
  <2>1. <<>> \in Seq(Funcs)
    OBVIOUS
  <2> QED BY <2>1
<1>3. /\ run \in [Funcs -> {"unknown", "added", "running", "ended"}]
      /\ phase \in {"open", "closing", "over"} /\ taken \subseteq Funcs
      /\ late \in BOOLEAN
  OBVIOUS
<1>4. TypeOK
  <2>1. built \in 0..Len(Deps)
    BY <1>1
  <2>2. group \in [GroupsOf -> {"none", "consuming", "nil", "error"}]
    OBVIOUS
  <2>3. (status = "none") = (proc # "exited")
    OBVIOUS
  <2> QED BY <1>2, <1>3, <2>1, <2>2, <2>3 DEF TypeOK
<1>5. ShutdownInv /\ ServerInv
  BY DEF ShutdownInv, ServerInv
<1>6. RequestInv
  BY ServiceFacts DEF RequestInv
<1>7. ConsumerInv
  BY DEF ConsumerInv
<1>8. NothingCutShort /\ StopsForASignal
  BY DEF NothingCutShort, StopsForASignal
<1> QED BY <1>4, <1>5, <1>6, <1>7, <1>8 DEF IInv

(* The inductive invariant always holds.                                   *)
THEOREM Invariance == Spec => []IInv
<1>1. Init => IInv
  BY InitIInv
<1>2. IInv /\ [Next]_vars => IInv'
  <2>1. ASSUME IInv, Next
        PROVE  IInv'
    BY <2>1, InitFailsPreserves, BuildPreserves, ServePreserves,
       AcceptPreserves, UsePreserves, RespondPreserves, JoinPreserves,
       ConsumePreserves, BuildProducerPreserves, ServerFailsPreserves,
       ServerReturnsPreserves, RunEndsPreserves, SignalPreserves,
       StartClosingPreserves, StopAcceptingPreserves, ReturnPreserves,
       DeadlinePreserves, ShutdownEndsPreserves, MainReturnsPreserves
    DEF Next
  <2>2. ASSUME IInv, UNCHANGED vars
        PROVE  IInv'
    <3> USE <2>2 DEF IInv, vars, process, closing
    <3>1. TypeOK'
      BY SameService DEF TypeOK
    <3>2. ShutdownInv' /\ NothingCutShort' /\ StopsForASignal'
      BY DEF ShutdownInv, NothingCutShort, StopsForASignal
    <3>3. ServerInv' /\ RequestInv' /\ ConsumerInv'
      BY SameService DEF ServerInv, RequestInv, ConsumerInv
    <3> QED BY <3>1, <3>2, <3>3
  <2> QED BY <2>1, <2>2
<1> QED BY <1>1, <1>2, PTL DEF Spec

(* Every variable always has its type.                                     *)
THEOREM TypeCorrect == Spec => []TypeOK
<1>1. IInv => TypeOK
  BY DEF IInv
<1> QED BY <1>1, Invariance, PTL

(* A process that exits with status 0 has answered what it accepted, unless *)
(* its time was up.                                                        *)
THEOREM ExitsCleanly == Spec => []NothingCutShort
<1>1. IInv => NothingCutShort
  BY DEF IInv
<1> QED BY <1>1, Invariance, PTL

(* A process exits with status 0 only when it was asked to stop.           *)
THEOREM StopsOnlyForSignal == Spec => []StopsForASignal
<1>1. IInv => StopsForASignal
  BY DEF IInv
<1> QED BY <1>1, Invariance, PTL
=============================================================================

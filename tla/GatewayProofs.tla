---------------------------- MODULE GatewayProofs ----------------------------
(***************************************************************************)
(* In whose name a request that passed Envoy is served, and what an order  *)
(* that is placed consists of: whatever sessions there are, whatever       *)
(* fails, and whoever changes the parts in the meantime.                   *)
(***************************************************************************)
EXTENDS Gateway, InventoryProofs

Stages ==
  {"idle", "check", "route", "order", "create", "inventory", "answered"}

Requests ==
  [route : Routes \cup {Direct}, header : Sessions \cup {NoSession},
   cookie : Sessions \cup {NoSession}, metadata : Sessions \cup {NoSession},
   parts : Seq(PartUUIDs)]

\* What is bought was on offer, and what comes by hand does not pass Envoy.
Typed ==
  /\ alive \subseteq Sessions
  /\ stage \in Stages
  /\ request \in Requests /\ session \in Sessions \cup {NoSession}
  /\ request.route = Direct => stage \in {"inventory", "answered"}
  /\ bought \in Seq(offered)

\* Between two requests nothing is left of the last one.
Forgotten ==
  stage = "idle" =>
    /\ request = NoRequest /\ session = NoSession /\ bought = <<>>
    /\ response = NoResponse /\ vouched = NoSession

\* Until the order service looks at the headers nobody has taken a session
\* from them; then the one that is left is the one IAM was asked for.
Admitted ==
  request.route \in Protected =>
    /\ stage \in {"check", "route", "order"} => session = NoSession
    /\ stage \in {"route", "order"} => request.header \in {NoSession, vouched}

\* The parts are bought in the order of the request, from what is on offer
\* now, and all of them before the order is placed.
BoughtInOrder ==
  /\ Len(bought) <= Len(request.parts)
  /\ \A i \in 1..Len(bought) : bought[i].uuid = request.parts[i]
  /\ stage # "idle" => OnOffer(documents) \subseteq offered
  /\ response = [by |-> "order", status |-> 201] =>
       Len(bought) = Len(request.parts) /\ request.parts # <<>>

GInv ==
  Typed /\ Forgotten /\ Admitted /\ BoughtInOrder /\ ServedAsWhoWasAdmitted

-----------------------------------------------------------------------------
(* The beginning and the end of a request.                                 *)

(* Between two requests there is a request that asks for nothing, and an   *)
(* answer that places no order.                                            *)
LEMMA NothingAsked ==
  /\ NoRequest \in Requests
  /\ NoRequest.parts = <<>> /\ NoRequest.route \notin Protected
  /\ NoRequest.route # Direct /\ Direct \notin Routes
  /\ NoResponse # [by |-> "order", status |-> 201]
  /\ NoResponse.by \notin {"order", "inventory"}
<1>1. NoRequest \in Requests
  <2>1. <<>> \in Seq(PartUUIDs)
    OBVIOUS
  <2>2. "/healthz" \in Routes
    BY DEF Routes
  <2> QED BY <2>1, <2>2 DEF NoRequest, Requests
<1>2. NoResponse # [by |-> "order", status |-> 201]
  <2>1. NoResponse.by # "order"
    BY DEF NoResponse
  <2> QED BY <2>1
<1> QED BY <1>1, <1>2 DEF NoRequest, NoResponse, Protected, Routes,
   Direct

(* At first there is no request.                                           *)
LEMMA InitGInv ==
  ASSUME Init
  PROVE  GInv
<1> USE NothingAsked DEF Init
<1>1. Typed
  BY DEF Typed, Stages
<1>2. Forgotten /\ Admitted /\ ServedAsWhoWasAdmitted
  BY DEF Forgotten, Admitted, ServedAsWhoWasAdmitted
<1>3. BoughtInOrder
  BY DEF BoughtInOrder
<1> QED BY <1>1, <1>2, <1>3 DEF GInv

(* A request arrives with nothing but what its client sent.                *)
LEMMA ArriveKeeps ==
  ASSUME GInv, Arrive
  PROVE  GInv'
<1>1. PICK r \in Routes, h \in Sessions \cup {NoSession},
           c \in Sessions \cup {NoSession}, m \in Sessions \cup {NoSession},
           l \in PartLists :
        request' = [route |-> r, header |-> h, cookie |-> c, metadata |-> m,
                    parts |-> l]
  BY DEF Arrive
<1>2. stage' \in {"check", "route"} /\ request'.route = r
  BY <1>1 DEF Arrive
<1>3. r \in {"/healthz", "/auth/"} \/ stage' = "check"
  BY <1>1 DEF Arrive
<1>4. /\ bought = <<>> /\ bought' = <<>> /\ session' = NoSession
      /\ response' = NoResponse
      /\ documents' = documents /\ alive' = alive
      /\ offered' = OnOffer(documents)
  BY DEF GInv, Forgotten, Arrive, inventory
<1>5. Typed'
  BY <1>1, <1>2, <1>4, NothingAsked, GatewayConstants
     DEF GInv, Typed, Stages, Requests
<1>6. Forgotten' /\ Admitted' /\ ServedAsWhoWasAdmitted'
  BY <1>2, <1>3, <1>4
     DEF Forgotten, Admitted, ServedAsWhoWasAdmitted, Protected, NoResponse
<1>7. BoughtInOrder'
  <2>1. request'.parts = l /\ l \in Seq(PartUUIDs)
    BY <1>1, GatewayConstants
  <2> QED BY <1>4, <2>1, NothingAsked DEF BoughtInOrder, OnOffer
<1> QED BY <1>5, <1>6, <1>7 DEF GInv

(* A call by hand takes no protected route.                                *)
LEMMA DialKeeps ==
  ASSUME GInv, Dial
  PROVE  GInv'
<1>1. PICK s \in Sessions \cup {NoSession} :
        /\ request' = [route |-> Direct, header |-> NoSession,
                       cookie |-> NoSession, metadata |-> s, parts |-> <<>>]
        /\ session' = s
  BY DEF Dial, NoRequest
<1>2. /\ bought = <<>> /\ bought' = <<>> /\ response' = NoResponse
      /\ documents' = documents /\ alive' = alive /\ stage' = "inventory"
      /\ offered' = OnOffer(documents)
  BY DEF GInv, Forgotten, Dial, inventory
<1>3. request'.route \notin Protected
  BY <1>1 DEF Protected, Routes, Direct
<1>4. Typed'
  <2>1. request' \in Requests
    BY <1>1 DEF Requests
  <2> QED BY <1>1, <1>2, <2>1 DEF GInv, Typed, Stages
<1>5. Forgotten' /\ Admitted' /\ ServedAsWhoWasAdmitted'
  BY <1>2, <1>3 DEF Forgotten, Admitted, ServedAsWhoWasAdmitted
<1>6. BoughtInOrder'
  BY <1>1, <1>2, NothingAsked DEF BoughtInOrder, OnOffer
<1> QED BY <1>4, <1>5, <1>6 DEF GInv

(* All is forgotten before the next request.                               *)
LEMMA ResetKeeps ==
  ASSUME GInv, Reset
  PROVE  GInv'
<1>1. /\ stage' = "idle" /\ request' = NoRequest /\ session' = NoSession
      /\ bought' = <<>> /\ response' = NoResponse /\ vouched' = NoSession
      /\ alive' = alive
  BY DEF Reset
<1>2. Typed'
  BY <1>1, NothingAsked DEF GInv, Typed, Stages, Requests
<1>3. Forgotten' /\ Admitted' /\ ServedAsWhoWasAdmitted'
  BY <1>1, NothingAsked
     DEF Forgotten, Admitted, ServedAsWhoWasAdmitted, NoRequest
<1>4. BoughtInOrder'
  BY <1>1, NothingAsked DEF BoughtInOrder
<1> QED BY <1>2, <1>3, <1>4 DEF GInv

-----------------------------------------------------------------------------
(* On its way.                                                             *)

(* A session that is alive is one; ext_authz looks at the header first, so *)
(* the header that is left names the session it asked for, or none.        *)
LEMMA CheckKeeps ==
  ASSUME GInv, Check
  PROVE  GInv'
<1> DEFINE s == ExtractSessionUUID(request.header, request.cookie)
<1>1. /\ stage = "check" /\ stage' \in {"route", "answered"}
      /\ session' = session /\ bought' = bought
      /\ documents' = documents /\ alive' = alive /\ offered' = offered
      /\ request'.parts = request.parts /\ request'.route = request.route
      /\ request' \in Requests
      /\ response' # response => response'.by = "ext_authz"
      /\ response'.by = "ext_authz" \/ response' = response
  BY DEF GInv, Typed, Requests, Check, Reply, Quiet, inventory
<1>2. Typed' /\ Forgotten'
  BY <1>1 DEF GInv, Typed, Stages, Forgotten
<1>3. Admitted'
  <2>1. CASE s \in alive /\ vouched' = s
             /\ request' = [request EXCEPT !.cookie = NoSession]
    <3>1. request'.header = request.header
      BY <2>1 DEF GInv, Typed, Requests
    <3>2. request.header \in {NoSession, s}
      BY DEF ExtractSessionUUID
    <3> QED BY <1>1, <2>1, <3>1, <3>2 DEF GInv, Admitted
  <2>2. CASE stage' = "answered"
    BY <2>2 DEF Admitted
  <2> QED BY <2>1, <2>2 DEF Check, Reply
<1>4. ServedAsWhoWasAdmitted'
  <2>1. vouched' \in Sessions \/ (stage' = "answered" /\ vouched' = vouched)
    BY DEF GInv, Typed, Check, Reply
  <2>2. vouched' # NoSession \/ (stage' = "answered" /\ vouched' = vouched)
    BY <2>1, GatewayConstants
  <2>3. request.route \in Protected => session = NoSession
    BY <1>1 DEF GInv, Admitted
  <2> QED BY <1>1, <2>2, <2>3 DEF GInv, ServedAsWhoWasAdmitted
<1>5. BoughtInOrder'
  BY <1>1 DEF GInv, BoughtInOrder, OnOffer
<1> QED BY <1>2, <1>3, <1>4, <1>5 DEF GInv

(* Where Envoy's route leads.                                              *)
LEMMA RoutedTo ==
  ASSUME GInv, RouteRequest
  PROVE  /\ stage = "route" /\ request.route \in Routes
         /\ UNCHANGED <<request, bought, vouched, documents, alive, offered>>
         /\ session' \in Sessions \cup {NoSession}
         /\ \/ stage' = "answered" /\ response'.by \in {"envoy", "iam"}
               /\ session' = session
            \/ /\ stage' = "inventory" /\ response' = response
               /\ request.route = "/api/v1/inventory/"
               /\ session' = request.metadata
            \/ /\ stage' = "order" /\ response' = response
               /\ request.route = "/api/v1/orders" /\ session' = session
<1> DEFINE r == request.route
<1>1. r \in Routes
  BY DEF GInv, Typed, Requests, RouteRequest, Direct
<1>2. /\ stage = "route"
      /\ UNCHANGED <<request, bought, vouched, documents, alive, offered>>
  BY DEF RouteRequest, Quiet, inventory
<1>3. CASE r = "/api/v1/inventory/"
  <2>1. stage' = "inventory" /\ response' = response
        /\ session' = request.metadata
    BY <1>3 DEF RouteRequest
  <2>2. request.metadata \in Sessions \cup {NoSession}
    BY DEF GInv, Typed, Requests
  <2> QED BY <1>1, <1>2, <1>3, <2>1, <2>2
<1>4. CASE r # "/api/v1/inventory/"
  <2>1. session' = session /\ session \in Sessions \cup {NoSession}
    BY <1>2, <1>4 DEF RouteRequest, GInv, Typed
  <2>2. CASE r = "/healthz"
    BY <1>1, <1>2, <2>1, <2>2 DEF RouteRequest, Reply
  <2>3. CASE r = "/"
    BY <1>1, <1>2, <2>1, <2>3 DEF RouteRequest, Reply
  <2>4. CASE r = "/auth/"
    BY <1>1, <1>2, <2>1, <2>4 DEF RouteRequest, Reply
  <2>5. CASE r = "/api/v1/orders"
    BY <1>1, <1>2, <2>1, <2>5 DEF RouteRequest
  <2> QED BY <1>1, <1>4, <2>2, <2>3, <2>4, <2>5 DEF Routes
<1> QED BY <1>3, <1>4

(* Neither what a request asks for nor who was vouched for depends on the  *)
(* cluster it goes to; only on the way to inventory is a session taken.    *)
LEMMA RouteKeeps ==
  ASSUME GInv, RouteRequest
  PROVE  GInv'
<1>1. /\ stage = "route" /\ request.route \in Routes
      /\ UNCHANGED <<request, bought, vouched, documents, alive, offered>>
      /\ session' \in Sessions \cup {NoSession}
  BY RoutedTo
<1>2. \/ stage' = "answered" /\ response'.by \in {"envoy", "iam"}
      \/ stage' \in {"inventory", "order"} /\ response' = response
  BY RoutedTo
<1>3. /\ stage' # "inventory" => session' = session
      /\ stage' = "inventory" => request.route = "/api/v1/inventory/"
  BY RoutedTo
<1>4. Typed' /\ Forgotten'
  BY <1>1, <1>2 DEF GInv, Typed, Stages, Forgotten
<1>5. Admitted' /\ ServedAsWhoWasAdmitted'
  <2>1. Admitted'
    BY <1>1, <1>2, <1>3 DEF GInv, Admitted
  <2>2. request.route = "/api/v1/orders" => session' = session
    BY <1>3
  <2> QED BY <1>1, <1>2, <2>1, <2>2 DEF GInv, ServedAsWhoWasAdmitted
<1>6. BoughtInOrder'
  <2>1. response' # [by |-> "order", status |-> 201] \/ response' = response
    BY <1>2
  <2> QED BY <1>1, <2>1 DEF GInv, BoughtInOrder, OnOffer
<1> QED BY <1>4, <1>5, <1>6 DEF GInv

(* The middleware takes the header that is left.                           *)
LEMMA OptionalAuthKeeps ==
  ASSUME GInv, OptionalAuth
  PROVE  GInv'
<1>1. /\ stage = "order" /\ stage' = "create" /\ session' = request.header
      /\ UNCHANGED <<request, bought, response, vouched, documents, alive,
                     offered>>
  BY DEF OptionalAuth, Quiet, inventory
<1>2. Typed' /\ Forgotten'
  BY <1>1 DEF GInv, Typed, Stages, Requests, Forgotten
<1>3. Admitted' /\ ServedAsWhoWasAdmitted'
  BY <1>1 DEF GInv, Admitted, ServedAsWhoWasAdmitted
<1>4. BoughtInOrder'
  BY <1>1 DEF GInv, BoughtInOrder, OnOffer
<1> QED BY <1>2, <1>3, <1>4 DEF GInv

(* What a service answers it answers to a request it was handed.           *)
LEMMA AnswerKeeps ==
  ASSUME GInv, stage \in {"create", "inventory"}, stage' = "answered",
         UNCHANGED <<request, session, bought, vouched, documents, alive,
                     offered>>,
         response' = [by |-> "order", status |-> 201] =>
           Len(bought) = Len(request.parts) /\ request.parts # <<>>
  PROVE  GInv'
<1>1. Typed' /\ Forgotten'
  BY DEF GInv, Typed, Stages, Forgotten
<1>2. Admitted' /\ ServedAsWhoWasAdmitted'
  BY DEF GInv, Admitted, ServedAsWhoWasAdmitted
<1>3. BoughtInOrder'
  BY DEF GInv, BoughtInOrder, OnOffer
<1> QED BY <1>1, <1>2, <1>3 DEF GInv

(* The part inventory returns is the one that was asked for, and as it is  *)
(* in stock it is on offer.                                                *)
LEMMA BuyPartKeeps ==
  ASSUME GInv, BuyPart
  PROVE  GInv'
<1>1. /\ stage = "create" /\ Len(bought) < Len(request.parts)
      /\ UNCHANGED <<request, session, vouched, documents, alive, offered>>
  BY DEF BuyPart, GetPart, inventory
<1>2. CASE Reply("order", 400) /\ UNCHANGED bought
  BY <1>1, <1>2, AnswerKeeps DEF Reply
<1>3. CASE /\ GetPart(NextPart)
           /\ LET got == reply'.mongo IN
              /\ got.code = "OK" /\ \A p \in got.parts : InStock(p)
              /\ \E p \in got.parts : bought' = Append(bought, p)
           /\ UNCHANGED <<stage, response>>
  <2>1. reply'.mongo = FindOne(NextPart)
    BY <1>3 DEF GetPart, Replies
  <2>2. FindOne(NextPart).parts = Found(NextPart)
    BY <1>3, <2>1 DEF FindOne, Answer
  <2>3. PICK p \in Found(NextPart) : bought' = Append(bought, p) /\ InStock(p)
    BY <1>3, <2>1, <2>2
  <2>4. p \in offered /\ p.uuid = request.parts[Len(bought) + 1]
    BY <1>1, <2>3 DEF GInv, BoughtInOrder, OnOffer, Found, InStock, NextPart
  <2>5. /\ bought' \in Seq(offered') /\ Len(bought') = Len(bought) + 1
        /\ \A i \in 1..Len(bought) : bought'[i] = bought[i]
        /\ bought'[Len(bought) + 1] = p
    BY <1>1, <2>3, <2>4 DEF GInv, Typed
  <2>6. Typed' /\ Forgotten' /\ Admitted' /\ ServedAsWhoWasAdmitted'
    BY <1>1, <1>3, <2>5
       DEF GInv, Typed, Stages, Forgotten, Admitted, ServedAsWhoWasAdmitted
  <2>7. request.parts \in Seq(PartUUIDs) /\ bought \in Seq(offered)
    BY DEF GInv, Typed, Requests
  <2>8. /\ Len(bought') <= Len(request'.parts)
        /\ \A i \in 1..Len(bought') : bought'[i].uuid = request'.parts[i]
    <3>1. /\ request' = request /\ Len(request.parts) \in Nat
          /\ Len(bought) \in Nat /\ Len(bought) < Len(request.parts)
      BY <1>1, <2>7
    <3>2. \A i \in 1..Len(bought) : bought[i].uuid = request.parts[i]
      BY DEF GInv, BoughtInOrder
    <3>3. ASSUME NEW i \in 1..Len(bought')
          PROVE  bought'[i].uuid = request'.parts[i]
      <4>1. CASE i \in 1..Len(bought)
        BY <2>5, <3>1, <3>2, <4>1
      <4>2. CASE i = Len(bought) + 1
        BY <2>4, <2>5, <3>1, <4>2
      <4> QED BY <2>5, <3>1, <3>3, <4>1, <4>2
    <3> QED BY <2>5, <3>1, <3>3
  <2>9. response' # [by |-> "order", status |-> 201]
    BY <1>1, <1>3, <2>7 DEF GInv, BoughtInOrder
  <2>10. BoughtInOrder'
    BY <1>1, <1>3, <2>8, <2>9 DEF GInv, BoughtInOrder, OnOffer
  <2> QED BY <2>6, <2>10 DEF GInv
<1> QED BY <1>2, <1>3 DEF BuyPart

(* An order is placed when nothing of it is left to buy.                   *)
LEMMA PlaceOrderKeeps ==
  ASSUME GInv, PlaceOrder
  PROVE  GInv'
<1>1. /\ stage = "create" /\ stage' = "answered"
      /\ Len(bought) = Len(request.parts)
      /\ UNCHANGED <<request, session, bought, vouched, documents, alive,
                     offered>>
      /\ response' = [by |-> "order", status |-> 201] => request.parts # <<>>
  BY DEF PlaceOrder, Reply, Quiet, inventory
<1> QED BY <1>1, AnswerKeeps

(* Inventory's own answers.                                                *)
LEMMA InventoryKeeps ==
  ASSUME GInv, RefuseSession \/ ServeGetPart \/ ServeListParts
  PROVE  GInv'
<1>1. /\ stage = "inventory" /\ stage' = "answered"
      /\ UNCHANGED <<request, session, bought, vouched, documents, alive,
                     offered>>
      /\ response'.by = "inventory"
  BY DEF RefuseSession, ServeGetPart, ServeListParts, Reply, Quiet, GetPart,
         ListParts, inventory
<1> QED BY <1>1, AnswerKeeps

-----------------------------------------------------------------------------
(* The rest of the system.                                                 *)

(* That a session ends takes nothing back that was done in its name.       *)
LEMMA EndSessionKeeps ==
  ASSUME GInv, EndSession
  PROVE  GInv'
<1>1. alive' \subseteq alive /\ UNCHANGED <<documents, gateway, offered>>
  BY DEF EndSession, inventory
<1>2. Typed' /\ Forgotten'
  BY <1>1 DEF GInv, Typed, Forgotten, gateway
<1>3. Admitted' /\ ServedAsWhoWasAdmitted'
  BY <1>1 DEF GInv, Admitted, ServedAsWhoWasAdmitted, gateway
<1>4. BoughtInOrder'
  BY <1>1 DEF GInv, BoughtInOrder, OnOffer, gateway
<1> QED BY <1>2, <1>3, <1>4 DEF GInv

(* What was on offer stays so in the history, and what is now is added.    *)
LEMMA ChangePartsKeeps ==
  ASSUME GInv, ChangeParts
  PROVE  GInv'
<1>1. /\ UNCHANGED <<alive, gateway>>
      /\ stage # "idle" => /\ offered \subseteq offered'
                           /\ OnOffer(documents') \subseteq offered'
  BY DEF ChangeParts
<1>2. bought' \in Seq(offered')
  <2>1. CASE stage = "idle"
    BY <1>1, <2>1 DEF GInv, Forgotten, gateway
  <2>2. CASE stage # "idle"
    BY <1>1, <2>2 DEF GInv, Typed, gateway
  <2> QED BY <2>1, <2>2
<1>3. Typed' /\ Forgotten'
  BY <1>1, <1>2 DEF GInv, Typed, Forgotten, gateway
<1>4. Admitted' /\ ServedAsWhoWasAdmitted'
  BY <1>1 DEF GInv, Admitted, ServedAsWhoWasAdmitted, gateway
<1>5. BoughtInOrder'
  BY <1>1 DEF GInv, BoughtInOrder, OnOffer, gateway
<1> QED BY <1>3, <1>4, <1>5 DEF GInv

-----------------------------------------------------------------------------
(* The theorems.                                                           *)

(* GInv always holds.                                                      *)
THEOREM Invariance == Spec => []GInv
<1>1. Init => GInv
  BY InitGInv
<1>2. GInv /\ [Next]_vars => GInv'
  <2>1. ASSUME GInv, Next
        PROVE  GInv'
    BY <2>1, ArriveKeeps, DialKeeps, CheckKeeps, RouteKeeps,
       OptionalAuthKeeps, BuyPartKeeps, PlaceOrderKeeps, InventoryKeeps,
       EndSessionKeeps, ChangePartsKeeps, ResetKeeps DEF Next
  <2>2. ASSUME GInv, UNCHANGED vars
        PROVE  GInv'
    <3>1. UNCHANGED <<documents, alive, stage, request, session, bought,
                      response, vouched, offered>>
      BY <2>2 DEF vars, inventory, gateway
    <3>2. Typed' /\ Forgotten'
      BY <2>2, <3>1 DEF GInv, Typed, Forgotten
    <3>3. Admitted' /\ ServedAsWhoWasAdmitted'
      BY <2>2, <3>1 DEF GInv, Admitted, ServedAsWhoWasAdmitted
    <3>4. BoughtInOrder'
      BY <2>2, <3>1 DEF GInv, BoughtInOrder, OnOffer
    <3> QED BY <3>2, <3>3, <3>4 DEF GInv
  <2> QED BY <2>1, <2>2
<1> QED BY <1>1, <1>2, PTL DEF Spec

(* What passes Envoy is handled only if IAM vouched for a session of its   *)
(* client, and by the order service in the name of that one or of none,    *)
(* whatever other sessions the client names.                               *)
THEOREM AdmittedAndServed == Spec => []ServedAsWhoWasAdmitted
<1>1. GInv => ServedAsWhoWasAdmitted
  BY DEF GInv
<1> QED BY <1>1, Invariance, PTL

(* An order that is placed consists of the parts asked for, each as it was *)
(* on offer since the request arrived.                                     *)
THEOREM NothingElseIsOrdered == Spec => []OrderedPartsWereOnOffer
<1>1. GInv => OrderedPartsWereOnOffer
  <2> SUFFICES ASSUME GInv, response = [by |-> "order", status |-> 201]
               PROVE  /\ [i \in DOMAIN bought |-> bought[i].uuid] = request.parts
                      /\ request.parts # <<>>
                      /\ \A i \in DOMAIN bought : bought[i] \in offered
    BY DEF OrderedPartsWereOnOffer
  <2>1. request.parts \in Seq(PartUUIDs) /\ bought \in Seq(offered)
    BY DEF GInv, Typed, Requests
  <2>2. /\ Len(bought) = Len(request.parts) /\ request.parts # <<>>
        /\ \A i \in 1..Len(bought) : bought[i].uuid = request.parts[i]
    BY DEF GInv, BoughtInOrder
  <2>3. [i \in DOMAIN bought |-> bought[i].uuid] = request.parts
    BY <2>1, <2>2
  <2> QED BY <2>1, <2>2, <2>3
<1> QED BY <1>1, Invariance, PTL

-----------------------------------------------------------------------------
(* Types, and the parts seen through the gateway.                          *)

\* Parts are under UUIDs, and IAM has vouched for a session if for anything.
Stocked ==
  /\ DOMAIN parts \subseteq PartUUIDs /\ Keyed
  /\ \A d \in documents \cup offered : d.uuid \in PartUUIDs
  /\ vouched \in Sessions \cup {NoSession}

(* Whoever maintains the parts gives them their UUIDs, and an update of a  *)
(* document leaves its UUID alone.                                         *)
LEMMA MaintainKeepsUUIDs ==
  ASSUME Stocked, Maintain
  PROVE  /\ DOMAIN parts' \subseteq PartUUIDs
         /\ \A u \in DOMAIN parts' : parts'[u].uuid = u
         /\ \A d \in documents' : d.uuid \in PartUUIDs
<1> USE InventoryConstants DEF Stocked, Keyed
<1>1. ASSUME NEW p \in Parts, CreatePart(p)
      PROVE  /\ DOMAIN parts' \subseteq PartUUIDs
             /\ \A u \in DOMAIN parts' : parts'[u].uuid = u
             /\ \A d \in documents' : d.uuid \in PartUUIDs
  BY <1>1 DEF CreatePart, Put
<1>2. ASSUME NEW p \in Parts, UpdatePart(p)
      PROVE  /\ DOMAIN parts' \subseteq PartUUIDs
             /\ \A u \in DOMAIN parts' : parts'[u].uuid = u
             /\ \A d \in documents' : d.uuid \in PartUUIDs
  <2>1. \A d : Merged(d, p).uuid = p.uuid
    BY DEF Merged
  <2> QED BY <1>2, <2>1 DEF UpdatePart, Put
<1>3. ASSUME NEW p \in Parts, DeletePart(p.uuid)
      PROVE  /\ DOMAIN parts' \subseteq PartUUIDs
             /\ \A u \in DOMAIN parts' : parts'[u].uuid = u
             /\ \A d \in documents' : d.uuid \in PartUUIDs
  BY <1>3 DEF DeletePart, Keep
<1> QED BY <1>1, <1>2, <1>3 DEF Maintain

(* Every variable has its type.                                            *)
THEOREM TypeCorrect == Spec => []TypeOK
<1>1. Init => Stocked
  BY DEF Init, InventoryInit, Stocked, Keyed
<1>2. GInv /\ Stocked /\ [Next]_vars => Stocked'
  <2> SUFFICES ASSUME GInv, Stocked, [Next]_vars
               PROVE  Stocked'
    OBVIOUS
  <2>1. ASSUME UNCHANGED <<parts, documents>>,
               offered' \subseteq offered \cup documents,
               vouched' \in {vouched, NoSession} \cup Sessions
        PROVE  Stocked'
    BY <2>1 DEF Stocked, Keyed
  <2>2. CASE Arrive \/ Dial \/ Reset
    BY <2>1, <2>2 DEF Arrive, Dial, Reset, inventory, OnOffer
  <2>3. CASE Check
    <3>1. vouched' = vouched \/ vouched' \in Sessions
      BY <2>3 DEF Check, GInv, Typed
    <3> QED BY <2>1, <2>3, <3>1 DEF Check, Quiet, inventory
  <2>4. CASE RouteRequest \/ OptionalAuth \/ PlaceOrder \/ RefuseSession
    BY <2>1, <2>4
       DEF RouteRequest, OptionalAuth, PlaceOrder, RefuseSession, Quiet, inventory
  <2>5. CASE BuyPart \/ ServeGetPart \/ ServeListParts
    <3>1. UNCHANGED <<parts, documents, offered, vouched>>
      BY <2>5 DEF BuyPart, ServeGetPart, ServeListParts, GetPart, ListParts,
                  inventory
    <3> QED BY <2>1, <3>1
  <2>6. CASE EndSession \/ UNCHANGED vars
    BY <2>1, <2>6 DEF EndSession, vars, inventory, gateway
  <2>7. CASE ChangeParts
    <3>1. /\ Maintain /\ UNCHANGED vouched
          /\ offered' \subseteq offered \cup documents'
      BY <2>7 DEF ChangeParts, gateway, OnOffer
    <3> QED BY <3>1, MaintainKeepsUUIDs DEF Stocked, Keyed
  <2> QED BY <2>2, <2>3, <2>4, <2>5, <2>6, <2>7 DEF Next
<1>3. GInv /\ Stocked => TypeOK
  BY DEF GInv, Typed, Stages, Requests, BoughtInOrder, Stocked, Keyed, TypeOK
<1> QED BY <1>1, <1>2, <1>3, Invariance, PTL DEF Spec

(* Whatever comes through the gateway calls inventory as its API allows,   *)
THEOREM CallsInventory == Spec => InventorySpec
<1>1. Init => InventoryInit
  BY DEF Init
<1>2. GInv /\ [Next]_vars => [InventoryNext]_inventory
  <2> SUFFICES ASSUME GInv, [Next]_vars
               PROVE  InventoryNext \/ UNCHANGED inventory
    OBVIOUS
  <2>1. CASE BuyPart
    <3>1. NextPart \in PartUUIDs
      <4>1. /\ request.parts \in Seq(PartUUIDs) /\ bought \in Seq(offered)
            /\ Len(bought) < Len(request.parts)
        BY <2>1 DEF GInv, Typed, Requests, BuyPart
      <4>2. Len(bought) + 1 \in 1..Len(request.parts)
        BY <4>1
      <4> QED BY <4>1, <4>2 DEF NextPart
    <3>2. GetPart(NextPart) \/ UNCHANGED inventory
      BY <2>1 DEF BuyPart
    <3> QED BY <3>1, <3>2 DEF InventoryNext, Read
  <2>2. CASE ServeGetPart \/ ServeListParts
    BY <2>2 DEF ServeGetPart, ServeListParts, InventoryNext, Read
  <2>3. CASE ChangeParts
    BY <2>3 DEF ChangeParts, InventoryNext
  <2>4. CASE \/ Arrive \/ Dial \/ Check \/ RouteRequest \/ OptionalAuth
             \/ PlaceOrder \/ RefuseSession \/ EndSession \/ Reset
             \/ UNCHANGED vars
    BY <2>4 DEF Arrive, Dial, Check, RouteRequest, OptionalAuth, PlaceOrder,
                RefuseSession, EndSession, Reset, Quiet, vars
  <2> QED BY <2>1, <2>2, <2>3, <2>4 DEF Next
<1> QED BY <1>1, <1>2, Invariance, PTL DEF Spec, InventorySpec

(* so the map in memory is a catalogue behind the gateway too,             *)
THEOREM MemoryBehindTheGateway == Spec => MemoryIsACatalogue
BY CallsInventory, MemoryImplements, PTL

(* and so is the collection.                                               *)
THEOREM MongoBehindTheGateway == Spec => MongoIsACatalogue
BY CallsInventory, MongoImplements, PTL

-----------------------------------------------------------------------------
(* Who is refused for want of a session.                                   *)

\* The session a service finds: the order service in X-Session-UUID,
\* inventory in the metadata session-uuid.
SessionFound ==
  IF request.route = "/api/v1/orders" THEN request.header ELSE request.metadata

\* What a service takes for the session is what it finds.
HeaderPassedOn ==
  /\ stage \in {"order", "create"} => request.route = "/api/v1/orders"
  /\ stage = "inventory" => request.route \in {"/api/v1/inventory/", Direct}
  /\ stage \in {"create", "inventory"} => session = SessionFound

\* Whom inventory's interceptor refuses: who orders without X-Session-UUID,
\* or calls inventory without session-uuid, the other two notwithstanding.
OnlyTheseAreRefused == refused => SessionFound = NoSession

(* A request for an order is refused for want of a session only if it names *)
(* none in X-Session-UUID, and a call of inventory only if it names none in *)
(* session-uuid: what AdmittedIsServed asks for fails for the cookie, and   *)
(* for inventory's HTTP API used with the header the README documents, and  *)
(* for nothing else.                                                        *)
THEOREM HeaderReachesInventory == Spec => []OnlyTheseAreRefused
<1> DEFINE Inv == HeaderPassedOn /\ OnlyTheseAreRefused
                    /\ (refused => stage = "answered")
<1>1. Init => Inv
  BY DEF Init, HeaderPassedOn, OnlyTheseAreRefused
<1>2. GInv /\ Inv /\ [Next]_vars => Inv'
  <2> SUFFICES ASSUME GInv, Inv, [Next]_vars
               PROVE  Inv'
    OBVIOUS
  <2>1. CASE Arrive
    <3>1. stage = "idle" /\ stage' \in {"route", "check"} /\ UNCHANGED refused
      BY <2>1 DEF Arrive
    <3>2. ~refused'
      BY <3>1, Zenon
    <3> QED BY <3>1, <3>2 DEF HeaderPassedOn, OnlyTheseAreRefused
  <2>2. CASE Dial
    <3>1. /\ stage = "idle" /\ stage' = "inventory" /\ UNCHANGED refused
          /\ request'.route = Direct /\ session' = request'.metadata
      BY <2>2 DEF Dial, NoRequest
    <3>2. ~refused'
      BY <3>1, Zenon
    <3>3. session' = SessionFound'
      BY <3>1 DEF SessionFound, Direct
    <3> QED BY <3>1, <3>2, <3>3 DEF HeaderPassedOn, OnlyTheseAreRefused
  <2>3. CASE Check
    <3>1. stage' \in {"route", "answered"} /\ stage # "answered"
          /\ UNCHANGED refused
      BY <2>3 DEF Check, Reply
    <3>2. ~refused'
      BY <3>1, Zenon
    <3> QED BY <3>1, <3>2 DEF HeaderPassedOn, OnlyTheseAreRefused
  <2>4. CASE RouteRequest
    <3>1. stage = "route" /\ UNCHANGED refused
      BY <2>4 DEF RouteRequest
    <3>2. ~refused'
      BY <3>1, Zenon
    <3>3. stage' = "inventory" => session' = SessionFound'
                                  /\ request'.route = "/api/v1/inventory/"
      BY <2>4, RoutedTo DEF SessionFound
    <3>4. /\ stage' = "order" => request'.route = "/api/v1/orders"
          /\ stage' \in {"answered", "inventory", "order"}
      BY <2>4, RoutedTo
    <3> QED BY <3>2, <3>3, <3>4 DEF HeaderPassedOn, OnlyTheseAreRefused
  <2>5. CASE OptionalAuth
    <3>1. /\ stage = "order" /\ stage' = "create" /\ session' = request.header
          /\ UNCHANGED <<request, refused>>
      BY <2>5 DEF OptionalAuth
    <3>2. session' = SessionFound'
      BY <3>1 DEF HeaderPassedOn, SessionFound
    <3> QED BY <3>1, <3>2
            DEF HeaderPassedOn, OnlyTheseAreRefused
  <2>6. CASE BuyPart
    <3>1. /\ stage = "create" /\ UNCHANGED <<request, session>>
          /\ UNCHANGED <<stage, refused>> \/ stage' = "answered"
          /\ refused' => session = NoSession
      BY <2>6 DEF BuyPart, Reply, Interceptor, Inv
    <3>2. UNCHANGED SessionFound
      BY <3>1 DEF SessionFound
    <3> QED BY <3>1, <3>2 DEF HeaderPassedOn, OnlyTheseAreRefused
  <2>7. CASE RefuseSession
    <3>1. /\ stage = "inventory" /\ stage' = "answered" /\ UNCHANGED request
          /\ session = NoSession
      BY <2>7 DEF RefuseSession, Reply, Interceptor
    <3>2. UNCHANGED SessionFound
      BY <3>1 DEF SessionFound
    <3> QED BY <3>1, <3>2 DEF HeaderPassedOn, OnlyTheseAreRefused
  <2>8. CASE PlaceOrder \/ ServeGetPart \/ ServeListParts
    <3>1. stage' = "answered" /\ UNCHANGED <<request, refused>>
      BY <2>8 DEF PlaceOrder, ServeGetPart, ServeListParts, Reply
    <3>2. UNCHANGED SessionFound
      BY <3>1 DEF SessionFound
    <3> QED BY <3>1, <3>2 DEF HeaderPassedOn, OnlyTheseAreRefused
  <2>9. CASE Reset
    BY <2>9 DEF Reset, HeaderPassedOn, OnlyTheseAreRefused
  <2>10. CASE EndSession \/ ChangeParts \/ UNCHANGED vars
    <3>1. UNCHANGED gateway
      BY <2>10 DEF EndSession, ChangeParts, vars
    <3>2. UNCHANGED SessionFound
      BY <3>1 DEF gateway, SessionFound
    <3> QED BY <3>1, <3>2 DEF gateway, HeaderPassedOn, OnlyTheseAreRefused
  <2> QED BY <2>1, <2>2, <2>3, <2>4, <2>5, <2>6, <2>7, <2>8, <2>9, <2>10
          DEF Next
<1> QED BY <1>1, <1>2, Invariance, PTL DEF Spec

-----------------------------------------------------------------------------
(* The gateway asks the authority that IAM implements: ext_authz is its one *)
(* asker, and 403 is to it what an error is.                               *)

Shown == ExtractSessionUUID(request.header, request.cookie)

Standing == CASE stage = "check" -> "asked"
              [] stage # "check" /\ vouched # NoSession -> "vouched"
              [] OTHER -> "idle"

Regarding == IF stage = "check" THEN Shown ELSE vouched

Authority ==
  INSTANCE SessionAuthority WITH ended <- Sessions \ alive,
                                 Askers <- {"ext_authz"},
                                 phase <- [a \in {"ext_authz"} |-> Standing],
                                 about <- [a \in {"ext_authz"} |-> Regarding]

\* While IAM is asked, nobody has been vouched for.
NobodyYet == stage = "check" => vouched = NoSession

\* But for its arrival, no step takes a request to ext_authz.
LEMMA Asked ==
  ASSUME GInv, Next
  PROVE  \/ Arrive \/ Check \/ EndSession \/ Reset \/ ChangeParts
         \/ /\ stage # "check" /\ stage' # "check"
            /\ UNCHANGED <<alive, vouched>>
<1>1. CASE Dial
  BY <1>1 DEF Dial
<1>2. CASE RouteRequest
  BY <1>2, RoutedTo
<1>3. CASE OptionalAuth
  BY <1>3 DEF OptionalAuth, Quiet
<1>4. CASE BuyPart
  <2>1. stage = "create" /\ stage' \in {"create", "answered"}
        /\ UNCHANGED <<alive, vouched>>
    BY <1>4 DEF BuyPart, Reply
  <2> QED BY <2>1
<1>5. CASE PlaceOrder \/ RefuseSession \/ ServeGetPart \/ ServeListParts
  BY <1>5 DEF PlaceOrder, RefuseSession, ServeGetPart, ServeListParts, Reply,
              Quiet
<1> QED BY <1>1, <1>2, <1>3, <1>4, <1>5 DEF Next

LEMMA NobodyYetStep ==
  ASSUME GInv, NobodyYet, [Next]_vars
  PROVE  NobodyYet'
<1>1. CASE Arrive
  <2>1. vouched' = NoSession
    BY <1>1 DEF Arrive, GInv, Forgotten
  <2> QED BY <2>1 DEF NobodyYet
<1>2. CASE Check \/ Reset
  BY <1>2 DEF Check, Reply, Reset, NobodyYet
<1>3. CASE EndSession \/ ChangeParts \/ UNCHANGED vars
  BY <1>3 DEF EndSession, ChangeParts, gateway, vars, NobodyYet
<1> QED BY <1>1, <1>2, <1>3, Asked DEF NobodyYet

\* Every step of the gateway asks the authority something, or nothing.
LEMMA GatewayAuthorityStep ==
  ASSUME GInv, NobodyYet, [Next]_vars
  PROVE  [Authority!Next]_(Authority!vars)
<1>a. alive \subseteq Sessions
  BY DEF GInv, Typed
<1>1. CASE Arrive
  <2>1. /\ stage = "idle" /\ vouched = NoSession /\ UNCHANGED <<alive, vouched>>
        /\ stage' \in {"route", "check"}
        /\ {request'.header, request'.cookie} \subseteq Sessions \cup {NoSession}
    <3>1. stage = "idle" /\ UNCHANGED <<alive, vouched>>
          /\ stage' \in {"route", "check"}
      BY <1>1 DEF Arrive
    <3>2. {request'.header, request'.cookie} \subseteq Sessions \cup {NoSession}
      BY <1>1 DEF Arrive
    <3> QED BY <3>1, <3>2 DEF GInv, Forgotten
  <2>2. CASE stage' = "check"
    <3>1. Shown' \in Sessions \cup {NoSession}
      BY <2>1 DEF Shown, ExtractSessionUUID
    <3>2. Authority!Ask("ext_authz", Shown')
      BY <1>a, <2>1, <2>2, <3>1 DEF Authority!Ask, Standing, Regarding
    <3> QED BY <3>1, <3>2 DEF Authority!Next
  <2>3. CASE stage' = "route"
    BY <2>1, <2>3 DEF Authority!vars, Standing, Regarding
  <2> QED BY <2>1, <2>2, <2>3
<1>2. CASE Check
  <2>1. stage = "check" /\ vouched = NoSession /\ UNCHANGED alive
    BY <1>2 DEF Check, Quiet, NobodyYet
  <2>2. CASE Shown \in alive /\ vouched' = Shown /\ stage' = "route"
    <3>1. Authority!Vouch("ext_authz")
      BY <1>a, <2>1, <2>2, GatewayConstants
         DEF Authority!Vouch, Standing, Regarding
    <3> QED BY <3>1 DEF Authority!Next
  <2>3. CASE vouched' = NoSession /\ stage' = "answered"
    <3>1. Authority!Forget("ext_authz")
      BY <2>1, <2>3 DEF Authority!Forget, Standing, Regarding
    <3> QED BY <3>1 DEF Authority!Next
  <2> QED BY <1>2, <2>1, <2>2, <2>3 DEF Check, Reply, Shown
<1>3. CASE EndSession
  <2>1. PICK s \in alive : alive' = alive \ {s}
    BY <1>3 DEF EndSession
  <2>2. UNCHANGED <<stage, request, vouched>>
    BY <1>3 DEF EndSession, gateway
  <2>3. UNCHANGED Standing /\ UNCHANGED Regarding
    BY <2>2 DEF Standing, Regarding, Shown, ExtractSessionUUID
  <2>4. Authority!End(s)
    BY <1>a, <2>1, <2>3 DEF Authority!End
  <2> QED BY <1>a, <2>1, <2>4 DEF Authority!Next
<1>4. CASE Reset
  <2>1. stage = "answered" /\ stage' = "idle" /\ vouched' = NoSession
        /\ UNCHANGED alive
    BY <1>4 DEF Reset
  <2>2. CASE vouched = NoSession
    BY <2>1, <2>2 DEF Authority!vars, Standing, Regarding
  <2>3. CASE vouched # NoSession
    <3>1. Authority!Forget("ext_authz")
      BY <2>1, <2>3 DEF Authority!Forget, Standing, Regarding
    <3> QED BY <3>1 DEF Authority!Next
  <2> QED BY <2>2, <2>3
<1>5. ASSUME stage # "check", stage' # "check", UNCHANGED <<alive, vouched>>
      PROVE  UNCHANGED Authority!vars
  BY <1>5 DEF Authority!vars, Standing, Regarding
<1>6. CASE ChangeParts \/ UNCHANGED vars
  <2>1. UNCHANGED <<alive, stage, request, vouched>>
    BY <1>6 DEF ChangeParts, vars, gateway
  <2> QED BY <2>1 DEF Authority!vars, Standing, Regarding, Shown,
                      ExtractSessionUUID
<1> QED BY <1>1, <1>2, <1>3, <1>4, <1>5, <1>6, Asked

(* What the gateway's one step Check assumes of IAM is what IAM implements: *)
(* the session extractSessionUUID finds is vouched for only while it lives, *)
(* and a request that ext_authz admits goes on in the name of that session, *)
(* which may have ended since.                                             *)
THEOREM AsksTheAuthority == Spec => Authority!Spec
<1>1. Init => NobodyYet /\ Authority!Init
  BY DEF Init, NobodyYet, Authority!Init, Standing, Regarding
<1>2. GInv /\ NobodyYet /\ [Next]_vars => NobodyYet'
  BY NobodyYetStep
<1>3. GInv /\ NobodyYet /\ [Next]_vars => [Authority!Next]_(Authority!vars)
  BY GatewayAuthorityStep
<1> QED BY <1>1, <1>2, <1>3, Invariance, PTL DEF Spec, Authority!Spec
=============================================================================

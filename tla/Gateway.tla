------------------------------ MODULE Gateway ------------------------------
(***************************************************************************)
(* A request on its way through Envoy: ext_authz asks IAM for the session, *)
(* the request is passed on with other headers, the order service takes    *)
(* the session from them and gives it to its calls of inventory, whose     *)
(* interceptor wants to see one.  Meanwhile sessions end and whoever       *)
(* maintains the parts changes them.                                       *)
(*                                                                         *)
(* Requests share nothing but the sessions and the parts, which the rest   *)
(* of the system changes as another request would: one at a time is        *)
(* enough.  What Whoami answers is IAM's subject, and what becomes of an   *)
(* order once it is stored is OrderService's.                              *)
(*                                                                         *)
(* A client may name three sessions: in the header X-Session-UUID, in the  *)
(* cookie, and in a header session-uuid of its own, which no document asks *)
(* for, Envoy leaves alone, and inventory reads as the metadata it wants.  *)
(***************************************************************************)
EXTENDS Inventory, Sequences

CONSTANTS Sessions, NoSession,
          PartLists,   \* part_uuids of a CreateOrder request
          Faults       \* what may fail: "iam", "inventory", "db"

ASSUME GatewayConstants ==
  /\ NoSession \notin Sessions
  /\ \A l \in PartLists : l \in Seq(PartUUIDs)

VARIABLES
  alive,     \* the sessions IAM vouches for
  stage,     \* where the request is
  request,   \* the route it takes, the sessions it names in X-Session-UUID,
             \* cookie and session-uuid, the parts to be ordered
  session,   \* what the service that handles it took for the session
  bought,    \* CreateOrder: the parts it has been given so far
  response,  \* who answered, with which status
  vouched,   \* history: the session IAM vouched for
  refused,   \* history: inventory's interceptor found no session
  offered    \* history: the parts on offer at some time during the request

gateway == <<stage, request, session, bought, response, vouched, refused>>
vars == <<inventory, alive, gateway, offered>>

Routes == {"/healthz", "/auth/", "/api/v1/inventory/", "/api/v1/orders", "/"}

\* A client may also call inventory itself, by gRPC.
Direct == "grpc"

NoRequest  == [route |-> "/healthz", header |-> NoSession,
               cookie |-> NoSession, metadata |-> NoSession, parts |-> <<>>]
NoResponse == [by |-> "", status |-> 0]

Init ==
  /\ InventoryInit
  /\ alive = Sessions
  /\ stage = "idle" /\ request = NoRequest /\ session = NoSession
  /\ bought = <<>> /\ response = NoResponse
  /\ vouched = NoSession /\ refused = FALSE /\ offered = {}

Listed(p) == p.stock >= 0

InStock(p) == p.stock > 0

OnOffer(docs) == {d \in docs : d.stock > 0}

Reply(by, status) ==
  /\ stage' = "answered"
  /\ response' = [by |-> by, status |-> status]

\* A step of the request that calls no repository.
Quiet == UNCHANGED <<inventory, alive, offered>>

-----------------------------------------------------------------------------
(* Envoy and ext_authz.                                                    *)

Arrive ==
  /\ stage = "idle"
  /\ \E r \in Routes, h, c, m \in Sessions \cup {NoSession}, l \in PartLists :
       /\ (r # "/api/v1/orders") => l = <<>>
       /\ request' = [route |-> r, header |-> h, cookie |-> c, metadata |-> m,
                      parts |-> l]
       /\ stage' = IF r \in {"/healthz", "/auth/"} THEN "route" ELSE "check"
  /\ offered' = OnOffer(documents)
  /\ UNCHANGED <<inventory, alive, session, bought, response, vouched, refused>>

\* A call by hand, with its metadata session-uuid.
Dial ==
  /\ stage = "idle"
  /\ \E s \in Sessions \cup {NoSession} :
       /\ request' = [NoRequest EXCEPT !.route = Direct, !.metadata = s]
       /\ session' = s
  /\ stage' = "inventory"
  /\ offered' = OnOffer(documents)
  /\ UNCHANGED <<inventory, alive, bought, response, vouched, refused>>

CookieFirst(header, cookie) == IF cookie # NoSession THEN cookie ELSE header

\* extractSessionUUID: the header, then the cookie.
ExtractSessionUUID(header, cookie) ==
  IF header # NoSession THEN header ELSE cookie

\* Check: every error of Whoami is a 403, and so is a Check that fails.
Check ==
  LET s == ExtractSessionUUID(request.header, request.cookie) IN
  /\ stage = "check"
  /\ \/ /\ s \in alive
        /\ vouched' = s
        /\ stage' = "route"
        /\ request' = [request EXCEPT !.cookie = NoSession]
        /\ UNCHANGED response
     \/ /\ s \notin alive \/ "iam" \in Faults
        /\ Reply("ext_authz", 403)
        /\ UNCHANGED <<request, vouched>>
  /\ UNCHANGED <<session, bought, refused>>
  /\ Quiet

\* The route's cluster.  The transcoder hands the headers on as metadata by
\* their own names: x-session-uuid is not session-uuid, and a session-uuid
\* that the client sent is what inventory takes for the session.
RouteRequest ==
  LET r == request.route IN
  /\ stage = "route"
  /\ CASE r = "/healthz" -> Reply("envoy", 200)
       [] r = "/" -> Reply("envoy", 404)
       [] r = "/auth/" -> \E code \in {200, 500} : Reply("iam", code)
       [] r = "/api/v1/inventory/" -> stage' = "inventory" /\ UNCHANGED response
       [] r = "/api/v1/orders" -> stage' = "order" /\ UNCHANGED response
  /\ session' = IF r = "/api/v1/inventory/" THEN request.metadata ELSE session
  /\ UNCHANGED <<request, bought, vouched, refused>>
  /\ Quiet

-----------------------------------------------------------------------------
(* The order service.                                                      *)

\* OptionalAuthMiddleware, and ForwardSessionUUIDToGRPC in CreateOrder.
OptionalAuth ==
  /\ stage = "order"
  /\ session' = request.header
  /\ stage' = "create"
  /\ UNCHANGED <<request, bought, response, vouched, refused>>
  /\ Quiet

\* UnaryAuthInterceptor.
Interceptor(s) == s # NoSession

NextPart == request.parts[Len(bought) + 1]

\* One call of inventory for the next part: the interceptor, GetPart, and
\* CreateOrder's look at what it got.  Any error is a part not found.
BuyPart ==
  /\ stage = "create" /\ Len(bought) < Len(request.parts)
  /\ \/ /\ Interceptor(session)
        /\ GetPart(NextPart)
        /\ LET got == reply'.mongo IN
           IF got.code = "OK" /\ \A p \in got.parts : InStock(p)
           THEN /\ \E p \in got.parts : bought' = Append(bought, p)
                /\ UNCHANGED <<stage, response>>
           ELSE Reply("order", 400) /\ UNCHANGED bought
        /\ UNCHANGED refused
     \/ /\ ~Interceptor(session)
        /\ refused' = TRUE
        /\ Reply("order", 400)
        /\ UNCHANGED <<inventory, bought>>
     \/ /\ "inventory" \in Faults
        /\ Reply("order", 400)
        /\ UNCHANGED <<inventory, bought, refused>>
  /\ UNCHANGED <<alive, request, session, vouched, offered>>

\* No parts at all, or the last one was there: the order is stored or not.
PlaceOrder ==
  /\ stage = "create" /\ Len(bought) = Len(request.parts)
  /\ \/ request.parts # <<>> /\ Reply("order", 201)
     \/ /\ request.parts = <<>> \/ "db" \in Faults
        /\ Reply("order", 400)
  /\ UNCHANGED <<request, session, bought, vouched, refused>>
  /\ Quiet

-----------------------------------------------------------------------------
(* Inventory's API, transcoded by Envoy or called by hand.                 *)

\* Unauthenticated is 401 to an HTTP client; by hand the codes are gRPC's.
RefuseSession ==
  /\ stage = "inventory" /\ ~Interceptor(session)
  /\ refused' = TRUE
  /\ Reply("inventory", 401)
  /\ UNCHANGED <<request, session, bought, vouched>>
  /\ Quiet

ServeGetPart ==
  /\ stage = "inventory" /\ Interceptor(session)
  /\ \/ /\ \E u \in PartUUIDs : GetPart(u)
        /\ Reply("inventory", IF reply'.mongo.code = "OK" THEN 200 ELSE 404)
     \/ /\ "inventory" \in Faults
        /\ Reply("inventory", 404)
        /\ UNCHANGED inventory
  /\ UNCHANGED <<alive, request, session, bought, vouched, refused, offered>>

ServeListParts ==
  /\ stage = "inventory" /\ Interceptor(session)
  /\ \/ /\ \E f \in Filters : ListParts(f)
        /\ Reply("inventory", 200)
     \/ /\ "inventory" \in Faults
        /\ Reply("inventory", 500)
        /\ UNCHANGED inventory
  /\ UNCHANGED <<alive, request, session, bought, vouched, refused, offered>>

-----------------------------------------------------------------------------
(* The rest of the system.                                                 *)

EndSession ==
  /\ \E s \in alive : alive' = alive \ {s}
  /\ UNCHANGED <<inventory, gateway, offered>>

ChangeParts ==
  /\ Maintain
  /\ offered' = IF stage = "idle" THEN {} ELSE offered \cup OnOffer(documents')
  /\ UNCHANGED <<alive, gateway>>

\* The next request.
Reset ==
  /\ stage = "answered"
  /\ stage' = "idle" /\ request' = NoRequest /\ session' = NoSession
  /\ bought' = <<>> /\ response' = NoResponse
  /\ vouched' = NoSession /\ refused' = FALSE /\ offered' = {}
  /\ UNCHANGED <<inventory, alive>>

Next ==
  \/ Arrive \/ Dial \/ Check \/ RouteRequest
  \/ OptionalAuth \/ BuyPart \/ PlaceOrder
  \/ RefuseSession \/ ServeGetPart \/ ServeListParts
  \/ EndSession \/ ChangeParts \/ Reset

Spec == Init /\ [][Next]_vars

-----------------------------------------------------------------------------
(* Properties.                                                             *)

\* Every variable has its type.
TypeOK ==
  /\ DOMAIN parts \subseteq PartUUIDs
  /\ \A u \in DOMAIN parts : parts[u].uuid = u
  /\ \A d \in documents : d.uuid \in PartUUIDs
  /\ alive \subseteq Sessions
  /\ stage \in {"idle", "check", "route", "order", "create", "inventory",
                "answered"}
  /\ request.route \in Routes \cup {Direct}
  /\ {request.header, request.cookie, request.metadata, session, vouched}
       \subseteq Sessions \cup {NoSession}
  /\ Len(bought) <= Len(request.parts)
  /\ \A d \in offered : d.uuid \in PartUUIDs

Protected == Routes \ {"/healthz", "/auth/"}

\* What passes Envoy is handled only if IAM vouched for a session of its
\* client, whichever of the sessions it names that was and whatever failed.
\* And what the order service does, up to its calls of inventory, it does in
\* the name of the session that was vouched for, or of none: never of another
\* one the client named as well.  (A transcoded call of inventory is in the
\* name of whatever its client put into session-uuid, which IAM is not asked
\* about; inventory looks only whether there is one.)
ServedAsWhoWasAdmitted ==
  request.route \in Protected =>
    /\ stage \in {"route", "order", "create", "inventory"} => vouched # NoSession
    /\ response.by \in {"order", "inventory"} => vouched # NoSession
    /\ request.route = "/api/v1/orders" => session \in {NoSession, vouched}

\* An order that is placed consists of the parts that were asked for, each at
\* a price at which it was on offer at some time since the request arrived.
\* (It need not be any more: nothing reserves a part.)
OrderedPartsWereOnOffer ==
  response = [by |-> "order", status |-> 201] =>
    /\ [i \in DOMAIN bought |-> bought[i].uuid] = request.parts
    /\ request.parts # <<>>
    /\ \A i \in DOMAIN bought : bought[i] \in offered

\* "If the session is valid the request is proxied to the service"
\* (src/README.md:151): then the service does not refuse it for want of one.
AdmittedIsServed == vouched # NoSession => ~refused
=============================================================================

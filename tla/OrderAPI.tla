------------------------------ MODULE OrderAPI ------------------------------
(***************************************************************************)
(* One exchange after another over the order service's HTTP API: a call of *)
(* the generated client, or a request by other hands, is encoded, routed,  *)
(* decoded and validated, handled by the delivery layer, and its answer is *)
(* encoded and decoded again.  Requests share nothing in this code, so one *)
(* exchange at a time loses no behaviour; what handlers race for is the    *)
(* table, which is OrderService's subject.                                 *)
(*                                                                         *)
(* A path is a sequence of pieces: the prefix of the API, slashes, and     *)
(* what stands between them.  Percent escapes, telemetry and texts of      *)
(* messages are left out.  The service's handlers return no Go error, so   *)
(* the branch that turns one into a 500 is never taken.                    *)
(***************************************************************************)
EXTENDS OrderSchemas

CONSTANTS Orders,      \* UUIDs of orders; bounds how many are created
          Documents,   \* JSON objects requests may carry
          Paths,       \* request paths
          NoValue

ASSUME APIConstants ==
  /\ Orders \subseteq UUIDs \ {NilUUID} /\ NilUUID \in UUIDs
  /\ "/" \notin UUIDs
  /\ \A doc \in Documents : Len(doc) \in Nat /\ DOMAIN doc = 1..Len(doc)
  /\ \A path \in Paths : path \in Seq({path[i] : i \in DOMAIN path})

VARIABLES
  stage,     \* how far the exchange is
  call,      \* what the generated client was asked for, if it was it
  request,   \* the HTTP request on the wire
  invoked,   \* the operation and the input the delivery layer was called with
  result,    \* what it returned
  response,  \* the HTTP response on the wire
  outcome,   \* what the generated client returns
  table      \* the orders: who ordered which parts

vars == <<stage, call, request, invoked, result, response, outcome, table>>

Operations == {"CreateOrder", "GetOrder", "PayOrder", "CancelOrder"}

\* The input of an operation: its path parameter and its decoded body.
Input(op, order, body) == [op |-> op, order |-> order, body |-> body]
NoInput == Input("none", NilUUID, NoValue)

\* What a handler or the client returns: a type of the schema and its struct.
Result(type, struct) == [type |-> type, struct |-> struct]
NoResult    == Result("none", NoValue)
ClientError == Result("error", NoValue)

Body(kind, doc) == [kind |-> kind, doc |-> doc]
EmptyBody   == Body("empty", <<>>)
Object(doc) == Body("object", doc)

Bodies == {EmptyBody, Body("emptyChunked", <<>>), Body("garbage", <<>>)}
            \cup {Object(doc) : doc \in Documents}

Request(method, path, type, body) ==
  [method |-> method, path |-> path, type |-> type, body |-> body]
Response(status, type, body) == [status |-> status, type |-> type, body |-> body]

NoRequest  == Request("", <<>>, "", EmptyBody)
NoResponse == Response(0, "", EmptyBody)
NoRow      == [user |-> NilUUID, parts |-> <<>>, price |-> -1]

Init ==
  /\ stage = "idle"
  /\ call = NoInput /\ request = NoRequest /\ invoked = NoInput
  /\ result = NoResult /\ response = NoResponse /\ outcome = NoResult
  /\ table = [o \in Orders |-> NoRow]

-----------------------------------------------------------------------------
(* The generated client: requests.                                         *)

Prefix == "/api/v1/orders"

\* encodeCreateOrderRequest leaves the body out when the value is not set.
EncodeCreateOrderRequest(body) ==
  IF body = NoValue THEN EmptyBody ELSE Object(Encode(CreateOrderReq, body))

EncodePayOrderRequest(body) == Object(Encode(PayOrderReq, body))

TypeOf(body) == IF body.kind = "empty" THEN "" ELSE "application/json"

\* A call goes on the wire.
Send(in, method, path, body) ==
  /\ stage = "idle"
  /\ stage' = "request"
  /\ call' = in
  /\ request' = Request(method, path, TypeOf(body), body)
  /\ UNCHANGED <<invoked, result, response, outcome, table>>

SendCreateOrder(body) ==
  Send(Input("CreateOrder", NilUUID, body), "POST", <<Prefix>>,
       EncodeCreateOrderRequest(body))

SendGetOrder(o) ==
  Send(Input("GetOrder", o, NoValue), "GET", <<Prefix, "/", o>>, EmptyBody)

SendPayOrder(o, body) ==
  Send(Input("PayOrder", o, body), "POST", <<Prefix, "/", o, "/", "pay">>,
       EncodePayOrderRequest(body))

SendCancelOrder(o) ==
  Send(Input("CancelOrder", o, NoValue), "POST",
       <<Prefix, "/", o, "/", "cancel">>, EmptyBody)

\* A request that is not the generated client's.
SendRaw(method, path, type, body) ==
  /\ stage = "idle"
  /\ stage' = "request"
  /\ request' = Request(method, path, type, body)
  /\ UNCHANGED <<call, invoked, result, response, outcome, table>>

-----------------------------------------------------------------------------
(* Router.                                                                 *)

Leaf(method, op, param) == [method |-> method, op |-> op, param |-> param]
NotFound == Leaf("", "none", <<>>)

\* Where the parameter ends: at the next slash, or with the path.
ParamEnd(elem) ==
  IF \E i \in DOMAIN elem : elem[i] = "/"
  THEN CHOOSE i \in DOMAIN elem :
         elem[i] = "/" /\ \A j \in 1..(i - 1) : elem[j] # "/"
  ELSE Len(elem) + 1

\* What follows the prefix and a slash: a parameter, then nothing or a verb.
RouteOrder(elem) ==
  LET param == SubSeq(elem, 1, ParamEnd(elem) - 1)
      rest  == SubSeq(elem, ParamEnd(elem), Len(elem))
  IN CASE rest = <<>>              -> Leaf("GET", "GetOrder", param)
       [] rest = <<"/", "cancel">> -> Leaf("POST", "CancelOrder", param)
       [] rest = <<"/", "pay">>    -> Leaf("POST", "PayOrder", param)
       [] OTHER                    -> NotFound

RouteByVerb(path) ==
  CASE path = <<Prefix>>                -> Leaf("POST", "CreateOrder", <<>>)
    [] path # <<>> /\ path[Len(path)] = "cancel" -> Leaf("POST", "CancelOrder", SubSeq(path, 3, 3))
    [] path # <<>> /\ path[Len(path)] = "pay" -> Leaf("POST", "PayOrder", SubSeq(path, 3, 3))
    [] Len(path) = 3                    -> Leaf("GET", "GetOrder", SubSeq(path, 3, 3))
    [] OTHER                            -> NotFound

\* ServeHTTP's prefix tree: the leaf a path leads to.
Route(path) ==
  CASE path = <<Prefix>> -> Leaf("POST", "CreateOrder", <<>>)
    [] /\ Len(path) >= 2
       /\ path[1] = Prefix /\ path[2] = "/"
       -> RouteOrder(SubSeq(path, 3, Len(path)))
    [] OTHER -> NotFound

-----------------------------------------------------------------------------
(* The server's side of an exchange.                                       *)

Answer(r) ==
  /\ stage' = "response"
  /\ response' = r

\* ogen's default error handler: a body of its own schema.
ErrorHandler(code) ==
  Answer(Response(code, "application/json",
                  Object(<<Member("error_message", Text("error"))>>)))

\* No leaf, or a leaf for another method.
Refuse ==
  LET leaf == Route(request.path) IN
  /\ stage = "request"
  /\ request.method # leaf.method
  /\ Answer(Response(CASE leaf = NotFound            -> 404
                       [] request.method = "OPTIONS" -> 204
                       [] OTHER                      -> 405,
                     IF leaf = NotFound THEN "text/plain" ELSE "", EmptyBody))
  /\ UNCHANGED <<call, request, invoked, result, outcome, table>>

IsRouted(op) ==
  /\ stage = "request"
  /\ Route(request.path).op = op
  /\ request.method = Route(request.path).method

AnyString(param) == Len(param) = 1

\* The three decode...Params functions: one piece that parses as a UUID.
DecodeCancelOrderParams(param) == Len(param) = 1 /\ param[1] \in UUIDs
DecodeGetOrderParams(param) == Len(param) = 1 /\ param[1] \in UUIDs
DecodePayOrderParams(param) == Len(param) = 1 /\ param[1] \in UUIDs

\* The delivery layer is called.
Invoke(in) ==
  /\ stage' = "handle"
  /\ invoked' = in
  /\ UNCHANGED response

\* A decoded request body: its value, or the code of the refusal.
Decoded(value) == [code |-> 0, value |-> value]
Refusal(code)  == [code |-> code, value |-> NoValue]

DecodeJSON(T) ==
  LET doc == request.body.doc IN
  IF /\ request.body.kind = "object" /\ Decodes(T, doc)
     /\ Valid(T, Decode(T, doc))
  THEN Decoded(Decode(T, doc)) ELSE Refusal(400)

\* The body of CreateOrder is optional: without one the value is not set, and
\* not validated either.
DecodeCreateOrderRequest ==
  CASE request.type = "" ->
         IF request.body.kind = "empty" THEN Decoded(NoValue) ELSE Refusal(400)
    [] request.type = "application/json" ->
         IF request.body.kind \in {"empty", "emptyChunked"} THEN Decoded(NoValue)
         ELSE DecodeJSON(CreateOrderReq)
    [] OTHER -> Refusal(415)

DecodePayWithoutValidation ==
  LET doc == request.body.doc IN
  CASE request.type = "" -> Refusal(400)
    [] request.type = "application/json" ->
         IF request.body.kind = "object" /\ Decodes(PayOrderReq, doc)
         THEN Decoded(Decode(PayOrderReq, doc)) ELSE Refusal(400)
    [] OTHER -> Refusal(415)

DecodePayOrderRequest ==
  CASE request.type = "" -> Refusal(400)
    [] request.type = "application/json" ->
         DecodeJSON(PayOrderReq)
    [] OTHER -> Refusal(415)

\* handle...Request: parameters, body, delivery layer; what cannot be decoded
\* goes to the error handler.
HandleCancelOrderRequest ==
  LET param == Route(request.path).param IN
  /\ IsRouted("CancelOrder")
  /\ IF DecodeCancelOrderParams(param)
     THEN Invoke(Input("CancelOrder", param[1], NoValue))
     ELSE ErrorHandler(400) /\ UNCHANGED invoked
  /\ UNCHANGED <<call, request, result, outcome, table>>

HandleGetOrderRequest ==
  LET param == Route(request.path).param IN
  /\ IsRouted("GetOrder")
  /\ IF DecodeGetOrderParams(param)
     THEN Invoke(Input("GetOrder", param[1], NoValue))
     ELSE ErrorHandler(400) /\ UNCHANGED invoked
  /\ UNCHANGED <<call, request, result, outcome, table>>

HandleCreateOrderRequest ==
  LET body == DecodeCreateOrderRequest IN
  /\ IsRouted("CreateOrder")
  /\ IF body.code = 0 THEN Invoke(Input("CreateOrder", NilUUID, body.value))
     ELSE ErrorHandler(body.code) /\ UNCHANGED invoked
  /\ UNCHANGED <<call, request, result, outcome, table>>

HandlePayOrderRequest ==
  LET param == Route(request.path).param
      body  == DecodePayOrderRequest
  IN
  /\ IsRouted("PayOrder")
  /\ IF DecodePayOrderParams(param) /\ body.code = 0
     THEN Invoke(Input("PayOrder", param[1], body.value))
     ELSE /\ ErrorHandler(IF DecodePayOrderParams(param) THEN body.code ELSE 400)
          /\ UNCHANGED invoked
  /\ UNCHANGED <<call, request, result, outcome, table>>

-----------------------------------------------------------------------------
(* The delivery layer and, by what they may answer, the use cases.  Of a   *)
(* row only what never changes is kept; what races for the rest is up to   *)
(* OrderService.                                                           *)

Handles(op) == stage = "handle" /\ invoked.op = op

Return(type, struct) ==
  /\ stage' = "encode"
  /\ result' = Result(type, struct)
  /\ UNCHANGED <<call, request, invoked, response, outcome>>

ReturnError(type, code) ==
  Return(type, [code |-> Number(code), message |-> Text("message")])

Exists(o) == o \in Orders /\ table[o] # NoRow

\* The zero value of CreateOrderReq stands for a body that was not set.
User(body)  == IF body = NoValue THEN NilUUID ELSE body["user_uuid"].text
Parts(body) == IF body = NoValue THEN <<>> ELSE body["part_uuids"].items

AcceptsAnyParts(parts) == Len(parts) >= 0

AcceptsParts(parts) == Len(parts) > 0

\* An order is stored and returned; or it is not stored; or it is, and the
\* INSERT or the reading back fails.
CreateOrder ==
  LET body == invoked.body IN
  /\ Handles("CreateOrder")
  /\ \/ ReturnError("BadRequest", 400) /\ UNCHANGED table
     \/ /\ AcceptsParts(Parts(body))
        /\ \E o \in Orders, price \in {0, 1} :
             /\ ~Exists(o)
             /\ table' = [table EXCEPT ![o] = [user |-> User(body),
                                               parts |-> Parts(body),
                                               price |-> price]]
             /\ \/ Return("CreateOrderResp", [uuid |-> Text(o),
                                               total_price |-> Number(price)])
                \/ ReturnError("BadRequest", 400)

\* The mutable columns as OrderService stores them.
Payments == {p \in [status : Statuses, tx : UUIDs, method : Methods] :
               p.tx = NilUUID => p.status # "PAID"}

\* Any error of the repository is told as 404.
GetOrder ==
  LET o == invoked.order IN
  /\ Handles("GetOrder")
  /\ \/ ReturnError("NotFoundErr", 404)
     \/ /\ Exists(o)
        /\ \E p \in Payments :
             Return("GetOrderResp",
                    [order_uuid |-> Text(o), user_uuid |-> Text(table[o].user),
                     part_uuids |-> Array(table[o].parts),
                     total_price |-> Number(table[o].price),
                     transaction_uuid |-> Text(p.tx),
                     payment_method |-> Text(p.method),
                     status |-> Text(p.status)])
  /\ UNCHANGED table

PayOrder ==
  /\ Handles("PayOrder")
  /\ \/ ReturnError("NotFoundErr", 404)
     \/ /\ Exists(invoked.order)
        /\ \/ ReturnError("ConflictErr", 409)
           \/ ReturnError("BadRequest", 400)
           \/ \E t \in UUIDs \ {NilUUID} :
                Return("PayOrderResp", [transaction_uuid |-> Text(t)])
  /\ UNCHANGED table

CancelOrder ==
  /\ Handles("CancelOrder")
  /\ \/ ReturnError("NotFoundErr", 404)
     \/ /\ Exists(invoked.order)
        /\ \/ ReturnError("ConflictErr", 409)
           \/ Return("CancelOrderNoContent", NoValue)
  /\ UNCHANGED table

-----------------------------------------------------------------------------
(* Responses: the server's encoders and the client's decoders.             *)

SchemaOf == [BadRequest |-> BadRequest, ConflictErr |-> ConflictErr,
             NotFoundErr |-> NotFoundErr, UnexpectedErr |-> UnexpectedErr,
             CreateOrderResp |-> CreateOrderResp,
             GetOrderResp |-> GetOrderResp, PayOrderResp |-> PayOrderResp]

PayOrderCodesSwapped == [PayOrderResp |-> 200, BadRequest |-> 404,
                         NotFoundErr |-> 400, ConflictErr |-> 409]

\* encode...Response: the status code of each type an operation may return.
EncodeCancelOrderResponse ==
  [CancelOrderNoContent |-> 204, NotFoundErr |-> 404, ConflictErr |-> 409]
EncodeCreateOrderResponse == [CreateOrderResp |-> 201, BadRequest |-> 400]
EncodeGetOrderResponse    == [GetOrderResp |-> 200, NotFoundErr |-> 404]
EncodePayOrderResponse    == [PayOrderResp |-> 200, BadRequest |-> 400,
                              NotFoundErr |-> 404, ConflictErr |-> 409]

Encoders == [CancelOrder |-> EncodeCancelOrderResponse,
             CreateOrder |-> EncodeCreateOrderResponse,
             GetOrder    |-> EncodeGetOrderResponse,
             PayOrder    |-> EncodePayOrderResponse]

EncodeResponse ==
  LET status == Encoders[invoked.op][result.type] IN
  /\ stage = "encode"
  /\ Answer(IF result.type = "CancelOrderNoContent"
            THEN Response(status, "", EmptyBody)
            ELSE Response(status, "application/json",
                          Object(Encode(SchemaOf[result.type], result.struct))))
  /\ UNCHANGED <<call, request, invoked, result, outcome, table>>

\* The struct in the response's body, if it is of the type and valid.
ReadBody(type) ==
  LET doc == response.body.doc  T == SchemaOf[type] IN
  IF /\ response.type = "application/json" /\ response.body.kind = "object"
     /\ Decodes(T, doc) /\ Valid(T, Decode(T, doc))
  THEN Result(type, Decode(T, doc)) ELSE ClientError

\* Any other status is an error to the caller: an UnexpectedErr if the body
\* is one, which only the handlers' NewError would send, or just an error.
DecodeDefault == ReadBody("UnexpectedErr")

IsError(r) == r.type \in {"error", "UnexpectedErr"}

\* decode...Response
DecodeCancelOrderResponse ==
  CASE response.status = 204 -> Result("CancelOrderNoContent", NoValue)
    [] response.status = 404 -> ReadBody("NotFoundErr")
    [] response.status = 409 -> ReadBody("ConflictErr")
    [] OTHER -> DecodeDefault

DecodeCreateOrderResponse ==
  CASE response.status = 201 -> ReadBody("CreateOrderResp")
    [] response.status = 400 -> ReadBody("BadRequest")
    [] OTHER -> DecodeDefault

DecodeGetOrderResponse ==
  CASE response.status = 200 -> ReadBody("GetOrderResp")
    [] response.status = 404 -> ReadBody("NotFoundErr")
    [] OTHER -> DecodeDefault

DecodePayOrderResponse ==
  CASE response.status = 200 -> ReadBody("PayOrderResp")
    [] response.status = 400 -> ReadBody("BadRequest")
    [] response.status = 404 -> ReadBody("NotFoundErr")
    [] response.status = 409 -> ReadBody("ConflictErr")
    [] OTHER -> DecodeDefault

DecodeResponse ==
  CASE call.op = "CancelOrder" -> DecodeCancelOrderResponse
    [] call.op = "CreateOrder" -> DecodeCreateOrderResponse
    [] call.op = "GetOrder"    -> DecodeGetOrderResponse
    [] call.op = "PayOrder"    -> DecodePayOrderResponse

Receive ==
  /\ stage = "response"
  /\ stage' = "done"
  /\ outcome' = IF call = NoInput THEN NoResult ELSE DecodeResponse
  /\ UNCHANGED <<call, request, invoked, result, response, table>>

\* The connection breaks before the request arrives or the response does.
Break ==
  /\ stage \in {"request", "response"}
  /\ stage' = "broken"
  /\ outcome' = IF call = NoInput THEN NoResult ELSE ClientError
  /\ UNCHANGED <<call, request, invoked, result, response, table>>

\* The next exchange.
Reset ==
  /\ stage \in {"done", "broken"}
  /\ stage' = "idle"
  /\ call' = NoInput /\ request' = NoRequest /\ invoked' = NoInput
  /\ result' = NoResult /\ response' = NoResponse /\ outcome' = NoResult
  /\ UNCHANGED table

-----------------------------------------------------------------------------
\* What a Go caller may pass: UUIDs that are UUIDs, enums that are any string,
\* arrays that may be empty.
CreateValues == {NoValue} \cup
  {Decode(CreateOrderReq, doc) : doc \in {d \in Documents : Decodes(CreateOrderReq, d)}}
PayValues ==
  {Decode(PayOrderReq, doc) : doc \in {d \in Documents : Decodes(PayOrderReq, d)}}

GeneratedClient ==
  \/ \E body \in CreateValues : SendCreateOrder(body)
  \/ \E o \in UUIDs :
       \/ SendGetOrder(o)
       \/ \E body \in PayValues : SendPayOrder(o, body)
       \/ SendCancelOrder(o)

OtherClient ==
  \E method \in {"GET", "POST", "DELETE", "OPTIONS"},
     path \in Paths, body \in Bodies :
    \E type \in {"", "application/json", "text/plain"} :
      SendRaw(method, path, type, body)

Server ==
  \/ Refuse
  \/ HandleCancelOrderRequest \/ HandleCreateOrderRequest
  \/ HandleGetOrderRequest \/ HandlePayOrderRequest
  \/ CancelOrder \/ CreateOrder \/ GetOrder \/ PayOrder
  \/ EncodeResponse

Next == GeneratedClient \/ OtherClient \/ Server \/ Receive \/ Break \/ Reset

Spec == Init /\ [][Next]_vars

-----------------------------------------------------------------------------
(* Properties.                                                             *)

Stages == {"idle", "request", "handle", "encode", "response", "done", "broken"}

\* Every variable has its type, and every stage has what it works on.
TypeOK ==
  /\ stage \in Stages
  /\ call.op \in Operations \cup {"none"} /\ call.order \in UUIDs
  /\ invoked.op \in Operations \cup {"none"} /\ invoked.order \in UUIDs
  /\ \A o \in Orders :
       table[o] # NoRow => table[o].user \in UUIDs /\ table[o].price \in {0, 1}
  /\ stage \in {"handle", "encode"} => invoked # NoInput
  /\ stage = "encode" => result.type \in DOMAIN Encoders[invoked.op]

\* The generated client returns a result only if the delivery layer, called
\* with exactly what the caller passed, returned that result; and over a
\* connection that holds it returns an error only if the delivery layer was
\* never called.  So a status of the server's own, with a body of another
\* schema, is never taken for an answer of the service.
ClientGetsTheAnswer ==
  call # NoInput /\ stage \in {"done", "broken"} =>
    /\ ~IsError(outcome) => invoked = call /\ outcome = result
    /\ IsError(outcome) /\ stage = "done" => invoked = NoInput

\* The delivery layer is called only with what the API's schema allows: a
\* listed payment method, at least one part unless there was no body at all.
HandlersGetValidInput ==
  /\ invoked.op = "PayOrder" => ValidPayOrderReq(invoked.body)
  /\ invoked.op = "CreateOrder" /\ invoked.body # NoValue =>
       ValidCreateOrderReq(invoked.body)

\* Whatever a client sends, the missing body included, no order without parts
\* is stored.
NoOrderWithoutParts ==
  \A o \in Orders : table[o] # NoRow => table[o].parts # <<>>

\* The paths of order.openapi.yaml: the operation each stands for.
Template == [CreateOrder |-> <<Prefix>>,
             GetOrder    |-> <<Prefix, "/", "{order_uuid}">>,
             PayOrder    |-> <<Prefix, "/", "{order_uuid}", "/", "pay">>,
             CancelOrder |-> <<Prefix, "/", "{order_uuid}", "/", "cancel">>]

Documented(op, order) ==
  [i \in DOMAIN Template[op] |->
     IF Template[op][i] = "{order_uuid}" THEN order ELSE Template[op][i]]

\* An operation is called for no request but one with the method and path that
\* order.openapi.yaml documents for it, with that path's UUID; and such a
\* request is never refused by the router.  (src/README.md:643-649 and :681
\* document something else for CancelOrder: DELETE on the path of GetOrder.
\* By this property that cancels nothing; it is one of the requests that
\* Refuse answers with 405.)
InvokedAsDocumented ==
  /\ invoked # NoInput =>
       /\ request.path = Documented(invoked.op, invoked.order)
       /\ request.method = IF invoked.op = "GetOrder" THEN "GET" ELSE "POST"
  /\ \A op \in Operations : \A o \in UUIDs :
       /\ request.path = Documented(op, o)
       /\ request.method = IF op = "GetOrder" THEN "GET" ELSE "POST"
       => response.status \notin {204, 404, 405} \/ invoked # NoInput
=============================================================================

--------------------------- MODULE OrderAPIProofs ---------------------------
(***************************************************************************)
(* What of the API holds for any documents, paths, UUIDs and enums.        *)
(***************************************************************************)
EXTENDS OrderAPI, SequenceTheorems, WellFoundedInduction, TLAPS

-----------------------------------------------------------------------------
(* The schemas.                                                            *)

(* A value can be decoded into what was encoded: the names of a type's     *)
(* fields are different.                                                   *)
LEMMA RoundTrip ==
  ASSUME NEW T, NEW n \in Nat, DOMAIN T = 1..n,
         \A i, j \in DOMAIN T : T[i].name = T[j].name => i = j,
         NEW s, s = [f \in FieldNames(T) |-> s[f]]
  PROVE  /\ (\A i \in DOMAIN T : Readable(s[T[i].name], T[i].type))
              => Decodes(T, Encode(T, s))
         /\ Decode(T, Encode(T, s)) = s
<1> DEFINE doc == Encode(T, s)
<1>1. /\ DOMAIN doc = DOMAIN T
      /\ \A i \in DOMAIN T : doc[i].name = T[i].name /\ doc[i].value = s[T[i].name]
  BY DEF Encode, Member
<1>2. \A i \in DOMAIN T : Occurs(doc, T[i].name) = {i}
  BY <1>1 DEF Occurs
<1>3. (\A i \in DOMAIN T : Readable(s[T[i].name], T[i].type)) => Decodes(T, doc)
  <2> SUFFICES ASSUME \A i \in DOMAIN T : Readable(s[T[i].name], T[i].type)
               PROVE  Decodes(T, doc)
    OBVIOUS
  <2> HIDE DEF doc
  <2>1. ASSUME NEW i \in DOMAIN doc, NEW f \in DOMAIN T,
               doc[i].name = T[f].name
        PROVE  Readable(doc[i].value, T[f].type)
    <3>1. i = f
      BY <1>1, <2>1
    <3> QED BY <1>1, <3>1
  <2>2. ASSUME NEW f \in FieldNames(T)
        PROVE  Occurs(doc, f) # {}
    <3>1. PICK i \in DOMAIN T : f = T[i].name
      BY DEF FieldNames
    <3> QED BY <1>2, <3>1
  <2> QED BY <2>1, <2>2 DEF Decodes
<1>4. \A i \in DOMAIN T : LastOf({i}) = i
  <2> SUFFICES ASSUME NEW i \in DOMAIN T
               PROVE  LastOf({i}) = i
    OBVIOUS
  <2>1. i \in {i} /\ \A j \in {i} : j <= i
    OBVIOUS
  <2> QED BY <2>1 DEF LastOf
<1>5. \A f \in FieldNames(T) : doc[LastOf(Occurs(doc, f))].value = s[f]
  <2> SUFFICES ASSUME NEW f \in FieldNames(T)
               PROVE  doc[LastOf(Occurs(doc, f))].value = s[f]
    OBVIOUS
  <2> HIDE DEF doc
  <2>1. PICK i \in DOMAIN T : f = T[i].name
    BY DEF FieldNames
  <2> QED BY <1>1, <1>2, <1>4, <2>1
<1>6. Decode(T, doc) = s
  <2> HIDE DEF doc
  <2> QED BY <1>5 DEF Decode
<1> QED BY <1>3, <1>6

(* Validate is called of the right type: no two that have one are alike.   *)
LEMMA TypesDiffer ==
  /\ CreateOrderReq \notin {CreateOrderResp, GetOrderResp, PayOrderReq}
  /\ CreateOrderResp \notin {GetOrderResp, PayOrderReq}
  /\ GetOrderResp # PayOrderReq
<1>1. Len(CreateOrderReq) = 2 /\ Len(CreateOrderResp) = 2
      /\ Len(GetOrderResp) = 7 /\ Len(PayOrderReq) = 1
  BY DEF CreateOrderReq, CreateOrderResp, GetOrderResp, PayOrderReq
<1>2. CreateOrderReq[1].name # CreateOrderResp[1].name
  BY DEF CreateOrderReq, CreateOrderResp, Field
<1> QED BY <1>1, <1>2

(* So each is validated as it should be.                                   *)
LEMMA ValidIs ==
  ASSUME NEW s
  PROVE  /\ Valid(CreateOrderReq, s) = ValidCreateOrderReq(s)
         /\ Valid(CreateOrderResp, s) = ValidCreateOrderResp(s)
         /\ Valid(GetOrderResp, s) = ValidGetOrderResp(s)
         /\ Valid(PayOrderReq, s) = ValidPayOrderReq(s)
BY TypesDiffer DEF Valid

\* The fields of a type are numbered, and their names are different.
Proper(T) ==
  \E n \in Nat : /\ DOMAIN T = 1..n
                 /\ \A i, j \in 1..n : T[i].name = T[j].name => i = j

\* A struct of a type, which Validate accepts.
Fits(T, s) ==
  /\ s = [f \in FieldNames(T) |-> s[f]]
  /\ \A i \in DOMAIN T : Readable(s[T[i].name], T[i].type)
  /\ Valid(T, s)

ErrorBody == Object(<<Member("error_message", Text("error"))>>)

(* All of them are proper, and none looks like the error handler's body.   *)
LEMMA SchemasAreProper ==
  /\ Proper(CreateOrderReq) /\ Proper(PayOrderReq)
  /\ \A type \in DOMAIN SchemaOf :
       /\ Proper(SchemaOf[type])
       /\ \E f \in FieldNames(SchemaOf[type]) : f # "error_message"
<1> USE DEF Proper, FieldNames, Field
<1>1. Proper(ErrorFields) /\ \E f \in FieldNames(ErrorFields) : f # "error_message"
  <2>1. DOMAIN ErrorFields = 1..2 /\ ErrorFields[1].name = "code"
        /\ ErrorFields[2].name = "message"
    BY DEF ErrorFields
  <2> QED BY <2>1
<1>2. Proper(CreateOrderReq)
  <2>1. DOMAIN CreateOrderReq = 1..2 /\ CreateOrderReq[1].name = "user_uuid"
        /\ CreateOrderReq[2].name = "part_uuids"
    BY DEF CreateOrderReq
  <2> QED BY <2>1
<1>3. Proper(CreateOrderResp)
      /\ \E f \in FieldNames(CreateOrderResp) : f # "error_message"
  <2>1. DOMAIN CreateOrderResp = 1..2 /\ CreateOrderResp[1].name = "uuid"
        /\ CreateOrderResp[2].name = "total_price"
    BY DEF CreateOrderResp
  <2> QED BY <2>1
<1>4. Proper(PayOrderReq)
  <2>1. DOMAIN PayOrderReq = 1..1
    BY DEF PayOrderReq
  <2> QED BY <2>1
<1>5. Proper(PayOrderResp)
      /\ \E f \in FieldNames(PayOrderResp) : f # "error_message"
  <2>1. DOMAIN PayOrderResp = 1..1 /\ PayOrderResp[1].name = "transaction_uuid"
    BY DEF PayOrderResp
  <2> QED BY <2>1
<1>6. Proper(GetOrderResp)
      /\ \E f \in FieldNames(GetOrderResp) : f # "error_message"
  <2>1. /\ DOMAIN GetOrderResp = 1..7
        /\ GetOrderResp[1].name = "order_uuid"
        /\ GetOrderResp[2].name = "user_uuid"
        /\ GetOrderResp[3].name = "part_uuids"
        /\ GetOrderResp[4].name = "total_price"
        /\ GetOrderResp[5].name = "transaction_uuid"
        /\ GetOrderResp[6].name = "payment_method"
        /\ GetOrderResp[7].name = "status"
    BY DEF GetOrderResp
  <2> QED BY <2>1
<1> HIDE DEF Proper, FieldNames, Field
<1> QED BY <1>1, <1>2, <1>3, <1>4, <1>5, <1>6
        DEF SchemaOf, BadRequest, ConflictErr, NotFoundErr, UnexpectedErr

(* What was encoded is read back.                                          *)
LEMMA ReadBackIs ==
  ASSUME NEW type \in DOMAIN SchemaOf, NEW s, Fits(SchemaOf[type], s),
         response.type = "application/json",
         response.body = Object(Encode(SchemaOf[type], s))
  PROVE  ReadBody(type) = Result(type, s)
<1> DEFINE T == SchemaOf[type]
<1>1. Decodes(T, Encode(T, s)) /\ Decode(T, Encode(T, s)) = s
  <2> HIDE DEF T
  <2>1. Proper(T)
    BY SchemasAreProper DEF T
  <2>2. PICK n \in Nat : /\ DOMAIN T = 1..n
                         /\ \A i, j \in 1..n : T[i].name = T[j].name => i = j
    BY <2>1 DEF Proper
  <2>3. /\ s = [f \in FieldNames(T) |-> s[f]]
        /\ \A i \in DOMAIN T : Readable(s[T[i].name], T[i].type)
    BY DEF Fits, T
  <2>4. \A i, j \in DOMAIN T : T[i].name = T[j].name => i = j
    BY <2>2
  <2> QED BY <2>2, <2>3, <2>4, RoundTrip
<1>2. Valid(T, s)
  BY DEF Fits
<1>3. response.body.doc = Encode(T, s) /\ response.body.kind = "object"
  BY DEF Object, Body
<1> HIDE DEF T
<1> QED BY <1>1, <1>2, <1>3 DEF ReadBody, T

(* The error handler's body is no answer of the service.                   *)
LEMMA ReadErrorIs ==
  ASSUME NEW type \in DOMAIN SchemaOf, response.body = ErrorBody
  PROVE  ReadBody(type) = ClientError
<1> DEFINE T == SchemaOf[type]
<1>1. PICK f \in FieldNames(T) : f # "error_message"
  BY SchemasAreProper
<1>2. Occurs(response.body.doc, f) = {}
  <2>1. /\ DOMAIN response.body.doc = 1..1
        /\ response.body.doc[1].name = "error_message"
    BY DEF ErrorBody, Object, Body, Member
  <2> QED BY <1>1, <2>1 DEF Occurs
<1>3. ~Decodes(T, response.body.doc)
  BY <1>1, <1>2 DEF Decodes
<1> HIDE DEF T
<1> QED BY <1>3 DEF ReadBody, T

\* A result an operation may return.
Fitting(op, r) ==
  /\ op \in Operations
  /\ r.type \in DOMAIN Encoders[op]
  /\ r = Result(r.type, r.struct)
  /\ IF r.type = "CancelOrderNoContent" THEN r.struct = NoValue
     ELSE Fits(SchemaOf[r.type], r.struct)

\* How it is encoded.
ResponseOf(op, r) ==
  LET status == Encoders[op][r.type] IN
  IF r.type = "CancelOrderNoContent" THEN Response(status, "", EmptyBody)
  ELSE Response(status, "application/json",
                Object(Encode(SchemaOf[r.type], r.struct)))

(* What each operation may return, and with which status.                  *)
LEMMA StatusOf ==
  ASSUME NEW op \in Operations, NEW type \in DOMAIN Encoders[op]
  PROVE  LET status == Encoders[op][type] IN
    \/ /\ op = "CancelOrder"
       /\ \/ type = "CancelOrderNoContent" /\ status = 204
          \/ type = "NotFoundErr" /\ status = 404
          \/ type = "ConflictErr" /\ status = 409
    \/ /\ op = "CreateOrder"
       /\ \/ type = "CreateOrderResp" /\ status = 201
          \/ type = "BadRequest" /\ status = 400
    \/ /\ op = "GetOrder"
       /\ \/ type = "GetOrderResp" /\ status = 200
          \/ type = "NotFoundErr" /\ status = 404
    \/ /\ op = "PayOrder"
       /\ \/ type = "PayOrderResp" /\ status = 200
          \/ type = "BadRequest" /\ status = 400
          \/ type = "NotFoundErr" /\ status = 404
          \/ type = "ConflictErr" /\ status = 409
BY DEF Operations, Encoders, EncodeCancelOrderResponse,
       EncodeCreateOrderResponse, EncodeGetOrderResponse, EncodePayOrderResponse

(* The client gets back what was encoded for it.                           *)
LEMMA AnswerIsRead ==
  ASSUME NEW r, Fitting(call.op, r), response = ResponseOf(call.op, r)
  PROVE  DecodeResponse = r /\ ~IsError(r)
<1>1. call.op \in Operations /\ r.type \in DOMAIN Encoders[call.op]
      /\ r = Result(r.type, r.struct)
  BY DEF Fitting
<1>2. response.status = Encoders[call.op][r.type]
  BY DEF ResponseOf, Response
<1>3. CASE r.type = "CancelOrderNoContent"
  <2>1. call.op = "CancelOrder" /\ response.status = 204
    BY <1>1, <1>2, <1>3, StatusOf
  <2>2. r = Result("CancelOrderNoContent", NoValue)
    BY <1>1, <1>3 DEF Fitting
  <2> QED BY <1>3, <2>1, <2>2
          DEF DecodeResponse, DecodeCancelOrderResponse, IsError
<1>4. CASE r.type # "CancelOrderNoContent"
  <2>1. r.type \in DOMAIN SchemaOf \ {"UnexpectedErr"}
    BY <1>1, <1>4, StatusOf DEF SchemaOf
  <2>2. /\ response.type = "application/json"
        /\ response.body = Object(Encode(SchemaOf[r.type], r.struct))
        /\ Fits(SchemaOf[r.type], r.struct)
    BY <1>4 DEF ResponseOf, Response, Fitting
  <2>3. ReadBody(r.type) = r
    BY <1>1, <2>1, <2>2, ReadBackIs
  <2>4. DecodeResponse = ReadBody(r.type)
    <3>1. CASE call.op = "CancelOrder"
      BY <1>1, <1>2, <1>4, <3>1, StatusOf
         DEF DecodeResponse, DecodeCancelOrderResponse
    <3>2. CASE call.op = "CreateOrder"
      BY <1>1, <1>2, <1>4, <3>2, StatusOf
         DEF DecodeResponse, DecodeCreateOrderResponse
    <3>3. CASE call.op = "GetOrder"
      BY <1>1, <1>2, <1>4, <3>3, StatusOf
         DEF DecodeResponse, DecodeGetOrderResponse
    <3>4. CASE call.op = "PayOrder"
      BY <1>1, <1>2, <1>4, <3>4, StatusOf
         DEF DecodeResponse, DecodePayOrderResponse
    <3> QED BY <1>1, <3>1, <3>2, <3>3, <3>4 DEF Operations
  <2>5. ~IsError(r)
    BY <2>1 DEF IsError, SchemaOf
  <2> QED BY <2>3, <2>4, <2>5
<1> QED BY <1>3, <1>4

(* A refusal is an error to the client.                                    *)
LEMMA RefusalIsError ==
  ASSUME call.op \in Operations, response.body = ErrorBody,
         response.status # 204
  PROVE  IsError(DecodeResponse)
<1>1. \A type \in DOMAIN SchemaOf : ReadBody(type) = ClientError
  BY ReadErrorIs
<1>2. {"NotFoundErr", "ConflictErr", "BadRequest", "CreateOrderResp",
       "GetOrderResp", "PayOrderResp", "UnexpectedErr"} \subseteq DOMAIN SchemaOf
  BY DEF SchemaOf
<1>3. DecodeResponse = ClientError
  <2>1. CASE call.op = "CancelOrder"
    BY <1>1, <1>2, <2>1
       DEF DecodeResponse, DecodeCancelOrderResponse, DecodeDefault
  <2>2. CASE call.op = "CreateOrder"
    BY <1>1, <1>2, <2>2
       DEF DecodeResponse, DecodeCreateOrderResponse, DecodeDefault
  <2>3. CASE call.op = "GetOrder"
    BY <1>1, <1>2, <2>3
       DEF DecodeResponse, DecodeGetOrderResponse, DecodeDefault
  <2>4. CASE call.op = "PayOrder"
    BY <1>1, <1>2, <2>4
       DEF DecodeResponse, DecodePayOrderResponse, DecodeDefault
  <2> QED BY <2>1, <2>2, <2>3, <2>4 DEF Operations
<1> QED BY <1>3 DEF IsError, ClientError, Result

(* Positions have a last one.                                              *)
LEMMA LastIsThere ==
  ASSUME NEW n \in Nat, NEW S, S \subseteq 1..n, S # {}
  PROVE  LastOf(S) \in S
<1> DEFINE R == OpToRel(<, Nat)
           fromEnd == {n - i : i \in S}
<1>1. fromEnd \subseteq Nat /\ fromEnd # {}
  <2>1. \A i \in S : n - i \in Nat
    OBVIOUS
  <2> QED BY <2>1
<1>2. \E x \in fromEnd : \A y \in fromEnd : ~ (<<y, x>> \in R)
  <2>1. IsWellFoundedOn(R, Nat)
    BY NatLessThanWellFounded DEF R
  <2> HIDE DEF fromEnd, R
  <2> QED BY <1>1, <2>1, WFMin
<1>3. PICK x \in fromEnd : \A y \in fromEnd : ~ (<<y, x>> \in R)
  BY <1>2
<1>4. \A y \in fromEnd : ~ (y < x)
  <2>1. \A y \in Nat : y < x => <<y, x>> \in R
    BY <1>1 DEF OpToRel
  <2> HIDE DEF fromEnd, R
  <2> QED BY <1>1, <1>3, <2>1
<1>5. PICK i \in S : x = n - i
  OBVIOUS
<1>6. \A j \in S : j <= i
  BY <1>4, <1>5
<1> QED BY <1>5, <1>6 DEF LastOf

(* A part of a sequence, piece by piece.                                   *)
LEMMA SliceIs ==
  ASSUME NEW S, NEW s \in Seq(S), NEW t \in Seq(S), NEW m \in 1..(Len(s) + 1),
         Len(t) = Len(s) - m + 1, \A i \in 1..Len(t) : t[i] = s[m + i - 1]
  PROVE  SubSeq(s, m, Len(s)) = t
<1>1. \A i \in m..Len(s) : s[i] \in S
  OBVIOUS
<1>2. /\ SubSeq(s, m, Len(s)) \in Seq(S)
      /\ Len(SubSeq(s, m, Len(s))) = Len(t)
      /\ \A i \in 1..Len(t) : SubSeq(s, m, Len(s))[i] = s[m + i - 1]
  BY <1>1, SubSeqProperties
<1> QED BY <1>2, SeqEqual

(* A sequence of its first piece.                                         *)
LEMMA First ==
  ASSUME NEW S, NEW s \in Seq(S), Len(s) >= 1
  PROVE  SubSeq(s, 1, 1) = <<s[1]>>
<1>1. /\ SubSeq(s, 1, 1) \in Seq(S)
      /\ Len(SubSeq(s, 1, 1)) = 1 /\ SubSeq(s, 1, 1)[1] = s[1]
  BY SubSeqProperties
<1>2. /\ <<s[1]>> \in Seq(S) /\ Len(<<s[1]>>) = 1
      /\ \A i \in 1..1 : <<s[1]>>[i] = s[1]
  OBVIOUS
<1>3. \A i \in 1..1 : SubSeq(s, 1, 1)[i] = <<s[1]>>[i]
  BY <1>1, <1>2
<1> QED BY <1>1, <1>2, <1>3, SeqEqual

(* The parameter ends at the first slash, which is no UUID.                *)
LEMMA RouteOrderOf ==
  ASSUME NEW o \in UUIDs
  PROVE  /\ RouteOrder(<<o>>) = Leaf("GET", "GetOrder", <<o>>)
         /\ RouteOrder(<<o, "/", "pay">>) = Leaf("POST", "PayOrder", <<o>>)
         /\ RouteOrder(<<o, "/", "cancel">>) = Leaf("POST", "CancelOrder", <<o>>)
<1>1. o # "/"
  BY APIConstants
<1>4. <<"/", "pay">> # <<>> /\ <<"/", "cancel">> # <<>>
      /\ <<"/", "pay">> # <<"/", "cancel">>
  OBVIOUS
<1>2. RouteOrder(<<o>>) = Leaf("GET", "GetOrder", <<o>>)
  <2> DEFINE elem == <<o>>
  <2>1. ParamEnd(elem) = 2
    BY <1>1 DEF ParamEnd
  <2>2. elem \in Seq({o}) /\ Len(elem) = 1 /\ elem[1] = o
    OBVIOUS
  <2>3. RouteOrder(elem) = Leaf("GET", "GetOrder", <<o>>)
    <3> HIDE DEF elem
    <3>1. SubSeq(elem, 1, 1) = <<o>> /\ SubSeq(elem, 2, 1) = <<>>
      BY <2>2, First, SubSeqEmpty
    <3>2. /\ SubSeq(elem, 1, ParamEnd(elem) - 1) = <<o>>
          /\ SubSeq(elem, ParamEnd(elem), Len(elem)) = <<>>
      BY <2>1, <2>2, <3>1
    <3> QED BY <1>4, <3>2 DEF RouteOrder
  <2> QED BY <2>3
<1>3. ASSUME NEW verb \in {"pay", "cancel"}
      PROVE  /\ ParamEnd(<<o, "/", verb>>) = 2
             /\ SubSeq(<<o, "/", verb>>, 1, 1) = <<o>>
             /\ SubSeq(<<o, "/", verb>>, 2, 3) = <<"/", verb>>
  <2> DEFINE elem == <<o, "/", verb>>
  <2>1. /\ elem \in Seq({o, "/", verb}) /\ <<"/", verb>> \in Seq({o, "/", verb})
        /\ Len(elem) = 3 /\ DOMAIN elem = 1..3
        /\ elem[1] # "/" /\ elem[2] = "/" /\ elem[3] # "/"
        /\ elem[1] = o /\ elem[3] = verb
    BY <1>1
  <2>2. ParamEnd(elem) = 2
    <3> HIDE DEF elem
    <3>1. \A i \in DOMAIN elem :
            elem[i] = "/" /\ (\A j \in 1..(i - 1) : elem[j] # "/") <=> i = 2
      BY <2>1
    <3> QED BY <2>1, <3>1 DEF ParamEnd
  <2>3. SubSeq(elem, 1, 1) = <<o>>
    <3> HIDE DEF elem
    <3> QED BY <2>1, First
  <2>4. SubSeq(elem, 2, Len(elem)) = <<"/", verb>>
    <3> DEFINE rest == <<"/", verb>>
    <3>1. /\ rest \in Seq({o, "/", verb}) /\ Len(rest) = 2
          /\ \A i \in 1..2 : rest[i] = elem[2 + i - 1]
      BY <2>1
    <3>2. SubSeq(elem, 2, Len(elem)) = rest
      <4> HIDE DEF elem, rest
      <4> QED BY <2>1, <3>1, SliceIs
    <3> QED BY <3>2
  <2> QED BY <2>1, <2>2, <2>3, <2>4
<1>5. RouteOrder(<<o, "/", "pay">>) = Leaf("POST", "PayOrder", <<o>>)
  <2> DEFINE elem == <<o, "/", "pay">>
  <2>1. ParamEnd(elem) = 2 /\ Len(elem) = 3 /\ SubSeq(elem, 1, 1) = <<o>>
        /\ SubSeq(elem, 2, 3) = <<"/", "pay">>
    BY <1>3
  <2>2. RouteOrder(elem) = Leaf("POST", "PayOrder", <<o>>)
    <3> HIDE DEF elem
    <3>1. /\ SubSeq(elem, 1, ParamEnd(elem) - 1) = <<o>>
          /\ SubSeq(elem, ParamEnd(elem), Len(elem)) = <<"/", "pay">>
      BY <2>1
    <3> QED BY <1>4, <3>1 DEF RouteOrder
  <2> QED BY <2>2
<1>6. RouteOrder(<<o, "/", "cancel">>) = Leaf("POST", "CancelOrder", <<o>>)
  <2> DEFINE elem == <<o, "/", "cancel">>
  <2>1. ParamEnd(elem) = 2 /\ Len(elem) = 3 /\ SubSeq(elem, 1, 1) = <<o>>
        /\ SubSeq(elem, 2, 3) = <<"/", "cancel">>
    BY <1>3
  <2>2. RouteOrder(elem) = Leaf("POST", "CancelOrder", <<o>>)
    <3> HIDE DEF elem
    <3>1. /\ SubSeq(elem, 1, ParamEnd(elem) - 1) = <<o>>
          /\ SubSeq(elem, ParamEnd(elem), Len(elem)) = <<"/", "cancel">>
      BY <2>1
    <3> QED BY <1>4, <3>1 DEF RouteOrder
  <2> QED BY <2>2
<1> QED BY <1>2, <1>5, <1>6

(* Each documented path leads to its operation.                            *)
LEMMA RouteOf ==
  ASSUME NEW o \in UUIDs
  PROVE  /\ Route(<<Prefix>>) = Leaf("POST", "CreateOrder", <<>>)
         /\ Route(<<Prefix, "/", o>>) = Leaf("GET", "GetOrder", <<o>>)
         /\ Route(<<Prefix, "/", o, "/", "pay">>) = Leaf("POST", "PayOrder", <<o>>)
         /\ Route(<<Prefix, "/", o, "/", "cancel">>)
              = Leaf("POST", "CancelOrder", <<o>>)
<1>1. ASSUME NEW S, NEW elem, NEW path, elem \in Seq(S), path \in Seq(S),
             Len(elem) >= 1, Len(path) = Len(elem) + 2,
             path[1] = Prefix, path[2] = "/",
             \A i \in 1..Len(elem) : path[2 + i] = elem[i]
      PROVE  Route(path) = RouteOrder(elem)
  <2>1. SubSeq(path, 3, Len(path)) = elem
    BY <1>1, SliceIs
  <2>2. path # <<Prefix>> /\ Len(path) >= 2
    BY <1>1
  <2> QED BY <1>1, <2>1, <2>2 DEF Route
<1>2. Route(<<Prefix, "/", o>>) = RouteOrder(<<o>>)
  <2> DEFINE S == {Prefix, "/", o}
             elem == <<o>>
             path == <<Prefix, "/", o>>
  <2>1. /\ elem \in Seq(S) /\ path \in Seq(S)
        /\ Len(elem) = 1 /\ Len(path) = 3
        /\ path[1] = Prefix /\ path[2] = "/"
        /\ \A i \in 1..1 : path[2 + i] = elem[i]
    OBVIOUS
  <2>2. Route(path) = RouteOrder(elem)
    <3>1. Len(elem) >= 1 /\ Len(path) = Len(elem) + 2
      BY <2>1
    <3>2. \A i \in 1..Len(elem) : path[2 + i] = elem[i]
      BY <2>1
    <3> HIDE DEF S, elem, path
    <3> QED BY <1>1, <2>1, <3>1, <3>2
  <2> QED BY <2>2
<1>3. ASSUME NEW verb
      PROVE  Route(<<Prefix, "/", o, "/", verb>>) = RouteOrder(<<o, "/", verb>>)
  <2> DEFINE S == {Prefix, "/", o, verb}
             elem == <<o, "/", verb>>
             path == <<Prefix, "/", o, "/", verb>>
  <2>1. /\ elem \in Seq(S) /\ path \in Seq(S)
        /\ Len(elem) = 3 /\ Len(path) = 5
        /\ path[1] = Prefix /\ path[2] = "/"
        /\ \A i \in 1..3 : path[2 + i] = elem[i]
    OBVIOUS
  <2>2. Route(path) = RouteOrder(elem)
    <3>1. Len(elem) >= 1 /\ Len(path) = Len(elem) + 2
      BY <2>1
    <3>2. \A i \in 1..Len(elem) : path[2 + i] = elem[i]
      BY <2>1
    <3> HIDE DEF S, elem, path
    <3> QED BY <1>1, <2>1, <3>1, <3>2
  <2> QED BY <2>2
<1>4. Route(<<Prefix>>) = Leaf("POST", "CreateOrder", <<>>)
  BY DEF Route
<1> QED BY <1>2, <1>3, <1>4, RouteOrderOf

\* A call of the client and its request on the wire.
SentCreate(body) ==
  LET wire == EncodeCreateOrderRequest(body) IN
  /\ call = Input("CreateOrder", NilUUID, body)
  /\ request = Request("POST", <<Prefix>>, TypeOf(wire), wire)

SentGet(o) ==
  /\ call = Input("GetOrder", o, NoValue)
  /\ request = Request("GET", <<Prefix, "/", o>>, TypeOf(EmptyBody), EmptyBody)

SentCancel(o) ==
  /\ call = Input("CancelOrder", o, NoValue)
  /\ request = Request("POST", <<Prefix, "/", o, "/", "cancel">>,
                       TypeOf(EmptyBody), EmptyBody)

SentPay(o, body) ==
  /\ call = Input("PayOrder", o, body)
  /\ request = Request("POST", <<Prefix, "/", o, "/", "pay">>,
                       "application/json", EncodePayOrderRequest(body))

Sent ==
  call # NoInput =>
    \/ \E body \in CreateValues : SentCreate(body)
    \/ \E o \in UUIDs : SentGet(o)
    \/ \E o \in UUIDs : SentCancel(o)
    \/ \E o \in UUIDs, body \in PayValues : SentPay(o, body)

\* The request leads to the operation that was asked for.
LeadsThere ==
  LET leaf == Route(request.path) IN
  /\ call.op \in Operations
  /\ leaf.op = call.op /\ request.method = leaf.method
  /\ call.op # "CreateOrder" =>
       call.order \in UUIDs /\ leaf.param = <<call.order>>

(* The router leads a call to its operation, and to no other.              *)
LEMMA CallIsRouted ==
  ASSUME Sent, call # NoInput
  PROVE  LeadsThere
<1>0. /\ \A op, o, b : /\ Input(op, o, b).op = op
                        /\ Input(op, o, b).order = o
                        /\ Input(op, o, b).body = b
      /\ \A m, p, t, b : Request(m, p, t, b).path = p /\ Request(m, p, t, b).method = m
      /\ \A m, op, p : /\ Leaf(m, op, p).method = m /\ Leaf(m, op, p).op = op
                       /\ Leaf(m, op, p).param = p
  BY DEF Input, Request, Leaf
<1>1. ASSUME NEW body \in CreateValues, SentCreate(body)
      PROVE  LeadsThere
  <2>1. Route(<<Prefix>>) = Leaf("POST", "CreateOrder", <<>>)
    BY RouteOf, APIConstants
  <2> QED BY <1>0, <1>1, <2>1 DEF SentCreate, LeadsThere, Operations
<1>2. ASSUME NEW o \in UUIDs, SentGet(o)
      PROVE  LeadsThere
  <2>1. Route(<<Prefix, "/", o>>) = Leaf("GET", "GetOrder", <<o>>)
    BY RouteOf
  <2> QED BY <1>0, <1>2, <2>1 DEF SentGet, LeadsThere, Operations
<1>3. ASSUME NEW o \in UUIDs, SentCancel(o)
      PROVE  LeadsThere
  <2>1. Route(<<Prefix, "/", o, "/", "cancel">>)
          = Leaf("POST", "CancelOrder", <<o>>)
    BY RouteOf
  <2> QED BY <1>0, <1>3, <2>1 DEF SentCancel, LeadsThere, Operations
<1>4. ASSUME NEW o \in UUIDs, NEW body \in PayValues, SentPay(o, body)
      PROVE  LeadsThere
  <2>1. Route(<<Prefix, "/", o, "/", "pay">>) = Leaf("POST", "PayOrder", <<o>>)
    BY RouteOf
  <2> QED BY <1>0, <1>4, <2>1 DEF SentPay, LeadsThere, Operations
<1> QED BY <1>1, <1>2, <1>3, <1>4 DEF Sent

(* What a caller passed is what the service decodes, if it does.           *)
LEMMA CallIsDecoded ==
  ASSUME Sent, call # NoInput
  PROVE  /\ call.op = "CreateOrder" =>
              /\ DecodeCreateOrderRequest.code = 0 =>
                   call = Input("CreateOrder", NilUUID, DecodeCreateOrderRequest.value)
              /\ DecodeCreateOrderRequest.code # 204
         /\ call.op = "PayOrder" =>
              /\ DecodePayOrderRequest.code = 0 =>
                   call = Input("PayOrder", call.order, DecodePayOrderRequest.value)
              /\ DecodePayOrderRequest.code # 204
         /\ call.op \in {"GetOrder", "CancelOrder"} =>
              call = Input(call.op, call.order, NoValue)
<1>1. ASSUME NEW T, Proper(T), NEW doc, NEW body, body = Decode(T, doc)
      PROVE  Decode(T, Encode(T, body)) = body
  <2>1. body = [f \in FieldNames(T) |-> body[f]]
    BY <1>1 DEF Decode
  <2>2. PICK n \in Nat : /\ DOMAIN T = 1..n
                         /\ \A i, j \in 1..n : T[i].name = T[j].name => i = j
    BY <1>1 DEF Proper
  <2>3. \A i, j \in DOMAIN T : T[i].name = T[j].name => i = j
    BY <2>2
  <2> QED BY <2>1, <2>2, <2>3, RoundTrip
<1>2. \A T : /\ DecodeJSON(T).code = 0 =>
                  DecodeJSON(T).value = Decode(T, request.body.doc)
             /\ DecodeJSON(T).code \in {0, 400}
  BY DEF DecodeJSON, Decoded, Refusal
<1>3. ASSUME NEW body \in CreateValues, SentCreate(body)
      PROVE  /\ DecodeCreateOrderRequest.code = 0 =>
                  DecodeCreateOrderRequest.value = body
             /\ DecodeCreateOrderRequest.code # 204
  <2>1. CASE body = NoValue
    <3>1. request.type = "" /\ request.body.kind = "empty"
      BY <1>3, <2>1
         DEF SentCreate, EncodeCreateOrderRequest, TypeOf, Request, EmptyBody, Body
    <3>2. DecodeCreateOrderRequest = Decoded(NoValue)
      BY <3>1 DEF DecodeCreateOrderRequest
    <3> QED BY <2>1, <3>2 DEF Decoded
  <2>2. CASE body # NoValue
    <3>1. /\ request.type = "application/json" /\ request.body.kind = "object"
          /\ request.body.doc = Encode(CreateOrderReq, body)
      BY <1>3, <2>2
         DEF SentCreate, EncodeCreateOrderRequest, TypeOf, Request, Object, Body
    <3>2. DecodeCreateOrderRequest = DecodeJSON(CreateOrderReq)
      BY <3>1 DEF DecodeCreateOrderRequest
    <3>3. PICK doc : body = Decode(CreateOrderReq, doc)
      BY <2>2 DEF CreateValues
    <3>4. Decode(CreateOrderReq, Encode(CreateOrderReq, body)) = body
      BY <1>1, <3>3, SchemasAreProper
    <3> QED BY <1>2, <3>1, <3>2, <3>4
  <2> QED BY <2>1, <2>2
<1>4. ASSUME NEW o \in UUIDs, NEW body \in PayValues, SentPay(o, body)
      PROVE  /\ DecodePayOrderRequest.code = 0 =>
                  DecodePayOrderRequest.value = body
             /\ DecodePayOrderRequest.code # 204
  <2>1. /\ request.type = "application/json" /\ request.body.kind = "object"
        /\ request.body.doc = Encode(PayOrderReq, body)
    BY <1>4 DEF SentPay, EncodePayOrderRequest, Request, Object, Body
  <2>2. DecodePayOrderRequest = DecodeJSON(PayOrderReq)
    BY <2>1 DEF DecodePayOrderRequest
  <2>3. PICK doc : body = Decode(PayOrderReq, doc)
    BY DEF PayValues
  <2>4. Decode(PayOrderReq, Encode(PayOrderReq, body)) = body
    BY <1>1, <2>3, SchemasAreProper
  <2> QED BY <1>2, <2>1, <2>2, <2>4
<1>5. /\ \A body : SentCreate(body) =>
           call = Input("CreateOrder", NilUUID, body) /\ call.op = "CreateOrder"
      /\ \A o : SentGet(o) =>
           call = Input("GetOrder", call.order, NoValue) /\ call.op = "GetOrder"
      /\ \A o : SentCancel(o) =>
           call = Input("CancelOrder", call.order, NoValue)
             /\ call.op = "CancelOrder"
      /\ \A o, body : SentPay(o, body) =>
           call = Input("PayOrder", call.order, body) /\ call.op = "PayOrder"
  <2>1. \A op, o, b : Input(op, o, b).op = op /\ Input(op, o, b).order = o
    BY DEF Input
  <2> QED BY <2>1 DEF SentCreate, SentGet, SentCancel, SentPay
<1>6. CASE \E body \in CreateValues : SentCreate(body)
  BY <1>3, <1>5, <1>6
<1>7. CASE \E o \in UUIDs, body \in PayValues : SentPay(o, body)
  BY <1>4, <1>5, <1>7
<1>8. CASE \E o \in UUIDs : SentGet(o) \/ SentCancel(o)
  BY <1>5, <1>8
<1> QED BY <1>6, <1>7, <1>8 DEF Sent

-----------------------------------------------------------------------------
(* What the delivery layer is given and returns.                           *)

(* The fields of what was decoded can be read: the last occurrence of each *)
(* is one of those the decoder has looked at.                              *)
LEMMA DecodedIsReadable ==
  ASSUME NEW T, NEW doc, NEW n \in Nat, DOMAIN doc = 1..n, Decodes(T, doc)
  PROVE  \A f \in DOMAIN T : Readable(Decode(T, doc)[T[f].name], T[f].type)
<1> SUFFICES ASSUME NEW f \in DOMAIN T
             PROVE  Readable(Decode(T, doc)[T[f].name], T[f].type)
  OBVIOUS
<1> DEFINE S == Occurs(doc, T[f].name)
<1>1. T[f].name \in FieldNames(T)
  BY DEF FieldNames
<1>2. S # {} /\ S \subseteq 1..n
  BY <1>1 DEF Decodes, Occurs
<1>3. LastOf(S) \in S
  <2> HIDE DEF S
  <2> QED BY <1>2, LastIsThere
<1>4. LastOf(S) \in DOMAIN doc /\ doc[LastOf(S)].name = T[f].name
  BY <1>3 DEF Occurs
<1>5. Readable(doc[LastOf(S)].value, T[f].type)
  BY <1>4 DEF Decodes
<1> QED BY <1>1, <1>5 DEF Decode

\* The input of CreateOrder is a user and parts that are UUIDs.
Usable(in) ==
  in.op = "CreateOrder" /\ in.body # NoValue =>
    /\ in.body["user_uuid"].text \in UUIDs
    /\ \A i \in DOMAIN in.body["part_uuids"].items :
         in.body["part_uuids"].items[i] \in UUIDs

\* The decoder meets the members of a body one after the other.
Wire == \E n \in Nat : DOMAIN request.body.doc = 1..n

(* CreateOrder's input is usable, whoever sent it.                         *)
LEMMA CreateIsUsable ==
  ASSUME Wire, DecodeCreateOrderRequest.code = 0
  PROVE  Usable(Input("CreateOrder", NilUUID, DecodeCreateOrderRequest.value))
<1> DEFINE doc == request.body.doc
           v == DecodeCreateOrderRequest.value
<1>1. v = NoValue \/ (Decodes(CreateOrderReq, doc) /\ v = Decode(CreateOrderReq, doc))
  <2>1. DecodeJSON(CreateOrderReq).code = 0 =>
          /\ Decodes(CreateOrderReq, doc)
          /\ DecodeJSON(CreateOrderReq).value = Decode(CreateOrderReq, doc)
    BY DEF DecodeJSON, Decoded, Refusal
  <2> QED BY <2>1 DEF DecodeCreateOrderRequest, Decoded, Refusal
<1>2. ASSUME Decodes(CreateOrderReq, doc), v = Decode(CreateOrderReq, doc)
      PROVE  /\ Readable(v["user_uuid"], "uuid")
             /\ Readable(v["part_uuids"], "uuids")
  <2>1. /\ 1 \in DOMAIN CreateOrderReq /\ 2 \in DOMAIN CreateOrderReq
        /\ CreateOrderReq[1].name = "user_uuid" /\ CreateOrderReq[1].type = "uuid"
        /\ CreateOrderReq[2].name = "part_uuids" /\ CreateOrderReq[2].type = "uuids"
    BY DEF CreateOrderReq, Field
  <2>2. PICK n \in Nat : DOMAIN doc = 1..n
    BY DEF Wire
  <2>3. \A f \in DOMAIN CreateOrderReq :
          Readable(Decode(CreateOrderReq, doc)[CreateOrderReq[f].name],
                   CreateOrderReq[f].type)
    BY <1>2, <2>2, DecodedIsReadable
  <2> HIDE DEF v
  <2> QED BY <1>2, <2>1, <2>3
<1>3. \A w : Readable(w, "uuid") => w.text \in UUIDs
  BY DEF Readable, IsUUID
<1>4. \A w : Readable(w, "uuids") => \A i \in DOMAIN w.items : w.items[i] \in UUIDs
  BY DEF Readable
<1>5. Usable(Input("CreateOrder", NilUUID, v))
  <2>1. \A w : Input("CreateOrder", NilUUID, w).body = w
    BY DEF Input
  <2> HIDE DEF v
  <2>2. v # NoValue => /\ v["user_uuid"].text \in UUIDs
                       /\ \A i \in DOMAIN v["part_uuids"].items :
                            v["part_uuids"].items[i] \in UUIDs
    BY <1>1, <1>2, <1>3, <1>4
  <2> QED BY <2>1, <2>2 DEF Usable
<1> QED BY <1>5

(* Types without a Validate are always valid.                              *)
LEMMA NothingToValidate ==
  ASSUME NEW s
  PROVE  Valid(ErrorFields, s) /\ Valid(PayOrderResp, s)
<1>1. /\ Len(CreateOrderReq) = 2 /\ Len(CreateOrderResp) = 2
      /\ Len(GetOrderResp) = 7 /\ Len(PayOrderReq) = 1
      /\ Len(ErrorFields) = 2 /\ Len(PayOrderResp) = 1
  BY DEF CreateOrderReq, CreateOrderResp, GetOrderResp, PayOrderReq,
         ErrorFields, PayOrderResp
<1>2. /\ ErrorFields[1].name # CreateOrderReq[1].name
      /\ ErrorFields[1].name # CreateOrderResp[1].name
      /\ PayOrderResp[1].name # PayOrderReq[1].name
  BY DEF CreateOrderReq, CreateOrderResp, PayOrderReq, ErrorFields,
         PayOrderResp, Field
<1>3. /\ ErrorFields \notin {CreateOrderReq, CreateOrderResp, GetOrderResp,
                             PayOrderReq}
      /\ PayOrderResp \notin {CreateOrderReq, CreateOrderResp, GetOrderResp,
                              PayOrderReq}
  BY <1>1, <1>2
<1> QED BY <1>3 DEF Valid

(* Values that are written as they are read.                               *)
LEMMA Written ==
  /\ \A u \in UUIDs : Readable(Text(u), "uuid")
  /\ \A t : /\ Readable(Text(t), "string") /\ Readable(Text(t), "OrderStatus")
            /\ Readable(Text(t), "PaymentMethod") /\ Text(t).text = t
  /\ \A n : /\ Readable(Number(n), "int") /\ Readable(Number(n), "float32")
            /\ Number(n).number = n
  /\ \A s : (\A i \in DOMAIN s : s[i] \in UUIDs) => Readable(Array(s), "uuids")
BY DEF Readable, IsUUID, OrderStatus, PaymentMethod, Text, Number, Array

(* An error is a struct of the error types.                                *)
LEMMA ErrorFits ==
  ASSUME NEW code
  PROVE  Fits(ErrorFields, [code |-> Number(code), message |-> Text("message")])
<1> DEFINE s == [code |-> Number(code), message |-> Text("message")]
<1>1. /\ DOMAIN ErrorFields = 1..2
      /\ ErrorFields[1].name = "code" /\ ErrorFields[1].type = "int"
      /\ ErrorFields[2].name = "message" /\ ErrorFields[2].type = "string"
  BY DEF ErrorFields, Field
<1>2. FieldNames(ErrorFields) = {"code", "message"}
  BY <1>1 DEF FieldNames
<1>3. s = [f \in {"code", "message"} |-> s[f]]
  OBVIOUS
<1>4. s["code"] = Number(code) /\ s["message"] = Text("message")
  OBVIOUS
<1> HIDE DEF s
<1>5. \A i \in DOMAIN ErrorFields : Readable(s[ErrorFields[i].name], ErrorFields[i].type)
  BY <1>1, <1>4, Written
<1>6. Fits(ErrorFields, s)
  BY <1>2, <1>3, <1>5, NothingToValidate DEF Fits
<1> QED BY <1>6 DEF s

(* So are what CreateOrder,                                                *)
LEMMA CreateOrderRespFits ==
  ASSUME NEW o \in UUIDs, NEW price \in {0, 1}
  PROVE  Fits(CreateOrderResp, [uuid |-> Text(o), total_price |-> Number(price)])
<1> DEFINE s == [uuid |-> Text(o), total_price |-> Number(price)]
<1>1. /\ DOMAIN CreateOrderResp = 1..2
      /\ CreateOrderResp[1].name = "uuid" /\ CreateOrderResp[1].type = "uuid"
      /\ CreateOrderResp[2].name = "total_price"
      /\ CreateOrderResp[2].type = "float32"
  BY DEF CreateOrderResp, Field
<1>2. FieldNames(CreateOrderResp) = {"uuid", "total_price"}
  BY <1>1 DEF FieldNames
<1>3. s = [f \in {"uuid", "total_price"} |-> s[f]]
  OBVIOUS
<1>4. s["uuid"] = Text(o) /\ s["total_price"] = Number(price)
  OBVIOUS
<1> HIDE DEF s
<1>5. \A i \in DOMAIN CreateOrderResp :
        Readable(s[CreateOrderResp[i].name], CreateOrderResp[i].type)
  BY <1>1, <1>4, Written
<1>6. Valid(CreateOrderResp, s)
  <2>1. s["total_price"].number >= 0
    BY <1>4, Written
  <2> QED BY <2>1, ValidIs DEF ValidCreateOrderResp
<1>7. Fits(CreateOrderResp, s)
  BY <1>2, <1>3, <1>5, <1>6 DEF Fits
<1> QED BY <1>7 DEF s

(* PayOrder                                                                *)
LEMMA PayOrderRespFits ==
  ASSUME NEW t \in UUIDs
  PROVE  Fits(PayOrderResp, [transaction_uuid |-> Text(t)])
<1> DEFINE s == [transaction_uuid |-> Text(t)]
<1>1. /\ DOMAIN PayOrderResp = 1..1
      /\ PayOrderResp[1].name = "transaction_uuid"
      /\ PayOrderResp[1].type = "uuid"
  BY DEF PayOrderResp, Field
<1>2. FieldNames(PayOrderResp) = {"transaction_uuid"}
  BY <1>1 DEF FieldNames
<1>3. s = [f \in {"transaction_uuid"} |-> s[f]] /\ s["transaction_uuid"] = Text(t)
  OBVIOUS
<1> HIDE DEF s
<1>4. \A i \in DOMAIN PayOrderResp :
        Readable(s[PayOrderResp[i].name], PayOrderResp[i].type)
  BY <1>1, <1>3, Written
<1>5. Fits(PayOrderResp, s)
  BY <1>2, <1>3, <1>4, NothingToValidate DEF Fits
<1> QED BY <1>5 DEF s

(* and GetOrder return.                                                    *)
LEMMA GetOrderRespFits ==
  ASSUME NEW o \in UUIDs, NEW user \in UUIDs, NEW price, NEW p \in Payments,
         NEW list, \A i \in DOMAIN list : list[i] \in UUIDs
  PROVE  Fits(GetOrderResp,
              [order_uuid |-> Text(o), user_uuid |-> Text(user),
               part_uuids |-> Array(list), total_price |-> Number(price),
               transaction_uuid |-> Text(p.tx),
               payment_method |-> Text(p.method), status |-> Text(p.status)])
<1> DEFINE s == [order_uuid |-> Text(o), user_uuid |-> Text(user),
                 part_uuids |-> Array(list), total_price |-> Number(price),
                 transaction_uuid |-> Text(p.tx),
                 payment_method |-> Text(p.method), status |-> Text(p.status)]
           names == {"order_uuid", "user_uuid", "part_uuids", "total_price",
                     "transaction_uuid", "payment_method", "status"}
<1>1. /\ DOMAIN GetOrderResp = 1..7
      /\ GetOrderResp[1] = Field("order_uuid", "uuid")
      /\ GetOrderResp[2] = Field("user_uuid", "uuid")
      /\ GetOrderResp[3] = Field("part_uuids", "uuids")
      /\ GetOrderResp[4] = Field("total_price", "float32")
      /\ GetOrderResp[5] = Field("transaction_uuid", "uuid")
      /\ GetOrderResp[6] = Field("payment_method", "PaymentMethod")
      /\ GetOrderResp[7] = Field("status", "OrderStatus")
  BY DEF GetOrderResp
<1>2. \A n, t : Field(n, t).name = n /\ Field(n, t).type = t
  BY DEF Field
<1>3. FieldNames(GetOrderResp) = names
  BY <1>1, <1>2 DEF FieldNames
<1>4. s = [f \in names |-> s[f]]
  OBVIOUS
<1>5. /\ s["order_uuid"] = Text(o) /\ s["user_uuid"] = Text(user)
      /\ s["part_uuids"] = Array(list) /\ s["total_price"] = Number(price)
      /\ s["transaction_uuid"] = Text(p.tx)
      /\ s["payment_method"] = Text(p.method) /\ s["status"] = Text(p.status)
  OBVIOUS
<1>6. p.tx \in UUIDs /\ p.method \in Methods /\ p.status \in Statuses
  BY DEF Payments
<1> HIDE DEF s, names
<1>7. \A i \in DOMAIN GetOrderResp :
        Readable(s[GetOrderResp[i].name], GetOrderResp[i].type)
  BY <1>1, <1>2, <1>5, <1>6, Written
<1>8. Valid(GetOrderResp, s)
  <2>1. ValidPaymentMethod(s["payment_method"])
    BY <1>5, <1>6, Written DEF ValidPaymentMethod
  <2>2. ValidOrderStatus(s["status"])
    BY <1>5, <1>6, Written DEF ValidOrderStatus
  <2>3. ValidGetOrderResp(s)
    BY <2>1, <2>2 DEF ValidGetOrderResp
  <2> QED BY <2>3, ValidIs
<1>9. Fits(GetOrderResp, s)
  BY <1>3, <1>4, <1>7, <1>8 DEF Fits
<1> QED BY <1>9 DEF s

-----------------------------------------------------------------------------
(* The client is told what the delivery layer returned.                    *)

\* What is stored can be written into a GetOrderResp.
Rows ==
  /\ DOMAIN table = Orders
  /\ \A o \in Orders : table[o] # NoRow =>
       /\ table[o].user \in UUIDs
       /\ \A i \in DOMAIN table[o].parts : table[o].parts[i] \in UUIDs

\* Nothing is left of the exchange before.
Fresh ==
  /\ stage \in {"idle", "request"} => invoked = NoInput
  /\ stage = "idle" => call = NoInput

\* The delivery layer has what it needs, and returns what can be encoded.
Served ==
  /\ stage \in {"handle", "encode"} =>
       invoked.op \in Operations /\ Usable(invoked)
  /\ stage = "encode" => Fitting(invoked.op, result)

\* A call has been passed on as it was, or refused by the error handler.
Answered ==
  call # NoInput =>
    /\ stage \in {"handle", "encode"} => invoked = call
    /\ stage = "response" =>
         \/ /\ invoked = call /\ Fitting(call.op, result)
            /\ response = ResponseOf(call.op, result)
         \/ /\ invoked = NoInput
            /\ response.body = ErrorBody /\ response.status # 204

APIInv == Sent /\ Wire /\ Rows /\ Fresh /\ Served /\ Answered
            /\ ClientGetsTheAnswer

(* The bodies of requests are numbered member by member.                   *)
LEMMA BodiesAreNumbered ==
  /\ \A body : \E n \in Nat : DOMAIN EncodeCreateOrderRequest(body).doc = 1..n
  /\ \A body : \E n \in Nat : DOMAIN EncodePayOrderRequest(body).doc = 1..n
  /\ \A body \in Bodies : \E n \in Nat : DOMAIN body.doc = 1..n
<1>1. DOMAIN EmptyBody.doc = 1..0
  BY DEF EmptyBody, Body
<1>2. \A T, s : DOMAIN Object(Encode(T, s)).doc = DOMAIN T
  BY DEF Object, Body, Encode
<1>3. DOMAIN CreateOrderReq = 1..2 /\ DOMAIN PayOrderReq = 1..1
  BY DEF CreateOrderReq, PayOrderReq
<1>4. \A body : \E n \in Nat : DOMAIN EncodeCreateOrderRequest(body).doc = 1..n
  BY <1>1, <1>2, <1>3 DEF EncodeCreateOrderRequest
<1>5. \A body : \E n \in Nat : DOMAIN EncodePayOrderRequest(body).doc = 1..n
  BY <1>2, <1>3 DEF EncodePayOrderRequest
<1>6. ASSUME NEW body \in Bodies
      PROVE  \E n \in Nat : DOMAIN body.doc = 1..n
  <2>1. CASE body \in {EmptyBody, Body("emptyChunked", <<>>), Body("garbage", <<>>)}
    <3>1. body.doc = <<>>
      BY <2>1 DEF EmptyBody, Body
    <3> QED BY <3>1
  <2>2. CASE \E doc \in Documents : body = Object(doc)
    <3>1. PICK doc \in Documents : body = Object(doc)
      BY <2>2
    <3>2. body.doc = doc
      BY <3>1 DEF Object, Body
    <3> QED BY <3>2, APIConstants
  <2> QED BY <2>1, <2>2 DEF Bodies
<1> QED BY <1>4, <1>5, <1>6

(* A request on its way.                                                   *)
LEMMA SendKeeps ==
  ASSUME APIInv, GeneratedClient \/ OtherClient
  PROVE  APIInv'
<1>1. /\ stage = "idle" /\ stage' = "request"
      /\ UNCHANGED <<invoked, result, response, outcome, table>>
  BY DEF GeneratedClient, OtherClient, SendCreateOrder, SendGetOrder,
         SendPayOrder, SendCancelOrder, SendRaw, Send
<1>2. invoked' = NoInput /\ call = NoInput
  BY <1>1 DEF APIInv, Fresh
<1>3. ASSUME NEW body \in CreateValues, SendCreateOrder(body)
      PROVE  SentCreate(body)'
  BY <1>3 DEF SendCreateOrder, Send, SentCreate
<1>4. ASSUME NEW o \in UUIDs, SendGetOrder(o)
      PROVE  SentGet(o)'
  BY <1>4 DEF SendGetOrder, Send, SentGet
<1>5. ASSUME NEW o \in UUIDs, SendCancelOrder(o)
      PROVE  SentCancel(o)'
  BY <1>5 DEF SendCancelOrder, Send, SentCancel
<1>6. ASSUME NEW o \in UUIDs, NEW body \in PayValues, SendPayOrder(o, body)
      PROVE  SentPay(o, body)'
  <2>1. TypeOf(EncodePayOrderRequest(body)) = "application/json"
    BY DEF TypeOf, EncodePayOrderRequest, Object, Body
  <2> QED BY <1>6, <2>1 DEF SendPayOrder, Send, SentPay
<1>7. CASE GeneratedClient
  <2>1. Sent'
    BY <1>3, <1>4, <1>5, <1>6, <1>7 DEF GeneratedClient, Sent
  <2>2. \/ \E body : request'.body = EncodeCreateOrderRequest(body)
        \/ \E body : request'.body = EncodePayOrderRequest(body)
        \/ request'.body = EmptyBody
    <3>1. \A m, p, t, b : Request(m, p, t, b).body = b
      BY DEF Request
    <3>2. \A in, m, p, b : Send(in, m, p, b) => request'.body = b
      BY <3>1 DEF Send
    <3>3. /\ \A body : SendCreateOrder(body) =>
               request'.body = EncodeCreateOrderRequest(body)
          /\ \A o : SendGetOrder(o) \/ SendCancelOrder(o) =>
               request'.body = EmptyBody
          /\ \A o, body : SendPayOrder(o, body) =>
               request'.body = EncodePayOrderRequest(body)
      BY <3>2 DEF SendCreateOrder, SendGetOrder, SendCancelOrder, SendPayOrder
    <3> QED BY <1>7, <3>3 DEF GeneratedClient
  <2>3. EmptyBody \in Bodies
    BY DEF Bodies
  <2>4. Wire'
    BY <2>2, <2>3, BodiesAreNumbered DEF Wire
  <2> QED BY <1>1, <1>2, <2>1, <2>4
          DEF APIInv, Rows, Fresh, Served, Answered, ClientGetsTheAnswer
<1>8. CASE OtherClient
  <2>1. call' = NoInput /\ request'.body \in Bodies
    <3>1. \A m, p, t, b : Request(m, p, t, b).body = b
      BY DEF Request
    <3>2. \A m, p, t, b : SendRaw(m, p, t, b) => request'.body = b /\ call' = call
      BY <3>1 DEF SendRaw
    <3> QED BY <1>2, <1>8, <3>2 DEF OtherClient
  <2>2. Wire'
    BY <2>1, BodiesAreNumbered DEF Wire
  <2> QED BY <1>1, <1>2, <2>1, <2>2
          DEF APIInv, Sent, Rows, Fresh, Served, Answered, ClientGetsTheAnswer
<1> QED BY <1>7, <1>8

(* What most steps leave as it was.                                        *)
LEMMA SentStays ==
  ASSUME Sent, Wire, UNCHANGED <<call, request>>
  PROVE  Sent' /\ Wire'
BY DEF Sent, Wire, SentCreate, SentGet, SentCancel, SentPay

(* A request that is decoded, or refused.                                  *)
LEMMA DecodeKeeps ==
  ASSUME APIInv, stage = "request",
         UNCHANGED <<call, request, result, outcome, table>>,
         \/ \E in : /\ Invoke(in)
                    /\ in.op \in Operations /\ Usable(in)
                    /\ call # NoInput => in = call
         \/ /\ stage' = "response" /\ UNCHANGED invoked
            /\ call # NoInput =>
                 response'.body = ErrorBody /\ response'.status # 204
  PROVE  APIInv'
<1>1. Sent' /\ Wire' /\ Rows'
  BY SentStays DEF APIInv, Rows
<1>2. invoked = NoInput
  BY DEF APIInv, Fresh
<1>3. CASE \E in : /\ Invoke(in)
                   /\ in.op \in Operations /\ Usable(in)
                   /\ call # NoInput => in = call
  <2>1. PICK in : /\ Invoke(in) /\ in.op \in Operations /\ Usable(in)
                  /\ call # NoInput => in = call
    BY <1>3
  <2>2. stage' = "handle" /\ invoked' = in
    BY <2>1 DEF Invoke
  <2>3. Usable(invoked')
    BY <2>1, <2>2
  <2>4. Served'
    BY <2>1, <2>2, <2>3 DEF Served, Usable
  <2> QED BY <1>1, <2>1, <2>2, <2>4
          DEF APIInv, Fresh, Answered, ClientGetsTheAnswer
<1>4. CASE /\ stage' = "response" /\ UNCHANGED invoked
           /\ call # NoInput =>
                response'.body = ErrorBody /\ response'.status # 204
  <2>1. Answered'
    BY <1>2, <1>4 DEF Answered, ErrorBody
  <2> QED BY <1>1, <1>4, <2>1 DEF APIInv, Fresh, Served, ClientGetsTheAnswer
<1> QED BY <1>3, <1>4

(* The error handler's answer has that body.                               *)
LEMMA ErrorHandlerAnswers ==
  ASSUME NEW code, code # 204, ErrorHandler(code)
  PROVE  /\ stage' = "response"
         /\ response'.body = ErrorBody /\ response'.status # 204
BY DEF ErrorHandler, Answer, Response, ErrorBody

(* The router and the four handlers.                                       *)
LEMMA HandlersKeep ==
  ASSUME APIInv,
         \/ Refuse
         \/ HandleCancelOrderRequest \/ HandleCreateOrderRequest
         \/ HandleGetOrderRequest \/ HandlePayOrderRequest
  PROVE  APIInv'
<1>0. Sent /\ Wire
  BY DEF APIInv
<1>1. /\ stage = "request" /\ UNCHANGED <<call, request, result, outcome, table>>
  BY DEF Refuse, HandleCancelOrderRequest, HandleCreateOrderRequest,
         HandleGetOrderRequest, HandlePayOrderRequest, IsRouted
<1>2. call # NoInput => LeadsThere
  BY <1>0, CallIsRouted
<1>3. \A op, o, b : /\ Input(op, o, b).op = op /\ Input(op, o, b).order = o
                    /\ Input(op, o, b).body = b
  BY DEF Input
<1>4. \A op, o, b : op # "CreateOrder" => Usable(Input(op, o, b))
  BY <1>3 DEF Usable
<1>5. CASE Refuse
  <2>1. call = NoInput
    BY <1>2, <1>5 DEF Refuse, LeadsThere
  <2>2. stage' = "response" /\ UNCHANGED invoked
    BY <1>5 DEF Refuse, Answer
  <2> QED BY <1>1, <2>1, <2>2, DecodeKeeps
<1>6. CASE HandleCancelOrderRequest
  <2> DEFINE param == Route(request.path).param
             in == Input("CancelOrder", param[1], NoValue)
  <2>1. call # NoInput => in = call
    <3>1. call # NoInput => call.op = "CancelOrder" /\ param[1] = call.order
      BY <1>2, <1>6 DEF HandleCancelOrderRequest, IsRouted, LeadsThere
    <3> QED BY <1>0, <3>1, CallIsDecoded
  <2>2. in.op \in Operations /\ Usable(in)
    BY <1>3, <1>4 DEF Operations
  <2>3. Invoke(in) \/ (ErrorHandler(400) /\ UNCHANGED invoked)
    BY <1>6 DEF HandleCancelOrderRequest
  <2> HIDE DEF in
  <2> QED BY <1>1, <2>1, <2>2, <2>3, DecodeKeeps, ErrorHandlerAnswers
<1>7. CASE HandleGetOrderRequest
  <2> DEFINE param == Route(request.path).param
             in == Input("GetOrder", param[1], NoValue)
  <2>1. call # NoInput => in = call
    <3>1. call # NoInput => call.op = "GetOrder" /\ param[1] = call.order
      BY <1>2, <1>7 DEF HandleGetOrderRequest, IsRouted, LeadsThere
    <3> QED BY <1>0, <3>1, CallIsDecoded
  <2>2. in.op \in Operations /\ Usable(in)
    BY <1>3, <1>4 DEF Operations
  <2>3. Invoke(in) \/ (ErrorHandler(400) /\ UNCHANGED invoked)
    BY <1>7 DEF HandleGetOrderRequest
  <2> HIDE DEF in
  <2> QED BY <1>1, <2>1, <2>2, <2>3, DecodeKeeps, ErrorHandlerAnswers
<1>8. CASE HandleCreateOrderRequest
  <2> DEFINE body == DecodeCreateOrderRequest
             in == Input("CreateOrder", NilUUID, body.value)
  <2>1. call # NoInput => /\ body.code = 0 => in = call
                          /\ body.code # 204
    <3>1. call # NoInput => call.op = "CreateOrder"
      BY <1>2, <1>8 DEF HandleCreateOrderRequest, IsRouted, LeadsThere
    <3> QED BY <1>0, <3>1, CallIsDecoded
  <2>2. in.op \in Operations /\ (body.code = 0 => Usable(in))
    BY <1>0, <1>3, CreateIsUsable DEF Operations
  <2>3. IF body.code = 0 THEN Invoke(in)
        ELSE ErrorHandler(body.code) /\ UNCHANGED invoked
    BY <1>8 DEF HandleCreateOrderRequest
  <2> DEFINE code == body.code
  <2>4. stage' = "response" \/ code = 0
    BY <2>3 DEF ErrorHandler, Answer
  <2> HIDE DEF in, code, body
  <2>5. ASSUME code # 0
        PROVE  /\ stage' = "response" /\ UNCHANGED invoked
               /\ call # NoInput =>
                    response'.body = ErrorBody /\ response'.status # 204
    BY <2>1, <2>3, <2>4, <2>5, ErrorHandlerAnswers DEF code
  <2> QED BY <1>1, <2>1, <2>2, <2>3, <2>5, DecodeKeeps DEF code
<1>9. CASE HandlePayOrderRequest
  <2> DEFINE param == Route(request.path).param
             body == DecodePayOrderRequest
             in == Input("PayOrder", param[1], body.value)
             code == IF DecodePayOrderParams(param) THEN body.code ELSE 400
  <2>1. call # NoInput => /\ body.code = 0 => in = call
                          /\ body.code # 204
    <3>1. call # NoInput => call.op = "PayOrder" /\ param[1] = call.order
      BY <1>2, <1>9 DEF HandlePayOrderRequest, IsRouted, LeadsThere
    <3> QED BY <1>0, <3>1, CallIsDecoded
  <2>2. in.op \in Operations /\ Usable(in)
    BY <1>3, <1>4 DEF Operations
  <2>3. \/ Invoke(in) /\ body.code = 0
        \/ ErrorHandler(code) /\ UNCHANGED invoked
    BY <1>9 DEF HandlePayOrderRequest
  <2>4. call # NoInput => code # 204
    BY <2>1
  <2>5. ErrorHandler(code) => stage' = "response"
    BY DEF ErrorHandler, Answer
  <2> HIDE DEF in, code, body
  <2>6. ASSUME ErrorHandler(code), UNCHANGED invoked
        PROVE  /\ stage' = "response" /\ UNCHANGED invoked
               /\ call # NoInput =>
                    response'.body = ErrorBody /\ response'.status # 204
    BY <2>4, <2>5, <2>6, ErrorHandlerAnswers
  <2> QED BY <1>1, <2>1, <2>2, <2>3, <2>6, DecodeKeeps
<1> QED BY <1>5, <1>6, <1>7, <1>8, <1>9

(* What the delivery layer returns can be encoded: its errors,             *)
LEMMA ErrorIsFitting ==
  ASSUME NEW code, NEW op \in Operations,
         NEW type \in DOMAIN Encoders[op]
                        \cap {"BadRequest", "NotFoundErr", "ConflictErr"}
  PROVE  Fitting(op, Result(type, [code |-> Number(code),
                                   message |-> Text("message")]))
<1> DEFINE s == [code |-> Number(code), message |-> Text("message")]
<1>1. /\ SchemaOf["BadRequest"] = ErrorFields
      /\ SchemaOf["NotFoundErr"] = ErrorFields
      /\ SchemaOf["ConflictErr"] = ErrorFields
  BY DEF SchemaOf, BadRequest, NotFoundErr, ConflictErr
<1>2. Fits(SchemaOf[type], s)
  BY <1>1, ErrorFits
<1>3. \A t, x : Result(t, x).type = t /\ Result(t, x).struct = x
  BY DEF Result
<1>4. Fitting(op, Result(type, s))
  <2> HIDE DEF s
  <2> QED BY <1>2, <1>3 DEF Fitting
<1> QED BY <1>4

(* and its answers.                                                        *)
LEMMA ReturnIsFitting ==
  ASSUME NEW op \in Operations, NEW s,
         NEW type \in DOMAIN Encoders[op]
                        \cap {"CreateOrderResp", "GetOrderResp", "PayOrderResp"},
         Fits(SchemaOf[type], s)
  PROVE  Fitting(op, Result(type, s))
<1>1. \A t, x : Result(t, x).type = t /\ Result(t, x).struct = x
  BY DEF Result
<1> QED BY <1>1 DEF Fitting

(* CancelOrder's answer has no body.                                       *)
LEMMA NoContentIsFitting ==
  Fitting("CancelOrder", Result("CancelOrderNoContent", NoValue))
<1>1. \A t, x : Result(t, x).type = t /\ Result(t, x).struct = x
  BY DEF Result
<1>2. "CancelOrder" \in Operations
      /\ "CancelOrderNoContent" \in DOMAIN Encoders["CancelOrder"]
  BY DEF Operations, Encoders, EncodeCancelOrderResponse
<1> QED BY <1>1, <1>2 DEF Fitting

(* A return of something that can be encoded.                              *)
LEMMA ReturnKeeps ==
  ASSUME APIInv, stage = "handle", NEW type, NEW s, Return(type, s),
         Fitting(invoked.op, Result(type, s)), Rows'
  PROVE  APIInv'
<1>1. /\ stage' = "encode" /\ result' = Result(type, s)
      /\ UNCHANGED <<call, request, invoked, response, outcome>>
  BY DEF Return
<1>2. Sent' /\ Wire'
  BY <1>1, SentStays DEF APIInv
<1>3. Fitting(invoked.op, result)'
  BY <1>1 DEF Fitting, Fits
<1>4. Usable(invoked)'
  BY <1>1 DEF APIInv, Served, Usable
<1>5. invoked'.op \in Operations
  BY <1>1 DEF APIInv, Served
<1>6. call' # NoInput => invoked' = call'
  BY <1>1 DEF APIInv, Answered
<1>7. Fresh' /\ Answered' /\ ClientGetsTheAnswer'
  BY <1>1, <1>6 DEF Fresh, Answered, ClientGetsTheAnswer
<1>8. Served'
  BY <1>3, <1>4, <1>5 DEF Served
<1> QED BY <1>2, <1>7, <1>8 DEF APIInv

(* The delivery layer's four operations.                                   *)
LEMMA DeliveryKeeps ==
  ASSUME APIInv, CancelOrder \/ CreateOrder \/ GetOrder \/ PayOrder
  PROVE  APIInv'
<1>1. /\ {"CreateOrderResp", "BadRequest"} \subseteq DOMAIN Encoders["CreateOrder"]
      /\ {"GetOrderResp", "NotFoundErr"} \subseteq DOMAIN Encoders["GetOrder"]
      /\ {"PayOrderResp", "BadRequest", "NotFoundErr", "ConflictErr"}
           \subseteq DOMAIN Encoders["PayOrder"]
      /\ {"NotFoundErr", "ConflictErr"} \subseteq DOMAIN Encoders["CancelOrder"]
  BY DEF Encoders, EncodeCancelOrderResponse, EncodeCreateOrderResponse,
         EncodeGetOrderResponse, EncodePayOrderResponse
<1>2. {"CreateOrder", "GetOrder", "PayOrder", "CancelOrder"} \subseteq Operations
  BY DEF Operations
<1>3. /\ SchemaOf["CreateOrderResp"] = CreateOrderResp
      /\ SchemaOf["GetOrderResp"] = GetOrderResp
      /\ SchemaOf["PayOrderResp"] = PayOrderResp
  BY DEF SchemaOf
<1>4. ASSUME NEW type, NEW code, stage = "handle", ReturnError(type, code),
             invoked.op \in Operations, Rows',
             type \in DOMAIN Encoders[invoked.op]
                        \cap {"BadRequest", "NotFoundErr", "ConflictErr"}
      PROVE  APIInv'
  <2>1. Fitting(invoked.op, Result(type, [code |-> Number(code),
                                          message |-> Text("message")]))
    BY <1>4, ErrorIsFitting
  <2>2. Return(type, [code |-> Number(code), message |-> Text("message")])
    BY <1>4 DEF ReturnError
  <2> QED BY <1>4, <2>1, <2>2, ReturnKeeps
<1>5. Rows
  BY DEF APIInv
<1>6. CASE CreateOrder
  <2>1. stage = "handle" /\ invoked.op = "CreateOrder" /\ Usable(invoked)
    BY <1>6 DEF CreateOrder, Handles, APIInv, Served
  <2>2. CASE ReturnError("BadRequest", 400) /\ UNCHANGED table
    <3>1. Rows'
      BY <1>5, <2>2 DEF Rows
    <3> QED BY <1>1, <1>2, <1>4, <2>1, <2>2, <3>1
  <2>3. CASE ~ (ReturnError("BadRequest", 400) /\ UNCHANGED table)
    <3>1. PICK o \in Orders, price \in {0, 1} :
            /\ table' = [table EXCEPT ![o] = [user |-> User(invoked.body),
                                              parts |-> Parts(invoked.body),
                                              price |-> price]]
            /\ \/ Return("CreateOrderResp",
                         [uuid |-> Text(o), total_price |-> Number(price)])
               \/ ReturnError("BadRequest", 400)
      BY <1>6, <2>3 DEF CreateOrder
    <3>2. User(invoked.body) \in UUIDs
      BY <2>1, APIConstants DEF User, Usable
    <3>3. \A i \in DOMAIN Parts(invoked.body) : Parts(invoked.body)[i] \in UUIDs
      BY <2>1 DEF Parts, Usable
    <3>4. Rows'
      BY <1>5, <3>1, <3>2, <3>3 DEF Rows
    <3>5. o \in UUIDs
      BY APIConstants
    <3>6. Fits(CreateOrderResp, [uuid |-> Text(o), total_price |-> Number(price)])
      BY <3>5, CreateOrderRespFits
    <3>7. Fitting(invoked.op, Result("CreateOrderResp",
                    [uuid |-> Text(o), total_price |-> Number(price)]))
      BY <1>1, <1>2, <1>3, <2>1, <3>6, ReturnIsFitting
    <3>8. CASE ReturnError("BadRequest", 400)
      BY <1>1, <1>2, <1>4, <2>1, <3>4, <3>8
    <3>9. CASE Return("CreateOrderResp",
                      [uuid |-> Text(o), total_price |-> Number(price)])
      BY <2>1, <3>4, <3>7, <3>9, ReturnKeeps
    <3> QED BY <3>1, <3>8, <3>9
  <2> QED BY <2>2, <2>3
<1>7. CASE GetOrder
  <2>1. stage = "handle" /\ invoked.op = "GetOrder" /\ UNCHANGED table
    BY <1>7 DEF GetOrder, Handles
  <2>2. Rows'
    BY <1>5, <2>1 DEF Rows
  <2>3. CASE ReturnError("NotFoundErr", 404)
    BY <1>1, <1>2, <1>4, <2>1, <2>2, <2>3
  <2>4. CASE ~ ReturnError("NotFoundErr", 404)
    <3> DEFINE o == invoked.order
               s(p) == [order_uuid |-> Text(o), user_uuid |-> Text(table[o].user),
                        part_uuids |-> Array(table[o].parts),
                        total_price |-> Number(table[o].price),
                        transaction_uuid |-> Text(p.tx),
                        payment_method |-> Text(p.method),
                        status |-> Text(p.status)]
    <3>1. Exists(o) /\ \E p \in Payments : Return("GetOrderResp", s(p))
      BY <1>7, <2>4 DEF GetOrder
    <3>2. PICK p \in Payments : Return("GetOrderResp", s(p))
      BY <3>1
    <3>3. /\ o \in UUIDs /\ table[o].user \in UUIDs
          /\ \A i \in DOMAIN table[o].parts : table[o].parts[i] \in UUIDs
      BY <1>5, <3>1, APIConstants DEF Exists, Rows
    <3>4. Fits(GetOrderResp, s(p))
      BY <3>3, GetOrderRespFits
    <3> HIDE DEF s
    <3>5. Fitting(invoked.op, Result("GetOrderResp", s(p)))
      BY <1>1, <1>2, <1>3, <2>1, <3>4, ReturnIsFitting
    <3> QED BY <2>1, <2>2, <3>2, <3>5, ReturnKeeps
  <2> QED BY <2>3, <2>4
<1>8. CASE PayOrder
  <2>1. stage = "handle" /\ invoked.op = "PayOrder" /\ UNCHANGED table
    BY <1>8 DEF PayOrder, Handles
  <2>2. Rows'
    BY <1>5, <2>1 DEF Rows
  <2>3. CASE \/ ReturnError("NotFoundErr", 404) \/ ReturnError("ConflictErr", 409)
             \/ ReturnError("BadRequest", 400)
    BY <1>1, <1>2, <1>4, <2>1, <2>2, <2>3
  <2>4. CASE \E t \in UUIDs \ {NilUUID} :
               Return("PayOrderResp", [transaction_uuid |-> Text(t)])
    <3>1. PICK t \in UUIDs : Return("PayOrderResp", [transaction_uuid |-> Text(t)])
      BY <2>4
    <3>2. Fits(PayOrderResp, [transaction_uuid |-> Text(t)])
      BY PayOrderRespFits
    <3>3. Fitting(invoked.op, Result("PayOrderResp", [transaction_uuid |-> Text(t)]))
      BY <1>1, <1>2, <1>3, <2>1, <3>2, ReturnIsFitting
    <3> QED BY <2>1, <2>2, <3>1, <3>3, ReturnKeeps
  <2> QED BY <1>8, <2>3, <2>4 DEF PayOrder
<1>9. CASE CancelOrder
  <2>1. stage = "handle" /\ invoked.op = "CancelOrder" /\ UNCHANGED table
    BY <1>9 DEF CancelOrder, Handles
  <2>2. Rows'
    BY <1>5, <2>1 DEF Rows
  <2>3. CASE ReturnError("NotFoundErr", 404) \/ ReturnError("ConflictErr", 409)
    BY <1>1, <1>2, <1>4, <2>1, <2>2, <2>3
  <2>4. CASE Return("CancelOrderNoContent", NoValue)
    BY <2>1, <2>2, <2>4, NoContentIsFitting, ReturnKeeps
  <2> QED BY <1>9, <2>3, <2>4 DEF CancelOrder
<1> QED BY <1>6, <1>7, <1>8, <1>9

(* The answer reaches the client, or the connection breaks; and the next   *)
(* exchange starts.                                                        *)
LEMMA AnswersKeep ==
  ASSUME APIInv, EncodeResponse \/ Receive \/ Break \/ Reset \/ UNCHANGED vars
  PROVE  APIInv'
<1>1. CASE EncodeResponse
  <2>1. /\ stage = "encode" /\ stage' = "response"
        /\ response' = ResponseOf(invoked.op, result)
        /\ UNCHANGED <<call, request, invoked, result, outcome, table>>
    BY <1>1 DEF EncodeResponse, Answer, ResponseOf
  <2>2. Sent' /\ Wire' /\ Rows'
    BY <2>1, SentStays DEF APIInv, Rows
  <2>3. call # NoInput => /\ invoked = call
                          /\ Fitting(call.op, result)
    BY <2>1 DEF APIInv, Answered, Served
  <2>4. Answered'
    <3>1. Fitting(call.op, result)' = Fitting(call.op, result)
      BY <2>1 DEF Fitting, Fits
    <3>2. ResponseOf(call.op, result)' = ResponseOf(call.op, result)
      BY <2>1 DEF ResponseOf
    <3> QED BY <2>1, <2>3, <3>1, <3>2 DEF Answered
  <2> QED BY <2>1, <2>2, <2>4 DEF APIInv, Fresh, Served, ClientGetsTheAnswer
<1>2. CASE Receive
  <2>1. /\ stage = "response" /\ stage' = "done"
        /\ outcome' = IF call = NoInput THEN NoResult ELSE DecodeResponse
        /\ UNCHANGED <<call, request, invoked, result, response, table>>
    BY <1>2 DEF Receive
  <2>2. Sent' /\ Wire' /\ Rows'
    BY <2>1, SentStays DEF APIInv, Rows
  <2>3. ClientGetsTheAnswer'
    <3>1. SUFFICES ASSUME call # NoInput
                   PROVE  /\ ~IsError(outcome') => invoked = call /\ outcome' = result
                          /\ IsError(outcome') => invoked = NoInput
      BY <2>1 DEF ClientGetsTheAnswer, IsError
    <3>2. outcome' = DecodeResponse
      BY <2>1, <3>1
    <3>3. CASE /\ invoked = call /\ Fitting(call.op, result)
               /\ response = ResponseOf(call.op, result)
      BY <3>2, <3>3, AnswerIsRead
    <3>4. CASE /\ invoked = NoInput
               /\ response.body = ErrorBody /\ response.status # 204
      <4>1. call.op \in Operations
        BY <3>1, CallIsRouted DEF APIInv, LeadsThere
      <4> QED BY <3>2, <3>4, <4>1, RefusalIsError
    <3> QED BY <2>1, <3>1, <3>3, <3>4 DEF APIInv, Answered
  <2> QED BY <2>1, <2>2, <2>3 DEF APIInv, Fresh, Served, Answered
<1>3. CASE Break
  <2>1. /\ stage' = "broken"
        /\ outcome' = IF call = NoInput THEN NoResult ELSE ClientError
        /\ UNCHANGED <<call, request, invoked, result, response, table>>
    BY <1>3 DEF Break
  <2>2. Sent' /\ Wire' /\ Rows'
    BY <2>1, SentStays DEF APIInv, Rows
  <2>3. ClientGetsTheAnswer'
    BY <2>1 DEF ClientGetsTheAnswer, IsError, ClientError, Result
  <2> QED BY <2>1, <2>2, <2>3 DEF APIInv, Fresh, Served, Answered
<1>4. CASE Reset
  <2>1. /\ stage' = "idle" /\ call' = NoInput /\ invoked' = NoInput
        /\ request' = NoRequest /\ UNCHANGED table
    BY <1>4 DEF Reset
  <2>2. Wire'
    <3>1. NoRequest.body = EmptyBody /\ EmptyBody \in Bodies
      BY DEF NoRequest, Request, Bodies
    <3> QED BY <2>1, <3>1, BodiesAreNumbered DEF Wire
  <2> QED BY <2>1, <2>2
          DEF APIInv, Sent, Rows, Fresh, Served, Answered, ClientGetsTheAnswer
<1>5. CASE UNCHANGED vars
  <2>1. UNCHANGED <<stage, call, request, invoked, result, response, outcome,
                    table>>
    BY <1>5 DEF vars
  <2>2. Sent' /\ Wire' /\ Rows' /\ Fresh'
    BY <2>1, SentStays DEF APIInv, Rows, Fresh
  <2>3. Served'
    BY <2>1 DEF APIInv, Served, Usable, Fitting, Fits
  <2>4. Answered'
    BY <2>1 DEF APIInv, Answered, Fitting, Fits, ResponseOf
  <2>5. ClientGetsTheAnswer'
    BY <2>1 DEF APIInv, ClientGetsTheAnswer, IsError
  <2> QED BY <2>2, <2>3, <2>4, <2>5 DEF APIInv
<1> QED BY <1>1, <1>2, <1>3, <1>4, <1>5

(* All of this holds throughout.                                           *)
LEMMA Invariance == Spec => []APIInv
<1>1. Init => APIInv
  <2> SUFFICES ASSUME Init
               PROVE  APIInv
    OBVIOUS
  <2>1. Wire
    <3>1. NoRequest.body = EmptyBody /\ EmptyBody \in Bodies
      BY DEF NoRequest, Request, Bodies
    <3> QED BY <3>1, BodiesAreNumbered DEF Init, Wire
  <2>2. Rows
    BY DEF Init, Rows
  <2> QED BY <2>1, <2>2
          DEF Init, APIInv, Sent, Fresh, Served, Answered, ClientGetsTheAnswer
<1>2. APIInv /\ [Next]_vars => APIInv'
  BY SendKeeps, HandlersKeep, DeliveryKeeps, AnswersKeep DEF Next, Server
<1> QED BY <1>1, <1>2, PTL DEF Spec

(* What the client of an exchange is told is what the delivery layer       *)
(* returned for exactly the call that was made, or an error if it was      *)
(* never called: for any UUIDs, documents and paths.                       *)
THEOREM ClientIsToldTheAnswer == Spec => []ClientGetsTheAnswer
<1>1. APIInv => ClientGetsTheAnswer
  BY DEF APIInv
<1> QED BY <1>1, Invariance, PTL

-----------------------------------------------------------------------------
(* What the delivery layer is called with, and what it stores.             *)

(* A request that is refused has a code.                                   *)
LEMMA DecodedIsValid ==
  /\ DecodePayOrderRequest.code = 0 =>
       ValidPayOrderReq(DecodePayOrderRequest.value)
  /\ DecodeCreateOrderRequest.code = 0 =>
       \/ DecodeCreateOrderRequest.value = NoValue
       \/ ValidCreateOrderReq(DecodeCreateOrderRequest.value)
<1>1. \A T : DecodeJSON(T).code = 0 => Valid(T, DecodeJSON(T).value)
  BY DEF DecodeJSON, Decoded, Refusal
<1>2. DecodePayOrderRequest.code = 0 =>
        Valid(PayOrderReq, DecodePayOrderRequest.value)
  <2>1. CASE request.type = "application/json"
    BY <1>1, <2>1 DEF DecodePayOrderRequest
  <2>2. CASE request.type # "application/json"
    BY <2>2 DEF DecodePayOrderRequest, Refusal
  <2> QED BY <2>1, <2>2
<1>3. DecodeCreateOrderRequest.code = 0 =>
        \/ DecodeCreateOrderRequest.value = NoValue
        \/ Valid(CreateOrderReq, DecodeCreateOrderRequest.value)
  BY <1>1 DEF DecodeCreateOrderRequest, Refusal, Decoded
<1> QED BY <1>2, <1>3, ValidIs

(* The delivery layer is called only with what the schema allows.          *)
THEOREM OnlyValidInput == Spec => []HandlersGetValidInput
<1>1. Init => HandlersGetValidInput
  BY DEF Init, HandlersGetValidInput, NoInput, Input
<1>2. HandlersGetValidInput /\ [Next]_vars => HandlersGetValidInput'
  <2> SUFFICES ASSUME HandlersGetValidInput, [Next]_vars
               PROVE  HandlersGetValidInput'
    OBVIOUS
  <2>1. CASE HandleCreateOrderRequest
    <3>1. \/ invoked' = invoked
          \/ /\ DecodeCreateOrderRequest.code = 0
             /\ invoked'.op = "CreateOrder"
             /\ invoked'.body = DecodeCreateOrderRequest.value
      BY <2>1 DEF HandleCreateOrderRequest, Invoke, Input
    <3> QED BY <3>1, DecodedIsValid DEF HandlersGetValidInput
  <2>2. CASE HandlePayOrderRequest
    <3>1. \/ invoked' = invoked
          \/ /\ DecodePayOrderRequest.code = 0
             /\ invoked'.op = "PayOrder"
             /\ invoked'.body = DecodePayOrderRequest.value
      BY <2>2 DEF HandlePayOrderRequest, Invoke, Input
    <3> QED BY <3>1, DecodedIsValid DEF HandlersGetValidInput
  <2>3. CASE HandleCancelOrderRequest \/ HandleGetOrderRequest
    <3>1. invoked' = invoked \/ invoked'.op \in {"CancelOrder", "GetOrder"}
      BY <2>3
         DEF HandleCancelOrderRequest, HandleGetOrderRequest, Invoke, Input
    <3> QED BY <3>1 DEF HandlersGetValidInput
  <2>4. CASE Reset
    BY <2>4 DEF Reset, HandlersGetValidInput, NoInput, Input
  <2>5. CASE UNCHANGED invoked
    BY <2>5 DEF HandlersGetValidInput
  <2>6. GeneratedClient \/ OtherClient => UNCHANGED invoked
    BY DEF GeneratedClient, OtherClient, SendCreateOrder, SendGetOrder,
           SendPayOrder, SendCancelOrder, SendRaw, Send
  <2>7. Refuse \/ CancelOrder \/ CreateOrder \/ GetOrder \/ PayOrder
          \/ EncodeResponse \/ Receive \/ Break \/ UNCHANGED vars
          => UNCHANGED invoked
    BY DEF Refuse, CancelOrder, CreateOrder, GetOrder, PayOrder, Return,
           ReturnError, EncodeResponse, Receive, Break, vars
  <2> QED BY <2>1, <2>2, <2>3, <2>4, <2>5, <2>6, <2>7 DEF Next, Server
<1> QED BY <1>1, <1>2, PTL DEF Spec

\* The table has a row or none for every order.
Stored == DOMAIN table = Orders /\ NoOrderWithoutParts

(* No order without parts is stored, whatever a client sends.              *)
THEOREM EveryOrderHasParts == Spec => []NoOrderWithoutParts
<1>1. Init => Stored
  BY DEF Init, Stored, NoOrderWithoutParts
<1>2. Stored /\ [Next]_vars => Stored'
  <2> SUFFICES ASSUME Stored, [Next]_vars
               PROVE  Stored'
    OBVIOUS
  <2>1. CASE UNCHANGED table
    BY <2>1 DEF Stored, NoOrderWithoutParts
  <2>2. CASE CreateOrder /\ table' # table
    <3>1. PICK o \in Orders, price \in {0, 1} :
            table' = [table EXCEPT ![o] = [user |-> User(invoked.body),
                                           parts |-> Parts(invoked.body),
                                           price |-> price]]
      BY <2>2 DEF CreateOrder
    <3>2. Len(Parts(invoked.body)) > 0
      BY <2>2 DEF CreateOrder, AcceptsParts
    <3> QED BY <3>1, <3>2 DEF Stored, NoOrderWithoutParts
  <2>3. GeneratedClient \/ OtherClient => UNCHANGED table
    BY DEF GeneratedClient, OtherClient, SendCreateOrder, SendGetOrder,
           SendPayOrder, SendCancelOrder, SendRaw, Send
  <2>4. Server => UNCHANGED table \/ CreateOrder
    BY DEF Server, Refuse, HandleCancelOrderRequest, HandleCreateOrderRequest,
           HandleGetOrderRequest, HandlePayOrderRequest, CancelOrder, GetOrder,
           PayOrder, EncodeResponse
  <2>5. Receive \/ Break \/ Reset \/ UNCHANGED vars => UNCHANGED table
    BY DEF Receive, Break, Reset, vars
  <2> QED BY <2>1, <2>2, <2>3, <2>4, <2>5 DEF Next
<1>3. Stored => NoOrderWithoutParts
  BY DEF Stored
<1> QED BY <1>1, <1>2, <1>3, PTL DEF Spec

-----------------------------------------------------------------------------
(* The router's inverse: which paths lead to an operation.                 *)

\* The path is the template with the UUID in its place.
Fills(path, template, o) ==
  /\ Len(path) = Len(template)
  /\ \A i \in 1..Len(template) :
       path[i] = IF template[i] = "{order_uuid}" THEN o ELSE template[i]

(* Such a path is documented.                                              *)
LEMMA Filled ==
  ASSUME NEW op, NEW o, NEW S, NEW t \in Seq(S), Template[op] = t,
         NEW path \in Seq(S), Fills(path, t, o)
  PROVE  Documented(op, o) = path
<1> USE DEF Fills
<1>1. DOMAIN t = 1..Len(t) /\ DOMAIN path = 1..Len(t)
  BY LenProperties
<1>2. path = [i \in 1..Len(t) |-> path[i]]
  <2>1. path \in [1..Len(path) -> S]
    BY LenProperties
  <2> QED BY <2>1
<1>3. Documented(op, o) = [i \in 1..Len(t) |-> path[i]]
  BY <1>1 DEF Documented
<1> QED BY <1>2, <1>3

(* The documented paths, with the order's UUID in its place.               *)
LEMMA DocumentedIs ==
  ASSUME NEW o
  PROVE  /\ Documented("CreateOrder", o) = <<Prefix>>
         /\ Documented("GetOrder", o) = <<Prefix, "/", o>>
         /\ Documented("PayOrder", o) = <<Prefix, "/", o, "/", "pay">>
         /\ Documented("CancelOrder", o) = <<Prefix, "/", o, "/", "cancel">>
<1> DEFINE uuid == "{order_uuid}"
<1>1. Prefix # uuid /\ "/" # uuid /\ "pay" # uuid /\ "cancel" # uuid
  BY DEF Prefix
<1>2. /\ \A i \in 1..1 : i = 1
      /\ \A i \in 1..3 : i = 1 \/ i = 2 \/ i = 3
      /\ \A i \in 1..5 : i = 1 \/ i = 2 \/ i = 3 \/ i = 4 \/ i = 5
  OBVIOUS
<1>3. Documented("CreateOrder", o) = <<Prefix>>
  <2> DEFINE t == <<Prefix>>
             S == {Prefix}
  <2>1. t \in Seq(S) /\ Len(t) = 1 /\ t[1] = Prefix
    OBVIOUS
  <2>2. Template["CreateOrder"] = t
    BY DEF Template
  <2> HIDE DEF t, S
  <2>3. Fills(t, t, o)
    <3>1. 1..Len(t) = 1..1
      BY <2>1
    <3> QED BY <1>1, <1>2, <2>1, <3>1 DEF Fills
  <2>4. Documented("CreateOrder", o) = t
    BY <2>1, <2>2, <2>3, Filled
  <2> QED BY <2>4 DEF t
<1>4. Documented("GetOrder", o) = <<Prefix, "/", o>>
  <2> DEFINE t == <<Prefix, "/", uuid>>
             path == <<Prefix, "/", o>>
             S == {Prefix, "/", uuid, o}
  <2>1. /\ t \in Seq(S) /\ Len(t) = 3 /\ path \in Seq(S) /\ Len(path) = 3
        /\ t[1] = Prefix /\ t[2] = "/" /\ t[3] = uuid
        /\ path[1] = Prefix /\ path[2] = "/" /\ path[3] = o
    OBVIOUS
  <2>2. Template["GetOrder"] = t
    BY DEF Template
  <2> HIDE DEF t, path, S
  <2>3. Fills(path, t, o)
    <3>1. 1..Len(t) = 1..3
      BY <2>1
    <3> QED BY <1>1, <1>2, <2>1, <3>1 DEF Fills
  <2>4. Documented("GetOrder", o) = path
    BY <2>1, <2>2, <2>3, Filled
  <2> QED BY <2>4 DEF path
<1>5. ASSUME NEW op, NEW verb \in {"pay", "cancel"},
             Template[op] = <<Prefix, "/", uuid, "/", verb>>
      PROVE  Documented(op, o) = <<Prefix, "/", o, "/", verb>>
  <2> DEFINE t == <<Prefix, "/", uuid, "/", verb>>
             path == <<Prefix, "/", o, "/", verb>>
             S == {Prefix, "/", uuid, o, verb}
  <2>1. /\ t \in Seq(S) /\ Len(t) = 5 /\ path \in Seq(S) /\ Len(path) = 5
        /\ t[1] = Prefix /\ t[2] = "/" /\ t[3] = uuid /\ t[4] = "/"
        /\ t[5] = verb
        /\ path[1] = Prefix /\ path[2] = "/" /\ path[3] = o /\ path[4] = "/"
        /\ path[5] = verb
    OBVIOUS
  <2>2. Template[op] = t
    BY <1>5
  <2>6. verb # uuid
    OBVIOUS
  <2> HIDE DEF t, path, S
  <2>3. Fills(path, t, o)
    <3>1. 1..Len(t) = 1..5
      BY <2>1
    <3> QED BY <1>1, <1>2, <2>1, <2>6, <3>1 DEF Fills
  <2>4. Documented(op, o) = path
    BY <2>1, <2>2, <2>3, Filled
  <2> QED BY <2>4 DEF path
<1>6. /\ Template["PayOrder"] = <<Prefix, "/", uuid, "/", "pay">>
      /\ Template["CancelOrder"] = <<Prefix, "/", uuid, "/", "cancel">>
  BY DEF Template
<1> QED BY <1>3, <1>4, <1>5, <1>6

(* A sequence is what stands at its places.                                *)
LEMMA SequenceIs ==
  ASSUME NEW S, NEW s \in Seq(S)
  PROVE  /\ Len(s) = 1 => s = <<s[1]>>
         /\ Len(s) = 3 => s = <<s[1], s[2], s[3]>>
         /\ Len(s) = 5 => s = <<s[1], s[2], s[3], s[4], s[5]>>
OBVIOUS

(* What holds somewhere in a sequence holds first at some place.           *)
LEMMA FirstIsThere ==
  ASSUME NEW n \in Nat, NEW S, S \subseteq 1..n, S # {}
  PROVE  \E i \in S : \A j \in 1..(i - 1) : j \notin S
<1> DEFINE R == OpToRel(<, Nat)
<1>1. IsWellFoundedOn(R, Nat)
  BY NatLessThanWellFounded DEF R
<1>2. S \subseteq Nat
  OBVIOUS
<1>3. \E i \in S : \A j \in S : ~ (<<j, i>> \in R)
  <2> HIDE DEF R
  <2> QED BY <1>1, <1>2, WFMin
<1>4. PICK i \in S : \A j \in S : ~ (<<j, i>> \in R)
  BY <1>3
<1>5. \A j \in S : ~ (j < i)
  <2>1. \A j \in Nat : j < i => <<j, i>> \in R
    BY <1>2 DEF OpToRel
  <2> HIDE DEF R
  <2> QED BY <1>2, <1>4, <2>1
<1> QED BY <1>2, <1>5

(* The parameter ends at the path's end or before it.                      *)
LEMMA ParamEndIs ==
  ASSUME NEW S, NEW elem \in Seq(S)
  PROVE  ParamEnd(elem) \in 1..(Len(elem) + 1)
<1>1. CASE \E i \in DOMAIN elem : elem[i] = "/"
  <2> DEFINE I == {i \in DOMAIN elem : elem[i] = "/"}
             IsEnd(i) == elem[i] = "/" /\ \A j \in 1..(i - 1) : elem[j] # "/"
  <2>1. DOMAIN elem = 1..Len(elem) /\ Len(elem) \in Nat
    OBVIOUS
  <2>2. I # {} /\ I \subseteq 1..Len(elem)
    BY <1>1, <2>1
  <2>3. \E i \in I : \A j \in 1..(i - 1) : j \notin I
    <3> HIDE DEF I
    <3> QED BY <2>1, <2>2, FirstIsThere
  <2>4. \E i \in DOMAIN elem : IsEnd(i)
    BY <2>1, <2>3
  <2>5. ParamEnd(elem) = CHOOSE i \in DOMAIN elem : IsEnd(i)
    BY <1>1 DEF ParamEnd
  <2> HIDE DEF IsEnd, I
  <2> QED BY <2>1, <2>4, <2>5
<1>2. CASE ~ \E i \in DOMAIN elem : elem[i] = "/"
  BY <1>2 DEF ParamEnd
<1> QED BY <1>1, <1>2

(* A parameter of one piece, and what follows it, is what the path was.    *)
LEMMA RouteOrderFrom ==
  ASSUME NEW S, NEW elem \in Seq(S),
         RouteOrder(elem).op # "none", Len(RouteOrder(elem).param) = 1
  PROVE  LET leaf == RouteOrder(elem) IN
         \/ leaf.op = "GetOrder" /\ elem = <<leaf.param[1]>>
         \/ leaf.op = "CancelOrder" /\ elem = <<leaf.param[1], "/", "cancel">>
         \/ leaf.op = "PayOrder" /\ elem = <<leaf.param[1], "/", "pay">>
<1> DEFINE e     == ParamEnd(elem)
           param == SubSeq(elem, 1, e - 1)
           rest  == SubSeq(elem, e, Len(elem))
           leaf  == RouteOrder(elem)
<1>1. \/ rest = <<>> /\ leaf = Leaf("GET", "GetOrder", param)
      \/ rest = <<"/", "cancel">> /\ leaf = Leaf("POST", "CancelOrder", param)
      \/ rest = <<"/", "pay">> /\ leaf = Leaf("POST", "PayOrder", param)
  <2>1. \/ rest = <<>> /\ leaf = Leaf("GET", "GetOrder", param)
        \/ rest = <<"/", "cancel">> /\ leaf = Leaf("POST", "CancelOrder", param)
        \/ rest = <<"/", "pay">> /\ leaf = Leaf("POST", "PayOrder", param)
        \/ leaf = NotFound
    BY DEF RouteOrder
  <2>2. leaf.op # "none" /\ NotFound.op = "none"
    BY DEF NotFound, Leaf
  <2> HIDE DEF param, rest, leaf
  <2> QED BY <2>1, <2>2
<1>2. /\ leaf.param = param
      /\ \/ rest = <<>> /\ leaf.op = "GetOrder"
         \/ rest = <<"/", "cancel">> /\ leaf.op = "CancelOrder"
         \/ rest = <<"/", "pay">> /\ leaf.op = "PayOrder"
  <2> HIDE DEF param, rest, leaf
  <2> QED BY <1>1 DEF Leaf
<1>3. Len(param) = 1
  BY <1>2
<1>4. e \in 1..(Len(elem) + 1) /\ Len(elem) \in Nat
  BY ParamEndIs
<1> HIDE DEF e, leaf
<1>5. e = 2 /\ param[1] = elem[1]
  <2>1. \A i \in 1..(e - 1) : elem[i] \in S
    BY <1>4
  <2>2. /\ Len(param) = IF 1 <= e - 1 THEN e - 1 ELSE 0
        /\ \A i \in 1..(e - 1) : param[i] = elem[1 + i - 1]
    BY <1>4, <2>1, SubSeqProperties
  <2> HIDE DEF param
  <2>3. e = 2
    <3>1. \A i \in 1..(Len(elem) + 1) :
            1 = (IF 1 <= i - 1 THEN i - 1 ELSE 0) => i = 2
      BY <1>4
    <3> QED BY <1>3, <1>4, <2>2, <3>1, Zenon
  <2>4. 1 \in 1..(e - 1)
    BY <2>3
  <2>5. param[1] = elem[1 + 1 - 1]
    BY <2>2, <2>4
  <2> QED BY <2>3, <2>5
<1>6. /\ Len(rest) = Len(elem) - 1
      /\ \A i \in 1..(Len(elem) - 1) : rest[i] = elem[i + 1]
  <2>1. \A i \in 2..Len(elem) : elem[i] \in S
    OBVIOUS
  <2>2. /\ Len(rest) = IF 2 <= Len(elem) THEN Len(elem) - 2 + 1 ELSE 0
        /\ \A i \in 1..(Len(elem) - 2 + 1) : rest[i] = elem[2 + i - 1]
    BY <1>4, <1>5, <2>1, SubSeqProperties
  <2> HIDE DEF rest
  <2>3. Len(elem) >= 1
    BY <1>4, <1>5
  <2>4. Len(rest) = Len(elem) - 1
    <3>1. \A n \in Nat :
            n >= 1 => (IF 2 <= n THEN n - 2 + 1 ELSE 0) = n - 1
      OBVIOUS
    <3> QED BY <1>4, <2>2, <2>3, <3>1, Zenon
  <2>5. ASSUME NEW i \in 1..(Len(elem) - 1)
        PROVE  rest[i] = elem[i + 1]
    <3>1. rest[i] = elem[2 + i - 1]
      BY <1>4, <2>2
    <3>2. 2 + i - 1 = i + 1
      BY <1>4
    <3> QED BY <3>1, <3>2
  <2> QED BY <2>4, <2>5
<1> HIDE DEF param, rest
<1>7. ASSUME rest = <<>>
      PROVE  elem = <<param[1]>>
  <2>1. Len(elem) = 1
    <3>1. Len(rest) = 0
      BY <1>7
    <3>2. \A n \in Nat : n - 1 = 0 => n = 1
      OBVIOUS
    <3> QED BY <1>4, <1>6, <3>1, <3>2, Zenon
  <2> QED BY <1>5, <2>1, SequenceIs
<1>8. ASSUME NEW verb, rest = <<"/", verb>>
      PROVE  elem = <<param[1], "/", verb>>
  <2>1. Len(rest) = 2 /\ rest[1] = "/" /\ rest[2] = verb
    BY <1>8
  <2>2. Len(elem) = 3
    <3>1. \A n \in Nat : n - 1 = 2 => n = 3
      OBVIOUS
    <3> QED BY <1>4, <1>6, <2>1, <3>1, Zenon
  <2>3. elem[2] = "/" /\ elem[3] = verb
    <3>1. 1 \in 1..(Len(elem) - 1) /\ 2 \in 1..(Len(elem) - 1)
      BY <2>2
    <3>2. rest[1] = elem[1 + 1] /\ rest[2] = elem[2 + 1]
      BY <1>6, <3>1
    <3> QED BY <2>1, <3>2
  <2> QED BY <1>5, <2>2, <2>3, SequenceIs
<1> QED BY <1>2, <1>7, <1>8 DEF leaf

(* An operation is found under its documented path only.                   *)
LEMMA RouteFrom ==
  ASSUME NEW S, NEW path \in Seq(S), Route(path).op # "none"
  PROVE  LET leaf == Route(path) IN
         /\ leaf.op \in Operations
         /\ leaf.method = IF leaf.op = "GetOrder" THEN "GET" ELSE "POST"
         /\ leaf.op = "CreateOrder" => path = <<Prefix>>
         /\ leaf.op # "CreateOrder" /\ Len(leaf.param) = 1 =>
              path = Documented(leaf.op, leaf.param[1])
<1> DEFINE elem == SubSeq(path, 3, Len(path))
           leaf == Route(path)
<1>1. CASE path = <<Prefix>>
  <2>1. leaf = Leaf("POST", "CreateOrder", <<>>)
    BY <1>1 DEF Route
  <2> HIDE DEF leaf
  <2>2. leaf.op = "CreateOrder" /\ leaf.method = "POST"
    BY <2>1 DEF Leaf
  <2> QED BY <1>1, <2>2 DEF leaf, Operations
<1>2. CASE path # <<Prefix>>
  <2>1. /\ Len(path) >= 2 /\ path[1] = Prefix /\ path[2] = "/"
        /\ leaf = RouteOrder(elem)
    BY <1>2 DEF Route, NotFound, Leaf
  <2>2. /\ elem \in Seq(S) /\ Len(elem) = Len(path) - 2
        /\ \A i \in 1..(Len(path) - 2) : elem[i] = path[2 + i]
    <3>1. (\A i \in 3..Len(path) : path[i] \in S) /\ Len(path) \in Nat
      OBVIOUS
    <3>2. /\ elem \in Seq(S)
          /\ Len(elem) = IF 3 <= Len(path) THEN Len(path) - 3 + 1 ELSE 0
          /\ \A i \in 1..(Len(path) - 3 + 1) : elem[i] = path[3 + i - 1]
      BY <3>1, SubSeqProperties
    <3> HIDE DEF elem
    <3>3. Len(elem) = Len(path) - 2
      <4>1. \A n \in Nat :
              n >= 2 => (IF 3 <= n THEN n - 3 + 1 ELSE 0) = n - 2
        OBVIOUS
      <4> QED BY <2>1, <3>1, <3>2, <4>1, Zenon
    <3>4. ASSUME NEW i \in 1..(Len(path) - 2)
          PROVE  elem[i] = path[2 + i]
      <4>1. elem[i] = path[3 + i - 1]
        BY <3>1, <3>2
      <4>2. 3 + i - 1 = 2 + i
        BY <3>1
      <4> QED BY <4>1, <4>2
    <3> QED BY <3>2, <3>3, <3>4
  <2>3. /\ leaf.op \in {"GetOrder", "PayOrder", "CancelOrder"}
        /\ leaf.method = IF leaf.op = "GetOrder" THEN "GET" ELSE "POST"
    <3> DEFINE param == SubSeq(elem, 1, ParamEnd(elem) - 1)
    <3> HIDE DEF elem, param
    <3>1. \/ leaf = Leaf("GET", "GetOrder", param)
          \/ leaf = Leaf("POST", "CancelOrder", param)
          \/ leaf = Leaf("POST", "PayOrder", param)
          \/ leaf = NotFound
      BY <2>1 DEF RouteOrder, param
    <3>2. leaf.op # "none" /\ NotFound.op = "none"
      BY DEF NotFound, Leaf
    <3> HIDE DEF leaf
    <3>3. leaf # NotFound
      BY <3>2
    <3> QED BY <3>1, <3>3 DEF Leaf
  <2>4. ASSUME Len(leaf.param) = 1
        PROVE  path = Documented(leaf.op, leaf.param[1])
    <3> DEFINE o == leaf.param[1]
    <3>1. \/ leaf.op = "GetOrder" /\ elem = <<o>>
          \/ leaf.op = "CancelOrder" /\ elem = <<o, "/", "cancel">>
          \/ leaf.op = "PayOrder" /\ elem = <<o, "/", "pay">>
      <4> HIDE DEF elem
      <4> QED BY <2>1, <2>2, <2>4, RouteOrderFrom
    <3> HIDE DEF o, elem, leaf
    <3>2. ASSUME elem = <<o>>
          PROVE  path = <<Prefix, "/", o>>
      <4>1. Len(elem) = 1 /\ elem[1] = o
        BY <3>2
      <4>2. Len(path) = 3
        <5>1. Len(path) \in Nat /\ \A n \in Nat : n - 2 = 1 => n = 3
          OBVIOUS
        <5> QED BY <2>2, <4>1, <5>1, Zenon
      <4>3. path[3] = o
        <5>1. 1 \in 1..(Len(path) - 2)
          BY <4>2
        <5>2. elem[1] = path[2 + 1]
          BY <2>2, <5>1
        <5> QED BY <4>1, <5>2
      <4> QED BY <2>1, <4>2, <4>3, SequenceIs
    <3>3. ASSUME NEW verb, elem = <<o, "/", verb>>
          PROVE  path = <<Prefix, "/", o, "/", verb>>
      <4>1. Len(elem) = 3 /\ elem[1] = o /\ elem[2] = "/" /\ elem[3] = verb
        BY <3>3
      <4>2. Len(path) = 5
        <5>1. Len(path) \in Nat /\ \A n \in Nat : n - 2 = 3 => n = 5
          OBVIOUS
        <5> QED BY <2>2, <4>1, <5>1, Zenon
      <4>3. path[3] = o /\ path[4] = "/" /\ path[5] = verb
        <5>1. 1 \in 1..(Len(path) - 2) /\ 2 \in 1..(Len(path) - 2)
              /\ 3 \in 1..(Len(path) - 2)
          BY <4>2
        <5>2. elem[1] = path[2 + 1] /\ elem[2] = path[2 + 2] /\ elem[3] = path[2 + 3]
          BY <2>2, <5>1
        <5> QED BY <4>1, <5>2
      <4> QED BY <2>1, <4>2, <4>3, SequenceIs
    <3>4. CASE leaf.op = "GetOrder" /\ elem = <<o>>
      BY <3>2, <3>4, DocumentedIs DEF o
    <3>5. CASE leaf.op = "CancelOrder" /\ elem = <<o, "/", "cancel">>
      BY <3>3, <3>5, DocumentedIs DEF o
    <3>6. CASE leaf.op = "PayOrder" /\ elem = <<o, "/", "pay">>
      BY <3>3, <3>6, DocumentedIs DEF o
    <3> QED BY <3>1, <3>4, <3>5, <3>6
  <2> HIDE DEF leaf
  <2>5. leaf.op # "CreateOrder" /\ leaf.op \in Operations
    BY <2>3 DEF Operations
  <2> QED BY <2>3, <2>4, <2>5 DEF leaf
<1> QED BY <1>1, <1>2

-----------------------------------------------------------------------------
(* The delivery layer is called as order.openapi.yaml documents.           *)

\* The method order.openapi.yaml documents for an operation.
MethodOf(op) == IF op = "GetOrder" THEN "GET" ELSE "POST"

\* A path is a sequence of pieces.
PathIsPieces == \E S : request.path \in Seq(S)

\* The operation that was called is the one the path is documented for.
CalledAsDocumented ==
  invoked # NoInput =>
    /\ request.path = Documented(invoked.op, invoked.order)
    /\ request.method = MethodOf(invoked.op)

\* What is answered without a call is a refusal of the body or the parameter,
\* or the method is not the leaf's.
RefusedInTime ==
  response # NoResponse /\ invoked = NoInput =>
    /\ stage \notin {"idle", "request"}
    /\ \/ response.status \in {400, 415}
       \/ request.method # Route(request.path).method

RouteInv == PathIsPieces /\ CalledAsDocumented /\ RefusedInTime

(* Requests have such a path.                                              *)
LEMMA PathsArePieces ==
  /\ \A o : /\ <<Prefix, "/", o>> \in Seq({Prefix, "/", o})
            /\ <<Prefix, "/", o, "/", "pay">> \in Seq({Prefix, "/", o, "pay"})
            /\ <<Prefix, "/", o, "/", "cancel">>
                 \in Seq({Prefix, "/", o, "cancel"})
  /\ <<Prefix>> \in Seq({Prefix})
  /\ \A path \in Paths : \E S : path \in Seq(S)
  /\ <<>> \in Seq({})
<1>1. \A path \in Paths : \E S : path \in Seq(S)
  BY APIConstants
<1>2. \A o : /\ <<Prefix, "/", o>> \in Seq({Prefix, "/", o})
             /\ <<Prefix, "/", o, "/", "pay">> \in Seq({Prefix, "/", o, "pay"})
             /\ <<Prefix, "/", o, "/", "cancel">>
                  \in Seq({Prefix, "/", o, "cancel"})
  OBVIOUS
<1> QED BY <1>1, <1>2

(* What a request on the wire is.                                          *)
LEMMA SendRoutes ==
  ASSUME GeneratedClient \/ OtherClient
  PROVE  PathIsPieces'
<1>1. \A m, p, t, b : Request(m, p, t, b).path = p
  BY DEF Request
<1>2. CASE GeneratedClient
  <2>1. \A in, m, p, b : Send(in, m, p, b) => request'.path = p
    BY <1>1 DEF Send
  <2>2. /\ \A body : SendCreateOrder(body) => request'.path = <<Prefix>>
        /\ \A o : /\ SendGetOrder(o) => request'.path = <<Prefix, "/", o>>
                  /\ SendCancelOrder(o) =>
                       request'.path = <<Prefix, "/", o, "/", "cancel">>
        /\ \A o, body : SendPayOrder(o, body) =>
             request'.path = <<Prefix, "/", o, "/", "pay">>
    BY <2>1 DEF SendCreateOrder, SendGetOrder, SendCancelOrder, SendPayOrder
  <2>3. \/ request'.path = <<Prefix>>
        \/ \E o : \/ request'.path = <<Prefix, "/", o>>
                  \/ request'.path = <<Prefix, "/", o, "/", "cancel">>
                  \/ request'.path = <<Prefix, "/", o, "/", "pay">>
    BY <1>2, <2>2 DEF GeneratedClient
  <2>4. CASE request'.path = <<Prefix>>
    BY <2>4, PathsArePieces DEF PathIsPieces
  <2>5. ASSUME NEW o, \/ request'.path = <<Prefix, "/", o>>
                      \/ request'.path = <<Prefix, "/", o, "/", "cancel">>
                      \/ request'.path = <<Prefix, "/", o, "/", "pay">>
        PROVE  PathIsPieces'
    <3>1. \/ request'.path \in Seq({Prefix, "/", o})
          \/ request'.path \in Seq({Prefix, "/", o, "cancel"})
          \/ request'.path \in Seq({Prefix, "/", o, "pay"})
      BY <2>5, PathsArePieces
    <3> QED BY <3>1 DEF PathIsPieces
  <2> QED BY <2>3, <2>4, <2>5
<1>3. CASE OtherClient
  <2>1. \A m, p, t, b : SendRaw(m, p, t, b) => request'.path = p
    BY <1>1 DEF SendRaw
  <2>2. request'.path \in Paths
    BY <1>3, <2>1 DEF OtherClient
  <2> QED BY <2>2, PathsArePieces DEF PathIsPieces
<1> QED BY <1>2, <1>3

(* The delivery layer is called for a documented path,                     *)
LEMMA InvokeRoutes ==
  ASSUME RouteInv, UNCHANGED request, NEW op \in Operations, NEW o, NEW body,
         Invoke(Input(op, o, body)), IsRouted(op),
         IF op = "CreateOrder" THEN o = NilUUID
         ELSE /\ Len(Route(request.path).param) = 1
              /\ o = Route(request.path).param[1]
  PROVE  RouteInv'
<1>1. /\ stage' = "handle" /\ invoked' = Input(op, o, body)
      /\ UNCHANGED <<request, response>>
  BY DEF Invoke
<1>2. Input(op, o, body).op = op /\ Input(op, o, body).order = o
  BY DEF Input
<1>3. NoInput.op = "none" /\ "none" \notin Operations
  BY DEF NoInput, Input, Operations
<1>4. invoked' # NoInput
  BY <1>1, <1>2, <1>3
<1>5. Route(request.path).op = op /\ request.method = Route(request.path).method
  BY DEF IsRouted
<1>6. request.path = Documented(op, o) /\ request.method = MethodOf(op)
  <2>1. PICK S : request.path \in Seq(S)
    BY DEF RouteInv, PathIsPieces
  <2>2. op # "none"
    BY <1>3
  <2>3. /\ request.method = MethodOf(op)
        /\ op = "CreateOrder" => request.path = <<Prefix>>
        /\ op # "CreateOrder" => request.path = Documented(op, o)
    BY <1>5, <2>1, <2>2, RouteFrom DEF MethodOf
  <2> QED BY <2>3, DocumentedIs
<1> QED BY <1>1, <1>2, <1>4, <1>6
        DEF RouteInv, PathIsPieces, CalledAsDocumented, RefusedInTime

(* or the request is answered without it.                                  *)
LEMMA RefuseRoutes ==
  ASSUME RouteInv, UNCHANGED <<request, invoked>>, stage' = "response",
         \/ response'.status \in {400, 415}
         \/ request.method # Route(request.path).method
         \/ invoked # NoInput
  PROVE  RouteInv'
BY DEF RouteInv, PathIsPieces, CalledAsDocumented, RefusedInTime

(* The codes of refused bodies.                                            *)
LEMMA CodesAre ==
  /\ DecodeCreateOrderRequest.code \in {0, 400, 415}
  /\ DecodePayOrderRequest.code \in {0, 400, 415}
  /\ \A code : ErrorHandler(code) =>
       stage' = "response" /\ response'.status = code
<1>1. \A T : DecodeJSON(T).code \in {0, 400}
  BY DEF DecodeJSON, Decoded, Refusal
<1>5. (\A v : Decoded(v).code = 0) /\ (\A c : Refusal(c).code = c)
  BY DEF Decoded, Refusal
<1>2. DecodeCreateOrderRequest.code \in {0, 400, 415}
  <2>1. \/ DecodeCreateOrderRequest \in {Decoded(NoValue), Refusal(400), Refusal(415)}
        \/ DecodeCreateOrderRequest = DecodeJSON(CreateOrderReq)
    BY DEF DecodeCreateOrderRequest
  <2> QED BY <1>1, <1>5, <2>1
<1>3. DecodePayOrderRequest.code \in {0, 400, 415}
  <2>1. \/ DecodePayOrderRequest \in {Refusal(400), Refusal(415)}
        \/ DecodePayOrderRequest = DecodeJSON(PayOrderReq)
    BY DEF DecodePayOrderRequest
  <2> QED BY <1>1, <1>5, <2>1
<1>4. \A code : ErrorHandler(code) =>
        stage' = "response" /\ response'.status = code
  BY DEF ErrorHandler, Answer, Response
<1> QED BY <1>2, <1>3, <1>4

(* A request is routed, decoded and passed on, or refused.                 *)
LEMMA HandlersRoute ==
  ASSUME RouteInv,
         \/ Refuse
         \/ HandleCancelOrderRequest \/ HandleCreateOrderRequest
         \/ HandleGetOrderRequest \/ HandlePayOrderRequest
  PROVE  RouteInv'
<1>1. CASE Refuse
  BY <1>1, RefuseRoutes DEF Refuse, Answer
<1>2. CASE HandleCancelOrderRequest
  <2> DEFINE param == Route(request.path).param
  <2>1. IsRouted("CancelOrder") /\ UNCHANGED request
    BY <1>2 DEF HandleCancelOrderRequest
  <2>2. \/ /\ Len(param) = 1 /\ Invoke(Input("CancelOrder", param[1], NoValue))
        \/ ErrorHandler(400) /\ UNCHANGED invoked
    BY <1>2 DEF HandleCancelOrderRequest, DecodeCancelOrderParams
  <2>3. "CancelOrder" \in Operations
    BY DEF Operations
  <2> QED BY <2>1, <2>2, <2>3, InvokeRoutes, RefuseRoutes, CodesAre
<1>3. CASE HandleGetOrderRequest
  <2> DEFINE param == Route(request.path).param
  <2>1. IsRouted("GetOrder") /\ UNCHANGED request
    BY <1>3 DEF HandleGetOrderRequest
  <2>2. \/ /\ Len(param) = 1 /\ Invoke(Input("GetOrder", param[1], NoValue))
        \/ ErrorHandler(400) /\ UNCHANGED invoked
    BY <1>3 DEF HandleGetOrderRequest, DecodeGetOrderParams
  <2>3. "GetOrder" \in Operations
    BY DEF Operations
  <2> QED BY <2>1, <2>2, <2>3, InvokeRoutes, RefuseRoutes, CodesAre
<1>4. CASE HandleCreateOrderRequest
  <2> DEFINE body == DecodeCreateOrderRequest
  <2>1. IsRouted("CreateOrder") /\ UNCHANGED request
    BY <1>4 DEF HandleCreateOrderRequest
  <2>2. \/ Invoke(Input("CreateOrder", NilUUID, body.value))
        \/ body.code # 0 /\ ErrorHandler(body.code) /\ UNCHANGED invoked
    BY <1>4 DEF HandleCreateOrderRequest
  <2>3. "CreateOrder" \in Operations
    BY DEF Operations
  <2> HIDE DEF body
  <2>4. CASE Invoke(Input("CreateOrder", NilUUID, body.value))
    BY <2>1, <2>3, <2>4, InvokeRoutes
  <2>5. CASE body.code # 0 /\ ErrorHandler(body.code) /\ UNCHANGED invoked
    <3>1. stage' = "response" /\ response'.status \in {400, 415}
      BY <2>5, CodesAre DEF body
    <3> QED BY <2>1, <2>5, <3>1, RefuseRoutes
  <2> QED BY <2>2, <2>4, <2>5
<1>5. CASE HandlePayOrderRequest
  <2> DEFINE param == Route(request.path).param
             body == DecodePayOrderRequest
             code == IF DecodePayOrderParams(param) THEN body.code ELSE 400
  <2>1. IsRouted("PayOrder") /\ UNCHANGED request
    BY <1>5 DEF HandlePayOrderRequest
  <2>2. \/ Len(param) = 1 /\ Invoke(Input("PayOrder", param[1], body.value))
        \/ code # 0 /\ ErrorHandler(code) /\ UNCHANGED invoked
    BY <1>5 DEF HandlePayOrderRequest, DecodePayOrderParams
  <2>3. "PayOrder" \in Operations /\ code \in {0, 400, 415}
    BY CodesAre DEF Operations
  <2> HIDE DEF body, code
  <2>4. CASE Len(param) = 1 /\ Invoke(Input("PayOrder", param[1], body.value))
    BY <2>1, <2>3, <2>4, InvokeRoutes
  <2>5. CASE code # 0 /\ ErrorHandler(code) /\ UNCHANGED invoked
    <3>1. stage' = "response" /\ response'.status \in {400, 415}
      BY <2>3, <2>5, CodesAre
    <3> QED BY <2>1, <2>5, <3>1, RefuseRoutes
  <2> QED BY <2>2, <2>4, <2>5
<1> QED BY <1>1, <1>2, <1>3, <1>4, <1>5

(* An operation is called for no request but one with the method and path  *)
(* documented for it, and no such request is refused by the router.        *)
THEOREM CallsAreDocumented == Spec => []InvokedAsDocumented
<1>1. Init => RouteInv
  <2>1. NoRequest.path = <<>>
    BY DEF NoRequest, Request
  <2> QED BY <2>1, PathsArePieces
          DEF Init, RouteInv, PathIsPieces, CalledAsDocumented, RefusedInTime
<1>2. APIInv /\ RouteInv /\ [Next]_vars => RouteInv'
  <2> SUFFICES ASSUME APIInv, RouteInv, [Next]_vars
               PROVE  RouteInv'
    OBVIOUS
  <2>1. CASE GeneratedClient \/ OtherClient
    <3>1. /\ stage = "idle" /\ UNCHANGED <<invoked, response>>
      BY <2>1 DEF GeneratedClient, OtherClient, SendCreateOrder, SendGetOrder,
                  SendPayOrder, SendCancelOrder, SendRaw, Send
    <3>2. invoked = NoInput /\ response = NoResponse
      BY <3>1 DEF APIInv, Fresh, RouteInv, RefusedInTime
    <3> QED BY <2>1, <3>1, <3>2, SendRoutes
            DEF RouteInv, CalledAsDocumented, RefusedInTime
  <2>2. CASE \/ CancelOrder \/ CreateOrder \/ GetOrder \/ PayOrder
             \/ Receive \/ Break \/ UNCHANGED vars
    <3>1. /\ UNCHANGED <<request, invoked, response>>
          /\ stage' \in {"idle", "request"} => stage' = stage
      BY <2>2 DEF CancelOrder, CreateOrder, GetOrder, PayOrder, Return,
                  ReturnError, Receive, Break, vars
    <3> QED BY <3>1
            DEF RouteInv, PathIsPieces, CalledAsDocumented, RefusedInTime
  <2>3. CASE EncodeResponse
    <3>1. /\ stage = "encode" /\ stage' = "response"
          /\ UNCHANGED <<request, invoked>>
      BY <2>3 DEF EncodeResponse, Answer
    <3>2. invoked # NoInput
      BY <3>1 DEF APIInv, Served, NoInput, Input, Operations
    <3> QED BY <3>1, <3>2, RefuseRoutes
  <2>4. CASE Reset
    <3>1. request' = NoRequest /\ invoked' = NoInput /\ response' = NoResponse
      BY <2>4 DEF Reset
    <3>2. NoRequest.path = <<>>
      BY DEF NoRequest, Request
    <3> QED BY <3>1, <3>2, PathsArePieces
            DEF RouteInv, PathIsPieces, CalledAsDocumented, RefusedInTime
  <2> QED BY <2>1, <2>2, <2>3, <2>4, HandlersRoute DEF Next, Server
<1>3. APIInv /\ RouteInv => InvokedAsDocumented
  <2> SUFFICES ASSUME RouteInv
               PROVE  InvokedAsDocumented
    OBVIOUS
  <2>1. ASSUME NEW op \in Operations, NEW o \in UUIDs,
               request.path = Documented(op, o), request.method = MethodOf(op),
               invoked = NoInput
        PROVE  response.status \notin {204, 404, 405}
    <3>1. Route(request.path).method = MethodOf(op)
      <4>1. \A m, n, p : Leaf(m, n, p).method = m
        BY DEF Leaf
      <4>2. CASE op = "CreateOrder"
        <5>1. Route(<<Prefix>>) = Leaf("POST", "CreateOrder", <<>>)
          BY RouteOf
        <5> QED BY <2>1, <4>1, <4>2, <5>1, DocumentedIs DEF MethodOf
      <4>3. CASE op = "GetOrder"
        <5>1. Route(<<Prefix, "/", o>>) = Leaf("GET", "GetOrder", <<o>>)
          BY RouteOf
        <5> QED BY <2>1, <4>1, <4>3, <5>1, DocumentedIs DEF MethodOf
      <4>4. CASE op = "PayOrder"
        <5>1. Route(<<Prefix, "/", o, "/", "pay">>) = Leaf("POST", "PayOrder", <<o>>)
          BY RouteOf
        <5> QED BY <2>1, <4>1, <4>4, <5>1, DocumentedIs DEF MethodOf
      <4>5. CASE op = "CancelOrder"
        <5>1. Route(<<Prefix, "/", o, "/", "cancel">>) = Leaf("POST", "CancelOrder", <<o>>)
          BY RouteOf
        <5> QED BY <2>1, <4>1, <4>5, <5>1, DocumentedIs DEF MethodOf
      <4> QED BY <4>2, <4>3, <4>4, <4>5 DEF Operations
    <3>2. NoResponse.status = 0
      BY DEF NoResponse, Response
    <3> QED BY <2>1, <3>1, <3>2 DEF RouteInv, RefusedInTime
  <2> QED BY <2>1
          DEF RouteInv, CalledAsDocumented, InvokedAsDocumented, MethodOf
<1> QED BY <1>1, <1>2, <1>3, Invariance, PTL DEF Spec

-----------------------------------------------------------------------------
(* Types.                                                                  *)

\* What TypeOK says of the variables that the steps of an exchange set.
Types ==
  /\ stage \in Stages
  /\ invoked.op \in Operations \cup {"none"} /\ invoked.order \in UUIDs
  /\ DOMAIN table = Orders
  /\ \A o \in Orders : table[o] # NoRow => table[o].price \in {0, 1}

(* The delivery layer's input is of its type.                              *)
LEMMA InvokeTypes ==
  ASSUME Types, UNCHANGED table,
         NEW op \in Operations, NEW o \in UUIDs, NEW body,
         Invoke(Input(op, o, body))
  PROVE  Types'
BY DEF Types, Invoke, Input, Stages

(* A row is of its type.                                                   *)
LEMMA CreateTypes ==
  ASSUME Types, CreateOrder
  PROVE  Types'
<1>1. stage' = "encode" /\ UNCHANGED invoked
  BY DEF CreateOrder, ReturnError, Return
<1>2. CASE UNCHANGED table
  BY <1>1, <1>2 DEF Types, Stages
<1>3. CASE \E o \in Orders, price \in {0, 1} :
             table' = [table EXCEPT ![o] = [user |-> User(invoked.body),
                                            parts |-> Parts(invoked.body),
                                            price |-> price]]
  <2>1. PICK o \in Orders, price \in {0, 1} :
             table' = [table EXCEPT ![o] = [user |-> User(invoked.body),
                                            parts |-> Parts(invoked.body),
                                            price |-> price]]
    BY <1>3
  <2>2. \A q \in Orders : table'[q].price = price \/ table'[q] = table[q]
    BY <2>1 DEF Types
  <2> QED BY <1>1, <2>1, <2>2 DEF Types, Stages
<1> QED BY <1>2, <1>3 DEF CreateOrder

(* Every variable has its type, and every stage has what it works on.      *)
THEOREM TypeCorrect == Spec => []TypeOK
<1>1. Init => Types
  BY APIConstants DEF Init, Types, Stages, NoInput, Input
<1>2. Types /\ [Next]_vars => Types'
  <2> SUFFICES ASSUME Types, [Next]_vars
               PROVE  Types'
    OBVIOUS
  <2>1. CASE stage' \in Stages /\ UNCHANGED <<invoked, table>>
    BY <2>1 DEF Types
  <2>2. CASE GeneratedClient \/ OtherClient
    BY <2>1, <2>2
       DEF GeneratedClient, OtherClient, SendCreateOrder, SendGetOrder,
           SendPayOrder, SendCancelOrder, SendRaw, Send, Stages
  <2>3. CASE HandleCancelOrderRequest
    <3> DEFINE param == Route(request.path).param
    <3>1. UNCHANGED table
      BY <2>3 DEF HandleCancelOrderRequest
    <3>2. \/ /\ param[1] \in UUIDs
             /\ Invoke(Input("CancelOrder", param[1], NoValue))
          \/ ErrorHandler(400) /\ UNCHANGED invoked
      BY <2>3 DEF HandleCancelOrderRequest, DecodeCancelOrderParams
    <3>3. "CancelOrder" \in Operations /\ "response" \in Stages
      BY DEF Operations, Stages
    <3> QED BY <2>1, <3>1, <3>2, <3>3, InvokeTypes DEF ErrorHandler, Answer
  <2>4. CASE HandleGetOrderRequest
    <3> DEFINE param == Route(request.path).param
    <3>1. UNCHANGED table
      BY <2>4 DEF HandleGetOrderRequest
    <3>2. \/ /\ param[1] \in UUIDs
             /\ Invoke(Input("GetOrder", param[1], NoValue))
          \/ ErrorHandler(400) /\ UNCHANGED invoked
      BY <2>4 DEF HandleGetOrderRequest, DecodeGetOrderParams
    <3>3. "GetOrder" \in Operations /\ "response" \in Stages
      BY DEF Operations, Stages
    <3> QED BY <2>1, <3>1, <3>2, <3>3, InvokeTypes DEF ErrorHandler, Answer
  <2>5. CASE HandlePayOrderRequest
    <3> DEFINE param == Route(request.path).param
               body == DecodePayOrderRequest
               code == IF DecodePayOrderParams(param) THEN body.code ELSE 400
    <3>1. UNCHANGED table
      BY <2>5 DEF HandlePayOrderRequest
    <3>2. \/ /\ param[1] \in UUIDs
             /\ Invoke(Input("PayOrder", param[1], body.value))
          \/ ErrorHandler(code) /\ UNCHANGED invoked
      BY <2>5 DEF HandlePayOrderRequest, DecodePayOrderParams
    <3>3. "PayOrder" \in Operations /\ "response" \in Stages
      BY DEF Operations, Stages
    <3> HIDE DEF body, code
    <3> QED BY <2>1, <3>1, <3>2, <3>3, InvokeTypes DEF ErrorHandler, Answer
  <2>6. CASE HandleCreateOrderRequest
    <3> DEFINE body == DecodeCreateOrderRequest
    <3>1. UNCHANGED table
      BY <2>6 DEF HandleCreateOrderRequest
    <3>2. \/ Invoke(Input("CreateOrder", NilUUID, body.value))
          \/ ErrorHandler(body.code) /\ UNCHANGED invoked
      BY <2>6 DEF HandleCreateOrderRequest
    <3>3. "CreateOrder" \in Operations /\ "response" \in Stages
      BY DEF Operations, Stages
    <3> HIDE DEF body
    <3> QED BY <2>1, <3>1, <3>2, <3>3, InvokeTypes, APIConstants
            DEF ErrorHandler, Answer
  <2>7. CASE Refuse \/ EncodeResponse
    <3>1. stage' = "response" /\ UNCHANGED <<invoked, table>>
      BY <2>7 DEF Refuse, EncodeResponse, Answer
    <3> QED BY <2>1, <3>1 DEF Stages
  <2>8. CASE CancelOrder \/ GetOrder \/ PayOrder
    <3>1. stage' = "encode" /\ UNCHANGED <<invoked, table>>
      BY <2>8 DEF CancelOrder, GetOrder, PayOrder, ReturnError, Return
    <3> QED BY <2>1, <3>1 DEF Stages
  <2>9. CASE Receive \/ Break
    BY <2>1, <2>9 DEF Receive, Break, Stages
  <2>10. CASE Reset
    BY <2>10, APIConstants DEF Reset, Types, Stages, NoInput, Input
  <2>11. CASE UNCHANGED vars
    BY <2>1, <2>11 DEF vars, Types
  <2> QED BY <2>2, <2>3, <2>4, <2>5, <2>6, <2>7, <2>8, <2>9, <2>10, <2>11,
             CreateTypes
          DEF Next, Server
<1>3. APIInv /\ Types => TypeOK
  <2> SUFFICES ASSUME APIInv, Types
               PROVE  TypeOK
    OBVIOUS
  <2>1. call.op \in Operations \cup {"none"} /\ call.order \in UUIDs
    <3>1. \A op, o, b : Input(op, o, b).op = op /\ Input(op, o, b).order = o
      BY DEF Input
    <3>2. CASE call = NoInput
      BY <3>1, <3>2, APIConstants DEF NoInput
    <3>3. CASE call # NoInput
      <4>1. \/ call.op = "CreateOrder" /\ call.order = NilUUID
            \/ call.op \in {"GetOrder", "CancelOrder", "PayOrder"}
                 /\ call.order \in UUIDs
        <5>1. /\ \A b : SentCreate(b) =>
                   call.op = "CreateOrder" /\ call.order = NilUUID
              /\ \A o : SentGet(o) => call.op = "GetOrder" /\ call.order = o
              /\ \A o : SentCancel(o) => call.op = "CancelOrder" /\ call.order = o
              /\ \A o, b : SentPay(o, b) => call.op = "PayOrder" /\ call.order = o
          BY <3>1 DEF SentCreate, SentGet, SentCancel, SentPay
        <5> QED BY <3>3, <5>1 DEF APIInv, Sent
      <4> QED BY <4>1, APIConstants DEF Operations
    <3> QED BY <3>2, <3>3
  <2>2. \A o \in Orders :
          table[o] # NoRow => table[o].user \in UUIDs /\ table[o].price \in {0, 1}
    BY DEF APIInv, Rows, Types
  <2>3. stage \in {"handle", "encode"} => invoked # NoInput
    BY DEF APIInv, Served, NoInput, Input, Operations
  <2>4. stage = "encode" => result.type \in DOMAIN Encoders[invoked.op]
    BY DEF APIInv, Served, Fitting
  <2> QED BY <2>1, <2>2, <2>3, <2>4 DEF Types, TypeOK
<1> QED BY <1>1, <1>2, <1>3, Invariance, PTL DEF Spec
=============================================================================

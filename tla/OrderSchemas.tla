---------------------------- MODULE OrderSchemas ----------------------------
(***************************************************************************)
(* The JSON schemas of the order API and the generated code that encodes,  *)
(* decodes and validates them.                                             *)
(*                                                                         *)
(* A JSON object is the sequence of its members as they stand in the text: *)
(* a decoder meets them in any order, repeated, with others among them. A  *)
(* Go struct is a function from its fields to JSON values.  The generated  *)
(* Encode and Decode methods differ in their tables of fields only: each   *)
(* type is such a table, and Encode and Decode are stated once.            *)
(***************************************************************************)
EXTENDS Integers, Sequences

CONSTANTS UUIDs,     \* strings that parse as a UUID, NilUUID among them
          NilUUID,
          Statuses,  \* the enum OrderStatus
          Methods    \* the enum PaymentMethod

\* JSON values: every value has a kind and uses the fields of that kind.
Text(s)   == [kind |-> "string", text |-> s,  items |-> <<>>, number |-> 0]
Array(s)  == [kind |-> "array",  text |-> "", items |-> s,    number |-> 0]
Number(n) == [kind |-> "number", text |-> "", items |-> <<>>, number |-> n]

Field(name, type) == [name |-> name, type |-> type]
Member(name, value) == [name |-> name, value |-> value]

-----------------------------------------------------------------------------
(* The types, in the order their fields are written.  All are required.    *)

ErrorFields == <<Field("code", "int"), Field("message", "string")>>

BadRequest    == ErrorFields
ConflictErr   == ErrorFields
NotFoundErr   == ErrorFields
UnexpectedErr == ErrorFields

CreateOrderReq == <<Field("user_uuid", "uuid"), Field("part_uuids", "uuids")>>

CreateOrderResp == <<Field("uuid", "uuid"), Field("total_price", "float32")>>

GetOrderResp == <<Field("order_uuid", "uuid"), Field("user_uuid", "uuid"),
                  Field("part_uuids", "uuids"), Field("total_price", "float32"),
                  Field("transaction_uuid", "uuid"),
                  Field("payment_method", "PaymentMethod"),
                  Field("status", "OrderStatus")>>

PayOrderReq == <<Field("payment_method", "PaymentMethod")>>

PayOrderResp == <<Field("transaction_uuid", "uuid")>>

-----------------------------------------------------------------------------
(* Encode, Decode, Validate.                                               *)

IsUUID(v) == v.kind = "string" /\ v.text \in UUIDs

\* An enum decodes from any string: it is Validate that looks at its value.
OrderStatus(v)   == v.kind = "string"
PaymentMethod(v) == v.kind = "string"

\* The value can be read into a Go field of that type.
Readable(v, type) ==
  CASE type = "uuid"            -> IsUUID(v)
    [] type = "uuids"           -> /\ v.kind = "array"
                                   /\ \A i \in DOMAIN v.items : v.items[i] \in UUIDs
    [] type = "OrderStatus"     -> OrderStatus(v)
    [] type = "PaymentMethod"   -> PaymentMethod(v)
    [] type = "string"          -> v.kind = "string"
    [] type \in {"int", "float32"} -> v.kind = "number"

FieldNames(T) == {T[i].name : i \in DOMAIN T}

Encode(T, s) == [i \in DOMAIN T |-> Member(T[i].name, s[T[i].name])]

Occurs(doc, n) == {i \in DOMAIN doc : doc[i].name = n}

LastOf(S) == CHOOSE i \in S : \A j \in S : j <= i

\* Decode succeeds when every known member is readable, every one of its
\* occurrences included, and every required field occurs.  Unknown members
\* are skipped.
Decodes(T, doc) ==
  /\ \A i \in DOMAIN doc, f \in DOMAIN T :
       doc[i].name = T[f].name => Readable(doc[i].value, T[f].type)
  /\ \A n \in FieldNames(T) : Occurs(doc, n) # {}

\* Decode's result: the last occurrence of a member counts, an array's too.
Decode(T, doc) ==
  [n \in FieldNames(T) |-> doc[LastOf(Occurs(doc, n))].value]

ValidCreateOrderReq(s) == Len(s["part_uuids"].items) >= 1

ValidCreateOrderResp(s) == s["total_price"].number >= 0

ValidOrderStatus(v) == v.text \in Statuses

ValidPaymentMethod(v) == v.text \in Methods

ValidGetOrderResp(s) ==
  ValidPaymentMethod(s["payment_method"]) /\ ValidOrderStatus(s["status"])

ValidPayOrderReq(s) == ValidPaymentMethod(s["payment_method"])

\* Validate, of the types that have one.
Valid(T, s) ==
  CASE T = CreateOrderReq  -> ValidCreateOrderReq(s)
    [] T = CreateOrderResp -> ValidCreateOrderResp(s)
    [] T = GetOrderResp    -> ValidGetOrderResp(s)
    [] T = PayOrderReq     -> ValidPayOrderReq(s)
    [] OTHER               -> TRUE
=============================================================================

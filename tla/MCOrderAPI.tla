----------------------------- MODULE MCOrderAPI -----------------------------
(* OrderAPI with one order and documents that are complete, incomplete,    *)
(* repeat a member, hold unknown ones or values of the wrong kind.         *)
EXTENDS OrderAPI

MCOrders    == {"o1"}
MCUUIDs     == {"nil", "o1", "u1"}
MCStatuses  == {"PENDING_PAYMENT", "PAID", "CANCELLED", "COMPLETED"}
MCMethods   == {"UNSPECIFIED", "CARD"}

User1     == Member("user_uuid", Text("u1"))
BadUser   == Member("user_uuid", Text("x"))
OnePart   == Member("part_uuids", Array(<<"u1">>))
NoParts   == Member("part_uuids", Array(<<>>))
BadParts  == Member("part_uuids", Array(<<"u1", "x">>))
TextParts == Member("part_uuids", Text("u1"))
Unknown   == Member("colour", Number(1))
Card      == Member("payment_method", Text("CARD"))
Barter    == Member("payment_method", Text("BARTER"))
OneMethod == Member("payment_method", Number(1))

MCDocuments ==
  {<<>>, <<User1>>, <<User1, OnePart>>, <<OnePart, Unknown, User1>>,
   <<User1, NoParts>>, <<NoParts, User1, OnePart>>, <<OnePart, User1, NoParts>>,
   <<BadUser, OnePart>>, <<User1, BadParts>>, <<User1, TextParts>>,
   <<BadParts, User1, OnePart>>,
   <<Card>>, <<Barter>>, <<Barter, Card>>, <<Card, Barter>>, <<OneMethod, Card>>,
   <<Unknown, Card>>, <<OneMethod>>}

MCPaths ==
  {<<>>, <<"x">>, <<Prefix>>, <<Prefix, "x">>, <<Prefix, "/">>,
   <<Prefix, "/", "o1">>, <<Prefix, "/", "x">>, <<Prefix, "/", "o1", "x">>,
   <<Prefix, "/", "/", "pay">>, <<Prefix, "/", "o1", "/">>,
   <<Prefix, "/", "o1", "/", "pay">>, <<Prefix, "/", "o1", "/", "cancel">>,
   <<Prefix, "/", "x", "/", "cancel">>, <<Prefix, "/", "pay">>,
   <<Prefix, "/", "o1", "/", "pay", "x">>,
   <<Prefix, "/", "o1", "/", "pay", "/", "cancel">>,
   <<Prefix, "/", "o1", "/", "u1", "/", "cancel">>}
=============================================================================

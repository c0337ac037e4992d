----------------------------- MODULE MCGateway -----------------------------
(* Gateway with two sessions, two parts, one of them with an update that   *)
(* changes what filters look at and omits tags and manufacturer, and a     *)
(* UUID that no part has.                                                  *)
EXTENDS Gateway

Part(u, n, c, country, tags, price, stock) ==
  [uuid |-> u, name |-> n, category |-> c, country |-> country,
   tags |-> tags, price |-> price, stock |-> stock]

MCPartUUIDs == {"p1", "p2", "p3"}
MCCountries == {"DE", "FR"}
MCParts ==
  {Part("p1", "engine", "ENGINE", "DE", {"t1"}, 1, 1),
   Part("p1", "motor", "ENGINE", NoManufacturer, {}, 2, 0),
   Part("p2", "engine", "FUEL", "FR", {"t1", "t2"}, 3, 2)}

Filter(u, n, c, countries, tags) ==
  [uuids |-> u, names |-> n, categories |-> c, countries |-> countries,
   tags |-> tags]

MCFilters ==
  {Filter({}, {}, {}, {}, {}), Filter({"p1"}, {}, {}, {}, {}),
   Filter({}, {"engine"}, {"ENGINE", "FUEL"}, {}, {}),
   Filter({}, {"engine", "motor"}, {"ENGINE"}, {}, {}),
   Filter({}, {}, {}, {"DE"}, {}), Filter({}, {"engine"}, {}, {}, {"t2"}),
   Filter({"p1", "p2"}, {}, {}, {"FR", "DE"}, {"t1", "t2"})}

MCPartLists == {<<>>, <<"p1">>, <<"p1", "p2">>, <<"p3">>}
MCFaults == {"iam", "inventory", "db"}
=============================================================================

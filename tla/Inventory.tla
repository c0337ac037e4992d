----------------------------- MODULE Inventory -----------------------------
(***************************************************************************)
(* The inventory service's two repositories: the map in memory its unit    *)
(* tests run on, and the MongoDB collection it is deployed with.  Both are *)
(* given the same calls, so that their answers can be compared; each call  *)
(* goes through the use case, which has one error for whatever happened.   *)
(*                                                                         *)
(* A call is one step: the map is behind a mutex, and a statement of       *)
(* MongoDB touches one document or reads the first batch.  Descriptions,   *)
(* dimensions, metadata and timestamps are left out: no answer depends on  *)
(* them.                                                                   *)
(***************************************************************************)
EXTENDS Integers

CONSTANTS PartUUIDs,
          Parts,            \* the parts calls may carry
          Filters,
          Countries,
          NoManufacturer    \* the country of a part without a manufacturer

ASSUME InventoryConstants ==
  /\ \A p \in Parts : /\ DOMAIN p = {"uuid", "name", "category", "country",
                                    "tags", "price", "stock"}
                      /\ p.uuid \in PartUUIDs
                      /\ p.country \in Countries \cup {NoManufacturer}
  /\ \A f \in Filters : f.countries \subseteq Countries
  /\ NoManufacturer \notin Countries

VARIABLES
  parts,      \* Repository.parts
  documents,  \* the collection, its unique index on uuid included
  asked,      \* the last call
  reply       \* what each repository's use case returned last

inventory == <<parts, documents, asked, reply>>

Answer(code, ps) == [code |-> code, parts |-> ps]

\* NewRepository's map is empty, and so is a new collection.
InventoryInit ==
  /\ parts = [u \in {} |-> {}]
  /\ documents = {}
  /\ asked = <<>>
  /\ reply = [memory |-> Answer("OK", {}), mongo |-> Answer("OK", {})]

Replies(memory, mongo) == reply' = [memory |-> memory, mongo |-> mongo]

Values(map) == {map[u] : u \in DOMAIN map}

\* The documents a query for a UUID finds.
Found(u) == {d \in documents : d.uuid = u}

-----------------------------------------------------------------------------
(* ListParts.                                                              *)

Keep(map, K) == [u \in K |-> map[u]]

FilterByUUIDs(map, uuids) ==
  IF uuids = {} THEN map ELSE Keep(map, DOMAIN map \cap uuids)

FilterByNames(map, names) ==
  IF names = {} THEN map
  ELSE Keep(map, {u \in DOMAIN map : map[u].name \in names})

FilterByCategories(map, categories) ==
  IF categories = {} THEN map
  ELSE Keep(map, {u \in DOMAIN map : map[u].category \in categories})

FilterByManufacturerCountries(map, countries) ==
  IF countries = {} THEN map
  ELSE Keep(map, {u \in DOMAIN map : /\ map[u].country # NoManufacturer
                                     /\ map[u].country \in countries})

FilterByAllTags(map, tags) ==
  IF tags = {} THEN map
  ELSE Keep(map, {u \in DOMAIN map : tags \subseteq map[u].tags})

FilterByTags(map, tags) ==
  IF tags = {} THEN map
  ELSE Keep(map, {u \in DOMAIN map : \E t \in tags : t \in map[u].tags})

ApplyFilters(map, f) ==
  FilterByTags(
    FilterByManufacturerCountries(
      FilterByCategories(
        FilterByNames(
          FilterByUUIDs(map, f.uuids), f.names), f.categories), f.countries),
    f.tags)

IsEmptyFilter(f) ==
  /\ f.uuids = {} /\ f.names = {} /\ f.categories = {}
  /\ f.countries = {} /\ f.tags = {}

ListInMemory(f) ==
  IF IsEmptyFilter(f) THEN Values(parts) ELSE Values(ApplyFilters(parts, f))

QueryByLastCriterion(f) ==
  {d \in documents :
     IF f.tags # {} THEN d.tags \cap f.tags # {}
     ELSE f.names # {} => d.name \in f.names}

\* The query: one $in for each criterion that is set; a field that is missing
\* is in no list, and an array is when one of its elements is.
Query(f) ==
  {d \in documents :
     /\ f.uuids # {} => d.uuid \in f.uuids
     /\ f.names # {} => d.name \in f.names
     /\ f.categories # {} => d.category \in f.categories
     /\ f.countries # {} => d.country \in f.countries
     /\ f.tags # {} => \E t \in d.tags : t \in f.tags}

ListParts(f) ==
  /\ asked' = <<"List", f>>
  /\ Replies(Answer("OK", ListInMemory(f)), Answer("OK", Query(f)))
  /\ UNCHANGED <<parts, documents>>

-----------------------------------------------------------------------------
(* The other operations.                                                   *)

GetInMemory(u) ==
  IF u \in DOMAIN parts THEN Answer("OK", {parts[u]}) ELSE Answer("NotFound", {})

FindOne(u) ==
  IF Found(u) # {} THEN Answer("OK", Found(u)) ELSE Answer("NotFound", {})

GetPart(u) ==
  /\ asked' = <<"Get", u>>
  /\ Replies(GetInMemory(u), FindOne(u))
  /\ UNCHANGED <<parts, documents>>

PutEverywhere(map, u, p) == [v \in DOMAIN map \cup {u} |-> p]

Put(map, u, p) == [v \in DOMAIN map \cup {u} |-> IF v = u THEN p ELSE map[v]]

\* In memory the key is looked up; in MongoDB the unique index refuses.
CreatePart(p) ==
  LET taken == Answer("AlreadyExists", {})  created == Answer("OK", {}) IN
  /\ asked' = <<"Create", p>>
  /\ parts' = IF p.uuid \in DOMAIN parts THEN parts ELSE Put(parts, p.uuid, p)
  /\ documents' = IF Found(p.uuid) # {} THEN documents ELSE documents \cup {p}
  /\ Replies(IF p.uuid \in DOMAIN parts THEN taken ELSE created,
             IF Found(p.uuid) # {} THEN taken ELSE created)

Replaced(old, new) == new

\* $set writes the fields the new part has: an empty list of tags and a missing
\* manufacturer are omitted, and what the document had stays.
Merged(old, new) ==
  [new EXCEPT !.tags = IF @ = {} THEN old.tags ELSE @,
              !.country = IF @ = NoManufacturer THEN old.country ELSE @]

\* Called with a part of the UUID it is looked up by, as the tests do.
UpdatePart(p) ==
  LET missing == Answer("NotFound", {})  updated == Answer("OK", {}) IN
  /\ asked' = <<"Update", p>>
  /\ parts' = IF p.uuid \in DOMAIN parts THEN Put(parts, p.uuid, p) ELSE parts
  /\ documents' = (documents \ Found(p.uuid))
                    \cup {Merged(d, p) : d \in Found(p.uuid)}
  /\ Replies(IF p.uuid \in DOMAIN parts THEN updated ELSE missing,
             IF Found(p.uuid) # {} THEN updated ELSE missing)

DeletePart(u) ==
  LET missing == Answer("NotFound", {})  deleted == Answer("OK", {}) IN
  /\ asked' = <<"Delete", u>>
  /\ parts' = Keep(parts, DOMAIN parts \ {u})
  /\ documents' = documents \ Found(u)
  /\ Replies(IF u \in DOMAIN parts THEN deleted ELSE missing,
             IF Found(u) # {} THEN deleted ELSE missing)

\* The operations of the use case that no API of the service offers.
Maintain ==
  \E p \in Parts : CreatePart(p) \/ UpdatePart(p) \/ DeletePart(p.uuid)

\* Any UUID may be asked for, whether a part ever had it or not.
Read == (\E u \in PartUUIDs : GetPart(u)) \/ (\E f \in Filters : ListParts(f))

InventoryNext == Maintain \/ Read

InventorySpec == InventoryInit /\ [][InventoryNext]_inventory

-----------------------------------------------------------------------------
(* Properties.                                                             *)

Memory == INSTANCE PartCatalogue
            WITH Changed <- Replaced, shelf <- Values(parts),
                 answer <- reply.memory

Mongo == INSTANCE PartCatalogue
           WITH Changed <- Merged, shelf <- documents, answer <- reply.mongo

\* The repository in memory is a catalogue: UUIDs differ, an update replaces
\* the part, and the five filters one after the other list exactly the parts
\* that match every criterion that is set.
MemoryIsACatalogue == Memory!Spec

\* So is the one in MongoDB, but that its update keeps the tags and the
\* manufacturer which the new part leaves out.
MongoIsACatalogue == Mongo!Spec
=============================================================================

--------------------------- MODULE InventoryProofs ---------------------------
(***************************************************************************)
(* Both of inventory's repositories implement PartCatalogue, whatever the  *)
(* parts, the filters and the order of the calls.                          *)
(***************************************************************************)
EXTENDS Inventory, TLAPS

(* The map in memory keeps each part under its own UUID.                   *)
Keyed == \A u \in DOMAIN parts : parts[u].uuid = u

-----------------------------------------------------------------------------
(* Lemmas about the operators of the repository in memory.                 *)

(* The five filters one after the other leave exactly the parts that every *)
(* criterion which is set accepts.                                         *)
LEMMA FiltersConjoin ==
  ASSUME NEW map, NEW f, f.countries \subseteq Countries,
         \A u \in DOMAIN map : map[u].uuid = u
  PROVE  Values(ApplyFilters(map, f)) =
           {p \in Values(map) : Memory!Matches(p, f)}
<1> DEFINE A == FilterByUUIDs(map, f.uuids)
           B == FilterByNames(A, f.names)
           C == FilterByCategories(B, f.categories)
           D == FilterByManufacturerCountries(C, f.countries)
           E == FilterByTags(D, f.tags)
           KA == {u \in DOMAIN map : f.uuids # {} => u \in f.uuids}
           KB == {u \in KA : f.names # {} => map[u].name \in f.names}
           KC == {u \in KB : f.categories # {} => map[u].category \in f.categories}
           KD == {u \in KC : f.countries # {} => map[u].country \in f.countries}
           KE == {u \in KD : f.tags # {} => map[u].tags \cap f.tags # {}}
<1>1. DOMAIN A = KA /\ \A u \in KA : A[u] = map[u]
  BY DEF FilterByUUIDs, Keep
<1>2. DOMAIN B = KB /\ \A u \in KB : B[u] = map[u]
  <2> HIDE DEF A
  <2> QED BY <1>1 DEF FilterByNames, Keep
<1>3. DOMAIN C = KC /\ \A u \in KC : C[u] = map[u]
  <2> HIDE DEF A, B, KA
  <2> QED BY <1>2 DEF FilterByCategories, Keep
<1>4. DOMAIN D = KD /\ \A u \in KD : D[u] = map[u]
  <2>1. \A c \in f.countries : c # NoManufacturer
    BY InventoryConstants
  <2> HIDE DEF A, B, C, KA, KB
  <2> QED BY <1>3, <2>1 DEF FilterByManufacturerCountries, Keep
<1>5. DOMAIN E = KE /\ \A u \in KE : E[u] = map[u]
  <2> HIDE DEF A, B, C, D, KA, KB, KC
  <2> QED BY <1>4 DEF FilterByTags, Keep
<1>6. KE = {u \in DOMAIN map : Memory!Matches(map[u], f)}
  BY DEF Memory!Matches
<1>7. ApplyFilters(map, f) = E
  BY DEF ApplyFilters
<1> HIDE DEF A, B, C, D, E, KA, KB, KC, KD, KE
<1> QED BY <1>5, <1>6, <1>7 DEF Values

(* An empty filter is one that every part matches.                         *)
LEMMA EmptyMatchesAll ==
  ASSUME NEW f, NEW p, IsEmptyFilter(f)
  PROVE  Memory!Matches(p, f)
BY DEF IsEmptyFilter, Memory!Matches

(* What is listed is what matches, with a filter or without.               *)
LEMMA ListIsTheFilter ==
  ASSUME Keyed, NEW f \in Filters
  PROVE  ListInMemory(f) = {p \in Values(parts) : Memory!Matches(p, f)}
<1>1. f.countries \subseteq Countries
  BY InventoryConstants
<1>2. CASE IsEmptyFilter(f)
  BY <1>2, EmptyMatchesAll DEF ListInMemory
<1>3. CASE ~IsEmptyFilter(f)
  BY <1>1, <1>3, FiltersConjoin DEF ListInMemory, Keyed
<1> QED BY <1>2, <1>3

(* What the shelf holds under a UUID is what the map has under it.         *)
LEMMA HoldingInMemory ==
  ASSUME Keyed, NEW u
  PROVE  Memory!Holding(u) = IF u \in DOMAIN parts THEN {parts[u]} ELSE {}
BY DEF Memory!Holding, Values, Keyed

(* Putting a part in the map replaces the one under its UUID, if any.      *)
LEMMA ValuesOfPut ==
  ASSUME Keyed, NEW p
  PROVE  Values(Put(parts, p.uuid, p)) =
           (Values(parts) \ Memory!Holding(p.uuid)) \cup {p}
BY HoldingInMemory DEF Values, Put, Keyed

(* Deleting a key from the map takes that part, and no other, off the shelf. *)
LEMMA ValuesOfKeep ==
  ASSUME Keyed, NEW u
  PROVE  Values(Keep(parts, DOMAIN parts \ {u})) =
           Values(parts) \ Memory!Holding(u)
BY HoldingInMemory DEF Values, Keep, Keyed

-----------------------------------------------------------------------------
(* Every part in memory stays under its own UUID.                          *)
THEOREM KeyedAlways == InventorySpec => []Keyed
<1>1. InventoryInit => Keyed
  BY DEF InventoryInit, Keyed
<1>2. Keyed /\ [InventoryNext]_inventory => Keyed'
  <2> SUFFICES ASSUME Keyed, [InventoryNext]_inventory
               PROVE  Keyed'
    OBVIOUS
  <2>1. CASE UNCHANGED inventory
    BY <2>1 DEF inventory, Keyed
  <2>2. ASSUME NEW p \in Parts, CreatePart(p)
        PROVE  Keyed'
    BY <2>2 DEF CreatePart, Put, Keyed
  <2>3. ASSUME NEW p \in Parts, UpdatePart(p)
        PROVE  Keyed'
    BY <2>3 DEF UpdatePart, Put, Keyed
  <2>4. ASSUME NEW p \in Parts, DeletePart(p.uuid)
        PROVE  Keyed'
    BY <2>4 DEF DeletePart, Keep, Keyed
  <2>5. CASE Read
    BY <2>5 DEF Read, GetPart, ListParts, Keyed
  <2> QED BY <2>1, <2>2, <2>3, <2>4, <2>5 DEF InventoryNext, Maintain
<1> QED BY <1>1, <1>2, PTL DEF InventorySpec

(* Every operation of the repository in memory is the catalogue's.         *)
LEMMA MemoryStep ==
  ASSUME Keyed, InventoryNext
  PROVE  Memory!Next
<1>1. ASSUME NEW p \in Parts, CreatePart(p)
      PROVE  Memory!Create(p)
  <2>1. CASE p.uuid \in DOMAIN parts
    BY <1>1, <2>1, HoldingInMemory
    DEF CreatePart, Memory!Create, Replies, Answer, Memory!Answer
  <2>2. CASE p.uuid \notin DOMAIN parts
    BY <1>1, <2>2, HoldingInMemory, ValuesOfPut
    DEF CreatePart, Memory!Create, Replies, Answer, Memory!Answer, Values
  <2> QED BY <2>1, <2>2
<1>2. ASSUME NEW p \in Parts, UpdatePart(p)
      PROVE  Memory!Update(p)
  <2>1. CASE p.uuid \in DOMAIN parts
    <3>1. {Replaced(q, p) : q \in Memory!Holding(p.uuid)} = {p}
      BY <2>1, HoldingInMemory DEF Replaced
    <3>2. Memory!Holding(p.uuid) # {}
      BY <2>1, HoldingInMemory
    <3>3. parts' = Put(parts, p.uuid, p)
      BY <1>2, <2>1 DEF UpdatePart
    <3>4. Values(parts)' = (Values(parts) \ Memory!Holding(p.uuid)) \cup {p}
      BY <3>3, ValuesOfPut DEF Values
    <3>5. asked' = <<"Update", p>> /\ reply.memory' = Memory!Answer("OK", {})
      BY <1>2, <2>1 DEF UpdatePart, Replies, Answer, Memory!Answer
    <3> QED BY <3>1, <3>2, <3>4, <3>5 DEF Memory!Update
  <2>2. CASE p.uuid \notin DOMAIN parts
    BY <1>2, <2>2, HoldingInMemory
    DEF UpdatePart, Memory!Update, Replies, Answer, Memory!Answer
  <2> QED BY <2>1, <2>2
<1>3. ASSUME NEW u, DeletePart(u)
      PROVE  Memory!Delete(u)
  <2>1. CASE u \in DOMAIN parts
    <3>1. Memory!Holding(u) # {}
      BY <2>1, HoldingInMemory
    <3> QED BY <1>3, <2>1, <3>1, ValuesOfKeep
        DEF DeletePart, Memory!Delete, Replies, Answer, Memory!Answer, Values
  <2>2. CASE u \notin DOMAIN parts
    <3>1. Memory!Holding(u) = {}
      BY <2>2, HoldingInMemory
    <3> QED BY <1>3, <2>2, <3>1, ValuesOfKeep
        DEF DeletePart, Memory!Delete, Replies, Answer, Memory!Answer, Values
  <2> QED BY <2>1, <2>2
<1>4. ASSUME NEW u, GetPart(u)
      PROVE  Memory!Get(u)
  BY <1>4, HoldingInMemory
  DEF GetPart, GetInMemory, Memory!Get, Replies, Answer, Memory!Answer
<1>5. ASSUME NEW f \in Filters, ListParts(f)
      PROVE  Memory!List(f)
  BY <1>5, ListIsTheFilter
  DEF ListParts, Memory!List, Replies, Answer, Memory!Answer
<1> QED BY <1>1, <1>2, <1>3, <1>4, <1>5
    DEF InventoryNext, Maintain, Read, Memory!Next

(* The repository in memory implements the catalogue: every call, with its *)
(* five filters, answers what the catalogue answers.                       *)
THEOREM MemoryImplements == InventorySpec => MemoryIsACatalogue
<1>1. InventoryInit => Memory!Init
  BY DEF InventoryInit, Memory!Init, Answer, Memory!Answer, Values
<1>2. Keyed /\ [InventoryNext]_inventory
        => [Memory!Next]_<<Values(parts), asked, reply.memory>>
  BY MemoryStep DEF inventory
<1> QED BY <1>1, <1>2, KeyedAlways, PTL
    DEF InventorySpec, MemoryIsACatalogue, Memory!Spec

-----------------------------------------------------------------------------
(* The repository in MongoDB implements the catalogue whose update merges. *)
THEOREM MongoImplements == InventorySpec => MongoIsACatalogue
<1>1. InventoryInit => Mongo!Init
  BY DEF InventoryInit, Mongo!Init, Answer, Mongo!Answer
<1>2. [InventoryNext]_inventory => [Mongo!Next]_<<documents, asked, reply.mongo>>
  <2> SUFFICES ASSUME InventoryNext
               PROVE  Mongo!Next
    BY DEF inventory
  <2>0. \A u : Mongo!Holding(u) = Found(u)
    BY DEF Mongo!Holding, Found
  <2>1. ASSUME NEW p \in Parts, CreatePart(p)
        PROVE  Mongo!Create(p)
    BY <2>0, <2>1
    DEF CreatePart, Mongo!Create, Replies, Answer, Mongo!Answer
  <2>2. ASSUME NEW p \in Parts, UpdatePart(p)
        PROVE  Mongo!Update(p)
    <3>1. CASE Found(p.uuid) # {}
      BY <2>0, <2>2, <3>1
      DEF UpdatePart, Mongo!Update, Replies, Answer, Mongo!Answer
    <3>2. CASE Found(p.uuid) = {}
      BY <2>0, <2>2, <3>2
      DEF UpdatePart, Mongo!Update, Replies, Answer, Mongo!Answer
    <3> QED BY <3>1, <3>2
  <2>3. ASSUME NEW u, DeletePart(u)
        PROVE  Mongo!Delete(u)
    BY <2>0, <2>3
    DEF DeletePart, Mongo!Delete, Replies, Answer, Mongo!Answer
  <2>4. ASSUME NEW u, GetPart(u)
        PROVE  Mongo!Get(u)
    BY <2>0, <2>4
    DEF GetPart, FindOne, Mongo!Get, Replies, Answer, Mongo!Answer
  <2>5. ASSUME NEW f \in Filters, ListParts(f)
        PROVE  Mongo!List(f)
    <3>1. Query(f) = {d \in documents : Mongo!Matches(d, f)}
      BY DEF Query, Mongo!Matches
    <3> QED BY <2>5, <3>1 DEF ListParts, Mongo!List, Replies, Answer, Mongo!Answer
  <2> QED BY <2>1, <2>2, <2>3, <2>4, <2>5
      DEF InventoryNext, Maintain, Read, Mongo!Next
<1> QED BY <1>1, <1>2, PTL DEF InventorySpec, MongoIsACatalogue, Mongo!Spec
=============================================================================

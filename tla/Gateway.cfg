SPECIFICATION Spec
CONSTANTS
  PartUUIDs <- MCPartUUIDs
  Parts <- MCParts
  Filters <- MCFilters
  Countries <- MCCountries
  NoManufacturer = NoManufacturer
  Sessions = {s1, s2}
  NoSession = NoSession
  PartLists <- MCPartLists
  Faults <- MCFaults
INVARIANTS
  TypeOK
  ServedAsWhoWasAdmitted
  OrderedPartsWereOnOffer
PROPERTIES
  MemoryIsACatalogue
  MongoIsACatalogue

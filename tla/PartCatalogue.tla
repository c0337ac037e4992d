--------------------------- MODULE PartCatalogue ---------------------------
(***************************************************************************)
(* What inventory's repositories promise: a shelf of parts with different  *)
(* UUIDs, and answers that are true of it.  A part without a manufacturer  *)
(* has no country, which is never among the countries of a filter.         *)
(***************************************************************************)
CONSTANTS PartUUIDs,
          Parts,         \* the parts calls may carry
          Filters,
          Changed(_, _)  \* what an update makes of a part

VARIABLES shelf,
          asked,   \* the last call
          answer   \* what it returned

Answer(code, ps) == [code |-> code, parts |-> ps]

\* Every criterion that is set holds; an empty filter matches every part.
Matches(p, f) ==
  /\ f.uuids # {} => p.uuid \in f.uuids
  /\ f.names # {} => p.name \in f.names
  /\ f.categories # {} => p.category \in f.categories
  /\ f.countries # {} => p.country \in f.countries
  /\ f.tags # {} => p.tags \cap f.tags # {}

Holding(u) == {p \in shelf : p.uuid = u}

Init == shelf = {} /\ asked = <<>> /\ answer = Answer("OK", {})

Create(p) ==
  /\ asked' = <<"Create", p>>
  /\ IF Holding(p.uuid) = {}
     THEN shelf' = shelf \cup {p} /\ answer' = Answer("OK", {})
     ELSE UNCHANGED shelf /\ answer' = Answer("AlreadyExists", {})

Update(p) ==
  /\ asked' = <<"Update", p>>
  /\ IF Holding(p.uuid) # {}
     THEN /\ shelf' = (shelf \ Holding(p.uuid))
                        \cup {Changed(q, p) : q \in Holding(p.uuid)}
          /\ answer' = Answer("OK", {})
     ELSE UNCHANGED shelf /\ answer' = Answer("NotFound", {})

Delete(u) ==
  /\ asked' = <<"Delete", u>>
  /\ IF Holding(u) # {}
     THEN shelf' = shelf \ Holding(u) /\ answer' = Answer("OK", {})
     ELSE UNCHANGED shelf /\ answer' = Answer("NotFound", {})

Get(u) ==
  /\ asked' = <<"Get", u>>
  /\ answer' = IF Holding(u) # {} THEN Answer("OK", Holding(u))
               ELSE Answer("NotFound", {})
  /\ UNCHANGED shelf

List(f) ==
  /\ asked' = <<"List", f>>
  /\ answer' = Answer("OK", {p \in shelf : Matches(p, f)})
  /\ UNCHANGED shelf

Next ==
  \/ \E p \in Parts : Create(p) \/ Update(p) \/ Delete(p.uuid)
  \/ \E u \in PartUUIDs : Get(u)
  \/ \E f \in Filters : List(f)

Spec == Init /\ [][Next]_<<shelf, asked, answer>>
=============================================================================

------------------------ MODULE ColecticaMiddleware ------------------------
(***************************************************************************)
(* docker/colectica/app: the json-server that stands in for the Colectica  *)
(* repository of DDI items in the containers.  middleware.js registers two *)
(* handlers on it; a third route, /set, is json-server's own and is        *)
(* reached through the rewriting of routes.json.                           *)
(*                                                                         *)
(* Node runs one handler at a time to its end and none of them writes to   *)
(* the database, so a handler is an operator: what it answers for a        *)
(* request.  Every one of them answers with status 200.                    *)
(***************************************************************************)
EXTENDS Naturals, Sequences

CONSTANTS
    ItemIds,    \* values of Identifier, of stored items and of requests
    Items,      \* db.json: the collection "items", in which there may be a null
    Set,        \* db.json: the collection "set", references to items
    Null        \* null, and what there is in an empty body

Item == [Identifier : ItemIds]

ASSUME ColecticaAssumption ==
    /\ Items \in Seq(Item \cup {Null})
    /\ Set \subseteq ItemIds
    /\ Null \notin ItemIds
    /\ Null \notin Item

\* lodash's find: the positions of the items that match, null matching nothing.
Matching(id) == {k \in DOMAIN Items : Items[k] # Null /\ Items[k].Identifier = id}

\* Mutant of FindItem: find without the object to match.
FindAnyItem(id) == Items[1]

\* GET /items/:id answers the first match.  Where there is none jsonp gets
\* undefined, which makes an empty body and not a status 404.
FindItem(id) ==
    IF Matching(id) = {}
    THEN Null
    ELSE Items[CHOOSE k \in Matching(id) : \A l \in Matching(id) : k <= l]

\* POST /items answers the whole collection, whatever references are posted.
PostItems(refs) == Items

\* GET /set, whatever the item the set is asked of.
GetSet(id) == Set
=============================================================================

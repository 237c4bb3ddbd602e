-------------------------- MODULE MCPoguesMetadata --------------------------
(***************************************************************************)
(* More threads than connections; a collection of two items with a null    *)
(* between them, as db.json has one, and an identifier nothing is stored   *)
(* under although the set refers to it.                                    *)
(***************************************************************************)
EXTENDS PoguesMetadata, TLC

CONSTANTS t1, t2, t3, c1, c2, i1, i2, missing

MCItemIds == {i1, i2, missing}
MCItems == <<[Identifier |-> i1], Null, [Identifier |-> i2]>>
MCSet == {i1, i2, missing}

Req(op, arg) == [op |-> op, arg |-> arg]

MCRequests ==
         {Req("item", i) : i \in {i2, missing}}
    \cup {Req("refs", i1), Req("items", {i1, missing}), Req("ddi", i1), Req("codeList", i1)}
    \cup {Req("search", Null), Req("units", Null), Req("operations", i1), Req("context", i1)}
MCUnits == <<"euro", "keuro">>
=============================================================================

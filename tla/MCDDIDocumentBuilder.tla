------------------------ MODULE MCDDIDocumentBuilder ------------------------
(***************************************************************************)
(* A root with up to four children, an item a with up to two, which may    *)
(* refer to b, and an item b of one; nobody has c.  Any of the three may   *)
(* be malformed.  References to one item may be repeated, and be without   *)
(* identifier.                                                             *)
(***************************************************************************)
EXTENDS DDIDocumentBuilder

MCIds == {"root", "a", "b", "c"}

Rows(entries, n) == UNION {[1 .. k -> entries] : k \in 0 .. n}

MCFragments ==
    {[i \in MCIds |-> CASE i = "root" -> r [] i = "a" -> a [] i = "b" -> b [] i = "c" -> Null] :
        r \in Rows({Reference("a"), Reference("b"), Reference("c"), Other}, 4) \cup {Null, Malformed},
        a \in Rows({Reference("b"), Reference(Null), Other}, 2) \cup {Malformed},
        b \in {<<Reference("c")>>, Malformed}}
=============================================================================

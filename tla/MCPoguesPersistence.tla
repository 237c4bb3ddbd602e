------------------------ MODULE MCPoguesPersistence ------------------------
(***************************************************************************)
(* Small instances of PoguesPersistence: two threads, two identifiers, two *)
(* groups and documents that cover what the handlers tell apart (owned and *)
(* ownerless, complete and not, the same id twice, no id).                 *)
(***************************************************************************)
EXTENDS PoguesPersistence, TLC

CONSTANTS t1, t2

MCThreads == {t1, t2}
MCIds == {"q1", "q2"}
MCOwners == {"dr14", "dr59"}
MCContents == {"full", "partial"}
MCComplete == {"full"}
MCUsers == {"alice", "bob", "nobody"}
MCPermission == ("alice" :> "dr14" @@ "bob" :> "dr59" @@ "nobody" :> Null)

Doc(i, o, c) == [id |-> i, owner |-> o, content |-> c]

MCDocuments ==
    {Doc("q1", "dr14", "full"), Doc("q1", "dr59", "partial"), Doc("q2", Null, "full"),
     Doc(Null, "dr14", "full")}

Req(op, i, d, o, u) == [op |-> op, id |-> i, doc |-> d, owner |-> o, user |-> u]

Creations == {Req("create", Null, d, Null, Null) : d \in MCDocuments}
Updates(who) == {Req("update", "q1", d, Null, u) : d \in MCDocuments, u \in who}
Deletions(who) == {Req("delete", "q1", Null, Null, u) : u \in who}
Readings ==
         {Req("get", i, Null, Null, Null) : i \in MCIds}
    \cup {Req("list", Null, Null, Null, Null)}
    \cup {Req(op, Null, Null, o, Null) : op \in {"search", "meta"},
                                         o \in {"dr14", Null, Empty}}

\* Everybody writes and reads: the closed deployment.
MCRequests == Creations \cup Updates({"alice", "bob"}) \cup Deletions({"alice", "nobody"}) \cup Readings

\* The filter does not look at the user: the open one.
MCOpenRequests ==
    Creations \cup Updates({Null}) \cup Deletions({Null})
              \cup {Req("update", "q2", Doc("q1", "dr14", "full"), Null, Null),
                    Req("delete", "q2", Null, Null, Null)}

Symmetry == Permutations(MCThreads)
=============================================================================

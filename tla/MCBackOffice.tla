---------------------------- MODULE MCBackOffice ----------------------------
(***************************************************************************)
(* Two threads; one row, which one group may write; a creation, an update  *)
(* and deletions by a user of that group, by one of another group and by   *)
(* one the directory does not have; four connections, one more than the    *)
(* field and two threads hold, the directory leaving no enumeration open.  *)
(***************************************************************************)
EXTENDS BackOffice, TLC

CONSTANTS t1, t2, c1, c2, c3, c4

MCThreads == {t1, t2}
MCConnections == {c1, c2, c3, c4}
MCUsers == {"alice", "bob", "nobody"}
MCDocuments == {[id |-> "q1", owner |-> "dr14", content |-> "full"],
                [id |-> "q1", owner |-> "dr59", content |-> "full"]}

Req(op, i, d, u) == [op |-> op, id |-> i, doc |-> d, owner |-> Null, user |-> u]

MCRequests ==
         {Req("create", Null, d, Null) : d \in {e \in MCDocuments : e.owner = "dr14"}}
    \cup {Req("update", "q1", d, "alice") : d \in {e \in MCDocuments : e.owner = "dr59"}}
    \cup {Req("delete", "q1", Null, u) : u \in {"bob", "nobody"}}
    \cup {Req("get", "q1", Null, Null)}

MCLookups == {User(u) : u \in MCUsers} \cup {Permissions}
MCEntries == User("alice") :> <<"dr14">> @@ User("bob") :> <<"dr59">> @@ User("nobody") :> <<>>
             @@ Permissions :> <<"dr14", "dr59">>
MCErrors == {"NotFoundException", "SQLException"}

Symmetry == Permutations(MCThreads) \cup Permutations(MCConnections)
=============================================================================

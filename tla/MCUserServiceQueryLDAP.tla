----------------------- MODULE MCUserServiceQueryLDAP -----------------------
(***************************************************************************)
(* Two threads and five connections (one each is making, one each reads    *)
(* from, one in the field); a user with two entries, one with an           *)
(* incomplete entry, one the directory does not have, and the list of      *)
(* permissions.                                                            *)
(***************************************************************************)
EXTENDS UserServiceQueryLDAP, TLC

CONSTANTS t1, t2, c1, c2, c3, c4, c5

MCThreads == {t1, t2}
MCConnections == {c1, c2, c3, c4, c5}

User(id) == [op |-> "user", id |-> id]
Permissions == [op |-> "permissions", id |-> Null]

MCLookups == {User("alice"), User("bob"), User("nobody"), Permissions}
MCEntries == User("alice") :> <<"dr59", "dr14">> @@ User("bob") :> <<Incomplete>>
             @@ User("nobody") :> <<>> @@ Permissions :> <<"dr14", Other, "dr59">>

Symmetry == Permutations(MCThreads) \cup Permutations(MCConnections)
=============================================================================

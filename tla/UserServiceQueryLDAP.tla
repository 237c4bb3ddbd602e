------------------------ MODULE UserServiceQueryLDAP ------------------------
(***************************************************************************)
(* UserServiceQueryLDAPImpl: the directory lookups behind the owner filter *)
(* and the /user resource.  The service is a singleton, and it keeps the   *)
(* connection of a lookup in a field, context, which every request thread  *)
(* overwrites, searches through and closes without a lock.                 *)
(*                                                                         *)
(* Of JNDI (external) it uses four facts: a search through a context that  *)
(* was closed throws; closing one twice does nothing the second time; a    *)
(* context closed while an enumeration is being read goes on serving it,   *)
(* its socket being given up when the enumeration has ended; and what the  *)
(* program has lost is closed by the finalizer, some time.                 *)
(***************************************************************************)
EXTENDS Sequences, SequencesExt

CONSTANTS
    Threads,        \* request threads
    Lookups,        \* what they ask: [op : {"user"}, id] or [op : {"permissions"}, id : {Null}]
    Entries,        \* external: the directory, Entries[l] the values of the entries that match l
    Other,          \* property ...permission.other: a permission getPermissions leaves out
    Incomplete,     \* an entry that lacks one of the attributes asked for
    Authentication, \* property fr.insee.pogues.authentication, "true" or "false"
    Guest,          \* the user everybody is where Authentication is "false"
    Faulty,         \* whether the directory may refuse, break off or time out
    Connections,    \* bound: the connections there may be at a time, by name
    Null            \* Java's null

ASSUME LookupsAssumption ==
    /\ \A l \in Lookups : l.op \in {"user", "permissions"}
    /\ DOMAIN Entries = Lookups
    /\ Null \notin Connections
    /\ Authentication \in {"true", "false"}

VARIABLES
    context,    \* the field, as last assigned: a connection, or Null at first
    live,       \* the connections close() has not been called on
    abandoned,  \* those with an enumeration nobody will read to its end
    pc,         \* pc[t]: what thread t does next
    lookup,     \* lookup[t]: what t was asked
    own,        \* own[t]: the connection t made for it
    source,     \* source[t]: the connection t reads its results from
    outcome,    \* outcome[t]: what the lookup comes to
    overlapped, \* history: the threads whose lookup ran beside another one
    refused     \* history: the threads whose lookup the directory failed

vars == <<context, live, abandoned, pc, lookup, own, source, outcome, overlapped, refused>>
-----------------------------------------------------------------------------
\* A lookup that ends in an exception.
Failed == [failed |-> TRUE, value |-> Null]
Found(value) == [failed |-> FALSE, value |-> value]

\* A new connection, of a name nothing refers to.
Referenced == UNION {{context, own[t], source[t]} : t \in Threads}
Unused == Connections \ (live \cup abandoned \cup Referenced)

Busy == {t \in Threads : pc[t] # "idle"}

\* What a read of the field by t may give: the field is not volatile, and t may
\* go on seeing the connection it assigned itself.
Context(t) == {context} \cup ({own[t]} \ {Null})

\* What the loops make of the entries: the last one is the user (none is null,
\* <<>> here), and all but the one named Other are the permissions.
Collect(l) ==
    LET entries == Entries[l] IN
    IF l.op = "permissions"
    THEN SelectSeq(entries, LAMBDA e : e # Other)
    ELSE IF entries = <<>> THEN <<>> ELSE <<Last(entries)>>

Init ==
    /\ context = Null
    /\ live = {}
    /\ abandoned = {}
    /\ pc = [t \in Threads |-> "idle"]
    /\ lookup = [t \in Threads |-> Null]
    /\ own = [t \in Threads |-> Null]
    /\ source = [t \in Threads |-> Null]
    /\ outcome = [t \in Threads |-> Null]
    /\ overlapped = {}
    /\ refused = {}

\* A lookup is called.  Without authentication the user is Guest; the
\* permissions do not depend on it.
Call(t) ==
    /\ pc[t] = "idle"
    /\ \E l \in Lookups :
        /\ lookup' = [lookup EXCEPT ![t] = l]
        /\ IF l.op = "user" /\ Authentication = "false"
           THEN /\ pc' = [pc EXCEPT ![t] = "return"]
                /\ outcome' = [outcome EXCEPT ![t] = Found(Guest)]
           ELSE /\ pc' = [pc EXCEPT ![t] = "connect"]
                /\ UNCHANGED outcome
    /\ overlapped' = IF Busy = {} THEN overlapped ELSE overlapped \cup Busy \cup {t}
    /\ UNCHANGED <<context, live, abandoned, own, source, refused>>

\* The body of the try ends in an exception, the finally clause is next.
Fail(t) ==
    /\ pc' = [pc EXCEPT ![t] = "close"]
    /\ outcome' = [outcome EXCEPT ![t] = Failed]

\* So it does because the directory refuses, breaks off or times out.
Refuse(t) ==
    /\ Faulty
    /\ Fail(t)
    /\ refused' = refused \cup {t}

\* Mutant of InitConnection: a connection is made once and kept in the field.
ConnectOnce(t) ==
    /\ pc[t] = "connect"
    /\ IF context = Null
       THEN \E c \in Unused :
                /\ live' = live \cup {c}
                /\ context' = c
                /\ own' = [own EXCEPT ![t] = c]
       ELSE UNCHANGED <<live, context, own>>
    /\ pc' = [pc EXCEPT ![t] = "search"]
    /\ UNCHANGED <<abandoned, lookup, source, outcome, overlapped, refused>>

\* initConnection, whose constructor connects before the field is assigned.
InitConnection(t) ==
    /\ pc[t] = "connect"
    /\ \/ /\ \E c \in Unused :
                /\ live' = live \cup {c}
                /\ context' = c
                /\ own' = [own EXCEPT ![t] = c]
          /\ pc' = [pc EXCEPT ![t] = "search"]
          /\ UNCHANGED <<outcome, refused>>
       \/ /\ Refuse(t)
          /\ UNCHANGED <<live, context, own>>
    /\ UNCHANGED <<abandoned, lookup, source, overlapped>>

\* Mutant of Search: a closed context has no results, and says nothing.
SearchClosedIsEmpty(t) ==
    /\ pc[t] = "search"
    /\ \E c \in Context(t) :
        IF c \notin live
        THEN /\ pc' = [pc EXCEPT ![t] = "close"]
             /\ outcome' = [outcome EXCEPT ![t] = Found(<<>>)]
             /\ UNCHANGED source
        ELSE /\ source' = [source EXCEPT ![t] = c]
             /\ pc' = [pc EXCEPT ![t] = "read"]
             /\ UNCHANGED outcome
    /\ UNCHANGED <<context, live, abandoned, lookup, own, overlapped, refused>>

\* context.search: through whichever connection the field shows.
Search(t) ==
    /\ pc[t] = "search"
    /\ \/ \E c \in Context(t) \cap live :
            /\ source' = [source EXCEPT ![t] = c]
            /\ pc' = [pc EXCEPT ![t] = "read"]
            /\ UNCHANGED <<outcome, refused>>
       \/ /\ ~ (Context(t) \subseteq live)
          /\ Fail(t)
          /\ UNCHANGED <<source, refused>>
       \/ /\ Refuse(t)
          /\ UNCHANGED source
    /\ UNCHANGED <<context, live, abandoned, lookup, own, overlapped>>

\* The loop over the results.  An incomplete entry throws out of it, with the
\* enumeration neither read to its end nor closed.
ReadEntries(t) ==
    /\ pc[t] = "read"
    /\ source' = [source EXCEPT ![t] = Null]
    /\ \/ /\ Incomplete \notin Range(Entries[lookup[t]])
          /\ outcome' = [outcome EXCEPT ![t] = Found(Collect(lookup[t]))]
          /\ pc' = [pc EXCEPT ![t] = "close"]
          /\ UNCHANGED <<abandoned, refused>>
       \/ /\ Incomplete \in Range(Entries[lookup[t]])
          /\ abandoned' = abandoned \cup {source[t]}
          /\ Fail(t)
          /\ UNCHANGED refused
       \/ /\ Refuse(t)
          /\ UNCHANGED abandoned
    /\ UNCHANGED <<context, live, lookup, own, overlapped>>

\* Mutant of CloseConnection: closed after the loop instead of in the finally.
CloseOnSuccess(t) ==
    /\ pc[t] = "close"
    /\ live' = IF outcome[t] = Failed THEN live ELSE live \ {context}
    /\ pc' = [pc EXCEPT ![t] = "return"]
    /\ UNCHANGED <<context, abandoned, lookup, own, source, outcome, overlapped, refused>>

\* closeConnection, in the finally clause: closes what the field shows, which
\* may be the connection of another thread.  Where it shows nothing the
\* NullPointerException takes the place of the exception under way.
CloseConnection(t) ==
    /\ pc[t] = "close"
    /\ \E c \in Context(t) : live' = live \ {c}
    /\ pc' = [pc EXCEPT ![t] = "return"]
    /\ UNCHANGED <<context, abandoned, lookup, own, source, outcome, overlapped, refused>>

\* The caller takes the outcome.
Return(t) ==
    /\ pc[t] = "return"
    /\ pc' = [pc EXCEPT ![t] = "idle"]
    /\ lookup' = [lookup EXCEPT ![t] = Null]
    /\ own' = [own EXCEPT ![t] = Null]
    /\ outcome' = [outcome EXCEPT ![t] = Null]
    /\ overlapped' = overlapped \ {t}
    /\ refused' = refused \ {t}
    /\ UNCHANGED <<context, live, abandoned, source>>

\* The garbage collector finds a connection nothing refers to.
Finalize ==
    /\ \E c \in (live \cup abandoned) \ Referenced :
        /\ live' = live \ {c}
        /\ abandoned' = abandoned \ {c}
    /\ UNCHANGED <<context, pc, lookup, own, source, outcome, overlapped, refused>>

Next ==
    \/ Finalize
    \/ \E t \in Threads :
           \/ Call(t)
           \/ InitConnection(t)
           \/ Search(t)
           \/ ReadEntries(t)
           \/ CloseConnection(t)
           \/ Return(t)

Spec == Init /\ [][Next]_vars
-----------------------------------------------------------------------------
(***************************************************************************)
(* Properties.                                                             *)
(***************************************************************************)

\* The values the variables take, and when a thread has a connection.
TypeOK ==
    /\ context \in Connections \cup {Null}
    /\ live \subseteq Connections
    /\ abandoned \subseteq Connections
    /\ pc \in [Threads -> {"idle", "connect", "search", "read", "close", "return"}]
    /\ lookup \in [Threads -> Lookups \cup {Null}]
    /\ own \in [Threads -> Connections \cup {Null}]
    /\ source \in [Threads -> Connections \cup {Null}]
    /\ outcome = [t \in Threads |-> outcome[t]]
    /\ overlapped \cup refused \subseteq Busy
    /\ \A t \in Threads : /\ pc[t] \in {"search", "read"} => own[t] # Null
                          /\ pc[t] = "read" <=> source[t] # Null
                          /\ pc[t] \in {"close", "return"} => outcome[t] \in {Failed, Found(outcome[t].value)}

\* A lookup that does not end in an exception gives what the directory has for
\* it, whichever thread's connection it was read from and whoever closed that.
\* In particular no user is taken for one the directory does not know.
LookupIsTruthful ==
    \A t \in Threads :
        pc[t] = "return" /\ outcome[t] # Failed =>
            outcome[t].value = IF lookup[t].op = "user" /\ Authentication = "false"
                               THEN Guest
                               ELSE Collect(lookup[t])

\* A lookup beside which no other one ran fails for a reason of its own: the
\* directory or an entry.  The lookups before it, with the connections they left
\* open or closed in the field, do not matter.
FailureHasCause ==
    \A t \in Threads :
        pc[t] = "return" /\ outcome[t] = Failed =>
            \/ t \in refused
            \/ t \in overlapped
            \/ Incomplete \in Range(Entries[lookup[t]])

\* Such a lookup closes the connection it made, also when it fails.
NoLeakAlone ==
    \A t \in Threads : pc[t] = "return" /\ t \notin overlapped => own[t] \notin live

(***************************************************************************)
(* Statement of the repository the code departs from.                      *)
(***************************************************************************)

\* The list of permissions is documented to be had, and nothing else: true of
\* a directory that answers, if lookups did not share a field.
PermissionsAreListed ==
    \A t \in Threads :
        /\ pc[t] = "return"
        /\ lookup[t].op = "permissions"
        /\ Incomplete \notin Range(Entries[lookup[t]])
        => outcome[t] # Failed
=============================================================================

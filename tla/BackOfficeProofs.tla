-------------------------- MODULE BackOfficeProofs --------------------------
(***************************************************************************)
(* Theorems about BackOffice, for any threads, questionnaires, users,      *)
(* directory and connections, with and without failures.  Every step of    *)
(* the whole is a step of each of its parts or invisible to it, so what is *)
(* proved of the parts holds of the whole.  Only for /persistence that     *)
(* takes an invariant: it says whose lookup the directory does for a       *)
(* filter, and what a lookup that succeeds has found (AtWork).             *)
(***************************************************************************)
EXTENDS BackOffice, TLAPS

Looking == {"idle", "connect", "search", "read", "close", "return"}

Types ==
    /\ pc \in [Threads -> Persistence!Steps]
    /\ request \in [Threads -> Requests \cup {Null}]
    /\ answer = [t \in Threads |-> answer[t]]
    /\ step \in [Threads -> Looking]
    /\ lookup \in [Threads -> Lookups \cup {Null}]
    /\ outcome = [t \in Threads |-> outcome[t]]

\* A lookup that succeeded has found what the directory has, where it was looked in.
Settled(t) ==
    \/ outcome[t] = Directory!Failed
    \/ lookup[t].op = "user" /\ Authentication = "false"
    \/ /\ outcome[t] = Directory!Found(Directory!Collect(lookup[t]))
       /\ Incomplete \notin Range(Entries[lookup[t]])

\* A thread is in the directory only for its filter, for the user of its request,
\* or, with no request of /persistence, for /user.
AtWork(t) ==
    /\ pc[t] \in {"filter", "permission"} =>
          request[t] \in Requests /\ request[t].op \in Persistence!OwnerRestricted
    /\ pc[t] = "permission" => Authentication = "true" /\ request[t].user \in Users
    /\ step[t] # "idle" =>
          \/ pc[t] = "permission" /\ lookup[t] = User(request[t].user)
          \/ pc[t] = "idle"
    /\ step[t] \in {"close", "return"} => Settled(t)

Inv == Types /\ \A t \in Threads : AtWork(t)
-----------------------------------------------------------------------------
(***************************************************************************)
(* The parts.                                                              *)
(***************************************************************************)

\* The directory is used as UserServiceQueryLDAP says it may be, and the mapper as
\* GenericExceptionMapper does: what is proved of these modules holds here.
THEOREM PartsAreThemselves == Spec => Directory!Spec /\ Mapper!Spec
<1>1. Init => Directory!Init /\ Mapper!Init
    BY DEF Init
<1>2. [Next]_vars => [Directory!Next]_(Directory!vars)
    <2>1. CASE UNCHANGED vars
        BY <2>1 DEF vars, directoryVars, Directory!vars
    <2>2. CASE Finalize
        BY <2>2 DEF Finalize, Directory!Next
    <2>3. ASSUME NEW t \in Threads,
                 StartLookup(t) \/ LookUp(t) \/ AnswerLookup(t) \/ ComparePermission(t)
          PROVE  Directory!Next
        BY <2>3 DEF StartLookup, LookUp, AnswerLookup, ComparePermission, Directory!Next
    <2>4. ASSUME NEW t \in Threads,
                 Persist(t) \/ Write(t) \/ Throw(t) \/ MapException(t) \/ Respond(t)
          PROVE  UNCHANGED Directory!vars
        BY <2>4 DEF Persist, Write, Throw, MapException, Respond, directoryVars, Directory!vars
    <2> QED
        BY <2>1, <2>2, <2>3, <2>4 DEF Next
<1>3. [Next]_vars => [Mapper!Next]_(Mapper!vars)
    <2>1. CASE UNCHANGED vars
        BY <2>1 DEF vars, mapperVars, Mapper!vars
    <2>2. CASE Finalize
        BY <2>2 DEF Finalize, mapperVars, Mapper!vars
    <2>3. ASSUME NEW t \in Threads,
                 AnswerLookup(t) \/ Throw(t) \/ MapException(t) \/ Respond(t)
          PROVE  Mapper!Next \/ UNCHANGED Mapper!vars
        BY <2>3 DEF AnswerLookup, Throw, MapException, Respond, Mapper!Next, mapperVars, Mapper!vars
    <2>4. ASSUME NEW t \in Threads,
                 \/ Persist(t) \/ Write(t) \/ StartLookup(t) \/ LookUp(t)
                 \/ ComparePermission(t)
          PROVE  UNCHANGED Mapper!vars
        BY <2>4 DEF Persist, Write, StartLookup, LookUp, ComparePermission, mapperVars,
                    Mapper!vars
    <2> QED
        BY <2>1, <2>2, <2>3, <2>4 DEF Next
<1> QED
    BY <1>1, <1>2, <1>3, PTL DEF Spec, Directory!Spec, Mapper!Spec
-----------------------------------------------------------------------------
(***************************************************************************)
(* The invariant.                                                          *)
(***************************************************************************)
LEMMA RequestShape ==
    ASSUME NEW r \in Requests
    PROVE  /\ r # Null
           /\ r.op \in {"get", "list", "search", "meta", "delete", "update", "create"}
           /\ r.op \in {"update", "delete"} => r.id \in Ids /\ r.user \in Users \cup {Null}
BY BackOfficeAssumption DEF Persistence!Request

LEMMA RequestDocument ==
    ASSUME NEW r \in Requests, r.op \in {"update", "create"}
    PROVE  r.doc \in Documents
BY BackOfficeAssumption DEF Persistence!Request

\* A permission is an owner, or Null for a user who is not found.
LEMMA PermissionShape == Permission \in [Users -> Owners \cup {Null}]
<1> SUFFICES ASSUME NEW u \in Users PROVE Permission[u] \in Owners \cup {Null}
    BY DEF Permission
<1> DEFINE entries == Entries[User(u)]
<1>1. entries \in Seq(Owners \cup {Incomplete})
    BY BackOfficeAssumption
<1>2. CASE entries = <<>> \/ Incomplete \in Range(entries)
    BY <1>2 DEF Permission
<1>3. CASE entries # <<>> /\ Incomplete \notin Range(entries)
    <2>1. Permission[u] = Last(entries)
        BY <1>3 DEF Permission
    <2> HIDE DEF entries
    <2>2. Len(entries) \in DOMAIN entries /\ entries[Len(entries)] \in Owners \cup {Incomplete}
        BY <1>1, <1>3
    <2>3. entries[Len(entries)] # Incomplete
        BY <1>3, <2>2 DEF Range
    <2> QED
        BY <2>1, <2>2, <2>3 DEF Last
<1> QED
    BY <1>2, <1>3

\* What is found of a user is nobody, or the permission the directory has of it.
LEMMA FoundPermission ==
    ASSUME NEW u \in Users, Incomplete \notin Range(Entries[User(u)])
    PROVE  \/ Directory!Collect(User(u)) = <<>>
           \/ Directory!Collect(User(u)) = <<Permission[u]>> /\ Permission[u] # Null
<1> DEFINE entries == Entries[User(u)]
<1>1. entries \in Seq(Owners \cup {Incomplete})
    BY BackOfficeAssumption
<1>2. User(u).op = "user"
    BY DEF User
<1>3. CASE entries = <<>>
    BY <1>2, <1>3 DEF Directory!Collect
<1>4. CASE entries # <<>>
    <2>1. Permission[u] = Last(entries)
        BY <1>4 DEF Permission
    <2>2. Directory!Collect(User(u)) = <<Last(entries)>>
        BY <1>2, <1>4 DEF Directory!Collect, Directory!Last, Last
    <2>3. Last(entries) \in Owners
        <3> HIDE DEF entries
        <3>1. Len(entries) \in DOMAIN entries /\ entries[Len(entries)] \in Owners \cup {Incomplete}
            BY <1>1, <1>4
        <3>2. entries[Len(entries)] # Incomplete
            BY <3>1 DEF Range, entries
        <3> QED
            BY <3>1, <3>2 DEF Last
    <2> QED
        BY <2>1, <2>2, <2>3, BackOfficeAssumption
<1> QED
    BY <1>3, <1>4

LEMMA InitInv == Init => Inv
<1> SUFFICES ASSUME Init PROVE Inv
    OBVIOUS
<1>1. Types
    BY DEF Init, Persistence!Init, Directory!Init, Types, Persistence!Steps, Looking
<1>2. \A t \in Threads : AtWork(t)
    BY DEF Init, Persistence!Init, Directory!Init, AtWork
<1> QED
    BY <1>1, <1>2 DEF Inv

Local(t) == <<pc[t], request[t], step[t], lookup[t], outcome[t]>>

LEMMA SettledStays ==
    ASSUME NEW t \in Threads, Settled(t), UNCHANGED <<lookup[t], outcome[t]>>
    PROVE  Settled(t)'
<1>1. Directory!Collect(lookup[t])' = Directory!Collect(lookup[t])
    <2>1. Directory!Collect(lookup[t])' = Directory!Collect(lookup'[t])
        OBVIOUS
    <2> QED
        BY <2>1
<1>2. Range(Entries[lookup[t]])' = Range(Entries[lookup[t]])
    BY Zenon DEF Range
<1> QED
    BY <1>1, <1>2 DEF Settled, Directory!Failed, Directory!Found

LEMMA OneThreadIsEnough ==
    ASSUME Inv, NEW t \in Threads, Types', AtWork(t)',
           \A u \in Threads \ {t} : UNCHANGED Local(u)
    PROVE  Inv'
<1>1. ASSUME NEW u \in Threads \ {t} PROVE AtWork(u)'
    <2>1. UNCHANGED <<pc[u], request[u], step[u], lookup[u], outcome[u]>> /\ AtWork(u)
        BY DEF Local, Inv
    <2>2. step'[u] \in {"close", "return"} => Settled(u)'
        BY <2>1, SettledStays DEF AtWork
    <2> QED
        BY <2>1, <2>2 DEF AtWork, User, Permissions
<1> QED
    BY <1>1 DEF Inv

\* A step of /persistence to its end.
LEMMA Answered ==
    ASSUME Inv, NEW t \in Threads, NEW status, NEW rows, Persistence!AnswerRows(t, status, rows)
    PROVE  /\ pc' \in [Threads -> Persistence!Steps] /\ pc'[t] = "done"
           /\ answer' = [u \in Threads |-> answer'[u]]
           /\ answer'[t] = [status |-> status, body |-> rows]
           /\ \A u \in Threads \ {t} : pc'[u] = pc[u] /\ answer'[u] = answer[u]
BY DEF Inv, Types, Persistence!AnswerRows, Persistence!Steps

LEMMA WentTo ==
    ASSUME Inv, NEW t \in Threads, NEW l \in Persistence!Steps, Persistence!GoTo(t, l)
    PROVE  /\ pc' \in [Threads -> Persistence!Steps] /\ pc'[t] = l
           /\ answer' = answer
           /\ \A u \in Threads \ {t} : pc'[u] = pc[u]
BY DEF Inv, Types, Persistence!GoTo

\* A step of a thread that is not in the directory, to another step than the lookup.
LEMMA QuietKeeps ==
    ASSUME Inv, NEW t \in Threads, step[t] = "idle", UNCHANGED <<step, lookup, outcome>>,
           pc' \in [Threads -> Persistence!Steps], pc'[t] \notin {"filter", "permission"},
           request' \in [Threads -> Requests \cup {Null}],
           answer' = [u \in Threads |-> answer'[u]],
           \A u \in Threads \ {t} : pc'[u] = pc[u] /\ request'[u] = request[u]
    PROVE  Inv'
<1>1. Types' /\ AtWork(t)'
    BY DEF Inv, Types, AtWork
<1>2. \A u \in Threads \ {t} : UNCHANGED Local(u)
    BY DEF Local
<1> QED
    BY <1>1, <1>2, OneThreadIsEnough

LEMMA AnsweringKeeps ==
    ASSUME Inv, NEW t \in Threads, step[t] = "idle", UNCHANGED <<request, step, lookup, outcome>>,
           NEW status, NEW rows, Persistence!AnswerRows(t, status, rows)
    PROVE  Inv'
<1>1. request \in [Threads -> Requests \cup {Null}]
    BY DEF Inv, Types
<1> QED
    BY <1>1, Answered, QuietKeeps

LEMMA ReceiveKeeps ==
    ASSUME Inv, NEW t \in Threads, Free(t), Persistence!Receive(t), UNCHANGED directoryVars
    PROVE  Inv'
<1>1. PICK r \in Requests :
        /\ request' = [request EXCEPT ![t] = r]
        /\ Persistence!GoTo(t, IF r.op \in Persistence!OwnerRestricted THEN "filter" ELSE r.op)
    BY DEF Persistence!Receive
<1>2. (IF r.op \in Persistence!OwnerRestricted THEN "filter" ELSE r.op) \in Persistence!Steps \ {"permission"}
    BY RequestShape DEF Persistence!Steps
<1>3. /\ pc' \in [Threads -> Persistence!Steps] /\ pc'[t] # "permission"
      /\ pc'[t] = "filter" => r.op \in Persistence!OwnerRestricted
      /\ answer' = answer /\ \A u \in Threads \ {t} : pc'[u] = pc[u]
    BY <1>1, <1>2, WentTo, RequestShape
<1>4. /\ request' \in [Threads -> Requests \cup {Null}] /\ request'[t] = r
      /\ \A u \in Threads \ {t} : request'[u] = request[u]
    BY <1>1 DEF Inv, Types
<1>5. step[t] = "idle" /\ UNCHANGED <<step, lookup, outcome>>
    BY DEF Free, directoryVars
<1>6. Types'
    BY <1>3, <1>4, <1>5 DEF Inv, Types
<1>7. AtWork(t)'
    BY <1>3, <1>4, <1>5 DEF AtWork
<1>8. \A u \in Threads \ {t} : UNCHANGED Local(u)
    BY <1>3, <1>4, <1>5 DEF Local
<1> QED
    BY <1>6, <1>7, <1>8, OneThreadIsEnough

LEMMA FilterReadKeeps ==
    ASSUME Inv, NEW t \in Threads, Persistence!FilterRead(t), UNCHANGED directoryVars
    PROVE  Inv'
<1>1. /\ pc[t] = "filter" /\ UNCHANGED request
      /\ request[t] \in Requests /\ request[t].op \in {"update", "delete"}
      /\ step[t] = "idle" /\ UNCHANGED <<step, lookup, outcome>>
    BY DEF Persistence!FilterRead, Persistence!OwnerRestricted, Inv, AtWork, directoryVars
<1>2. \/ \E status : Persistence!AnswerRows(t, status, Persistence!NoRows)
      \/ Persistence!GoTo(t, request[t].op)
      \/ /\ Authentication = "true" /\ request[t].user # Null
         /\ Persistence!GoTo(t, "permission")
    BY DEF Persistence!FilterRead, Persistence!AnswerStatus
<1>3. CASE \E status : Persistence!AnswerRows(t, status, Persistence!NoRows)
    BY <1>1, <1>3, AnsweringKeeps
<1>4. CASE Persistence!GoTo(t, request[t].op)
    <2>1. request[t].op \in Persistence!Steps \ {"filter", "permission"}
        BY <1>1 DEF Persistence!Steps
    <2>2. /\ pc' \in [Threads -> Persistence!Steps] /\ pc'[t] \notin {"filter", "permission"}
          /\ answer' = answer /\ \A u \in Threads \ {t} : pc'[u] = pc[u]
        BY <1>4, <2>1, WentTo
    <2> QED
        BY <1>1, <2>2, QuietKeeps DEF Inv, Types
<1>5. CASE /\ Authentication = "true" /\ request[t].user # Null
           /\ Persistence!GoTo(t, "permission")
    <2>1. /\ pc' \in [Threads -> Persistence!Steps] /\ pc'[t] = "permission"
          /\ answer' = answer /\ \A u \in Threads \ {t} : pc'[u] = pc[u]
        BY <1>5, WentTo DEF Persistence!Steps
    <2>2. request[t].user \in Users
        BY <1>1, <1>5, RequestShape
    <2>3. Types'
        BY <1>1, <2>1 DEF Inv, Types
    <2>4. AtWork(t)'
        BY <1>1, <1>5, <2>1, <2>2 DEF AtWork, Persistence!OwnerRestricted
    <2>5. \A u \in Threads \ {t} : UNCHANGED Local(u)
        BY <1>1, <2>1 DEF Local
    <2> QED
        BY <2>3, <2>4, <2>5, OneThreadIsEnough
<1> QED
    BY <1>2, <1>3, <1>4, <1>5

\* A thread in a resource method is not in the directory.
LEMMA NotInDirectory ==
    ASSUME Inv, NEW t \in Threads, pc[t] \notin {"idle", "permission"}
    PROVE  step[t] = "idle"
BY DEF Inv, AtWork

LEMMA PersistKeeps ==
    ASSUME Inv, NEW t \in Threads, Persist(t)
    PROVE  Inv'
<1>1. UNCHANGED <<step, lookup, outcome>>
    BY DEF Persist, directoryVars
<1>2. CASE Free(t) /\ Persistence!Receive(t)
    BY <1>2, ReceiveKeeps DEF Persist
<1>3. CASE Persistence!FilterRead(t)
    BY <1>3, FilterReadKeeps DEF Persist
<1>4. CASE Persistence!Read(t)
    <2>1. pc[t] \notin {"idle", "permission"} /\ UNCHANGED request
        BY <1>4 DEF Persistence!Read, Persistence!GetQuestionnaire, Persistence!GetQuestionnaireList,
           Persistence!SearchQuestionnaires, Persistence!GetQuestionnairesMetadata
    <2>2. \E status, rows : Persistence!AnswerRows(t, status, rows)
        BY <1>4 DEF Persistence!Read, Persistence!GetQuestionnaire, Persistence!GetQuestionnaireList,
           Persistence!SearchQuestionnaires, Persistence!GetQuestionnairesMetadata,
           Persistence!AnswerStatus
    <2> QED
        BY <1>1, <2>1, <2>2, NotInDirectory, AnsweringKeeps
<1>5. CASE \/ pc[t] # "permission" /\ Persistence!FilterFails(t)
           \/ Persistence!StatementFails(t)
    <2>1. pc[t] \notin {"idle", "permission"} /\ UNCHANGED request
        BY <1>5 DEF Persistence!FilterFails, Persistence!StatementFails
    <2>2. \E status, rows : Persistence!AnswerRows(t, status, rows)
        BY <1>5 DEF Persistence!FilterFails, Persistence!StatementFails, Persistence!AnswerStatus
    <2> QED
        BY <1>1, <2>1, <2>2, NotInDirectory, AnsweringKeeps
<1> QED
    BY <1>2, <1>3, <1>4, <1>5 DEF Persist

LEMMA WriteKeeps ==
    ASSUME Inv, NEW t \in Threads, Write(t)
    PROVE  Inv'
<1> USE DEF Write, Persistence!Write, Persistence!DeleteQuestionnaire,
        Persistence!UpdateQuestionnaire, Persistence!CreateQuestionnaireCheck,
        Persistence!CreateQuestionnaireInsert
<1>1. /\ pc[t] \notin {"idle", "permission"}
      /\ UNCHANGED <<request, step, lookup, outcome>>
    BY DEF directoryVars
<1>2. \/ \E status, rows : Persistence!AnswerRows(t, status, rows)
      \/ Persistence!GoTo(t, "insert")
    BY DEF Persistence!Acknowledge, Persistence!AnswerStatus
<1>3. CASE \E status, rows : Persistence!AnswerRows(t, status, rows)
    BY <1>1, <1>3, NotInDirectory, AnsweringKeeps
<1>4. CASE Persistence!GoTo(t, "insert")
    <2>1. /\ pc' \in [Threads -> Persistence!Steps] /\ pc'[t] = "insert"
          /\ answer' = answer /\ \A u \in Threads \ {t} : pc'[u] = pc[u]
        BY <1>4, WentTo DEF Persistence!Steps
    <2>2. request \in [Threads -> Requests \cup {Null}] /\ answer = [u \in Threads |-> answer[u]]
        BY DEF Inv, Types
    <2> QED
        BY <1>1, <2>1, <2>2, NotInDirectory, QuietKeeps
<1> QED
    BY <1>2, <1>3, <1>4

LEMMA StartLookupKeeps ==
    ASSUME Inv, NEW t \in Threads, StartLookup(t)
    PROVE  Inv'
<1>1. PICK l \in Lookups :
        /\ lookup' = [lookup EXCEPT ![t] = l]
        /\ IF l.op = "user" /\ Authentication = "false"
           THEN /\ step' = [step EXCEPT ![t] = "return"]
                /\ outcome' = [outcome EXCEPT ![t] = Directory!Found(Guest)]
           ELSE /\ step' = [step EXCEPT ![t] = "connect"]
                /\ UNCHANGED outcome
    BY DEF StartLookup, Directory!Call
<1>2. step[t] = "idle" /\ lookup'[t] = l /\ UNCHANGED <<pc, request, answer>>
    BY <1>1 DEF StartLookup, Directory!Call, persistenceVars, Inv, Types
<1>3. \/ pc[t] = "permission" /\ l = User(request[t].user)
      \/ pc[t] = "idle"
    BY <1>2 DEF StartLookup, Free
<1>4. /\ step' \in [Threads -> Looking]
      /\ step'[t] = "connect" \/ (step'[t] = "return" /\ l.op = "user" /\ Authentication = "false")
      /\ outcome' = [u \in Threads |-> outcome'[u]]
      /\ \A u \in Threads \ {t} : step'[u] = step[u] /\ outcome'[u] = outcome[u]
    BY <1>1 DEF Inv, Types, Looking
<1>5. /\ lookup' \in [Threads -> Lookups \cup {Null}]
      /\ \A u \in Threads \ {t} : lookup'[u] = lookup[u]
    BY <1>1 DEF Inv, Types
<1>6. Types'
    BY <1>2, <1>4, <1>5 DEF Inv, Types
<1>7. AtWork(t)'
    <2>1. step'[t] \in {"close", "return"} => Settled(t)'
        BY <1>2, <1>4 DEF Settled
    <2> QED
        BY <1>2, <1>3, <2>1 DEF Inv, AtWork, User
<1>8. \A u \in Threads \ {t} : UNCHANGED Local(u)
    BY <1>2, <1>4, <1>5 DEF Local
<1> QED
    BY <1>6, <1>7, <1>8, OneThreadIsEnough

LEMMA LookUpKeeps ==
    ASSUME Inv, NEW t \in Threads, LookUp(t)
    PROVE  Inv'
<1> USE DEF Directory!Refuse, Directory!Fail
<1>1. UNCHANGED <<pc, request, answer, lookup>>
    BY DEF LookUp, persistenceVars, Directory!InitConnection, Directory!Search,
           Directory!ReadEntries, Directory!CloseConnection
<1>2. step[t] # "idle"
    BY DEF LookUp, Directory!InitConnection, Directory!Search, Directory!ReadEntries,
           Directory!CloseConnection
<1>3. PICK l \in {"search", "read", "close", "return"} : step' = [step EXCEPT ![t] = l]
    BY DEF LookUp, Directory!InitConnection, Directory!Search, Directory!ReadEntries,
           Directory!CloseConnection
<1>4. step' \in [Threads -> Looking] /\ step'[t] = l /\ \A u \in Threads \ {t} : step'[u] = step[u]
    BY <1>3 DEF Inv, Types, Looking
<1>5. /\ outcome' = [u \in Threads |-> outcome'[u]]
      /\ \A u \in Threads \ {t} : outcome'[u] = outcome[u]
    BY DEF LookUp, Directory!InitConnection, Directory!Search, Directory!ReadEntries,
           Directory!CloseConnection, Inv, Types
<1>6. ASSUME l \in {"close", "return"} PROVE Settled(t)'
    <2>1. CASE Directory!Fail(t)
        <3>1. outcome'[t] = Directory!Failed
            BY <2>1 DEF Inv, Types
        <3> QED
            BY <3>1 DEF Settled, Directory!Failed
    <2>2. CASE /\ Directory!ReadEntries(t) /\ ~ Directory!Fail(t)
        <3>1. /\ Incomplete \notin Range(Entries[lookup[t]])
              /\ outcome'[t] = Directory!Found(Directory!Collect(lookup[t]))
            BY <2>2 DEF Directory!ReadEntries, Directory!Range, Range, Inv, Types
        <3>2. Directory!Collect(lookup[t])' = Directory!Collect(lookup[t])
            <4>1. Directory!Collect(lookup[t])' = Directory!Collect(lookup'[t])
                OBVIOUS
            <4> QED
                BY <1>1, <4>1
        <3>3. Range(Entries[lookup[t]])' = Range(Entries[lookup[t]])
            BY <1>1, Zenon DEF Range
        <3> QED
            BY <3>1, <3>2, <3>3 DEF Settled, Directory!Found
    <2>3. CASE Directory!CloseConnection(t)
        <3>1. Settled(t) /\ UNCHANGED outcome
            BY <2>3 DEF Directory!CloseConnection, Inv, AtWork
        <3> QED
            BY <1>1, <3>1, SettledStays
    <2>4. ASSUME ~ Directory!Fail(t), Directory!InitConnection(t) \/ Directory!Search(t)
          PROVE  FALSE
        <3>1. step' = [step EXCEPT ![t] = "search"] \/ step' = [step EXCEPT ![t] = "read"]
            BY <2>4 DEF Directory!InitConnection, Directory!Search
        <3> QED
            BY <1>4, <1>6, <3>1 DEF Inv, Types
    <2> QED
        BY <2>1, <2>2, <2>3, <2>4 DEF LookUp
<1>7. Types'
    BY <1>1, <1>4, <1>5 DEF Inv, Types
<1>8. AtWork(t)'
    BY <1>1, <1>2, <1>4, <1>6 DEF Inv, AtWork, User, Permissions
<1>9. \A u \in Threads \ {t} : UNCHANGED Local(u)
    BY <1>1, <1>4, <1>5 DEF Local
<1> QED
    BY <1>7, <1>8, <1>9, OneThreadIsEnough

\* What a thread takes back from the directory.
LEMMA ReturnShape ==
    ASSUME Inv, NEW t \in Threads, Directory!Return(t)
    PROVE  /\ step[t] = "return" /\ step'[t] = "idle" /\ step' \in [Threads -> Looking]
           /\ lookup' \in [Threads -> Lookups \cup {Null}]
           /\ outcome' = [u \in Threads |-> outcome'[u]]
           /\ \A u \in Threads \ {t} :
                step'[u] = step[u] /\ lookup'[u] = lookup[u] /\ outcome'[u] = outcome[u]
BY DEF Directory!Return, Inv, Types, Looking

LEMMA AnswerLookupKeeps ==
    ASSUME Inv, NEW t \in Threads, AnswerLookup(t)
    PROVE  Inv'
<1>1. pc[t] = "idle" /\ UNCHANGED <<pc, request, answer>> /\ Directory!Return(t)
    BY DEF AnswerLookup, persistenceVars
<1>2. Types' /\ AtWork(t)'
    BY <1>1, ReturnShape DEF Inv, Types, AtWork
<1>3. \A u \in Threads \ {t} : UNCHANGED Local(u)
    BY <1>1, ReturnShape DEF Local
<1> QED
    BY <1>2, <1>3, OneThreadIsEnough

LEMMA ComparePermissionKeeps ==
    ASSUME Inv, NEW t \in Threads, ComparePermission(t)
    PROVE  Inv'
<1>1. pc[t] = "permission" /\ UNCHANGED request /\ Directory!Return(t)
    BY DEF ComparePermission
<1>2. \/ \E status, rows : Persistence!AnswerRows(t, status, rows)
      \/ Persistence!GoTo(t, request[t].op)
    BY DEF ComparePermission, Persistence!AnswerStatus
<1>3. request[t].op \in Persistence!Steps \ {"filter", "permission"}
    BY <1>1 DEF Inv, AtWork, Persistence!OwnerRestricted, Persistence!Steps
<1>4. answer = [u \in Threads |-> answer[u]]
    BY DEF Inv, Types
<1>5. /\ pc' \in [Threads -> Persistence!Steps] /\ pc'[t] \notin {"filter", "permission"}
      /\ answer' = [u \in Threads |-> answer'[u]]
      /\ \A u \in Threads \ {t} : pc'[u] = pc[u]
    BY <1>2, <1>3, <1>4, Answered, WentTo
<1>6. Types' /\ AtWork(t)'
    BY <1>1, <1>5, ReturnShape DEF Inv, Types, AtWork
<1>7. \A u \in Threads \ {t} : UNCHANGED Local(u)
    BY <1>1, <1>5, ReturnShape DEF Local
<1> QED
    BY <1>6, <1>7, OneThreadIsEnough

LEMMA StandingKeeps ==
    ASSUME Inv, UNCHANGED <<pc, request, answer, step, lookup, outcome>>
    PROVE  Inv'
<1>1. Types'
    BY DEF Inv, Types
<1>2. ASSUME NEW t \in Threads PROVE AtWork(t)'
    <2>1. step'[t] \in {"close", "return"} => Settled(t)'
        BY SettledStays DEF Inv, AtWork
    <2> QED
        BY <2>1 DEF Inv, AtWork, User, Permissions
<1> QED
    BY <1>1, <1>2 DEF Inv

LEMMA RespondKeeps ==
    ASSUME Inv, NEW t \in Threads, Respond(t)
    PROVE  Inv'
<1>1. UNCHANGED <<step, lookup, outcome>>
    BY DEF Respond, directoryVars
<1>2. CASE UNCHANGED persistenceVars
    BY <1>1, <1>2, StandingKeeps DEF persistenceVars
<1>3. CASE Persistence!Respond(t)
    <2>1. /\ pc[t] = "done" /\ pc' \in [Threads -> Persistence!Steps] /\ pc'[t] = "idle"
          /\ request' \in [Threads -> Requests \cup {Null}]
          /\ answer' = [u \in Threads |-> answer'[u]]
          /\ \A u \in Threads \ {t} : pc'[u] = pc[u] /\ request'[u] = request[u]
        BY <1>3 DEF Persistence!Respond, Persistence!Steps, Inv, Types
    <2> QED
        BY <1>1, <2>1, NotInDirectory, QuietKeeps
<1> QED
    BY <1>2, <1>3 DEF Respond

LEMMA NextKeeps == Inv /\ [Next]_vars => Inv'
<1> SUFFICES ASSUME Inv, [Next]_vars PROVE Inv'
    OBVIOUS
<1>1. CASE UNCHANGED vars
    BY <1>1, StandingKeeps DEF vars, persistenceVars, directoryVars
<1>2. CASE Finalize
    BY <1>2, StandingKeeps DEF Finalize, Directory!Finalize, persistenceVars
<1>3. ASSUME NEW t \in Threads, Throw(t) \/ MapException(t) PROVE Inv'
    BY <1>3, StandingKeeps DEF Throw, MapException, persistenceVars, directoryVars
<1> QED
    BY <1>1, <1>2, <1>3, PersistKeeps, WriteKeeps, StartLookupKeeps, LookUpKeeps,
       AnswerLookupKeeps, ComparePermissionKeeps, RespondKeeps DEF Next

LEMMA Invariance == Spec => []Inv
BY InitInv, NextKeeps, PTL DEF Spec
-----------------------------------------------------------------------------
(***************************************************************************)
(* /persistence.                                                           *)
(***************************************************************************)

\* What the filter does with what it gets back is what it does with the permission
\* of the user, or it fails.
LEMMA ComparePermissionIsFilter ==
    ASSUME Inv, NEW t \in Threads, ComparePermission(t)
    PROVE  Persistence!Filter(t)
<1>1. /\ pc[t] = "permission" /\ step[t] = "return"
      /\ UNCHANGED <<pogues, request, stored>>
    BY DEF ComparePermission, Directory!Return
<1>2. /\ request[t].user \in Users /\ lookup[t] = User(request[t].user)
      /\ Settled(t)
    BY <1>1 DEF Inv, AtWork
<1>3. CASE /\ outcome[t] \in {Directory!Failed, Directory!Found(<<>>)}
           /\ Persistence!AnswerStatus(t, 500)
    BY <1>1, <1>3 DEF Persistence!Filter, Persistence!FilterFails
<1>4. CASE /\ outcome[t] \notin {Directory!Failed, Directory!Found(<<>>)}
           /\ IF outcome[t].value = <<stored[t].owner>>
              THEN Persistence!GoTo(t, request[t].op)
              ELSE Persistence!AnswerStatus(t, 403)
    <2> DEFINE permission == Permission[request[t].user]
               owner == stored[t].owner
    <2>1. /\ outcome[t] = Directory!Found(Directory!Collect(User(request[t].user)))
          /\ Incomplete \notin Range(Entries[User(request[t].user)])
        BY <1>1, <1>2, <1>4 DEF Settled, Inv, AtWork
    <2>2. Directory!Collect(User(request[t].user)) = <<permission>> /\ permission # Null
        BY <1>2, <1>4, <2>1, FoundPermission
    <2>3. outcome[t].value = <<permission>>
        BY <2>1, <2>2 DEF Directory!Found
    <2>4. outcome[t].value = <<owner>> <=> permission = owner
        <3> HIDE DEF permission, owner
        <3> QED
            BY <2>3
    <2>5. Persistence!CheckPermission(t)
        BY <1>1, <1>4, <2>2, <2>4 DEF Persistence!CheckPermission
    <2> QED
        BY <2>5 DEF Persistence!Filter
<1> QED
    BY <1>3, <1>4 DEF ComparePermission

\* The steps a lookup takes, on a connection other threads replace and close, are to
\* /persistence the one step PoguesPersistence takes it for, for every directory.
THEOREM Refinement == Spec => ImplementsPersistence
<1>1. Init => Persistence!Init
    BY DEF Init
<1>2. Inv /\ [Next]_vars => [Persistence!Next]_(Persistence!vars)
    <2> SUFFICES ASSUME Inv, [Next]_vars PROVE Persistence!Next \/ UNCHANGED Persistence!vars
        OBVIOUS
    <2>1. CASE UNCHANGED vars
        BY <2>1 DEF vars, persistenceVars, Persistence!vars
    <2>2. CASE Finalize
        BY <2>2 DEF Finalize, persistenceVars, Persistence!vars
    <2>3. ASSUME NEW t \in Threads, Persist(t) PROVE Persistence!Next
        BY <2>3 DEF Persist, Persistence!Next, Persistence!Filter
    <2>4. ASSUME NEW t \in Threads, Write(t) PROVE Persistence!Next
        BY <2>4 DEF Write, Persistence!Next
    <2>5. ASSUME NEW t \in Threads, ComparePermission(t) PROVE Persistence!Next
        BY <2>5, ComparePermissionIsFilter DEF Persistence!Next
    <2>6. ASSUME NEW t \in Threads, Respond(t) PROVE Persistence!Next \/ UNCHANGED Persistence!vars
        BY <2>6 DEF Respond, Persistence!Next, persistenceVars, Persistence!vars
    <2>7. ASSUME NEW t \in Threads,
                 StartLookup(t) \/ LookUp(t) \/ AnswerLookup(t) \/ Throw(t) \/ MapException(t)
          PROVE  UNCHANGED Persistence!vars
        BY <2>7 DEF StartLookup, LookUp, AnswerLookup, Throw, MapException, persistenceVars,
                    Persistence!vars
    <2> QED
        BY <2>1, <2>2, <2>3, <2>4, <2>5, <2>6, <2>7 DEF Next
<1> QED
    BY <1>1, <1>2, Invariance, PTL DEF Spec, ImplementsPersistence, Persistence!Spec

\* The constants of the parts are such as their own modules assume, so that what is
\* proved there of any such constants is proved of the parts of the back office.
THEOREM PartsAreAsAssumed ==
    /\ Persistence!ConstantsAssumption
    /\ Directory!LookupsAssumption
    /\ Mapper!ErrorsAssumption
BY PermissionShape, BackOfficeAssumption
   DEF Persistence!ConstantsAssumption, Directory!LookupsAssumption, Mapper!ErrorsAssumption, User, Permissions
-----------------------------------------------------------------------------
(***************************************************************************)
(* What callers are told.                                                  *)
(***************************************************************************)
Tables == Persistence!Tables

\* The status of a request that is done says whether it wrote, Unmapped apart; one
\* that is not done has not written.
Truthful(t) ==
    /\ pc[t] \in {"create", "insert"} => request[t] \in Requests /\ request[t].op = "create"
    /\ pc[t] = "update" => request[t] \in Requests /\ request[t].op = "update"
    /\ pc[t] # "done" => ~ wrote[t]
    /\ pc[t] = "done" /\ answer[t].status \in {201, 204} => wrote[t]
    /\ pc[t] = "done" /\ answer[t].status \notin {201, 204, Unmapped} => ~ wrote[t]

\* The mapper says 404 only if its field does, which goes on saying it, and the
\* field only once a thread has written it, for an unknown path.
Mapped ==
    /\ STATUS \in {404, 500}
    /\ STATUS = 404 => writers # {}
    /\ mapping = [t \in Threads |-> mapping[t]]
    /\ http = [t \in Threads |-> http[t]]
    /\ \A t \in Threads :
          mapping[t] = "sent" => http[t] \in {404, 500} /\ (http[t] = 404 => STATUS = 404)

ToldInv ==
    /\ Inv
    /\ pogues \in Tables
    /\ wrote \in [Threads -> BOOLEAN]
    /\ \A t \in Threads : Truthful(t)
    /\ Mapped

LEMMA InitToldInv == Init => ToldInv
<1> SUFFICES ASSUME Init PROVE ToldInv
    OBVIOUS
<1>1. pogues \in Tables
    BY DEF Init, Persistence!Init, Tables, Persistence!Tables, Persistence!Rows, Persistence!NoRows
<1>2. \A t \in Threads : Truthful(t)
    BY DEF Init, Persistence!Init, Truthful
<1>3. Mapped
    BY DEF Init, Mapper!Init, Mapped, Mapper!INTERNAL_SERVER_ERROR
<1>4. wrote \in [Threads -> BOOLEAN]
    BY DEF Init
<1> QED
    BY <1>1, <1>2, <1>3, <1>4, InitInv DEF ToldInv

LEMMA MappedStays ==
    ASSUME Mapped, UNCHANGED <<STATUS, writers, mapping, http>>
    PROVE  Mapped'
BY DEF Mapped

\* The mapper's own steps.
LEMMA MappingKeeps ==
    ASSUME Mapped, NEW t \in Threads,
           Mapper!Throw(t) \/ Mapper!Classify(t) \/ Mapper!Build(t) \/ Mapper!Send(t)
    PROVE  Mapped'
<1> USE DEF Mapper!NOT_FOUND, Mapper!INTERNAL_SERVER_ERROR
<1>1. /\ mapping' = [u \in Threads |-> mapping'[u]]
      /\ \A u \in Threads \ {t} : mapping'[u] = mapping[u]
    BY DEF Mapped, Mapper!Throw, Mapper!Classify, Mapper!Build, Mapper!Send
<1>2. CASE Mapper!Throw(t) \/ Mapper!Classify(t)
    <2>1. /\ UNCHANGED http /\ mapping'[t] \in {"message", "status"}
          /\ UNCHANGED <<STATUS, writers>> \/ (STATUS' = 404 /\ writers' # {})
        BY <1>2 DEF Mapped, Mapper!Throw, Mapper!Classify
    <2> QED
        BY <1>1, <2>1 DEF Mapped
<1>3. CASE Mapper!Build(t)
    <2>1. PICK s \in Mapper!Visible(t) : http' = [http EXCEPT ![t] = s]
        BY <1>3 DEF Mapper!Build
    <2>2. s \in {404, 500} /\ (s = 404 => STATUS = 404) /\ UNCHANGED <<STATUS, writers>>
        BY <1>3, <2>1 DEF Mapped, Mapper!Visible, Mapper!Build
    <2> QED
        BY <1>1, <2>1, <2>2 DEF Mapped
<1>4. CASE Mapper!Send(t)
    <2>1. /\ UNCHANGED <<STATUS, writers>> /\ mapping'[t] = "running"
          /\ http' = [http EXCEPT ![t] = Mapper!NoStatus]
        BY <1>4 DEF Mapped, Mapper!Send
    <2> QED
        BY <1>1, <2>1 DEF Mapped
<1> QED
    BY <1>2, <1>3, <1>4

\* A step of one thread of /persistence, seen by the others.
LEMMA OneTruthIsEnough ==
    ASSUME ToldInv, NEW t \in Threads, Inv', Mapped', pogues' \in Tables,
           wrote' \in [Threads -> BOOLEAN], Truthful(t)',
           \A u \in Threads \ {t} :
               /\ pc'[u] = pc[u] /\ request'[u] = request[u]
               /\ answer'[u] = answer[u] /\ wrote'[u] = wrote[u]
    PROVE  ToldInv'
<1>1. ASSUME NEW u \in Threads \ {t} PROVE Truthful(u)'
    BY <1>1 DEF ToldInv, Truthful, Unmapped, Persistence!Unmapped
<1> QED
    BY <1>1 DEF ToldInv

\* A request is refused, fails or reads, and has not written.
LEMMA RefusingTells ==
    ASSUME ToldInv, NEW t \in Threads, Inv', pc[t] # "done",
           UNCHANGED <<pogues, request, wrote, mapperVars>>,
           NEW status, status \notin {201, 204}, NEW rows, Persistence!AnswerRows(t, status, rows)
    PROVE  ToldInv'
<1>1. Mapped'
    BY MappedStays DEF ToldInv, mapperVars
<1>2. /\ pc'[t] = "done" /\ answer'[t].status = status
      /\ \A u \in Threads \ {t} : pc'[u] = pc[u] /\ answer'[u] = answer[u]
    <2>1. Inv
        BY DEF ToldInv
    <2>2. /\ pc'[t] = "done" /\ answer'[t] = [status |-> status, body |-> rows]
          /\ \A u \in Threads \ {t} : pc'[u] = pc[u] /\ answer'[u] = answer[u]
        BY <2>1, Answered
    <2> QED
        BY <2>2
<1>3. Truthful(t)'
    BY <1>2 DEF ToldInv, Truthful
<1> QED
    BY <1>1, <1>2, <1>3, OneTruthIsEnough DEF ToldInv

\* It goes on to another step.
LEMMA GoingOnTells ==
    ASSUME ToldInv, NEW t \in Threads, Inv', pc[t] # "done",
           UNCHANGED <<pogues, wrote, mapperVars>>,
           NEW l \in Persistence!Steps, l # "done", Persistence!GoTo(t, l),
           \A u \in Threads \ {t} : request'[u] = request[u],
           l \in {"create", "insert"} => request'[t] \in Requests /\ request'[t].op = "create",
           l = "update" => request'[t] \in Requests /\ request'[t].op = "update"
    PROVE  ToldInv'
<1>1. Mapped'
    BY MappedStays DEF ToldInv, mapperVars
<1>2. /\ pc'[t] = l /\ UNCHANGED answer
      /\ \A u \in Threads \ {t} : pc'[u] = pc[u]
    BY WentTo DEF ToldInv
<1>3. Truthful(t)'
    BY <1>2 DEF ToldInv, Truthful
<1> QED
    BY <1>1, <1>2, <1>3, OneTruthIsEnough DEF ToldInv

\* A write is executed, and its answer says so or nothing.
LEMMA WritingTells ==
    ASSUME ToldInv, NEW t \in Threads, Inv', pogues' \in Tables,
           UNCHANGED <<request, mapperVars>>,
           NEW status, NEW rows, Persistence!AnswerRows(t, status, rows),
           wrote' \in [Threads -> BOOLEAN], \A u \in Threads \ {t} : wrote'[u] = wrote[u],
           status \in {201, 204} => wrote'[t],
           status \notin {201, 204, Unmapped} => ~ wrote'[t]
    PROVE  ToldInv'
<1>1. Mapped'
    BY MappedStays DEF ToldInv, mapperVars
<1>2. /\ pc'[t] = "done" /\ answer'[t].status = status
      /\ \A u \in Threads \ {t} : pc'[u] = pc[u] /\ answer'[u] = answer[u]
    <2>1. Inv
        BY DEF ToldInv
    <2>2. /\ pc'[t] = "done" /\ answer'[t] = [status |-> status, body |-> rows]
          /\ \A u \in Threads \ {t} : pc'[u] = pc[u] /\ answer'[u] = answer[u]
        BY <2>1, Answered
    <2> QED
        BY <2>2
<1>3. Truthful(t)'
    BY <1>2 DEF Truthful, Unmapped, Persistence!Unmapped
<1> QED
    BY <1>1, <1>2, <1>3, OneTruthIsEnough

LEMMA PersistTells ==
    ASSUME ToldInv, NEW t \in Threads, Persist(t)
    PROVE  ToldInv'
<1>1. Inv' /\ UNCHANGED <<pogues, wrote, mapperVars>>
    BY Zenon, PersistKeeps DEF ToldInv, Persist, Persistence!Receive, Persistence!FilterRead,
       Persistence!Read, Persistence!GetQuestionnaire, Persistence!GetQuestionnaireList,
       Persistence!SearchQuestionnaires, Persistence!GetQuestionnairesMetadata,
       Persistence!FilterFails, Persistence!StatementFails
<1>2. CASE Free(t) /\ Persistence!Receive(t)
    <2>1. PICK r \in Requests :
            /\ request' = [request EXCEPT ![t] = r]
            /\ Persistence!GoTo(t, IF r.op \in Persistence!OwnerRestricted THEN "filter" ELSE r.op)
        BY <1>2 DEF Persistence!Receive
    <2> DEFINE l == IF r.op \in Persistence!OwnerRestricted THEN "filter" ELSE r.op
    <2>2. /\ l \in Persistence!Steps /\ l \notin {"done", "insert", "update"}
          /\ l = "create" => r.op = "create"
        BY RequestShape DEF Persistence!Steps, Persistence!OwnerRestricted
    <2>3. request'[t] = r /\ (\A u \in Threads \ {t} : request'[u] = request[u]) /\ pc[t] = "idle"
        BY <2>1, <1>2 DEF ToldInv, Inv, Types, Free
    <2> HIDE DEF l
    <2> QED
        BY <1>1, <2>1, <2>2, <2>3, GoingOnTells DEF l
<1>3. CASE Persistence!FilterRead(t)
    <2>1. /\ pc[t] = "filter" /\ UNCHANGED request
          /\ request[t] \in Requests /\ request[t].op \in {"update", "delete"}
        BY <1>3 DEF Persistence!FilterRead, ToldInv, Inv, AtWork, Persistence!OwnerRestricted
    <2>2. \/ \E status \in {401, 404, 500} : Persistence!AnswerRows(t, status, Persistence!NoRows)
          \/ \E l \in {request[t].op, "permission"} : Persistence!GoTo(t, l)
        BY <1>3 DEF Persistence!FilterRead, Persistence!AnswerStatus
    <2>3. CASE \E status \in {401, 404, 500} : Persistence!AnswerRows(t, status, Persistence!NoRows)
        BY <1>1, <2>1, <2>3, RefusingTells
    <2>4. CASE \E l \in {request[t].op, "permission"} : Persistence!GoTo(t, l)
        <3>1. \A l \in {request[t].op, "permission"} :
                /\ l \in Persistence!Steps /\ l \notin {"done", "create", "insert"}
                /\ l = "update" => request[t].op = "update"
            BY <2>1 DEF Persistence!Steps
        <3> QED
            BY <1>1, <2>1, <2>4, <3>1, GoingOnTells
    <2> QED
        BY <2>2, <2>3, <2>4
<1>4. CASE Persistence!Read(t)
    <2>1. pc[t] # "done" /\ UNCHANGED request
        BY <1>4 DEF Persistence!Read, Persistence!GetQuestionnaire, Persistence!GetQuestionnaireList,
           Persistence!SearchQuestionnaires, Persistence!GetQuestionnairesMetadata
    <2>2. \E status \in {200, 400, 404, Unmapped} : \E rows : Persistence!AnswerRows(t, status, rows)
        BY <1>4 DEF Persistence!Read, Persistence!GetQuestionnaire, Persistence!GetQuestionnaireList,
           Persistence!SearchQuestionnaires, Persistence!GetQuestionnairesMetadata,
           Persistence!AnswerStatus, Unmapped
    <2> QED
        <3>1. PICK status \in {200, 400, 404, Unmapped} : \E rows : Persistence!AnswerRows(t, status, rows)
            BY <2>2
        <3>2. PICK rows : Persistence!AnswerRows(t, status, rows)
            BY <3>1
        <3>3. status \notin {201, 204}
            BY <3>1 DEF Unmapped, Persistence!Unmapped
        <3> QED
            BY <1>1, <2>1, <3>2, <3>3, RefusingTells
<1>5. CASE Persistence!FilterFails(t) \/ Persistence!StatementFails(t)
    <2>1. pc[t] # "done" /\ UNCHANGED request
        BY <1>5 DEF Persistence!FilterFails, Persistence!StatementFails
    <2>2. \E status \in {500, Unmapped} : Persistence!AnswerRows(t, status, Persistence!NoRows)
        BY <1>5 DEF Persistence!FilterFails, Persistence!StatementFails, Persistence!AnswerStatus,
           Unmapped
    <2> QED
        <3>1. PICK status \in {500, Unmapped} : Persistence!AnswerRows(t, status, Persistence!NoRows)
            BY <2>2
        <3>2. status \notin {201, 204}
            BY <3>1 DEF Unmapped, Persistence!Unmapped
        <3> QED
            BY <1>1, <2>1, <3>1, <3>2, RefusingTells
<1> QED
    BY Zenon, <1>2, <1>3, <1>4, <1>5 DEF Persist

LEMMA WriteTells ==
    ASSUME ToldInv, NEW t \in Threads, Write(t)
    PROVE  ToldInv'
<1>1. Inv' /\ UNCHANGED <<request, mapperVars>> /\ pogues \in Tables /\ wrote \in [Threads -> BOOLEAN]
    BY WriteKeeps DEF ToldInv, Write, Persistence!Write, Persistence!DeleteQuestionnaire,
       Persistence!UpdateQuestionnaire, Persistence!CreateQuestionnaireCheck,
       Persistence!CreateQuestionnaireInsert
<1>2. ASSUME NEW i, NEW row \in Persistence!Rows PROVE [pogues EXCEPT ![i] = row] \in Tables
    BY <1>1 DEF Tables, Persistence!Tables
<1>3. /\ wrote' \in [Threads -> BOOLEAN] /\ \A u \in Threads \ {t} : wrote'[u] = wrote[u]
      /\ pc[t] \in Persistence!OwnerRestricted => wrote'[t] = (pogues[request[t].id] # Null)
      /\ pc[t] \notin Persistence!OwnerRestricted => wrote'[t] = (pogues' # pogues)
    BY <1>1 DEF Write
<1>4. CASE Persistence!DeleteQuestionnaire(t)
    <2>1. /\ pogues' \in Tables
          /\ wrote'[t] = (pogues[request[t].id] # Null)
        BY <1>2, <1>3, <1>4 DEF Persistence!DeleteQuestionnaire, Persistence!OwnerRestricted,
           Persistence!Rows
    <2>2. CASE pogues[request[t].id] = Null
        <3>1. Persistence!AnswerRows(t, 404, Persistence!NoRows)
            BY <1>4, <2>2 DEF Persistence!DeleteQuestionnaire, Persistence!AnswerStatus
        <3>2. ~ wrote'[t]
            BY <2>1, <2>2
        <3> QED
            BY <1>1, <1>3, <2>1, <3>1, <3>2, WritingTells
    <2>3. CASE pogues[request[t].id] # Null
        <3>1. \E status \in {204, Unmapped} : Persistence!AnswerRows(t, status, Persistence!NoRows)
            BY <1>4, <2>3 DEF Persistence!DeleteQuestionnaire, Persistence!Acknowledge,
               Persistence!AnswerStatus, Unmapped
        <3>2. wrote'[t]
            BY <2>1, <2>3
        <3> QED
            BY <1>1, <1>3, <2>1, <3>1, <3>2, WritingTells
    <2> QED
        BY <2>2, <2>3
<1>5. CASE Persistence!UpdateQuestionnaire(t)
    <2>1. request[t].doc \in Documents
        BY <1>5, RequestDocument DEF Persistence!UpdateQuestionnaire, ToldInv, Truthful
    <2>2. /\ pogues' \in Tables
          /\ wrote'[t] = (pogues[request[t].id] # Null)
        <3>1. pogues' = pogues \/ pogues' = [pogues EXCEPT ![request[t].id] = request[t].doc]
            BY <1>5 DEF Persistence!UpdateQuestionnaire
        <3>2. [pogues EXCEPT ![request[t].id] = request[t].doc] \in Tables
            BY <1>2, <2>1 DEF Persistence!Rows
        <3>3. wrote'[t] = (pogues[request[t].id] # Null)
            BY <1>3, <1>5 DEF Persistence!UpdateQuestionnaire, Persistence!OwnerRestricted
        <3> QED
            BY <1>1, <3>1, <3>2, <3>3
    <2>3. CASE pogues[request[t].id] = Null
        <3>1. Persistence!AnswerRows(t, Unmapped, Persistence!NoRows)
            BY <1>5, <2>3 DEF Persistence!UpdateQuestionnaire, Persistence!AnswerStatus, Unmapped
        <3>2. ~ wrote'[t]
            BY <2>2, <2>3
        <3> QED
            BY <1>1, <1>3, <2>2, <3>1, <3>2, WritingTells DEF Unmapped, Persistence!Unmapped
    <2>4. CASE pogues[request[t].id] # Null
        <3>1. \E status \in {204, Unmapped} : Persistence!AnswerRows(t, status, Persistence!NoRows)
            BY <1>5, <2>4 DEF Persistence!UpdateQuestionnaire, Persistence!Acknowledge,
               Persistence!AnswerStatus, Unmapped
        <3>2. wrote'[t]
            BY <2>2, <2>4
        <3> QED
            BY <1>1, <1>3, <2>2, <3>1, <3>2, WritingTells
    <2> QED
        BY <2>3, <2>4
<1>6. CASE Persistence!CreateQuestionnaireCheck(t)
    <2>1. /\ pc[t] = "create" /\ UNCHANGED pogues
          /\ request[t] \in Requests /\ request[t].op = "create"
          /\ wrote' = [wrote EXCEPT ![t] = FALSE]
        BY <1>6 DEF Write, Persistence!CreateQuestionnaireCheck, Persistence!OwnerRestricted, ToldInv,
           Truthful
    <2>2. UNCHANGED wrote
        BY <1>1, <2>1 DEF ToldInv, Truthful
    <2>3. \/ Persistence!AnswerRows(t, 409, Persistence!NoRows)
          \/ Persistence!GoTo(t, "insert")
        BY <1>6 DEF Persistence!CreateQuestionnaireCheck, Persistence!AnswerStatus
    <2>4. "insert" \in Persistence!Steps
        BY DEF Persistence!Steps
    <2> QED
        BY <1>1, <2>1, <2>2, <2>3, <2>4, RefusingTells, GoingOnTells
<1>7. CASE Persistence!CreateQuestionnaireInsert(t)
    <2> DEFINE d == request[t].doc
    <2>1. d \in Documents /\ d \in Persistence!Rows /\ d # Null /\ d.id \in Ids \cup {Null}
        <3>1. d \in Documents
            BY <1>7, RequestDocument DEF Persistence!CreateQuestionnaireInsert, ToldInv, Truthful
        <3> QED
            BY <3>1, BackOfficeAssumption DEF Persistence!Rows
    <2>2. wrote'[t] = (pogues' # pogues)
        BY <1>3, <1>7 DEF Persistence!CreateQuestionnaireInsert, Persistence!OwnerRestricted
    <2>3. CASE d.id = Null \/ (d.id # Null /\ pogues[d.id] # Null)
        <3>1. Persistence!AnswerRows(t, Unmapped, Persistence!NoRows) /\ UNCHANGED pogues
            BY <1>7, <2>3 DEF Persistence!CreateQuestionnaireInsert, Persistence!AnswerStatus, Unmapped
        <3>2. ~ wrote'[t]
            BY <2>2, <3>1
        <3> QED
            BY <1>1, <1>3, <3>1, <3>2, WritingTells DEF Unmapped, Persistence!Unmapped
    <2>4. CASE ~ (d.id = Null \/ (d.id # Null /\ pogues[d.id] # Null))
        <3>1. pogues' = [pogues EXCEPT ![d.id] = d]
            BY <1>7, <2>4 DEF Persistence!CreateQuestionnaireInsert
        <3>2. \E status \in {201, Unmapped} : Persistence!AnswerRows(t, status, Persistence!NoRows)
            BY <1>7, <2>4 DEF Persistence!CreateQuestionnaireInsert, Persistence!Acknowledge,
               Persistence!AnswerStatus, Unmapped
        <3>3. pogues' \in Tables
            BY <1>2, <2>1, <3>1
        <3>4. pogues' # pogues
            BY <1>1, <1>3, <2>1, <2>4, <3>1 DEF Tables, Persistence!Tables
        <3>5. wrote'[t]
            BY <2>2, <3>4
        <3> QED
            BY <1>1, <1>3, <3>3, <3>5, <3>2, WritingTells
    <2> QED
        BY <2>3, <2>4
<1> QED
    BY <1>4, <1>5, <1>6, <1>7 DEF Write, Persistence!Write

LEMMA StandingTells ==
    ASSUME ToldInv, Inv', UNCHANGED <<pogues, pc, request, answer, wrote, mapperVars>>
    PROVE  ToldInv'
<1>1. Mapped'
    BY MappedStays DEF ToldInv, mapperVars
<1>2. \A t \in Threads : Truthful(t)'
    BY DEF ToldInv, Truthful, Unmapped, Persistence!Unmapped
<1> QED
    BY <1>1, <1>2 DEF ToldInv

LEMMA ComparePermissionTells ==
    ASSUME ToldInv, NEW t \in Threads, ComparePermission(t)
    PROVE  ToldInv'
<1>1. /\ pc[t] = "permission" /\ request[t] \in Requests
      /\ request[t].op \in {"update", "delete"}
    BY DEF ComparePermission, ToldInv, Inv, AtWork, Persistence!OwnerRestricted
<1>2. Inv' /\ UNCHANGED <<pogues, request, wrote, mapperVars>>
    BY ComparePermissionKeeps DEF ToldInv, ComparePermission
<1>3. \/ \E status \in {403, 500} : Persistence!AnswerRows(t, status, Persistence!NoRows)
      \/ Persistence!GoTo(t, request[t].op)
    BY DEF ComparePermission, Persistence!AnswerStatus
<1>4. request[t].op \in Persistence!Steps \ {"done", "create", "insert"}
    BY <1>1 DEF Persistence!Steps
<1> QED
    BY <1>1, <1>2, <1>3, <1>4, RefusingTells, GoingOnTells

LEMMA MapperTells ==
    ASSUME ToldInv, NEW t \in Threads, Throw(t) \/ MapException(t)
    PROVE  ToldInv'
<1>1. Inv' /\ UNCHANGED <<pogues, pc, request, answer, wrote>>
    BY NextKeeps DEF ToldInv, Next, Throw, MapException, persistenceVars
<1>2. Mapped'
    BY MappingKeeps DEF ToldInv, Throw, MapException
<1>3. Truthful(t)'
    BY <1>1 DEF ToldInv, Truthful, Unmapped, Persistence!Unmapped
<1> QED
    BY <1>1, <1>2, <1>3, OneTruthIsEnough DEF ToldInv

LEMMA AnswerLookupTells ==
    ASSUME ToldInv, NEW t \in Threads, AnswerLookup(t)
    PROVE  ToldInv'
<1>1. Inv' /\ UNCHANGED <<pogues, pc, request, answer, wrote>>
    BY AnswerLookupKeeps DEF ToldInv, AnswerLookup, persistenceVars
<1>2. Mapped'
    BY MappedStays, MappingKeeps DEF ToldInv, AnswerLookup, mapperVars
<1>3. Truthful(t)'
    BY <1>1 DEF ToldInv, Truthful, Unmapped, Persistence!Unmapped
<1> QED
    BY <1>1, <1>2, <1>3, OneTruthIsEnough DEF ToldInv

LEMMA RespondTells ==
    ASSUME ToldInv, NEW t \in Threads, Respond(t)
    PROVE  ToldInv'
<1>1. Inv' /\ pogues' \in Tables
    BY RespondKeeps DEF ToldInv, Respond, Persistence!Respond, persistenceVars
<1>2. Mapped'
    BY MappingKeeps, MappedStays DEF ToldInv, Respond, mapperVars
<1>3. wrote' \in [Threads -> BOOLEAN] /\ ~ wrote'[t] /\ \A u \in Threads \ {t} : wrote'[u] = wrote[u]
    BY DEF ToldInv, Respond
<1>4. /\ pc'[t] = "idle"
      /\ \A u \in Threads \ {t} :
            pc'[u] = pc[u] /\ request'[u] = request[u] /\ answer'[u] = answer[u]
    BY DEF ToldInv, Inv, Types, Respond, Persistence!Respond, persistenceVars
<1>5. Truthful(t)'
    BY <1>3, <1>4 DEF Truthful
<1> QED
    BY <1>1, <1>2, <1>3, <1>4, <1>5, OneTruthIsEnough

LEMMA NextTells == ToldInv /\ [Next]_vars => ToldInv'
<1> SUFFICES ASSUME ToldInv, [Next]_vars PROVE ToldInv'
    OBVIOUS
<1>1. Inv'
    BY NextKeeps DEF ToldInv
<1>2. CASE UNCHANGED vars \/ Finalize
    BY <1>1, <1>2, StandingTells DEF vars, Finalize, persistenceVars
\* What happens in the directory is no business of the caller.
<1>3. ASSUME NEW t \in Threads, StartLookup(t) \/ LookUp(t) PROVE ToldInv'
    BY <1>1, <1>3, StandingTells DEF StartLookup, LookUp, persistenceVars
<1> QED
    BY <1>2, <1>3, PersistTells, WriteTells, AnswerLookupTells, ComparePermissionTells, MapperTells,
       RespondTells DEF Next

\* Who is told that its write was made has made it, and who is told that it was
\* refused has not.  A 404 for a write that was made comes from the mapper, after
\* somebody has asked for an unknown path; /persistence itself answers none.
THEOREM ToldHolds == Spec => []ToldIsTrue
<1>1. ToldInv => ToldIsTrue
    <2> SUFFICES ASSUME ToldInv, NEW t \in Threads
                 PROVE  /\ Told(t) \cap {201, 204} # {} => wrote[t]
                        /\ Told(t) \cap {400, 401, 403, 409} # {} => ~ wrote[t]
                        /\ Told(t) = {404} /\ wrote[t] => mapping[t] = "sent" /\ writers # {}
        BY DEF ToldIsTrue
    <2>1. CASE mapping[t] = "sent"
        BY <2>1 DEF ToldInv, Mapped, Told, Mapper!INTERNAL_SERVER_ERROR
    <2>2. CASE mapping[t] # "sent" /\ pc[t] = "done" /\ answer[t].status # Unmapped
        <3>1. Told(t) = {answer[t].status}
            BY <2>2 DEF Told
        <3>2. Truthful(t)
            BY DEF ToldInv
        <3> QED
            BY <2>2, <3>1, <3>2 DEF Truthful
    <2>3. CASE Told(t) = {}
        BY <2>3
    <2> QED
        BY <2>1, <2>2, <2>3 DEF Told
<1> QED
    BY <1>1, InitToldInv, NextTells, PTL DEF Spec
-----------------------------------------------------------------------------
(***************************************************************************)
(* The theorems of the parts, for the whole.  The modules they are proved  *)
(* in are instantiated as BackOffice instantiates the modules themselves:  *)
(* what either instance says is the same, definition by definition.        *)
(***************************************************************************)
PersistenceTheorems == INSTANCE PoguesPersistenceProofs WITH Faulty <- TRUE
DirectoryTheorems == INSTANCE UserServiceQueryLDAPProofs WITH pc <- step, Faulty <- DirectoryFails
MapperTheorems == INSTANCE GenericExceptionMapperProofs WITH pc <- mapping

\* PoguesPersistence, where it is proved about.
LEMMA SamePersistence ==
    PersistenceTheorems!ConstantsAssumption /\ (Persistence!Spec => PersistenceTheorems!Spec)
<1>1. PersistenceTheorems!ConstantsAssumption
    BY PartsAreAsAssumed
       DEF Persistence!Request, PersistenceTheorems!Request, Persistence!Answer,
           PersistenceTheorems!Answer, Persistence!Statuses, PersistenceTheorems!Statuses,
           Persistence!Tables, PersistenceTheorems!Tables, Persistence!Rows,
           PersistenceTheorems!Rows, Persistence!Unmapped, PersistenceTheorems!Unmapped,
           Persistence!OwnerRestricted, PersistenceTheorems!OwnerRestricted
<1>2. Persistence!Init => PersistenceTheorems!Init
    BY Zenon DEF Persistence!Init, PersistenceTheorems!Init, Persistence!NoRows,
           PersistenceTheorems!NoRows
<1>3. [Persistence!Next]_(Persistence!vars) => [PersistenceTheorems!Next]_(PersistenceTheorems!vars)
    BY Zenon DEF Persistence!Next, PersistenceTheorems!Next, Persistence!Receive,
           PersistenceTheorems!Receive, Persistence!Filter, PersistenceTheorems!Filter,
           Persistence!Read, PersistenceTheorems!Read, Persistence!Write,
           PersistenceTheorems!Write, Persistence!StatementFails,
           PersistenceTheorems!StatementFails, Persistence!Respond,
           PersistenceTheorems!Respond, Persistence!GoTo, PersistenceTheorems!GoTo,
           Persistence!OwnerRestricted, PersistenceTheorems!OwnerRestricted,
           Persistence!FilterRead, PersistenceTheorems!FilterRead,
           Persistence!CheckPermission, PersistenceTheorems!CheckPermission,
           Persistence!FilterFails, PersistenceTheorems!FilterFails,
           Persistence!GetQuestionnaire, PersistenceTheorems!GetQuestionnaire,
           Persistence!GetQuestionnaireList, PersistenceTheorems!GetQuestionnaireList,
           Persistence!SearchQuestionnaires, PersistenceTheorems!SearchQuestionnaires,
           Persistence!GetQuestionnairesMetadata,
           PersistenceTheorems!GetQuestionnairesMetadata, Persistence!DeleteQuestionnaire,
           PersistenceTheorems!DeleteQuestionnaire, Persistence!UpdateQuestionnaire,
           PersistenceTheorems!UpdateQuestionnaire, Persistence!CreateQuestionnaireCheck,
           PersistenceTheorems!CreateQuestionnaireCheck,
           Persistence!CreateQuestionnaireInsert,
           PersistenceTheorems!CreateQuestionnaireInsert, Persistence!AnswerStatus,
           PersistenceTheorems!AnswerStatus, Persistence!Unmapped,
           PersistenceTheorems!Unmapped, Persistence!AnswerRows,
           PersistenceTheorems!AnswerRows, Persistence!NoRows, PersistenceTheorems!NoRows,
           Persistence!OwnedBy, PersistenceTheorems!OwnedBy, Persistence!Acknowledge,
           PersistenceTheorems!Acknowledge, Persistence!vars, PersistenceTheorems!vars
<1> QED
    BY <1>1, <1>2, <1>3, PTL DEF Persistence!Spec, PersistenceTheorems!Spec

\* UserServiceQueryLDAP, where it is proved about.
LEMMA SameDirectory == DirectoryTheorems!LookupsAssumption /\ (Directory!Spec => DirectoryTheorems!Spec)
<1>1. DirectoryTheorems!LookupsAssumption
    BY PartsAreAsAssumed
<1>2. Directory!Init => DirectoryTheorems!Init
    BY Zenon DEF Directory!Init, DirectoryTheorems!Init
<1>3. [Directory!Next]_(Directory!vars) => [DirectoryTheorems!Next]_(DirectoryTheorems!vars)
    BY DEF Directory!Next, DirectoryTheorems!Next, Directory!Finalize,
           DirectoryTheorems!Finalize, Directory!Call, DirectoryTheorems!Call,
           Directory!InitConnection, DirectoryTheorems!InitConnection, Directory!Search,
           DirectoryTheorems!Search, Directory!ReadEntries, DirectoryTheorems!ReadEntries,
           Directory!CloseConnection, DirectoryTheorems!CloseConnection, Directory!Return,
           DirectoryTheorems!Return, Directory!Referenced, DirectoryTheorems!Referenced,
           Directory!Found, DirectoryTheorems!Found, Directory!Busy, DirectoryTheorems!Busy,
           Directory!Unused, DirectoryTheorems!Unused, Directory!Refuse,
           DirectoryTheorems!Refuse, Directory!Context, DirectoryTheorems!Context,
           Directory!Fail, DirectoryTheorems!Fail, Directory!Collect,
           DirectoryTheorems!Collect, Directory!Failed, DirectoryTheorems!Failed,
           Directory!vars, DirectoryTheorems!vars, Directory!Range, DirectoryTheorems!Range,
           Directory!Last, DirectoryTheorems!Last, Directory!Front, DirectoryTheorems!Front
<1> QED
    BY <1>1, <1>2, <1>3, PTL DEF Directory!Spec, DirectoryTheorems!Spec

\* GenericExceptionMapper, where it is proved about.
LEMMA SameMapper == MapperTheorems!ErrorsAssumption /\ (Mapper!Spec => MapperTheorems!Spec)
<1>1. MapperTheorems!ErrorsAssumption
    BY PartsAreAsAssumed
       DEF Mapper!NotFoundException, MapperTheorems!NotFoundException
<1>2. Mapper!Init => MapperTheorems!Init
    BY DEF Mapper!Init, MapperTheorems!Init, Mapper!INTERNAL_SERVER_ERROR,
           MapperTheorems!INTERNAL_SERVER_ERROR, Mapper!NoStatus, MapperTheorems!NoStatus,
           Mapper!NotFoundException, MapperTheorems!NotFoundException
<1>3. [Mapper!Next]_(Mapper!vars) => [MapperTheorems!Next]_(MapperTheorems!vars)
    BY DEF Mapper!Next, MapperTheorems!Next, Mapper!Throw, MapperTheorems!Throw,
           Mapper!Classify, MapperTheorems!Classify, Mapper!Build, MapperTheorems!Build,
           Mapper!Send, MapperTheorems!Send, Mapper!Visible, MapperTheorems!Visible,
           Mapper!NotFoundException, MapperTheorems!NotFoundException, Mapper!NOT_FOUND,
           MapperTheorems!NOT_FOUND, Mapper!NoStatus, MapperTheorems!NoStatus,
           Mapper!INTERNAL_SERVER_ERROR, MapperTheorems!INTERNAL_SERVER_ERROR, Mapper!vars,
           MapperTheorems!vars
<1> QED
    BY <1>1, <1>2, <1>3, PTL DEF Mapper!Spec, MapperTheorems!Spec

\* With its lookups in many steps and its exceptions mapped to whatever the mapper's
\* field says, the back office implements the atomic QuestionnaireStore.
THEOREM StoreIsAtomic == Spec => ImplementsStore
<1>1. PersistenceTheorems!Spec => PersistenceTheorems!ImplementsStore
    BY SamePersistence, PersistenceTheorems!Refinement, PTL
<1>2. PersistenceTheorems!Store!Init => Store!Init
    BY Zenon DEF PersistenceTheorems!Store!Init, Store!Init, PersistenceTheorems!Store!None,
           Store!None
<1>3. [PersistenceTheorems!Store!Next]_(PersistenceTheorems!Store!storeVars) => [Store!Next]_(Store!storeVars)
    BY Zenon DEF PersistenceTheorems!Unmapped, Persistence!Unmapped, Unmapped,
           PersistenceTheorems!Store!Next, Store!Next, PersistenceTheorems!Store!Invoke,
           Store!Invoke, PersistenceTheorems!Store!Commit, Store!Commit,
           PersistenceTheorems!Store!Refuse, Store!Refuse, PersistenceTheorems!Store!Select,
           Store!Select, PersistenceTheorems!Store!Return, Store!Return,
           PersistenceTheorems!Store!Pending, Store!Pending,
           PersistenceTheorems!Store!Applicable, Store!Applicable,
           PersistenceTheorems!Store!Exists, Store!Exists, PersistenceTheorems!Store!Target,
           Store!Target, PersistenceTheorems!Store!Success, Store!Success,
           PersistenceTheorems!Store!Decide, Store!Decide, PersistenceTheorems!Store!None,
           Store!None, PersistenceTheorems!Store!Selected, Store!Selected,
           PersistenceTheorems!Store!storeVars, Store!storeVars
<1> QED
    BY <1>1, <1>2, <1>3, Refinement, SamePersistence, PTL
       DEF ImplementsPersistence, ImplementsStore, Store!Spec, PersistenceTheorems!ImplementsStore,
           PersistenceTheorems!Store!Spec

\* A row appears by a creation of that document only, and changes or goes only by a
\* request for it whose user has, in the directory, the permission of the owner that
\* was read: also where lookups of other requests took the connection away between.
THEOREM RowsAreGuarded ==
    Spec => []Persistence!ClearedBeforeWrite /\ Persistence!RowLifecycle /\ Persistence!OrphansAreForever
<1>1. PersistenceTheorems!ClearedBeforeWrite => Persistence!ClearedBeforeWrite
    BY DEF PersistenceTheorems!ClearedBeforeWrite, Persistence!ClearedBeforeWrite,
           PersistenceTheorems!OwnerRestricted, Persistence!OwnerRestricted,
           PersistenceTheorems!Cleared, Persistence!Cleared
<1>2. PersistenceTheorems!RowLifecycle => Persistence!RowLifecycle
    BY PTL
       DEF PersistenceTheorems!RowLifecycle, Persistence!RowLifecycle,
           PersistenceTheorems!OwnerRestricted, Persistence!OwnerRestricted,
           PersistenceTheorems!Cleared, Persistence!Cleared, PersistenceTheorems!vars,
           Persistence!vars
<1>3. PersistenceTheorems!OrphansAreForever => Persistence!OrphansAreForever
    BY PTL
       DEF PersistenceTheorems!OrphansAreForever, Persistence!OrphansAreForever,
           PersistenceTheorems!Orphan, Persistence!Orphan,
           PersistenceTheorems!OwnerRestricted, Persistence!OwnerRestricted,
           PersistenceTheorems!vars, Persistence!vars
<1> QED
    BY <1>1, <1>2, <1>3, Refinement, SamePersistence, PersistenceTheorems!WritesAreCleared,
       PersistenceTheorems!LifecycleHolds, PersistenceTheorems!OrphansStay, PTL
       DEF ImplementsPersistence

\* Within the back office a lookup, of the filter or of /user, that succeeds gives what
\* the directory has, and one beside which no other ran leaves no connection open.
THEOREM LookupsAreTruthful ==
    Spec => [](Directory!LookupIsTruthful /\ Directory!FailureHasCause /\ Directory!NoLeakAlone)
<1>1. DirectoryTheorems!LookupIsTruthful => Directory!LookupIsTruthful
    BY DEF Directory!LookupIsTruthful, DirectoryTheorems!LookupIsTruthful, Directory!Failed,
           DirectoryTheorems!Failed, Directory!Collect, DirectoryTheorems!Collect,
           Directory!Range, DirectoryTheorems!Range, Directory!Last, DirectoryTheorems!Last
<1>2. DirectoryTheorems!FailureHasCause => Directory!FailureHasCause
    BY DEF Directory!FailureHasCause, DirectoryTheorems!FailureHasCause, Directory!Failed,
           DirectoryTheorems!Failed, Directory!Range, DirectoryTheorems!Range
<1>3. DirectoryTheorems!NoLeakAlone => Directory!NoLeakAlone
    BY DEF Directory!NoLeakAlone, DirectoryTheorems!NoLeakAlone
<1> QED
    BY <1>1, <1>2, <1>3, PartsAreThemselves, SameDirectory, DirectoryTheorems!TruthfulLookup,
       DirectoryTheorems!CauseOfFailure, DirectoryTheorems!ClosedAlone, PTL

\* Within the back office an unknown path is answered 404, whatever else threads map.
THEOREM UnknownPathsAnswer404 == Spec => []Mapper!UnknownPathAnswers404
<1>1. MapperTheorems!UnknownPathAnswers404 => Mapper!UnknownPathAnswers404
    BY DEF Mapper!UnknownPathAnswers404, MapperTheorems!UnknownPathAnswers404,
           Mapper!NotFoundException, MapperTheorems!NotFoundException, Mapper!NOT_FOUND,
           MapperTheorems!NOT_FOUND
<1> QED
    BY <1>1, PartsAreThemselves, SameMapper, MapperTheorems!UnknownPathHolds, PTL
=============================================================================

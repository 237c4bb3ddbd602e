----------------------------- MODULE BackOffice -----------------------------
(***************************************************************************)
(* The parts one request of the back office goes through, together:        *)
(* /persistence and its filter (PoguesPersistence), the directory lookup   *)
(* the filter makes (UserServiceQueryLDAP, shared with /user), and the     *)
(* mapper of the exceptions nobody catches (GenericExceptionMapper, shared *)
(* with the router).  In PoguesPersistence a lookup is one step that knows *)
(* the user's permission, and an uncaught exception has no status; here    *)
(* the lookup takes the steps it takes, on the connection all lookups      *)
(* share, and the caller is told what the mapper's field says.             *)
(***************************************************************************)
EXTENDS Naturals, Sequences, SequencesExt

CONSTANTS
    Threads, Ids, Owners, Contents, Complete, Documents, Users, Authentication,
    Requests, Empty, Null, Lookups, Entries, Other, Incomplete, Guest, Connections,
    Errors,          \* exceptions of resource methods, and the router's
    StatementsFail,  \* whether the database may fail
    DirectoryFails   \* whether the directory may

User(u) == [op |-> "user", id |-> u]
Permissions == [op |-> "permissions", id |-> Null]

\* What a lookup of user u that succeeds finds in the directory, Null for nobody.
Permission ==
    [u \in Users |-> LET entries == Entries[User(u)] IN
                     IF entries = <<>> \/ Incomplete \in Range(entries) THEN Null ELSE Last(entries)]

VARIABLES
    pogues, pc, request, stored, answer,            \* PoguesPersistence
    context, live, abandoned, step, lookup, own, source, outcome, overlapped, refused,
                                                    \* UserServiceQueryLDAP
    STATUS, writers, mapping, error, body, http,    \* GenericExceptionMapper
    wrote                                           \* history: whose write took effect

persistenceVars == <<pogues, pc, request, stored, answer>>
directoryVars == <<context, live, abandoned, step, lookup, own, source, outcome, overlapped, refused>>
mapperVars == <<STATUS, writers, mapping, error, body, http>>
vars == <<persistenceVars, directoryVars, mapperVars, wrote>>

\* To a request, a directory that fails and lookups that get in each other's way
\* are the same thing: a filter that fails.
Persistence == INSTANCE PoguesPersistence WITH Faulty <- TRUE
Directory == INSTANCE UserServiceQueryLDAP WITH pc <- step, Faulty <- DirectoryFails
Mapper == INSTANCE GenericExceptionMapper WITH pc <- mapping

ASSUME BackOfficeAssumption ==
    /\ StatementsFail \in BOOLEAN
    /\ DirectoryFails \in BOOLEAN
    /\ Lookups = {User(u) : u \in Users} \cup {Permissions}
    /\ DOMAIN Entries = Lookups
    /\ \A u \in Users : Entries[User(u)] \in Seq(Owners \cup {Incomplete})
    /\ Documents \subseteq [id : Ids \cup {Null}, owner : Owners \cup {Null}, content : Contents]
    /\ Requests \subseteq Persistence!Request
    /\ Authentication \in {"true", "false"}
    /\ Mapper!NotFoundException \in Errors /\ "none" \notin Errors
    /\ Null \notin Ids /\ Null \notin Owners /\ Null \notin Documents
    /\ Null \notin Requests /\ Null \notin Connections /\ Null \notin Persistence!Answer

Unmapped == Persistence!Unmapped
-----------------------------------------------------------------------------
Init ==
    /\ Persistence!Init
    /\ Directory!Init
    /\ Mapper!Init
    /\ wrote = [t \in Threads |-> FALSE]

\* Thread t has no request.
Free(t) == pc[t] = "idle" /\ step[t] = "idle" /\ mapping[t] = "running"

\* Steps of /persistence that make no call to the other parts and change nothing.
Persist(t) ==
    /\ \/ Free(t) /\ Persistence!Receive(t)
       \/ Persistence!FilterRead(t)
       \/ Persistence!Read(t)
       \/ StatementsFail /\ pc[t] # "permission" /\ Persistence!FilterFails(t)
       \/ StatementsFail /\ Persistence!StatementFails(t)
    /\ UNCHANGED <<directoryVars, mapperVars, wrote>>

\* The statements of a write: an UPDATE or DELETE takes effect where there is a
\* row, also when it writes what was there; an INSERT where the table changes.
Write(t) ==
    /\ Persistence!Write(t)
    /\ wrote' = [wrote EXCEPT ![t] =
                    IF pc[t] \in Persistence!OwnerRestricted
                    THEN pogues[request[t].id] # Null
                    ELSE pogues' # pogues]
    /\ UNCHANGED <<directoryVars, mapperVars>>

\* A lookup starts: the filter's, of the user of its request, or that of a request
\* to /user, of its user or of the permissions there are.
StartLookup(t) ==
    /\ Directory!Call(t)
    /\ \/ pc[t] = "permission" /\ lookup'[t] = User(request[t].user)
       \/ Free(t)
    /\ UNCHANGED <<persistenceVars, mapperVars, wrote>>

LookUp(t) ==
    /\ Directory!InitConnection(t) \/ Directory!Search(t) \/ Directory!ReadEntries(t)
       \/ Directory!CloseConnection(t)
    /\ UNCHANGED <<persistenceVars, mapperVars, wrote>>

Finalize ==
    /\ Directory!Finalize
    /\ UNCHANGED <<persistenceVars, mapperVars, wrote>>

\* /user answers what it was given.  The exception of a lookup is thrown on as it is
\* and, no PoguesException, reaches the mapper.
AnswerLookup(t) ==
    /\ pc[t] = "idle"
    /\ Directory!Return(t)
    /\ \/ outcome[t] # Directory!Failed /\ UNCHANGED mapperVars
       \/ /\ outcome[t] = Directory!Failed
          /\ Mapper!Throw(t)
          /\ error'[t] # Mapper!NotFoundException
    /\ UNCHANGED <<persistenceVars, wrote>>

\* Mutant of ComparePermission: a lookup that fails does not stop the request.
CompareWhatIsFound(t) ==
    /\ pc[t] = "permission"
    /\ Directory!Return(t)
    /\ IF outcome[t] = Directory!Failed \/ outcome[t].value = <<stored[t].owner>>
       THEN Persistence!GoTo(t, request[t].op)
       ELSE Persistence!AnswerStatus(t, 403)
    /\ UNCHANGED <<pogues, request, stored, mapperVars, wrote>>

\* Mutant of ComparePermission: a questionnaire of others is hidden behind a 404.
CompareAndHide(t) ==
    /\ pc[t] = "permission"
    /\ Directory!Return(t)
    /\ \/ /\ outcome[t] \in {Directory!Failed, Directory!Found(<<>>)}
          /\ Persistence!AnswerStatus(t, 500)
       \/ /\ outcome[t] \notin {Directory!Failed, Directory!Found(<<>>)}
          /\ IF outcome[t].value = <<stored[t].owner>>
             THEN Persistence!GoTo(t, request[t].op)
             ELSE Persistence!AnswerStatus(t, 404)
    /\ UNCHANGED <<pogues, request, stored, mapperVars, wrote>>

\* The filter gets the user back and compares.  The exception of a lookup, and
\* the one for a user that was not found, end in its catch clause.
ComparePermission(t) ==
    /\ pc[t] = "permission"
    /\ Directory!Return(t)
    /\ \/ /\ outcome[t] \in {Directory!Failed, Directory!Found(<<>>)}
          /\ Persistence!AnswerStatus(t, 500)
       \/ /\ outcome[t] \notin {Directory!Failed, Directory!Found(<<>>)}
          /\ IF outcome[t].value = <<stored[t].owner>>
             THEN Persistence!GoTo(t, request[t].op)
             ELSE Persistence!AnswerStatus(t, 403)
    /\ UNCHANGED <<pogues, request, stored, mapperVars, wrote>>

\* An exception reaches the mapper: the router's, for a request no resource has
\* the path of, or that of a resource method.
Throw(t) ==
    /\ Mapper!Throw(t)
    /\ \/ Free(t) /\ error'[t] = Mapper!NotFoundException
       \/ /\ pc[t] = "done"
          /\ answer[t].status = Unmapped
          /\ error'[t] # Mapper!NotFoundException
    /\ UNCHANGED <<persistenceVars, directoryVars, wrote>>

MapException(t) ==
    /\ Mapper!Classify(t) \/ Mapper!Build(t)
    /\ UNCHANGED <<persistenceVars, directoryVars, wrote>>

\* The response is sent: the mapper's, or the one /persistence has made.
Respond(t) ==
    /\ \/ Mapper!Send(t) /\ pc[t] = "done" /\ Persistence!Respond(t)
       \/ Mapper!Send(t) /\ pc[t] = "idle" /\ UNCHANGED persistenceVars
       \/ pc[t] = "done" /\ answer[t].status # Unmapped /\ Persistence!Respond(t) /\ UNCHANGED mapperVars
    /\ wrote' = [wrote EXCEPT ![t] = FALSE]
    /\ UNCHANGED directoryVars

Next ==
    \/ Finalize
    \/ \E t \in Threads :
        \/ Persist(t)
        \/ Write(t)
        \/ StartLookup(t)
        \/ LookUp(t)
        \/ AnswerLookup(t)
        \/ ComparePermission(t)
        \/ Throw(t)
        \/ MapException(t)
        \/ Respond(t)

Spec == Init /\ [][Next]_vars
-----------------------------------------------------------------------------
(***************************************************************************)
(* Properties.                                                             *)
(***************************************************************************)

\* The lookup in its many steps, over a connection other threads replace and
\* close, is to a request the single step PoguesPersistence takes it for: it
\* gives the permission the directory has or makes the filter fail.  So what is
\* checked and proved of PoguesPersistence holds of the whole, and no overlap of
\* lookups ever lets a write through.
ImplementsPersistence == Persistence!Spec

Store == INSTANCE QuestionnaireStore WITH table <- pogues, call <- request

\* The back office as a whole keeps the promise of a store whose calls are atomic,
\* with a filter that looks its user up over a connection others take away.
ImplementsStore == Store!Spec

\* What the caller of t is told, once that is decided.
Told(t) ==
    IF mapping[t] = "sent" THEN {http[t]}
    ELSE IF pc[t] = "done" /\ answer[t].status # Unmapped THEN {answer[t].status}
    ELSE {}

\* A caller who is told that its write was made has made it, and one who is told
\* that it was refused has not.  A 404 may stand for a write that was made, but not
\* one /persistence answers itself: only the mapper's, for an exception behind the
\* commit, and only if somebody has asked for an unknown path before.
ToldIsTrue ==
    \A t \in Threads :
        /\ Told(t) \cap {201, 204} # {} => wrote[t]
        /\ Told(t) \cap {400, 401, 403, 409} # {} => ~ wrote[t]
        /\ Told(t) = {404} /\ wrote[t] => mapping[t] = "sent" /\ writers # {}

(***************************************************************************)
(* Statement of the repository the code departs from.                      *)
(***************************************************************************)

\* "Not found" is documented for a questionnaire that is not there.
NotFoundIsUntouched == \A t \in Threads : Told(t) = {404} => ~ wrote[t]
=============================================================================

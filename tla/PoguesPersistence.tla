-------------------------- MODULE PoguesPersistence --------------------------
(***************************************************************************)
(* The REST resource /persistence of the back office, together with the    *)
(* filter that guards its writes and the table it stores questionnaires    *)
(* in.  Tomcat runs every request on a thread of its own; the beans a      *)
(* request goes through (PoguesPersistence, OwnerRestrictedFilter,         *)
(* QuestionnairesServiceImpl, QuestionnairesServiceQueryPostgresqlImpl)    *)
(* are stateless singletons, there is no transaction (JdbcTemplate over a  *)
(* DriverManagerDataSource commits every statement on a connection of its  *)
(* own), so what interleaves is the single SQL statements and the          *)
(* directory lookup of the filter.  One action is what a thread does from  *)
(* one of these to the next.                                               *)
(***************************************************************************)
EXTENDS Naturals

CONSTANTS
    Threads,        \* request threads of the servlet container
    Ids,            \* questionnaire identifiers
    Owners,         \* groups: values of "owner" and of a user's permission
    Contents,       \* the rest of a document, as far as a reader can tell it apart
    Complete,       \* the contents with all fields of the metadata query
    Documents,      \* the JSON documents clients send
    Users,          \* principal names
    Permission,     \* external: each user's permission in the directory
    Authentication, \* property fr.insee.pogues.authentication, "true" or "false"
    Requests,       \* the requests clients send
    Faulty,         \* whether the database and the directory may fail
    Empty,          \* the empty string, as a query parameter
    Null            \* Java's null

Rows == Documents \cup {Null}
Tables == [Ids -> Rows]

\* The requests of the resource, one record shape for all of them.
Request ==
         [op : {"get"},    id : Ids,    doc : {Null},    owner : {Null}, user : {Null}]
    \cup [op : {"list"},   id : {Null}, doc : {Null},    owner : {Null}, user : {Null}]
    \cup [op : {"search", "meta"},
                           id : {Null}, doc : {Null},
                                     owner : Owners \cup {Null, Empty},  user : {Null}]
    \cup [op : {"delete"}, id : Ids,    doc : {Null},    owner : {Null},
                                                         user : Users \cup {Null}]
    \cup [op : {"update"}, id : Ids,    doc : Documents, owner : {Null},
                                                         user : Users \cup {Null}]
    \cup [op : {"create"}, id : {Null}, doc : Documents, owner : {Null}, user : {Null}]

(***************************************************************************)
(* Answers.  A PoguesException carries its HTTP status.  Any other         *)
(* exception leaves the resource as it is and gets its status later, from  *)
(* GenericExceptionMapper: Unmapped stands for it here.                    *)
(***************************************************************************)
Unmapped == 0

Statuses == {200, 201, 204, 400, 401, 403, 404, 409, 500, Unmapped}

NoRows == [i \in Ids |-> Null]

Answer == [status : Statuses, body : Tables]

ASSUME ConstantsAssumption ==
    /\ Documents \subseteq [id      : Ids \cup {Null},
                            owner   : Owners \cup {Null},
                            content : Contents]
    /\ Permission \in [Users -> Owners \cup {Null}]
    /\ Requests \subseteq Request
    /\ Authentication \in {"true", "false"}
    /\ Faulty \in BOOLEAN
    /\ Null \notin Ids
    /\ Null \notin Owners
    /\ Null \notin Documents
    /\ Null \notin Requests
    /\ Null \notin Answer

VARIABLES
    pogues,   \* the table: primary key -> document, Null where there is no row
    pc,       \* pc[t]: what thread t does next
    request,  \* request[t]: the request thread t serves
    stored,   \* stored[t]: the document the filter of t read
    answer    \* answer[t]: what t answers, once that is decided

vars == <<pogues, pc, request, stored, answer>>
-----------------------------------------------------------------------------
\* SELECT ... WHERE data ->> 'owner' = owner
OwnedBy(owner) ==
    [i \in Ids |-> IF pogues[i] # Null /\ pogues[i].owner = owner THEN pogues[i] ELSE Null]

\* Thread t goes on to step l.
GoTo(t, l) ==
    /\ pc' = [pc EXCEPT ![t] = l]
    /\ UNCHANGED answer

\* Mutant of AnswerRows: the response is built without its entity.
AnswerWithoutRows(t, status, rows) ==
    /\ pc' = [pc EXCEPT ![t] = "done"]
    /\ answer' = [answer EXCEPT ![t] = [status |-> status, body |-> Null]]

\* Thread t has its answer.
AnswerRows(t, status, rows) ==
    /\ pc' = [pc EXCEPT ![t] = "done"]
    /\ answer' = [answer EXCEPT ![t] = [status |-> status, body |-> rows]]

AnswerStatus(t, status) == AnswerRows(t, status, NoRows)

\* Mutant of Acknowledge: whatever the database throws is taken for a missing row.
AcknowledgeOrMissing(t, status) ==
    \/ AnswerStatus(t, status)
    \/ Faulty /\ AnswerStatus(t, 404)

\* The statement of t was executed; when the connection breaks before its
\* result is read, JdbcTemplate throws all the same.
Acknowledge(t, status) ==
    \/ AnswerStatus(t, status)
    \/ Faulty /\ AnswerStatus(t, Unmapped)

OwnerRestricted == {"update", "delete"}
-----------------------------------------------------------------------------
Init ==
    /\ pogues = NoRows
    /\ pc = [t \in Threads |-> "idle"]
    /\ request = [t \in Threads |-> Null]
    /\ stored = [t \in Threads |-> Null]
    /\ answer = [t \in Threads |-> Null]

\* A request is dispatched: through the filter when its resource method is
\* annotated with @OwnerRestricted.
Receive(t) ==
    /\ pc[t] = "idle"
    /\ \E r \in Requests :
        /\ request' = [request EXCEPT ![t] = r]
        /\ GoTo(t, IF r.op \in OwnerRestricted THEN "filter" ELSE r.op)
    /\ UNCHANGED <<pogues, stored>>

\* Mutant of FilterRead: nothing is compared, so a row without owner passes too.
FilterReadLenient(t) ==
    LET row == pogues[request[t].id] IN
    /\ pc[t] = "filter"
    /\ stored' = [stored EXCEPT ![t] = row]
    /\ IF row = Null THEN AnswerStatus(t, 404) ELSE GoTo(t, request[t].op)
    /\ UNCHANGED <<pogues, request>>

\* OwnerRestrictedFilter.filter up to the directory lookup: reads the row the
\* request names and decides what it can without the user's permission.  (Its
\* branch for an empty property is left out: SecurityContext.configure does not
\* let the application start with one.)
FilterRead(t) ==
    LET row == pogues[request[t].id] IN
    /\ pc[t] = "filter"
    /\ stored' = [stored EXCEPT ![t] = row]
    /\ \/ /\ row = Null
          /\ AnswerStatus(t, 404)
       \/ /\ row # Null
          /\ row.owner = Null
          /\ AnswerStatus(t, 500)
       \/ /\ row # Null
          /\ row.owner # Null
          /\ Authentication = "false"
          /\ GoTo(t, request[t].op)
       \/ /\ row # Null
          /\ row.owner # Null
          /\ Authentication = "true"
          /\ IF request[t].user = Null THEN AnswerStatus(t, 401) ELSE GoTo(t, "permission")
    /\ UNCHANGED <<pogues, request>>

\* Mutant of CheckPermission: any user the directory has is let through.
CheckUserOnly(t) ==
    /\ pc[t] = "permission"
    /\ IF Permission[request[t].user] = Null THEN AnswerStatus(t, 500) ELSE GoTo(t, request[t].op)
    /\ UNCHANGED <<pogues, request, stored>>

\* The rest of the filter: the lookup of the user's permission and its
\* comparison with the owner read before.  A user the directory does not have
\* ends in a NullPointerException, hence in a 500.
CheckPermission(t) ==
    LET permission == Permission[request[t].user] IN
    /\ pc[t] = "permission"
    /\ \/ /\ permission = Null
          /\ AnswerStatus(t, 500)
       \/ /\ permission # Null
          /\ IF permission = stored[t].owner
             THEN GoTo(t, request[t].op)
             ELSE AnswerStatus(t, 403)
    /\ UNCHANGED <<pogues, request, stored>>

\* The database or the directory fails under the filter, whose last catch turns
\* every exception into a PoguesException.
FilterFails(t) ==
    /\ Faulty
    /\ pc[t] \in {"filter", "permission"}
    /\ AnswerStatus(t, 500)
    /\ UNCHANGED <<pogues, request, stored>>

GetQuestionnaire(t) ==
    LET i == request[t].id IN
    /\ pc[t] = "get"
    /\ IF pogues[i] = Null
       THEN AnswerStatus(t, 404)
       ELSE AnswerRows(t, 200, [NoRows EXCEPT ![i] = pogues[i]])
    /\ UNCHANGED <<pogues, request, stored>>

GetQuestionnaireList(t) ==
    /\ pc[t] = "list"
    /\ IF pogues = NoRows THEN AnswerStatus(t, 404) ELSE AnswerRows(t, 200, pogues)
    /\ UNCHANGED <<pogues, request, stored>>

SearchQuestionnaires(t) ==
    LET owner == request[t].owner IN
    /\ pc[t] = "search"
    /\ \/ owner = Null /\ AnswerStatus(t, 200)
       \/ owner = Empty /\ AnswerStatus(t, 400)
       \/ owner \notin {Null, Empty} /\ AnswerRows(t, 200, OwnedBy(owner))
    /\ UNCHANGED <<pogues, request, stored>>

\* The metadata query pastes the fields of each row into a JSON text; a field
\* that is missing leaves a hole in it, and the parser throws for the whole list.
GetQuestionnairesMetadata(t) ==
    LET owner == request[t].owner
        rows == OwnedBy(owner)
    IN
    /\ pc[t] = "meta"
    /\ \/ owner = Null /\ AnswerStatus(t, 200)
       \/ owner = Empty /\ AnswerStatus(t, 400)
       \/ /\ owner \notin {Null, Empty}
          /\ IF \A i \in Ids : rows[i] # Null => rows[i].id # Null /\ rows[i].content \in Complete
             THEN AnswerRows(t, 200, rows)
             ELSE AnswerStatus(t, Unmapped)
    /\ UNCHANGED <<pogues, request, stored>>

DeleteQuestionnaire(t) ==
    LET i == request[t].id IN
    /\ pc[t] = "delete"
    /\ pogues' = [pogues EXCEPT ![i] = Null]
    /\ IF pogues[i] = Null THEN AnswerStatus(t, 404) ELSE Acknowledge(t, 204)
    /\ UNCHANGED <<request, stored>>

\* Mutant of UpdateQuestionnaire: the number of rows updated is not looked at.
UpdateUncounted(t) ==
    LET i == request[t].id IN
    /\ pc[t] = "update"
    /\ pogues' = IF pogues[i] = Null THEN pogues ELSE [pogues EXCEPT ![i] = request[t].doc]
    /\ AnswerStatus(t, 204)
    /\ UNCHANGED <<request, stored>>

\* No row is touched when the id is gone; the NonUniqueResultException thrown
\* then is not the EntityNotFoundException the service would turn into a 404.
UpdateQuestionnaire(t) ==
    LET i == request[t].id IN
    /\ pc[t] = "update"
    /\ IF pogues[i] = Null
       THEN /\ AnswerStatus(t, Unmapped)
            /\ UNCHANGED pogues
       ELSE /\ pogues' = [pogues EXCEPT ![i] = request[t].doc]
            /\ Acknowledge(t, 204)
    /\ UNCHANGED <<request, stored>>

\* The first statement of a creation: is there an entity with this id?
CreateQuestionnaireCheck(t) ==
    LET i == request[t].doc.id IN
    /\ pc[t] = "create"
    /\ IF i # Null /\ pogues[i] # Null THEN AnswerStatus(t, 409) ELSE GoTo(t, "insert")
    /\ UNCHANGED <<pogues, request, stored>>

\* Mutant of CreateQuestionnaireInsert: INSERT ... ON CONFLICT DO UPDATE.
CreateQuestionnaireUpsert(t) ==
    LET d == request[t].doc IN
    /\ pc[t] = "insert"
    /\ pogues' = IF d.id = Null THEN pogues ELSE [pogues EXCEPT ![d.id] = d]
    /\ AnswerStatus(t, IF d.id = Null THEN Unmapped ELSE 201)
    /\ UNCHANGED <<request, stored>>

\* The second one.  The primary key refuses a null id and the id of a row that
\* appeared since the check; that exception nobody maps.
CreateQuestionnaireInsert(t) ==
    LET d == request[t].doc IN
    /\ pc[t] = "insert"
    /\ IF d.id = Null \/ (d.id # Null /\ pogues[d.id] # Null)
       THEN /\ AnswerStatus(t, Unmapped)
            /\ UNCHANGED pogues
       ELSE /\ pogues' = [pogues EXCEPT ![d.id] = d]
            /\ Acknowledge(t, 201)
    /\ UNCHANGED <<request, stored>>

\* A statement of a resource method fails before it has any effect.
StatementFails(t) ==
    /\ Faulty
    /\ \/ pc[t] \in {"get", "list", "delete", "update", "create", "insert"}
       \/ pc[t] \in {"search", "meta"} /\ request[t].owner \notin {Null, Empty}
    /\ AnswerStatus(t, Unmapped)
    /\ UNCHANGED <<pogues, request, stored>>

\* The response is written and the thread goes back to its pool.
Respond(t) ==
    /\ pc[t] = "done"
    /\ pc' = [pc EXCEPT ![t] = "idle"]
    /\ request' = [request EXCEPT ![t] = Null]
    /\ stored' = [stored EXCEPT ![t] = Null]
    /\ answer' = [answer EXCEPT ![t] = Null]
    /\ UNCHANGED pogues

Filter(t) == FilterRead(t) \/ CheckPermission(t) \/ FilterFails(t)

Read(t) ==
    \/ GetQuestionnaire(t)
    \/ GetQuestionnaireList(t)
    \/ SearchQuestionnaires(t)
    \/ GetQuestionnairesMetadata(t)

Write(t) ==
    \/ DeleteQuestionnaire(t)
    \/ UpdateQuestionnaire(t)
    \/ CreateQuestionnaireCheck(t)
    \/ CreateQuestionnaireInsert(t)

Next ==
    \E t \in Threads :
        Receive(t) \/ Filter(t) \/ Read(t) \/ Write(t) \/ StatementFails(t) \/ Respond(t)

Spec == Init /\ [][Next]_vars
-----------------------------------------------------------------------------
(***************************************************************************)
(* Properties.                                                             *)
(***************************************************************************)

\* Steps of a thread, each named by what it does next.
Steps == {"idle", "filter", "permission", "get", "list", "search", "meta",
          "delete", "update", "create", "insert", "done"}

\* The values the variables take.
TypeOK ==
    /\ pogues \in Tables
    /\ pc \in [Threads -> Steps]
    /\ request \in [Threads -> Requests \cup {Null}]
    /\ stored \in [Threads -> Rows]
    /\ answer \in [Threads -> Answer \cup {Null}]

\* Thread t went through the filter for the row it is about to write: when it
\* was read it was there, it had an owner, and where authentication is on that
\* owner was the permission of the user.
Cleared(t) ==
    /\ stored[t] # Null
    /\ stored[t].owner # Null
    /\ Authentication = "true" =>
          /\ request[t].user # Null
          /\ Permission[request[t].user] = stored[t].owner

\* No UPDATE and no DELETE is ever about to be executed for a request the
\* filter has not let through, however requests interleave.
ClearedBeforeWrite ==
    \A t \in Threads : pc[t] \in OwnerRestricted => Cleared(t)

\* How a row may change, whichever threads race: it appears only by the INSERT
\* of a creation of that very document (an update never brings back a row that
\* was deleted under it), and a row that is there changes or goes only by a
\* request for its id that the filter let through (a creation never overwrites).
RowLifecycle ==
    [][\A i \in Ids : pogues'[i] # pogues[i] =>
          \E t \in Threads :
             IF pogues[i] = Null
             THEN pc[t] = "insert" /\ request[t].doc = pogues'[i] /\ request[t].doc.id = i
             ELSE /\ pc[t] \in OwnerRestricted
                  /\ request[t].id = i
                  /\ Cleared(t)
                  /\ pogues'[i] = request[t].doc]_vars

\* A stored document without an owner, and no write under way that passed the
\* filter while it had one.
Orphan(i) ==
    /\ pogues[i] # Null
    /\ pogues[i].owner = Null
    /\ \A t \in Threads : pc[t] \in OwnerRestricted \cup {"permission"} => request[t].id # i

\* An orphan stays as it is for ever: creation and update accept a document
\* without owner, and from then on the filter answers 500 to every request that
\* would repair or remove it, even where authentication is off.
OrphansAreForever ==
    [][\A i \in Ids : Orphan(i) => Orphan(i)' /\ UNCHANGED pogues[i]]_vars

Store == INSTANCE QuestionnaireStore WITH table <- pogues, call <- request

\* Requests in many steps keep the promises of a store whose calls are atomic.
ImplementsStore == Store!Spec

(***************************************************************************)
(* Statements of the repository the code departs from.                     *)
(***************************************************************************)

\* An update of an id that is not there is documented as a 404, also when it
\* ceased to be there after the filter found it.
MissingUpdateAnswers404 ==
    [][\A t \in Threads :
          pc[t] = "update" /\ pogues[request[t].id] = Null /\ pc'[t] = "done" =>
              answer'[t].status = 404]_vars

\* "Permissions are verified using the 'permission' attribute of the user under
\* control": a row changes or goes only by a user with the permission of the owner it
\* has then, though it changed hands after the filter read it.
OwnersWriteOnly ==
    [][\A i \in Ids : pogues[i] # Null /\ pogues'[i] # pogues[i] =>
          \E t \in Threads : pc[t] \in OwnerRestricted /\ request[t].id = i
                             /\ Permission[request[t].user] = pogues[i].owner]_vars
=============================================================================

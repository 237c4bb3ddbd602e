----------------------- MODULE PoguesPersistenceProofs -----------------------
(***************************************************************************)
(* What TLAPS proves of PoguesPersistence, for any number of threads,      *)
(* identifiers, documents, users and requests, with authentication on and  *)
(* off.  Everything rests on one inductive invariant, TypeOK /\ InFlight:  *)
(* it ties the step a thread is at to the request it serves and to what    *)
(* its filter has read and compared so far.                                *)
(***************************************************************************)
EXTENDS PoguesPersistence, TLAPS

Ops == {"get", "list", "search", "meta", "delete", "update", "create"}

\* The invariant of one thread.
Serving(t) ==
    /\ pc[t] = "idle" <=> request[t] = Null
    /\ pc[t] = "done" <=> answer[t] # Null
    /\ pc[t] \in Ops => request[t].op = pc[t]
    /\ pc[t] \in {"filter", "permission"} => request[t].op \in OwnerRestricted
    /\ pc[t] = "insert" => request[t].op = "create"
    /\ pc[t] = "permission" =>
          /\ stored[t] # Null
          /\ stored[t].owner # Null
          /\ Authentication = "true"
          /\ request[t].user # Null
    /\ pc[t] \in OwnerRestricted => Cleared(t)

InFlight == \A t \in Threads : Serving(t)

IInv == TypeOK /\ InFlight
-----------------------------------------------------------------------------
(***************************************************************************)
(* Types of the parts of a request and of what the helpers build.          *)
(***************************************************************************)
LEMMA RequestParts ==
    ASSUME NEW r \in Requests
    PROVE  /\ r \in Request
           /\ r # Null
           /\ r.op \in Ops
           /\ r.op \in {"get", "delete", "update"} => r.id \in Ids
           /\ r.op \in {"update", "create"} => r.doc \in Documents
           /\ r.op \notin {"update", "create"} => r.doc = Null
           /\ r.op \in {"delete", "update"} => r.user \in Users \cup {Null}
BY ConstantsAssumption DEF Request, Ops

LEMMA DocumentParts ==
    ASSUME NEW d \in Documents
    PROVE  d # Null /\ d.id \in Ids \cup {Null} /\ d.owner \in Owners \cup {Null}
BY ConstantsAssumption

LEMMA NoRowsIsTable == NoRows \in Tables
BY DEF NoRows, Tables, Rows

LEMMA OwnedByIsTable ==
    ASSUME pogues \in Tables, NEW owner
    PROVE  OwnedBy(owner) \in Tables
BY DEF OwnedBy, Tables, Rows

\* An answer decided, whatever its status, is typed and ends the handler of t.
LEMMA AnswerTyped ==
    ASSUME TypeOK, NEW t \in Threads, NEW status \in Statuses, NEW rows \in Tables,
           AnswerRows(t, status, rows)
    PROVE  /\ pc' \in [Threads -> Steps]
           /\ answer' \in [Threads -> Answer \cup {Null}]
           /\ pc'[t] = "done"
           /\ answer'[t] # Null
<1>1. [status |-> status, body |-> rows] \in Answer
  BY DEF Answer
<1>2. QED
  BY <1>1, ConstantsAssumption DEF AnswerRows, TypeOK, Steps

LEMMA StatusTyped ==
    ASSUME TypeOK, NEW t \in Threads, NEW status \in Statuses, AnswerStatus(t, status)
    PROVE  /\ pc' \in [Threads -> Steps]
           /\ answer' \in [Threads -> Answer \cup {Null}]
           /\ pc'[t] = "done"
           /\ answer'[t] # Null
BY AnswerTyped, NoRowsIsTable DEF AnswerStatus

LEMMA AcknowledgeTyped ==
    ASSUME TypeOK, NEW t \in Threads, NEW status \in Statuses, Acknowledge(t, status)
    PROVE  /\ pc' \in [Threads -> Steps]
           /\ answer' \in [Threads -> Answer \cup {Null}]
           /\ pc'[t] = "done"
           /\ answer'[t] # Null
BY StatusTyped DEF Acknowledge, Statuses

LEMMA GoToTyped ==
    ASSUME TypeOK, NEW t \in Threads, NEW l \in Steps, GoTo(t, l)
    PROVE  /\ pc' \in [Threads -> Steps]
           /\ answer' \in [Threads -> Answer \cup {Null}]
           /\ pc'[t] = l
           /\ answer'[t] = answer[t]
BY DEF GoTo, TypeOK

\* What thread t does, as one action.
Step(t) ==
    Receive(t) \/ Filter(t) \/ Read(t) \/ Write(t) \/ StatementFails(t) \/ Respond(t)

\* A step of one thread leaves the locals of the others alone.
LEMMA OthersUnchanged ==
    ASSUME TypeOK, NEW t \in Threads, Step(t), NEW u \in Threads, u # t
    PROVE  /\ pc'[u] = pc[u]
           /\ request'[u] = request[u]
           /\ stored'[u] = stored[u]
           /\ answer'[u] = answer[u]
<1> USE DEF TypeOK, GoTo, AnswerStatus, AnswerRows, Acknowledge
<1>1. CASE Receive(t)
  BY <1>1 DEF Receive
<1>2. CASE Filter(t)
  <2>1. CASE FilterRead(t)
    BY <2>1 DEF FilterRead
  <2>2. CASE CheckPermission(t)
    BY <2>2 DEF CheckPermission
  <2>3. CASE FilterFails(t)
    BY <2>3 DEF FilterFails
  <2>4. QED
    BY <1>2, <2>1, <2>2, <2>3 DEF Filter
<1>3. CASE Read(t)
  BY <1>3 DEF Read, GetQuestionnaire, GetQuestionnaireList, SearchQuestionnaires,
              GetQuestionnairesMetadata
<1>4. CASE Write(t)
  BY <1>4 DEF Write, DeleteQuestionnaire, UpdateQuestionnaire,
              CreateQuestionnaireCheck, CreateQuestionnaireInsert
<1>5. CASE StatementFails(t)
  BY <1>5 DEF StatementFails
<1>6. CASE Respond(t)
  BY <1>6 DEF Respond
<1>7. QED
  BY <1>1, <1>2, <1>3, <1>4, <1>5, <1>6 DEF Step
-----------------------------------------------------------------------------
(***************************************************************************)
(* Every action keeps the types and leaves its own thread as the invariant *)
(* wants it; with OthersUnchanged that makes the invariant inductive.      *)
(***************************************************************************)
LEMMA ReceiveKeeps ==
    ASSUME IInv, NEW t \in Threads, Receive(t)
    PROVE  TypeOK' /\ Serving(t)'
<1>1. PICK r \in Requests :
        /\ request' = [request EXCEPT ![t] = r]
        /\ GoTo(t, IF r.op \in OwnerRestricted THEN "filter" ELSE r.op)
  BY DEF Receive
<1>2. r.op \in Ops /\ r # Null
  BY RequestParts
<1>3. (IF r.op \in OwnerRestricted THEN "filter" ELSE r.op) \in Steps
  BY <1>2 DEF Ops, Steps
<1>4. TypeOK'
  BY <1>1, <1>3, GoToTyped DEF IInv, TypeOK, Receive
<1>5. Serving(t)'
  BY <1>1, <1>2, <1>3, GoToTyped
     DEF IInv, TypeOK, InFlight, Serving, Receive, Ops, OwnerRestricted
<1>6. QED
  BY <1>4, <1>5

LEMMA FilterReadKeeps ==
    ASSUME IInv, NEW t \in Threads, FilterRead(t)
    PROVE  TypeOK' /\ Serving(t)'
<1> DEFINE row == pogues[request[t].id]
<1>1. /\ request[t] \in Requests
      /\ request[t].op \in OwnerRestricted
      /\ request[t].id \in Ids
  BY RequestParts DEF IInv, TypeOK, InFlight, Serving, FilterRead, OwnerRestricted
<1>2. row \in Rows
  BY <1>1 DEF IInv, TypeOK, Tables
<1>3. /\ stored' = [stored EXCEPT ![t] = row]
      /\ UNCHANGED <<pogues, request>>
      /\ pc[t] = "filter"
  BY DEF FilterRead
<1>4. stored' \in [Threads -> Rows] /\ stored'[t] = row
  BY <1>2, <1>3 DEF IInv, TypeOK
<1>5. CASE \E status \in Statuses : AnswerStatus(t, status)
  <2>1. TypeOK'
    BY <1>3, <1>4, <1>5, StatusTyped DEF IInv, TypeOK
  <2>2. Serving(t)'
    BY <1>1, <1>3, <1>5, StatusTyped
       DEF IInv, TypeOK, InFlight, Serving, Ops, OwnerRestricted
  <2>3. QED
    BY <2>1, <2>2
<1>6. CASE /\ row # Null
           /\ row.owner # Null
           /\ \/ Authentication = "false" /\ GoTo(t, request[t].op)
              \/ /\ Authentication = "true"
                 /\ request[t].user # Null
                 /\ GoTo(t, "permission")
  <2>1. PICK l \in Steps : GoTo(t, l) /\ l \in {request[t].op, "permission"}
    BY <1>1, <1>6 DEF Steps, OwnerRestricted
  <2>2. TypeOK'
    BY <1>3, <1>4, <2>1, GoToTyped DEF IInv, TypeOK
  <2>3. Serving(t)'
    BY <1>1, <1>3, <1>4, <1>6, GoToTyped
       DEF IInv, TypeOK, InFlight, Serving, Cleared, Ops, Steps, OwnerRestricted
  <2>4. QED
    BY <2>2, <2>3
<1>7. QED
  BY <1>5, <1>6 DEF FilterRead, Statuses

LEMMA CheckPermissionKeeps ==
    ASSUME IInv, NEW t \in Threads, CheckPermission(t)
    PROVE  TypeOK' /\ Serving(t)'
<1>1. /\ request[t].op \in OwnerRestricted
      /\ stored[t] # Null /\ stored[t].owner # Null
      /\ Authentication = "true"
      /\ request[t].user # Null
      /\ request[t] # Null
  BY DEF IInv, TypeOK, InFlight, Serving, CheckPermission
<1>2. UNCHANGED <<pogues, request, stored>> /\ pc[t] = "permission"
  BY DEF CheckPermission
<1>3. CASE \E status \in Statuses : AnswerStatus(t, status)
  BY <1>1, <1>2, <1>3, StatusTyped
     DEF IInv, TypeOK, InFlight, Serving, Ops, OwnerRestricted
<1>4. CASE /\ Permission[request[t].user] = stored[t].owner
           /\ GoTo(t, request[t].op)
  BY <1>1, <1>2, <1>4, GoToTyped, ConstantsAssumption
     DEF IInv, TypeOK, InFlight, Serving, Cleared, Ops, Steps, OwnerRestricted
<1>5. QED
  BY <1>3, <1>4 DEF CheckPermission, Statuses

\* The steps after which a thread has its answer and nothing else of it changed.
LEMMA AnsweringKeeps ==
    ASSUME IInv, NEW t \in Threads, NEW status \in Statuses, NEW rows \in Tables,
           AnswerRows(t, status, rows),
           pc[t] # "idle",
           pogues' \in Tables, UNCHANGED <<request, stored>>
    PROVE  TypeOK' /\ Serving(t)'
<1>1. request[t] # Null
  BY DEF IInv, InFlight, Serving
<1>2. QED
  BY <1>1, AnswerTyped DEF IInv, TypeOK, InFlight, Serving, Ops, OwnerRestricted

LEMMA StatusKeeps ==
    ASSUME IInv, NEW t \in Threads, NEW status \in Statuses,
           AnswerStatus(t, status),
           pc[t] # "idle",
           pogues' \in Tables, UNCHANGED <<request, stored>>
    PROVE  TypeOK' /\ Serving(t)'
BY AnsweringKeeps, NoRowsIsTable DEF AnswerStatus

LEMMA AcknowledgeKeeps ==
    ASSUME IInv, NEW t \in Threads, NEW status \in Statuses,
           Acknowledge(t, status),
           pc[t] # "idle",
           pogues' \in Tables, UNCHANGED <<request, stored>>
    PROVE  TypeOK' /\ Serving(t)'
BY StatusKeeps DEF Acknowledge, Statuses

LEMMA ReadKeeps ==
    ASSUME IInv, NEW t \in Threads, Read(t)
    PROVE  TypeOK' /\ Serving(t)'
<1>1. pogues \in Tables
  BY DEF IInv, TypeOK
<1>2. CASE GetQuestionnaire(t)
  <2>1. [NoRows EXCEPT ![request[t].id] = pogues[request[t].id]] \in Tables
    <3>1. request[t] \in Requests /\ request[t].op = "get"
      BY <1>2 DEF IInv, TypeOK, InFlight, Serving, GetQuestionnaire, Ops
    <3>2. request[t].id \in Ids
      BY <3>1, RequestParts
    <3>3. QED
      BY <1>1, <3>2, NoRowsIsTable DEF Tables
  <2>2. QED
    BY <1>1, <1>2, <2>1, StatusKeeps, AnsweringKeeps DEF GetQuestionnaire, Statuses
<1>3. CASE GetQuestionnaireList(t)
  BY <1>1, <1>3, StatusKeeps, AnsweringKeeps DEF GetQuestionnaireList, Statuses
<1>4. CASE SearchQuestionnaires(t)
  BY <1>1, <1>4, StatusKeeps, AnsweringKeeps, OwnedByIsTable DEF SearchQuestionnaires, Statuses
<1>5. CASE GetQuestionnairesMetadata(t)
  BY <1>1, <1>5, StatusKeeps, AnsweringKeeps, OwnedByIsTable
     DEF GetQuestionnairesMetadata, Statuses
<1>6. QED
  BY <1>2, <1>3, <1>4, <1>5 DEF Read

\* The request of a thread that is about to write.
LEMMA WriteRequest ==
    ASSUME IInv, NEW t \in Threads
    PROVE  /\ pc[t] # "idle" => request[t] \in Requests
           /\ pc[t] \in OwnerRestricted => request[t].op = pc[t] /\ request[t].id \in Ids
           /\ pc[t] = "update" => request[t].doc \in Documents
           /\ pc[t] = "delete" => request[t].doc = Null
           /\ pc[t] \in {"create", "insert"} =>
                 request[t].op = "create" /\ request[t].doc \in Documents
<1>1. pc[t] # "idle" => request[t] \in Requests
  BY DEF IInv, TypeOK, InFlight, Serving
<1>2. /\ pc[t] \in {"update", "delete", "create"} => request[t].op = pc[t]
      /\ pc[t] = "insert" => request[t].op = "create"
  BY DEF IInv, InFlight, Serving, Ops
<1>3. QED
  BY <1>1, <1>2, RequestParts DEF OwnerRestricted

LEMMA WriteKeeps ==
    ASSUME IInv, NEW t \in Threads, Write(t)
    PROVE  TypeOK' /\ Serving(t)'
<1>1. pogues \in Tables
  BY DEF IInv, TypeOK
<1>2. CASE DeleteQuestionnaire(t)
  <2>1. pogues' \in Tables
    BY <1>1, <1>2 DEF DeleteQuestionnaire, Tables, Rows
  <2>2. AnswerStatus(t, 404) \/ Acknowledge(t, 204)
    BY <1>2 DEF DeleteQuestionnaire
  <2>3. UNCHANGED <<request, stored>> /\ pc[t] # "idle"
    BY <1>2 DEF DeleteQuestionnaire
  <2>4. QED
    BY <2>1, <2>2, <2>3, StatusKeeps, AcknowledgeKeeps DEF Statuses
<1>3. CASE UpdateQuestionnaire(t)
  <2>1. pogues' \in Tables
    BY <1>1, <1>3, WriteRequest DEF UpdateQuestionnaire, Tables, Rows
  <2>2. QED
    BY <1>3, <2>1, StatusKeeps, AcknowledgeKeeps DEF UpdateQuestionnaire, Statuses
<1>4. CASE CreateQuestionnaireCheck(t)
  <2>1. CASE AnswerStatus(t, 409)
    BY <1>1, <1>4, <2>1, StatusKeeps DEF CreateQuestionnaireCheck, Statuses
  <2>2. CASE GoTo(t, "insert")
    <3>1. "insert" \in Steps /\ request[t].op = "create"
      BY <1>4, WriteRequest DEF Steps, CreateQuestionnaireCheck
    <3>2. QED
      BY <1>4, <2>2, <3>1, GoToTyped
         DEF IInv, TypeOK, InFlight, Serving, CreateQuestionnaireCheck, Ops, OwnerRestricted
  <2>3. QED
    BY <1>4, <2>1, <2>2 DEF CreateQuestionnaireCheck
<1>5. CASE CreateQuestionnaireInsert(t)
  <2>1. pogues' \in Tables
    <3>1. request[t].doc \in Documents
      BY <1>5, WriteRequest DEF CreateQuestionnaireInsert
    <3>2. request[t].doc.id \in Ids \cup {Null}
      BY <3>1, DocumentParts
    <3>3. QED
      BY <1>1, <1>5, <3>1, <3>2 DEF CreateQuestionnaireInsert, Tables, Rows
  <2>2. QED
    BY <1>5, <2>1, StatusKeeps, AcknowledgeKeeps DEF CreateQuestionnaireInsert, Statuses
<1>6. QED
  BY <1>2, <1>3, <1>4, <1>5 DEF Write

THEOREM Inductive == IInv /\ [Next]_vars => IInv'
<1> SUFFICES ASSUME IInv, [Next]_vars
             PROVE  IInv'
  OBVIOUS
<1>1. ASSUME NEW t \in Threads, Step(t)
      PROVE  IInv'
  <2>1. TypeOK' /\ Serving(t)'
    <3>1. CASE Receive(t)
      BY <3>1, ReceiveKeeps
    <3>2. CASE Filter(t)
      <4>1. CASE FilterFails(t)
        BY <4>1, StatusKeeps DEF FilterFails, Statuses, IInv, TypeOK
      <4>2. QED
        BY <3>2, <4>1, FilterReadKeeps, CheckPermissionKeeps DEF Filter
    <3>3. CASE Read(t)
      BY <3>3, ReadKeeps
    <3>4. CASE Write(t)
      BY <3>4, WriteKeeps
    <3>5. CASE StatementFails(t)
      BY <3>5, StatusKeeps DEF StatementFails, Statuses, IInv, TypeOK
    <3>6. CASE Respond(t)
      BY <3>6 DEF Respond, IInv, TypeOK, InFlight, Serving, Steps, Rows, Ops, OwnerRestricted
    <3>7. QED
      BY <1>1, <3>1, <3>2, <3>3, <3>4, <3>5, <3>6 DEF Step
  <2>2. ASSUME NEW u \in Threads, u # t
        PROVE  Serving(u)'
    BY <1>1, <2>2, OthersUnchanged DEF IInv, InFlight, Serving, Cleared
  <2>3. QED
    BY <2>1, <2>2 DEF IInv, InFlight
<1>2. CASE UNCHANGED vars
  BY <1>2 DEF vars, IInv, TypeOK, InFlight, Serving, Cleared
<1>3. QED
  BY <1>1, <1>2 DEF Next, Step

LEMMA InitInvariant == Init => IInv
BY NoRowsIsTable DEF Init, IInv, TypeOK, InFlight, Serving, Rows, Steps, Ops, OwnerRestricted

\* The inductive invariant holds of every execution.
THEOREM InvariantHolds == Spec => []IInv
BY InitInvariant, Inductive, PTL DEF Spec

\* Type correctness.
THEOREM TypeCorrect == Spec => []TypeOK
<1>1. IInv => TypeOK
  BY DEF IInv
<1>2. QED
  BY <1>1, InvariantHolds, PTL

\* Whatever the interleaving, no thread gets to an UPDATE or a DELETE but
\* through the filter.
THEOREM WritesAreCleared == Spec => []ClearedBeforeWrite
<1>1. IInv => ClearedBeforeWrite
  BY DEF IInv, InFlight, Serving, ClearedBeforeWrite
<1>2. QED
  BY <1>1, InvariantHolds, PTL
-----------------------------------------------------------------------------
(***************************************************************************)
(* How rows change.                                                        *)
(***************************************************************************)

\* Only three statements change a row, each in its own circumstances.
LEMMA RowChange ==
    ASSUME IInv, NEW t \in Threads, Step(t), NEW i \in Ids, pogues'[i] # pogues[i]
    PROVE  IF pogues[i] = Null
           THEN pc[t] = "insert" /\ request[t].doc = pogues'[i] /\ request[t].doc.id = i
           ELSE /\ pc[t] \in OwnerRestricted
                /\ request[t].id = i
                /\ Cleared(t)
                /\ pogues'[i] = request[t].doc
<1>1. pogues \in Tables
  BY DEF IInv, TypeOK
<1>2. pc[t] \in OwnerRestricted => Cleared(t)
  BY DEF IInv, InFlight, Serving
<1>3. CASE DeleteQuestionnaire(t)
  BY <1>1, <1>2, <1>3, WriteRequest DEF DeleteQuestionnaire, Tables, OwnerRestricted
<1>4. CASE UpdateQuestionnaire(t)
  BY <1>1, <1>2, <1>4, WriteRequest DEF UpdateQuestionnaire, Tables, OwnerRestricted
<1>5. CASE CreateQuestionnaireInsert(t)
  <2>1. request[t].doc \in Documents /\ request[t].doc.id \in Ids \cup {Null}
    BY <1>5, WriteRequest, DocumentParts DEF CreateQuestionnaireInsert
  <2>2. QED
    BY <1>1, <1>5, <2>1 DEF CreateQuestionnaireInsert, Tables
<1>6. CASE UNCHANGED pogues
  BY <1>6
<1>7. CASE Receive(t) \/ Filter(t) \/ Read(t) \/ CreateQuestionnaireCheck(t)
           \/ StatementFails(t) \/ Respond(t)
  <2>1. UNCHANGED pogues
    BY <1>7 DEF Receive, Filter, FilterRead, CheckPermission, FilterFails, Read,
                GetQuestionnaire, GetQuestionnaireList, SearchQuestionnaires,
                GetQuestionnairesMetadata, CreateQuestionnaireCheck, StatementFails, Respond
  <2>2. QED
    BY <1>6, <2>1
<1>8. QED
  BY <1>3, <1>4, <1>5, <1>7 DEF Step, Write

\* A row appears only by the creation of its document, and changes or goes only
\* by a request of its own that was let through: no update resurrects a deleted
\* row and no creation overwrites one.
THEOREM LifecycleHolds == Spec => RowLifecycle
<1> DEFINE Lawful ==
      \A i \in Ids : pogues'[i] # pogues[i] =>
          \E t \in Threads :
             IF pogues[i] = Null
             THEN pc[t] = "insert" /\ request[t].doc = pogues'[i] /\ request[t].doc.id = i
             ELSE /\ pc[t] \in OwnerRestricted
                  /\ request[t].id = i
                  /\ Cleared(t)
                  /\ pogues'[i] = request[t].doc
<1>1. IInv /\ [Next]_vars => [Lawful]_vars
  <2> SUFFICES ASSUME IInv, NEW t \in Threads, Step(t)
               PROVE  Lawful
    BY DEF Next, Step
  <2>1. QED
    BY RowChange
<1>2. QED
  BY <1>1, InvariantHolds, PTL DEF Spec, RowLifecycle

\* An orphan is never repaired nor removed.
THEOREM OrphansStay == Spec => OrphansAreForever
<1>1. ASSUME IInv, NEW t \in Threads, Step(t), NEW i \in Ids, Orphan(i)
      PROVE  Orphan(i)' /\ UNCHANGED pogues[i]
  <2>1. pogues'[i] = pogues[i]
    BY <1>1, RowChange DEF Orphan
  <2>2. ASSUME NEW u \in Threads, pc'[u] \in OwnerRestricted \cup {"permission"}
        PROVE  request'[u].id # i
    <3>1. CASE u # t
      BY <1>1, <2>2, <3>1, OthersUnchanged DEF IInv, Orphan
    <3>2. CASE u = t
      <4> USE DEF OwnerRestricted, GoTo, AnswerStatus, AnswerRows, Acknowledge
      <4>1. pc \in [Threads -> Steps] /\ request \in [Threads -> Requests \cup {Null}]
        BY <1>1 DEF IInv, TypeOK
      <4>2. ~ Receive(t)
        BY <2>2, <3>2, <4>1, RequestParts DEF Receive, Ops
      <4>3. CASE FilterRead(t)
        BY <1>1, <2>2, <3>2, <4>1, <4>3 DEF FilterRead, Orphan
      <4>4. CASE CheckPermission(t)
        BY <1>1, <3>2, <4>4 DEF CheckPermission, Orphan
      <4>5. ~ FilterFails(t)
        BY <2>2, <3>2, <4>1 DEF FilterFails
      <4>6. ~ Read(t)
        BY <2>2, <3>2, <4>1
           DEF Read, GetQuestionnaire, GetQuestionnaireList, SearchQuestionnaires,
               GetQuestionnairesMetadata
      <4>7. ~ Write(t)
        BY <2>2, <3>2, <4>1
           DEF Write, DeleteQuestionnaire, UpdateQuestionnaire,
               CreateQuestionnaireCheck, CreateQuestionnaireInsert
      <4>8. ~ StatementFails(t) /\ ~ Respond(t)
        BY <2>2, <3>2, <4>1 DEF StatementFails, Respond
      <4>9. QED
        BY <1>1, <4>2, <4>3, <4>4, <4>5, <4>6, <4>7, <4>8 DEF Step, Filter
    <3>3. QED
      BY <3>1, <3>2
  <2>3. QED
    BY <1>1, <2>1, <2>2 DEF Orphan
<1>2. IInv /\ [Next]_vars =>
        [\A i \in Ids : Orphan(i) => Orphan(i)' /\ UNCHANGED pogues[i]]_vars
  BY <1>1 DEF Next, Step
<1>3. QED
  BY <1>2, InvariantHolds, PTL DEF Spec, OrphansAreForever
-----------------------------------------------------------------------------
(***************************************************************************)
(* The store.  A step that decides an answer is the instant at which the   *)
(* abstract call happens; the steps before it are invisible to a caller.   *)
(***************************************************************************)

\* A request that is neither waiting to be received nor answered yet is a
\* pending call.
LEMMA PendingCall ==
    ASSUME IInv, NEW t \in Threads, pc[t] \notin {"idle", "done"}
    PROVE  Store!Pending(t) /\ request[t] \in Requests
BY DEF IInv, TypeOK, InFlight, Serving, Store!Pending

LEMMA RefusalIsRefuse ==
    ASSUME IInv, NEW t \in Threads, pc[t] \notin {"idle", "done"},
           NEW status \in {400, 401, 403, 404, 409, 500, Unmapped},
           AnswerStatus(t, status), UNCHANGED <<pogues, request>>,
           status = 400 => request[t].owner = Empty,
           status \in {401, 403} => request[t].op \in {"update", "delete"},
           status = 404 => \/ request[t].op = "list" /\ pogues = NoRows
                           \/ request[t].op \in {"get", "update", "delete"} /\ ~ Store!Exists(request[t]),
           status = 409 => request[t].op = "create" /\ Store!Exists(request[t])
    PROVE  Store!Refuse(t)
<1>1. Store!Pending(t)
  BY PendingCall
<1>2. Store!Decide(t, status, Store!None)
  BY DEF Store!Decide, Store!None, AnswerStatus, AnswerRows, NoRows
<1>3. QED
  BY <1>1, <1>2 DEF Store!Refuse, Store!None, NoRows

LEMMA FilterIsStoreStep ==
    ASSUME IInv, NEW t \in Threads, Filter(t)
    PROVE  Store!Refuse(t) \/ UNCHANGED <<pogues, request, answer>>
<1>1. UNCHANGED <<pogues, request>> /\ pc[t] \in {"filter", "permission"}
  BY DEF Filter, FilterRead, CheckPermission, FilterFails
<1>2. request[t].op \in {"update", "delete"}
  BY <1>1 DEF IInv, InFlight, Serving, OwnerRestricted
<1>3. \/ UNCHANGED answer
      \/ AnswerStatus(t, 401) \/ AnswerStatus(t, 403) \/ AnswerStatus(t, 500)
      \/ AnswerStatus(t, 404) /\ pogues[request[t].id] = Null
  BY DEF Filter, FilterRead, CheckPermission, FilterFails, GoTo
<1>4. pogues[request[t].id] = Null => ~ Store!Exists(request[t])
  BY <1>2 DEF Store!Exists, Store!Target
<1>5. ASSUME NEW status \in {401, 403, 404, 500}, AnswerStatus(t, status),
             status = 404 => ~ Store!Exists(request[t])
      PROVE  Store!Refuse(t)
  BY <1>1, <1>2, <1>5, RefusalIsRefuse
<1>6. QED
  BY <1>1, <1>3, <1>4, <1>5

LEMMA SelectionIsSelect ==
    ASSUME IInv, NEW t \in Threads, pc[t] \in {"get", "list", "search", "meta"},
           pc[t] = request[t].op,
           pc[t] \in {"get", "list"} => Store!Selected(request[t]) # {},
           pc[t] = "meta" =>
               \A i \in Store!Selected(request[t]) : pogues[i].content \in Complete,
           NEW rows, AnswerRows(t, 200, rows), UNCHANGED <<pogues, request>>,
           rows = [i \in Ids |-> IF i \in Store!Selected(request[t]) THEN pogues[i] ELSE Null]
    PROVE  Store!Select(t)
<1>1. Store!Pending(t)
  BY PendingCall
<1>2. Store!Decide(t, 200, rows)
  BY DEF Store!Decide, AnswerRows
<1>3. QED
  BY <1>1, <1>2 DEF Store!Select

LEMMA ReadIsStoreStep ==
    ASSUME IInv, NEW t \in Threads, Read(t)
    PROVE  Store!Refuse(t) \/ Store!Select(t)
<1> DEFINE r == request[t]
<1>1. /\ UNCHANGED <<pogues, request>>
      /\ pc[t] \in {"get", "list", "search", "meta"}
      /\ r.op = pc[t]
      /\ r \in Requests
      /\ pogues \in Tables
  <2>1. /\ UNCHANGED <<pogues, request>>
        /\ pc[t] \in {"get", "list", "search", "meta"}
    BY DEF Read, GetQuestionnaire, GetQuestionnaireList, SearchQuestionnaires,
           GetQuestionnairesMetadata
  <2>2. QED
    BY <2>1, PendingCall DEF IInv, TypeOK, InFlight, Serving, Ops
<1>2. ASSUME NEW status \in {400, 404, Unmapped}, AnswerStatus(t, status),
             status = 400 => r.owner = Empty,
             status = 404 => \/ r.op = "list" /\ pogues = NoRows
                             \/ r.op = "get" /\ ~ Store!Exists(r)
      PROVE  Store!Refuse(t)
  BY <1>1, <1>2, RefusalIsRefuse DEF Unmapped
<1>3. CASE GetQuestionnaire(t)
  <2>1. r.id \in Ids
    BY <1>1, <1>3, RequestParts DEF GetQuestionnaire
  <2>2. CASE pogues[r.id] = Null
    BY <1>1, <1>2, <1>3, <2>2 DEF GetQuestionnaire, Store!Exists, Store!Target
  <2>3. CASE pogues[r.id] # Null
    <3>1. Store!Selected(r) = {r.id}
      BY <1>1, <1>3, <2>1, <2>3 DEF Store!Selected, GetQuestionnaire
    <3>2. [NoRows EXCEPT ![r.id] = pogues[r.id]]
            = [i \in Ids |-> IF i \in Store!Selected(r) THEN pogues[i] ELSE Null]
      BY <2>1, <3>1 DEF NoRows
    <3>3. QED
      BY <1>1, <1>3, <2>3, <3>1, <3>2, SelectionIsSelect DEF GetQuestionnaire
  <2>4. QED
    BY <2>2, <2>3
<1>4. CASE GetQuestionnaireList(t)
  <2>1. CASE pogues = NoRows
    BY <1>1, <1>2, <1>4, <2>1 DEF GetQuestionnaireList
  <2>2. CASE pogues # NoRows
    <3>1. Store!Selected(r) = {i \in Ids : pogues[i] # Null}
      BY <1>1, <1>4 DEF Store!Selected, GetQuestionnaireList
    <3>2. pogues = [i \in Ids |-> IF i \in Store!Selected(r) THEN pogues[i] ELSE Null]
      BY <1>1, <3>1 DEF Tables
    <3>3. Store!Selected(r) # {}
      BY <1>1, <2>2, <3>1 DEF Tables, NoRows
    <3>4. AnswerRows(t, 200, pogues)
      BY <1>4, <2>2 DEF GetQuestionnaireList
    <3>5. QED
      BY <1>1, <1>4, <3>2, <3>3, <3>4, SelectionIsSelect DEF GetQuestionnaireList
  <2>3. QED
    BY <2>1, <2>2
<1>5. CASE SearchQuestionnaires(t) \/ GetQuestionnairesMetadata(t)
  <2>1. pc[t] \in {"search", "meta"}
    BY <1>5 DEF SearchQuestionnaires, GetQuestionnairesMetadata
  <2>2. CASE r.owner = Null /\ AnswerRows(t, 200, NoRows)
    <3>1. Store!Selected(r) = {}
      BY <1>1, <2>1, <2>2 DEF Store!Selected
    <3>2. QED
      BY <1>1, <2>1, <2>2, <3>1, SelectionIsSelect DEF NoRows
  <2>3. CASE /\ r.owner # Null
             /\ AnswerRows(t, 200, OwnedBy(r.owner))
             /\ pc[t] = "meta" => \A i \in Ids :
                    OwnedBy(r.owner)[i] # Null => OwnedBy(r.owner)[i].content \in Complete
    <3>1. Store!Selected(r) = {i \in Ids : pogues[i] # Null /\ pogues[i].owner = r.owner}
      BY <1>1, <2>1, <2>3 DEF Store!Selected
    <3>2. OwnedBy(r.owner)
            = [i \in Ids |-> IF i \in Store!Selected(r) THEN pogues[i] ELSE Null]
      BY <3>1 DEF OwnedBy
    <3>3. QED
      BY <1>1, <2>1, <2>3, <3>1, <3>2, SelectionIsSelect DEF OwnedBy
  <2>4. CASE AnswerStatus(t, Unmapped) \/ (r.owner = Empty /\ AnswerStatus(t, 400))
    BY <1>2, <2>4 DEF Unmapped
  <2>5. QED
    BY <1>5, <2>2, <2>3, <2>4 DEF SearchQuestionnaires, GetQuestionnairesMetadata, AnswerStatus
<1>6. QED
  BY <1>3, <1>4, <1>5 DEF Read

\* A statement that writes, acknowledged or not.
LEMMA AcknowledgedIsCommit ==
    ASSUME IInv, NEW t \in Threads, pc[t] \notin {"idle", "done"},
           Store!Applicable(request[t]), Acknowledge(t, Store!Success(request[t])),
           pogues' = [pogues EXCEPT ![Store!Target(request[t])] = request[t].doc],
           UNCHANGED request
    PROVE  Store!Commit(t)
<1>1. Store!Pending(t)
  BY PendingCall
<1>2. PICK status \in {Store!Success(request[t]), Unmapped} : AnswerStatus(t, status)
  BY DEF Acknowledge
<1>3. Store!Decide(t, status, Store!None)
  BY <1>2 DEF Store!Decide, Store!None, AnswerStatus, AnswerRows, NoRows
<1>4. QED
  BY <1>1, <1>2, <1>3 DEF Store!Commit

LEMMA WriteIsStoreStep ==
    ASSUME IInv, NEW t \in Threads, Write(t)
    PROVE  Store!Refuse(t) \/ Store!Commit(t) \/ UNCHANGED <<pogues, request, answer>>
<1> DEFINE r == request[t]
<1>1. /\ UNCHANGED request
      /\ pogues \in Tables
      /\ pc[t] \in {"delete", "update", "create", "insert"}
  BY DEF Write, DeleteQuestionnaire, UpdateQuestionnaire, CreateQuestionnaireCheck,
         CreateQuestionnaireInsert, IInv, TypeOK
<1>2. ASSUME NEW status \in {404, 409, Unmapped}, AnswerStatus(t, status), UNCHANGED pogues,
             status = 404 => r.op = "delete" /\ ~ Store!Exists(r),
             status = 409 => r.op = "create" /\ Store!Exists(r)
      PROVE  Store!Refuse(t)
  BY <1>1, <1>2, RefusalIsRefuse DEF Unmapped
<1>3. CASE DeleteQuestionnaire(t)
  <2>1. r.op = "delete" /\ r.id \in Ids /\ r.id # Null /\ r.doc = Null
    BY <1>3, WriteRequest, ConstantsAssumption DEF DeleteQuestionnaire, OwnerRestricted
  <2>2. CASE pogues[r.id] = Null
    <3>1. UNCHANGED pogues
      BY <1>1, <1>3, <2>1, <2>2 DEF DeleteQuestionnaire, Tables
    <3>2. QED
      BY <1>2, <1>3, <2>1, <2>2, <3>1 DEF DeleteQuestionnaire, Store!Exists, Store!Target
  <2>3. CASE pogues[r.id] # Null
    BY <1>1, <1>3, <2>1, <2>3, AcknowledgedIsCommit
       DEF DeleteQuestionnaire, Store!Applicable, Store!Exists, Store!Target, Store!Success
  <2>4. QED
    BY <2>2, <2>3
<1>4. CASE UpdateQuestionnaire(t)
  <2>1. r.op = "update" /\ r.id \in Ids /\ r.id # Null
    BY <1>4, WriteRequest, ConstantsAssumption DEF UpdateQuestionnaire, OwnerRestricted
  <2>2. CASE pogues[r.id] = Null
    BY <1>2, <1>4, <2>2 DEF UpdateQuestionnaire, Unmapped
  <2>3. CASE pogues[r.id] # Null
    BY <1>1, <1>4, <2>1, <2>3, AcknowledgedIsCommit
       DEF UpdateQuestionnaire, Store!Applicable, Store!Exists, Store!Target, Store!Success
  <2>4. QED
    BY <2>2, <2>3
<1>5. CASE CreateQuestionnaireCheck(t)
  <2>1. r.op = "create" /\ UNCHANGED pogues
    BY <1>5, WriteRequest DEF CreateQuestionnaireCheck
  <2>2. QED
    BY <1>1, <1>2, <1>5, <2>1
       DEF CreateQuestionnaireCheck, GoTo, Store!Exists, Store!Target
<1>6. CASE CreateQuestionnaireInsert(t)
  <2>1. r.op = "create" /\ r.doc.id \in Ids \cup {Null}
    BY <1>6, WriteRequest, DocumentParts DEF CreateQuestionnaireInsert
  <2>2. CASE r.doc.id = Null \/ pogues[r.doc.id] # Null
    BY <1>2, <1>6, <2>2 DEF CreateQuestionnaireInsert, Unmapped
  <2>3. CASE r.doc.id # Null /\ pogues[r.doc.id] = Null
    BY <1>1, <1>6, <2>1, <2>3, AcknowledgedIsCommit
       DEF CreateQuestionnaireInsert, Store!Applicable, Store!Exists, Store!Target, Store!Success
  <2>4. QED
    BY <2>2, <2>3
<1>7. QED
  BY <1>3, <1>4, <1>5, <1>6 DEF Write

\* The resource implements the atomic store: what a caller is told is true of
\* the table at one instant of its call.
THEOREM Refinement == Spec => ImplementsStore
<1>1. Init => Store!Init
  BY DEF Init, Store!Init, Store!None, NoRows
<1>2. IInv /\ [Next]_vars => [Store!Next]_(Store!storeVars)
  <2> SUFFICES ASSUME IInv, NEW t \in Threads, Step(t)
               PROVE  Store!Next \/ UNCHANGED <<pogues, request, answer>>
    BY DEF Next, Step, vars, Store!storeVars
  <2>1. CASE Receive(t)
    <3>1. request[t] = Null
      BY <2>1 DEF IInv, InFlight, Serving, Receive
    <3>2. Store!Invoke(t)
      BY <2>1, <3>1 DEF Receive, GoTo, Store!Invoke
    <3>3. QED
      BY <3>2 DEF Store!Next
  <2>2. CASE Filter(t)
    BY <2>2, FilterIsStoreStep DEF Store!Next
  <2>3. CASE Read(t)
    BY <2>3, ReadIsStoreStep DEF Store!Next
  <2>4. CASE Write(t)
    BY <2>4, WriteIsStoreStep DEF Store!Next
  <2>5. CASE StatementFails(t)
    <3>1. Store!Refuse(t)
      BY <2>5, RefusalIsRefuse DEF StatementFails, Unmapped
    <3>2. QED
      BY <3>1 DEF Store!Next
  <2>6. CASE Respond(t)
    <3>1. answer[t] # Null
      BY <2>6 DEF IInv, InFlight, Serving, Respond
    <3>2. Store!Return(t)
      BY <2>6, <3>1 DEF Respond, Store!Return
    <3>3. QED
      BY <3>2 DEF Store!Next
  <2>7. QED
    BY <2>1, <2>2, <2>3, <2>4, <2>5, <2>6 DEF Step
<1>3. QED
  BY <1>1, <1>2, InvariantHolds, PTL DEF Spec, ImplementsStore, Store!Spec
=============================================================================

----------------------- MODULE GenericExceptionMapper -----------------------
(***************************************************************************)
(* GenericExceptionMapper turns every exception that is not a              *)
(* PoguesException into a response.  It is one object for all request      *)
(* threads and keeps the status to answer in a field, STATUS, that it      *)
(* overwrites when the exception says that no resource has the requested   *)
(* path.  The field is neither volatile nor locked: what a thread reads    *)
(* from it is one of the values the Java memory model lets it see.         *)
(***************************************************************************)
EXTENDS Naturals

CONSTANTS
    Threads,  \* request threads of the servlet container
    Errors    \* what they throw: NotFoundException and others

NotFoundException == "NotFoundException"

INTERNAL_SERVER_ERROR == 500
NOT_FOUND == 404
NoStatus == 0

\* The router can throw it for any request.
ASSUME ErrorsAssumption == NotFoundException \in Errors /\ "none" \notin Errors

VARIABLES
    STATUS,   \* the field, as last assigned
    writers,  \* the threads that have assigned it
    pc,       \* pc[t]: "running" a request, or a step of toResponse
    error,    \* error[t]: the exception t is mapping
    body,     \* body[t]: the status in the message of the response of t
    http      \* http[t]: the status of that response

vars == <<STATUS, writers, pc, error, body, http>>

\* The values a read of STATUS by t may give: a thread that assigned the field
\* sees an assigned value, the others that one or, still, the initial one.
Visible(t) ==
    IF t \in writers \/ writers = {} THEN {STATUS} ELSE {INTERNAL_SERVER_ERROR, STATUS}

Init ==
    /\ STATUS = INTERNAL_SERVER_ERROR
    /\ writers = {}
    /\ pc = [t \in Threads |-> "running"]
    /\ error = [t \in Threads |-> "none"]
    /\ body = [t \in Threads |-> NoStatus]
    /\ http = [t \in Threads |-> NoStatus]

\* A resource method throws, or the router does; toResponse builds its message.
Throw(t) ==
    /\ pc[t] = "running"
    /\ \E e \in Errors : error' = [error EXCEPT ![t] = e]
    /\ \E s \in Visible(t) : body' = [body EXCEPT ![t] = s]
    /\ pc' = [pc EXCEPT ![t] = "message"]
    /\ UNCHANGED <<STATUS, writers, http>>

\* Mutant of Classify: no more than an else branch, which would reset the field.
ClassifyBothWays(t) ==
    /\ pc[t] = "message"
    /\ STATUS' = IF error[t] = NotFoundException THEN NOT_FOUND ELSE INTERNAL_SERVER_ERROR
    /\ writers' = writers \cup {t}
    /\ pc' = [pc EXCEPT ![t] = "status"]
    /\ UNCHANGED <<error, body, http>>

\* if (error instanceof NotFoundException) STATUS = NOT_FOUND
Classify(t) ==
    /\ pc[t] = "message"
    /\ IF error[t] = NotFoundException
       THEN STATUS' = NOT_FOUND /\ writers' = writers \cup {t}
       ELSE UNCHANGED <<STATUS, writers>>
    /\ pc' = [pc EXCEPT ![t] = "status"]
    /\ UNCHANGED <<error, body, http>>

\* Response.status(STATUS)
Build(t) ==
    /\ pc[t] = "status"
    /\ \E s \in Visible(t) : http' = [http EXCEPT ![t] = s]
    /\ pc' = [pc EXCEPT ![t] = "sent"]
    /\ UNCHANGED <<STATUS, writers, error, body>>

\* Mutant of Send: the next request starts with what is left of this one.
SendKeepsLocals(t) ==
    /\ pc[t] = "sent"
    /\ pc' = [pc EXCEPT ![t] = "running"]
    /\ UNCHANGED <<STATUS, writers, error, body, http>>

\* The response is written, the thread serves its next request.
Send(t) ==
    /\ pc[t] = "sent"
    /\ pc' = [pc EXCEPT ![t] = "running"]
    /\ error' = [error EXCEPT ![t] = "none"]
    /\ body' = [body EXCEPT ![t] = NoStatus]
    /\ http' = [http EXCEPT ![t] = NoStatus]
    /\ UNCHANGED <<STATUS, writers>>

Next == \E t \in Threads : Throw(t) \/ Classify(t) \/ Build(t) \/ Send(t)

Spec == Init /\ [][Next]_vars
-----------------------------------------------------------------------------
(***************************************************************************)
(* Properties.                                                             *)
(***************************************************************************)
Codes == {NoStatus, NOT_FOUND, INTERNAL_SERVER_ERROR}

\* The values the variables take, and which of them go with a step.
TypeOK ==
    /\ STATUS \in {NOT_FOUND, INTERNAL_SERVER_ERROR}
    /\ writers \subseteq Threads
    /\ pc \in [Threads -> {"running", "message", "status", "sent"}]
    /\ error \in [Threads -> Errors \cup {"none"}]
    /\ body \in [Threads -> Codes]
    /\ http \in [Threads -> Codes]
    /\ \A t \in Threads : /\ error[t] = "none" <=> pc[t] = "running"
                          /\ http[t] = NoStatus <=> pc[t] # "sent"

\* A path without resource is answered 404, whatever other threads write to the
\* field meanwhile (a reset of the field by another thread would break it).
UnknownPathAnswers404 ==
    \A t \in Threads :
        pc[t] = "sent" /\ error[t] = NotFoundException => http[t] = NOT_FOUND

(***************************************************************************)
(* Statement of the repository the code departs from.                      *)
(***************************************************************************)

\* "code = 500, message = "Unexpected error"": an exception that is not the router's
\* is answered 500, whatever other requests came before it.
UnexpectedErrorAnswers500 ==
    \A t \in Threads :
        pc[t] = "sent" /\ error[t] # NotFoundException => http[t] = INTERNAL_SERVER_ERROR
=============================================================================

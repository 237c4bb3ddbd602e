------------------------- MODULE QuestionnaireStore -------------------------
(***************************************************************************)
(* What /persistence promises its callers, whatever steps it takes: every  *)
(* call reads or changes the table at one instant between its invocation   *)
(* and its return, or leaves it alone, and the status it returns says      *)
(* which.  Unmapped, the status of an exception nobody expected, is the    *)
(* only one that says nothing: the change may or may not have been made.   *)
(***************************************************************************)
CONSTANTS Threads, Ids, Requests, Complete, Empty, Null, Unmapped

VARIABLES
    table,   \* the questionnaires, Null where there is none
    call,    \* call[t]: the call thread t serves, Null between two calls
    answer   \* answer[t]: what it returns, Null until that is decided

storeVars == <<table, call, answer>>

None == [i \in Ids |-> Null]

Init ==
    /\ table = None
    /\ call = [t \in Threads |-> Null]
    /\ answer = [t \in Threads |-> Null]

Invoke(t) ==
    /\ call[t] = Null
    /\ \E r \in Requests : call' = [call EXCEPT ![t] = r]
    /\ UNCHANGED <<table, answer>>

\* The questionnaire a write is about, and whether it can be carried out.
Target(r) == IF r.op = "create" THEN r.doc.id ELSE r.id

Exists(r) == Target(r) # Null /\ table[Target(r)] # Null

Applicable(r) ==
    CASE r.op = "create" -> Target(r) # Null /\ ~ Exists(r)
      [] r.op \in {"update", "delete"} -> Exists(r)
      [] OTHER -> FALSE

Success(r) == IF r.op = "create" THEN 201 ELSE 204

Pending(t) == call[t] # Null /\ answer[t] = Null

Decide(t, status, rows) ==
    /\ answer' = [answer EXCEPT ![t] = [status |-> status, body |-> rows]]
    /\ UNCHANGED call

\* A write that happens, acknowledged or not.
Commit(t) ==
    /\ Pending(t)
    /\ Applicable(call[t])
    /\ table' = [table EXCEPT ![Target(call[t])] = call[t].doc]
    /\ \E status \in {Success(call[t]), Unmapped} : Decide(t, status, None)

\* A call that changes nothing and says so: 404 only when there is nothing to
\* read or write, 409 only when the id is taken, 400 only for an empty owner.
Refuse(t) ==
    /\ Pending(t)
    /\ \E status \in {400, 401, 403, 404, 409, 500, Unmapped} :
        /\ status = 400 => call[t].owner = Empty
        /\ status \in {401, 403} => call[t].op \in {"update", "delete"}
        /\ status = 404 => \/ call[t].op = "list" /\ table = None
                           \/ call[t].op \in {"get", "update", "delete"} /\ ~ Exists(call[t])
        /\ status = 409 => call[t].op = "create" /\ Exists(call[t])
        /\ Decide(t, status, None)
    /\ UNCHANGED table

\* The rows a reading call selects: always the whole of its selection in one
\* state of the table, and of usable rows only in a metadata list.
Selected(r) ==
    {i \in Ids : /\ table[i] # Null
                 /\ \/ r.op = "get" /\ i = r.id
                    \/ r.op = "list"
                    \/ r.op \in {"search", "meta"} /\ r.owner # Null /\ table[i].owner = r.owner}

Select(t) ==
    LET rows == Selected(call[t]) IN
    /\ Pending(t)
    /\ call[t].op \in {"get", "list", "search", "meta"}
    /\ call[t].op \in {"get", "list"} => rows # {}
    /\ call[t].op = "meta" => \A i \in rows : table[i].content \in Complete
    /\ Decide(t, 200, [i \in Ids |-> IF i \in rows THEN table[i] ELSE Null])
    /\ UNCHANGED table

Return(t) ==
    /\ answer[t] # Null
    /\ call' = [call EXCEPT ![t] = Null]
    /\ answer' = [answer EXCEPT ![t] = Null]
    /\ UNCHANGED table

Next == \E t \in Threads : Invoke(t) \/ Commit(t) \/ Refuse(t) \/ Select(t) \/ Return(t)

Spec == Init /\ [][Next]_storeVars
=============================================================================

--------------------------- MODULE PoguesMetadata ---------------------------
(***************************************************************************)
(* The REST resources /meta-data (PoguesMetadata) and /search              *)
(* (PoguesSearch) down to the remote service they are read from.           *)
(*                                                                         *)
(* Services, repositories and the client are stateless singletons that     *)
(* hand a call on.  What request threads share is the one bean             *)
(* restTemplate: an Apache HTTP client with a pool of connections, which   *)
(* useSystemProperties limits (5 to one server unless http.maxConnections  *)
(* says otherwise), no timeout, and the default retry handler.  Pool and   *)
(* retries are external and modelled by these facts: a thread waits for a  *)
(* connection as long as it takes; a connection carries one request and    *)
(* its response at a time, and goes back when the response was read or is  *)
(* closed when the exchange broke off; a broken exchange is tried again, a *)
(* bounded number of times, when nothing of the response was there yet and *)
(* the request is a GET or was not sent to its end.                        *)
(*                                                                         *)
(* The remote service, ddi-access-services, is external: it asks Colectica *)
(* for items and sets (ColecticaMiddleware) and has texts of its own.      *)
(***************************************************************************)
EXTENDS ColecticaMiddleware

CONSTANTS
    Threads,        \* request threads
    Connections,    \* what the pool may hold: the connections to the one server
    Retries,        \* how often a broken exchange is tried again
    Requests,       \* the requests clients send
    Units,          \* the list of units that is written in MetadataClientImpl
    Burst,          \* bound: how many requests are sent at all
    Faulty          \* whether the network and the remote service may fail

\* Operations that are passed on, by how the path of the remote service ends.
\* items and search are POSTs.
Posts == {"items", "search"}
Gets == {"item", "refs", "ddi", "codeList", "series", "operations", "collections", "context"}
Request ==
         [op : Gets \ {"series"}, arg : ItemIds]
    \cup [op : {"items"}, arg : SUBSET ItemIds]
    \cup [op : {"search", "series", "units"}, arg : {Null}]

\* The text, list or object the remote service itself has for a request.
Text(r) == [of |-> r]

\* What it may answer with status 200: an empty body is Null.
Bodies(r) ==
    CASE r.op = "item"  -> {FindItem(r.arg)}
      [] r.op = "items" -> {PostItems(r.arg)}
      [] r.op = "refs"  -> {GetSet(r.arg)}
      [] OTHER          -> {Text(r), Null}

\* A response the RestTemplate throws an exception for: 4xx and 5xx.
Error == [ok |-> FALSE, body |-> Null]
Replies(r) == [ok : {TRUE}, body : Bodies(r)] \cup (IF Faulty THEN {Error} ELSE {})

\* The status of an exception GenericExceptionMapper is still to give one.
Unmapped == 0
NoItems == <<>>

ASSUME MetadataAssumption ==
    /\ Requests \subseteq Request
    /\ Retries \in Nat
    /\ Burst \in Nat
    /\ Faulty \in BOOLEAN
    /\ Null \notin Connections
    /\ Null \notin Requests

VARIABLES
    pc,         \* pc[t]: what thread t does next
    request,    \* request[t]: the request t serves
    conn,       \* conn[t]: the connection t has leased
    retried,    \* retried[t]: how often t has tried again
    answer,     \* answer[t]: what t answers, once that is decided
    leased,     \* the pool: the connections that are not available
    wire,       \* wire[c]: what is under way on connection c
    left        \* the requests of the burst that are still to come

vars == <<pc, request, conn, retried, answer, leased, wire, left>>
-----------------------------------------------------------------------------
Quiet == [request |-> Null, reply |-> Null]

\* Mutant of GiveBack: the connection is available with its response unread.
GiveBackUnread(t) ==
    /\ leased' = leased \ {conn[t]}
    /\ conn' = [conn EXCEPT ![t] = Null]
    /\ UNCHANGED wire

\* The connection of t is put back or closed, to be opened again when leased.
GiveBack(t) ==
    /\ leased' = leased \ {conn[t]}
    /\ conn' = [conn EXCEPT ![t] = Null]
    /\ wire' = [wire EXCEPT ![conn[t]] = Quiet]

\* Thread t has its answer.
Answer(t, status, body) ==
    /\ pc' = [pc EXCEPT ![t] = "done"]
    /\ answer' = [answer EXCEPT ![t] = [status |-> status, body |-> body]]

Init ==
    /\ pc = [t \in Threads |-> "idle"]
    /\ request = [t \in Threads |-> Null]
    /\ conn = [t \in Threads |-> Null]
    /\ retried = [t \in Threads |-> 0]
    /\ answer = [t \in Threads |-> Null]
    /\ leased = {}
    /\ wire = [c \in Connections |-> Quiet]
    /\ left = Burst

\* A request is dispatched; the units are answered without a remote call.
Receive(t) ==
    /\ pc[t] = "idle"
    /\ left > 0
    /\ left' = left - 1
    /\ \E r \in Requests :
        /\ request' = [request EXCEPT ![t] = r]
        /\ IF r.op = "units"
           THEN Answer(t, 200, Units)
           ELSE /\ pc' = [pc EXCEPT ![t] = "lease"]
                /\ UNCHANGED answer
    /\ retried' = [retried EXCEPT ![t] = 0]
    /\ UNCHANGED <<conn, leased, wire>>

\* The pool gives t a connection, whoever waits longer; there is no time limit.
Lease(t) ==
    /\ pc[t] = "lease"
    /\ \E c \in Connections \ leased :
        /\ leased' = leased \cup {c}
        /\ conn' = [conn EXCEPT ![t] = c]
    /\ pc' = [pc EXCEPT ![t] = "send"]
    /\ UNCHANGED <<request, retried, answer, wire, left>>

\* The server cannot be connected to, which is not tried again.
Refused(t) ==
    /\ Faulty
    /\ pc[t] = "send"
    /\ Answer(t, Unmapped, Null)
    /\ GiveBack(t)
    /\ UNCHANGED <<request, retried, left>>

\* RestTemplate.exchange and getForObject write the request.
Send(t) ==
    /\ pc[t] = "send"
    /\ wire' = [wire EXCEPT ![conn[t]].request = request[t]]
    /\ pc' = [pc EXCEPT ![t] = "read"]
    /\ UNCHANGED <<request, conn, retried, answer, leased, left>>

\* Mutant of Handle: a handler that has no item to answer with does not answer.
HandleWhatIsFound(c) ==
    /\ wire[c].request # Null
    /\ wire[c].reply = Null
    /\ \E reply \in Replies(wire[c].request) :
        /\ wire[c].request.op = "item" => reply.body # Null
        /\ wire' = [wire EXCEPT ![c].reply = reply]
    /\ UNCHANGED <<pc, request, conn, retried, answer, leased, left>>

\* The remote service answers what is sent over connection c.
Handle(c) ==
    /\ wire[c].request # Null
    /\ wire[c].reply = Null
    /\ \E reply \in Replies(wire[c].request) : wire' = [wire EXCEPT ![c].reply = reply]
    /\ UNCHANGED <<pc, request, conn, retried, answer, leased, left>>

\* The connection breaks before a response is read: the exchange is tried again,
\* over the next connection there is, or given up with an exception.
Repeatable(t) == pc[t] = "send" \/ request[t].op \notin Posts

\* Mutant of MayRetry: the retries are counted from the second one.
MayRetryOnceMore(t) == Repeatable(t) /\ retried[t] <= Retries

MayRetry(t) == Repeatable(t) /\ retried[t] < Retries

Break(t) ==
    /\ Faulty
    /\ pc[t] \in {"send", "read"}
    /\ GiveBack(t)
    /\ \/ /\ MayRetry(t)
          /\ pc' = [pc EXCEPT ![t] = "lease"]
          /\ retried' = [retried EXCEPT ![t] = @ + 1]
          /\ UNCHANGED answer
       \/ /\ ~ MayRetry(t)
          /\ Answer(t, Unmapped, Null)
          /\ UNCHANGED retried
    /\ UNCHANGED <<request, left>>
-----------------------------------------------------------------------------
\* Thread t, which serves one of the operations ops, has read its response and
\* given the connection back; the rest of the method is computed from it.
Received(t, ops) ==
    /\ pc[t] = "read"
    /\ request[t].op \in ops
    /\ wire[conn[t]].reply # Null
    /\ GiveBack(t)
    /\ UNCHANGED <<request, retried, left>>

Body(t) == wire[conn[t]].reply.body
Succeeded(t) == wire[conn[t]].reply.ok

\* Mutant of Throws: the response of an exception is not closed.
ThrowsUnclosed(t) ==
    /\ pc[t] = "read"
    /\ wire[conn[t]].reply # Null
    /\ ~ Succeeded(t) \/ Faulty
    /\ Answer(t, Unmapped, Null)
    /\ UNCHANGED <<request, conn, retried, leased, wire, left>>

\* The RestTemplate throws: for an error status, or because the connection broke
\* while the body was read, which is too late to try again.
Throws(t) ==
    /\ Received(t, Gets \cup Posts)
    /\ ~ Succeeded(t) \/ Faulty
    /\ Answer(t, Unmapped, Null)

\* getItem and getChildrenRef answer what they got, an empty entity included.
PassOn(t) ==
    /\ Received(t, {"item", "refs"})
    /\ Succeeded(t)
    /\ Answer(t, 200, Body(t))

\* Arrays.asList(response.getBody()): an empty body is a NullPointerException.
AsList(t) ==
    /\ Received(t, {"items", "series", "operations", "collections"})
    /\ Succeeded(t)
    /\ Answer(t, IF Body(t) = Null THEN Unmapped ELSE 200, Body(t))

\* findByLabel looks first whether there is a body.
Search(t) ==
    /\ Received(t, {"search"})
    /\ Succeeded(t)
    /\ Answer(t, 200, IF Body(t) = Null THEN NoItems ELSE Body(t))

\* The resource returns the object itself: none is answered 204.
GetDataCollectionContext(t) ==
    /\ Received(t, {"context"})
    /\ Succeeded(t)
    /\ Answer(t, IF Body(t) = Null THEN 204 ELSE 200, Body(t))

\* The text is written while the response is under way; an exception in there,
\* as there being no text, is made a PoguesException.
GetFullDDI(t) ==
    /\ Received(t, {"ddi"})
    /\ Succeeded(t)
    /\ Answer(t, IF Body(t) = Null THEN 500 ELSE 200, Body(t))

\* The service returns null for the code list it got, the resource writes nothing.
GetCodeList(t) ==
    /\ Received(t, {"codeList"})
    /\ Succeeded(t)
    /\ Answer(t, 200, Null)

Read(t) ==
    \/ Throws(t)
    \/ PassOn(t)
    \/ AsList(t)
    \/ Search(t)
    \/ GetDataCollectionContext(t)
    \/ GetFullDDI(t)
    \/ GetCodeList(t)

\* The answer is sent and the thread goes back to the container.
Respond(t) ==
    /\ pc[t] = "done"
    /\ pc' = [pc EXCEPT ![t] = "idle"]
    /\ request' = [request EXCEPT ![t] = Null]
    /\ answer' = [answer EXCEPT ![t] = Null]
    /\ UNCHANGED <<conn, retried, leased, wire, left>>

\* What t does of itself.
Step(t) == Lease(t) \/ Send(t) \/ Read(t) \/ Respond(t)

\* The burst is over, which is not a deadlock.
Rest ==
    /\ left = 0
    /\ \A t \in Threads : pc[t] = "idle"
    /\ UNCHANGED vars

Next ==
    \/ \E c \in Connections : Handle(c)
    \/ \E t \in Threads : Receive(t) \/ Step(t) \/ Refused(t) \/ Break(t)
    \/ Rest

\* The threads are scheduled, and the remote service answers what it gets: each
\* handler of the stand-in ends in jsonp.  Nothing else makes a thread that
\* reads come to an end, for no timeout is set.
Fairness ==
    /\ \A c \in Connections : WF_vars(Handle(c))
    /\ \A t \in Threads : WF_vars(Step(t))

Spec == Init /\ [][Next]_vars /\ Fairness
-----------------------------------------------------------------------------
(***************************************************************************)
(* Properties.                                                             *)
(***************************************************************************)

\* The values the variables take: what is under way on a connection is a request
\* and a response that belongs to it, and only a thread in the middle of an
\* exchange has a connection.
TypeOK ==
    /\ pc \in [Threads -> {"idle", "lease", "send", "read", "done"}]
    /\ request \in [Threads -> Requests \cup {Null}]
    /\ conn \in [Threads -> Connections \cup {Null}]
    /\ retried \in [Threads -> 0 .. Retries]
    /\ leased \subseteq Connections
    /\ left \in 0 .. Burst
    /\ answer = [t \in Threads |-> answer[t]]
    /\ wire = [c \in Connections |-> [request |-> wire[c].request, reply |-> wire[c].reply]]
    /\ \A c \in Connections :
        /\ wire[c].request \in Requests \cup {Null}
        /\ wire[c].reply = Null \/ wire[c].reply \in Replies(wire[c].request)
    /\ \A t \in Threads :
        /\ pc[t] = "idle" <=> request[t] = Null
        /\ pc[t] # "done" => answer[t] = Null
        /\ pc[t] \in {"send", "read"} <=> conn[t] # Null

\* The pool (PoolingHttpClientConnectionManager under restTemplate) loses no
\* connection and lends none twice: what is not available is what the threads in
\* the middle of an exchange hold, one each, and only on it anything is under way.
PoolAccounted ==
    /\ leased = {conn[t] : t \in Threads} \ {Null}
    /\ \A t, u \in Threads : conn[t] = conn[u] /\ conn[t] # Null => t = u
    /\ \A c \in Connections : wire[c] # Quiet =>
        \E t \in Threads : conn[t] = c /\ pc[t] = "read" /\ wire[c].request = request[t]

\* What the remote service has for r: of the stand-in by the contents of db.json
\* alone, of its own the text there is.  Two operations may come to nothing: a search
\* without a body, and a code list always, the service dropping the one it got.
Belongs(r, body) ==
    CASE r.op = "item"   -> IF \E k \in DOMAIN Items : Items[k] = [Identifier |-> r.arg]
                            THEN body # Null /\ body.Identifier = r.arg
                            ELSE body = Null
      [] r.op = "items"  -> \A id \in r.arg :
                                (\E k \in DOMAIN Items : Items[k] = [Identifier |-> id]) =>
                                \E k \in DOMAIN body : body[k] = [Identifier |-> id]
      [] r.op = "refs"   -> Set \subseteq body
      [] r.op = "units"  -> body = Units
      [] r.op = "search" -> body \in {Text(r), NoItems}
      [] r.op = "codeList" -> body = Null
      [] OTHER           -> body = Text(r)

\* A client of /meta-data and /search that is answered with success gets what
\* belongs to its own request, through shared connections, retries, errors of
\* other threads and the stand-in: never the item another thread asked for, never
\* nothing for an item there is, every item it posted a reference to, and never an
\* empty list, text or object for a response that had no body.
AnswerBelongs ==
    \A t \in Threads :
        pc[t] = "done" /\ answer[t].status = 200 => Belongs(request[t], answer[t].body)

\* Every request of a finite burst is answered in the end, though there are fewer
\* connections than threads, exchanges break and the remote service answers with
\* errors or nothing.  It rests on every exchange giving its connection back,
\* because waiting for one has no time limit.
RequestsEnd == \A t \in Threads : pc[t] # "idle" ~> pc[t] = "idle"

(***************************************************************************)
(* Statements of the repository the code departs from.                     *)
(***************************************************************************)

\* "Gets the code-list with id {id}": a code list there is is what is answered.
CodeListIsAnswered ==
    \A t \in Threads :
        pc[t] = "done" /\ answer[t].status = 200 /\ request[t].op = "codeList" =>
            answer[t].body = Text(request[t])

\* /meta-data/items is documented to map a list of references to items: what is
\* answered are items that were asked for.
ItemsAreThoseAsked ==
    \A t \in Threads :
        pc[t] = "done" /\ answer[t].status = 200 /\ request[t].op = "items" =>
            \A k \in DOMAIN answer[t].body :
                \E id \in request[t].arg : answer[t].body[k] = [Identifier |-> id]
=============================================================================

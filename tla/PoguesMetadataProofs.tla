----------------------- MODULE PoguesMetadataProofs -----------------------
(***************************************************************************)
(* Theorems about PoguesMetadata, for any threads, connections, database,  *)
(* number of retries and burst.  AnswerBelongs follows from what is under  *)
(* way on a connection being the holder's own (PoolAccounted), which needs *)
(* the types; together they are inductive.                                 *)
(***************************************************************************)
EXTENDS PoguesMetadata, WellFoundedInduction, TLAPS

\* A set of numbers has a least one: find has a first match.
LEMMA LeastElement ==
    ASSUME NEW S, S \subseteq Nat, S # {}
    PROVE  \E k \in S : \A l \in S : k <= l
<1>1. \E k \in S : \A l \in S : ~ (<<l, k>> \in OpToRel(<, Nat))
    BY NatLessThanWellFounded, WFMin
<1>2. PICK k \in S : \A l \in S : ~ (<<l, k>> \in OpToRel(<, Nat))
    BY <1>1
<1>3. \A l \in S : ~ (l < k)
    BY <1>2 DEF OpToRel
<1> QED
    BY <1>3

\* GET /items/:id answers an item of that identifier if there is one, and only then
\* something.
LEMMA FindItemFinds ==
    ASSUME NEW id \in ItemIds
    PROVE  IF \E k \in DOMAIN Items : Items[k] = [Identifier |-> id]
           THEN FindItem(id) # Null /\ FindItem(id).Identifier = id
           ELSE FindItem(id) = Null
<1>1. Items \in Seq(Item \cup {Null}) /\ Null \notin Item
    BY ColecticaAssumption
<1>2. Matching(id) = {k \in DOMAIN Items : Items[k] = [Identifier |-> id]}
    BY <1>1 DEF Matching, Item
<1>3. CASE Matching(id) = {}
    BY <1>2, <1>3 DEF FindItem
<1>4. CASE Matching(id) # {}
    <2>1. Matching(id) \subseteq Nat
        BY <1>1, <1>2
    <2>2. \E k \in Matching(id) : \A l \in Matching(id) : k <= l
        BY <2>1, <1>4, LeastElement
    <2>3. PICK k \in Matching(id) : FindItem(id) = Items[k]
        BY <1>4, <2>2 DEF FindItem
    <2> QED
        BY <1>2, <2>3 DEF Matching
<1> QED
    BY <1>3, <1>4

\* What the remote service answers with success belongs to the request, but for an
\* empty body where there should be a list, a text or an object.
LEMMA BodiesBelong ==
    ASSUME NEW r \in Requests, NEW body \in Bodies(r), r.op \notin {"search", "units", "codeList"},
           body # Null \/ r.op \in {"item", "items", "refs"}
    PROVE  Belongs(r, body)
<1>1. r \in Request
    BY MetadataAssumption
<1>2. CASE r.op = "item"
    <2>1. r.arg \in ItemIds
        BY <1>1, <1>2 DEF Request, Gets
    <2>2. body = FindItem(r.arg)
        BY <1>2 DEF Bodies
    <2> QED
        BY <1>2, <2>1, <2>2, FindItemFinds DEF Belongs
<1>3. CASE r.op = "items"
    BY <1>3 DEF Bodies, Belongs, PostItems
<1>4. CASE r.op = "refs"
    BY <1>4 DEF Bodies, Belongs, GetSet
<1>5. CASE r.op \notin {"item", "items", "refs", "units", "codeList"}
    BY <1>5 DEF Bodies, Belongs
<1> QED
    BY <1>2, <1>3, <1>4, <1>5

\* What the pool and a thread in the middle of an exchange know of each other.
LEMMA Exchange ==
    ASSUME TypeOK, PoolAccounted, NEW t \in Threads, pc[t] \in {"send", "read"}
    PROVE  /\ conn[t] \in Connections
           /\ conn[t] \in leased
           /\ request[t] \in Requests
           /\ answer[t] = Null
           /\ \A u \in Threads : u # t => conn[u] # conn[t]
           /\ wire[conn[t]].request \in {Null, request[t]}
           /\ wire[conn[t]].reply = Null
              \/ wire[conn[t]].reply \in Replies(wire[conn[t]].request)
<1>1. conn[t] \in Connections
    BY DEF TypeOK
<1>2. conn[t] # Null
    BY <1>1, MetadataAssumption
<1>3. wire[conn[t]].request \in {Null, request[t]}
    BY <1>1, <1>2 DEF PoolAccounted, Quiet
<1> QED
    BY <1>1, <1>2, <1>3 DEF TypeOK, PoolAccounted

\* Giving a connection back leaves the pool and the threads accounted for; the
\* step of t it is part of takes t out of its exchange.
LEMMA GiveBackKeepsAccount ==
    ASSUME TypeOK, PoolAccounted, NEW t \in Threads, pc[t] \in {"send", "read"},
           GiveBack(t), NEW l \in {"lease", "done"}, pc' = [pc EXCEPT ![t] = l],
           UNCHANGED request
    PROVE  /\ PoolAccounted'
           /\ conn' \in [Threads -> Connections \cup {Null}]
           /\ leased' \subseteq Connections
           /\ wire' = [c \in Connections |-> [request |-> wire'[c].request, reply |-> wire'[c].reply]]
           /\ \A c \in Connections :
                /\ wire'[c].request \in Requests \cup {Null}
                /\ wire'[c].reply = Null \/ wire'[c].reply \in Replies(wire'[c].request)
           /\ \A u \in Threads : pc'[u] \in {"send", "read"} <=> conn'[u] # Null
<1> USE Exchange, MetadataAssumption DEF GiveBack
<1>1. conn' \in [Threads -> Connections \cup {Null}] /\ leased' \subseteq Connections
    BY DEF TypeOK
<1>2. conn'[t] = Null /\ \A u \in Threads : u # t => conn'[u] = conn[u]
    BY DEF TypeOK
<1>3. wire'[conn[t]] = Quiet /\ \A c \in Connections : c # conn[t] => wire'[c] = wire[c]
    BY DEF TypeOK
<1>4. \A c \in Connections :
        /\ wire'[c].request \in Requests \cup {Null}
        /\ wire'[c].reply = Null \/ wire'[c].reply \in Replies(wire'[c].request)
    BY <1>3 DEF TypeOK, Quiet
<1>5. wire' = [c \in Connections |-> [request |-> wire'[c].request, reply |-> wire'[c].reply]]
    BY <1>3 DEF TypeOK, Quiet
<1>6. pc'[t] = l /\ \A u \in Threads : u # t => pc'[u] = pc[u]
    BY DEF TypeOK
<1>7. \A u \in Threads : pc'[u] \in {"send", "read"} <=> conn'[u] # Null
    BY <1>2, <1>6 DEF TypeOK
<1>8. PoolAccounted'
    <2>1. leased' = {conn'[u] : u \in Threads} \ {Null}
        BY <1>2 DEF PoolAccounted
    <2>2. \A u, v \in Threads : conn'[u] = conn'[v] /\ conn'[u] # Null => u = v
        BY <1>2 DEF PoolAccounted
    <2>3. \A c \in Connections : wire'[c] # Quiet =>
            \E u \in Threads : conn'[u] = c /\ pc'[u] = "read" /\ wire'[c].request = request'[u]
        BY <1>2, <1>3, <1>6 DEF PoolAccounted
    <2> QED
        BY <2>1, <2>2, <2>3 DEF PoolAccounted, Quiet
<1> QED
    BY <1>1, <1>4, <1>5, <1>7, <1>8

Inv == TypeOK /\ PoolAccounted /\ AnswerBelongs

\* A thread that reads a response that came gets its answer by one of the methods.
LEMMA AnswerKeeps ==
    ASSUME Inv, NEW t \in Threads, pc[t] \in {"send", "read"}, GiveBack(t),
           NEW status, NEW body, Answer(t, status, body),
           status = 200 => Belongs(request[t], body),
           UNCHANGED <<request, retried, left>>
    PROVE  Inv'
<1> USE DEF Inv
<1>1. pc' = [pc EXCEPT ![t] = "done"] /\ answer' = [answer EXCEPT ![t] = [status |-> status, body |-> body]]
    BY DEF Answer
<1>2. TypeOK'
    BY <1>1, GiveBackKeepsAccount, MetadataAssumption DEF TypeOK
<1>3. PoolAccounted'
    BY <1>1, GiveBackKeepsAccount
<1>4. answer'[t] = [status |-> status, body |-> body]
    BY <1>1 DEF TypeOK
<1>5. \A u \in Threads : u # t => answer'[u] = answer[u] /\ pc'[u] = pc[u]
    BY <1>1 DEF TypeOK
<1>6. AnswerBelongs'
    <2> SUFFICES ASSUME NEW u \in Threads, pc'[u] = "done", answer'[u].status = 200
                 PROVE  Belongs(request[u], answer'[u].body)
        BY DEF AnswerBelongs, Belongs, Text
    <2>1. CASE u = t
        BY <2>1, <1>4
    <2>2. CASE u # t
        BY <2>2, <1>5 DEF AnswerBelongs
    <2> QED
        BY <2>1, <2>2
<1> QED
    BY <1>2, <1>3, <1>6

\* A response with success carries one of the bodies there may be.
LEMMA SuccessHasBody ==
    ASSUME NEW r, NEW reply \in Replies(r), reply.ok
    PROVE  reply.body \in Bodies(r)
<1>1. reply # Error
    BY DEF Error
<1>2. reply \in [ok : {TRUE}, body : Bodies(r)]
    BY <1>1 DEF Replies
<1> QED
    BY <1>2

\* The response a thread reads is one to its own request.
LEMMA ReplyBelongs ==
    ASSUME Inv, NEW t \in Threads, NEW ops, Received(t, ops)
    PROVE  /\ request[t] \in Requests
           /\ wire[conn[t]].reply \in Replies(request[t])
           /\ Succeeded(t) => Body(t) \in Bodies(request[t])
<1>1. pc[t] = "read" /\ wire[conn[t]].reply # Null
    BY DEF Received
<1>2. conn[t] \in Connections /\ request[t] \in Requests
    BY <1>1, Exchange DEF Inv
<1>3. wire[conn[t]] # Quiet
    BY <1>1 DEF Quiet
<1>4. wire[conn[t]].request = request[t]
    <2>1. PICK u \in Threads : conn[u] = conn[t] /\ wire[conn[t]].request = request[u]
        BY <1>2, <1>3 DEF Inv, PoolAccounted
    <2>2. u = t
        BY <2>1, <1>1, Exchange DEF Inv
    <2> QED
        BY <2>1, <2>2
<1>5. wire[conn[t]].reply \in Replies(request[t])
    BY <1>1, <1>2, <1>4 DEF Inv, TypeOK
<1>6. Succeeded(t) => Body(t) \in Bodies(request[t])
    BY <1>5, SuccessHasBody DEF Succeeded, Body
<1> QED
    BY <1>2, <1>5, <1>6

LEMMA ReadKeeps ==
    ASSUME Inv, NEW t \in Threads, Read(t)
    PROVE  Inv'
<1> USE AnswerKeeps, ReplyBelongs, BodiesBelong DEF Received
<1>1. CASE Throws(t)
    BY <1>1 DEF Throws, Unmapped
<1>2. CASE PassOn(t)
    BY <1>2 DEF PassOn
<1>3. CASE AsList(t)
    <2> DEFINE status == IF Body(t) = Null THEN Unmapped ELSE 200
    <2>1. /\ Received(t, {"items", "series", "operations", "collections"})
          /\ Succeeded(t)
          /\ Answer(t, status, Body(t))
        BY <1>3 DEF AsList
    <2>2. Body(t) \in Bodies(request[t]) /\ request[t] \in Requests
        BY <2>1
    <2>3. request[t].op \notin {"search", "units", "codeList"}
        BY <2>1
    <2>4. status = 200 => Belongs(request[t], Body(t))
        BY <2>2, <2>3 DEF Unmapped
    <2> HIDE DEF status
    <2> QED
        BY <2>1, <2>4
<1>4. CASE Search(t)
    <2>1. Body(t) \in {Text(request[t]), Null}
        BY <1>4 DEF Search, Bodies
    <2> QED
        BY <1>4, <2>1 DEF Search, Belongs
<1>5. CASE GetDataCollectionContext(t)
    <2> DEFINE status == IF Body(t) = Null THEN 204 ELSE 200
    <2>1. Received(t, {"context"}) /\ Succeeded(t) /\ Answer(t, status, Body(t))
        BY <1>5 DEF GetDataCollectionContext
    <2>2. Body(t) \in Bodies(request[t]) /\ request[t] \in Requests /\ request[t].op = "context"
        BY <2>1
    <2>3. status = 200 => Belongs(request[t], Body(t))
        BY <2>2
    <2> HIDE DEF status
    <2> QED
        BY <2>1, <2>3
<1>6. CASE GetFullDDI(t)
    <2> DEFINE status == IF Body(t) = Null THEN 500 ELSE 200
    <2>1. Received(t, {"ddi"}) /\ Succeeded(t) /\ Answer(t, status, Body(t))
        BY <1>6 DEF GetFullDDI
    <2>2. Body(t) \in Bodies(request[t]) /\ request[t] \in Requests /\ request[t].op = "ddi"
        BY <2>1
    <2>3. status = 200 => Belongs(request[t], Body(t))
        BY <2>2
    <2> HIDE DEF status
    <2> QED
        BY <2>1, <2>3
<1>7. CASE GetCodeList(t)
    BY <1>7 DEF GetCodeList, Belongs
<1> QED
    BY <1>1, <1>2, <1>3, <1>4, <1>5, <1>6, <1>7 DEF Read

\* Belongs speaks of constants only: it is the same in the next state.
LEMMA AnswersStay ==
    ASSUME AnswerBelongs,
           \A t \in Threads : pc'[t] = "done" =>
               pc[t] = "done" /\ answer'[t] = answer[t] /\ request'[t] = request[t]
    PROVE  AnswerBelongs'
<1> SUFFICES ASSUME NEW t \in Threads, pc'[t] = "done", answer'[t].status = 200
             PROVE  Belongs(request'[t], answer'[t].body)
    BY DEF AnswerBelongs, Belongs, Text
<1> QED
    BY DEF AnswerBelongs

LEMMA InitInv == Init => Inv
<1> SUFFICES ASSUME Init PROVE Inv
    OBVIOUS
<1> USE MetadataAssumption DEF Init
<1>1. TypeOK
    BY DEF TypeOK, Quiet
<1>2. PoolAccounted
    BY DEF PoolAccounted
<1>3. AnswerBelongs
    BY DEF AnswerBelongs
<1> QED
    BY <1>1, <1>2, <1>3 DEF Inv

LEMMA ReceiveKeeps ==
    ASSUME Inv, NEW t \in Threads, Receive(t)
    PROVE  Inv'
<1> USE MetadataAssumption DEF Inv, Receive
<1>1. PICK r \in Requests :
        /\ request' = [request EXCEPT ![t] = r]
        /\ \/ r.op = "units" /\ Answer(t, 200, Units)
           \/ pc' = [pc EXCEPT ![t] = "lease"] /\ UNCHANGED answer
    OBVIOUS
<1>2. PICK l \in {"lease", "done"} : pc' = [pc EXCEPT ![t] = l]
    BY <1>1 DEF Answer
<1>3. TypeOK'
    BY <1>1, <1>2 DEF TypeOK, Answer
<1>4. PoolAccounted'
    BY <1>1, <1>2 DEF TypeOK, PoolAccounted, Quiet
<1>5. AnswerBelongs'
    <2> SUFFICES ASSUME NEW u \in Threads, pc'[u] = "done", answer'[u].status = 200
                 PROVE  Belongs(request'[u], answer'[u].body)
        BY DEF AnswerBelongs, Belongs, Text
    <2>1. CASE u = t
        <3>1. r.op = "units" /\ answer'[t] = [status |-> 200, body |-> Units] /\ request'[t] = r
            BY <2>1, <1>1 DEF TypeOK, Answer
        <3> QED
            BY <2>1, <3>1 DEF Belongs
    <2>2. CASE u # t
        <3>1. pc'[u] = pc[u] /\ answer'[u] = answer[u] /\ request'[u] = request[u]
            BY <2>2, <1>1, <1>2 DEF TypeOK, Answer
        <3> QED
            BY <3>1 DEF AnswerBelongs
    <2> QED
        BY <2>1, <2>2
<1> QED
    BY <1>3, <1>4, <1>5

LEMMA BreakKeeps ==
    ASSUME Inv, NEW t \in Threads, Break(t)
    PROVE  Inv'
<1>1. CASE MayRetry(t)
    <2> USE <1>1, MetadataAssumption DEF Break, Inv
    <2>1. /\ pc[t] \in {"send", "read"}
          /\ GiveBack(t)
          /\ pc' = [pc EXCEPT ![t] = "lease"]
          /\ retried' = [retried EXCEPT ![t] = @ + 1]
          /\ UNCHANGED <<answer, request, left>>
        OBVIOUS
    <2>2. retried' \in [Threads -> 0 .. Retries]
        BY <2>1 DEF TypeOK, MayRetry
    <2>3. answer[t] = Null
        BY <2>1 DEF TypeOK
    <2>4. TypeOK'
        BY <2>1, <2>2, <2>3, GiveBackKeepsAccount DEF TypeOK
    <2>5. PoolAccounted'
        BY <2>1, GiveBackKeepsAccount
    <2>6. AnswerBelongs'
        BY <2>1, AnswersStay DEF TypeOK
    <2> QED
        BY <2>4, <2>5, <2>6
<1>2. CASE ~ MayRetry(t)
    BY <1>2, AnswerKeeps DEF Break, Unmapped
<1> QED
    BY <1>1, <1>2

LEMMA LeaseKeeps ==
    ASSUME Inv, NEW t \in Threads, Lease(t)
    PROVE  Inv'
<1> USE MetadataAssumption DEF Inv, Lease
<1>1. PICK c \in Connections \ leased :
        leased' = leased \cup {c} /\ conn' = [conn EXCEPT ![t] = c]
    OBVIOUS
<1>2. conn[t] = Null
    BY DEF TypeOK
<1>3. conn'[t] = c /\ \A u \in Threads : u # t => conn'[u] = conn[u] /\ conn[u] # c
    BY <1>1 DEF TypeOK, PoolAccounted
<1>4. pc'[t] = "send" /\ \A u \in Threads : u # t => pc'[u] = pc[u]
    BY DEF TypeOK
<1>5. TypeOK'
    BY <1>1, <1>3, <1>4 DEF TypeOK
<1>6. PoolAccounted'
    <2>1. leased' = {conn'[u] : u \in Threads} \ {Null}
        BY <1>1, <1>2, <1>3 DEF PoolAccounted
    <2>2. \A u, v \in Threads : conn'[u] = conn'[v] /\ conn'[u] # Null => u = v
        BY <1>3 DEF PoolAccounted
    <2>3. \A d \in Connections : wire[d] # Quiet =>
            \E u \in Threads : conn'[u] = d /\ pc'[u] = "read" /\ wire[d].request = request[u]
        BY <1>3, <1>4 DEF PoolAccounted
    <2> QED
        BY <2>1, <2>2, <2>3 DEF PoolAccounted, Quiet
<1>7. AnswerBelongs'
    BY <1>4, AnswersStay
<1> QED
    BY <1>5, <1>6, <1>7

LEMMA SendKeeps ==
    ASSUME Inv, NEW t \in Threads, Send(t)
    PROVE  Inv'
<1> USE MetadataAssumption DEF Inv, Send
<1>1. /\ conn[t] \in Connections
      /\ request[t] \in Requests
      /\ \A u \in Threads : u # t => conn[u] # conn[t]
    BY Exchange
<1>2. wire[conn[t]] = Quiet
    <2> SUFFICES ASSUME wire[conn[t]] # Quiet PROVE FALSE
        OBVIOUS
    <2>1. PICK u \in Threads : conn[u] = conn[t] /\ pc[u] = "read"
        BY <1>1 DEF PoolAccounted
    <2> QED
        BY <2>1, <1>1
<1>3. /\ wire'[conn[t]] = [request |-> request[t], reply |-> Null]
      /\ \A c \in Connections : c # conn[t] => wire'[c] = wire[c]
    BY <1>1, <1>2 DEF TypeOK, Quiet
<1>4. pc'[t] = "read" /\ \A u \in Threads : u # t => pc'[u] = pc[u]
    BY DEF TypeOK
<1>5. /\ wire' = [c \in Connections |-> [request |-> wire'[c].request, reply |-> wire'[c].reply]]
      /\ \A c \in Connections :
            /\ wire'[c].request \in Requests \cup {Null}
            /\ wire'[c].reply = Null \/ wire'[c].reply \in Replies(wire'[c].request)
    <2>1. \A c \in Connections :
            /\ wire'[c] = [request |-> wire'[c].request, reply |-> wire'[c].reply]
            /\ wire'[c].request \in Requests \cup {Null}
            /\ wire'[c].reply = Null \/ wire'[c].reply \in Replies(wire'[c].request)
        BY <1>1, <1>3 DEF TypeOK
    <2>2. wire' = [c \in Connections |-> wire'[c]]
        BY DEF TypeOK
    <2> QED
        BY <2>1, <2>2
<1>6. TypeOK'
    BY <1>4, <1>5 DEF TypeOK
<1>7. PoolAccounted'
    <2>1. \A c \in Connections : wire'[c] # Quiet =>
            \E u \in Threads : conn[u] = c /\ pc'[u] = "read" /\ wire'[c].request = request[u]
        BY <1>3, <1>4 DEF PoolAccounted
    <2> QED
        BY <2>1 DEF PoolAccounted, Quiet
<1>8. AnswerBelongs'
    BY <1>4, AnswersStay
<1> QED
    BY <1>6, <1>7, <1>8

LEMMA HandleKeeps ==
    ASSUME Inv, NEW c \in Connections, Handle(c)
    PROVE  Inv'
<1> USE MetadataAssumption DEF Inv, Handle
<1>1. PICK reply \in Replies(wire[c].request) : wire' = [wire EXCEPT ![c].reply = reply]
    OBVIOUS
<1>2. /\ wire'[c] = [request |-> wire[c].request, reply |-> reply]
      /\ \A d \in Connections : d # c => wire'[d] = wire[d]
    BY <1>1 DEF TypeOK
<1>3. \A d \in Connections :
        /\ wire'[d] = [request |-> wire'[d].request, reply |-> wire'[d].reply]
        /\ wire'[d].request = wire[d].request
        /\ wire'[d].reply = Null \/ wire'[d].reply \in Replies(wire'[d].request)
    BY <1>2 DEF TypeOK
<1>4. wire' = [d \in Connections |-> wire'[d]]
    BY <1>1 DEF TypeOK
<1>5. wire' = [d \in Connections |-> [request |-> wire'[d].request, reply |-> wire'[d].reply]]
    BY <1>3, <1>4
<1>6. TypeOK'
    BY <1>3, <1>5 DEF TypeOK
<1>7. PoolAccounted'
    <2>1. \A d \in Connections : wire'[d] # Quiet => wire[d] # Quiet
        BY <1>2 DEF Quiet
    <2> QED
        BY <2>1, <1>3 DEF PoolAccounted, Quiet
<1>8. AnswerBelongs'
    BY AnswersStay
<1> QED
    BY <1>6, <1>7, <1>8

LEMMA RespondKeeps ==
    ASSUME Inv, NEW t \in Threads, Respond(t)
    PROVE  Inv'
<1> USE MetadataAssumption DEF Inv, Respond
<1>1. /\ pc'[t] = "idle" /\ request'[t] = Null
      /\ \A u \in Threads : u # t => pc'[u] = pc[u] /\ request'[u] = request[u] /\ answer'[u] = answer[u]
    BY DEF TypeOK
<1>2. TypeOK'
    BY <1>1 DEF TypeOK
<1>3. PoolAccounted'
    BY <1>1 DEF PoolAccounted, Quiet
<1>4. AnswerBelongs'
    BY <1>1, AnswersStay
<1> QED
    BY <1>2, <1>3, <1>4

LEMMA NextInv == Inv /\ [Next]_vars => Inv'
<1> SUFFICES ASSUME Inv, [Next]_vars PROVE Inv'
    OBVIOUS
<1>1. ASSUME NEW c \in Connections, Handle(c) PROVE Inv'
    BY <1>1, HandleKeeps
<1>2. ASSUME NEW t \in Threads, Receive(t) PROVE Inv'
    BY <1>2, ReceiveKeeps
<1>3. ASSUME NEW t \in Threads, Step(t) PROVE Inv'
    BY <1>3, LeaseKeeps, SendKeeps, ReadKeeps, RespondKeeps DEF Step
<1>4. ASSUME NEW t \in Threads, Refused(t) PROVE Inv'
    BY <1>4, AnswerKeeps DEF Refused, Unmapped
<1>5. ASSUME NEW t \in Threads, Break(t) PROVE Inv'
    BY <1>5, BreakKeeps
<1>6. CASE UNCHANGED vars
    <2> USE <1>6 DEF vars, Inv
    <2>1. TypeOK'
        BY DEF TypeOK
    <2>2. PoolAccounted'
        BY DEF PoolAccounted, Quiet
    <2>3. AnswerBelongs'
        BY AnswersStay
    <2> QED
        BY <2>1, <2>2, <2>3
<1> QED
    BY <1>1, <1>2, <1>3, <1>4, <1>5, <1>6 DEF Next, Rest

\* Every variable of PoguesMetadata keeps its type.
THEOREM TypeCorrect == Spec => []TypeOK
<1>1. Inv => TypeOK
    BY DEF Inv
<1> QED
    BY <1>1, InitInv, NextInv, PTL DEF Spec

\* The pool loses no connection and lends none twice, and nothing is under way on
\* a connection but the request of the thread that holds it.
THEOREM PoolIsAccounted == Spec => []PoolAccounted
<1>1. Inv => PoolAccounted
    BY DEF Inv
<1> QED
    BY <1>1, InitInv, NextInv, PTL DEF Spec

\* An answer with success is what belongs to the request it answers.
THEOREM AnswersBelong == Spec => []AnswerBelongs
<1>1. Inv => AnswerBelongs
    BY DEF Inv
<1> QED
    BY <1>1, InitInv, NextInv, PTL DEF Spec
=============================================================================

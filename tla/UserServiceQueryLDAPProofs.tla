--------------------- MODULE UserServiceQueryLDAPProofs ---------------------
(***************************************************************************)
(* Theorems about UserServiceQueryLDAP, for any threads, lookups, entries  *)
(* and connections.  The invariant says of a lookup that runs alone that   *)
(* the field holds its own connection, open until it closes it; of every   *)
(* other one only that what it has found is what the directory has.        *)
(***************************************************************************)
EXTENDS UserServiceQueryLDAP, TLAPS

\* The types, and what goes with a step and TypeOK does not say.
InStep ==
    \A t \in Threads :
        /\ pc[t] \in {"idle", "connect"} => own[t] = Null
        /\ pc[t] \in {"connect", "search", "read", "close"} =>
              ~ (lookup[t].op = "user" /\ Authentication = "false")

\* A lookup beside which no other one ran has the directory to itself.
Alone ==
    \A t \in Busy \ overlapped :
        /\ Busy = {t}
        /\ pc[t] \in {"search", "read"} => context = own[t] /\ own[t] \in live
        /\ pc[t] = "close" /\ own[t] # Null => context = own[t]
        /\ pc[t] = "return" => own[t] \notin live

\* What was found is what there is, and what failed failed for a reason.
Settled(t) ==
    IF outcome[t] = Failed
    THEN t \in refused \/ t \in overlapped \/ Incomplete \in Range(Entries[lookup[t]])
    ELSE IF lookup[t].op = "user" /\ Authentication = "false"
    THEN outcome[t].value = Guest
    ELSE outcome[t].value = Collect(lookup[t]) /\ Incomplete \notin Range(Entries[lookup[t]])

Outcomes == \A t \in Threads : pc[t] \in {"close", "return"} => Settled(t)

Inv == TypeOK /\ InStep /\ Alone /\ Outcomes

LEMMA FoundIsNotFailed ==
    ASSUME NEW value
    PROVE  Found(value) # Failed /\ Found(value).value = value
BY DEF Found, Failed

LEMMA SettledStays ==
    ASSUME NEW t \in Threads, Settled(t), UNCHANGED <<lookup[t], outcome[t]>>,
           t \in refused => t \in refused', t \in overlapped => t \in overlapped'
    PROVE  Settled(t)'
<1>1. Collect(lookup[t])' = Collect(lookup[t])
    <2>1. Collect(lookup[t])' = Collect(lookup'[t])
        OBVIOUS
    <2>2. Collect(lookup'[t]) = Collect(lookup[t])
        OBVIOUS
    <2> QED
        BY <2>1, <2>2
<1>2. Range(Entries[lookup[t]])' = Range(Entries[lookup[t]])
    BY Zenon DEF Range
<1> QED
    BY <1>1, <1>2 DEF Settled, Failed

LEMMA InitInv == Init => Inv
<1> SUFFICES ASSUME Init PROVE Inv
    OBVIOUS
<1> USE LookupsAssumption DEF Init
<1>1. TypeOK
    BY DEF TypeOK, Busy
<1>2. InStep /\ Alone /\ Outcomes
    BY DEF InStep, Alone, Outcomes, Busy
<1> QED
    BY <1>1, <1>2 DEF Inv

LEMMA CallKeeps ==
    ASSUME Inv, NEW t \in Threads, Call(t)
    PROVE  Inv'
<1> USE LookupsAssumption DEF Inv, Call
<1>1. PICK l \in Lookups :
        /\ lookup' = [lookup EXCEPT ![t] = l]
        /\ \/ /\ l.op = "user" /\ Authentication = "false"
              /\ pc' = [pc EXCEPT ![t] = "return"]
              /\ outcome' = [outcome EXCEPT ![t] = Found(Guest)]
           \/ /\ ~ (l.op = "user" /\ Authentication = "false")
              /\ pc' = [pc EXCEPT ![t] = "connect"]
              /\ UNCHANGED outcome
    OBVIOUS
<1>2. /\ pc'[t] \in {"connect", "return"} /\ lookup'[t] = l
      /\ pc'[t] = "return" =>
            l.op = "user" /\ Authentication = "false" /\ outcome'[t] = Found(Guest)
      /\ pc'[t] = "connect" => ~ (l.op = "user" /\ Authentication = "false")
      /\ pc' \in [Threads -> {"idle", "connect", "search", "read", "close", "return"}]
      /\ \A u \in Threads : u # t => pc'[u] = pc[u] /\ lookup'[u] = lookup[u] /\ outcome'[u] = outcome[u]
    <2>1. CASE l.op = "user" /\ Authentication = "false"
        BY <2>1, <1>1 DEF TypeOK
    <2>2. CASE ~ (l.op = "user" /\ Authentication = "false")
        BY <2>2, <1>1 DEF TypeOK
    <2> QED
        BY <2>1, <2>2
<1>3. Busy' = Busy \cup {t} /\ t \notin Busy
    BY <1>2 DEF Busy
<1>4. TypeOK'
    <2>1. /\ lookup' \in [Threads -> Lookups \cup {Null}]
          /\ outcome' = [u \in Threads |-> outcome'[u]]
        BY <1>1 DEF TypeOK
    <2>2. overlapped' \cup refused' \subseteq Busy'
        BY <1>3 DEF TypeOK
    <2>3. ASSUME NEW u \in Threads
          PROVE  /\ pc'[u] \in {"search", "read"} => own'[u] # Null
                 /\ pc'[u] = "read" <=> source'[u] # Null
                 /\ pc'[u] \in {"close", "return"} => outcome'[u] \in {Failed, Found(outcome'[u].value)}
        <3>1. CASE u = t
            BY <3>1, <1>2, FoundIsNotFailed DEF TypeOK
        <3>2. CASE u # t
            BY <3>2, <1>2 DEF TypeOK
        <3> QED
            BY <3>1, <3>2
    <2> QED
        BY <1>2, <2>1, <2>2, <2>3 DEF TypeOK, Found, Failed
<1>5. InStep'
    BY <1>2 DEF InStep
<1>6. Alone'
    <2>1. CASE Busy = {}
        BY <2>1, <1>2, <1>3 DEF Alone, TypeOK, InStep
    <2>2. CASE Busy # {}
        BY <2>2, <1>3 DEF Alone, TypeOK
    <2> QED
        BY <2>1, <2>2
<1>7. Outcomes'
    <2> SUFFICES ASSUME NEW u \in Threads, pc'[u] \in {"close", "return"}
                 PROVE  Settled(u)'
        BY DEF Outcomes
    <2>1. CASE u = t
        BY <2>1, <1>2, FoundIsNotFailed DEF Settled
    <2>2. CASE u # t
        BY <2>2, <1>2, SettledStays DEF Outcomes
    <2> QED
        BY <2>1, <2>2
<1> QED
    BY <1>4, <1>5, <1>6, <1>7

LEMMA InitConnectionKeeps ==
    ASSUME Inv, NEW t \in Threads, InitConnection(t)
    PROVE  Inv'
<1> USE LookupsAssumption DEF Inv, InitConnection
<1>1. /\ pc'[t] \in {"search", "close"}
      /\ pc' \in [Threads -> {"idle", "connect", "search", "read", "close", "return"}]
      /\ pc'[t] = "search" =>
            /\ context' = own'[t] /\ own'[t] \in Connections /\ live' = live \cup {own'[t]}
            /\ UNCHANGED <<outcome, refused>>
      /\ pc'[t] = "close" =>
            /\ outcome'[t] = Failed /\ refused' = refused \cup {t}
            /\ UNCHANGED <<live, context, own>>
      /\ own' \in [Threads -> Connections \cup {Null}]
      /\ outcome' = [u \in Threads |-> outcome'[u]]
      /\ refused \subseteq refused' /\ refused' \subseteq refused \cup {t}
      /\ \A u \in Threads : u # t => pc'[u] = pc[u] /\ own'[u] = own[u] /\ outcome'[u] = outcome[u]
    <2>1. CASE Refuse(t)
        BY <2>1 DEF TypeOK, Refuse, Fail
    <2>2. CASE ~ Refuse(t)
        BY <2>2 DEF TypeOK, Unused
    <2> QED
        BY <2>1, <2>2
<1>2. Busy' = Busy /\ t \in Busy
    BY <1>1 DEF Busy
<1>3. TypeOK'
    BY <1>1, <1>2 DEF TypeOK, Failed, Found
<1>4. InStep'
    BY <1>1 DEF InStep
<1>5. Alone'
    BY <1>1, <1>2 DEF Alone, InStep, TypeOK
<1>6. Outcomes'
    <2> SUFFICES ASSUME NEW u \in Threads, pc'[u] \in {"close", "return"}
                 PROVE  Settled(u)'
        BY DEF Outcomes
    <2>1. CASE u = t
        BY <2>1, <1>1 DEF Settled, Failed
    <2>2. CASE u # t
        BY <2>2, <1>1, SettledStays DEF Outcomes
    <2> QED
        BY <2>1, <2>2
<1> QED
    BY <1>3, <1>4, <1>5, <1>6

LEMMA SearchKeeps ==
    ASSUME Inv, NEW t \in Threads, Search(t)
    PROVE  Inv'
<1> USE LookupsAssumption DEF Inv, Search
<1>1. /\ pc[t] = "search" /\ pc'[t] \in {"read", "close"}
      /\ pc' \in [Threads -> {"idle", "connect", "search", "read", "close", "return"}]
      /\ source' \in [Threads -> Connections \cup {Null}]
      /\ pc'[t] = "read" => source'[t] \in Connections /\ UNCHANGED <<outcome, refused>>
      /\ pc'[t] = "close" =>
            /\ UNCHANGED source
            /\ outcome'[t] = Failed
            /\ t \in refused' \/ ~ (Context(t) \subseteq live)
      /\ outcome' = [u \in Threads |-> outcome'[u]]
      /\ refused \subseteq refused' /\ refused' \subseteq refused \cup {t}
      /\ \A u \in Threads : u # t => pc'[u] = pc[u] /\ source'[u] = source[u] /\ outcome'[u] = outcome[u]
    <2>1. CASE Refuse(t)
        BY <2>1 DEF TypeOK, Refuse, Fail
    <2>2. CASE ~ Refuse(t) /\ Fail(t)
        BY <2>2 DEF TypeOK, Fail
    <2>3. CASE ~ Refuse(t) /\ ~ Fail(t)
        BY <2>3 DEF TypeOK
    <2> QED
        BY <2>1, <2>2, <2>3
<1>2. Busy' = Busy /\ t \in Busy
    BY <1>1 DEF Busy
<1>3. TypeOK'
    BY <1>1, <1>2 DEF TypeOK, Failed, Found
<1>4. InStep'
    BY <1>1 DEF InStep
<1>5. Alone'
    BY <1>1, <1>2 DEF Alone
<1>6. t \in overlapped \/ Context(t) \subseteq live
    BY <1>1, <1>2 DEF Alone, Context
<1>7. Outcomes'
    <2> SUFFICES ASSUME NEW u \in Threads, pc'[u] \in {"close", "return"}
                 PROVE  Settled(u)'
        BY DEF Outcomes
    <2>1. CASE u = t
        BY <2>1, <1>1 , <1>6 DEF Settled, Failed
    <2>2. CASE u # t
        BY <2>2, <1>1, SettledStays DEF Outcomes
    <2> QED
        BY <2>1, <2>2
<1> QED
    BY <1>3, <1>4, <1>5, <1>7

LEMMA ReadEntriesKeeps ==
    ASSUME Inv, NEW t \in Threads, ReadEntries(t)
    PROVE  Inv'
<1> USE LookupsAssumption DEF Inv, ReadEntries
<1>1. /\ pc[t] = "read" /\ pc'[t] = "close"
      /\ pc' \in [Threads -> {"idle", "connect", "search", "read", "close", "return"}]
      /\ source' \in [Threads -> Connections \cup {Null}] /\ source'[t] = Null
      /\ abandoned' \subseteq Connections
      /\ \/ outcome'[t] = Found(Collect(lookup[t])) /\ Incomplete \notin Range(Entries[lookup[t]])
         \/ outcome'[t] = Failed /\ (t \in refused' \/ Incomplete \in Range(Entries[lookup[t]]))
      /\ outcome' = [u \in Threads |-> outcome'[u]]
      /\ refused \subseteq refused' /\ refused' \subseteq refused \cup {t}
      /\ \A u \in Threads : u # t => pc'[u] = pc[u] /\ source'[u] = source[u] /\ outcome'[u] = outcome[u]
    <2>1. CASE Refuse(t)
        BY <2>1 DEF TypeOK, Refuse, Fail
    <2>2. CASE ~ Refuse(t) /\ Fail(t)
        BY <2>2 DEF TypeOK, Fail
    <2>3. CASE ~ Refuse(t) /\ ~ Fail(t)
        BY <2>3 DEF TypeOK
    <2> QED
        BY <2>1, <2>2, <2>3
<1>2. Busy' = Busy /\ t \in Busy
    BY <1>1 DEF Busy
<1>3. TypeOK'
    BY <1>1, <1>2, FoundIsNotFailed DEF TypeOK, Failed
<1>4. InStep'
    BY <1>1 DEF InStep
<1>5. Alone'
    BY <1>1, <1>2 DEF Alone
<1>6. lookup'[t] = lookup[t] /\ Range(Entries[lookup[t]])' = Range(Entries[lookup[t]])
    BY Zenon DEF Range
<1>7. Collect(lookup[t])' = Collect(lookup[t])
    <2>1. Collect(lookup[t])' = Collect(lookup'[t])
        OBVIOUS
    <2>2. Collect(lookup'[t]) = Collect(lookup[t])
        OBVIOUS
    <2> QED
        BY <2>1, <2>2
<1>8. Outcomes'
    <2> SUFFICES ASSUME NEW u \in Threads, pc'[u] \in {"close", "return"}
                 PROVE  Settled(u)'
        BY DEF Outcomes
    <2>1. CASE u = t
        BY <2>1, <1>1 , <1>6, <1>7, FoundIsNotFailed DEF Settled, Failed, InStep
    <2>2. CASE u # t
        BY <2>2, <1>1, SettledStays DEF Outcomes
    <2> QED
        BY <2>1, <2>2
<1> QED
    BY <1>3, <1>4, <1>5, <1>8

LEMMA CloseConnectionKeeps ==
    ASSUME Inv, NEW t \in Threads, CloseConnection(t)
    PROVE  Inv'
<1> USE LookupsAssumption DEF Inv, CloseConnection
<1>1. PICK c \in Context(t) : live' = live \ {c}
    OBVIOUS
<1>2. /\ pc[t] = "close" /\ pc'[t] = "return"
      /\ pc' \in [Threads -> {"idle", "connect", "search", "read", "close", "return"}]
      /\ \A u \in Threads : u # t => pc'[u] = pc[u]
    BY DEF TypeOK
<1>3. Busy' = Busy /\ t \in Busy
    BY <1>2 DEF Busy
<1>4. TypeOK'
    BY <1>1, <1>2, <1>3 DEF TypeOK, Failed, Found
<1>5. InStep'
    BY <1>2 DEF InStep
<1>6. Alone'
    <2> SUFFICES ASSUME t \notin overlapped, Busy = {t}
                 PROVE  own[t] \notin live'
        BY <1>2, <1>3 DEF Alone
    <2>1. CASE own[t] = Null
        BY <2>1, <1>1 DEF TypeOK
    <2>2. CASE own[t] # Null
        BY <2>2, <1>1, <1>2, <1>3 DEF Alone, Context
    <2> QED
        BY <2>1, <2>2
<1>7. Outcomes'
    BY <1>2, SettledStays DEF Outcomes
<1> QED
    BY <1>4, <1>5, <1>6, <1>7

LEMMA ReturnKeeps ==
    ASSUME Inv, NEW t \in Threads, Return(t)
    PROVE  Inv'
<1> USE LookupsAssumption DEF Inv, Return
<1>1. /\ pc'[t] = "idle" /\ own'[t] = Null
      /\ pc' \in [Threads -> {"idle", "connect", "search", "read", "close", "return"}]
      /\ own' \in [Threads -> Connections \cup {Null}]
      /\ lookup' \in [Threads -> Lookups \cup {Null}]
      /\ outcome' = [u \in Threads |-> outcome'[u]]
      /\ \A u \in Threads : u # t => /\ pc'[u] = pc[u] /\ own'[u] = own[u]
                                     /\ lookup'[u] = lookup[u] /\ outcome'[u] = outcome[u]
    BY DEF TypeOK
<1>2. Busy' = Busy \ {t} /\ t \in Busy
    BY <1>1 DEF Busy
<1>3. TypeOK'
    BY <1>1, <1>2 DEF TypeOK, Failed, Found
<1>4. InStep'
    BY <1>1 DEF InStep
<1>5. Alone'
    BY <1>1, <1>2 DEF Alone, Busy
<1>6. Outcomes'
    BY <1>1, SettledStays DEF Outcomes
<1> QED
    BY <1>3, <1>4, <1>5, <1>6

LEMMA FinalizeKeeps ==
    ASSUME Inv, Finalize
    PROVE  Inv'
<1> USE LookupsAssumption DEF Inv, Finalize
<1>1. PICK c \in (live \cup abandoned) \ Referenced :
        live' = live \ {c} /\ abandoned' = abandoned \ {c}
    OBVIOUS
<1>2. Busy' = Busy
    BY DEF Busy
<1>3. TypeOK'
    BY <1>1, <1>2 DEF TypeOK, Failed, Found
<1>4. InStep'
    BY DEF InStep
<1>5. Alone'
    BY <1>1, <1>2 DEF Alone, Referenced, Busy
<1>6. Outcomes'
    BY SettledStays DEF Outcomes
<1> QED
    BY <1>3, <1>4, <1>5, <1>6

LEMMA StutterKeeps ==
    ASSUME Inv, UNCHANGED vars
    PROVE  Inv'
<1> USE DEF Inv, vars
<1>1. Busy' = Busy
    BY DEF Busy
<1>2. TypeOK' /\ InStep' /\ Alone'
    BY <1>1 DEF TypeOK, InStep, Alone, Failed, Found
<1>3. Outcomes'
    BY SettledStays DEF Outcomes
<1> QED
    BY <1>2, <1>3

LEMMA Invariance == Spec => []Inv
<1>1. Inv /\ [Next]_vars => Inv'
    BY CallKeeps, InitConnectionKeeps, SearchKeeps, ReadEntriesKeeps, CloseConnectionKeeps,
       ReturnKeeps, FinalizeKeeps, StutterKeeps DEF Next
<1> QED
    BY InitInv, <1>1, PTL DEF Spec

\* The variables take the values meant for them; a thread that searches or
\* reads has a connection.
THEOREM TypeCorrect == Spec => []TypeOK
<1>1. Inv => TypeOK
    BY DEF Inv
<1> QED
    BY Invariance, <1>1, PTL

\* However many lookups share the field, whatever fails and whoever closes whose
\* connection, what a lookup gives is what the directory has for it.
THEOREM TruthfulLookup == Spec => []LookupIsTruthful
<1>1. Inv => LookupIsTruthful
    BY DEF Inv, Outcomes, Settled, LookupIsTruthful
<1> QED
    BY Invariance, <1>1, PTL

\* A lookup fails because of the directory, of an entry or of another lookup
\* beside it, and never because of the lookups before it.
THEOREM CauseOfFailure == Spec => []FailureHasCause
<1>1. Inv => FailureHasCause
    BY DEF Inv, Outcomes, Settled, FailureHasCause
<1> QED
    BY Invariance, <1>1, PTL

\* A lookup that ran alone has closed its connection when it returns.
THEOREM ClosedAlone == Spec => []NoLeakAlone
<1>1. Inv => NoLeakAlone
    BY DEF Inv, Alone, Busy, NoLeakAlone
<1> QED
    BY Invariance, <1>1, PTL
=============================================================================

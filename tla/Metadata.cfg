CONSTANTS
    Null = Null
    t1 = t1
    t2 = t2
    t3 = t3
    c1 = c1
    c2 = c2
    i1 = i1
    i2 = i2
    missing = missing
    ItemIds <- MCItemIds
    Items <- MCItems
    Set <- MCSet
    Threads = {t1, t2}
    Connections = {c1}
    Retries = 1
    Requests <- MCRequests
    Units <- MCUnits
    Burst = 4
    Faulty = TRUE
SPECIFICATION Spec
INVARIANTS TypeOK PoolAccounted AnswerBelongs
PROPERTIES RequestsEnd

CONSTANTS
    Null = Null
    Other = Other
    Incomplete = Incomplete
    Guest = Guest
    t1 = t1
    t2 = t2
    c1 = c1
    c2 = c2
    c3 = c3
    c4 = c4
    c5 = c5
    Threads <- MCThreads
    Connections <- MCConnections
    Lookups <- MCLookups
    Entries <- MCEntries
    Authentication = "true"
    Faulty = TRUE
SPECIFICATION Spec
SYMMETRY Symmetry
INVARIANTS TypeOK LookupIsTruthful FailureHasCause NoLeakAlone

CONSTANTS
    Null = Null
    Empty = Empty
    Other = Other
    Incomplete = Incomplete
    Guest = Guest
    t1 = t1
    t2 = t2
    c1 = c1
    c2 = c2
    c3 = c3
    c4 = c4
    Threads <- MCThreads
    Ids = {"q1"}
    Owners = {"dr14", "dr59"}
    Contents = {"full"}
    Complete = {"full"}
    Documents <- MCDocuments
    Users <- MCUsers
    Authentication = "true"
    Requests <- MCRequests
    Lookups <- MCLookups
    Entries <- MCEntries
    Connections <- MCConnections
    Errors <- MCErrors
    StatementsFail = TRUE
    DirectoryFails = FALSE
SPECIFICATION Spec
SYMMETRY Symmetry
INVARIANTS ToldIsTrue
PROPERTIES ImplementsPersistence ImplementsStore

CONSTANTS
    Null = Null
    Empty = Empty
    t1 = t1
    t2 = t2
    Threads <- MCThreads
    Ids <- MCIds
    Owners <- MCOwners
    Contents <- MCContents
    Complete <- MCComplete
    Documents <- MCDocuments
    Users <- MCUsers
    Permission <- MCPermission
    Requests <- MCOpenRequests
    Authentication = "false"
    Faulty = FALSE
SPECIFICATION Spec
PROPERTIES OrphansAreForever

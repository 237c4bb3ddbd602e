CONSTANTS
    Null = Null
    t1 = t1
    t2 = t2
    Threads <- MCThreads
    Documents <- MCDocuments
    Blocks <- MCBlocks
    Names <- MCNames
    LowerCase <- MCLowerCase
    Requests <- MCPdfRequests
    Faulty = FALSE
SPECIFICATION Spec
SYMMETRY Symmetry
INVARIANTS PdfIsOwn

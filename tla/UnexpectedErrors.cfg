CONSTANTS
    t1 = t1
    t2 = t2
    t3 = t3
    Threads <- MCThreads
    Errors <- MCErrors
SYMMETRY Symmetry
SPECIFICATION Spec
INVARIANTS UnexpectedErrorAnswers500

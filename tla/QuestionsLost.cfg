CONSTANTS
    Questionnaires <- MCOverlapping
SPECIFICATION Spec
INVARIANTS QuestionsAreCopied
CHECK_DEADLOCK FALSE

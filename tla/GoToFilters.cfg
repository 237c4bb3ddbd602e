CONSTANTS
    Questionnaires <- MCQuestionnaires
SPECIFICATION Spec
INVARIANTS BeginsNest FiltersNest StructureIsCopied DocumentKept FiltersMeanGoTos AskedIsShown
CHECK_DEADLOCK FALSE

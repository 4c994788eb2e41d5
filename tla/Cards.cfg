SPECIFICATION Spec
CONSTANTS
    Call = {c1, c2, c3}
    MaxPriced = 2
    MaxProposals = 1
SYMMETRY Alike
INVARIANTS QuestionIsOpen ApprovedIsFact
PROPERTIES AnswerIsFinal HistoryAddsUp
CHECK_DEADLOCK FALSE

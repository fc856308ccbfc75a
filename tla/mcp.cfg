SPECIFICATION Spec
CONSTANTS
    c1 = c1
    c2 = c2
    Conn = {c1, c2}
    Requests <- MCRequests
    AppendMode = TRUE
INVARIANTS
    AnswersAsContracted
    
PROPERTIES
    NothingBeforeReady
    RequestsAnswered

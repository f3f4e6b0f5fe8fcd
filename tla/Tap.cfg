SPECIFICATION TapSpec
CONSTANTS
    None = None
    Bail = Bail
    File = File
    MaxNumber = 3
    MaxResults = 3
    MaxRemarks = 2
INVARIANTS
    NumberedOnce
    ResultsInOrder
    CommentsStay
CHECK_DEADLOCK FALSE

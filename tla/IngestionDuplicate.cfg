SPECIFICATION Spec
CONSTANTS
    Call = {c1, c2}
    Key = {k1}
    NoKey = NoKey
    Card = {card1}
    MaxId = 2
    MaxAttempts = 1
    Failures = {"answer"}
CHECK_DEADLOCK FALSE
INVARIANTS
    OneCardPerSubmission

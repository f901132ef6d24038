SPECIFICATION Spec
CONSTANTS
    Lengths = {17, 30, 53, 78, 106, 154}
INVARIANTS
    PatternsIntact
    LossAccounted
CHECK_DEADLOCK FALSE

SPECIFICATION Spec
CONSTANTS
    Port = {p1}
    Dev = {x1}
    Name = {n1}
    DpdkDisable = FALSE
    MaxEvents = 3
    NONE = NONE
    BAD = BAD
INVARIANTS
    CommitReturns

SPECIFICATION Spec
CONSTANTS
    e0 = e0
    e1 = e1
    e0v = e0v
    b0 = b0
    l0 = l0
    Phys <- MCPhys
    Bond <- MCBond
    Loop <- MCLoop
    Sub <- MCSub
    Sup <- MCSup
    OpaqueReset = TRUE
    OuterTag = OuterTag
    InnerTag = InnerTag
    MaxTags = 2
    NONE = NONE
INVARIANTS
    LinuxSeesWireFrame

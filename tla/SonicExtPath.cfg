SPECIFICATION FairSpec
CONSTANTS
    e0 = e0
    e1 = e1
    e0v = e0v
    b0 = b0
    l0 = l0
    Phys <- MCPhys
    Bond <- MCBond
    Loop <- MCLoop
    Sub <- MCSub
    Sup <- MCSup
    OpaqueReset = FALSE
    OuterTag = OuterTag
    InnerTag = InnerTag
    MaxTags = 1
    NONE = NONE
INVARIANTS
    HostXcOnMainTaps
    CaptureOnWirePorts
    RedirectOnAggregateTaps
    RedirectLandsOnMember
    LinuxSeesWireFrame
PROPERTIES
    NoPuntOnAggregateTap
    EveryPacketLeaves

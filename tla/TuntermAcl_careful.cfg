SPECIFICATION FairSpec
CONSTANTS
    Table = {t1, t2}
    SwIf = {s1, s2}
    a4 = a4
    c6 = c6
    Dst <- MCDst
    V6Dst <- MCV6Dst
    Hop = {h1}
    Dpo = {p1, p2}
    NONE = NONE
    BAD = BAD
    MaxRules = 2
    Careful = TRUE
INVARIANTS
    TypeOK
    RedirectsOwned
    SessionsMirrorRedirects
    SlotsSound
    FeatureIffAttached
    VerdictFollowsAcl
PROPERTIES
    ImplementsService
    SessionsConverge

SPECIFICATION Spec
CONSTANTS
    Phys = {p1, p2}
    SwIf = {p1, p2, sub}
    Thread = {w1, w2}
    Rate = {0, 2, 3}
    U32 = 4
    MaxFrame = 2
SYMMETRY Symm
INVARIANTS
    SamplersReady
    ArcsAsConfigured
PROPERTIES
    SamplesHonest

SPECIFICATION MCSpec
CONSTANTS
    TicksPerSec = 4
    MicrosPerSec = 10
    MicrosPerMilli = 4
    MaxTicks = 7
    MaxPauses = 3
    Handles = {h1, h2, h3}
    h1 = h1
    h2 = h2
    h3 = h3
    Threads = {t1, t2, t3}
    t1 = t1
    t2 = t2
    t3 = t3
    Loads <- MCLoads
    Word = 8
    Reference = 12
    Scale = 8
    MaxLoads = 3
    MaxRaw = 34
SYMMETRY Symmetry
CHECK_DEADLOCK FALSE
INVARIANTS
    ReadingBounded
    RightsHandedOn
    UsesFitState
    WeightWasThere
    OneAnswerEach
    NoErrorIsSuccess
PROPERTY KeepsContract

SPECIFICATION Spec
CONSTANTS
    Systems = {s1, s2}
    s1 = s1
    s2 = s2
    Files = {f1, f2}
    f1 = f1
    f2 = f2
    Names = {"a", "b"}
    Dirs = {"d"}
    Nowhere = {"x/a"}
    Cut <- MCCut
    Modes <- MCModes
    MaxOpen = 2
    MaxLen = 2
SYMMETRY Symmetry
VIEW ExceptThrown
INVARIANTS
    MountOwned
    HandlesBalanced
    ExistsHonest
    AckedBytesStored

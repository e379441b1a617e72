SPECIFICATION PinSpec
CONSTANTS
    Handles = {h1, h2, h3}
    h1 = h1
    h2 = h2
    h3 = h3
SYMMETRY Symmetry
INVARIANT ReadOnlyAsInput

SPECIFICATION Spec
CONSTANTS
    Widths = {2, 4, 6, 8}
    Heights = {2, 4, 6, 8}
    MaxLength = 9
    Other = {5}
INVARIANTS
    LumaIsWindow
    ColourFollowsPixels
    UnitsAreWhole
CHECK_DEADLOCK FALSE

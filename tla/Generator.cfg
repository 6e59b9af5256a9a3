\* Headers in the plain style with one defect; two runs over one directory.
CONSTANTS
    Records = {A, B}
    Names = {m}
    Fields = {f}
    Plain = Plain
    Bad = Bad
    None = None
    Quirks = {}
    MaxFaults = 1
    Modules = {p, q}
    MaxRuns = 2
SPECIFICATION GenSpec
SYMMETRY Symmetry
CHECK_DEADLOCK FALSE
INVARIANTS
    
    
    NoDanglingName
    UmbrellaIsWhole
    OneDeclarationPerName
    GlobbedPairsMatch
    LeavesNoDebris

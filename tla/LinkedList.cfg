CONSTANTS
    Addr = {a1, a2, a3}
    Sentinel = Sentinel
    Value = {0, 7}
    IdSpace = 6
SYMMETRY Symmetry
SPECIFICATION Spec
INVARIANTS ListInv
PROPERTIES ImplementsList

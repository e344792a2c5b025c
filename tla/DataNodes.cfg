CONSTANTS
    Node = {n1, n2, n3, n4}
    Handle = {h1, h2}
    None = None
    Keys = 1
    MaxLength = 2
SYMMETRY Symmetry
SPECIFICATION Spec
INVARIANTS
    
    ThreadExclusive
    
    
CHECK_DEADLOCK FALSE

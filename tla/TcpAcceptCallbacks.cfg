CONSTANTS
    Sock = {s1, s2}
    Created = {s1}
    None = None
    MaxOps = 1
    MaxEvents = 2
SPECIFICATION Spec
PROPERTIES CallbacksKept

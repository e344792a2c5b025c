SPECIFICATION Spec
CONSTANTS
    Addr = {a1}
    Plugin = {p1}
    Client = {}
    NULL = NULL
    MaxId = 2
    RetryLimits = {1}
    RetryCap = 1
    CallbackOps = {"Close"}
INVARIANTS
    CallbackKeepsRequest

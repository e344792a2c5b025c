CONSTANTS
    Sock = {s1}
    Client = {s1, t1}
    Host = {h1, h2}
    Literal = Literal
    Names = {h1, Literal}
    None = None
    Ttls = {0, 1}
    DefaultTtl = 1
    AnswerTtls = {0, 2}
    kMaxCacheEntries = 1
    MaxOps = 1
    MaxEvents = 1
SPECIFICATION FairSpec
INVARIANTS CacheInv  ClosedOnce LetGo
PROPERTIES Answered

SPECIFICATION EmbedSpec
CONSTANTS
    r1 = r1
    r2 = r2
    t1 = t1
    t2 = t2
    t3 = t3
    Requests = {r1, r2}
    Asked <- MCAsked
    NoFallback <- OnlyR2
    Bypass <- Nobody
    Miss = Miss
    Urls = {u1, u2}
    MaxBatch = 2
    MaxConcurrency = 1
    MaxRetries = 1
    MaxAdds = 3
INVARIANTS Aligned SlotsAccounted
\* All requests may have been answered.
CHECK_DEADLOCK FALSE

\* Two ranks and an inadmissible prompt.
CONSTANTS
    p = p
    s = s
    t = t
    x = x
    m = m
    Nobody = Nobody
    Requests = {p, x}
    Malformed = {}
    Rejected = {x}
    Streams = {}
    Faulty = {}
    Passes <- OneEach
    TpSize = 2
    Faults = {}
SPECIFICATION FairServerSpec
INVARIANTS
    WorkersStay

\* One rank or two: a plain request, a stream, one that makes a step raise, an inadmissible one.
CONSTANTS
    p = p
    s = s
    t = t
    x = x
    m = m
    Nobody = Nobody
    Requests = {p, s, t, x, m}
    Malformed = {m}
    Rejected = {x}
    Streams = {s, t}
    Faulty = {t}
    Passes <- OneEach
    TpSize = 2
    Faults = {"gone", "memory", "error", "interrupt", "slow"}
SPECIFICATION FairServerSpec
INVARIANTS
    ServerTypeOK
    OneInference
    AnsweredInFull
    RanksInStep
    FailedForReason
PROPERTIES
    EveryRequestEnds
    AnsweredUnlessDisturbed
    ImplementsService

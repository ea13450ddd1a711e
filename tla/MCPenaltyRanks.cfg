\* A prompt with a repetition penalty, on one rank or two.
CONSTANTS
    ComputeThreads = {0, 1}
    MemoryThreads = {0, 1}
    Nothing = Nothing
    MinBlockN = 2
    Launches <- MCLaunches
    VocabSize = 6
    TpSizes = {1, 2}
    BlockN = 3
    DefaultK = 2
    NucleusK = 3
    MinusInf <- MCMinusInf
    PDenominator = 4
    Weight <- MCWeight
    Batches <- PenalisedPrompt
    s1 = s1
    s2 = s2
    s3 = s3
    DecodeSeqs = {s1, s2, s3}
    SlotOf <- MCSlotOf
    TableOf <- MCTableOf
    StartTokens <- MCStart
    GraphSeqs = 4
    GraphMax = {2, 4}
    PageSize = 2
    TableWidth = 4
    TokenBound = 4
    OomBound = 1
SPECIFICATION DeviceSpec
\* A launch, a choice of tokens and a set of sequences come to an end.
CHECK_DEADLOCK FALSE
INVARIANT RanksAgree

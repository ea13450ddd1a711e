\* Three requests, three blocks of four tokens, early and fresh out-of-memory errors.
CONSTANTS
    a = a
    b = b
    c = c
    d = d
    z = z
    Seqs = {a, b, c}
    NumBlocks = 3
    BlockSize = 4
    MaxLen = 9
    Prompt <- TightPrompt
    MaxTokens <- TightMax
    Vocab = {1}
    MaxNumSeqs = 2
    MaxPrefixStates = 1
    ConvKernel = 2
    MaxOOMs = 3
    LateOOM = {"fresh"}
    MaxNumBatchedTokens = 4
    MaxPrefillChunkTokens = 4
    EnablePrefixCaching = TRUE
    NumSchedulerSteps = 1
    ServeAfterError = FALSE
SPECIFICATION FairSpec
INVARIANTS
    QueuedOnce
    ContextExact
    ConvExact
    WritesOwnBlocks
    GatherExact
    SnapshotsExact
    HitsExact
    StepBudget
    NoLeak
PROPERTIES
    AnsweredOrFails

\* A snapshot evicted by the limit and a block registered twice.
CONSTANTS
    a = a
    b = b
    c = c
    d = d
    z = z
    Seqs = {a, b, c, d}
    NumBlocks = 10
    BlockSize = 2
    MaxLen = 13
    Prompt <- StalePrompt
    MaxTokens <- StaleMax
    Vocab = {1}
    MaxNumSeqs = 3
    MaxPrefixStates = 1
    ConvKernel = 2
    MaxOOMs = 0
    LateOOM = {"fresh"}
    MaxNumBatchedTokens = 4
    MaxPrefillChunkTokens = 2
    EnablePrefixCaching = TRUE
    NumSchedulerSteps = 1
    ServeAfterError = FALSE
SPECIFICATION EngineSpec
INVARIANTS
    ContextExact

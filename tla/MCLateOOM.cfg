\* An out-of-memory error after the states of a resumed pass were updated.
CONSTANTS
    a = a
    b = b
    c = c
    d = d
    z = z
    Seqs = {a, b, c}
    NumBlocks = 8
    BlockSize = 2
    MaxLen = 6
    Prompt <- SharedPrompt
    MaxTokens <- SharedMax
    Vocab = {1}
    MaxNumSeqs = 2
    MaxPrefixStates = 2
    ConvKernel = 2
    MaxOOMs = 1
    LateOOM = {"fresh", "resumed"}
    MaxNumBatchedTokens = 4
    MaxPrefillChunkTokens = 2
    EnablePrefixCaching = TRUE
    NumSchedulerSteps = 1
    ServeAfterError = FALSE
SPECIFICATION EngineSpec
INVARIANTS
    ContextExact

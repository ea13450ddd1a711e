\* Two decode sub-steps, four blocks, and a caller that goes on after an error.
CONSTANTS
    a = a
    b = b
    c = c
    d = d
    z = z
    Seqs = {a, b, c}
    NumBlocks = 4
    BlockSize = 2
    MaxLen = 7
    Prompt <- DecodePrompt
    MaxTokens <- DecodeMax
    Vocab = {1}
    MaxNumSeqs = 2
    MaxPrefixStates = 2
    ConvKernel = 2
    MaxOOMs = 1
    LateOOM = {"fresh"}
    MaxNumBatchedTokens = 3
    MaxPrefillChunkTokens = 2
    EnablePrefixCaching = TRUE
    NumSchedulerSteps = 2
    ServeAfterError = TRUE
SPECIFICATION EngineSpec

    
PROPERTIES
    
    PoolContract

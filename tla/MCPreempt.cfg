\* Two requests that outgrow three blocks.
CONSTANTS
    a = a
    b = b
    c = c
    d = d
    z = z
    Seqs = {a, b}
    NumBlocks = 3
    BlockSize = 2
    MaxLen = 7
    Prompt <- DecodePrompt
    MaxTokens <- DecodeMax
    Vocab = {1}
    MaxNumSeqs = 2
    MaxPrefixStates = 2
    ConvKernel = 2
    MaxOOMs = 0
    LateOOM = {"fresh"}
    MaxNumBatchedTokens = 4
    MaxPrefillChunkTokens = 2
    EnablePrefixCaching = TRUE
    NumSchedulerSteps = 1
    ServeAfterError = FALSE
SPECIFICATION EngineSpec
INVARIANTS
    PreemptionSurvived

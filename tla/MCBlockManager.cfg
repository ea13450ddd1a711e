\* Pool of 5 blocks of 2 tokens, 3 sequences of up to 6 tokens.
CONSTANTS
    Seqs = {s1, s2, s3}
    NumBlocks = 5
    BlockSize = 2
    MaxLen = 6
SYMMETRY SeqSymmetry
SPECIFICATION PoolSpec
INVARIANTS
    PoolTypeOK
    FreeUsedPartition
    RefCountExact
    FreeUncounted
    SharedFromStart
PROPERTIES
    FreshBlocksPrivate
    FreedOnlyByLastHolder

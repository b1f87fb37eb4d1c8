SPECIFICATION FairSpec
CONSTANTS
    Size = 5
    Value = {0, 1}
    IntMax = 7
INVARIANT TypeOK
INVARIANT CopyInv
PROPERTY PromiseSpec
PROPERTY CallsReturn

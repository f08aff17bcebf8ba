\* Any one call, with a file of up to three units that changes once; with a
\* batch size of three a batch takes two reads.
CONSTANTS
    c1 = c1
    Calls <- OneCall
    Ops <- AllOps
    Sizes <- FileSizes
    BatchSizes <- BatchChoices
    DefaultBatch = 2
    MaxRead = 2
    Window = 2
    UnaryTimeout = 2
    StreamTimeout = 3
    MaxAge = 4
    MaxChanges = 1
SPECIFICATION FairSpec
INVARIANTS UploadComplete AcceptedWhole SignatureFresh NoStreamLeft
PROPERTIES ReturnsOnceSigned
CHECK_DEADLOCK FALSE
